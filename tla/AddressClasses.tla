---------------------------- MODULE AddressClasses ----------------------------
(* classifyAddress of src/policy/url-policy.ts: which networks an IP address        *)
(* belongs to, and the ranges it is compared with.                                  *)
EXTENDS Integers, Sequences

\* Addresses are sequences of numbers: four octets or eight groups.
Octet == 0 .. 255
Group == 0 .. 65535
Ipv4 == {a \in Seq(Octet) : Len(a) = 4}
Ipv6 == {a \in Seq(Group) : Len(a) = 8}
Addresses == Ipv4 \union Ipv6

METADATA_IPV4 == {<<169, 254, 169, 254>>, <<169, 254, 170, 2>>, <<169, 254, 170, 23>>,
                  <<100, 100, 100, 200>>, <<168, 63, 129, 16>>}
METADATA_IPV6 == {<<64768, 3778, 0, 0, 0, 0, 0, 596>>, <<65152, 0, 0, 0, 0, 0, 43518, 43518>>}

classifyIpv4(a) ==
    IF a \in METADATA_IPV4 THEN "metadata"
    ELSE IF a[1] = 127 THEN "loopback"
    ELSE IF a[1] = 10 \/ (a[1] = 172 /\ a[2] \in 16 .. 31) \/ (a[1] = 192 /\ a[2] = 168) THEN "private"
    ELSE IF a[1] = 169 /\ a[2] = 254 THEN "link-local"
    ELSE IF a[1] \in 224 .. 239 THEN "multicast"
    ELSE IF
         \/ a[1] >= 240 \/ a[1] = 0 \/ (a[1] = 100 /\ a[2] \in 64 .. 127)
         \/ (a[1] = 192 /\ a[2] = 0 /\ a[3] \in {0, 2}) \/ (a[1] = 192 /\ a[2] = 88 /\ a[3] = 99)
         \/ (a[1] = 198 /\ a[2] \in 18 .. 19) \/ (a[1] = 198 /\ a[2] = 51 /\ a[3] = 100)
         \/ (a[1] = 203 /\ a[2] = 0 /\ a[3] = 113) THEN "reserved"
    ELSE "public"

\* An IPv4 address written as ::ffff:a.b.c.d.
isIpv4Mapped(g) == (\A i \in 1 .. 5 : g[i] = 0) /\ g[6] = 65535
Embedded(g) == <<g[7] \div 256, g[7] % 256, g[8] \div 256, g[8] % 256>>

\* What the bits of a group beyond the prefix count for: of a group of 16 bits that it
\* does not reach all of them, of one that it fills none.
Unit(bits, i) ==
    LET rest == bits - 16 * (i - 1)
    IN  2 ^ (16 - (IF rest > 16 THEN 16 ELSE IF rest < 0 THEN 0 ELSE rest))

\* The first bits of the groups are those of the prefix.
hasIpv6Prefix(g, prefix, bits) ==
    \A i \in 1 .. 8 :
        LET expected == IF i \in DOMAIN prefix THEN prefix[i] ELSE 0
        IN  g[i] \div Unit(bits, i) = expected \div Unit(bits, i)

classifyIpv6(g) ==
    IF g \in METADATA_IPV6 THEN "metadata"
    ELSE IF \A i \in 1 .. 8 : g[i] = 0 THEN "reserved"
    ELSE IF \A i \in 1 .. 8 : g[i] = (IF i = 8 THEN 1 ELSE 0) THEN "loopback"
    ELSE IF hasIpv6Prefix(g, <<64512>>, 7) THEN "private"
    ELSE IF hasIpv6Prefix(g, <<65152>>, 10) THEN "link-local"
    ELSE IF hasIpv6Prefix(g, <<65280>>, 8) THEN "multicast"
    ELSE IF
         \/ hasIpv6Prefix(g, <<8193, 3512>>, 32) \/ hasIpv6Prefix(g, <<8193, 0>>, 32)
         \/ hasIpv6Prefix(g, <<8193, 2, 0>>, 48) \/ hasIpv6Prefix(g, <<256, 0>>, 32)
         \/ hasIpv6Prefix(g, <<0>>, 96) THEN "reserved"
    ELSE "public"

classifyAddress(a) == IF Len(a) = 4 THEN classifyIpv4(a)
                      ELSE IF isIpv4Mapped(a) THEN classifyIpv4(Embedded(a))
                      ELSE classifyIpv6(a)

isSyntheticTunnelAddress(a) == Len(a) = 4 /\ a[1] = 198 /\ a[2] \in 18 .. 19

-----------------------------------------------------------------------------
\* The networks the policy protects, by their first and last address.
Block(lo, hi, kind) == [lo |-> lo, hi |-> hi, kind |-> kind]
MetadataBlocks == {Block(a, a, "metadata") : a \in METADATA_IPV4 \union METADATA_IPV6}
Ipv4Blocks ==
    {Block(<<0, 0, 0, 0>>, <<0, 255, 255, 255>>, "other"),
     Block(<<10, 0, 0, 0>>, <<10, 255, 255, 255>>, "other"),
     Block(<<100, 64, 0, 0>>, <<100, 127, 255, 255>>, "other"),
     Block(<<127, 0, 0, 0>>, <<127, 255, 255, 255>>, "other"),
     Block(<<169, 254, 0, 0>>, <<169, 254, 255, 255>>, "other"),
     Block(<<172, 16, 0, 0>>, <<172, 31, 255, 255>>, "other"),
     Block(<<192, 0, 0, 0>>, <<192, 0, 0, 255>>, "other"),
     Block(<<192, 0, 2, 0>>, <<192, 0, 2, 255>>, "other"),
     Block(<<192, 88, 99, 0>>, <<192, 88, 99, 255>>, "other"),
     Block(<<192, 168, 0, 0>>, <<192, 168, 255, 255>>, "other"),
     Block(<<198, 18, 0, 0>>, <<198, 19, 255, 255>>, "synthetic"),
     Block(<<198, 51, 100, 0>>, <<198, 51, 100, 255>>, "other"),
     Block(<<203, 0, 113, 0>>, <<203, 0, 113, 255>>, "other"),
     Block(<<224, 0, 0, 0>>, <<255, 255, 255, 255>>, "other")}
Ipv6Blocks ==
    {Block(<<64512, 0, 0, 0, 0, 0, 0, 0>>,
           <<65023, 65535, 65535, 65535, 65535, 65535, 65535, 65535>>, "other"),
     Block(<<65152, 0, 0, 0, 0, 0, 0, 0>>,
           <<65215, 65535, 65535, 65535, 65535, 65535, 65535, 65535>>, "other"),
     Block(<<65280, 0, 0, 0, 0, 0, 0, 0>>,
           <<65535, 65535, 65535, 65535, 65535, 65535, 65535, 65535>>, "other"),
     Block(<<0, 0, 0, 0, 0, 0, 0, 0>>, <<0, 0, 0, 0, 0, 0, 65535, 65535>>, "other"),
     Block(<<256, 0, 0, 0, 0, 0, 0, 0>>,
           <<256, 0, 65535, 65535, 65535, 65535, 65535, 65535>>, "other"),
     Block(<<8193, 0, 0, 0, 0, 0, 0, 0>>,
           <<8193, 0, 65535, 65535, 65535, 65535, 65535, 65535>>, "other"),
     Block(<<8193, 2, 0, 0, 0, 0, 0, 0>>,
           <<8193, 2, 0, 65535, 65535, 65535, 65535, 65535>>, "other"),
     Block(<<8193, 3512, 0, 0, 0, 0, 0, 0>>,
           <<8193, 3512, 65535, 65535, 65535, 65535, 65535, 65535>>, "other")}
ProtectedBlocks == MetadataBlocks \union Ipv4Blocks \union Ipv6Blocks

\* a is b, or the first number in which they differ is the smaller one of a.
UpTo(a, b) ==
    \/ a = b
    \/ \E i \in DOMAIN a : a[i] < b[i] /\ \A j \in 1 .. i - 1 : a[j] = b[j]

Within(a, block) == Len(a) = Len(block.lo) /\ UpTo(block.lo, a) /\ UpTo(a, block.hi)

Plain(a) == IF Len(a) = 8 /\ isIpv4Mapped(a) THEN Embedded(a) ELSE a

\* What an address needs the configuration's leave for.
Protections(a) == {b.kind : b \in {block \in ProtectedBlocks : Within(Plain(a), block)}}
=============================================================================
