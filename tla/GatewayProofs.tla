---------------------------- MODULE GatewayProofs ----------------------------
(* What the ways in and out promise, for every value of the constants: the tool      *)
(* calls and the requests that are guarded, the bucket that is never overdrawn, the   *)
(* fetches that stay out of protected networks, and the workers that are named        *)
(* before they run.                                                                   *)
EXTENDS Gateway, SequenceTheorems, FiniteSetTheorems, TLAPS

-----------------------------------------------------------------------------
(* Addresses.  The order of addresses, number by number.                              *)

Octets(a) ==
    /\ a[1] \in Int /\ 0 <= a[1] /\ a[1] <= 255
    /\ a[2] \in Int /\ 0 <= a[2] /\ a[2] <= 255
    /\ a[3] \in Int /\ 0 <= a[3] /\ a[3] <= 255
    /\ a[4] \in Int /\ 0 <= a[4] /\ a[4] <= 255

Groups(a) ==
    /\ a[1] \in Int /\ 0 <= a[1] /\ a[1] <= 65535
    /\ a[2] \in Int /\ 0 <= a[2] /\ a[2] <= 65535
    /\ a[3] \in Int /\ 0 <= a[3] /\ a[3] <= 65535
    /\ a[4] \in Int /\ 0 <= a[4] /\ a[4] <= 65535
    /\ a[5] \in Int /\ 0 <= a[5] /\ a[5] <= 65535
    /\ a[6] \in Int /\ 0 <= a[6] /\ a[6] <= 65535
    /\ a[7] \in Int /\ 0 <= a[7] /\ a[7] <= 65535
    /\ a[8] \in Int /\ 0 <= a[8] /\ a[8] <= 65535

Below4(a, b) ==
    \/ a[1] < b[1]
    \/ a[1] = b[1] /\ a[2] < b[2]
    \/ a[1] = b[1] /\ a[2] = b[2] /\ a[3] < b[3]
    \/ a[1] = b[1] /\ a[2] = b[2] /\ a[3] = b[3] /\ a[4] <= b[4]

Below8(a, b) ==
    \/ a[1] < b[1]
    \/ a[1] = b[1] /\ a[2] < b[2]
    \/ a[1] = b[1] /\ a[2] = b[2] /\ a[3] < b[3]
    \/ a[1] = b[1] /\ a[2] = b[2] /\ a[3] = b[3] /\ a[4] < b[4]
    \/ a[1] = b[1] /\ a[2] = b[2] /\ a[3] = b[3] /\ a[4] = b[4] /\ a[5] < b[5]
    \/ a[1] = b[1] /\ a[2] = b[2] /\ a[3] = b[3] /\ a[4] = b[4] /\ a[5] = b[5] /\ a[6] < b[6]
    \/ /\ a[1] = b[1] /\ a[2] = b[2] /\ a[3] = b[3] /\ a[4] = b[4] /\ a[5] = b[5]
       /\ a[6] = b[6] /\ a[7] < b[7]
    \/ /\ a[1] = b[1] /\ a[2] = b[2] /\ a[3] = b[3] /\ a[4] = b[4] /\ a[5] = b[5]
       /\ a[6] = b[6] /\ a[7] = b[7] /\ a[8] <= b[8]

LEMMA Ipv4Numbers ==
  ASSUME NEW a \in Fetcher!Ipv4
  PROVE  DOMAIN a = 1 .. 4 /\ Len(a) = 4 /\ Octets(a)
  <1>1. a \in Seq(Fetcher!Octet) /\ Len(a) = 4 /\ DOMAIN a = 1 .. 4
    BY DEF Fetcher!Ipv4
  <1>2. \A i \in 1 .. Len(a) : a[i] \in Fetcher!Octet
    BY <1>1, ElementOfSeq, Zenon
  <1>3. a[1] \in Fetcher!Octet /\ a[2] \in Fetcher!Octet /\ a[3] \in Fetcher!Octet /\ a[4] \in Fetcher!Octet
    BY <1>1, <1>2
  <1>5. \A x \in Fetcher!Octet : x \in Int /\ 0 <= x /\ x <= 255
    BY DEF Fetcher!Octet
  <1>6. Octets(a)
    BY <1>3, <1>5 DEF Octets
  <1> QED
    BY <1>1, <1>6

LEMMA Ipv4Equal ==
  ASSUME NEW a \in Fetcher!Ipv4, NEW b \in Fetcher!Ipv4,
         a[1] = b[1], a[2] = b[2], a[3] = b[3], a[4] = b[4]
  PROVE  a = b
  <1>1. a \in Seq(Fetcher!Octet) /\ b \in Seq(Fetcher!Octet) /\ Len(a) = 4 /\ Len(b) = 4
    BY DEF Fetcher!Ipv4
  <1>2. \A i \in 1 .. 4 : a[i] = b[i]
    OBVIOUS
  <1> QED
    BY <1>1, <1>2, SeqEqual, Zenon

LEMMA Ipv6Numbers ==
  ASSUME NEW a \in Fetcher!Ipv6
  PROVE  DOMAIN a = 1 .. 8 /\ Len(a) = 8 /\ Groups(a)
  <1>1. a \in Seq(Fetcher!Group) /\ Len(a) = 8 /\ DOMAIN a = 1 .. 8
    BY DEF Fetcher!Ipv6
  <1>2. \A i \in 1 .. Len(a) : a[i] \in Fetcher!Group
    BY <1>1, ElementOfSeq, Zenon
  <1>3. a[1] \in Fetcher!Group /\ a[2] \in Fetcher!Group /\ a[3] \in Fetcher!Group /\ a[4] \in Fetcher!Group
    BY <1>1, <1>2
  <1>4. a[5] \in Fetcher!Group /\ a[6] \in Fetcher!Group /\ a[7] \in Fetcher!Group /\ a[8] \in Fetcher!Group
    BY <1>1, <1>2
  <1>5. \A x \in Fetcher!Group : x \in Int /\ 0 <= x /\ x <= 65535
    BY DEF Fetcher!Group
  <1>6. Groups(a)
    BY <1>3, <1>4, <1>5 DEF Groups
  <1> QED
    BY <1>1, <1>6

LEMMA Ipv6Equal ==
  ASSUME NEW a \in Fetcher!Ipv6, NEW b \in Fetcher!Ipv6,
         a[1] = b[1], a[2] = b[2], a[3] = b[3], a[4] = b[4],
         a[5] = b[5], a[6] = b[6], a[7] = b[7], a[8] = b[8]
  PROVE  a = b
  <1>1. a \in Seq(Fetcher!Group) /\ b \in Seq(Fetcher!Group) /\ Len(a) = 8 /\ Len(b) = 8
    BY DEF Fetcher!Ipv6
  <1>2. \A i \in 1 .. 8 : a[i] = b[i]
    OBVIOUS
  <1> QED
    BY <1>1, <1>2, SeqEqual, Zenon

LEMMA UpTo4 ==
  ASSUME NEW a \in Fetcher!Ipv4, NEW b \in Fetcher!Ipv4
  PROVE  Fetcher!UpTo(a, b) <=> Below4(a, b)
  <1>1. DOMAIN a = 1 .. 4 /\ Octets(a) /\ Octets(b)
    BY Ipv4Numbers
  <1>2. ASSUME Fetcher!UpTo(a, b) PROVE Below4(a, b)
    <2>1. CASE a = b
      BY <1>1, <2>1 DEF Below4, Octets
    <2>2. CASE \E i \in DOMAIN a : a[i] < b[i] /\ \A j \in 1 .. i - 1 : a[j] = b[j]
      <3>1. PICK i \in 1 .. 4 : a[i] < b[i] /\ \A j \in 1 .. i - 1 : a[j] = b[j]
        BY <1>1, <2>2
      <3>2. CASE i = 1
        BY <1>1, <3>1, <3>2 DEF Below4, Octets
      <3>3. CASE i = 2
        BY <1>1, <3>1, <3>3 DEF Below4, Octets
      <3>4. CASE i = 3
        BY <1>1, <3>1, <3>4 DEF Below4, Octets
      <3>5. CASE i = 4
        BY <1>1, <3>1, <3>5 DEF Below4, Octets
      <3> QED
        BY <3>2, <3>3, <3>4, <3>5
    <2> QED
      BY <1>2, <2>1, <2>2 DEF Fetcher!UpTo
  <1>3. ASSUME Below4(a, b) PROVE Fetcher!UpTo(a, b)
    <2>1. CASE a[1] < b[1]
      <3>1. \A j \in 1 .. 1 - 1 : a[j] = b[j]
        BY <2>1
      <3> QED
        BY <1>1, <2>1, <3>1 DEF Fetcher!UpTo
    <2>2. CASE a[1] = b[1] /\ a[2] < b[2]
      <3>1. \A j \in 1 .. 2 - 1 : a[j] = b[j]
        BY <2>2
      <3> QED
        BY <1>1, <2>2, <3>1 DEF Fetcher!UpTo
    <2>3. CASE a[1] = b[1] /\ a[2] = b[2] /\ a[3] < b[3]
      <3>1. \A j \in 1 .. 3 - 1 : a[j] = b[j]
        BY <2>3
      <3> QED
        BY <1>1, <2>3, <3>1 DEF Fetcher!UpTo
    <2>4. CASE a[1] = b[1] /\ a[2] = b[2] /\ a[3] = b[3] /\ a[4] < b[4]
      <3>1. \A j \in 1 .. 4 - 1 : a[j] = b[j]
        BY <2>4
      <3> QED
        BY <1>1, <2>4, <3>1 DEF Fetcher!UpTo
    <2>5. CASE a[1] = b[1] /\ a[2] = b[2] /\ a[3] = b[3] /\ a[4] = b[4]
      BY <2>5, Ipv4Equal DEF Fetcher!UpTo
    <2> QED
      BY <1>1, <1>3, <2>1, <2>2, <2>3, <2>4, <2>5 DEF Below4, Octets
  <1> QED
    BY <1>2, <1>3

LEMMA UpTo8 ==
  ASSUME NEW a \in Fetcher!Ipv6, NEW b \in Fetcher!Ipv6
  PROVE  Fetcher!UpTo(a, b) <=> Below8(a, b)
  <1>1. DOMAIN a = 1 .. 8 /\ Groups(a) /\ Groups(b)
    BY Ipv6Numbers
  <1>2. ASSUME Fetcher!UpTo(a, b) PROVE Below8(a, b)
    <2>1. CASE a = b
      BY <1>1, <2>1 DEF Below8, Groups
    <2>2. CASE \E i \in DOMAIN a : a[i] < b[i] /\ \A j \in 1 .. i - 1 : a[j] = b[j]
      <3>1. PICK i \in 1 .. 8 : a[i] < b[i] /\ \A j \in 1 .. i - 1 : a[j] = b[j]
        BY <1>1, <2>2
      <3>2. CASE i = 1
        BY <1>1, <3>1, <3>2 DEF Below8, Groups
      <3>3. CASE i = 2
        BY <1>1, <3>1, <3>3 DEF Below8, Groups
      <3>4. CASE i = 3
        BY <1>1, <3>1, <3>4 DEF Below8, Groups
      <3>5. CASE i = 4
        BY <1>1, <3>1, <3>5 DEF Below8, Groups
      <3>6. CASE i = 5
        BY <1>1, <3>1, <3>6 DEF Below8, Groups
      <3>7. CASE i = 6
        BY <1>1, <3>1, <3>7 DEF Below8, Groups
      <3>8. CASE i = 7
        BY <1>1, <3>1, <3>8 DEF Below8, Groups
      <3>9. CASE i = 8
        BY <1>1, <3>1, <3>9 DEF Below8, Groups
      <3> QED
        BY <3>2, <3>3, <3>4, <3>5, <3>6, <3>7, <3>8, <3>9
    <2> QED
      BY <1>2, <2>1, <2>2 DEF Fetcher!UpTo
  <1>3. ASSUME Below8(a, b) PROVE Fetcher!UpTo(a, b)
    <2>1. CASE a[1] < b[1]
      <3>1. \A j \in 1 .. 1 - 1 : a[j] = b[j]
        BY <2>1
      <3> QED
        BY <1>1, <2>1, <3>1 DEF Fetcher!UpTo
    <2>2. CASE a[1] = b[1] /\ a[2] < b[2]
      <3>1. \A j \in 1 .. 2 - 1 : a[j] = b[j]
        BY <2>2
      <3> QED
        BY <1>1, <2>2, <3>1 DEF Fetcher!UpTo
    <2>3. CASE a[1] = b[1] /\ a[2] = b[2] /\ a[3] < b[3]
      <3>1. \A j \in 1 .. 3 - 1 : a[j] = b[j]
        BY <2>3
      <3> QED
        BY <1>1, <2>3, <3>1 DEF Fetcher!UpTo
    <2>4. CASE a[1] = b[1] /\ a[2] = b[2] /\ a[3] = b[3] /\ a[4] < b[4]
      <3>1. \A j \in 1 .. 4 - 1 : a[j] = b[j]
        BY <2>4
      <3> QED
        BY <1>1, <2>4, <3>1 DEF Fetcher!UpTo
    <2>5. CASE a[1] = b[1] /\ a[2] = b[2] /\ a[3] = b[3] /\ a[4] = b[4] /\ a[5] < b[5]
      <3>1. \A j \in 1 .. 5 - 1 : a[j] = b[j]
        BY <2>5
      <3> QED
        BY <1>1, <2>5, <3>1 DEF Fetcher!UpTo
    <2>6. CASE a[1] = b[1] /\ a[2] = b[2] /\ a[3] = b[3] /\ a[4] = b[4] /\ a[5] = b[5] /\ a[6] < b[6]
      <3>1. \A j \in 1 .. 6 - 1 : a[j] = b[j]
        BY <2>6
      <3> QED
        BY <1>1, <2>6, <3>1 DEF Fetcher!UpTo
    <2>7. CASE a[1] = b[1] /\ a[2] = b[2] /\ a[3] = b[3] /\ a[4] = b[4] /\ a[5] = b[5] /\ a[6] = b[6] /\ a[7] < b[7]
      <3>1. \A j \in 1 .. 7 - 1 : a[j] = b[j]
        BY <2>7
      <3> QED
        BY <1>1, <2>7, <3>1 DEF Fetcher!UpTo
    <2>8. CASE a[1] = b[1] /\ a[2] = b[2] /\ a[3] = b[3] /\ a[4] = b[4] /\ a[5] = b[5] /\ a[6] = b[6] /\ a[7] = b[7] /\ a[8] < b[8]
      <3>1. \A j \in 1 .. 8 - 1 : a[j] = b[j]
        BY <2>8
      <3> QED
        BY <1>1, <2>8, <3>1 DEF Fetcher!UpTo
    <2>9. CASE a[1] = b[1] /\ a[2] = b[2] /\ a[3] = b[3] /\ a[4] = b[4] /\ a[5] = b[5] /\ a[6] = b[6] /\ a[7] = b[7] /\ a[8] = b[8]
      BY <2>9, Ipv6Equal DEF Fetcher!UpTo
    <2> QED
      BY <1>1, <1>3, <2>1, <2>2, <2>3, <2>4, <2>5, <2>6, <2>7, <2>8, <2>9 DEF Below8, Groups
  <1> QED
    BY <1>2, <1>3

-----------------------------------------------------------------------------
(* What the ranges of the protected networks hold, by the numbers they fix.           *)

LEMMA Ipv4Literal ==
  ASSUME NEW x1 \in Fetcher!Octet, NEW x2 \in Fetcher!Octet, NEW x3 \in Fetcher!Octet, NEW x4 \in Fetcher!Octet
  PROVE  <<x1, x2, x3, x4>> \in Fetcher!Ipv4
  BY DEF Fetcher!Ipv4

LEMMA GroupsAreInts == \A u \in Fetcher!Group : u \in Int
  BY DEF Fetcher!Group

LEMMA GroupEdges == 0 \in Fetcher!Group /\ 65535 \in Fetcher!Group
  BY DEF Fetcher!Group

LEMMA Range4First ==
  ASSUME NEW a \in Fetcher!Ipv4, NEW x \in Fetcher!Octet, NEW y \in Fetcher!Octet, NEW kind
  PROVE  Fetcher!Within(a, Fetcher!Block(<<x, 0, 0, 0>>, <<y, 255, 255, 255>>, kind))
         <=> x <= a[1] /\ a[1] <= y
  <1> DEFINE lo == <<x, 0, 0, 0>>
             hi == <<y, 255, 255, 255>>
  <1>1. 0 \in Fetcher!Octet /\ 255 \in Fetcher!Octet
    BY DEF Fetcher!Octet
  <1>2. lo \in Fetcher!Ipv4 /\ hi \in Fetcher!Ipv4
    BY <1>1, Ipv4Literal
  <1>3. lo[1] = x /\ lo[2] = 0 /\ lo[3] = 0 /\ lo[4] = 0
    OBVIOUS
  <1>4. hi[1] = y /\ hi[2] = 255 /\ hi[3] = 255 /\ hi[4] = 255
    OBVIOUS
  <1>5. Len(lo) = 4
    OBVIOUS
  <1> HIDE DEF lo, hi
  <1>6. Len(a) = 4 /\ Octets(a)
    BY Ipv4Numbers
  <1>7. Fetcher!UpTo(lo, a) <=> Below4(lo, a)
    BY <1>2, UpTo4
  <1>8. Fetcher!UpTo(a, hi) <=> Below4(a, hi)
    BY <1>2, UpTo4
  <1>9. Fetcher!Within(a, Fetcher!Block(lo, hi, kind)) <=> Below4(lo, a) /\ Below4(a, hi)
    BY <1>5, <1>6, <1>7, <1>8 DEF Fetcher!Within, Fetcher!Block
  <1>10. Below4(lo, a) /\ Below4(a, hi) <=> x <= a[1] /\ a[1] <= y
    BY <1>3, <1>4, <1>6 DEF Below4, Octets, Fetcher!Octet
  <1> QED
    BY <1>9, <1>10, Zenon DEF lo, hi

LEMMA Range4Second ==
  ASSUME NEW a \in Fetcher!Ipv4, NEW x \in Fetcher!Octet, NEW y \in Fetcher!Octet, NEW z \in Fetcher!Octet, NEW kind
  PROVE  Fetcher!Within(a, Fetcher!Block(<<x, y, 0, 0>>, <<x, z, 255, 255>>, kind))
         <=> a[1] = x /\ y <= a[2] /\ a[2] <= z
  <1> DEFINE lo == <<x, y, 0, 0>>
             hi == <<x, z, 255, 255>>
  <1>1. 0 \in Fetcher!Octet /\ 255 \in Fetcher!Octet
    BY DEF Fetcher!Octet
  <1>2. lo \in Fetcher!Ipv4 /\ hi \in Fetcher!Ipv4
    BY <1>1, Ipv4Literal
  <1>3. lo[1] = x /\ lo[2] = y /\ lo[3] = 0 /\ lo[4] = 0
    OBVIOUS
  <1>4. hi[1] = x /\ hi[2] = z /\ hi[3] = 255 /\ hi[4] = 255
    OBVIOUS
  <1>5. Len(lo) = 4
    OBVIOUS
  <1> HIDE DEF lo, hi
  <1>6. Len(a) = 4 /\ Octets(a)
    BY Ipv4Numbers
  <1>7. Fetcher!UpTo(lo, a) <=> Below4(lo, a)
    BY <1>2, UpTo4
  <1>8. Fetcher!UpTo(a, hi) <=> Below4(a, hi)
    BY <1>2, UpTo4
  <1>9. Fetcher!Within(a, Fetcher!Block(lo, hi, kind)) <=> Below4(lo, a) /\ Below4(a, hi)
    BY <1>5, <1>6, <1>7, <1>8 DEF Fetcher!Within, Fetcher!Block
  <1>10. Below4(lo, a) /\ Below4(a, hi) <=> a[1] = x /\ y <= a[2] /\ a[2] <= z
    BY <1>3, <1>4, <1>6 DEF Below4, Octets, Fetcher!Octet
  <1> QED
    BY <1>9, <1>10, Zenon DEF lo, hi

LEMMA Range4Third ==
  ASSUME NEW a \in Fetcher!Ipv4, NEW x \in Fetcher!Octet, NEW y \in Fetcher!Octet, NEW z \in Fetcher!Octet, NEW kind
  PROVE  Fetcher!Within(a, Fetcher!Block(<<x, y, z, 0>>, <<x, y, z, 255>>, kind))
         <=> a[1] = x /\ a[2] = y /\ a[3] = z
  <1> DEFINE lo == <<x, y, z, 0>>
             hi == <<x, y, z, 255>>
  <1>1. 0 \in Fetcher!Octet /\ 255 \in Fetcher!Octet
    BY DEF Fetcher!Octet
  <1>2. lo \in Fetcher!Ipv4 /\ hi \in Fetcher!Ipv4
    BY <1>1, Ipv4Literal
  <1>3. lo[1] = x /\ lo[2] = y /\ lo[3] = z /\ lo[4] = 0
    OBVIOUS
  <1>4. hi[1] = x /\ hi[2] = y /\ hi[3] = z /\ hi[4] = 255
    OBVIOUS
  <1>5. Len(lo) = 4
    OBVIOUS
  <1> HIDE DEF lo, hi
  <1>6. Len(a) = 4 /\ Octets(a)
    BY Ipv4Numbers
  <1>7. Fetcher!UpTo(lo, a) <=> Below4(lo, a)
    BY <1>2, UpTo4
  <1>8. Fetcher!UpTo(a, hi) <=> Below4(a, hi)
    BY <1>2, UpTo4
  <1>9. Fetcher!Within(a, Fetcher!Block(lo, hi, kind)) <=> Below4(lo, a) /\ Below4(a, hi)
    BY <1>5, <1>6, <1>7, <1>8 DEF Fetcher!Within, Fetcher!Block
  <1>10. Below4(lo, a) /\ Below4(a, hi) <=> a[1] = x /\ a[2] = y /\ a[3] = z
    BY <1>3, <1>4, <1>6 DEF Below4, Octets, Fetcher!Octet
  <1> QED
    BY <1>9, <1>10, Zenon DEF lo, hi

LEMMA Range6First ==
  ASSUME NEW a \in Fetcher!Ipv6, NEW x \in Fetcher!Group, NEW y \in Fetcher!Group, NEW kind
  PROVE  Fetcher!Within(a, Fetcher!Block(<<x, 0, 0, 0, 0, 0, 0, 0>>, <<y, 65535, 65535, 65535, 65535, 65535, 65535, 65535>>, kind))
         <=> x <= a[1] /\ a[1] <= y
  <1> DEFINE lo == <<x, 0, 0, 0, 0, 0, 0, 0>>
             hi == <<y, 65535, 65535, 65535, 65535, 65535, 65535, 65535>>
  <1>1. 0 \in Fetcher!Group /\ 65535 \in Fetcher!Group
    BY GroupEdges
  <1>2. lo \in Fetcher!Ipv6 /\ hi \in Fetcher!Ipv6
    <2>1. lo \in Fetcher!Ipv6
      BY <1>1 DEF Fetcher!Ipv6
    <2>2. hi \in Fetcher!Ipv6
      BY <1>1 DEF Fetcher!Ipv6
    <2> QED
      BY <2>1, <2>2
  <1>3. lo[1] = x /\ lo[2] = 0 /\ lo[3] = 0 /\ lo[4] = 0 /\ lo[5] = 0 /\ lo[6] = 0 /\ lo[7] = 0 /\ lo[8] = 0
    OBVIOUS
  <1>4. hi[1] = y /\ hi[2] = 65535 /\ hi[3] = 65535 /\ hi[4] = 65535 /\ hi[5] = 65535 /\ hi[6] = 65535 /\ hi[7] = 65535 /\ hi[8] = 65535
    OBVIOUS
  <1>5. Len(lo) = 8
    OBVIOUS
  <1> HIDE DEF lo, hi
  <1>6. Len(a) = 8 /\ Groups(a)
    BY Ipv6Numbers
  <1>7. Fetcher!UpTo(lo, a) <=> Below8(lo, a)
    BY <1>2, UpTo8
  <1>8. Fetcher!UpTo(a, hi) <=> Below8(a, hi)
    BY <1>2, UpTo8
  <1>9. Fetcher!Within(a, Fetcher!Block(lo, hi, kind)) <=> Below8(lo, a) /\ Below8(a, hi)
    BY <1>5, <1>6, <1>7, <1>8 DEF Fetcher!Within, Fetcher!Block
  <1>10. \A u \in Fetcher!Group : u \in Int
    BY GroupsAreInts
  <1>11. Below8(lo, a) <=> x <= a[1]
    BY <1>3, <1>6, <1>10 DEF Below8, Groups
  <1>12. Below8(a, hi) <=> a[1] <= y
    BY <1>4, <1>6, <1>10 DEF Below8, Groups
  <1>13. Below8(lo, a) /\ Below8(a, hi) <=> x <= a[1] /\ a[1] <= y
    BY <1>6, <1>10, <1>11, <1>12 DEF Groups
  <1> QED
    BY <1>9, <1>13 DEF lo, hi

LEMMA Range6Second ==
  ASSUME NEW a \in Fetcher!Ipv6, NEW x \in Fetcher!Group, NEW y \in Fetcher!Group, NEW kind
  PROVE  Fetcher!Within(a, Fetcher!Block(<<x, y, 0, 0, 0, 0, 0, 0>>, <<x, y, 65535, 65535, 65535, 65535, 65535, 65535>>, kind))
         <=> a[1] = x /\ a[2] = y
  <1> DEFINE lo == <<x, y, 0, 0, 0, 0, 0, 0>>
             hi == <<x, y, 65535, 65535, 65535, 65535, 65535, 65535>>
  <1>1. 0 \in Fetcher!Group /\ 65535 \in Fetcher!Group
    BY GroupEdges
  <1>2. lo \in Fetcher!Ipv6 /\ hi \in Fetcher!Ipv6
    <2>1. lo \in Fetcher!Ipv6
      BY <1>1 DEF Fetcher!Ipv6
    <2>2. hi \in Fetcher!Ipv6
      BY <1>1 DEF Fetcher!Ipv6
    <2> QED
      BY <2>1, <2>2
  <1>3. lo[1] = x /\ lo[2] = y /\ lo[3] = 0 /\ lo[4] = 0 /\ lo[5] = 0 /\ lo[6] = 0 /\ lo[7] = 0 /\ lo[8] = 0
    OBVIOUS
  <1>4. hi[1] = x /\ hi[2] = y /\ hi[3] = 65535 /\ hi[4] = 65535 /\ hi[5] = 65535 /\ hi[6] = 65535 /\ hi[7] = 65535 /\ hi[8] = 65535
    OBVIOUS
  <1>5. Len(lo) = 8
    OBVIOUS
  <1> HIDE DEF lo, hi
  <1>6. Len(a) = 8 /\ Groups(a)
    BY Ipv6Numbers
  <1>7. Fetcher!UpTo(lo, a) <=> Below8(lo, a)
    BY <1>2, UpTo8
  <1>8. Fetcher!UpTo(a, hi) <=> Below8(a, hi)
    BY <1>2, UpTo8
  <1>9. Fetcher!Within(a, Fetcher!Block(lo, hi, kind)) <=> Below8(lo, a) /\ Below8(a, hi)
    BY <1>5, <1>6, <1>7, <1>8 DEF Fetcher!Within, Fetcher!Block
  <1>10. \A u \in Fetcher!Group : u \in Int
    BY GroupsAreInts
  <1>11. Below8(lo, a) <=> x < a[1] \/ (x = a[1] /\ y <= a[2])
    BY <1>3, <1>6, <1>10 DEF Below8, Groups
  <1>12. Below8(a, hi) <=> a[1] < x \/ (a[1] = x /\ a[2] <= y)
    BY <1>4, <1>6, <1>10 DEF Below8, Groups
  <1>13. Below8(lo, a) /\ Below8(a, hi) <=> a[1] = x /\ a[2] = y
    BY <1>6, <1>10, <1>11, <1>12 DEF Groups
  <1> QED
    BY <1>9, <1>13 DEF lo, hi

LEMMA Range6Third ==
  ASSUME NEW a \in Fetcher!Ipv6, NEW x \in Fetcher!Group, NEW y \in Fetcher!Group, NEW z \in Fetcher!Group, NEW kind
  PROVE  Fetcher!Within(a, Fetcher!Block(<<x, y, z, 0, 0, 0, 0, 0>>, <<x, y, z, 65535, 65535, 65535, 65535, 65535>>, kind))
         <=> a[1] = x /\ a[2] = y /\ a[3] = z
  <1> DEFINE lo == <<x, y, z, 0, 0, 0, 0, 0>>
             hi == <<x, y, z, 65535, 65535, 65535, 65535, 65535>>
  <1>1. 0 \in Fetcher!Group /\ 65535 \in Fetcher!Group
    BY GroupEdges
  <1>2. lo \in Fetcher!Ipv6 /\ hi \in Fetcher!Ipv6
    <2>1. lo \in Fetcher!Ipv6
      BY <1>1 DEF Fetcher!Ipv6
    <2>2. hi \in Fetcher!Ipv6
      BY <1>1 DEF Fetcher!Ipv6
    <2> QED
      BY <2>1, <2>2
  <1>3. lo[1] = x /\ lo[2] = y /\ lo[3] = z /\ lo[4] = 0 /\ lo[5] = 0 /\ lo[6] = 0 /\ lo[7] = 0 /\ lo[8] = 0
    OBVIOUS
  <1>4. hi[1] = x /\ hi[2] = y /\ hi[3] = z /\ hi[4] = 65535 /\ hi[5] = 65535 /\ hi[6] = 65535 /\ hi[7] = 65535 /\ hi[8] = 65535
    OBVIOUS
  <1>5. Len(lo) = 8
    OBVIOUS
  <1> HIDE DEF lo, hi
  <1>6. Len(a) = 8 /\ Groups(a)
    BY Ipv6Numbers
  <1>7. Fetcher!UpTo(lo, a) <=> Below8(lo, a)
    BY <1>2, UpTo8
  <1>8. Fetcher!UpTo(a, hi) <=> Below8(a, hi)
    BY <1>2, UpTo8
  <1>9. Fetcher!Within(a, Fetcher!Block(lo, hi, kind)) <=> Below8(lo, a) /\ Below8(a, hi)
    BY <1>5, <1>6, <1>7, <1>8 DEF Fetcher!Within, Fetcher!Block
  <1>10. \A u \in Fetcher!Group : u \in Int
    BY GroupsAreInts
  <1>11. Below8(lo, a) <=> x < a[1] \/ (x = a[1] /\ y < a[2]) \/ (x = a[1] /\ y = a[2] /\ z <= a[3])
    BY <1>3, <1>6, <1>10 DEF Below8, Groups
  <1>12. Below8(a, hi) <=> a[1] < x \/ (a[1] = x /\ a[2] < y) \/ (a[1] = x /\ a[2] = y /\ a[3] <= z)
    BY <1>4, <1>6, <1>10 DEF Below8, Groups
  <1>13. Below8(lo, a) /\ Below8(a, hi) <=> a[1] = x /\ a[2] = y /\ a[3] = z
    BY <1>6, <1>10, <1>11, <1>12 DEF Groups
  <1> QED
    BY <1>9, <1>13 DEF lo, hi

LEMMA Range6Zero ==
  ASSUME NEW a \in Fetcher!Ipv6, NEW kind
  PROVE  Fetcher!Within(a, Fetcher!Block(<<0, 0, 0, 0, 0, 0, 0, 0>>, <<0, 0, 0, 0, 0, 0, 65535, 65535>>, kind))
         <=> a[1] = 0 /\ a[2] = 0 /\ a[3] = 0 /\ a[4] = 0 /\ a[5] = 0 /\ a[6] = 0
  <1> DEFINE lo == <<0, 0, 0, 0, 0, 0, 0, 0>>
             hi == <<0, 0, 0, 0, 0, 0, 65535, 65535>>
  <1>1. 0 \in Fetcher!Group /\ 65535 \in Fetcher!Group
    BY GroupEdges
  <1>2. lo \in Fetcher!Ipv6 /\ hi \in Fetcher!Ipv6
    <2>1. lo \in Fetcher!Ipv6
      BY <1>1 DEF Fetcher!Ipv6
    <2>2. hi \in Fetcher!Ipv6
      BY <1>1 DEF Fetcher!Ipv6
    <2> QED
      BY <2>1, <2>2
  <1>3. lo[1] = 0 /\ lo[2] = 0 /\ lo[3] = 0 /\ lo[4] = 0 /\ lo[5] = 0 /\ lo[6] = 0 /\ lo[7] = 0 /\ lo[8] = 0
    OBVIOUS
  <1>4. hi[1] = 0 /\ hi[2] = 0 /\ hi[3] = 0 /\ hi[4] = 0 /\ hi[5] = 0 /\ hi[6] = 0 /\ hi[7] = 65535 /\ hi[8] = 65535
    OBVIOUS
  <1>5. Len(lo) = 8
    OBVIOUS
  <1> HIDE DEF lo, hi
  <1>6. Len(a) = 8 /\ Groups(a)
    BY Ipv6Numbers
  <1>7. Fetcher!UpTo(lo, a) <=> Below8(lo, a)
    BY <1>2, UpTo8
  <1>8. Fetcher!UpTo(a, hi) <=> Below8(a, hi)
    BY <1>2, UpTo8
  <1>9. Fetcher!Within(a, Fetcher!Block(lo, hi, kind)) <=> Below8(lo, a) /\ Below8(a, hi)
    BY <1>5, <1>6, <1>7, <1>8 DEF Fetcher!Within, Fetcher!Block
  <1>10. Below8(lo, a) /\ Below8(a, hi) <=> a[1] = 0 /\ a[2] = 0 /\ a[3] = 0 /\ a[4] = 0 /\ a[5] = 0 /\ a[6] = 0
    BY <1>3, <1>4, <1>6 DEF Below8, Groups, Fetcher!Group
  <1> QED
    BY <1>9, <1>10 DEF lo, hi

LEMMA Single4 ==
  ASSUME NEW a \in Fetcher!Ipv4, NEW m \in Fetcher!Ipv4, NEW kind
  PROVE  Fetcher!Within(a, [lo |-> m, hi |-> m, kind |-> kind]) <=> a = m
  <1>1. Len(a) = 4 /\ Len(m) = 4 /\ Octets(a) /\ Octets(m)
    BY Ipv4Numbers
  <1>2. Fetcher!UpTo(m, a) /\ Fetcher!UpTo(a, m) => Below4(m, a) /\ Below4(a, m)
    BY UpTo4
  <1>3. Below4(m, a) /\ Below4(a, m) => a[1] = m[1] /\ a[2] = m[2] /\ a[3] = m[3] /\ a[4] = m[4]
    BY <1>1 DEF Below4, Octets
  <1>4. Fetcher!UpTo(m, a) /\ Fetcher!UpTo(a, m) => a = m
    BY <1>2, <1>3, Ipv4Equal
  <1>5. a = m => Fetcher!UpTo(m, a) /\ Fetcher!UpTo(a, m)
    BY DEF Fetcher!UpTo
  <1> QED
    BY <1>1, <1>4, <1>5 DEF Fetcher!Within

LEMMA Single8 ==
  ASSUME NEW a \in Fetcher!Ipv6, NEW m \in Fetcher!Ipv6, NEW kind
  PROVE  Fetcher!Within(a, [lo |-> m, hi |-> m, kind |-> kind]) <=> a = m
  <1>1. Len(a) = 8 /\ Len(m) = 8 /\ Groups(a) /\ Groups(m)
    BY Ipv6Numbers
  <1>2. Fetcher!UpTo(m, a) /\ Fetcher!UpTo(a, m) => Below8(m, a) /\ Below8(a, m)
    BY UpTo8
  <1>3. Below8(m, a) /\ Below8(a, m) => a[1] = m[1] /\ a[2] = m[2] /\ a[3] = m[3] /\ a[4] = m[4] /\ a[5] = m[5] /\ a[6] = m[6] /\ a[7] = m[7] /\ a[8] = m[8]
    BY <1>1 DEF Below8, Groups
  <1>4. Fetcher!UpTo(m, a) /\ Fetcher!UpTo(a, m) => a = m
    BY <1>2, <1>3, Ipv6Equal
  <1>5. a = m => Fetcher!UpTo(m, a) /\ Fetcher!UpTo(a, m)
    BY DEF Fetcher!UpTo
  <1> QED
    BY <1>1, <1>4, <1>5 DEF Fetcher!Within

-----------------------------------------------------------------------------
(* What the prefix tests ask of the groups.                                           *)

LEMMA UnitBeyond ==
  ASSUME NEW bits \in Int, NEW i \in Int, bits - 16 * (i - 1) <= 0
  PROVE  Fetcher!Unit(bits, i) = 65536
  <1> DEFINE rest == bits - 16 * (i - 1)
  <1>1. (IF rest > 16 THEN 16 ELSE IF rest < 0 THEN 0 ELSE rest) = 0
    OBVIOUS
  <1>2. Fetcher!Unit(bits, i) = 2 ^ (16 - (IF rest > 16 THEN 16 ELSE IF rest < 0 THEN 0 ELSE rest))
    BY Zenon DEF Fetcher!Unit
  <1>3. Fetcher!Unit(bits, i) = 2 ^ (16 - 0)
    BY <1>1, <1>2, Zenon
  <1> QED
    BY <1>3

LEMMA UnitFull ==
  ASSUME NEW bits \in Int, NEW i \in Int, bits - 16 * (i - 1) >= 16
  PROVE  Fetcher!Unit(bits, i) = 1
  <1> DEFINE rest == bits - 16 * (i - 1)
  <1>1. (IF rest > 16 THEN 16 ELSE IF rest < 0 THEN 0 ELSE rest) = 16
    OBVIOUS
  <1>2. Fetcher!Unit(bits, i) = 2 ^ (16 - (IF rest > 16 THEN 16 ELSE IF rest < 0 THEN 0 ELSE rest))
    BY Zenon DEF Fetcher!Unit
  <1>3. Fetcher!Unit(bits, i) = 2 ^ (16 - 16)
    BY <1>1, <1>2, Zenon
  <1>4. 2 ^ (16 - 16) = 1
    OBVIOUS
  <1> QED
    BY <1>3, <1>4, Zenon

LEMMA UnitPart ==
  Fetcher!Unit(7, 1) = 512 /\ Fetcher!Unit(10, 1) = 64 /\ Fetcher!Unit(8, 1) = 256
  BY DEF Fetcher!Unit

SameBits(g, prefix, bits, i) ==
    LET expected == IF i \in DOMAIN prefix THEN prefix[i] ELSE 0
    IN  g[i] \div Fetcher!Unit(bits, i) = expected \div Fetcher!Unit(bits, i)

LEMMA PrefixByGroups ==
  ASSUME NEW g, NEW prefix, NEW bits
  PROVE  Fetcher!hasIpv6Prefix(g, prefix, bits) <=>
             /\ SameBits(g, prefix, bits, 1) /\ SameBits(g, prefix, bits, 2)
             /\ SameBits(g, prefix, bits, 3) /\ SameBits(g, prefix, bits, 4)
             /\ SameBits(g, prefix, bits, 5) /\ SameBits(g, prefix, bits, 6)
             /\ SameBits(g, prefix, bits, 7) /\ SameBits(g, prefix, bits, 8)
  <1>1. Fetcher!hasIpv6Prefix(g, prefix, bits) <=> \A i \in 1 .. 8 : SameBits(g, prefix, bits, i)
    BY Zenon DEF Fetcher!hasIpv6Prefix, SameBits
  <1> QED
    BY <1>1

LEMMA GroupBeyond ==
  ASSUME NEW g, NEW prefix, NEW bits \in Int, NEW i \in Int, bits - 16 * (i - 1) <= 0,
         i \notin DOMAIN prefix, g[i] \in Int, 0 <= g[i], g[i] <= 65535
  PROVE  SameBits(g, prefix, bits, i)
  <1>1. Fetcher!Unit(bits, i) = 65536
    BY UnitBeyond
  <1>2. g[i] \div 65536 = 0 /\ 0 \div 65536 = 0
    OBVIOUS
  <1> QED
    BY <1>1, <1>2 DEF SameBits

LEMMA GroupFull ==
  ASSUME NEW g, NEW prefix, NEW bits \in Int, NEW i \in Int, bits - 16 * (i - 1) >= 16,
         g[i] \in Int, i \in DOMAIN prefix, prefix[i] \in Int
  PROVE  SameBits(g, prefix, bits, i) <=> g[i] = prefix[i]
  <1>1. Fetcher!Unit(bits, i) = 1
    BY UnitFull
  <1>2. g[i] \div 1 = g[i] /\ prefix[i] \div 1 = prefix[i]
    OBVIOUS
  <1> QED
    BY <1>1, <1>2 DEF SameBits

LEMMA GroupZero ==
  ASSUME NEW g, NEW prefix, NEW bits \in Int, NEW i \in Int, bits - 16 * (i - 1) >= 16,
         g[i] \in Int, i \notin DOMAIN prefix
  PROVE  SameBits(g, prefix, bits, i) <=> g[i] = 0
  <1>1. Fetcher!Unit(bits, i) = 1
    BY UnitFull
  <1>2. g[i] \div 1 = g[i] /\ 0 \div 1 = 0
    OBVIOUS
  <1> QED
    BY <1>1, <1>2 DEF SameBits

LEMMA GroupsByIndex ==
  ASSUME NEW g, Groups(g), NEW i \in 1 .. 8
  PROVE  g[i] \in Int /\ 0 <= g[i] /\ g[i] <= 65535
  BY DEF Groups

LEMMA PrefixPrivate ==
  ASSUME NEW g, Groups(g)
  PROVE  Fetcher!hasIpv6Prefix(g, <<64512>>, 7) <=> 64512 <= g[1] /\ g[1] <= 65023
  <1>1. SameBits(g, <<64512>>, 7, 1) <=> g[1] \div 512 = 64512 \div 512
    BY UnitPart DEF SameBits
  <1>2. g[1] \div 512 = 64512 \div 512 <=> 64512 <= g[1] /\ g[1] <= 65023
    BY DEF Groups
  <1>3. \A i \in 2 .. 8 : i \notin DOMAIN <<64512>> /\ 7 - 16 * (i - 1) <= 0
    OBVIOUS
  <1>4. \A i \in 2 .. 8 : g[i] \in Int /\ 0 <= g[i] /\ g[i] <= 65535
    BY GroupsByIndex
  <1>5. \A i \in 2 .. 8 : SameBits(g, <<64512>>, 7, i)
    BY <1>3, <1>4, GroupBeyond
  <1> QED
    BY <1>1, <1>2, <1>5, PrefixByGroups

LEMMA PrefixLinkLocal ==
  ASSUME NEW g, Groups(g)
  PROVE  Fetcher!hasIpv6Prefix(g, <<65152>>, 10) <=> 65152 <= g[1] /\ g[1] <= 65215
  <1>1. SameBits(g, <<65152>>, 10, 1) <=> g[1] \div 64 = 65152 \div 64
    BY UnitPart DEF SameBits
  <1>2. g[1] \div 64 = 65152 \div 64 <=> 65152 <= g[1] /\ g[1] <= 65215
    BY DEF Groups
  <1>3. \A i \in 2 .. 8 : i \notin DOMAIN <<65152>> /\ 10 - 16 * (i - 1) <= 0
    OBVIOUS
  <1>4. \A i \in 2 .. 8 : g[i] \in Int /\ 0 <= g[i] /\ g[i] <= 65535
    BY GroupsByIndex
  <1>5. \A i \in 2 .. 8 : SameBits(g, <<65152>>, 10, i)
    BY <1>3, <1>4, GroupBeyond
  <1> QED
    BY <1>1, <1>2, <1>5, PrefixByGroups

LEMMA PrefixMulticast ==
  ASSUME NEW g, Groups(g)
  PROVE  Fetcher!hasIpv6Prefix(g, <<65280>>, 8) <=> 65280 <= g[1] /\ g[1] <= 65535
  <1>1. SameBits(g, <<65280>>, 8, 1) <=> g[1] \div 256 = 65280 \div 256
    BY UnitPart DEF SameBits
  <1>2. g[1] \div 256 = 65280 \div 256 <=> 65280 <= g[1] /\ g[1] <= 65535
    BY DEF Groups
  <1>3. \A i \in 2 .. 8 : i \notin DOMAIN <<65280>> /\ 8 - 16 * (i - 1) <= 0
    OBVIOUS
  <1>4. \A i \in 2 .. 8 : g[i] \in Int /\ 0 <= g[i] /\ g[i] <= 65535
    BY GroupsByIndex
  <1>5. \A i \in 2 .. 8 : SameBits(g, <<65280>>, 8, i)
    BY <1>3, <1>4, GroupBeyond
  <1> QED
    BY <1>1, <1>2, <1>5, PrefixByGroups

LEMMA PrefixTwo ==
  ASSUME NEW g, Groups(g), NEW x \in Int, NEW y \in Int
  PROVE  Fetcher!hasIpv6Prefix(g, <<x, y>>, 32) <=> g[1] = x /\ g[2] = y
  <1>1. SameBits(g, <<x, y>>, 32, 1) <=> g[1] = x
    BY GroupFull, GroupsByIndex
  <1>2. SameBits(g, <<x, y>>, 32, 2) <=> g[2] = y
    BY GroupFull, GroupsByIndex
  <1>3. \A i \in 3 .. 8 : i \notin DOMAIN <<x, y>> /\ 32 - 16 * (i - 1) <= 0
    OBVIOUS
  <1>4. \A i \in 3 .. 8 : g[i] \in Int /\ 0 <= g[i] /\ g[i] <= 65535
    BY GroupsByIndex
  <1>5. \A i \in 3 .. 8 : SameBits(g, <<x, y>>, 32, i)
    BY <1>3, <1>4, GroupBeyond
  <1> QED
    BY <1>1, <1>2, <1>5, PrefixByGroups

LEMMA PrefixThree ==
  ASSUME NEW g, Groups(g), NEW x \in Int, NEW y \in Int, NEW z \in Int
  PROVE  Fetcher!hasIpv6Prefix(g, <<x, y, z>>, 48) <=> g[1] = x /\ g[2] = y /\ g[3] = z
  <1>1. SameBits(g, <<x, y, z>>, 48, 1) <=> g[1] = x
    BY GroupFull, GroupsByIndex
  <1>2. SameBits(g, <<x, y, z>>, 48, 2) <=> g[2] = y
    BY GroupFull, GroupsByIndex
  <1>3. SameBits(g, <<x, y, z>>, 48, 3) <=> g[3] = z
    BY GroupFull, GroupsByIndex
  <1>4. \A i \in 4 .. 8 : i \notin DOMAIN <<x, y, z>> /\ 48 - 16 * (i - 1) <= 0
    OBVIOUS
  <1>5. \A i \in 4 .. 8 : g[i] \in Int /\ 0 <= g[i] /\ g[i] <= 65535
    BY GroupsByIndex
  <1>6. \A i \in 4 .. 8 : SameBits(g, <<x, y, z>>, 48, i)
    BY <1>4, <1>5, GroupBeyond
  <1> QED
    BY <1>1, <1>2, <1>3, <1>6, PrefixByGroups

LEMMA PrefixZero ==
  ASSUME NEW g, Groups(g)
  PROVE  Fetcher!hasIpv6Prefix(g, <<0>>, 96) <=>
             g[1] = 0 /\ g[2] = 0 /\ g[3] = 0 /\ g[4] = 0 /\ g[5] = 0 /\ g[6] = 0
  <1>1. SameBits(g, <<0>>, 96, 1) <=> g[1] = 0
    BY GroupFull, GroupsByIndex
  <1>2. \A i \in 2 .. 6 : i \notin DOMAIN <<0>> /\ 96 - 16 * (i - 1) >= 16 /\ g[i] \in Int
    BY GroupsByIndex
  <1>3. \A i \in 2 .. 6 : SameBits(g, <<0>>, 96, i) <=> g[i] = 0
    BY <1>2, GroupZero
  <1>4. \A i \in 7 .. 8 : i \notin DOMAIN <<0>> /\ 96 - 16 * (i - 1) <= 0
    OBVIOUS
  <1>5. \A i \in 7 .. 8 : g[i] \in Int /\ 0 <= g[i] /\ g[i] <= 65535
    BY GroupsByIndex
  <1>6. \A i \in 7 .. 8 : SameBits(g, <<0>>, 96, i)
    BY <1>4, <1>5, GroupBeyond
  <1> QED
    BY <1>1, <1>3, <1>6, PrefixByGroups

-----------------------------------------------------------------------------
(* The ranges and the tests agree, on every address.                                  *)

Synthetic(a) == a[1] = 198 /\ 18 <= a[2] /\ a[2] <= 19

Protected4(a) ==
    \/ a[1] \in {0, 10, 127} \/ 224 <= a[1]
    \/ a[1] = 100 /\ 64 <= a[2] /\ a[2] <= 127
    \/ a[1] = 169 /\ a[2] = 254
    \/ a[1] = 172 /\ 16 <= a[2] /\ a[2] <= 31
    \/ a[1] = 192 /\ a[2] = 168
    \/ a[1] = 192 /\ a[2] = 0 /\ a[3] \in {0, 2}
    \/ a[1] = 192 /\ a[2] = 88 /\ a[3] = 99
    \/ a[1] = 198 /\ a[2] = 51 /\ a[3] = 100
    \/ a[1] = 203 /\ a[2] = 0 /\ a[3] = 113

Protected6(a) ==
    \/ 64512 <= a[1] /\ a[1] <= 65023
    \/ 65152 <= a[1] /\ a[1] <= 65215
    \/ 65280 <= a[1]
    \/ a[1] = 0 /\ a[2] = 0 /\ a[3] = 0 /\ a[4] = 0 /\ a[5] = 0 /\ a[6] = 0
    \/ a[1] = 256 /\ a[2] = 0
    \/ a[1] = 8193 /\ a[2] \in {0, 3512}
    \/ a[1] = 8193 /\ a[2] = 2 /\ a[3] = 0

LEMMA Literals4 ==
  \A x \in {0, 2, 10, 16, 18, 19, 31, 51, 64, 88, 99, 100, 113, 127, 168, 169, 172, 192, 198, 203, 224, 254, 255} : x \in Fetcher!Octet
  BY DEF Fetcher!Octet

LEMMA Ranges4 ==
  ASSUME NEW a \in Fetcher!Ipv4
  PROVE  /\ \A b \in Fetcher!Ipv4Blocks : Fetcher!Within(a, b) =>
               (b.kind = "other" /\ Protected4(a)) \/ (b.kind = "synthetic" /\ Synthetic(a))
         /\ Protected4(a) => \E b \in Fetcher!Ipv4Blocks : Fetcher!Within(a, b) /\ b.kind = "other"
         /\ Synthetic(a) => \E b \in Fetcher!Ipv4Blocks : Fetcher!Within(a, b) /\ b.kind = "synthetic"
  <1>1. Fetcher!Within(a, Fetcher!Block(<<0, 0, 0, 0>>, <<0, 255, 255, 255>>, "other"))
         <=> 0 <= a[1] /\ a[1] <= 0
    BY Literals4, Range4First
  <1>2. Fetcher!Within(a, Fetcher!Block(<<10, 0, 0, 0>>, <<10, 255, 255, 255>>, "other"))
         <=> 10 <= a[1] /\ a[1] <= 10
    BY Literals4, Range4First
  <1>3. Fetcher!Within(a, Fetcher!Block(<<100, 64, 0, 0>>, <<100, 127, 255, 255>>, "other"))
         <=> a[1] = 100 /\ 64 <= a[2] /\ a[2] <= 127
    BY Literals4, Range4Second
  <1>4. Fetcher!Within(a, Fetcher!Block(<<127, 0, 0, 0>>, <<127, 255, 255, 255>>, "other"))
         <=> 127 <= a[1] /\ a[1] <= 127
    BY Literals4, Range4First
  <1>5. Fetcher!Within(a, Fetcher!Block(<<169, 254, 0, 0>>, <<169, 254, 255, 255>>, "other"))
         <=> a[1] = 169 /\ 254 <= a[2] /\ a[2] <= 254
    BY Literals4, Range4Second
  <1>6. Fetcher!Within(a, Fetcher!Block(<<172, 16, 0, 0>>, <<172, 31, 255, 255>>, "other"))
         <=> a[1] = 172 /\ 16 <= a[2] /\ a[2] <= 31
    BY Literals4, Range4Second
  <1>7. Fetcher!Within(a, Fetcher!Block(<<192, 0, 0, 0>>, <<192, 0, 0, 255>>, "other"))
         <=> a[1] = 192 /\ a[2] = 0 /\ a[3] = 0
    BY Literals4, Range4Third
  <1>8. Fetcher!Within(a, Fetcher!Block(<<192, 0, 2, 0>>, <<192, 0, 2, 255>>, "other"))
         <=> a[1] = 192 /\ a[2] = 0 /\ a[3] = 2
    BY Literals4, Range4Third
  <1>9. Fetcher!Within(a, Fetcher!Block(<<192, 88, 99, 0>>, <<192, 88, 99, 255>>, "other"))
         <=> a[1] = 192 /\ a[2] = 88 /\ a[3] = 99
    BY Literals4, Range4Third
  <1>10. Fetcher!Within(a, Fetcher!Block(<<192, 168, 0, 0>>, <<192, 168, 255, 255>>, "other"))
         <=> a[1] = 192 /\ 168 <= a[2] /\ a[2] <= 168
    BY Literals4, Range4Second
  <1>11. Fetcher!Within(a, Fetcher!Block(<<198, 18, 0, 0>>, <<198, 19, 255, 255>>, "synthetic"))
         <=> a[1] = 198 /\ 18 <= a[2] /\ a[2] <= 19
    BY Literals4, Range4Second
  <1>12. Fetcher!Within(a, Fetcher!Block(<<198, 51, 100, 0>>, <<198, 51, 100, 255>>, "other"))
         <=> a[1] = 198 /\ a[2] = 51 /\ a[3] = 100
    BY Literals4, Range4Third
  <1>13. Fetcher!Within(a, Fetcher!Block(<<203, 0, 113, 0>>, <<203, 0, 113, 255>>, "other"))
         <=> a[1] = 203 /\ a[2] = 0 /\ a[3] = 113
    BY Literals4, Range4Third
  <1>14. Fetcher!Within(a, Fetcher!Block(<<224, 0, 0, 0>>, <<255, 255, 255, 255>>, "other"))
         <=> 224 <= a[1] /\ a[1] <= 255
    BY Literals4, Range4First
  <1>15. \A lo, hi, kind : Fetcher!Block(lo, hi, kind).kind = kind
    BY DEF Fetcher!Block
  <1>16. ASSUME NEW b \in Fetcher!Ipv4Blocks, Fetcher!Within(a, b)
        PROVE  (b.kind = "other" /\ Protected4(a)) \/ (b.kind = "synthetic" /\ Synthetic(a))
    <2>1. CASE b = Fetcher!Block(<<0, 0, 0, 0>>, <<0, 255, 255, 255>>, "other")
      <3>1. Protected4(a)
        BY <1>1, <1>16, <2>1, Ipv4Numbers DEF Protected4, Octets
      <3> QED
        BY <1>15, <2>1, <3>1
    <2>2. CASE b = Fetcher!Block(<<10, 0, 0, 0>>, <<10, 255, 255, 255>>, "other")
      <3>1. Protected4(a)
        BY <1>2, <1>16, <2>2, Ipv4Numbers DEF Protected4, Octets
      <3> QED
        BY <1>15, <2>2, <3>1
    <2>3. CASE b = Fetcher!Block(<<100, 64, 0, 0>>, <<100, 127, 255, 255>>, "other")
      <3>1. Protected4(a)
        BY <1>3, <1>16, <2>3, Ipv4Numbers DEF Protected4, Octets
      <3> QED
        BY <1>15, <2>3, <3>1
    <2>4. CASE b = Fetcher!Block(<<127, 0, 0, 0>>, <<127, 255, 255, 255>>, "other")
      <3>1. Protected4(a)
        BY <1>4, <1>16, <2>4, Ipv4Numbers DEF Protected4, Octets
      <3> QED
        BY <1>15, <2>4, <3>1
    <2>5. CASE b = Fetcher!Block(<<169, 254, 0, 0>>, <<169, 254, 255, 255>>, "other")
      <3>1. Protected4(a)
        BY <1>5, <1>16, <2>5, Ipv4Numbers DEF Protected4, Octets
      <3> QED
        BY <1>15, <2>5, <3>1
    <2>6. CASE b = Fetcher!Block(<<172, 16, 0, 0>>, <<172, 31, 255, 255>>, "other")
      <3>1. Protected4(a)
        BY <1>6, <1>16, <2>6, Ipv4Numbers DEF Protected4, Octets
      <3> QED
        BY <1>15, <2>6, <3>1
    <2>7. CASE b = Fetcher!Block(<<192, 0, 0, 0>>, <<192, 0, 0, 255>>, "other")
      <3>1. Protected4(a)
        BY <1>7, <1>16, <2>7, Ipv4Numbers DEF Protected4, Octets
      <3> QED
        BY <1>15, <2>7, <3>1
    <2>8. CASE b = Fetcher!Block(<<192, 0, 2, 0>>, <<192, 0, 2, 255>>, "other")
      <3>1. Protected4(a)
        BY <1>8, <1>16, <2>8, Ipv4Numbers DEF Protected4, Octets
      <3> QED
        BY <1>15, <2>8, <3>1
    <2>9. CASE b = Fetcher!Block(<<192, 88, 99, 0>>, <<192, 88, 99, 255>>, "other")
      <3>1. Protected4(a)
        BY <1>9, <1>16, <2>9, Ipv4Numbers DEF Protected4, Octets
      <3> QED
        BY <1>15, <2>9, <3>1
    <2>10. CASE b = Fetcher!Block(<<192, 168, 0, 0>>, <<192, 168, 255, 255>>, "other")
      <3>1. Protected4(a)
        BY <1>10, <1>16, <2>10, Ipv4Numbers DEF Protected4, Octets
      <3> QED
        BY <1>15, <2>10, <3>1
    <2>11. CASE b = Fetcher!Block(<<198, 18, 0, 0>>, <<198, 19, 255, 255>>, "synthetic")
      <3>1. Synthetic(a)
        BY <1>11, <1>16, <2>11, Ipv4Numbers DEF Synthetic, Octets
      <3> QED
        BY <1>15, <2>11, <3>1
    <2>12. CASE b = Fetcher!Block(<<198, 51, 100, 0>>, <<198, 51, 100, 255>>, "other")
      <3>1. Protected4(a)
        BY <1>12, <1>16, <2>12, Ipv4Numbers DEF Protected4, Octets
      <3> QED
        BY <1>15, <2>12, <3>1
    <2>13. CASE b = Fetcher!Block(<<203, 0, 113, 0>>, <<203, 0, 113, 255>>, "other")
      <3>1. Protected4(a)
        BY <1>13, <1>16, <2>13, Ipv4Numbers DEF Protected4, Octets
      <3> QED
        BY <1>15, <2>13, <3>1
    <2>14. CASE b = Fetcher!Block(<<224, 0, 0, 0>>, <<255, 255, 255, 255>>, "other")
      <3>1. Protected4(a)
        BY <1>14, <1>16, <2>14, Ipv4Numbers DEF Protected4, Octets
      <3> QED
        BY <1>15, <2>14, <3>1
    <2> QED
      BY <1>16, <2>1, <2>2, <2>3, <2>4, <2>5, <2>6, <2>7, <2>8, <2>9, <2>10, <2>11, <2>12, <2>13, <2>14 DEF Fetcher!Ipv4Blocks
  <1>17. ASSUME Protected4(a)
        PROVE  \E b \in Fetcher!Ipv4Blocks : Fetcher!Within(a, b) /\ b.kind = "other"
    <2>1. CASE 0 <= a[1] /\ a[1] <= 0
      BY <1>1, <1>15, <2>1 DEF Fetcher!Ipv4Blocks
    <2>2. CASE 10 <= a[1] /\ a[1] <= 10
      BY <1>2, <1>15, <2>2 DEF Fetcher!Ipv4Blocks
    <2>3. CASE a[1] = 100 /\ 64 <= a[2] /\ a[2] <= 127
      BY <1>3, <1>15, <2>3 DEF Fetcher!Ipv4Blocks
    <2>4. CASE 127 <= a[1] /\ a[1] <= 127
      BY <1>4, <1>15, <2>4 DEF Fetcher!Ipv4Blocks
    <2>5. CASE a[1] = 169 /\ 254 <= a[2] /\ a[2] <= 254
      BY <1>5, <1>15, <2>5 DEF Fetcher!Ipv4Blocks
    <2>6. CASE a[1] = 172 /\ 16 <= a[2] /\ a[2] <= 31
      BY <1>6, <1>15, <2>6 DEF Fetcher!Ipv4Blocks
    <2>7. CASE a[1] = 192 /\ a[2] = 0 /\ a[3] = 0
      BY <1>7, <1>15, <2>7 DEF Fetcher!Ipv4Blocks
    <2>8. CASE a[1] = 192 /\ a[2] = 0 /\ a[3] = 2
      BY <1>8, <1>15, <2>8 DEF Fetcher!Ipv4Blocks
    <2>9. CASE a[1] = 192 /\ a[2] = 88 /\ a[3] = 99
      BY <1>9, <1>15, <2>9 DEF Fetcher!Ipv4Blocks
    <2>10. CASE a[1] = 192 /\ 168 <= a[2] /\ a[2] <= 168
      BY <1>10, <1>15, <2>10 DEF Fetcher!Ipv4Blocks
    <2>11. CASE a[1] = 198 /\ a[2] = 51 /\ a[3] = 100
      BY <1>12, <1>15, <2>11 DEF Fetcher!Ipv4Blocks
    <2>12. CASE a[1] = 203 /\ a[2] = 0 /\ a[3] = 113
      BY <1>13, <1>15, <2>12 DEF Fetcher!Ipv4Blocks
    <2>13. CASE 224 <= a[1] /\ a[1] <= 255
      BY <1>14, <1>15, <2>13 DEF Fetcher!Ipv4Blocks
    <2> QED
      BY <1>17, <2>1, <2>2, <2>3, <2>4, <2>5, <2>6, <2>7, <2>8, <2>9, <2>10, <2>11, <2>12, <2>13, Ipv4Numbers DEF Protected4, Octets
  <1>18. ASSUME Synthetic(a)
        PROVE  \E b \in Fetcher!Ipv4Blocks : Fetcher!Within(a, b) /\ b.kind = "synthetic"
    <2>1. a[1] = 198 /\ 18 <= a[2] /\ a[2] <= 19
      BY <1>18 DEF Synthetic
    <2> QED
      BY <1>11, <1>15, <2>1 DEF Fetcher!Ipv4Blocks
  <1> QED
    BY <1>16, <1>17, <1>18

LEMMA Literals6 ==
  \A x \in {0, 2, 256, 3512, 8193, 64512, 65023, 65152, 65215, 65280, 65535} : x \in Fetcher!Group
  BY DEF Fetcher!Group

LEMMA Ranges6 ==
  ASSUME NEW a \in Fetcher!Ipv6
  PROVE  /\ \A b \in Fetcher!Ipv6Blocks : Fetcher!Within(a, b) =>
               b.kind = "other" /\ Protected6(a)
         /\ Protected6(a) => \E b \in Fetcher!Ipv6Blocks : Fetcher!Within(a, b) /\ b.kind = "other"
  <1>1. Fetcher!Within(a, Fetcher!Block(<<64512, 0, 0, 0, 0, 0, 0, 0>>, <<65023, 65535, 65535, 65535, 65535, 65535, 65535, 65535>>, "other"))
         <=> 64512 <= a[1] /\ a[1] <= 65023
    BY Literals6, Range6First
  <1>2. Fetcher!Within(a, Fetcher!Block(<<65152, 0, 0, 0, 0, 0, 0, 0>>, <<65215, 65535, 65535, 65535, 65535, 65535, 65535, 65535>>, "other"))
         <=> 65152 <= a[1] /\ a[1] <= 65215
    BY Literals6, Range6First
  <1>3. Fetcher!Within(a, Fetcher!Block(<<65280, 0, 0, 0, 0, 0, 0, 0>>, <<65535, 65535, 65535, 65535, 65535, 65535, 65535, 65535>>, "other"))
         <=> 65280 <= a[1] /\ a[1] <= 65535
    BY Literals6, Range6First
  <1>4. Fetcher!Within(a, Fetcher!Block(<<0, 0, 0, 0, 0, 0, 0, 0>>, <<0, 0, 0, 0, 0, 0, 65535, 65535>>, "other"))
         <=> a[1] = 0 /\ a[2] = 0 /\ a[3] = 0 /\ a[4] = 0 /\ a[5] = 0 /\ a[6] = 0
    BY Literals6, Range6Zero
  <1>5. Fetcher!Within(a, Fetcher!Block(<<256, 0, 0, 0, 0, 0, 0, 0>>, <<256, 0, 65535, 65535, 65535, 65535, 65535, 65535>>, "other"))
         <=> a[1] = 256 /\ a[2] = 0
    BY Literals6, Range6Second
  <1>6. Fetcher!Within(a, Fetcher!Block(<<8193, 0, 0, 0, 0, 0, 0, 0>>, <<8193, 0, 65535, 65535, 65535, 65535, 65535, 65535>>, "other"))
         <=> a[1] = 8193 /\ a[2] = 0
    BY Literals6, Range6Second
  <1>7. Fetcher!Within(a, Fetcher!Block(<<8193, 2, 0, 0, 0, 0, 0, 0>>, <<8193, 2, 0, 65535, 65535, 65535, 65535, 65535>>, "other"))
         <=> a[1] = 8193 /\ a[2] = 2 /\ a[3] = 0
    BY Literals6, Range6Third
  <1>8. Fetcher!Within(a, Fetcher!Block(<<8193, 3512, 0, 0, 0, 0, 0, 0>>, <<8193, 3512, 65535, 65535, 65535, 65535, 65535, 65535>>, "other"))
         <=> a[1] = 8193 /\ a[2] = 3512
    BY Literals6, Range6Second
  <1>9. \A lo, hi, kind : Fetcher!Block(lo, hi, kind).kind = kind
    BY DEF Fetcher!Block
  <1>10. ASSUME NEW b \in Fetcher!Ipv6Blocks, Fetcher!Within(a, b)
        PROVE  b.kind = "other" /\ Protected6(a)
    <2>1. CASE b = Fetcher!Block(<<64512, 0, 0, 0, 0, 0, 0, 0>>, <<65023, 65535, 65535, 65535, 65535, 65535, 65535, 65535>>, "other")
      <3>1. Protected6(a)
        BY <1>1, <1>10, <2>1, Ipv6Numbers DEF Protected6, Groups
      <3> QED
        BY <1>9, <2>1, <3>1
    <2>2. CASE b = Fetcher!Block(<<65152, 0, 0, 0, 0, 0, 0, 0>>, <<65215, 65535, 65535, 65535, 65535, 65535, 65535, 65535>>, "other")
      <3>1. Protected6(a)
        BY <1>2, <1>10, <2>2, Ipv6Numbers DEF Protected6, Groups
      <3> QED
        BY <1>9, <2>2, <3>1
    <2>3. CASE b = Fetcher!Block(<<65280, 0, 0, 0, 0, 0, 0, 0>>, <<65535, 65535, 65535, 65535, 65535, 65535, 65535, 65535>>, "other")
      <3>1. Protected6(a)
        BY <1>3, <1>10, <2>3, Ipv6Numbers DEF Protected6, Groups
      <3> QED
        BY <1>9, <2>3, <3>1
    <2>4. CASE b = Fetcher!Block(<<0, 0, 0, 0, 0, 0, 0, 0>>, <<0, 0, 0, 0, 0, 0, 65535, 65535>>, "other")
      <3>1. Protected6(a)
        BY <1>4, <1>10, <2>4, Ipv6Numbers DEF Protected6, Groups
      <3> QED
        BY <1>9, <2>4, <3>1
    <2>5. CASE b = Fetcher!Block(<<256, 0, 0, 0, 0, 0, 0, 0>>, <<256, 0, 65535, 65535, 65535, 65535, 65535, 65535>>, "other")
      <3>1. Protected6(a)
        BY <1>5, <1>10, <2>5, Ipv6Numbers DEF Protected6, Groups
      <3> QED
        BY <1>9, <2>5, <3>1
    <2>6. CASE b = Fetcher!Block(<<8193, 0, 0, 0, 0, 0, 0, 0>>, <<8193, 0, 65535, 65535, 65535, 65535, 65535, 65535>>, "other")
      <3>1. Protected6(a)
        BY <1>6, <1>10, <2>6, Ipv6Numbers DEF Protected6, Groups
      <3> QED
        BY <1>9, <2>6, <3>1
    <2>7. CASE b = Fetcher!Block(<<8193, 2, 0, 0, 0, 0, 0, 0>>, <<8193, 2, 0, 65535, 65535, 65535, 65535, 65535>>, "other")
      <3>1. Protected6(a)
        BY <1>7, <1>10, <2>7, Ipv6Numbers DEF Protected6, Groups
      <3> QED
        BY <1>9, <2>7, <3>1
    <2>8. CASE b = Fetcher!Block(<<8193, 3512, 0, 0, 0, 0, 0, 0>>, <<8193, 3512, 65535, 65535, 65535, 65535, 65535, 65535>>, "other")
      <3>1. Protected6(a)
        BY <1>8, <1>10, <2>8, Ipv6Numbers DEF Protected6, Groups
      <3> QED
        BY <1>9, <2>8, <3>1
    <2> QED
      BY <1>10, <2>1, <2>2, <2>3, <2>4, <2>5, <2>6, <2>7, <2>8 DEF Fetcher!Ipv6Blocks
  <1>11. ASSUME Protected6(a)
        PROVE  \E b \in Fetcher!Ipv6Blocks : Fetcher!Within(a, b) /\ b.kind = "other"
    <2>1. CASE 64512 <= a[1] /\ a[1] <= 65023
      BY <1>1, <1>9, <2>1 DEF Fetcher!Ipv6Blocks
    <2>2. CASE 65152 <= a[1] /\ a[1] <= 65215
      BY <1>2, <1>9, <2>2 DEF Fetcher!Ipv6Blocks
    <2>3. CASE 65280 <= a[1] /\ a[1] <= 65535
      BY <1>3, <1>9, <2>3 DEF Fetcher!Ipv6Blocks
    <2>4. CASE a[1] = 0 /\ a[2] = 0 /\ a[3] = 0 /\ a[4] = 0 /\ a[5] = 0 /\ a[6] = 0
      BY <1>4, <1>9, <2>4 DEF Fetcher!Ipv6Blocks
    <2>5. CASE a[1] = 256 /\ a[2] = 0
      BY <1>5, <1>9, <2>5 DEF Fetcher!Ipv6Blocks
    <2>6. CASE a[1] = 8193 /\ a[2] = 0
      BY <1>6, <1>9, <2>6 DEF Fetcher!Ipv6Blocks
    <2>7. CASE a[1] = 8193 /\ a[2] = 2 /\ a[3] = 0
      BY <1>7, <1>9, <2>7 DEF Fetcher!Ipv6Blocks
    <2>8. CASE a[1] = 8193 /\ a[2] = 3512
      BY <1>8, <1>9, <2>8 DEF Fetcher!Ipv6Blocks
    <2> QED
      BY <1>11, <2>1, <2>2, <2>3, <2>4, <2>5, <2>6, <2>7, <2>8, Ipv6Numbers DEF Protected6, Groups
  <1> QED
    BY <1>10, <1>11

LEMMA BlockLengths ==
  /\ \A b \in Fetcher!Ipv4Blocks : Len(b.lo) = 4
  /\ \A b \in Fetcher!Ipv6Blocks : Len(b.lo) = 8
  <1>1. \A lo, hi, kind : Fetcher!Block(lo, hi, kind).lo = lo
    BY DEF Fetcher!Block
  <1>2. \A p, q, r, s : Len(<<p, q, r, s>>) = 4
    OBVIOUS
  <1>3. \A p, q, r, s, t, u, v, w : Len(<<p, q, r, s, t, u, v, w>>) = 8
    OBVIOUS
  <1>4. ASSUME NEW b \in Fetcher!Ipv4Blocks PROVE Len(b.lo) = 4
    BY <1>1, <1>2 DEF Fetcher!Ipv4Blocks
  <1>5. ASSUME NEW b \in Fetcher!Ipv6Blocks PROVE Len(b.lo) = 8
    BY <1>1, <1>3 DEF Fetcher!Ipv6Blocks
  <1> QED
    BY <1>4, <1>5

LEMMA MetadataTyped ==
  Fetcher!METADATA_IPV4 \subseteq Fetcher!Ipv4 /\ Fetcher!METADATA_IPV6 \subseteq Fetcher!Ipv6
  <1>1. \A x \in {2, 16, 23, 63, 100, 129, 168, 169, 170, 200, 254} : x \in Fetcher!Octet
    BY DEF Fetcher!Octet
  <1>2. /\ 0 \in Fetcher!Group /\ 596 \in Fetcher!Group /\ 3778 \in Fetcher!Group
        /\ 43518 \in Fetcher!Group /\ 64768 \in Fetcher!Group /\ 65152 \in Fetcher!Group
    BY DEF Fetcher!Group
  <1>3. ASSUME NEW m \in Fetcher!METADATA_IPV4 PROVE m \in Fetcher!Ipv4
    BY <1>1, Ipv4Literal DEF Fetcher!METADATA_IPV4
  <1>4. <<64768, 3778, 0, 0, 0, 0, 0, 596>> \in Fetcher!Ipv6
    BY <1>2 DEF Fetcher!Ipv6
  <1>5. <<65152, 0, 0, 0, 0, 0, 43518, 43518>> \in Fetcher!Ipv6
    <2>1. PICK zero \in Fetcher!Group, high \in Fetcher!Group, low \in Fetcher!Group :
             zero = 0 /\ high = 65152 /\ low = 43518
      BY <1>2
    <2>2. <<high, zero, zero, zero, zero, zero, low, low>> \in Fetcher!Ipv6
      BY DEF Fetcher!Ipv6
    <2> QED
      BY <2>1, <2>2
  <1>6. ASSUME NEW m \in Fetcher!METADATA_IPV6 PROVE m \in Fetcher!Ipv6
    BY <1>4, <1>5 DEF Fetcher!METADATA_IPV6
  <1> QED
    BY <1>3, <1>6

KindsAt(a) == {b.kind : b \in {block \in Fetcher!ProtectedBlocks : Fetcher!Within(a, block)}}

LEMMA MetadataHit ==
  ASSUME NEW a \in Fetcher!Addresses
  PROVE  /\ \A b \in Fetcher!MetadataBlocks : Fetcher!Within(a, b) =>
               b.kind = "metadata" /\ a \in Fetcher!METADATA_IPV4 \union Fetcher!METADATA_IPV6
         /\ a \in Fetcher!METADATA_IPV4 \union Fetcher!METADATA_IPV6 =>
               \E b \in Fetcher!MetadataBlocks : Fetcher!Within(a, b) /\ b.kind = "metadata"
  <1>1. \A m : Fetcher!Block(m, m, "metadata").kind = "metadata" /\ Fetcher!Block(m, m, "metadata").lo = m
    BY DEF Fetcher!Block
  <1>2. ASSUME NEW m \in Fetcher!METADATA_IPV4 \union Fetcher!METADATA_IPV6
        PROVE  Fetcher!Within(a, Fetcher!Block(m, m, "metadata")) <=> a = m
    <2>1. Fetcher!Block(m, m, "metadata") = [lo |-> m, hi |-> m, kind |-> "metadata"]
      BY DEF Fetcher!Block
    <2>2. CASE a \in Fetcher!Ipv4 /\ m \in Fetcher!Ipv4
      BY <2>1, <2>2, Single4
    <2>3. CASE a \in Fetcher!Ipv6 /\ m \in Fetcher!Ipv6
      BY <2>1, <2>3, Single8
    <2>4. CASE Len(a) # Len(m)
      BY <1>1, <2>4 DEF Fetcher!Within
    <2> QED
      BY <1>2, <2>2, <2>3, <2>4, MetadataTyped, Ipv4Numbers, Ipv6Numbers DEF Fetcher!Addresses
  <1>3. ASSUME NEW b \in Fetcher!MetadataBlocks, Fetcher!Within(a, b)
        PROVE  b.kind = "metadata" /\ a \in Fetcher!METADATA_IPV4 \union Fetcher!METADATA_IPV6
    <2>1. PICK m \in Fetcher!METADATA_IPV4 \union Fetcher!METADATA_IPV6 : b = Fetcher!Block(m, m, "metadata")
      BY Zenon DEF Fetcher!MetadataBlocks
    <2> QED
      BY <1>1, <1>2, <1>3, <2>1
  <1>4. ASSUME a \in Fetcher!METADATA_IPV4 \union Fetcher!METADATA_IPV6
        PROVE  \E b \in Fetcher!MetadataBlocks : Fetcher!Within(a, b) /\ b.kind = "metadata"
    <2>1. Fetcher!Block(a, a, "metadata") \in Fetcher!MetadataBlocks
      BY <1>4, Zenon DEF Fetcher!MetadataBlocks
    <2>2. Fetcher!Within(a, Fetcher!Block(a, a, "metadata"))
      BY <1>2, <1>4
    <2> QED
      BY <1>1, <2>1, <2>2
  <1> QED
    BY <1>3, <1>4

LEMMA Kinds4 ==
  ASSUME NEW a \in Fetcher!Ipv4
  PROVE  /\ KindsAt(a) \subseteq {"metadata", "synthetic", "other"}
         /\ "metadata" \in KindsAt(a) <=> a \in Fetcher!METADATA_IPV4
         /\ "synthetic" \in KindsAt(a) <=> Synthetic(a)
         /\ "other" \in KindsAt(a) <=> Protected4(a)
  <1>1. a \in Fetcher!Addresses /\ Len(a) = 4
    BY Ipv4Numbers DEF Fetcher!Addresses
  <1>2. a \notin Fetcher!METADATA_IPV6
    BY <1>1, MetadataTyped, Ipv6Numbers
  <1>3. \A b \in Fetcher!Ipv6Blocks : ~Fetcher!Within(a, b)
    BY <1>1, BlockLengths DEF Fetcher!Within
  <1>4. \A k : k \in KindsAt(a) <=> \E b \in Fetcher!ProtectedBlocks : Fetcher!Within(a, b) /\ b.kind = k
    BY Zenon DEF KindsAt
  <1>5. \A b : b \in Fetcher!ProtectedBlocks <=>
            b \in Fetcher!MetadataBlocks \/ b \in Fetcher!Ipv4Blocks \/ b \in Fetcher!Ipv6Blocks
    BY Zenon DEF Fetcher!ProtectedBlocks
  <1>6. \A b \in Fetcher!ProtectedBlocks : Fetcher!Within(a, b) =>
            \/ b.kind = "metadata" /\ a \in Fetcher!METADATA_IPV4
            \/ b.kind = "other" /\ Protected4(a)
            \/ b.kind = "synthetic" /\ Synthetic(a)
    BY <1>1, <1>2, <1>3, <1>5, MetadataHit, Ranges4
  <1>7. a \in Fetcher!METADATA_IPV4 => "metadata" \in KindsAt(a)
    BY <1>1, <1>4, <1>5, MetadataHit
  <1>8. Synthetic(a) => "synthetic" \in KindsAt(a)
    BY <1>4, <1>5, Ranges4
  <1>9. Protected4(a) => "other" \in KindsAt(a)
    BY <1>4, <1>5, Ranges4
  <1>10. KindsAt(a) \subseteq {"metadata", "synthetic", "other"}
    BY <1>4, <1>6
  <1>11. "metadata" \in KindsAt(a) => a \in Fetcher!METADATA_IPV4
    BY <1>4, <1>6
  <1>12. "synthetic" \in KindsAt(a) => Synthetic(a)
    BY <1>4, <1>6
  <1>13. "other" \in KindsAt(a) => Protected4(a)
    BY <1>4, <1>6
  <1> QED
    BY <1>7, <1>8, <1>9, <1>10, <1>11, <1>12, <1>13

LEMMA Kinds6 ==
  ASSUME NEW a \in Fetcher!Ipv6
  PROVE  /\ KindsAt(a) \subseteq {"metadata", "other"}
         /\ "metadata" \in KindsAt(a) <=> a \in Fetcher!METADATA_IPV6
         /\ "other" \in KindsAt(a) <=> Protected6(a)
  <1>1. a \in Fetcher!Addresses /\ Len(a) = 8
    BY Ipv6Numbers DEF Fetcher!Addresses
  <1>2. a \notin Fetcher!METADATA_IPV4
    BY <1>1, MetadataTyped, Ipv4Numbers
  <1>3. \A b \in Fetcher!Ipv4Blocks : ~Fetcher!Within(a, b)
    BY <1>1, BlockLengths DEF Fetcher!Within
  <1>4. \A k : k \in KindsAt(a) <=> \E b \in Fetcher!ProtectedBlocks : Fetcher!Within(a, b) /\ b.kind = k
    BY Zenon DEF KindsAt
  <1>5. \A b : b \in Fetcher!ProtectedBlocks <=>
            b \in Fetcher!MetadataBlocks \/ b \in Fetcher!Ipv4Blocks \/ b \in Fetcher!Ipv6Blocks
    BY Zenon DEF Fetcher!ProtectedBlocks
  <1>6. \A b \in Fetcher!ProtectedBlocks : Fetcher!Within(a, b) =>
            \/ b.kind = "metadata" /\ a \in Fetcher!METADATA_IPV6
            \/ b.kind = "other" /\ Protected6(a)
    BY <1>1, <1>2, <1>3, <1>5, MetadataHit, Ranges6
  <1>7. a \in Fetcher!METADATA_IPV6 => "metadata" \in KindsAt(a)
    BY <1>1, <1>4, <1>5, MetadataHit
  <1>8. Protected6(a) => "other" \in KindsAt(a)
    BY <1>4, <1>5, Ranges6
  <1>9. KindsAt(a) \subseteq {"metadata", "other"}
    BY <1>4, <1>6
  <1>10. "metadata" \in KindsAt(a) => a \in Fetcher!METADATA_IPV6
    BY <1>4, <1>6
  <1>11. "other" \in KindsAt(a) => Protected6(a)
    BY <1>4, <1>6
  <1> QED
    BY <1>7, <1>8, <1>9, <1>10, <1>11

LEMMA Classes4 ==
  ASSUME NEW a \in Fetcher!Ipv4
  PROVE  /\ Fetcher!classifyIpv4(a) = "metadata" <=> a \in Fetcher!METADATA_IPV4
         /\ Fetcher!classifyIpv4(a) = "public" <=>
                a \notin Fetcher!METADATA_IPV4 /\ ~Protected4(a) /\ ~Synthetic(a)
         /\ Synthetic(a) => Fetcher!classifyIpv4(a) = "reserved" /\ ~Protected4(a)
                            /\ a \notin Fetcher!METADATA_IPV4
  <1> DEFINE metadata == a \in Fetcher!METADATA_IPV4
             loopback == a[1] = 127
             private == a[1] = 10 \/ (a[1] = 172 /\ a[2] \in 16 .. 31) \/ (a[1] = 192 /\ a[2] = 168)
             linklocal == a[1] = 169 /\ a[2] = 254
             multicast == a[1] \in 224 .. 239
             reserved == \/ a[1] >= 240 \/ a[1] = 0 \/ (a[1] = 100 /\ a[2] \in 64 .. 127)
                         \/ (a[1] = 192 /\ a[2] = 0 /\ a[3] \in {0, 2}) \/ (a[1] = 192 /\ a[2] = 88 /\ a[3] = 99)
                         \/ (a[1] = 198 /\ a[2] \in 18 .. 19) \/ (a[1] = 198 /\ a[2] = 51 /\ a[3] = 100)
                         \/ (a[1] = 203 /\ a[2] = 0 /\ a[3] = 113)
             class == Fetcher!classifyIpv4(a)
  <1>1. Octets(a)
    BY Ipv4Numbers
  <1>2. class = IF metadata THEN "metadata" ELSE IF loopback THEN "loopback"
                ELSE IF private THEN "private" ELSE IF linklocal THEN "link-local"
                ELSE IF multicast THEN "multicast" ELSE IF reserved THEN "reserved" ELSE "public"
    BY Zenon DEF Fetcher!classifyIpv4
  <1>3. loopback \/ private \/ linklocal \/ multicast \/ reserved <=> Protected4(a) \/ Synthetic(a)
    BY <1>1 DEF Octets, Protected4, Synthetic
  <1>4. Synthetic(a) => ~loopback /\ ~private /\ ~linklocal /\ ~multicast /\ reserved /\ ~Protected4(a)
    BY <1>1 DEF Octets, Protected4, Synthetic
  <1>5. Synthetic(a) => ~metadata
    <2>1. \A m \in Fetcher!METADATA_IPV4 : m[1] # 198
      BY DEF Fetcher!METADATA_IPV4
    <2> QED
      BY <2>1 DEF Synthetic
  <1> HIDE DEF loopback, private, linklocal, multicast, reserved, metadata
  <1>6. class = "metadata" <=> metadata
    BY <1>2
  <1>7. class = "public" <=> ~(metadata \/ loopback \/ private \/ linklocal \/ multicast \/ reserved)
    BY <1>2
  <1>8. Synthetic(a) => class = "reserved"
    BY <1>2, <1>4, <1>5
  <1> QED
    BY <1>3, <1>4, <1>5, <1>6, <1>7, <1>8 DEF metadata

LEMMA Classes6 ==
  ASSUME NEW a \in Fetcher!Ipv6
  PROVE  /\ Fetcher!classifyIpv6(a) = "metadata" <=> a \in Fetcher!METADATA_IPV6
         /\ Fetcher!classifyIpv6(a) = "public" <=> a \notin Fetcher!METADATA_IPV6 /\ ~Protected6(a)
  <1> DEFINE metadata == a \in Fetcher!METADATA_IPV6
             unspecified == \A i \in 1 .. 8 : a[i] = 0
             loopback == \A i \in 1 .. 8 : a[i] = (IF i = 8 THEN 1 ELSE 0)
             private == Fetcher!hasIpv6Prefix(a, <<64512>>, 7)
             linklocal == Fetcher!hasIpv6Prefix(a, <<65152>>, 10)
             multicast == Fetcher!hasIpv6Prefix(a, <<65280>>, 8)
             document == Fetcher!hasIpv6Prefix(a, <<8193, 3512>>, 32)
             teredo == Fetcher!hasIpv6Prefix(a, <<8193, 0>>, 32)
             benchmark == Fetcher!hasIpv6Prefix(a, <<8193, 2, 0>>, 48)
             discard == Fetcher!hasIpv6Prefix(a, <<256, 0>>, 32)
             zero == Fetcher!hasIpv6Prefix(a, <<0>>, 96)
             class == Fetcher!classifyIpv6(a)
  <1>1. Groups(a)
    BY Ipv6Numbers
  <1>2. class = IF metadata THEN "metadata" ELSE IF unspecified THEN "reserved" ELSE IF loopback THEN "loopback"
                ELSE IF private THEN "private" ELSE IF linklocal THEN "link-local"
                ELSE IF multicast THEN "multicast"
                ELSE IF document \/ teredo \/ benchmark \/ discard \/ zero THEN "reserved" ELSE "public"
    BY DEF Fetcher!classifyIpv6
  <1>3. private <=> 64512 <= a[1] /\ a[1] <= 65023
    BY <1>1, PrefixPrivate
  <1>4. linklocal <=> 65152 <= a[1] /\ a[1] <= 65215
    BY <1>1, PrefixLinkLocal
  <1>5. multicast <=> 65280 <= a[1] /\ a[1] <= 65535
    BY <1>1, PrefixMulticast
  <1>6. document <=> a[1] = 8193 /\ a[2] = 3512
    BY <1>1, PrefixTwo
  <1>7. teredo <=> a[1] = 8193 /\ a[2] = 0
    BY <1>1, PrefixTwo
  <1>8. benchmark <=> a[1] = 8193 /\ a[2] = 2 /\ a[3] = 0
    BY <1>1, PrefixThree
  <1>9. discard <=> a[1] = 256 /\ a[2] = 0
    BY <1>1, PrefixTwo
  <1>10. zero <=> a[1] = 0 /\ a[2] = 0 /\ a[3] = 0 /\ a[4] = 0 /\ a[5] = 0 /\ a[6] = 0
    BY <1>1, PrefixZero
  <1>11. unspecified \/ loopback => zero
    BY <1>10
  <1> HIDE DEF metadata, unspecified, loopback, private, linklocal, multicast, document, teredo, benchmark,
               discard, zero
  <1>12. private \/ linklocal \/ multicast \/ document \/ teredo \/ benchmark \/ discard \/ zero <=> Protected6(a)
    BY <1>1, <1>3, <1>4, <1>5, <1>6, <1>7, <1>8, <1>9, <1>10 DEF Groups, Protected6
  <1>13. class = "metadata" <=> metadata
    BY <1>2
  <1>14. class = "public" <=> ~(metadata \/ unspecified \/ loopback \/ private \/ linklocal \/ multicast
                                \/ document \/ teredo \/ benchmark \/ discard \/ zero)
    BY <1>2
  <1> QED
    BY <1>11, <1>12, <1>13, <1>14 DEF metadata

LEMMA EmbeddedTyped ==
  ASSUME NEW a \in Fetcher!Ipv6
  PROVE  Fetcher!Embedded(a) \in Fetcher!Ipv4
  <1>1. Groups(a)
    BY Ipv6Numbers
  <1>2. /\ a[7] \div 256 \in Fetcher!Octet /\ a[7] % 256 \in Fetcher!Octet
        /\ a[8] \div 256 \in Fetcher!Octet /\ a[8] % 256 \in Fetcher!Octet
    BY <1>1 DEF Groups, Fetcher!Octet
  <1> QED
    BY <1>2, Ipv4Literal DEF Fetcher!Embedded

\* classifyAddress and isSyntheticTunnelAddress: on every IPv4 and IPv6 address, the
\* IPv4 ones that are written as IPv6 among them, the prefix and octet tests agree with
\* the first and last addresses of the protected networks.
THEOREM ClassesAgree ==
  ASSUME NEW a \in Fetcher!Addresses
  PROVE  /\ Fetcher!classifyAddress(a) = "public" <=> Fetcher!Protections(a) = {}
         /\ Fetcher!classifyAddress(a) = "metadata" <=> "metadata" \in Fetcher!Protections(a)
         /\ Fetcher!isSyntheticTunnelAddress(a) <=> Len(a) = 4 /\ Fetcher!Protections(a) = {"synthetic"}
         /\ Fetcher!isSyntheticTunnelAddress(a) => Fetcher!classifyAddress(a) = "reserved"
  <1>1. Fetcher!Protections(a) = KindsAt(Fetcher!Plain(a))
    BY Zenon DEF Fetcher!Protections, KindsAt
  <1>2. ASSUME NEW e \in Fetcher!Ipv4
        PROVE  /\ Fetcher!classifyIpv4(e) = "public" <=> KindsAt(e) = {}
               /\ Fetcher!classifyIpv4(e) = "metadata" <=> "metadata" \in KindsAt(e)
               /\ Synthetic(e) <=> KindsAt(e) = {"synthetic"}
               /\ Synthetic(e) => Fetcher!classifyIpv4(e) = "reserved"
    <2>1. KindsAt(e) = {} <=> e \notin Fetcher!METADATA_IPV4 /\ ~Protected4(e) /\ ~Synthetic(e)
      BY Kinds4
    <2>2. Synthetic(e) => KindsAt(e) = {"synthetic"}
      BY Kinds4, Classes4
    <2>3. KindsAt(e) = {"synthetic"} => Synthetic(e)
      BY Kinds4
    <2> QED
      BY <2>1, <2>2, <2>3, Kinds4, Classes4
  <1>3. CASE a \in Fetcher!Ipv4
    <2>1. Len(a) = 4 /\ Octets(a)
      BY <1>3, Ipv4Numbers
    <2>2. Fetcher!classifyAddress(a) = Fetcher!classifyIpv4(a) /\ Fetcher!Plain(a) = a
      BY <2>1 DEF Fetcher!classifyAddress, Fetcher!Plain
    <2>3. Fetcher!isSyntheticTunnelAddress(a) <=> Synthetic(a)
      BY <2>1 DEF Fetcher!isSyntheticTunnelAddress, Synthetic, Octets
    <2> QED
      BY <1>1, <1>2, <1>3, <2>1, <2>2, <2>3
  <1>4. CASE a \in Fetcher!Ipv6 /\ Fetcher!isIpv4Mapped(a)
    <2>1. Len(a) = 8
      BY <1>4, Ipv6Numbers
    <2>2. Fetcher!classifyAddress(a) = Fetcher!classifyIpv4(Fetcher!Embedded(a))
      BY <1>4, <2>1 DEF Fetcher!classifyAddress
    <2>3. Fetcher!Plain(a) = Fetcher!Embedded(a)
      BY <1>4, <2>1 DEF Fetcher!Plain
    <2>4. ~Fetcher!isSyntheticTunnelAddress(a)
      BY <2>1 DEF Fetcher!isSyntheticTunnelAddress
    <2>5. PICK e \in Fetcher!Ipv4 : e = Fetcher!Embedded(a)
      BY <1>4, EmbeddedTyped
    <2> QED
      BY <1>1, <1>2, <2>1, <2>2, <2>3, <2>4, <2>5
  <1>5. CASE a \in Fetcher!Ipv6 /\ ~Fetcher!isIpv4Mapped(a)
    <2>1. Len(a) = 8
      BY <1>5, Ipv6Numbers
    <2>2. Fetcher!classifyAddress(a) = Fetcher!classifyIpv6(a) /\ Fetcher!Plain(a) = a
      BY <1>5, <2>1 DEF Fetcher!classifyAddress, Fetcher!Plain
    <2>3. ~Fetcher!isSyntheticTunnelAddress(a)
      BY <2>1 DEF Fetcher!isSyntheticTunnelAddress
    <2>4. KindsAt(a) = {} <=> a \notin Fetcher!METADATA_IPV6 /\ ~Protected6(a)
      BY <1>5, Kinds6
    <2> QED
      BY <1>1, <1>5, <2>1, <2>2, <2>3, <2>4, Kinds6, Classes6
  <1> QED
    BY <1>3, <1>4, <1>5 DEF Fetcher!Addresses

LEMMA ApprovedIsLawful ==
  ASSUME NEW a \in Fetcher!Addresses
  PROVE  Fetcher!Approved(a) <=> Fetcher!Lawful(a)
  <1>1. CASE policy.synthetic /\ Fetcher!isSyntheticTunnelAddress(a)
    BY <1>1, ClassesAgree DEF Fetcher!Approved, Fetcher!Lawful, Fetcher!isPrivateException
  <1>2. CASE ~(policy.synthetic /\ Fetcher!isSyntheticTunnelAddress(a))
    BY <1>2, ClassesAgree DEF Fetcher!Approved, Fetcher!Lawful, Fetcher!isPrivateException
  <1> QED
    BY <1>1, <1>2

-----------------------------------------------------------------------------
(* Fetches.  Whatever is pinned, cached or connected to was approved under the policy, *)
(* which never changes.                                                               *)

Permits(p, a) ==
    \/ Fetcher!classifyAddress(a) = "public"
    \/ IF p.synthetic /\ Fetcher!isSyntheticTunnelAddress(a) THEN Fetcher!classifyAddress(a) = "reserved"
       ELSE p.private /\ Fetcher!classifyAddress(a) # "metadata"

PermitsAll(p, answer) == answer # <<>> /\ \A i \in DOMAIN answer : Permits(p, answer[i])

Answers == Seq(Fetcher!Addresses)
Entries == [name : Names, addresses : Answers, expires : Nat]
Fetches == [at : {"checking", "refused", "pinned", "resolving", "waiting", "reading"},
            url : Pages \union Probes, hops : Nat, pinned : Answers, asked : Nat,
            aborted : BOOLEAN, body : Nat]

FetchSound(p, f) ==
    /\ f \in {Fetcher!Idle} \union Fetches
    /\ f.at = "pinned" => PermitsAll(p, f.pinned)
    /\ f.at = "resolving" => Fetcher!Named(f.url)
    /\ f.at = "refused" /\ ~Fetcher!Named(f.url) /\ (f.url.scheme = "https" \/ p.http) =>
           ~Permits(p, f.url.address)

CacheSound(p, c) ==
    /\ c \in Seq(Entries) /\ Len(c) <= CacheLimit
    /\ \A i \in 1 .. Len(c) : PermitsAll(p, c[i].addresses)

Reached(p, a) == a = <<>> \/ (a \in Fetcher!Addresses /\ Permits(p, a))

\* What every state of the fetcher satisfies.
FetchInv ==
    /\ dns \in [Names -> Answers] /\ now \in Nat
    /\ CacheSound(policy, cache)
    /\ FetchSound(policy, fetch)
    /\ Reached(policy, connected)

LEMMA ApprovedMeans == \A a : Fetcher!Approved(a) <=> Permits(policy, a)
  BY DEF Fetcher!Approved, Fetcher!isPrivateException, Permits

LEMMA AllApprovedMeans == \A answer : Fetcher!AllApproved(answer) <=> PermitsAll(policy, answer)
  BY ApprovedMeans DEF Fetcher!AllApproved, PermitsAll

LEMMA FetchIdle == \A p : FetchSound(p, Fetcher!Idle)
  BY DEF FetchSound, Fetcher!Idle

LEMMA FetchInitially ==
  ASSUME Fetcher!FetchInit
  PROVE  FetchInv
  <1>1. dns \in [Names -> Answers] /\ now \in Nat
    BY FetchAssumption DEF Fetcher!FetchInit, Answers
  <1>2. CacheSound(policy, cache)
    BY FetchAssumption DEF Fetcher!FetchInit, CacheSound
  <1>3. FetchSound(policy, fetch)
    BY FetchIdle DEF Fetcher!FetchInit
  <1>4. Reached(policy, connected)
    BY DEF Fetcher!FetchInit, Reached
  <1> QED
    BY <1>1, <1>2, <1>3, <1>4 DEF FetchInv

\* A step that only moves the fetch.
LEMMA FetchMoves ==
  ASSUME FetchInv, UNCHANGED <<policy, dns, now, cache, connected>>, FetchSound(policy, fetch')
  PROVE  FetchInv'
  BY DEF FetchInv

LEMMA FetchBegins ==
  ASSUME FetchInv, NEW url \in Pages \union Probes, Fetcher!Begin(url)
  PROVE  FetchInv'
  <1>1. fetch' \in Fetches /\ fetch'.at = "checking"
    BY DEF Fetcher!Begin, Fetches, Answers
  <1>2. FetchSound(policy, fetch')
    BY <1>1 DEF FetchSound
  <1> QED
    BY <1>2, FetchMoves DEF Fetcher!Begin

LEMMA FetchUnderWay ==
  ASSUME FetchInv, fetch.at # "idle"
  PROVE  fetch \in Fetches
  BY DEF FetchInv, FetchSound, Fetcher!Idle

LEMMA FetchRefuses ==
  ASSUME FetchInv, Fetcher!Refuses
  PROVE  FetchInv'
  <1>1. fetch \in Fetches /\ fetch.at = "checking" /\ Fetcher!Blocked(fetch.url)
    BY FetchUnderWay DEF Fetcher!Refuses
  <1>2. fetch' = [fetch EXCEPT !.at = "refused"]
    BY DEF Fetcher!Refuses
  <1>3. fetch' \in Fetches /\ fetch'.at = "refused" /\ fetch'.url = fetch.url
    BY <1>1, <1>2 DEF Fetches
  <1>4. ~Fetcher!Named(fetch.url) /\ (fetch.url.scheme = "https" \/ policy.http) =>
            ~Permits(policy, fetch.url.address)
    BY <1>1, ApprovedMeans DEF Fetcher!Blocked, Fetcher!SchemeAllowed
  <1>5. FetchSound(policy, fetch')
    BY <1>3, <1>4 DEF FetchSound
  <1> QED
    BY <1>5, FetchMoves DEF Fetcher!Refuses

LEMMA FetchPinsLiteral ==
  ASSUME FetchInv, Fetcher!PinsLiteral
  PROVE  FetchInv'
  <1>1. fetch \in Fetches /\ ~Fetcher!Blocked(fetch.url) /\ ~Fetcher!Named(fetch.url)
    BY FetchUnderWay DEF Fetcher!PinsLiteral
  <1>2. fetch.url \in Pages \union Probes
    BY <1>1 DEF Fetches
  <1>3. PICK a \in Fetcher!Addresses : a = fetch.url.address
    BY <1>1, <1>2, FetchAssumption
  <1>4. Permits(policy, a)
    BY <1>1, <1>3, ApprovedMeans DEF Fetcher!Blocked
  <1>5. <<a>> \in Answers /\ PermitsAll(policy, <<a>>)
    BY <1>4 DEF Answers, PermitsAll
  <1>6. fetch' = [fetch EXCEPT !.at = "pinned", !.pinned = <<a>>]
    BY <1>3 DEF Fetcher!PinsLiteral
  <1>7. fetch' \in Fetches /\ fetch'.at = "pinned" /\ fetch'.pinned = <<a>>
    BY <1>1, <1>5, <1>6 DEF Fetches
  <1>8. FetchSound(policy, fetch')
    BY <1>5, <1>7 DEF FetchSound
  <1> QED
    BY <1>8, FetchMoves DEF Fetcher!PinsLiteral

LEMMA FetchPinsCached ==
  ASSUME FetchInv, Fetcher!PinsCached
  PROVE  FetchInv'
  <1>1. fetch \in Fetches
    BY FetchUnderWay DEF Fetcher!PinsCached
  <1>2. PICK i \in DOMAIN cache : fetch' = [fetch EXCEPT !.at = "pinned", !.pinned = cache[i].addresses]
    BY DEF Fetcher!PinsCached, Fetcher!Fresh
  <1>3. cache \in Seq(Entries) /\ \A j \in 1 .. Len(cache) : PermitsAll(policy, cache[j].addresses)
    BY DEF FetchInv, CacheSound
  <1>4. i \in 1 .. Len(cache)
    BY <1>2, <1>3
  <1>5. cache[i] \in Entries
    BY <1>3, <1>4, ElementOfSeq, Zenon
  <1>6. PICK answer \in Answers : answer = cache[i].addresses
    BY <1>5 DEF Entries
  <1>7. PermitsAll(policy, answer)
    BY <1>3, <1>4, <1>6
  <1>8. fetch' \in Fetches /\ fetch'.at = "pinned" /\ fetch'.pinned = answer
    BY <1>1, <1>2, <1>6 DEF Fetches
  <1>9. FetchSound(policy, fetch')
    BY <1>7, <1>8 DEF FetchSound
  <1> QED
    BY <1>9, FetchMoves DEF Fetcher!PinsCached

LEMMA FetchResolves ==
  ASSUME FetchInv, Fetcher!Resolves
  PROVE  FetchInv'
  <1>1. fetch \in Fetches /\ Fetcher!Named(fetch.url)
    BY FetchUnderWay DEF Fetcher!Resolves
  <1>2. fetch' = [fetch EXCEPT !.at = "resolving", !.asked = now] /\ now \in Nat
    BY DEF Fetcher!Resolves, FetchInv
  <1>3. fetch' \in Fetches /\ fetch'.at = "resolving" /\ fetch'.url = fetch.url
    BY <1>1, <1>2 DEF Fetches
  <1>4. FetchSound(policy, fetch')
    BY <1>1, <1>3 DEF FetchSound
  <1> QED
    BY <1>4, FetchMoves DEF Fetcher!Resolves

\* The cache never grows beyond its limit, and holds what it is given.
LEMMA RememberSound ==
  ASSUME NEW p, CacheSound(p, cache), NEW name \in Names, NEW answer \in Answers, NEW expires \in Nat,
         PermitsAll(p, answer)
  PROVE  CacheSound(p, Fetcher!Remember(name, answer, expires))
  <1> DEFINE kept == IF Len(cache) >= CacheLimit THEN Tail(cache) ELSE cache
             entry == [name |-> name, addresses |-> answer, expires |-> expires]
             replaced == [i \in DOMAIN kept |-> IF kept[i].name = name THEN entry ELSE kept[i]]
             added == Append(kept, entry)
  <1>1. cache \in Seq(Entries) /\ Len(cache) \in Nat /\ Len(cache) <= CacheLimit /\ CacheLimit \in Nat \ {0}
    BY FetchAssumption DEF CacheSound
  <1>2. \A i \in 1 .. Len(cache) : PermitsAll(p, cache[i].addresses)
    BY DEF CacheSound
  <1>3. kept \in Seq(Entries) /\ Len(kept) < CacheLimit
        /\ \A i \in 1 .. Len(kept) : PermitsAll(p, kept[i].addresses)
    <2>1. CASE Len(cache) >= CacheLimit
      <3>1. kept = Tail(cache) /\ cache # <<>>
        BY <1>1, <2>1
      <3>2. kept \in Seq(Entries) /\ Len(kept) = Len(cache) - 1
        BY <1>1, <3>1
      <3>3. \A i \in 1 .. Len(kept) : kept[i] = cache[i + 1] /\ i + 1 \in 1 .. Len(cache)
        BY <1>1, <3>1, <3>2
      <3> QED
        BY <1>1, <1>2, <3>2, <3>3
    <2>2. CASE ~(Len(cache) >= CacheLimit)
      BY <1>1, <1>2, <2>2
    <2> QED
      BY <2>1, <2>2
  <1>4. entry \in Entries /\ entry.addresses = answer
    BY DEF Entries
  <1> HIDE DEF kept, entry
  <1>5. CacheSound(p, replaced)
    <2>1. DOMAIN kept = 1 .. Len(kept) /\ Len(kept) \in Nat
      BY <1>3
    <2>2. \A i \in 1 .. Len(kept) : kept[i] \in Entries
      BY <1>3, ElementOfSeq, Zenon
    <2>3. replaced \in Seq(Entries) /\ Len(replaced) = Len(kept)
      BY <1>4, <2>1, <2>2
    <2>4. \A i \in 1 .. Len(kept) : replaced[i] = entry \/ replaced[i] = kept[i]
      BY <2>1
    <2> HIDE DEF replaced
    <2> QED
      BY <1>1, <1>3, <1>4, <2>3, <2>4 DEF CacheSound
  <1>6. CacheSound(p, added)
    <2>1. added \in Seq(Entries) /\ Len(added) = Len(kept) + 1 /\ Len(kept) \in Nat
      BY <1>3, <1>4
    <2>2. \A i \in 1 .. Len(kept) + 1 : added[i] = IF i = Len(kept) + 1 THEN entry ELSE kept[i]
      BY <1>3, <1>4
    <2>3. \A i \in 1 .. Len(kept) + 1 : i = Len(kept) + 1 \/ i \in 1 .. Len(kept)
      BY <2>1
    <2> HIDE DEF added
    <2> QED
      BY <1>1, <1>3, <1>4, <2>1, <2>2, <2>3 DEF CacheSound
  <1>7. Fetcher!Remember(name, answer, expires) = IF \E i \in DOMAIN kept : kept[i].name = name THEN replaced ELSE added
    BY Zenon DEF Fetcher!Remember, kept, entry
  <1> HIDE DEF replaced, added
  <1> QED
    BY <1>5, <1>6, <1>7

LEMMA FetchResolved ==
  ASSUME FetchInv, Fetcher!Resolved
  PROVE  FetchInv'
  <1>1. fetch \in Fetches /\ fetch.at = "resolving" /\ Fetcher!Named(fetch.url)
    BY FetchUnderWay DEF Fetcher!Resolved, FetchInv, FetchSound
  <1>2. fetch.url \in Pages \union Probes /\ fetch.asked \in Nat
    BY <1>1 DEF Fetches
  <1>3. PICK name \in Names : name = fetch.url.name
    BY <1>1, <1>2, FetchAssumption
  <1>4. PICK answer \in Answers : answer = dns[name]
    BY DEF FetchInv
  <1>5. PermitsAll(policy, answer)
    BY <1>3, <1>4, AllApprovedMeans DEF Fetcher!Resolved
  <1>6. fetch' = [fetch EXCEPT !.at = "pinned", !.pinned = answer]
    BY <1>3, <1>4 DEF Fetcher!Resolved
  <1>7. fetch' \in Fetches /\ fetch'.at = "pinned" /\ fetch'.pinned = answer
    BY <1>1, <1>6 DEF Fetches
  <1>8. FetchSound(policy, fetch')
    BY <1>5, <1>7 DEF FetchSound
  <1>9. fetch.asked + TTL \in Nat
    BY <1>2, FetchAssumption
  <1>10. cache' = Fetcher!Remember(name, answer, fetch.asked + TTL)
    BY <1>3, <1>4 DEF Fetcher!Resolved
  <1>11. CacheSound(policy, cache')
    BY <1>5, <1>9, <1>10, RememberSound DEF FetchInv
  <1>12. UNCHANGED <<policy, dns, now, connected>>
    BY DEF Fetcher!Resolved
  <1> QED
    BY <1>8, <1>11, <1>12 DEF FetchInv

LEMMA FetchResolveFails ==
  ASSUME FetchInv, Fetcher!ResolveFails
  PROVE  FetchInv'
  <1>1. fetch \in Fetches /\ Fetcher!Named(fetch.url)
    BY FetchUnderWay DEF Fetcher!ResolveFails, FetchInv, FetchSound
  <1>2. fetch' = [fetch EXCEPT !.at = "refused"]
    BY DEF Fetcher!ResolveFails
  <1>3. fetch' \in Fetches /\ fetch'.at = "refused" /\ fetch'.url = fetch.url
    BY <1>1, <1>2 DEF Fetches
  <1>4. FetchSound(policy, fetch')
    BY <1>1, <1>3 DEF FetchSound
  <1> QED
    BY <1>4, FetchMoves DEF Fetcher!ResolveFails

LEMMA FetchConnects ==
  ASSUME FetchInv, Fetcher!Connects
  PROVE  FetchInv'
  <1>1. fetch \in Fetches /\ fetch.at = "pinned"
    BY FetchUnderWay DEF Fetcher!Connects
  <1>2. PICK answer \in Answers : answer = fetch.pinned
    BY <1>1 DEF Fetches
  <1>3. PermitsAll(policy, answer)
    BY <1>1, <1>2 DEF FetchInv, FetchSound
  <1>4. answer # <<>> /\ 1 \in DOMAIN answer
    BY <1>3 DEF PermitsAll, Answers
  <1>5. answer[1] \in Fetcher!Addresses /\ Permits(policy, answer[1])
    BY <1>3, <1>4 DEF PermitsAll, Answers
  <1>6. Reached(policy, connected')
    BY <1>2, <1>5 DEF Fetcher!Connects, Fetcher!Lookup, Reached
  <1>7. fetch' = [fetch EXCEPT !.at = "waiting"]
    BY DEF Fetcher!Connects
  <1>8. fetch' \in Fetches /\ fetch'.at = "waiting"
    BY <1>1, <1>7 DEF Fetches
  <1>9. FetchSound(policy, fetch')
    BY <1>8 DEF FetchSound
  <1> QED
    BY <1>6, <1>9 DEF Fetcher!Connects, FetchInv

LEMMA FetchRedirected ==
  ASSUME FetchInv, NEW url \in Pages \union Probes, Fetcher!Redirected(url)
  PROVE  FetchInv'
  <1>1. fetch \in Fetches
    BY FetchUnderWay DEF Fetcher!Redirected
  <1>2. fetch' = [fetch EXCEPT !.at = "checking", !.url = url, !.hops = @ + 1, !.pinned = <<>>]
    BY DEF Fetcher!Redirected
  <1>3. <<>> \in Answers /\ fetch.hops + 1 \in Nat
    BY <1>1 DEF Answers, Fetches
  <1>4. fetch' \in Fetches /\ fetch'.at = "checking"
    BY <1>1, <1>2, <1>3 DEF Fetches
  <1>5. FetchSound(policy, fetch')
    BY <1>4 DEF FetchSound
  <1> QED
    BY <1>5, FetchMoves DEF Fetcher!Redirected

LEMMA FetchReads ==
  ASSUME FetchInv, Fetcher!Reads \/ Fetcher!Chunk
  PROVE  FetchInv'
  <1>1. fetch \in Fetches /\ fetch.body \in Nat /\ (fetch.at = "waiting" \/ fetch.at = "reading")
    BY FetchUnderWay DEF Fetcher!Reads, Fetcher!Chunk, Fetches
  <1>2. fetch' = [fetch EXCEPT !.at = "reading"] \/ fetch' = [fetch EXCEPT !.body = @ + 1]
    BY DEF Fetcher!Reads, Fetcher!Chunk
  <1>3. fetch' \in Fetches /\ (fetch'.at = "reading" \/ fetch'.at = fetch.at)
    BY <1>1, <1>2 DEF Fetches
  <1>4. FetchSound(policy, fetch')
    BY <1>1, <1>3 DEF FetchSound
  <1> QED
    BY <1>4, FetchMoves DEF Fetcher!Reads, Fetcher!Chunk

LEMMA FetchEnds ==
  ASSUME FetchInv, Fetcher!Ends, UNCHANGED <<policy, dns, rebinds, now, cache, fetches>>
  PROVE  FetchInv'
  BY FetchIdle DEF Fetcher!Ends, FetchInv, Reached

LEMMA FetchAborts ==
  ASSUME FetchInv, Fetcher!Abort
  PROVE  FetchInv'
  <1>1. CASE fetch.at \in {"waiting", "reading"}
    BY <1>1, FetchEnds DEF Fetcher!Abort
  <1>2. CASE fetch.at \notin {"waiting", "reading"}
    <2>1. fetch \in Fetches
      BY DEF Fetcher!Abort, FetchInv, FetchSound
    <2>2. fetch' = [fetch EXCEPT !.aborted = TRUE] /\ UNCHANGED <<policy, dns, now, cache, connected>>
      BY <1>2 DEF Fetcher!Abort
    <2>3. fetch' \in Fetches /\ fetch'.at = fetch.at /\ fetch'.url = fetch.url /\ fetch'.pinned = fetch.pinned
      BY <2>1, <2>2 DEF Fetches
    <2>4. FetchSound(policy, fetch')
      BY <2>3 DEF FetchInv, FetchSound
    <2> QED
      BY <2>2, <2>4, FetchMoves
  <1> QED
    BY <1>1, <1>2

\* The world changes: a name gets another answer, time passes.
LEMMA FetchWorld ==
  ASSUME FetchInv,
         \/ \E name \in Names, answer \in DnsAnswers : Fetcher!Rebind(name, answer)
         \/ Fetcher!FetchTick
  PROVE  FetchInv'
  <1>1. CASE Fetcher!FetchTick
    BY <1>1 DEF Fetcher!FetchTick, FetchInv
  <1>2. CASE \E name \in Names, answer \in DnsAnswers : Fetcher!Rebind(name, answer)
    <2>1. PICK name \in Names, answer \in DnsAnswers : Fetcher!Rebind(name, answer)
      BY <1>2
    <2>2. answer \in Answers
      BY FetchAssumption DEF Answers
    <2>3. dns' \in [Names -> Answers]
      BY <2>1, <2>2 DEF Fetcher!Rebind, FetchInv
    <2> QED
      BY <2>1, <2>3 DEF Fetcher!Rebind, FetchInv
  <1> QED
    BY <1>1, <1>2

LEMMA FetchStep ==
  ASSUME FetchInv, Fetcher!FetchNext
  PROVE  FetchInv'
  <1>1. Fetcher!Urls \subseteq Pages \union Probes
    BY DEF Fetcher!Urls
  <1>2. CASE Fetcher!Refuses \/ Fetcher!PinsLiteral \/ Fetcher!PinsCached
    BY <1>2, FetchRefuses, FetchPinsLiteral, FetchPinsCached
  <1>3. CASE Fetcher!Resolves \/ Fetcher!Resolved \/ Fetcher!ResolveFails
    BY <1>3, FetchResolves, FetchResolved, FetchResolveFails
  <1>4. CASE Fetcher!Connects \/ Fetcher!Reads \/ Fetcher!Chunk
    BY <1>4, FetchConnects, FetchReads
  <1>5. CASE Fetcher!Returns
    BY <1>5, FetchEnds DEF Fetcher!Returns
  <1>6. CASE \E url \in Fetcher!Urls : Fetcher!Redirected(url) \/ Fetcher!Begin(url)
    BY <1>1, <1>6, FetchRedirected, FetchBegins
  <1>7. CASE Fetcher!Abort
    BY <1>7, FetchAborts
  <1>8. CASE \/ \E name \in Names, answer \in DnsAnswers : Fetcher!Rebind(name, answer)
             \/ Fetcher!FetchTick
    BY <1>8, FetchWorld
  <1> QED
    BY <1>2, <1>3, <1>4, <1>5, <1>6, <1>7, <1>8 DEF Fetcher!FetchNext, Fetcher!FetchProgress

LEMMA FetchKept ==
  ASSUME FetchInv, UNCHANGED fetchVars
  PROVE  FetchInv'
  BY DEF FetchInv, fetchVars

LEMMA FetchInvMeans ==
  ASSUME FetchInv
  PROVE  FetchStaysOut
  <1>1. connected # <<>> => Fetcher!Lawful(connected)
    BY ApprovedMeans, ApprovedIsLawful DEF FetchInv, Reached
  <1>2. ASSUME fetch.at = "refused", ~Fetcher!Named(fetch.url), Fetcher!SchemeAllowed(fetch.url)
        PROVE  ~Fetcher!Lawful(fetch.url.address)
    <2>1. fetch \in Fetches
      BY <1>2, FetchUnderWay
    <2>2. fetch.url \in Pages \union Probes
      BY <2>1 DEF Fetches
    <2>3. PICK a \in Fetcher!Addresses : a = fetch.url.address
      BY <1>2, <2>2, FetchAssumption
    <2>4. ~Permits(policy, a)
      BY <1>2, <2>3 DEF FetchInv, FetchSound, Fetcher!SchemeAllowed
    <2> QED
      BY <2>3, <2>4, ApprovedMeans, ApprovedIsLawful
  <1>3. Len(cache) <= CacheLimit
    BY DEF FetchInv, CacheSound
  <1> QED
    BY <1>1, <1>2, <1>3 DEF FetchStaysOut, Fetcher!FetchStaysOut

-----------------------------------------------------------------------------
(* The bucket.  What it holds, what it gave and what it has yet to regain for the time *)
(* since the last call never exceed its capacity and what the time was worth.          *)

Gap(c, l) == IF c > l THEN c - l ELSE 0

Bucket(t, a, c, l, e) ==
    /\ t \in Nat /\ a \in Nat /\ c \in Nat /\ l \in Nat /\ e \in Nat
    /\ Gap(c, l) <= e
    /\ t + a * Cost + Rate * Gap(c, l) <= Burst * Cost + Rate * e

BucketInv == Bucket(tokens, admitted, clock, lastRefill, elapsed)

LEMMA Products ==
  /\ \A x, y \in Nat : x * y \in Nat
  /\ \A x, y, z \in Nat : x * (y + z) = x * y + x * z /\ (y + z) * x = y * x + z * x
  /\ \A x, y, z \in Nat : y <= z => x * y <= x * z
  <1>1. \A x, y \in Nat : x * y \in Nat
    OBVIOUS
  <1>2. \A x, y, z \in Nat : x * (y + z) = x * y + x * z /\ (y + z) * x = y * x + z * x
    OBVIOUS
  <1>3. ASSUME NEW x \in Nat, NEW y \in Nat, NEW z \in Nat, y <= z PROVE x * y <= x * z
    <2>1. PICK d \in Nat : z = y + d
      BY <1>3
    <2> QED
      BY <1>1, <1>2, <2>1
  <1> QED
    BY <1>1, <1>2, <1>3

LEMMA BucketInitially ==
  ASSUME Tool!ToolInit
  PROVE  BucketInv
  <1>1. Burst * Cost \in Nat /\ 0 * Cost = 0 /\ Rate * 0 = 0
    BY BucketAssumption, Products
  <1> QED
    BY <1>1 DEF Tool!ToolInit, BucketInv, Bucket, Gap

LEMMA BucketRefilled ==
  ASSUME BucketInv, Tool!Refill, UNCHANGED <<clock, elapsed>>
  PROVE  BucketInv' /\ admitted' >= admitted /\ (~Tool!RateLimited => admitted' = admitted + 1)
  <1>1. /\ tokens \in Nat /\ admitted \in Nat /\ clock \in Nat /\ lastRefill \in Nat /\ elapsed \in Nat
        /\ tokens + admitted * Cost + Rate * Gap(clock, lastRefill) <= Burst * Cost + Rate * elapsed
    BY DEF BucketInv, Bucket
  <1>2. PICK gap \in Nat : gap = Gap(clock, lastRefill)
    BY <1>1 DEF Gap
  <1>3. PICK gained \in Nat : gained = Rate * gap
    BY BucketAssumption, Products
  <1>4. PICK full \in Nat : full = Burst * Cost
    BY BucketAssumption, Products
  <1>5. PICK given \in Nat : given = admitted * Cost
    BY <1>1, BucketAssumption, Products
  <1>6. PICK earned \in Nat : earned = Rate * elapsed
    BY <1>1, BucketAssumption, Products
  <1>7. PICK filled \in Nat : filled = (IF tokens + gained > full THEN full ELSE tokens + gained)
    BY <1>1
  <1>8. Tool!Refilled = filled
    BY <1>2, <1>3, <1>4, <1>7 DEF Tool!Refilled, Gap
  <1>9. (admitted + 1) * Cost = given + Cost
    BY <1>1, <1>5, BucketAssumption, Products
  <1>10. Gap(clock', lastRefill') = 0 /\ Rate * 0 = 0
    BY <1>1, BucketAssumption DEF Tool!Refill, Gap
  <1>11. tokens + given + gained <= full + earned
    BY <1>1, <1>2, <1>3, <1>4, <1>5, <1>6
  <1>12. CASE Tool!RateLimited
    <2>1. tokens' = filled /\ admitted' = admitted /\ lastRefill' = clock
      BY <1>8, <1>12 DEF Tool!Refill
    <2>2. tokens' + admitted' * Cost + Rate * Gap(clock', lastRefill') <= Burst * Cost + Rate * elapsed'
      BY <1>1, <1>4, <1>5, <1>6, <1>7, <1>10, <1>11, <2>1
    <2>3. Gap(clock', lastRefill') <= elapsed'
      BY <1>1, <1>10
    <2> QED
      BY <1>1, <1>12, <2>1, <2>2, <2>3 DEF BucketInv, Bucket
  <1>13. CASE ~Tool!RateLimited
    <2>1. tokens' = filled - Cost /\ admitted' = admitted + 1 /\ lastRefill' = clock /\ filled >= Cost
      BY <1>8, <1>13, BucketAssumption DEF Tool!Refill, Tool!RateLimited
    <2>2. tokens' \in Nat /\ tokens' + given + Cost <= full + earned
      BY <1>1, <1>7, <1>11, <2>1, BucketAssumption
    <2>3. tokens' + admitted' * Cost + Rate * Gap(clock', lastRefill') <= Burst * Cost + Rate * elapsed'
      BY <1>4, <1>6, <1>9, <1>10, <2>1, <2>2, BucketAssumption
    <2>4. Gap(clock', lastRefill') <= elapsed'
      BY <1>1, <1>10
    <2> QED
      BY <1>1, <1>13, <2>1, <2>2, <2>3, <2>4 DEF BucketInv, Bucket
  <1> QED
    BY <1>12, <1>13

LEMMA BucketWaits ==
  ASSUME BucketInv, NEW to \in 0 .. MaxClock, Tool!ClockMoves(to)
  PROVE  BucketInv'
  <1>1. /\ tokens \in Nat /\ admitted \in Nat /\ clock \in Nat /\ lastRefill \in Nat /\ elapsed \in Nat
        /\ Gap(clock, lastRefill) <= elapsed
        /\ tokens + admitted * Cost + Rate * Gap(clock, lastRefill) <= Burst * Cost + Rate * elapsed
    BY DEF BucketInv, Bucket
  <1>2. to \in Nat
    BY BucketAssumption
  <1>a. tokens \in Nat /\ admitted \in Nat /\ clock \in Nat /\ lastRefill \in Nat /\ elapsed \in Nat
    BY <1>1
  <1>b. \A c, l \in Nat : Gap(c, l) \in Nat
    BY DEF Gap
  <1>3. PICK forward \in Nat : forward = Gap(to, clock)
    BY <1>a, <1>b, <1>2
  <1>4. clock' = to /\ elapsed' = elapsed + forward /\ UNCHANGED <<tokens, lastRefill, admitted>>
    BY <1>3 DEF Tool!ClockMoves, Gap
  <1>5. PICK gap \in Nat : gap = Gap(clock, lastRefill)
    BY <1>a, <1>b
  <1>6. PICK gap2 \in Nat : gap2 = Gap(clock', lastRefill')
    BY <1>a, <1>b, <1>2, <1>4
  <1>7. gap2 <= gap + forward
    BY <1>a, <1>2, <1>3, <1>4, <1>5, <1>6 DEF Gap
  <1>8. Rate * gap2 <= Rate * (gap + forward) /\ Rate * (gap + forward) = Rate * gap + Rate * forward
    BY <1>7, BucketAssumption, Products
  <1>9. Rate * elapsed' = Rate * elapsed + Rate * forward
    BY <1>1, <1>4, BucketAssumption, Products
  <1>10. /\ Rate * gap \in Nat /\ Rate * gap2 \in Nat /\ Rate * forward \in Nat /\ Rate * elapsed \in Nat
         /\ admitted * Cost \in Nat /\ Burst * Cost \in Nat
    BY <1>1, BucketAssumption, Products
  <1>11. tokens + admitted * Cost + Rate * gap2 <= Burst * Cost + Rate * elapsed'
    BY <1>1, <1>5, <1>8, <1>9, <1>10
  <1>12. gap2 <= elapsed'
    BY <1>1, <1>4, <1>5, <1>7
  <1>13. elapsed' \in Nat /\ clock' \in Nat
    BY <1>1, <1>2, <1>4
  <1> QED
    BY <1>1, <1>4, <1>6, <1>11, <1>12, <1>13 DEF BucketInv, Bucket

LEMMA BucketKept ==
  ASSUME BucketInv, UNCHANGED <<tokens, lastRefill, clock, admitted, elapsed>>
  PROVE  BucketInv'
  BY DEF BucketInv

LEMMA BucketMeans ==
  ASSUME BucketInv
  PROVE  admitted * Cost <= Burst * Cost + Rate * elapsed
  <1>1. /\ tokens \in Nat /\ admitted \in Nat /\ clock \in Nat /\ lastRefill \in Nat /\ elapsed \in Nat
        /\ tokens + admitted * Cost + Rate * Gap(clock, lastRefill) <= Burst * Cost + Rate * elapsed
    BY DEF BucketInv, Bucket
  <1>2. Gap(clock, lastRefill) \in Nat
    BY <1>1 DEF Gap
  <1>3. /\ Rate * Gap(clock, lastRefill) \in Nat /\ admitted * Cost \in Nat /\ Burst * Cost \in Nat
        /\ Rate * elapsed \in Nat
    BY <1>1, <1>2, BucketAssumption, Products
  <1> QED
    BY <1>1, <1>3

-----------------------------------------------------------------------------
(* Tool calls.  A call that got past its checks has its attempt on disk and a key that *)
(* may do what it asks; a record of an attempt belongs to a call that still waits for  *)
(* it, so no call is settled twice; and the calls are counted with those under way.    *)

CallRecords == [at : {"auditing", "resolving", "queued"}, tool : Tool!Tools,
                key : {r.key : r \in Requests}, recorded : BOOLEAN]
CallsOf == {Tool!Idle} \union CallRecords
Notes == {Tool!Completion} \union [phase : {"attempt"}, call : Slots]

Past(call) == call.at \in {"resolving", "queued"}
UnderWay(c) == {n \in Slots : c[n] # Tool!Idle}
PastChecks(c) == {n \in Slots : Past(c[n])}

\* Every record of an attempt is of a call that waits for it, and no other is.
NotesFit(p, c) ==
    /\ \A i \in 1 .. Len(p) : p[i].phase = "attempt" => c[p[i].call].at = "auditing"
    /\ \A i, j \in 1 .. Len(p) :
          p[i].phase = "attempt" /\ p[j].phase = "attempt" /\ i # j => p[i].call # p[j].call
NoteOf(p, n) == \E i \in 1 .. Len(p) : p[i].phase = "attempt" /\ p[i].call = n

Entitled(a, call) ==
    call.recorded /\ (a /\ call.tool \in Tool!SubmitTools => "submit" \in Tool!Roles(call.key))
Footing(a, c) == \A n \in Slots : Past(c[n]) => Entitled(a, c[n])

Tallied(c, m, r, ad) ==
    /\ m.ok + m.failed + Cardinality(UnderWay(c)) = r
    /\ m.ok + Cardinality(PastChecks(c)) <= ad

ToolSound(a, c, m, p, r, ad) ==
    /\ a \in BOOLEAN /\ r \in Nat /\ ad \in Nat
    /\ c \in [Slots -> CallsOf] /\ m \in [ok : Nat, failed : Nat] /\ p \in Seq(Notes)
    /\ NotesFit(p, c) /\ Footing(a, c) /\ Tallied(c, m, r, ad)

ToolInv == BucketInv /\ ToolSound(auth, calls, metrics, pending, received, admitted) /\ Tool!CallsGuarded

LEMMA NotesKinds ==
  ASSUME NEW note \in Notes
  PROVE  /\ note.phase \in {"attempt", "complete"}
         /\ note.phase = "attempt" => note.call \in Slots
  BY DEF Notes, Tool!Completion

LEMMA CallKinds ==
  ASSUME NEW call \in CallsOf
  PROVE  /\ call.at \in {"idle", "auditing", "resolving", "queued"}
         /\ call = Tool!Idle <=> call.at = "idle"
         /\ call # Tool!Idle => call \in CallRecords
  BY DEF CallsOf, CallRecords, Tool!Idle

LEMMA NotNoted ==
  ASSUME NEW p \in Seq(Notes), NEW c, NotesFit(p, c), NEW n, c[n].at # "auditing"
  PROVE  ~NoteOf(p, n)
  BY DEF NotesFit, NoteOf

LEMMA TailFits ==
  ASSUME NEW p \in Seq(Notes), NEW c, NotesFit(p, c), p # <<>>
  PROVE  /\ Tail(p) \in Seq(Notes) /\ NotesFit(Tail(p), c)
         /\ Head(p) \in Notes
         /\ Head(p).phase = "attempt" => /\ c[Head(p).call].at = "auditing"
                                         /\ ~NoteOf(Tail(p), Head(p).call)
  <1>1. Len(p) \in Nat /\ Len(p) >= 1 /\ Head(p) = p[1] /\ 1 \in 1 .. Len(p)
    BY EmptySeq
  <1>2. /\ Tail(p) \in Seq(Notes) /\ Len(Tail(p)) = Len(p) - 1
        /\ \A i \in 1 .. Len(Tail(p)) : Tail(p)[i] = p[i + 1]
    BY HeadTailProperties
  <1>3. \A i \in 1 .. Len(Tail(p)) : i + 1 \in 1 .. Len(p) /\ i + 1 # 1
    BY <1>1, <1>2
  <1>4. p[1] \in Notes
    BY <1>1, ElementOfSeq, Zenon
  <1>5. NotesFit(Tail(p), c)
    <2>1. \A i \in 1 .. Len(Tail(p)) : Tail(p)[i].phase = "attempt" => c[Tail(p)[i].call].at = "auditing"
      BY <1>2, <1>3 DEF NotesFit
    <2>2. \A i, j \in 1 .. Len(Tail(p)) :
             Tail(p)[i].phase = "attempt" /\ Tail(p)[j].phase = "attempt" /\ i # j
                => Tail(p)[i].call # Tail(p)[j].call
      <3>1. SUFFICES ASSUME NEW i \in 1 .. Len(Tail(p)), NEW j \in 1 .. Len(Tail(p)), i # j,
                            Tail(p)[i].phase = "attempt", Tail(p)[j].phase = "attempt"
                     PROVE  Tail(p)[i].call # Tail(p)[j].call
        OBVIOUS
      <3>2. i + 1 # j + 1
        BY <1>2, <1>1, <3>1
      <3> QED
        BY <1>2, <1>3, <3>1, <3>2 DEF NotesFit
    <2> QED
      BY <2>1, <2>2 DEF NotesFit
  <1>6. ASSUME Head(p).phase = "attempt"
        PROVE  c[Head(p).call].at = "auditing" /\ ~NoteOf(Tail(p), Head(p).call)
    <2>1. c[p[1].call].at = "auditing"
      BY <1>1, <1>6 DEF NotesFit
    <2>2. ASSUME NEW i \in 1 .. Len(Tail(p)), Tail(p)[i].phase = "attempt", Tail(p)[i].call = p[1].call
          PROVE  FALSE
      <3>1. i + 1 \in 1 .. Len(p) /\ i + 1 # 1 /\ p[i + 1] = Tail(p)[i]
        BY <1>2, <1>3
      <3>2. PICK k \in 1 .. Len(p) : k = i + 1
        BY <3>1
      <3> QED
        BY <1>1, <1>6, <2>2, <3>1, <3>2 DEF NotesFit
    <2> QED
      BY <1>1, <2>1, <2>2 DEF NoteOf
  <1> QED
    BY <1>1, <1>2, <1>4, <1>5, <1>6

LEMMA MovedFits ==
  ASSUME NEW p \in Seq(Notes), NEW c, NEW d, NEW n \in Slots, NotesFit(p, c), ~NoteOf(p, n),
         \A m \in Slots \ {n} : d[m] = c[m]
  PROVE  NotesFit(p, d)
  <1>1. \A i \in 1 .. Len(p) : p[i].phase = "attempt" => p[i].call \in Slots \ {n}
    <2>1. \A i \in 1 .. Len(p) : p[i] \in Notes
      BY ElementOfSeq, Zenon
    <2> QED
      BY <2>1, NotesKinds DEF NoteOf
  <1> QED
    BY <1>1 DEF NotesFit

LEMMA CompletionFits ==
  ASSUME NEW p \in Seq(Notes), NEW c, NotesFit(p, c)
  PROVE  Append(p, Tool!Completion) \in Seq(Notes) /\ NotesFit(Append(p, Tool!Completion), c)
  <1>1. Tool!Completion \in Notes /\ Tool!Completion.phase # "attempt"
    BY DEF Notes, Tool!Completion
  <1>2. PICK q : q = Append(p, Tool!Completion)
    OBVIOUS
  <1>3. /\ q \in Seq(Notes) /\ Len(q) = Len(p) + 1 /\ q[Len(p) + 1] = Tool!Completion
        /\ \A i \in 1 .. Len(p) : q[i] = p[i]
    BY <1>1, <1>2, AppendProperties
  <1>4. Len(p) \in Nat
    OBVIOUS
  <1>5. \A i \in 1 .. Len(q) : q[i].phase = "attempt" => i \in 1 .. Len(p)
    BY <1>1, <1>3, <1>4
  <1>6. NotesFit(q, c)
    BY <1>3, <1>5 DEF NotesFit
  <1> QED
    BY <1>2, <1>3, <1>6

LEMMA AttemptFits ==
  ASSUME NEW p \in Seq(Notes), NEW c, NotesFit(p, c), NEW n \in Slots, ~NoteOf(p, n), c[n].at = "auditing"
  PROVE  Append(p, Tool!Attempt(n)) \in Seq(Notes) /\ NotesFit(Append(p, Tool!Attempt(n)), c)
  <1>a. PICK note \in [phase : {"attempt"}, call : Slots] : note = Tool!Attempt(n)
    BY DEF Tool!Attempt
  <1>1. note \in Notes /\ note = Tool!Attempt(n) /\ note.phase = "attempt" /\ note.call = n
    BY <1>a DEF Notes, Tool!Attempt
  <1>2. PICK q : q = Append(p, note)
    OBVIOUS
  <1>3. /\ q \in Seq(Notes) /\ Len(q) = Len(p) + 1 /\ q[Len(p) + 1] = note
        /\ \A i \in 1 .. Len(p) : q[i] = p[i]
    BY <1>1, <1>2, AppendProperties
  <1>4. Len(p) \in Nat
    OBVIOUS
  <1>5. \A i \in 1 .. Len(q) : i \in 1 .. Len(p) \/ i = Len(p) + 1
    BY <1>3, <1>4
  <1>6. \A i \in 1 .. Len(p) : q[i].phase = "attempt" => q[i].call # n
    BY <1>3 DEF NoteOf
  <1>7. \A i \in 1 .. Len(q) : q[i].phase = "attempt" => c[q[i].call].at = "auditing"
    BY <1>1, <1>3, <1>5 DEF NotesFit
  <1>8. ASSUME NEW i \in 1 .. Len(q), NEW j \in 1 .. Len(q), i # j,
               q[i].phase = "attempt", q[j].phase = "attempt"
        PROVE  q[i].call # q[j].call
    <2>1. CASE i \in 1 .. Len(p) /\ j \in 1 .. Len(p)
      BY <1>3, <1>8, <2>1 DEF NotesFit
    <2>2. CASE i = Len(p) + 1
      BY <1>1, <1>3, <1>5, <1>6, <1>8, <2>2
    <2>3. CASE j = Len(p) + 1
      BY <1>1, <1>3, <1>5, <1>6, <1>8, <2>3
    <2> QED
      BY <1>5, <2>1, <2>2, <2>3
  <1>9. NotesFit(q, c)
    BY <1>7, <1>8 DEF NotesFit
  <1> QED
    BY <1>1, <1>2, <1>3, <1>9

\* What a change of one call does to the two counts.
LEMMA CountsMoved ==
  ASSUME NEW c \in [Slots -> CallsOf], NEW d \in [Slots -> CallsOf], NEW n \in Slots,
         \A m \in Slots \ {n} : d[m] = c[m]
  PROVE  /\ Cardinality(UnderWay(c)) \in Nat /\ Cardinality(PastChecks(c)) \in Nat
         /\ Cardinality(UnderWay(d)) \in Nat /\ Cardinality(PastChecks(d)) \in Nat
         /\ c[n] = Tool!Idle /\ d[n] # Tool!Idle => Cardinality(UnderWay(d)) = Cardinality(UnderWay(c)) + 1
         /\ c[n] # Tool!Idle /\ d[n] = Tool!Idle => Cardinality(UnderWay(d)) = Cardinality(UnderWay(c)) - 1
         /\ (c[n] = Tool!Idle <=> d[n] = Tool!Idle) => Cardinality(UnderWay(d)) = Cardinality(UnderWay(c))
         /\ ~Past(c[n]) /\ Past(d[n]) => Cardinality(PastChecks(d)) = Cardinality(PastChecks(c)) + 1
         /\ Past(c[n]) /\ ~Past(d[n]) => Cardinality(PastChecks(d)) = Cardinality(PastChecks(c)) - 1
         /\ (Past(c[n]) <=> Past(d[n])) => Cardinality(PastChecks(d)) = Cardinality(PastChecks(c))
  <1>1. /\ IsFiniteSet(UnderWay(c)) /\ IsFiniteSet(PastChecks(c))
        /\ IsFiniteSet(UnderWay(d)) /\ IsFiniteSet(PastChecks(d))
    <2>1. /\ UnderWay(c) \subseteq Slots /\ PastChecks(c) \subseteq Slots
          /\ UnderWay(d) \subseteq Slots /\ PastChecks(d) \subseteq Slots
      BY DEF UnderWay, PastChecks
    <2>2. IsFiniteSet(Slots)
      BY BucketAssumption
    <2> QED
      BY <2>1, <2>2, FS_Subset
  <1>2. /\ Cardinality(UnderWay(c)) \in Nat /\ Cardinality(PastChecks(c)) \in Nat
        /\ Cardinality(UnderWay(d)) \in Nat /\ Cardinality(PastChecks(d)) \in Nat
    BY <1>1, FS_CardinalityType
  <1>3. ASSUME c[n] = Tool!Idle, d[n] # Tool!Idle
        PROVE  Cardinality(UnderWay(d)) = Cardinality(UnderWay(c)) + 1
    <2>1. UnderWay(d) = UnderWay(c) \union {n} /\ n \notin UnderWay(c)
      BY <1>3 DEF UnderWay
    <2> QED
      BY <1>1, <2>1, FS_AddElement
  <1>4. ASSUME c[n] # Tool!Idle, d[n] = Tool!Idle
        PROVE  Cardinality(UnderWay(d)) = Cardinality(UnderWay(c)) - 1
    <2>1. UnderWay(d) = UnderWay(c) \ {n} /\ n \in UnderWay(c)
      BY <1>4 DEF UnderWay
    <2> QED
      BY <1>1, <2>1, FS_RemoveElement
  <1>5. ASSUME c[n] = Tool!Idle <=> d[n] = Tool!Idle
        PROVE  Cardinality(UnderWay(d)) = Cardinality(UnderWay(c))
    <2>1. UnderWay(d) = UnderWay(c)
      BY <1>5 DEF UnderWay
    <2> QED
      BY <2>1
  <1>6. ASSUME ~Past(c[n]), Past(d[n])
        PROVE  Cardinality(PastChecks(d)) = Cardinality(PastChecks(c)) + 1
    <2>1. PastChecks(d) = PastChecks(c) \union {n} /\ n \notin PastChecks(c)
      BY <1>6 DEF PastChecks
    <2> QED
      BY <1>1, <2>1, FS_AddElement
  <1>7. ASSUME Past(c[n]), ~Past(d[n])
        PROVE  Cardinality(PastChecks(d)) = Cardinality(PastChecks(c)) - 1
    <2>1. PastChecks(d) = PastChecks(c) \ {n} /\ n \in PastChecks(c)
      BY <1>7 DEF PastChecks
    <2> QED
      BY <1>1, <2>1, FS_RemoveElement
  <1>8. ASSUME Past(c[n]) <=> Past(d[n])
        PROVE  Cardinality(PastChecks(d)) = Cardinality(PastChecks(c))
    <2>1. PastChecks(d) = PastChecks(c)
      BY <1>8 DEF PastChecks
    <2> QED
      BY <2>1
  <1> QED
    BY <1>2, <1>3, <1>4, <1>5, <1>6, <1>7, <1>8

LEMMA FootingMoved ==
  ASSUME NEW a, NEW c, NEW d, NEW n \in Slots, Footing(a, c), \A m \in Slots \ {n} : d[m] = c[m],
         Past(d[n]) => Entitled(a, d[n])
  PROVE  Footing(a, d)
  BY DEF Footing

LEMMA ToolInitially ==
  ASSUME Tool!ToolInit
  PROVE  ToolInv
  <1>1. BucketInv
    BY BucketInitially
  <1>2. /\ auth \in BOOLEAN /\ calls = [n \in Slots |-> Tool!Idle] /\ metrics = [ok |-> 0, failed |-> 0]
        /\ pending = <<>> /\ received = 0 /\ admitted = 0 /\ effect = Tool!Nothing
    BY DEF Tool!ToolInit
  <1>3. calls \in [Slots -> CallsOf] /\ metrics \in [ok : Nat, failed : Nat] /\ pending \in Seq(Notes)
    BY <1>2 DEF CallsOf
  <1>4. \A n \in Slots : calls[n] = Tool!Idle /\ ~Past(calls[n])
    BY <1>2 DEF Tool!Idle, Past
  <1>5. UnderWay(calls) = {} /\ PastChecks(calls) = {}
    BY <1>4 DEF UnderWay, PastChecks
  <1>6. Tallied(calls, metrics, received, admitted)
    <2>1. Cardinality(UnderWay(calls)) = 0 /\ Cardinality(PastChecks(calls)) = 0
      BY <1>5, FS_EmptySet
    <2> QED
      BY <1>2, <2>1 DEF Tallied
  <1>7. NotesFit(pending, calls) /\ Footing(auth, calls)
    <2>1. Len(pending) = 0 /\ 1 .. 0 = {}
      BY <1>2
    <2> QED
      BY <1>4, <2>1 DEF NotesFit, Footing
  <1>8. Tool!CallsGuarded
    BY <1>2 DEF Tool!CallsGuarded, Tool!Nothing
  <1> QED
    BY <1>1, <1>2, <1>3, <1>6, <1>7, <1>8 DEF ToolInv, ToolSound

\* One more of one kind, none more of the other.
LEMMA CountUp ==
  ASSUME NEW m \in [ok : Nat, failed : Nat]
  PROVE  /\ [m EXCEPT !["ok"] = @ + 1] \in [ok : Nat, failed : Nat]
         /\ [m EXCEPT !["ok"] = @ + 1].ok = m.ok + 1
         /\ [m EXCEPT !["ok"] = @ + 1].failed = m.failed
         /\ [m EXCEPT !["failed"] = @ + 1] \in [ok : Nat, failed : Nat]
         /\ [m EXCEPT !["failed"] = @ + 1].ok = m.ok
         /\ [m EXCEPT !["failed"] = @ + 1].failed = m.failed + 1
  <1>1. m.ok + 1 \in Nat /\ m.failed + 1 \in Nat
    OBVIOUS
  <1> QED
    BY <1>1

\* A call that ends is counted, and is not past its checks any more.
LEMMA CallSettled ==
  ASSUME ToolSound(auth, calls, metrics, pending, received, admitted),
         NEW n \in Slots, NEW verdict \in {"ok", "failed"}, NEW q \in Seq(Notes),
         NotesFit(q, calls), ~NoteOf(q, n), calls[n] # Tool!Idle, verdict = "ok" => Past(calls[n]),
         Tool!Settle(n, verdict), pending' = Append(q, Tool!Completion),
         admitted' \in Nat, admitted' >= admitted, UNCHANGED <<auth, received>>
  PROVE  ToolSound(auth, calls, metrics, pending, received, admitted)'
  <1>1. /\ auth \in BOOLEAN /\ received \in Nat /\ admitted \in Nat /\ calls \in [Slots -> CallsOf]
        /\ metrics \in [ok : Nat, failed : Nat] /\ Footing(auth, calls)
        /\ Tallied(calls, metrics, received, admitted)
    BY DEF ToolSound
  <1>2. /\ calls' = [calls EXCEPT ![n] = Tool!Idle] /\ metrics' = [metrics EXCEPT ![verdict] = @ + 1]
    BY DEF Tool!Settle
  <1>3. /\ calls' \in [Slots -> CallsOf] /\ calls'[n] = Tool!Idle
        /\ \A m \in Slots \ {n} : calls'[m] = calls[m]
    BY <1>1, <1>2 DEF CallsOf
  <1>4. ~Past(calls'[n])
    BY <1>3 DEF Past, Tool!Idle
  <1>5. metrics.ok \in Nat /\ metrics.failed \in Nat
    BY <1>1
  <1>6. /\ metrics' \in [ok : Nat, failed : Nat]
        /\ verdict = "ok" => metrics'.ok = metrics.ok + 1 /\ metrics'.failed = metrics.failed
        /\ verdict = "failed" => metrics'.ok = metrics.ok /\ metrics'.failed = metrics.failed + 1
    <2>1. CASE verdict = "ok"
      <3>1. metrics' = [metrics EXCEPT !["ok"] = @ + 1]
        BY <1>2, <2>1
      <3> QED
        BY <1>1, <2>1, <3>1, CountUp
    <2>2. CASE verdict = "failed"
      <3>1. metrics' = [metrics EXCEPT !["failed"] = @ + 1]
        BY <1>2, <2>2
      <3> QED
        BY <1>1, <2>2, <3>1, CountUp
    <2> QED
      BY <2>1, <2>2
  <1>7. Tallied(calls', metrics', received', admitted')
    <2>1. PICK u \in Nat, pst \in Nat, u2 \in Nat, pst2 \in Nat :
             /\ u = Cardinality(UnderWay(calls)) /\ pst = Cardinality(PastChecks(calls))
             /\ u2 = Cardinality(UnderWay(calls')) /\ pst2 = Cardinality(PastChecks(calls'))
      BY <1>1, <1>3, CountsMoved
    <2>2. u2 = u - 1 /\ (IF Past(calls[n]) THEN pst2 = pst - 1 ELSE pst2 = pst)
      BY <1>1, <1>3, <1>4, <2>1, CountsMoved
    <2>3. metrics.ok + metrics.failed + u = received /\ metrics.ok + pst <= admitted
      BY <1>1, <2>1 DEF Tallied
    <2>4. metrics'.ok + metrics'.failed + u2 = received' /\ metrics'.ok + pst2 <= admitted'
      <3>a. /\ received' = received /\ received \in Nat /\ admitted \in Nat /\ pst2 <= pst
            /\ u2 = u - 1
            /\ verdict = "ok" => pst2 = pst - 1
        BY <1>1, <2>2
      <3>b. PICK o \in Nat, f \in Nat : o = metrics.ok /\ f = metrics.failed
        BY <1>5
      <3>c. PICK o2, f2 : o2 = metrics'.ok /\ f2 = metrics'.failed
        OBVIOUS
      <3>1. CASE verdict = "ok"
        <4>1. o2 = o + 1 /\ f2 = f /\ o + f + u = received /\ o + pst <= admitted /\ pst2 = pst - 1
          BY <1>6, <2>3, <3>a, <3>b, <3>c, <3>1
        <4> QED
          <5>1. o2 + f2 + u2 = received
            BY <4>1, <3>a
          <5>2. o2 + pst2 <= admitted
            BY <4>1, <3>a
          <5>3. o2 + pst2 \in Nat
            BY <4>1, <3>a
          <5>4. o2 + pst2 <= admitted'
            BY <5>2, <5>3, <3>a
          <5> QED
            BY <5>1, <5>4, <3>a, <3>b, <3>c
      <3>2. CASE verdict = "failed"
        <4>1. o2 = o /\ f2 = f + 1 /\ o + f + u = received /\ o + pst <= admitted
          BY <1>6, <2>3, <3>b, <3>c, <3>2
        <4> QED
          <5>1. o2 + f2 + u2 = received
            BY <4>1, <3>a
          <5>2. o2 + pst2 <= admitted
            BY <4>1, <3>a
          <5>3. o2 + pst2 \in Nat
            BY <4>1, <3>a
          <5>4. o2 + pst2 <= admitted'
            BY <5>2, <5>3, <3>a
          <5> QED
            BY <5>1, <5>4, <3>a, <3>b, <3>c
      <3> QED
        BY <3>1, <3>2
    <2> QED
      BY <2>1, <2>4 DEF Tallied
  <1>8. Footing(auth', calls')
    BY <1>1, <1>3, <1>4, FootingMoved
  <1>9. pending' \in Seq(Notes) /\ NotesFit(pending', calls')
    BY <1>3, MovedFits, CompletionFits
  <1> QED
    BY <1>1, <1>3, <1>6, <1>7, <1>8, <1>9 DEF ToolSound

\* A call that gets past its checks, or goes on behind them.
LEMMA CallAdvanced ==
  ASSUME ToolSound(auth, calls, metrics, pending, received, admitted),
         NEW n \in Slots, NotesFit(pending', calls), ~NoteOf(pending', n), pending' \in Seq(Notes),
         calls[n] # Tool!Idle, calls' \in [Slots -> CallsOf], \A m \in Slots \ {n} : calls'[m] = calls[m],
         Past(calls'[n]), Entitled(auth, calls'[n]),
         admitted' = (IF Past(calls[n]) THEN admitted ELSE admitted + 1), UNCHANGED <<auth, metrics, received>>
  PROVE  ToolSound(auth, calls, metrics, pending, received, admitted)'
  <1>1. /\ auth \in BOOLEAN /\ received \in Nat /\ admitted \in Nat /\ calls \in [Slots -> CallsOf]
        /\ metrics \in [ok : Nat, failed : Nat] /\ Footing(auth, calls)
        /\ Tallied(calls, metrics, received, admitted)
    BY DEF ToolSound
  <1>2. calls'[n] # Tool!Idle
    BY DEF Past, Tool!Idle
  <1>3. Tallied(calls', metrics', received', admitted')
    <2>1. PICK u \in Nat, pst \in Nat, u2 \in Nat, pst2 \in Nat :
             /\ u = Cardinality(UnderWay(calls)) /\ pst = Cardinality(PastChecks(calls))
             /\ u2 = Cardinality(UnderWay(calls')) /\ pst2 = Cardinality(PastChecks(calls'))
      BY <1>1, CountsMoved
    <2>2. u2 = u
      BY <1>1, <1>2, <2>1, CountsMoved
    <2>3. Past(calls[n]) => pst2 = pst
      BY <1>1, <1>2, <2>1, CountsMoved
    <2>4. ~Past(calls[n]) => pst2 = pst + 1
      BY <1>1, <1>2, <2>1, CountsMoved
    <2>5. PICK o \in Nat : o = metrics.ok
      BY <1>1
    <2>6. metrics.ok + metrics.failed + u = received /\ o + pst <= admitted
      BY <1>1, <2>1, <2>5 DEF Tallied
    <2>7. o + pst2 <= admitted'
      <3>0. admitted \in Nat
        BY <1>1
      <3>1. CASE Past(calls[n])
        BY <3>0, <3>1, <2>3, <2>6
      <3>2. CASE ~Past(calls[n])
        BY <3>0, <3>2, <2>4, <2>6
      <3> QED
        BY <3>1, <3>2
    <2> QED
      BY <2>1, <2>2, <2>5, <2>6, <2>7 DEF Tallied
  <1>4. Footing(auth', calls')
    BY <1>1, FootingMoved
  <1>5. NotesFit(pending', calls')
    BY MovedFits
  <1>6. admitted' \in Nat
    BY <1>1
  <1> QED
    BY <1>1, <1>3, <1>4, <1>5, <1>6 DEF ToolSound

LEMMA ToolCalled ==
  ASSUME ToolInv, NEW r \in Requests, Tool!Call(r)
  PROVE  ToolInv'
  <1>1. /\ auth \in BOOLEAN /\ received \in Nat /\ admitted \in Nat /\ calls \in [Slots -> CallsOf]
        /\ metrics \in [ok : Nat, failed : Nat] /\ pending \in Seq(Notes) /\ NotesFit(pending, calls)
        /\ Footing(auth, calls) /\ Tallied(calls, metrics, received, admitted)
    BY DEF ToolInv, ToolSound
  <1>2. /\ r.tool \in Tool!Tools /\ received' = received + 1 /\ effect' = Tool!Nothing
        /\ UNCHANGED <<auth, tokens, lastRefill, clock, admitted, elapsed>>
    BY DEF Tool!Call
  <1>3. PICK n \in Slots : n = (CHOOSE free \in Tool!FreeSlot : TRUE) /\ calls[n] = Tool!Idle
    <2>1. Tool!FreeSlot # {}
      BY DEF Tool!Call
    <2>2. (CHOOSE free \in Tool!FreeSlot : TRUE) \in Tool!FreeSlot
      BY <2>1, Zenon
    <2> QED
      BY <2>2 DEF Tool!FreeSlot
  <1>4. /\ BucketInv' /\ Tool!CallsGuarded'
    BY <1>2, BucketKept DEF ToolInv, Tool!CallsGuarded, Tool!Nothing
  <1>5. calls[n].at # "auditing" /\ ~Past(calls[n])
    BY <1>3 DEF Tool!Idle, Past
  <1>6. ~NoteOf(pending, n)
    BY <1>1, <1>5, NotNoted
  <1>7. PICK o \in Nat, f \in Nat : o = metrics.ok /\ f = metrics.failed
    BY <1>1
  <1>8. CASE Tool!Settle(n, "failed") /\ pending' = Append(pending, Tool!Completion)
    <2>1. calls' = calls
      BY <1>1, <1>3, <1>8 DEF Tool!Settle
    <2>2. metrics' = [metrics EXCEPT !["failed"] = @ + 1]
      BY <1>8 DEF Tool!Settle
    <2>3. metrics' \in [ok : Nat, failed : Nat] /\ metrics'.ok = o /\ metrics'.failed = f + 1
      BY <1>1, <1>7, <2>2
    <2>4. Tallied(calls', metrics', received', admitted')
      <3>1. PICK u \in Nat, pst \in Nat : u = Cardinality(UnderWay(calls)) /\ pst = Cardinality(PastChecks(calls))
        BY <1>1, CountsMoved
      <3>2. o + f + u = received /\ o + pst <= admitted
        BY <1>1, <1>7, <3>1 DEF Tallied
      <3>3. o + (f + 1) + u = received + 1
        BY <1>1, <3>2
      <3> QED
        BY <1>2, <2>1, <2>3, <3>1, <3>2, <3>3 DEF Tallied
    <2>5. pending' \in Seq(Notes) /\ NotesFit(pending', calls')
      BY <1>1, <1>8, <2>1, CompletionFits
    <2>6. ToolSound(auth, calls, metrics, pending, received, admitted)'
      BY <1>1, <1>2, <2>1, <2>3, <2>4, <2>5 DEF ToolSound
    <2> QED
      BY <1>4, <2>6 DEF ToolInv
  <1>9. CASE /\ calls' = [calls EXCEPT ![n] = [at |-> "auditing", tool |-> r.tool, key |-> r.key,
                                               recorded |-> FALSE]]
             /\ pending' = Append(pending, Tool!Attempt(n))
             /\ UNCHANGED metrics
    <2>1. PICK call \in CallRecords : call = [at |-> "auditing", tool |-> r.tool, key |-> r.key,
                                              recorded |-> FALSE]
      BY <1>2 DEF CallRecords
    <2>2. call # Tool!Idle /\ ~Past(call) /\ call \in CallsOf /\ call.at = "auditing"
      BY <2>1 DEF Past, Tool!Idle, CallsOf
    <2>3. /\ calls' \in [Slots -> CallsOf] /\ calls'[n] = call
          /\ \A m \in Slots \ {n} : calls'[m] = calls[m]
      BY <1>1, <1>9, <2>1, <2>2
    <2>4. Tallied(calls', metrics', received', admitted')
      <3>1. PICK u \in Nat, pst \in Nat, u2 \in Nat, pst2 \in Nat :
               /\ u = Cardinality(UnderWay(calls)) /\ pst = Cardinality(PastChecks(calls))
               /\ u2 = Cardinality(UnderWay(calls')) /\ pst2 = Cardinality(PastChecks(calls'))
        BY <1>1, <2>3, CountsMoved
      <3>2. u2 = u + 1 /\ pst2 = pst
        BY <1>1, <1>3, <1>5, <2>2, <2>3, <3>1, CountsMoved
      <3>3. o + f + u = received /\ o + pst <= admitted
        BY <1>1, <1>7, <3>1 DEF Tallied
      <3>4. o + f + u2 = received + 1
        BY <1>1, <3>2, <3>3
      <3> QED
        BY <1>2, <1>7, <1>9, <3>1, <3>2, <3>3, <3>4 DEF Tallied
    <2>5. NotesFit(pending, calls')
      BY <1>1, <1>6, <2>3, MovedFits
    <2>6. pending' \in Seq(Notes) /\ NotesFit(pending', calls')
      BY <1>1, <1>6, <1>9, <2>2, <2>3, <2>5, AttemptFits
    <2>7. Footing(auth', calls')
      BY <1>1, <1>2, <2>2, <2>3, FootingMoved
    <2>8. ToolSound(auth, calls, metrics, pending, received, admitted)'
      BY <1>1, <1>2, <1>9, <2>3, <2>4, <2>6, <2>7 DEF ToolSound
    <2> QED
      BY <1>4, <2>8 DEF ToolInv
  <1> QED
    BY <1>3, <1>8, <1>9 DEF Tool!Call

LEMMA SubmitsNeedKey ==
  ASSUME NEW tool \in Tool!SubmitTools
  PROVE  \/ tool \in Tool!TenantTools /\ Tool!tenantRoleForTool(tool) = "submit"
         \/ tool \in Tool!ClusterTools /\ Tool!clusterRole(tool) = "submit"
  BY DEF Tool!SubmitTools, Tool!TenantTools, Tool!tenantRoleForTool, Tool!ClusterTools, Tool!clusterRole

LEMMA ToolFails ==
  ASSUME ToolInv, NEW n \in Slots, pending # <<>>, Tool!Record.phase = "attempt", Tool!Record.call = n,
         Tool!Fails(n), admitted' \in Nat, admitted' >= admitted, UNCHANGED <<auth, received>>
  PROVE  ToolSound(auth, calls, metrics, pending, received, admitted)'
  <1>1. /\ ToolSound(auth, calls, metrics, pending, received, admitted)
        /\ calls \in [Slots -> CallsOf] /\ pending \in Seq(Notes) /\ NotesFit(pending, calls)
    BY DEF ToolInv, ToolSound
  <1>2. PICK q : q = Tail(pending)
    OBVIOUS
  <1>3. /\ q \in Seq(Notes) /\ NotesFit(q, calls) /\ ~NoteOf(q, n) /\ calls[n].at = "auditing"
    BY <1>1, <1>2, TailFits DEF Tool!Record
  <1>4. calls[n] # Tool!Idle
    BY <1>3 DEF Tool!Idle
  <1>5. Tool!Settle(n, "failed") /\ pending' = Append(q, Tool!Completion)
    BY <1>2 DEF Tool!Fails
  <1> QED
    BY <1>1, <1>3, <1>4, <1>5, CallSettled

LEMMA ToolAttemptRecorded ==
  ASSUME ToolInv, NEW n \in Slots, Tool!AttemptRecorded(n)
  PROVE  ToolInv'
  <1>1. /\ ToolSound(auth, calls, metrics, pending, received, admitted) /\ BucketInv /\ Tool!CallsGuarded
        /\ admitted \in Nat
        /\ calls \in [Slots -> CallsOf] /\ pending \in Seq(Notes) /\ NotesFit(pending, calls)
    BY DEF ToolInv, ToolSound
  <1>2. /\ pending # <<>> /\ Tool!Record = Tool!Attempt(n)
        /\ UNCHANGED <<auth, clock, received, elapsed, effect>>
    BY DEF Tool!AttemptRecorded
  <1>3. Tool!Record.phase = "attempt" /\ Tool!Record.call = n
    BY <1>2 DEF Tool!Attempt
  <1>4. Tool!CallsGuarded'
    BY <1>1, <1>2 DEF Tool!CallsGuarded
  <1>5. CASE Tool!NoRefill /\ Tool!Fails(n)
    <2>1. admitted' \in Nat /\ admitted' >= admitted
      BY <1>1, <1>5 DEF Tool!NoRefill
    <2>2. BucketInv'
      BY <1>1, <1>2, <1>5, BucketKept DEF Tool!NoRefill
    <2>3. ToolSound(auth, calls, metrics, pending, received, admitted)'
      BY <1>2, <1>3, <1>5, <2>1, ToolFails
    <2> QED
      BY <1>4, <2>2, <2>3 DEF ToolInv
  <1>6. ASSUME ~Tool!Denied(n), Tool!Refill
        PROVE  /\ BucketInv' /\ admitted' \in Nat /\ admitted' >= admitted
               /\ ~Tool!RateLimited => admitted' = admitted + 1
    <2>1. BucketInv' /\ admitted' >= admitted /\ (~Tool!RateLimited => admitted' = admitted + 1)
      BY <1>1, <1>2, <1>6, BucketRefilled
    <2> QED
      BY <2>1 DEF BucketInv, Bucket
  <1>7. CASE ~Tool!Denied(n) /\ Tool!Refill /\ Tool!Fails(n)
    <2>1. ToolSound(auth, calls, metrics, pending, received, admitted)'
      BY <1>2, <1>3, <1>6, <1>7, ToolFails
    <2> QED
      BY <1>4, <1>6, <1>7, <2>1 DEF ToolInv
  <1>8. ASSUME ~Tool!Denied(n), Tool!Refill, ~Tool!RateLimited, ~Tool!ClusterDenied(n),
               NEW place \in {"resolving", "queued"},
               calls' = [calls EXCEPT ![n].at = place, ![n].recorded = TRUE],
               pending' = Tail(pending), UNCHANGED metrics
        PROVE  ToolInv'
    <2>1. /\ pending' \in Seq(Notes) /\ NotesFit(pending', calls) /\ ~NoteOf(pending', n)
          /\ calls[n].at = "auditing"
      BY <1>1, <1>2, <1>3, <1>8, TailFits DEF Tool!Record
    <2>2. calls[n] # Tool!Idle /\ ~Past(calls[n])
      BY <2>1 DEF Tool!Idle, Past
    <2>3. calls[n] \in CallRecords
      BY <1>1, <2>2, CallKinds
    <2>4. PICK old \in CallRecords : old = calls[n]
      BY <2>3
    <2>5. PICK call \in CallRecords : call = [old EXCEPT !.at = place, !.recorded = TRUE]
      BY DEF CallRecords
    <2>a. call.at = place /\ call.tool = old.tool /\ call.key = old.key /\ call.recorded
      BY <2>5 DEF CallRecords
    <2>b. /\ calls' \in [Slots -> CallsOf] /\ calls'[n] = call
          /\ \A m \in Slots \ {n} : calls'[m] = calls[m]
      BY <1>1, <1>8, <2>4, <2>5 DEF CallsOf
    <2>6. Past(calls'[n]) /\ Entitled(auth, calls'[n])
      <3>1. ASSUME auth, calls[n].tool \in Tool!SubmitTools
            PROVE  "submit" \in Tool!Roles(calls[n].key)
        BY <1>8, <3>1, SubmitsNeedKey DEF Tool!Denied, Tool!ClusterDenied
      <3> QED
        BY <3>1, <2>4, <2>a, <2>b DEF Entitled, Past
    <2>7. admitted' = (IF Past(calls[n]) THEN admitted ELSE admitted + 1)
      BY <1>6, <1>8, <2>2
    <2>8. ToolSound(auth, calls, metrics, pending, received, admitted)'
      BY <1>1, <1>2, <1>8, <2>1, <2>2, <2>6, <2>7, <2>b, CallAdvanced
    <2> QED
      BY <1>4, <1>6, <1>8, <2>8 DEF ToolInv
  <1>9. \/ Tool!NoRefill /\ Tool!Fails(n)
        \/ ~Tool!Denied(n) /\ Tool!Refill /\ Tool!Fails(n)
        \/ /\ ~Tool!Denied(n) /\ Tool!Refill /\ ~Tool!RateLimited /\ ~Tool!ClusterDenied(n)
           /\ calls' = [calls EXCEPT ![n].at = "resolving", ![n].recorded = TRUE]
           /\ pending' = Tail(pending) /\ UNCHANGED metrics
        \/ /\ ~Tool!Denied(n) /\ Tool!Refill /\ ~Tool!RateLimited /\ ~Tool!ClusterDenied(n)
           /\ calls' = [calls EXCEPT ![n].at = "queued", ![n].recorded = TRUE]
           /\ pending' = Tail(pending) /\ UNCHANGED metrics
    BY DEF Tool!AttemptRecorded
  <1> QED
    BY <1>5, <1>7, <1>8, <1>9

LEMMA ToolRecordLost ==
  ASSUME ToolInv, Tool!RecordLost
  PROVE  ToolInv'
  <1>1. /\ ToolSound(auth, calls, metrics, pending, received, admitted) /\ BucketInv /\ Tool!CallsGuarded
        /\ admitted \in Nat /\ pending \in Seq(Notes) /\ NotesFit(pending, calls)
    BY DEF ToolInv, ToolSound
  <1>2. pending # <<>> /\ UNCHANGED <<auth, tokens, lastRefill, clock, received, admitted, elapsed, effect>>
    BY DEF Tool!RecordLost
  <1>3. BucketInv' /\ Tool!CallsGuarded' /\ admitted' \in Nat /\ admitted' >= admitted
    BY <1>1, <1>2, BucketKept DEF Tool!CallsGuarded
  <1>4. CASE Tool!Record.phase = "attempt" /\ Tool!Fails(Tool!Record.call)
    <2>1. PICK n \in Slots : n = Tool!Record.call
      BY <1>1, <1>2, <1>4, TailFits, NotesKinds DEF Tool!Record
    <2> QED
      BY <1>2, <1>3, <1>4, <2>1, ToolFails DEF ToolInv
  <1>5. CASE pending' = Tail(pending) /\ UNCHANGED <<calls, metrics>>
    <2>1. pending' \in Seq(Notes) /\ NotesFit(pending', calls)
      BY <1>1, <1>2, <1>5, TailFits
    <2> QED
      BY <1>1, <1>2, <1>3, <1>5, <2>1 DEF ToolInv, ToolSound
  <1> QED
    BY <1>4, <1>5 DEF Tool!RecordLost

LEMMA ToolCompletionRecorded ==
  ASSUME ToolInv, Tool!CompletionRecorded
  PROVE  ToolInv'
  <1>1. /\ ToolSound(auth, calls, metrics, pending, received, admitted) /\ BucketInv /\ Tool!CallsGuarded
        /\ pending \in Seq(Notes) /\ NotesFit(pending, calls)
    BY DEF ToolInv, ToolSound
  <1>2. /\ pending # <<>> /\ pending' = Tail(pending)
        /\ UNCHANGED <<auth, calls, metrics, tokens, lastRefill, clock, received, admitted, elapsed, effect>>
    BY DEF Tool!CompletionRecorded
  <1>3. BucketInv' /\ Tool!CallsGuarded'
    BY <1>1, <1>2, BucketKept DEF Tool!CallsGuarded
  <1>4. pending' \in Seq(Notes) /\ NotesFit(pending', calls)
    BY <1>1, <1>2, TailFits
  <1> QED
    BY <1>1, <1>2, <1>3, <1>4 DEF ToolInv, ToolSound

LEMMA ToolTargetResolved ==
  ASSUME ToolInv, NEW n \in Slots, Tool!TargetResolved(n)
  PROVE  ToolInv'
  <1>1. /\ ToolSound(auth, calls, metrics, pending, received, admitted) /\ BucketInv /\ Tool!CallsGuarded
        /\ calls \in [Slots -> CallsOf] /\ pending \in Seq(Notes) /\ NotesFit(pending, calls)
        /\ Footing(auth, calls)
    BY DEF ToolInv, ToolSound
  <1>2. /\ calls[n].at = "resolving" /\ calls' = [calls EXCEPT ![n].at = "queued"]
        /\ UNCHANGED <<auth, metrics, pending, tokens, lastRefill, clock, received, admitted, elapsed, effect>>
    BY DEF Tool!TargetResolved
  <1>3. BucketInv' /\ Tool!CallsGuarded'
    BY <1>1, <1>2, BucketKept DEF Tool!CallsGuarded
  <1>4. calls[n] # Tool!Idle /\ Past(calls[n]) /\ ~NoteOf(pending, n)
    BY <1>1, <1>2, NotNoted DEF Tool!Idle, Past
  <1>5. calls[n] \in CallRecords
    BY <1>1, <1>4, CallKinds
  <1>6. PICK old \in CallRecords : old = calls[n]
    BY <1>5
  <1>7. PICK call \in CallRecords : call = [old EXCEPT !.at = "queued"]
    BY DEF CallRecords
  <1>8. call.at = "queued" /\ call.tool = old.tool /\ call.key = old.key /\ call.recorded = old.recorded
    BY <1>7 DEF CallRecords
  <1>9. /\ calls' \in [Slots -> CallsOf] /\ calls'[n] = call
        /\ \A m \in Slots \ {n} : calls'[m] = calls[m]
    BY <1>1, <1>2, <1>6, <1>7 DEF CallsOf
  <1>a. Past(calls'[n]) /\ Entitled(auth, calls'[n])
    BY <1>1, <1>4, <1>6, <1>8, <1>9 DEF Footing, Entitled, Past
  <1>10. ToolSound(auth, calls, metrics, pending, received, admitted)'
    BY <1>1, <1>2, <1>4, <1>9, <1>a, CallAdvanced
  <1> QED
    BY <1>3, <1>10 DEF ToolInv

LEMMA ToolErrs ==
  ASSUME ToolInv, NEW n \in Slots, Tool!Errs(n)
  PROVE  ToolInv'
  <1>1. /\ ToolSound(auth, calls, metrics, pending, received, admitted) /\ BucketInv /\ Tool!CallsGuarded
        /\ admitted \in Nat /\ pending \in Seq(Notes) /\ NotesFit(pending, calls)
    BY DEF ToolInv, ToolSound
  <1>2. /\ Past(calls[n]) /\ Tool!Settle(n, "failed") /\ pending' = Append(pending, Tool!Completion)
        /\ UNCHANGED <<auth, tokens, lastRefill, clock, received, admitted, elapsed, effect>>
    BY DEF Tool!Errs, Past
  <1>3. BucketInv' /\ Tool!CallsGuarded' /\ admitted' \in Nat /\ admitted' >= admitted
    BY <1>1, <1>2, BucketKept DEF Tool!CallsGuarded
  <1>4. calls[n].at # "auditing" /\ calls[n] # Tool!Idle
    BY <1>2 DEF Past, Tool!Idle
  <1>5. ~NoteOf(pending, n)
    BY <1>1, <1>4, NotNoted
  <1>6. ToolSound(auth, calls, metrics, pending, received, admitted)'
    BY <1>1, <1>2, <1>3, <1>4, <1>5, CallSettled
  <1> QED
    BY <1>3, <1>6 DEF ToolInv

LEMMA ToolDone ==
  ASSUME ToolInv, NEW n \in Slots, calls[n].at = "queued", Tool!Done(n),
         calls[n].tool \in Tool!WriteTools => session = "READY"
  PROVE  ToolInv'
  <1>1. /\ ToolSound(auth, calls, metrics, pending, received, admitted) /\ BucketInv
        /\ admitted \in Nat /\ pending \in Seq(Notes) /\ NotesFit(pending, calls)
        /\ Footing(auth, calls)
    BY DEF ToolInv, ToolSound
  <1>2. /\ Tool!Settle(n, "ok") /\ pending' = Append(pending, Tool!Completion)
        /\ effect' = [tool |-> calls[n].tool, key |-> calls[n].key, session |-> session,
                      recorded |-> calls[n].recorded]
        /\ UNCHANGED <<auth, tokens, lastRefill, clock, received, admitted, elapsed>>
    BY DEF Tool!Done
  <1>3. BucketInv' /\ admitted' \in Nat /\ admitted' >= admitted
    BY <1>1, <1>2, BucketKept
  <1>4. calls[n].at # "auditing" /\ calls[n] # Tool!Idle /\ Past(calls[n])
    BY DEF Past, Tool!Idle
  <1>5. ~NoteOf(pending, n)
    BY <1>1, <1>4, NotNoted
  <1>6. ToolSound(auth, calls, metrics, pending, received, admitted)'
    BY <1>1, <1>2, <1>3, <1>4, <1>5, CallSettled
  <1>7. Tool!CallsGuarded'
    <2>1. Entitled(auth, calls[n])
      BY <1>1, <1>4 DEF Footing
    <2>2. /\ effect'.tool = calls[n].tool /\ effect'.key = calls[n].key /\ effect'.session = session
          /\ effect'.recorded = calls[n].recorded
      BY <1>2
    <2> QED
      BY <1>2, <2>1, <2>2 DEF Entitled, Tool!CallsGuarded
  <1> QED
    BY <1>3, <1>6, <1>7 DEF ToolInv

LEMMA ToolServed ==
  ASSUME ToolInv, NEW n \in Slots, Tool!Writes(n) \/ Tool!Controls(n) \/ Tool!Serves(n)
  PROVE  ToolInv'
  <1>1. CASE Tool!Writes(n)
    BY <1>1, ToolDone DEF Tool!Writes, Tool!SessionAllows
  <1>2. CASE Tool!Controls(n)
    <2>1. calls[n].at = "queued" /\ Tool!Done(n) /\ calls[n].tool \in Tool!ControlTools
      BY <1>2 DEF Tool!Controls
    <2>2. calls[n].tool \notin Tool!WriteTools
      BY <2>1 DEF Tool!ControlTools, Tool!WriteTools
    <2> QED
      BY <2>1, <2>2, ToolDone
  <1>3. CASE Tool!Serves(n)
    BY <1>3, ToolDone DEF Tool!Serves
  <1> QED
    BY <1>1, <1>2, <1>3

LEMMA ToolKept ==
  ASSUME ToolInv, UNCHANGED <<auth, calls, tokens, lastRefill, clock, metrics, pending, received, admitted,
                              elapsed, effect>>
  PROVE  ToolInv'
  <1>1. BucketInv'
    BY BucketKept DEF ToolInv
  <1>2. ToolSound(auth, calls, metrics, pending, received, admitted)'
    BY DEF ToolInv, ToolSound
  <1>3. Tool!CallsGuarded'
    BY DEF ToolInv, Tool!CallsGuarded
  <1> QED
    BY <1>1, <1>2, <1>3 DEF ToolInv

LEMMA ToolWaits ==
  ASSUME ToolInv, NEW to \in 0 .. MaxClock, Tool!ClockMoves(to)
  PROVE  ToolInv'
  <1>1. BucketInv'
    BY BucketWaits DEF ToolInv
  <1>2. UNCHANGED <<auth, calls, metrics, pending, received, admitted, effect>>
    BY DEF Tool!ClockMoves
  <1>3. ToolSound(auth, calls, metrics, pending, received, admitted)'
    BY <1>2 DEF ToolInv, ToolSound
  <1>4. Tool!CallsGuarded'
    BY <1>2 DEF ToolInv, Tool!CallsGuarded
  <1> QED
    BY <1>1, <1>3, <1>4 DEF ToolInv

LEMMA ToolStep ==
  ASSUME ToolInv, Tool!ToolNext
  PROVE  ToolInv'
  <1>1. CASE Tool!RecordLost \/ Tool!CompletionRecorded
    BY <1>1, ToolRecordLost, ToolCompletionRecorded
  <1>2. CASE Tool!WorkspaceFollows
    BY <1>2, ToolKept DEF Tool!WorkspaceFollows
  <1>3. CASE \E n \in Slots : Tool!AttemptRecorded(n) \/ Tool!TargetResolved(n) \/ Tool!Errs(n)
    BY <1>3, ToolAttemptRecorded, ToolTargetResolved, ToolErrs
  <1>4. CASE \E n \in Slots : Tool!Writes(n) \/ Tool!Controls(n) \/ Tool!Serves(n)
    BY <1>4, ToolServed
  <1>5. CASE \E r \in Requests : Tool!Call(r)
    BY <1>5, ToolCalled
  <1>6. CASE \E r \in Requests : Tool!UnknownTool(r)
    BY <1>6, ToolKept DEF Tool!UnknownTool
  <1>7. CASE \E to \in {"READY", "PAUSED_CHALLENGE", "USER_CONTROLLED"} : Tool!SessionTurns(to)
    BY <1>7, ToolKept DEF Tool!SessionTurns
  <1>8. CASE \E to \in 0 .. MaxClock : Tool!ClockMoves(to)
    BY <1>8, ToolWaits
  <1> QED
    BY <1>1, <1>2, <1>3, <1>4, <1>5, <1>6, <1>7, <1>8 DEF Tool!ToolNext, Tool!ToolProgress

LEMMA ToolInvMeans ==
  ASSUME ToolInv
  PROVE  RateBounded /\ Tool!CallsGuarded
  <1>1. /\ BucketInv /\ Tool!CallsGuarded /\ admitted \in Nat /\ calls \in [Slots -> CallsOf]
        /\ metrics \in [ok : Nat, failed : Nat] /\ Tallied(calls, metrics, received, admitted)
    BY DEF ToolInv, ToolSound
  <1>2. admitted * Cost <= Burst * Cost + Rate * elapsed
    BY <1>1, BucketMeans
  <1>3. metrics.ok + metrics.failed + Cardinality({n \in Slots : calls[n] # Tool!Idle}) = received
    BY <1>1 DEF Tallied, UnderWay
  <1>4. metrics.ok <= admitted
    <2>1. IsFiniteSet(PastChecks(calls))
      <3>1. PastChecks(calls) \subseteq Slots /\ IsFiniteSet(Slots)
        BY BucketAssumption DEF PastChecks
      <3> QED
        BY <3>1, FS_Subset
    <2>2. PICK pst \in Nat : pst = Cardinality(PastChecks(calls))
      BY <2>1, FS_CardinalityType
    <2>3. PICK o \in Nat : o = metrics.ok
      BY <1>1
    <2>4. o + pst <= admitted
      BY <1>1, <2>2, <2>3 DEF Tallied
    <2> QED
      BY <1>1, <2>3, <2>4
  <1>5. ASSUME NEW S PROVE Tool!Cardinality(S) = Cardinality(S)
    BY Zenon DEF Tool!Cardinality, Cardinality, Tool!IsFiniteSet, IsFiniteSet
  <1> QED
    BY <1>1, <1>2, <1>3, <1>4, <1>5 DEF RateBounded, Tool!RateBounded

-----------------------------------------------------------------------------
(* The studio's requests.  Who was told to be out is out, so nobody is let in with      *)
(* that key; and what a request was let in for stays with it.                          *)

RolesOf == {"viewer", "operator", "manager", "owner"}
MembersOf == [role : RolesOf, state : {"active", "suspended"}, grants : {{"mine"}}]
RequestRecords == [at : {"reading", "working", "answered"}, shape : {route.shape : route \in Routes},
                   role : RolesOf, barred : BOOLEAN, change : {"none", "active", "suspended", "revoked"},
                   left : Nat]

\* A request under way was not barred, and one that changes members or keys is an owner's.
Rightful(r) == ~r.barred /\ (r.shape \in {"member", "revoke"} => r.role = "owner")
Seats == {Gate!Free, Gate!Lost} \union {r \in RequestRecords : Rightful(r)}

Team(mb, ky, sh) ==
    /\ mb \in MembersOf /\ ky \in {"valid", "revoked"} /\ sh \in BOOLEAN
    /\ sh => ky = "revoked" \/ mb.state = "suspended"
Service(sv, rq, sk) ==
    /\ sv \in {"open", "closing", "closed", "dead"}
    /\ rq \in [Places -> Seats]
    /\ \A s \in sk : s.barred => s.kind = "bridge"
Link(used, given) == used \in BOOLEAN /\ given \in {0, 1} /\ (~used => given = 0)
Deeds(d) == (d.kind # "none" => ~d.barred) /\ (d.kind = "team" => d.role = "owner")

GateInv ==
    /\ Team(member, key, shut) /\ Service(serving, requests, sockets) /\ Link(bootstrapUsed, cookies)
    /\ Deeds(deed)

LEMMA SeatKinds ==
  ASSUME NEW r \in Seats, r.at \in {"reading", "working", "answered"}
  PROVE  r \in RequestRecords /\ Rightful(r)
  BY DEF Seats, Gate!Free, Gate!Lost

LEMMA SeatMoves ==
  ASSUME NEW r \in RequestRecords, Rightful(r)
  PROVE  /\ [r EXCEPT !.at = "working"] \in Seats
         /\ [r EXCEPT !.at = "answered"] \in Seats
         /\ \A change \in {"active", "suspended", "revoked"} :
               [r EXCEPT !.at = "working", !.change = change] \in Seats
         /\ r.left > 0 => [r EXCEPT !.left = @ - 1] \in Seats
  <1>1. /\ [r EXCEPT !.at = "working"] \in RequestRecords
        /\ Rightful([r EXCEPT !.at = "working"])
    BY DEF RequestRecords, Rightful
  <1>2. /\ [r EXCEPT !.at = "answered"] \in RequestRecords
        /\ Rightful([r EXCEPT !.at = "answered"])
    BY DEF RequestRecords, Rightful
  <1>3. ASSUME NEW change \in {"active", "suspended", "revoked"}
        PROVE  /\ [r EXCEPT !.at = "working", !.change = change] \in RequestRecords
               /\ Rightful([r EXCEPT !.at = "working", !.change = change])
    BY DEF RequestRecords, Rightful
  <1>4. ASSUME r.left > 0
        PROVE  /\ [r EXCEPT !.left = @ - 1] \in RequestRecords
               /\ Rightful([r EXCEPT !.left = @ - 1])
    <2>1. PICK less \in Nat : less = r.left - 1
      BY <1>4 DEF RequestRecords
    <2>2. /\ [r EXCEPT !.left = less] \in RequestRecords
          /\ Rightful([r EXCEPT !.left = less])
      BY DEF RequestRecords, Rightful
    <2> QED
      BY <2>1, <2>2
  <1> QED
    BY <1>1, <1>2, <1>3, <1>4 DEF Seats

LEMMA GateInitially ==
  ASSUME Gate!GateInit
  PROVE  GateInv
  <1>1. Team(member, key, shut)
    BY DEF Gate!GateInit, Team, MembersOf, RolesOf
  <1>2. Service(serving, requests, sockets)
    BY DEF Gate!GateInit, Service, Seats
  <1>3. Link(bootstrapUsed, cookies)
    BY DEF Gate!GateInit, Link
  <1>4. Deeds(deed)
    BY DEF Gate!GateInit, Gate!Nothing, Deeds
  <1> QED
    BY <1>1, <1>2, <1>3, <1>4 DEF GateInv

\* A request under way that goes on or ends.
LEMMA GateGoesOn ==
  ASSUME GateInv, NEW p \in Places, NEW v \in Seats, requests' = [requests EXCEPT ![p] = v],
         Team(member, key, shut)', Deeds(deed'),
         UNCHANGED <<serving, sockets, bootstrapUsed, cookies>>
  PROVE  GateInv'
  <1>1. Service(serving, requests, sockets)
    BY DEF GateInv
  <1>2. Service(serving', requests', sockets')
    BY <1>1 DEF Service
  <1> QED
    BY <1>2 DEF GateInv

LEMMA GateDoes ==
  ASSUME NEW p \in Places, requests[p] \in RequestRecords, Rightful(requests[p]), NEW kind \in {"ordinary", "team"},
         kind = "team" => requests[p].shape \in {"member", "revoke"}, Gate!Does(p, kind)
  PROVE  Deeds(deed')
  BY DEF Gate!Does, Deeds, Rightful

\* Ends of a request.
LEMMA GateReplies ==
  ASSUME GateInv, NEW p \in Places, Gate!Reply(p),
         Team(member, key, shut)', UNCHANGED <<serving, sockets, bootstrapUsed, cookies, deed>>
  PROVE  GateInv'
  <1>1. requests' = [requests EXCEPT ![p] = Gate!Free] /\ Gate!Free \in Seats
    BY DEF Gate!Reply, Seats
  <1>2. Deeds(deed')
    BY DEF GateInv
  <1> QED
    BY <1>1, <1>2, GateGoesOn

LEMMA GateTeamKept ==
  ASSUME GateInv, UNCHANGED <<member, key, shut>>
  PROVE  Team(member, key, shut)'
  BY DEF GateInv

LEMMA GateBegins ==
  ASSUME GateInv, NEW p \in Places, NEW shape, Gate!Begins(p, shape)
  PROVE  GateInv'
  <1>1. /\ requests[p].at = "reading" /\ Gate!Does(p, "ordinary")
        /\ requests' = [requests EXCEPT ![p].at = "working"]
        /\ UNCHANGED <<serving, bootstrapUsed, cookies, member, key, sockets, shut>>
    BY DEF Gate!Begins
  <1>2. requests \in [Places -> Seats]
    BY DEF GateInv, Service
  <1>3. PICK r \in RequestRecords : r = requests[p] /\ Rightful(r)
    BY <1>1, <1>2, SeatKinds
  <1>4. PICK v \in Seats : v = [r EXCEPT !.at = "working"]
    BY <1>3, SeatMoves
  <1>5. requests' = [requests EXCEPT ![p] = v]
    BY <1>1, <1>2, <1>3, <1>4
  <1>6. Deeds(deed')
    BY <1>1, <1>3, GateDoes
  <1>7. Team(member, key, shut)'
    BY <1>1, <1>2, GateTeamKept
  <1> QED
    BY <1>1, <1>5, <1>6, <1>7, GateGoesOn

LEMMA GateChanges ==
  ASSUME GateInv, NEW p \in Places, Gate!Changes(p)
  PROVE  GateInv'
  <1>1. /\ requests[p].at = "reading" /\ requests[p].shape \in {"member", "revoke"} /\ Gate!Does(p, "team")
        /\ UNCHANGED <<serving, bootstrapUsed, cookies, sockets>>
    BY DEF Gate!Changes
  <1>2. requests \in [Places -> Seats] /\ Team(member, key, shut)
    BY DEF GateInv, Service
  <1>3. PICK r \in RequestRecords : r = requests[p] /\ Rightful(r)
    BY <1>1, <1>2, SeatKinds
  <1>4. Deeds(deed')
    BY <1>1, <1>2, <1>3, GateDoes
  <1>5. CASE /\ key' = "revoked" /\ UNCHANGED <<member, shut>>
             /\ requests' = [requests EXCEPT ![p].at = "working", ![p].change = "revoked"]
    <2>1. PICK v \in Seats : v = [r EXCEPT !.at = "working", !.change = "revoked"]
      BY <1>3, SeatMoves
    <2>2. requests' = [requests EXCEPT ![p] = v]
      BY <1>2, <1>3, <1>5, <2>1
    <2>3. Team(member, key, shut)'
      BY <1>2, <1>5 DEF Team
    <2> QED
      BY <1>1, <1>4, <2>2, <2>3, GateGoesOn
  <1>6. ASSUME NEW state \in {"active", "suspended"}, NEW role \in {"viewer", "owner"},
               member' = [member EXCEPT !.state = state, !.role = role],
               requests' = [requests EXCEPT ![p].at = "working", ![p].change = state],
               shut' = (shut /\ (state = "suspended" \/ key = "revoked")), UNCHANGED key
        PROVE  GateInv'
    <2>1. PICK v \in Seats : v = [r EXCEPT !.at = "working", !.change = state]
      BY <1>3, SeatMoves
    <2>2. requests' = [requests EXCEPT ![p] = v]
      BY <1>2, <1>3, <1>6, <2>1
    <2>3. member' \in MembersOf /\ member'.state = state
      BY <1>2, <1>6 DEF Team, MembersOf, RolesOf
    <2>4. Team(member, key, shut)'
      BY <1>2, <1>6, <2>3 DEF Team
    <2> QED
      BY <1>1, <1>4, <2>2, <2>4, GateGoesOn
  <1> QED
    BY <1>5, <1>6 DEF Gate!Changes

LEMMA GateAnswers ==
  ASSUME GateInv, NEW p \in Places, Gate!Answers(p)
  PROVE  GateInv'
  <1>1. /\ Gate!Reply(p)
        /\ UNCHANGED <<serving, bootstrapUsed, cookies, sockets, deed>>
    BY DEF Gate!Answers
  <1>2. Team(member, key, shut)'
    BY DEF Gate!Answers, Gate!Told, Gate!Outside, GateInv, Team
  <1> QED
    BY <1>1, <1>2, GateReplies

LEMMA GateRowDone ==
  ASSUME GateInv, NEW p \in Places, Gate!RowDone(p)
  PROVE  GateInv'
  <1>1. /\ requests[p].at = "working" /\ requests[p].left > 0
        /\ requests' = [requests EXCEPT ![p].left = @ - 1]
        /\ UNCHANGED <<serving, bootstrapUsed, cookies, member, key, sockets, shut, deed>>
    BY DEF Gate!RowDone
  <1>2. requests \in [Places -> Seats] /\ Deeds(deed)
    BY DEF GateInv, Service
  <1>3. PICK r \in RequestRecords : r = requests[p] /\ Rightful(r)
    BY <1>1, <1>2, SeatKinds
  <1>4. PICK v \in Seats : v = [r EXCEPT !.left = @ - 1]
    BY <1>1, <1>3, SeatMoves
  <1>5. requests' = [requests EXCEPT ![p] = v]
    BY <1>1, <1>2, <1>3, <1>4
  <1>6. Team(member, key, shut)' /\ Deeds(deed')
    BY <1>1, <1>2, GateTeamKept
  <1> QED
    BY <1>1, <1>5, <1>6, GateGoesOn

LEMMA GateRefuses ==
  ASSUME GateInv, NEW p \in Places, Gate!Refuses(p) \/ Gate!Throws(p)
  PROVE  GateInv'
  <1>1. /\ Gate!Reply(p)
        /\ UNCHANGED <<serving, bootstrapUsed, cookies, member, key, sockets, shut, deed>>
    BY DEF Gate!Refuses, Gate!Throws
  <1> QED
    BY <1>1, GateTeamKept, GateReplies

LEMMA GateBroadcasts ==
  ASSUME GateInv, NEW p \in Places, Gate!Broadcasts(p)
  PROVE  GateInv'
  <1>1. /\ requests[p].at = "reading" /\ Gate!Does(p, "ordinary")
        /\ UNCHANGED <<serving, bootstrapUsed, cookies, member, key, sockets, shut>>
    BY DEF Gate!Broadcasts
  <1>2. requests \in [Places -> Seats]
    BY DEF GateInv, Service
  <1>3. PICK r \in RequestRecords : r = requests[p] /\ Rightful(r)
    BY <1>1, <1>2, SeatKinds
  <1>4. Deeds(deed') /\ Team(member, key, shut)'
    BY <1>1, <1>3, GateDoes, GateTeamKept
  <1>5. ASSUME NEW to \in {"working", "answered"}, requests' = [requests EXCEPT ![p].at = to]
        PROVE  GateInv'
    <2>1. PICK v \in Seats : v = [r EXCEPT !.at = to]
      BY <1>3, <1>5, SeatMoves
    <2>2. requests' = [requests EXCEPT ![p] = v]
      BY <1>2, <1>3, <1>5, <2>1
    <2> QED
      BY <1>1, <1>4, <2>2, GateGoesOn
  <1> QED
    BY <1>5 DEF Gate!Broadcasts

\* The process ends: nothing is open, and nobody is answered any more.
LEMMA GateDies ==
  ASSUME GateInv, NEW unanswered, Gate!Dies(unanswered), Deeds(deed')
  PROVE  GateInv'
  <1>1. Service(serving', requests', sockets')
    BY DEF Gate!Dies, Service, Seats
  <1>2. Team(member, key, shut)' /\ Link(bootstrapUsed', cookies')
    BY DEF GateInv, Gate!Dies
  <1> QED
    BY <1>1, <1>2 DEF GateInv

LEMMA GateAskNoUrl ==
  ASSUME GateInv, Gate!AskNoUrl
  PROVE  GateInv'
  <1>1. Deeds(deed')
    BY DEF Gate!AskNoUrl, Deeds, Gate!Nothing
  <1> QED
    BY <1>1, GateDies DEF Gate!AskNoUrl

LEMMA GateAnswersTwice ==
  ASSUME GateInv, NEW p \in Places, Gate!AnswersTwice(p)
  PROVE  GateInv'
  <1>1. Gate!Dies(Gate!UnderWay) /\ Deeds(deed')
    BY DEF Gate!AnswersTwice, GateInv
  <1> QED
    BY <1>1, GateDies

LEMMA GateEnds ==
  ASSUME GateInv, Gate!Stop \/ Gate!Stopped
  PROVE  GateInv'
  <1>1. /\ Service(serving, requests, sockets) /\ Team(member, key, shut) /\ Link(bootstrapUsed, cookies)
        /\ Deeds(deed)
    BY DEF GateInv
  <1>2. UNCHANGED <<bootstrapUsed, cookies, member, key, requests, shut, deed>>
    BY DEF Gate!Stop, Gate!Stopped
  <1>3. Service(serving', requests', sockets')
    BY <1>1, <1>2 DEF Service, Gate!Stop, Gate!Stopped
  <1> QED
    BY <1>1, <1>2, <1>3 DEF GateInv

LEMMA GateBootstrap ==
  ASSUME GateInv, NEW supplied \in BOOLEAN, Gate!Bootstrap(supplied)
  PROVE  GateInv'
  <1>1. /\ Service(serving, requests, sockets) /\ Team(member, key, shut) /\ Link(bootstrapUsed, cookies)
    BY DEF GateInv
  <1>2. /\ UNCHANGED <<serving, member, key, requests, sockets, shut>> /\ deed' = Gate!Nothing
    BY DEF Gate!Bootstrap
  <1>3. Link(bootstrapUsed', cookies')
    BY <1>1 DEF Link, Gate!Bootstrap
  <1>4. Deeds(deed')
    BY <1>2 DEF Deeds, Gate!Nothing
  <1> QED
    BY <1>1, <1>2, <1>3, <1>4 DEF GateInv

\* Who comes with a key its owner was told is out is nobody.
LEMMA GateKnows ==
  ASSUME Team(member, key, shut), NEW token, Gate!authenticate(token).role # "none"
  PROVE  Gate!authenticate(token).role \in RolesOf /\ ~(token = "key" /\ shut)
  <1>1. CASE token = "owner"
    BY <1>1 DEF Gate!authenticate, RolesOf
  <1>2. CASE token = "key" /\ key = "valid" /\ member.state = "active"
    <2>1. Gate!authenticate(token) = [role |-> member.role, grants |-> member.grants]
      BY <1>2 DEF Gate!authenticate
    <2>2. member.role \in RolesOf
      BY DEF Team, MembersOf
    <2> QED
      BY <1>2, <2>1, <2>2 DEF Team
  <1>3. CASE token # "owner" /\ ~(token = "key" /\ key = "valid" /\ member.state = "active")
    <2>1. Gate!authenticate(token) = [role |-> "none"]
      BY <1>3 DEF Gate!authenticate
    <2> QED
      BY <2>1
  <1> QED
    BY <1>1, <1>2, <1>3

\* The routes of members and keys ask for an owner.
LEMMA GateOwnersOnly ==
  ASSUME NEW route \in Routes, route.shape \in {"member", "revoke"}, NEW role \in RolesOf,
         Gate!roleAllows(role, Gate!requiredRole(route))
  PROVE  role = "owner"
  <1>1. "team" \in route.path /\ "bridge" \notin route.path
    BY RouteAssumption
  <1>2. ~Gate!Has(route, {"bridge"})
    BY <1>1 DEF Gate!Has
  <1>3. Gate!Has(route, {"team", "migration", "purge", "extensions/import", "cookies", "2fa"})
    BY <1>1 DEF Gate!Has
  <1>4. Gate!requiredRole(route) = "owner"
    BY <1>2, <1>3 DEF Gate!requiredRole
  <1> QED
    BY <1>4 DEF Gate!roleAllows, Gate!Ranks, RolesOf

LEMMA GateAsk ==
  ASSUME GateInv, NEW token, NEW route \in Routes, NEW id, Gate!Ask(token, route, id)
  PROVE  GateInv'
  <1>1. /\ Service(serving, requests, sockets) /\ Team(member, key, shut) /\ Link(bootstrapUsed, cookies)
        /\ requests \in [Places -> Seats]
    BY DEF GateInv, Service
  <1>2. PICK p \in Places : p = (CHOOSE free \in Gate!FreePlaces : TRUE)
    <2>1. Gate!FreePlaces # {}
      BY DEF Gate!Ask
    <2>2. (CHOOSE free \in Gate!FreePlaces : TRUE) \in Gate!FreePlaces
      BY <2>1, Zenon
    <2> QED
      BY <2>2 DEF Gate!FreePlaces
  <1>3. Deeds(deed')
    BY DEF Deeds, Gate!Ask, Gate!Nothing
  <1>4. CASE Gate!Undecodable(token, route, id)
    <2>1. PICK unanswered : Gate!Dies(unanswered)
      BY <1>4 DEF Gate!Ask
    <2> QED
      BY <1>3, <2>1, GateDies
  <1>5. CASE ~Gate!Undecodable(token, route, id)
    <2>1. UNCHANGED <<serving, bootstrapUsed, cookies, member, key, sockets, shut>>
      BY <1>5 DEF Gate!Ask
    <2>2. CASE /\ Gate!Admitted(Gate!authenticate(token), route, id)
               /\ requests' = [requests EXCEPT ![p] =
                      [at |-> "reading", shape |-> route.shape, role |-> Gate!authenticate(token).role,
                       barred |-> token = "key" /\ shut, change |-> "none", left |-> Rows]]
      <3>1. PICK role : role = Gate!authenticate(token).role
        OBVIOUS
      <3>2. role # "none" /\ Gate!roleAllows(role, Gate!requiredRole(route))
        BY <2>2, <3>1 DEF Gate!Admitted, Gate!Permitted
      <3>3. role \in RolesOf /\ ~(token = "key" /\ shut)
        BY <1>1, <3>1, <3>2, GateKnows
      <3>4. PICK r : r = [at |-> "reading", shape |-> route.shape, role |-> role,
                          barred |-> token = "key" /\ shut, change |-> "none", left |-> Rows]
        OBVIOUS
      <3>5. r \in RequestRecords
        BY <3>3, <3>4, RouteAssumption DEF RequestRecords
      <3>6. Rightful(r)
        <4>1. r.shape = route.shape /\ r.role = role /\ ~r.barred
          BY <3>3, <3>4
        <4> QED
          BY <3>2, <3>3, <4>1, GateOwnersOnly DEF Rightful
      <3>7. r \in Seats
        BY <3>5, <3>6 DEF Seats
      <3>8. requests' = [requests EXCEPT ![p] = r]
        BY <2>2, <3>1, <3>4
      <3>9. Service(serving', requests', sockets')
        BY <1>1, <2>1, <3>7, <3>8 DEF Service
      <3> QED
        BY <1>1, <1>3, <2>1, <3>9 DEF GateInv
    <2>3. CASE UNCHANGED requests
      BY <1>1, <1>3, <2>1, <2>3 DEF GateInv
    <2> QED
      BY <1>2, <1>5, <2>2, <2>3 DEF Gate!Ask
  <1> QED
    BY <1>4, <1>5

\* A socket is opened, or none.
LEMMA GateOpens ==
  ASSUME GateInv, NEW s, s.barred => s.kind = "bridge",
         UNCHANGED sockets \/ sockets' = sockets \union {s}, Deeds(deed'),
         UNCHANGED <<serving, bootstrapUsed, cookies, member, key, requests, shut>>
  PROVE  GateInv'
  <1>1. /\ Service(serving, requests, sockets) /\ Team(member, key, shut) /\ Link(bootstrapUsed, cookies)
    BY DEF GateInv
  <1>2. Service(serving', requests', sockets')
    BY <1>1 DEF Service
  <1> QED
    BY <1>1, <1>2 DEF GateInv

LEMMA GateUpgrade ==
  ASSUME GateInv, NEW token, NEW id, Gate!Upgrade(token, id)
  PROVE  GateInv'
  <1> DEFINE identity == Gate!authenticate(token)
             Throws == token = "malformed" \/ (Gate!Permitted(identity, "operator") /\ id = "malformed")
             Enters == Gate!Permitted(identity, "operator") /\ Gate!canAccessResource(identity, id)
  <1>1. Team(member, key, shut) /\ Deeds(deed')
    BY DEF GateInv, Deeds, Gate!Upgrade, Gate!Nothing
  <1>2. CASE Throws
    <2>1. Gate!Dies(Gate!UnderWay)
      BY <1>2 DEF Gate!Upgrade
    <2> QED
      BY <1>1, <2>1, GateDies
  <1>3. CASE ~Throws
    <2>1. UNCHANGED <<serving, bootstrapUsed, cookies, member, key, requests, shut>>
      BY <1>3 DEF Gate!Upgrade
    <2>2. PICK s : s = [kind |-> "automation", role |-> identity.role, barred |-> token = "key" /\ shut]
      OBVIOUS
    <2>3. CASE Enters
      <3>1. ~(token = "key" /\ shut)
        BY <1>1, <2>3, GateKnows DEF Gate!Permitted
      <3>2. ~s.barred /\ sockets' = sockets \union {s}
        BY <1>3, <2>2, <2>3, <3>1 DEF Gate!Upgrade
      <3> QED
        BY <1>1, <2>1, <3>2, GateOpens
    <2>4. CASE ~Enters
      <3>1. UNCHANGED sockets
        BY <1>3, <2>4 DEF Gate!Upgrade
      <3>2. PICK b : b = [kind |-> "bridge", barred |-> FALSE]
        OBVIOUS
      <3>3. b.barred => b.kind = "bridge"
        BY <3>2
      <3> QED
        BY <1>1, <2>1, <3>1, <3>3, GateOpens
    <2> QED
      BY <2>3, <2>4
  <1> QED
    BY <1>2, <1>3

LEMMA GateUpgradeBridge ==
  ASSUME GateInv, NEW token, NEW id, Gate!UpgradeBridge(token, id)
  PROVE  GateInv'
  <1>1. PICK s : s = [kind |-> "bridge", role |-> "none", barred |-> token = "key" /\ shut]
    OBVIOUS
  <1>2. s.kind = "bridge"
    BY <1>1
  <1>3. UNCHANGED sockets \/ sockets' = sockets \union {s}
    BY <1>1 DEF Gate!UpgradeBridge
  <1>4. /\ Deeds(deed')
        /\ UNCHANGED <<serving, bootstrapUsed, cookies, member, key, requests, shut>>
    BY DEF Gate!UpgradeBridge, Deeds, Gate!Nothing
  <1> QED
    BY <1>2, <1>3, <1>4, GateOpens

LEMMA GateKept ==
  ASSUME GateInv, UNCHANGED gateVars
  PROVE  GateInv'
  BY DEF GateInv, gateVars

LEMMA GateStep ==
  ASSUME GateInv, Gate!GateNext
  PROVE  GateInv'
  <1>1. CASE Gate!Stop \/ Gate!Stopped \/ Gate!AskNoUrl
    BY <1>1, GateEnds, GateAskNoUrl
  <1>2. CASE \E p \in Places : Gate!Changes(p) \/ Gate!Answers(p) \/ Gate!RowDone(p) \/ Gate!Broadcasts(p)
    BY <1>2, GateChanges, GateAnswers, GateRowDone, GateBroadcasts
  <1>3. CASE \E p \in Places : Gate!Refuses(p) \/ Gate!Throws(p)
    BY <1>3, GateRefuses
  <1>4. CASE \E p \in Places : Gate!AnswersTwice(p)
    BY <1>4, GateAnswersTwice
  <1>5. CASE \E p \in Places : \/ Gate!Shows(p) \/ Gate!AssignsExtensions(p) \/ Gate!OpensPage(p)
                               \/ Gate!Interacts(p) \/ Gate!RotatesProxy(p) \/ Gate!SubmitsTask(p)
                               \/ Gate!ActsOnTasks(p) \/ Gate!Analyses(p) \/ Gate!ImportsRows(p)
                               \/ Gate!CallsBridge(p)
    BY <1>5, GateBegins DEF Gate!Shows, Gate!AssignsExtensions, Gate!OpensPage, Gate!Interacts,
          Gate!RotatesProxy, Gate!SubmitsTask, Gate!ActsOnTasks, Gate!Analyses, Gate!ImportsRows,
          Gate!CallsBridge
  <1>6. CASE \E supplied \in BOOLEAN : Gate!Bootstrap(supplied)
    BY <1>6, GateBootstrap
  <1>7. CASE \E token \in {"owner", "key", "none", "malformed"}, id \in {"mine", "other", "malformed"} :
                \/ Gate!Upgrade(token, id) \/ Gate!UpgradeBridge(token, id)
                \/ \E route \in Routes : Gate!Ask(token, route, id)
    BY <1>7, GateUpgrade, GateUpgradeBridge, GateAsk
  <1> QED
    BY <1>1, <1>2, <1>3, <1>4, <1>5, <1>6, <1>7 DEF Gate!GateNext, Gate!GateProgress

LEMMA GateInvMeans ==
  ASSUME GateInv
  PROVE  Gate!GateHolds
  <1>1. /\ Service(serving, requests, sockets) /\ Link(bootstrapUsed, cookies) /\ Deeds(deed)
    BY DEF GateInv
  <1>2. cookies <= 1
    BY <1>1 DEF Link
  <1>3. \A s \in sockets : s.barred => s.kind = "bridge"
    BY <1>1 DEF Service
  <1> QED
    BY <1>1, <1>2, <1>3 DEF Gate!GateHolds, Deeds

-----------------------------------------------------------------------------
(* Service workers.  What is known to be taken care of is there, so a worker that starts *)
(* is new to the handler and is named before it is let go; on an open connection nobody *)
(* gets past the naming without having sent it.                                       *)

Jobs == {"none", "network", "emulation", "evaluate", "release", "done"}

Lines(ph, cl, jb, wt) ==
    /\ cl \in BOOLEAN /\ wt \subseteq Cdp!Owners /\ jb \in [Workers -> Jobs]
    /\ cl => wt = {}
    /\ ph \in {"endpoint", "handshake"} => wt = {} /\ \A w \in Workers : jb[w] = "none"
Known(ph, tg, cf, wk) ==
    /\ wk \in [Workers -> {"absent", "paused", "running"}]
    /\ ph = "attach" => tg \in cf
    /\ \A w \in Workers : w \in cf => wk[w] # "absent"
\* What holds for each worker.
Attended(w, cl, jb, wt, wk, hd, nm) ==
    /\ w \in wt /\ jb[w] = "evaluate" => w \in nm
    /\ w \in hd => /\ wk[w] # "absent" /\ jb[w] # "none"
                   /\ wk[w] = "running" => w \in nm
                   /\ ~cl /\ jb[w] \in {"release", "done"} => w \in nm

CdpInv ==
    /\ Lines(phase, closed, job, waiting) /\ Known(phase, target, configured, worker)
    /\ held \subseteq Workers
    /\ \A w \in Workers : Attended(w, closed, job, waiting, worker, held, named)

LEMMA CdpInitially ==
  ASSUME Cdp!CdpInit
  PROVE  CdpInv
  <1>1. Lines(phase, closed, job, waiting)
    BY DEF Cdp!CdpInit, Lines, Jobs
  <1>2. Known(phase, target, configured, worker)
    BY DEF Cdp!CdpInit, Known
  <1>3. held \subseteq Workers /\ \A w \in Workers : Attended(w, closed, job, waiting, worker, held, named)
    BY DEF Cdp!CdpInit, Attended
  <1> QED
    BY <1>1, <1>2, <1>3 DEF CdpInv

LEMMA CdpKept ==
  ASSUME CdpInv, UNCHANGED <<phase, target, closed, job, waiting, configured, worker, held, named>>
  PROVE  CdpInv'
  BY DEF CdpInv

LEMMA CdpConnects ==
  ASSUME CdpInv, Cdp!EndpointMissing \/ Cdp!EndpointRead \/ Cdp!ConnectFails \/ Cdp!Connected \/ Cdp!Close
  PROVE  CdpInv'
  <1>1. /\ Lines(phase, closed, job, waiting) /\ Known(phase, target, configured, worker)
        /\ held \subseteq Workers /\ \A w \in Workers : Attended(w, closed, job, waiting, worker, held, named)
    BY DEF CdpInv
  <1>2. UNCHANGED <<target, job, configured, worker, held, named>>
    BY DEF Cdp!EndpointMissing, Cdp!EndpointRead, Cdp!ConnectFails, Cdp!Connected, Cdp!Close
  <1>3. Lines(phase', closed', job', waiting')
    BY <1>1, <1>2 DEF Lines, Cdp!EndpointMissing, Cdp!EndpointRead, Cdp!ConnectFails, Cdp!Connected, Cdp!Close,
          Cdp!Steps
  <1>4. Known(phase', target', configured', worker')
    BY <1>1, <1>2 DEF Known, Cdp!EndpointMissing, Cdp!EndpointRead, Cdp!ConnectFails, Cdp!Connected, Cdp!Close
  <1>5. /\ waiting' = waiting \/ waiting' = {}
        /\ closed' = closed \/ closed' = TRUE
    BY DEF Cdp!EndpointMissing, Cdp!EndpointRead, Cdp!ConnectFails, Cdp!Connected, Cdp!Close
  <1>6. \A w \in Workers : Attended(w, closed', job', waiting', worker', held', named')
    BY <1>1, <1>2, <1>5 DEF Attended
  <1> QED
    BY <1>1, <1>2, <1>3, <1>4, <1>6 DEF CdpInv

LEMMA CdpSends ==
  ASSUME CdpInv, NEW o \in Cdp!Owners, Cdp!Sends(o)
  PROVE  CdpInv'
  <1>1. /\ Lines(phase, closed, job, waiting) /\ Known(phase, target, configured, worker)
        /\ held \subseteq Workers /\ \A w \in Workers : Attended(w, closed, job, waiting, worker, held, named)
    BY DEF CdpInv
  <1>2. /\ Cdp!Stage(o) \in Cdp!Steps /\ ~closed /\ waiting' = waiting \union {o}
        /\ UNCHANGED <<phase, target, closed, job, configured, worker, held>>
    BY DEF Cdp!Sends
  <1>3. named \subseteq named'
    BY DEF Cdp!Sends
  <1>4. o \in Workers => Cdp!Stage(o) = job[o] /\ (job[o] = "evaluate" => o \in named')
    BY WorkerAssumption DEF Cdp!Sends, Cdp!Stage
  <1>5. phase \notin {"endpoint", "handshake"}
    <2>1. CASE o = Cdp!Install
      BY <1>2, <2>1 DEF Cdp!Stage, Cdp!Steps
    <2>2. CASE o \in Workers
      BY <1>1, <1>2, <1>4, <2>2 DEF Lines, Cdp!Steps
    <2> QED
      BY <2>1, <2>2 DEF Cdp!Owners
  <1>6. Lines(phase', closed', job', waiting')
    BY <1>1, <1>2, <1>5 DEF Lines
  <1>7. Known(phase', target', configured', worker')
    BY <1>1, <1>2
  <1>8. \A w \in Workers : Attended(w, closed', job', waiting', worker', held', named')
    BY <1>1, <1>2, <1>3, <1>4 DEF Attended
  <1> QED
    BY <1>1, <1>2, <1>6, <1>7, <1>8 DEF CdpInv

LEMMA NextTargetIsThere ==
  ASSUME NEW done, Cdp!NextTarget(done)
  PROVE  /\ phase' \in {"installed", "attach"}
         /\ phase' = "attach" => target' \in configured'
         /\ \A w \in configured' : w \in configured \/ (w \in Workers /\ worker[w] # "absent")
  <1>1. CASE Cdp!Unconfigured \ done = {}
    BY <1>1 DEF Cdp!NextTarget
  <1>2. CASE Cdp!Unconfigured \ done # {}
    <2>1. (CHOOSE w \in Cdp!Unconfigured \ done : TRUE) \in Cdp!Unconfigured \ done
      BY <1>2, Zenon
    <2>2. /\ phase' = "attach" /\ target' \in Cdp!Unconfigured
          /\ configured' = configured \union {target'}
      BY <1>2, <2>1 DEF Cdp!NextTarget
    <2> QED
      BY <2>2 DEF Cdp!Unconfigured
  <1> QED
    BY <1>1, <1>2

LEMMA InstallMoves ==
  ASSUME NEW ok \in BOOLEAN, Cdp!InstallGoesOn(ok)
  PROVE  /\ phase' \notin {"endpoint", "handshake"}
         /\ phase' = "attach" => target' \in configured'
         /\ \A w \in configured' : w \in configured \/ (w \in Workers /\ worker[w] # "absent")
         /\ closed' = closed \/ closed' = TRUE
  <1>1. CASE phase = "targets" /\ ok
    BY <1>1, NextTargetIsThere DEF Cdp!InstallGoesOn
  <1>2. CASE phase = "evaluate"
    BY <1>2, NextTargetIsThere DEF Cdp!InstallGoesOn
  <1>3. CASE phase = "autoattach" /\ ok
    BY <1>3 DEF Cdp!InstallGoesOn
  <1>4. CASE phase = "attach" /\ ok
    BY <1>4 DEF Cdp!InstallGoesOn
  <1>5. CASE phase = "network"
    BY <1>5 DEF Cdp!InstallGoesOn
  <1>6. CASE phase = "emulation"
    BY <1>6 DEF Cdp!InstallGoesOn
  <1>7. CASE ~(phase \in {"targets", "autoattach", "attach"} /\ ok) /\ phase \notin {"network", "emulation", "evaluate"}
    BY <1>7 DEF Cdp!InstallGoesOn
  <1> QED
    BY <1>1, <1>2, <1>3, <1>4, <1>5, <1>6, <1>7

LEMMA CdpInstallGoesOn ==
  ASSUME CdpInv, NEW ok \in BOOLEAN, Cdp!GoesOn(Cdp!Install, ok), UNCHANGED <<held, named>>
  PROVE  CdpInv'
  <1>1. /\ Lines(phase, closed, job, waiting) /\ Known(phase, target, configured, worker)
        /\ held \subseteq Workers /\ \A w \in Workers : Attended(w, closed, job, waiting, worker, held, named)
    BY DEF CdpInv
  <1>2. /\ Cdp!InstallGoesOn(ok) /\ waiting' = (IF closed' THEN {} ELSE waiting \ {Cdp!Install})
        /\ UNCHANGED <<job, worker>>
    BY DEF Cdp!GoesOn
  <1>3. /\ phase' \notin {"endpoint", "handshake"}
        /\ phase' = "attach" => target' \in configured'
        /\ \A w \in configured' : w \in configured \/ (w \in Workers /\ worker[w] # "absent")
        /\ closed' = closed \/ closed' = TRUE
    BY <1>2, InstallMoves
  <1>4. Lines(phase', closed', job', waiting')
    BY <1>1, <1>2, <1>3 DEF Lines
  <1>5. Known(phase', target', configured', worker')
    BY <1>1, <1>2, <1>3 DEF Known
  <1>6. waiting' \subseteq waiting
    BY <1>2
  <1>7. \A w \in Workers : Attended(w, closed', job', waiting', worker', held', named')
    BY <1>1, <1>2, <1>3, <1>6 DEF Attended
  <1> QED
    BY <1>1, <1>4, <1>5, <1>7 DEF CdpInv

\* A worker's job goes on: past the naming only if it was sent, or the connection is gone.
LEMMA CdpJobGoesOn ==
  ASSUME CdpInv, NEW o \in Workers, NEW ok \in BOOLEAN, Cdp!GoesOn(o, ok), UNCHANGED <<held, named>>,
         o \in waiting \/ (closed /\ job[o] \in Cdp!Steps), ok => ~closed
  PROVE  CdpInv'
  <1>1. /\ Lines(phase, closed, job, waiting) /\ Known(phase, target, configured, worker)
        /\ held \subseteq Workers /\ \A w \in Workers : Attended(w, closed, job, waiting, worker, held, named)
        /\ job \in [Workers -> Jobs] /\ worker \in [Workers -> {"absent", "paused", "running"}]
    BY DEF CdpInv, Lines, Known
  <1>2. /\ Cdp!JobGoesOn(o, ok) /\ waiting' = waiting \ {o}
        /\ worker' = (IF job[o] = "release" /\ ok THEN [worker EXCEPT ![o] = "running"] ELSE worker)
        /\ UNCHANGED <<phase, target, configured, closed>>
    BY WorkerAssumption DEF Cdp!GoesOn
  <1>3. /\ job' \in [Workers -> Jobs] /\ \A w \in Workers \ {o} : job'[w] = job[w]
        /\ job'[o] \in Jobs \ {"none"}
        /\ job'[o] \in {"release", "done"} => job[o] \notin {"network", "emulation"}
    BY <1>1, <1>2 DEF Cdp!JobGoesOn, Jobs
  <1>4. phase \notin {"endpoint", "handshake"}
    BY <1>1 DEF Lines, Cdp!Steps
  <1>5. Lines(phase', closed', job', waiting')
    BY <1>1, <1>2, <1>3, <1>4 DEF Lines
  <1>6. /\ worker' \in [Workers -> {"absent", "paused", "running"}]
        /\ \A w \in Workers \ {o} : worker'[w] = worker[w]
        /\ worker'[o] = worker[o] \/ (worker'[o] = "running" /\ job[o] = "release" /\ ~closed)
    BY <1>1, <1>2
  <1>7. Known(phase', target', configured', worker')
    BY <1>1, <1>2, <1>6 DEF Known
  <1>8. ASSUME NEW w \in Workers \ {o}
        PROVE  Attended(w, closed', job', waiting', worker', held', named')
    BY <1>1, <1>2, <1>3, <1>6 DEF Attended
  <1>9. job[o] \in {"none", "evaluate", "release", "done"} \/ job'[o] \notin {"release", "done"}
    BY <1>1, <1>3 DEF Jobs
  <1>10. Attended(o, closed', job', waiting', worker', held', named')
    <2>1. Attended(o, closed, job, waiting, worker, held, named)
      BY <1>1
    <2>2. o \notin waiting' /\ closed' = closed
      BY <1>2
    <2> QED
      BY <1>3, <1>6, <1>9, <2>1, <2>2 DEF Attended
  <1> QED
    BY <1>1, <1>5, <1>7, <1>8, <1>10 DEF CdpInv

LEMMA CdpGoesOn ==
  ASSUME CdpInv, NEW o \in Cdp!Owners, NEW ok \in BOOLEAN, Cdp!GoesOn(o, ok), UNCHANGED <<held, named>>,
         o \in waiting \/ (closed /\ Cdp!Stage(o) \in Cdp!Steps), ok => ~closed
  PROVE  CdpInv'
  <1>1. CASE o = Cdp!Install
    BY <1>1, CdpInstallGoesOn
  <1>2. CASE o \in Workers
    <2>1. Cdp!Stage(o) = job[o]
      BY <1>2, WorkerAssumption DEF Cdp!Stage
    <2> QED
      BY <1>2, <2>1, CdpJobGoesOn
  <1> QED
    BY <1>1, <1>2 DEF Cdp!Owners

LEMMA CdpSettles ==
  ASSUME CdpInv, \/ \E o \in Cdp!Owners : Cdp!CommandFails(o) \/ Cdp!Rejected(o)
                 \/ \E c \in wire : Cdp!Answer(c)
  PROVE  CdpInv'
  <1>1. waiting \subseteq Cdp!Owners /\ (closed => waiting = {})
    BY DEF CdpInv, Lines
  <1>2. ASSUME NEW o \in Cdp!Owners, Cdp!CommandFails(o)
        PROVE  CdpInv'
    BY <1>2, CdpGoesOn DEF Cdp!CommandFails
  <1>3. ASSUME NEW o \in Cdp!Owners, Cdp!Rejected(o)
        PROVE  CdpInv'
    BY <1>3, CdpGoesOn DEF Cdp!Rejected
  <1>4. ASSUME NEW c \in wire, Cdp!Answer(c)
        PROVE  CdpInv'
    <2>1. ~closed /\ UNCHANGED <<held, named>>
      BY <1>4 DEF Cdp!Answer
    <2>2. ASSUME NEW o \in waiting, Cdp!GoesOn(o, TRUE)
          PROVE  CdpInv'
      BY <1>1, <2>1, <2>2, CdpGoesOn
    <2>3. CASE UNCHANGED <<phase, target, closed, job, waiting, configured, worker, stuck>>
      BY <2>1, <2>3, CdpKept
    <2> QED
      BY <1>4, <2>2, <2>3 DEF Cdp!Answer
  <1> QED
    BY <1>2, <1>3, <1>4

LEMMA CdpWorkerStarts ==
  ASSUME CdpInv, NEW v \in Workers, Cdp!WorkerStarts(v)
  PROVE  CdpInv'
  <1>1. /\ Lines(phase, closed, job, waiting) /\ Known(phase, target, configured, worker)
        /\ held \subseteq Workers /\ \A w \in Workers : Attended(w, closed, job, waiting, worker, held, named)
        /\ job \in [Workers -> Jobs] /\ worker \in [Workers -> {"absent", "paused", "running"}]
    BY DEF CdpInv, Lines, Known
  <1>2. /\ worker[v] = "absent" /\ ~closed /\ UNCHANGED <<phase, target, closed, waiting, named>>
    BY DEF Cdp!WorkerStarts
  <1>3. v \notin configured /\ v \notin held
    BY <1>1, <1>2 DEF Known, Attended
  <1>4. CASE /\ Cdp!Listening /\ worker' = [worker EXCEPT ![v] = "paused"] /\ held' = held \union {v}
             /\ Cdp!handleAttached(v)
    <2>1. job' = [job EXCEPT ![v] = "network"] /\ configured' = configured \union {v}
      BY <1>3, <1>4 DEF Cdp!handleAttached
    <2>2. /\ job' \in [Workers -> Jobs] /\ job'[v] = "network" /\ \A w \in Workers \ {v} : job'[w] = job[w]
      BY <1>1, <2>1 DEF Jobs
    <2>3. /\ worker' \in [Workers -> {"absent", "paused", "running"}] /\ worker'[v] = "paused"
          /\ \A w \in Workers \ {v} : worker'[w] = worker[w]
      BY <1>1, <1>4
    <2>4. Lines(phase', closed', job', waiting')
      BY <1>1, <1>2, <1>4, <2>2 DEF Lines, Cdp!Listening
    <2>5. Known(phase', target', configured', worker')
      BY <1>1, <1>2, <2>1, <2>3 DEF Known
    <2>6. held' \subseteq Workers
      BY <1>1, <1>4
    <2>7. \A w \in Workers : Attended(w, closed', job', waiting', worker', held', named')
      BY <1>1, <1>2, <1>4, <2>2, <2>3 DEF Attended
    <2> QED
      BY <2>4, <2>5, <2>6, <2>7 DEF CdpInv
  <1>5. CASE worker' = [worker EXCEPT ![v] = "running"] /\ UNCHANGED <<job, configured, held>>
    <2>1. /\ worker' \in [Workers -> {"absent", "paused", "running"}] /\ worker'[v] = "running"
          /\ \A w \in Workers \ {v} : worker'[w] = worker[w]
      BY <1>1, <1>5
    <2>2. Known(phase', target', configured', worker')
      BY <1>1, <1>2, <1>5, <2>1 DEF Known
    <2>3. \A w \in Workers : Attended(w, closed', job', waiting', worker', held', named')
      BY <1>1, <1>2, <1>3, <1>5, <2>1 DEF Attended
    <2> QED
      BY <1>1, <1>2, <1>5, <2>2, <2>3 DEF CdpInv
  <1> QED
    BY <1>4, <1>5 DEF Cdp!WorkerStarts

LEMMA CdpAttachEvent ==
  ASSUME CdpInv, NEW v \in Workers, Cdp!AttachEvent(v)
  PROVE  CdpInv'
  <1>1. /\ Lines(phase, closed, job, waiting) /\ Known(phase, target, configured, worker)
        /\ held \subseteq Workers /\ \A w \in Workers : Attended(w, closed, job, waiting, worker, held, named)
        /\ job \in [Workers -> Jobs]
    BY DEF CdpInv, Lines
  <1>2. /\ phase = "attach" /\ v = target /\ job[v] = "none" /\ Cdp!handleAttached(v)
        /\ UNCHANGED <<phase, target, closed, waiting, worker, held, named>>
    BY DEF Cdp!AttachEvent
  <1>3. v \in configured /\ v \notin held
    BY <1>1, <1>2 DEF Known, Attended
  <1>4. job' = [job EXCEPT ![v] = "release"] /\ UNCHANGED configured
    BY <1>2, <1>3 DEF Cdp!handleAttached
  <1>5. /\ job' \in [Workers -> Jobs] /\ job'[v] = "release" /\ \A w \in Workers \ {v} : job'[w] = job[w]
    BY <1>1, <1>4 DEF Jobs
  <1>6. Lines(phase', closed', job', waiting')
    BY <1>1, <1>2, <1>5 DEF Lines
  <1>7. \A w \in Workers : Attended(w, closed', job', waiting', worker', held', named')
    BY <1>1, <1>2, <1>3, <1>5 DEF Attended
  <1> QED
    BY <1>1, <1>2, <1>4, <1>6, <1>7 DEF CdpInv

LEMMA CdpStep ==
  ASSUME CdpInv, Cdp!CdpNext
  PROVE  CdpInv'
  <1>1. CASE Cdp!EndpointMissing \/ Cdp!EndpointRead \/ Cdp!ConnectFails \/ Cdp!Connected \/ Cdp!Close
    BY <1>1, CdpConnects
  <1>2. CASE \E o \in Cdp!Owners : Cdp!Sends(o)
    BY <1>2, CdpSends
  <1>3. CASE \/ \E o \in Cdp!Owners : Cdp!CommandFails(o) \/ Cdp!Rejected(o)
             \/ \E c \in wire : Cdp!Answer(c)
    BY <1>3, CdpSettles
  <1>4. CASE \E w \in Workers : Cdp!WorkerStarts(w) \/ Cdp!AttachEvent(w)
    BY <1>4, CdpWorkerStarts, CdpAttachEvent
  <1> QED
    BY <1>1, <1>2, <1>3, <1>4 DEF Cdp!CdpNext, Cdp!CdpProgress

LEMMA CdpInvMeans ==
  ASSUME CdpInv
  PROVE  Cdp!IdentityFirst
  BY DEF CdpInv, Lines, Attended, Cdp!IdentityFirst

-----------------------------------------------------------------------------
(* The parts together: a step of one leaves the state of the others alone.              *)

GatewayInv == GateInv /\ ToolInv /\ FetchInv /\ CdpInv

\* The inductive invariant of the program's ways in and out, one conjunct per part, holds
\* in every state that handleRequest, handleToolCall, fetchPage and
\* installManagedServiceWorkerIdentity can reach, for every configuration.
THEOREM Invariance == Spec => []GatewayInv
  <1>1. Init => GatewayInv
    BY GateInitially, ToolInitially, FetchInitially, CdpInitially DEF Init, GatewayInv
  <1>2. GatewayInv /\ [Next]_vars => GatewayInv'
    <2> SUFFICES ASSUME GatewayInv, [Next]_vars
                 PROVE  GatewayInv'
      OBVIOUS
    <2>0. GateInv /\ ToolInv /\ FetchInv /\ CdpInv
      BY DEF GatewayInv
    <2>1. UNCHANGED gateVars => GateInv'
      BY <2>0, GateKept
    <2>2. UNCHANGED toolVars => ToolInv'
      BY <2>0, ToolKept DEF toolVars
    <2>3. UNCHANGED fetchVars => FetchInv'
      BY <2>0, FetchKept DEF fetchVars
    <2>4. UNCHANGED cdpVars => CdpInv'
      BY <2>0, CdpKept DEF cdpVars
    <2>5. CASE OnlyGate /\ Gate!GateNext
      BY <2>0, <2>2, <2>3, <2>4, <2>5, GateStep DEF OnlyGate, GatewayInv
    <2>6. CASE OnlyTools /\ Tool!ToolNext
      BY <2>0, <2>1, <2>3, <2>4, <2>6, ToolStep DEF OnlyTools, GatewayInv
    <2>7. CASE OnlyFetch /\ Fetcher!FetchNext
      BY <2>0, <2>1, <2>2, <2>4, <2>7, FetchStep DEF OnlyFetch, GatewayInv
    <2>8. CASE OnlyInput /\ Input!InputNext
      BY <2>1, <2>2, <2>3, <2>4, <2>8 DEF OnlyInput, GatewayInv
    <2>9. CASE OnlyCdp /\ Cdp!CdpNext
      BY <2>0, <2>1, <2>2, <2>3, <2>9, CdpStep DEF OnlyCdp, GatewayInv
    <2>10. CASE UNCHANGED vars
      BY <2>1, <2>2, <2>3, <2>4, <2>10 DEF vars, GatewayInv
    <2> QED
      BY <2>5, <2>6, <2>7, <2>8, <2>9, <2>10 DEF Next
  <1> QED
    BY <1>1, <1>2, PTL DEF Spec

\* handleToolCall and handleRequest: nothing is done for a tool call that was not recorded,
\* whose tenant may not do it or whose session is not the agent's by then, and nothing
\* for a studio request with a key its owner was told is out, nor is an automation socket
\* opened for one (a bridge's socket is anybody's), however many calls and requests are
\* under way and whenever the session, the member or the key turns.
THEOREM CallsAreGuarded == Spec => []CallsGuarded
  <1>1. GatewayInv => CallsGuarded
    BY ToolInvMeans, GateInvMeans DEF GatewayInv, CallsGuarded
  <1> QED
    BY <1>1, Invariance, PTL

\* McpRuntimeGuard: for every burst, cost and rate, and however the clock is set, the
\* bucket lets no more calls through than its burst and the time that passed, and each
\* call of a tool there is is counted exactly once.
THEOREM RateIsBounded == Spec => []RateBounded
  <1>1. GatewayInv => RateBounded
    BY ToolInvMeans DEF GatewayInv
  <1> QED
    BY <1>1, Invariance, PTL

\* UrlPolicy and fetchPage: whatever the names resolve to and wherever the redirects lead,
\* no connection is made to an address of a protected block under a policy that does not
\* permit it, and the verdict on a literal address is the one its block deserves.
THEOREM FetchesStayOut == Spec => []FetchStaysOut
  <1>1. GatewayInv => FetchStaysOut
    BY FetchInvMeans DEF GatewayInv
  <1> QED
    BY <1>1, Invariance, PTL

\* installManagedServiceWorkerIdentity and RawCdpConnection: no service worker that was held
\* runs before its identity was sent to it, and a closed connection leaves nobody waiting,
\* for every number of workers, of failures and of late answers.
THEOREM WorkersAreNamed == Spec => []Cdp!IdentityFirst
  <1>1. GatewayInv => Cdp!IdentityFirst
    BY CdpInvMeans DEF GatewayInv
  <1> QED
    BY <1>1, Invariance, PTL

=============================================================================
