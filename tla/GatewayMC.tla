------------------------------- MODULE GatewayMC -------------------------------
(* Gateway on a small instance: one route of every kind, two requests or calls at a  *)
(* time; sites of which one is beyond the wildcard and one is the machine itself,     *)
(* with names that change their addresses; and single addresses on both sides of      *)
(* every edge of every protected range.                                               *)
EXTENDS Gateway, Integers, TLC

Route(path, method, kind, shape) == [path |-> path, method |-> method, kind |-> kind, shape |-> shape]
MCRoutes ==
    {Route({"auth"}, "GET", "none", "reads"), Route({"profiles"}, "PUT", "profile", "assigns"),
     Route({"profiles"}, "GET", "profile", "reads"), Route({"navigate"}, "POST", "none", "opens"),
     Route({"interact"}, "POST", "none", "interacts"),
     Route({"profiles"}, "POST", "profile", "rotates"), Route({"bridge"}, "POST", "none", "bridge"),
     Route({"cluster/tasks"}, "POST", "none", "submits"), Route({"ai"}, "POST", "none", "analyses"),
     Route({"cluster/tasks/actions"}, "POST", "none", "each"),
     Route({"profiles"}, "POST", "none", "rows"), Route({"broadcast"}, "POST", "none", "broadcast"),
     Route({"team"}, "PUT", "none", "member"), Route({"team"}, "POST", "none", "revoke")}

Request(tool, key_, sound) == [tool |-> tool, key |-> key_, sound |-> sound]
MCRequests ==
    {Request("page_click", "full", TRUE), Request("page_open", "reader", TRUE),
     Request("browser_handoff", "reader", TRUE), Request("browser_takeover", "reader", TRUE),
     Request("cluster_submit_task", "reader", TRUE), Request("page_click", "full", FALSE),
     Request("no_such_tool", "full", TRUE)}

-----------------------------------------------------------------------------
Site == <<"shop">>
Www == <<"www", "shop">>
Deep == <<"a", "www", "shop">>
Host == <<"localhost">>
MCNames == {Www, Deep, Host}
MCHosts == {[wild |-> TRUE, labels |-> Site], [wild |-> FALSE, labels |-> Host]}
MCReserved == Host :> "loopback"

Public == <<93, 184, 216, 34>>
Private == <<10, 0, 0, 1>>
MCAnswers == {<<Public>>, <<Public, Private>>, <<Private>>, <<>>}
MCStart == <<Public>>

Networks == INSTANCE AddressClasses

\* The neighbours of an address.
Top(a) == IF Len(a) = 4 THEN 255 ELSE 65535
Neighbour(a, turn, over, by) ==
    LET places == {i \in DOMAIN a : a[i] # turn /\ \A j \in i + 1 .. Len(a) : a[j] = turn}
        k == CHOOSE i \in places : TRUE
    IN  IF places = {} THEN a
        ELSE [i \in DOMAIN a |-> IF i < k THEN a[i] ELSE IF i = k THEN a[i] + by ELSE over]
After(a) == Neighbour(a, Top(a), 0, 1)
Before(a) == Neighbour(a, 0, Top(a), -1)
Mapped(a) == <<0, 0, 0, 0, 0, 65535, a[1] * 256 + a[2], a[3] * 256 + a[4]>>

Edges == UNION {{b.lo, Before(b.lo), b.hi, After(b.hi)} : b \in Networks!ProtectedBlocks}
    \union {Mapped(<<169, 254, 169, 254>>), Mapped(<<198, 18, 0, 0>>), Mapped(<<8, 8, 8, 8>>)}

At(name) == [scheme |-> "https", name |-> name, address |-> <<>>]
Direct(a) == [scheme |-> "https", name |-> <<>>, address |-> a]
MCPages == {At(name) : name \in MCNames}
    \union {[At(Www) EXCEPT !.scheme = "http"], Direct(<<169, 254, 169, 254>>)}
MCProbes == {Direct(a) : a \in Edges}

Policy(http, private, synthetic, of, n) ==
    [http |-> http, private |-> private, synthetic |-> synthetic, of |-> of, redirects |-> n,
     rebinds |-> n, ticks |-> n]
MCPolicies ==
    {Policy(FALSE, FALSE, FALSE, "sites", 2), Policy(TRUE, TRUE, FALSE, "sites", 1),
     Policy(FALSE, FALSE, TRUE, "addresses", 0), Policy(FALSE, TRUE, FALSE, "addresses", 0),
     Policy(FALSE, FALSE, FALSE, "addresses", 0)}
=============================================================================
