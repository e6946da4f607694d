------------------------------- MODULE StudioMC -------------------------------
(* Studio on a small instance: two requests at a time.  Two records per store, of  *)
(* which the team has a member and its key.  Two profile ids of which one begins    *)
(* like the other ("p" and "p--x").                                                *)
EXTENDS Studio, TLC

CONSTANTS user, key1, p1, p2, c1, c2, s1, s2

Bounds(kind) == [kind |-> kind, calls |-> 3, uses |-> IF kind = "team" THEN 1 ELSE 0,
                 faults |-> 1, crashes |-> 1]
\* Two imports at once give two extensions, of which a launch takes both and a removal one.
Launches == [kind |-> "extensions", calls |-> 4, uses |-> 0, faults |-> 0, crashes |-> 0]
MCStores == {Bounds("proxies"), Bounds("team"), Bounds("extensions"), Launches}

MCBegins == (p1 :> {p1, p2}) @@ (p2 :> {p2})
=============================================================================
