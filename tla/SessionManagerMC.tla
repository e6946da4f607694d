---------------------------- MODULE SessionManagerMC ----------------------------
(***************************************************************************)
(* Model checking of SessionManager: the start options each run offers.    *)
(***************************************************************************)
EXTENDS SessionManager

CONSTANTS i1, i2, p1, t1

\* Two sessions compete for a saved profile, or one of them has none.
Request(profile, retention, n) ==
    [profile |-> profile, tenant |-> t1, retention |-> retention, handoffs |-> n]
MCRequests == { Request(p1, "retain", 1), Request(p1, "destroy", 0), Request(None, "destroy", 0) }

Symmetry == Permutations(Ids)
=============================================================================
