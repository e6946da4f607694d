------------------------------- MODULE ControlMC -------------------------------
(* Control on a small instance: one session, with either retention. *)
EXTENDS Control

CONSTANTS i1, t1

MCPlain == { [profile |-> None, tenant |-> t1, retention |-> r, handoffs |-> 2] :
             r \in {"retain", "destroy"} }

=============================================================================
