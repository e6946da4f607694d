--------------------------- MODULE WorkerClusterMC ----------------------------
(* Instances of WorkerCluster for TLC. *)
EXTENDS WorkerCluster, TLC

CONSTANTS t1, t2, u1

OneTask == {t1}
TwoTasks == {t1, t2}
SameUrl == [t \in Tasks |-> u1]
TaskOrder == [t \in Tasks |-> IF t = t1 THEN 1 ELSE 2]

=============================================================================
