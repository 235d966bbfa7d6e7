--------------------------- MODULE MCReplicaServer ---------------------------
(* Instances of ReplicaServer for TLC. *)
EXTENDS ReplicaServer, TLC

CONSTANTS p1, p2

LoadBoth == [t \in Preloads |-> <<p1, p2>>]
=============================================================================
