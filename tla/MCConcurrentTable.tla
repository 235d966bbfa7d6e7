--------------------------- MODULE MCConcurrentTable ---------------------------
(* Instances of ConcurrentTable for TLC: one client, two replicas, of      *)
(* which rNear is the nearer, but less than twice as near: two results for *)
(* rNear add up to more than one for rFar.                                 *)
EXTENDS ConcurrentTable, TLC

CONSTANTS c1, rNear, rFar

MCLatency == [c \in Clients |-> [r \in Replicas |-> IF r = rNear THEN 2 ELSE 3]]

(* Two updaters differ in nothing but their names. *)
Interchangeable == Permutations(Updaters)
=============================================================================
