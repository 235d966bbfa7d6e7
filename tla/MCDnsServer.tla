----------------------------- MODULE MCDnsServer -----------------------------
(* Instances of DnsServer for TLC.  The client c0 is one of CLIENTS in the *)
(* source, c1 is new; rFar is not the replica closest to either.           *)
EXTENDS DnsServer, TLC

CONSTANTS c0, c1, rNear, rFar

MCLatency == [c \in Clients |-> [r \in Replicas |-> IF r = rNear THEN 2 ELSE 3]]
MCClosest == [c \in Clients |-> rNear]
MCFromNew == [q \in Queries |-> c1]
OneReplica == <<rNear>>
NearFirst == <<rNear, rFar>>
FarFirst == <<rFar, rNear>>

(* Two queries of one client differ in nothing but their threads. *)
Interchangeable == Permutations(Queries)
=============================================================================
