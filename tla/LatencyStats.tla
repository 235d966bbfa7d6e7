----------------------------- MODULE LatencyStats -----------------------------
(***************************************************************************)
(* What update_latency of dnsserver.py is meant to do: a ping result       *)
(* counts once and at once.  The statistics of a client and a replica are  *)
(* the number of results and the sum of their latencies; a result changes  *)
(* both together, and nothing else changes either.                         *)
(***************************************************************************)
EXTENDS Naturals

CONSTANTS Clients, Replicas, Latency

VARIABLE stat   \* stat[c][r]: sum and samples of the results for c at r

Init ==
  stat = [c \in Clients |-> [r \in Replicas |-> [sum |-> 0, samples |-> 0]]]

Record(c, r) ==
  stat' = [stat EXCEPT ![c][r] = [sum |-> @.sum + Latency[c][r],
                                  samples |-> @.samples + 1]]

Next == \E c \in Clients, r \in Replicas : Record(c, r)

Spec == Init /\ [][Next]_stat
=============================================================================
