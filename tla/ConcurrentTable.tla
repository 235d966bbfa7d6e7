---------------------------- MODULE ConcurrentTable ----------------------------
(***************************************************************************)
(* Threads of the DNS server at work on the routing table, and nothing     *)
(* else: updaters run update_latency for ping results in any order (the    *)
(* ping thread is one; so is each query thread of a client the table does  *)
(* not know), readers take the minimum of a row (query threads of clients  *)
(* it knows).  A thread may be both, one after the other.                  *)
(***************************************************************************)
EXTENDS RoutingTable, FiniteSets

CONSTANTS
  Updaters, Readers,
  MaxCalls    \* bound: update_latency calls of one updater

ASSUME ThreadAssumption ==
  /\ Threads = Updaters \cup Readers
  /\ MaxCalls \in Nat

VARIABLES
  calls,      \* calls[t]: update_latency calls thread t has made
  stored,     \* history: the stores to the "sum" and "samples" of c and r
  asked,      \* history: asked[t], the client of t's last min(...)
  disturbed   \* history: threads whose last min(...) has seen another
              \* thread at work on the table, before it or during it

vars == <<row, bound, rec, at, stmt, arg, hdRow, hdRec, val, iter, outcome,
          calls, stored, asked, disturbed>>

TypeOK ==
  /\ RTTypeOK /\ RefInv
  /\ calls \in [Threads -> Nat]
  /\ stored \in [Clients \X Replicas -> [sum: Nat, samples: Nat]]
  /\ asked \in [Threads -> Clients \cup {NoRef}]
  /\ disturbed \in SUBSET Threads

Init ==
  /\ RTInit
  /\ calls = [t \in Threads |-> 0]
  /\ stored = [cr \in Clients \X Replicas |-> [sum |-> 0, samples |-> 0]]
  /\ asked = [t \in Threads |-> NoRef]
  /\ disturbed = {}

(* No thread is inside update_latency for client c, nor inside a min(...)  *)
(* that one has overlapped: it may have the keys of a row that was         *)
(* replaced, and create a record when it looks one of them up in the new.  *)
Settled(c) ==
  /\ \A t \in Threads, r \in Replicas : ~ Updating(t, c, r)
  /\ \A t \in disturbed : Iterating(t) => asked[t] # c

Update(t) ==
  /\ t \in Updaters
  /\ calls[t] < MaxCalls
  /\ \E c \in Clients, r \in Replicas : UpdateLatency(t, c, r)
  /\ calls' = [calls EXCEPT ![t] = @ + 1]
  /\ disturbed' = Threads
  /\ UNCHANGED <<stored, asked>>

Resolve(t) ==
  /\ t \in Readers
  /\ \E c \in Clients :
       /\ BestReplica(t, c)
       /\ asked' = [asked EXCEPT ![t] = c]
       /\ disturbed' = IF Settled(c) THEN disturbed \ {t} ELSE disturbed \cup {t}
  /\ UNCHANGED <<calls, stored>>

(* Thread t is about to store field s. *)
Storing(t, s) == at[t] = "got" /\ stmt[t] = s

Step(t) ==
  /\ TableStep(t)
  /\ stored' = CASE Storing(t, "sum") -> [stored EXCEPT ![arg[t]].sum = @ + 1]
                 [] Storing(t, "samples") -> [stored EXCEPT ![arg[t]].samples = @ + 1]
                 [] OTHER -> stored
  /\ UNCHANGED <<calls, asked, disturbed>>

Next == \E t \in Threads : Update(t) \/ Resolve(t) \/ Step(t)

Spec == Init /\ [][Next]_vars

-----------------------------------------------------------------------------
(* Threads race for the table, but a race can only lose what a ping result *)
(* contributed, never count it twice: no record that can still be reached  *)
(* holds more samples, or a larger sum, than the update_latency calls for  *)
(* its client and replica have stored (dnsserver.py:166, 171).             *)
NeverOvercounts ==
  \A c \in Clients : \A r \in Measured(c) :
    /\ Entry(c, r).samples <= stored[<<c, r>>].samples
    /\ Entry(c, r).sum <= stored[<<c, r>>].sum * Latency[c][r]

(* A min(...) that no update_latency overlaps computes what resolve means  *)
(* (dnsserver.py:109-113): the replica of the row with the lowest average, *)
(* and it raises only for a row without keys or a record without samples.  *)
UndisturbedIsSequential ==
  \A t \in Threads \ disturbed :
    LET c == asked[t] IN
    /\ outcome[t] \in Replicas =>
         /\ outcome[t] \in Measured(c)
         /\ \A r \in Measured(c) :
              Entry(c, outcome[t]).sum * Entry(c, r).samples
                <= Entry(c, r).sum * Entry(c, outcome[t]).samples
    /\ outcome[t] = "ValueError" => Measured(c) = {}
    /\ outcome[t] = "ZeroDivisionError" =>
         \E r \in Measured(c) : Entry(c, r).samples = 0
    /\ outcome[t] # "RuntimeError"

-----------------------------------------------------------------------------
(* The ping thread alone updates the table while every client that asks is *)
(* known already.  Then no contribution is lost: each record is exact, and *)
(* between the store of its sum and the store of its samples it is ahead   *)
(* by the one result in progress.                                          *)
SoleUpdaterExact ==
  \A c \in Clients : \A r \in Measured(c) :
    Entry(c, r).sum = Latency[c][r] *
      (Entry(c, r).samples
        + IF \E t \in Updaters : Updating(t, c, r) /\ stmt[t] # "sum"
            THEN 1 ELSE 0)

(* With one updater a record without samples, which makes every resolve of *)
(* its client fail, belongs to the result in progress: it does not stay.   *)
HalfRecordsAreTransient ==
  \A c \in Clients : \A r \in Measured(c) :
    Entry(c, r).samples = 0 => \E t \in Updaters : Updating(t, c, r)

(* The result in progress, if any, counts when its samples are stored. *)
CommittedStat ==
  [c \in Clients |-> [r \in Replicas |->
     IF r \notin Measured(c) THEN [sum |-> 0, samples |-> 0]
     ELSE IF \E t \in Updaters : Updating(t, c, r) /\ stmt[t] # "sum"
     THEN [Entry(c, r) EXCEPT !.sum = @ - Latency[c][r]]
     ELSE Entry(c, r)]]

(* With one updater the table implements LatencyStats: its three separate  *)
(* statements are one atomic step of the statistics.                       *)
Stats == INSTANCE LatencyStats WITH stat <- CommittedStat
StatsSpec == Stats!Spec

-----------------------------------------------------------------------------
(* README.md:21 "... a batch update of clients latency between mutliple    *)
(* replica servers is calculated and the best replica server is assigned": *)
(* when no update is in progress, from before the resolve to its end, the  *)
(* replica it returns is, of those measured, the one nearest the client.   *)
BestReplicaAssigned ==
  \A t \in Threads \ disturbed :
    outcome[t] \in Replicas =>
      \A r \in Measured(asked[t]) :
        Latency[asked[t]][outcome[t]] <= Latency[asked[t]][r]
=============================================================================
