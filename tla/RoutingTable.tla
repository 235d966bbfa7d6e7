----------------------------- MODULE RoutingTable -----------------------------
(***************************************************************************)
(* CLIENT_REPLICA_ROUTING_TABLE of dnsserver.py, and the two pieces of     *)
(* code that use it: update_latency, which adds one ping result to it, and *)
(* the min(..., key=avg) of resolve, which reads the best replica from it. *)
(*                                                                         *)
(* The table is a defaultdict of defaultdicts shared by every thread of    *)
(* the process, with no lock.  The interpreter may switch threads between  *)
(* any two bytecodes and whenever a default factory (a Python lambda)      *)
(* runs, so the actions below are the pieces between which another thread  *)
(* can be seen to run:                                                     *)
(*   Outer    look up TABLE[client]; a miss enters the outer factory       *)
(*   MakeRow  the factory returned: bind a new, empty row, even when some  *)
(*            other thread has bound one in the meantime                   *)
(*   Inner    look up [replica] in the row found; a miss enters the inner  *)
(*            factory                                                      *)
(*   MakeRec  the factory returned: bind a new record of zeros             *)
(*   Read     read a field of the record                                   *)
(*   Store    write the field back, into the record found before           *)
(* Every statement of update_latency, and every term of avg, goes through  *)
(* these lookups again.  A thread holds references: a row or a record that *)
(* was replaced while the thread held it is still written, and lost.       *)
(*                                                                         *)
(* Rows and records are named after the thread that made them.  A thread   *)
(* makes at most one row per client and one record per row and replica,    *)
(* because a bound key never becomes unbound (nothing deletes from the     *)
(* table), so the names are fresh.                                         *)
(*                                                                         *)
(* "min" and "max" are written and never read in the program: their values *)
(* are left out and their four lookups, which may create the row and the   *)
(* record, are one pass through Outer and Inner ("minmax").                *)
(***************************************************************************)
EXTENDS Naturals

CONSTANTS
  Clients,    \* client addresses, the "dst" of a ping result
  Replicas,   \* replica addresses, its "src"
  Threads,    \* threads of the DNS server that use the table
  Latency,    \* Latency[c][r]: the average rtt scamper reports for c at r
  NoRef       \* the value of an unbound key or an empty local variable

RowId == Clients \X Threads
RecId == Clients \X Threads \X Replicas \X Threads

Statements == {"sum", "minmax", "samples", "avgsum", "avgsamples"}

(* Exceptions the min(...) of resolve can raise. *)
Errors == {"ValueError", "RuntimeError", "ZeroDivisionError"}

ASSUME TableAssumption ==
  /\ Clients # {} /\ Replicas # {}
  /\ Latency \in [Clients -> [Replicas -> Nat \ {0}]]
  /\ NoRef \notin RowId \cup RecId \cup Replicas
  /\ Errors \cap (Replicas \cup {NoRef}) = {}

VARIABLES
  row,      \* row[c]: the inner defaultdict bound to TABLE[c]
  bound,    \* bound[d][r]: the record bound to key r of the inner dict d
  rec,      \* rec[e]: the "sum" and "samples" of record e
  at,       \* at[t]: where thread t is in its current table operation
  stmt,     \* stmt[t]: the statement or term it executes
  arg,      \* arg[t]: the client and the replica it looks up
  hdRow,    \* hdRow[t]: the inner dict it holds a reference to
  hdRec,    \* hdRec[t]: the record it holds a reference to
  val,      \* val[t]: the field it read from that record
  iter,     \* iter[t]: its iteration over the keys of a row
  outcome   \* outcome[t]: what its last min(...) returned or raised

tableVars == <<row, bound, rec>>
localVars == <<at, stmt, arg, hdRow, hdRec, val, iter, outcome>>
rtVars == <<row, bound, rec, at, stmt, arg, hdRow, hdRec, val, iter, outcome>>

NoIter == [dict |-> NoRef, keys |-> {}, todo |-> {}, sum |-> 0,
           best |-> NoRef, bestSum |-> 0, bestSamples |-> 1]

Iter == [dict: RowId \cup {NoRef}, keys: SUBSET Replicas, todo: SUBSET Replicas,
         sum: Nat, best: Replicas \cup {NoRef},
         bestSum: Nat, bestSamples: Nat \ {0}]

RTTypeOK ==
  /\ row \in [Clients -> RowId \cup {NoRef}]
  /\ bound \in [RowId -> [Replicas -> RecId \cup {NoRef}]]
  /\ rec \in [RecId -> [sum: Nat, samples: Nat]]
  /\ at \in [Threads -> {"idle", "outer", "mkrow", "inner", "mkrec", "read",
                     "got", "iter", "next"}]
  /\ stmt \in [Threads -> Statements]
  /\ arg \in [Threads -> Clients \X Replicas]
  /\ hdRow \in [Threads -> RowId \cup {NoRef}]
  /\ hdRec \in [Threads -> RecId \cup {NoRef}]
  /\ val \in [Threads -> Nat]
  /\ iter \in [Threads -> Iter]
  /\ outcome \in [Threads -> Replicas \cup {NoRef} \cup Errors]

(* What the inner factory returns, and how it could be mistaken: a sum    *)
(* that starts at the -1 of "max", and a count that starts at 1.           *)
SumFromMinusOne == [sum |-> 0 - 1, samples |-> 0]
CountFromOne == [sum |-> 0, samples |-> 1]

ZeroRecord == [sum |-> 0, samples |-> 0]

RTInit ==
  /\ row = [c \in Clients |-> NoRef]
  /\ bound = [d \in RowId |-> [r \in Replicas |-> NoRef]]
  /\ rec = [e \in RecId |-> ZeroRecord]
  /\ at = [t \in Threads |-> "idle"]
  /\ stmt = [t \in Threads |-> "sum"]
  /\ arg = [t \in Threads |-> CHOOSE cr \in Clients \X Replicas : TRUE]
  /\ hdRow = [t \in Threads |-> NoRef]
  /\ hdRec = [t \in Threads |-> NoRef]
  /\ val = [t \in Threads |-> 0]
  /\ iter = [t \in Threads |-> NoIter]
  /\ outcome = [t \in Threads |-> NoRef]

-----------------------------------------------------------------------------
(* The table as another thread sees it. *)

Keys(d) == {r \in Replicas : bound[d][r] # NoRef}

InTable(c) == row[c] # NoRef

(* The replicas TABLE[c] has a record for, and that record. *)
Measured(c) == IF InTable(c) THEN Keys(row[c]) ELSE {}
Entry(c, r) == rec[bound[row[c]][r]]

(* Mistaken orders of two averages: by the sum alone, and the wrong way. *)
SmallerSum(sum1, samples1, sum2, samples2) == sum1 < sum2
Above(sum1, samples1, sum2, samples2) == sum1 * samples2 > sum2 * samples1

(* The first average is below the second, each as the sum and samples of a *)
(* record.                                                                 *)
Below(sum1, samples1, sum2, samples2) == sum1 * samples2 < sum2 * samples1

-----------------------------------------------------------------------------
(* The lookup TABLE[c][r][field], one statement at a time. *)

Field(e, s) == CASE s \in {"sum", "avgsum"} -> rec[e].sum
                 [] s \in {"samples", "avgsamples"} -> rec[e].samples
                 [] OTHER -> 0

Execute(t, s, c, r) ==
  /\ at' = [at EXCEPT ![t] = "outer"]
  /\ stmt' = [stmt EXCEPT ![t] = s]
  /\ arg' = [arg EXCEPT ![t] = <<c, r>>]

Outer(t) ==
  LET c == arg[t][1] IN
  /\ at[t] = "outer"
  /\ at' = [at EXCEPT ![t] = IF InTable(c) THEN "inner" ELSE "mkrow"]
  /\ hdRow' = [hdRow EXCEPT ![t] = row[c]]
  /\ UNCHANGED <<row, bound, rec, stmt, arg, hdRec, val, iter, outcome>>

MakeRow(t) ==
  LET c == arg[t][1] IN
  /\ at[t] = "mkrow"
  /\ row' = [row EXCEPT ![c] = <<c, t>>]
  /\ hdRow' = [hdRow EXCEPT ![t] = <<c, t>>]
  /\ at' = [at EXCEPT ![t] = "inner"]
  /\ UNCHANGED <<bound, rec, stmt, arg, hdRec, val, iter, outcome>>

Inner(t) ==
  LET e == bound[hdRow[t]][arg[t][2]] IN
  /\ at[t] = "inner"
  /\ at' = [at EXCEPT ![t] = IF e # NoRef THEN "read" ELSE "mkrec"]
  /\ hdRec' = [hdRec EXCEPT ![t] = e]
  /\ UNCHANGED <<row, bound, rec, stmt, arg, hdRow, val, iter, outcome>>

MakeRec(t) ==
  LET d == hdRow[t]
      r == arg[t][2]
      e == <<d[1], d[2], r, t>> IN
  /\ at[t] = "mkrec"
  /\ bound' = [bound EXCEPT ![d][r] = e]
  /\ hdRec' = [hdRec EXCEPT ![t] = e]
  /\ at' = [at EXCEPT ![t] = "read"]
  /\ UNCHANGED <<row, rec, stmt, arg, hdRow, val, iter, outcome>>

Read(t) ==
  /\ at[t] = "read"
  /\ val' = [val EXCEPT ![t] = Field(hdRec[t], stmt[t])]
  /\ at' = [at EXCEPT ![t] = "got"]
  /\ UNCHANGED <<row, bound, rec, stmt, arg, hdRow, hdRec, iter, outcome>>

(* The references of a statement die with it. *)
Release(t) ==
  /\ hdRow' = [hdRow EXCEPT ![t] = NoRef]
  /\ hdRec' = [hdRec EXCEPT ![t] = NoRef]
  /\ val' = [val EXCEPT ![t] = 0]

-----------------------------------------------------------------------------
(* update_latency for an output of type "ping" that has an average: three  *)
(* statements, each of which looks the record up again.                    *)

UpdateLatency(t, c, r) ==
  /\ at[t] = "idle"
  /\ Execute(t, "sum", c, r)
  /\ UNCHANGED <<row, bound, rec, hdRow, hdRec, val, iter, outcome>>

(* Mistaken: the latency replaces the sum. *)
AssignSum(t) ==
  /\ at[t] = "got" /\ stmt[t] = "sum"
  /\ rec' = [rec EXCEPT ![hdRec[t]].sum = Latency[arg[t][1]][arg[t][2]]]
  /\ Execute(t, "minmax", arg[t][1], arg[t][2])
  /\ Release(t)
  /\ UNCHANGED <<row, bound, iter, outcome>>

StoreSum(t) ==
  LET c == arg[t][1]
      r == arg[t][2] IN
  /\ at[t] = "got" /\ stmt[t] = "sum"
  /\ rec' = [rec EXCEPT ![hdRec[t]].sum = val[t] + Latency[c][r]]
  /\ Execute(t, "minmax", c, r)
  /\ Release(t)
  /\ UNCHANGED <<row, bound, iter, outcome>>

(* Mistaken: the result is not counted. *)
ForgetSamples(t) ==
  /\ at[t] = "got" /\ stmt[t] = "minmax"
  /\ at' = [at EXCEPT ![t] = "idle"]
  /\ Release(t)
  /\ UNCHANGED <<row, bound, rec, stmt, arg, iter, outcome>>

StoreMinMax(t) ==
  /\ at[t] = "got" /\ stmt[t] = "minmax"
  /\ Execute(t, "samples", arg[t][1], arg[t][2])
  /\ Release(t)
  /\ UNCHANGED <<row, bound, rec, iter, outcome>>

StoreSamples(t) ==
  /\ at[t] = "got" /\ stmt[t] = "samples"
  /\ rec' = [rec EXCEPT ![hdRec[t]].samples = val[t] + 1]
  /\ at' = [at EXCEPT ![t] = "idle"]
  /\ Release(t)
  /\ UNCHANGED <<row, bound, stmt, arg, iter, outcome>>

-----------------------------------------------------------------------------
(* min(TABLE[c], key=avg) of resolve.  The iterator belongs to the row     *)
(* looked up when the call was set up; avg looks TABLE[c] up afresh.       *)
(* Python raises RuntimeError at the next key when the dict has grown      *)
(* since the iterator was created, and ValueError for the minimum of no    *)
(* keys.  The order of the keys is abstracted: any order may be the order  *)
(* of insertion.                                                           *)

BestReplica(t, c) ==
  /\ at[t] = "idle"
  /\ InTable(c)
  /\ at' = [at EXCEPT ![t] = "iter"]
  /\ iter' = [iter EXCEPT ![t] = [NoIter EXCEPT !.dict = row[c]]]
  /\ outcome' = [outcome EXCEPT ![t] = NoRef]
  /\ UNCHANGED <<row, bound, rec, stmt, arg, hdRow, hdRec, val>>

Iterate(t) ==
  LET keys == Keys(iter[t].dict) IN
  /\ at[t] = "iter"
  /\ at' = [at EXCEPT ![t] = "next"]
  /\ iter' = [iter EXCEPT ![t].keys = keys, ![t].todo = keys]
  /\ UNCHANGED <<row, bound, rec, stmt, arg, hdRow, hdRec, val, outcome>>

Finish(t, result) ==
  /\ at' = [at EXCEPT ![t] = "idle"]
  /\ iter' = [iter EXCEPT ![t] = NoIter]
  /\ outcome' = [outcome EXCEPT ![t] = result]

NextKey(t) ==
  LET it == iter[t] IN
  /\ at[t] = "next"
  /\ \/ /\ Keys(it.dict) # it.keys
        /\ Finish(t, "RuntimeError")
        /\ UNCHANGED <<stmt, arg>>
     \/ /\ Keys(it.dict) = it.keys /\ it.todo = {}
        /\ Finish(t, IF it.best = NoRef THEN "ValueError" ELSE it.best)
        /\ UNCHANGED <<stmt, arg>>
     \/ /\ Keys(it.dict) = it.keys
        /\ \E r \in it.todo :
             /\ Execute(t, "avgsum", it.dict[1], r)
             /\ iter' = [iter EXCEPT ![t].todo = @ \ {r}]
        /\ UNCHANGED outcome
  /\ UNCHANGED <<row, bound, rec, hdRow, hdRec, val>>

GotSum(t) ==
  /\ at[t] = "got" /\ stmt[t] = "avgsum"
  /\ iter' = [iter EXCEPT ![t].sum = val[t]]
  /\ Execute(t, "avgsamples", arg[t][1], arg[t][2])
  /\ Release(t)
  /\ UNCHANGED <<row, bound, rec, outcome>>

GotSamples(t) ==
  LET it == iter[t]
      better == \/ it.best = NoRef
                \/ Below(it.sum, val[t], it.bestSum, it.bestSamples) IN
  /\ at[t] = "got" /\ stmt[t] = "avgsamples"
  /\ \/ /\ val[t] = 0
        /\ Finish(t, "ZeroDivisionError")
     \/ /\ val[t] # 0
        /\ at' = [at EXCEPT ![t] = "next"]
        /\ iter' = [iter EXCEPT ![t] =
             IF better THEN [it EXCEPT !.best = arg[t][2], !.bestSum = it.sum,
                                       !.bestSamples = val[t], !.sum = 0]
                       ELSE [it EXCEPT !.sum = 0]]
        /\ UNCHANGED outcome
  /\ Release(t)
  /\ UNCHANGED <<row, bound, rec, stmt, arg>>

(* One step of whatever table operation thread t is in. *)
TableStep(t) ==
  \/ Outer(t) \/ MakeRow(t) \/ Inner(t) \/ MakeRec(t) \/ Read(t)
  \/ StoreSum(t) \/ StoreMinMax(t) \/ StoreSamples(t)
  \/ Iterate(t) \/ NextKey(t) \/ GotSum(t) \/ GotSamples(t)

(* Thread t is inside update_latency for client c and replica r. *)
Updating(t, c, r) ==
  /\ at[t] \notin {"idle", "iter", "next"}
  /\ stmt[t] \in {"sum", "minmax", "samples"}
  /\ arg[t] = <<c, r>>

(* Thread t is inside a min(...). *)
Iterating(t) ==
  \/ at[t] \in {"iter", "next"}
  \/ at[t] # "idle" /\ stmt[t] \in {"avgsum", "avgsamples"}

-----------------------------------------------------------------------------
(* A row belongs to its client, a record to its client and replica, and so *)
(* do the references a thread holds while it needs them.                   *)
RowsOwned == \A c \in Clients : row[c] # NoRef => row[c][1] = c

RecordsOwned ==
  \A d \in RowId, r \in Replicas :
    bound[d][r] # NoRef => bound[d][r][1] = d[1] /\ bound[d][r][3] = r

HeldRow(t) ==
  at[t] \in {"inner", "mkrec"} => hdRow[t] # NoRef /\ hdRow[t][1] = arg[t][1]

HeldRec(t) ==
  at[t] \in {"read", "got"} =>
    hdRec[t] # NoRef /\ hdRec[t][1] = arg[t][1] /\ hdRec[t][3] = arg[t][2]

HeldIter(t) == Iterating(t) => iter[t].dict # NoRef

RefInv ==
  /\ RowsOwned
  /\ RecordsOwned
  /\ \A t \in Threads : HeldRow(t) /\ HeldRec(t) /\ HeldIter(t)
=============================================================================
