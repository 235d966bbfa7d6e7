------------------------- MODULE RoutingTable_proofs -------------------------
(***************************************************************************)
(* Lemmas about RoutingTable, for whoever uses the table: its types, and   *)
(* that every reference a thread holds is to a row or a record of the      *)
(* client and the replica it is at work for.                               *)
(***************************************************************************)
EXTENDS RoutingTable, TLAPS

(* The variables have their types, and the references their owners. *)
TypeInv == RTTypeOK /\ RefInv

-----------------------------------------------------------------------------
(* A thread that is not iterating has a well-formed empty iterator. *)
LEMMA NoIterTyped == NoIter \in Iter
  BY DEF NoIter, Iter

(* Updates of a record of the table, and of an iterator, keep its type. *)
LEMMA RecUpdated ==
  ASSUME NEW e \in [sum: Nat, samples: Nat], NEW n \in Nat
  PROVE  /\ [e EXCEPT !.sum = n] \in [sum: Nat, samples: Nat]
         /\ [e EXCEPT !.samples = n] \in [sum: Nat, samples: Nat]
  OBVIOUS

LEMMA IterStarted ==
  ASSUME NEW it \in Iter, NEW keys \in SUBSET Replicas
  PROVE  /\ [it EXCEPT !.keys = keys, !.todo = keys] \in Iter
         /\ [it EXCEPT !.keys = keys, !.todo = keys].dict = it.dict
  BY DEF Iter

LEMMA IterAdvanced ==
  ASSUME NEW it \in Iter, NEW r \in Replicas
  PROVE  /\ [it EXCEPT !.todo = it.todo \ {r}] \in Iter
         /\ [it EXCEPT !.todo = it.todo \ {r}].dict = it.dict
  BY DEF Iter

LEMMA IterSum ==
  ASSUME NEW it \in Iter, NEW n \in Nat
  PROVE  [it EXCEPT !.sum = n] \in Iter /\ [it EXCEPT !.sum = n].dict = it.dict
  BY DEF Iter

LEMMA IterBest ==
  ASSUME NEW it \in Iter, NEW r \in Replicas, NEW m \in Nat \ {0}
  PROVE  /\ [it EXCEPT !.best = r, !.bestSum = it.sum,
                       !.bestSamples = m, !.sum = 0] \in Iter
         /\ [it EXCEPT !.best = r, !.bestSum = it.sum,
                       !.bestSamples = m, !.sum = 0].dict = it.dict
  BY DEF Iter

LEMMA IterCreated ==
  ASSUME NEW d \in RowId
  PROVE  /\ [NoIter EXCEPT !.dict = d] \in Iter
         /\ [NoIter EXCEPT !.dict = d].dict = d
  BY DEF Iter, NoIter

(* The initial table has no rows, and no thread holds a reference. *)
LEMMA InitTypeInv == RTInit => TypeInv
  <1> SUFFICES ASSUME RTInit PROVE TypeInv
    OBVIOUS
  <1> USE TableAssumption DEF RTInit
  <1>1. RTTypeOK
    <2>1. (CHOOSE cr \in Clients \X Replicas : TRUE) \in Clients \X Replicas
      <3>1. PICK c \in Clients, r \in Replicas : TRUE
        OBVIOUS
      <3>2. <<c, r>> \in Clients \X Replicas
        OBVIOUS
      <3> QED
        BY <3>2, Zenon
    <2> QED
      BY <2>1, NoIterTyped DEF RTTypeOK, ZeroRecord, Statements
  <1>2. RefInv
    BY DEF RefInv, RowsOwned, RecordsOwned, HeldRow, HeldRec, HeldIter, Iterating
  <1> QED
    BY <1>1, <1>2 DEF TypeInv

(* Every action on the table keeps the types and the references. *)
LEMMA TableStepTypeInv ==
  ASSUME TypeInv, NEW t \in Threads,
         \/ TableStep(t)
         \/ \E c \in Clients, r \in Replicas : UpdateLatency(t, c, r)
         \/ \E c \in Clients : BestReplica(t, c)
  PROVE  TypeInv'
  <1> USE TableAssumption DEF TypeInv, RTTypeOK, RefInv, RowsOwned, RecordsOwned,
        HeldRow, HeldRec, HeldIter, Iterating, Statements
  <1>1. CASE Outer(t)
    BY <1>1 DEF Outer, InTable
  <1>2. CASE MakeRow(t)
    BY <1>2 DEF MakeRow, RowId
  <1>3. CASE Inner(t)
    BY <1>3 DEF Inner
  <1>4. CASE MakeRec(t)
    BY <1>4 DEF MakeRec, RowId, RecId
  <1>5. CASE Read(t)
    BY <1>5 DEF Read, Field
  <1>6. CASE StoreSum(t)
    <2>1. Latency[arg[t][1]][arg[t][2]] \in Nat
      OBVIOUS
    <2> DEFINE new == [rec[hdRec[t]] EXCEPT !.sum = val[t] + Latency[arg[t][1]][arg[t][2]]]
    <2>2. hdRec[t] \in RecId /\ rec[hdRec[t]] \in [sum: Nat, samples: Nat]
      BY <1>6 DEF StoreSum
    <2>3. new \in [sum: Nat, samples: Nat]
      BY <2>1, <2>2, RecUpdated
    <2>4. rec' = [rec EXCEPT ![hdRec[t]] = new]
      BY <1>6 DEF StoreSum
    <2>5. rec' \in [RecId -> [sum: Nat, samples: Nat]]
      BY <2>2, <2>3, <2>4
    <2>6. /\ at' = [at EXCEPT ![t] = "outer"]
          /\ stmt' = [stmt EXCEPT ![t] = "minmax"]
          /\ arg' = [arg EXCEPT ![t] = <<arg[t][1], arg[t][2]>>]
          /\ hdRow' = [hdRow EXCEPT ![t] = NoRef]
          /\ hdRec' = [hdRec EXCEPT ![t] = NoRef]
          /\ val' = [val EXCEPT ![t] = 0]
          /\ UNCHANGED <<row, bound, iter, outcome>>
      BY ONLY <1>6 DEF StoreSum, Execute, Release
    <2> QED
      BY <2>5, <2>6
  <1>7. CASE StoreMinMax(t)
    BY <1>7 DEF StoreMinMax, Execute, Release
  <1>8. CASE StoreSamples(t)
    BY <1>8 DEF StoreSamples, Release
  <1>9. CASE Iterate(t)
    <2>1. Keys(iter[t].dict) \in SUBSET Replicas
      BY DEF Keys
    <2> DEFINE new == [iter[t] EXCEPT !.keys = Keys(iter[t].dict), !.todo = Keys(iter[t].dict)]
    <2>4. new \in Iter
      BY <2>1, IterStarted
    <2>5. iter' = [iter EXCEPT ![t] = new]
      BY ONLY <1>9, Zenon DEF Iterate
    <2>6. iter \in [Threads -> Iter]
      OBVIOUS
    <2>2. iter' \in [Threads -> Iter]
      BY <2>4, <2>5
    <2>3. iter'[t].dict = iter[t].dict /\ \A u \in Threads \ {t} : iter'[u] = iter[u]
      BY ONLY <2>1, <2>5, <2>6, t \in Threads, IterStarted
    <2> QED
      BY <1>9, <2>2, <2>3 DEF Iterate
  <1>10. CASE NextKey(t)
    <2> DEFINE it == iter[t]
    <2> it \in Iter
      OBVIOUS
    <2>1. ASSUME NEW result \in Replicas \cup Errors, Finish(t, result),
                 UNCHANGED <<stmt, arg, row, bound, rec, hdRow, hdRec, val>>
          PROVE  TypeInv'
      <3>1. NoIter \in Iter
        BY NoIterTyped
      <3> QED
        BY <2>1, <3>1 DEF Finish
    <2>2. ASSUME NEW r \in it.todo, Execute(t, "avgsum", it.dict[1], r),
                 iter' = [iter EXCEPT ![t].todo = @ \ {r}],
                 UNCHANGED <<row, bound, rec, hdRow, hdRec, val, outcome>>
          PROVE  TypeInv'
      <3>1. r \in Replicas /\ it.dict # NoRef /\ it.dict \in RowId
        BY <1>10 DEF NextKey, Iter
      <3>2. iter' \in [Threads -> Iter]
        BY <2>2, <3>1, IterAdvanced
      <3>3. iter'[t].dict = it.dict /\ \A u \in Threads \ {t} : iter'[u] = iter[u]
        BY <2>2, <3>1, IterAdvanced
      <3>4. it.dict[1] \in Clients
        BY <3>1 DEF RowId
      <3> QED
        BY <2>2, <3>1, <3>2, <3>3, <3>4 DEF Execute
    <2>3. it.best # NoRef => it.best \in Replicas
      BY DEF Iter
    <2> QED
      BY <1>10, <2>1, <2>2, <2>3 DEF NextKey, Errors
  <1>11. CASE GotSum(t)
    <2>3. [iter[t] EXCEPT !.sum = val[t]] \in Iter
      BY IterSum
    <2>1. iter' \in [Threads -> Iter]
      BY <1>11, <2>3 DEF GotSum
    <2>2. iter'[t].dict = iter[t].dict /\ \A u \in Threads \ {t} : iter'[u] = iter[u]
      BY <1>11, IterSum DEF GotSum
    <2> QED
      BY <1>11, <2>1, <2>2 DEF GotSum, Execute, Release
  <1>12. CASE GotSamples(t)
    <2>1. CASE val[t] = 0
      <3>1. Finish(t, "ZeroDivisionError") /\ Release(t)
            /\ UNCHANGED <<row, bound, rec, stmt, arg>>
        BY <1>12, <2>1 DEF GotSamples
      <3> QED
        BY <3>1, NoIterTyped DEF Finish, Release, Errors
    <2>2. CASE val[t] # 0
      <3> DEFINE kept == [iter[t] EXCEPT !.sum = 0]
                 chosen == [iter[t] EXCEPT !.best = arg[t][2], !.bestSum = iter[t].sum,
                                           !.bestSamples = val[t], !.sum = 0]
      <3>1. PICK new \in {kept, chosen} : iter' = [iter EXCEPT ![t] = new]
        BY <1>12, <2>2 DEF GotSamples
      <3>2. new \in Iter /\ new.dict = iter[t].dict
        <4>1. iter[t] \in Iter /\ arg[t][2] \in Replicas /\ val[t] \in Nat \ {0}
          BY <2>2
        <4>2. kept \in Iter /\ kept.dict = iter[t].dict
          BY ONLY <4>1, IterSum
        <4>3. chosen \in Iter /\ chosen.dict = iter[t].dict
          BY ONLY <4>1 DEF Iter
        <4> HIDE DEF kept, chosen
        <4> QED
          BY <3>1, <4>2, <4>3
      <3>3. iter' \in [Threads -> Iter]
        BY <3>1, <3>2
      <3>4. iter'[t].dict = iter[t].dict /\ \A u \in Threads \ {t} : iter'[u] = iter[u]
        BY <3>1, <3>2
      <3>5. iter[t].dict # NoRef
        BY <1>12 DEF GotSamples
      <3>6. /\ at' = [at EXCEPT ![t] = "next"]
            /\ hdRow' = [hdRow EXCEPT ![t] = NoRef]
            /\ hdRec' = [hdRec EXCEPT ![t] = NoRef]
            /\ val' = [val EXCEPT ![t] = 0]
            /\ UNCHANGED <<row, bound, rec, stmt, arg, outcome>>
        BY <1>12, <2>2 DEF GotSamples, Release
      <3> QED
        BY <3>3, <3>4, <3>5, <3>6
    <2> QED
      BY <2>1, <2>2
  <1>13. CASE \E c \in Clients, r \in Replicas : UpdateLatency(t, c, r)
    BY <1>13 DEF UpdateLatency, Execute
  <1>14. CASE \E c \in Clients : BestReplica(t, c)
    <2> PICK c \in Clients : BestReplica(t, c)
      BY <1>14
    <2>1. row[c] \in RowId
      BY DEF BestReplica, InTable
    <2>2. [NoIter EXCEPT !.dict = row[c]] \in Iter
      BY <2>1, IterCreated
    <2>3. [NoIter EXCEPT !.dict = row[c]].dict = row[c]
      BY <2>1, IterCreated
    <2> QED
      BY <2>1, <2>2, <2>3 DEF BestReplica, InTable
  <1> QED
    BY <1>1, <1>2, <1>3, <1>4, <1>5, <1>6, <1>7, <1>8, <1>9, <1>10, <1>11,
       <1>12, <1>13, <1>14 DEF TableStep

(* A step of one thread leaves the others where they are. *)
LEMMA OthersStay ==
  ASSUME TypeInv, NEW t \in Threads,
         \/ TableStep(t)
         \/ \E c \in Clients, r \in Replicas : UpdateLatency(t, c, r)
         \/ \E c \in Clients : BestReplica(t, c),
         NEW u \in Threads, u # t
  PROVE  /\ at'[u] = at[u] /\ stmt'[u] = stmt[u] /\ arg'[u] = arg[u]
         /\ hdRow'[u] = hdRow[u] /\ hdRec'[u] = hdRec[u] /\ val'[u] = val[u]
         /\ iter'[u] = iter[u] /\ outcome'[u] = outcome[u]
  <1> USE DEF TypeInv, RTTypeOK
  <1>1. CASE Outer(t) \/ MakeRow(t) \/ Inner(t) \/ MakeRec(t) \/ Read(t)
    BY <1>1 DEF Outer, MakeRow, Inner, MakeRec, Read
  <1>2. CASE StoreSum(t) \/ StoreMinMax(t) \/ StoreSamples(t)
    BY <1>2 DEF StoreSum, StoreMinMax, StoreSamples, Execute, Release
  <1>3. CASE Iterate(t) \/ NextKey(t)
    BY <1>3 DEF Iterate, NextKey, Execute, Finish
  <1>4. CASE GotSum(t)
    BY <1>4 DEF GotSum, Execute, Release
  <1>5. CASE GotSamples(t)
    BY <1>5 DEF GotSamples, Release, Finish
  <1>6. CASE \E c \in Clients, r \in Replicas : UpdateLatency(t, c, r)
    BY <1>6 DEF UpdateLatency, Execute
  <1>7. CASE \E c \in Clients : BestReplica(t, c)
    BY <1>7 DEF BestReplica
  <1> QED
    BY <1>1, <1>2, <1>3, <1>4, <1>5, <1>6, <1>7 DEF TableStep
=============================================================================
