------------------------ MODULE ConcurrentTable_proofs ------------------------
(***************************************************************************)
(* Proofs about ConcurrentTable, for any clients, replicas and threads:    *)
(* the types of its variables, and that the routing table never            *)
(* overcounts; that the min(...) of resolve computes the minimum of the    *)
(* row if no update_latency overlaps it; and, with one updater, the ping   *)
(* thread, that nothing is lost, that the three statements of              *)
(* update_latency implement one step of LatencyStats, and that the best    *)
(* replica is the nearest.                                                 *)
(***************************************************************************)
EXTENDS ConcurrentTable, RoutingTable_proofs

(* The invariant of ConcurrentTable: types, references and, for the        *)
(* counts, that neither a record, reachable or orphaned, nor a value a     *)
(* thread is about to write back is ahead of what has been stored.         *)
HistoryTyped ==
  /\ calls \in [Threads -> Nat]
  /\ stored \in [Clients \X Replicas -> [sum: Nat, samples: Nat]]
  /\ asked \in [Threads -> Clients \cup {NoRef}]
  /\ disturbed \in SUBSET Threads

RecCovered(e) ==
  /\ rec[e].samples <= stored[<<e[1], e[3]>>].samples
  /\ rec[e].sum <= stored[<<e[1], e[3]>>].sum * Latency[e[1]][e[3]]

ValCovered(t) ==
  at[t] = "got" =>
    /\ stmt[t] = "samples" => val[t] <= stored[arg[t]].samples
    /\ stmt[t] = "sum" => val[t] <= stored[arg[t]].sum * Latency[arg[t][1]][arg[t][2]]

CountInv ==
  /\ \A e \in RecId : RecCovered(e)
  /\ \A t \in Threads : ValCovered(t)

IInv == TypeInv /\ HistoryTyped /\ CountInv

(* A step of ConcurrentTable is a step of one thread on the table. *)
LEMMA NextTypeInv == TypeInv /\ HistoryTyped /\ [Next]_vars => TypeInv' /\ HistoryTyped'
  <1> SUFFICES ASSUME TypeInv, HistoryTyped, [Next]_vars
               PROVE  TypeInv' /\ HistoryTyped'
    OBVIOUS
  <1>1. ASSUME NEW t \in Threads, Update(t)
        PROVE  TypeInv' /\ HistoryTyped'
    <2>1. TypeInv'
      BY <1>1, TableStepTypeInv DEF Update
    <2>2. HistoryTyped'
      BY <1>1 DEF Update, HistoryTyped
    <2> QED
      BY <2>1, <2>2
  <1>2. ASSUME NEW t \in Threads, Resolve(t)
        PROVE  TypeInv' /\ HistoryTyped'
    <2>1. TypeInv'
      BY <1>2, TableStepTypeInv DEF Resolve
    <2>2. HistoryTyped'
      BY <1>2 DEF Resolve, HistoryTyped
    <2> QED
      BY <2>1, <2>2
  <1>3. ASSUME NEW t \in Threads, Step(t)
        PROVE  TypeInv' /\ HistoryTyped'
    <2>1. TypeInv'
      BY <1>3, TableStepTypeInv DEF Step
    <2>2. arg[t] \in Clients \X Replicas
      BY DEF TypeInv, RTTypeOK
    <2>3. stored' \in [Clients \X Replicas -> [sum: Nat, samples: Nat]]
      <3>1. CASE Storing(t, "sum")
        <4> DEFINE new == [stored[arg[t]] EXCEPT !.sum = stored[arg[t]].sum + 1]
        <4>1. stored' = [stored EXCEPT ![arg[t]] = new]
          BY <1>3, <3>1 DEF Step, Storing
        <4>2. new \in [sum: Nat, samples: Nat]
          BY <2>2, RecUpdated DEF HistoryTyped
        <4> QED
          BY <2>2, <4>1, <4>2 DEF HistoryTyped
      <3>2. CASE Storing(t, "samples")
        <4> DEFINE new == [stored[arg[t]] EXCEPT !.samples = stored[arg[t]].samples + 1]
        <4>1. stored' = [stored EXCEPT ![arg[t]] = new]
          BY <1>3, <3>2 DEF Step, Storing
        <4>2. new \in [sum: Nat, samples: Nat]
          BY <2>2, RecUpdated DEF HistoryTyped
        <4> QED
          BY <2>2, <4>1, <4>2 DEF HistoryTyped
      <3>3. CASE ~ Storing(t, "sum") /\ ~ Storing(t, "samples")
        BY <1>3, <3>3 DEF Step, HistoryTyped
      <3> QED
        BY <3>1, <3>2, <3>3
    <2> QED
      BY <1>3, <2>1, <2>3 DEF Step, HistoryTyped
  <1>4. CASE UNCHANGED vars
    BY <1>4 DEF vars, TypeInv, RTTypeOK, RefInv, RowsOwned, RecordsOwned, HeldRow,
                HeldRec, HeldIter, Iterating, HistoryTyped
  <1> QED
    BY <1>1, <1>2, <1>3, <1>4 DEF Next

(* Every variable keeps its type, the counts stay natural numbers, and     *)
(* every row and record that is bound, or that a thread holds for the      *)
(* lookup it is in, is one of the client and the replica it is bound and   *)
(* held for, whatever other threads replace meanwhile.                     *)
THEOREM TypeCorrect == Spec => []TypeOK
  <1>1. Init => TypeInv /\ HistoryTyped
    BY InitTypeInv DEF Init, HistoryTyped
  <1>2. TypeInv /\ HistoryTyped => TypeOK
    BY DEF TypeInv, HistoryTyped, TypeOK
  <1> QED
    BY <1>1, <1>2, NextTypeInv, PTL DEF Spec

-----------------------------------------------------------------------------
(* One more result adds its latency to what the results add up to. *)
LEMMA OneMore ==
  ASSUME NEW n \in Nat, NEW l \in Nat
  PROVE  (n + 1) * l = n * l + l /\ n * l \in Nat
  OBVIOUS

(* What is covered stays covered: only StoreSum and StoreSamples write a   *)
(* record, from a value that was covered, and each store is counted.       *)
LEMMA NextCountInv == IInv /\ [Next]_vars => CountInv'
  <1> SUFFICES ASSUME IInv, [Next]_vars PROVE CountInv'
    OBVIOUS
  <1>1. ASSUME NEW t \in Threads, rec' = rec, stored' = stored, at'[t] # "got",
               \A u \in Threads \ {t} :
                 at'[u] = at[u] /\ stmt'[u] = stmt[u] /\ arg'[u] = arg[u] /\ val'[u] = val[u]
        PROVE  CountInv'
    <2>1. \A e \in RecId : RecCovered(e)'
      BY <1>1 DEF IInv, CountInv, RecCovered
    <2>2. \A u \in Threads : ValCovered(u)'
      BY <1>1 DEF IInv, CountInv, ValCovered
    <2> QED
      BY <2>1, <2>2 DEF CountInv
  <1>2. ASSUME NEW t \in Threads, Update(t) \/ Resolve(t)
        PROVE  CountInv'
    <2>1. /\ rec' = rec /\ stored' = stored /\ at'[t] # "got"
          /\ \A u \in Threads \ {t} :
               at'[u] = at[u] /\ stmt'[u] = stmt[u] /\ arg'[u] = arg[u] /\ val'[u] = val[u]
      BY <1>2 DEF Update, Resolve, UpdateLatency, BestReplica, Execute,
                  IInv, TypeInv, RTTypeOK
    <2> QED
      BY <1>1, <2>1
  <1>3. ASSUME NEW t \in Threads, Step(t), ~ Read(t),
               ~ Storing(t, "sum"), ~ Storing(t, "samples")
        PROVE  CountInv'
    <2>1. rec' = rec /\ stored' = stored
      BY <1>3 DEF Step, TableStep, Storing, Outer, MakeRow, Inner, MakeRec, StoreSum,
                  StoreMinMax, StoreSamples, Iterate, NextKey, GotSum, GotSamples
    <2>2. /\ at'[t] # "got"
          /\ \A u \in Threads \ {t} :
               at'[u] = at[u] /\ stmt'[u] = stmt[u] /\ arg'[u] = arg[u] /\ val'[u] = val[u]
      BY <1>3 DEF Step, TableStep, Storing, Outer, MakeRow, Inner, MakeRec, StoreSum,
                  StoreMinMax, StoreSamples, Iterate, NextKey, GotSum, GotSamples,
                  Execute, Release, Finish, IInv, TypeInv, RTTypeOK
    <2> QED
      BY <1>1, <2>1, <2>2
  <1>4. ASSUME NEW t \in Threads, Step(t), Read(t)
        PROVE  CountInv'
    <2>1. rec' = rec /\ stored' = stored
      BY <1>4 DEF Step, Storing, Read
    <2>2. /\ hdRec[t] \in RecId
          /\ arg[t] = <<hdRec[t][1], hdRec[t][3]>>
      BY <1>4 DEF Read, IInv, TypeInv, RTTypeOK, RefInv, HeldRec
    <2>3. RecCovered(hdRec[t])
      BY <2>2 DEF IInv, CountInv
    <2>4. ValCovered(t)'
      <3>1. stmt'[t] = stmt[t] /\ arg'[t] = arg[t] /\ val'[t] = Field(hdRec[t], stmt[t])
        BY <1>4 DEF Read, IInv, TypeInv, RTTypeOK
      <3>2. stmt[t] = "sum" => val'[t] = rec[hdRec[t]].sum
        BY <3>1 DEF Field
      <3>3. stmt[t] = "samples" => val'[t] = rec[hdRec[t]].samples
        BY <3>1 DEF Field
      <3>4. arg[t][1] = hdRec[t][1] /\ arg[t][2] = hdRec[t][3]
        BY <2>2
      <3> QED
        BY <2>1, <2>2, <2>3, <3>1, <3>2, <3>3, <3>4 DEF RecCovered, ValCovered
    <2>5. \A u \in Threads \ {t} : ValCovered(u)'
      BY <1>4, <2>1 DEF Read, IInv, CountInv, ValCovered, TypeInv, RTTypeOK
    <2>6. \A e \in RecId : RecCovered(e)'
      BY <2>1 DEF IInv, CountInv, RecCovered
    <2> QED
      BY <2>4, <2>5, <2>6 DEF CountInv
  <1>5. ASSUME NEW t \in Threads, Step(t), Storing(t, "sum")
        PROVE  CountInv'
    <2> DEFINE c == arg[t][1]
               r == arg[t][2]
               n == stored[<<c, r>>].sum
               l == Latency[c][r]
    <2>1. StoreSum(t)
      BY <1>5 DEF Step, TableStep, Storing, Outer, MakeRow, Inner, MakeRec, Read,
                  StoreMinMax, StoreSamples, Iterate, NextKey, GotSum, GotSamples
    <2>2. /\ c \in Clients /\ r \in Replicas /\ arg[t] = <<c, r>>
          /\ hdRec[t] \in RecId /\ hdRec[t][1] = c /\ hdRec[t][3] = r
          /\ l \in Nat /\ n \in Nat
      BY <1>5, TableAssumption DEF Storing, IInv, TypeInv, RTTypeOK, RefInv, HeldRec, HistoryTyped
    <2>3. val[t] <= n * l /\ val[t] \in Nat
      BY <1>5, <2>2 DEF Storing, IInv, CountInv, ValCovered, TypeInv, RTTypeOK
    <2>4. stored' = [stored EXCEPT ![arg[t]].sum = stored[arg[t]].sum + 1]
      BY <1>5 DEF Step, Storing
    <2>5. /\ stored'[<<c, r>>].sum = n + 1
          /\ stored'[<<c, r>>].samples = stored[<<c, r>>].samples
          /\ \A x \in Clients \X Replicas : x # <<c, r>> => stored'[x] = stored[x]
      BY <2>2, <2>4 DEF IInv, HistoryTyped
    <2>6. rec' = [rec EXCEPT ![hdRec[t]].sum = val[t] + l]
      BY <2>1 DEF StoreSum
    <2>7. /\ rec'[hdRec[t]].sum = val[t] + l
          /\ rec'[hdRec[t]].samples = rec[hdRec[t]].samples
          /\ \A e \in RecId : e # hdRec[t] => rec'[e] = rec[e]
      BY <2>2, <2>6 DEF IInv, TypeInv, RTTypeOK
    <2>8. (n + 1) * l = n * l + l /\ n * l \in Nat
      BY <2>2, OneMore
    <2>9. ASSUME NEW e \in RecId PROVE RecCovered(e)'
      <3>1. RecCovered(e) /\ rec[e] \in [sum: Nat, samples: Nat]
        BY DEF IInv, CountInv, TypeInv, RTTypeOK
      <3>2. <<e[1], e[3]>> \in Clients \X Replicas
        BY DEF RecId
      <3>3. CASE e = hdRec[t]
        BY <2>2, <2>3, <2>5, <2>7, <2>8, <3>1, <3>3 DEF RecCovered
      <3>4. CASE e # hdRec[t] /\ <<e[1], e[3]>> = <<c, r>>
        BY <2>2, <2>5, <2>7, <2>8, <3>1, <3>4 DEF RecCovered
      <3>5. CASE e # hdRec[t] /\ <<e[1], e[3]>> # <<c, r>>
        BY <2>5, <2>7, <3>1, <3>2, <3>5 DEF RecCovered
      <3> QED
        BY <3>3, <3>4, <3>5
    <2>10. ASSUME NEW u \in Threads PROVE ValCovered(u)'
      <3>1. CASE u = t
        BY <2>1, <3>1 DEF StoreSum, Execute, ValCovered, IInv, TypeInv, RTTypeOK
      <3>2. CASE u # t
        <4>1. ValCovered(u) /\ arg[u] \in Clients \X Replicas /\ val[u] \in Nat
          BY DEF IInv, CountInv, TypeInv, RTTypeOK
        <4>2. at'[u] = at[u] /\ stmt'[u] = stmt[u] /\ arg'[u] = arg[u] /\ val'[u] = val[u]
          BY <2>1, <3>2 DEF StoreSum, Execute, Release, IInv, TypeInv, RTTypeOK
        <4>3. CASE arg[u] = <<c, r>>
          BY <2>2, <2>5, <2>8, <4>1, <4>2, <4>3 DEF ValCovered
        <4>4. CASE arg[u] # <<c, r>>
          BY <2>5, <4>1, <4>2, <4>4 DEF ValCovered
        <4> QED
          BY <4>3, <4>4
      <3> QED
        BY <3>1, <3>2
    <2> QED
      BY <2>9, <2>10 DEF CountInv
  <1>6. ASSUME NEW t \in Threads, Step(t), Storing(t, "samples")
        PROVE  CountInv'
    <2> DEFINE c == arg[t][1]
               r == arg[t][2]
               n == stored[<<c, r>>].samples
    <2>1. StoreSamples(t)
      BY <1>6 DEF Step, TableStep, Storing, Outer, MakeRow, Inner, MakeRec, Read,
                  StoreMinMax, StoreSum, Iterate, NextKey, GotSum, GotSamples
    <2>2. /\ c \in Clients /\ r \in Replicas /\ arg[t] = <<c, r>>
          /\ hdRec[t] \in RecId /\ hdRec[t][1] = c /\ hdRec[t][3] = r
          /\ n \in Nat
      BY <1>6 DEF Storing, IInv, TypeInv, RTTypeOK, RefInv, HeldRec, HistoryTyped
    <2>3. val[t] <= n /\ val[t] \in Nat
      BY <1>6, <2>2 DEF Storing, IInv, CountInv, ValCovered, TypeInv, RTTypeOK
    <2>4. stored' = [stored EXCEPT ![arg[t]].samples = stored[arg[t]].samples + 1]
      BY <1>6 DEF Step, Storing
    <2>5. /\ stored'[<<c, r>>].samples = n + 1
          /\ stored'[<<c, r>>].sum = stored[<<c, r>>].sum
          /\ \A x \in Clients \X Replicas : x # <<c, r>> => stored'[x] = stored[x]
      BY <2>2, <2>4 DEF IInv, HistoryTyped
    <2>6. rec' = [rec EXCEPT ![hdRec[t]].samples = val[t] + 1]
      BY <2>1 DEF StoreSamples
    <2>7. /\ rec'[hdRec[t]].samples = val[t] + 1
          /\ rec'[hdRec[t]].sum = rec[hdRec[t]].sum
          /\ \A e \in RecId : e # hdRec[t] => rec'[e] = rec[e]
      BY <2>2, <2>6 DEF IInv, TypeInv, RTTypeOK
    <2>8. ASSUME NEW e \in RecId PROVE RecCovered(e)'
      <3>1. RecCovered(e) /\ rec[e] \in [sum: Nat, samples: Nat]
        BY DEF IInv, CountInv, TypeInv, RTTypeOK
      <3>2. <<e[1], e[3]>> \in Clients \X Replicas
        BY DEF RecId
      <3>3. CASE e = hdRec[t]
        BY <2>2, <2>3, <2>5, <2>7, <3>1, <3>3 DEF RecCovered
      <3>4. CASE e # hdRec[t] /\ <<e[1], e[3]>> = <<c, r>>
        BY <2>2, <2>5, <2>7, <3>1, <3>4 DEF RecCovered
      <3>5. CASE e # hdRec[t] /\ <<e[1], e[3]>> # <<c, r>>
        BY <2>5, <2>7, <3>1, <3>2, <3>5 DEF RecCovered
      <3> QED
        BY <3>3, <3>4, <3>5
    <2>9. ASSUME NEW u \in Threads PROVE ValCovered(u)'
      <3>1. CASE u = t
        BY <2>1, <3>1 DEF StoreSamples, ValCovered, IInv, TypeInv, RTTypeOK
      <3>2. CASE u # t
        <4>1. ValCovered(u) /\ arg[u] \in Clients \X Replicas /\ val[u] \in Nat
          BY DEF IInv, CountInv, TypeInv, RTTypeOK
        <4>2. at'[u] = at[u] /\ stmt'[u] = stmt[u] /\ arg'[u] = arg[u] /\ val'[u] = val[u]
          BY <2>1, <3>2 DEF StoreSamples, Release, IInv, TypeInv, RTTypeOK
        <4>3. CASE arg[u] = <<c, r>>
          BY <2>2, <2>5, <4>1, <4>2, <4>3 DEF ValCovered
        <4>4. CASE arg[u] # <<c, r>>
          BY <2>5, <4>1, <4>2, <4>4 DEF ValCovered
        <4> QED
          BY <4>3, <4>4
      <3> QED
        BY <3>1, <3>2
    <2> QED
      BY <2>8, <2>9 DEF CountInv
  <1>7. CASE UNCHANGED vars
    BY <1>7 DEF vars, IInv, CountInv, RecCovered, ValCovered
  <1> QED
    BY <1>2, <1>3, <1>4, <1>5, <1>6, <1>7 DEF Next

(* No record that can be reached counts more than was stored: whatever the *)
(* threads interleave, update_latency loses results but never doubles one. *)
THEOREM NeverOvercountsCorrect == Spec => []NeverOvercounts
  <1>1. Init => IInv
    <2> SUFFICES ASSUME Init PROVE IInv
      OBVIOUS
    <2>1. TypeInv /\ HistoryTyped
      BY InitTypeInv DEF Init, HistoryTyped
    <2>2. ASSUME NEW e \in RecId PROVE RecCovered(e)
      <3>1. /\ rec[e].samples = 0 /\ rec[e].sum = 0
            /\ e[1] \in Clients /\ e[3] \in Replicas
        BY DEF Init, RTInit, ZeroRecord, RecId
      <3>2. stored[<<e[1], e[3]>>] = [sum |-> 0, samples |-> 0]
        BY <3>1 DEF Init
      <3>3. Latency[e[1]][e[3]] \in Nat
        BY <3>1, TableAssumption
      <3> QED
        BY <3>1, <3>2, <3>3 DEF RecCovered
    <2>3. \A t \in Threads : ValCovered(t)
      BY DEF Init, RTInit, ValCovered
    <2> QED
      BY <2>1, <2>2, <2>3 DEF IInv, CountInv
  <1>2. IInv /\ [Next]_vars => IInv'
    BY NextTypeInv, NextCountInv DEF IInv
  <1>3. IInv => NeverOvercounts
    <2> SUFFICES ASSUME IInv, NEW c \in Clients, NEW r \in Measured(c)
                 PROVE  /\ Entry(c, r).samples <= stored[<<c, r>>].samples
                        /\ Entry(c, r).sum <= stored[<<c, r>>].sum * Latency[c][r]
      BY DEF NeverOvercounts
    <2> DEFINE e == bound[row[c]][r]
    <2>1. row[c] \in RowId /\ row[c][1] = c /\ r \in Replicas /\ e # NoRef
      BY DEF IInv, TypeInv, RTTypeOK, RefInv, RowsOwned, Measured, InTable, Keys
    <2>2. e \in RecId /\ e[1] = c /\ e[3] = r
      BY <2>1 DEF IInv, TypeInv, RTTypeOK, RefInv, RecordsOwned
    <2> QED
      BY <2>2 DEF IInv, CountInv, RecCovered, Entry
  <1> QED
    BY <1>1, <1>2, <1>3, PTL DEF Spec

-----------------------------------------------------------------------------
(* The minimum that no update overlaps                                     *)

(* Fractions *)

LEMMA TimesMonotone ==
  ASSUME NEW a \in Nat, NEW b \in Nat, NEW k \in Nat, a <= b
  PROVE  a * k <= b * k
<1>1. PICK d \in Nat : b = a + d
  <2>1. b - a \in Nat /\ b = a + (b - a)
    OBVIOUS
  <2> QED
    BY <2>1
<1>2. b * k = a * k + d * k
  BY <1>1
<1>3. d * k \in Nat /\ a * k \in Nat
  OBVIOUS
<1> QED
  BY <1>2, <1>3

LEMMA TimesCancels ==
  ASSUME NEW a \in Nat, NEW b \in Nat, NEW k \in Nat \ {0}, a * k <= b * k
  PROVE  a <= b
<1> SUFFICES ASSUME b + 1 <= a PROVE FALSE
  OBVIOUS
<1>1. (b + 1) * k <= a * k
  BY TimesMonotone
<1>2. (b + 1) * k = b * k + k /\ b * k \in Nat /\ a * k \in Nat
  OBVIOUS
<1> QED
  BY <1>1, <1>2

(* a/b <= c/d and c/d <= e/f give a/b <= e/f. *)
LEMMA FractionsTransitive ==
  ASSUME NEW a \in Nat, NEW b \in Nat, NEW c \in Nat, NEW d \in Nat \ {0},
         NEW e \in Nat, NEW f \in Nat, a * d <= c * b, c * f <= e * d
  PROVE  a * f <= e * b
<1>1. a * d \in Nat /\ c * b \in Nat /\ c * f \in Nat /\ e * d \in Nat
      /\ a * f \in Nat /\ e * b \in Nat
  OBVIOUS
<1>2. (a * d) * f <= (c * b) * f
  BY <1>1, TimesMonotone
<1>3. (c * f) * b <= (e * d) * b
  BY <1>1, TimesMonotone
<1>4. (a * d) * f = (a * f) * d /\ (c * b) * f = (c * f) * b /\ (e * d) * b = (e * b) * d
  OBVIOUS
<1>5. (a * f) * d <= (e * b) * d
  <2>1. (a * f) * d \in Nat /\ (c * f) * b \in Nat /\ (e * b) * d \in Nat
    BY <1>1
  <2> QED
    BY <1>2, <1>3, <1>4, <2>1
<1> QED
  BY <1>1, <1>5, TimesCancels

-----------------------------------------------------------------------------
(* What a min(...) knows *)

Looking(t) == at[t] \notin {"idle", "iter", "next"}

(* A thread that iterates does it for the client it was asked for. *)
Asks(t) ==
  /\ asked[t] \notin Clients => outcome[t] = NoRef
  /\ Iterating(t) =>
       /\ asked[t] \in Clients
       /\ iter[t].dict[1] = asked[t]
       /\ Looking(t) => arg[t][1] = asked[t]
       /\ outcome[t] = NoRef

(* The average of replica best is not above that of r. *)
AtMost(c, best, r) ==
  Entry(c, best).sum * Entry(c, r).samples <= Entry(c, r).sum * Entry(c, best).samples

(* The keys whose averages thread t has seen. *)
Compared(t) ==
  iter[t].keys \ (iter[t].todo \cup IF Looking(t) THEN {arg[t][2]} ELSE {})

(* The iterator of thread t is that of the row, and its best replica is    *)
(* the best of those it has compared.                                      *)
Seen(t) ==
  LET c == asked[t]
      it == iter[t] IN
  /\ it.dict = row[c]
  /\ at[t] = "iter" => it.best = NoRef
  /\ at[t] # "iter" =>
       /\ it.keys = Measured(c) /\ it.todo \subseteq it.keys
       /\ it.best = NoRef => Compared(t) = {}
       /\ it.best # NoRef =>
            /\ it.best \in Measured(c)
            /\ it.bestSum = Entry(c, it.best).sum
            /\ it.bestSamples = Entry(c, it.best).samples
            /\ \A r \in Compared(t) : AtMost(c, it.best, r)

(* Its lookups find the row and the record it means, without making any. *)
Sees(t) ==
  LET c == asked[t]
      r == arg[t][2] IN
  Looking(t) =>
    /\ r \in Measured(c) /\ r \notin iter[t].todo
    /\ at[t] \notin {"mkrow", "mkrec"}
    /\ at[t] = "inner" => hdRow[t] = row[c]
    /\ at[t] \in {"read", "got"} => hdRec[t] = bound[row[c]][r]
    /\ stmt[t] = "avgsamples" => iter[t].sum = Entry(c, r).sum
    /\ at[t] = "got" => val[t] = Field(hdRec[t], stmt[t])

(* What UndisturbedIsSequential says of thread t. *)
Sequential(t) ==
  LET c == asked[t] IN
  /\ outcome[t] \in Replicas =>
       /\ outcome[t] \in Measured(c)
       /\ \A r \in Measured(c) : AtMost(c, outcome[t], r)
  /\ outcome[t] = "ValueError" => Measured(c) = {}
  /\ outcome[t] = "ZeroDivisionError" => \E r \in Measured(c) : Entry(c, r).samples = 0
  /\ outcome[t] # "RuntimeError"

Undisturbed(t) ==
  /\ asked[t] \in Clients => Settled(asked[t])
  /\ Iterating(t) => Seen(t) /\ Sees(t)
  /\ Sequential(t)

MinInv ==
  /\ \A t \in Threads : Asks(t)
  /\ \A t \in Threads \ disturbed : Undisturbed(t)

(* What GotSamples does to the iterator: the replica is the best, or not. *)
LEMMA GotSamplesIter ==
  ASSUME TypeInv, NEW t \in Threads, GotSamples(t), at'[t] # "idle"
  PROVE  LET it == iter[t] IN
         /\ val[t] \in Nat \ {0}
         /\ iter'[t].dict = it.dict /\ iter'[t].keys = it.keys /\ iter'[t].todo = it.todo
         /\ \/ /\ it.best = NoRef \/ Below(it.sum, val[t], it.bestSum, it.bestSamples)
               /\ iter'[t].best = arg[t][2] /\ iter'[t].bestSum = it.sum
               /\ iter'[t].bestSamples = val[t]
            \/ /\ it.best # NoRef /\ ~ Below(it.sum, val[t], it.bestSum, it.bestSamples)
               /\ iter'[t].best = it.best /\ iter'[t].bestSum = it.bestSum
               /\ iter'[t].bestSamples = it.bestSamples
<1> DEFINE it == iter[t]
           better == it.best = NoRef \/ Below(it.sum, val[t], it.bestSum, it.bestSamples)
           chosen == [it EXCEPT !.best = arg[t][2], !.bestSum = it.sum,
                                !.bestSamples = val[t], !.sum = 0]
           kept == [it EXCEPT !.sum = 0]
<1>1. it \in Iter /\ val[t] \in Nat /\ iter \in [Threads -> Iter]
      /\ at \in [Threads -> {"idle", "outer", "mkrow", "inner", "mkrec", "read",
                            "got", "iter", "next"}]
  BY DEF TypeInv, RTTypeOK
<1>2. val[t] # 0 /\ iter' = [iter EXCEPT ![t] = IF better THEN chosen ELSE kept]
  BY <1>1 DEF GotSamples, Finish
<1>3. /\ chosen.dict = it.dict /\ chosen.keys = it.keys /\ chosen.todo = it.todo
      /\ chosen.best = arg[t][2] /\ chosen.bestSum = it.sum /\ chosen.bestSamples = val[t]
  BY ONLY <1>1 DEF Iter
<1>4. /\ kept.dict = it.dict /\ kept.keys = it.keys /\ kept.todo = it.todo
      /\ kept.best = it.best /\ kept.bestSum = it.bestSum /\ kept.bestSamples = it.bestSamples
  BY ONLY <1>1 DEF Iter
<1>5. iter'[t] = IF better THEN chosen ELSE kept
  BY <1>1, <1>2
<1> HIDE DEF chosen, kept
<1>6. CASE better
  BY <1>1, <1>2, <1>3, <1>5, <1>6
<1>7. CASE ~ better
  BY <1>1, <1>2, <1>4, <1>5, <1>7
<1> QED
  BY <1>6, <1>7

-----------------------------------------------------------------------------
(* Asks is kept *)
LEMMA AsksStep ==
  ASSUME TypeInv, HistoryTyped, \A u \in Threads : Asks(u), NEW t \in Threads,
         Update(t) \/ Resolve(t) \/ Step(t)
  PROVE  \A u \in Threads : Asks(u)'
<1> USE DEF TypeInv, RTTypeOK, HistoryTyped
<1>1. ASSUME NEW u \in Threads, u # t
      PROVE  Asks(u)'
  <2>1. asked'[u] = asked[u]
    BY <1>1 DEF Update, Resolve, Step
  <2>2. /\ at'[u] = at[u] /\ stmt'[u] = stmt[u] /\ arg'[u] = arg[u]
        /\ iter'[u] = iter[u] /\ outcome'[u] = outcome[u]
    BY <1>1, OthersStay DEF Update, Resolve, Step
  <2> QED
    BY <2>1, <2>2 DEF Asks, Iterating, Looking
<1>2. Asks(t)'
  <2>1. CASE Update(t)
    BY <2>1 DEF Update, UpdateLatency, Execute, Asks, Iterating
  <2>2. CASE Resolve(t)
    <3>1. PICK c \in Clients : BestReplica(t, c) /\ asked' = [asked EXCEPT ![t] = c]
      BY <2>2 DEF Resolve
    <3>2. row[c] \in RowId /\ row[c][1] = c
      BY <3>1 DEF BestReplica, InTable, RefInv, RowsOwned
    <3>3. iter'[t].dict = row[c] /\ at'[t] = "iter" /\ outcome'[t] = NoRef /\ asked'[t] = c
      BY <3>1, <3>2, IterCreated DEF BestReplica
    <3> QED
      BY <3>2, <3>3 DEF Asks, Looking
  <2>3. CASE Step(t)
    <3>0. asked' = asked
      BY <2>3 DEF Step
    <3>1. CASE Outer(t) \/ MakeRow(t) \/ Inner(t) \/ MakeRec(t) \/ Read(t)
      <4>1. /\ Looking(t) /\ Looking(t)' /\ stmt' = stmt /\ arg' = arg /\ iter' = iter
            /\ outcome' = outcome
        BY <3>1 DEF Outer, MakeRow, Inner, MakeRec, Read, Looking
      <4> QED
        BY <3>0, <4>1 DEF Asks, Iterating, Looking
    <3>2. CASE StoreSum(t) \/ StoreMinMax(t) \/ StoreSamples(t)
      BY <3>0, <3>2 DEF StoreSum, StoreMinMax, StoreSamples, Execute, Asks, Iterating
    <3>3. CASE Iterate(t)
      <4>1. iter'[t].dict = iter[t].dict
        <5>1. iter[t] \in Iter /\ Keys(iter[t].dict) \in SUBSET Replicas
          BY DEF Keys
        <5> QED
          BY <3>3, <5>1, IterStarted DEF Iterate
      <4> QED
        BY <3>0, <3>3, <4>1 DEF Iterate, Asks, Iterating, Looking
    <3>4. CASE NextKey(t)
      <4>1. CASE at'[t] = "idle"
        BY <3>0, <3>4, <4>1 DEF NextKey, Asks, Iterating
      <4>2. CASE at'[t] # "idle"
        <5>1. PICK r \in iter[t].todo :
                 /\ Execute(t, "avgsum", iter[t].dict[1], r)
                 /\ iter' = [iter EXCEPT ![t].todo = @ \ {r}]
                 /\ UNCHANGED outcome
          BY <3>4, <4>2 DEF NextKey, Finish
        <5>2. iter[t] \in Iter /\ r \in Replicas
          BY DEF Iter
        <5>3. iter'[t].dict = iter[t].dict
          BY <5>1, <5>2, IterAdvanced
        <5>4. arg'[t] = <<iter[t].dict[1], r>>
          BY <5>1 DEF Execute
        <5> QED
          BY <3>0, <3>4, <5>1, <5>3, <5>4 DEF NextKey, Asks, Iterating
      <4> QED
        BY <4>1, <4>2
    <3>5. CASE GotSum(t)
      <4>1. iter'[t].dict = iter[t].dict
        BY <3>5, IterSum DEF GotSum
      <4>2. arg'[t][1] = arg[t][1] /\ outcome' = outcome
        BY <3>5 DEF GotSum, Execute
      <4> QED
        BY <3>0, <3>5, <4>1, <4>2 DEF GotSum, Asks, Iterating, Looking
    <3>6. CASE GotSamples(t)
      <4>1. CASE at'[t] = "idle"
        BY <3>0, <3>6, <4>1 DEF GotSamples, Asks, Iterating
      <4>2. CASE at'[t] # "idle"
        <5>1. at'[t] = "next" /\ outcome' = outcome
          BY <3>6, <4>2 DEF GotSamples, Finish
        <5>2. iter'[t].dict = iter[t].dict
          BY <3>6, <4>2, GotSamplesIter
        <5> QED
          BY <3>0, <3>6, <5>1, <5>2 DEF GotSamples, Asks, Iterating, Looking
      <4> QED
        BY <4>1, <4>2
    <3> QED
      BY <2>3, <3>1, <3>2, <3>3, <3>4, <3>5, <3>6 DEF Step, TableStep
  <2> QED
    BY <2>1, <2>2, <2>3
<1> QED
  BY <1>1, <1>2

-----------------------------------------------------------------------------
(* The row of a client for which only undisturbed threads are at work stays *)
(* as it is.                                                               *)

LEMMA AtWorkIsUndisturbed ==
  ASSUME TypeInv, MinInv, NEW c \in Clients, Settled(c),
         NEW t \in Threads, Looking(t), arg[t][1] = c
  PROVE  Iterating(t) /\ asked[t] = c /\ t \notin disturbed /\ Seen(t) /\ Sees(t)
<1>1. arg[t] = <<c, arg[t][2]>> /\ arg[t][2] \in Replicas /\ stmt[t] \in Statements
  BY DEF TypeInv, RTTypeOK
<1>2. Iterating(t)
  <2>1. ~ Updating(t, c, arg[t][2])
    BY <1>1 DEF Settled
  <2> QED
    BY <1>1, <2>1 DEF Updating, Iterating, Looking, Statements
<1>3. asked[t] = c
  BY <1>2 DEF MinInv, Asks
<1>4. t \notin disturbed
  BY <1>2, <1>3 DEF Settled
<1> QED
  BY <1>2, <1>3, <1>4 DEF MinInv, Undisturbed

LEMMA Frozen ==
  ASSUME TypeInv, MinInv, NEW c \in Clients, Settled(c), NEW t \in Threads, TableStep(t)
  PROVE  /\ row'[c] = row[c]
         /\ Measured(c)' = Measured(c)
         /\ \A r \in Measured(c) :
              bound'[row[c]][r] = bound[row[c]][r] /\ Entry(c, r)' = Entry(c, r)
<1>1. Looking(t) /\ arg[t][1] = c =>
        /\ at[t] \notin {"mkrow", "mkrec"}
        /\ stmt[t] \notin {"sum", "samples"}
  <2> SUFFICES ASSUME Looking(t), arg[t][1] = c
               PROVE  /\ at[t] \notin {"mkrow", "mkrec"}
                      /\ stmt[t] \notin {"sum", "samples"}
    OBVIOUS
  <2>1. Iterating(t) /\ Sees(t)
    BY AtWorkIsUndisturbed
  <2> QED
    BY <2>1 DEF Sees, Iterating, Looking
<1>2. /\ row \in [Clients -> RowId \cup {NoRef}]
      /\ bound \in [RowId -> [Replicas -> RecId \cup {NoRef}]]
      /\ rec \in [RecId -> [sum: Nat, samples: Nat]]
      /\ hdRow[t] \in RowId \cup {NoRef} /\ hdRec[t] \in RecId \cup {NoRef}
      /\ arg[t] \in Clients \X Replicas
  BY DEF TypeInv, RTTypeOK
<1>3. row[c] # NoRef => row[c] \in RowId /\ row[c][1] = c
  BY <1>2 DEF TypeInv, RefInv, RowsOwned
<1>4. \A r \in Measured(c) : /\ r \in Replicas /\ row[c] # NoRef
                             /\ bound[row[c]][r] \in RecId /\ bound[row[c]][r][1] = c
  BY <1>2, <1>3 DEF Measured, InTable, Keys, TypeInv, RefInv, RecordsOwned
<1>5. row'[c] = row[c]
  <2>1. CASE MakeRow(t)
    BY <1>1, <1>2, <2>1 DEF MakeRow, Looking
  <2>2. CASE ~ MakeRow(t)
    BY <2>2 DEF TableStep, Outer, Inner, MakeRec, Read, StoreSum, StoreMinMax, StoreSamples,
                Iterate, NextKey, GotSum, GotSamples
  <2> QED
    BY <2>1, <2>2
<1>6. row[c] # NoRef => bound'[row[c]] = bound[row[c]]
  <2>1. CASE MakeRec(t)
    <3>1. hdRow[t] # NoRef /\ hdRow[t][1] # c
      BY <1>1, <2>1 DEF MakeRec, Looking, TypeInv, RefInv, HeldRow
    <3> QED
      BY <1>2, <1>3, <2>1, <3>1 DEF MakeRec
  <2>2. CASE ~ MakeRec(t)
    BY <2>2 DEF TableStep, Outer, Inner, MakeRow, Read, StoreSum, StoreMinMax, StoreSamples,
                Iterate, NextKey, GotSum, GotSamples
  <2> QED
    BY <2>1, <2>2
<1>7. \A r \in Measured(c) : rec'[bound[row[c]][r]] = rec[bound[row[c]][r]]
  <2>1. CASE StoreSum(t) \/ StoreSamples(t)
    <3>1. hdRec[t] # NoRef /\ hdRec[t][1] # c
      BY <1>1, <2>1 DEF StoreSum, StoreSamples, Looking, TypeInv, RefInv, HeldRec
    <3>2. \A e \in RecId : e # hdRec[t] => rec'[e] = rec[e]
      BY <1>2, <2>1 DEF StoreSum, StoreSamples
    <3> QED
      BY <1>4, <3>1, <3>2
  <2>2. CASE ~ (StoreSum(t) \/ StoreSamples(t))
    BY <2>2 DEF TableStep, Outer, Inner, MakeRow, MakeRec, Read, StoreMinMax,
                Iterate, NextKey, GotSum, GotSamples
  <2> QED
    BY <2>1, <2>2
<1>8. Measured(c)' = Measured(c)
  BY <1>5, <1>6 DEF Measured, InTable, Keys
<1> QED
  BY <1>4, <1>5, <1>6, <1>7, <1>8 DEF Entry

(* What has settled stays so. *)
LEMMA SettledStays ==
  ASSUME TypeInv, HistoryTyped, NEW c \in Clients, Settled(c), NEW t \in Threads, Step(t)
  PROVE  Settled(c)'
<1>1. disturbed' = disturbed /\ asked' = asked /\ TableStep(t)
  BY DEF Step
<1>2. \A u \in Threads \ {t} :
        at'[u] = at[u] /\ stmt'[u] = stmt[u] /\ arg'[u] = arg[u]
  BY <1>1, OthersStay
<1>3. \A u \in Threads \ {t}, r \in Replicas : ~ Updating(u, c, r)'
  BY <1>2 DEF Settled, Updating
<1>4. \A u \in Threads \ {t} : Iterating(u)' => Iterating(u)
  BY <1>2 DEF Iterating
<1>5. (\A r \in Replicas : ~ Updating(t, c, r)') /\ (Iterating(t)' => Iterating(t))
  <2> USE DEF TypeInv, RTTypeOK, Updating, Iterating, Settled
  <2>1. CASE Outer(t) \/ MakeRow(t) \/ Inner(t) \/ MakeRec(t) \/ Read(t)
    <3>1. /\ at[t] \in {"outer", "mkrow", "inner", "mkrec", "read"} /\ stmt' = stmt
          /\ arg' = arg /\ at'[t] \in {"mkrow", "inner", "mkrec", "read", "got"}
      BY <2>1 DEF Outer, MakeRow, Inner, MakeRec, Read
    <3> QED
      BY <3>1
  <2>2. CASE StoreSum(t) \/ StoreMinMax(t) \/ StoreSamples(t)
    <3>1. /\ at[t] = "got" /\ stmt[t] \in {"sum", "minmax", "samples"}
          /\ arg'[t] = arg[t] /\ stmt'[t] \in {"sum", "minmax", "samples"}
          /\ at'[t] \in {"idle", "outer"}
      BY <2>2 DEF StoreSum, StoreMinMax, StoreSamples, Execute
    <3> QED
      BY <3>1
  <2>3. CASE Iterate(t) \/ NextKey(t)
    BY <2>3 DEF Iterate, NextKey, Finish, Execute
  <2>4. CASE GotSum(t) \/ GotSamples(t)
    BY <2>4 DEF GotSum, GotSamples, Finish, Execute
  <2> QED
    BY <1>1, <2>1, <2>2, <2>3, <2>4 DEF TableStep
<1>6. \A u \in Threads, r \in Replicas : ~ Updating(u, c, r)'
  BY <1>3, <1>5
<1>7. \A u \in disturbed : Iterating(u)' => asked[u] # c
  <2>1. disturbed \in SUBSET Threads
    BY DEF HistoryTyped
  <2> QED
    BY <1>4, <1>5, <2>1 DEF Settled
<1> QED
  BY <1>1, <1>6, <1>7 DEF Settled

-----------------------------------------------------------------------------
(* Undisturbed threads stay right *)

(* The results of a minimum are told apart. *)
LEMMA OutcomesDiffer ==
  /\ NoRef \notin Replicas /\ NoRef \notin Errors
  /\ \A e \in Errors : e \notin Replicas
BY TableAssumption

LEMMA NoOutcomeIsSequential ==
  ASSUME NEW t \in Threads, outcome[t] = NoRef
  PROVE  Sequential(t)
BY OutcomesDiffer DEF Sequential, Errors

(* The types of what a minimum compares. *)
LEMMA EntryTyped ==
  ASSUME TypeInv, NEW c \in Clients, NEW r \in Measured(c)
  PROVE  /\ r \in Replicas /\ row[c] \in RowId /\ row[c][1] = c
         /\ bound[row[c]][r] \in RecId
         /\ Entry(c, r).sum \in Nat /\ Entry(c, r).samples \in Nat
<1>1. row[c] \in RowId /\ row[c][1] = c /\ r \in Replicas /\ bound[row[c]][r] # NoRef
  BY DEF TypeInv, RTTypeOK, RefInv, RowsOwned, Measured, InTable, Keys
<1>2. bound[row[c]][r] \in RecId
  BY <1>1 DEF TypeInv, RTTypeOK
<1> QED
  BY <1>1, <1>2 DEF Entry, TypeInv, RTTypeOK

LEMMA SequentialStays ==
  ASSUME NEW t \in Threads, Sequential(t), outcome'[t] = outcome[t],
         asked'[t] = asked[t],
         Measured(asked[t])' = Measured(asked[t]),
         \A r \in Measured(asked[t]) : Entry(asked[t], r)' = Entry(asked[t], r)
  PROVE  Sequential(t)'
<1> DEFINE c == asked[t]
<1>1. ASSUME outcome[t] \in Replicas
      PROVE  /\ outcome[t] \in Measured(c)
             /\ \A r \in Measured(c) : AtMost(c, outcome[t], r)'
  BY <1>1 DEF Sequential, AtMost
<1> QED
  BY <1>1 DEF Sequential, AtMost

LEMMA OthersUndisturbed ==
  ASSUME TypeInv, HistoryTyped, MinInv, NEW t \in Threads, Step(t),
         NEW u \in Threads \ disturbed, u # t
  PROVE  Undisturbed(u)'
<1>1. TableStep(t) /\ asked' = asked /\ Asks(u) /\ Undisturbed(u)
  BY DEF Step, MinInv
<1>2. /\ at'[u] = at[u] /\ stmt'[u] = stmt[u] /\ arg'[u] = arg[u]
      /\ hdRow'[u] = hdRow[u] /\ hdRec'[u] = hdRec[u] /\ val'[u] = val[u]
      /\ iter'[u] = iter[u] /\ outcome'[u] = outcome[u]
  BY <1>1, OthersStay
<1>3. CASE asked[u] \notin Clients
  <2>1. ~ Iterating(u)' /\ outcome'[u] = NoRef /\ asked'[u] \notin Clients
    BY <1>1, <1>2, <1>3 DEF Asks, Iterating
  <2>2. Sequential(u)'
    BY <2>1, OutcomesDiffer DEF Sequential, Errors
  <2> QED
    BY <2>1, <2>2 DEF Undisturbed
<1>4. ASSUME NEW c \in Clients, asked[u] = c
      PROVE  Undisturbed(u)'
  <2>1. Settled(c)
    BY <1>1, <1>4 DEF Undisturbed
  <2>2. /\ row'[c] = row[c] /\ Measured(c)' = Measured(c)
        /\ \A r \in Measured(c) :
              bound'[row[c]][r] = bound[row[c]][r] /\ Entry(c, r)' = Entry(c, r)
    BY <1>1, <1>4, <2>1, Frozen
  <2>3. Settled(c)'
    BY <1>4, <2>1, SettledStays
  <2>4. Sequential(u)'
    BY <1>1, <1>2, <1>4, <2>2, SequentialStays DEF Undisturbed
  <2>5. ASSUME Iterating(u)'
        PROVE  Seen(u)' /\ Sees(u)'
    <3>1. Seen(u) /\ Sees(u)
      BY <1>1, <1>2, <1>4, <2>5 DEF Undisturbed, Iterating
    <3>2. Compared(u)' = Compared(u)
      BY <1>2 DEF Compared, Looking
    <3>3. Seen(u)'
      <4>1. ASSUME at[u] # "iter", iter[u].best # NoRef, NEW r \in Compared(u)
            PROVE  AtMost(c, iter[u].best, r)'
        <5>1. r \in Measured(c) /\ iter[u].best \in Measured(c) /\ AtMost(c, iter[u].best, r)
          BY <1>4, <3>1, <4>1 DEF Seen, Compared
        <5> QED
          BY <1>2, <2>2, <5>1 DEF AtMost
      <4> QED
        BY <1>1, <1>2, <1>4, <2>2, <3>1, <3>2, <4>1 DEF Seen
    <3>4. Sees(u)'
      <4> DEFINE r == arg[u][2]
      <4> SUFFICES ASSUME Looking(u) PROVE Sees(u)'
        BY <1>2 DEF Sees, Looking
      <4>1. r \in Measured(c)
        BY <1>4, <3>1 DEF Sees
      <4>2. at[u] = "got" => val[u] = Field(hdRec[u], stmt[u])'
        BY <1>2, <1>4, <2>2, <3>1, <4>1 DEF Sees, Field, Entry
      <4> QED
        BY <1>1, <1>2, <1>4, <2>2, <3>1, <4>1, <4>2 DEF Sees
    <3> QED
      BY <3>3, <3>4
  <2> QED
    BY <1>1, <1>4, <2>3, <2>4, <2>5 DEF Undisturbed
<1> QED
  BY <1>3, <1>4

(* A lookup of the minimum itself finds the row and the record. *)
LEMMA LookupSees ==
  ASSUME TypeInv, HistoryTyped, NEW c \in Clients, NEW t \in Threads, asked[t] = c,
         Iterating(t), Seen(t), Sees(t), Asks(t), asked' = asked,
         Outer(t) \/ MakeRow(t) \/ Inner(t) \/ MakeRec(t) \/ Read(t)
  PROVE  Seen(t)' /\ Sees(t)' /\ outcome' = outcome
<1> DEFINE r == arg[t][2]
<1> USE DEF TypeInv, RTTypeOK
<1>1. Looking(t) /\ arg[t][1] = c
  BY DEF Outer, MakeRow, Inner, MakeRec, Read, Looking, Asks
<1>2. r \in Measured(c) /\ at[t] \notin {"mkrow", "mkrec"} /\ row[c] # NoRef
      /\ bound[row[c]][r] # NoRef
  BY <1>1 DEF Sees, Measured, InTable, Keys
<1>3. /\ UNCHANGED <<row, bound, rec, stmt, arg, iter, outcome>>
      /\ Looking(t)'
  BY <1>1, <1>2 DEF Outer, MakeRow, Inner, MakeRec, Read, Looking
<1>4. Measured(c)' = Measured(c) /\ \A k : Entry(c, k)' = Entry(c, k)
  BY <1>3 DEF Measured, InTable, Keys, Entry
<1>5. Compared(t)' = Compared(t) /\ at[t] # "iter" /\ at'[t] # "iter"
  BY <1>1, <1>3 DEF Compared, Looking
<1>6. Seen(t)'
  BY <1>3, <1>4, <1>5 DEF Seen, AtMost
<1>7. CASE Outer(t)
  <2>1. at'[t] = "inner" /\ hdRow'[t] = row[c]
    BY <1>1, <1>2, <1>7 DEF Outer, InTable
  <2> QED
    BY <1>1, <1>3, <1>4, <1>6, <2>1 DEF Sees
<1>8. CASE Inner(t)
  <2>1. at'[t] = "read" /\ hdRec'[t] = bound[row[c]][r]
    BY <1>1, <1>2, <1>8 DEF Inner, Sees
  <2> QED
    BY <1>1, <1>3, <1>4, <1>6, <2>1 DEF Sees
<1>9. CASE Read(t)
  <2>1. at'[t] = "got" /\ hdRec' = hdRec /\ val'[t] = Field(hdRec[t], stmt[t])
    BY <1>9 DEF Read
  <2>2. Field(hdRec[t], stmt[t])' = Field(hdRec[t], stmt[t])
    BY <1>3, <2>1 DEF Field
  <2>3. hdRec[t] = bound[row[c]][r]
    BY <1>1, <1>9 DEF Read, Sees
  <2> QED
    BY <1>1, <1>3, <1>4, <1>6, <2>1, <2>2, <2>3 DEF Sees
<1> QED
  BY <1>2, <1>7, <1>8, <1>9 DEF MakeRow, MakeRec

(* The next key, and the ends of the minimum. *)
LEMMA KeySees ==
  ASSUME TypeInv, HistoryTyped, NEW c \in Clients, NEW t \in Threads, asked[t] = c,
         Iterating(t), Seen(t), Asks(t), asked' = asked,
         Iterate(t) \/ NextKey(t)
  PROVE  /\ Iterating(t)' => Seen(t)' /\ Sees(t)'
         /\ Sequential(t)'
<1> USE DEF TypeInv, RTTypeOK
<1>1. UNCHANGED <<row, bound, rec>>
  BY DEF Iterate, NextKey
<1>2. row[c] # NoRef /\ iter[t].dict = row[c] /\ Keys(iter[t].dict) = Measured(c)
      /\ iter[t] \in Iter
  BY DEF RefInv, HeldIter, Seen, Measured, InTable
<1>3. Measured(c)' = Measured(c) /\ \A k : Entry(c, k)' = Entry(c, k)
  BY <1>1 DEF Measured, InTable, Keys, Entry
<1>4. CASE Iterate(t)
  <2>1. /\ at'[t] = "next" /\ outcome' = outcome
        /\ iter'[t] = [iter[t] EXCEPT !.keys = Measured(c), !.todo = Measured(c)]
    BY <1>2, <1>4 DEF Iterate
  <2>2. /\ iter'[t].keys = Measured(c) /\ iter'[t].todo = Measured(c)
        /\ iter'[t].dict = row[c] /\ iter'[t].best = iter[t].best
    BY <1>2, <2>1 DEF Iter
  <2>3. iter[t].best = NoRef
    BY <1>4 DEF Iterate, Seen
  <2>4. Seen(t)' /\ Sees(t)'
    BY <1>1, <1>3, <2>1, <2>2, <2>3 DEF Seen, Sees, Compared, Looking
  <2>5. Sequential(t)'
    BY <2>1, OutcomesDiffer DEF Asks, Sequential, Errors
  <2> QED
    BY <2>4, <2>5
<1>5. CASE NextKey(t)
  <2> DEFINE it == iter[t]
  <2>1. /\ at[t] = "next" /\ Keys(it.dict) = it.keys /\ it.keys = Measured(c)
        /\ Compared(t) = it.keys \ it.todo
    BY <1>2, <1>5 DEF NextKey, Seen, Compared, Looking
  <2>2. CASE it.todo = {} /\ Finish(t, IF it.best = NoRef THEN "ValueError" ELSE it.best)
    <3>1. at'[t] = "idle" /\ outcome'[t] = IF it.best = NoRef THEN "ValueError" ELSE it.best
      BY <2>2 DEF Finish
    <3>2. ~ Iterating(t)'
      BY <3>1 DEF Iterating
    <3>3. CASE it.best = NoRef
      <4>1. Measured(c) = {}
        BY <2>1, <2>2, <3>3 DEF Seen
      <4>2. outcome'[t] = "ValueError" /\ "ValueError" \in Errors
        BY <3>1, <3>3 DEF Errors
      <4> QED
        BY <1>3, <3>2, <4>1, <4>2, OutcomesDiffer DEF Sequential
    <3>4. CASE it.best # NoRef
      <4>1. /\ it.best \in Measured(c) /\ \A k \in Measured(c) : AtMost(c, it.best, k)
        BY <2>1, <2>2, <3>4 DEF Seen
      <4>2. \A k \in Measured(c) : AtMost(c, outcome[t], k)'
        BY <1>3, <3>1, <3>4, <4>1 DEF AtMost
      <4>3. outcome'[t] \in Replicas
        BY <3>1, <3>4, <4>1, EntryTyped
      <4>4. outcome'[t] \notin Errors
        BY <4>3, OutcomesDiffer
      <4> QED
        BY <1>3, <3>1, <3>2, <3>4, <4>1, <4>2, <4>4 DEF Sequential, Errors
    <3> QED
      BY <3>3, <3>4
  <2>3. ASSUME NEW r \in it.todo, Execute(t, "avgsum", it.dict[1], r),
               iter' = [iter EXCEPT ![t].todo = it.todo \ {r}], outcome' = outcome
        PROVE  /\ Seen(t)' /\ Sees(t)' /\ Sequential(t)'
    <3>1. /\ at'[t] = "outer" /\ stmt'[t] = "avgsum" /\ arg'[t][2] = r
      BY <2>3 DEF Execute
    <3>2. /\ iter'[t].todo = it.todo \ {r} /\ iter'[t].keys = it.keys
          /\ iter'[t].dict = it.dict /\ iter'[t].best = it.best
          /\ iter'[t].bestSum = it.bestSum /\ iter'[t].bestSamples = it.bestSamples
      BY <1>2, <2>3 DEF Iter
    <3>3. r \in Measured(c) /\ it.todo \subseteq it.keys
      BY <2>1, <2>3 DEF Seen
    <3>4. Compared(t)' = Compared(t)
      BY <2>1, <3>1, <3>2, <3>3 DEF Compared, Looking
    <3>5. ASSUME it.best # NoRef, NEW k \in Compared(t)
          PROVE  AtMost(c, it.best, k)'
      BY <1>3, <2>1, <3>2, <3>5 DEF Seen, AtMost
    <3>6. Seen(t)'
      BY <1>1, <1>2, <1>3, <2>1, <3>1, <3>2, <3>3, <3>4, <3>5 DEF Seen
    <3>7. Sees(t)'
      BY <1>1, <1>3, <3>1, <3>2, <3>3 DEF Sees
    <3>8. Sequential(t)'
      BY <2>3, OutcomesDiffer DEF Asks, Sequential, Errors
    <3> QED
      BY <3>6, <3>7, <3>8
  <2> QED
    BY <1>5, <2>1, <2>2, <2>3 DEF NextKey, Iterating, Finish
<1> QED
  BY <1>4, <1>5

(* The terms of an average. *)
LEMMA SumSees ==
  ASSUME TypeInv, HistoryTyped, NEW c \in Clients, NEW t \in Threads, asked[t] = c,
         Seen(t), Sees(t), asked' = asked, GotSum(t)
  PROVE  Seen(t)' /\ Sees(t)'
<1> USE DEF TypeInv, RTTypeOK
<1> DEFINE r == arg[t][2]
<1>1. UNCHANGED <<row, bound, rec, outcome>>
  BY DEF GotSum
<1>2. Measured(c)' = Measured(c) /\ \A k : Entry(c, k)' = Entry(c, k)
  BY <1>1 DEF Measured, InTable, Keys, Entry
<1>3. Looking(t) /\ Looking(t)' /\ at'[t] = "outer" /\ stmt'[t] = "avgsamples" /\ arg'[t][2] = r
  BY DEF GotSum, Execute, Looking
<1>4. iter[t] \in Iter /\ iter' = [iter EXCEPT ![t].sum = val[t]]
  BY DEF GotSum
<1>5. /\ iter'[t].todo = iter[t].todo /\ iter'[t].keys = iter[t].keys
      /\ iter'[t].dict = iter[t].dict /\ iter'[t].best = iter[t].best
      /\ iter'[t].bestSum = iter[t].bestSum /\ iter'[t].bestSamples = iter[t].bestSamples
      /\ iter'[t].sum = val[t]
  BY <1>4 DEF Iter
<1>6. val[t] = Entry(c, r).sum
  BY <1>3 DEF GotSum, Sees, Field, Entry
<1>7. Compared(t)' = Compared(t) /\ at[t] # "iter"
  BY <1>3, <1>5 DEF Compared, Looking
<1>8. Seen(t)'
  BY <1>1, <1>2, <1>3, <1>5, <1>7 DEF Seen, AtMost
<1>9. Sees(t)'
  BY <1>1, <1>2, <1>3, <1>5, <1>6 DEF Sees
<1> QED
  BY <1>8, <1>9

LEMMA SamplesSee ==
  ASSUME TypeInv, HistoryTyped, NEW c \in Clients, NEW t \in Threads, asked[t] = c,
         Seen(t), Sees(t), Asks(t), asked' = asked, GotSamples(t)
  PROVE  /\ Iterating(t)' => Seen(t)' /\ Sees(t)'
         /\ Sequential(t)'
<1> USE DEF TypeInv, RTTypeOK
<1> DEFINE r == arg[t][2]
           it == iter[t]
<1>1. UNCHANGED <<row, bound, rec>>
  BY DEF GotSamples
<1>2. Measured(c)' = Measured(c) /\ \A k : Entry(c, k)' = Entry(c, k)
  BY <1>1 DEF Measured, InTable, Keys, Entry
<1>3. /\ Looking(t) /\ Iterating(t) /\ r \in Measured(c) /\ r \notin it.todo
      /\ at[t] # "iter"
      /\ it.sum = Entry(c, r).sum /\ val[t] = Entry(c, r).samples /\ outcome[t] = NoRef
  BY DEF GotSamples, Looking, Iterating, Sees, Field, Entry, Asks
<1>4. CASE val[t] = 0
  <2>1. at'[t] = "idle" /\ outcome'[t] = "ZeroDivisionError"
    BY <1>4 DEF GotSamples, Finish
  <2>2. "ZeroDivisionError" \in Errors /\ outcome'[t] \notin Replicas
    BY <2>1, OutcomesDiffer DEF Errors
  <2>3. \E k \in Measured(c) : Entry(c, k).samples = 0
    BY <1>3, <1>4
  <2>4. \E k \in Measured(c)' : Entry(c, k)'.samples = 0
    BY <1>2, <2>3
  <2> QED
    BY <2>1, <2>2, <2>4 DEF Sequential, Iterating
<1>5. CASE val[t] # 0
  <2>1. at'[t] = "next" /\ outcome' = outcome
    BY <1>5 DEF GotSamples
  <2>2. Sequential(t)'
    BY <1>3, <2>1, OutcomesDiffer DEF Sequential, Errors
  <2>3. /\ iter'[t].dict = it.dict /\ iter'[t].keys = it.keys /\ iter'[t].todo = it.todo
        /\ \/ /\ it.best = NoRef \/ Below(it.sum, val[t], it.bestSum, it.bestSamples)
              /\ iter'[t].best = r /\ iter'[t].bestSum = it.sum
              /\ iter'[t].bestSamples = val[t]
           \/ /\ it.best # NoRef /\ ~ Below(it.sum, val[t], it.bestSum, it.bestSamples)
              /\ iter'[t].best = it.best /\ iter'[t].bestSum = it.bestSum
              /\ iter'[t].bestSamples = it.bestSamples
    BY <2>1, GotSamplesIter
  <2>4. it.keys = Measured(c) /\ Compared(t)' = Compared(t) \cup {r}
        /\ Compared(t) \subseteq Measured(c)
    BY <1>3, <2>1, <2>3 DEF Seen, Compared, Looking
  <2>5. Sees(t)'
    BY <2>1 DEF Sees, Looking
  <2>6. it.best # NoRef =>
          /\ it.best \in Measured(c) /\ it.bestSum = Entry(c, it.best).sum
          /\ it.bestSamples = Entry(c, it.best).samples
          /\ it.bestSamples \in Nat \ {0}
          /\ \A k \in Compared(t) : AtMost(c, it.best, k)
    BY <1>3 DEF Seen, Iter
  <2>7. \A k \in Measured(c) : Entry(c, k).sum \in Nat /\ Entry(c, k).samples \in Nat
    BY EntryTyped
  <2>8. r # NoRef
    BY <1>3, EntryTyped, OutcomesDiffer
  <2>9. CASE /\ it.best = NoRef \/ Below(it.sum, val[t], it.bestSum, it.bestSamples)
             /\ iter'[t].best = r /\ iter'[t].bestSum = it.sum
             /\ iter'[t].bestSamples = val[t]
    <3>1. ASSUME NEW k \in Compared(t) \cup {r}
          PROVE  AtMost(c, r, k)
      <4>1. CASE k = r
        BY <1>3, <2>7, <4>1 DEF AtMost
      <4>2. CASE k \in Compared(t)
        <5>1. it.best # NoRef
          BY <1>3, <4>2 DEF Seen
        <5>2. Entry(c, r).sum * it.bestSamples <= it.bestSum * Entry(c, r).samples
          BY <1>3, <2>6, <2>7, <2>9, <5>1 DEF Below
        <5>3. it.bestSum * Entry(c, k).samples <= Entry(c, k).sum * it.bestSamples
          BY <2>6, <4>2, <5>1 DEF AtMost
        <5>4. k \in Measured(c) /\ it.bestSum \in Nat
          BY <2>4, <2>6, <2>7, <4>2, <5>1
        <5> QED
          BY <1>3, <2>6, <2>7, <5>1, <5>2, <5>3, <5>4, FractionsTransitive DEF AtMost
      <4> QED
        BY <4>1, <4>2
    <3>2. \A k \in Compared(t)' : AtMost(c, iter[t].best, k)'
      BY <1>2, <2>4, <2>9, <3>1 DEF AtMost
    <3> QED
      BY <1>1, <1>2, <1>3, <2>1, <2>2, <2>3, <2>4, <2>5, <2>8, <2>9, <3>2 DEF Seen
  <2>10. CASE /\ it.best # NoRef /\ ~ Below(it.sum, val[t], it.bestSum, it.bestSamples)
              /\ iter'[t].best = it.best /\ iter'[t].bestSum = it.bestSum
              /\ iter'[t].bestSamples = it.bestSamples
    <3>1. AtMost(c, it.best, r)
      BY <1>3, <2>6, <2>7, <2>10 DEF AtMost, Below
    <3>2. \A k \in Compared(t)' : AtMost(c, iter[t].best, k)'
      BY <1>2, <2>4, <2>6, <2>10, <3>1 DEF AtMost
    <3> QED
      BY <1>1, <1>2, <1>3, <2>1, <2>2, <2>3, <2>4, <2>5, <2>6, <2>10, <3>2 DEF Seen
  <2> QED
    BY <2>3, <2>9, <2>10
<1> QED
  BY <1>4, <1>5

LEMMA SelfUndisturbed ==
  ASSUME TypeInv, HistoryTyped, MinInv, NEW t \in Threads \ disturbed, Step(t)
  PROVE  Undisturbed(t)'
<1>1. TableStep(t) /\ asked' = asked /\ Asks(t) /\ Undisturbed(t)
  BY DEF Step, MinInv
<1>2. CASE ~ Iterating(t)
  <2>1. outcome' = outcome /\ ~ Iterating(t)'
    <3>1. CASE Outer(t) \/ MakeRow(t) \/ Inner(t) \/ MakeRec(t) \/ Read(t)
      <4>1. /\ at[t] \in {"outer", "mkrow", "inner", "mkrec", "read"} /\ stmt' = stmt
            /\ outcome' = outcome /\ at'[t] \in {"mkrow", "inner", "mkrec", "read", "got"}
        BY <3>1 DEF Outer, MakeRow, Inner, MakeRec, Read, TypeInv, RTTypeOK
      <4> QED
        BY <1>2, <4>1 DEF Iterating
    <3>2. CASE StoreSum(t) \/ StoreMinMax(t) \/ StoreSamples(t)
      BY <3>2 DEF StoreSum, StoreMinMax, StoreSamples, Execute, Iterating, TypeInv, RTTypeOK
    <3>3. CASE Iterate(t) \/ NextKey(t) \/ GotSum(t) \/ GotSamples(t)
      BY <1>2, <3>3 DEF Iterate, NextKey, GotSum, GotSamples, Iterating
    <3> QED
      BY <1>1, <3>1, <3>2, <3>3 DEF TableStep
  <2>2. CASE asked[t] \notin Clients
    <3>1. outcome'[t] = NoRef
      BY <1>1, <2>1, <2>2 DEF Asks
    <3>2. Sequential(t)'
      BY <3>1, OutcomesDiffer DEF Sequential, Errors
    <3> QED
      BY <1>1, <2>1, <2>2, <3>2 DEF Undisturbed
  <2>3. ASSUME NEW c \in Clients, asked[t] = c
        PROVE  Undisturbed(t)'
    <3>1. Settled(c)
      BY <1>1, <2>3 DEF Undisturbed
    <3>2. Settled(c)'
      BY <3>1, SettledStays
    <3>3. Sequential(t)'
      BY <1>1, <2>1, <2>3, <3>1, Frozen, SequentialStays DEF Undisturbed
    <3> QED
      BY <1>1, <2>1, <2>3, <3>2, <3>3 DEF Undisturbed
  <2> QED
    BY <2>2, <2>3
<1>3. CASE Iterating(t)
  <2>1. PICK c \in Clients : asked[t] = c
    BY <1>1, <1>3 DEF Asks
  <2>2. Seen(t) /\ Sees(t) /\ outcome[t] = NoRef /\ Settled(c)
    BY <1>1, <1>3, <2>1 DEF Undisturbed, Asks
  <2>3. Settled(c)'
    BY <2>2, SettledStays
  <2>4. outcome'[t] = NoRef => Sequential(t)'
    BY OutcomesDiffer DEF Sequential, Errors
  <2>5. (Iterating(t)' => Seen(t)' /\ Sees(t)') /\ Sequential(t)'
    <3>1. CASE Outer(t) \/ MakeRow(t) \/ Inner(t) \/ MakeRec(t) \/ Read(t)
      BY <1>1, <1>3, <2>1, <2>2, <2>4, <3>1, LookupSees
    <3>2. CASE Iterate(t) \/ NextKey(t)
      BY <1>1, <1>3, <2>1, <2>2, <3>2, KeySees
    <3>3. CASE GotSum(t)
      <4>1. outcome' = outcome
        BY <3>3 DEF GotSum
      <4> QED
        BY <1>1, <2>1, <2>2, <2>4, <3>3, <4>1, SumSees
    <3>4. CASE GotSamples(t)
      BY <1>1, <2>1, <2>2, <3>4, SamplesSee
    <3>5. CASE StoreSum(t) \/ StoreMinMax(t) \/ StoreSamples(t)
      BY <1>3, <3>5 DEF StoreSum, StoreMinMax, StoreSamples, Iterating
    <3> QED
      BY <1>1, <3>1, <3>2, <3>3, <3>4, <3>5 DEF TableStep
  <2> QED
    BY <1>1, <2>1, <2>3, <2>5 DEF Undisturbed
<1> QED
  BY <1>2, <1>3

-----------------------------------------------------------------------------
(* The invariant *)

LEMMA InitMinInv == Init => TypeInv /\ HistoryTyped /\ MinInv
<1> SUFFICES ASSUME Init PROVE TypeInv /\ HistoryTyped /\ MinInv
  OBVIOUS
<1>1. TypeInv /\ HistoryTyped
  BY InitTypeInv DEF Init, HistoryTyped
<1>2. \A t \in Threads : at[t] = "idle" /\ outcome[t] = NoRef
  BY DEF Init, RTInit
<1>3. \A t \in Threads : Asks(t)
  BY <1>2 DEF Asks, Iterating
<1>4. \A c : Settled(c)
  BY <1>2 DEF Init, Settled, Updating
<1>5. \A t \in Threads : Undisturbed(t)
  BY <1>2, <1>4, NoOutcomeIsSequential DEF Undisturbed, Iterating
<1> QED
  BY <1>1, <1>3, <1>5 DEF MinInv

(* A min(...) that begins when its client has settled begins well, and     *)
(* does not disturb the others.                                            *)
LEMMA ResolveUndisturbed ==
  ASSUME TypeInv, HistoryTyped, MinInv, NEW t \in Threads, Resolve(t),
         NEW u \in Threads \ disturbed'
  PROVE  Undisturbed(u)'
<1>1. PICK c \in Clients :
        /\ BestReplica(t, c)
        /\ asked' = [asked EXCEPT ![t] = c]
        /\ disturbed' = IF Settled(c) THEN disturbed \ {t} ELSE disturbed \cup {t}
  BY DEF Resolve
<1>2. UNCHANGED <<row, bound, rec>> /\ at[t] = "idle" /\ row[c] # NoRef
  BY <1>1 DEF BestReplica, InTable
<1>3. /\ at'[t] = "iter" /\ iter'[t] = [NoIter EXCEPT !.dict = row[c]]
      /\ outcome'[t] = NoRef /\ asked'[t] = c
  BY <1>1 DEF BestReplica, TypeInv, RTTypeOK, HistoryTyped
<1>4. \A v \in Threads \ {t} :
        /\ at'[v] = at[v] /\ stmt'[v] = stmt[v] /\ arg'[v] = arg[v]
        /\ hdRow'[v] = hdRow[v] /\ hdRec'[v] = hdRec[v] /\ val'[v] = val[v]
        /\ iter'[v] = iter[v] /\ outcome'[v] = outcome[v] /\ asked'[v] = asked[v]
  BY <1>1, OthersStay
<1>5. disturbed \in SUBSET Threads
  BY DEF HistoryTyped
<1>6. ASSUME NEW d \in Clients, Settled(d), d # c \/ Settled(c)
      PROVE  Settled(d)'
  <2>1. \A v \in Threads, r \in Replicas : ~ Updating(v, d, r)'
    <3>1. \A r \in Replicas : ~ Updating(t, d, r)'
      BY <1>3 DEF Updating
    <3>2. \A v \in Threads \ {t}, r \in Replicas : ~ Updating(v, d, r)'
      BY <1>4, <1>6 DEF Updating, Settled
    <3> QED
      BY <3>1, <3>2
  <2>2. ASSUME NEW v \in disturbed', Iterating(v)'
        PROVE  asked'[v] # d
    <3>1. CASE v = t
      BY <1>1, <1>3, <1>6, <2>2, <3>1
    <3>2. CASE v # t
      <4>1. v \in disturbed /\ v \in Threads
        BY <1>1, <1>5, <2>2, <3>2
      <4>2. Iterating(v)
        BY <1>4, <2>2, <3>2, <4>1 DEF Iterating
      <4> QED
        BY <1>4, <1>6, <3>2, <4>1, <4>2 DEF Settled
    <3> QED
      BY <3>1, <3>2
  <2> QED
    BY <2>1, <2>2 DEF Settled
<1>7. CASE u = t
  <2>1. Settled(c)
    BY <1>1, <1>7
  <2>2. Settled(c)'
    BY <1>6, <2>1
  <2>3. /\ iter'[t].dict = row[c] /\ iter'[t].best = NoRef
    <3>1. row[c] \in RowId
      BY <1>2 DEF TypeInv, RTTypeOK
    <3> QED
      BY <1>3, <3>1 DEF NoIter
  <2>4. Seen(t)' /\ Sees(t)'
    BY <1>2, <1>3, <2>3 DEF Seen, Sees, Looking
  <2>5. Sequential(t)'
    BY <1>3, OutcomesDiffer DEF Sequential, Errors
  <2> QED
    BY <1>3, <1>7, <2>2, <2>4, <2>5 DEF Undisturbed
<1>8. CASE u # t
  <2>1. u \in Threads /\ u \notin disturbed
    BY <1>1, <1>8
  <2>2. Undisturbed(u)
    BY <2>1 DEF MinInv
  <2>3. ASSUME NEW d \in Clients, asked[u] = d
        PROVE  Settled(d)'
    <3>1. Settled(d)
      BY <2>2, <2>3 DEF Undisturbed
    <3> QED
      BY <1>6, <3>1
  <2>4. \A d, k : Measured(d)' = Measured(d) /\ Entry(d, k)' = Entry(d, k)
    BY <1>2 DEF Measured, InTable, Keys, Entry
  <2>5. Sequential(u)'
    BY <1>4, <1>8, <2>1, <2>2, <2>4 DEF Undisturbed, Sequential, AtMost
  <2>6. ASSUME Iterating(u)' PROVE Seen(u)' /\ Sees(u)'
    <3>1. Seen(u) /\ Sees(u)
      BY <1>4, <1>8, <2>1, <2>2, <2>6 DEF Undisturbed, Iterating
    <3>2. Seen(u)'
      BY <1>2, <1>4, <1>8, <2>1, <2>4, <3>1 DEF Seen, AtMost, Compared, Looking
    <3>3. Sees(u)'
      BY <1>2, <1>4, <1>8, <2>1, <2>4, <3>1 DEF Sees, Field, Looking
    <3> QED
      BY <3>2, <3>3
  <2>7. asked'[u] = asked[u]
    BY <1>4, <1>8, <2>1
  <2> QED
    BY <2>3, <2>5, <2>6, <2>7 DEF Undisturbed
<1> QED
  BY <1>7, <1>8

LEMMA NextMinInv ==
  TypeInv /\ HistoryTyped /\ MinInv /\ [Next]_vars => TypeInv' /\ HistoryTyped' /\ MinInv'
<1> SUFFICES ASSUME TypeInv, HistoryTyped, MinInv, [Next]_vars
             PROVE  TypeInv' /\ HistoryTyped' /\ MinInv'
  OBVIOUS
<1>1. TypeInv' /\ HistoryTyped'
  BY NextTypeInv
<1>2. ASSUME NEW t \in Threads, Update(t)
      PROVE  MinInv'
  <2>1. \A u \in Threads : Asks(u)'
    BY <1>2, AsksStep DEF MinInv
  <2>2. disturbed' = Threads
    BY <1>2 DEF Update
  <2> QED
    BY <2>1, <2>2 DEF MinInv
<1>3. ASSUME NEW t \in Threads, Resolve(t)
      PROVE  MinInv'
  <2>1. \A u \in Threads : Asks(u)'
    BY <1>3, AsksStep DEF MinInv
  <2>2. \A u \in Threads \ disturbed' : Undisturbed(u)'
    BY <1>3, ResolveUndisturbed
  <2> QED
    BY <2>1, <2>2 DEF MinInv
<1>4. ASSUME NEW t \in Threads, Step(t)
      PROVE  MinInv'
  <2>1. \A u \in Threads : Asks(u)'
    BY <1>4, AsksStep DEF MinInv
  <2>2. disturbed' = disturbed
    BY <1>4 DEF Step
  <2>3. \A u \in Threads \ disturbed : Undisturbed(u)'
    BY <1>4, OthersUndisturbed, SelfUndisturbed
  <2> QED
    BY <2>1, <2>2, <2>3 DEF MinInv
<1>5. CASE UNCHANGED vars
  <2>1. UNCHANGED <<row, bound, rec, at, stmt, arg, hdRow, hdRec, val, iter, outcome,
                    asked, disturbed>>
    BY <1>5 DEF vars
  <2>2. \A t \in Threads : Asks(t)'
    BY <2>1 DEF MinInv, Asks, Iterating, Looking
  <2>3. \A c, r : Measured(c)' = Measured(c) /\ Entry(c, r)' = Entry(c, r)
    BY <2>1 DEF Measured, InTable, Keys, Entry
  <2>4. ASSUME NEW t \in Threads \ disturbed PROVE Undisturbed(t)'
    <3>1. Undisturbed(t)
      BY DEF MinInv
    <3>2. Iterating(t)' => Seen(t)' /\ Sees(t)'
      BY <2>1, <2>3, <3>1
         DEF Undisturbed, Iterating, Seen, Sees, Compared, Looking, AtMost, Field
    <3>3. Sequential(t)'
      BY <2>1, <2>3, <3>1 DEF Undisturbed, Sequential, AtMost
    <3>4. asked'[t] \in Clients => Settled(asked[t])'
      BY <2>1, <3>1 DEF Undisturbed, Settled, Updating, Iterating
    <3> QED
      BY <3>2, <3>3, <3>4 DEF Undisturbed
  <2>5. disturbed' = disturbed
    BY <2>1
  <2>6. \A t \in Threads \ disturbed' : Undisturbed(t)'
    BY <2>4, <2>5
  <2> QED
    BY <1>1, <2>2, <2>6 DEF MinInv
<1> QED
  BY <1>1, <1>2, <1>3, <1>4, <1>5 DEF Next

THEOREM MinimumInvariant == Spec => [](TypeInv /\ HistoryTyped /\ MinInv)
  BY InitMinInv, NextMinInv, PTL DEF Spec

(* A min(...) that no update_latency overlaps computes what resolve means, *)
(* whatever other threads measure, and however many read.                  *)
THEOREM UndisturbedMinimum == Spec => []UndisturbedIsSequential
<1>1. MinInv => UndisturbedIsSequential
  BY DEF MinInv, Undisturbed, Sequential, AtMost, UndisturbedIsSequential
<1> QED
  BY <1>1, MinimumInvariant, PTL

-----------------------------------------------------------------------------
(* One updater: nothing is lost, and the best replica is the nearest.      *)

SoleUpdater == \A t, u \in Updaters : t = u

Adding(t) == Looking(t) /\ stmt[t] \in {"sum", "minmax", "samples"}

(* Only a row that is bound has keys, and only a record that is bound has  *)
(* counted anything.                                                       *)
OthersEmpty == \A d \in RowId, r \in Replicas : row[d[1]] # d => bound[d][r] = NoRef
OthersZero == \A e \in RecId : bound[<<e[1], e[2]>>][e[3]] # e => rec[e] = ZeroRecord
RecordsNamed == \A d \in RowId, r \in Replicas :
                  bound[d][r] # NoRef => bound[d][r][2] = d[2]

(* The references of a thread are to what is bound; what it is about to    *)
(* make, there is none of; and what it has read is still there.            *)
Finds(t) ==
  LET c == arg[t][1]
      r == arg[t][2] IN
  Looking(t) =>
    /\ stmt[t] # "sum" => r \in Measured(c)
    /\ at[t] = "mkrow" => row[c] = NoRef
    /\ at[t] \in {"inner", "mkrec"} => hdRow[t] = row[c]
    /\ at[t] = "mkrec" => r \notin Measured(c)
    /\ at[t] \in {"read", "got"} => r \in Measured(c) /\ hdRec[t] = bound[row[c]][r]
    /\ at[t] = "got" /\ stmt[t] = "sum" => val[t] = rec[hdRec[t]].sum
    /\ at[t] = "got" /\ stmt[t] = "samples" => val[t] = rec[hdRec[t]].samples

Iterates(t) ==
  Iterating(t) =>
    /\ iter[t].dict = row[iter[t].dict[1]]
    /\ at[t] # "iter" => iter[t].todo \subseteq Keys(iter[t].dict)

SoleInv ==
  /\ \A t \in Threads : Adding(t) => t \in Updaters
  /\ OthersEmpty
  /\ OthersZero
  /\ RecordsNamed
  /\ \A t \in Threads : Finds(t) /\ Iterates(t)

-----------------------------------------------------------------------------
(* What a lookup makes, it makes for the first statement, of the updater.  *)
LEMMA MakersAdd ==
  ASSUME TypeInv, SoleInv, NEW t \in Threads, at[t] \in {"mkrow", "mkrec"}
  PROVE  stmt[t] = "sum" /\ Adding(t) /\ t \in Updaters
<1>1. Looking(t) /\ Finds(t)
  BY DEF Looking, SoleInv
<1>2. stmt[t] = "sum"
  BY <1>1 DEF Finds, Measured, InTable
<1> QED
  BY <1>1, <1>2 DEF Adding, SoleInv

(* Nobody else adds while a thread does. *)
LEMMA OneAdds ==
  ASSUME SoleUpdater, SoleInv, NEW t \in Threads, Adding(t), NEW u \in Threads, u # t
  PROVE  ~ Adding(u)
BY DEF SoleUpdater, SoleInv

(* A step that leaves the table alone. *)
LEMMA QuietSoleInv ==
  ASSUME TypeInv, SoleInv, NEW t \in Threads,
         \/ TableStep(t)
         \/ \E c \in Clients, r \in Replicas : UpdateLatency(t, c, r)
         \/ \E c \in Clients : BestReplica(t, c),
         UNCHANGED <<row, bound, rec>>,
         Adding(t)' => t \in Updaters, Finds(t)', Iterates(t)'
  PROVE  SoleInv'
<1>1. \A u \in Threads \ {t} :
        /\ at'[u] = at[u] /\ stmt'[u] = stmt[u] /\ arg'[u] = arg[u]
        /\ hdRow'[u] = hdRow[u] /\ hdRec'[u] = hdRec[u] /\ val'[u] = val[u]
        /\ iter'[u] = iter[u]
  BY OthersStay
<1>2. \A c : Measured(c)' = Measured(c)
  BY DEF Measured, InTable, Keys
<1>3. OthersEmpty' /\ OthersZero' /\ RecordsNamed'
  BY DEF SoleInv, OthersEmpty, OthersZero, RecordsNamed
<1>4. \A u \in Threads \ {t} : Finds(u)'
  BY <1>1, <1>2 DEF SoleInv, Finds, Looking
<1>5. \A u \in Threads \ {t} : Iterates(u)'
  BY <1>1 DEF SoleInv, Iterates, Iterating, Keys
<1>6. \A u \in Threads \ {t} : Adding(u)' => u \in Updaters
  BY <1>1 DEF SoleInv, Adding, Looking
<1> QED
  BY <1>3, <1>4, <1>5, <1>6 DEF SoleInv

LEMMA LookupSoleInv ==
  ASSUME TypeInv, SoleInv, NEW t \in Threads, Outer(t) \/ Inner(t) \/ Read(t)
  PROVE  SoleInv'
<1> USE DEF TypeInv, RTTypeOK
<1> DEFINE c == arg[t][1]
           r == arg[t][2]
<1>1. UNCHANGED <<row, bound, rec, stmt, arg, iter>> /\ Looking(t) /\ Looking(t)' /\ TableStep(t)
  BY DEF Outer, Inner, Read, Looking, TableStep
<1>2. Finds(t) /\ Iterates(t) /\ c \in Clients /\ r \in Replicas
  BY DEF SoleInv
<1>3. Measured(c)' = Measured(c)
  BY <1>1 DEF Measured, InTable, Keys
<1>4. Iterates(t)'
  BY <1>1, <1>2 DEF Iterates, Iterating, Keys, Looking
<1>5. Adding(t)' => t \in Updaters
  BY <1>1 DEF SoleInv, Adding
<1>6. Finds(t)'
  <2>1. CASE Outer(t)
    <3>1. at'[t] = (IF row[c] # NoRef THEN "inner" ELSE "mkrow") /\ hdRow'[t] = row[c]
      BY <2>1 DEF Outer, InTable
    <3> QED
      BY <1>1, <1>2, <1>3, <3>1 DEF Finds
  <2>2. CASE Inner(t)
    <3>1. hdRow[t] = row[c] /\ row[c] # NoRef
      BY <1>1, <1>2, <2>2 DEF Inner, Finds, RefInv, HeldRow
    <3>2. /\ hdRec'[t] = bound[row[c]][r]
          /\ at'[t] = IF r \in Measured(c) THEN "read" ELSE "mkrec"
      BY <1>2, <2>2, <3>1 DEF Inner, Measured, InTable, Keys
    <3>3. hdRow' = hdRow
      BY <2>2 DEF Inner
    <3> QED
      BY <1>1, <1>2, <1>3, <3>1, <3>2, <3>3 DEF Finds
  <2>3. CASE Read(t)
    <3>1. at[t] = "read" /\ at'[t] = "got" /\ hdRec' = hdRec /\ val'[t] = Field(hdRec[t], stmt[t])
      BY <2>3 DEF Read
    <3>2. r \in Measured(c) /\ hdRec[t] = bound[row[c]][r]
      BY <1>1, <1>2, <3>1 DEF Finds
    <3>3. /\ stmt[t] = "sum" => val'[t] = rec[hdRec[t]].sum
          /\ stmt[t] = "samples" => val'[t] = rec[hdRec[t]].samples
      BY <3>1 DEF Field
    <3> QED
      BY <1>1, <1>2, <1>3, <3>1, <3>2, <3>3 DEF Finds
  <2> QED
    BY <2>1, <2>2, <2>3
<1> QED
  BY <1>1, <1>4, <1>5, <1>6, QuietSoleInv

LEMMA IterationSoleInv ==
  ASSUME TypeInv, SoleInv, NEW t \in Threads,
         Iterate(t) \/ NextKey(t) \/ GotSum(t) \/ GotSamples(t)
  PROVE  SoleInv'
<1> USE DEF TypeInv, RTTypeOK
<1>1. UNCHANGED <<row, bound, rec>> /\ TableStep(t) /\ Iterating(t) /\ Iterates(t)
  BY DEF Iterate, NextKey, GotSum, GotSamples, TableStep, Iterating, SoleInv
<1>2. ~ Adding(t)'
  BY DEF Iterate, NextKey, GotSum, GotSamples, Finish, Execute, Adding, Looking
<1>3. iter[t].dict \in RowId /\ iter[t] \in Iter
  BY <1>1 DEF RefInv, HeldIter, Iter
<1>4. CASE Iterate(t)
  <2>1. at'[t] = "next" /\ iter'[t] = [iter[t] EXCEPT !.keys = Keys(iter[t].dict),
                                                     !.todo = Keys(iter[t].dict)]
    BY <1>4 DEF Iterate
  <2>2. iter'[t].dict = iter[t].dict /\ iter'[t].todo = Keys(iter[t].dict)
    BY <1>3, <2>1 DEF Iter
  <2>3. Finds(t)' /\ Iterates(t)'
    BY <1>1, <2>1, <2>2 DEF Finds, Looking, Iterates, Keys
  <2> QED
    BY <1>1, <1>2, <2>3, QuietSoleInv
<1>5. CASE NextKey(t)
  <2>1. CASE at'[t] = "idle"
    BY <1>1, <1>2, <2>1, QuietSoleInv DEF Finds, Looking, Iterates, Iterating
  <2>2. CASE at'[t] # "idle"
    <3>1. PICK k \in iter[t].todo :
             /\ Execute(t, "avgsum", iter[t].dict[1], k)
             /\ iter' = [iter EXCEPT ![t].todo = @ \ {k}]
      BY <1>5, <2>2 DEF NextKey, Finish
    <3>2. iter'[t].dict = iter[t].dict /\ iter'[t].todo = iter[t].todo \ {k}
      BY <1>3, <3>1 DEF Iter
    <3>3. at'[t] = "outer" /\ arg'[t] = <<iter[t].dict[1], k>>
      BY <3>1 DEF Execute
    <3>4. at[t] = "next" /\ k \in Keys(iter[t].dict)
      BY <1>1, <1>5, <3>1 DEF NextKey, Iterates
    <3>5. k \in Measured(iter[t].dict[1])
      BY <1>1, <1>3, <3>4 DEF Iterates, Measured, InTable, RefInv, HeldIter
    <3>6. Measured(arg[t][1])' = Measured(iter[t].dict[1])
      BY <1>1, <3>3 DEF Measured, InTable, Keys
    <3>7. Finds(t)'
      BY <3>3, <3>5, <3>6 DEF Finds
    <3>8. Iterates(t)'
      BY <1>1, <3>2, <3>4 DEF Iterates, Keys
    <3> QED
      BY <1>1, <1>2, <3>7, <3>8, QuietSoleInv
  <2> QED
    BY <2>1, <2>2
<1>6. CASE GotSum(t)
  <2>1. /\ at'[t] = "outer" /\ arg'[t][1] = arg[t][1] /\ arg'[t][2] = arg[t][2]
        /\ iter'[t] = [iter[t] EXCEPT !.sum = val[t]]
    BY <1>6 DEF GotSum, Execute
  <2>2. iter'[t].dict = iter[t].dict /\ iter'[t].todo = iter[t].todo
    BY <1>3, <2>1 DEF Iter
  <2>3. Looking(t) /\ stmt[t] # "sum" /\ at[t] # "iter" /\ Finds(t)
    BY <1>6 DEF GotSum, Looking, SoleInv
  <2>4. Measured(arg[t][1])' = Measured(arg[t][1])
    BY <1>1, <2>1 DEF Measured, InTable, Keys
  <2>5. Finds(t)'
    BY <2>1, <2>3, <2>4 DEF Finds
  <2>6. Iterates(t)'
    BY <1>1, <2>2, <2>3 DEF Iterates, Keys
  <2> QED
    BY <1>1, <1>2, <2>5, <2>6, QuietSoleInv
<1>7. CASE GotSamples(t)
  <2>1. CASE at'[t] = "idle"
    BY <1>1, <1>2, <2>1, QuietSoleInv DEF Finds, Looking, Iterates, Iterating
  <2>2. CASE at'[t] # "idle"
    <3>1. iter'[t].dict = iter[t].dict /\ iter'[t].todo = iter[t].todo
      BY <1>7, <2>2, GotSamplesIter
    <3>2. at'[t] = "next" /\ at[t] # "iter"
      BY <1>7, <2>2 DEF GotSamples, Finish
    <3>3. Finds(t)' /\ Iterates(t)'
      BY <1>1, <3>1, <3>2 DEF Finds, Looking, Iterates, Keys
    <3> QED
      BY <1>1, <1>2, <3>3, QuietSoleInv
  <2> QED
    BY <2>1, <2>2
<1> QED
  BY <1>4, <1>5, <1>6, <1>7

-----------------------------------------------------------------------------
(* A new row has no keys. *)
LEMMA MakeRowSeen ==
  ASSUME TypeInv, SoleInv, NEW t \in Threads, MakeRow(t)
  PROVE  LET c == arg[t][1] IN
         /\ row[c] = NoRef /\ <<c, t>> \in RowId
         /\ row' = [row EXCEPT ![c] = <<c, t>>]
         /\ \A x \in Clients : Measured(x)' = Measured(x)
         /\ \A x \in Clients : \A y \in Measured(x) : Entry(x, y)' = Entry(x, y)
<1> USE DEF TypeInv, RTTypeOK
<1> DEFINE c == arg[t][1]
<1>1. c \in Clients /\ at[t] = "mkrow" /\ Finds(t) /\ Looking(t)
  BY DEF MakeRow, SoleInv, Looking
<1>2. row[c] = NoRef /\ <<c, t>> \in RowId /\ NoRef \notin RowId
  BY <1>1, TableAssumption DEF Finds, RowId
<1>3. row' = [row EXCEPT ![c] = <<c, t>>] /\ bound' = bound /\ rec' = rec
  BY DEF MakeRow
<1>4. \A y \in Replicas : bound[<<c, t>>][y] = NoRef
  <2>1. <<c, t>>[1] = c
    OBVIOUS
  <2> QED
    BY <1>2, <2>1 DEF SoleInv, OthersEmpty
<1>5. ASSUME NEW x \in Clients
      PROVE  Measured(x)' = Measured(x) /\ \A y \in Measured(x) : Entry(x, y)' = Entry(x, y)
  <2>1. CASE x = c
    BY <1>1, <1>2, <1>3, <1>4, <2>1 DEF Measured, InTable, Keys
  <2>2. CASE x # c
    BY <1>1, <1>3, <2>2 DEF Measured, InTable, Keys, Entry
  <2> QED
    BY <2>1, <2>2
<1> QED
  BY <1>2, <1>3, <1>5

(* A new record is bound in the row of its client. *)
LEMMA MakeRecBinds ==
  ASSUME TypeInv, SoleInv, NEW t \in Threads, MakeRec(t),
         NEW c \in Clients, NEW r \in Replicas, arg[t] = <<c, r>>
  PROVE  LET e == <<row[c][1], row[c][2], r, t>> IN
         /\ hdRow[t] = row[c] /\ row[c] \in RowId /\ row[c][1] = c
         /\ e \in RecId /\ bound[row[c]][r] = NoRef /\ hdRec'[t] = e
         /\ bound' = [bound EXCEPT ![row[c]][r] = e]
         /\ r \notin Measured(c)
<1> USE DEF TypeInv, RTTypeOK
<1> DEFINE d == row[c]
           e == <<d[1], d[2], r, t>>
<1>1. arg[t][1] = c /\ arg[t][2] = r /\ at[t] = "mkrec" /\ Finds(t) /\ Looking(t)
  BY DEF MakeRec, SoleInv, Looking
<1>2. hdRow[t] = d /\ r \notin Measured(c)
  BY <1>1 DEF Finds
<1>3. d # NoRef /\ d \in RowId /\ d[1] = c
  BY <1>1, <1>2 DEF RefInv, HeldRow
<1>4. e \in RecId /\ NoRef \notin RecId
  BY <1>1, <1>3, TableAssumption DEF RowId, RecId
<1>5. bound[d][r] = NoRef
  BY <1>1, <1>2, <1>3 DEF Measured, InTable, Keys
<1>6. bound' = [bound EXCEPT ![d][r] = e] /\ hdRec'[t] = e
  BY <1>2 DEF MakeRec
<1> QED
  BY <1>2, <1>3, <1>4, <1>5, <1>6

(* It is a new key of that row only, and holds zeros. *)
LEMMA MakeRecSeen ==
  ASSUME TypeInv, SoleInv, NEW t \in Threads, MakeRec(t),
         NEW c \in Clients, NEW r \in Replicas, arg[t] = <<c, r>>
  PROVE  /\ r \notin Measured(c)
         /\ Measured(c)' = Measured(c) \cup {r}
         /\ \A x \in Clients \ {c} : Measured(x)' = Measured(x)
         /\ \A x \in Clients : \A y \in Measured(x) : Entry(x, y)' = Entry(x, y)
         /\ Entry(c, r)' = ZeroRecord
<1> USE DEF TypeInv, RTTypeOK
<1> DEFINE d == row[c]
           e == <<d[1], d[2], r, t>>
<1>1. arg[t][1] = c /\ arg[t][2] = r
  OBVIOUS
<1>2. /\ d \in RowId /\ d[1] = c /\ e \in RecId /\ bound[d][r] = NoRef
      /\ bound' = [bound EXCEPT ![d][r] = e] /\ r \notin Measured(c)
  BY MakeRecBinds
<1>3. d # NoRef
  BY <1>2, TableAssumption
<1>4. e \in RecId /\ NoRef \notin RecId
  BY <1>2, TableAssumption
<1>5. bound[d][r] = NoRef
  BY <1>2
<1>6. row' = row /\ rec' = rec
  BY DEF MakeRec
<1>7. /\ bound'[d][r] = e
      /\ \A y \in Replicas \ {r} : bound'[d][y] = bound[d][y]
      /\ \A f \in RowId \ {d} : bound'[f] = bound[f]
  BY <1>1, <1>2
<1>8. \A x \in Clients \ {c} : row[x] # NoRef => row[x] \in RowId \ {d}
  BY <1>2 DEF RefInv, RowsOwned
<1>9. Measured(c)' = Measured(c) \cup {r}
  <2>1. Measured(c) = {y \in Replicas : bound[d][y] # NoRef}
    BY <1>3 DEF Measured, InTable, Keys
  <2>2. Measured(c)' = {y \in Replicas : bound'[d][y] # NoRef}
    BY <1>3, <1>6 DEF Measured, InTable, Keys
  <2>3. e # NoRef
    BY <1>4
  <2> QED
    BY <1>7, <2>1, <2>2, <2>3
<1>10. ASSUME NEW x \in Clients, x # c
       PROVE  Measured(x)' = Measured(x)
  <2>1. CASE row[x] = NoRef
    BY <1>6, <2>1 DEF Measured, InTable
  <2>2. CASE row[x] # NoRef
    <3>1. bound'[row[x]] = bound[row[x]] /\ row'[x] = row[x]
      BY <1>6, <1>7, <1>8, <1>10, <2>2
    <3>2. Keys(row[x])' = Keys(row[x]) /\ InTable(x)' = InTable(x)
      BY ONLY <3>1 DEF InTable, Keys
    <3> QED
      BY ONLY <3>2 DEF Measured
  <2> QED
    BY <2>1, <2>2
<1>11. ASSUME NEW x \in Clients, NEW y \in Measured(x)
       PROVE  Entry(x, y)' = Entry(x, y)
  <2>1. y \in Replicas /\ row[x] # NoRef
    BY DEF Measured, InTable, Keys
  <2>2. CASE x = c
    BY <1>2, <1>6, <1>7, <2>1, <2>2 DEF Entry
  <2>3. CASE x # c
    BY <1>6, <1>7, <1>8, <2>1, <2>3 DEF Entry
  <2> QED
    BY <2>2, <2>3
<1>12. Entry(c, r)' = ZeroRecord
  <2>1. <<e[1], e[2]>> = d /\ e[3] = r
    BY <1>2 DEF RowId
  <2>2. rec[e] = ZeroRecord
    BY <1>4, <1>5, <2>1 DEF SoleInv, OthersZero
  <2> QED
    BY <1>6, <1>7, <2>2 DEF Entry
<1> QED
  BY <1>2, <1>9, <1>10, <1>11, <1>12

(* A store changes one record, which is bound. *)
LEMMA StoreSeen ==
  ASSUME TypeInv, SoleInv, NEW t \in Threads, StoreSum(t) \/ StoreSamples(t),
         NEW c \in Clients, NEW r \in Replicas, arg[t] = <<c, r>>
  PROVE  /\ r \in Measured(c) /\ hdRec[t] \in RecId
         /\ hdRec[t] = bound[row[c]][r]
         /\ bound[<<hdRec[t][1], hdRec[t][2]>>][hdRec[t][3]] = hdRec[t]
         /\ \A e \in RecId \ {hdRec[t]} : rec'[e] = rec[e]
         /\ \A x \in Clients : Measured(x)' = Measured(x)
         /\ \A x \in Clients : \A y \in Measured(x) :
              <<x, y>> # <<c, r>> => Entry(x, y)' = Entry(x, y)
         /\ StoreSum(t) =>
              /\ Entry(c, r)'.sum = Entry(c, r).sum + Latency[c][r]
              /\ Entry(c, r)'.samples = Entry(c, r).samples
         /\ StoreSamples(t) =>
              /\ Entry(c, r)'.sum = Entry(c, r).sum
              /\ Entry(c, r)'.samples = Entry(c, r).samples + 1
<1> USE DEF TypeInv, RTTypeOK
<1> DEFINE h == hdRec[t]
<1>1. arg[t][1] = c /\ arg[t][2] = r /\ at[t] = "got" /\ Finds(t) /\ Looking(t)
  BY DEF StoreSum, StoreSamples, SoleInv, Looking
<1>2. r \in Measured(c) /\ h = bound[row[c]][r] /\ row[c] \in RowId
  BY <1>1 DEF Finds, Measured, InTable
<1>3. h \in RecId
  BY <1>1 DEF RefInv, HeldRec
<1>4. h[1] = c /\ h[3] = r /\ h[2] = row[c][2] /\ row[c][1] = c
  BY <1>1, <1>2 DEF RefInv, RowsOwned, RecordsOwned, SoleInv, RecordsNamed, Measured, InTable, Keys
<1>5. <<h[1], h[2]>> = row[c]
  BY <1>2, <1>4 DEF RowId
<1>6. UNCHANGED <<row, bound>> /\ \A e \in RecId \ {h} : rec'[e] = rec[e]
  BY <1>3 DEF StoreSum, StoreSamples
<1>7. \A x \in Clients : Measured(x)' = Measured(x)
  BY <1>6 DEF Measured, InTable, Keys
<1>8. ASSUME NEW x \in Clients, NEW y \in Measured(x), <<x, y>> # <<c, r>>
      PROVE  Entry(x, y)' = Entry(x, y)
  <2>1. row[x] \in RowId /\ row[x][1] = x /\ y \in Replicas /\ bound[row[x]][y] # NoRef
    BY DEF Measured, InTable, Keys, RefInv, RowsOwned
  <2>2. bound[row[x]][y] \in RecId /\ bound[row[x]][y][1] = x /\ bound[row[x]][y][3] = y
    BY <2>1 DEF RefInv, RecordsOwned
  <2>3. bound[row[x]][y] # h
    BY <1>4, <1>8, <2>2
  <2> QED
    BY <1>6, <2>2, <2>3 DEF Entry
<1>9. /\ StoreSum(t) => /\ rec'[h].sum = rec[h].sum + Latency[c][r]
                        /\ rec'[h].samples = rec[h].samples
      /\ StoreSamples(t) => /\ rec'[h].sum = rec[h].sum
                            /\ rec'[h].samples = rec[h].samples + 1
  <2>1. rec[h] \in [sum: Nat, samples: Nat]
    BY <1>3
  <2>2. ASSUME StoreSum(t)
        PROVE  rec'[h].sum = rec[h].sum + Latency[c][r] /\ rec'[h].samples = rec[h].samples
    <3>1. val[t] = rec[h].sum
      BY <1>1, <2>2 DEF StoreSum, Finds
    <3>2. rec'[h] = [rec[h] EXCEPT !.sum = val[t] + Latency[c][r]]
      BY <1>3, <2>2 DEF StoreSum
    <3> QED
      BY <2>1, <3>1, <3>2
  <2>3. ASSUME StoreSamples(t)
        PROVE  rec'[h].sum = rec[h].sum /\ rec'[h].samples = rec[h].samples + 1
    <3>1. val[t] = rec[h].samples
      BY <1>1, <2>3 DEF StoreSamples, Finds
    <3>2. rec'[h] = [rec[h] EXCEPT !.samples = val[t] + 1]
      BY <1>3, <2>3 DEF StoreSamples
    <3> QED
      BY <2>1, <3>1, <3>2
  <2> QED
    BY <2>2, <2>3
<1>10. Entry(c, r) = rec[h] /\ Entry(c, r)' = rec'[h]
  BY <1>2, <1>6 DEF Entry
<1> QED
  BY <1>2, <1>3, <1>4, <1>5, <1>6, <1>7, <1>8, <1>9, <1>10

-----------------------------------------------------------------------------
LEMMA ArgPair ==
  ASSUME TypeInv, NEW t \in Threads
  PROVE  \E c \in Clients, r \in Replicas : arg[t] = <<c, r>>
<1>1. /\ arg[t][1] \in Clients /\ arg[t][2] \in Replicas
      /\ arg[t] = <<arg[t][1], arg[t][2]>>
  BY DEF TypeInv, RTTypeOK
<1> QED
  BY <1>1, Zenon

(* The steps that change the table are those of the one updater. *)
LEMMA MakeRowSoleInv ==
  ASSUME TypeInv, SoleInv, SoleUpdater, NEW t \in Threads, MakeRow(t)
  PROVE  SoleInv'
<1> USE DEF TypeInv, RTTypeOK
<1> DEFINE c == arg[t][1]
<1>1. /\ row[c] = NoRef /\ <<c, t>> \in RowId /\ c \in Clients
      /\ row' = [row EXCEPT ![c] = <<c, t>>]
      /\ \A x \in Clients : Measured(x)' = Measured(x)
  BY MakeRowSeen
<1>2. at[t] = "mkrow" /\ UNCHANGED <<bound, rec, stmt, arg, hdRec, val, iter>>
      /\ at'[t] = "inner" /\ hdRow'[t] = <<c, t>> /\ TableStep(t)
  BY DEF MakeRow, TableStep
<1>3. stmt[t] = "sum" /\ Adding(t) /\ t \in Updaters
  BY <1>2, MakersAdd
<1>4. \A u \in Threads \ {t} :
        at'[u] = at[u] /\ hdRow'[u] = hdRow[u] /\ at[u] \notin {"mkrow", "mkrec"}
  BY <1>2, <1>3, OthersStay, OneAdds, MakersAdd
<1>5. OthersEmpty' /\ OthersZero' /\ RecordsNamed'
  <2>1. OthersEmpty'
    <3>1. ASSUME NEW d \in RowId, row'[d[1]] # d
          PROVE  row[d[1]] # d
      <4>1. d[1] \in Clients /\ row[c] # d
        BY <1>1, TableAssumption DEF RowId
      <4> QED
        BY <1>1, <3>1, <4>1
    <3> QED
      BY <1>2, <3>1 DEF SoleInv, OthersEmpty
  <2>2. OthersZero'
    BY <1>2 DEF SoleInv, OthersZero
  <2>3. RecordsNamed'
    BY <1>2 DEF SoleInv, RecordsNamed
  <2> QED
    BY <2>1, <2>2, <2>3
<1>6. Finds(t)' /\ Iterates(t)' /\ (Adding(t)' => t \in Updaters)
  BY <1>1, <1>2, <1>3 DEF Finds, Iterates, Iterating
<1>7. ASSUME NEW u \in Threads, u # t
      PROVE  Finds(u)' /\ Iterates(u)' /\ (Adding(u)' => u \in Updaters)
  <2>1. Finds(u) /\ Iterates(u) /\ (Adding(u) => u \in Updaters)
    BY DEF SoleInv
  <2>2. \A x \in Clients : row[x] # NoRef => row'[x] = row[x]
    BY <1>1
  <2>3. arg[u][1] \in Clients /\ Measured(arg[u][1])' = Measured(arg[u][1])
    BY <1>1, <1>2
  <2>4. at[u] \in {"inner", "read", "got"} /\ Looking(u) => row[arg[u][1]] # NoRef
    BY <2>1 DEF Finds, Measured, InTable, RefInv, HeldRow
  <2>5. Finds(u)'
    BY <1>2, <1>4, <1>7, <2>1, <2>2, <2>3, <2>4 DEF Finds, Looking
  <2>6. Iterating(u) => iter[u].dict \in RowId /\ iter[u].dict[1] \in Clients
    BY DEF RefInv, HeldIter, Iter, RowId
  <2>7. Iterates(u)'
    BY <1>2, <1>4, <1>7, <2>1, <2>2, <2>6, TableAssumption DEF Iterates, Iterating, Keys
  <2> QED
    BY <1>2, <1>4, <1>7, <2>1, <2>5, <2>7 DEF Adding, Looking
<1> QED
  BY <1>5, <1>6, <1>7 DEF SoleInv

LEMMA MakeRecSoleInv ==
  ASSUME TypeInv, SoleInv, SoleUpdater, NEW t \in Threads, MakeRec(t),
         NEW c \in Clients, NEW r \in Replicas, arg[t] = <<c, r>>
  PROVE  SoleInv'
<1> USE DEF TypeInv, RTTypeOK
<1> DEFINE d == row[c]
           e == <<d[1], d[2], r, t>>
<1>1. /\ hdRow[t] = d /\ d \in RowId /\ d[1] = c
      /\ e \in RecId /\ bound[d][r] = NoRef /\ hdRec'[t] = e
      /\ bound' = [bound EXCEPT ![d][r] = e]
      /\ r \notin Measured(c)
  BY MakeRecBinds
<1>2. /\ Measured(c)' = Measured(c) \cup {r}
       /\ \A x \in Clients \ {c} : Measured(x)' = Measured(x)
  BY MakeRecSeen
<1>3. at[t] = "mkrec" /\ UNCHANGED <<row, rec, stmt, arg, hdRow, val, iter>>
      /\ at'[t] = "read" /\ TableStep(t)
  BY DEF MakeRec, TableStep
<1>4. stmt[t] = "sum" /\ Adding(t) /\ t \in Updaters
  BY <1>3, MakersAdd
<1>5. \A u \in Threads \ {t} :
        at'[u] = at[u] /\ hdRec'[u] = hdRec[u] /\ at[u] \notin {"mkrow", "mkrec"}
  BY <1>3, <1>4, OthersStay, OneAdds, MakersAdd
<1>6. /\ bound'[d][r] = e
      /\ \A f \in RowId, y \in Replicas : f # d \/ y # r => bound'[f][y] = bound[f][y]
  BY <1>1
<1>7. NoRef \notin RecId /\ e # NoRef
  BY <1>1, TableAssumption
<1>8. OthersEmpty'
  BY <1>1, <1>3, <1>6 DEF SoleInv, OthersEmpty
<1>9. RecordsNamed'
  BY <1>6 DEF SoleInv, RecordsNamed
<1>10. OthersZero'
  <2>1. ASSUME NEW g \in RecId, bound'[<<g[1], g[2]>>][g[3]] # g
        PROVE  bound[<<g[1], g[2]>>][g[3]] # g
    <3>1. <<g[1], g[2]>> \in RowId /\ g[3] \in Replicas
      BY DEF RecId, RowId
    <3>2. CASE <<g[1], g[2]>> = d /\ g[3] = r
      BY <1>1, <1>7, <3>2
    <3>3. CASE <<g[1], g[2]>> # d \/ g[3] # r
      BY <1>6, <2>1, <3>1, <3>3
    <3> QED
      BY <3>2, <3>3
  <2> QED
    BY <1>3, <2>1 DEF SoleInv, OthersZero
<1>11. Finds(t)' /\ Iterates(t)' /\ (Adding(t)' => t \in Updaters)
  <2>1. arg'[t] = <<c, r>> /\ row' = row /\ stmt'[t] = "sum" /\ at'[t] = "read"
    BY <1>3, <1>4
  <2> QED
    BY <1>1, <1>4, <1>6, <1>2, <2>1 DEF Finds, Iterates, Iterating
<1>12. ASSUME NEW u \in Threads, u # t
       PROVE  Finds(u)' /\ Iterates(u)' /\ (Adding(u)' => u \in Updaters)
  <2>1. Finds(u) /\ Iterates(u) /\ (Adding(u) => u \in Updaters)
    BY DEF SoleInv
  <2>2. ASSUME Looking(u)'
        PROVE  Finds(u)'
    <3>1. PICK x \in Clients, y \in Replicas : arg[u] = <<x, y>>
      BY ArgPair
    <3>2. arg[u][1] = x /\ arg[u][2] = y /\ Looking(u)
      BY <1>5, <1>12, <2>2, <3>1 DEF Looking
    <3>3. y \in Measured(x) => y \in Measured(x)' /\ bound'[row[x]][y] = bound[row[x]][y]
      <4>1. y \in Measured(x) => (row[x] # d \/ y # r) /\ row[x] \in RowId
        BY <1>1 DEF Measured, InTable, Keys
      <4> QED
        BY <1>6, <1>2, <4>1
    <3> QED
      BY <1>3, <1>5, <1>12, <2>1, <3>2, <3>3 DEF Finds
  <2>3. Finds(u)'
    BY <2>2 DEF Finds
  <2>4. Iterating(u) => iter[u].dict \in RowId
    BY DEF RefInv, HeldIter, Iter
  <2>5. \A f \in RowId : Keys(f) \subseteq Keys(f)'
    BY <1>6, <1>7 DEF Keys
  <2>6. Iterates(u)'
    <3> SUFFICES ASSUME Iterating(u)'
                 PROVE  /\ iter[u].dict = row[iter[u].dict[1]]
                        /\ at[u] # "iter" => iter[u].todo \subseteq Keys(iter[u].dict)'
      BY <1>3, <1>5, <1>12 DEF Iterates
    <3>1. Iterating(u) /\ iter' = iter
      BY <1>3, <1>5, <1>12 DEF Iterating
    <3>2. Keys(iter[u].dict) \subseteq Keys(iter[u].dict)'
      BY <2>4, <2>5, <3>1 DEF Keys
    <3> QED
      BY <2>1, <3>1, <3>2 DEF Iterates
  <2> QED
    BY <1>3, <1>5, <1>12, <2>1, <2>3, <2>6 DEF Adding, Looking
<1> QED
  BY <1>8, <1>9, <1>10, <1>11, <1>12 DEF SoleInv

LEMMA StoreSoleInv ==
  ASSUME TypeInv, SoleInv, SoleUpdater, NEW t \in Threads, StoreSum(t) \/ StoreSamples(t),
         NEW c \in Clients, NEW r \in Replicas, arg[t] = <<c, r>>
  PROVE  SoleInv'
<1>1. /\ r \in Measured(c) /\ hdRec[t] \in RecId
      /\ bound[<<hdRec[t][1], hdRec[t][2]>>][hdRec[t][3]] = hdRec[t]
      /\ \A e \in RecId \ {hdRec[t]} : rec'[e] = rec[e]
      /\ \A x \in Clients : Measured(x)' = Measured(x)
  BY StoreSeen
<1> USE DEF TypeInv, RTTypeOK
<1>2. UNCHANGED <<row, bound, iter>> /\ TableStep(t) /\ at[t] = "got"
      /\ stmt[t] \in {"sum", "samples"}
  BY DEF StoreSum, StoreSamples, TableStep
<1>3. Adding(t) /\ t \in Updaters
  BY <1>2 DEF Adding, Looking, SoleInv
<1>4. \A u \in Threads \ {t} :
        /\ at'[u] = at[u] /\ stmt'[u] = stmt[u] /\ arg'[u] = arg[u]
        /\ hdRow'[u] = hdRow[u] /\ hdRec'[u] = hdRec[u] /\ val'[u] = val[u]
        /\ ~ Adding(u)
  BY <1>2, <1>3, OthersStay, OneAdds
<1>5. OthersEmpty' /\ RecordsNamed'
  BY <1>2 DEF SoleInv, OthersEmpty, RecordsNamed
<1>6. OthersZero'
  BY <1>1, <1>2 DEF SoleInv, OthersZero
<1>7. Finds(t)' /\ Iterates(t)' /\ (Adding(t)' => t \in Updaters)
  <2>1. at'[t] \in {"outer", "idle"} /\ stmt'[t] \in {"minmax", "samples"}
        /\ arg'[t] = <<c, r>>
    BY DEF StoreSum, StoreSamples, Execute
  <2> QED
    BY <1>1, <1>3, <2>1 DEF Finds, Iterates, Iterating
<1>8. ASSUME NEW u \in Threads, u # t
      PROVE  Finds(u)' /\ Iterates(u)' /\ (Adding(u)' => u \in Updaters)
  <2>1. Finds(u) /\ Iterates(u)
    BY DEF SoleInv
  <2>2. arg[u][1] \in Clients /\ Measured(arg[u][1])' = Measured(arg[u][1])
    BY <1>1, <1>4, <1>8
  <2>3. Looking(u) => stmt[u] \notin {"sum", "samples"}
    BY <1>4, <1>8 DEF Adding
  <2>4. Finds(u)'
    BY <1>2, <1>4, <1>8, <2>1, <2>2, <2>3 DEF Finds, Looking
  <2>5. Iterates(u)'
    BY <1>2, <1>4, <1>8, <2>1 DEF Iterates, Iterating, Keys
  <2> QED
    BY <1>4, <1>8, <2>4, <2>5 DEF Adding, Looking
<1> QED
  BY <1>5, <1>6, <1>7, <1>8 DEF SoleInv

LEMMA InitSoleInv == Init => SoleInv
<1> SUFFICES ASSUME Init PROVE SoleInv
  OBVIOUS
<1>1. OthersEmpty /\ RecordsNamed /\ OthersZero
  BY DEF Init, RTInit, OthersEmpty, RecordsNamed, OthersZero
<1>2. \A t \in Threads : ~ Adding(t) /\ Finds(t) /\ Iterates(t)
  BY DEF Init, RTInit, Adding, Looking, Finds, Iterates, Iterating
<1> QED
  BY <1>1, <1>2 DEF SoleInv

LEMMA NextSoleInv ==
  ASSUME TypeInv, SoleInv, SoleUpdater, [Next]_vars
  PROVE  SoleInv'
<1> USE DEF TypeInv, RTTypeOK
<1>1. ASSUME NEW t \in Threads, Update(t)
      PROVE  SoleInv'
  <2>1. PICK c \in Clients, r \in Replicas : UpdateLatency(t, c, r)
    BY <1>1 DEF Update
  <2>2. UNCHANGED <<row, bound, rec>> /\ t \in Updaters
    BY <1>1, <2>1 DEF Update, UpdateLatency
  <2>3. Finds(t)' /\ Iterates(t)'
    BY <2>1 DEF UpdateLatency, Execute, Finds, Iterates, Iterating
  <2> QED
    BY <2>1, <2>2, <2>3, QuietSoleInv
<1>2. ASSUME NEW t \in Threads, Resolve(t)
      PROVE  SoleInv'
  <2>1. PICK c \in Clients : BestReplica(t, c)
    BY <1>2 DEF Resolve
  <2>2. UNCHANGED <<row, bound, rec>> /\ at'[t] = "iter"
    BY <2>1 DEF BestReplica
  <2>3. iter'[t].dict = row[c] /\ row[c] \in RowId /\ row[c][1] = c
    BY <2>1, IterCreated DEF BestReplica, InTable, RefInv, RowsOwned
  <2>4. Finds(t)' /\ Iterates(t)' /\ ~ Adding(t)'
    BY <2>2, <2>3 DEF Finds, Looking, Iterates, Adding
  <2> QED
    BY <2>1, <2>2, <2>4, QuietSoleInv
<1>3. ASSUME NEW t \in Threads, Step(t)
      PROVE  SoleInv'
  <2>1. PICK c \in Clients, r \in Replicas : arg[t] = <<c, r>>
    BY ArgPair
  <2>2. CASE StoreMinMax(t)
    <3>1. UNCHANGED <<row, bound, rec>> /\ Finds(t) /\ TableStep(t) /\ Looking(t)
      BY <2>2 DEF StoreMinMax, SoleInv, TableStep, Looking
    <3>2. Adding(t) /\ t \in Updaters
      BY <2>2, <3>1 DEF StoreMinMax, Adding, SoleInv
    <3>3. r \in Measured(c) /\ Measured(c)' = Measured(c)
      BY <2>1, <2>2, <3>1 DEF StoreMinMax, Finds, Measured, InTable, Keys
    <3>4. at'[t] = "outer" /\ stmt'[t] = "samples" /\ arg'[t] = <<c, r>>
      BY <2>1, <2>2 DEF StoreMinMax, Execute
    <3>5. Finds(t)' /\ Iterates(t)'
      BY <3>3, <3>4 DEF Finds, Iterates, Iterating
    <3> QED
      BY <3>1, <3>2, <3>5, QuietSoleInv
  <2> QED
    BY <1>3, <2>1, <2>2, LookupSoleInv, IterationSoleInv, MakeRowSoleInv, MakeRecSoleInv,
       StoreSoleInv DEF Step, TableStep
<1>4. CASE UNCHANGED vars
  <2>1. UNCHANGED <<row, bound, rec, at, stmt, arg, hdRow, hdRec, val, iter>>
    BY <1>4 DEF vars
  <2>2. OthersEmpty' /\ OthersZero' /\ RecordsNamed'
    BY <2>1 DEF SoleInv, OthersEmpty, OthersZero, RecordsNamed
  <2>3. \A c : Measured(c)' = Measured(c)
    BY <2>1 DEF Measured, InTable, Keys
  <2>4. \A t \in Threads : Finds(t)'
    BY <2>1, <2>3 DEF SoleInv, Finds, Looking
  <2>5. \A t \in Threads : Iterates(t)' /\ (Adding(t)' => t \in Updaters)
    BY <2>1 DEF SoleInv, Adding, Looking, Iterates, Iterating, Keys
  <2> QED
    BY <2>2, <2>4, <2>5 DEF SoleInv
<1> QED
  BY <1>1, <1>2, <1>3, <1>4 DEF Next

-----------------------------------------------------------------------------
(* Exactness.  The updater is at work on the record of c and r, and has    *)
(* stored its sum already.                                                 *)
Busy(c, r) == \E t \in Updaters : Updating(t, c, r)
Ahead(c, r) == \E t \in Updaters : Updating(t, c, r) /\ stmt[t] # "sum"

Exact(c, r) ==
  LET n == Entry(c, r).samples
      l == Latency[c][r] IN
  /\ Entry(c, r).sum = IF Ahead(c, r) THEN l * n + l ELSE l * n
  /\ n = 0 => Busy(c, r)

ExactInv == \A c \in Clients : \A r \in Measured(c) : Exact(c, r)

LEMMA QuietExact ==
  ASSUME ExactInv,
         \A c \in Clients : Measured(c)' = Measured(c),
         \A c \in Clients : \A r \in Measured(c) : Entry(c, r)' = Entry(c, r),
         \A c \in Clients, r \in Replicas : Ahead(c, r)' <=> Ahead(c, r),
         \A c \in Clients, r \in Replicas : Busy(c, r) => Busy(c, r)'
  PROVE  ExactInv'
<1> SUFFICES ASSUME NEW c \in Clients, NEW r \in Measured(c)
             PROVE  Exact(c, r)'
  BY DEF ExactInv
<1>1. Exact(c, r) /\ Entry(c, r)' = Entry(c, r) /\ r \in Replicas
  BY DEF ExactInv, Measured, Keys
<1>2. (Ahead(c, r)' <=> Ahead(c, r)) /\ (Busy(c, r) => Busy(c, r)')
  BY <1>1
<1> QED
  BY <1>1, <1>2 DEF Exact

LEMMA Products ==
  ASSUME NEW l \in Nat, NEW n \in Nat
  PROVE  l * n \in Nat /\ l * (n + 1) = l * n + l /\ l * 0 = 0
OBVIOUS

(* What the updater does to a record it does all alone. *)
LEMMA UpdaterWork ==
  ASSUME TypeInv, SoleInv, SoleUpdater, NEW t \in Threads, Adding(t)
  PROVE  /\ t \in Updaters
         /\ \A x, y : Busy(x, y) <=> Updating(t, x, y)
         /\ \A x, y : Ahead(x, y) <=> Updating(t, x, y) /\ stmt[t] # "sum"
BY DEF SoleUpdater, SoleInv, Busy, Ahead

LEMMA QuietStepExact ==
  ASSUME TypeInv, SoleInv, SoleUpdater, ExactInv, NEW t \in Threads,
         TableStep(t) \/ \E c \in Clients : BestReplica(t, c),
         ~ MakeRec(t), ~ StoreSum(t), ~ StoreSamples(t)
  PROVE  ExactInv'
<1> USE DEF TypeInv, RTTypeOK
<1>1. /\ \A c \in Clients : Measured(c)' = Measured(c)
      /\ \A c \in Clients : \A r \in Measured(c) : Entry(c, r)' = Entry(c, r)
  <2>1. CASE MakeRow(t)
    BY <2>1, MakeRowSeen
  <2>2. CASE ~ MakeRow(t)
    <3>1. UNCHANGED <<row, bound, rec>>
      BY <2>2 DEF TableStep, Outer, Inner, Read, StoreMinMax, Iterate, NextKey, GotSum,
                  GotSamples, BestReplica
    <3> QED
      BY <3>1 DEF Measured, InTable, Keys, Entry
  <2> QED
    BY <2>1, <2>2
<1>2. ASSUME NEW x \in Clients, NEW y \in Replicas
      PROVE  /\ Updating(t, x, y)' <=> Updating(t, x, y)
             /\ Updating(t, x, y) => (stmt'[t] # "sum" <=> stmt[t] # "sum")
  <2>1. CASE Outer(t) \/ MakeRow(t) \/ Inner(t) \/ Read(t)
    BY <2>1 DEF Outer, MakeRow, Inner, Read, Updating
  <2>2. CASE StoreMinMax(t)
    <3>1. arg'[t] = <<arg[t][1], arg[t][2]>> /\ at[t] = "got" /\ at'[t] = "outer"
          /\ stmt[t] = "minmax" /\ stmt'[t] = "samples"
      BY <2>2 DEF StoreMinMax, Execute
    <3>2. arg[t] = <<arg[t][1], arg[t][2]>>
      OBVIOUS
    <3> QED
      BY <3>1, <3>2 DEF Updating
  <2>3. CASE Iterate(t) \/ NextKey(t) \/ GotSum(t) \/ GotSamples(t)
             \/ \E c \in Clients : BestReplica(t, c)
    BY <2>3 DEF Iterate, NextKey, GotSum, GotSamples, BestReplica, Finish, Execute, Updating
  <2> QED
    BY <2>1, <2>2, <2>3 DEF TableStep
<1>3. \A u \in Threads \ {t} : at'[u] = at[u] /\ stmt'[u] = stmt[u] /\ arg'[u] = arg[u]
  BY OthersStay
<1>4. ASSUME NEW x \in Clients, NEW y \in Replicas
      PROVE  (Ahead(x, y)' <=> Ahead(x, y)) /\ (Busy(x, y)' <=> Busy(x, y))
  <2>1. \A u \in Threads : /\ Updating(u, x, y)' <=> Updating(u, x, y)
                           /\ Updating(u, x, y) => (stmt'[u] # "sum" <=> stmt[u] # "sum")
    BY <1>2, <1>3 DEF Updating
  <2> QED
    BY <2>1, ThreadAssumption DEF Ahead, Busy
<1> QED
  BY <1>1, <1>4, QuietExact

LEMMA UpdateExact ==
  ASSUME TypeInv, SoleInv, SoleUpdater, ExactInv, NEW t \in Threads, Update(t)
  PROVE  ExactInv'
<1> USE DEF TypeInv, RTTypeOK
<1>1. PICK c \in Clients, r \in Replicas : UpdateLatency(t, c, r)
  BY DEF Update
<1>2. /\ at[t] = "idle" /\ stmt'[t] = "sum" /\ UNCHANGED <<row, bound, rec>>
      /\ t \in Updaters
  BY <1>1 DEF Update, UpdateLatency, Execute
<1>3. \A x, y : ~ Busy(x, y) /\ ~ Ahead(x, y) /\ ~ Ahead(x, y)'
  BY <1>2 DEF SoleUpdater, Busy, Ahead, Updating
<1>4. \A x, y : Measured(x)' = Measured(x) /\ Entry(x, y)' = Entry(x, y)
  BY <1>2 DEF Measured, InTable, Keys, Entry
<1> QED
  BY <1>3, <1>4, QuietExact

LEMMA MakeRecExact ==
  ASSUME TypeInv, SoleInv, SoleUpdater, ExactInv, NEW t \in Threads, MakeRec(t),
         NEW c \in Clients, NEW r \in Replicas, arg[t] = <<c, r>>
  PROVE  ExactInv'
<1> USE DEF TypeInv, RTTypeOK
<1>1. at[t] = "mkrec" /\ at'[t] = "read" /\ UNCHANGED <<stmt, arg>>
  BY DEF MakeRec
<1>2. stmt[t] = "sum" /\ t \in Updaters
  BY <1>1, MakersAdd
<1>3. \A x, y : ~ Ahead(x, y) /\ ~ Ahead(x, y)' /\ (Busy(x, y) => Busy(x, y)')
  BY <1>1, <1>2 DEF SoleUpdater, Busy, Ahead, Updating
<1>4. Busy(c, r)'
  BY <1>1, <1>2 DEF Busy, Updating
<1>5. /\ Measured(c)' = Measured(c) \cup {r} /\ r \notin Measured(c)
      /\ \A x \in Clients \ {c} : Measured(x)' = Measured(x)
      /\ \A x \in Clients : \A y \in Measured(x) : Entry(x, y)' = Entry(x, y)
      /\ Entry(c, r)' = ZeroRecord
  BY MakeRecSeen
<1>6. ASSUME NEW x \in Clients, NEW y \in Measured(x)
      PROVE  Exact(x, y)'
  <2>1. Exact(x, y) /\ Entry(x, y)' = Entry(x, y)
    BY <1>5 DEF ExactInv
  <2> QED
    BY <1>3, <2>1 DEF Exact
<1>7. Exact(c, r)'
  <2>1. Latency[c][r] * 0 = 0
    BY TableAssumption
  <2> QED
    BY <1>3, <1>4, <1>5, <2>1 DEF Exact, ZeroRecord
<1>8. \A x \in Clients : \A y \in Measured(x)' : y \in Measured(x) \/ (x = c /\ y = r)
  BY <1>5
<1> QED
  BY <1>6, <1>7, <1>8 DEF ExactInv

LEMMA StoreExact ==
  ASSUME TypeInv, SoleInv, SoleUpdater, ExactInv, NEW t \in Threads,
         StoreSum(t) \/ StoreSamples(t),
         NEW c \in Clients, NEW r \in Replicas, arg[t] = <<c, r>>
  PROVE  ExactInv'
<1>1. /\ r \in Measured(c)
      /\ \A x \in Clients : Measured(x)' = Measured(x)
      /\ \A x \in Clients : \A y \in Measured(x) :
           <<x, y>> # <<c, r>> => Entry(x, y)' = Entry(x, y)
      /\ StoreSum(t) =>
           /\ Entry(c, r)'.sum = Entry(c, r).sum + Latency[c][r]
           /\ Entry(c, r)'.samples = Entry(c, r).samples
      /\ StoreSamples(t) =>
           /\ Entry(c, r)'.sum = Entry(c, r).sum
           /\ Entry(c, r)'.samples = Entry(c, r).samples + 1
  BY StoreSeen
<1> USE DEF TypeInv, RTTypeOK
<1>2. Adding(t) /\ t \in Updaters
  BY DEF StoreSum, StoreSamples, Adding, Looking, SoleInv
<1>3. \A x, y : /\ Busy(x, y) <=> <<x, y>> = <<c, r>>
                /\ Ahead(x, y) <=> <<x, y>> = <<c, r>> /\ stmt[t] # "sum"
  BY <1>2, UpdaterWork DEF Updating, Adding, Looking
<1>4. ASSUME NEW x \in Clients, NEW y \in Measured(x), <<x, y>> # <<c, r>>
      PROVE  Exact(x, y)'
  <2>1. Exact(x, y) /\ Entry(x, y)' = Entry(x, y)
    BY <1>1, <1>4 DEF ExactInv
  <2>2. ~ Busy(x, y) /\ ~ Ahead(x, y)
    BY <1>3, <1>4
  <2>3. ~ Ahead(x, y)'
    <3>1. CASE StoreSamples(t)
      BY <1>2, <3>1 DEF SoleUpdater, StoreSamples, Ahead, Updating
    <3>2. CASE StoreSum(t)
      <4>1. arg'[t] = <<c, r>>
        BY <3>2 DEF StoreSum, Execute
      <4> QED
        BY <1>2, <1>4, <4>1 DEF SoleUpdater, Ahead, Updating
    <3> QED
      BY <3>1, <3>2
  <2> QED
    BY <2>1, <2>2, <2>3 DEF Exact
<1>5. Exact(c, r)'
  <2>1. Exact(c, r) /\ r \in Replicas
    BY <1>1 DEF ExactInv, Measured, Keys
  <2>2. Latency[c][r] \in Nat /\ Entry(c, r).samples \in Nat
    BY <1>1, TableAssumption, EntryTyped
  <2> DEFINE n == Entry(c, r).samples
             l == Latency[c][r]
  <2>3. n \in Nat /\ l * n \in Nat /\ l * (n + 1) = l * n + l
    BY ONLY <2>2, Products
  <2>4. CASE StoreSum(t)
    <3>1. stmt[t] = "sum" /\ at'[t] = "outer" /\ stmt'[t] = "minmax" /\ arg'[t] = <<c, r>>
      BY <2>4 DEF StoreSum, Execute
    <3>2. Ahead(c, r)' /\ Busy(c, r)'
      BY <1>2, <3>1 DEF Ahead, Busy, Updating
    <3>3. ~ Ahead(c, r)
      BY <1>3, <3>1
    <3> QED
      BY <1>1, <2>1, <2>4, <3>2, <3>3 DEF Exact
  <2>5. CASE StoreSamples(t)
    <3>1. stmt[t] = "samples" /\ at'[t] = "idle"
      BY <2>5 DEF StoreSamples
    <3>2. ~ Ahead(c, r)'
      BY <1>2, <3>1 DEF SoleUpdater, Ahead, Updating
    <3>3. Ahead(c, r)
      BY <1>3, <3>1
    <3>4. Entry(c, r)'.sum = l * (n + 1) /\ Entry(c, r)'.samples = n + 1
      BY <1>1, <2>1, <2>3, <2>5, <3>3 DEF Exact
    <3> QED
      BY <2>3, <3>2, <3>4 DEF Exact
  <2> QED
    BY <2>4, <2>5
<1> QED
  BY <1>1, <1>4, <1>5 DEF ExactInv

-----------------------------------------------------------------------------
(* The theorems about one updater *)
SInv == TypeInv /\ HistoryTyped /\ MinInv /\ SoleInv /\ ExactInv

LEMMA InitSInv == Init => SInv
<1>1. Init => ExactInv
  BY DEF Init, RTInit, ExactInv, Measured, InTable
<1> QED
  BY <1>1, InitMinInv, InitSoleInv DEF SInv

LEMMA NextSInv ==
  ASSUME SoleUpdater
  PROVE  SInv /\ [Next]_vars => SInv'
<1> SUFFICES ASSUME SInv, [Next]_vars PROVE SInv'
  OBVIOUS
<1>1. TypeInv /\ HistoryTyped /\ MinInv /\ SoleInv /\ ExactInv
  BY DEF SInv
<1>2. TypeInv' /\ HistoryTyped' /\ MinInv' /\ SoleInv'
  BY <1>1, NextMinInv, NextSoleInv
<1>3. ASSUME NEW t \in Threads, Resolve(t)
      PROVE  ExactInv'
  <2>1. /\ \E c \in Clients : BestReplica(t, c)
        /\ ~ MakeRec(t) /\ ~ StoreSum(t) /\ ~ StoreSamples(t)
    BY <1>3 DEF Resolve, BestReplica, MakeRec, StoreSum, StoreSamples
  <2> QED
    BY <1>1, <2>1, QuietStepExact
<1>4. ASSUME NEW t \in Threads, Step(t)
      PROVE  ExactInv'
  <2>1. PICK c \in Clients, r \in Replicas : arg[t] = <<c, r>>
    BY <1>1, ArgPair
  <2>2. TableStep(t)
    BY <1>4 DEF Step
  <2>3. CASE MakeRec(t)
    BY <1>1, <2>1, <2>3, MakeRecExact
  <2>4. CASE StoreSum(t) \/ StoreSamples(t)
    BY <1>1, <2>1, <2>4, StoreExact
  <2> QED
    BY <1>1, <2>2, <2>3, <2>4, QuietStepExact
<1>5. ASSUME UNCHANGED vars
      PROVE  ExactInv'
  <2>1. UNCHANGED <<row, bound, rec, at, stmt, arg>>
    BY <1>5 DEF vars
  <2>2. \A c, r : Measured(c)' = Measured(c) /\ Entry(c, r)' = Entry(c, r)
    BY <2>1 DEF Measured, InTable, Keys, Entry
  <2>3. \A c, r : (Ahead(c, r)' <=> Ahead(c, r)) /\ (Busy(c, r)' <=> Busy(c, r))
    BY <2>1 DEF Ahead, Busy, Updating
  <2> QED
    BY <1>1, <2>2, <2>3, QuietExact
<1>6. ASSUME NEW t \in Threads, Update(t)
      PROVE  ExactInv'
  BY <1>1, <1>6, UpdateExact
<1>7. ExactInv'
  BY <1>3, <1>4, <1>5, <1>6 DEF Next
<1> QED
  BY <1>2, <1>7 DEF SInv

THEOREM SoleInvariant ==
  ASSUME SoleUpdater
  PROVE  Spec => []SInv
<1>1. SInv /\ [Next]_vars => SInv'
  BY NextSInv
<1> QED
  BY <1>1, InitSInv, PTL DEF Spec

(* With one updater no ping result is lost, whoever reads meanwhile: a     *)
(* record is the sum of its results, but for the one in progress.          *)
THEOREM SoleUpdaterLosesNothing ==
  ASSUME SoleUpdater
  PROVE  Spec => []SoleUpdaterExact
<1>1. SInv => SoleUpdaterExact
  <2> SUFFICES ASSUME SInv, NEW c \in Clients, NEW r \in Measured(c)
               PROVE  Entry(c, r).sum = Latency[c][r] *
                        (Entry(c, r).samples + IF Ahead(c, r) THEN 1 ELSE 0)
    BY DEF SoleUpdaterExact, Ahead
  <2>1. Exact(c, r)
    BY DEF SInv, ExactInv
  <2>2. Latency[c][r] \in Nat /\ Entry(c, r).samples \in Nat
    BY TableAssumption, EntryTyped DEF SInv
  <2>3. Latency[c][r] * (Entry(c, r).samples + 1) = Latency[c][r] * Entry(c, r).samples
                                                   + Latency[c][r]
    BY ONLY <2>2, Products
  <2> QED
    BY <2>1, <2>2, <2>3 DEF Exact
<1> QED
  BY <1>1, SoleInvariant, PTL

(* A record without samples belongs to the result in progress. *)
THEOREM HalfRecordsPass ==
  ASSUME SoleUpdater
  PROVE  Spec => []HalfRecordsAreTransient
<1>1. SInv => HalfRecordsAreTransient
  BY DEF SInv, ExactInv, Exact, Busy, HalfRecordsAreTransient
<1> QED
  BY <1>1, SoleInvariant, PTL

(* The replica that a resolve without overlap returns is the nearest. *)
THEOREM BestIsNearest ==
  ASSUME SoleUpdater
  PROVE  Spec => []BestReplicaAssigned
<1>1. SInv => BestReplicaAssigned
  <2> SUFFICES ASSUME SInv, NEW t \in Threads \ disturbed, outcome[t] \in Replicas,
                      NEW r \in Measured(asked[t])
               PROVE  Latency[asked[t]][outcome[t]] <= Latency[asked[t]][r]
    BY DEF BestReplicaAssigned
  <2>1. Asks(t) /\ Undisturbed(t)
    BY DEF SInv, MinInv
  <2>2. asked[t] \in Clients
    BY <2>1, TableAssumption DEF Asks
  <2> DEFINE c == asked[t]
             o == outcome[t]
  <2>3. o \in Measured(c) /\ AtMost(c, o, r) /\ Settled(c)
    BY <2>1, <2>2 DEF Undisturbed, Sequential
  <2>4. ASSUME NEW k \in Measured(c)
        PROVE  /\ Entry(c, k).sum = Latency[c][k] * Entry(c, k).samples
               /\ Entry(c, k).samples \in Nat \ {0} /\ Latency[c][k] \in Nat
    <3>1. Exact(c, k) /\ k \in Replicas /\ Entry(c, k).samples \in Nat
      BY <2>2, EntryTyped DEF SInv, ExactInv
    <3>2. ~ Busy(c, k) /\ ~ Ahead(c, k)
      BY <2>3, <3>1, ThreadAssumption DEF Settled, Busy, Ahead
    <3> QED
      BY <2>2, <3>1, <3>2, TableAssumption DEF Exact
  <2> DEFINE lo == Latency[c][o]
             lr == Latency[c][r]
             no == Entry(c, o).samples
             nr == Entry(c, r).samples
  <2>5. lo \in Nat /\ lr \in Nat /\ no \in Nat \ {0} /\ nr \in Nat \ {0}
    BY <2>3, <2>4
  <2>6. (lo * no) * nr <= (lr * nr) * no
    BY <2>3, <2>4 DEF AtMost
  <2> HIDE DEF lo, lr, no, nr
  <2>7. lo * (no * nr) <= lr * (no * nr)
    BY ONLY <2>5, <2>6
  <2>8. no * nr \in Nat \ {0}
    BY ONLY <2>5
  <2>9. lo <= lr
    BY ONLY <2>5, <2>7, <2>8, TimesCancels
  <2> QED
    BY <2>9 DEF lo, lr
<1> QED
  BY <1>1, SoleInvariant, PTL

-----------------------------------------------------------------------------
(* The refinement.  The results counted for c and r say all there is.      *)
Count(c, r) == IF r \in Measured(c) THEN Entry(c, r).samples ELSE 0

Counted == [c \in Clients |-> [r \in Replicas |->
              [sum |-> Latency[c][r] * Count(c, r), samples |-> Count(c, r)]]]

LEMMA CommittedIsCounted == SInv => CommittedStat = Counted
<1> SUFFICES ASSUME SInv, NEW c \in Clients, NEW r \in Replicas
             PROVE  CommittedStat[c][r] = Counted[c][r]
  BY DEF CommittedStat, Counted
<1> DEFINE s == Entry(c, r)
<1>1. Latency[c][r] \in Nat /\ Latency[c][r] * 0 = 0
  BY TableAssumption
<1>2. CommittedStat[c][r] = IF r \notin Measured(c) THEN [sum |-> 0, samples |-> 0]
                            ELSE IF Ahead(c, r) THEN [s EXCEPT !.sum = @ - Latency[c][r]]
                            ELSE s
  BY DEF CommittedStat, Ahead
<1>3. Counted[c][r] = [sum |-> Latency[c][r] * Count(c, r), samples |-> Count(c, r)]
  BY DEF Counted
<1>4. CASE r \notin Measured(c)
  BY <1>1, <1>2, <1>3, <1>4 DEF Count
<1>5. CASE r \in Measured(c)
  <2>1. s \in [sum: Nat, samples: Nat]
    BY <1>5, EntryTyped DEF SInv, TypeInv, RTTypeOK, Entry
  <2>2. Exact(c, r)
    BY <1>5 DEF SInv, ExactInv
  <2>3. s.sum = IF Ahead(c, r) THEN Latency[c][r] * s.samples + Latency[c][r]
                ELSE Latency[c][r] * s.samples
    BY <2>2 DEF Exact
  <2>4. Latency[c][r] * s.samples \in Nat
    BY <1>1, <2>1, Products
  <2>5. [sum |-> Latency[c][r] * s.samples, samples |-> s.samples]
          = IF Ahead(c, r) THEN [s EXCEPT !.sum = @ - Latency[c][r]] ELSE s
    <3> HIDE DEF s
    <3> QED
      BY <1>1, <2>1, <2>3, <2>4
  <2> QED
    BY <1>2, <1>3, <1>5, <2>5 DEF Count
<1> QED
  BY <1>4, <1>5

(* Only StoreSamples counts. *)
LEMMA CountStep ==
  ASSUME TypeInv, SoleInv, [Next]_vars
  PROVE  \/ \A x \in Clients, y \in Replicas : Count(x, y)' = Count(x, y)
         \/ \E c \in Clients, r \in Replicas :
              /\ Count(c, r)' = Count(c, r) + 1
              /\ \A x \in Clients, y \in Replicas :
                   <<x, y>> # <<c, r>> => Count(x, y)' = Count(x, y)
<1>1. ASSUME NEW t \in Threads, StoreSum(t) \/ StoreSamples(t)
      PROVE  \/ \A x \in Clients, y \in Replicas : Count(x, y)' = Count(x, y)
             \/ \E c \in Clients, r \in Replicas :
                  /\ Count(c, r)' = Count(c, r) + 1
                  /\ \A x \in Clients, y \in Replicas :
                       <<x, y>> # <<c, r>> => Count(x, y)' = Count(x, y)
  <2>1. PICK c \in Clients, r \in Replicas : arg[t] = <<c, r>>
    BY ArgPair
  <2>2. /\ r \in Measured(c)
        /\ \A x \in Clients : Measured(x)' = Measured(x)
        /\ \A x \in Clients : \A y \in Measured(x) :
             <<x, y>> # <<c, r>> => Entry(x, y)' = Entry(x, y)
        /\ StoreSum(t) => Entry(c, r)'.samples = Entry(c, r).samples
        /\ StoreSamples(t) => Entry(c, r)'.samples = Entry(c, r).samples + 1
    BY <1>1, <2>1, StoreSeen
  <2>3. \A x \in Clients, y \in Replicas : <<x, y>> # <<c, r>> => Count(x, y)' = Count(x, y)
    BY <2>2 DEF Count
  <2>4. CASE StoreSum(t)
    <3>1. Count(c, r)' = Count(c, r)
      BY <2>2, <2>4 DEF Count
    <3> QED
      BY <2>3, <3>1
  <2>5. CASE StoreSamples(t)
    <3>1. Count(c, r)' = Count(c, r) + 1
      BY <2>2, <2>5 DEF Count
    <3> QED
      BY <2>3, <3>1
  <2> QED
    BY <1>1, <2>4, <2>5
<1>2. ASSUME NEW t \in Threads, MakeRow(t)
      PROVE  \A x \in Clients, y \in Replicas : Count(x, y)' = Count(x, y)
  BY <1>2, MakeRowSeen DEF Count
<1>3. ASSUME NEW t \in Threads, MakeRec(t)
      PROVE  \A x \in Clients, y \in Replicas : Count(x, y)' = Count(x, y)
  <2>1. PICK c \in Clients, r \in Replicas : arg[t] = <<c, r>>
    BY ArgPair
  <2>2. /\ r \notin Measured(c)
        /\ Measured(c)' = Measured(c) \cup {r}
        /\ \A x \in Clients \ {c} : Measured(x)' = Measured(x)
        /\ \A x \in Clients : \A y \in Measured(x) : Entry(x, y)' = Entry(x, y)
        /\ Entry(c, r)' = ZeroRecord
    BY <1>3, <2>1, MakeRecSeen
  <2>3. Count(c, r)' = Count(c, r)
    BY <2>2 DEF Count, ZeroRecord
  <2>4. ASSUME NEW x \in Clients, NEW y \in Replicas, x # c \/ y # r
        PROVE  Count(x, y)' = Count(x, y)
    <3>1. y \in Measured(x)' <=> y \in Measured(x)
      BY <2>2, <2>4
    <3> QED
      BY <2>2, <3>1 DEF Count
  <2> QED
    BY <2>3, <2>4
<1>4. ASSUME UNCHANGED <<row, bound, rec>>
      PROVE  \A x \in Clients, y \in Replicas : Count(x, y)' = Count(x, y)
  <2>1. \A x, y : Measured(x)' = Measured(x) /\ Entry(x, y)' = Entry(x, y)
    BY <1>4 DEF Measured, InTable, Keys, Entry
  <2> QED
    BY <2>1 DEF Count
<1>5. \/ UNCHANGED <<row, bound, rec>>
      \/ \E t \in Threads : StoreSum(t) \/ StoreSamples(t) \/ MakeRow(t) \/ MakeRec(t)
  <2>1. ASSUME NEW t \in Threads, Update(t) \/ Resolve(t)
        PROVE  UNCHANGED <<row, bound, rec>>
    BY <2>1 DEF Update, Resolve, UpdateLatency, BestReplica
  <2>2. ASSUME NEW t \in Threads, TableStep(t),
               ~ (StoreSum(t) \/ StoreSamples(t) \/ MakeRow(t) \/ MakeRec(t))
        PROVE  UNCHANGED <<row, bound, rec>>
    BY <2>2 DEF TableStep, Outer, Inner, Read, StoreMinMax, Iterate, NextKey, GotSum, GotSamples
  <2>3. UNCHANGED vars => UNCHANGED <<row, bound, rec>>
    BY DEF vars
  <2> QED
    BY <2>1, <2>2, <2>3 DEF Next, Step
<1> QED
  BY <1>1, <1>2, <1>3, <1>4, <1>5

(* With one updater the table implements LatencyStats: a ping result       *)
(* counts once, at the store of its samples.                               *)
THEOREM ImplementsLatencyStats ==
  ASSUME SoleUpdater
  PROVE  Spec => StatsSpec
<1>1. SInv => CommittedStat = Counted
  BY CommittedIsCounted
<1>2. Init => Stats!Init
  BY DEF Init, RTInit, Stats!Init, CommittedStat, Measured, InTable
<1>3. SInv' => (CommittedStat = Counted)'
  BY CommittedIsCounted, PTL
<1>4. SInv /\ [Next]_vars /\ SInv' => [Stats!Next]_CommittedStat
  <2> SUFFICES ASSUME SInv, [Next]_vars, SInv'
               PROVE  Stats!Next \/ CommittedStat' = CommittedStat
    OBVIOUS
  <2>1. CommittedStat = Counted /\ CommittedStat' = Counted'
    BY <1>1, <1>3
  <2>2. CASE \A x \in Clients, y \in Replicas : Count(x, y)' = Count(x, y)
    <3>1. Counted' = Counted
      BY <2>2 DEF Counted
    <3> QED
      BY <2>1, <3>1
  <2>3. ASSUME NEW c \in Clients, NEW r \in Replicas, Count(c, r)' = Count(c, r) + 1,
               \A x \in Clients, y \in Replicas :
                 <<x, y>> # <<c, r>> => Count(x, y)' = Count(x, y)
        PROVE  Stats!Next
    <3>1. Count(c, r) \in Nat /\ Latency[c][r] \in Nat
      BY EntryTyped, TableAssumption DEF SInv, Count
    <3>2. Latency[c][r] * (Count(c, r) + 1) = Latency[c][r] * Count(c, r) + Latency[c][r]
      BY ONLY <3>1, Products
    <3>3. Counted' = [Counted EXCEPT ![c][r] = [sum |-> @.sum + Latency[c][r],
                                               samples |-> @.samples + 1]]
      BY <2>3, <3>2 DEF Counted
    <3>4. Stats!Record(c, r)
      BY <2>1, <3>3 DEF Stats!Record
    <3> QED
      BY <3>4 DEF Stats!Next
  <2>4. TypeInv /\ SoleInv
    BY DEF SInv
  <2> QED
    BY <2>2, <2>3, <2>4, CountStep
<1> QED
  BY <1>2, <1>4, SoleInvariant, PTL DEF Spec, StatsSpec, Stats!Spec
=============================================================================
