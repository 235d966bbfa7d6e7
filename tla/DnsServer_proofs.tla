--------------------------- MODULE DnsServer_proofs ---------------------------
(***************************************************************************)
(* Proofs about DnsServer: the types of its variables, and that the        *)
(* replica in an answer has a reason, for any clients, replicas and        *)
(* queries, whatever the threads do to the table meanwhile.                *)
(***************************************************************************)
EXTENDS DnsServer, RoutingTable_proofs, SequenceTheorems

-----------------------------------------------------------------------------
(* What has a record, or is to have one, has been heard *)

RecordsHeard ==
  \A d \in RowId, r \in Replicas : bound[d][r] # NoRef => <<d[1], r>> \in heard

ArgHeard(t) == at[t] \notin {"idle", "iter", "next"} => arg[t] \in heard

IterHeard(t) ==
  Iterating(t) =>
    /\ \A r \in iter[t].todo : <<iter[t].dict[1], r>> \in heard
    /\ iter[t].best # NoRef => <<iter[t].dict[1], iter[t].best>> \in heard
    /\ at[t] \notin {"iter", "next"} => arg[t][1] = iter[t].dict[1]

(* Thread t is at the minimum for client c, or has it. *)
MinFor(t, c) ==
  \/ Iterating(t) /\ iter[t].dict[1] = c
  \/ at[t] = "idle" /\ (outcome[t] \in Replicas => <<c, outcome[t]>> \in heard)

(* A step on the table is local to its thread, but for the table. *)
LEMMA TableStepLocal ==
  ASSUME TypeInv, NEW t \in Threads, TableStep(t), NEW u \in Threads, u # t
  PROVE  /\ at'[u] = at[u] /\ stmt'[u] = stmt[u] /\ arg'[u] = arg[u]
         /\ iter'[u] = iter[u] /\ outcome'[u] = outcome[u]
<1> USE DEF TypeInv, RTTypeOK
<1>1. CASE NextKey(t)
  BY <1>1 DEF NextKey, Finish, Execute
<1>2. CASE GotSamples(t)
  BY <1>2 DEF GotSamples, Finish
<1>3. CASE \/ Outer(t) \/ MakeRow(t) \/ Inner(t) \/ MakeRec(t) \/ Read(t) \/ StoreSum(t)
           \/ StoreMinMax(t) \/ StoreSamples(t) \/ Iterate(t) \/ GotSum(t)
  BY <1>3 DEF Outer, MakeRow, Inner, MakeRec, Read, StoreSum, StoreMinMax, StoreSamples,
     Iterate, GotSum, Execute
<1> QED
  BY <1>1, <1>2, <1>3 DEF TableStep

(* A step on the table makes a record of what has been heard only, and     *)
(* iterates over what has a record.                                        *)
LEMMA TableStepHeard ==
  ASSUME TypeInv, RecordsHeard, NEW t \in Threads, TableStep(t), heard' = heard,
         ArgHeard(t), IterHeard(t), NEW c
  PROVE  RecordsHeard' /\ ArgHeard(t)' /\ IterHeard(t)' /\ (MinFor(t, c) => MinFor(t, c)')
<1> USE DEF RecordsHeard, ArgHeard, IterHeard, MinFor
<1>1. /\ RTTypeOK /\ HeldRow(t) /\ HeldRec(t) /\ HeldIter(t) /\ iter[t] \in Iter
      /\ arg[t] \in Clients \X Replicas
  BY DEF TypeInv, RefInv, RTTypeOK
<1>2. CASE Outer(t)
  BY <1>1, <1>2 DEF Outer, RTTypeOK, Iterating
<1>3. CASE MakeRow(t)
  BY <1>1, <1>3 DEF MakeRow, RTTypeOK, Iterating
<1>4. CASE Inner(t)
  BY <1>1, <1>4 DEF Inner, RTTypeOK, Iterating
<1>5. CASE MakeRec(t)
  <2>1. hdRow[t] \in RowId /\ hdRow[t][1] = arg[t][1] /\ arg[t] \in heard
    BY <1>1, <1>5 DEF MakeRec, RTTypeOK, HeldRow
  <2>2. arg[t] = <<hdRow[t][1], arg[t][2]>>
    BY <1>1, <2>1
  <2>3. RecordsHeard'
    BY <1>1, <1>5, <2>1, <2>2 DEF MakeRec, RTTypeOK
  <2> QED
    BY <1>1, <1>5, <2>3 DEF MakeRec, RTTypeOK, Iterating
<1>6. CASE Read(t)
  BY <1>1, <1>6 DEF Read, RTTypeOK, Iterating
<1>7. CASE StoreSum(t) \/ StoreMinMax(t)
  <2>1. /\ at[t] = "got" /\ stmt[t] \in {"sum", "minmax"} /\ bound' = bound
        /\ arg'[t] = <<arg[t][1], arg[t][2]>> /\ stmt'[t] \in {"minmax", "samples"}
    BY <1>1, <1>7 DEF StoreSum, StoreMinMax, Execute, RTTypeOK
  <2>2. arg'[t] = arg[t] /\ ~ Iterating(t) /\ ~ Iterating(t)' /\ at'[t] = "outer"
    BY <1>1, <1>7, <2>1 DEF StoreSum, StoreMinMax, Execute, RTTypeOK, Iterating
  <2> QED
    BY <2>1, <2>2
<1>8. CASE StoreSamples(t)
  BY <1>1, <1>8 DEF StoreSamples, RTTypeOK, Iterating
<1>9. CASE Iterate(t)
  <2>1. /\ iter'[t] = [iter[t] EXCEPT !.keys = Keys(iter[t].dict),
                                      !.todo = Keys(iter[t].dict)]
        /\ at'[t] = "next" /\ at[t] = "iter" /\ bound' = bound /\ arg' = arg
        /\ iter[t].dict \in RowId
    BY <1>1, <1>9 DEF Iterate, RTTypeOK, HeldIter, Iterating, Iter
  <2>2. iter'[t].dict = iter[t].dict /\ iter'[t].best = iter[t].best
        /\ iter'[t].todo = Keys(iter[t].dict)
    BY <1>1, <2>1 DEF Iter
  <2> QED
    BY <2>1, <2>2 DEF Keys, Iterating
<1>10. CASE NextKey(t)
  <2>1. at[t] = "next" /\ bound' = bound
    BY <1>10 DEF NextKey
  <2>2. ASSUME NEW result, Finish(t, result), result \in Replicas => result = iter[t].best
        PROVE  RecordsHeard' /\ ArgHeard(t)' /\ IterHeard(t)' /\ (MinFor(t, c) => MinFor(t, c)')
    BY <1>1, <2>1, <2>2, TableAssumption DEF Finish, RTTypeOK, Iterating
  <2>3. ASSUME NEW r \in iter[t].todo, Execute(t, "avgsum", iter[t].dict[1], r),
               iter' = [iter EXCEPT ![t].todo = @ \ {r}]
        PROVE  RecordsHeard' /\ ArgHeard(t)' /\ IterHeard(t)' /\ (MinFor(t, c) => MinFor(t, c)')
    <3>1. /\ iter'[t].dict = iter[t].dict /\ iter'[t].best = iter[t].best
          /\ iter'[t].todo = iter[t].todo \ {r}
      BY <1>1, <2>3 DEF RTTypeOK, Iter
    <3>2. /\ at'[t] = "outer" /\ stmt'[t] = "avgsum" /\ arg'[t] = <<iter[t].dict[1], r>>
      BY <1>1, <2>3 DEF RTTypeOK, Execute
    <3> QED
      BY <2>1, <3>1, <3>2 DEF Iterating
  <2> QED
    BY <1>10, <2>2, <2>3, TableAssumption DEF NextKey, Errors
<1>11. CASE GotSum(t)
  <2>1. /\ iter'[t] = [iter[t] EXCEPT !.sum = val[t]] /\ bound' = bound
        /\ at'[t] = "outer" /\ stmt'[t] = "avgsamples" /\ at[t] = "got"
        /\ stmt[t] = "avgsum"
        /\ arg'[t] = <<arg[t][1], arg[t][2]>>
    BY <1>1, <1>11 DEF GotSum, Execute, RTTypeOK
  <2>2. arg'[t] = arg[t]
    BY <1>1, <2>1
  <2>3. /\ iter'[t].dict = iter[t].dict /\ iter'[t].best = iter[t].best
        /\ iter'[t].todo = iter[t].todo
    BY <1>1, <2>1 DEF Iter
  <2> QED
    BY <2>1, <2>2, <2>3 DEF Iterating
<1>12. CASE GotSamples(t)
  <2>1. at[t] = "got" /\ stmt[t] = "avgsamples" /\ arg' = arg /\ bound' = bound
    BY <1>12 DEF GotSamples
  <2>2. CASE val[t] = 0
    <3>1. at'[t] = "idle" /\ outcome'[t] = "ZeroDivisionError"
      BY <1>1, <1>12, <2>2 DEF GotSamples, Finish, RTTypeOK
    <3> QED
      BY <2>1, <3>1, TableAssumption DEF Iterating, Errors
  <2>3. CASE val[t] # 0
    <3>1. /\ at'[t] = "next"
          /\ \/ iter'[t] = [iter[t] EXCEPT !.sum = 0]
             \/ iter'[t] = [iter[t] EXCEPT !.best = arg[t][2], !.bestSum = iter[t].sum,
                                           !.bestSamples = val[t], !.sum = 0]
      BY <1>1, <1>12, <2>3 DEF GotSamples, RTTypeOK
    <3>2. /\ iter'[t].dict = iter[t].dict /\ iter'[t].todo = iter[t].todo
          /\ iter'[t].best \in {iter[t].best, arg[t][2]}
      BY <1>1, <3>1 DEF Iter
    <3>3. <<iter[t].dict[1], arg[t][2]>> \in heard
      BY <1>1, <2>1 DEF Iterating
    <3> QED
      BY <2>1, <3>1, <3>2, <3>3 DEF Iterating
  <2> QED
    BY <2>2, <2>3
<1> QED
  BY <1>2, <1>3, <1>4, <1>5, <1>6, <1>7, <1>8, <1>9, <1>10, <1>11, <1>12 DEF TableStep

-----------------------------------------------------------------------------
(* The invariant *)

ServerTypes ==
  /\ known \in SUBSET Clients
  /\ pc \in [Threads -> {"none", "check", "add", "post", "wait", "body",
                         "sleep", "geo", "min", "send", "done", "dead"}]
  /\ left \in [Threads -> Seq(Replicas)]
  /\ posted \in [Threads -> SUBSET Clients]
  /\ lines \in [Threads -> SUBSET Clients]
  /\ results \in [Clients \X Replicas -> 0..MaxResults]
  /\ answer \in [Queries -> Replicas \cup {NoRef}]
  /\ heard \in SUBSET (Clients \X Replicas)

(* A thread works on the table in two of its places only. *)
Elsewhere(t) == pc[t] \notin {"min", "body"} => at[t] = "idle"

(* A request is under way for a replica that is left to do. *)
Posting(t) == pc[t] \in {"wait", "body"} => left[t] # <<>>

ThreadOK(t) ==
  /\ Elsewhere(t) /\ Posting(t) /\ ArgHeard(t) /\ IterHeard(t)
  /\ t \in Queries /\ pc[t] = "min" => MinFor(t, From[t])

Inv ==
  /\ TypeInv
  /\ ServerTypes
  /\ RecordsHeard
  /\ \A t \in Threads : ThreadOK(t)
  /\ AnswersAreJustified

(* The invariant holds at first. *)
LEMMA InitInv == Init => Inv
<1> SUFFICES ASSUME Init PROVE Inv
  OBVIOUS
<1> USE ServerAssumption, TableAssumption
<1>1. TypeInv
  BY InitTypeInv DEF Init
<1>2. ServerTypes
  BY EmptySeq DEF Init, ServerTypes
<1>3. RecordsHeard
  BY DEF Init, RTInit, RecordsHeard
<1>4. \A t \in Threads : ThreadOK(t)
  BY DEF Init, RTInit, ThreadOK, Elsewhere, Posting, ArgHeard, IterHeard, Iterating
<1>5. AnswersAreJustified
  BY DEF Init, AnswersAreJustified
<1> QED
  BY <1>1, <1>2, <1>3, <1>4, <1>5 DEF Inv

(* What a thread is at does not depend on the other threads, once more has *)
(* been heard.                                                             *)
LEMMA OthersOK ==
  ASSUME Inv, NEW u \in Threads, heard \subseteq heard',
         at'[u] = at[u], stmt'[u] = stmt[u], arg'[u] = arg[u], iter'[u] = iter[u],
         outcome'[u] = outcome[u], pc'[u] = pc[u], left'[u] = left[u]
  PROVE  ThreadOK(u)'
BY DEF Inv, ThreadOK, Elsewhere, Posting, ArgHeard, IterHeard, Iterating, MinFor

(* A thread that leaves the table alone, and is not at it. *)
LEMMA OwnOK ==
  ASSUME Inv, NEW t \in Threads, rtVars' = rtVars, heard' = heard, at[t] = "idle",
         Posting(t)', pc'[t] # "min"
  PROVE  ThreadOK(t)'
BY DEF rtVars, ThreadOK, Elsewhere, ArgHeard, IterHeard, Iterating, MinFor

(* The table, its types and what was heard stay as they are. *)
LEMMA TableStays ==
  ASSUME Inv, rtVars' = rtVars, heard' = heard
  PROVE  TypeInv' /\ RecordsHeard'
BY DEF Inv, rtVars, RecordsHeard, TypeInv, RTTypeOK, RefInv, RowsOwned, RecordsOwned,
   HeldRow, HeldRec, HeldIter, Iterating

(* Answers that were justified stay so. *)
LEMMA AnswersStay ==
  ASSUME Inv, answer' = answer, heard \subseteq heard'
  PROVE  AnswersAreJustified'
BY DEF Inv, AnswersAreJustified

(* A step of a thread that leaves the table, the answers and what has been *)
(* heard alone.                                                            *)
LEMMA QuietStep ==
  ASSUME Inv, NEW t \in Threads, rtVars' = rtVars, answer' = answer, heard' = heard,
         at[t] = "idle", \A u \in Threads : u # t => pc'[u] = pc[u] /\ left'[u] = left[u],
         pc'[t] # "min", Posting(t)', ServerTypes'
  PROVE  Inv'
<1>1. \A u \in Threads : u # t => ThreadOK(u)'
  BY OthersOK DEF rtVars
<1>2. ThreadOK(t)'
  BY OwnOK
<1> QED
  BY <1>1, <1>2, TableStays, AnswersStay DEF Inv

-----------------------------------------------------------------------------
(* The steps *)

(* A step on the table. *)
LEMMA TableKeepsInv ==
  ASSUME Inv, NEW t \in Threads, Table(t)
  PROVE  Inv'
<1>1. /\ TypeInv /\ ServerTypes /\ RecordsHeard /\ TableStep(t) /\ ThreadOK(t)
      /\ UNCHANGED <<known, pc, left, posted, lines, results, answer, heard>>
  BY DEF Inv, Table, serverVars
<1>2. TypeInv'
  BY <1>1, TableStepTypeInv
<1>3. ServerTypes'
  BY <1>1 DEF ServerTypes
<1>4. \A c : RecordsHeard' /\ ArgHeard(t)' /\ IterHeard(t)' /\ (MinFor(t, c) => MinFor(t, c)')
  BY <1>1, TableStepHeard DEF ThreadOK
<1>5. at[t] # "idle"
  BY <1>1 DEF TableStep, Outer, MakeRow, Inner, MakeRec, Read, StoreSum, StoreMinMax,
     StoreSamples, Iterate, NextKey, GotSum, GotSamples
<1>6. ThreadOK(t)'
  BY <1>1, <1>4, <1>5 DEF ThreadOK, Elsewhere, Posting
<1>7. ASSUME NEW u \in Threads, u # t
      PROVE  ThreadOK(u)'
  <2>1. /\ at'[u] = at[u] /\ stmt'[u] = stmt[u] /\ arg'[u] = arg[u]
        /\ iter'[u] = iter[u] /\ outcome'[u] = outcome[u]
    BY <1>1, <1>7, TableStepLocal
  <2> QED
    BY <1>1, <2>1, OthersOK
<1> QED
  BY <1>1, <1>2, <1>3, <1>4, <1>6, <1>7, AnswersStay DEF Inv

(* A query that looks at the table, and at a replica of its answer. *)
LEMMA CheckKeepsInv ==
  ASSUME Inv, NEW q \in Queries, Check(q)
  PROVE  Inv'
<1> USE ServerAssumption
<1>1. /\ TypeInv /\ ServerTypes /\ RecordsHeard /\ ThreadOK(q) /\ pc[q] = "check"
      /\ UNCHANGED <<known, left, posted, lines, results, answer, heard>>
      /\ q \in Threads /\ From[q] \in Clients
  BY DEF Inv, Check
<1>2. CASE BestReplica(q, From[q]) /\ pc' = [pc EXCEPT ![q] = "min"]
  <2>1. TypeInv'
    BY <1>1, <1>2, TableStepTypeInv
  <2>2. ServerTypes' /\ RecordsHeard'
    BY <1>1, <1>2 DEF ServerTypes, RecordsHeard, BestReplica
  <2>3. /\ at'[q] = "iter" /\ iter'[q] = [NoIter EXCEPT !.dict = row[From[q]]]
        /\ row[From[q]] # NoRef
    BY <1>1, <1>2 DEF BestReplica, TypeInv, RTTypeOK, InTable
  <2>4. /\ iter'[q].dict = row[From[q]] /\ iter'[q].todo = {} /\ iter'[q].best = NoRef
        /\ row[From[q]][1] = From[q]
    BY <1>1, <2>3 DEF NoIter, TypeInv, RefInv, RowsOwned
  <2>5. ThreadOK(q)'
    BY <1>1, <1>2, <2>3, <2>4
       DEF ServerTypes, ThreadOK, Elsewhere, Posting, ArgHeard, IterHeard, Iterating, MinFor
  <2>6. ASSUME NEW u \in Threads, u # q
        PROVE  ThreadOK(u)'
    <3>1. /\ at'[u] = at[u] /\ stmt'[u] = stmt[u] /\ arg'[u] = arg[u]
          /\ iter'[u] = iter[u] /\ outcome'[u] = outcome[u] /\ pc'[u] = pc[u]
      BY <1>1, <1>2, <2>6 DEF BestReplica, TypeInv, RTTypeOK, ServerTypes
    <3> QED
      BY <1>1, <3>1, OthersOK
  <2> QED
    BY <1>1, <2>1, <2>2, <2>5, <2>6, AnswersStay DEF Inv
<1>3. CASE pc' = [pc EXCEPT ![q] = "add"] /\ UNCHANGED rtVars
  <2>1. /\ at[q] = "idle" /\ pc'[q] # "min" /\ Posting(q)' /\ ServerTypes'
        /\ \A u \in Threads : u # q => pc'[u] = pc[u]
    BY <1>1, <1>3 DEF ThreadOK, Elsewhere, Posting, ServerTypes
  <2> QED
    BY <1>1, <1>3, <2>1, QuietStep
<1> QED
  BY <1>2, <1>3 DEF Check, Goto

(* An answer by geography, or of the minimum. *)
LEMMA AnswerKeepsInv ==
  ASSUME Inv, NEW q \in Queries, Geolocate(q) \/ MinReturns(q)
  PROVE  Inv'
<1> USE ServerAssumption, TableAssumption
<1>1. /\ TypeInv /\ ServerTypes /\ RecordsHeard /\ ThreadOK(q) /\ AnswersAreJustified
      /\ UNCHANGED rtVars /\ UNCHANGED <<known, left, posted, lines, results, heard>>
      /\ q \in Threads /\ From[q] \in Clients /\ pc[q] \in {"geo", "min"}
  BY DEF Inv, Geolocate, MinReturns
<1>2. at[q] = "idle"
  BY <1>1 DEF Geolocate, MinReturns, ThreadOK, Elsewhere
<1>3. CASE answer' = answer /\ pc' = [pc EXCEPT ![q] = "dead"]
  <2>1. /\ pc'[q] # "min" /\ Posting(q)' /\ ServerTypes'
        /\ \A u \in Threads : u # q => pc'[u] = pc[u]
    BY <1>1, <1>3 DEF Posting, ServerTypes
  <2> QED
    BY <1>1, <1>2, <1>3, <2>1, QuietStep
<1>4. ASSUME NEW r \in Replicas, answer' = [answer EXCEPT ![q] = r],
             pc' = [pc EXCEPT ![q] = "send"],
             r = Closest[From[q]] \/ <<From[q], r>> \in heard
      PROVE  Inv'
  <2>1. /\ pc'[q] # "min" /\ Posting(q)' /\ ServerTypes'
        /\ \A u \in Threads : u # q => pc'[u] = pc[u]
    BY <1>1, <1>4 DEF Posting, ServerTypes
  <2>2. AnswersAreJustified'
    BY <1>1, <1>4 DEF AnswersAreJustified, ServerTypes
  <2>3. ThreadOK(q)' /\ TypeInv' /\ RecordsHeard'
    BY <1>1, <1>2, <2>1, OwnOK, TableStays
  <2>4. \A u \in Threads : u # q => ThreadOK(u)'
    BY <1>1, <2>1, OthersOK DEF rtVars
  <2> QED
    BY <2>1, <2>2, <2>3, <2>4 DEF Inv
<1>5. CASE Geolocate(q)
  BY <1>3, <1>4, <1>5 DEF Geolocate, Goto
<1>6. CASE MinReturns(q)
  <2>1. outcome[q] \in Replicas => <<From[q], outcome[q]>> \in heard
    BY <1>1, <1>6 DEF MinReturns, ThreadOK, MinFor, Iterating
  <2> QED
    BY <1>3, <1>4, <1>6, <2>1 DEF MinReturns, Goto
<1> QED
  BY <1>5, <1>6

(* A line of a ping result enters the table. *)
LEMMA LineKeepsInv ==
  ASSUME Inv, NEW t \in Threads, Line(t)
  PROVE  Inv'
<1>1. /\ TypeInv /\ ServerTypes /\ RecordsHeard /\ ThreadOK(t) /\ pc[t] = "body"
      /\ UNCHANGED <<known, pc, left, posted, results, answer>>
  BY DEF Inv, Line
<1> DEFINE r == Head(left[t])
<1>2. PICK c \in lines[t] :
        /\ UpdateLatency(t, c, r)
        /\ lines' = [lines EXCEPT ![t] = @ \ {c}]
        /\ heard' = heard \cup {<<c, r>>}
  BY DEF Line
<1>3. c \in Clients /\ r \in Replicas
  <2>1. left[t] \in Seq(Replicas) /\ left[t] # <<>>
    BY <1>1 DEF ServerTypes, ThreadOK, Posting
  <2>2. r \in Replicas
    BY <2>1, HeadTailProperties
  <2> QED
    BY <1>1, <2>2 DEF ServerTypes
<1> HIDE DEF r
<1>4. TypeInv'
  BY <1>1, <1>2, <1>3, TableStepTypeInv
<1>5. ServerTypes'
  BY <1>1, <1>2, <1>3 DEF ServerTypes
<1>6. /\ bound' = bound /\ at'[t] = "outer" /\ stmt'[t] = "sum" /\ arg'[t] = <<c, r>>
      /\ \A u \in Threads : u # t =>
           at'[u] = at[u] /\ stmt'[u] = stmt[u] /\ arg'[u] = arg[u]
      /\ iter' = iter /\ outcome' = outcome
  BY <1>1, <1>2 DEF UpdateLatency, Execute, TypeInv, RTTypeOK
<1>7. RecordsHeard'
  BY <1>1, <1>2, <1>6 DEF RecordsHeard
<1>8. ThreadOK(t)'
  BY <1>1, <1>2, <1>6 DEF ThreadOK, Elsewhere, Posting, ArgHeard, IterHeard, Iterating
<1>9. \A u \in Threads : u # t => ThreadOK(u)'
  BY <1>1, <1>2, <1>6, OthersOK
<1> QED
  BY <1>1, <1>2, <1>4, <1>5, <1>7, <1>8, <1>9, AnswersStay DEF Inv

(* The steps around the pings. *)
LEMMA PingKeepsInv ==
  ASSUME Inv, NEW t \in Threads,
         \/ Post(t) \/ Respond(t) \/ EndOfBody(t) \/ EndOfBatch(t) \/ Fail(t)
         \/ t = PingThread /\ Wake
         \/ t \in Queries /\ (Receive(t) \/ AddClient(t) \/ Send(t))
  PROVE  Inv'
<1> USE ServerAssumption
<1>1. TypeInv /\ ServerTypes /\ ThreadOK(t)
  BY DEF Inv
<1>2. left[t] \in Seq(Replicas)
      /\ (left[t] # <<>> => Head(left[t]) \in Replicas /\ Tail(left[t]) \in Seq(Replicas))
  <2>1. left[t] \in Seq(Replicas)
    BY <1>1 DEF ServerTypes
  <2> QED
    BY <2>1, HeadTailProperties
<1>3. /\ rtVars' = rtVars /\ answer' = answer /\ heard' = heard
      /\ at[t] = "idle" /\ pc'[t] # "min" /\ Posting(t)'
      /\ \A u \in Threads : u # t => pc'[u] = pc[u] /\ left'[u] = left[u]
      /\ ServerTypes'
  <2> USE <1>1, <1>2 DEF ServerTypes, ThreadOK, Elsewhere, Posting, Goto
  <2>1. CASE Post(t)
    BY <2>1 DEF Post
  <2>2. CASE Respond(t)
    <3>1. PICK measured \in SUBSET Reachable(t) :
            /\ lines' = [lines EXCEPT ![t] = measured]
            /\ results' = [cr \in Clients \X Replicas |->
                 IF t = PingThread /\ cr[1] \in measured /\ cr[2] = Head(left[t])
                   THEN results[cr] + 1 ELSE results[cr]]
      BY <2>2 DEF Respond
    <3>2. measured \in SUBSET Clients
      BY DEF Reachable
    <3>3. results' \in [Clients \X Replicas -> 0..MaxResults]
      <4>1. ASSUME NEW cr \in Clients \X Replicas, t = PingThread, cr[1] \in measured,
                   cr[2] = Head(left[t])
            PROVE  results[cr] + 1 \in 0..MaxResults
        <5>1. cr = <<cr[1], Head(left[t])>>
          BY <4>1
        <5>2. results[cr] < MaxResults /\ results[cr] \in 0..MaxResults
          BY <4>1, <5>1 DEF Reachable
        <5> QED
          BY <5>2
      <4> QED
        BY <3>1, <4>1
    <3> QED
      BY <2>2, <3>1, <3>2, <3>3 DEF Respond
  <2>3. CASE EndOfBody(t)
    BY <2>3 DEF EndOfBody
  <2>4. CASE EndOfBatch(t)
    BY <2>4 DEF EndOfBatch
  <2>5. CASE Fail(t)
    BY <2>5 DEF Fail
  <2>6. CASE t = PingThread /\ Wake
    BY <2>6 DEF Wake
  <2>7. CASE t \in Queries /\ Receive(t)
    BY <2>7 DEF Receive
  <2>8. CASE t \in Queries /\ AddClient(t)
    BY <2>8 DEF AddClient
  <2>9. CASE t \in Queries /\ Send(t)
    BY <2>9 DEF Send
  <2> QED
    BY <2>1, <2>2, <2>3, <2>4, <2>5, <2>6, <2>7, <2>8, <2>9
<1> QED
  BY <1>3, QuietStep

(* The invariant holds always. *)
THEOREM Invariant == Spec => []Inv
<1>1. Inv /\ [Next]_vars => Inv'
  <2> SUFFICES ASSUME Inv, [Next]_vars PROVE Inv'
    OBVIOUS
  <2>1. CASE Next
    <3>1. PingThread \in Threads /\ Queries \subseteq Threads
      BY ServerAssumption
    <3> QED
      BY <2>1, <3>1, TableKeepsInv, CheckKeepsInv, AnswerKeepsInv, LineKeepsInv,
         PingKeepsInv DEF Next, Resolves, Pings
  <2>2. CASE UNCHANGED vars
    <3>1. TypeInv' /\ RecordsHeard'
      BY <2>2, TableStays DEF vars, rtVars
    <3>2. \A u \in Threads : ThreadOK(u)'
      BY <2>2, OthersOK DEF vars
    <3>3. ServerTypes' /\ AnswersAreJustified'
      BY <2>2 DEF vars, Inv, ServerTypes, AnswersAreJustified
    <3> QED
      BY <3>1, <3>2, <3>3 DEF Inv
  <2> QED
    BY <2>1, <2>2
<1> QED
  BY <1>1, InitInv, PTL DEF Spec

(* The types of the table and of the threads, for any queries. *)
THEOREM TypeCorrect == Spec => []TypeOK
<1>1. Inv => TypeOK
  BY DEF Inv, TypeInv, ServerTypes, TypeOK
<1> QED
  BY <1>1, Invariant, PTL

(* A replica that answers is the closest, or one that has answered a ping  *)
(* for the client, although rows and records are replaced and lost.        *)
THEOREM AnswersHaveReasons == Spec => []AnswersAreJustified
<1>1. Inv => AnswersAreJustified
  BY DEF Inv
<1> QED
  BY <1>1, Invariant, PTL
=============================================================================
