------------------------- MODULE ReplicaServer_proofs -------------------------
(***************************************************************************)
(* Proofs about ReplicaServer, for any number of requests, preloads, pings *)
(* and workers, any paths and any failures of the origin.                  *)
(***************************************************************************)
EXTENDS ReplicaServer, SequenceTheorems, WellFoundedInduction, TLAPS

-----------------------------------------------------------------------------
(* The lock *)

(* A set of numbers that is not empty has a least element. *)
LEMMA LeastNumber ==
  ASSUME NEW S \in SUBSET Nat, S # {}
  PROVE  \E x \in S : \A y \in S : x <= y
<1> DEFINE R == OpToRel(<, Nat)
<1>1. IsWellFoundedOn(R, Nat)
  BY NatLessThanWellFounded
<1>2. \A y, x \in Nat : y < x => <<y, x>> \in R
  BY DEF OpToRel
<1> HIDE DEF R
<1>3. PICK x \in S : \A y \in S : ~ (<<y, x>> \in R)
  BY <1>1, WFMin, Zenon
<1>4. \A y \in S : ~ (y < x)
  BY <1>2, <1>3, Zenon
<1> QED
  BY <1>4

(* The readers that come before the first writer: the n of Grant exists. *)
LEMMA ReadersBeforeWriter ==
  ASSUME NEW q \in Seq(Waiter)
  PROVE  \E n \in 0..Len(q) :
           /\ \A i \in 1..n : ~ q[i].write
           /\ n = Len(q) \/ q[n + 1].write
<1> DEFINE W == {i \in 1..Len(q) : q[i].write}
<1>1. Len(q) \in Nat
  BY LenProperties
<1>2. CASE W = {}
  <2>1. \A i \in 1..Len(q) : ~ q[i].write
    BY <1>2
  <2> QED
    BY <1>1, <2>1
<1>3. CASE W # {}
  <2>0. W \in SUBSET Nat
    BY <1>1
  <2>1. PICK x \in W : \A y \in W : x <= y
    <3> HIDE DEF W
    <3> QED
      BY <1>3, <2>0, LeastNumber
  <2>2. x - 1 \in 0..Len(q) /\ (x - 1) + 1 = x /\ q[x].write
    BY <1>1, <2>1
  <2>3. \A i \in 1..(x - 1) : ~ q[i].write
    BY <1>1, <2>1
  <2> QED
    BY <2>2, <2>3
<1> QED
  BY <1>2, <1>3

(* What Grant does: it serves the first k waiters, which are readers, or   *)
(* one writer that finds no reader.                                        *)
LEMMA GrantServes ==
  ASSUME NEW l \in Lock, l.writer = NoTask
  PROVE  \E k \in 0..Len(l.queue) :
           /\ Grant(l) \in Lock
           /\ Len(Grant(l).queue) = Len(l.queue) - k
           /\ \A i \in 1..Len(l.queue) - k : Grant(l).queue[i] = l.queue[i + k]
           /\ \/ /\ Grant(l).writer = NoTask
                 /\ \A r \in Grant(l).readers :
                      \/ r \in l.readers
                      \/ \E i \in 1..k : ~ l.queue[i].write /\ l.queue[i].task = r
              \/ /\ k = 1 /\ l.queue[1].write
                 /\ Grant(l).readers = {}
                 /\ Grant(l).writer = l.queue[1].task
<1>1. l.queue \in Seq(Waiter) /\ l.readers \in SUBSET Tasks
  BY DEF Lock
<1>2. Len(l.queue) \in Nat /\ \A i \in 1..Len(l.queue) : l.queue[i] \in Waiter
  BY <1>1, LenProperties, ElementOfSeq
<1>3. CASE l.queue # <<>> /\ Head(l.queue).write /\ l.readers = {}
  <2>1. /\ Head(l.queue) = l.queue[1] /\ Head(l.queue) \in Waiter
        /\ Tail(l.queue) \in Seq(Waiter)
        /\ Len(Tail(l.queue)) = Len(l.queue) - 1
        /\ \A i \in 1..Len(Tail(l.queue)) : Tail(l.queue)[i] = l.queue[i + 1]
        /\ Len(l.queue) >= 1
    BY <1>1, <1>2, <1>3, HeadTailProperties, EmptySeq
  <2>2. Grant(l) = [l EXCEPT !.writer = Head(l.queue).task, !.queue = Tail(@)]
    BY <1>3 DEF Grant
  <2>3. /\ Grant(l).writer = l.queue[1].task /\ Grant(l).readers = {}
        /\ Grant(l).queue = Tail(l.queue)
    BY <1>3, <2>1, <2>2 DEF Lock
  <2>4. Grant(l) \in Lock
    BY <2>1, <2>2 DEF Lock, Waiter
  <2> QED
    BY <1>2, <1>3, <2>1, <2>3, <2>4
<1>4. CASE l.queue # <<>> /\ Head(l.queue).write /\ l.readers # {}
  <2>1. Grant(l) = l
    BY <1>4 DEF Grant
  <2> QED
    BY <1>2, <2>1
<1>5. CASE ~ (l.queue # <<>> /\ Head(l.queue).write)
  <2> DEFINE P(i) == /\ \A j \in 1..i : ~ l.queue[j].write
                     /\ i = Len(l.queue) \/ l.queue[i + 1].write
             n == CHOOSE i \in 0..Len(l.queue) : P(i)
             served == {l.queue[i].task : i \in 1..n}
  <2>1. \E i \in 0..Len(l.queue) : P(i)
    BY <1>1, ReadersBeforeWriter
  <2>2. n \in 0..Len(l.queue) /\ P(n)
    BY <2>1
  <2>3. Grant(l) = [l EXCEPT !.readers = @ \cup served,
                             !.queue = SubSeq(@, n + 1, Len(@))]
    BY <1>5 DEF Grant
  <2>4. served \subseteq Tasks
        /\ \A r \in served : \E i \in 1..n : ~ l.queue[i].write /\ l.queue[i].task = r
    <3> HIDE DEF n
    <3> QED
      BY <1>2, <2>2 DEF Waiter
  <2> HIDE DEF n, P
  <2>5. \A j \in (n + 1)..Len(l.queue) : l.queue[j] \in Waiter
    BY <1>2, <2>2
  <2>6. /\ SubSeq(l.queue, n + 1, Len(l.queue)) \in Seq(Waiter)
        /\ Len(SubSeq(l.queue, n + 1, Len(l.queue))) = Len(l.queue) - n
        /\ \A i \in 1..Len(l.queue) - n :
             SubSeq(l.queue, n + 1, Len(l.queue))[i] = l.queue[i + n]
    BY <1>1, <1>2, <2>2, <2>5, SubSeqProperties
  <2> HIDE DEF served
  <2>7. /\ Grant(l).writer = NoTask /\ Grant(l).readers = l.readers \cup served
        /\ Grant(l).queue = SubSeq(l.queue, n + 1, Len(l.queue))
    BY <2>3 DEF Lock
  <2>8. Grant(l) \in Lock
    BY <1>1, <2>3, <2>4, <2>6 DEF Lock
  <2> QED
    BY <2>2, <2>4, <2>6, <2>7, <2>8
<1> QED
  BY <1>3, <1>4, <1>5

(* GuardsBelong, of any lock and any labels. *)
Belongs(l, at) ==
  /\ \A t \in l.readers : at[t] \in {"inflate", "log"}
  /\ l.writer # NoTask => l.readers = {} /\ at[l.writer] \in {"insert", "shrink"}
  /\ \A i \in 1..Len(l.queue) :
       /\ l.queue[i].write => at[l.queue[i].task] \in {"insert", "shrink"}
       /\ ~ l.queue[i].write => at[l.queue[i].task] = "log"
       /\ l.queue[i].task \notin l.readers
       /\ l.queue[i].task # l.writer
       /\ \A j \in 1..Len(l.queue) : l.queue[j].task = l.queue[i].task => i = j

Absent(l, t) ==
  /\ t \notin l.readers /\ t # l.writer
  /\ \A i \in 1..Len(l.queue) : l.queue[i].task # t

(* The types of the parts of a lock. *)
LEMMA LockFields ==
  ASSUME NEW l \in Lock
  PROVE  /\ l.readers \in SUBSET Tasks /\ l.writer \in Tasks \cup {NoTask}
         /\ l.queue \in Seq(Waiter) /\ Len(l.queue) \in Nat
         /\ \A i \in 1..Len(l.queue) :
              /\ l.queue[i] \in Waiter
              /\ l.queue[i].task \in Tasks /\ l.queue[i].write \in BOOLEAN
              /\ l.queue[i].task # NoTask
<1>1. l.queue \in Seq(Waiter)
  BY DEF Lock
<1>2. Len(l.queue) \in Nat /\ \A i \in 1..Len(l.queue) : l.queue[i] \in Waiter
  BY <1>1, LenProperties, ElementOfSeq
<1> QED
  BY <1>1, <1>2, ReplicaAssumption DEF Lock, Waiter

(* Serving waiters keeps every guard with a task that needs it. *)
LEMMA GrantBelongs ==
  ASSUME NEW l \in Lock, l.writer = NoTask, NEW at, Belongs(l, at)
  PROVE  Grant(l) \in Lock /\ Belongs(Grant(l), at)
<1> DEFINE g == Grant(l)
<1>1. PICK k \in 0..Len(l.queue) :
           /\ g \in Lock
           /\ Len(g.queue) = Len(l.queue) - k
           /\ \A i \in 1..Len(l.queue) - k : g.queue[i] = l.queue[i + k]
           /\ \/ /\ g.writer = NoTask
                 /\ \A r \in g.readers :
                      \/ r \in l.readers
                      \/ \E i \in 1..k : ~ l.queue[i].write /\ l.queue[i].task = r
              \/ /\ k = 1 /\ l.queue[1].write
                 /\ g.readers = {}
                 /\ g.writer = l.queue[1].task
  BY GrantServes
<1> HIDE DEF g
<1>2. Len(l.queue) \in Nat /\ \A i \in 1..Len(l.queue) : l.queue[i].task # NoTask
  BY LockFields
<1>3. \A t \in g.readers : at[t] \in {"inflate", "log"}
  BY <1>1, <1>2 DEF Belongs
<1>4. g.writer # NoTask => g.readers = {} /\ at[g.writer] \in {"insert", "shrink"}
  BY <1>1, <1>2 DEF Belongs
<1>5. ASSUME NEW i \in 1..Len(g.queue)
      PROVE  /\ g.queue[i].write => at[g.queue[i].task] \in {"insert", "shrink"}
             /\ ~ g.queue[i].write => at[g.queue[i].task] = "log"
             /\ g.queue[i].task \notin g.readers
             /\ g.queue[i].task # g.writer
             /\ \A j \in 1..Len(g.queue) : g.queue[j].task = g.queue[i].task => i = j
  <2>1. i + k \in 1..Len(l.queue) /\ g.queue[i] = l.queue[i + k] /\ i + k > k
    BY <1>1, <1>2
  <2>2. \A j \in 1..k : l.queue[j].task # l.queue[i + k].task
    BY <1>2, <2>1 DEF Belongs
  <2>3. g.queue[i].task \notin g.readers
    <3>1. l.queue[i + k].task \notin l.readers
      BY <2>1 DEF Belongs
    <3>2. \/ g.readers = {}
          \/ \A r \in g.readers :
               r \in l.readers \/ \E j \in 1..k : l.queue[j].task = r
      BY <1>1
    <3> QED
      BY <2>1, <2>2, <3>1, <3>2
  <2>4. g.queue[i].task # g.writer
    BY <1>1, <1>2, <2>1, <2>2
  <2>5. ASSUME NEW j \in 1..Len(g.queue), g.queue[j].task = g.queue[i].task
        PROVE  i = j
    <3>1. j + k \in 1..Len(l.queue) /\ g.queue[j] = l.queue[j + k]
      BY <1>1, <1>2
    <3>2. i + k = j + k
      BY <2>1, <2>5, <3>1 DEF Belongs
    <3> QED
      BY <3>2, <1>1, <1>2
  <2> QED
    BY <2>1, <2>3, <2>4, <2>5 DEF Belongs
<1> QED
  BY <1>1, <1>3, <1>4, <1>5 DEF Belongs, g

(* A task that is at no label of a guard holds none and waits for none.    *)
LEMMA ElsewhereAbsent ==
  ASSUME NEW l \in Lock, NEW at, Belongs(l, at), NEW t \in Tasks,
         t \notin l.readers, at[t] \notin {"log", "insert", "shrink"}
  PROVE  Absent(l, t)
<1>1. \A i \in 1..Len(l.queue) : l.queue[i].write \in BOOLEAN
  BY LockFields
<1>2. t # NoTask
  BY ReplicaAssumption
<1>3. t # l.writer
  BY <1>2 DEF Belongs
<1>4. \A i \in 1..Len(l.queue) : l.queue[i].task # t
  BY <1>1 DEF Belongs
<1> QED
  BY <1>3, <1>4 DEF Absent

(* A task that holds nothing and waits for nothing acquires the lock. *)
LEMMA AcquireBelongs ==
  ASSUME NEW l \in Lock, NEW t \in Tasks, NEW write \in BOOLEAN,
         NEW at, NEW at2, Belongs(l, at), Absent(l, t),
         \A s \in Tasks : s # t => at2[s] = at[s],
         at2[t] \in IF write THEN {"insert", "shrink"} ELSE {"log"}
  PROVE  Acquire(l, t, write) \in Lock /\ Belongs(Acquire(l, t, write), at2)
<1> DEFINE w == [task |-> t, write |-> write]
           m == [l EXCEPT !.queue = Append(@, w)]
<1>1. /\ l.readers \in SUBSET Tasks /\ l.writer \in Tasks \cup {NoTask}
      /\ l.queue \in Seq(Waiter) /\ Len(l.queue) \in Nat
      /\ \A i \in 1..Len(l.queue) : l.queue[i].task \in Tasks /\ l.queue[i] \in Waiter
  BY LockFields
<1>2. w \in Waiter /\ w.task = t /\ w.write = write
  BY DEF Waiter
<1> HIDE DEF w
<1>3. /\ Append(l.queue, w) \in Seq(Waiter)
      /\ Len(Append(l.queue, w)) = Len(l.queue) + 1
      /\ \A i \in 1..Len(l.queue) : Append(l.queue, w)[i] = l.queue[i]
      /\ Append(l.queue, w)[Len(l.queue) + 1] = w
  BY <1>1, <1>2, AppendProperties
<1>4. m \in Lock
  BY <1>3 DEF Lock
<1>5. /\ m.readers = l.readers /\ m.writer = l.writer
      /\ m.queue = Append(l.queue, w)
  BY DEF Lock
<1>6. /\ Len(m.queue) = Len(l.queue) + 1
      /\ \A i \in 1..Len(l.queue) : m.queue[i] = l.queue[i]
      /\ m.queue[Len(l.queue) + 1] = w
  BY <1>3, <1>5
<1>7. Acquire(l, t, write) = IF l.writer = NoTask THEN Grant(m) ELSE m
  BY DEF Acquire, w
<1> HIDE DEF m
<1>8. Belongs(m, at2)
  <2>1. \A r \in m.readers : at2[r] \in {"inflate", "log"}
    BY <1>1, <1>5 DEF Belongs, Absent
  <2>2. m.writer # NoTask => m.readers = {} /\ at2[m.writer] \in {"insert", "shrink"}
    BY <1>1, <1>5 DEF Belongs, Absent
  <2>3. ASSUME NEW i \in 1..Len(m.queue)
        PROVE  /\ m.queue[i].write => at2[m.queue[i].task] \in {"insert", "shrink"}
               /\ ~ m.queue[i].write => at2[m.queue[i].task] = "log"
               /\ m.queue[i].task \notin m.readers
               /\ m.queue[i].task # m.writer
               /\ \A j \in 1..Len(m.queue) : m.queue[j].task = m.queue[i].task => i = j
    <3>1. CASE i \in 1..Len(l.queue)
      <4>1. \A j \in 1..Len(m.queue) : j \in 1..Len(l.queue) \/ m.queue[j].task = t
        BY <1>1, <1>2, <1>6
      <4> QED
        BY <1>1, <1>5, <1>6, <3>1, <4>1 DEF Belongs, Absent
    <3>2. CASE i = Len(l.queue) + 1
      <4>1. m.queue[i].task = t /\ m.queue[i].write = write
        BY <1>2, <1>6, <3>2
      <4>2. \A j \in 1..Len(m.queue) : m.queue[j].task = t => i = j
        BY <1>1, <1>6, <3>2 DEF Absent
      <4> QED
        BY <1>5, <4>1, <4>2 DEF Absent
    <3> QED
      BY <1>1, <1>6, <3>1, <3>2
  <2> QED
    BY <2>1, <2>2, <2>3 DEF Belongs
<1> QED
  BY <1>4, <1>5, <1>7, <1>8, GrantBelongs

(* A task that holds a guard drops it. *)
LEMMA ReleaseBelongs ==
  ASSUME NEW l \in Lock, NEW t \in Tasks, t \in l.readers \/ l.writer = t,
         NEW at, NEW at2, Belongs(l, at),
         \A s \in Tasks : s # t => at2[s] = at[s]
  PROVE  Release(l, t) \in Lock /\ Belongs(Release(l, t), at2)
<1> DEFINE m == [l EXCEPT !.readers = @ \ {t}, !.writer = IF @ = t THEN NoTask ELSE @]
<1>1. /\ l.readers \in SUBSET Tasks /\ l.writer \in Tasks \cup {NoTask}
      /\ Len(l.queue) \in Nat
      /\ \A i \in 1..Len(l.queue) : l.queue[i].task \in Tasks
      /\ \A i \in 1..Len(l.queue) : l.queue[i].task # NoTask
  BY LockFields
<1>2. l.writer = NoTask \/ l.writer = t
  BY DEF Belongs
<1>3. m.readers = l.readers \ {t} /\ m.writer = NoTask /\ m.queue = l.queue
  BY <1>2 DEF Lock
<1>4. m \in Lock
  BY DEF Lock
<1>5. Release(l, t) = Grant(m)
  BY DEF Release
<1> HIDE DEF m
<1>6. \A i \in 1..Len(l.queue) : l.queue[i].task # t
  BY DEF Belongs
<1>7. Belongs(m, at2)
  BY <1>1, <1>3, <1>6 DEF Belongs
<1> QED
  BY <1>3, <1>4, <1>5, <1>7, GrantBelongs

-----------------------------------------------------------------------------
(* The invariant *)

(* The labels of each handler. *)
Labels ==
  /\ \A t \in Requests :
       pc[t] \in {"idle", "lookup", "inflate", "disk", "fetch", "backoff", "send"}
  /\ \A t \in Preloads :
       pc[t] \in {"idle", "loop", "fetch", "backoff", "compress", "insert", "shrink",
                  "size", "log", "panicked"}
  /\ \A t \in Pings : pc[t] \in {"idle", "scamper"}

(* b is a text the origin has had for path p. *)
IsTextOf(b, p) == b \in Body /\ b.path = p /\ b.version <= origin[p]

(* What is held, cached or answered is a text of the path it stands for. *)
Texts ==
  /\ \A p \in Paths : cache[p] # NoBody => IsTextOf(cache[p], p)
  /\ \A t \in Requests :
       /\ pc[t] = "idle" => path[t] = NoPath
       /\ pc[t] # "idle" => path[t] \in Paths /\ reply[t] = NoBody
       /\ pc[t] \in {"inflate", "send"} => IsTextOf(body[t], path[t])
  /\ \A t \in Preloads :
       /\ pc[t] \in {"fetch", "backoff", "compress", "insert"} => path[t] \in Paths
       /\ pc[t] \in {"compress", "insert"} => IsTextOf(body[t], path[t])

(* Preload t is through with the first paths of its body; the next is in   *)
(* its hands, if any, and what follows is yet to be done.                  *)
PreloadProgress(t) ==
  LET n == Len(Jobs[t]) - Len(rest[t]) IN
  /\ path[t] = NoPath <=> pc[t] \in {"idle", "loop", "shrink", "size", "log"}
  /\ pc[t] \in {"shrink", "size", "log"} => rest[t] = <<>>
  /\ pc[t] # "idle" =>
       /\ n >= 0 /\ \A j \in 1..Len(rest[t]) : rest[t][j] = Jobs[t][n + j]
       /\ path[t] # NoPath => n > 0 /\ path[t] = Jobs[t][n]
       /\ \A i \in 1..Through(t) : cache[Jobs[t][i]] # NoBody

Progress == \A t \in Preloads : PreloadProgress(t)

Inv ==
  /\ TypeOK
  /\ Labels
  /\ Texts
  /\ Belongs(lock, pc)
  /\ Progress

(* The invariant holds at first. *)
LEMMA InitInv == Init => Inv
<1> SUFFICES ASSUME Init PROVE Inv
  OBVIOUS
<1> USE ReplicaAssumption DEF Init
<1>1. lock \in Lock /\ Belongs(lock, pc)
  <2>1. Unlocked.queue = <<>> /\ Unlocked.readers = {} /\ Unlocked.writer = NoTask
    BY DEF Unlocked
  <2>2. <<>> \in Seq(Waiter) /\ Len(<<>>) = 0
    BY EmptySeq
  <2> QED
    BY <2>1, <2>2 DEF Lock, Unlocked, Belongs
<1>2. rest \in [Tasks -> Seq(Paths)]
  BY EmptySeq
<1>3. TypeOK
  BY <1>1, <1>2 DEF TypeOK
<1>4. Labels
  BY DEF Labels
<1>5. Texts
  BY DEF Texts
<1>6. Progress
  BY DEF Progress, PreloadProgress
<1> QED
  BY <1>1, <1>3, <1>4, <1>5, <1>6 DEF Inv

(* The two outcomes of the actions that have two. *)
Hit(t) ==
  /\ pc[t] = "lookup" /\ TryRead(lock) /\ cache[path[t]] # NoBody
  /\ pc' = [pc EXCEPT ![t] = "inflate"]
  /\ body' = [body EXCEPT ![t] = cache[path[t]]]
  /\ lock' = EnterRead(lock, t)
  /\ UNCHANGED <<origin, cache, path, rest, reply>>

Miss(t) ==
  /\ pc[t] = "lookup"
  /\ pc' = [pc EXCEPT ![t] = "disk"]
  /\ UNCHANGED <<origin, cache, lock, path, body, rest, reply>>

FoundOnDisk(t) ==
  /\ pc[t] = "disk"
  /\ pc' = [pc EXCEPT ![t] = "inflate"]
  /\ body' = [body EXCEPT ![t] = [path |-> path[t], version |-> 0]]
  /\ UNCHANGED <<origin, cache, lock, path, rest, reply>>

NotOnDisk(t) ==
  /\ pc[t] = "disk"
  /\ pc' = [pc EXCEPT ![t] = "fetch"]
  /\ UNCHANGED <<origin, cache, lock, path, body, rest, reply>>

FetchedTo(t, label) ==
  /\ pc[t] = "fetch"
  /\ pc' = [pc EXCEPT ![t] = label]
  /\ body' = [body EXCEPT ![t] = [path |-> path[t], version |-> origin[path[t]]]]
  /\ UNCHANGED <<origin, cache, lock, path, rest, reply>>

RequestFails(t) ==
  /\ \/ pc[t] = "fetch"
     \/ pc[t] = "inflate" /\ t \notin lock.readers
  /\ pc' = [pc EXCEPT ![t] = "idle"]
  /\ path' = [path EXCEPT ![t] = NoPath]
  /\ body' = [body EXCEPT ![t] = NoBody]
  /\ reply' = [reply EXCEPT ![t] = NoBody]
  /\ UNCHANGED <<origin, cache, lock, rest>>

PreloadPanics(t) ==
  /\ pc[t] = "fetch"
  /\ pc' = [pc EXCEPT ![t] = "panicked"]
  /\ UNCHANGED <<origin, cache, lock, path, body, rest, reply>>

TakePath(t) ==
  /\ pc[t] = "loop" /\ rest[t] # <<>>
  /\ pc' = [pc EXCEPT ![t] = "fetch"]
  /\ path' = [path EXCEPT ![t] = Head(rest[t])]
  /\ rest' = [rest EXCEPT ![t] = Tail(@)]
  /\ UNCHANGED <<origin, cache, lock, body, reply>>

LeaveLoop(t) ==
  /\ pc[t] = "loop" /\ rest[t] = <<>>
  /\ pc' = [pc EXCEPT ![t] = "shrink"]
  /\ lock' = Acquire(lock, t, TRUE)
  /\ UNCHANGED <<origin, cache, path, body, rest, reply>>

Answered(t) ==
  /\ pc[t] \in {"inflate", "send"}
  /\ pc' = [pc EXCEPT ![t] = "idle"]
  /\ path' = [path EXCEPT ![t] = NoPath]
  /\ body' = [body EXCEPT ![t] = NoBody]
  /\ reply' = [reply EXCEPT ![t] = body[t]]
  /\ lock' = IF pc[t] = "inflate" /\ t \in lock.readers THEN Release(lock, t) ELSE lock
  /\ UNCHANGED <<origin, cache, rest>>

(* A step of a request. *)
RequestStep(t) ==
  \/ \E p \in Paths : Request(t, p)
  \/ Hit(t) \/ Miss(t) \/ FoundOnDisk(t) \/ NotOnDisk(t) \/ FetchedTo(t, "send")
  \/ Retry(t) \/ ServerError(t) \/ RequestFails(t) \/ HangUp(t) \/ Answered(t)

(* A step of a preload. *)
PreloadStep(t) ==
  \/ Preload(t) \/ TakePath(t) \/ FetchedTo(t, "compress")
  \/ Retry(t) \/ ServerError(t) \/ PreloadPanics(t)
  \/ Compressed(t) \/ Insert(t) \/ LeaveLoop(t) \/ Shrink(t) \/ Size(t) \/ Log(t)

(* Every step is one of these. *)
LEMMA NextActions ==
  ASSUME Next
  PROVE  \/ \E p \in Paths : Publish(p)
         \/ \E t \in Requests : RequestStep(t)
         \/ \E t \in Preloads : PreloadStep(t)
         \/ \E t \in Pings : Ping(t) \/ Scamped(t)
<1>1. ASSUME NEW t, Lookup(t) PROVE Hit(t) \/ Miss(t)
  BY <1>1 DEF Lookup, At, Goto, Hit, Miss
<1>2. ASSUME NEW t, ReadDisk(t) PROVE FoundOnDisk(t) \/ NotOnDisk(t)
  BY <1>2 DEF ReadDisk, At, Goto, FoundOnDisk, NotOnDisk
<1>3. ASSUME NEW t, Fetched(t)
      PROVE  FetchedTo(t, IF t \in Preloads THEN "compress" ELSE "send")
  BY <1>3 DEF Fetched, At, Goto, FetchedTo
<1>4. ASSUME NEW t, Unreachable(t)
      PROVE  IF t \in Requests THEN RequestFails(t) ELSE PreloadPanics(t)
  <2>1. pc[t] = "fetch" /\ t \in Requests => RequestFails(t)
    BY <1>4 DEF Unreachable, End, Goto, RequestFails
  <2>2. pc[t] = "fetch" /\ t \notin Requests => PreloadPanics(t)
    BY <1>4 DEF Unreachable, Goto, PreloadPanics
  <2>3. pc[t] = "fetch"
    BY <1>4 DEF Unreachable, At
  <2> QED
    BY <2>1, <2>2, <2>3
<1>5. ASSUME NEW t, NextPath(t) PROVE TakePath(t) \/ LeaveLoop(t)
  BY <1>5 DEF NextPath, At, Goto, TakePath, LeaveLoop
<1>6. ASSUME NEW t, Inflated(t) \/ Send(t) PROVE Answered(t) \/ RequestFails(t)
  BY <1>6 DEF Inflated, Send, At, End, Goto, Reads, Answered, RequestFails
<1>7. Requests \cap Preloads = {}
  BY ReplicaAssumption
<1>8. ASSUME NEW t \in Requests,
             Serve(t) \/ HangUp(t) \/ (\E p \in Paths : Request(t, p))
             \/ ServerError(t) \/ Unreachable(t)
      PROVE  RequestStep(t)
  BY <1>1, <1>2, <1>3, <1>4, <1>6, <1>7, <1>8 DEF Serve, RequestStep
<1>9. ASSUME NEW t \in Preloads,
             Preload(t) \/ Load(t) \/ ServerError(t) \/ Unreachable(t)
      PROVE  PreloadStep(t)
  BY <1>3, <1>4, <1>5, <1>7, <1>9 DEF Load, PreloadStep
<1> QED
  BY <1>8, <1>9 DEF Next

(* The actions on the lock keep every guard with a task that needs it. *)
LEMMA LockStep ==
  ASSUME Inv, [Next]_vars
  PROVE  lock' \in Lock /\ Belongs(lock, pc)'
<1> USE DEF Inv, TypeOK, Labels
<1> USE ReplicaAssumption
<1>1. /\ lock.readers \in SUBSET Tasks /\ lock.writer \in Tasks \cup {NoTask}
      /\ Len(lock.queue) \in Nat
      /\ \A i \in 1..Len(lock.queue) :
           /\ lock.queue[i] \in Waiter
           /\ lock.queue[i].task \in Tasks
           /\ lock.queue[i].write \in BOOLEAN
           /\ lock.queue[i].task # NoTask
  BY LockFields
<1>2. ASSUME NEW t \in Tasks, pc[t] \notin {"inflate", "log", "insert", "shrink"}
      PROVE  Absent(lock, t)
  <2>1. t \notin lock.readers
    BY <1>2 DEF Belongs
  <2> QED
    BY <1>2, <2>1, ElsewhereAbsent
<1>3. ASSUME NEW t \in Tasks, NEW label, pc' = [pc EXCEPT ![t] = label],
             Absent(lock, t), lock' = lock
      PROVE  lock' \in Lock /\ Belongs(lock, pc)'
  BY <1>1, <1>3 DEF Belongs, Absent
<1>4. ASSUME NEW t \in Preloads, NEW write \in BOOLEAN, NEW label,
             pc' = [pc EXCEPT ![t] = label], lock' = Acquire(lock, t, write),
             pc[t] \notin {"inflate", "log", "insert", "shrink"},
             label \in IF write THEN {"insert", "shrink"} ELSE {"log"}
      PROVE  lock' \in Lock /\ Belongs(lock, pc)'
  <2>1. t \in Tasks /\ Absent(lock, t)
    BY <1>2, <1>4
  <2>2. /\ pc'[t] \in IF write THEN {"insert", "shrink"} ELSE {"log"}
        /\ \A s \in Tasks : s # t => pc'[s] = pc[s]
    BY <1>4, <2>1
  <2>3. Acquire(lock, t, write) \in Lock /\ Belongs(Acquire(lock, t, write), pc')
    BY <2>1, <2>2, AcquireBelongs
  <2> QED
    BY <1>4, <2>3 DEF Belongs
<1>5. ASSUME NEW t \in Tasks, NEW label,
             pc' = [pc EXCEPT ![t] = label], lock' = Release(lock, t),
             t \in lock.readers \/ lock.writer = t
      PROVE  lock' \in Lock /\ Belongs(lock, pc)'
  <2>1. \A s \in Tasks : s # t => pc'[s] = pc[s]
    BY <1>5
  <2>2. Release(lock, t) \in Lock /\ Belongs(Release(lock, t), pc')
    BY <1>5, <2>1, ReleaseBelongs
  <2> QED
    BY <1>5, <2>2 DEF Belongs
<1>6. CASE UNCHANGED vars
  BY <1>6 DEF vars
<1>7. CASE \E p \in Paths : Publish(p)
  BY <1>7 DEF Publish
<1>8. ASSUME NEW t \in Requests, RequestStep(t)
      PROVE  lock' \in Lock /\ Belongs(lock, pc)'
  <2>1. t \in Tasks
    OBVIOUS
  <2>2. CASE \E p \in Paths : Request(t, p)
    BY <1>2, <1>3, <2>1, <2>2 DEF Request, At, Goto
  <2>3. CASE Hit(t)
    <3>1. Absent(lock, t) /\ lock.writer = NoTask /\ lock.queue = <<>>
      BY <1>2, <2>1, <2>3 DEF Hit, TryRead
    <3>2. /\ lock'.readers = lock.readers \cup {t} /\ lock'.writer = NoTask
          /\ lock'.queue = <<>> /\ lock' \in Lock /\ Len(lock'.queue) = 0
      <4>1. lock' = [lock EXCEPT !.readers = lock.readers \cup {t}] /\ lock \in Lock
        BY <1>2, <2>3 DEF Hit, EnterRead
      <4>2. Len(<<>>) = 0
        BY EmptySeq
      <4> QED
        BY ONLY <2>1, <3>1, <4>1, <4>2 DEF Lock
    <3>3. \A s \in lock'.readers : pc'[s] \in {"inflate", "log"}
      BY <1>1, <2>1, <2>3, <3>2 DEF Hit, Belongs
    <3> QED
      BY <3>2, <3>3 DEF Belongs
  <2>4. CASE Miss(t) \/ FoundOnDisk(t) \/ NotOnDisk(t) \/ FetchedTo(t, "send")
    BY <1>2, <1>3, <2>1, <2>4 DEF Miss, FoundOnDisk, NotOnDisk, FetchedTo
  <2>5. CASE Retry(t) \/ ServerError(t) \/ HangUp(t)
    BY <1>2, <1>3, <2>1, <2>5 DEF Retry, ServerError, HangUp, At, End, Goto
  <2>6. CASE Answered(t) /\ pc[t] = "inflate" /\ t \in lock.readers
    BY <1>5, <2>1, <2>6 DEF Answered
  <2>7. CASE Answered(t) /\ ~ (pc[t] = "inflate" /\ t \in lock.readers)
    <3>1. lock' = lock /\ pc' = [pc EXCEPT ![t] = "idle"]
      BY <2>7 DEF Answered
    <3>2. Absent(lock, t)
      BY <2>1, <2>7, ElsewhereAbsent DEF Answered, Belongs
    <3> QED
      BY <1>3, <2>1, <3>1, <3>2
  <2>8. CASE RequestFails(t)
    <3>1. lock' = lock /\ pc' = [pc EXCEPT ![t] = "idle"]
      BY <2>8 DEF RequestFails
    <3>2. Absent(lock, t)
      BY <2>1, <2>8, ElsewhereAbsent DEF RequestFails, Belongs
    <3> QED
      BY <1>3, <2>1, <3>1, <3>2
  <2> QED
    BY <1>8, <2>2, <2>3, <2>4, <2>5, <2>6, <2>7, <2>8 DEF RequestStep
<1>9. ASSUME NEW t \in Preloads, PreloadStep(t)
      PROVE  lock' \in Lock /\ Belongs(lock, pc)'
  <2>1. t \in Tasks
    OBVIOUS
  <2>2. CASE TakePath(t) \/ FetchedTo(t, "compress") \/ PreloadPanics(t)
    BY <1>2, <1>3, <2>1, <2>2 DEF TakePath, FetchedTo, PreloadPanics
  <2>3. CASE Preload(t) \/ Retry(t) \/ ServerError(t)
    BY <1>2, <1>3, <2>1, <2>3 DEF Preload, Retry, ServerError, At, Goto
  <2>4. CASE Compressed(t) \/ LeaveLoop(t) \/ Size(t)
    BY <1>4, <2>4 DEF Compressed, LeaveLoop, Size, At, Goto
  <2>5. CASE Insert(t) \/ Shrink(t) \/ Log(t)
    BY <1>5, <2>1, <2>5 DEF Insert, Shrink, Log, Goto, Reads, Writes
  <2> QED
    BY <1>9, <2>2, <2>3, <2>4, <2>5 DEF PreloadStep
<1>10. ASSUME NEW t \in Pings, Ping(t) \/ Scamped(t)
       PROVE  lock' \in Lock /\ Belongs(lock, pc)'
  <2>1. t \in Tasks
    OBVIOUS
  <2> QED
    BY <1>2, <1>3, <1>10, <2>1 DEF Ping, Scamped, At, Goto
<1> QED
  <2>1. CASE Next
    <3> HIDE DEF Inv, TypeOK, Labels
    <3> QED
      BY <2>1, <1>7, <1>8, <1>9, <1>10, NextActions
  <2> QED
    BY <1>6, <2>1

(* What a task does keeps the types, and the task within its handler.      *)
LEMMA TypeStep ==
  ASSUME Inv, [Next]_vars
  PROVE  TypeOK' /\ Labels'
<1> USE ReplicaAssumption
<1>1. TypeOK /\ Labels /\ Texts
  BY DEF Inv
<1>2. lock' \in Lock
  BY LockStep
<1>3. CASE UNCHANGED vars
  BY <1>1, <1>3 DEF TypeOK, Labels, vars
<1>4. ASSUME NEW p \in Paths, Publish(p)
      PROVE  TypeOK' /\ Labels'
  <2>1. origin' \in [Paths -> 0..MaxVersion]
    BY <1>1, <1>4 DEF TypeOK, Publish
  <2> QED
    BY <1>1, <1>4, <2>1 DEF TypeOK, Labels, Publish
<1>5. ASSUME NEW t, path[t] \in Paths, NEW label, FetchedTo(t, label)
      PROVE  [path |-> path[t], version |-> origin[path[t]]] \in Body
  BY <1>1, <1>5 DEF Body, TypeOK
<1>6. ASSUME NEW t \in Requests, RequestStep(t)
      PROVE  TypeOK' /\ Labels'
  <2>1. CASE \E p \in Paths : Request(t, p)
    BY <1>1, <2>1 DEF TypeOK, Labels, Request, At, Goto
  <2>2. CASE Hit(t)
    <3>1. cache[path[t]] \in Body \cup {NoBody}
      BY <1>1, <2>2 DEF Hit, Texts, TypeOK
    <3> QED
      BY <1>1, <1>2, <2>2, <3>1 DEF TypeOK, Labels, Hit
  <2>3. CASE Miss(t)
    BY <1>1, <2>3 DEF TypeOK, Labels, Miss
  <2>4. CASE FoundOnDisk(t)
    <3>1. [path |-> path[t], version |-> 0] \in Body
      BY <1>1, <2>4 DEF FoundOnDisk, Texts, Body
    <3> QED
      BY <1>1, <2>4, <3>1 DEF TypeOK, Labels, FoundOnDisk
  <2>5. CASE NotOnDisk(t)
    BY <1>1, <2>5 DEF TypeOK, Labels, NotOnDisk
  <2>6. CASE FetchedTo(t, "send")
    <3>1. [path |-> path[t], version |-> origin[path[t]]] \in Body
      BY <1>1, <1>5, <2>6 DEF FetchedTo, Texts
    <3> QED
      BY <1>1, <2>6, <3>1 DEF TypeOK, Labels, FetchedTo
  <2>7. CASE Retry(t) \/ ServerError(t)
    BY <1>1, <2>7 DEF TypeOK, Labels, Retry, ServerError, At, Goto
  <2>8. CASE RequestFails(t)
    BY <1>1, <2>8 DEF TypeOK, Labels, RequestFails
  <2>9. CASE HangUp(t)
    BY <1>1, <2>9 DEF TypeOK, Labels, HangUp, End, Goto
  <2>10. CASE Answered(t)
    BY <1>1, <1>2, <2>10 DEF TypeOK, Labels, Answered
  <2> QED
    BY <1>6, <2>1, <2>2, <2>3, <2>4, <2>5, <2>6, <2>7, <2>8, <2>9, <2>10 DEF RequestStep
<1>7. ASSUME NEW t \in Preloads, PreloadStep(t)
      PROVE  TypeOK' /\ Labels'
  <2>1. CASE Preload(t)
    BY <1>1, <2>1 DEF TypeOK, Labels, Preload, At, Goto
  <2>2. CASE TakePath(t)
    <3>1. rest[t] \in Seq(Paths)
      BY <1>1 DEF TypeOK
    <3>2. Head(rest[t]) \in Paths /\ Tail(rest[t]) \in Seq(Paths)
      BY <2>2, <3>1, HeadTailProperties DEF TakePath
    <3> QED
      BY <1>1, <2>2, <3>2 DEF TypeOK, Labels, TakePath
  <2>3. CASE FetchedTo(t, "compress")
    <3>1. [path |-> path[t], version |-> origin[path[t]]] \in Body
      BY <1>1, <1>5, <2>3 DEF FetchedTo, Texts
    <3> QED
      BY <1>1, <2>3, <3>1 DEF TypeOK, Labels, FetchedTo
  <2>4. CASE Retry(t) \/ ServerError(t)
    BY <1>1, <2>4 DEF TypeOK, Labels, Retry, ServerError, At, Goto
  <2>5. CASE PreloadPanics(t)
    BY <1>1, <2>5 DEF TypeOK, Labels, PreloadPanics
  <2>6. CASE Insert(t)
    BY <1>1, <1>2, <2>6 DEF TypeOK, Labels, Insert, At, Goto
  <2>7. CASE Compressed(t) \/ Shrink(t)
    BY <1>1, <1>2, <2>7 DEF TypeOK, Labels, Compressed, Shrink, At, Goto
  <2>8. CASE LeaveLoop(t) \/ Size(t) \/ Log(t)
    BY <1>1, <1>2, <2>8 DEF TypeOK, Labels, LeaveLoop, Size, Log, At, Goto
  <2> QED
    BY <1>7, <2>1, <2>2, <2>3, <2>4, <2>5, <2>6, <2>7, <2>8 DEF PreloadStep
<1>8. ASSUME NEW t \in Pings, Ping(t) \/ Scamped(t)
      PROVE  TypeOK' /\ Labels'
  <2>1. CASE Ping(t)
    BY <1>1, <2>1 DEF TypeOK, Labels, Ping, At, Goto
  <2>2. CASE Scamped(t)
    BY <1>1, <2>2 DEF TypeOK, Labels, Scamped, Goto
  <2> QED
    BY <1>8, <2>1, <2>2
<1> QED
  BY <1>3, <1>4, <1>6, <1>7, <1>8, NextActions

(* What is a text of p stays one: the origin's versions only grow.         *)
LEMMA TextsStay ==
  ASSUME Inv, [Next]_vars, NEW b, NEW p \in Paths, IsTextOf(b, p)
  PROVE  IsTextOf(b, p)'
<1>1. origin \in [Paths -> 0..MaxVersion] /\ origin' \in [Paths -> 0..MaxVersion]
  BY TypeStep DEF Inv, TypeOK
<1>2. ASSUME NEW t, RequestStep(t) \/ PreloadStep(t) \/ Ping(t) \/ Scamped(t)
      PROVE  origin' = origin
  BY <1>2 DEF RequestStep, PreloadStep, Request, Hit, Miss, FoundOnDisk, NotOnDisk,
     FetchedTo, RequestFails, PreloadPanics, TakePath, LeaveLoop, Answered, HangUp,
     Retry, ServerError, Preload, Compressed, Insert, Shrink, Size, Log, Ping, Scamped
<1>3. origin' = origin \/ \E q \in Paths : origin' = [origin EXCEPT ![q] = @ + 1]
  BY <1>2, NextActions DEF vars, Publish
<1>4. origin'[p] >= origin[p] /\ origin[p] \in Nat /\ origin'[p] \in Nat
  BY <1>1, <1>3, ReplicaAssumption
<1> QED
  BY <1>4, ReplicaAssumption DEF IsTextOf, Body

(* The part of Texts about one task. *)
RequestText(t) ==
  /\ pc[t] = "idle" => path[t] = NoPath
  /\ pc[t] # "idle" => path[t] \in Paths /\ reply[t] = NoBody
  /\ pc[t] \in {"inflate", "send"} => IsTextOf(body[t], path[t])

PreloadText(t) ==
  /\ pc[t] \in {"fetch", "backoff", "compress", "insert"} => path[t] \in Paths
  /\ pc[t] \in {"compress", "insert"} => IsTextOf(body[t], path[t])

(* Texts, put together from its parts. *)
LEMMA TextsParts ==
  ASSUME (\A p \in Paths : cache[p] # NoBody => IsTextOf(cache[p], p))',
         (\A t \in Requests : RequestText(t))',
         (\A t \in Preloads : PreloadText(t))'
  PROVE  Texts'
BY DEF Texts, RequestText, PreloadText

(* What a step leaves alone, it leaves a text of its path. *)
LEMMA TextsKept ==
  ASSUME Inv, [Next]_vars
  PROVE  /\ \A p \in Paths : cache'[p] = cache[p] =>
              (cache[p] # NoBody => IsTextOf(cache[p], p))'
         /\ \A t \in Requests :
              pc'[t] = pc[t] /\ path'[t] = path[t] /\ body'[t] = body[t]
                /\ reply'[t] = reply[t] => RequestText(t)'
         /\ \A t \in Preloads :
              pc'[t] = pc[t] /\ path'[t] = path[t] /\ body'[t] = body[t] => PreloadText(t)'
<1>1. Texts
  BY DEF Inv
<1>2. \A b : \A p \in Paths : IsTextOf(b, p) => IsTextOf(b, p)'
  BY TextsStay
<1>3. ASSUME NEW p \in Paths, cache'[p] = cache[p]
      PROVE  (cache[p] # NoBody => IsTextOf(cache[p], p))'
  BY <1>1, <1>2, <1>3 DEF Texts, IsTextOf
<1>4. ASSUME NEW t \in Requests, pc'[t] = pc[t], path'[t] = path[t],
             body'[t] = body[t], reply'[t] = reply[t]
      PROVE  RequestText(t)'
  BY <1>1, <1>2, <1>4 DEF Texts, IsTextOf, RequestText
<1>5. ASSUME NEW t \in Preloads, pc'[t] = pc[t], path'[t] = path[t], body'[t] = body[t]
      PROVE  PreloadText(t)'
  BY <1>1, <1>2, <1>5 DEF Texts, IsTextOf, PreloadText
<1> QED
  BY <1>3, <1>4, <1>5

(* The text that is fetched for p is one of p. *)
LEMMA FetchedIsText ==
  ASSUME Inv, NEW p \in Paths, NEW v \in 0..origin[p]
  PROVE  IsTextOf([path |-> p, version |-> v], p)
<1>1. origin[p] \in 0..MaxVersion /\ MaxVersion \in Nat
  BY ReplicaAssumption DEF Inv, TypeOK
<1> QED
  BY <1>1 DEF IsTextOf, Body

(* A step puts no text under another path, and invents none. *)
LEMMA TextsStep ==
  ASSUME Inv, [Next]_vars
  PROVE  Texts'
<1> USE ReplicaAssumption
<1>1. TypeOK /\ Labels /\ Texts
  BY DEF Inv
<1> PICK L : pc \in [Tasks -> L]
  BY <1>1 DEF TypeOK
<1>2. /\ pc \in [Tasks -> L] /\ path \in [Tasks -> Paths \cup {NoPath}]
      /\ body \in [Tasks -> Body \cup {NoBody}]
      /\ cache \in [Paths -> Body \cup {NoBody}]
      /\ reply \in [Requests -> Body \cup {NoBody}]
      /\ origin \in [Paths -> 0..MaxVersion]
  BY <1>1 DEF TypeOK
<1>3. /\ \A p \in Paths : cache'[p] = cache[p] =>
           (cache[p] # NoBody => IsTextOf(cache[p], p))'
      /\ \A t \in Requests :
           pc'[t] = pc[t] /\ path'[t] = path[t] /\ body'[t] = body[t]
             /\ reply'[t] = reply[t] => RequestText(t)'
      /\ \A t \in Preloads :
           pc'[t] = pc[t] /\ path'[t] = path[t] /\ body'[t] = body[t] => PreloadText(t)'
  BY TextsKept
<1>4. \A b : \A p \in Paths : IsTextOf(b, p) => IsTextOf(b, p)'
  BY TextsStay
<1>5. CASE UNCHANGED vars
  BY <1>3, <1>5, TextsParts DEF vars
<1>6. CASE \E p \in Paths : Publish(p)
  BY <1>3, <1>6, TextsParts DEF Publish
<1>7. CASE \E t \in Pings : Ping(t) \/ Scamped(t)
  <2>1. PICK t \in Pings : Ping(t) \/ Scamped(t)
    BY <1>7
  <2>2. /\ \A s \in Requests \cup Preloads : pc'[s] = pc[s]
        /\ UNCHANGED <<origin, cache, path, body, reply>>
    BY <1>2, <2>1 DEF Ping, Scamped, Goto
  <2> QED
    BY <1>3, <2>2, TextsParts
<1>8. ASSUME NEW t \in Requests, RequestStep(t)
      PROVE  Texts'
  <2>1. /\ cache' = cache
        /\ \A s \in Tasks : s # t =>
             pc'[s] = pc[s] /\ path'[s] = path[s] /\ body'[s] = body[s]
        /\ \A s \in Requests : s # t => reply'[s] = reply[s]
    BY <1>2, <1>8 DEF RequestStep, Request, Hit, Miss, FoundOnDisk, NotOnDisk, FetchedTo,
       Retry, ServerError, RequestFails, HangUp, Answered, End, Goto
  <2>2. RequestText(t)'
    <3>1. RequestText(t)
      BY <1>1 DEF Texts, RequestText
    <3>2. t \in Tasks /\ (path[t] \in Paths => origin[path[t]] \in Nat)
      BY <1>2
    <3>3. CASE \E p \in Paths : Request(t, p)
      BY <1>2, <3>2, <3>3 DEF Request, Goto, RequestText
    <3>4. CASE Hit(t)
      <4>1. IsTextOf(cache[path[t]], path[t])
        BY <1>1, <3>1, <3>4 DEF Hit, Texts, RequestText
      <4>2. path[t] \in Paths /\ body'[t] = cache[path[t]] /\ path'[t] = path[t]
        BY <1>2, <3>1, <3>2, <3>4 DEF Hit, RequestText
      <4> QED
        BY <1>2, <1>4, <3>1, <3>2, <3>4, <4>1, <4>2 DEF Hit, RequestText, IsTextOf
    <3>5. CASE Miss(t) \/ NotOnDisk(t) \/ Retry(t) \/ ServerError(t)
      BY <1>2, <3>1, <3>2, <3>5
         DEF Miss, NotOnDisk, Retry, ServerError, At, Goto, RequestText
    <3>6. ASSUME NEW v \in 0..origin[path[t]],
                 body' = [body EXCEPT ![t] = [path |-> path[t], version |-> v]],
                 path[t] \in Paths, path' = path
          PROVE  IsTextOf(body[t], path[t])'
      <4>1. IsTextOf([path |-> path[t], version |-> v], path[t])
        BY <3>6, FetchedIsText
      <4>2. body'[t] = [path |-> path[t], version |-> v] /\ path'[t] = path[t]
        BY <1>2, <3>2, <3>6
      <4>3. body'[t] \in Body /\ body'[t].path = path[t] /\ body'[t].version <= origin[path[t]]
        BY <4>1, <4>2 DEF IsTextOf
      <4>4. IsTextOf(body'[t], path[t])
        BY <4>3 DEF IsTextOf
      <4> QED
        BY <1>4, <3>6, <4>2, <4>4 DEF IsTextOf
    <3>7. CASE FoundOnDisk(t)
      <4>1. path[t] \in Paths /\ 0 \in 0..origin[path[t]]
        BY <3>1, <3>2, <3>7 DEF FoundOnDisk, RequestText
      <4> QED
        BY <1>2, <3>1, <3>2, <3>6, <3>7, <4>1 DEF FoundOnDisk, RequestText
    <3>8. CASE FetchedTo(t, "send")
      <4>1. path[t] \in Paths /\ origin[path[t]] \in 0..origin[path[t]]
        BY <3>1, <3>2, <3>8 DEF FetchedTo, RequestText
      <4> QED
        BY <1>2, <3>1, <3>2, <3>6, <3>8, <4>1 DEF FetchedTo, RequestText
    <3>9. CASE RequestFails(t) \/ HangUp(t) \/ Answered(t)
      BY <1>2, <3>2, <3>9 DEF RequestFails, HangUp, Answered, End, Goto, RequestText
    <3> QED
      BY <1>8, <3>3, <3>4, <3>5, <3>7, <3>8, <3>9 DEF RequestStep
  <2> QED
    BY <1>3, <2>1, <2>2, TextsParts
<1>9. ASSUME NEW t \in Preloads, PreloadStep(t)
      PROVE  Texts'
  <2>1. /\ reply' = reply
        /\ \A s \in Tasks : s # t =>
             pc'[s] = pc[s] /\ path'[s] = path[s] /\ body'[s] = body[s]
    BY <1>2, <1>9 DEF PreloadStep, Preload, TakePath, FetchedTo, Retry, ServerError,
       PreloadPanics, Compressed, Insert, LeaveLoop, Shrink, Size, Log, At, Goto
  <2>2. PreloadText(t) /\ t \in Tasks
    BY <1>1 DEF Texts, PreloadText
  <2>3. \A p \in Paths : (cache[p] # NoBody => IsTextOf(cache[p], p))'
    <3>1. CASE Insert(t)
      <4>1. /\ pc[t] = "insert" /\ cache' = [cache EXCEPT ![path[t]] = body[t]]
            /\ path[t] \in Paths /\ IsTextOf(body[t], path[t])
        BY <2>2, <3>1 DEF Insert, At, PreloadText
      <4>2. \A p \in Paths : cache'[p] = IF p = path[t] THEN body[t] ELSE cache[p]
        BY <1>2, <4>1
      <4>3. origin' = origin
        BY <3>1 DEF Insert
      <4>4. \A p \in Paths : p = path[t] =>
              cache'[p] = body[t] /\ IsTextOf(body[t], p)
        BY <4>1, <4>2
      <4> QED
        BY <1>3, <4>2, <4>3, <4>4 DEF IsTextOf
    <3>2. CASE cache' = cache
      BY <1>3, <3>2
    <3> QED
      BY <1>9, <3>1, <3>2 DEF PreloadStep, Preload, TakePath, FetchedTo, Retry, ServerError,
         PreloadPanics, Compressed, LeaveLoop, Shrink, Size, Log
  <2>4. PreloadText(t)'
    <3>1. CASE TakePath(t)
      <4>1. rest[t] \in Seq(Paths) /\ rest[t] # <<>>
        BY <1>1, <2>2, <3>1 DEF TypeOK, TakePath
      <4>2. Head(rest[t]) \in Paths
        BY <4>1, HeadTailProperties
      <4> QED
        BY <1>2, <2>2, <3>1, <4>2 DEF TakePath, PreloadText
    <3>2. CASE FetchedTo(t, "compress")
      <4>1. /\ path[t] \in Paths /\ path' = path /\ pc'[t] = "compress" /\ origin' = origin
            /\ body'[t] = [path |-> path[t], version |-> origin[path[t]]]
        BY <1>2, <2>2, <3>2 DEF FetchedTo, PreloadText
      <4>2. origin[path[t]] \in 0..origin[path[t]]
        BY <1>2, <4>1
      <4>3. IsTextOf([path |-> path[t], version |-> origin[path[t]]], path[t])
        BY <4>1, <4>2, FetchedIsText
      <4> QED
        BY <4>1, <4>3 DEF PreloadText, IsTextOf
    <3>3. CASE Compressed(t)
      <4>1. /\ pc[t] = "compress" /\ pc'[t] = "insert"
            /\ path' = path /\ body' = body /\ origin' = origin
        BY <1>2, <2>2, <3>3 DEF Compressed, Goto
      <4> QED
        BY <2>2, <4>1 DEF PreloadText, IsTextOf
    <3>4. CASE Retry(t) \/ ServerError(t)
      BY <1>2, <2>2, <3>4 DEF Retry, ServerError, At, Goto, PreloadText
    <3>5. CASE pc'[t] \notin {"fetch", "backoff", "compress", "insert"}
      BY <3>5 DEF PreloadText
    <3>6. CASE \/ Preload(t) \/ PreloadPanics(t) \/ Insert(t) \/ LeaveLoop(t)
               \/ Shrink(t) \/ Size(t) \/ Log(t)
      BY <1>2, <2>2, <3>5, <3>6 DEF Preload, PreloadPanics, Insert, LeaveLoop, Shrink,
         Size, Log, At, Goto
    <3> QED
      BY <1>9, <3>1, <3>2, <3>3, <3>4, <3>6 DEF PreloadStep
  <2> QED
    BY <1>3, <2>1, <2>3, <2>4, TextsParts
<1> QED
  BY <1>5, <1>6, <1>7, <1>8, <1>9, NextActions

-----------------------------------------------------------------------------
(* What is cached, and what is yet to be *)

(* The cache changes in Insert alone, where a text of the path is put in. *)
LEMMA CacheStep ==
  ASSUME Inv, [Next]_vars
  PROVE  \/ cache' = cache
         \/ \E t \in Preloads :
              /\ Insert(t) /\ pc[t] = "insert" /\ path[t] \in Paths
              /\ IsTextOf(body[t], path[t])
              /\ \A p \in Paths : cache'[p] = IF p = path[t] THEN body[t] ELSE cache[p]
<1>1. Texts /\ cache \in [Paths -> Body \cup {NoBody}]
  BY DEF Inv, TypeOK
<1>2. ASSUME NEW t \in Preloads, Insert(t)
      PROVE  /\ pc[t] = "insert" /\ path[t] \in Paths
             /\ IsTextOf(body[t], path[t])
             /\ \A p \in Paths : cache'[p] = IF p = path[t] THEN body[t] ELSE cache[p]
  BY <1>1, <1>2 DEF Insert, At, Texts
<1>3. ASSUME NEW t \in Preloads, PreloadStep(t), ~ Insert(t)
      PROVE  cache' = cache
  BY <1>3 DEF PreloadStep, Preload, TakePath, FetchedTo, Retry, ServerError,
     PreloadPanics, Compressed, LeaveLoop, Shrink, Size, Log
<1>4. ASSUME NEW t \in Requests, RequestStep(t)
      PROVE  cache' = cache
  BY <1>4 DEF RequestStep, Request, Hit, Miss, FoundOnDisk, NotOnDisk, FetchedTo, Retry,
     ServerError, RequestFails, HangUp, Answered
<1> QED
  BY <1>2, <1>3, <1>4, NextActions DEF vars, Publish, Ping, Scamped

(* What is cached stays cached. *)
LEMMA CachedStays ==
  ASSUME Inv, [Next]_vars, NEW p \in Paths, cache[p] # NoBody
  PROVE  cache'[p] # NoBody
BY CacheStep, BodyAssumption DEF IsTextOf

(* No step of a preload loses a path of its body. *)
LEMMA ProgressStep ==
  ASSUME Inv, [Next]_vars
  PROVE  Progress'
<1> USE ReplicaAssumption
<1>1. TypeOK /\ Labels /\ Texts /\ \A t \in Preloads : PreloadProgress(t)
  BY DEF Inv, Progress
<1> PICK L : pc \in [Tasks -> L]
  BY <1>1 DEF TypeOK
<1>2. /\ pc \in [Tasks -> L] /\ path \in [Tasks -> Paths \cup {NoPath}]
      /\ rest \in [Tasks -> Seq(Paths)] /\ cache \in [Paths -> Body \cup {NoBody}]
  BY <1>1 DEF TypeOK
<1>3. ASSUME NEW t \in Preloads
      PROVE  /\ t \in Tasks /\ Jobs[t] \in Seq(Paths) /\ rest[t] \in Seq(Paths)
             /\ Len(Jobs[t]) \in Nat /\ Len(rest[t]) \in Nat
             /\ Through(t) <= Len(Jobs[t]) /\ Through(t) \in Int
             /\ \A i \in 1..Len(Jobs[t]) : Jobs[t][i] \in Paths
  <2>1. Jobs[t] \in Seq(Paths) /\ rest[t] \in Seq(Paths) /\ t \in Tasks
    BY <1>2
  <2>2. Len(Jobs[t]) \in Nat /\ Len(rest[t]) \in Nat
    BY <2>1, LenProperties
  <2>3. \A i \in 1..Len(Jobs[t]) : Jobs[t][i] \in Paths
    BY <2>1, ElementOfSeq
  <2> QED
    BY <2>1, <2>2, <2>3 DEF Through
<1>4. \A p \in Paths : cache[p] # NoBody => cache'[p] # NoBody
  BY CachedStays
<1>5. ASSUME NEW t \in Preloads, pc'[t] = pc[t], path'[t] = path[t], rest'[t] = rest[t]
      PROVE  PreloadProgress(t)'
  <2>1. PreloadProgress(t) /\ Through(t)' = Through(t)
    BY <1>1, <1>5 DEF Through
  <2>2. \A i \in 1..Through(t) : cache[Jobs[t][i]] # NoBody => cache'[Jobs[t][i]] # NoBody
    BY <1>3, <1>4
  <2>3. pc[t] # "idle" => \A i \in 1..Through(t) : cache'[Jobs[t][i]] # NoBody
    BY <2>1, <2>2 DEF PreloadProgress
  <2>4. pc'[t] # "idle" => \A i \in 1..Through(t)' : cache'[Jobs[t][i]] # NoBody
    BY <1>5, <2>1, <2>3
  <2> QED
    BY <1>5, <2>1, <2>4 DEF PreloadProgress
<1>6. CASE UNCHANGED vars \/ \E p \in Paths : Publish(p)
  BY <1>5, <1>6 DEF vars, Publish, Progress
<1>7. CASE \E t \in Pings : Ping(t) \/ Scamped(t)
  BY <1>2, <1>5, <1>7 DEF Ping, Scamped, Goto, Progress
<1>8. ASSUME NEW t \in Requests, RequestStep(t)
      PROVE  Progress'
  <2>1. /\ rest' = rest
        /\ \A s \in Tasks : s # t => pc'[s] = pc[s] /\ path'[s] = path[s]
    BY <1>2, <1>8 DEF RequestStep, Request, Hit, Miss, FoundOnDisk, NotOnDisk, FetchedTo,
       Retry, ServerError, RequestFails, HangUp, Answered, End, Goto
  <2> QED
    BY <1>5, <2>1 DEF Progress
<1>9. ASSUME NEW t \in Preloads, PreloadStep(t)
      PROVE  Progress'
  <2>1. \A s \in Tasks : s # t =>
          pc'[s] = pc[s] /\ path'[s] = path[s] /\ rest'[s] = rest[s]
    BY <1>2, <1>9 DEF PreloadStep, Preload, TakePath, FetchedTo, Retry, ServerError,
       PreloadPanics, Compressed, Insert, LeaveLoop, Shrink, Size, Log, At, Goto
  <2> DEFINE n == Len(Jobs[t]) - Len(rest[t])
  <2>2. /\ t \in Tasks /\ Len(Jobs[t]) \in Nat /\ Len(rest[t]) \in Nat /\ n \in Int
        /\ rest[t] \in Seq(Paths)
    BY <1>3
  <2>3. /\ path[t] = NoPath <=> pc[t] \in {"idle", "loop", "shrink", "size", "log"}
        /\ pc[t] \in {"shrink", "size", "log"} => rest[t] = <<>>
        /\ pc[t] # "idle" =>
             /\ n >= 0 /\ \A j \in 1..Len(rest[t]) : rest[t][j] = Jobs[t][n + j]
             /\ path[t] # NoPath => n > 0 /\ path[t] = Jobs[t][n]
             /\ \A i \in 1..Through(t) : cache[Jobs[t][i]] # NoBody
    BY <1>1 DEF PreloadProgress
  <2>4. \A i \in 1..Through(t) : cache[Jobs[t][i]] # NoBody => cache'[Jobs[t][i]] # NoBody
    BY <1>3, <1>4
  <2>5. PreloadProgress(t)'
    <3>1. CASE Preload(t)
      <4>1. /\ pc[t] = "idle" /\ pc'[t] = "loop" /\ rest'[t] = Jobs[t]
            /\ path'[t] = NoPath
        BY <1>2, <2>2, <2>3, <3>1 DEF Preload, At, Goto
      <4>2. Through(t)' = 0
        BY <2>2, <4>1 DEF Through
      <4> QED
        BY <2>2, <4>1, <4>2 DEF PreloadProgress
    <3>2. CASE TakePath(t)
      <4>1. /\ pc[t] = "loop" /\ pc'[t] = "fetch" /\ rest[t] # <<>>
            /\ path[t] = NoPath /\ path'[t] = Head(rest[t]) /\ rest'[t] = Tail(rest[t])
            /\ cache' = cache
        BY <1>2, <2>2, <2>3, <3>2 DEF TakePath
      <4>2. /\ Head(rest[t]) = rest[t][1] /\ Head(rest[t]) \in Paths
            /\ Len(rest[t]) >= 1 /\ Len(rest'[t]) = Len(rest[t]) - 1
            /\ \A j \in 1..Len(rest[t]) - 1 : rest'[t][j] = rest[t][j + 1]
        BY <2>2, <4>1, HeadTailProperties, EmptySeq
      <4>3. path'[t] # NoPath /\ path'[t] = Jobs[t][n + 1]
        <5>1. /\ 1 \in 1..Len(rest[t]) /\ path'[t] = rest[t][1]
          BY <2>2, <4>1, <4>2
        <5>2. rest[t][1] = Jobs[t][n + 1]
          BY <2>3, <4>1, <5>1
        <5> QED
          BY <4>1, <4>2, <5>1, <5>2
      <4>4. \A j \in 1..Len(rest'[t]) : rest'[t][j] = Jobs[t][n + 1 + j]
        <5>1. ASSUME NEW j \in 1..Len(rest[t]) - 1
              PROVE  rest'[t][j] = Jobs[t][n + 1 + j]
          <6>1. j + 1 \in 1..Len(rest[t]) /\ n + (j + 1) = n + 1 + j
            BY <2>2
          <6>2. rest[t][j + 1] = Jobs[t][n + (j + 1)]
            BY <2>3, <4>1, <6>1
          <6> QED
            BY <4>2, <6>1, <6>2
        <5> QED
          BY <4>2, <5>1
      <4>5. Len(Jobs[t]) - Len(rest'[t]) = n + 1
        BY <2>2, <4>2
      <4>6. Through(t)' = n /\ Through(t) = n
        <5>1. Through(t)' = Len(Jobs[t]) - Len(rest'[t]) - 1
          BY <4>3 DEF Through
        <5>2. Through(t) = n
          BY <4>1 DEF Through
        <5> QED
          BY <2>2, <4>2, <5>1, <5>2
      <4>7. \A i \in 1..Through(t) : cache'[Jobs[t][i]] # NoBody
        BY <2>3, <4>1
      <4>8. n + 1 >= 0 /\ n + 1 > 0 /\ \A i \in 1..n : cache'[Jobs[t][i]] # NoBody
        <5> HIDE DEF n
        <5>1. n >= 0
          BY <2>3, <4>1
        <5> QED
          BY <2>2, <4>6, <4>7, <5>1
      <4> HIDE DEF n
      <4> QED
        BY <4>1, <4>3, <4>4, <4>5, <4>6, <4>8 DEF PreloadProgress
    <3>3. CASE \/ FetchedTo(t, "compress") \/ Retry(t) \/ ServerError(t) \/ Compressed(t)
               \/ PreloadPanics(t)
      <4>1. /\ pc[t] \in {"fetch", "backoff", "compress"}
            /\ pc'[t] \in {"fetch", "backoff", "compress", "insert", "panicked"}
            /\ path' = path /\ rest' = rest /\ cache' = cache
        BY <1>2, <2>2, <3>3
           DEF FetchedTo, Retry, ServerError, Compressed, PreloadPanics, At, Goto
      <4>2. Through(t)' = Through(t)
        BY <4>1 DEF Through
      <4> QED
        BY <2>3, <4>1, <4>2 DEF PreloadProgress
    <3>4. CASE Insert(t)
      <4>1. /\ pc[t] = "insert" /\ pc'[t] = "loop" /\ rest' = rest /\ path'[t] = NoPath
            /\ path[t] # NoPath
        BY <1>2, <2>2, <2>3, <3>4 DEF Insert, At, Goto
      <4>2. path[t] = Jobs[t][n] /\ n > 0
        BY <2>3, <4>1
      <4>3. Through(t) = n - 1 /\ Through(t)' = n
        BY <2>2, <4>1 DEF Through
      <4>4. cache'[Jobs[t][n]] # NoBody
        <5>1. IsTextOf(body[t], path[t]) /\ path[t] \in Paths
          BY <1>1, <4>1 DEF Texts
        <5> QED
          BY <1>2, <3>4, <4>2, <5>1, BodyAssumption DEF Insert, IsTextOf
      <4>5. \A i \in 1..n : i = n \/ i \in 1..(n - 1)
        <5> HIDE DEF n
        <5> QED
          BY <2>2
      <4>6. \A i \in 1..n : cache'[Jobs[t][i]] # NoBody
        BY <2>3, <2>4, <4>1, <4>3, <4>4, <4>5
      <4> QED
        BY <2>3, <4>1, <4>3, <4>6 DEF PreloadProgress
    <3>5. CASE LeaveLoop(t) \/ Shrink(t) \/ Size(t) \/ Log(t)
      <4>1. /\ pc[t] \in {"loop", "shrink", "size", "log"}
            /\ pc'[t] \in {"shrink", "size", "log", "idle"} /\ rest[t] = <<>>
            /\ path' = path /\ rest' = rest /\ cache' = cache
        BY <1>2, <2>2, <2>3, <3>5 DEF LeaveLoop, Shrink, Size, Log, At, Goto
      <4>2. Through(t)' = Through(t)
        BY <4>1 DEF Through
      <4> QED
        BY <2>3, <4>1, <4>2 DEF PreloadProgress
    <3> QED
      BY <1>9, <3>1, <3>2, <3>3, <3>4, <3>5 DEF PreloadStep
  <2> QED
    BY <1>5, <2>1, <2>5 DEF Progress
<1> QED
  BY <1>6, <1>7, <1>8, <1>9, NextActions

(* The invariant holds always. *)
THEOREM Invariant == Spec => []Inv
<1>1. Init => Inv
  BY InitInv
<1>2. Inv /\ [Next]_vars => Inv'
  <2> SUFFICES ASSUME Inv, [Next]_vars PROVE Inv'
    OBVIOUS
  <2>1. TypeOK' /\ Labels' /\ Belongs(lock, pc)' /\ Texts' /\ Progress'
    BY TypeStep, LockStep, TextsStep, ProgressStep
  <2> QED
    BY <2>1 DEF Inv
<1> QED
  BY <1>1, <1>2, PTL DEF Spec

(* The types, for any number of tasks. *)
THEOREM TypeCorrect == Spec => []TypeOK
<1>1. Inv => TypeOK
  BY DEF Inv
<1> QED
  BY <1>1, Invariant, PTL

(* No path through a handler leaks a guard of the lock or waits for it     *)
(* twice, whatever the other tasks do (main.rs:88-110, 125-146).           *)
THEOREM GuardsAreReturned == Spec => []GuardsBelong
<1>1. Inv => GuardsBelong
  <2> SUFFICES ASSUME Inv PROVE GuardsBelong
    OBVIOUS
  <2>1. Belongs(lock, pc) /\ lock \in Lock
    BY DEF Inv, TypeOK
  <2>2. lock.queue \in Seq(Waiter) /\ DOMAIN lock.queue = 1..Len(lock.queue)
    BY <2>1, LockFields, LenProperties
  <2> QED
    BY <2>1, <2>2 DEF Belongs, GuardsBelong
<1> QED
  BY <1>1, Invariant, PTL

(* Every path a preload is through with is cached and stays cached, even   *)
(* when it panics in the middle of its body, for bodies of any length and  *)
(* any number of preloads at once (main.rs:88-103).                        *)
THEOREM PreloadsAreComplete == Spec => []PreloadedIsCached
<1>1. Inv => PreloadedIsCached
  <2> SUFFICES ASSUME Inv, NEW t \in Preloads, pc[t] # "idle"
               PROVE  /\ \A i \in 1..Through(t) : cache[Jobs[t][i]] # NoBody
                      /\ pc[t] \in {"shrink", "size", "log"} => Through(t) = Len(Jobs[t])
    BY DEF PreloadedIsCached
  <2>1. PreloadProgress(t)
    BY DEF Inv, Progress
  <2>2. Len(<<>>) = 0 /\ Len(Jobs[t]) \in Nat
    BY EmptySeq, LenProperties, ReplicaAssumption
  <2> QED
    <3>1. \A i \in 1..Through(t) : cache[Jobs[t][i]] # NoBody
      BY <2>1 DEF PreloadProgress
    <3>2. ASSUME pc[t] \in {"shrink", "size", "log"} PROVE Through(t) = Len(Jobs[t])
      <4>1. Len(rest[t]) = 0 /\ path[t] = NoPath
        BY <2>1, <2>2, <3>2 DEF PreloadProgress
      <4> QED
        BY <2>2, <4>1 DEF Through
    <3> QED
      BY <3>1, <3>2
<1> QED
  BY <1>1, Invariant, PTL

-----------------------------------------------------------------------------
(* Preloads that follow each other *)

(* The text a preload is about to insert is as new as the cached one. *)
Newer ==
  \A t \in Preloads :
    pc[t] \in {"compress", "insert"} /\ cache[path[t]] # NoBody =>
      cache[path[t]].version <= body[t].version

(* Nobody else inserts between a preload's fetch and its insertion. *)
LEMMA NewerStep ==
  ASSUME \A s, t \in Preloads : s = t, Inv, Newer, [Next]_vars
  PROVE  Newer'
<1> USE ReplicaAssumption
<1>1. TypeOK /\ Texts /\ Labels
  BY DEF Inv
<1> PICK L : pc \in [Tasks -> L]
  BY <1>1 DEF TypeOK
<1>2. /\ pc \in [Tasks -> L] /\ path \in [Tasks -> Paths \cup {NoPath}]
      /\ body \in [Tasks -> Body \cup {NoBody}]
  BY <1>1 DEF TypeOK
<1>3. ASSUME NEW t \in Preloads, pc'[t] = pc[t], path'[t] = path[t], body'[t] = body[t],
             cache' = cache
      PROVE  Newer'
  BY <1>3 DEF Newer
<1>4. CASE UNCHANGED vars \/ \E p \in Paths : Publish(p)
  BY <1>4 DEF vars, Publish, Newer
<1>5. ASSUME NEW t \in Preloads, NEW s \in Tasks, s # t,
             \/ RequestStep(s) /\ s \in Requests
             \/ (Ping(s) \/ Scamped(s)) /\ s \in Pings
      PROVE  Newer'
  <2>1. /\ cache' = cache /\ t \in Tasks
        /\ pc'[t] = pc[t] /\ path'[t] = path[t] /\ body'[t] = body[t]
    BY <1>2, <1>5 DEF RequestStep, Request, Hit, Miss, FoundOnDisk, NotOnDisk, FetchedTo,
       Retry, ServerError, RequestFails, HangUp, Answered, Ping, Scamped, End, Goto
  <2> QED
    BY <1>3, <2>1
<1>6. ASSUME NEW t \in Preloads, PreloadStep(t)
      PROVE  Newer'
  <2>1. t \in Tasks
    OBVIOUS
  <2>2. CASE FetchedTo(t, "compress")
    <3>1. /\ pc[t] = "fetch" /\ path' = path /\ cache' = cache /\ path[t] \in Paths
          /\ body'[t] = [path |-> path[t], version |-> origin[path[t]]]
      BY <1>1, <1>2, <2>1, <2>2 DEF FetchedTo, Texts
    <3>2. cache[path[t]] # NoBody => cache[path[t]].version <= origin[path[t]]
      BY <1>1, <3>1 DEF Texts, IsTextOf
    <3> QED
      BY <3>1, <3>2 DEF Newer
  <2>3. CASE Compressed(t)
    <3>1. pc[t] = "compress" /\ path' = path /\ cache' = cache /\ body' = body
      BY <2>3 DEF Compressed
    <3> QED
      BY <3>1 DEF Newer
  <2>4. CASE pc'[t] \notin {"compress", "insert"}
    BY <2>4 DEF Newer
  <2>5. CASE \/ Preload(t) \/ TakePath(t) \/ Retry(t) \/ ServerError(t) \/ PreloadPanics(t)
             \/ Insert(t) \/ LeaveLoop(t) \/ Shrink(t) \/ Size(t) \/ Log(t)
    BY <1>2, <2>1, <2>4, <2>5 DEF Preload, TakePath, Retry, ServerError, PreloadPanics,
       Insert, LeaveLoop, Shrink, Size, Log, Goto
  <2> QED
    BY <1>6, <2>2, <2>3, <2>5 DEF PreloadStep
<1> QED
  <2>1. CASE Preloads = {}
    BY <2>1 DEF Newer
  <2>2. CASE Preloads # {}
    <3>1. PICK t \in Preloads : TRUE
      BY <2>2
    <3>2. \A s \in Requests \cup Pings : s \in Tasks /\ s # t
      OBVIOUS
    <3> QED
      BY <1>4, <1>5, <1>6, <3>1, <3>2, NextActions
  <2> QED
    BY <2>1, <2>2

(* Where one preload runs at a time, none replaces an entry by an older    *)
(* one, whatever the origin publishes in between (main.rs:88-101).         *)
THEOREM SolePreloadNeverRegresses ==
  ASSUME \A s, t \in Preloads : s = t
  PROVE  Spec => CacheNeverRegresses
<1> DEFINE Step == \A p \in Paths : cache[p] # NoBody =>
                     /\ cache'[p] # NoBody
                     /\ cache'[p].version >= cache[p].version
<1>1. Init => Newer
  BY ReplicaAssumption DEF Init, Newer
<1>2. Inv /\ Newer /\ [Next]_vars => Newer'
  BY NewerStep
<1>3. Inv /\ Newer /\ [Next]_vars => [Step]_vars
  <2> SUFFICES ASSUME Inv, Newer, [Next]_vars, NEW p \in Paths, cache[p] # NoBody
               PROVE  cache'[p] # NoBody /\ cache'[p].version >= cache[p].version
    OBVIOUS
  <2>1. cache[p].version \in Nat
    BY ReplicaAssumption DEF Inv, TypeOK, Body
  <2>2. cache'[p] # NoBody
    BY CachedStays
  <2>3. CASE cache' = cache
    BY <2>1, <2>2, <2>3
  <2>4. ASSUME NEW t \in Preloads, pc[t] = "insert", IsTextOf(body[t], path[t]),
               \A q \in Paths : cache'[q] = IF q = path[t] THEN body[t] ELSE cache[q]
        PROVE  cache'[p].version >= cache[p].version
    <3>1. body[t].version \in Nat
      BY <2>4, ReplicaAssumption DEF IsTextOf, Body
    <3>2. p = path[t] => cache[p].version <= body[t].version
      BY <2>4 DEF Newer
    <3> QED
      BY <2>1, <2>4, <3>1, <3>2
  <2> QED
    BY <2>2, <2>3, <2>4, CacheStep
<1> QED
  BY <1>1, <1>2, <1>3, Invariant, PTL DEF Spec, CacheNeverRegresses

-----------------------------------------------------------------------------
(* The server implements the abstract service *)

asked == [t \in Requests |-> path[t]]

(* Initial states map to initial states. *)
LEMMA ContentInit == Init => Service!Init
BY ReplicaAssumption DEF Init, Service!Init

(* A step is one of the abstract service, or changes nothing there. *)
LEMMA ContentStep ==
  ASSUME Inv, [Next]_vars
  PROVE  [Service!Next]_<<origin, asked, reply>>
<1> USE ReplicaAssumption DEF asked
<1>1. TypeOK /\ Texts
  BY DEF Inv
<1>2. /\ path \in [Tasks -> Paths \cup {NoPath}]
      /\ reply \in [Requests -> Body \cup {NoBody}]
      /\ origin \in [Paths -> 0..MaxVersion]
  BY <1>1 DEF TypeOK
<1>3. CASE UNCHANGED <<origin, path, reply>>
  BY <1>3
<1>4. ASSUME NEW p \in Paths, Publish(p)
      PROVE  Service!Publish(p)
  BY <1>4 DEF Publish, Service!Publish
<1>5. ASSUME NEW t \in Requests, RequestStep(t)
      PROVE  [Service!Next]_<<origin, asked, reply>>
  <2>1. /\ pc[t] = "idle" => path[t] = NoPath
        /\ pc[t] # "idle" => path[t] \in Paths /\ reply[t] = NoBody
        /\ pc[t] \in {"inflate", "send"} => IsTextOf(body[t], path[t])
    BY <1>1 DEF Texts
  <2>2. CASE UNCHANGED <<origin, path, reply>>
    BY <2>2
  <2>3. ASSUME NEW p \in Paths, Request(t, p)
        PROVE  Service!Ask(t, p)
    BY <1>2, <2>1, <2>3 DEF Request, At, Service!Ask
  <2>4. CASE Answered(t)
    <3>1. /\ path[t] \in Paths /\ body[t] \in Body /\ body[t].path = path[t]
          /\ body[t].version <= origin[path[t]] /\ origin[path[t]] \in Nat
      BY <1>2, <2>1, <2>4 DEF Answered, IsTextOf
    <3>2. body[t] = [path |-> path[t], version |-> body[t].version]
          /\ body[t].version \in 0..origin[path[t]]
      BY <3>1 DEF Body
    <3>3. /\ path' = [path EXCEPT ![t] = NoPath] /\ origin' = origin
          /\ reply' = [reply EXCEPT ![t] = body[t]]
      BY <2>4 DEF Answered
    <3>4. Service!Answer(t)
      BY <1>2, <3>1, <3>2, <3>3 DEF Service!Answer
    <3> QED
      BY <3>4 DEF Service!Next
  <2>5. CASE RequestFails(t) \/ HangUp(t)
    <3>1. /\ path[t] \in Paths /\ path' = [path EXCEPT ![t] = NoPath] /\ origin' = origin
          /\ reply' = [reply EXCEPT ![t] = NoBody] /\ reply[t] = NoBody
      BY <2>1, <2>5 DEF RequestFails, HangUp, End
    <3>2. reply' = reply
      BY <1>2, <3>1
    <3>3. Service!Drop(t)
      BY <1>2, <3>1, <3>2 DEF Service!Drop
    <3> QED
      BY <3>3 DEF Service!Next
  <2>6. CASE \/ Hit(t) \/ Miss(t) \/ FoundOnDisk(t) \/ NotOnDisk(t) \/ FetchedTo(t, "send")
             \/ Retry(t) \/ ServerError(t)
    BY <2>2, <2>6 DEF Hit, Miss, FoundOnDisk, NotOnDisk, FetchedTo, Retry, ServerError
  <2> QED
    BY <1>5, <2>3, <2>4, <2>5, <2>6 DEF RequestStep, Service!Next
<1>6. ASSUME NEW t \in Preloads, PreloadStep(t)
      PROVE  [Service!Next]_<<origin, asked, reply>>
  <2>1. origin' = origin /\ reply' = reply /\ \A s \in Requests : path'[s] = path[s]
    BY <1>2, <1>6 DEF PreloadStep, Preload, TakePath, FetchedTo, Retry, ServerError,
       PreloadPanics, Compressed, Insert, LeaveLoop, Shrink, Size, Log
  <2> QED
    BY <2>1
<1> QED
  BY <1>3, <1>4, <1>5, <1>6, NextActions DEF vars, Ping, Scamped, Service!Next

(* Whatever the cache, the disk, the preloads and the failures do, a       *)
(* request is answered with a text the origin has had for its path.        *)
THEOREM ImplementsContentService == Spec => ContentSpec
<1>1. Init => Service!Init
  BY ContentInit
<1>2. Inv /\ [Next]_vars => [Service!Next]_Service!vars
  BY ContentStep DEF Service!vars, asked
<1> QED
  BY <1>1, <1>2, Invariant, PTL DEF Spec, ContentSpec, Service!Spec
=============================================================================
