----------------------------- MODULE TokioRwLock -----------------------------
(***************************************************************************)
(* tokio::sync::RwLock as server/src/main.rs uses it.  The lock is fair:   *)
(* waiters are served in the order they came, and a release hands the lock *)
(* to those that are due, before they are scheduled again.  try_read does  *)
(* not wait: it fails while a writer holds the lock or waits for it.       *)
(***************************************************************************)
EXTENDS Naturals, Sequences

CONSTANTS Tasks, NoTask

Waiter == [task: Tasks, write: BOOLEAN]
Lock == [readers: SUBSET Tasks, writer: Tasks \cup {NoTask}, queue: Seq(Waiter)]

Unlocked == [readers |-> {}, writer |-> NoTask, queue |-> <<>>]

Reads(l, t) == t \in l.readers
Writes(l, t) == l.writer = t

(* Mistaken: readers that do not wait overtake a waiting writer. *)
NotWriting(l) == l.writer = NoTask

TryRead(l) == l.writer = NoTask /\ l.queue = <<>>

(* Hand a lock that is not held for writing to the first waiters. *)
Grant(l) ==
  LET due(n) == \A i \in 1..n : ~ l.queue[i].write
      n == CHOOSE i \in 0..Len(l.queue) :
             due(i) /\ (i = Len(l.queue) \/ l.queue[i + 1].write) IN
  IF l.queue # <<>> /\ Head(l.queue).write
    THEN IF l.readers = {}
           THEN [l EXCEPT !.writer = Head(l.queue).task, !.queue = Tail(@)]
           ELSE l
    ELSE [l EXCEPT !.readers = @ \cup {l.queue[i].task : i \in 1..n},
                   !.queue = SubSeq(@, n + 1, Len(@))]

(* read().await and write().await: join the queue, or pass it if one may. *)
Acquire(l, t, write) ==
  LET joined == [l EXCEPT !.queue = Append(@, [task |-> t, write |-> write])] IN
  IF l.writer = NoTask THEN Grant(joined) ELSE joined

EnterRead(l, t) == [l EXCEPT !.readers = @ \cup {t}]

Release(l, t) ==
  Grant([l EXCEPT !.readers = @ \ {t}, !.writer = IF @ = t THEN NoTask ELSE @])
=============================================================================
