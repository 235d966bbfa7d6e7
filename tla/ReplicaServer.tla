---------------------------- MODULE ReplicaServer ----------------------------
(***************************************************************************)
(* server/src/main.rs: the HTTP server of a replica.  Three handlers run   *)
(* as tasks of tokio's thread pool:                                        *)
(*   proxy     answers a path from RAM_CACHE, from ./disk, or from the     *)
(*             origin, in this order, and caches nothing                   *)
(*   preload   answers at once; a task of its own then fetches the paths   *)
(*             of the body one by one and inserts them into RAM_CACHE      *)
(*   ping      runs scamper                                                *)
(*                                                                         *)
(* A task gives up its worker thread only where it awaits.  Compression,   *)
(* decompression and scamper do not await: a task occupies a worker until  *)
(* they end ("busy"), and another step of any task needs a free worker.    *)
(*                                                                         *)
(* A text is known by its path and its version; compress and decompress    *)
(* are inverse to each other.  Any status below 500 comes with a text that *)
(* counts as the origin's, an error page included: the code does not look. *)
(***************************************************************************)
EXTENDS TokioRwLock, FiniteSets

CONSTANTS
  Requests, Preloads, Pings,   \* tasks of the three handlers
  Paths, NoPath, NoBody,
  Jobs,          \* Jobs[t]: the paths in the body of preload t
  OnDisk,        \* paths in ./disk, as they were at the origin at first
  Damaged,       \* paths in ./disk whose file may be found damaged
  Workers,       \* worker threads of the runtime
  Failing,       \* "none", "errors" (of the origin: 5xx) or "network" (both)
  MaxVersion     \* bound: changes of a text at the origin

ASSUME ReplicaAssumption ==
  /\ Tasks = Requests \cup Preloads \cup Pings
  /\ Requests \cap Preloads = {} /\ (Requests \cup Preloads) \cap Pings = {}
  /\ NoTask \notin Tasks /\ NoPath \notin Paths
  /\ Jobs \in [Preloads -> Seq(Paths)]
  /\ Damaged \subseteq OnDisk /\ OnDisk \subseteq Paths
  /\ Workers \in Nat \ {0} /\ MaxVersion \in Nat
  /\ Failing \in {"none", "errors", "network"}

Body == [path: Paths, version: 0..MaxVersion]

ASSUME BodyAssumption == NoBody \notin Body

VARIABLES
  origin,   \* origin[p]: the version of p at the origin
  cache,    \* RAM_CACHE: cache[p] is its entry for p
  lock,     \* the RwLock around it
  pc,       \* pc[t]: where task t is
  path,     \* path[t]: the path it is about
  body,     \* body[t]: the text it holds
  rest,     \* rest[t]: the paths a preload has yet to do
  reply     \* reply[t]: what request t was answered with last

vars == <<origin, cache, lock, pc, path, body, rest, reply>>

TypeOK ==
  /\ origin \in [Paths -> 0..MaxVersion]
  /\ cache \in [Paths -> Body \cup {NoBody}]
  /\ lock \in Lock
  /\ pc \in [Tasks -> {"idle", "lookup", "inflate", "disk", "fetch", "backoff",
                       "send", "compress", "insert", "loop", "shrink", "size",
                       "log", "scamper", "panicked"}]
  /\ path \in [Tasks -> Paths \cup {NoPath}]
  /\ body \in [Tasks -> Body \cup {NoBody}]
  /\ rest \in [Tasks -> Seq(Paths)]
  /\ reply \in [Requests -> Body \cup {NoBody}]

Init ==
  /\ origin = [p \in Paths |-> 0]
  /\ cache = [p \in Paths |-> NoBody]
  /\ lock = Unlocked
  /\ pc = [t \in Tasks |-> "idle"]
  /\ path = [t \in Tasks |-> NoPath]
  /\ body = [t \in Tasks |-> NoBody]
  /\ rest = [t \in Tasks |-> <<>>]
  /\ reply = [t \in Requests |-> NoBody]

Busy == {t \in Tasks : pc[t] \in {"inflate", "compress", "scamper"}}
FreeWorker == Cardinality(Busy) < Workers

(* Task t is polled at label l: it goes on if a worker is free. *)
At(t, l) == pc[t] = l /\ FreeWorker
Goto(t, l) == pc' = [pc EXCEPT ![t] = l]

(* The origin changes a text. *)
Publish(p) ==
  /\ origin[p] < MaxVersion
  /\ origin' = [origin EXCEPT ![p] = @ + 1]
  /\ UNCHANGED <<cache, lock, pc, path, body, rest, reply>>

-----------------------------------------------------------------------------
(* proxy *)

Request(t, p) ==
  /\ At(t, "idle")
  /\ path' = [path EXCEPT ![t] = p]
  /\ reply' = [reply EXCEPT ![t] = NoBody]
  /\ Goto(t, "lookup")
  /\ UNCHANGED <<origin, cache, lock, body, rest>>

(* Mistaken: the request waits for the lock. *)
LookupWaits(t) ==
  LET hit == cache[path[t]] # NoBody IN
  /\ At(t, "lookup") /\ TryRead(lock)
  /\ lock' = IF hit THEN EnterRead(lock, t) ELSE lock
  /\ body' = [body EXCEPT ![t] = cache[path[t]]]
  /\ Goto(t, IF hit THEN "inflate" ELSE "disk")
  /\ UNCHANGED <<origin, cache, path, rest, reply>>

(* A hit keeps the read guard while it decompresses; otherwise, and when   *)
(* try_read fails, the guard is gone before the disk is tried.             *)
Lookup(t) ==
  LET hit == TryRead(lock) /\ cache[path[t]] # NoBody IN
  /\ At(t, "lookup")
  /\ IF hit
       THEN /\ lock' = EnterRead(lock, t)
            /\ body' = [body EXCEPT ![t] = cache[path[t]]]
            /\ Goto(t, "inflate")
       ELSE Goto(t, "disk") /\ UNCHANGED <<lock, body>>
  /\ UNCHANGED <<origin, cache, path, rest, reply>>

ReadDisk(t) ==
  /\ At(t, "disk")
  /\ IF path[t] \in OnDisk
       THEN /\ body' = [body EXCEPT ![t] = [path |-> path[t], version |-> 0]]
            /\ Goto(t, "inflate")
       ELSE Goto(t, "fetch") /\ UNCHANGED body
  /\ UNCHANGED <<origin, cache, lock, path, rest, reply>>

(* The request ends, with a text or without, and another may come. *)
End(t, text) ==
  /\ reply' = [reply EXCEPT ![t] = text]
  /\ path' = [path EXCEPT ![t] = NoPath]
  /\ body' = [body EXCEPT ![t] = NoBody]
  /\ Goto(t, "idle")

(* Mistaken: the guard is never dropped. *)
KeepGuard(t) ==
  /\ pc[t] = "inflate"
  /\ End(t, body[t])
  /\ UNCHANGED <<origin, cache, lock, rest>>

(* The expect on a text that does not decompress panics. What preload has  *)
(* compressed is sound; a file of ./disk is whatever was put there.        *)
Inflated(t) ==
  /\ pc[t] = "inflate"
  /\ \/ End(t, body[t])
     \/ path[t] \in Damaged /\ ~ Reads(lock, t) /\ End(t, NoBody)
  /\ lock' = IF Reads(lock, t) THEN Release(lock, t) ELSE lock
  /\ UNCHANGED <<origin, cache, rest>>

Send(t) ==
  /\ At(t, "send")
  /\ End(t, body[t])
  /\ UNCHANGED <<origin, cache, lock, rest>>

(* The client hangs up: hyper drops the handler where it awaits. *)
HangUp(t) ==
  /\ FreeWorker
  /\ pc[t] \in {"disk", "fetch", "backoff"}
  /\ End(t, NoBody)
  /\ UNCHANGED <<origin, cache, lock, rest>>

-----------------------------------------------------------------------------
(* fetch_from_origin, in proxy and in preload *)

Fetched(t) ==
  /\ At(t, "fetch")
  /\ body' = [body EXCEPT ![t] = [path |-> path[t], version |-> origin[path[t]]]]
  /\ Goto(t, IF t \in Preloads THEN "compress" ELSE "send")
  /\ UNCHANGED <<origin, cache, lock, path, rest, reply>>

(* Mistaken: the page of the error, no text of the origin's, is kept. *)
KeepErrorPage(t) ==
  /\ Failing # "none"
  /\ At(t, "fetch")
  /\ body' = [body EXCEPT ![t] = [path |-> path[t], version |-> MaxVersion + 1]]
  /\ Goto(t, IF t \in Preloads THEN "compress" ELSE "send")
  /\ UNCHANGED <<origin, cache, lock, path, rest, reply>>

(* A status of 500 or more: wait and try again. *)
ServerError(t) ==
  /\ Failing # "none"
  /\ At(t, "fetch")
  /\ Goto(t, "backoff")
  /\ UNCHANGED <<origin, cache, lock, path, body, rest, reply>>

Retry(t) ==
  /\ At(t, "backoff")
  /\ Goto(t, "fetch")
  /\ UNCHANGED <<origin, cache, lock, path, body, rest, reply>>

(* The expect on the result of reqwest::get panics: a connection is closed *)
(* without a reply, a preload ends with the paths it has done.             *)
Unreachable(t) ==
  /\ Failing = "network"
  /\ At(t, "fetch")
  /\ IF t \in Requests
       THEN End(t, NoBody)
       ELSE Goto(t, "panicked") /\ UNCHANGED <<path, body, reply>>
  /\ UNCHANGED <<origin, cache, lock, rest>>

-----------------------------------------------------------------------------
(* preload *)

Preload(t) ==
  /\ At(t, "idle")
  /\ rest' = [rest EXCEPT ![t] = Jobs[t]]
  /\ Goto(t, "loop")
  /\ UNCHANGED <<origin, cache, lock, path, body, reply>>

NextPath(t) ==
  /\ At(t, "loop")
  /\ IF rest[t] # <<>>
       THEN /\ path' = [path EXCEPT ![t] = Head(rest[t])]
            /\ rest' = [rest EXCEPT ![t] = Tail(@)]
            /\ Goto(t, "fetch")
            /\ UNCHANGED lock
       ELSE /\ lock' = Acquire(lock, t, TRUE)
            /\ Goto(t, "shrink")
            /\ UNCHANGED <<path, rest>>
  /\ UNCHANGED <<origin, cache, body, reply>>

(* Mistaken: a lock that is taken is not waited for. *)
TryInsert(t) ==
  /\ pc[t] = "compress"
  /\ IF lock = Unlocked
       THEN lock' = Acquire(lock, t, TRUE) /\ Goto(t, "insert")
       ELSE Goto(t, "loop") /\ UNCHANGED lock
  /\ path' = [path EXCEPT ![t] = IF lock = Unlocked THEN @ ELSE NoPath]
  /\ UNCHANGED <<origin, cache, body, rest, reply>>

Compressed(t) ==
  /\ pc[t] = "compress"
  /\ lock' = Acquire(lock, t, TRUE)
  /\ Goto(t, "insert")
  /\ UNCHANGED <<origin, cache, path, body, rest, reply>>

Insert(t) ==
  /\ At(t, "insert") /\ Writes(lock, t)
  /\ cache' = [cache EXCEPT ![path[t]] = body[t]]
  /\ lock' = Release(lock, t)
  /\ path' = [path EXCEPT ![t] = NoPath]
  /\ body' = [body EXCEPT ![t] = NoBody]
  /\ Goto(t, "loop")
  /\ UNCHANGED <<origin, rest, reply>>

(* Mistaken: the map is cleared. *)
Clear(t) ==
  /\ At(t, "shrink") /\ Writes(lock, t)
  /\ cache' = [p \in Paths |-> NoBody]
  /\ lock' = Release(lock, t)
  /\ Goto(t, "size")
  /\ UNCHANGED <<origin, path, body, rest, reply>>

Shrink(t) ==
  /\ At(t, "shrink") /\ Writes(lock, t)
  /\ lock' = Release(lock, t)
  /\ Goto(t, "size")
  /\ UNCHANGED <<origin, cache, path, body, rest, reply>>

(* The size of the cache is logged under a read lock. *)
Size(t) ==
  /\ At(t, "size")
  /\ lock' = Acquire(lock, t, FALSE)
  /\ Goto(t, "log")
  /\ UNCHANGED <<origin, cache, path, body, rest, reply>>

Log(t) ==
  /\ At(t, "log") /\ Reads(lock, t)
  /\ lock' = Release(lock, t)
  /\ Goto(t, "idle")
  /\ UNCHANGED <<origin, cache, path, body, rest, reply>>

-----------------------------------------------------------------------------
(* ping *)

Ping(t) ==
  /\ At(t, "idle")
  /\ Goto(t, "scamper")
  /\ UNCHANGED <<origin, cache, lock, path, body, rest, reply>>

Scamped(t) ==
  /\ pc[t] = "scamper"
  /\ Goto(t, "idle")
  /\ UNCHANGED <<origin, cache, lock, path, body, rest, reply>>

-----------------------------------------------------------------------------
Serve(t) ==
  Lookup(t) \/ ReadDisk(t) \/ Inflated(t) \/ Fetched(t) \/ Retry(t) \/ Send(t)

Load(t) ==
  \/ NextPath(t) \/ Fetched(t) \/ Retry(t) \/ Compressed(t)
  \/ Insert(t) \/ Shrink(t) \/ Size(t) \/ Log(t)

Next ==
  \/ \E p \in Paths : Publish(p)
  \/ \E t \in Requests : Serve(t) \/ HangUp(t) \/ \E p \in Paths : Request(t, p)
  \/ \E t \in Preloads : Preload(t) \/ Load(t)
  \/ \E t \in Requests \cup Preloads : ServerError(t) \/ Unreachable(t)
  \/ \E t \in Pings : Ping(t) \/ Scamped(t)

Spec == Init /\ [][Next]_vars

(* The scheduler of tokio leaves no task waiting while others are polled   *)
(* for ever, what occupies a worker ends, and an origin that is asked      *)
(* again and again answers at last.                                        *)
ServeFairness ==
  /\ \A t \in Requests : SF_vars(Serve(t)) /\ SF_vars(Fetched(t))
  /\ \A t \in Pings : WF_vars(Scamped(t))
LoadFairness ==
  \A t \in Preloads : SF_vars(Load(t)) /\ SF_vars(Fetched(t))

FairSpec == Spec /\ ServeFairness /\ LoadFairness

(* Fairness for requests alone: preloads may stop anywhere. *)
ServeFairSpec == Spec /\ ServeFairness

-----------------------------------------------------------------------------
(* Whatever the cache, the disk and the preloads do, a request is answered *)
(* with a text the origin has had for its path, never with a page of 5xx.  *)
Service == INSTANCE ContentService WITH
  version <- origin,
  asked <- [t \in Requests |-> path[t]]
ContentSpec == Service!Spec

(* A guard is held, or waited for, only by a task that is where it needs   *)
(* it, and nobody reads while a preload writes: no path through a handler  *)
(* leaks a guard, and no task waits twice.                                 *)
GuardsBelong ==
  /\ \A t \in lock.readers : pc[t] \in {"inflate", "log"}
  /\ lock.writer # NoTask =>
       lock.readers = {} /\ pc[lock.writer] \in {"insert", "shrink"}
  /\ \A i \in DOMAIN lock.queue :
       LET w == lock.queue[i] IN
       /\ pc[w.task] \in IF w.write THEN {"insert", "shrink"} ELSE {"log"}
       /\ w.task \notin lock.readers \cup {lock.writer}
       /\ \A j \in DOMAIN lock.queue : lock.queue[j].task = w.task => i = j

(* How many paths of its body a preload is through with: the others are    *)
(* yet to be done, or the one in its hands.                                *)
Through(t) ==
  LET begun == Len(Jobs[t]) - Len(rest[t])
  IN  IF path[t] = NoPath THEN begun ELSE begun - 1

(* Every path a preload is through with is cached, and nothing has removed *)
(* one since, wherever it is and even when it has panicked in the middle   *)
(* of its body; out of its loop, it is through with all (main.rs:88-103).  *)
PreloadedIsCached ==
  \A t \in Preloads :
    pc[t] # "idle" =>
      /\ \A i \in 1..Through(t) : cache[Jobs[t][i]] # NoBody
      /\ pc[t] \in {"shrink", "size", "log"} => Through(t) = Len(Jobs[t])

(* Preloads that follow each other never replace an entry by an older one, *)
(* although the origin changes between a fetch and its insertion.          *)
CacheNeverRegresses ==
  [][\A p \in Paths : cache[p] # NoBody =>
        /\ cache'[p] # NoBody
        /\ cache'[p].version >= cache[p].version]_vars

(* A request is answered or its connection is closed, however many others  *)
(* and however many retries of the origin are in progress, and even if a   *)
(* preload stops for good with the write lock or a worker in its hands.    *)
RequestsEnd == \A t \in Requests : pc[t] = "lookup" ~> pc[t] = "idle"

(* A preload that does not stop ends, or panics, although requests hit the *)
(* cache all the time: its writes are not starved by their reads.          *)
PreloadsEnd ==
  LoadFairness => \A t \in Preloads : pc[t] = "loop" ~> pc[t] \in {"idle", "panicked"}

=============================================================================
