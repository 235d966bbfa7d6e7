----------------------------- MODULE MaxMindReader -----------------------------
(***************************************************************************)
(* maxminddb/reader.py: a Reader, and threads that look addresses up in    *)
(* it, one iteration of a loop at a time.  The start node of IPv4 lookups  *)
(* in an IPv6 database, ipv4_start, is found by the first of them and     *)
(* kept, with no lock; close() may come at any time.                       *)
(*                                                                         *)
(* What the decoder finds at a place of the data section is known by the   *)
(* place: the decoder itself is not modelled here.                         *)
(***************************************************************************)
EXTENDS SearchTree

CONSTANTS
  Threads,
  Databases,   \* the databases a file may hold
  InMemory,    \* TRUE in MODE_MEMORY or MODE_FD, FALSE if the file is mapped
  NoNode       \* None

ASSUME DatabaseAssumption == \A d \in Databases : WellFormed(d)
ASSUME ReaderAssumption == NoNode \notin Int /\ InMemory \in BOOLEAN

VARIABLES
  db,           \* the file
  ipv4_start,
  closed,
  pc,           \* pc[t]: where thread t is
  version,      \* version[t]: of the address it looks up
  packed,       \* packed[t]: the bits of that address
  node,         \* node[t]: the local variable of the loops
  i,            \* i[t]: the number of iterations
  result        \* result[t]: what its last lookup returned or raised

vars == <<db, ipv4_start, closed, pc, version, packed, node, i, result>>

Address(v) == [1..Bits(v) -> Bit]

(* A lookup returns the place of a record, or None, and a prefix length,   *)
(* or it raises; nothing is known of it before.                            *)
Result == [outcome: {"pending", "returned", "ValueError", "InvalidDatabaseError"},
           data: Nat \cup {NoNode}, prefix_len: Nat]

(* Mistaken: the prefix is counted from zero. *)
ShortAnswer(data, n) == [outcome |-> "returned", data |-> data, prefix_len |-> n - 1]

Answer(data, n) == [outcome |-> "returned", data |-> data, prefix_len |-> n]
NoAnswer(why) == [outcome |-> why, data |-> NoNode, prefix_len |-> 0]

Types ==
  /\ ipv4_start \in Nat \cup {NoNode}
  /\ closed \in BOOLEAN
  /\ pc \in [Threads -> {"idle", "start", "skip", "walk", "resolve"}]
  /\ version \in [Threads -> {4, 6}]
  /\ packed \in [Threads -> Address(4) \cup Address(6)]
  /\ \A t \in Threads : packed[t] \in Address(version[t])
  /\ node \in [Threads -> Nat]
  /\ i \in [Threads -> Nat]
  /\ result \in [Threads -> Result]

(* A loop has taken no more steps than there are bits for it. *)
WithinAddress(t) ==
  /\ pc[t] = "skip" => i[t] <= BitsV6 - BitsV4
  /\ pc[t] \in {"walk", "resolve"} => i[t] <= Bits(version[t])

TypeOK == Types /\ \A t \in Threads : WithinAddress(t)

Init ==
  /\ db \in Databases
  /\ ipv4_start = NoNode
  /\ closed = FALSE
  /\ pc = [t \in Threads |-> "idle"]
  /\ version = [t \in Threads |-> 4]
  /\ packed = [t \in Threads |-> [b \in 1..BitsV4 |-> 0]]
  /\ node = [t \in Threads |-> 0]
  /\ i = [t \in Threads |-> 0]
  /\ result = [t \in Threads |-> NoAnswer("pending")]

Goto(t, label) == pc' = [pc EXCEPT ![t] = label]

(* The lookup ends, and its local variables with it. *)
Return(t, value) ==
  /\ Goto(t, "idle")
  /\ node' = [node EXCEPT ![t] = 0]
  /\ i' = [i EXCEPT ![t] = 0]
  /\ result' = [result EXCEPT ![t] = value]

(* A closed file raises when it is read; bytes in memory do not close. *)
Readable == ~ closed \/ InMemory

-----------------------------------------------------------------------------
(* get_with_prefix_len *)
Get(t, v, a) ==
  /\ pc[t] = "idle"
  /\ version' = [version EXCEPT ![t] = v]
  /\ packed' = [packed EXCEPT ![t] = a]
  /\ \/ v = 6 /\ db.ip_version = 4 /\ Return(t, NoAnswer("ValueError"))
     \/ /\ ~ (v = 6 /\ db.ip_version = 4)
        /\ Goto(t, "start")
        /\ result' = [result EXCEPT ![t] = NoAnswer("pending")]
        /\ UNCHANGED <<node, i>>
  /\ UNCHANGED <<db, ipv4_start, closed>>

(* The lookup is of an IPv4 address in an IPv6 tree. *)
Skips(t) == db.ip_version = 6 /\ version[t] = 4

(* Mistaken: lookups of IPv4 addresses start at the root. *)
StartAtRoot(t) ==
  /\ pc[t] = "start"
  /\ Goto(t, "walk")
  /\ node' = [node EXCEPT ![t] = 0]
  /\ i' = [i EXCEPT ![t] = 0]
  /\ UNCHANGED <<db, ipv4_start, closed, version, packed, result>>

(* _start_node, up to its loop *)
Start(t) ==
  LET cached == ipv4_start \notin {NoNode, 0} IN
  /\ pc[t] = "start"
  /\ Goto(t, IF Skips(t) /\ ~ cached THEN "skip" ELSE "walk")
  /\ node' = [node EXCEPT ![t] = IF Skips(t) /\ cached THEN ipv4_start ELSE 0]
  /\ i' = [i EXCEPT ![t] = 0]
  /\ UNCHANGED <<db, ipv4_start, closed, version, packed, result>>

(* An iteration of a loop: follow one record. *)
Follow(t, index) ==
  /\ \/ /\ Readable
        /\ node' = [node EXCEPT ![t] = ReadNode(db, node[t], index)]
        /\ i' = [i EXCEPT ![t] = @ + 1]
        /\ UNCHANGED <<pc, result>>
     \/ ~ Readable /\ Return(t, NoAnswer("ValueError"))
  /\ UNCHANGED <<db, ipv4_start, closed, version, packed>>

Skip(t) ==
  /\ pc[t] = "skip"
  /\ i[t] < BitsV6 - BitsV4 /\ node[t] < db.node_count
  /\ Follow(t, 0)

(* Mistaken: the node is kept before it is reached. *)
KeepFirstStep(t) ==
  /\ pc[t] = "skip" /\ i[t] > 0
  /\ ipv4_start' = node[t]
  /\ i' = [i EXCEPT ![t] = 0]
  /\ Goto(t, "walk")
  /\ UNCHANGED <<db, closed, version, packed, node, result>>

EndSkip(t) ==
  /\ pc[t] = "skip"
  /\ ~ (i[t] < BitsV6 - BitsV4 /\ node[t] < db.node_count)
  /\ ipv4_start' = node[t]
  /\ i' = [i EXCEPT ![t] = 0]
  /\ Goto(t, "walk")
  /\ UNCHANGED <<db, closed, version, packed, node, result>>

(* _find_address_in_tree, from its loop on *)
Walk(t) ==
  /\ pc[t] = "walk"
  /\ i[t] < Bits(version[t]) /\ node[t] < db.node_count
  /\ Follow(t, packed[t][i[t] + 1])

EndWalk(t) ==
  /\ pc[t] = "walk"
  /\ ~ (i[t] < Bits(version[t]) /\ node[t] < db.node_count)
  /\ IF node[t] > db.node_count
       THEN Goto(t, "resolve") /\ UNCHANGED <<node, i, result>>
       ELSE Return(t, IF node[t] = db.node_count THEN Answer(NoNode, i[t])
                      ELSE NoAnswer("InvalidDatabaseError"))
  /\ UNCHANGED <<db, ipv4_start, closed, version, packed>>

(* _resolve_data_pointer; the base of the decoder is past the separator.   *)
(* The file is taken to end with the data: of the metadata behind it only  *)
(* the values are modelled.                                                *)
Resolve(t) ==
  LET resolved == node[t] - db.node_count + SearchTreeSize(db)
      base == SearchTreeSize(db) + Separator IN
  /\ pc[t] = "resolve"
  /\ Return(t, IF resolved >= base + db.data_size
                 THEN NoAnswer("InvalidDatabaseError")
               ELSE IF Readable THEN Answer(resolved - base, i[t])
               ELSE NoAnswer("ValueError"))
  /\ UNCHANGED <<db, ipv4_start, closed, version, packed>>

Close ==
  /\ ~ closed
  /\ closed' = TRUE
  /\ UNCHANGED <<db, ipv4_start, pc, version, packed, node, i, result>>

Next ==
  \/ Close
  \/ \E t \in Threads :
       \/ \E v \in {4, 6} : \E a \in Address(v) : Get(t, v, a)
       \/ Start(t) \/ Skip(t) \/ EndSkip(t) \/ Walk(t) \/ EndWalk(t) \/ Resolve(t)

Spec == Init /\ [][Next]_vars

-----------------------------------------------------------------------------
(* The bits a lookup leaves out, and its address with them in front *)
Skipped(t) == IF Skips(t) THEN BitsV6 - BitsV4 ELSE 0
Whole(t) == [b \in 1..Skipped(t) + Bits(version[t]) |->
              IF b <= Skipped(t) THEN 0 ELSE packed[t][b - Skipped(t)]]

Correct(t) ==
  result[t].outcome = "returned" =>
    LET n == result[t].prefix_len + Skipped(t) IN
    IF result[t].data # NoNode
      THEN \E w \in Networks(db) :
             /\ Within(Whole(t), w) /\ result[t].data = db.data[w]
             /\ Len(w) = n \/ (result[t].prefix_len = 0 /\ Len(w) < n)
      ELSE \A w \in Networks(db) :
             ~ Within(Whole(t), w) /\ ~ Within(w, First(Whole(t), n))

(* Whatever other threads do to _ipv4_start meanwhile, a lookup that       *)
(* returns has found the one network that contains the address, and the    *)
(* length of its prefix; or None, when no network does, and a prefix that  *)
(* no network touches (reader.py:148-171).  An IPv4 address counts as the  *)
(* IPv6 address with zeros in front; bits skipped are not in the prefix.   *)
LookupCorrect == \A t \in Threads : Correct(t)

HasCause(t) ==
  /\ result[t].outcome # "InvalidDatabaseError"
  /\ result[t].outcome = "ValueError" =>
       closed \/ (version[t] = 6 /\ db.ip_version = 4)

(* A database that is well formed is never reported as invalid, and no     *)
(* error is raised but for a version that the database does not have or a  *)
(* reader that is closed (reader.py:142, 171, 215, 224).                   *)
ErrorsHaveCause == \A t \in Threads : HasCause(t)

(* The start node that is kept is the one the loop of any later lookup     *)
(* would find: the end of the zeros in front, or of the network in them    *)
(* (reader.py:173-188).                                                    *)
StartNodeExact ==
  ipv4_start # NoNode =>
    \E k \in 0..BitsV6 - BitsV4 :
      LET zeros == [b \in 1..k |-> 0] IN
      /\ ipv4_start = Record(db, zeros)
      /\ k = BitsV6 - BitsV4 \/ zeros \notin Nodes(db)
      /\ \A j \in 0..k - 1 : [b \in 1..j |-> 0] \in Nodes(db)
=============================================================================
