------------------------------- MODULE DnsServer -------------------------------
(***************************************************************************)
(* dnsserver.py: the ping thread, the loop of serve_dns and the thread it  *)
(* starts for every query, over the routing table of RoutingTable.         *)
(*                                                                         *)
(* A query of a client without a row adds the client to CLIENTS, pings     *)
(* every replica for every client, and is then answered by geography; a    *)
(* query of a client with a row is answered by the lowest average.  The    *)
(* replicas' /ping endpoint is seen from here as a request that is         *)
(* answered, refused, answered with a text that is not JSON, or never      *)
(* answered.  There is no timeout on the request and no exception handler: *)
(* an exception ends the thread it occurs in.                              *)
(***************************************************************************)
EXTENDS RoutingTable, Sequences

CONSTANTS
  PingThread,      \* the thread of ping_thread
  Queries,         \* the queries received, each with a thread of its own
  From,            \* From[q]: the client that sends q
  InitialClients,  \* CLIENTS of the source
  ReplicaOrder,    \* the order in which a loop visits REPLICA_SERVERS
  Closest,         \* Closest[c]: what find_closest_replica_server computes
  Unlisted,        \* clients that GeoLite2-City.mmdb has no location for
  Blocked,         \* clients that answer no ping: their output has no "avg"
  Loss,            \* TRUE if other clients may fail to answer one
  Faulty,          \* replicas that may refuse a request, or leave it unanswered
  MaxResults       \* bound: averages of one client at one replica that the
                   \* ping thread receives

ASSUME ServerAssumption ==
  /\ Threads = {PingThread} \cup Queries /\ PingThread \notin Queries
  /\ From \in [Queries -> Clients]
  /\ InitialClients \subseteq Clients
  /\ ReplicaOrder \in Seq(Replicas)
  /\ \A r \in Replicas : \E i \in DOMAIN ReplicaOrder : ReplicaOrder[i] = r
  /\ Closest \in [Clients -> Replicas]
  /\ Unlisted \subseteq Clients /\ Blocked \subseteq Clients /\ Loss \in BOOLEAN
  /\ Faulty \subseteq Replicas
  /\ MaxResults \in Nat

VARIABLES
  known,     \* CLIENTS
  pc,        \* pc[t]: where thread t is
  left,      \* left[t]: the replicas its ping_replica_servers has yet to do
  posted,    \* posted[t]: the clients named in its request
  lines,     \* lines[t]: clients with an average in the rest of the response
  results,   \* averages the ping thread has received
  answer,    \* answer[q]: the replica the response names
  heard      \* history: the clients and replicas with a result so far

serverVars == <<known, pc, left, posted, lines, results, answer, heard>>
vars == <<row, bound, rec, at, stmt, arg, hdRow, hdRec, val, iter, outcome,
          known, pc, left, posted, lines, results, answer, heard>>

TypeOK ==
  /\ RTTypeOK
  /\ known \in SUBSET Clients
  /\ pc \in [Threads -> {"none", "check", "add", "post", "wait", "body",
                         "sleep", "geo", "min", "send", "done", "dead"}]
  /\ left \in [Threads -> Seq(Replicas)]
  /\ posted \in [Threads -> SUBSET Clients]
  /\ lines \in [Threads -> SUBSET Clients]
  /\ results \in [Clients \X Replicas -> 0..MaxResults]
  /\ answer \in [Queries -> Replicas \cup {NoRef}]
  /\ heard \in SUBSET (Clients \X Replicas)

Init ==
  /\ RTInit
  /\ known = InitialClients
  /\ pc = [t \in Threads |-> IF t = PingThread THEN "sleep" ELSE "none"]
  /\ left = [t \in Threads |-> <<>>]
  /\ posted = [t \in Threads |-> {}]
  /\ lines = [t \in Threads |-> {}]
  /\ results = [cr \in Clients \X Replicas |-> 0]
  /\ answer = [q \in Queries |-> NoRef]
  /\ heard = {}

Goto(t, label) == pc' = [pc EXCEPT ![t] = label]

-----------------------------------------------------------------------------
(* serve_dns starts a thread for the query; DNSRecord.parse raises if the  *)
(* message is not a DNS query.                                             *)
Receive(q) ==
  /\ pc[q] = "none"
  /\ Goto(q, "check") \/ Goto(q, "dead")
  /\ UNCHANGED <<rtVars, known, left, posted, lines, results, answer, heard>>

-----------------------------------------------------------------------------
(* resolve *)

Check(q) ==
  /\ pc[q] = "check"
  /\ \/ BestReplica(q, From[q]) /\ Goto(q, "min")
     \/ ~ InTable(From[q]) /\ Goto(q, "add") /\ UNCHANGED rtVars
  /\ UNCHANGED <<known, left, posted, lines, results, answer, heard>>

AddClient(q) ==
  /\ pc[q] = "add"
  /\ known' = known \cup {From[q]}
  /\ left' = [left EXCEPT ![q] = ReplicaOrder]
  /\ Goto(q, "post")
  /\ UNCHANGED <<rtVars, posted, lines, results, answer, heard>>

(* find_closest_replica_server raises AddressNotFoundError for a client    *)
(* that the database does not list.                                        *)
Geolocate(q) ==
  /\ pc[q] = "geo"
  /\ \/ From[q] \in Unlisted /\ Goto(q, "dead") /\ UNCHANGED answer
     \/ /\ From[q] \notin Unlisted
        /\ answer' = [answer EXCEPT ![q] = Closest[From[q]]]
        /\ Goto(q, "send")
  /\ UNCHANGED <<rtVars, known, left, posted, lines, results, heard>>

(* Mistaken: a fixed replica answers when the minimum raises. *)
MinOrDefault(q) ==
  /\ pc[q] = "min" /\ at[q] = "idle"
  /\ answer' = [answer EXCEPT ![q] =
       IF outcome[q] \in Errors THEN ReplicaOrder[Len(ReplicaOrder)] ELSE outcome[q]]
  /\ Goto(q, "send")
  /\ UNCHANGED <<rtVars, known, left, posted, lines, results, heard>>

MinReturns(q) ==
  /\ pc[q] = "min" /\ at[q] = "idle"
  /\ \/ outcome[q] \in Errors /\ Goto(q, "dead") /\ UNCHANGED answer
     \/ /\ outcome[q] \in Replicas
        /\ answer' = [answer EXCEPT ![q] = outcome[q]]
        /\ Goto(q, "send")
  /\ UNCHANGED <<rtVars, known, left, posted, lines, results, heard>>

Send(q) ==
  /\ pc[q] = "send"
  /\ Goto(q, "done")
  /\ UNCHANGED <<rtVars, known, left, posted, lines, results, answer, heard>>

-----------------------------------------------------------------------------
(* ping_replica_servers, in the ping thread and in query threads *)

(* Mistaken: the clients of the start of the program are pinged. *)
PostInitial(t) ==
  /\ pc[t] = "post" /\ left[t] # <<>>
  /\ posted' = [posted EXCEPT ![t] = InitialClients]
  /\ Goto(t, "wait")
  /\ UNCHANGED <<rtVars, known, left, lines, results, answer, heard>>

Post(t) ==
  /\ pc[t] = "post" /\ left[t] # <<>>
  /\ posted' = [posted EXCEPT ![t] = known]
  /\ Goto(t, "wait")
  /\ UNCHANGED <<rtVars, known, left, lines, results, answer, heard>>

(* Clients whose output may have an average.  The ping thread goes on for  *)
(* ever; beyond MaxResults its pings of a client are not answered.         *)
Reachable(t) ==
  {c \in posted[t] \ Blocked :
     t = PingThread => results[<<c, Head(left[t])>>] < MaxResults}

(* Mistaken: the ping is repeated until every client answers it. *)
AwaitAll(t) ==
  /\ pc[t] = "wait"
  /\ \/ /\ Reachable(t) = posted[t]
        /\ lines' = [lines EXCEPT ![t] = posted[t]]
        /\ Goto(t, "body")
     \/ /\ Reachable(t) # posted[t]
        /\ Goto(t, "post")
        /\ UNCHANGED lines
  /\ UNCHANGED <<rtVars, known, left, posted, results, answer, heard>>

Respond(t) ==
  /\ pc[t] = "wait"
  /\ \E measured \in SUBSET Reachable(t) :
       /\ Loss \/ measured = Reachable(t)
       /\ lines' = [lines EXCEPT ![t] = measured]
       /\ results' = [cr \in Clients \X Replicas |->
            IF t = PingThread /\ cr[1] \in measured /\ cr[2] = Head(left[t])
              THEN results[cr] + 1 ELSE results[cr]]
  /\ Goto(t, "body")
  /\ UNCHANGED <<rtVars, known, left, posted, answer, heard>>

(* requests.post raises ConnectionError, or json.loads raises on the text  *)
(* of a 500 response.                                                      *)
Fail(t) ==
  /\ pc[t] = "wait" /\ Head(left[t]) \in Faulty
  /\ Goto(t, "dead")
  /\ UNCHANGED <<rtVars, known, left, posted, lines, results, answer, heard>>

Line(t) ==
  /\ pc[t] = "body"
  /\ \E c \in lines[t] :
       /\ UpdateLatency(t, c, Head(left[t]))
       /\ lines' = [lines EXCEPT ![t] = @ \ {c}]
       /\ heard' = heard \cup {<<c, Head(left[t])>>}
  /\ UNCHANGED <<known, pc, left, posted, results, answer>>

(* The body ends in a newline: the last of its pieces is "" and skipped. *)
EndOfBody(t) ==
  /\ pc[t] = "body" /\ at[t] = "idle" /\ lines[t] = {}
  /\ left' = [left EXCEPT ![t] = Tail(@)]
  /\ posted' = [posted EXCEPT ![t] = {}]
  /\ Goto(t, "post")
  /\ UNCHANGED <<rtVars, known, lines, results, answer, heard>>

EndOfBatch(t) ==
  /\ pc[t] = "post" /\ left[t] = <<>>
  /\ Goto(t, IF t = PingThread THEN "sleep" ELSE "geo")
  /\ UNCHANGED <<rtVars, known, left, posted, lines, results, answer, heard>>

(* ping_thread: the start of the process, or the end of time.sleep *)
Wake ==
  /\ pc[PingThread] = "sleep"
  /\ left' = [left EXCEPT ![PingThread] = ReplicaOrder]
  /\ Goto(PingThread, "post")
  /\ UNCHANGED <<rtVars, known, posted, lines, results, answer, heard>>

-----------------------------------------------------------------------------
Table(t) == TableStep(t) /\ UNCHANGED serverVars

Pings(t) ==
  Post(t) \/ Respond(t) \/ Line(t) \/ EndOfBody(t) \/ EndOfBatch(t) \/ Table(t)

Resolves(q) ==
  Check(q) \/ AddClient(q) \/ Geolocate(q) \/ MinReturns(q) \/ Send(q)

Next ==
  \/ Wake
  \/ \E q \in Queries : Receive(q) \/ Resolves(q)
  \/ \E t \in Threads : Pings(t) \/ Fail(t)

Spec == Init /\ [][Next]_vars

(* Threads are scheduled, time.sleep ends, and a replica that is not       *)
(* faulty answers; queries need not arrive, and a fault need not happen.   *)
Fairness ==
  /\ WF_vars(Wake)
  /\ \A t \in Threads :
       WF_vars(Pings(t) /\ (pc[t] = "wait" => Head(left[t]) \notin Faulty))
  /\ \A q \in Queries : WF_vars(Resolves(q))

FairSpec == Spec /\ Fairness

-----------------------------------------------------------------------------
(* Whatever the threads do to the table meanwhile, the replica in an       *)
(* answer has a reason: geography, or a result of its own for the client.  *)
AnswersAreJustified ==
  \A q \in Queries :
    answer[q] # NoRef =>
      answer[q] = Closest[From[q]] \/ <<From[q], answer[q]>> \in heard

(* Without faults every query thread comes to an end: no loop and no wait  *)
(* in resolve lasts for ever.                                              *)
QueriesEnd ==
  \A q \in Queries : pc[q] = "check" ~> pc[q] \in {"done", "dead"}

(* The ping thread comes to its next sleep, again and again: README.md:21  *)
(* "For every 100 seconds a batch update of clients latency between        *)
(* mutliple replica servers is calculated".                                *)
PingsForever == []<>(pc[PingThread] = "sleep")

(* Threads that create the row of a client at the same time lose results,  *)
(* but each of them goes on to ping the other replicas: in the end every   *)
(* client that answers pings has a record for every replica, for good.     *)
TableConverges ==
  \A c \in Clients :
    c \in known \ Blocked ~> [](Measured(c) = Replicas)
=============================================================================
