---------------------------- MODULE ContentService ----------------------------
(***************************************************************************)
(* What a replica's HTTP server promises its clients, whatever it caches:  *)
(* a request for a path is answered with a text that the origin has had    *)
(* for that path, or not answered at all.                                  *)
(***************************************************************************)
EXTENDS Naturals

CONSTANTS Requests, Paths, NoPath, NoBody, MaxVersion

VARIABLES
  version,   \* version[p]: the latest text of the origin for p
  asked,     \* asked[t]: the path of request t, NoPath when there is none
  reply      \* reply[t]: the text t was answered with last

vars == <<version, asked, reply>>

Body == [path: Paths, version: 0..MaxVersion]

Init ==
  /\ version = [p \in Paths |-> 0]
  /\ asked = [t \in Requests |-> NoPath]
  /\ reply = [t \in Requests |-> NoBody]

Publish(p) ==
  /\ version[p] < MaxVersion
  /\ version' = [version EXCEPT ![p] = @ + 1]
  /\ UNCHANGED <<asked, reply>>

Ask(t, p) ==
  /\ asked[t] = NoPath
  /\ asked' = [asked EXCEPT ![t] = p]
  /\ reply' = [reply EXCEPT ![t] = NoBody]
  /\ UNCHANGED version

Answer(t) ==
  /\ asked[t] # NoPath
  /\ \E v \in 0..version[asked[t]] :
       reply' = [reply EXCEPT ![t] = [path |-> asked[t], version |-> v]]
  /\ asked' = [asked EXCEPT ![t] = NoPath]
  /\ UNCHANGED version

Drop(t) ==
  /\ asked[t] # NoPath
  /\ asked' = [asked EXCEPT ![t] = NoPath]
  /\ UNCHANGED <<version, reply>>

Next ==
  \/ \E p \in Paths : Publish(p)
  \/ \E t \in Requests : Answer(t) \/ Drop(t) \/ \E p \in Paths : Ask(t, p)

Spec == Init /\ [][Next]_vars
=============================================================================
