------------------------------ MODULE GeoRouting ------------------------------
(***************************************************************************)
(* The geographic choice of dnsserver.py: a thread that answers a query    *)
(* runs find_closest_replica_server, which asks find_location_coordinates  *)
(* for the client and then, in min(...), for one replica after another,    *)
(* and compares what distance_between_locations computes.  The threads     *)
(* share one cache of locations.  A location that is not cached is read    *)
(* from the database, which may not list a host, or have no coordinates    *)
(* for it; the other threads go on meanwhile.                              *)
(*                                                                         *)
(* An angle is a point with integer coordinates on the circle of Radius    *)
(* around 0: its cosine and its sine times Radius.  The points of all the  *)
(* radii come as near to any angle as one wants, and 2 * Radius^4 times    *)
(* the "a" of the haversine formula is an integer.  The distance,          *)
(* 2 r asin(sqrt a), grows with a: the least distance is the least a.      *)
(***************************************************************************)
EXTENDS Integers, FiniteSets, Sequences

CONSTANTS
  Replicas,   \* REPLICA_SERVERS
  Default,    \* DEFAULT_REPLICA_SERVER
  Clients,
  Threads,    \* each answers one query after another
  Radius,     \* of the circle of the angles
  Places,     \* Places[h]: where host h may be
  MaxSize,    \* hosts whose location is cached
  Nowhere,    \* the location of a host that is not listed, or has no coordinates
  NoReplica,  \* no replica considered yet
  NoAnswer,   \* the query has not been answered
  Raised      \* the query raised an exception

Angles == {p \in (-Radius..Radius) \X (-Radius..Radius) :
             p[1] * p[1] + p[2] * p[2] = Radius * Radius}
Latitudes == {p \in Angles : p[1] >= 0}
Longitudes == Angles

Location == Latitudes \X Longitudes
Hosts == Replicas \cup Clients

ASSUME GeoAssumption ==
  /\ IsFiniteSet(Replicas) /\ Default \in Replicas /\ NoReplica \notin Replicas
  /\ NoAnswer \notin Replicas /\ Raised \notin Replicas /\ NoAnswer # Raised
  /\ Radius \in Nat \ {0}
  /\ Nowhere \notin Location
  /\ Places \in [Hosts -> SUBSET (Location \cup {Nowhere})]
  /\ MaxSize \in Nat \ {0}

VARIABLES
  located,   \* located[h]: the location the database has for host h
  order,     \* the order in which the set of the replicas is gone through
  cache,     \* the cached hosts and their locations, the oldest use first
  client,    \* client[t]: whose query thread t answers
  turn,      \* turn[t]: 0 none, 1 the client is located, i + 1 replica order[i] is
  reading,   \* the threads that have not found the host in the cache and read the database
  here,      \* here[t]: source_coordinates
  best,      \* best[t]: the replica with the least distance so far
  least,     \* least[t]: that distance
  answer     \* answer[t]: the replica the client is told, or Raised

vars == <<located, order, cache, client, turn, reading, here, best, least, answer>>

-----------------------------------------------------------------------------
(* Radius^2 times the cosine of the difference of two angles. *)
Cosine(p, q) == p[1] * q[1] + p[2] * q[2]

(* Twice Radius^2 times the square of the sine of half the difference. *)
HalfSine(p, q) == Radius * Radius - Cosine(p, q)

(* Mistaken: the cosines of the latitudes left out. *)
NoCosines(lat1, lon1, lat2, lon2) ==
  Radius * Radius * HalfSine(lat1, lat2) + Radius * Radius * HalfSine(lon1, lon2)

(* 2 Radius^4 a of the haversine formula *)
Haversine(lat1, lon1, lat2, lon2) ==
  Radius * Radius * HalfSine(lat1, lat2) + lat1[1] * lat2[1] * HalfSine(lon1, lon2)

(* distance_between_locations.  Its arguments are pairs of a latitude and  *)
(* a longitude; both parts of the first become "lon", both of the second   *)
(* become "lat".                                                           *)
Distance(loc1, loc2) == Haversine(loc2[1], loc1[1], loc2[2], loc1[2])

(* The distance between the two places. *)
TrueDistance(loc1, loc2) == Haversine(loc1[1], loc1[2], loc2[1], loc2[2])

-----------------------------------------------------------------------------
(* The cache of functools.lru_cache *)

Entry == [host : Hosts, at : Location]

IsCached(h) == \E i \in DOMAIN cache : cache[i].host = h
Place(h) == CHOOSE i \in DOMAIN cache : cache[i].host = h

(* The location returned for a host that is cached. *)
CachedAt(h) == cache[Place(h)].at

(* Its entry is now the one used last. *)
Used(h) ==
  LET i == Place(h) IN
  SubSeq(cache, 1, i - 1) \o SubSeq(cache, i + 1, Len(cache)) \o <<cache[i]>>

(* Mistaken: not looked up again after the database has been read. *)
StoredAgain(h) ==
  Append(IF Len(cache) < MaxSize THEN cache ELSE Tail(cache),
         [host |-> h, at |-> located[h]])

(* The location read is kept, unless another thread has kept it meanwhile; *)
(* if the cache is full it takes the place of the one not used for longest.*)
Stored(h) ==
  IF IsCached(h) THEN cache
  ELSE Append(IF Len(cache) < MaxSize THEN cache ELSE Tail(cache),
              [host |-> h, at |-> located[h]])

-----------------------------------------------------------------------------
(* A set is gone through in one order, the same as long as the program runs.*)
Orders ==
  {o \in UNION {[1..n -> Replicas] : n \in 0..Cardinality(Replicas)} :
     /\ \A r \in Replicas : \E i \in DOMAIN o : o[i] = r
     /\ \A i, j \in DOMAIN o : o[i] = o[j] => i = j}

TypeOK ==
  /\ located \in [Hosts -> Location \cup {Nowhere}]
  /\ order \in Orders
  /\ cache \in Seq(Entry) /\ Len(cache) <= MaxSize
  /\ \A i, j \in DOMAIN cache : cache[i].host = cache[j].host => i = j
  /\ client \in [Threads -> Clients]
  /\ turn \in [Threads -> 0..Len(order) + 2]
  /\ reading \in SUBSET {t \in Threads : turn[t] \in 1..Len(order) + 1}
  /\ here \in [Threads -> Location \cup {Nowhere}]
  /\ best \in [Threads -> Replicas \cup {NoReplica}]
  /\ least \in [Threads -> Int]
  /\ answer \in [Threads -> Replicas \cup {NoAnswer, Raised}]

Init ==
  /\ located \in [Hosts -> UNION {Places[h] : h \in Hosts}]
  /\ \A h \in Hosts : located[h] \in Places[h]
  /\ order \in Orders
  /\ cache = <<>>
  /\ client \in [Threads -> Clients]
  /\ turn = [t \in Threads |-> 0]
  /\ reading = {}
  /\ here = [t \in Threads |-> Nowhere]
  /\ best = [t \in Threads |-> NoReplica]
  /\ least = [t \in Threads |-> 0]
  /\ answer = [t \in Threads |-> NoAnswer]

(* A thread takes the query of client c. *)
Ask(t, c) ==
  /\ turn[t] = 0
  /\ client' = [client EXCEPT ![t] = c]
  /\ turn' = [turn EXCEPT ![t] = 1]
  /\ answer' = [answer EXCEPT ![t] = NoAnswer]
  /\ UNCHANGED <<located, order, cache, reading, here, best, least>>

(* The host thread t asks find_location_coordinates for *)
Host(t) == IF turn[t] = 1 THEN client[t] ELSE order[turn[t] - 1]
Locating(t) == turn[t] \in 1..Len(order) + 1 /\ t \notin reading

(* Mistaken: source_coordinates is one variable of all threads. *)
SourceShared(t, at) == here' = [u \in Threads |-> at]

(* source_coordinates is local to the thread. *)
Source(t, at) == here' = [here EXCEPT ![t] = at]

(* min keeps the first of those with the least distance, *)
Nearer(t, at) == best[t] = NoReplica \/ Distance(here[t], at) < least[t]

(* and computes the distance of each replica once. *)
Continue(t, at) ==
  /\ turn' = [turn EXCEPT ![t] = @ + 1]
  /\ IF turn[t] = 1
       THEN Source(t, at) /\ UNCHANGED <<best, least>>
       ELSE /\ IF Nearer(t, at)
                 THEN /\ best' = [best EXCEPT ![t] = Host(t)]
                      /\ least' = [least EXCEPT ![t] = Distance(here[t], at)]
                 ELSE UNCHANGED <<best, least>>
            /\ UNCHANGED here
  /\ UNCHANGED <<located, order, client, answer>>

(* The query is over. *)
Finish(t, told) ==
  /\ answer' = [answer EXCEPT ![t] = told]
  /\ turn' = [turn EXCEPT ![t] = 0]
  /\ here' = [here EXCEPT ![t] = Nowhere]
  /\ best' = [best EXCEPT ![t] = NoReplica]
  /\ least' = [least EXCEPT ![t] = 0]
  /\ UNCHANGED <<located, order, client>>

Hit(t) ==
  /\ Locating(t) /\ IsCached(Host(t))
  /\ cache' = Used(Host(t))
  /\ Continue(t, CachedAt(Host(t)))
  /\ UNCHANGED reading

Miss(t) ==
  /\ Locating(t) /\ ~ IsCached(Host(t))
  /\ reading' = reading \cup {t}
  /\ UNCHANGED <<located, order, cache, client, turn, here, best, least, answer>>

(* The database has the location. *)
Read(t) ==
  /\ t \in reading /\ located[Host(t)] # Nowhere
  /\ cache' = Stored(Host(t))
  /\ reading' = reading \ {t}
  /\ Continue(t, located[Host(t)])

(* Mistaken: a replica that cannot be located is passed over. *)
PassOver(t) ==
  /\ t \in reading /\ located[Host(t)] = Nowhere
  /\ reading' = reading \ {t}
  /\ IF turn[t] = 1
       THEN Finish(t, Raised)
       ELSE /\ turn' = [turn EXCEPT ![t] = @ + 1]
            /\ UNCHANGED <<located, order, client, here, best, least, answer>>
  /\ UNCHANGED cache

(* It has not: an exception, which the cache does not keep. *)
Fail(t) ==
  /\ t \in reading /\ located[Host(t)] = Nowhere
  /\ reading' = reading \ {t}
  /\ Finish(t, Raised)
  /\ UNCHANGED cache

Return(t) ==
  /\ turn[t] = Len(order) + 2
  /\ Finish(t, IF best[t] = NoReplica THEN Default ELSE best[t])
  /\ UNCHANGED <<cache, reading>>

Next ==
  \E t \in Threads :
    (\E c \in Clients : Ask(t, c)) \/ Hit(t) \/ Miss(t) \/ Read(t) \/ Fail(t) \/ Return(t)

Spec == Init /\ [][Next]_vars

-----------------------------------------------------------------------------
(* asin(sqrt(a)) of dnsserver.py:86 is defined for every two locations:    *)
(* 0 <= a <= 1, although the angles change roles before a is computed.     *)
DistanceDefined ==
  \A t \in Threads : turn[t] >= 2 =>
    \A r \in Replicas : located[r] # Nowhere =>
      Distance(here[t], located[r]) \in 0..2 * Radius * Radius * Radius * Radius

(* A client is told a replica just when it and every replica have          *)
(* coordinates: one replica the database cannot locate makes the query of  *)
(* every client raise, whatever is cached (dnsserver.py:66-69, 95-103).    *)
AnswersNeedEveryLocation ==
  \A t \in Threads :
    /\ answer[t] = Raised => \E h \in Replicas \cup {client[t]} : located[h] = Nowhere
    /\ answer[t] \in Replicas =>
         \A h \in Replicas \cup {client[t]} : located[h] # Nowhere

(* A client is told the first of the replicas with the least distance by   *)
(* the locations in the database, although each of them was found in the   *)
(* cache or read, while other threads used, added and dropped entries and  *)
(* read the same host (dnsserver.py:63-69, 95-103).                        *)
AnswersAreNearest ==
  \A t \in Threads : answer[t] \in Replicas =>
    LET DistanceOf(j) == Distance(located[client[t]], located[order[j]]) IN
    \E i \in DOMAIN order :
      /\ order[i] = answer[t]
      /\ \A j \in DOMAIN order :
           /\ DistanceOf(i) <= DistanceOf(j)
           /\ j < i => DistanceOf(i) < DistanceOf(j)

(* README.md:18 "a new client is assigned to a geographically closest      *)
(* server. The IP address of a client is translated to location            *)
(* coordinates and compared with replica server coordinates."              *)
ClosestIsAssigned ==
  \A t \in Threads : answer[t] \in Replicas =>
    \A r \in Replicas :
      TrueDistance(located[client[t]], located[answer[t]])
        <= TrueDistance(located[client[t]], located[r])
=============================================================================
