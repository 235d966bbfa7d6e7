-------------------------- MODULE GeoRouting_proofs --------------------------
(***************************************************************************)
(* Proofs about GeoRouting, for any replicas, clients, threads, locations, *)
(* order of the replicas, radius of the circle of the angles and size of   *)
(* the cache.                                                              *)
(***************************************************************************)
EXTENDS GeoRouting, FiniteSetTheorems, SequenceTheorems, TLAPS

-----------------------------------------------------------------------------
(* The distance *)

LEMMA Products ==
  ASSUME NEW a \in Int, NEW b \in Int
  PROVE  /\ a * a >= 0
         /\ a >= 0 /\ b >= 0 => a * b >= 0
         /\ a <= 0 /\ b >= 0 => a * b <= 0
OBVIOUS

(* The cosine of a difference lies between -1 and 1, and so does that of   *)
(* the difference to the angle reflected at the axis of the cosines.       *)
LEMMA CosineBounds ==
  ASSUME NEW p \in Angles, NEW q \in Angles
  PROVE  /\ p[1] * q[1] \in Int /\ p[2] * q[2] \in Int
         /\ p[1] * q[1] + p[2] * q[2] \in -(Radius * Radius)..Radius * Radius
         /\ p[1] * q[1] - p[2] * q[2] \in -(Radius * Radius)..Radius * Radius
<1> DEFINE a == p[1]
           b == p[2]
           c == q[1]
           d == q[2]
           n == Radius * Radius
<1>1. a \in Int /\ b \in Int /\ c \in Int /\ d \in Int /\ n \in Int
  BY GeoAssumption DEF Angles
<1>2. a * a + b * b = n /\ c * c + d * d = n
  BY DEF Angles
<1> HIDE DEF a, b, c, d, n
<1>3. /\ (a - c) * (a - c) >= 0 /\ (b - d) * (b - d) >= 0
      /\ (a + c) * (a + c) >= 0 /\ (b + d) * (b + d) >= 0
  BY <1>1, Products
<1>4. /\ (a - c) * (a - c) = a * a - 2 * (a * c) + c * c
      /\ (b - d) * (b - d) = b * b - 2 * (b * d) + d * d
      /\ (a + c) * (a + c) = a * a + 2 * (a * c) + c * c
      /\ (b + d) * (b + d) = b * b + 2 * (b * d) + d * d
  BY <1>1
<1>5. a * c \in Int /\ b * d \in Int /\ a * a \in Int /\ b * b \in Int
      /\ c * c \in Int /\ d * d \in Int
  BY <1>1
<1> DEFINE ac == a * c
           bd == b * d
           aa == a * a
           bb == b * b
           cc == c * c
           dd == d * d
<1> HIDE DEF ac, bd, aa, bb, cc, dd
<1>6. /\ aa - 2 * ac + cc >= 0 /\ bb - 2 * bd + dd >= 0
      /\ aa + 2 * ac + cc >= 0 /\ bb + 2 * bd + dd >= 0
      /\ aa + bb = n /\ cc + dd = n
  BY <1>2, <1>3, <1>4 DEF ac, bd, aa, bb, cc, dd
<1>7. ac + bd \in -n..n /\ ac - bd \in -n..n
  BY <1>1, <1>5, <1>6 DEF ac, bd, aa, bb, cc, dd
<1> QED
  BY <1>5, <1>7 DEF ac, bd, a, b, c, d, n

(* The angles change roles, and still 0 <= a <= 1: a lies between the      *)
(* values it has for the same and for opposite longitudes.                 *)
LEMMA DistanceBounds ==
  ASSUME NEW loc1 \in Location, NEW loc2 \in Location
  PROVE  Distance(loc1, loc2) \in 0..2 * Radius * Radius * Radius * Radius
<1> DEFINE p == loc2[1]
           q == loc2[2]
           n == Radius * Radius
           x == p[1] * q[1]
           y == p[2] * q[2]
           h == HalfSine(loc1[1], loc1[2])
<1>1. p \in Angles /\ q \in Angles /\ loc1[1] \in Angles /\ loc1[2] \in Angles
  BY DEF Location, Latitudes, Longitudes
<1>2. n \in Nat
  BY GeoAssumption
<1>3. h \in 0..2 * n
  BY <1>1, <1>2, CosineBounds DEF HalfSine, Cosine
<1>4. x \in Int /\ y \in Int /\ x + y \in -n..n /\ x - y \in -n..n
  BY <1>1, CosineBounds
<1>5. Distance(loc1, loc2) = n * (n - (x + y)) + x * h
  BY DEF Distance, Haversine, HalfSine, Cosine
<1> HIDE DEF p, q, n, x, y, h
<1>6. n * (n - (x + y)) \in 0..2 * n * n /\ n * (n + (x - y)) \in 0..2 * n * n
  <2>1. ASSUME NEW k \in 0..2 * n PROVE n * k \in 0..2 * n * n
    <3>1. n * k >= 0 /\ n * (2 * n - k) >= 0 /\ n * k \in Int
      BY <1>2, Products
    <3>2. n * (2 * n - k) = 2 * n * n - n * k
      BY <1>2
    <3> QED
      BY <1>2, <3>1, <3>2
  <2>2. n - (x + y) \in 0..2 * n /\ n + (x - y) \in 0..2 * n
    BY <1>2, <1>4
  <2> QED
    BY <2>1, <2>2
<1>7. n * (n + (x - y)) = n * (n - (x + y)) + x * (2 * n)
  BY <1>2, <1>4
<1>8. x * h \in Int /\ x * (2 * n) - x * h = x * (2 * n - h)
  BY <1>2, <1>3, <1>4
<1> DEFINE u == n * (n - (x + y))
           v == x * h
           w == x * (2 * n)
           m == 2 * n * n
<1>9. /\ u \in 0..m /\ u + w \in 0..m /\ x * (2 * n - h) = w - v
       /\ u \in Int /\ v \in Int /\ w \in Int /\ m \in Int
  BY <1>2, <1>3, <1>4, <1>6, <1>7, <1>8
<1>10. Distance(loc1, loc2) = u + v /\ 2 * Radius * Radius * Radius * Radius = m
  BY <1>5, GeoAssumption DEF n
<1> HIDE DEF u, w, m
<1>11. CASE x >= 0
  <2>1. x * h >= 0 /\ x * (2 * n - h) >= 0
    BY <1>2, <1>3, <1>4, <1>11, Products
  <2> QED
    BY <1>2, <1>9, <1>10, <2>1
<1>12. CASE x <= 0
  <2>1. x * h <= 0 /\ x * (2 * n - h) <= 0
    BY <1>2, <1>3, <1>4, <1>12, Products
  <2> QED
    BY <1>2, <1>9, <1>10, <2>1
<1> QED
  BY <1>4, <1>11, <1>12

-----------------------------------------------------------------------------
(* The cache *)

(* Entries with the location the database has, no more of them than fit,   *)
(* and each host once                                                      *)
Cached(s) ==
  /\ s \in Seq(Entry) /\ Len(s) <= MaxSize
  /\ \A i \in 1..Len(s) : s[i].at = located[s[i].host]
  /\ \A i, j \in 1..Len(s) : s[i].host = s[j].host => i = j

(* The entry of a host that has none is appended to a sequence that has a  *)
(* place.                                                                  *)
LEMMA AppendCached ==
  ASSUME NEW s, Cached(s), Len(s) < MaxSize, NEW e \in Entry, e.at = located[e.host],
         \A i \in 1..Len(s) : s[i].host # e.host
  PROVE  Cached(Append(s, e))
<1>1. PICK a : a = Append(s, e)
  OBVIOUS
<1>2. s \in Seq(Entry) /\ Len(s) \in Nat /\ MaxSize \in Nat
  BY GeoAssumption, LenProperties DEF Cached
<1>3. /\ a \in Seq(Entry) /\ Len(a) = Len(s) + 1
      /\ \A i \in 1..Len(s) : a[i] = s[i] /\ a[Len(s) + 1] = e
  BY <1>1, <1>2, AppendProperties
<1>4. a[Len(a)] = e
  BY <1>1, <1>2, <1>3, AppendProperties
<1>5. \A i \in 1..Len(a) : i \in 1..Len(s) \/ i = Len(a)
  BY <1>2, <1>3
<1>6. \A i \in 1..Len(a) : a[i].at = located[a[i].host]
  BY <1>3, <1>4, <1>5 DEF Cached
<1>7. \A i, j \in 1..Len(a) : a[i].host = a[j].host => i = j
  BY <1>3, <1>4, <1>5 DEF Cached
<1> QED
  BY <1>1, <1>2, <1>3, <1>6, <1>7 DEF Cached

(* A part of the cache, with its places in the cache: what is left out of  *)
(* it, it does not have.                                                   *)
LEMMA PartCached ==
  ASSUME NEW s, Cached(s), NEW n \in Nat, NEW p \in Seq(Entry), Len(p) = n,
         n < Len(s), NEW f \in [1..n -> 1..Len(s)],
         \A i \in 1..n : p[i] = s[f[i]], \A i, j \in 1..n : f[i] = f[j] => i = j
  PROVE  Cached(p) /\ Len(p) < MaxSize
<1>1. Len(s) \in Nat /\ MaxSize \in Nat /\ Len(s) <= MaxSize
  BY GeoAssumption, LenProperties DEF Cached
<1>2. \A i \in 1..n : f[i] \in 1..Len(s)
  OBVIOUS
<1>3. \A i \in 1..n : p[i].at = located[p[i].host]
  BY <1>2 DEF Cached
<1>4. ASSUME NEW i \in 1..n, NEW j \in 1..n, p[i].host = p[j].host PROVE i = j
  <2>1. s[f[i]].host = s[f[j]].host /\ f[i] \in 1..Len(s) /\ f[j] \in 1..Len(s)
    BY <1>2, <1>4
  <2>2. f[i] = f[j]
    BY <2>1 DEF Cached
  <2> QED
    BY <2>2
<1> QED
  BY <1>1, <1>3, <1>4 DEF Cached

(* A host that is cached has its place, and the location returned is that  *)
(* in the database.                                                        *)
LEMMA CachedPlace ==
  ASSUME Cached(cache), NEW h, IsCached(h)
  PROVE  /\ Place(h) \in 1..Len(cache) /\ Len(cache) \in Nat
         /\ cache[Place(h)].host = h /\ cache[Place(h)] \in Entry
         /\ CachedAt(h) = located[h] /\ CachedAt(h) \in Location
<1>1. Len(cache) \in Nat /\ DOMAIN cache = 1..Len(cache) /\ cache \in Seq(Entry)
  BY LenProperties DEF Cached
<1>2. PICK k : k = CHOOSE i \in DOMAIN cache : cache[i].host = h
  OBVIOUS
<1>3. k \in 1..Len(cache) /\ cache[k].host = h
  BY <1>1, <1>2 DEF IsCached
<1>4. cache[k] \in Entry
  BY <1>1, <1>3, ElementOfSeq
<1>5. cache[k].at = located[h] /\ cache[k].at \in Location
  BY <1>3, <1>4 DEF Cached, Entry
<1>6. Place(h) = k
  BY <1>2 DEF Place
<1> QED
  BY <1>1, <1>3, <1>4, <1>5, <1>6 DEF CachedAt

LEMMA UsedCached ==
  ASSUME Cached(cache), NEW h \in Hosts, IsCached(h)
  PROVE  Cached(Used(h))
<1>1. PICK n, k : n = Len(cache) /\ k = Place(h)
  OBVIOUS
<1>2. /\ cache \in Seq(Entry) /\ n \in Nat /\ k \in 1..n /\ cache[k].host = h
      /\ cache[k] \in Entry
  BY <1>1, CachedPlace DEF Cached
<1>3. PICK l, r : l = SubSeq(cache, 1, k - 1) /\ r = SubSeq(cache, k + 1, n)
  OBVIOUS
<1>4. \A i \in 1..n : cache[i] \in Entry
  BY <1>1, <1>2, ElementOfSeq
<1>5. /\ l \in Seq(Entry) /\ Len(l) = k - 1
      /\ \A i \in 1..k - 1 : l[i] = cache[i]
  <2>1. 1 \in Int /\ k - 1 \in Int /\ \A i \in 1..k - 1 : cache[i] \in Entry
    BY <1>2, <1>4
  <2> QED
    BY <1>2, <1>3, <2>1, SubSeqProperties
<1>6. /\ r \in Seq(Entry) /\ Len(r) = n - k
      /\ \A i \in 1..n - k : r[i] = cache[k + i]
  <2>1. k + 1 \in Int /\ \A i \in k + 1..n : cache[i] \in Entry
    BY <1>2, <1>4
  <2> QED
    BY <1>2, <1>3, <2>1, SubSeqProperties
<1>7. PICK p : p = l \o r
  OBVIOUS
<1>8. /\ p \in Seq(Entry) /\ Len(p) = n - 1
      /\ \A i \in 1..n - 1 : p[i] = IF i <= k - 1 THEN l[i] ELSE r[i - (k - 1)]
  <2>1. /\ p \in Seq(Entry) /\ Len(p) = Len(l) + Len(r)
        /\ \A i \in 1..Len(l) + Len(r) :
             p[i] = IF i <= Len(l) THEN l[i] ELSE r[i - Len(l)]
    BY <1>5, <1>6, <1>7, ConcatProperties
  <2>2. Len(l) = k - 1 /\ Len(l) + Len(r) = n - 1
    BY <1>2, <1>5, <1>6
  <2> QED
    BY <2>1, <2>2
<1>9. PICK f : f = [i \in 1..n - 1 |-> IF i < k THEN i ELSE i + 1]
  OBVIOUS
<1>10. /\ f \in [1..n - 1 -> 1..n]
       /\ \A i, j \in 1..n - 1 : f[i] = f[j] => i = j
  BY <1>2, <1>9
<1>11. ASSUME NEW i \in 1..n - 1 PROVE p[i] = cache[f[i]] /\ f[i] # k
  <2>1. CASE i < k
    BY <1>2, <1>5, <1>8, <1>9, <2>1
  <2>2. CASE ~ (i < k)
    <3>1. PICK j : j = i - (k - 1)
      OBVIOUS
    <3>2. j \in 1..n - k /\ k + j = i + 1 /\ ~ (i <= k - 1)
      BY <1>2, <2>2, <3>1
    <3>3. p[i] = r[j] /\ r[j] = cache[i + 1] /\ f[i] = i + 1
      BY <1>6, <1>8, <1>9, <2>2, <3>1, <3>2
    <3> QED
      BY <1>2, <2>2, <3>3
  <2> QED
    BY <2>1, <2>2
<1>12. Cached(p) /\ Len(p) < MaxSize
  <2>1. PICK m : m = n - 1
    OBVIOUS
  <2>2. m \in Nat /\ m < Len(cache) /\ Len(p) = m /\ p \in Seq(Entry)
    BY <1>1, <1>2, <1>8, <2>1
  <2>3. f \in [1..m -> 1..Len(cache)]
    BY <1>1, <1>10, <2>1
  <2>4. \A i \in 1..m : p[i] = cache[f[i]]
    BY <1>11, <2>1
  <2>5. \A i, j \in 1..m : f[i] = f[j] => i = j
    BY <1>10, <2>1
  <2> QED
    BY <2>2, <2>3, <2>4, <2>5, PartCached
<1>13. \A i \in 1..Len(p) : p[i].host # h
  <2>1. ASSUME NEW i \in 1..n - 1, p[i].host = h PROVE FALSE
    <3>1. f[i] \in 1..n /\ cache[f[i]].host = cache[k].host
      BY <1>2, <1>10, <1>11, <2>1
    <3> QED
      BY <1>1, <1>2, <1>11, <3>1 DEF Cached
  <2> QED
    BY <1>8, <2>1
<1>14. PICK e : e = cache[k]
  OBVIOUS
<1>15. e \in Entry /\ e.host = h /\ e.at = located[e.host]
  BY <1>1, <1>2, <1>14 DEF Cached
<1>16. Cached(Append(p, e))
  BY <1>12, <1>13, <1>15, AppendCached
<1>17. Used(h) = p \o <<e>>
  BY <1>1, <1>3, <1>7, <1>14 DEF Used
<1>18. p \o <<e>> = Append(p, e)
  BY <1>8, <1>15, AppendIsConcat
<1> QED
  BY <1>16, <1>17, <1>18

LEMMA StoredCached ==
  ASSUME Cached(cache), NEW h \in Hosts, located[h] \in Location
  PROVE  Cached(Stored(h))
<1>1. PICK n, e : n = Len(cache) /\ e = [host |-> h, at |-> located[h]]
  OBVIOUS
<1>2. /\ cache \in Seq(Entry) /\ n \in Nat /\ DOMAIN cache = 1..n
      /\ MaxSize \in Nat \ {0}
  BY <1>1, GeoAssumption, LenProperties DEF Cached
<1>3. e \in Entry /\ e.host = h /\ e.at = located[e.host]
  BY <1>1 DEF Entry
<1>4. CASE IsCached(h)
  BY <1>4 DEF Stored
<1>5. CASE ~ IsCached(h) /\ n < MaxSize
  <2>1. Stored(h) = Append(cache, e)
    BY <1>1, <1>5 DEF Stored
  <2>2. \A i \in 1..Len(cache) : cache[i].host # h
    BY <1>1, <1>2, <1>5 DEF IsCached
  <2> QED
    BY <1>1, <1>3, <1>5, <2>1, <2>2, AppendCached
<1>6. CASE ~ IsCached(h) /\ ~ (n < MaxSize)
  <2>1. PICK p : p = Tail(cache)
    OBVIOUS
  <2>2. n > 0 /\ cache # <<>>
    BY <1>1, <1>2, <1>6
  <2>3. /\ p \in Seq(Entry) /\ Len(p) = n - 1
        /\ \A i \in 1..n - 1 : p[i] = cache[i + 1]
    BY <1>1, <1>2, <2>1, <2>2, HeadTailProperties
  <2>4. PICK f : f = [i \in 1..n - 1 |-> i + 1]
    OBVIOUS
  <2>5. /\ f \in [1..n - 1 -> 1..n] /\ n - 1 \in Nat
        /\ \A i, j \in 1..n - 1 : f[i] = f[j] => i = j
        /\ \A i \in 1..n - 1 : p[i] = cache[f[i]]
    BY <1>2, <2>2, <2>3, <2>4
  <2>6. Cached(p) /\ Len(p) < MaxSize
    <3>1. PICK m : m = n - 1
      OBVIOUS
    <3>2. m \in Nat /\ m < Len(cache) /\ Len(p) = m /\ p \in Seq(Entry)
      BY <1>1, <1>2, <2>2, <2>3, <3>1
    <3>3. f \in [1..m -> 1..Len(cache)]
      BY <1>1, <2>5, <3>1
    <3>4. \A i \in 1..m : p[i] = cache[f[i]]
      BY <2>5, <3>1
    <3>5. \A i, j \in 1..m : f[i] = f[j] => i = j
      BY <2>5, <3>1
    <3> QED
      BY <3>2, <3>3, <3>4, <3>5, PartCached
  <2>7. \A i \in 1..Len(p) : p[i].host # h
    BY <1>2, <1>6, <2>3, <2>5 DEF IsCached
  <2>8. Stored(h) = Append(p, e)
    BY <1>1, <1>6, <2>1 DEF Stored
  <2> QED
    BY <1>3, <2>6, <2>7, <2>8, AppendCached
<1> QED
  BY <1>4, <1>5, <1>6

-----------------------------------------------------------------------------
(* The invariant *)

Types ==
  /\ located \in [Hosts -> Location \cup {Nowhere}]
  /\ order \in Orders
  /\ client \in [Threads -> Clients]
  /\ turn \in [Threads -> 0..Len(order) + 2]
  /\ reading \in SUBSET {t \in Threads : turn[t] \in 1..Len(order) + 1}
  /\ here \in [Threads -> Location \cup {Nowhere}]
  /\ best \in [Threads -> Replicas \cup {NoReplica}]
  /\ least \in [Threads -> Int]
  /\ answer \in [Threads -> Replicas \cup {NoAnswer, Raised}]

DistanceTo(c, i) == Distance(located[c], located[order[i]])

(* r is the first of the first n replicas with the least distance d to c.  *)
IsNearest(c, r, d, n) ==
  \E i \in 1..n :
    /\ r = order[i] /\ d = DistanceTo(c, i)
    /\ \A j \in 1..n :
         /\ DistanceTo(c, i) <= DistanceTo(c, j)
         /\ j < i => DistanceTo(c, i) < DistanceTo(c, j)

(* What thread t knows while min(...) goes through the replicas. *)
Search(t) ==
  /\ turn[t] \in 0..2 => best[t] = NoReplica
  /\ turn[t] >= 2 =>
       /\ here[t] = located[client[t]] /\ here[t] # Nowhere
       /\ \A i \in 1..turn[t] - 2 : located[order[i]] # Nowhere
       /\ turn[t] > 2 => IsNearest(client[t], best[t], least[t], turn[t] - 2)

(* What thread t may tell client c. *)
Right(c, told) ==
  /\ told = Raised => \E h \in Replicas \cup {c} : located[h] = Nowhere
  /\ told \in Replicas =>
       /\ \A h \in Replicas \cup {c} : located[h] # Nowhere
       /\ \E d \in Int : IsNearest(c, told, d, Len(order))

Inv ==
  /\ Types /\ Cached(cache)
  /\ \A t \in Threads : Search(t) /\ Right(client[t], answer[t])

(* An order of the replicas is a sequence of all of them. *)
LEMMA OrderFields ==
  ASSUME NEW o \in Orders
  PROVE  /\ Len(o) \in Nat /\ Len(o) >= 1 /\ DOMAIN o = 1..Len(o)
         /\ \A i \in 1..Len(o) : o[i] \in Replicas
         /\ \A r \in Replicas : \E i \in 1..Len(o) : o[i] = r
<1>1. PICK n \in 0..Cardinality(Replicas) : o \in [1..n -> Replicas]
  BY DEF Orders
<1>2. Cardinality(Replicas) \in Nat
  BY GeoAssumption, FS_CardinalityType
<1>3. n \in Nat /\ DOMAIN o = 1..n /\ Len(o) = n
  BY <1>1, <1>2
<1>4. \A r \in Replicas : \E i \in DOMAIN o : o[i] = r
  BY DEF Orders
<1>5. n >= 1
  BY <1>3, <1>4, GeoAssumption
<1> QED
  BY <1>1, <1>3, <1>4, <1>5

LEMMA NotNowhere ==
  ASSUME Types, NEW h \in Hosts
  PROVE  located[h] # Nowhere <=> located[h] \in Location
BY GeoAssumption DEF Types

(* Distances between hosts that are located are numbers. *)
LEMMA DistanceType ==
  ASSUME Types, NEW c \in Clients, located[c] # Nowhere, NEW i \in 1..Len(order),
         located[order[i]] # Nowhere
  PROVE  DistanceTo(c, i) \in Int
<1>1. order[i] \in Replicas
  BY OrderFields DEF Types
<1>2. located[c] \in Location /\ located[order[i]] \in Location
  BY <1>1, NotNowhere DEF Hosts
<1>3. Distance(located[c], located[order[i]]) \in 0..2 * Radius * Radius * Radius * Radius
  BY <1>2, DistanceBounds
<1>4. 2 * Radius * Radius * Radius * Radius \in Int
  BY GeoAssumption
<1> QED
  BY <1>3, <1>4 DEF DistanceTo

(* The host thread t asks for is one the database may have. *)
LEMMA HostType ==
  ASSUME Types, NEW t \in Threads, turn[t] \in 1..Len(order) + 1
  PROVE  /\ Host(t) \in Hosts /\ (turn[t] = 1 => Host(t) = client[t])
         /\ turn[t] # 1 => turn[t] - 1 \in 1..Len(order) /\ Host(t) = order[turn[t] - 1]
                             /\ Host(t) \in Replicas
BY OrderFields DEF Types, Host, Hosts

(* The search goes on with the next replica. *)
LEMMA NearestGrows ==
  ASSUME Types, NEW t \in Threads, Search(t), turn[t] \in 2..Len(order) + 1,
         NEW at, at = located[Host(t)], at # Nowhere
  PROVE  IsNearest(client[t], IF Nearer(t, at) THEN Host(t) ELSE best[t],
                   IF Nearer(t, at) THEN Distance(here[t], at) ELSE least[t], turn[t] - 1)
<1>0. PICK n, c : n = turn[t] - 2 /\ c = client[t]
  OBVIOUS
<1>1. /\ Len(order) \in Nat /\ n + 1 \in 1..Len(order) /\ n \in Nat /\ turn[t] = n + 2
      /\ turn[t] - 1 = n + 1 /\ c \in Clients /\ Host(t) = order[n + 1]
  <2>1. Len(order) \in Nat /\ turn[t] \in Nat /\ c \in Clients
    BY <1>0, OrderFields DEF Types
  <2>2. turn[t] # 1 /\ turn[t] \in 1..Len(order) + 1
    BY <2>1
  <2>3. Host(t) = order[turn[t] - 1]
    BY <2>2, HostType
  <2>4. n = turn[t] - 2
    BY <1>0
  <2>5. turn[t] - 1 = n + 1
    BY <2>1, <2>4
  <2> QED
    BY <2>1, <2>3, <2>4, <2>5
<1>2. /\ here[t] = located[c] /\ located[c] # Nowhere
      /\ \A i \in 1..n + 1 : i \in 1..Len(order) /\ located[order[i]] # Nowhere
  <2>1. here[t] = located[c] /\ located[c] # Nowhere
    BY <1>0, <1>1 DEF Search
  <2>2. \A i \in 1..n : located[order[i]] # Nowhere
    BY <1>0, <1>1 DEF Search
  <2>3. located[order[n + 1]] # Nowhere
    BY <1>1
  <2>4. \A i \in 1..n + 1 : i \in 1..Len(order) /\ (i \in 1..n \/ i = n + 1)
    BY <1>1
  <2> QED
    BY <2>1, <2>2, <2>3, <2>4
<1>3. \A i \in 1..n + 1 : DistanceTo(c, i) \in Int
  BY <1>1, <1>2, DistanceType
<1>4. Distance(here[t], at) = DistanceTo(c, n + 1)
  BY <1>1, <1>2 DEF DistanceTo
<1>5. CASE n = 0
  <2>1. Nearer(t, at)
    BY <1>1, <1>5 DEF Search, Nearer
  <2>2. IsNearest(c, Host(t), Distance(here[t], at), n + 1)
    BY <1>1, <1>3, <1>4, <1>5 DEF IsNearest
  <2> QED
    BY <1>0, <1>1, <2>1, <2>2
<1>6. CASE n # 0
  <2>1. PICK i \in 1..n :
          /\ best[t] = order[i] /\ least[t] = DistanceTo(c, i)
          /\ \A j \in 1..n :
               /\ DistanceTo(c, i) <= DistanceTo(c, j)
               /\ j < i => DistanceTo(c, i) < DistanceTo(c, j)
    BY <1>0, <1>1, <1>6 DEF Search, IsNearest
  <2>2. best[t] # NoReplica /\ i \in 1..n + 1
    BY <1>1, <2>1, OrderFields, GeoAssumption DEF Types
  <2>3. Nearer(t, at) <=> DistanceTo(c, n + 1) < DistanceTo(c, i)
    BY <1>4, <2>1, <2>2 DEF Nearer
  <2>4. \A j \in 1..n + 1 : j \in 1..n \/ j = n + 1
    BY <1>1
  <2>5. CASE Nearer(t, at)
    <3>1. \A j \in 1..n + 1 :
            /\ DistanceTo(c, n + 1) <= DistanceTo(c, j)
            /\ j < n + 1 => DistanceTo(c, n + 1) < DistanceTo(c, j)
      <4>1. ASSUME NEW j \in 1..n
            PROVE  DistanceTo(c, n + 1) < DistanceTo(c, j)
        BY <1>1, <1>3, <2>1, <2>2, <2>3, <2>4, <2>5
      <4> QED
        BY <1>1, <1>3, <2>4, <4>1
    <3>2. IsNearest(c, Host(t), Distance(here[t], at), n + 1)
      BY <1>1, <1>4, <3>1 DEF IsNearest
    <3> QED
      BY <1>0, <1>1, <2>5, <3>2
  <2>6. CASE ~ Nearer(t, at)
    <3>1. \A j \in 1..n + 1 :
            /\ DistanceTo(c, i) <= DistanceTo(c, j)
            /\ j < i => DistanceTo(c, i) < DistanceTo(c, j)
      BY <1>1, <1>3, <2>1, <2>2, <2>3, <2>4, <2>6
    <3>2. IsNearest(c, best[t], least[t], n + 1)
      BY <1>1, <2>1, <2>2, <3>1 DEF IsNearest
    <3> QED
      BY <1>0, <1>1, <2>6, <3>2
  <2> QED
    BY <2>5, <2>6
<1> QED
  BY <1>5, <1>6

(* A thread does not disturb another. *)
LEMMA Others ==
  ASSUME Inv, UNCHANGED <<located, order>>, NEW u \in Threads,
         turn'[u] = turn[u], here'[u] = here[u], best'[u] = best[u],
         least'[u] = least[u], client'[u] = client[u]
  PROVE  Search(u)'
<1>1. Search(u) /\ Types
  BY DEF Inv
<1>2. ASSUME turn[u] > 2 PROVE IsNearest(client[u], best[u], least[u], turn[u] - 2) =>
                                 IsNearest(client[u], best[u], least[u], turn[u] - 2)'
  BY DEF IsNearest, DistanceTo
<1> QED
  BY <1>1, <1>2 DEF Search

LEMMA OthersRight ==
  ASSUME UNCHANGED <<located, order>>, NEW u \in Threads,
         client'[u] = client[u], answer'[u] = answer[u], Right(client[u], answer[u])
  PROVE  Right(client[u], answer[u])'
<1>1. PICK c, told : c = client[u] /\ told = answer[u]
  OBVIOUS
<1>2. ASSUME NEW d PROVE IsNearest(c, told, d, Len(order)) =>
                           IsNearest(client[u], answer[u], d, Len(order))'
  BY <1>1 DEF IsNearest, DistanceTo
<1>3. told \in Replicas =>
        \E d \in Int : IsNearest(client[u], answer[u], d, Len(order))'
  BY <1>1, <1>2 DEF Right
<1> QED
  BY <1>1, <1>3 DEF Right

-----------------------------------------------------------------------------
(* The steps *)

(* A thread goes on, with the location of the host it asked for. *)
LEMMA ContinueStep ==
  ASSUME Inv, NEW t \in Threads, turn[t] \in 1..Len(order) + 1,
         NEW at, at = located[Host(t)], at # Nowhere, Continue(t, at),
         Cached(cache'), reading' = reading \ {t}
  PROVE  Inv'
<1>1. /\ Types /\ Search(t) /\ \A u \in Threads : Right(client[u], answer[u])
      /\ Len(order) \in Nat
  BY OrderFields DEF Inv, Types
<1>2. /\ UNCHANGED <<located, order, client, answer>>
      /\ turn' = [turn EXCEPT ![t] = @ + 1] /\ turn'[t] = turn[t] + 1
      /\ turn[t] = 1 => here' = [here EXCEPT ![t] = at] /\ UNCHANGED <<best, least>>
      /\ turn[t] # 1 => /\ UNCHANGED here
                        /\ best' = [best EXCEPT ![t] = IF Nearer(t, at) THEN Host(t) ELSE @]
                        /\ least' = [least EXCEPT ![t] =
                             IF Nearer(t, at) THEN Distance(here[t], at) ELSE @]
  BY <1>1 DEF Continue, Source, Types
<1>3. at \in Location /\ Host(t) \in Hosts
  BY <1>1, HostType, NotNowhere
<1>4. turn[t] # 1 => Distance(here[t], at) \in Int
  <2> HAVE turn[t] # 1
  <2>1. here[t] \in Location
    BY <1>1, GeoAssumption DEF Search, Types
  <2>2. Distance(here[t], at) \in 0..2 * Radius * Radius * Radius * Radius
    BY <1>3, <2>1, DistanceBounds
  <2> QED
    BY <2>2, GeoAssumption
<1>5. Types'
  <2>1. turn' \in [Threads -> 0..Len(order) + 2]
    BY <1>1, <1>2 DEF Types
  <2>2. reading' \in SUBSET {u \in Threads : turn'[u] \in 1..Len(order) + 1}
    BY <1>1, <1>2 DEF Types
  <2>3. here' \in [Threads -> Location \cup {Nowhere}]
    BY <1>1, <1>2, <1>3 DEF Types
  <2>4. best' \in [Threads -> Replicas \cup {NoReplica}] /\ least' \in [Threads -> Int]
    <3>1. CASE turn[t] = 1
      BY <1>1, <1>2, <3>1 DEF Types
    <3>2. CASE turn[t] # 1
      <4>1. Host(t) \in Replicas
        BY <1>1, <3>2, HostType
      <4>2. PICK v, d : /\ v = IF Nearer(t, at) THEN Host(t) ELSE best[t]
                        /\ d = IF Nearer(t, at) THEN Distance(here[t], at) ELSE least[t]
        OBVIOUS
      <4>3. v \in Replicas \cup {NoReplica} /\ d \in Int
        BY <1>1, <1>4, <3>2, <4>1, <4>2 DEF Types
      <4>4. best' = [best EXCEPT ![t] = v] /\ least' = [least EXCEPT ![t] = d]
        BY <1>1, <1>2, <3>2, <4>2 DEF Types
      <4> QED
        BY <1>1, <4>3, <4>4 DEF Types
    <3> QED
      BY <3>1, <3>2
  <2> QED
    BY <1>1, <1>2, <2>1, <2>2, <2>3, <2>4 DEF Types
<1>6. Search(t)'
  <2>1. CASE turn[t] = 1
    <3>1. turn'[t] = 2 /\ here'[t] = at /\ best'[t] = NoReplica
      BY <1>1, <1>2, <2>1 DEF Types, Search
    <3>2. at = located'[client'[t]]
      BY <1>1, <1>2, <2>1, HostType
    <3> QED
      BY <3>1, <3>2 DEF Search
  <2>2. CASE turn[t] # 1
    <3>1. /\ here'[t] = located'[client'[t]] /\ here'[t] # Nowhere
          /\ turn[t] \in 2..Len(order) + 1 /\ turn'[t] > 2
      BY <1>1, <1>2, <2>2 DEF Search, Types
    <3>2. \A i \in 1..turn'[t] - 2 : located'[order'[i]] # Nowhere
      <4>1. \A i \in 1..turn'[t] - 2 : i \in 1..turn[t] - 2 \/ i = turn[t] - 1
        BY <1>1, <1>2, <3>1
      <4>2. Host(t) = order[turn[t] - 1]
        BY <1>1, <2>2, HostType
      <4> QED
        BY <1>1, <1>2, <3>1, <4>1, <4>2 DEF Search
    <3>3. IsNearest(client[t], best'[t], least'[t], turn[t] - 1)
      <4>1. /\ best'[t] = IF Nearer(t, at) THEN Host(t) ELSE best[t]
            /\ least'[t] = IF Nearer(t, at) THEN Distance(here[t], at) ELSE least[t]
        BY <1>1, <1>2, <2>2 DEF Types
      <4> QED
        BY <1>1, <3>1, <4>1, NearestGrows
    <3>4. IsNearest(client[t], best[t], least[t], turn[t] - 2)'
      <4>1. turn'[t] - 2 = turn[t] - 1
        BY <1>1, <1>2, <3>1
      <4> QED
        BY <1>2, <3>3, <4>1 DEF IsNearest, DistanceTo
    <3> QED
      BY <3>1, <3>2, <3>4 DEF Search
  <2> QED
    BY <2>1, <2>2
<1>7. ASSUME NEW u \in Threads, u # t PROVE Search(u)'
  <2>1. /\ turn'[u] = turn[u] /\ here'[u] = here[u] /\ best'[u] = best[u]
        /\ least'[u] = least[u] /\ client'[u] = client[u]
    BY <1>1, <1>2, <1>7 DEF Types
  <2> QED
    BY <1>2, <2>1, Others
<1>8. \A u \in Threads : Right(client[u], answer[u])'
  BY <1>1, <1>2, OthersRight
<1>9. Cached(cache)'
  BY <1>2 DEF Cached
<1> QED
  BY <1>5, <1>6, <1>7, <1>8, <1>9 DEF Inv

(* A thread ends, with a right answer. *)
LEMMA FinishStep ==
  ASSUME Inv, NEW t \in Threads, NEW told \in Replicas \cup {Raised}, Finish(t, told),
         Right(client[t], told), cache' = cache, reading' = reading \ {t}
  PROVE  Inv'
<1>1. Types /\ Cached(cache) /\ \A u \in Threads : Right(client[u], answer[u])
  BY DEF Inv
<1>2. /\ UNCHANGED <<located, order, client>>
      /\ answer' = [answer EXCEPT ![t] = told] /\ turn' = [turn EXCEPT ![t] = 0]
      /\ here' = [here EXCEPT ![t] = Nowhere] /\ best' = [best EXCEPT ![t] = NoReplica]
      /\ least' = [least EXCEPT ![t] = 0]
  BY DEF Finish
<1>3. Types'
  <2>1. Len(order) \in Nat
    BY <1>1, OrderFields DEF Types
  <2>2. reading' \in SUBSET {u \in Threads : turn'[u] \in 1..Len(order) + 1}
    BY <1>1, <1>2 DEF Types
  <2>3. turn' \in [Threads -> 0..Len(order) + 2]
    BY <1>1, <1>2, <2>1 DEF Types
  <2> QED
    BY <1>1, <1>2, <2>2, <2>3 DEF Types
<1>4. Search(t)'
  BY <1>1, <1>2 DEF Search, Types
<1>5. ASSUME NEW u \in Threads, u # t PROVE Search(u)'
  <2>1. /\ turn'[u] = turn[u] /\ here'[u] = here[u] /\ best'[u] = best[u]
        /\ least'[u] = least[u] /\ client'[u] = client[u]
    BY <1>1, <1>2, <1>5 DEF Types
  <2> QED
    BY <1>2, <2>1, Others
<1>6. ASSUME NEW u \in Threads PROVE Right(client[u], answer[u])'
  <2>1. answer'[u] = IF u = t THEN told ELSE answer[u]
    BY <1>1, <1>2 DEF Types
  <2>2. Right(client[u], answer'[u])
    BY <1>1, <2>1
  <2> QED
    BY <1>2, <2>2 DEF Right, IsNearest, DistanceTo
<1>7. Cached(cache)'
  BY <1>1, <1>2 DEF Cached
<1> QED
  BY <1>3, <1>4, <1>5, <1>6, <1>7 DEF Inv

(* The invariant holds at first. *)
LEMMA InitInv == Init => Inv
<1> SUFFICES ASSUME Init PROVE Inv
  OBVIOUS
<1>1. Types
  <2>1. located \in [Hosts -> Location \cup {Nowhere}]
    BY GeoAssumption DEF Init
  <2>2. Len(order) \in Nat
    BY OrderFields DEF Init
  <2> QED
    BY <2>1, <2>2 DEF Init, Types
<1>2. Cached(cache)
  <2>1. cache \in Seq(Entry) /\ Len(cache) = 0 /\ MaxSize \in Nat
    BY GeoAssumption DEF Init
  <2> QED
    BY <2>1 DEF Cached
<1> QED
  BY <1>1, <1>2, GeoAssumption DEF Init, Inv, Search, Right

(* No step breaks it. *)
LEMMA InvStep == Inv /\ [Next]_vars => Inv'
<1> SUFFICES ASSUME Inv, [Next]_vars PROVE Inv'
  OBVIOUS
<1>1. /\ Types /\ Cached(cache) /\ Len(order) \in Nat /\ Len(order) >= 1
      /\ \A u \in Threads : Search(u) /\ Right(client[u], answer[u])
  BY OrderFields DEF Inv, Types
<1>2. CASE UNCHANGED vars
  <2>1. Types' /\ Cached(cache)'
    BY <1>1, <1>2 DEF vars, Types, Cached
  <2>2. \A u \in Threads : Search(u)'
    BY <1>2, Others DEF vars
  <2>3. \A u \in Threads : Right(client[u], answer[u])'
    BY <1>1, <1>2, OthersRight DEF vars
  <2> QED
    BY <2>1, <2>2, <2>3 DEF Inv
<1>3. ASSUME NEW t \in Threads, NEW c \in Clients, Ask(t, c) PROVE Inv'
  <2>1. /\ turn[t] = 0 /\ client' = [client EXCEPT ![t] = c]
        /\ turn' = [turn EXCEPT ![t] = 1] /\ answer' = [answer EXCEPT ![t] = NoAnswer]
        /\ UNCHANGED <<located, order, cache, reading, here, best, least>>
    BY <1>3 DEF Ask
  <2>2. Types' /\ Cached(cache)'
    BY <1>1, <2>1 DEF Types, Cached
  <2>3. Search(t)'
    BY <1>1, <2>1 DEF Search, Types
  <2>4. ASSUME NEW u \in Threads, u # t PROVE Search(u)'
    <3>1. turn'[u] = turn[u] /\ client'[u] = client[u]
      BY <1>1, <2>1, <2>4 DEF Types
    <3> QED
      BY <2>1, <3>1, Others
  <2>5. ASSUME NEW u \in Threads PROVE Right(client[u], answer[u])'
    <3>1. CASE u = t
      BY <1>1, <2>1, <3>1, GeoAssumption DEF Types, Right
    <3>2. CASE u # t
      <4>1. client'[u] = client[u] /\ answer'[u] = answer[u]
        BY <1>1, <2>1, <3>2 DEF Types
      <4> QED
        BY <1>1, <2>1, <4>1, OthersRight
    <3> QED
      BY <3>1, <3>2
  <2> QED
    BY <2>2, <2>3, <2>4, <2>5 DEF Inv
<1>4. ASSUME NEW t \in Threads, Hit(t) PROVE Inv'
  <2>1. /\ turn[t] \in 1..Len(order) + 1 /\ t \notin reading /\ IsCached(Host(t))
        /\ cache' = Used(Host(t)) /\ Continue(t, CachedAt(Host(t))) /\ reading' = reading
    BY <1>4 DEF Hit, Locating
  <2>2. Host(t) \in Hosts
    BY <1>1, <2>1, HostType
  <2>3. CachedAt(Host(t)) = located[Host(t)] /\ CachedAt(Host(t)) # Nowhere
    BY <1>1, <2>1, CachedPlace, GeoAssumption
  <2>4. Cached(cache')
    BY <1>1, <2>1, <2>2, UsedCached
  <2>5. reading' = reading \ {t}
    BY <2>1
  <2>6. PICK at : at = CachedAt(Host(t))
    OBVIOUS
  <2> QED
    BY <2>1, <2>3, <2>4, <2>5, <2>6, ContinueStep
<1>5. ASSUME NEW t \in Threads, Miss(t) PROVE Inv'
  <2>1. /\ turn[t] \in 1..Len(order) + 1 /\ reading' = reading \cup {t}
        /\ UNCHANGED <<located, order, cache, client, turn, here, best, least, answer>>
    BY <1>5 DEF Miss, Locating
  <2>2. Types' /\ Cached(cache)'
    BY <1>1, <2>1 DEF Types, Cached
  <2>3. \A u \in Threads : Search(u)'
    BY <2>1, Others
  <2>4. \A u \in Threads : Right(client[u], answer[u])'
    BY <1>1, <2>1, OthersRight
  <2> QED
    BY <2>2, <2>3, <2>4 DEF Inv
<1>6. ASSUME NEW t \in Threads, Read(t) PROVE Inv'
  <2>1. /\ t \in reading /\ located[Host(t)] # Nowhere /\ cache' = Stored(Host(t))
        /\ reading' = reading \ {t} /\ Continue(t, located[Host(t)])
    BY <1>6 DEF Read
  <2>2. turn[t] \in 1..Len(order) + 1
    BY <1>1, <2>1 DEF Types
  <2>3. Host(t) \in Hosts
    BY <1>1, <2>2, HostType
  <2>4. Cached(cache')
    BY <1>1, <2>1, <2>3, NotNowhere, StoredCached
  <2>5. PICK at : at = located[Host(t)]
    OBVIOUS
  <2> QED
    BY <2>1, <2>2, <2>4, <2>5, ContinueStep
<1>7. ASSUME NEW t \in Threads, Fail(t) PROVE Inv'
  <2>1. /\ t \in reading /\ located[Host(t)] = Nowhere /\ Finish(t, Raised)
        /\ reading' = reading \ {t} /\ cache' = cache
    BY <1>7 DEF Fail
  <2>2. Host(t) \in Replicas \cup {client[t]}
    BY <1>1, <2>1, HostType DEF Types
  <2>3. Right(client[t], Raised)
    BY <2>1, <2>2, GeoAssumption DEF Right
  <2> QED
    BY <2>1, <2>3, FinishStep
<1>8. ASSUME NEW t \in Threads, Return(t) PROVE Inv'
  <2>1. /\ turn[t] = Len(order) + 2 /\ cache' = cache /\ reading' = reading
        /\ Finish(t, IF best[t] = NoReplica THEN Default ELSE best[t])
    BY <1>8 DEF Return
  <2>2. /\ turn[t] > 2 /\ turn[t] >= 2 /\ turn[t] - 2 = Len(order)
        /\ reading' = reading \ {t}
    BY <1>1, <2>1 DEF Types
  <2>3. /\ IsNearest(client[t], best[t], least[t], Len(order))
        /\ located[client[t]] # Nowhere
        /\ \A i \in 1..Len(order) : located[order[i]] # Nowhere
    <3>1. Search(t)
      BY <1>1
    <3>2. /\ IsNearest(client[t], best[t], least[t], turn[t] - 2)
          /\ located[client[t]] # Nowhere
          /\ \A i \in 1..turn[t] - 2 : located[order[i]] # Nowhere
      BY <2>2, <3>1 DEF Search
    <3> QED
      BY <2>2, <3>2
  <2>4. best[t] \in Replicas /\ best[t] # NoReplica /\ least[t] \in Int
    BY <1>1, <2>3, OrderFields, GeoAssumption DEF IsNearest, Types
  <2>5. \A h \in Replicas \cup {client[t]} : located[h] # Nowhere
    BY <1>1, <2>3, OrderFields DEF Types
  <2>6. Right(client[t], best[t])
    BY <2>3, <2>4, <2>5, GeoAssumption DEF Right
  <2>7. Finish(t, best[t])
    BY <2>1, <2>4
  <2> QED
    BY <2>1, <2>2, <2>4, <2>6, <2>7, FinishStep
<1> QED
  BY <1>2, <1>3, <1>4, <1>5, <1>6, <1>7, <1>8 DEF Next

(* The invariant holds always. *)
THEOREM Invariant == Spec => []Inv
BY InitInv, InvStep, PTL DEF Spec

(* The variables have their types; the cache holds no more than fits, and  *)
(* each of its hosts once, also when threads that did not find a host read *)
(* its location together (dnsserver.py:95).                                *)
THEOREM TypeCorrect == Spec => []TypeOK
<1>1. Inv => TypeOK
  <2> SUFFICES ASSUME Inv PROVE TypeOK
    OBVIOUS
  <2>1. cache \in Seq(Entry) /\ DOMAIN cache = 1..Len(cache)
    BY LenProperties DEF Inv, Cached
  <2> QED
    BY <2>1 DEF Inv, Types, Cached, TypeOK
<1> QED
  BY <1>1, Invariant, PTL

(* asin(sqrt(a)) is defined for every two locations, although the angles   *)
(* change roles before a is computed (dnsserver.py:86).                    *)
THEOREM AsinIsDefined == Spec => []DistanceDefined
<1>1. Inv => DistanceDefined
  <2> SUFFICES ASSUME Inv, NEW t \in Threads, turn[t] >= 2, NEW r \in Replicas,
                      located[r] # Nowhere
               PROVE  Distance(here[t], located[r])
                        \in 0..2 * Radius * Radius * Radius * Radius
    BY DEF DistanceDefined
  <2>1. here[t] \in Location /\ located[r] \in Location
    BY NotNowhere DEF Inv, Types, Search, Hosts
  <2> QED
    BY <2>1, DistanceBounds
<1> QED
  BY <1>1, Invariant, PTL

(* One replica the database cannot locate makes every query raise, whatever*)
(* the order of the replicas and whatever is cached.                       *)
THEOREM OneUnknownReplicaFailsAll == Spec => []AnswersNeedEveryLocation
<1>1. Inv => AnswersNeedEveryLocation
  BY DEF Inv, Right, AnswersNeedEveryLocation
<1> QED
  BY <1>1, Invariant, PTL

(* A client is told the first of the replicas with the least distance,     *)
(* whatever the cache holds and the other threads do to it meanwhile.      *)
THEOREM ChoiceIsNearest == Spec => []AnswersAreNearest
<1>1. Inv => AnswersAreNearest
  <2>1. Types => DOMAIN order = 1..Len(order)
    BY OrderFields DEF Types
  <2> QED
    BY <2>1 DEF Inv, Right, IsNearest, DistanceTo, AnswersAreNearest
<1> QED
  BY <1>1, Invariant, PTL
=============================================================================
