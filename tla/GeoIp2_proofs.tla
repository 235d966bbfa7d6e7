----------------------------- MODULE GeoIp2_proofs -----------------------------
(***************************************************************************)
(* Proofs about GeoIp2, for any number of callers, any databases whose     *)
(* networks are apart, and any answers of the service.                     *)
(***************************************************************************)
EXTENDS GeoIp2, SequenceTheorems, WellFoundedInduction, TLAPS

-----------------------------------------------------------------------------
(* The invariant *)

ReaderLabels == {"lookup", "address", "prefix", "model"}
ClientLabels == {"sent", "answered"}
ModelFields == {"kind", "class", "content", "ip_address", "prefix_len", "network"}

(* An address that can be looked up in the database *)
Searched(ip) == ip \in Addresses /\ ~ (Len(ip) = BitsV6 /\ db.ip_version = 4)

(* The walk along ip leaves the tree at step n. *)
LeavesAt(ip, n) ==
  /\ n \in 0..Len(Whole(ip)) /\ ~ Touched(First(Whole(ip), n))
  /\ \A m \in 0..n - 1 : Touched(First(Whole(ip), m))

VarsTyped ==
  /\ at \in [Callers -> {"idle"} \cup ReaderLabels \cup ClientLabels]
  /\ DOMAIN call = Callers /\ DOMAIN result = Callers
  /\ DOMAIN record = Callers /\ DOMAIN answer = Callers
  /\ db \in Files /\ closed \in BOOLEAN
  /\ client \in {"none", "Client", "AsyncClient"}
  /\ db = NoDatabase <=> client # "none"
  /\ arriving \in [Callers -> BOOLEAN]

(* A Client has one session, an AsyncClient opens one and may close it. *)
SessionsKept ==
  /\ client = "none" => sessions = <<>>
  /\ client = "Client" => sessions = <<"open">>
  /\ client = "AsyncClient" => sessions \in {<<>>, <<"open">>, <<"closed">>}

(* A call is one of the reader or of the client; it has no result before   *)
(* it has ended.                                                           *)
Called(t) ==
  /\ DOMAIN call[t] = {"method", "ip_address"}
  /\ call[t].method = "none" => at[t] = "idle" /\ result[t] = Pending
  /\ call[t].method # "none" =>
       IF client = "none"
         THEN /\ call[t].method \in DOMAIN Methods
              /\ call[t].ip_address \in Addresses \cup {Malformed}
         ELSE call[t].method \in DOMAIN Services
  /\ at[t] \in ReaderLabels => client = "none" /\ call[t].method # "none"
  /\ at[t] \in ClientLabels => client # "none" /\ call[t].method # "none"
  /\ at[t] # "idle" => result[t] = Pending
  /\ at[t] = "idle" /\ call[t].method # "none" => result[t].kind # "pending"

(* The record of a reader's call is that of a network around its address,  *)
(* with what _model_for has written into it so far.                        *)
Recorded(t) ==
  /\ DOMAIN record[t] = {"content", "extra"}
  /\ at[t] \in {"address", "prefix", "model"} =>
       /\ Searched(call[t].ip_address)
       /\ \E w \in Around(call[t].ip_address) : record[t].content = db.data[w]
  /\ at[t] = "address" => DOMAIN record[t].extra = {}
  /\ at[t] \in {"prefix", "model"} =>
       record[t].extra["ip_address"] = call[t].ip_address
  /\ at[t] = "prefix" => DOMAIN record[t].extra = {"ip_address"}
  /\ at[t] = "model" =>
       /\ DOMAIN record[t].extra = {"ip_address", "prefix_len"}
       /\ \E w \in Around(call[t].ip_address) :
            record[t].extra["prefix_len"] = Counted(call[t].ip_address, Len(w))

Heard(t) ==
  /\ at[t] = "sent" => answer[t] = NoAnswer
  /\ at[t] = "answered" => answer[t] \in Answers
  /\ answer[t] \in Answers \cup {NoAnswer}

(* What a model has when it is made, and the network it is asked for *)
Made(m) == Construct(m.class, Raw(m), Locales)
MadeNetwork(m) ==
  IF IsFlat(m.class) THEN SimpleNetwork(Made(m)) ELSE TraitsNetwork(Made(m).traits)

(* A model of a record, and one of an answer *)
ReadModel(t) ==
  LET m == result[t]
      ip == call[t].ip_address IN
  /\ call[t].method \in DOMAIN Methods /\ m.class = Methods[call[t].method].class
  /\ Searched(ip) /\ m.ip_address = ip
  /\ \E w \in Around(ip) : m.content = db.data[w]
  /\ \E w \in Around(ip) : m.prefix_len = Counted(ip, Len(w))

SentModel(t) ==
  LET m == result[t]
      a == answer[t] IN
  /\ a \in Answers /\ a.status = 200 /\ a.body.kind = "object"
  /\ call[t].method \in DOMAIN Services
  /\ m.class = Services[call[t].method]
  /\ m.content = a.body.content /\ m.content # None
  /\ m.ip_address = None /\ m.prefix_len = None

ModelHeld(t) ==
  /\ result[t].kind = "model" /\ DOMAIN result[t] = ModelFields
  /\ result[t].network \in {None, MadeNetwork(result[t])}
  /\ IF client = "none" THEN ReadModel(t) ELSE SentModel(t)

(* What a reader raises, and a client *)
ReadError(t) ==
  LET e == result[t]
      ip == call[t].ip_address IN
  \/ e.error \in {"TypeError", "ValueError"}
  \/ /\ Searched(ip) /\ Around(ip) = {}
     /\ \E n \in 0..Len(Whole(ip)) : LeavesAt(ip, n) /\ e = NotFound(ip, Counted(ip, n))

SentError(t) ==
  LET a == answer[t]
      e == result[t] IN
  /\ e.error \in Errors /\ Explains(e.error, t)
  /\ e.error = "RuntimeError" => sessions = <<"closed">>
  /\ e.error = "HTTPError" =>
       /\ e.http_status = a.status
       /\ ~ (/\ a.status \in 400..499 /\ a.type = "json"
             /\ a.body.kind = "object" /\ a.body.code # None)

ErrorHeld(t) ==
  /\ result[t].kind = "raised"
  /\ IF client = "none" THEN ReadError(t) ELSE SentError(t)

OutcomeHeld(t) == result[t] = Pending \/ ModelHeld(t) \/ ErrorHeld(t)

CallInv(t) == Called(t) /\ Recorded(t) /\ Heard(t) /\ OutcomeHeld(t)

IInv == VarsTyped /\ SessionsKept /\ \A t \in Callers : CallInv(t)

-----------------------------------------------------------------------------
(* What a caller has is its own *)

(* A session that is closed stays closed. *)
SessionsSettle == sessions = <<"closed">> => sessions' = sessions

(* The parts of CallInv depend on nothing that other callers change. *)
LEMMA CalledKept ==
  ASSUME NEW u \in Callers, Called(u), client' = client,
         at'[u] = at[u], call'[u] = call[u], result'[u] = result[u]
  PROVE  Called(u)'
BY DEF Called

LEMMA RecordedKept ==
  ASSUME NEW u \in Callers, Recorded(u), db' = db,
         at'[u] = at[u], call'[u] = call[u], record'[u] = record[u]
  PROVE  Recorded(u)'
BY DEF Recorded, Searched, Around, Networks, Whole, Skipped, Counted

LEMMA HeardKept ==
  ASSUME NEW u \in Callers, Heard(u), at'[u] = at[u], answer'[u] = answer[u]
  PROVE  Heard(u)'
BY DEF Heard

LEMMA ReadModelKept ==
  ASSUME NEW u \in Callers, ReadModel(u), db' = db,
         call'[u] = call[u], result'[u] = result[u]
  PROVE  ReadModel(u)'
BY DEF ReadModel, Searched, Around, Networks, Whole, Skipped, Counted

LEMMA SentModelKept ==
  ASSUME NEW u \in Callers, SentModel(u),
         call'[u] = call[u], result'[u] = result[u], answer'[u] = answer[u]
  PROVE  SentModel(u)'
BY DEF SentModel

LEMMA ReadErrorKept ==
  ASSUME NEW u \in Callers, ReadError(u), db' = db,
         call'[u] = call[u], result'[u] = result[u]
  PROVE  ReadError(u)'
BY DEF ReadError, LeavesAt, Touched, Searched, Around, Networks, Whole, Skipped, Counted

LEMMA SentErrorKept ==
  ASSUME NEW u \in Callers, SentError(u), client' = client, SessionsSettle,
         call'[u] = call[u], result'[u] = result[u], answer'[u] = answer[u]
  PROVE  SentError(u)'
<1>1. CASE result[u].error = "RuntimeError"
  <2>1. sessions = <<"closed">> /\ sessions' = sessions
    BY <1>1 DEF SentError, SessionsSettle
  <2> QED
    BY <2>1 DEF SentError, Explains, Current
<1>2. CASE result[u].error # "RuntimeError"
  BY <1>2 DEF SentError, Explains
<1> QED
  BY <1>1, <1>2

LEMMA OutcomeKept ==
  ASSUME NEW u \in Callers, OutcomeHeld(u), db' = db, client' = client, SessionsSettle,
         call'[u] = call[u], result'[u] = result[u], answer'[u] = answer[u]
  PROVE  OutcomeHeld(u)'
BY ReadModelKept, SentModelKept, ReadErrorKept, SentErrorKept
   DEF OutcomeHeld, ModelHeld, ErrorHeld

(* A step of one caller, or of the service for it *)
OneCaller(t) ==
  /\ at' \in [Callers -> {"idle"} \cup ReaderLabels \cup ClientLabels]
  /\ DOMAIN call' = Callers /\ DOMAIN result' = Callers
  /\ DOMAIN record' = Callers /\ DOMAIN answer' = Callers
  /\ arriving' \in [Callers -> BOOLEAN]
  /\ db' = db /\ client' = client /\ closed' = closed
  /\ \A u \in Callers \ {t} :
       /\ at'[u] = at[u] /\ call'[u] = call[u] /\ result'[u] = result[u]
       /\ record'[u] = record[u] /\ answer'[u] = answer[u]

LEMMA OthersKept ==
  ASSUME NEW u \in Callers, CallInv(u), db' = db, client' = client, SessionsSettle,
         at'[u] = at[u], call'[u] = call[u], result'[u] = result[u],
         record'[u] = record[u], answer'[u] = answer[u]
  PROVE  CallInv(u)'
BY CalledKept, RecordedKept, HeardKept, OutcomeKept DEF CallInv

LEMMA OneCallerKeeps ==
  ASSUME IInv, NEW t \in Callers, OneCaller(t), SessionsSettle, SessionsKept', CallInv(t)'
  PROVE  IInv'
<1>1. VarsTyped'
  BY DEF IInv, VarsTyped, OneCaller
<1>2. ASSUME NEW u \in Callers PROVE CallInv(u)'
  BY <1>2, OthersKept DEF IInv, OneCaller
<1> QED
  BY <1>1, <1>2 DEF IInv

-----------------------------------------------------------------------------
(* Paths and addresses *)

LEMMA LeastNumber ==
  ASSUME NEW S \in SUBSET Nat, S # {}
  PROVE  \E x \in S : \A y \in S : x <= y
<1> DEFINE R == OpToRel(<, Nat)
<1>1. IsWellFoundedOn(R, Nat)
  BY NatLessThanWellFounded
<1>2. \A y, x \in Nat : y < x => <<y, x>> \in R
  BY DEF OpToRel
<1> HIDE DEF R
<1>3. PICK x \in S : \A y \in S : ~ (<<y, x>> \in R)
  BY <1>1, WFMin, Zenon
<1>4. \A y \in S : ~ (y < x)
  BY <1>2, <1>3, Zenon
<1> QED
  BY <1>4

(* The path along which an address is looked up is as long as those of the *)
(* database may be.                                                        *)
LEMMA WholeIsPath ==
  ASSUME db \in Files \ {NoDatabase}, NEW ip, Searched(ip)
  PROVE  /\ ip \in Seq(Bit) /\ Len(ip) \in Nat /\ Skipped(ip) \in Nat
         /\ Whole(ip) \in Seq(Bit) /\ Len(Whole(ip)) = Skipped(ip) + Len(ip)
         /\ Len(Whole(ip)) = Bits(db.ip_version)
         /\ \A j \in 1..Skipped(ip) : Whole(ip)[j] = 0
         /\ \A j \in 1..Len(ip) : Whole(ip)[Skipped(ip) + j] = ip[j]
<1> DEFINE zeros == [b \in 1..Skipped(ip) |-> 0]
<1>1. ip \in Seq(Bit) /\ Len(ip) \in {BitsV4, BitsV6} /\ db.ip_version \in {4, 6}
  BY AddressesAssumption, DatabasesAssumption DEF Searched
<1>2. /\ Skipped(ip) \in Nat /\ Len(ip) \in Nat
      /\ Skipped(ip) + Len(ip) = Bits(db.ip_version)
  BY <1>1, BitsAssumption DEF Searched, Skipped, Bits
<1>3. zeros \in Seq(Bit) /\ Len(zeros) = Skipped(ip)
  BY <1>2 DEF Bit
<1>4. \A j \in 1..Skipped(ip) : zeros[j] = 0
  OBVIOUS
<1> HIDE DEF zeros
<1>5. Whole(ip) = zeros \o ip
  BY DEF Whole, zeros
<1>6. /\ Whole(ip) \in Seq(Bit) /\ Len(Whole(ip)) = Skipped(ip) + Len(ip)
      /\ \A j \in 1..Len(Whole(ip)) :
           Whole(ip)[j] = IF j <= Skipped(ip) THEN zeros[j] ELSE ip[j - Skipped(ip)]
  <2>1. /\ zeros \o ip \in Seq(Bit) /\ Len(zeros \o ip) = Len(zeros) + Len(ip)
        /\ \A j \in 1..Len(zeros) + Len(ip) :
             (zeros \o ip)[j] = IF j <= Len(zeros) THEN zeros[j] ELSE ip[j - Len(zeros)]
    BY <1>1, <1>3, ConcatProperties
  <2> QED
    BY <1>3, <1>5, <2>1
<1>7. \A j \in 1..Skipped(ip) : Whole(ip)[j] = 0
  BY <1>2, <1>4, <1>6
<1>8. ASSUME NEW j \in 1..Len(ip) PROVE Whole(ip)[Skipped(ip) + j] = ip[j]
  <2>1. PICK k : k = Skipped(ip) + j
    OBVIOUS
  <2>2. k \in 1..Len(Whole(ip)) /\ ~ (k <= Skipped(ip)) /\ k - Skipped(ip) = j
    BY <1>2, <1>6, <2>1
  <2>3. Whole(ip)[k] = ip[k - Skipped(ip)]
    BY <1>6, <2>2
  <2> QED
    BY <2>1, <2>2, <2>3
<1> QED
  BY <1>1, <1>2, <1>6, <1>7, <1>8

(* The first n bits of a path *)
LEMMA FirstIsPath ==
  ASSUME NEW p \in Seq(Bit), NEW n \in 0..Len(p)
  PROVE  /\ First(p, n) \in Seq(Bit) /\ Len(First(p, n)) = n
         /\ \A j \in 1..n : First(p, n)[j] = p[j]
<1>1. \A j \in 1..n : p[j] \in Bit
  BY LenProperties
<1> QED
  BY <1>1, SubSeqProperties, LenProperties DEF First

(* p is within n if n is not longer and has the same bits. *)
LEMMA WithinIsBits ==
  ASSUME NEW p \in Seq(Bit), NEW n \in Seq(Bit)
  PROVE  Within(p, n) <=> Len(n) <= Len(p) /\ \A j \in 1..Len(n) : n[j] = p[j]
<1>0. Len(n) \in Nat /\ Len(p) \in Nat
  BY LenProperties
<1>1. CASE Len(n) <= Len(p)
  <2>1. Len(n) \in 0..Len(p)
    BY <1>0, <1>1
  <2>2. /\ First(p, Len(n)) \in Seq(Bit) /\ Len(First(p, Len(n))) = Len(n)
        /\ \A j \in 1..Len(n) : First(p, Len(n))[j] = p[j]
    BY <2>1, FirstIsPath
  <2>3. n = First(p, Len(n)) <=> \A j \in 1..Len(n) : n[j] = First(p, Len(n))[j]
    BY <2>2, SeqEqual
  <2> QED
    BY <1>1, <2>2, <2>3 DEF Within
<1>2. CASE ~ (Len(n) <= Len(p))
  BY <1>2 DEF Within
<1> QED
  BY <1>1, <1>2

(* The networks around an address are paths, not longer than its own. *)
LEMMA AroundIsPath ==
  ASSUME db \in Files \ {NoDatabase}, NEW ip, Searched(ip), NEW w \in Around(ip)
  PROVE  /\ w \in Networks(db) /\ w \in Seq(Bit) /\ Len(w) \in 0..Len(Whole(ip))
         /\ db.data[w] \in DOMAIN Responses
         /\ \A j \in 1..Len(w) : w[j] = Whole(ip)[j]
<1>1. w \in Networks(db) /\ Within(Whole(ip), w)
  BY DEF Around
<1>2. w \in Seq(Bit) /\ db.data[w] \in DOMAIN Responses
  BY <1>1, DatabasesAssumption
<1>3. Whole(ip) \in Seq(Bit)
  BY WholeIsPath
<1>4. Len(w) <= Len(Whole(ip)) /\ \A j \in 1..Len(w) : w[j] = Whole(ip)[j]
  BY <1>1, <1>2, <1>3, WithinIsBits
<1> QED
  BY <1>1, <1>2, <1>3, <1>4, LenProperties

(* The prefix that is reported is a prefix of the address. *)
LEMMA CountedOfAddress ==
  ASSUME db \in Files \ {NoDatabase}, NEW ip, Searched(ip), NEW n \in 0..Len(Whole(ip))
  PROVE  Counted(ip, n) \in 0..Len(ip)
BY WholeIsPath DEF Counted

(* What is not in a network leaves the tree somewhere. *)
LEMMA LeavesTheTree ==
  ASSUME db \in Files \ {NoDatabase}, NEW ip, Searched(ip), Around(ip) = {}
  PROVE  \E n \in 0..Len(Whole(ip)) : LeavesAt(ip, n)
<1> DEFINE p == Whole(ip)
           S == {n \in 0..Len(p) : ~ Touched(First(p, n))}
<1>1. p \in Seq(Bit) /\ Len(p) \in Nat /\ Len(p) = Bits(db.ip_version)
  BY WholeIsPath, LenProperties
<1>2. First(p, Len(p)) = p
  BY <1>1, SubSeqFull DEF First
<1>3. ~ Touched(p)
  <2> SUFFICES ASSUME NEW w \in Networks(db), Within(w, p) \/ Within(p, w) PROVE FALSE
    BY DEF Touched
  <2>1. w \in Seq(Bit) /\ Len(w) <= Len(p) /\ Len(w) \in Nat
    BY <1>1, DatabasesAssumption, LenProperties
  <2>2. ~ Within(p, w)
    BY DEF Around
  <2>3. Within(w, p)
    BY <2>2
  <2>4. Len(p) = Len(w)
    BY <1>1, <2>1, <2>3 DEF Within
  <2>5. Within(p, w)
    BY <1>1, <2>1, <2>3, <2>4, WithinIsBits
  <2> QED
    BY <2>2, <2>5
<1>4. Len(p) \in S /\ S \subseteq 0..Len(p)
  BY <1>1, <1>2, <1>3
<1>5. S \in SUBSET Nat /\ S # {}
  BY <1>1, <1>4
<1>6. PICK n \in S : \A m \in S : n <= m
  <2> HIDE DEF S
  <2> QED
    BY <1>5, LeastNumber
<1>7. ASSUME NEW m \in 0..n - 1 PROVE Touched(First(p, m))
  <2>1. m \in 0..Len(p) /\ ~ (n <= m)
    BY <1>1, <1>6
  <2> QED
    BY <1>6, <2>1
<1> QED
  BY <1>6, <1>7 DEF LeavesAt

-----------------------------------------------------------------------------
(* The steps of a reader *)

LEMMA SameSessions ==
  ASSUME SessionsKept, client' = client, sessions' = sessions
  PROVE  SessionsSettle /\ SessionsKept'
BY DEF SessionsKept, SessionsSettle

LEMMA InitEstablishes == Init => IInv
<1> SUFFICES ASSUME Init PROVE IInv
  OBVIOUS
<1>1. VarsTyped
  BY DEF Init, CallsInit, ReaderInit, ClientInit, VarsTyped
<1>2. SessionsKept
  BY DEF Init, ClientInit, SessionsKept
<1>3. ASSUME NEW t \in Callers PROVE CallInv(t)
  <2>1. /\ at[t] = "idle" /\ call[t] = [method |-> "none", ip_address |-> Malformed]
        /\ result[t] = Pending /\ record[t] = NoRecord /\ answer[t] = NoAnswer
    BY DEF Init, CallsInit, ReaderInit, ClientInit
  <2> QED
    BY <2>1 DEF CallInv, Called, Recorded, Heard, OutcomeHeld, NoRecord,
                ReaderLabels, ClientLabels
<1> QED
  BY <1>1, <1>2, <1>3 DEF IInv

LEMMA CallKeeps ==
  ASSUME IInv, NEW t \in Callers, NEW m \in DOMAIN Methods,
         NEW ip \in Addresses \cup {Malformed}, Call(t, m, ip), UNCHANGED clientVars
  PROVE  IInv'
<1>0. VarsTyped /\ SessionsKept /\ CallInv(t)
  BY DEF IInv
<1>1. /\ at[t] = "idle" /\ client = "none" /\ m # "none"
      /\ call' = [call EXCEPT ![t] = [method |-> m, ip_address |-> ip]]
      /\ UNCHANGED <<db, closed, record, client, sessions, arriving, answer>>
  BY <1>0 DEF Call, Begin, VarsTyped, readerVars, clientVars, Methods
<1>2. \/ /\ at' = [at EXCEPT ![t] = "lookup"]
         /\ result' = [result EXCEPT ![t] = Pending]
      \/ /\ at' = [at EXCEPT ![t] = "idle"]
         /\ result' = [result EXCEPT ![t] = Raised("TypeError")]
  BY DEF Call, Proceed, End, Goto
<1>3. OneCaller(t)
  BY <1>0, <1>1, <1>2 DEF OneCaller, VarsTyped, ReaderLabels
<1>4. SessionsSettle /\ SessionsKept'
  BY <1>0, <1>1, SameSessions
<1>5. /\ call'[t] = [method |-> m, ip_address |-> ip] /\ record'[t] = record[t]
      /\ answer'[t] = answer[t] /\ client' = "none"
      /\ \/ at'[t] = "lookup" /\ result'[t] = Pending
         \/ at'[t] = "idle" /\ result'[t] = Raised("TypeError")
  BY <1>0, <1>1, <1>2 DEF VarsTyped
<1>6. Called(t)'
  BY <1>1, <1>5 DEF Called, ReaderLabels, ClientLabels, Raised
<1>7. Recorded(t)' /\ Heard(t)'
  BY <1>0, <1>5 DEF CallInv, Recorded, Heard
<1>8. OutcomeHeld(t)'
  BY <1>5 DEF OutcomeHeld, ErrorHeld, ReadError, Raised
<1> QED
  BY <1>3, <1>4, <1>6, <1>7, <1>8, OneCallerKeeps DEF CallInv

(* A lookup that cannot begin, that finds no network, that finds one *)
LEMMA LookupKeeps ==
  ASSUME IInv, NEW t \in Callers, Lookup(t), UNCHANGED clientVars
  PROVE  IInv'
<1>0. VarsTyped /\ SessionsKept /\ CallInv(t)
  BY DEF IInv
<1>1. PICK ip : ip = call[t].ip_address
  OBVIOUS
<1>2. /\ at[t] = "lookup" /\ client = "none" /\ call[t].method # "none"
      /\ db \in Files \ {NoDatabase} /\ ip \in Addresses \cup {Malformed}
      /\ UNCHANGED <<call, db, closed, client, sessions, arriving, answer>>
  BY <1>0, <1>1 DEF Lookup, CallInv, Called, VarsTyped, clientVars, ReaderLabels
<1>3. SessionsSettle /\ SessionsKept'
  BY <1>0, <1>2, SameSessions
<1>4. CASE ~ Searchable(ip) /\ End(t, Raised("ValueError")) /\ UNCHANGED record
  <2>1. OneCaller(t)
    BY <1>0, <1>2, <1>4 DEF OneCaller, VarsTyped, End, Goto
  <2>2. /\ at'[t] = "idle" /\ result'[t] = Raised("ValueError") /\ call'[t] = call[t]
        /\ record'[t] = record[t] /\ answer'[t] = answer[t] /\ client' = "none"
    BY <1>0, <1>2, <1>4 DEF VarsTyped, End, Goto
  <2>3. Called(t)'
    BY <1>0, <1>2, <2>2 DEF CallInv, Called, ReaderLabels, ClientLabels, Raised
  <2>4. Recorded(t)' /\ Heard(t)' /\ OutcomeHeld(t)'
    BY <1>0, <2>2 DEF CallInv, Recorded, Heard, OutcomeHeld, ErrorHeld, ReadError, Raised
  <2> QED
    BY <1>3, <2>1, <2>3, <2>4, OneCallerKeeps DEF CallInv
<1>5. Searchable(ip) => Searched(ip)
  BY <1>2, AddressesAssumption, DatabasesAssumption DEF Searchable, Searched
<1>6. CASE /\ Searchable(ip) /\ Around(ip) = {}
           /\ End(t, NotFound(ip, Counted(ip, Left(ip)))) /\ UNCHANGED record
  <2>1. OneCaller(t)
    BY <1>0, <1>2, <1>6 DEF OneCaller, VarsTyped, End, Goto
  <2>2. /\ at'[t] = "idle" /\ result'[t] = NotFound(ip, Counted(ip, Left(ip)))
        /\ call'[t] = call[t]
        /\ record'[t] = record[t] /\ answer'[t] = answer[t] /\ client' = "none"
    BY <1>0, <1>2, <1>6 DEF VarsTyped, End, Goto
  <2>3. Called(t)'
    BY <1>0, <1>2, <2>2 DEF CallInv, Called, ReaderLabels, ClientLabels, NotFound
  <2>4. Recorded(t)' /\ Heard(t)'
    BY <1>0, <2>2 DEF CallInv, Recorded, Heard
  <2>5. \E n \in 0..Len(Whole(ip)) : LeavesAt(ip, n)
    BY <1>2, <1>5, <1>6, LeavesTheTree
  <2>6. Left(ip) \in 0..Len(Whole(ip)) /\ LeavesAt(ip, Left(ip))
    BY <2>5 DEF LeavesAt, Left
  <2>7. OutcomeHeld(t)'
    <3>1. /\ Searched(ip)' /\ Around(ip)' = {}
          /\ (\E n \in 0..Len(Whole(ip)) : /\ LeavesAt(ip, n)
                                           /\ result[t] = NotFound(ip, Counted(ip, n)))'
      <4>1. \E n \in 0..Len(Whole(ip)) : /\ LeavesAt(ip, n)
                                         /\ result'[t] = NotFound(ip, Counted(ip, n))
        BY <2>2, <2>6
      <4> QED
        BY <1>2, <1>5, <1>6, <4>1
           DEF LeavesAt, Touched, Searched, Around, Networks, Whole, Skipped, Counted
    <3>2. call'[t].ip_address = ip
      BY <1>1, <2>2
    <3> QED
      BY <2>2, <3>1, <3>2 DEF OutcomeHeld, ErrorHeld, ReadError, NotFound
  <2> QED
    BY <1>3, <2>1, <2>3, <2>4, <2>7, OneCallerKeeps DEF CallInv
<1>7. CASE /\ Searchable(ip)
           /\ \E w \in Around(ip) :
                record' = [record EXCEPT ![t] = [content |-> db.data[w], extra |-> Empty]]
           /\ Proceed(t, "address")
  <2>1. PICK w \in Around(ip) :
          record' = [record EXCEPT ![t] = [content |-> db.data[w], extra |-> Empty]]
    BY <1>7
  <2>2. OneCaller(t)
    BY <1>0, <1>2, <1>7, <2>1 DEF OneCaller, VarsTyped, Proceed, Goto, ReaderLabels
  <2>3. /\ at'[t] = "address" /\ result'[t] = Pending /\ call'[t] = call[t]
        /\ record'[t] = [content |-> db.data[w], extra |-> Empty]
        /\ answer'[t] = answer[t] /\ client' = "none"
    BY <1>0, <1>2, <1>7, <2>1 DEF VarsTyped, Proceed, Goto
  <2>4. Called(t)'
    BY <1>0, <1>2, <2>3 DEF CallInv, Called, ReaderLabels, ClientLabels
  <2>5. Heard(t)' /\ OutcomeHeld(t)'
    BY <1>0, <2>3 DEF CallInv, Heard, OutcomeHeld
  <2>6. DOMAIN Empty = {}
    BY DEF Empty
  <2>7. Recorded(t)'
    <3>1. Searched(call'[t].ip_address) /\ w \in Around(call'[t].ip_address)
      BY <1>1, <1>5, <1>7, <2>1, <2>3
    <3> QED
      BY <1>2, <2>3, <2>6, <3>1
         DEF Recorded, Searched, Around, Networks, Whole, Skipped
  <2> QED
    BY <1>3, <2>2, <2>4, <2>5, <2>7, OneCallerKeeps DEF CallInv
<1> QED
  BY <1>1, <1>4, <1>6, <1>7 DEF Lookup, Fresh

(* What _model_for writes into the record of its own call *)
LEMMA AddWrites ==
  ASSUME NEW t \in Callers, NEW key, NEW value, DOMAIN record = Callers,
         DOMAIN record[t] = {"content", "extra"}, Add(t, key, value)
  PROVE  /\ DOMAIN record' = Callers
         /\ \A u \in Callers \ {t} : record'[u] = record[u]
         /\ DOMAIN record'[t] = {"content", "extra"}
         /\ record'[t].content = record[t].content
         /\ DOMAIN record'[t].extra = {key} \cup DOMAIN record[t].extra
         /\ record'[t].extra[key] = value
         /\ \A k \in DOMAIN record[t].extra \ {key} :
              record'[t].extra[k] = record[t].extra[k]
<1> DEFINE extra == [k \in {key} |-> value] @@ record[t].extra
<1>1. /\ DOMAIN extra = {key} \cup DOMAIN record[t].extra
      /\ extra[key] = value
      /\ \A k \in DOMAIN record[t].extra \ {key} : extra[k] = record[t].extra[k]
  BY DEF @@
<1>2. record' = [record EXCEPT ![t] = [record[t] EXCEPT !.extra = extra]]
  BY DEF Add, Fresh
<1> HIDE DEF extra
<1> QED
  BY <1>1, <1>2

LEMMA SetAddressKeeps ==
  ASSUME IInv, NEW t \in Callers, SetAddress(t), UNCHANGED clientVars
  PROVE  IInv'
<1>0. VarsTyped /\ SessionsKept /\ CallInv(t)
  BY DEF IInv
<1>1. /\ at[t] = "address" /\ at' = [at EXCEPT ![t] = "prefix"]
      /\ UNCHANGED <<call, result, db, closed, client, sessions, arriving, answer>>
  BY DEF SetAddress, Goto, clientVars
<1>2. /\ DOMAIN record' = Callers
      /\ \A u \in Callers \ {t} : record'[u] = record[u]
      /\ DOMAIN record'[t] = {"content", "extra"}
      /\ record'[t].content = record[t].content
      /\ DOMAIN record'[t].extra = {"ip_address"}
      /\ record'[t].extra["ip_address"] = call[t].ip_address
  <2>1. Add(t, "ip_address", call[t].ip_address)
    BY DEF SetAddress
  <2>2. /\ DOMAIN record = Callers /\ DOMAIN record[t] = {"content", "extra"}
        /\ DOMAIN record[t].extra = {}
    BY <1>0, <1>1 DEF VarsTyped, CallInv, Recorded
  <2> QED
    BY <2>1, <2>2, AddWrites
<1>3. OneCaller(t)
  BY <1>0, <1>1, <1>2 DEF OneCaller, VarsTyped, ReaderLabels
<1>4. SessionsSettle /\ SessionsKept'
  BY <1>0, <1>1, SameSessions
<1>5. at'[t] = "prefix"
  BY <1>0, <1>1 DEF VarsTyped
<1>6. Called(t)' /\ Heard(t)'
  BY <1>0, <1>1, <1>5 DEF CallInv, Called, Heard, ReaderLabels, ClientLabels
<1>7. OutcomeHeld(t)'
  BY <1>0, <1>1, OutcomeKept, <1>4 DEF CallInv
<1>8. Recorded(t)'
  BY <1>0, <1>1, <1>2, <1>5
     DEF CallInv, Recorded, Searched, Around, Networks, Whole, Skipped
<1> QED
  BY <1>3, <1>4, <1>6, <1>7, <1>8, OneCallerKeeps DEF CallInv

LEMMA SetPrefixKeeps ==
  ASSUME IInv, NEW t \in Callers, SetPrefix(t), UNCHANGED clientVars
  PROVE  IInv'
<1>0. VarsTyped /\ SessionsKept /\ CallInv(t)
  BY DEF IInv
<1>1. /\ at[t] = "prefix" /\ at' = [at EXCEPT ![t] = "model"]
      /\ UNCHANGED <<call, result, db, closed, client, sessions, arriving, answer>>
  BY DEF SetPrefix, Goto, clientVars
<1>2. PICK w \in Around(call[t].ip_address) :
        Add(t, "prefix_len", Counted(call[t].ip_address, Len(w)))
  BY DEF SetPrefix
<1>3. PICK n : n = Counted(call[t].ip_address, Len(w))
  OBVIOUS
<1>4. /\ DOMAIN record' = Callers
      /\ \A u \in Callers \ {t} : record'[u] = record[u]
      /\ DOMAIN record'[t] = {"content", "extra"}
      /\ record'[t].content = record[t].content
      /\ DOMAIN record'[t].extra = {"ip_address", "prefix_len"}
      /\ record'[t].extra["ip_address"] = call[t].ip_address
      /\ record'[t].extra["prefix_len"] = n
  <2>1. Add(t, "prefix_len", n)
    BY <1>2, <1>3
  <2>2. /\ DOMAIN record = Callers /\ DOMAIN record[t] = {"content", "extra"}
        /\ DOMAIN record[t].extra = {"ip_address"}
        /\ record[t].extra["ip_address"] = call[t].ip_address
    BY <1>0, <1>1 DEF VarsTyped, CallInv, Recorded
  <2> QED
    BY <2>1, <2>2, AddWrites
<1>5. OneCaller(t)
  BY <1>0, <1>1, <1>4 DEF OneCaller, VarsTyped, ReaderLabels
<1>6. SessionsSettle /\ SessionsKept'
  BY <1>0, <1>1, SameSessions
<1>7. at'[t] = "model"
  BY <1>0, <1>1 DEF VarsTyped
<1>8. Called(t)' /\ Heard(t)'
  BY <1>0, <1>1, <1>7 DEF CallInv, Called, Heard, ReaderLabels, ClientLabels
<1>9. OutcomeHeld(t)'
  BY <1>0, <1>1, OutcomeKept, <1>6 DEF CallInv
<1>10. Recorded(t)'
  BY <1>0, <1>1, <1>2, <1>3, <1>4, <1>7
     DEF CallInv, Recorded, Searched, Around, Networks, Whole, Skipped, Counted
<1> QED
  BY <1>5, <1>6, <1>8, <1>9, <1>10, OneCallerKeeps DEF CallInv

LEMMA MakeModelKeeps ==
  ASSUME IInv, NEW t \in Callers, MakeModel(t), UNCHANGED clientVars
  PROVE  IInv'
<1>0. VarsTyped /\ SessionsKept /\ CallInv(t)
  BY DEF IInv
<1> DEFINE m == Returned(Methods[call[t].method].class, record[t].content,
                         record[t].extra["ip_address"], record[t].extra["prefix_len"])
<1>1. /\ at[t] = "model" /\ at' = [at EXCEPT ![t] = "idle"]
      /\ record' = [record EXCEPT ![t] = NoRecord]
      /\ UNCHANGED <<call, db, closed, client, sessions, arriving, answer>>
  BY DEF MakeModel, End, Goto, clientVars, Fresh
<1>2. /\ client = "none" /\ call[t].method \in DOMAIN Methods
      /\ Searched(call[t].ip_address)
      /\ \E w \in Around(call[t].ip_address) : record[t].content = db.data[w]
      /\ record[t].extra["ip_address"] = call[t].ip_address
      /\ DOMAIN record[t].extra = {"ip_address", "prefix_len"}
      /\ \E w \in Around(call[t].ip_address) :
           record[t].extra["prefix_len"] = Counted(call[t].ip_address, Len(w))
  BY <1>0, <1>1 DEF CallInv, Called, Recorded, ReaderLabels
<1>3. result' = [result EXCEPT ![t] = m]
  BY <1>2 DEF MakeModel, End, Get, Fresh
<1>4. /\ m.class = Methods[call[t].method].class /\ m.content = record[t].content
      /\ m.ip_address = call[t].ip_address
      /\ m.prefix_len = record[t].extra["prefix_len"]
      /\ m.network = None /\ m.kind = "model" /\ DOMAIN m = ModelFields
  BY <1>2 DEF Returned, ModelFields
<1>5. PICK r : r = m
  OBVIOUS
<1> HIDE DEF m
<1>6. OneCaller(t)
  BY <1>0, <1>1, <1>3 DEF OneCaller, VarsTyped
<1>7. SessionsSettle /\ SessionsKept'
  BY <1>0, <1>1, SameSessions
<1>8. at'[t] = "idle" /\ result'[t] = r /\ record'[t] = NoRecord
  BY <1>0, <1>1, <1>3, <1>5 DEF VarsTyped
<1>9. Called(t)'
  BY <1>0, <1>1, <1>2, <1>4, <1>5, <1>8 DEF CallInv, Called, ReaderLabels, ClientLabels
<1>10. Recorded(t)' /\ Heard(t)'
  BY <1>0, <1>1, <1>8 DEF CallInv, Recorded, Heard, NoRecord
<1>11. ReadModel(t)'
  BY <1>1, <1>2, <1>4, <1>5, <1>8
     DEF ReadModel, Searched, Around, Networks, Whole, Skipped, Counted
<1>12. OutcomeHeld(t)'
  BY <1>1, <1>2, <1>4, <1>5, <1>8, <1>11 DEF OutcomeHeld, ModelHeld
<1> QED
  BY <1>6, <1>7, <1>9, <1>10, <1>12, OneCallerKeeps DEF CallInv

LEMMA CloseKeeps ==
  ASSUME IInv, Close, UNCHANGED clientVars
  PROVE  IInv'
<1>1. UNCHANGED <<at, call, result, db, record, client, sessions, arriving, answer>>
      /\ closed' = TRUE
  BY DEF Close, callVars, clientVars
<1>2. VarsTyped'
  BY <1>1 DEF IInv, VarsTyped
<1>3. SessionsSettle /\ SessionsKept'
  BY <1>1, SameSessions DEF IInv
<1>4. ASSUME NEW u \in Callers PROVE CallInv(u)'
  BY <1>1, <1>3, OthersKept DEF IInv
<1> QED
  BY <1>2, <1>3, <1>4 DEF IInv

-----------------------------------------------------------------------------
(* The steps of a client *)

(* The error that an answer other than 200 makes is the one it calls for. *)
LEMMA ErrorForAnswer ==
  ASSUME NEW t, answer[t] \in Answers, answer[t].status # 200,
         NEW e, e = ErrorFor(answer[t])
  PROVE  /\ e.kind = "raised" /\ e.error \in Errors /\ e.error # "RuntimeError"
         /\ Explains(e.error, t)
         /\ e.error = "HTTPError" =>
              /\ e.http_status = answer[t].status
              /\ ~ (/\ answer[t].status \in 400..499 /\ answer[t].type = "json"
                    /\ answer[t].body.kind = "object" /\ answer[t].body.code # None)
<1>1. PICK a : a = answer[t]
  OBVIOUS
<1>2. a.status \in Nat /\ a # NoAnswer
  BY <1>1, AnswersAssumption DEF NoAnswer
<1>3. ASSUME e = HttpError(a.status),
             ~ (/\ a.status \in 400..499 /\ a.type = "json"
                /\ a.body.kind = "object" /\ a.body.code # None)
      PROVE  /\ e.kind = "raised" /\ e.error = "HTTPError" /\ Explains(e.error, t)
             /\ e.http_status = a.status
  BY <1>1, <1>2, <1>3 DEF HttpError, Explains
<1>4. CASE ~ (400 <= a.status /\ a.status < 500)
  <2>1. e = HttpError(a.status) /\ a.status \notin 400..499
    BY <1>1, <1>2, <1>4 DEF ErrorFor
  <2> QED
    BY <1>1, <1>3, <2>1 DEF Errors
<1>5. CASE 400 <= a.status /\ a.status < 500
  <2>1. e = ClientError(a) /\ a.status \in 400..499
    BY <1>1, <1>2, <1>5 DEF ErrorFor
  <2>2. CASE a.body.kind = "empty" \/ a.type # "json" \/ ~ IsJson(a.body)
    <3>1. e = HttpError(a.status) /\ ~ (a.type = "json" /\ a.body.kind = "object")
      BY <2>1, <2>2 DEF ClientError, IsJson
    <3> QED
      BY <1>1, <1>3, <3>1 DEF Errors
  <2>3. CASE a.body.kind \in {"number", "null"} /\ IsJson(a.body) /\ a.type = "json"
    <3>1. e = Raised("TypeError")
      BY <2>1, <2>3 DEF ClientError
    <3> QED
      BY <1>1, <1>2, <2>3, <3>1 DEF Raised, Explains, Errors
  <2>4. CASE /\ a.body.kind \in {"object", "text", "list"} /\ IsJson(a.body)
             /\ a.type = "json" /\ a.body.code = None
    <3>1. e = HttpError(a.status)
      BY <2>1, <2>4 DEF ClientError
    <3> QED
      BY <1>1, <1>3, <2>4, <3>1 DEF Errors
  <2>5. CASE /\ a.body.kind \in {"text", "list"} /\ IsJson(a.body)
             /\ a.type = "json" /\ a.body.code # None
    <3>1. e = Raised("AttributeError")
      BY <2>1, <2>5 DEF ClientError
    <3> QED
      BY <1>1, <1>2, <2>5, <3>1 DEF Raised, Explains, Errors
  <2>6. CASE a.body.kind = "object" /\ a.type = "json" /\ a.body.code # None
    <3>1. e = ServiceError(a.body.code)
      BY <2>1, <2>6 DEF ClientError, IsJson
    <3>2. CASE a.body.code \in AddressCodes
      <4>1. e = NotFound(None, None)
        BY <3>1, <3>2 DEF ServiceError
      <4> QED
        BY <1>1, <1>2, <2>1, <2>6, <3>2, <4>1 DEF NotFound, Explains, Errors
    <3>3. CASE a.body.code \in AuthenticationCodes
      <4>1. e = Raised("AuthenticationError")
        BY <3>1, <3>3 DEF ServiceError, AddressCodes, AuthenticationCodes
      <4> QED
        BY <1>1, <1>2, <2>1, <2>6, <3>3, <4>1 DEF Raised, Explains, Errors
    <3>4. CASE a.body.code \in QueriesCodes
      <4>1. e = Raised("OutOfQueriesError")
        BY <3>1, <3>4 DEF ServiceError, AddressCodes, AuthenticationCodes, QueriesCodes
      <4> QED
        BY <1>1, <1>2, <2>1, <2>6, <3>4, <4>1 DEF Raised, Explains, Errors
    <3>5. CASE a.body.code = "PERMISSION_REQUIRED"
      <4>1. e = Raised("PermissionRequiredError")
        BY <3>1, <3>5 DEF ServiceError, AddressCodes, AuthenticationCodes, QueriesCodes
      <4> QED
        BY <1>1, <1>2, <2>1, <2>6, <3>5, <4>1 DEF Raised, Explains, Errors
    <3>6. CASE /\ a.body.code \notin AddressCodes \cup AuthenticationCodes \cup QueriesCodes
               /\ a.body.code # "PERMISSION_REQUIRED"
      <4>1. e = Raised("InvalidRequestError")
        BY <3>1, <3>6 DEF ServiceError
      <4> QED
        BY <1>1, <1>2, <2>1, <2>6, <4>1 DEF Raised, Explains, Errors
    <3> QED
      BY <3>2, <3>3, <3>4, <3>5, <3>6
  <2> QED
    BY <2>2, <2>3, <2>4, <2>5, <2>6 DEF IsJson
<1> QED
  BY <1>4, <1>5

LEMMA RequestKeeps ==
  ASSUME IInv, NEW t \in Callers, NEW m \in DOMAIN Services, NEW ip,
         Request(t, m, ip), UNCHANGED readerVars
  PROVE  IInv'
<1>0. VarsTyped /\ SessionsKept /\ CallInv(t)
  BY DEF IInv
<1>1. /\ at[t] = "idle" /\ client \in {"Client", "AsyncClient"} /\ m # "none"
      /\ call' = [call EXCEPT ![t] = [method |-> m, ip_address |-> ip]]
      /\ answer' = [answer EXCEPT ![t] = NoAnswer]
      /\ UNCHANGED <<db, closed, record, client, arriving>>
  BY <1>0 DEF Request, Begin, VarsTyped, readerVars, Services
<1>2. ASSUME NEW l \in {"idle", "sent"}, NEW r, SessionsSettle, SessionsKept',
             at' = [at EXCEPT ![t] = l], result' = [result EXCEPT ![t] = r],
             \/ l = "sent" /\ r = Pending
             \/ l = "idle" /\ r = Raised("ValueError") /\ ip = Malformed
             \/ /\ l = "idle" /\ r = Raised("RuntimeError")
                /\ sessions' = <<"closed">> /\ client = "AsyncClient"
      PROVE  IInv'
  <2>1. OneCaller(t)
    BY <1>0, <1>1, <1>2 DEF OneCaller, VarsTyped, ClientLabels
  <2>2. /\ at'[t] = l /\ result'[t] = r /\ record'[t] = record[t]
        /\ call'[t] = [method |-> m, ip_address |-> ip] /\ answer'[t] = NoAnswer
        /\ client' # "none"
    BY <1>0, <1>1, <1>2 DEF VarsTyped
  <2>3. Called(t)'
    BY <1>1, <1>2, <2>2 DEF Called, ReaderLabels, ClientLabels, Raised, Pending
  <2>4. Recorded(t)' /\ Heard(t)'
    BY <1>0, <1>2, <2>2 DEF CallInv, Recorded, Heard
  <2>5. OutcomeHeld(t)'
    <3>1. CASE r = Pending
      BY <2>2, <3>1 DEF OutcomeHeld
    <3>2. CASE r = Raised("ValueError") /\ ip = Malformed
      <4>1. SentError(t)'
        BY <2>2, <3>2 DEF SentError, Raised, Errors, Explains
      <4> QED
        BY <2>2, <3>2, <4>1 DEF OutcomeHeld, ErrorHeld, Raised
    <3>3. CASE /\ r = Raised("RuntimeError") /\ sessions' = <<"closed">>
               /\ client = "AsyncClient"
      <4>1. Len(sessions') = 1 /\ sessions'[1] = "closed"
        BY <3>3
      <4>2. SentError(t)'
        BY <1>1, <2>2, <3>3, <4>1 DEF SentError, Raised, Errors, Explains, Current
      <4> QED
        BY <2>2, <3>3, <4>2 DEF OutcomeHeld, ErrorHeld, Raised
    <3> QED
      BY <1>2, <3>1, <3>2, <3>3
  <2> QED
    BY <1>2, <2>1, <2>3, <2>4, <2>5, OneCallerKeeps DEF CallInv
<1>3. CASE ip = Malformed /\ End(t, Raised("ValueError")) /\ UNCHANGED sessions
  <2>1. SessionsSettle /\ SessionsKept'
    BY <1>0, <1>1, <1>3, SameSessions
  <2> QED
    BY <1>2, <1>3, <2>1 DEF End, Goto
<1>4. CASE /\ ip # Malformed /\ client = "AsyncClient" /\ GetSession
           /\ IF Current' = "open" THEN Proceed(t, "sent")
                                   ELSE End(t, Raised("RuntimeError"))
  <2>1. sessions' \in {<<"open">>, <<"closed">>} /\ SessionsSettle /\ SessionsKept'
    BY <1>0, <1>1, <1>4 DEF SessionsKept, SessionsSettle, GetSession
  <2>2. CASE Proceed(t, "sent")
    BY <1>2, <2>1, <2>2 DEF Proceed, Goto
  <2>3. CASE Current' # "open" /\ End(t, Raised("RuntimeError"))
    <3>1. ASSUME sessions' = <<"open">> PROVE FALSE
      <4>1. Len(sessions') = 1 /\ sessions'[1] = "open"
        BY <3>1
      <4> QED
        BY <2>3, <4>1 DEF Current
    <3>2. sessions' = <<"closed">>
      BY <2>1, <3>1
    <3> QED
      BY <1>2, <1>4, <2>1, <2>3, <3>2 DEF End, Goto
  <2> QED
    BY <1>4, <2>2, <2>3
<1>5. CASE ip # Malformed /\ client = "Client" /\ Proceed(t, "sent") /\ UNCHANGED sessions
  <2>1. SessionsSettle /\ SessionsKept'
    BY <1>0, <1>1, <1>5, SameSessions
  <2> QED
    BY <1>2, <1>5, <2>1 DEF Proceed, Goto
<1> QED
  BY <1>3, <1>4, <1>5 DEF Request

LEMMA PieceKeeps ==
  ASSUME IInv, NEW t \in Callers, Piece(t), UNCHANGED readerVars
  PROVE  IInv'
<1>0. VarsTyped /\ SessionsKept /\ CallInv(t)
  BY DEF IInv
<1>1. /\ UNCHANGED <<at, call, result, db, closed, record, client, sessions, answer>>
      /\ arriving' \in [Callers -> BOOLEAN]
  BY <1>0 DEF Piece, callVars, readerVars, VarsTyped
<1>2. OneCaller(t)
  BY <1>0, <1>1 DEF OneCaller, VarsTyped
<1>3. SessionsSettle /\ SessionsKept'
  BY <1>0, <1>1, SameSessions
<1>4. CallInv(t)'
  BY <1>0, <1>1, <1>3, OthersKept
<1> QED
  BY <1>2, <1>3, <1>4, OneCallerKeeps

LEMMA AnswerKeeps ==
  ASSUME IInv, NEW t \in Callers, NEW a \in Answers, Answer(t, a), UNCHANGED readerVars
  PROVE  IInv'
<1>0. VarsTyped /\ SessionsKept /\ CallInv(t)
  BY DEF IInv
<1>1. /\ at[t] = "sent" /\ at' = [at EXCEPT ![t] = "answered"]
      /\ answer' = [answer EXCEPT ![t] = a]
      /\ UNCHANGED <<call, result, db, closed, record, client, sessions>>
      /\ arriving' \in [Callers -> BOOLEAN]
  BY <1>0 DEF Answer, Goto, readerVars, VarsTyped
<1>2. OneCaller(t)
  BY <1>0, <1>1 DEF OneCaller, VarsTyped, ClientLabels
<1>3. SessionsSettle /\ SessionsKept'
  BY <1>0, <1>1, SameSessions
<1>4. /\ at'[t] = "answered" /\ answer'[t] = a /\ call'[t] = call[t]
      /\ result'[t] = Pending /\ record'[t] = record[t]
  BY <1>0, <1>1 DEF VarsTyped, CallInv, Called
<1>5. Called(t)' /\ Recorded(t)' /\ Heard(t)' /\ OutcomeHeld(t)'
  BY <1>0, <1>1, <1>4
     DEF CallInv, Called, Recorded, Heard, OutcomeHeld, ReaderLabels, ClientLabels
<1> QED
  BY <1>2, <1>3, <1>5, OneCallerKeeps DEF CallInv

LEMMA BreakKeeps ==
  ASSUME IInv, NEW t \in Callers, NEW error \in {"Timeout", "ConnectionError"},
         Break(t, error), UNCHANGED readerVars
  PROVE  IInv'
<1>0. VarsTyped /\ SessionsKept /\ CallInv(t)
  BY DEF IInv
<1>1. /\ at[t] = "sent" /\ at' = [at EXCEPT ![t] = "idle"]
      /\ result' = [result EXCEPT ![t] = Raised(error)]
      /\ UNCHANGED <<call, db, closed, record, client, sessions, answer>>
      /\ arriving' \in [Callers -> BOOLEAN]
  BY <1>0 DEF Break, End, Goto, readerVars, VarsTyped
<1>2. OneCaller(t)
  BY <1>0, <1>1 DEF OneCaller, VarsTyped
<1>3. SessionsSettle /\ SessionsKept'
  BY <1>0, <1>1, SameSessions
<1>4. /\ at'[t] = "idle" /\ answer'[t] = NoAnswer /\ call'[t] = call[t]
      /\ result'[t] = Raised(error) /\ record'[t] = record[t]
      /\ client' # "none" /\ call[t].method # "none"
  BY <1>0, <1>1 DEF VarsTyped, CallInv, Called, Heard, ClientLabels
<1>5. Called(t)' /\ Recorded(t)' /\ Heard(t)'
  BY <1>0, <1>1, <1>4
     DEF CallInv, Called, Recorded, Heard, ReaderLabels, ClientLabels, Raised
<1>6. SentError(t)'
  BY <1>4 DEF SentError, Raised, Errors, Explains
<1>7. OutcomeHeld(t)'
  BY <1>4, <1>6 DEF OutcomeHeld, ErrorHeld, Raised
<1> QED
  BY <1>2, <1>3, <1>5, <1>7, OneCallerKeeps DEF CallInv

LEMMA ReadKeeps ==
  ASSUME IInv, NEW t \in Callers, Read(t), UNCHANGED readerVars
  PROVE  IInv'
<1>0. VarsTyped /\ SessionsKept /\ CallInv(t)
  BY DEF IInv
<1>1. PICK a : a = answer[t]
  OBVIOUS
<1>2. PICK r : r = (IF client = "Client" /\ a.type = "missing" THEN Raised("KeyError")
                    ELSE IF a.status # 200 THEN ErrorFor(a)
                    ELSE Success(Services[call[t].method], a.body))
  OBVIOUS
<1>3. /\ at[t] = "answered" /\ at' = [at EXCEPT ![t] = "idle"]
      /\ result' = [result EXCEPT ![t] = r]
      /\ UNCHANGED <<call, db, closed, record, client, sessions, arriving, answer>>
  BY <1>1, <1>2 DEF Read, End, Goto, readerVars, clientVars
<1>4. OneCaller(t)
  BY <1>0, <1>3 DEF OneCaller, VarsTyped
<1>5. SessionsSettle /\ SessionsKept'
  BY <1>0, <1>3, SameSessions
<1>6. /\ at'[t] = "idle" /\ answer'[t] = a /\ a \in Answers /\ call'[t] = call[t]
      /\ result'[t] = r /\ record'[t] = record[t]
      /\ client' # "none" /\ call[t].method \in DOMAIN Services
  BY <1>0, <1>1, <1>3 DEF VarsTyped, CallInv, Called, Heard, ClientLabels
<1>7. r.kind # "pending" => Called(t)' /\ Recorded(t)' /\ Heard(t)'
  BY <1>0, <1>3, <1>6
     DEF CallInv, Called, Recorded, Heard, ReaderLabels, ClientLabels
<1>8. a.status \in Nat /\ a # NoAnswer
  BY <1>6, AnswersAssumption DEF NoAnswer
<1>9. CASE client = "Client" /\ a.type = "missing"
  <2>1. r = Raised("KeyError")
    BY <1>2, <1>9
  <2>2. SentError(t)'
    BY <1>3, <1>6, <1>9, <2>1 DEF SentError, Raised, Errors, Explains
  <2> QED
    BY <1>4, <1>5, <1>6, <1>7, <2>1, <2>2, OneCallerKeeps
       DEF CallInv, OutcomeHeld, ErrorHeld, Raised
<1>10. CASE ~ (client = "Client" /\ a.type = "missing") /\ a.status # 200
  <2>1. r = ErrorFor(answer[t])
    BY <1>1, <1>2, <1>10
  <2>2. /\ r.kind = "raised" /\ r.error \in Errors /\ r.error # "RuntimeError"
        /\ Explains(r.error, t)
        /\ r.error = "HTTPError" =>
              /\ r.http_status = a.status
              /\ ~ (/\ a.status \in 400..499 /\ a.type = "json"
                    /\ a.body.kind = "object" /\ a.body.code # None)
    <3>1. a = answer[t] /\ answer[t] \in Answers /\ answer[t].status # 200
      BY <1>1, <1>6, <1>10
    <3> QED
      BY ONLY <2>1, <3>1, ErrorForAnswer
  <2>3. Explains(r.error, t)'
    BY <1>3, <2>2 DEF Explains, Current
  <2>4. SentError(t)'
    BY <1>6, <2>2, <2>3 DEF SentError
  <2> QED
    BY <1>4, <1>5, <1>6, <1>7, <2>2, <2>4, OneCallerKeeps
       DEF CallInv, OutcomeHeld, ErrorHeld
<1>11. CASE ~ (client = "Client" /\ a.type = "missing") /\ a.status = 200
  <2>1. r = Success(Services[call[t].method], a.body)
    BY <1>2, <1>11
  <2>2. CASE ~ IsJson(a.body)
    <3>1. r = Raised("GeoIP2Error")
      BY <2>1, <2>2 DEF Success
    <3>2. SentError(t)'
      BY <1>6, <1>11, <2>2, <3>1 DEF SentError, Raised, Errors, Explains
    <3> QED
      BY <1>4, <1>5, <1>6, <1>7, <3>1, <3>2, OneCallerKeeps
         DEF CallInv, OutcomeHeld, ErrorHeld, Raised
  <2>3. CASE IsJson(a.body) /\ a.body.kind # "object"
    <3>1. r = Raised("AttributeError")
      BY <2>1, <2>3 DEF Success
    <3>2. SentError(t)'
      BY <1>6, <1>8, <2>3, <3>1 DEF SentError, Raised, Errors, Explains
    <3> QED
      BY <1>4, <1>5, <1>6, <1>7, <3>1, <3>2, OneCallerKeeps
         DEF CallInv, OutcomeHeld, ErrorHeld, Raised
  <2>4. CASE a.body.kind = "object" /\ a.body.content = None
    <3>1. r = Raised("TypeError")
      BY <2>1, <2>4 DEF Success, IsJson
    <3>2. SentError(t)'
      BY <1>6, <1>8, <1>11, <2>4, <3>1 DEF SentError, Raised, Errors, Explains, IsJson
    <3> QED
      BY <1>4, <1>5, <1>6, <1>7, <3>1, <3>2, OneCallerKeeps
         DEF CallInv, OutcomeHeld, ErrorHeld, Raised
  <2>5. CASE a.body.kind = "object" /\ a.body.content # None
    <3>1. r = Returned(Services[call[t].method], a.body.content, None, None)
      BY <2>1, <2>5 DEF Success, IsJson
    <3>2. /\ r.kind = "model" /\ DOMAIN r = ModelFields
          /\ r.class = Services[call[t].method] /\ r.content = a.body.content
          /\ r.ip_address = None /\ r.prefix_len = None /\ r.network = None
      BY <3>1 DEF Returned, ModelFields
    <3>3. SentModel(t)'
      BY <1>6, <1>11, <2>5, <3>2 DEF SentModel
    <3> QED
      BY <1>4, <1>5, <1>6, <1>7, <3>2, <3>3, OneCallerKeeps
         DEF CallInv, OutcomeHeld, ModelHeld
  <2> QED
    BY <2>2, <2>3, <2>4, <2>5
<1> QED
  BY <1>9, <1>10, <1>11

LEMMA CloseClientKeeps ==
  ASSUME IInv, CloseClient, UNCHANGED readerVars
  PROVE  IInv'
<1>1. /\ client = "AsyncClient" /\ sessions \in {<<"open">>, <<"closed">>}
      /\ Current = "open" /\ sessions' = [sessions EXCEPT ![Len(sessions)] = "closed"]
      /\ UNCHANGED <<at, call, result, db, closed, record, client, arriving, answer>>
  BY DEF CloseClient, callVars, readerVars, IInv, SessionsKept
<1>2. ASSUME sessions = <<"closed">> PROVE FALSE
  <2>1. Len(sessions) = 1 /\ sessions[1] = "closed"
    BY <1>2
  <2> QED
    BY <1>1, <2>1 DEF Current
<1>3. sessions = <<"open">>
  BY <1>1, <1>2
<1>4. sessions' = <<"closed">>
  BY <1>1, <1>3
<1>5. SessionsSettle /\ SessionsKept'
  BY <1>1, <1>2, <1>4 DEF SessionsSettle, SessionsKept
<1>6. VarsTyped'
  BY <1>1 DEF IInv, VarsTyped
<1>7. ASSUME NEW u \in Callers PROVE CallInv(u)'
  BY <1>1, <1>5, OthersKept DEF IInv
<1> QED
  BY <1>5, <1>6, <1>7 DEF IInv

-----------------------------------------------------------------------------
(* What a model has, by the class it is of *)

LEMMA GetFirst ==
  ASSUME NEW f, NEW g, NEW k, NEW d
  PROVE  Get(f @@ g, k, d) = IF k \in DOMAIN f THEN f[k] ELSE Get(g, k, d)
BY DEF Get, @@

LEMMA MethodClasses ==
  /\ \A m \in DOMAIN Methods : Methods[m].class \in Classes
  /\ \A m \in DOMAIN Services : Services[m] \in NestedClasses
BY DEF Methods, Services, Classes, FlatClasses, NestedClasses

LEMMA FlatIsNotNested == \A c \in NestedClasses : c \in Classes /\ ~ IsFlat(c)
BY DEF Classes, FlatClasses, NestedClasses, IsFlat

LEMMA SimpleHas ==
  ASSUME NEW raw, NEW defaults, NEW x, x = SimpleModel(raw, defaults)
  PROVE  /\ DOMAIN x = {"network", "prefix_len", "ip_address"} \cup DOMAIN defaults
         /\ x.network = None
         /\ x.ip_address = Get(raw, "ip_address", None)
         /\ x.prefix_len = Get(raw, "prefix_len", None)
<1> DEFINE known == Nones({"prefix_len", "ip_address"}) @@ defaults
<1>1. /\ DOMAIN known = {"prefix_len", "ip_address"} \cup DOMAIN defaults
      /\ known["prefix_len"] = None /\ known["ip_address"] = None
  BY DEF Nones, @@
<1> HIDE DEF known
<1> DEFINE k == Keywords(raw, known)
<1>2. /\ DOMAIN k = DOMAIN known
      /\ k["prefix_len"] = Get(raw, "prefix_len", None)
      /\ k["ip_address"] = Get(raw, "ip_address", None)
  BY <1>1 DEF Keywords
<1>3. x = [network |-> None] @@ k
  BY DEF SimpleModel, known
<1> HIDE DEF k
<1> QED
  BY <1>1, <1>2, <1>3 DEF @@

LEMMA FlatHas ==
  ASSUME NEW class \in FlatClasses, NEW raw, NEW locales,
         NEW x, x = Construct(class, raw, locales)
  PROVE  /\ {"network", "prefix_len", "ip_address"} \subseteq DOMAIN x
         /\ x.network = None
         /\ x.ip_address = Get(raw, "ip_address", None)
         /\ x.prefix_len = Get(raw, "prefix_len", None)
<1>1. \E defaults : x = SimpleModel(raw, defaults)
  <2>1. CASE class = "AnonymousIP"
    <3>1. x = AnonymousIP(raw)
      BY <2>1, Zenon DEF Construct
    <3> QED
      BY <3>1 DEF AnonymousIP
  <2>2. CASE class = "ASN"
    <3>1. x = ASN(raw)
      BY <2>2, Zenon DEF Construct
    <3> QED
      BY <3>1 DEF ASN
  <2>3. CASE class = "ConnectionType"
    <3>1. x = ConnectionType(raw)
      BY <2>3, Zenon DEF Construct
    <3> QED
      BY <3>1 DEF ConnectionType
  <2>4. CASE class = "Domain"
    <3>1. x = Domain(raw)
      BY <2>4, Zenon DEF Construct
    <3> QED
      BY <3>1 DEF Domain
  <2>5. CASE class = "ISP"
    <3>1. x = ISP(raw)
      BY <2>5, Zenon DEF Construct
    <3> QED
      BY <3>1 DEF ISP
  <2> QED
    BY <2>1, <2>2, <2>3, <2>4, <2>5 DEF FlatClasses
<1>2. PICK defaults : x = SimpleModel(raw, defaults)
  BY <1>1
<1>3. /\ DOMAIN x = {"network", "prefix_len", "ip_address"} \cup DOMAIN defaults
      /\ x.network = None
      /\ x.ip_address = Get(raw, "ip_address", None)
      /\ x.prefix_len = Get(raw, "prefix_len", None)
  BY <1>2, SimpleHas
<1> QED
  BY <1>3

(* A nested model is that of a country, or that of a city. *)
LEMMA NestedIsCountryOrCity ==
  ASSUME NEW class \in NestedClasses, NEW raw, NEW locales
  PROVE  Construct(class, raw, locales) =
           IF class = "Country" THEN CountryModel(raw, locales) ELSE CityModel(raw, locales)
<1>1. CASE class = "Country"
  BY <1>1, Zenon DEF Construct
<1>2. CASE class = "City"
  <2>1. Construct(class, raw, locales) = CityModel(raw, locales)
    BY <1>2, Zenon DEF Construct
  <2> QED
    BY <1>2, <2>1
<1>3. CASE class = "Insights"
  <2>1. Construct(class, raw, locales) = InsightsModel(raw, locales)
    BY <1>3, Zenon DEF Construct
  <2> QED
    BY <1>3, <2>1 DEF InsightsModel
<1>4. CASE class = "Enterprise"
  <2>1. Construct(class, raw, locales) = EnterpriseModel(raw, locales)
    BY <1>4, Zenon DEF Construct
  <2> QED
    BY <1>4, <2>1 DEF EnterpriseModel
<1> QED
  BY <1>1, <1>2, <1>3, <1>4 DEF NestedClasses

LEMMA NestedHas ==
  ASSUME NEW class \in NestedClasses, NEW raw, NEW locales,
         NEW x, x = Construct(class, raw, locales)
  PROVE  "traits" \in DOMAIN x /\ x.traits = Traits(Get(raw, "traits", Empty))
<1>1. PICK c : c = CountryModel(raw, locales)
  OBVIOUS
<1>2. "traits" \in DOMAIN c /\ c.traits = Traits(Get(raw, "traits", Empty))
  BY <1>1 DEF CountryModel
<1>3. PICK y : CityModel(raw, locales) = c @@ y
  BY <1>1 DEF CityModel
<1>4. x = c \/ x = c @@ y
  BY <1>1, <1>3, NestedIsCountryOrCity
<1> QED
  BY <1>2, <1>4 DEF @@

LEMMA TraitsHas ==
  ASSUME NEW raw, NEW x, x = Traits(raw)
  PROVE  /\ DOMAIN x = DOMAIN TraitsDefaults \cup {"network", "prefix_len"}
         /\ {"network", "prefix_len", "ip_address"} \subseteq DOMAIN x
         /\ x.ip_address = Get(raw, "ip_address", None)
         /\ x.prefix_len = Get(raw, "prefix_len", None)
         /\ Get(raw, "network", None) = None => x.network = None
<1> DEFINE defaults == TraitsDefaults @@ Nones({"network", "prefix_len"})
<1>1. /\ DOMAIN defaults = DOMAIN TraitsDefaults \cup {"network", "prefix_len"}
      /\ "ip_address" \in DOMAIN defaults
      /\ defaults["ip_address"] = None /\ defaults["prefix_len"] = None
      /\ defaults["network"] = None
  BY DEF TraitsDefaults, Nones, Falses, @@
<1> HIDE DEF defaults
<1>2. PICK k : k = Keywords(raw, defaults)
  OBVIOUS
<1>3. /\ DOMAIN k = DOMAIN defaults
      /\ k.ip_address = Get(raw, "ip_address", None)
      /\ k.prefix_len = Get(raw, "prefix_len", None)
      /\ k.network = Get(raw, "network", None)
  BY <1>1, <1>2 DEF Keywords
<1>4. x = [k EXCEPT !.network = IF @ = None THEN None
                                ELSE IpNetwork(@.ip_address, @.prefix_len)]
  BY <1>2 DEF Traits, defaults
<1> QED
  BY <1>1, <1>3, <1>4

-----------------------------------------------------------------------------
(* The property "network" *)

(* A network that is kept is the one that would be computed. *)
LEMMA NetworkIsKept ==
  ASSUME NEW m, m.class \in Classes, m.network \in {None, MadeNetwork(m)}
  PROVE  Network(m) = MadeNetwork(m)
<1>1. PICK x : x = Made(m)
  OBVIOUS
<1>2. PICK n : n = m.network
  OBVIOUS
<1>3. CASE n = None
  BY <1>2, <1>3 DEF Network, Attributes, MadeNetwork, Made
<1>4. CASE n # None /\ IsFlat(m.class)
  <2>1. "network" \in DOMAIN x
    BY <1>1, <1>4, FlatHas DEF Made, IsFlat
  <2>2. PICK y : y = [x EXCEPT !.network = n]
    OBVIOUS
  <2>3. Attributes(m) = y /\ y.network = n
    BY <1>1, <1>2, <1>4, <2>1, <2>2 DEF Attributes, Made
  <2>4. Network(m) = n
    BY <1>4, <2>3 DEF Network, SimpleNetwork, TraitsNetwork
  <2> QED
    BY <1>2, <1>4, <2>4
<1>5. CASE n # None /\ ~ IsFlat(m.class)
  <2>1. m.class \in NestedClasses
    BY <1>5 DEF Classes, IsFlat
  <2>2. PICK r : r = Get(Raw(m), "traits", Empty)
    OBVIOUS
  <2>3. "traits" \in DOMAIN x /\ x.traits = Traits(r)
    BY <1>1, <2>1, <2>2, NestedHas DEF Made
  <2>4. "network" \in DOMAIN x.traits
    BY <2>3, TraitsHas
  <2>5. PICK y : y = [x EXCEPT !.traits.network = n]
    OBVIOUS
  <2>6. y.traits.network = n
    BY <2>3, <2>4, <2>5
  <2>7. Attributes(m) = y
    BY <1>1, <1>2, <1>5, <2>5 DEF Attributes, Made
  <2>8. Network(m) = n
    BY <1>5, <2>6, <2>7 DEF Network, TraitsNetwork
  <2> QED
    BY <1>2, <1>5, <2>8
<1> QED
  BY <1>3, <1>4, <1>5

(* The network of a model that was made of a record *)
LEMMA NetworkOfRecord ==
  ASSUME NEW m, m.class \in Classes, m.ip_address # None, m.prefix_len # None,
         "network" \notin DOMAIN Get(Responses[m.content], "traits", Empty)
  PROVE  MadeNetwork(m) = IpNetwork(m.ip_address, m.prefix_len)
<1>1. PICK raw : raw = Responses[m.content]
  OBVIOUS
<1>2. PICK extra : extra = [ip_address |-> m.ip_address, prefix_len |-> m.prefix_len]
  OBVIOUS
<1>3. /\ DOMAIN extra = {"ip_address", "prefix_len"} /\ DOMAIN extra # {}
      /\ extra["ip_address"] = m.ip_address /\ extra["prefix_len"] = m.prefix_len
  BY <1>2
<1>4. Raw(m) = Extended(m.class, raw, extra)
  BY <1>1, <1>2 DEF Raw, Extra, Said
<1>5. PICK x : x = Made(m)
  OBVIOUS
<1>6. CASE IsFlat(m.class)
  <2>1. Raw(m) = extra @@ raw
    BY <1>3, <1>4, <1>6 DEF Extended
  <2>2. /\ Get(Raw(m), "ip_address", None) = m.ip_address
        /\ Get(Raw(m), "prefix_len", None) = m.prefix_len
    BY <1>3, <2>1, GetFirst
  <2>3. x.network = None /\ x.ip_address = m.ip_address /\ x.prefix_len = m.prefix_len
    BY <1>5, <1>6, <2>2, FlatHas DEF Made, IsFlat
  <2> QED
    BY <1>5, <1>6, <2>3 DEF MadeNetwork, SimpleNetwork, TraitsNetwork
<1>7. CASE ~ IsFlat(m.class)
  <2>1. PICK r : r = extra @@ Get(raw, "traits", Empty)
    OBVIOUS
  <2>2. Raw(m) = [traits |-> r] @@ raw
    BY <1>3, <1>4, <1>7, <2>1 DEF Extended
  <2>3. Get(Raw(m), "traits", Empty) = r
    BY <2>2, GetFirst
  <2>4. /\ Get(r, "ip_address", None) = m.ip_address
        /\ Get(r, "prefix_len", None) = m.prefix_len
        /\ Get(r, "network", None) = None
    <3>1. PICK g : g = Get(raw, "traits", Empty)
      OBVIOUS
    <3>2. Get(g, "network", None) = None
      BY <1>1, <3>1 DEF Get
    <3> QED
      BY <1>3, <2>1, <3>1, <3>2, GetFirst
  <2>5. m.class \in NestedClasses
    BY <1>7 DEF Classes, IsFlat
  <2>6. x.traits = Traits(r)
    BY <1>5, <2>3, <2>5, NestedHas DEF Made
  <2>7. /\ x.traits.network = None /\ x.traits.ip_address = m.ip_address
        /\ x.traits.prefix_len = m.prefix_len
    BY <2>4, <2>6, TraitsHas
  <2> QED
    BY <1>5, <1>7, <2>7 DEF MadeNetwork, TraitsNetwork
<1> QED
  BY <1>6, <1>7

LEMMA LookKeeps ==
  ASSUME IInv, NEW t \in Callers, Look(t), UNCHANGED <<readerVars, clientVars>>
  PROVE  IInv'
<1>0. VarsTyped /\ SessionsKept /\ CallInv(t)
  BY DEF IInv
<1>1. PICK m : m = result[t]
  OBVIOUS
<1>2. PICK n : n = Network(m)
  OBVIOUS
<1>3. PICK r : r = [m EXCEPT !.network = n]
  OBVIOUS
<1>4. /\ at[t] = "idle" /\ m.kind = "model"
      /\ result' = [result EXCEPT ![t] = r]
      /\ UNCHANGED <<at, call, db, closed, record, client, sessions, arriving, answer>>
  BY <1>1, <1>2, <1>3 DEF Look, Holds, readerVars, clientVars
<1>5. ModelHeld(t)
  BY <1>0, <1>1, <1>4 DEF CallInv, OutcomeHeld, ErrorHeld, Pending
<1>6. m.class \in Classes
  BY <1>1, <1>5, MethodClasses, FlatIsNotNested DEF ModelHeld, ReadModel, SentModel
<1>7. n = MadeNetwork(m)
  BY <1>1, <1>2, <1>5, <1>6, NetworkIsKept DEF ModelHeld
<1>8. /\ DOMAIN r = ModelFields /\ r.kind = "model" /\ r.class = m.class
      /\ r.content = m.content /\ r.ip_address = m.ip_address
      /\ r.prefix_len = m.prefix_len /\ r.network = n
  BY <1>1, <1>3, <1>5 DEF ModelHeld, ModelFields
<1>9. n = MadeNetwork(r)
  BY <1>7, <1>8 DEF MadeNetwork, Made, Raw, Extra
<1>10. OneCaller(t)
  BY <1>0, <1>4 DEF OneCaller, VarsTyped
<1>11. SessionsSettle /\ SessionsKept'
  BY <1>0, <1>4, SameSessions
<1>12. result'[t] = r
  BY <1>0, <1>4 DEF VarsTyped
<1>13. Called(t)'
  BY <1>0, <1>1, <1>4, <1>8, <1>12
     DEF CallInv, Called, ReaderLabels, ClientLabels, Pending
<1>14. Recorded(t)' /\ Heard(t)'
  BY <1>0, <1>4, RecordedKept, HeardKept DEF CallInv
<1>15. IF client = "none" THEN ReadModel(t)' ELSE SentModel(t)'
  <2>1. CASE client = "none"
    <3> DEFINE ip == call[t].ip_address
    <3>1. /\ call[t].method \in DOMAIN Methods
          /\ m.class = Methods[call[t].method].class
          /\ Searched(ip) /\ m.ip_address = ip
          /\ \E w \in Around(ip) : m.content = db.data[w]
          /\ \E w \in Around(ip) : m.prefix_len = Counted(ip, Len(w))
      BY <1>1, <1>5, <2>1 DEF ModelHeld, ReadModel
    <3>2. call' = call /\ db' = db
      BY <1>4
    <3>3. /\ Searched(ip)' = Searched(ip) /\ Around(ip)' = Around(ip)
          /\ \A k : Counted(ip, k)' = Counted(ip, k)
      BY ONLY <3>2 DEF Searched, Around, Networks, Whole, Skipped, Counted
    <3>4. ReadModel(t)'
      BY ONLY <1>8, <1>12, <3>1, <3>2, <3>3 DEF ReadModel
    <3> QED
      BY <2>1, <3>4
  <2>2. CASE client # "none"
    <3> DEFINE a == answer[t]
    <3>1. /\ a \in Answers /\ a.status = 200 /\ a.body.kind = "object"
          /\ call[t].method \in DOMAIN Services
          /\ m.class = Services[call[t].method]
          /\ m.content = a.body.content /\ m.content # None
          /\ m.ip_address = None /\ m.prefix_len = None
      BY <1>1, <1>5, <2>2 DEF ModelHeld, SentModel
    <3>2. answer'[t] = a /\ call'[t] = call[t]
      BY <1>4
    <3>3. SentModel(t)'
      BY <1>8, <1>12, <3>1, <3>2 DEF SentModel
    <3> QED
      BY <2>2, <3>3
  <2> QED
    BY <1>4, <2>1, <2>2
<1>16. OutcomeHeld(t)'
  BY <1>4, <1>8, <1>9, <1>12, <1>15 DEF OutcomeHeld, ModelHeld
<1> QED
  BY <1>10, <1>11, <1>13, <1>14, <1>16, OneCallerKeeps DEF CallInv

LEMMA NextKeeps ==
  ASSUME IInv, Next
  PROVE  IInv'
<1>1. CASE ReaderNext /\ UNCHANGED clientVars
  <2>1. ASSUME Close PROVE IInv'
    BY <1>1, <2>1, CloseKeeps
  <2>2. ASSUME NEW t \in Callers, ReaderStep(t) PROVE IInv'
    BY <1>1, <2>2, LookupKeeps, SetAddressKeeps, SetPrefixKeeps, MakeModelKeeps
       DEF ReaderStep
  <2>3. ASSUME NEW t \in Callers, NEW m \in DOMAIN Methods,
               NEW ip \in Addresses \cup {Malformed}, Call(t, m, ip)
        PROVE  IInv'
    BY <1>1, <2>3, CallKeeps
  <2> QED
    BY <1>1, <2>1, <2>2, <2>3 DEF ReaderNext
<1>2. CASE ClientNext /\ UNCHANGED readerVars
  <2>1. ASSUME CloseClient PROVE IInv'
    BY <1>2, <2>1, CloseClientKeeps
  <2>2. ASSUME NEW t \in Callers, Piece(t) PROVE IInv'
    BY <1>2, <2>2, PieceKeeps
  <2>3. ASSUME NEW t \in Callers, Disconnect(t) \/ Timeout(t) PROVE IInv'
    BY <1>2, <2>3, BreakKeeps DEF Disconnect, Timeout
  <2>4. ASSUME NEW t \in Callers, Read(t) PROVE IInv'
    BY <1>2, <2>4, ReadKeeps
  <2>5. ASSUME NEW t \in Callers, NEW a \in Answers, Answer(t, a) PROVE IInv'
    BY <1>2, <2>5, AnswerKeeps
  <2>6. ASSUME NEW t \in Callers, NEW m \in DOMAIN Services,
               NEW ip \in {Me, Malformed}, Request(t, m, ip)
        PROVE  IInv'
    BY <1>2, <2>6, RequestKeeps
  <2> QED
    BY <1>2, <2>1, <2>2, <2>3, <2>4, <2>5, <2>6 DEF ClientNext
<1>3. CASE (\E t \in Callers : Look(t)) /\ UNCHANGED <<readerVars, clientVars>>
  BY <1>3, LookKeeps
<1> QED
  BY <1>1, <1>2, <1>3 DEF Next

LEMMA StutterKeeps ==
  ASSUME IInv, UNCHANGED vars
  PROVE  IInv'
<1>1. UNCHANGED <<at, call, result, db, closed, record, client, sessions, arriving, answer>>
  BY DEF vars, callVars, readerVars, clientVars
<1>2. VarsTyped'
  BY <1>1 DEF IInv, VarsTyped
<1>3. SessionsSettle /\ SessionsKept'
  BY <1>1, SameSessions DEF IInv
<1>4. ASSUME NEW u \in Callers PROVE CallInv(u)'
  BY <1>1, <1>3, OthersKept DEF IInv
<1> QED
  BY <1>2, <1>3, <1>4 DEF IInv

LEMMA Inductive == Spec => []IInv
<1>1. IInv /\ [Next]_vars => IInv'
  BY NextKeeps, StutterKeeps
<1> QED
  BY InitEstablishes, <1>1, PTL DEF Spec

-----------------------------------------------------------------------------
(* The theorems *)

(* A model has a class, a response it was made of, and, if it is of a      *)
(* record, the address that was looked up with a prefix no longer than it. *)
LEMMA HeldIsModel ==
  ASSUME IInv, NEW t \in Callers, ModelHeld(t)
  PROVE  Model(result[t])
<1>1. PICK m : m = result[t]
  OBVIOUS
<1>2. m.class \in Classes
  BY <1>1, MethodClasses, FlatIsNotNested DEF ModelHeld, ReadModel, SentModel
<1>3. CASE client = "none"
  <2>1. PICK ip : ip = call[t].ip_address
    OBVIOUS
  <2>2. Searched(ip) /\ m.ip_address = ip /\ ip \in Addresses
        /\ db \in Files \ {NoDatabase}
    BY <1>1, <1>3, <2>1 DEF ModelHeld, ReadModel, Searched, IInv, VarsTyped
  <2>3. PICK w \in Around(ip) : m.content = db.data[w]
    BY <1>1, <1>3, <2>1 DEF ModelHeld, ReadModel
  <2>4. PICK v \in Around(ip) : m.prefix_len = Counted(ip, Len(v))
    BY <1>1, <1>3, <2>1 DEF ModelHeld, ReadModel
  <2>5. m.content \in DOMAIN Responses
    BY <2>2, <2>3, AroundIsPath
  <2>6. m.prefix_len \in 0..Len(ip)
    BY <2>2, <2>4, AroundIsPath, CountedOfAddress
  <2>7. Len(ip) \in Nat
    BY <2>2, WholeIsPath
  <2>8. m.prefix_len # None /\ ip # None
    BY <2>2, <2>6, <2>7, CallsAssumption
  <2> QED
    BY <1>1, <1>2, <2>2, <2>5, <2>6, <2>8 DEF Model
<1>4. CASE client # "none"
  BY <1>1, <1>2, <1>4, AnswersAssumption DEF ModelHeld, SentModel, Model
<1> QED
  BY <1>3, <1>4

(* The variables have their types: what a call ends with is a model, or an *)
(* error that geoip2, or Python, has; of a reader, one of three.           *)
THEOREM TypeCorrect == Spec => []TypeOK
<1>1. ASSUME IInv, NEW t \in Callers
      PROVE  /\ result[t].kind \in {"pending", "model", "raised"}
             /\ result[t].kind = "pending" => at[t] # "idle" \/ call[t].method = "none"
             /\ result[t].kind = "model" => Model(result[t])
             /\ result[t].kind = "raised" =>
                  result[t].error \in IF client = "none" THEN ReaderErrors ELSE Errors
             /\ call[t].method \in DOMAIN Methods \cup DOMAIN Services \cup {"none"}
  <2>1. Called(t) /\ OutcomeHeld(t)
    BY <1>1 DEF IInv, CallInv
  <2>2. result[t].kind = "pending" => at[t] # "idle" \/ call[t].method = "none"
    BY <2>1 DEF Called
  <2>3. call[t].method \in DOMAIN Methods \cup DOMAIN Services \cup {"none"}
    BY <2>1 DEF Called
  <2>4. CASE result[t] = Pending
    BY <2>2, <2>3, <2>4 DEF Pending
  <2>5. CASE ModelHeld(t)
    BY <1>1, <2>2, <2>3, <2>5, HeldIsModel DEF ModelHeld
  <2>6. CASE ErrorHeld(t)
    <3>1. /\ result[t].kind = "raised"
          /\ IF client = "none" THEN ReadError(t) ELSE SentError(t)
      BY <2>6 DEF ErrorHeld
    <3>2. CASE client = "none"
      <4>1. result[t].error \in {"TypeError", "ValueError", "AddressNotFoundError"}
        <5>1. PICK e : e = result[t]
          OBVIOUS
        <5>2. e.error \in {"TypeError", "ValueError"} \/ \E a, n : e = NotFound(a, n)
          BY <3>1, <3>2, <5>1 DEF ReadError
        <5>3. CASE \E a, n : e = NotFound(a, n)
          <6>1. PICK a, n : e = NotFound(a, n)
            BY <5>3
          <6> QED
            BY <5>1, <6>1 DEF NotFound
        <5> QED
          BY <5>1, <5>2, <5>3
      <4> QED
        BY <2>2, <2>3, <3>1, <3>2, <4>1 DEF ReaderErrors
    <3>3. CASE client # "none"
      BY <2>2, <2>3, <3>1, <3>3 DEF SentError
    <3> QED
      BY <3>2, <3>3
  <2> QED
    BY <2>1, <2>4, <2>5, <2>6 DEF OutcomeHeld
<1>2. IInv => TypeOK
  <2> SUFFICES ASSUME IInv PROVE TypeOK
    OBVIOUS
  <2>1. sessions = <<>> \/ sessions = <<"open">> \/ sessions = <<"closed">>
    BY DEF IInv, VarsTyped, SessionsKept
  <2>2. sessions \in Seq({"open", "closed"})
    <3>1. /\ <<>> \in Seq({"open", "closed"}) /\ <<"open">> \in Seq({"open", "closed"})
          /\ <<"closed">> \in Seq({"open", "closed"})
      OBVIOUS
    <3> QED
      BY <2>1, <3>1
  <2> QED
    BY <1>1, <2>2 DEF IInv, VarsTyped, TypeOK, ReaderLabels, ClientLabels
<1> QED
  BY Inductive, <1>2, PTL

(* No session is open but the one the client knows, whatever calls were    *)
(* under way when it was opened, and whenever close() was called.          *)
THEOREM NoSessionLeaks == Spec => []SessionsDoNotLeak
<1>1. IInv => sessions = <<>> \/ sessions = <<"open">> \/ sessions = <<"closed">>
  BY DEF IInv, VarsTyped, SessionsKept
<1>2. ASSUME NEW s, s = <<>> \/ s = <<"open">> \/ s = <<"closed">>
      PROVE  \A i \in DOMAIN s : s[i] = "open" => i = Len(s)
  <2>1. Len(s) \in {0, 1} /\ DOMAIN s = 1..Len(s)
    BY <1>2
  <2> QED
    BY <2>1
<1>3. IInv => SessionsDoNotLeak
  BY <1>1, <1>2 DEF SessionsDoNotLeak
<1> QED
  BY Inductive, <1>3, PTL

(* Each call of a client ends in the way its own answer calls for, however *)
(* many others are under way.                                              *)
THEOREM EachAnswerIsHeeded == Spec => []AnswersAreHeeded
<1>1. ASSUME IInv, NEW t \in Callers, at[t] = "idle", client # "none",
             result[t].kind # "pending"
      PROVE  /\ result[t].kind = "model" =>
                  /\ answer[t].status = 200 /\ result[t].content = answer[t].body.content
                  /\ result[t].class = Services[call[t].method]
             /\ result[t].kind = "raised" =>
                  /\ Explains(result[t].error, t)
                  /\ result[t].error = "HTTPError" =>
                       /\ result[t].http_status = answer[t].status
                       /\ ~ (/\ answer[t].status \in 400..499 /\ answer[t].type = "json"
                             /\ answer[t].body.kind = "object"
                             /\ answer[t].body.code # None)
  <2>1. OutcomeHeld(t) /\ result[t] # Pending
    BY <1>1 DEF IInv, CallInv, Pending
  <2>2. CASE ModelHeld(t)
    BY <1>1, <2>2 DEF ModelHeld, SentModel
  <2>3. CASE ErrorHeld(t)
    BY <1>1, <2>3 DEF ErrorHeld, SentError
  <2> QED
    BY <2>1, <2>2, <2>3 DEF OutcomeHeld
<1>2. IInv => AnswersAreHeeded
  BY <1>1 DEF AnswersAreHeeded
<1> QED
  BY Inductive, <1>2, PTL

(* Where the path to a network leads through, a shorter path does.         *)
LEMMA TouchedAbove ==
  ASSUME db \in Files \ {NoDatabase}, NEW p \in Seq(Bit),
         NEW k \in 0..Len(p), NEW n \in 0..k, Touched(First(p, k))
  PROVE  Touched(First(p, n))
<1>1. PICK w \in Networks(db) : Within(w, First(p, k)) \/ Within(First(p, k), w)
  BY DEF Touched
<1>2. w \in Seq(Bit) /\ Len(w) \in Nat /\ Len(p) \in Nat
  BY DatabasesAssumption, LenProperties
<1>3. PICK q : q = First(p, k)
  OBVIOUS
<1>4. q \in Seq(Bit) /\ Len(q) = k /\ \A j \in 1..k : q[j] = p[j]
  BY <1>3, FirstIsPath
<1>5. PICK r : r = First(p, n)
  OBVIOUS
<1>6. n \in 0..Len(p)
  BY <1>2
<1>7. r \in Seq(Bit) /\ Len(r) = n /\ \A j \in 1..n : r[j] = p[j]
  BY <1>5, <1>6, FirstIsPath
<1>8. CASE Within(w, q)
  <2>1. Len(q) <= Len(w) /\ \A j \in 1..Len(q) : q[j] = w[j]
    BY <1>2, <1>4, <1>8, WithinIsBits
  <2>2. Len(r) <= Len(w) /\ \A j \in 1..Len(r) : r[j] = w[j]
    BY <1>2, <1>4, <1>6, <1>7, <2>1
  <2>3. Within(w, r)
    BY <1>2, <1>7, <2>2, WithinIsBits
  <2> QED
    BY <1>1, <1>5, <2>3 DEF Touched
<1>9. CASE Within(q, w)
  <2>1. Len(w) <= Len(q) /\ \A j \in 1..Len(w) : w[j] = q[j]
    BY <1>2, <1>4, <1>9, WithinIsBits
  <2>2. CASE n <= Len(w)
    <3>1. Len(r) <= Len(w) /\ \A j \in 1..Len(r) : r[j] = w[j]
      BY <1>2, <1>4, <1>6, <1>7, <2>1, <2>2
    <3>2. Within(w, r)
      BY <1>2, <1>7, <3>1, WithinIsBits
    <3> QED
      BY <1>1, <1>5, <3>2 DEF Touched
  <2>3. CASE ~ (n <= Len(w))
    <3>1. Len(w) <= Len(r) /\ \A j \in 1..Len(w) : w[j] = r[j]
      BY <1>2, <1>4, <1>6, <1>7, <2>1, <2>3
    <3>2. Within(r, w)
      BY <1>2, <1>7, <3>1, WithinIsBits
    <3> QED
      BY <1>1, <1>5, <3>2 DEF Touched
  <2> QED
    BY <2>2, <2>3
<1> QED
  BY <1>1, <1>3, <1>8, <1>9

(* An address that is not found: the network the error names contains it,  *)
(* has no record anywhere in it, and the next larger one has.              *)
LEMMA NotFoundIsLargest ==
  ASSUME db \in Files \ {NoDatabase}, NEW ip, Searched(ip),
         NEW n \in 0..Len(Whole(ip)), LeavesAt(ip, n),
         NEW net, net = ErrorNetwork(NotFound(ip, Counted(ip, n)))
  PROVE  /\ InNetwork(ip, net) /\ Len(net.prefix) \in Nat
         /\ ~ Touched(First(Whole(ip), Skipped(ip) + Len(net.prefix)))
         /\ Len(net.prefix) > 0 =>
              Touched(First(Whole(ip), Skipped(ip) + (Len(net.prefix) - 1)))
<1>1. PICK c : c = Counted(ip, n)
  OBVIOUS
<1>2. /\ ip \in Seq(Bit) /\ Len(ip) \in Nat /\ Skipped(ip) \in Nat
      /\ Whole(ip) \in Seq(Bit) /\ Len(Whole(ip)) = Skipped(ip) + Len(ip)
  BY WholeIsPath
<1>3. c \in 0..Len(ip)
  BY <1>1, CountedOfAddress
<1>4. c # None /\ ip # None
  BY <1>2, <1>3, CallsAssumption DEF Searched
<1>5. net = IpNetwork(ip, c)
  BY <1>1, <1>4 DEF ErrorNetwork, NotFound
<1>6. net.bits = Len(ip) /\ net.prefix = First(ip, c)
  <2>1. PICK b, q : b = Len(ip) /\ q = First(ip, c)
    OBVIOUS
  <2>2. net = [bits |-> b, prefix |-> q]
    BY <1>5, <2>1 DEF IpNetwork, First
  <2> QED
    BY <2>1, <2>2
<1>7. Len(net.prefix) = c
  BY <1>2, <1>3, <1>6, FirstIsPath
<1>8. InNetwork(ip, net)
  BY <1>6, <1>7 DEF InNetwork, First
<1>9. PICK k : k = Skipped(ip) + c
  OBVIOUS
<1>10. k \in 0..Len(Whole(ip)) /\ n \in 0..k
  BY <1>1, <1>2, <1>3, <1>9 DEF Counted
<1>11. ~ Touched(First(Whole(ip), k))
  BY <1>2, <1>10, TouchedAbove DEF LeavesAt
<1>12. ASSUME c > 0 PROVE Touched(First(Whole(ip), Skipped(ip) + (c - 1)))
  <2>1. PICK j : j = Skipped(ip) + (c - 1)
    OBVIOUS
  <2>2. j \in 0..n - 1
    BY <1>1, <1>2, <1>3, <1>12, <2>1 DEF Counted
  <2> QED
    BY <2>1, <2>2 DEF LeavesAt
<1> QED
  BY <1>3, <1>7, <1>8, <1>9, <1>11, <1>12

(* The network an AddressNotFoundError of a reader names is the largest in *)
(* which no address would be found (errors.py:31-33).                      *)
THEOREM NotFoundIsOfTheLargest == Spec => []NotFoundNetworkIsLargest
<1>1. ASSUME IInv, NEW t \in Callers, at[t] = "idle", db # NoDatabase,
             result[t].kind = "raised", result[t].error = "AddressNotFoundError",
             NEW ip, ip = call[t].ip_address, NEW net, net = ErrorNetwork(result[t])
      PROVE  /\ InNetwork(ip, net) /\ Len(net.prefix) \in Nat
             /\ ~ Touched(First(Whole(ip), Skipped(ip) + Len(net.prefix)))
             /\ Len(net.prefix) > 0 =>
                  Touched(First(Whole(ip), Skipped(ip) + (Len(net.prefix) - 1)))
  <2>1. OutcomeHeld(t) /\ db \in Files \ {NoDatabase} /\ client = "none"
    BY <1>1 DEF IInv, VarsTyped, CallInv
  <2>2. ReadError(t)
    BY <1>1, <2>1 DEF OutcomeHeld, ModelHeld, ErrorHeld, Pending
  <2>3. /\ Searched(ip)
        /\ \E n \in 0..Len(Whole(ip)) :
             LeavesAt(ip, n) /\ result[t] = NotFound(ip, Counted(ip, n))
    BY <1>1, <2>2 DEF ReadError
  <2>4. PICK n \in 0..Len(Whole(ip)) :
          LeavesAt(ip, n) /\ result[t] = NotFound(ip, Counted(ip, n))
    BY <2>3
  <2> QED
    BY <1>1, <2>1, <2>3, <2>4, NotFoundIsLargest
<1>2. IInv => NotFoundNetworkIsLargest
  BY <1>1 DEF NotFoundNetworkIsLargest
<1> QED
  BY Inductive, <1>2, PTL

(* Two networks of a database around one address are the same.             *)
LEMMA AroundIsOne ==
  ASSUME db \in Files \ {NoDatabase}, NEW ip, Searched(ip),
         NEW v \in Around(ip), NEW w \in Around(ip)
  PROVE  v = w
<1>1. PICK p : p = Whole(ip)
  OBVIOUS
<1>2. /\ v \in Networks(db) /\ v \in Seq(Bit) /\ Len(v) \in 0..Len(p)
      /\ \A j \in 1..Len(v) : v[j] = p[j]
  BY <1>1, AroundIsPath
<1>3. /\ w \in Networks(db) /\ w \in Seq(Bit) /\ Len(w) \in 0..Len(p)
      /\ \A j \in 1..Len(w) : w[j] = p[j]
  BY <1>1, AroundIsPath
<1>4. Len(v) \in Nat /\ Len(w) \in Nat
  BY <1>2, <1>3, LenProperties
<1>5. CASE Len(v) <= Len(w)
  <2>1. Within(w, v)
    BY <1>2, <1>3, <1>4, <1>5, WithinIsBits
  <2> QED
    BY <1>2, <1>3, <2>1, DatabasesAssumption
<1>6. CASE Len(w) <= Len(v)
  <2>1. Within(v, w)
    BY <1>2, <1>3, <1>4, <1>6, WithinIsBits
  <2> QED
    BY <1>2, <1>3, <2>1, DatabasesAssumption
<1> QED
  BY <1>4, <1>5, <1>6

(* The addresses in the network that is reported are in the same network   *)
(* of the database.                                                        *)
LEMMA NeighboursShareTheirNetwork ==
  ASSUME db \in Files \ {NoDatabase}, NEW ip, Searched(ip), NEW v \in Around(ip),
         NEW a \in Addresses, InNetwork(a, IpNetwork(ip, Counted(ip, Len(v))))
  PROVE  Searched(a) /\ v \in Around(a)
<1>1. PICK c : c = Counted(ip, Len(v))
  OBVIOUS
<1>2. /\ ip \in Seq(Bit) /\ Len(ip) \in Nat /\ Skipped(ip) \in Nat
      /\ \A j \in 1..Skipped(ip) : Whole(ip)[j] = 0
      /\ \A j \in 1..Len(ip) : Whole(ip)[Skipped(ip) + j] = ip[j]
      /\ Len(Whole(ip)) = Skipped(ip) + Len(ip)
  BY WholeIsPath
<1>3. /\ v \in Networks(db) /\ v \in Seq(Bit) /\ Len(v) \in 0..Len(Whole(ip))
      /\ \A j \in 1..Len(v) : v[j] = Whole(ip)[j]
  BY AroundIsPath
<1>4. c \in 0..Len(ip)
  BY <1>1, <1>3, CountedOfAddress
<1>5. Len(First(ip, c)) = c /\ \A j \in 1..c : First(ip, c)[j] = ip[j]
  BY <1>2, <1>4, FirstIsPath
<1>6. Len(a) = Len(ip) /\ First(a, c) = First(ip, c)
  BY <1>1, <1>5 DEF InNetwork, IpNetwork, First
<1>7. Searched(a) /\ Skipped(a) = Skipped(ip)
  BY <1>6 DEF Searched, Skipped
<1>8. /\ a \in Seq(Bit) /\ Whole(a) \in Seq(Bit)
      /\ \A j \in 1..Skipped(ip) : Whole(a)[j] = 0
      /\ \A j \in 1..Len(ip) : Whole(a)[Skipped(ip) + j] = a[j]
      /\ Len(Whole(a)) = Len(Whole(ip))
  BY <1>2, <1>6, <1>7, WholeIsPath
<1>9. \A j \in 1..c : a[j] = ip[j]
  BY <1>4, <1>5, <1>6, <1>8, FirstIsPath
<1>10. ASSUME NEW k \in 1..Len(v) PROVE v[k] = Whole(a)[k]
  <2>1. Len(Whole(ip)) \in Nat /\ v[k] = Whole(ip)[k]
    BY <1>2, <1>3
  <2>2. CASE k <= Skipped(ip)
    BY <1>2, <1>3, <1>8, <2>1, <2>2
  <2>3. CASE ~ (k <= Skipped(ip))
    <3>1. PICK j : j = k - Skipped(ip)
      OBVIOUS
    <3>2. j \in 1..c /\ k = Skipped(ip) + j
      BY <1>1, <1>2, <1>3, <2>3, <3>1 DEF Counted
    <3>3. j \in 1..Len(ip)
      BY <1>2, <1>4, <3>2
    <3> QED
      BY <1>2, <1>8, <1>9, <2>1, <3>2, <3>3
  <2> QED
    BY <2>2, <2>3
<1>11. Within(Whole(a), v)
  BY <1>3, <1>8, <1>10, WithinIsBits
<1> QED
  BY <1>3, <1>7, <1>11 DEF Around

(* A model of a reader names the address of its call and a network in      *)
(* which every address has the record it was made of, whatever the other   *)
(* threads that share the reader did between the steps of the call.        *)
THEOREM ModelsOfTheirAddress == Spec => []ModelsKeepTheirAddress
<1>1. ASSUME IInv, NEW t \in Callers, Holds(t), db # NoDatabase,
             NEW m, m = result[t], NEW net, net = Network(m)
      PROVE  /\ m.ip_address = call[t].ip_address
             /\ InNetwork(m.ip_address, net)
             /\ \A a \in Addresses : InNetwork(a, net) =>
                  /\ Around(a) = Around(m.ip_address)
                  /\ \E w \in Around(a) : db.data[w] = m.content
  <2>1. OutcomeHeld(t) /\ db \in Files \ {NoDatabase} /\ client = "none"
    BY <1>1 DEF IInv, VarsTyped, CallInv
  <2>2. ReadModel(t) /\ m.network \in {None, MadeNetwork(m)}
    BY <1>1, <2>1 DEF OutcomeHeld, ModelHeld, ErrorHeld, Pending, Holds
  <2>3. PICK ip : ip = m.ip_address
    OBVIOUS
  <2>4. /\ ip = call[t].ip_address /\ Searched(ip) /\ m.class \in Classes
        /\ \E w \in Around(ip) : m.content = db.data[w]
        /\ \E w \in Around(ip) : m.prefix_len = Counted(ip, Len(w))
    BY <1>1, <2>2, <2>3, MethodClasses DEF ReadModel
  <2>5. PICK w \in Around(ip) : m.content = db.data[w]
    BY <2>4
  <2>6. m.prefix_len = Counted(ip, Len(w))
    BY <2>1, <2>4, AroundIsOne
  <2>7. PICK c : c = Counted(ip, Len(w))
    OBVIOUS
  <2>8. /\ w \in Networks(db) /\ c \in 0..Len(ip) /\ ip \in Seq(Bit)
        /\ Len(ip) \in Nat /\ ip \in Addresses
    BY <2>1, <2>4, <2>7, AroundIsPath, CountedOfAddress, WholeIsPath DEF Searched
  <2>9. c # None /\ ip # None
    BY <2>8, CallsAssumption
  <2>10. "network" \notin DOMAIN Get(Responses[m.content], "traits", Empty)
    BY <2>1, <2>5, <2>8, DatabasesAssumption
  <2>11. net = IpNetwork(ip, c)
    BY <1>1, <2>2, <2>3, <2>4, <2>6, <2>7, <2>9, <2>10, NetworkIsKept, NetworkOfRecord
  <2>12. InNetwork(ip, net)
    <3>1. Len(First(ip, c)) = c
      BY <2>8, FirstIsPath
    <3> QED
      BY <2>11, <3>1 DEF InNetwork, IpNetwork, First
  <2>13. ASSUME NEW a \in Addresses, InNetwork(a, net)
         PROVE  /\ Around(a) = Around(ip)
                /\ \E v \in Around(a) : db.data[v] = m.content
    <3>1. Searched(a) /\ w \in Around(a)
      BY <2>1, <2>4, <2>7, <2>11, <2>13, NeighboursShareTheirNetwork
    <3>2. Around(a) = {w} /\ Around(ip) = {w}
      BY <2>1, <2>4, <3>1, AroundIsOne
    <3> QED
      BY <2>5, <3>1, <3>2
  <2> QED
    BY <2>3, <2>4, <2>12, <2>13
<1>2. IInv => ModelsKeepTheirAddress
  BY <1>1 DEF ModelsKeepTheirAddress
<1> QED
  BY Inductive, <1>2, PTL

-----------------------------------------------------------------------------
(* Equality of models *)

(* "==" is no more than equality of class, attributes and response: of a   *)
(* class and one derived from it, Python asks the derived one.             *)
LEMMA EqualIsOfOneClass ==
  ASSUME NEW a, NEW b, a.class \in Classes, b.class \in Classes
  PROVE  Equal(a, b) <=>
           a.class = b.class /\ Attributes(a) = Attributes(b) /\ Raw(a) = Raw(b)
<1>1. \A c \in Classes :
        /\ c = "Country" => Instances(c) = NestedClasses
        /\ c = "City" => Instances(c) = NestedClasses \ {"Country"}
        /\ c = "ASN" => Instances(c) = {"ASN", "ISP"}
        /\ c \notin {"Country", "City", "ASN"} => Instances(c) = {c}
  <2> TAKE c \in Classes
  <2>1. CASE c = "Country"
    BY <2>1, Zenon DEF Instances
  <2>2. CASE c = "City"
    <3>1. Instances(c) = NestedClasses \ {"Country"}
      BY <2>2, Zenon DEF Instances
    <3> QED
      BY <2>2, <3>1
  <2>3. CASE c = "ASN"
    <3>1. Instances(c) = {"ASN", "ISP"}
      BY <2>3, Zenon DEF Instances
    <3> QED
      BY <2>3, <3>1
  <2>4. CASE c \notin {"Country", "City", "ASN"}
    <3>1. c # "Country" /\ c # "City" /\ c # "ASN"
      BY <2>4
    <3>2. Instances(c) = {c}
      BY <3>1, Zenon DEF Instances
    <3> QED
      BY <3>1, <3>2
  <2> QED
    BY <2>1, <2>2, <2>3, <2>4
<1>2. /\ a.class \in Instances(a.class)
      /\ b.class \in Instances(a.class) /\ a.class \in Instances(b.class)
           => a.class = b.class
  BY <1>1 DEF Classes, FlatClasses, NestedClasses
<1>3. Eq(a, b) <=> /\ b.class \in Instances(a.class)
                   /\ Attributes(a) = Attributes(b) /\ Raw(a) = Raw(b)
  BY DEF Eq
<1>4. Eq(b, a) <=> /\ a.class \in Instances(b.class)
                   /\ Attributes(a) = Attributes(b) /\ Raw(a) = Raw(b)
  BY DEF Eq
<1> QED
  BY <1>2, <1>3, <1>4 DEF Equal

Added == Nones({"ip_address", "prefix_len"})

(* What the reader adds does not hide which response it is added to.       *)
LEMMA ExtendedApart ==
  ASSUME NEW class \in Classes, NEW c \in DOMAIN Responses, NEW d \in DOMAIN Responses,
         NEW x, DOMAIN x \in {{}, {"ip_address", "prefix_len"}},
         Extended(class, Responses[c], x) = Extended(class, Responses[d], x)
  PROVE  c = d
<1>1. DOMAIN Added = {"ip_address", "prefix_len"}
  BY DEF Added, Nones
<1>2. \A e \in DOMAIN Responses :
        Extended(class, Extended(class, Responses[e], x), Added) =
          Extended(class, Responses[e], Added)
  <2> TAKE e \in DOMAIN Responses
  <2>1. PICK raw : raw = Responses[e]
    OBVIOUS
  <2>2. \A f, g : DOMAIN f = {"ip_address", "prefix_len"} => f @@ (Added @@ g) = f @@ g
    BY <1>1 DEF @@
  <2>3. \A g : Added @@ (x @@ g) = Added @@ g
    BY <1>1 DEF @@
  <2>4. CASE DOMAIN x = {}
    BY <2>4 DEF Extended
  <2>5. CASE DOMAIN x # {} /\ IsFlat(class)
    <3>1. Extended(class, raw, x) = x @@ raw
      BY <2>5 DEF Extended
    <3>2. \A g : Extended(class, g, Added) = Added @@ g
      BY <1>1, <2>5 DEF Extended
    <3> QED
      BY <2>1, <2>3, <3>1, <3>2
  <2>6. CASE DOMAIN x # {} /\ ~ IsFlat(class)
    <3>1. PICK g : g = Get(raw, "traits", Empty)
      OBVIOUS
    <3>2. Extended(class, raw, x) = [traits |-> x @@ g] @@ raw
      BY <2>6, <3>1 DEF Extended
    <3>3. PICK r : r = [traits |-> x @@ g] @@ raw
      OBVIOUS
    <3>4. Get(r, "traits", Empty) = x @@ g
      BY <3>3, GetFirst
    <3>5. \A h : Extended(class, h, Added) =
                   [traits |-> Added @@ Get(h, "traits", Empty)] @@ h
      BY <1>1, <2>6 DEF Extended
    <3>6. Extended(class, r, Added) = [traits |-> Added @@ g] @@ r
      BY <2>3, <3>4, <3>5
    <3>7. PICK y : y = Added @@ g
      OBVIOUS
    <3>8. [traits |-> y] @@ ([traits |-> x @@ g] @@ raw) = [traits |-> y] @@ raw
      <4>1. PICK z : z = x @@ g
        OBVIOUS
      <4>2. [traits |-> y] @@ ([traits |-> z] @@ raw) = [traits |-> y] @@ raw
        BY DEF @@
      <4> QED
        BY <4>1, <4>2
    <3>9. Extended(class, raw, Added) = [traits |-> y] @@ raw
      BY <3>1, <3>5, <3>7
    <3> QED
      BY <2>1, <3>2, <3>3, <3>6, <3>7, <3>8, <3>9
  <2> QED
    BY <2>4, <2>5, <2>6
<1>3. Extended(class, Responses[c], Added) = Extended(class, Responses[d], Added)
  BY <1>2
<1> QED
  BY <1>3, ResponsesAssumption DEF Added, Classes

(* What the reader added can be read back. *)
LEMMA ExtendedTells ==
  ASSUME NEW class, NEW raw, NEW ip, NEW n,
         NEW x, x = Extended(class, raw, [ip_address |-> ip, prefix_len |-> n]),
         NEW of, of = IF IsFlat(class) THEN x ELSE Get(x, "traits", Empty)
  PROVE  Get(of, "ip_address", None) = ip /\ Get(of, "prefix_len", None) = n
<1>1. PICK extra : extra = [ip_address |-> ip, prefix_len |-> n]
  OBVIOUS
<1>2. /\ DOMAIN extra = {"ip_address", "prefix_len"}
      /\ extra["ip_address"] = ip /\ extra["prefix_len"] = n
  BY <1>1
<1>3. \E g : of = extra @@ g
  <2>1. CASE IsFlat(class)
    <3>1. of = extra @@ raw
      BY <1>1, <1>2, <2>1 DEF Extended
    <3> QED
      BY <3>1
  <2>2. CASE ~ IsFlat(class)
    <3>1. PICK r : r = extra @@ Get(raw, "traits", Empty)
      OBVIOUS
    <3>2. x = [traits |-> r] @@ raw
      BY <1>1, <1>2, <2>2, <3>1 DEF Extended
    <3>3. of = r
      BY <2>2, <3>2, GetFirst
    <3> QED
      BY <3>1, <3>3
  <2> QED
    BY <2>1, <2>2
<1> QED
  BY <1>2, <1>3, GetFirst

(* What a model has is a function, and its traits are one. *)
LEMMA NestedIsFunction ==
  ASSUME NEW class \in NestedClasses, NEW raw, NEW locales,
         NEW x, x = Construct(class, raw, locales)
  PROVE  x = [k \in DOMAIN x |-> x[k]] /\ x.traits = [k \in DOMAIN x.traits |-> x.traits[k]]
<1>1. \E f, g : x = f @@ g \/ x = CountryModel(raw, locales)
  <2>1. PICK c, y : c = CountryModel(raw, locales) /\ CityModel(raw, locales) = c @@ y
    BY DEF CityModel
  <2>2. x = c \/ x = c @@ y
    BY <2>1, NestedIsCountryOrCity
  <2> QED
    BY <2>1, <2>2
<1>2. x = [k \in DOMAIN x |-> x[k]]
  <2>1. ASSUME NEW f, NEW g, x = f @@ g PROVE x = [k \in DOMAIN x |-> x[k]]
    BY <2>1 DEF @@
  <2>2. CASE x = CountryModel(raw, locales)
    BY <2>2 DEF CountryModel
  <2> QED
    BY <1>1, <2>1, <2>2
<1>3. PICK r : r = Get(raw, "traits", Empty)
  OBVIOUS
<1>4. x.traits = Traits(r)
  BY <1>3, NestedHas
<1>5. PICK y : y = Traits(r)
  OBVIOUS
<1>6. y = [k \in DOMAIN y |-> y[k]]
  BY <1>5 DEF Traits, Keywords
<1> QED
  BY <1>2, <1>4, <1>5, <1>6

(* A client's model keeps a network that its response has said: to read it *)
(* changes nothing.                                                        *)
LEMMA SentAttributes ==
  ASSUME NEW m, m.class \in NestedClasses, m.content \in DOMAIN Responses,
         m.prefix_len = None, m.network \in {None, MadeNetwork(m)}
  PROVE  Attributes(m) = Made(m) /\ Raw(m) = Responses[m.content]
<1>1. PICK raw : raw = Responses[m.content]
  OBVIOUS
<1>2. Raw(m) = raw
  BY <1>1 DEF Raw, Said, Extra, Extended, Empty
<1>3. PICK x : x = Made(m)
  OBVIOUS
<1>4. PICK g : g = Get(raw, "traits", Empty)
  OBVIOUS
<1>5. PICK y : y = Traits(g)
  OBVIOUS
<1>6. "traits" \in DOMAIN x /\ x.traits = y
  BY <1>2, <1>3, <1>4, <1>5, NestedHas DEF Made
<1>7. x = [k \in DOMAIN x |-> x[k]] /\ y = [k \in DOMAIN y |-> y[k]]
  <2>1. x = Construct(m.class, raw, Locales)
    BY <1>2, <1>3 DEF Made
  <2>2. x = [k \in DOMAIN x |-> x[k]] /\ x.traits = [k \in DOMAIN x.traits |-> x.traits[k]]
    BY <2>1, NestedIsFunction
  <2> QED
    BY <1>6, <2>2
<1>8. y.prefix_len = None
  <2>1. Get(g, "prefix_len", None) = None
    BY <1>1, <1>4, ResponsesAssumption DEF Get
  <2> QED
    BY <1>5, <2>1, TraitsHas
<1>9. ~ IsFlat(m.class)
  BY FlatIsNotNested
<1>10. MadeNetwork(m) = y.network
  BY <1>3, <1>6, <1>8, <1>9 DEF MadeNetwork, TraitsNetwork
<1>11. CASE m.network = None
  BY <1>2, <1>1, <1>11 DEF Attributes, Made
<1>12. CASE m.network # None
  <2>1. m.network = y.network
    BY <1>10, <1>12
  <2>2. [x EXCEPT !.traits.network = y.network] = x
    BY <1>6, <1>7
  <2>3. Attributes(m) = [x EXCEPT !.traits.network = y.network]
    BY <1>3, <1>9, <1>12, <2>1 DEF Attributes, Made
  <2> QED
    BY <1>1, <1>2, <1>3, <2>2, <2>3
<1> QED
  BY <1>11, <1>12

(* A reader's model has a network among its attributes when it was asked.  *)
LEMMA ReadAttributes ==
  ASSUME NEW m, m.class \in Classes, m.prefix_len # None, NEW x, x = Attributes(m),
         "network" \notin DOMAIN Get(Responses[m.content], "traits", Empty)
  PROVE  m.network = IF IsFlat(m.class) THEN x.network ELSE x.traits.network
<1>1. PICK y : y = Made(m)
  OBVIOUS
<1>2. PICK n : n = m.network
  OBVIOUS
<1>3. CASE IsFlat(m.class)
  <2>1. "network" \in DOMAIN y /\ y.network = None
    BY <1>1, <1>3, FlatHas DEF Made, IsFlat
  <2>2. x = IF n = None THEN y ELSE [y EXCEPT !.network = n]
    BY <1>1, <1>2, <1>3 DEF Attributes, Made
  <2>3. x.network = n
    BY <2>1, <2>2
  <2> QED
    BY <1>2, <1>3, <2>3
<1>4. CASE ~ IsFlat(m.class)
  <2>1. m.class \in NestedClasses
    BY <1>4 DEF Classes, IsFlat
  <2>2. PICK raw : raw = Responses[m.content]
    OBVIOUS
  <2>3. PICK extra : extra = [ip_address |-> m.ip_address, prefix_len |-> m.prefix_len]
    OBVIOUS
  <2>4. DOMAIN extra = {"ip_address", "prefix_len"} /\ DOMAIN extra # {}
    BY <2>3
  <2>5. PICK r : r = extra @@ Get(raw, "traits", Empty)
    OBVIOUS
  <2>6. Raw(m) = [traits |-> r] @@ raw
    BY <1>4, <2>2, <2>3, <2>4, <2>5 DEF Raw, Said, Extra, Extended
  <2>7. Get(Raw(m), "traits", Empty) = r
    BY <2>6, GetFirst
  <2>8. Get(r, "network", None) = None
    <3>1. PICK g : g = Get(raw, "traits", Empty)
      OBVIOUS
    <3>2. Get(g, "network", None) = None
      BY <2>2, <3>1 DEF Get
    <3> QED
      BY <2>4, <2>5, <3>1, <3>2, GetFirst
  <2>9. "traits" \in DOMAIN y /\ y.traits = Traits(r)
    BY <1>1, <2>1, <2>7, NestedHas DEF Made
  <2>10. "network" \in DOMAIN y.traits /\ y.traits.network = None
    BY <2>8, <2>9, TraitsHas
  <2>11. x = IF n = None THEN y ELSE [y EXCEPT !.traits.network = n]
    BY <1>1, <1>2, <1>4 DEF Attributes, Made
  <2>12. x.traits.network = n
    BY <2>9, <2>10, <2>11
  <2> QED
    BY <1>2, <1>4, <2>12
<1> QED
  BY <1>3, <1>4

(* Equality of two models of answers, and of two models of records *)
LEMMA SentEqual ==
  ASSUME NEW a, a.class \in NestedClasses, a.content \in DOMAIN Responses,
         a.prefix_len = None, a.network \in {None, MadeNetwork(a)},
         NEW b, b.class \in NestedClasses, b.content \in DOMAIN Responses,
         b.prefix_len = None, b.network \in {None, MadeNetwork(b)}
  PROVE  Equal(a, b) <=> a.class = b.class /\ a.content = b.content
<1>1. a.class \in Classes /\ b.class \in Classes
  BY FlatIsNotNested
<1>2. /\ Attributes(a) = Made(a) /\ Raw(a) = Responses[a.content]
      /\ Attributes(b) = Made(b) /\ Raw(b) = Responses[b.content]
  BY SentAttributes
<1>3. Equal(a, b) <=>
        a.class = b.class /\ Attributes(a) = Attributes(b) /\ Raw(a) = Raw(b)
  BY <1>1, EqualIsOfOneClass
<1>4. ASSUME a.class = b.class, a.content = b.content PROVE Equal(a, b)
  BY <1>2, <1>3, <1>4 DEF Made
<1>5. ASSUME a.class = b.class, Responses[a.content] = Responses[b.content]
      PROVE  a.content = b.content
  <2>1. \A e \in DOMAIN Responses : Extended(a.class, Responses[e], Empty) = Responses[e]
    BY DEF Extended, Empty
  <2>2. DOMAIN Empty = {}
    BY DEF Empty
  <2> QED
    BY <1>1, <1>5, <2>1, <2>2, ExtendedApart
<1> QED
  BY <1>2, <1>3, <1>4, <1>5

LEMMA ReadEqual ==
  ASSUME NEW a, a.class \in Classes, a.content \in DOMAIN Responses, a.prefix_len # None,
         "network" \notin DOMAIN Get(Responses[a.content], "traits", Empty),
         NEW b, b.class \in Classes, b.content \in DOMAIN Responses, b.prefix_len # None,
         "network" \notin DOMAIN Get(Responses[b.content], "traits", Empty)
  PROVE  Equal(a, b) <=>
           /\ a.class = b.class /\ a.content = b.content
           /\ a.ip_address = b.ip_address /\ a.prefix_len = b.prefix_len
           /\ a.network = b.network
<1>1. Equal(a, b) <=>
        a.class = b.class /\ Attributes(a) = Attributes(b) /\ Raw(a) = Raw(b)
  BY EqualIsOfOneClass
<1>2. ASSUME a.class = b.class, a.content = b.content, a.ip_address = b.ip_address,
             a.prefix_len = b.prefix_len, a.network = b.network
      PROVE  Attributes(a) = Attributes(b) /\ Raw(a) = Raw(b)
  <2>1. Raw(a) = Raw(b)
    BY <1>2 DEF Raw, Extra
  <2> QED
    BY <1>2, <2>1 DEF Attributes
<1>3. ASSUME a.class = b.class, Attributes(a) = Attributes(b), Raw(a) = Raw(b)
      PROVE  /\ a.content = b.content /\ a.network = b.network
             /\ a.ip_address = b.ip_address /\ a.prefix_len = b.prefix_len
  <2>1. PICK x : x = [ip_address |-> a.ip_address, prefix_len |-> a.prefix_len]
    OBVIOUS
  <2>2. PICK y : y = [ip_address |-> b.ip_address, prefix_len |-> b.prefix_len]
    OBVIOUS
  <2>3. PICK z : /\ z = Extended(a.class, Responses[a.content], x)
                  /\ z = Extended(a.class, Responses[b.content], y)
    BY <1>3, <2>1, <2>2 DEF Raw, Extra, Said
  <2>4. PICK of : of = IF IsFlat(a.class) THEN z ELSE Get(z, "traits", Empty)
    OBVIOUS
  <2>5. /\ Get(of, "ip_address", None) = a.ip_address
        /\ Get(of, "prefix_len", None) = a.prefix_len
    BY <2>1, <2>3, <2>4, ExtendedTells
  <2>6. /\ Get(of, "ip_address", None) = b.ip_address
        /\ Get(of, "prefix_len", None) = b.prefix_len
    BY <2>2, <2>3, <2>4, ExtendedTells
  <2>7. x = y /\ DOMAIN x = {"ip_address", "prefix_len"}
    BY <2>1, <2>2, <2>5, <2>6
  <2>8. a.content = b.content
    <3>1. DOMAIN x \in {{}, {"ip_address", "prefix_len"}}
      BY <2>7
    <3>2. PICK c, d : c = a.content /\ d = b.content
      OBVIOUS
    <3>3. Extended(a.class, Responses[c], x) = Extended(a.class, Responses[d], x)
      BY <2>3, <2>7, <3>2
    <3>4. c \in DOMAIN Responses /\ d \in DOMAIN Responses
      BY <3>2
    <3>5. c = d
      BY <3>1, <3>3, <3>4, ExtendedApart
    <3> QED
      BY <3>2, <3>5
  <2>9. a.network = b.network
    BY <1>3, ReadAttributes
  <2> QED
    BY <2>5, <2>6, <2>8, <2>9
<1> QED
  BY <1>1, <1>2, <1>3

(* Two models that callers hold are equal, in either order, when they are  *)
(* of one class, one response and one address, and neither or both have    *)
(* been asked for the network that a reader's model computes.              *)
THEOREM EqualUntilOneIsLooked == Spec => []EqualUntilLooked
<1>1. ASSUME IInv, client = "none", NEW t \in Callers, Holds(t), NEW m, m = result[t]
      PROVE  /\ m.class \in Classes /\ m.content \in DOMAIN Responses
             /\ m.prefix_len # None
             /\ "network" \notin DOMAIN Get(Responses[m.content], "traits", Empty)
  <2>1. ModelHeld(t) /\ db \in Files \ {NoDatabase}
    BY <1>1 DEF IInv, VarsTyped, CallInv, OutcomeHeld, ErrorHeld, Pending, Holds
  <2>2. Model(m)
    BY <1>1, <2>1, HeldIsModel
  <2>3. PICK ip : ip = call[t].ip_address
    OBVIOUS
  <2>4. /\ Searched(ip) /\ m.ip_address = ip /\ ip \in Addresses
        /\ \E w \in Around(ip) : m.content = db.data[w]
    BY <1>1, <2>1, <2>3 DEF ModelHeld, ReadModel, Searched
  <2>5. PICK w \in Around(ip) : m.content = db.data[w]
    BY <2>4
  <2>6. w \in Networks(db)
    BY DEF Around
  <2>7. "network" \notin DOMAIN Get(Responses[m.content], "traits", Empty)
    BY <2>1, <2>5, <2>6, DatabasesAssumption
  <2>8. m.prefix_len # None
    BY <2>2, <2>4, CallsAssumption DEF Model
  <2> QED
    BY <2>2, <2>7, <2>8 DEF Model
<1>2. ASSUME IInv, client # "none", NEW t \in Callers, Holds(t), NEW m, m = result[t]
      PROVE  /\ m.class \in NestedClasses /\ m.content \in DOMAIN Responses
             /\ m.ip_address = None /\ m.prefix_len = None
             /\ m.network \in {None, MadeNetwork(m)}
  <2>1. ModelHeld(t)
    BY <1>2 DEF IInv, CallInv, OutcomeHeld, ErrorHeld, Pending, Holds
  <2> QED
    BY <1>2, <2>1, MethodClasses, AnswersAssumption DEF ModelHeld, SentModel
<1>3. ASSUME IInv, NEW t \in Callers, NEW u \in Callers, Holds(t), Holds(u),
             NEW a, a = result[t], NEW b, b = result[u]
      PROVE  Equal(a, b) <=>
               /\ a.class = b.class /\ a.content = b.content
               /\ a.ip_address = b.ip_address /\ a.prefix_len = b.prefix_len
               /\ a.prefix_len # None => a.network = b.network
  <2>1. CASE client = "none"
    <3>1. /\ a.class \in Classes /\ a.content \in DOMAIN Responses
          /\ a.prefix_len # None
          /\ "network" \notin DOMAIN Get(Responses[a.content], "traits", Empty)
      BY <1>1, <1>3, <2>1
    <3>2. /\ b.class \in Classes /\ b.content \in DOMAIN Responses
          /\ b.prefix_len # None
          /\ "network" \notin DOMAIN Get(Responses[b.content], "traits", Empty)
      BY <1>1, <1>3, <2>1
    <3> QED
      BY <3>1, <3>2, ReadEqual
  <2>2. CASE client # "none"
    <3>1. /\ a.class \in NestedClasses /\ a.content \in DOMAIN Responses
          /\ a.ip_address = None /\ a.prefix_len = None
          /\ a.network \in {None, MadeNetwork(a)}
      BY <1>2, <1>3, <2>2
    <3>2. /\ b.class \in NestedClasses /\ b.content \in DOMAIN Responses
          /\ b.ip_address = None /\ b.prefix_len = None
          /\ b.network \in {None, MadeNetwork(b)}
      BY <1>2, <1>3, <2>2
    <3> QED
      BY <3>1, <3>2, SentEqual
  <2> QED
    BY <2>1, <2>2
<1>4. IInv => EqualUntilLooked
  BY <1>3 DEF EqualUntilLooked
<1> QED
  BY Inductive, <1>4, PTL

-----------------------------------------------------------------------------
(* Attributes and the response they are made of *)

(* The attribute a with the value v says what raw does under its name.     *)
Told(a, v, raw) ==
  IF a \in DOMAIN raw \ {"network"} /\ raw[a] # None THEN v = raw[a]
  ELSE a = "network" \/ v \in Unsaid(a)

(* What a constructor puts where the response says nothing *)
Silent(defaults) == \A a \in DOMAIN defaults : a # "names" /\ defaults[a] \in Unsaid(a)

LEMMA ReflectsIsTold ==
  ASSUME NEW x, NEW raw
  PROVE  Reflects(x, raw) <=> \A a \in DOMAIN x \ {"locales"} : Told(a, x[a], raw)
BY Zenon DEF Reflects, Told

LEMMA NothingIsSaid ==
  /\ \A a : a # "names" => None \in Unsaid(a) /\ FALSE \in Unsaid(a)
  /\ Empty \in Unsaid("names")
BY Zenon DEF Unsaid

LEMMA SilentNones ==
  ASSUME NEW S, "names" \notin S
  PROVE  Silent(Nones(S)) /\ Silent(Falses(S))
<1>1. DOMAIN Nones(S) = S /\ \A a \in S : Nones(S)[a] = None
  BY DEF Nones
<1>2. DOMAIN Falses(S) = S /\ \A a \in S : Falses(S)[a] = FALSE
  BY Zenon DEF Falses
<1>3. Silent(Nones(S))
  BY <1>1, NothingIsSaid DEF Silent
<1>4. Silent(Falses(S))
  BY <1>2, NothingIsSaid, Zenon DEF Silent
<1> QED
  BY <1>3, <1>4

LEMMA SilentBoth ==
  ASSUME NEW f, NEW g, Silent(f), Silent(g)
  PROVE  Silent(f @@ g)
BY DEF Silent, @@

(* An attribute has the value of its name, or its default. *)
LEMMA KeywordsTold ==
  ASSUME NEW raw, NEW defaults, Silent(defaults), NEW k, k = Keywords(raw, defaults)
  PROVE  DOMAIN k = DOMAIN defaults /\ \A a \in DOMAIN k : Told(a, k[a], raw)
<1>1. DOMAIN k = DOMAIN defaults
  BY DEF Keywords
<1>2. ASSUME NEW a \in DOMAIN defaults PROVE Told(a, k[a], raw)
  <2>1. k[a] = Get(raw, a, defaults[a]) /\ a # "names" /\ defaults[a] \in Unsaid(a)
    BY DEF Keywords, Silent
  <2>2. None \in Unsaid(a)
    BY <2>1, NothingIsSaid
  <2> QED
    BY <2>1, <2>2 DEF Told, Get
<1> QED
  BY <1>1, <1>2

LEMMA KeywordsReflect ==
  ASSUME NEW raw, NEW defaults, Silent(defaults)
  PROVE  Reflects(Keywords(raw, defaults), raw)
BY KeywordsTold, ReflectsIsTold

(* The network may be any. *)
LEMMA ReflectsBesides ==
  ASSUME NEW raw, NEW x, Reflects(x, raw), NEW n, NEW y, y = [x EXCEPT !.network = n]
  PROVE  Reflects(y, raw)
<1>1. DOMAIN y = DOMAIN x /\ \A a \in DOMAIN x \ {"network"} : y[a] = x[a]
  OBVIOUS
<1>2. \A v : Told("network", v, raw)
  BY DEF Told
<1>3. \A a \in DOMAIN x \ {"locales"} : Told(a, x[a], raw)
  BY ReflectsIsTold
<1>4. \A a \in DOMAIN y \ {"locales"} : Told(a, y[a], raw)
  BY <1>1, <1>2, <1>3
<1> QED
  BY <1>4, ReflectsIsTold

LEMMA SimpleReflects ==
  ASSUME NEW raw, NEW defaults, Silent(defaults)
  PROVE  Reflects(SimpleModel(raw, defaults), raw)
<1>1. PICK known : known = Nones({"prefix_len", "ip_address"}) @@ defaults
  OBVIOUS
<1>2. Silent(known)
  BY <1>1, SilentNones, SilentBoth
<1>3. PICK k : k = Keywords(raw, known)
  OBVIOUS
<1>4. \A a \in DOMAIN k : Told(a, k[a], raw)
  BY <1>2, <1>3, KeywordsTold
<1>5. PICK x : x = [network |-> None] @@ k
  OBVIOUS
<1>6. /\ DOMAIN x = {"network"} \cup DOMAIN k
      /\ \A a \in DOMAIN x : a = "network" \/ (a \in DOMAIN k /\ x[a] = k[a])
  BY <1>5 DEF @@
<1>7. \A v : Told("network", v, raw)
  BY DEF Told
<1>8. \A a \in DOMAIN x \ {"locales"} : Told(a, x[a], raw)
  BY <1>4, <1>6, <1>7
<1>9. SimpleModel(raw, defaults) = x
  BY <1>1, <1>3, <1>5 DEF SimpleModel
<1> QED
  BY <1>8, <1>9, ReflectsIsTold

LEMMA FlatReflects ==
  ASSUME NEW class \in FlatClasses, NEW raw, NEW locales,
         NEW x, x = Construct(class, raw, locales)
  PROVE  Reflects(x, raw)
<1>1. Silent(AsnDefaults)
  BY SilentNones DEF AsnDefaults
<1>2. CASE class = "AnonymousIP"
  <2>1. x = AnonymousIP(raw)
    BY <1>2, Zenon DEF Construct
  <2> QED
    BY <2>1, SilentNones, SimpleReflects DEF AnonymousIP
<1>3. CASE class = "ASN"
  <2>1. x = ASN(raw)
    BY <1>3, Zenon DEF Construct
  <2> QED
    BY <1>1, <2>1, SimpleReflects DEF ASN
<1>4. CASE class = "ConnectionType"
  <2>1. x = ConnectionType(raw)
    BY <1>4, Zenon DEF Construct
  <2> QED
    BY <2>1, SilentNones, SimpleReflects DEF ConnectionType
<1>5. CASE class = "Domain"
  <2>1. x = Domain(raw)
    BY <1>5, Zenon DEF Construct
  <2> QED
    BY <2>1, SilentNones, SimpleReflects DEF Domain
<1>6. CASE class = "ISP"
  <2>1. x = ISP(raw)
    BY <1>6, Zenon DEF Construct
  <2> QED
    BY <1>1, <2>1, SilentNones, SilentBoth, SimpleReflects DEF ISP
<1> QED
  BY <1>2, <1>3, <1>4, <1>5, <1>6 DEF FlatClasses

LEMMA TraitsReflect ==
  ASSUME NEW raw
  PROVE  Reflects(Traits(raw), raw)
<1>1. PICK defaults : defaults = TraitsDefaults @@ Nones({"network", "prefix_len"})
  OBVIOUS
<1>2. Silent(TraitsDefaults)
  BY SilentNones, SilentBoth DEF TraitsDefaults
<1>3. Silent(defaults)
  BY <1>1, <1>2, SilentNones, SilentBoth
<1>4. PICK k : k = Keywords(raw, defaults)
  OBVIOUS
<1>5. Reflects(k, raw)
  BY <1>3, <1>4, KeywordsReflect
<1>6. PICK n : n = IF k.network = None THEN None
                   ELSE IpNetwork(k.network.ip_address, k.network.prefix_len)
  OBVIOUS
<1>7. Traits(raw) = [k EXCEPT !.network = n]
  BY <1>1, <1>4, <1>6 DEF Traits
<1> QED
  BY <1>5, <1>7, ReflectsBesides

-----------------------------------------------------------------------------
(* Places and their names *)

Listed(s) == Len(s) \in Nat /\ DOMAIN s = 1..Len(s)

(* The name is in the first locale that has one. *)
LEMMA NamesAreFirst ==
  ASSUME NEW place, Listed(place.locales)
  PROVE  WellNamed(place)
<1>1. PICK l, names : l = place.locales /\ names = place.names
  OBVIOUS
<1> DEFINE S == {i \in DOMAIN l : l[i] \in DOMAIN names}
<1>2. CASE S = {}
  <2>1. \A i \in DOMAIN l : l[i] \notin DOMAIN names
    BY <1>2
  <2>2. Name(place) = None
    BY <1>1, <2>1 DEF Name
  <2> QED
    BY <1>1, <2>1, <2>2 DEF WellNamed
<1>3. CASE S # {}
  <2>1. S \in SUBSET Nat
    BY <1>1 DEF Listed
  <2>2. PICK i \in S : \A j \in S : i <= j
    <3> HIDE DEF S
    <3> QED
      BY <1>3, <2>1, LeastNumber
  <2>3. i \in DOMAIN l /\ l[i] \in DOMAIN names /\ \A j \in 1..i - 1 : l[j] \notin DOMAIN names
    <3>1. ASSUME NEW j \in 1..i - 1, l[j] \in DOMAIN names PROVE FALSE
      <4>1. j \in DOMAIN l /\ ~ (i <= j)
        BY <1>1, <2>1, <2>2 DEF Listed
      <4> QED
        BY <2>2, <3>1, <4>1
    <3> QED
      BY <2>2, <3>1
  <2>4. PICK k : k = CHOOSE n \in DOMAIN l :
                       l[n] \in DOMAIN names /\ \A j \in 1..n - 1 : ~ (l[j] \in DOMAIN names)
    OBVIOUS
  <2>5. k \in DOMAIN l /\ l[k] \in DOMAIN names /\ \A j \in 1..k - 1 : ~ (l[j] \in DOMAIN names)
    BY <2>3, <2>4
  <2>6. Name(place) = names[l[k]]
    BY <1>1, <2>3, <2>4 DEF Name
  <2> QED
    BY <1>1, <2>5, <2>6 DEF WellNamed
<1> QED
  BY <1>2, <1>3

(* A place: locales, names, and what else is known of it *)
LEMMA PlaceOf ==
  ASSUME NEW raw, NEW known, "names" \notin DOMAIN known, "locales" \notin DOMAIN known,
         \A a \in DOMAIN known : Told(a, known[a], raw),
         NEW x, x = PlaceRecord(Locales, Get(raw, "names", None)) @@ known
  PROVE  /\ PlaceReflects(x, raw) /\ Listed(x.locales)
         /\ DOMAIN x = {"locales", "names"} \cup DOMAIN known
<1>1. PICK names : names = Get(raw, "names", None)
  OBVIOUS
<1>2. PICK r : r = PlaceRecord(Locales, names)
  OBVIOUS
<1>3. /\ DOMAIN r = {"locales", "names"}
      /\ r.locales = (IF Locales = None THEN <<"en">> ELSE Locales)
      /\ r.names = (IF names = None THEN Empty ELSE names)
  BY <1>2 DEF PlaceRecord
<1>4. x = r @@ known
  BY <1>1, <1>2
<1>5. /\ DOMAIN x = {"locales", "names"} \cup DOMAIN known
      /\ x.locales = r.locales /\ x.names = r.names
      /\ \A a \in DOMAIN known : x[a] = known[a]
  BY <1>3, <1>4 DEF @@
<1>6. Told("names", x.names, raw)
  BY <1>1, <1>3, <1>5, NothingIsSaid DEF Told, Get
<1>7. Reflects(x, raw)
  <2>1. \A a \in DOMAIN x \ {"locales"} : Told(a, x[a], raw)
    BY <1>5, <1>6
  <2> QED
    BY <2>1, ReflectsIsTold
<1>8. Listed(x.locales)
  <2>1. CASE Locales = None
    <3>1. Len(<<"en">>) = 1 /\ DOMAIN <<"en">> = 1..1
      OBVIOUS
    <3> QED
      BY <1>3, <1>5, <2>1, <3>1 DEF Listed
  <2>2. CASE Locales # None
    <3>1. Locales \in Seq(STRING)
      BY <2>2, ResponsesAssumption
    <3>2. Listed(Locales)
      BY <3>1, LenProperties DEF Listed
    <3> QED
      BY <1>3, <1>5, <2>2, <3>2
  <2> QED
    BY <2>1, <2>2
<1> QED
  BY <1>5, <1>7, <1>8, NamesAreFirst DEF PlaceReflects

LEMMA PlacesReflect ==
  ASSUME NEW raw, NEW defaults, Silent(defaults), "locales" \notin DOMAIN defaults
  PROVE  PlaceReflects(Place(Locales, raw, defaults), raw)
<1>1. PICK k : k = Keywords(raw, defaults)
  OBVIOUS
<1>2. DOMAIN k = DOMAIN defaults /\ \A a \in DOMAIN k : Told(a, k[a], raw)
  BY <1>1, KeywordsTold
<1>3. "names" \notin DOMAIN k /\ "locales" \notin DOMAIN k
  BY <1>2 DEF Silent
<1> QED
  BY <1>1, <1>2, <1>3, PlaceOf DEF Place

LEMMA GetTold ==
  ASSUME NEW raw, NEW a, a # "names", NEW d, d \in Unsaid(a)
  PROVE  Told(a, Get(raw, a, d), raw)
<1>1. None \in Unsaid(a)
  BY NothingIsSaid
<1> QED
  BY <1>1 DEF Told, Get

(* The arguments of a country, and of a represented one *)
CountryArguments == {"confidence", "geoname_id", "is_in_european_union", "iso_code"}

LEMMA CountryKeywords ==
  ASSUME NEW raw, NEW defaults, NEW k, k = Keywords(raw, defaults),
         \/ defaults = CountryDefaults
         \/ defaults = CountryDefaults @@ Nones({"type"})
  PROVE  /\ \A a \in CountryArguments : Told(a, k[a], raw)
         /\ k.names = Get(raw, "names", None)
         /\ "type" \in DOMAIN defaults => Told("type", k.type, raw)
<1>1. PICK f, g : /\ f = Nones({"confidence", "geoname_id", "iso_code", "names"})
                  /\ g = Falses({"is_in_european_union"})
  OBVIOUS
<1>2. /\ DOMAIN f = {"confidence", "geoname_id", "iso_code", "names"}
      /\ \A a \in DOMAIN f : f[a] = None
  BY <1>1 DEF Nones
<1>3. DOMAIN g = {"is_in_european_union"} /\ Silent(g)
  BY <1>1, SilentNones DEF Falses
<1>4. g["is_in_european_union"] \in Unsaid("is_in_european_union")
  BY <1>3 DEF Silent
<1>5. CountryDefaults = f @@ g
  BY <1>1 DEF CountryDefaults
<1>6. PICK c : c = CountryDefaults
  OBVIOUS
<1>7. /\ DOMAIN c = {"confidence", "geoname_id", "iso_code", "names", "is_in_european_union"}
      /\ c.names = None /\ \A a \in CountryArguments : c[a] \in Unsaid(a)
  BY <1>2, <1>3, <1>4, <1>5, <1>6, NothingIsSaid DEF @@, CountryArguments
<1>8. /\ DOMAIN c \subseteq DOMAIN defaults /\ \A a \in DOMAIN c : defaults[a] = c[a]
      /\ "type" \in DOMAIN defaults => defaults["type"] = None
  <2>1. CASE defaults = c
    BY <1>7, <2>1
  <2>2. CASE defaults = c @@ Nones({"type"})
    <3>1. PICK h : h = Nones({"type"})
      OBVIOUS
    <3>2. h["type"] = None /\ DOMAIN h = {"type"}
      BY <3>1 DEF Nones
    <3> QED
      BY <1>7, <2>2, <3>1, <3>2 DEF @@
  <2> QED
    BY <1>6, <2>1, <2>2
<1>9. \A a \in DOMAIN defaults : k[a] = Get(raw, a, defaults[a])
  BY DEF Keywords
<1>10. ASSUME NEW a \in CountryArguments PROVE Told(a, k[a], raw)
  <2>1. a \in DOMAIN c /\ a # "names"
    BY <1>7 DEF CountryArguments
  <2>2. k[a] = Get(raw, a, c[a]) /\ c[a] \in Unsaid(a)
    BY <1>7, <1>8, <1>9, <2>1
  <2> QED
    BY <2>1, <2>2, GetTold
<1>11. k.names = Get(raw, "names", None)
  BY <1>7, <1>8, <1>9
<1>12. ASSUME "type" \in DOMAIN defaults PROVE Told("type", k.type, raw)
  <2>1. k.type = Get(raw, "type", None)
    BY <1>8, <1>9, <1>12
  <2> QED
    BY <2>1, GetTold, NothingIsSaid
<1> QED
  BY <1>10, <1>11, <1>12

LEMMA CountryInitReflects ==
  ASSUME NEW raw, NEW k, k.names = Get(raw, "names", None),
         \A a \in CountryArguments : Told(a, k[a], raw),
         NEW x, x = CountryInit(Locales, k.confidence, k.geoname_id,
                                k.is_in_european_union, k.iso_code, k.names)
  PROVE  /\ PlaceReflects(x, raw) /\ Listed(x.locales)
         /\ DOMAIN x = {"locales", "names"} \cup CountryArguments
<1>1. PICK known : known = [confidence |-> k.confidence, geoname_id |-> k.geoname_id,
                            is_in_european_union |-> k.is_in_european_union,
                            iso_code |-> k.iso_code]
  OBVIOUS
<1>2. DOMAIN known = CountryArguments /\ \A a \in CountryArguments : known[a] = k[a]
  BY <1>1 DEF CountryArguments
<1>3. \A a \in DOMAIN known : Told(a, known[a], raw)
  BY <1>2
<1>4. "names" \notin DOMAIN known /\ "locales" \notin DOMAIN known
  BY <1>2 DEF CountryArguments
<1>5. x = PlaceRecord(Locales, Get(raw, "names", None)) @@ known
  BY <1>1 DEF CountryInit
<1> QED
  BY <1>2, <1>3, <1>4, <1>5, PlaceOf

LEMMA CountriesReflect ==
  ASSUME NEW raw
  PROVE  PlaceReflects(Country(Locales, raw), raw)
<1>1. PICK k : k = Keywords(raw, CountryDefaults)
  OBVIOUS
<1>2. k.names = Get(raw, "names", None) /\ \A a \in CountryArguments : Told(a, k[a], raw)
  BY <1>1, CountryKeywords
<1> QED
  BY <1>1, <1>2, CountryInitReflects DEF Country

LEMMA RepresentedReflect ==
  ASSUME NEW raw
  PROVE  PlaceReflects(RepresentedCountry(Locales, raw), raw)
<1>1. PICK defaults : defaults = CountryDefaults @@ Nones({"type"})
  OBVIOUS
<1>2. "type" \in DOMAIN defaults
  BY <1>1 DEF Nones, @@
<1>3. PICK k : k = Keywords(raw, defaults)
  OBVIOUS
<1>4. /\ k.names = Get(raw, "names", None) /\ Told("type", k.type, raw)
      /\ \A a \in CountryArguments : Told(a, k[a], raw)
  BY <1>1, <1>2, <1>3, CountryKeywords
<1>5. PICK x : x = CountryInit(Locales, k.confidence, k.geoname_id,
                               k.is_in_european_union, k.iso_code, k.names)
  OBVIOUS
<1>6. /\ PlaceReflects(x, raw) /\ Listed(x.locales)
      /\ DOMAIN x = {"locales", "names"} \cup CountryArguments
  BY <1>4, <1>5, CountryInitReflects
<1>7. PICK y : y = [type |-> k.type] @@ x
  OBVIOUS
<1>8. /\ DOMAIN y = {"type"} \cup DOMAIN x /\ y.type = k.type
      /\ \A a \in DOMAIN x \ {"type"} : y[a] = x[a]
  BY <1>7 DEF @@
<1>9. \A a \in DOMAIN x \ {"locales"} : Told(a, x[a], raw)
  BY <1>6, ReflectsIsTold DEF PlaceReflects
<1>10. Reflects(y, raw)
  <2>1. \A a \in DOMAIN y \ {"locales"} : Told(a, y[a], raw)
    BY <1>4, <1>8, <1>9
  <2> QED
    BY <2>1, ReflectsIsTold
<1>11. Listed(y.locales)
  BY <1>6, <1>8
<1>12. y = RepresentedCountry(Locales, raw)
  BY <1>1, <1>3, <1>5, <1>7 DEF RepresentedCountry
<1> QED
  BY <1>10, <1>11, <1>12, NamesAreFirst DEF PlaceReflects

-----------------------------------------------------------------------------
(* The nested models *)

(* The parts of a country's model, and what a city's adds *)
CountryParts(x, raw) ==
  /\ DOMAIN x = {"continent", "country", "registered_country", "represented_country",
                 "maxmind", "traits"}
  /\ PlaceReflects(x.continent, Get(raw, "continent", Empty))
  /\ PlaceReflects(x.country, Get(raw, "country", Empty))
  /\ PlaceReflects(x.registered_country, Get(raw, "registered_country", Empty))
  /\ PlaceReflects(x.represented_country, Get(raw, "represented_country", Empty))
  /\ Reflects(x.maxmind, Get(raw, "maxmind", Empty))
  /\ Reflects(x.traits, Get(raw, "traits", Empty))

SubdivisionsReflect(made, of) ==
  /\ Len(made) = Len(of)
  /\ \A i \in DOMAIN of : PlaceReflects(made[i], of[i])
  /\ PlaceReflects(MostSpecific(Locales, made), IF of = <<>> THEN Empty ELSE of[Len(of)])

CityParts(x, raw) ==
  /\ DOMAIN x = {"city", "location", "postal", "subdivisions"}
  /\ PlaceReflects(x.city, Get(raw, "city", Empty))
  /\ Reflects(x.location, Get(raw, "location", Empty))
  /\ Reflects(x.postal, Get(raw, "postal", Empty))
  /\ SubdivisionsReflect(x.subdivisions, Get(raw, "subdivisions", <<>>))

LEMMA CountryModelReflects ==
  ASSUME NEW raw, NEW x, x = CountryModel(raw, Locales)
  PROVE  CountryParts(x, raw)
<1>1. /\ DOMAIN x = {"continent", "country", "registered_country", "represented_country",
                     "maxmind", "traits"}
      /\ x.continent = Continent(Locales, Get(raw, "continent", Empty))
      /\ x.country = Country(Locales, Get(raw, "country", Empty))
      /\ x.registered_country = Country(Locales, Get(raw, "registered_country", Empty))
      /\ x.represented_country =
           RepresentedCountry(Locales, Get(raw, "represented_country", Empty))
      /\ x.maxmind = MaxMind(Get(raw, "maxmind", Empty))
      /\ x.traits = Traits(Get(raw, "traits", Empty))
  BY DEF CountryModel
<1>2. \A r : PlaceReflects(Continent(Locales, r), r)
  <2> TAKE r
  <2>1. PICK d : d = Nones({"code", "geoname_id"})
    OBVIOUS
  <2>2. Silent(d) /\ "locales" \notin DOMAIN d
    BY <2>1, SilentNones DEF Nones
  <2> QED
    BY <2>1, <2>2, PlacesReflect DEF Continent
<1>3. \A r : Reflects(MaxMind(r), r)
  BY SilentNones, KeywordsReflect DEF MaxMind
<1> QED
  BY <1>1, <1>2, <1>3, CountriesReflect, RepresentedReflect, TraitsReflect DEF CountryParts

LEMMA SubdivisionReflects ==
  ASSUME NEW raw
  PROVE  PlaceReflects(Subdivision(Locales, raw), raw)
<1>1. PICK d : d = Nones({"confidence", "geoname_id", "iso_code"})
  OBVIOUS
<1>2. Silent(d) /\ "locales" \notin DOMAIN d
  BY <1>1, SilentNones DEF Nones
<1> QED
  BY <1>1, <1>2, PlacesReflect DEF Subdivision

LEMMA AllSubdivisionsReflect ==
  ASSUME NEW of, Len(of) \in Nat, of = [i \in 1..Len(of) |-> of[i]]
  PROVE  SubdivisionsReflect(Subdivisions(Locales, of), of)
<1>1. PICK n : n = Len(of)
  OBVIOUS
<1>2. n \in Nat /\ DOMAIN of = 1..n
  BY <1>1
<1>3. PICK made : made = Subdivisions(Locales, of)
  OBVIOUS
<1>4. made = [i \in 1..n |-> Subdivision(Locales, of[i])]
  BY <1>2, <1>3 DEF Subdivisions
<1>5. DOMAIN made = 1..n /\ \A i \in 1..n : made[i] = Subdivision(Locales, of[i])
  BY <1>4
<1>6. Len(made) = n
  <2>1. PICK S : S = {Subdivision(Locales, of[i]) : i \in 1..n}
    OBVIOUS
  <2>2. \A i \in 1..n : made[i] \in S
    BY <1>5, <2>1
  <2>3. made \in [1..n -> S]
    BY <1>4, <2>2
  <2>4. made \in Seq(S)
    BY <1>2, <2>3
  <2> QED
    BY <1>2, <1>5, <2>4, LenProperties
<1>7. \A i \in DOMAIN of : PlaceReflects(made[i], of[i])
  BY <1>2, <1>5, SubdivisionReflects
<1>8. PlaceReflects(MostSpecific(Locales, made), IF of = <<>> THEN Empty ELSE of[Len(of)])
  <2>1. CASE n = 0
    <3>1. made = <<>> /\ of = <<>>
      BY <1>2, <1>4, <2>1
    <3> QED
      BY <3>1, SubdivisionReflects DEF MostSpecific
  <2>2. CASE n # 0
    <3>1. made # <<>> /\ of # <<>>
      BY <1>2, <1>5, <2>2
    <3>2. n \in 1..n
      BY <1>2, <2>2
    <3>3. PlaceReflects(made[n], of[n])
      BY <1>2, <1>7, <3>2
    <3>4. MostSpecific(Locales, made) = made[n]
      BY <1>6, <3>1 DEF MostSpecific
    <3> QED
      BY <1>1, <3>1, <3>3, <3>4
  <2> QED
    BY <2>1, <2>2
<1> QED
  BY <1>1, <1>3, <1>6, <1>7, <1>8 DEF SubdivisionsReflect

LEMMA CityModelReflects ==
  ASSUME NEW raw, NEW x, x = CityModel(raw, Locales),
         NEW of, of = Get(raw, "subdivisions", <<>>),
         Len(of) \in Nat, of = [i \in 1..Len(of) |-> of[i]]
  PROVE  \E c, y : x = c @@ y /\ CountryParts(c, raw) /\ CityParts(y, raw)
<1>1. PICK c : c = CountryModel(raw, Locales)
  OBVIOUS
<1>2. PICK y : y = [city |-> City(Locales, Get(raw, "city", Empty)),
                    location |-> Location(Get(raw, "location", Empty)),
                    postal |-> Postal(Get(raw, "postal", Empty)),
                    subdivisions |-> Subdivisions(Locales, of)]
  OBVIOUS
<1>3. x = c @@ y
  BY <1>1, <1>2 DEF CityModel
<1>4. \A r : PlaceReflects(City(Locales, r), r)
  <2> TAKE r
  <2>1. PICK d : d = Nones({"confidence", "geoname_id"})
    OBVIOUS
  <2>2. Silent(d) /\ "locales" \notin DOMAIN d
    BY <2>1, SilentNones DEF Nones
  <2> QED
    BY <2>1, <2>2, PlacesReflect DEF City
<1>5. \A r : Reflects(Location(r), r) /\ Reflects(Postal(r), r)
  BY SilentNones, KeywordsReflect DEF Location, Postal
<1>6. SubdivisionsReflect(Subdivisions(Locales, of), of)
  BY AllSubdivisionsReflect
<1>7. CityParts(y, raw)
  BY <1>2, <1>4, <1>5, <1>6 DEF CityParts
<1>8. CountryParts(c, raw)
  BY <1>1, CountryModelReflects
<1> QED
  BY <1>3, <1>7, <1>8

LEMMA CountryNested ==
  ASSUME NEW raw, NEW c, CountryParts(c, raw)
  PROVE  NestedReflects(c, raw)
<1>1. ASSUME NEW p \in DOMAIN c \ {"subdivisions"}
      PROVE  IF p \in Places THEN PlaceReflects(c[p], Get(raw, p, Empty))
                             ELSE Reflects(c[p], Get(raw, p, Empty))
  BY DEF CountryParts, Places
<1>2. "subdivisions" \notin DOMAIN c
  BY DEF CountryParts
<1> QED
  BY <1>1, <1>2 DEF NestedReflects

LEMMA CityNested ==
  ASSUME NEW raw, NEW c, NEW y, CountryParts(c, raw), CityParts(y, raw),
         NEW x, x = c @@ y
  PROVE  NestedReflects(x, raw)
<1>1. /\ DOMAIN x = DOMAIN c \cup DOMAIN y
      /\ \A p \in DOMAIN c : x[p] = c[p]
      /\ \A p \in DOMAIN y \ DOMAIN c : x[p] = y[p]
  BY DEF @@
<1>2. ASSUME NEW p \in DOMAIN x \ {"subdivisions"}
      PROVE  IF p \in Places THEN PlaceReflects(x[p], Get(raw, p, Empty))
                             ELSE Reflects(x[p], Get(raw, p, Empty))
  <2>1. CASE p \in DOMAIN c
    <3>1. x[p] = c[p]
      BY <1>1, <2>1
    <3> QED
      BY <2>1, <3>1 DEF CountryParts, Places
  <2>2. CASE p \notin DOMAIN c
    <3>1. p \in {"city", "location", "postal"} /\ x[p] = y[p]
      BY <1>1, <1>2, <2>2 DEF CityParts
    <3> QED
      BY <3>1 DEF CityParts, Places
  <2> QED
    BY <2>1, <2>2
<1>3. x.subdivisions = y.subdivisions
  BY <1>1 DEF CountryParts, CityParts
<1>4. SubdivisionsReflect(x.subdivisions, Get(raw, "subdivisions", <<>>))
  BY <1>3 DEF CityParts
<1> QED
  BY <1>2, <1>4 DEF NestedReflects, SubdivisionsReflect

(* To ask for the network changes nothing that the response has said. *)
LEMMA NestedBesides ==
  ASSUME NEW raw, NEW x, NestedReflects(x, raw), "traits" \in DOMAIN x,
         NEW n, NEW y, y = [x EXCEPT !.traits.network = n]
  PROVE  NestedReflects(y, raw)
<1>1. PICK r : r = [x.traits EXCEPT !.network = n]
  OBVIOUS
<1>2. /\ DOMAIN y = DOMAIN x /\ y.traits = r
      /\ \A p \in DOMAIN x \ {"traits"} : y[p] = x[p]
  BY <1>1
<1>3. Reflects(x.traits, Get(raw, "traits", Empty))
  <2>1. "traits" \in DOMAIN x \ {"subdivisions"} /\ "traits" \notin Places
    BY DEF Places
  <2> QED
    BY <2>1 DEF NestedReflects
<1>4. Reflects(y.traits, Get(raw, "traits", Empty))
  BY <1>1, <1>2, <1>3, ReflectsBesides
<1>5. ASSUME NEW p \in DOMAIN y \ {"subdivisions"}
      PROVE  IF p \in Places THEN PlaceReflects(y[p], Get(raw, p, Empty))
                             ELSE Reflects(y[p], Get(raw, p, Empty))
  <2>1. CASE p = "traits"
    BY <1>4, <2>1 DEF Places
  <2>2. CASE p # "traits"
    <3>1. y[p] = x[p] /\ p \in DOMAIN x \ {"subdivisions"}
      BY <1>2, <1>5, <2>2
    <3> QED
      BY <3>1 DEF NestedReflects
  <2> QED
    BY <2>1, <2>2
<1>6. "subdivisions" \in DOMAIN y =>
        "subdivisions" \in DOMAIN x /\ y.subdivisions = x.subdivisions
  BY <1>2
<1> QED
  BY <1>5, <1>6 DEF NestedReflects

(* A response with what the reader adds still lists its subdivisions. *)
LEMMA SubdivisionsListed ==
  ASSUME NEW m, m.content \in DOMAIN Responses, ~ IsFlat(m.class),
         NEW of, of = Get(Raw(m), "subdivisions", <<>>)
  PROVE  Len(of) \in Nat /\ of = [i \in 1..Len(of) |-> of[i]]
<1>1. PICK raw : raw = Responses[m.content]
  OBVIOUS
<1>2. PICK said : said = Get(raw, "subdivisions", <<>>)
  OBVIOUS
<1>3. Len(said) \in Nat /\ said = [i \in 1..Len(said) |-> said[i]]
  BY <1>1, <1>2, ResponsesAssumption
<1>4. \A r : Get([traits |-> r] @@ raw, "subdivisions", <<>>) = said
  BY <1>2, GetFirst
<1>5. Raw(m) = raw \/ \E r : Raw(m) = [traits |-> r] @@ raw
  BY <1>1 DEF Raw, Said, Extended
<1>6. of = said
  BY <1>2, <1>4, <1>5
<1> QED
  BY <1>3, <1>6

LEMMA ModelReflects ==
  ASSUME NEW m, m.class \in Classes, m.content \in DOMAIN Responses
  PROVE  IF IsFlat(m.class) THEN Reflects(Attributes(m), Raw(m))
                            ELSE NestedReflects(Attributes(m), Raw(m))
<1>1. PICK raw : raw = Raw(m)
  OBVIOUS
<1>2. PICK x : x = Construct(m.class, raw, Locales)
  OBVIOUS
<1>3. PICK n : n = m.network
  OBVIOUS
<1>4. CASE IsFlat(m.class)
  <2>1. Reflects(x, raw)
    BY <1>2, <1>4, FlatReflects DEF IsFlat
  <2>2. Reflects([x EXCEPT !.network = n], raw)
    BY <2>1, ReflectsBesides
  <2>3. Attributes(m) = IF n = None THEN x ELSE [x EXCEPT !.network = n]
    BY <1>1, <1>2, <1>3, <1>4 DEF Attributes
  <2> QED
    BY <1>1, <1>4, <2>1, <2>2, <2>3
<1>5. CASE ~ IsFlat(m.class)
  <2>1. m.class \in NestedClasses
    BY <1>5 DEF Classes, IsFlat
  <2>2. PICK of : of = Get(raw, "subdivisions", <<>>)
    OBVIOUS
  <2>3. Len(of) \in Nat /\ of = [i \in 1..Len(of) |-> of[i]]
    BY <1>1, <1>5, <2>2, SubdivisionsListed
  <2>4. x = CountryModel(raw, Locales) \/ x = CityModel(raw, Locales)
    BY <1>2, <2>1, NestedIsCountryOrCity
  <2>5. NestedReflects(x, raw)
    <3>1. CASE x = CountryModel(raw, Locales)
      BY <3>1, CountryModelReflects, CountryNested
    <3>2. CASE x = CityModel(raw, Locales)
      <4>1. PICK c, y : x = c @@ y /\ CountryParts(c, raw) /\ CityParts(y, raw)
        BY <2>2, <2>3, <3>2, CityModelReflects
      <4> QED
        BY <4>1, CityNested
    <3> QED
      BY <2>4, <3>1, <3>2
  <2>6. "traits" \in DOMAIN x
    BY <1>2, <2>1, NestedHas
  <2>7. NestedReflects([x EXCEPT !.traits.network = n], raw)
    BY <2>5, <2>6, NestedBesides
  <2>8. Attributes(m) = IF n = None THEN x ELSE [x EXCEPT !.traits.network = n]
    BY <1>1, <1>2, <1>3, <1>5 DEF Attributes
  <2> QED
    BY <1>1, <1>5, <2>5, <2>7, <2>8
<1> QED
  BY <1>4, <1>5

(* Every attribute of a model that a caller holds has the value that the   *)
(* response has under its name, or its default, for every response; and    *)
(* every name is in the first of the locales that has one.                 *)
THEOREM ModelsReflect == Spec => []ModelsReflectResponses
<1>1. ASSUME IInv, NEW t \in Callers, Holds(t), NEW m, m = result[t]
      PROVE  IF IsFlat(m.class) THEN Reflects(Attributes(m), Raw(m))
                                ELSE NestedReflects(Attributes(m), Raw(m))
  <2>1. ModelHeld(t)
    BY <1>1 DEF IInv, CallInv, OutcomeHeld, ErrorHeld, Pending, Holds
  <2>2. Model(m)
    BY <1>1, <2>1, HeldIsModel
  <2> QED
    BY <2>2, ModelReflects DEF Model
<1>2. IInv => ModelsReflectResponses
  BY <1>1 DEF ModelsReflectResponses
<1> QED
  BY Inductive, <1>2, PTL
=============================================================================
