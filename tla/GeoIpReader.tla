------------------------------ MODULE GeoIpReader ------------------------------
(***************************************************************************)
(* geoip2/database.py: threads that share a Reader.  A method of the       *)
(* reader checks that the database is of its type, looks the address up,   *)
(* adds the address and the length of the network's prefix to the record   *)
(* that was found, and makes a model of it.                                *)
(*                                                                         *)
(* The lookup is one step: that it finds the network of its address        *)
(* whatever other threads do is what LookupsCorrect of                     *)
(* MaxMindReader_proofs says.                                              *)
(***************************************************************************)
EXTENDS SearchTree, GeoIpCalls

CONSTANTS
  Files,        \* the databases there are
  NoDatabase    \* the program does not open one

ASSUME AddressesAssumption ==
  \A ip \in Addresses : ip \in Seq(Bit) /\ Len(ip) \in {BitsV4, BitsV6}

(* The networks of a database are apart; what it has for each is a response*)
(* that does not name the network. *)
ASSUME DatabasesAssumption ==
  \A d \in Files \ {NoDatabase} :
    /\ d.ip_version \in {4, 6}
    /\ \A w \in Networks(d) :
         /\ w \in Seq(Bit) /\ Len(w) <= Bits(d.ip_version)
         /\ d.data[w] \in DOMAIN Responses
         /\ "network" \notin DOMAIN Get(Responses[d.data[w]], "traits", Empty)
         /\ \A v \in Networks(d) : Within(v, w) => v = w

VARIABLES
  db,       \* the database of the reader
  closed,   \* the reader has been closed
  record    \* record[t]: the record t has been given, as t sees it

readerVars == <<db, closed, record>>

(* Nothing decoded yet *)
NoRecord == [content |-> None, extra |-> Empty]

(* What each method makes of a record, and the words that have to be in    *)
(* the type of the database, "GeoIP2-City" being <<"GeoIP2", "City">>      *)
Methods ==
  [country |-> [class |-> "Country", type |-> <<"Country">>],
   city |-> [class |-> "City", type |-> <<"City">>],
   enterprise |-> [class |-> "Enterprise", type |-> <<"Enterprise">>],
   anonymous_ip |-> [class |-> "AnonymousIP", type |-> <<"GeoIP2", "Anonymous", "IP">>],
   asn |-> [class |-> "ASN", type |-> <<"GeoLite2", "ASN">>],
   connection_type |-> [class |-> "ConnectionType",
                        type |-> <<"GeoIP2", "Connection", "Type">>],
   domain |-> [class |-> "Domain", type |-> <<"GeoIP2", "Domain">>],
   isp |-> [class |-> "ISP", type |-> <<"GeoIP2", "ISP">>]]

(* "database_type in self._db_type" *)
IsOfType(words, type) ==
  \E i \in 0..Len(words) - Len(type) : SubSeq(words, i + 1, i + Len(type)) = type

-----------------------------------------------------------------------------
(* maxminddb's get_with_prefix_len.  An IPv4 address is looked up in an    *)
(* IPv6 database as the one with zeros in front, which are not counted.    *)
Skipped(ip) == IF db.ip_version = 6 /\ Len(ip) = BitsV4 THEN BitsV6 - BitsV4 ELSE 0
Whole(ip) == [b \in 1..Skipped(ip) |-> 0] \o ip

(* Mistaken: the zeros in front are counted. *)
CountedWhole(ip, n) == n

Counted(ip, n) == IF n > Skipped(ip) THEN n - Skipped(ip) ELSE 0

Touched(path) == \E w \in Networks(db) : Within(w, path) \/ Within(path, w)
Around(ip) == {w \in Networks(db) : Within(Whole(ip), w)}

(* Mistaken: one step too early *)
LastNode(ip) == CHOOSE n \in 0..Len(Whole(ip)) :
                  /\ Touched(First(Whole(ip), n))
                  /\ ~ Touched(First(Whole(ip), n + 1))

(* The step at which the walk leaves the tree *)
Left(ip) == CHOOSE n \in 0..Len(Whole(ip)) :
              /\ ~ Touched(First(Whole(ip), n))
              /\ \A m \in 0..n - 1 : Touched(First(Whole(ip), m))

(* Mistaken: a record that is decoded again is the same dictionary. *)
Cached(t) == CHOOSE u \in Callers : TRUE

(* The dictionary the decoder makes for t *)
Fresh(t) == t

-----------------------------------------------------------------------------
ReaderInit ==
  /\ db \in Files
  /\ closed = FALSE
  /\ record = [t \in Callers |-> NoRecord]

(* _get, up to the lookup *)
Call(t, m, ip) ==
  /\ db # NoDatabase
  /\ Begin(t, m, ip)
  /\ IF IsOfType(db.type, Methods[m].type) THEN Proceed(t, "lookup")
                                           ELSE End(t, Raised("TypeError"))
  /\ UNCHANGED readerVars

(* The address is parsed, and the version compared, before the file is     *)
(* read; a file that is mapped cannot be read when it is closed.           *)
Searchable(ip) ==
  /\ ip # Malformed
  /\ ~ (Len(ip) = BitsV6 /\ db.ip_version = 4)
  /\ ~ (closed /\ db.mapped)

Lookup(t) ==
  LET ip == call[t].ip_address IN
  /\ at[t] = "lookup"
  /\ \/ /\ ~ Searchable(ip)
        /\ End(t, Raised("ValueError"))
        /\ UNCHANGED record
     \/ /\ Searchable(ip)
        /\ Around(ip) = {}
        /\ End(t, NotFound(ip, Counted(ip, Left(ip))))
        /\ UNCHANGED record
     \/ /\ Searchable(ip)
        /\ \E w \in Around(ip) :
             record' = [record EXCEPT ![Fresh(t)] =
                          [content |-> db.data[w], extra |-> Empty]]
        /\ Proceed(t, "address")
  /\ UNCHANGED <<call, db, closed>>

Add(t, key, value) ==
  record' = [record EXCEPT ![Fresh(t)].extra = [k \in {key} |-> value] @@ @]

(* traits["ip_address"] = ip_address *)
SetAddress(t) ==
  /\ at[t] = "address"
  /\ Add(t, "ip_address", call[t].ip_address)
  /\ Goto(t, "prefix")
  /\ UNCHANGED <<call, result, db, closed>>

(* The length is that of the one network around the address. *)
SetPrefix(t) ==
  LET ip == call[t].ip_address IN
  /\ at[t] = "prefix"
  /\ \E w \in Around(ip) : Add(t, "prefix_len", Counted(ip, Len(w)))
  /\ Goto(t, "model")
  /\ UNCHANGED <<call, result, db, closed>>

MakeModel(t) ==
  LET raw == record[Fresh(t)] IN
  /\ at[t] = "model"
  /\ End(t, Returned(Methods[call[t].method].class, raw.content,
                     Get(raw.extra, "ip_address", None),
                     Get(raw.extra, "prefix_len", None)))
  /\ record' = [record EXCEPT ![Fresh(t)] = NoRecord]
  /\ UNCHANGED <<call, db, closed>>

Close ==
  /\ db # NoDatabase /\ ~ closed
  /\ closed' = TRUE
  /\ UNCHANGED <<callVars, db, record>>

ReaderStep(t) == Lookup(t) \/ SetAddress(t) \/ SetPrefix(t) \/ MakeModel(t)

ReaderNext ==
  \/ Close
  \/ \E t \in Callers :
       \/ ReaderStep(t)
       \/ \E m \in DOMAIN Methods, ip \in Addresses \cup {Malformed} : Call(t, m, ip)
=============================================================================
