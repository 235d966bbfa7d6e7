------------------------------ MODULE GeoIpCalls ------------------------------
(***************************************************************************)
(* Threads, or tasks, that call the methods of a geoip2 reader or client   *)
(* and keep the model their last call returned.  What they may do with it  *)
(* is read its property "network", which the model computes once and keeps,*)
(* and compare it.                                                         *)
(*                                                                         *)
(* A model is known by its class, the response it was made of, and what    *)
(* the reader added to the response; Attributes is what it has.            *)
(***************************************************************************)
EXTENDS GeoIpRecords, FiniteSets

CONSTANTS
  Callers,
  Addresses,     \* well-formed addresses
  Malformed,     \* an argument that is no address
  Responses,     \* Responses[c]: what a record or a body with the name c says
  Locales        \* the argument "locales"

ASSUME CallsAssumption ==
  /\ Malformed \notin Addresses /\ None \notin Addresses
  /\ None \notin Nat
  /\ \A ip \in Addresses : \A n \in 0..Len(ip) : IpNetwork(ip, n) # None

VARIABLES
  at,        \* at[t]: where the call of t is
  call,      \* call[t]: the method t has called last, and its argument
  result     \* result[t]: what that call returned or raised

callVars == <<at, call, result>>

(* A definition, because TLC evaluates one once and a constant every time. *)
Said == Responses

Pending == [kind |-> "pending"]
Raised(error) == [kind |-> "raised", error |-> error]
Returned(class, content, ip, prefix_len) ==
  [kind |-> "model", class |-> class, content |-> content, ip_address |-> ip,
   prefix_len |-> prefix_len, network |-> None]

(* AddressNotFoundError, whose address and prefix only a reader knows *)
NotFound(ip, prefix_len) ==
  [kind |-> "raised", error |-> "AddressNotFoundError",
   ip_address |-> ip, prefix_len |-> prefix_len]

(* AddressNotFoundError.network *)
ErrorNetwork(e) ==
  IF e.ip_address = None \/ e.prefix_len = None THEN None
  ELSE IpNetwork(e.ip_address, e.prefix_len)

(* HTTPError *)
HttpError(status) == [kind |-> "raised", error |-> "HTTPError", http_status |-> status]

Holds(t) == at[t] = "idle" /\ result[t].kind = "model"

-----------------------------------------------------------------------------
IsFlat(class) == class \in FlatClasses

(* _model_for, _flat_model_for: the reader adds what it knows of itself. *)
Extended(class, raw, extra) ==
  IF DOMAIN extra = {} THEN raw
  ELSE IF IsFlat(class) THEN extra @@ raw
  ELSE [traits |-> extra @@ Get(raw, "traits", Empty)] @@ raw

(* A response lists the subdivisions, and says no length of a prefix: that *)
(* is for the reader to add.  Names are of responses that can be told      *)
(* apart, with whatever the reader added.                                  *)
ASSUME ResponsesAssumption ==
  /\ Locales = None \/ Locales \in Seq(STRING)
  /\ \A c \in DOMAIN Responses :
       LET raw == Responses[c]
           of == Get(raw, "subdivisions", <<>>) IN
       /\ Len(of) \in Nat /\ of = [i \in 1..Len(of) |-> of[i]]
       /\ "prefix_len" \notin DOMAIN Get(raw, "traits", Empty)
       /\ \A class \in FlatClasses \cup NestedClasses, d \in DOMAIN Responses :
            LET added == Nones({"ip_address", "prefix_len"}) IN
            Extended(class, raw, added) = Extended(class, Responses[d], added) => c = d

Extra(m) == IF m.prefix_len = None THEN Empty
            ELSE [ip_address |-> m.ip_address, prefix_len |-> m.prefix_len]

Raw(m) == Extended(m.class, Said[m.content], Extra(m))

Attributes(m) ==
  LET fresh == Construct(m.class, Raw(m), Locales) IN
  IF m.network = None THEN fresh
  ELSE IF IsFlat(m.class) THEN [fresh EXCEPT !.network = m.network]
  ELSE [fresh EXCEPT !.traits.network = m.network]

(* model.network, or model.traits.network *)
Network(m) ==
  IF IsFlat(m.class) THEN SimpleNetwork(Attributes(m))
                     ELSE TraitsNetwork(Attributes(m).traits)

(* isinstance(..., class) *)
Instances(class) ==
  CASE class = "Country" -> NestedClasses
    [] class = "City" -> NestedClasses \ {"Country"}
    [] class = "ASN" -> {"ASN", "ISP"}
    [] OTHER -> {class}

(* Mistaken: the class of the other is not looked at. *)
EqualDicts(self, other) ==
  /\ DOMAIN Attributes(self) = DOMAIN Attributes(other)
  /\ Attributes(self) = Attributes(other) /\ Raw(self) = Raw(other)

(* SimpleEquality.__eq__ *)
Eq(self, other) ==
  /\ other.class \in Instances(self.class)
  /\ DOMAIN Attributes(self) = DOMAIN Attributes(other)
  /\ Attributes(self) = Attributes(other) /\ Raw(self) = Raw(other)

(* "a == b": Python asks b first if its class is derived from that of a. *)
Equal(a, b) ==
  IF b.class \in Instances(a.class) \ {a.class} THEN Eq(b, a) ELSE Eq(a, b)

-----------------------------------------------------------------------------
CallsInit ==
  /\ at = [t \in Callers |-> "idle"]
  /\ call = [t \in Callers |-> [method |-> "none", ip_address |-> Malformed]]
  /\ result = [t \in Callers |-> Pending]

Goto(t, label) == at' = [at EXCEPT ![t] = label]

Begin(t, method, ip) ==
  /\ at[t] = "idle"
  /\ call' = [call EXCEPT ![t] = [method |-> method, ip_address |-> ip]]

Proceed(t, label) ==
  /\ Goto(t, label)
  /\ result' = [result EXCEPT ![t] = Pending]

End(t, outcome) ==
  /\ Goto(t, "idle")
  /\ result' = [result EXCEPT ![t] = outcome]

(* The caller reads "network": SimpleModel.network, Traits.network. *)
Look(t) ==
  /\ Holds(t)
  /\ result' = [result EXCEPT ![t].network = Network(result[t])]
  /\ UNCHANGED <<at, call>>
=============================================================================
