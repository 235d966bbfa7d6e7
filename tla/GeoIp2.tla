-------------------------------- MODULE GeoIp2 --------------------------------
(***************************************************************************)
(* The package geoip2 as its callers see it: models, made of the records   *)
(* of a database or of the answers of the web service.  A program has a    *)
(* reader or a client.                                                     *)
(***************************************************************************)
EXTENDS GeoIpReader, WebClient

vars == <<callVars, readerVars, clientVars>>

Init ==
  /\ CallsInit /\ ReaderInit /\ ClientInit
  /\ db = NoDatabase <=> client # "none"

Next ==
  \/ ReaderNext /\ UNCHANGED clientVars
  \/ ClientNext /\ UNCHANGED readerVars
  \/ (\E t \in Callers : Look(t)) /\ UNCHANGED <<readerVars, clientVars>>

(* A thread that can go on does; a request that can time out does.         *)
Fairness ==
  \A t \in Callers :
    /\ WF_vars(ReaderStep(t) /\ UNCHANGED clientVars)
    /\ WF_vars(Read(t) /\ UNCHANGED readerVars)
    /\ WF_vars(Timeout(t) /\ UNCHANGED readerVars)

Spec == Init /\ [][Next]_vars
FairSpec == Spec /\ Fairness

-----------------------------------------------------------------------------
Classes == FlatClasses \cup NestedClasses

Errors == {"TypeError", "ValueError", "AttributeError", "KeyError", "RuntimeError",
           "Timeout", "ConnectionError", "GeoIP2Error", "AddressNotFoundError",
           "HTTPError", "AuthenticationError", "OutOfQueriesError",
           "PermissionRequiredError", "InvalidRequestError"}

ReaderErrors == {"TypeError", "ValueError", "AddressNotFoundError"}

Model(m) ==
  /\ m.class \in Classes /\ m.content \in DOMAIN Responses
  /\ m.prefix_len = None <=> m.ip_address = None
  /\ m.ip_address # None =>
       /\ m.ip_address \in Addresses /\ m.prefix_len \in 0..Len(m.ip_address)

TypeOK ==
  /\ at \in [Callers -> {"idle", "lookup", "address", "prefix", "model", "sent", "answered"}]
  /\ \A t \in Callers :
       /\ result[t].kind \in {"pending", "model", "raised"}
       /\ result[t].kind = "pending" => at[t] # "idle" \/ call[t].method = "none"
       /\ result[t].kind = "model" => Model(result[t])
       /\ result[t].kind = "raised" =>
            result[t].error \in IF client = "none" THEN ReaderErrors ELSE Errors
       /\ call[t].method \in DOMAIN Methods \cup DOMAIN Services \cup {"none"}
  /\ db \in Files /\ closed \in BOOLEAN
  /\ client \in {"none", "Client", "AsyncClient"}
  /\ sessions \in Seq({"open", "closed"})
  /\ arriving \in [Callers -> BOOLEAN]

-----------------------------------------------------------------------------
Unsaid(a) == IF a = "names" THEN {Empty} ELSE {None, FALSE}

(* What was said is there under its name; the rest says nothing. *)
Reflects(attributes, raw) ==
  \A a \in DOMAIN attributes \ {"locales"} :
    IF a \in DOMAIN raw \ {"network"} /\ raw[a] # None THEN attributes[a] = raw[a]
    ELSE a = "network" \/ attributes[a] \in Unsaid(a)

(* The name is the one in the first locale that has one. *)
WellNamed(place) ==
  \/ Name(place) = None /\ \A i \in DOMAIN place.locales :
                             place.locales[i] \notin DOMAIN place.names
  \/ \E i \in DOMAIN place.locales :
       /\ place.locales[i] \in DOMAIN place.names
       /\ Name(place) = place.names[place.locales[i]]
       /\ \A j \in 1..i - 1 : place.locales[j] \notin DOMAIN place.names

PlaceReflects(place, raw) == Reflects(place, raw) /\ WellNamed(place)

Places == {"city", "continent", "country", "registered_country", "represented_country"}

NestedReflects(attributes, raw) ==
  /\ \A p \in DOMAIN attributes \ {"subdivisions"} :
       IF p \in Places THEN PlaceReflects(attributes[p], Get(raw, p, Empty))
                       ELSE Reflects(attributes[p], Get(raw, p, Empty))
  /\ "subdivisions" \in DOMAIN attributes =>
       LET of == Get(raw, "subdivisions", <<>>)
           made == attributes.subdivisions IN
       /\ Len(made) = Len(of)
       /\ \A i \in DOMAIN of : PlaceReflects(made[i], of[i])
       /\ PlaceReflects(MostSpecific(Locales, made),
                        IF of = <<>> THEN Empty ELSE of[Len(of)])

(* Every attribute of a model has the value the response has under its     *)
(* name, in the part of its name, and is None, False or empty where the    *)
(* response says nothing; a name is in the first of the locales that has   *)
(* one (webservice.py:11-22, database.py:60-66, database.py:84-86,         *)
(* records.py:544-571).  What a class does not know of is dropped.         *)
ModelsReflectResponses ==
  \A t \in Callers : Holds(t) =>
    LET m == result[t] IN
    IF IsFlat(m.class) THEN Reflects(Attributes(m), Raw(m))
                       ELSE NestedReflects(Attributes(m), Raw(m))

(* A model a reader returns is of the record of the network that contains  *)
(* the address of the call; it names that address, and a network in which  *)
(* every address has this record, whatever other threads that share the    *)
(* reader do between the steps of _get and _model_for, and whether the     *)
(* reader is closed meanwhile (database.py:232-270).                       *)
ModelsKeepTheirAddress ==
  \A t \in Callers : Holds(t) /\ db # NoDatabase =>
    LET m == result[t]
        net == Network(m) IN
    /\ m.ip_address = call[t].ip_address
    /\ InNetwork(m.ip_address, net)
    /\ \A a \in Addresses : InNetwork(a, net) =>
         /\ Around(a) = Around(m.ip_address)
         /\ \E w \in Around(a) : db.data[w] = m.content

(* errors.py:31-33 "In particular, this is the largest network where no    *)
(* address would be found."                                                *)
NotFoundNetworkIsLargest ==
  \A t \in Callers :
    /\ at[t] = "idle" /\ db # NoDatabase
    /\ result[t].kind = "raised" /\ result[t].error = "AddressNotFoundError"
    => LET ip == call[t].ip_address
           net == ErrorNetwork(result[t])
           upTo(n) == First(Whole(ip), Skipped(ip) + n)
           n == Len(net.prefix) IN
       /\ InNetwork(ip, net)
       /\ ~ Touched(upTo(n))
       /\ n > 0 => Touched(upTo(n - 1))

(* Two models are equal, in either order, when they are of one class and   *)
(* one response and neither or both were asked for a network that is       *)
(* computed when it is first read: that property changes what is compared  *)
(* (mixins.py:11-14, models.py:341-354, records.py:894-907).               *)
EqualUntilLooked ==
  \A t, u \in Callers : Holds(t) /\ Holds(u) =>
    LET a == result[t]
        b == result[u]
        same(f) == a[f] = b[f]
        computed == a.prefix_len # None IN
    Equal(a, b) <=>
      /\ same("class") /\ same("content")
      /\ same("ip_address") /\ same("prefix_len")
      /\ computed => same("network")

-----------------------------------------------------------------------------
(* What each error of a client says of the answer, and what else raises *)
Explains(error, t) ==
  LET a == answer[t]
      answered == a # NoAnswer
      is4xx == answered /\ a.status \in 400..499
      tells(codes) == is4xx /\ a.type = "json" /\ a.body.kind = "object"
                        /\ a.body.code \in codes IN
  /\ error = "ValueError" => call[t].ip_address = Malformed
  /\ error = "RuntimeError" => client = "AsyncClient" /\ Current = "closed"
  /\ error \in {"Timeout", "ConnectionError"} => ~ answered
  /\ error = "KeyError" => client = "Client" /\ a.type = "missing"
  /\ error = "GeoIP2Error" => a.status = 200 /\ ~ IsJson(a.body)
  /\ error \in {"TypeError", "AttributeError"} =>
       answered /\ IsJson(a.body) /\ (a.body.kind = "object" => a.body.content = None)
  /\ error = "AddressNotFoundError" => tells(AddressCodes)
  /\ error = "AuthenticationError" => tells(AuthenticationCodes)
  /\ error = "OutOfQueriesError" => tells(QueriesCodes)
  /\ error = "PermissionRequiredError" => tells({"PERMISSION_REQUIRED"})
  /\ error = "InvalidRequestError" => is4xx /\ a.body.kind = "object"
  /\ error = "HTTPError" => answered /\ a.status # 200

(* A call of either client ends in the way its own answer calls for: a     *)
(* model of a body of status 200, the error the code of a 4xx answer names,*)
(* an HTTPError with the status otherwise.  What is not an error of geoip2 *)
(* has one of a few causes (webservice.py:94-205, errors.py).              *)
AnswersAreHeeded ==
  \A t \in Callers : at[t] = "idle" /\ client # "none" /\ result[t].kind # "pending" =>
    LET a == answer[t]
        r == result[t] IN
    /\ r.kind = "model" =>
         /\ a.status = 200 /\ r.content = a.body.content
         /\ r.class = Services[call[t].method]
    /\ r.kind = "raised" =>
         /\ Explains(r.error, t)
         /\ r.error = "HTTPError" =>
              /\ r.http_status = a.status
              /\ ~ (/\ a.status \in 400..499 /\ a.type = "json"
                    /\ a.body.kind = "object" /\ a.body.code # None)

(* No session is open but the one the client knows, and so close() leaves  *)
(* none open, however many calls were under way when the first of them     *)
(* opened it (webservice.py:325-333, 352-358).                             *)
SessionsDoNotLeak ==
  \A i \in DOMAIN sessions : sessions[i] = "open" => i = Len(sessions)

(* A call of a reader ends; one of an AsyncClient ends whatever the service*)
(* does; one of a Client ends if no more pieces come (database.py:232-270, *)
(* webservice.py:329, 489; "timeout", webservice.py:250-252).              *)
CallsEnd ==
  \A t \in Callers :
    (client = "AsyncClient" \/ <>[](~ arriving[t])) =>
      (at[t] # "idle" ~> at[t] = "idle")
=============================================================================
