------------------------------- MODULE WebClient -------------------------------
(***************************************************************************)
(* geoip2/webservice.py: callers that share a client of the web service.   *)
(* A Client has a session of requests from the start; its callers are      *)
(* threads.  An AsyncClient opens a session of aiohttp with its first      *)
(* call; its callers are tasks of one event loop, which switches between   *)
(* them only where they await.                                             *)
(*                                                                         *)
(* The service may answer with anything, late, in pieces, or never.        *)
(***************************************************************************)
EXTENDS GeoIpCalls

CONSTANTS
  Answers,    \* the answers the service may give
  Me          \* the argument "me", or an address: neither is looked at

ASSUME AnswersAssumption ==
  \A a \in Answers :
    /\ a.status \in Nat \ {0}
    /\ a.body.kind = "object" => a.body.content \in DOMAIN Responses \cup {None}

VARIABLES
  client,     \* "Client" or "AsyncClient"; "none": the program has none
  sessions,   \* the sessions opened so far, "open" or "closed"; the client
              \* knows the last of them
  arriving,   \* arriving[t]: a piece of the answer came just now
  answer      \* answer[t]: the answer to the last call of t

clientVars == <<client, sessions, arriving, answer>>

Services == [country |-> "Country", city |-> "City", insights |-> "Insights"]

NoAnswer == [status |-> 0]
Current == sessions[Len(sessions)]   \* _existing_session

-----------------------------------------------------------------------------
(* A body: what json.loads makes of it.  An object may have both of "code" *)
(* and "error"; a text or a list can seem to.  "content" names a response, *)
(* or is None if a part of it is null or no object.                        *)
IsJson(body) == body.kind \in {"object", "text", "list", "number", "null"}

AddressCodes == {"IP_ADDRESS_NOT_FOUND", "IP_ADDRESS_RESERVED"}
AuthenticationCodes ==
  {"ACCOUNT_ID_REQUIRED", "ACCOUNT_ID_UNKNOWN", "AUTHORIZATION_INVALID",
   "LICENSE_KEY_REQUIRED", "USER_ID_REQUIRED", "USER_ID_UNKNOWN"}
QueriesCodes == {"INSUFFICIENT_FUNDS", "OUT_OF_QUERIES"}

(* _exception_for_web_service_error *)
ServiceError(code) ==
  IF code \in AddressCodes THEN NotFound(None, None)
  ELSE IF code \in AuthenticationCodes THEN Raised("AuthenticationError")
  ELSE IF code \in QueriesCodes THEN Raised("OutOfQueriesError")
  ELSE IF code = "PERMISSION_REQUIRED" THEN Raised("PermissionRequiredError")
  ELSE Raised("InvalidRequestError")

(* _exception_for_4xx_status: "in" raises for a number or null, ".get" for *)
(* a text or a list. *)
ClientError(a) ==
  IF a.body.kind = "empty" \/ a.type # "json" \/ ~ IsJson(a.body)
    THEN HttpError(a.status)
  ELSE IF a.body.kind \in {"number", "null"} THEN Raised("TypeError")
  ELSE IF a.body.code = None THEN HttpError(a.status)
  ELSE IF a.body.kind = "object" THEN ServiceError(a.body.code)
  ELSE Raised("AttributeError")

(* Mistaken: 400 is not among them. *)
From401To499(a) ==
  IF 400 < a.status /\ a.status < 500 THEN ClientError(a) ELSE HttpError(a.status)

(* _exception_for_error, with _exception_for_5xx_status and                *)
(* _exception_for_non_200_status *)
ErrorFor(a) ==
  IF 400 <= a.status /\ a.status < 500 THEN ClientError(a) ELSE HttpError(a.status)

(* _handle_success, and the model class of the method, which unpacks the   *)
(* parts with "**"                                                         *)
Success(class, body) ==
  IF ~ IsJson(body) THEN Raised("GeoIP2Error")
  ELSE IF body.kind # "object" THEN Raised("AttributeError")
  ELSE IF body.content = None THEN Raised("TypeError")
  ELSE Returned(class, body.content, None, None)

-----------------------------------------------------------------------------
ClientInit ==
  /\ client \in {"none", "Client", "AsyncClient"}
  /\ sessions = IF client = "Client" THEN <<"open">> ELSE <<>>
  /\ arriving = [t \in Callers |-> FALSE]
  /\ answer = [t \in Callers |-> NoAnswer]

(* Mistaken: the attribute is not asked for. *)
OpenSession == sessions' = Append(sessions, "open")

(* _session: opens a session unless there has been one, open or closed. *)
GetSession ==
  sessions' = IF sessions = <<>> THEN <<"open">> ELSE sessions

(* _response_for, up to the request *)
Request(t, m, ip) ==
  /\ client # "none"
  /\ Begin(t, m, ip)
  /\ answer' = [answer EXCEPT ![t] = NoAnswer]
  /\ \/ /\ ip = Malformed
        /\ End(t, Raised("ValueError"))
        /\ UNCHANGED sessions
     \/ /\ ip # Malformed /\ client = "AsyncClient"
        /\ GetSession
        /\ IF Current' = "open" THEN Proceed(t, "sent")
                                       ELSE End(t, Raised("RuntimeError"))
     \/ /\ ip # Malformed /\ client = "Client"
        /\ Proceed(t, "sent")
        /\ UNCHANGED sessions
  /\ UNCHANGED <<client, arriving>>

(* The service: a piece of an answer, silence after it, a whole answer *)
Piece(t) ==
  /\ at[t] = "sent"
  /\ arriving' = [arriving EXCEPT ![t] = ~ @]
  /\ UNCHANGED <<callVars, client, sessions, answer>>

Answer(t, a) ==
  /\ at[t] = "sent"
  /\ answer' = [answer EXCEPT ![t] = a]
  /\ arriving' = [arriving EXCEPT ![t] = FALSE]
  /\ Goto(t, "answered")
  /\ UNCHANGED <<call, result, client, sessions>>

(* The request ends without an answer. *)
Break(t, error) ==
  /\ at[t] = "sent"
  /\ End(t, Raised(error))
  /\ arriving' = [arriving EXCEPT ![t] = FALSE]
  /\ UNCHANGED <<call, client, sessions, answer>>

Disconnect(t) == Break(t, "ConnectionError")

(* Mistaken: each piece starts the time of either client again. *)
PiecewiseTimeout(t) == ~ arriving[t] /\ Break(t, "Timeout")

(* "timeout": of requests, the time between two pieces; of aiohttp, the    *)
(* time of all *)
Timeout(t) == (client = "AsyncClient" \/ ~ arriving[t]) /\ Break(t, "Timeout")

(* _response_for, from the answer on.  Only headers["Content-Type"] of     *)
(* requests raises if there is none. *)
Read(t) ==
  LET a == answer[t] IN
  /\ at[t] = "answered"
  /\ End(t, IF client = "Client" /\ a.type = "missing" THEN Raised("KeyError")
            ELSE IF a.status # 200 THEN ErrorFor(a)
            ELSE Success(Services[call[t].method], a.body))
  /\ UNCHANGED <<call, clientVars>>

(* close of an AsyncClient, which does nothing before there is a session.  *)
(* That of a Client closes connections; its session goes on to work.       *)
CloseClient ==
  /\ client = "AsyncClient" /\ sessions # <<>> /\ Current = "open"
  /\ sessions' = [sessions EXCEPT ![Len(sessions)] = "closed"]
  /\ UNCHANGED <<callVars, client, arriving, answer>>

ClientNext ==
  \/ CloseClient
  \/ \E t \in Callers :
       \/ Piece(t) \/ Disconnect(t) \/ Timeout(t) \/ Read(t)
       \/ \E a \in Answers : Answer(t, a)
       \/ \E m \in DOMAIN Services, ip \in {Me, Malformed} : Request(t, m, ip)
=============================================================================
