----------------------------- MODULE HttpClient -----------------------------
(***************************************************************************)
(* The outbound HTTP client that the adapters share                        *)
(* (packages/shared/src/utils/http-client.ts, ADR-006): the attempts of    *)
(* each call of request().                                                 *)
(*                                                                         *)
(* Abstracted: an HTTP status, to what the client, an adapter or the ADR   *)
(* tells apart; headers, URLs and redaction; the length of a backoff,      *)
(* Retry-After included; bodies, to whether they can be read and parsed.   *)
(***************************************************************************)
EXTENDS Naturals, Sequences

CONSTANTS
  Calls,       \* calls of request()
  maxRetries   \* configured for the client that each call goes through

ASSUME HttpAssumption == maxRetries \in [Calls -> Nat]

VARIABLES
  http,        \* where each call is
  idempotent,  \* the option
  response,    \* the response being read, or how the last attempt ended
  outcomes     \* history: how each attempt ended

httpVars == <<http, idempotent, response, outcomes>>

CallPhases == {"idle", "sending", "reading", "sleeping", "returned", "threw"}
\* 2xx; 404; any other 4xx but 429; 429, 502, 503 and 504; any other, 500 among them.
Statuses == {"ok", "missing", "refused", "busy", "failure"}

\* The status of the response, if there was one, and what became of it.
Outcomes == [status : Statuses \cup {"none"},
             how : {"none", "reading", "read", "unread", "network", "timeout"}]
NoResponse == [status |-> "none", how |-> "none"]

\* Unset by a GET, or by a method that is not safe.
Options == {"yes", "no", "unset"}

HttpTypeOK ==
  /\ http \in [Calls -> CallPhases]
  /\ idempotent \in [Calls -> Options]
  /\ response \in [Calls -> Outcomes]
  /\ outcomes \in [Calls -> Seq(Outcomes)]

HttpInit ==
  /\ http = [c \in Calls |-> "idle"]
  /\ idempotent = [c \in Calls |-> "unset"]
  /\ response = [c \in Calls |-> NoResponse]
  /\ outcomes = [c \in Calls |-> <<>>]

\* Mutant: the option is not looked at.
Retries_Always(c) == maxRetries[c]

\* Retries(c) is maxRetries of one request.
Retries(c) == IF idempotent[c] = "no" THEN 0 ELSE maxRetries[c]

attempt(c) == Len(outcomes[c])

isRetryableStatus(s) == s = "busy"

request(c, option) ==
  /\ http[c] = "idle"
  /\ http' = [http EXCEPT ![c] = "sending"]
  /\ idempotent' = [idempotent EXCEPT ![c] = option]
  /\ UNCHANGED <<response, outcomes>>

\* fetch() resolves: clearTimeout, so that no timer watches the body.
Respond(c, s) ==
  /\ http[c] = "sending"
  /\ http' = [http EXCEPT ![c] = "reading"]
  /\ response' = [response EXCEPT ![c] = [status |-> s, how |-> "reading"]]
  /\ UNCHANGED <<idempotent, outcomes>>

\* An attempt ended with o; the call goes on to p.
Attempted(c, o, p) ==
  /\ outcomes' = [outcomes EXCEPT ![c] = Append(@, o)]
  /\ response' = [response EXCEPT ![c] = o]
  /\ http' = [http EXCEPT ![c] = p]
  /\ UNCHANGED idempotent

\* "throw" or, if a retry is left, "await sleep(...); continue".
OrSleep(c) == IF attempt(c) < Retries(c) THEN "sleeping" ELSE "threw"

BodyRead(c) ==
  /\ http[c] = "reading"
  /\ Attempted(c, [status |-> response[c].status, how |-> "read"],
               CASE response[c].status = "ok" -> "returned"
                 [] isRetryableStatus(response[c].status) -> OrSleep(c)
                 [] OTHER -> "threw")

\* json() or text() rejects before the status is looked at: retried, whatever it was.
Unread(c) ==
  /\ http[c] = "reading"
  /\ Attempted(c, [status |-> response[c].status, how |-> "unread"], OrSleep(c))

\* fetch() rejects.
NetworkFails(c) ==
  /\ http[c] = "sending"
  /\ Attempted(c, [status |-> "none", how |-> "network"], OrSleep(c))

\* controller.abort(): HttpTimeoutError, which is not retried.
Abort(c) ==
  /\ http[c] = "sending"
  /\ Attempted(c, [status |-> "none", how |-> "timeout"], "threw")

Retry(c) ==
  /\ http[c] = "sleeping"
  /\ http' = [http EXCEPT ![c] = "sending"]
  /\ UNCHANGED <<idempotent, response, outcomes>>

\* The caller has the response or the error.
Release(c) ==
  /\ http' = [http EXCEPT ![c] = "idle"]
  /\ idempotent' = [idempotent EXCEPT ![c] = "unset"]
  /\ response' = [response EXCEPT ![c] = NoResponse]
  /\ outcomes' = [outcomes EXCEPT ![c] = <<>>]

\* What happens to a call whichever caller it has.
HttpStep(c) == BodyRead(c) \/ Unread(c) \/ NetworkFails(c) \/ Abort(c) \/ Retry(c)

\* A call of a client that anyone may use.
AnyCall(c) ==
  \/ \E option \in Options : request(c, option)
  \/ \E s \in Statuses : Respond(c, s)
  \/ HttpStep(c)
  \/ http[c] \in {"returned", "threw"} /\ Release(c)

HttpSpec == HttpInit /\ [][\E c \in Calls : AnyCall(c)]_httpVars

-----------------------------------------------------------------------------
(* Properties. *)

\* Another attempt of the call is on its way.
again(c) == http[c] \in {"sending", "reading", "sleeping"}

\* The vendor was busy, or what it answered is not known.
Undecided(o) == o.how \in {"network", "unread"} \/ (o.how = "read" /\ o.status = "busy")

(***************************************************************************)
(* request() as it is: an attempt is followed by another only if its       *)
(* outcome left the request undecided, never once an answer other than     *)
(* "busy" was read nor after a timeout; a call marked as not idempotent is *)
(* sent once; and none gives up on such an outcome while a retry is left.  *)
(***************************************************************************)
RetriedOnlyUndecided ==
  \A c \in Calls :
    LET budget == IF idempotent[c] = "no" THEN 1 ELSE maxRetries[c] + 1
    IN /\ attempt(c) + (IF again(c) THEN 1 ELSE 0) <= budget
       /\ \A n \in 1 .. attempt(c) : (n < attempt(c) \/ again(c)) => Undecided(outcomes[c][n])
       /\ (http[c] = "threw" /\ Undecided(response[c])) => attempt(c) = budget
=============================================================================
