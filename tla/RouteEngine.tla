---------------------------- MODULE RouteEngine ----------------------------
(***************************************************************************)
(* Route selection: the requests of RouteEngine, the providers they ask in *)
(* parallel and the circuit breaker of each provider                       *)
(* (packages/routing-engine/src).                                          *)
(*                                                                         *)
(* A request asks every provider in one synchronous step and then waits,   *)
(* per provider, for the first of its answer and a timer.  A call that     *)
(* lost that race is still in flight: nothing cancels it, and its result   *)
(* still reaches the breaker (an orphan here).                             *)
(*                                                                         *)
(* Abstracted: time to whether the recovery timeout has elapsed since the  *)
(* last failure and whether a quote has expired; scores to a free choice   *)
(* among the valid quotes; chain support to a free set of providers.  The  *)
(* registry is filled before the first request.                            *)
(***************************************************************************)
EXTENDS Naturals, FiniteSets

CONSTANTS
  Requests,
  Providers,
  failureThreshold,
  minQuotesRequired,
  MaxFailures,   \* bound: failures counted by a breaker
  MaxOrphans,    \* bound: a provider with this many orphans is asked no more
  NoProvider

ASSUME RouteAssumption ==
  /\ failureThreshold \in Nat \ {0}
  /\ minQuotesRequired \in Nat
  /\ MaxFailures \in Nat /\ MaxOrphans \in Nat
  /\ NoProvider \notin Providers

VARIABLES
  state,      \* state of each breaker
  failures,   \* its consecutive failures
  cooldown,   \* lastFailureTime: "none", or whether recoveryTimeout has "elapsed" since
  orphans,    \* calls of each provider that nobody waits for
  pc,         \* what each request is doing
  answer,     \* what it knows of each provider it asked
  route       \* the provider it selected

breakers == <<state, failures, cooldown>>
requests == <<pc, answer, route>>
vars == <<breakers, orphans, requests>>

CircuitState == {"CLOSED", "OPEN", "HALF_OPEN"}
Cooldown == {"none", "recent", "elapsed"}
Answers == {"none", "pending", "quote", "expired", "null"}
Phases == {"idle", "selecting", "comparing", "chosen", "executing"}

TypeOK ==
  /\ state \in [Providers -> CircuitState]
  /\ failures \in [Providers -> Nat]
  /\ cooldown \in [Providers -> Cooldown]
  /\ orphans \in [Providers -> Nat]
  /\ pc \in [Requests -> Phases]
  /\ answer \in [Requests -> [Providers -> Answers]]
  /\ route \in [Requests -> Providers \cup {NoProvider}]

NoAnswers == [p \in Providers |-> "none"]

Init ==
  /\ state = [p \in Providers |-> "CLOSED"]
  /\ failures = [p \in Providers |-> 0]
  /\ cooldown = [p \in Providers |-> "none"]
  /\ orphans = [p \in Providers |-> 0]
  /\ pc = [r \in Requests |-> "idle"]
  /\ answer = [r \in Requests |-> NoAnswers]
  /\ route = [r \in Requests |-> NoProvider]

-----------------------------------------------------------------------------
(* The circuit breaker. *)

shouldAttemptRecovery_Always(p) == cooldown[p] # "none"

shouldAttemptRecovery(p) == cooldown[p] = "elapsed"

\* The state once getState() or the head of execute() has looked at it.
getState(p) ==
  IF state[p] = "OPEN" /\ shouldAttemptRecovery(p) THEN "HALF_OPEN" ELSE state[p]

\* The breakers of S are looked at, by the health check or by execute().
Look(S) == state' = [p \in Providers |-> IF p \in S THEN getState(p) ELSE state[p]]

onSuccess_KeepCount(p) ==
  /\ state' = [state EXCEPT ![p] = "CLOSED"]
  /\ cooldown' = [cooldown EXCEPT ![p] = "none"]
  /\ UNCHANGED failures

onSuccess(p) ==
  /\ failures' = [failures EXCEPT ![p] = 0]
  /\ state' = [state EXCEPT ![p] = "CLOSED"]
  /\ cooldown' = [cooldown EXCEPT ![p] = "none"]

onFailure(p) ==
  /\ failures[p] < MaxFailures
  /\ failures' = [failures EXCEPT ![p] = @ + 1]
  /\ cooldown' = [cooldown EXCEPT ![p] = "recent"]
  /\ state' = [state EXCEPT ![p] = IF failures[p] + 1 >= failureThreshold THEN "OPEN" ELSE @]

resetCircuit(p) ==
  /\ onSuccess(p)
  /\ UNCHANGED <<orphans, requests>>

\* recoveryTimeout ms have passed since the last failure.
Elapse(p) ==
  /\ cooldown[p] = "recent"
  /\ cooldown' = [cooldown EXCEPT ![p] = "elapsed"]
  /\ UNCHANGED <<state, failures, orphans, requests>>

\* getCircuitState(), for monitoring: it may move the breaker.
getCircuitState(p) ==
  /\ Look({p})
  /\ UNCHANGED <<failures, cooldown, orphans, requests>>

-----------------------------------------------------------------------------
(* Asking the providers. *)

\* fetchQuotesParallel on the providers of Q: all of them are called before any answers.
fetchQuotesParallel(r, Q, phase) ==
  /\ pc' = [pc EXCEPT ![r] = phase]
  /\ answer' = [answer EXCEPT ![r] = [p \in Providers |->
       CASE p \notin Q -> "none"
         [] getState(p) = "OPEN" -> "null"
         [] OTHER -> "pending"]]
  /\ UNCHANGED route

\* selectBestRoute up to its await; skipOpenCircuits is on.
selectBestRoute(r) == \E S \in SUBSET Providers :
  LET healthy == {p \in S : getState(p) # "OPEN"} IN
  /\ pc[r] = "idle"
  /\ \A p \in S : orphans[p] < MaxOrphans
  /\ Look(S)
  /\ IF healthy = {}
     THEN UNCHANGED requests
     ELSE fetchQuotesParallel(r, healthy, "selecting")
  /\ UNCHANGED <<failures, cooldown, orphans>>

\* getAllRoutes up to its await: no health check.
getAllRoutes(r) == \E S \in SUBSET Providers \ {{}} :
  /\ pc[r] = "idle"
  /\ \A p \in S : orphans[p] < MaxOrphans
  /\ Look(S)
  /\ fetchQuotesParallel(r, S, "comparing")
  /\ UNCHANGED <<failures, cooldown, orphans>>

Answered(r, p, a) ==
  /\ answer[r][p] = "pending"
  /\ answer' = [answer EXCEPT ![r][p] = a]
  /\ UNCHANGED <<pc, route>>

QuoteReturns(r, p) ==
  /\ Answered(r, p, "quote")
  /\ onSuccess(p)
  /\ UNCHANGED orphans

QuoteThrows(r, p) ==
  /\ Answered(r, p, "null")
  /\ onFailure(p)
  /\ UNCHANGED orphans

createTimeout_Never(r, p) ==
  /\ FALSE
  /\ Answered(r, p, "null")
  /\ UNCHANGED <<breakers, orphans>>

\* The timer wins the race: the request goes on, the call stays in flight.
createTimeout(r, p) ==
  /\ Answered(r, p, "null")
  /\ orphans' = [orphans EXCEPT ![p] = @ + 1]
  /\ UNCHANGED breakers

OrphanEnds_Twice(p) ==
  /\ orphans' = [orphans EXCEPT ![p] = @ - 1]
  /\ onSuccess(p) \/ onFailure(p)
  /\ UNCHANGED requests

OrphanEnds(p) ==
  /\ orphans[p] > 0
  /\ orphans' = [orphans EXCEPT ![p] = @ - 1]
  /\ onSuccess(p) \/ onFailure(p)
  /\ UNCHANGED requests

\* expires_at of a quote passes.
QuoteExpires(r, p) ==
  /\ answer[r][p] = "quote"
  /\ answer' = [answer EXCEPT ![r][p] = "expired"]
  /\ UNCHANGED <<breakers, orphans, pc, route>>

Finish(r) ==
  /\ pc' = [pc EXCEPT ![r] = "idle"]
  /\ answer' = [answer EXCEPT ![r] = NoAnswers]
  /\ route' = [route EXCEPT ![r] = NoProvider]

\* Every provider has answered or timed out: the valid quotes are ranked.
Settled(r) == \A p \in Providers : answer[r][p] # "pending"
validQuotes(r) == {p \in Providers : answer[r][p] = "quote"}

\* NoValidQuotesError, or getAllRoutes returning its ranking.
NoRoute(r) ==
  /\ Settled(r)
  /\ \/ pc[r] = "comparing"
     \/ /\ pc[r] = "selecting"
        /\ validQuotes(r) = {} \/ Cardinality(validQuotes(r)) < minQuotesRequired
  /\ Finish(r)
  /\ UNCHANGED <<breakers, orphans>>

selectBest(r) ==
  /\ pc[r] = "selecting"
  /\ Settled(r)
  /\ Cardinality(validQuotes(r)) >= minQuotesRequired
  /\ \E p \in validQuotes(r) : route' = [route EXCEPT ![r] = p]
  /\ pc' = [pc EXCEPT ![r] = "chosen"]
  /\ UNCHANGED <<breakers, orphans, answer>>

\* The caller drops the route it was given.
Drop(r) ==
  /\ pc[r] = "chosen"
  /\ Finish(r)
  /\ UNCHANGED <<breakers, orphans>>

\* executeRoute, through the same breaker: no timer bounds this call.
executeRoute(r) == \E p \in Providers :
  /\ pc[r] = "chosen"
  /\ p = route[r]
  /\ Look({p})
  /\ IF getState(p) = "OPEN"
     THEN Finish(r)
     ELSE /\ pc' = [pc EXCEPT ![r] = "executing"]
          /\ UNCHANGED <<answer, route>>
  /\ UNCHANGED <<failures, cooldown, orphans>>

ExecutionEnds(r) == \E p \in Providers :
  /\ pc[r] = "executing"
  /\ p = route[r]
  /\ onSuccess(p) \/ onFailure(p)
  /\ Finish(r)
  /\ UNCHANGED orphans

-----------------------------------------------------------------------------
ProviderStep(p) == resetCircuit(p) \/ Elapse(p) \/ getCircuitState(p) \/ OrphanEnds(p)

AnswerStep(r, p) ==
  QuoteReturns(r, p) \/ QuoteThrows(r, p) \/ createTimeout(r, p) \/ QuoteExpires(r, p)

RequestStep(r) ==
  \/ selectBestRoute(r) \/ getAllRoutes(r) \/ NoRoute(r) \/ selectBest(r)
  \/ Drop(r) \/ executeRoute(r) \/ ExecutionEnds(r)

Next ==
  \/ \E p \in Providers : ProviderStep(p)
  \/ \E r \in Requests, p \in Providers : AnswerStep(r, p)
  \/ \E r \in Requests : RequestStep(r)

\* Timers fire and continuations run; a provider owes nothing.
Fairness == \A r \in Requests :
  /\ \A p \in Providers : WF_vars(createTimeout(r, p))
  /\ WF_vars(NoRoute(r) \/ selectBest(r))

Spec == Init /\ [][Next]_vars
FairSpec == Spec /\ Fairness

-----------------------------------------------------------------------------
(* Properties. *)

\* A breaker is CLOSED exactly while it has counted fewer failures than the threshold,
\* whatever order the results of concurrent calls, orphans included, reach
\* onSuccess and onFailure in.
ClosedIffHealthy == \A p \in Providers : state[p] = "CLOSED" <=> failures[p] < failureThreshold

\* A breaker that is not CLOSED has a lastFailureTime: without one shouldAttemptRecovery is
\* false for ever and the provider is never asked again.
CanRecover == \A p \in Providers : cooldown[p] = "none" => state[p] = "CLOSED"

\* A call of provider p by request r that r still waits for.
Waiting(r, p) == answer[r][p] = "pending" \/ (pc[r] = "executing" /\ route[r] = p)

\* While a breaker is OPEN and its recovery timeout runs, neither selectBestRoute,
\* getAllRoutes nor executeRoute lets a call through to the provider.
OpenShields == [][\A r \in Requests, p \in Providers :
  state[p] = "OPEN" /\ cooldown[p] = "recent" /\ Waiting(r, p)' => Waiting(r, p)]_vars

\* A request for routes ends although no provider ever answers: the timers bound it.
EveryRequestResolves == \A r \in Requests :
  pc[r] \in {"selecting", "comparing"} ~> pc[r] \in {"idle", "chosen"}
=============================================================================
