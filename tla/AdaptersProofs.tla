--------------------------- MODULE AdaptersProofs ---------------------------
(***************************************************************************)
(* Theorems about routing and the outbound adapters: the retries of        *)
(* HttpClient; the statuses and the choice of RouteProviders, which rest   *)
(* on it; the promises of GasAbstraction; and the circuit breakers of      *)
(* RouteEngine.  But for the first two, they share no state.               *)
(***************************************************************************)
EXTENDS RouteProviders, GasAbstraction, RouteEngine, SequenceTheorems, TLAPS

-----------------------------------------------------------------------------
(* HttpClient. *)

\* An idle call has made no attempt yet, and the status being read is one the server sent.
CallOK(c) ==
  /\ http[c] = "idle" => outcomes[c] = <<>> /\ response[c] = NoResponse
  /\ http[c] = "reading" => response[c].status \in Statuses
  /\ http[c] = "returned" => response[c].status = "ok"

\* RetriedOnlyUndecided, of one call.
WithinBudget(c) ==
  LET budget == IF idempotent[c] = "no" THEN 1 ELSE maxRetries[c] + 1
  IN /\ attempt(c) + (IF again(c) THEN 1 ELSE 0) <= budget
     /\ \A n \in 1 .. attempt(c) : (n < attempt(c) \/ again(c)) => Undecided(outcomes[c][n])
     /\ (http[c] = "threw" /\ Undecided(response[c])) => attempt(c) = budget

HttpInv == HttpTypeOK /\ \A c \in Calls : CallOK(c) /\ WithinBudget(c)

LEMMA HttpInvImplies == HttpInv => RetriedOnlyUndecided
BY DEF HttpInv, RetriedOnlyUndecided, WithinBudget

LEMMA HttpInitial == HttpInit => HttpInv
<1> SUFFICES ASSUME HttpInit PROVE HttpInv
  OBVIOUS
<1>1. HttpTypeOK
  BY DEF HttpInit, HttpTypeOK, CallPhases, Options, Outcomes, NoResponse
<1>2. ASSUME NEW c \in Calls PROVE CallOK(c) /\ WithinBudget(c)
  BY HttpAssumption DEF HttpInit, CallOK, WithinBudget, attempt, again
<1> QED BY <1>1, <1>2 DEF HttpInv

\* The five ways a call changes leave the others as they are.
LEMMA OtherCalls ==
  ASSUME HttpInv, HttpTypeOK', NEW c \in Calls,
         \A d \in Calls \ {c} :
           /\ http'[d] = http[d] /\ idempotent'[d] = idempotent[d]
           /\ response'[d] = response[d] /\ outcomes'[d] = outcomes[d],
         CallOK(c)', WithinBudget(c)'
  PROVE  HttpInv'
<1>1. ASSUME NEW d \in Calls \ {c} PROVE CallOK(d)' /\ WithinBudget(d)'
  <2>1. CallOK(d) /\ WithinBudget(d)
    BY DEF HttpInv
  <2>2. /\ http'[d] = http[d] /\ idempotent'[d] = idempotent[d]
        /\ response'[d] = response[d] /\ outcomes'[d] = outcomes[d]
    OBVIOUS
  <2> QED BY <2>1, <2>2 DEF CallOK, WithinBudget, attempt, again
<1> QED BY <1>1 DEF HttpInv

LEMMA RequestOK ==
  ASSUME HttpInv, NEW c \in Calls, NEW option \in Options, request(c, option)
  PROVE  HttpInv'
<1>1. HttpTypeOK'
  BY DEF HttpInv, HttpTypeOK, request, CallPhases
<1>2. /\ outcomes'[c] = <<>> /\ http'[c] = "sending" /\ idempotent'[c] = option
      /\ response'[c] = NoResponse /\ maxRetries[c] \in Nat
  BY HttpAssumption DEF HttpInv, HttpTypeOK, request, CallOK
<1>3. CallOK(c)' /\ WithinBudget(c)'
  BY <1>2 DEF CallOK, WithinBudget, attempt, again
<1> QED BY <1>1, <1>3, OtherCalls DEF HttpInv, HttpTypeOK, request

LEMMA RespondOK ==
  ASSUME HttpInv, NEW c \in Calls, NEW s \in Statuses, Respond(c, s)
  PROVE  HttpInv'
<1>1. HttpTypeOK'
  BY DEF HttpInv, HttpTypeOK, Respond, CallPhases, Outcomes
<1>2. CallOK(c)' /\ WithinBudget(c)'
  BY DEF HttpInv, HttpTypeOK, Respond, CallOK, WithinBudget, attempt, again
<1> QED BY <1>1, <1>2, OtherCalls DEF HttpInv, HttpTypeOK, Respond

\* An attempt that ends adds its outcome: the call goes on only after one that decides nothing,
\* while a retry is left, and gives up on such a one only when none is.
LEMMA AttemptedOK ==
  ASSUME HttpInv, NEW c \in Calls, NEW o \in Outcomes, NEW p \in CallPhases,
         http[c] \in {"sending", "reading"}, Attempted(c, o, p),
         \/ p = "sleeping" /\ Undecided(o) /\ attempt(c) < Retries(c)
         \/ p = "threw" /\ (Undecided(o) => ~ attempt(c) < Retries(c))
         \/ p = "returned" /\ o.status = "ok"
  PROVE  HttpInv'
<1> USE DEF HttpInv, HttpTypeOK
<1>1. HttpTypeOK'
  BY DEF Attempted
<1>2. /\ outcomes'[c] = Append(outcomes[c], o)
      /\ response'[c] = o /\ http'[c] = p /\ idempotent'[c] = idempotent[c]
  BY DEF Attempted
<1>3. /\ Len(outcomes[c]) \in Nat /\ Len(outcomes'[c]) = Len(outcomes[c]) + 1
      /\ \A n \in 1 .. Len(outcomes[c]) : outcomes'[c][n] = outcomes[c][n]
      /\ outcomes'[c][Len(outcomes[c]) + 1] = o
  BY <1>2
<1>4. \A n \in 1 .. Len(outcomes[c]) : Undecided(outcomes[c][n])
  BY DEF WithinBudget, attempt, again
<1>5. /\ maxRetries[c] \in Nat
      /\ Len(outcomes[c]) + 1 <= (IF idempotent[c] = "no" THEN 1 ELSE maxRetries[c] + 1)
  BY HttpAssumption DEF WithinBudget, attempt, again
<1>6. CallOK(c)'
  BY <1>2 DEF CallOK
<1>7. WithinBudget(c)'
  <2> DEFINE budget == IF idempotent[c] = "no" THEN 1 ELSE maxRetries[c] + 1
             k == Len(outcomes[c])
  <2>1. Retries(c) = budget - 1 /\ budget \in Nat
    BY <1>5 DEF Retries
  <2>2. k + 1 + (IF p = "sleeping" THEN 1 ELSE 0) <= budget
    BY <2>1, <1>5, <1>3 DEF attempt
  <2>3. \A n \in 1 .. k + 1 :
          (n < k + 1 \/ p = "sleeping") => Undecided(outcomes'[c][n])
    <3> SUFFICES ASSUME NEW n \in 1 .. k + 1, n < k + 1 \/ p = "sleeping"
                 PROVE  Undecided(outcomes'[c][n])
      OBVIOUS
    <3>1. CASE n < k + 1
      <4>1. n \in 1 .. Len(outcomes[c])
        BY <1>3, <3>1
      <4> QED BY <1>3, <1>4, <4>1
    <3>2. CASE n = k + 1
      <4>1. outcomes'[c][n] = o /\ p = "sleeping"
        BY <1>3, <3>2
      <4> QED BY <4>1
    <3> QED BY <1>3, <3>1, <3>2
  <2>4. p = "threw" /\ Undecided(o) => k + 1 = budget
    BY <2>1, <1>5, <1>3 DEF attempt
  <2>5. p \notin {"sending", "reading"}
    OBVIOUS
  <2>6. again(c)' <=> p = "sleeping"
    BY <1>2, <2>5 DEF again
  <2> QED BY <2>2, <2>3, <2>4, <2>6, <1>2, <1>3 DEF WithinBudget, attempt
<1> QED BY <1>1, <1>6, <1>7, OtherCalls DEF Attempted

LEMMA StepOK ==
  ASSUME HttpInv, NEW c \in Calls, HttpStep(c)
  PROVE  HttpInv'
<1> DEFINE Ending(how) == [status |-> response[c].status, how |-> how]
<1>0. response[c] \in Outcomes
  BY DEF HttpInv, HttpTypeOK
<1>1. CASE BodyRead(c)
  <2>1. response[c].status \in Statuses /\ http[c] = "reading"
    BY <1>1 DEF HttpInv, CallOK, BodyRead
  <2>2. Ending("read") \in Outcomes
    BY <2>1 DEF Outcomes
  <2>3. CASE response[c].status = "ok"
    <3>1. Attempted(c, Ending("read"), "returned")
      BY <1>1, <2>3 DEF BodyRead, isRetryableStatus
    <3> QED BY <3>1, <2>1, <2>2, <2>3, AttemptedOK DEF CallPhases
  <2>4. CASE response[c].status = "busy"
    <3>1. Attempted(c, Ending("read"), OrSleep(c))
      BY <1>1, <2>4 DEF BodyRead, isRetryableStatus
    <3>2. Undecided(Ending("read"))
      BY <2>4 DEF Undecided
    <3> HIDE DEF Ending
    <3> QED BY <3>1, <3>2, <2>1, <2>2, AttemptedOK DEF OrSleep, CallPhases
  <2>5. CASE response[c].status \in {"missing", "refused", "failure"}
    <3>1. Attempted(c, Ending("read"), "threw")
      BY <1>1, <2>5 DEF BodyRead, isRetryableStatus
    <3>2. ~ Undecided(Ending("read"))
      BY <2>5 DEF Undecided
    <3> HIDE DEF Ending
    <3> QED BY <3>1, <3>2, <2>1, <2>2, AttemptedOK DEF CallPhases
  <2> QED BY <2>1, <2>3, <2>4, <2>5 DEF Statuses
<1>2. CASE Unread(c)
  <2>1. http[c] = "reading" /\ Attempted(c, Ending("unread"), OrSleep(c))
    BY <1>2 DEF Unread
  <2>2. Ending("unread") \in Outcomes /\ Undecided(Ending("unread"))
    BY <1>0 DEF Outcomes, Undecided
  <2> HIDE DEF Ending
  <2> QED BY <2>1, <2>2, AttemptedOK DEF OrSleep, CallPhases
<1>3. CASE NetworkFails(c)
  <2> DEFINE o == [status |-> "none", how |-> "network"]
  <2>1. http[c] = "sending" /\ Attempted(c, o, OrSleep(c))
    BY <1>3 DEF NetworkFails
  <2>2. o \in Outcomes /\ Undecided(o)
    BY DEF Outcomes, Undecided
  <2> HIDE DEF o
  <2> QED BY <2>1, <2>2, AttemptedOK DEF OrSleep, CallPhases
<1>4. CASE Abort(c)
  <2> DEFINE o == [status |-> "none", how |-> "timeout"]
  <2>1. http[c] = "sending" /\ Attempted(c, o, "threw")
    BY <1>4 DEF Abort
  <2>2. o \in Outcomes /\ ~ Undecided(o)
    BY DEF Outcomes, Undecided
  <2> HIDE DEF o
  <2> QED BY <2>1, <2>2, AttemptedOK DEF CallPhases
<1>5. CASE Retry(c)
  <2>1. HttpTypeOK'
    BY <1>5 DEF HttpInv, HttpTypeOK, Retry, CallPhases
  <2>2. CallOK(c)' /\ WithinBudget(c)'
    BY <1>5 DEF HttpInv, HttpTypeOK, Retry, CallOK, WithinBudget, attempt, again
  <2> QED BY <1>5, <2>1, <2>2, OtherCalls DEF HttpInv, HttpTypeOK, Retry
<1> QED BY <1>1, <1>2, <1>3, <1>4, <1>5 DEF HttpStep

LEMMA ReleaseOK ==
  ASSUME HttpInv, NEW c \in Calls, Release(c)
  PROVE  HttpInv'
<1>0. NoResponse \in Outcomes
  BY DEF NoResponse, Outcomes
<1>1. HttpTypeOK'
  <2>1. /\ http' \in [Calls -> CallPhases] /\ idempotent' \in [Calls -> Options]
        /\ response' \in [Calls -> Outcomes]
    BY <1>0 DEF HttpInv, HttpTypeOK, Release, CallPhases, Options
  <2>2. <<>> \in Seq(Outcomes) /\ outcomes \in [Calls -> Seq(Outcomes)]
    BY DEF HttpInv, HttpTypeOK
  <2>3. outcomes' \in [Calls -> Seq(Outcomes)]
    BY <2>2 DEF Release
  <2> QED BY <2>1, <2>3 DEF HttpTypeOK
<1>2. /\ outcomes'[c] = <<>> /\ http'[c] = "idle" /\ response'[c] = NoResponse
      /\ idempotent'[c] = "unset" /\ maxRetries[c] \in Nat
  BY HttpAssumption DEF HttpInv, HttpTypeOK, Release
<1>3. CallOK(c)' /\ WithinBudget(c)'
  BY <1>2 DEF CallOK, WithinBudget, attempt, again
<1> QED BY <1>1, <1>3, OtherCalls DEF HttpInv, HttpTypeOK, Release

LEMMA HttpStutter == HttpInv /\ UNCHANGED httpVars => HttpInv'
BY DEF HttpInv, HttpTypeOK, httpVars, CallOK, WithinBudget, attempt, again

\* For any number of calls at once and any number of retries: an attempt follows only one that
\* found the vendor busy or whose answer is not known, within the budget of the call, and no
\* call gives up on such a one earlier (http-client.ts, request()).
THEOREM OnlyUndecidedIsRetried == HttpSpec => []RetriedOnlyUndecided
<1>1. HttpInv /\ [\E c \in Calls : AnyCall(c)]_httpVars => HttpInv'
  BY RequestOK, RespondOK, StepOK, ReleaseOK, HttpStutter DEF AnyCall
<1> QED BY HttpInitial, HttpInvImplies, <1>1, PTL DEF HttpSpec

-----------------------------------------------------------------------------
(* RouteProviders: what its variables hold. *)

\* A name is registered once.
NamesAreUnique ==
  \A m, n \in DOMAIN registered : getName(registered[m]) = getName(registered[n]) => m = n

RouteType == RouteTypeOK /\ NamesAreUnique

\* Every step of the adapters' calls is one of HttpClient's.
LEMMA RoutingHttp ==
  HttpInv /\ [RouteNext]_<<httpVars, routeVars>> => HttpInv'
<1> SUFFICES ASSUME HttpInv, [RouteNext]_<<httpVars, routeVars>> PROVE HttpInv'
  OBVIOUS
<1>1. Adapters \subseteq Calls
  BY ProvidersAssumption
<1>2. ASSUME NEW c \in Adapters, HttpStep(c) PROVE HttpInv'
  BY <1>1, <1>2, StepOK
<1>3. ASSUME NEW c \in Adapters, AdapterStep(c) PROVE HttpInv'
  <2>1. ASSUME NEW k \in Kinds, fetchRawQuote(c, k) PROVE HttpInv'
    BY <2>1, <1>1, RequestOK, HttpStutter DEF fetchRawQuote, Options
  <2>2. CASE RespondQuote(c)
    BY <2>2, <1>1, RespondOK DEF RespondQuote
  <2>3. CASE QuoteEnds(c) \/ StatusEnds(c)
    BY <2>3, <1>1, ReleaseOK DEF QuoteEnds, StatusEnds
  <2>4. CASE DropQuote(c) \/ Seen(c)
    BY <2>4, HttpStutter DEF DropQuote, Seen
  <2>5. CASE fetchStatus(c)
    BY <2>5, <1>1, RequestOK DEF fetchStatus, Options
  <2>6. CASE RespondStatus(c)
    BY <2>6, <1>1, RespondOK DEF RespondStatus, Statuses
  <2> QED BY <1>3, <2>1, <2>2, <2>3, <2>4, <2>5, <2>6 DEF AdapterStep
<1>4. ASSUME NEW k \in Kinds, register(k) \/ unregister(k) \/ MockQuote(k) PROVE HttpInv'
  BY <1>4, HttpStutter DEF register, unregister, MockQuote
<1>5. ASSUME NEW p \in Params, requestRoutes(p) PROVE HttpInv'
  BY <1>5, HttpStutter DEF requestRoutes
<1>6. CASE selectQuote \/ executeChosen \/ BridgeStep \/ FinishRequest
  BY <1>6, HttpStutter DEF selectQuote, executeChosen, BridgeStep, FinishRequest
<1>7. CASE UNCHANGED <<httpVars, routeVars>>
  BY <1>7, HttpStutter
<1> QED BY <1>2, <1>3, <1>4, <1>5, <1>6, <1>7 DEF RouteNext

LEMMA MaxOfTwo == \A i, j \in Int : Max({i, j}) = IF i >= j THEN i ELSE j
<1> SUFFICES ASSUME NEW i \in Int, NEW j \in Int
             PROVE  Max({i, j}) = IF i >= j THEN i ELSE j
  OBVIOUS
<1> DEFINE m == IF i >= j THEN i ELSE j
<1>1. m \in {i, j} /\ \A y \in {i, j} : m >= y
  OBVIOUS
<1>2. \A x \in {i, j} : (\A y \in {i, j} : x >= y) => x = m
  OBVIOUS
<1> HIDE DEF m
<1>3. (CHOOSE x \in {i, j} : \A y \in {i, j} : x >= y) = m
  BY <1>1, <1>2
<1> QED BY <1>3 DEF Max, m

LEMMA MinOfTwo == \A i, j \in Int : Min({i, j}) = IF i <= j THEN i ELSE j
<1> SUFFICES ASSUME NEW i \in Int, NEW j \in Int
             PROVE  Min({i, j}) = IF i <= j THEN i ELSE j
  OBVIOUS
<1> DEFINE m == IF i <= j THEN i ELSE j
<1>1. m \in {i, j} /\ \A y \in {i, j} : m <= y
  OBVIOUS
<1>2. \A x \in {i, j} : (\A y \in {i, j} : x <= y) => x = m
  OBVIOUS
<1> HIDE DEF m
<1>3. (CHOOSE x \in {i, j} : \A y \in {i, j} : x <= y) = m
  BY <1>1, <1>2
<1> QED BY <1>3 DEF Min, m

\* A score of the adapters is between 0 and 100, and Clamp leaves such a score alone.
LEMMA ClampType ==
  /\ \A s \in Int : Clamp(s) \in 0 .. 100
  /\ \A s \in 0 .. 100 : Clamp(s) = s
<1>1. ASSUME NEW s \in Int
      PROVE  Clamp(s) = IF s < 0 THEN 0 ELSE IF s > 100 THEN 100 ELSE s
  <2>1. Min({100, s}) = IF 100 <= s THEN 100 ELSE s
    BY MinOfTwo
  <2>2. Min({100, s}) \in Int
    BY <2>1
  <2>3. Max({0, Min({100, s})}) = IF 0 >= Min({100, s}) THEN 0 ELSE Min({100, s})
    BY <2>2, MaxOfTwo
  <2> QED BY <2>1, <2>3 DEF Clamp
<1> QED BY <1>1

\* What is made of a response is a quote, whatever the response leaves out.
LEMMA NormalizedType ==
  ASSUME NEW k, NEW r \in Responses
  PROVE  normalizeQuote(k, r) \in Quotes
<1>1. /\ r.fee \in Nat \cup {NaN} /\ r.duration \in Nat \cup {None}
      /\ r.known \in Nat /\ r.steps \in Nat
  BY ProvidersAssumption
<1>2. durationBonus(r) \in Int /\ stepsBonus(r) \in Int /\ estimated_time(r) \in Nat
  BY <1>1 DEF durationBonus, stepsBonus, estimated_time
<1>3. lifiReliability(r) \in 0 .. 100 /\ socketReliability(r) \in 0 .. 100
  BY <1>2, ClampType DEF lifiReliability, socketReliability
<1>4. lifiSecurity(r) \in 0 .. 100 /\ socketSecurity(r) \in 0 .. 100
  <2>1. Min({5 * r.known, 15}) \in Int /\ Min({4 * r.known, 12}) \in Int
    BY <1>1, MinOfTwo
  <2> QED BY <2>1, ClampType DEF lifiSecurity, socketSecurity
<1>5. normalizeLifi(r) \in Quotes
  BY <1>1, <1>2, <1>3, <1>4 DEF normalizeLifi, Quotes
<1>6. normalizeSocket(r) \in Quotes
  BY <1>1, <1>2, <1>3, <1>4 DEF normalizeSocket, Quotes
<1> QED BY <1>5, <1>6 DEF normalizeQuote

LEMMA MockType ==
  ASSUME NEW cross \in BOOLEAN
  PROVE  MockLifiQuote(cross) \in Quotes /\ MockSocketQuote(cross) \in Quotes
BY DEF MockLifiQuote, MockSocketQuote, Quotes

\* Removing one of a sequence's elements moves those behind it by one place.
LEMMA RemoveAtProperties ==
  ASSUME NEW T, NEW s \in Seq(T), NEW n \in DOMAIN s
  PROVE  /\ RemoveAt(s, n) \in Seq(T)
         /\ Len(RemoveAt(s, n)) = Len(s) - 1
         /\ \A m \in 1 .. Len(s) - 1 : RemoveAt(s, n)[m] = IF m < n THEN s[m] ELSE s[m + 1]
<1> DEFINE a == SubSeq(s, 1, n - 1)  b == SubSeq(s, n + 1, Len(s))
<1>1. n \in 1 .. Len(s) /\ Len(s) \in Nat
  OBVIOUS
<1>2. a \in Seq(T) /\ Len(a) = n - 1 /\ \A m \in 1 .. n - 1 : a[m] = s[m]
  BY <1>1
<1>3. b \in Seq(T) /\ Len(b) = Len(s) - n /\ \A m \in 1 .. Len(s) - n : b[m] = s[m + n]
  BY <1>1
<1>4. RemoveAt(s, n) = a \o b
  BY DEF RemoveAt
<1> HIDE DEF a, b
<1>5. a \o b \in Seq(T) /\ Len(a \o b) = Len(s) - 1
  BY <1>1, <1>2, <1>3
<1>6. ASSUME NEW m \in 1 .. Len(s) - 1
      PROVE  (a \o b)[m] = IF m < n THEN s[m] ELSE s[m + 1]
  <2>1. CASE m < n
    BY <1>1, <1>2, <1>3, <2>1
  <2>2. CASE ~ (m < n)
    <3>0. m \in 1 .. Len(a) + Len(b) /\ ~ (m <= Len(a))
      BY <1>1, <1>2, <1>3, <2>2
    <3>1. (a \o b)[m] = b[m - Len(a)]
      BY <1>2, <1>3, <3>0, ConcatProperties
    <3>2. b[m - Len(a)] = s[m + 1]
      BY <1>1, <1>2, <1>3, <2>2
    <3> QED BY <2>2, <3>1, <3>2
  <2> QED BY <2>1, <2>2
<1> QED BY <1>4, <1>5, <1>6

\* The registry, and nothing else of it, changes with register and unregister.
LEMMA RegistryOK ==
  ASSUME RouteType, NEW k \in Kinds, register(k) \/ unregister(k)
  PROVE  registered' \in Seq(Kinds) /\ NamesAreUnique'
<1>1. registered \in Seq(Kinds) /\ NamesAreUnique
  BY DEF RouteType, RouteTypeOK
<1>2. CASE register(k)
  <2>1. registered' = Append(registered, k)
    BY <1>2 DEF register
  <2>2. \A n \in DOMAIN registered : getName(registered[n]) # getName(k)
    BY <1>2 DEF register
  <2> QED BY <1>1, <2>1, <2>2 DEF NamesAreUnique
<1>3. CASE unregister(k)
  <2>1. PICK n \in DOMAIN registered : registered' = RemoveAt(registered, n)
    BY <1>3 DEF unregister
  <2> DEFINE t == RemoveAt(registered, n)
  <2>2. /\ t \in Seq(Kinds) /\ Len(t) = Len(registered) - 1
        /\ \A m \in 1 .. Len(registered) - 1 :
             t[m] = IF m < n THEN registered[m] ELSE registered[m + 1]
    BY <1>1, RemoveAtProperties
  <2> HIDE DEF t
  <2>3. ASSUME NEW i \in DOMAIN t, NEW j \in DOMAIN t, getName(t[i]) = getName(t[j])
        PROVE  i = j
    <3> DEFINE at(m) == IF m < n THEN m ELSE m + 1
    <3>1. /\ at(i) \in DOMAIN registered /\ at(j) \in DOMAIN registered
          /\ t[i] = registered[at(i)] /\ t[j] = registered[at(j)]
      BY <1>1, <2>2
    <3>2. at(i) = at(j)
      BY <1>1, <2>3, <3>1 DEF NamesAreUnique
    <3>3. i \in Nat /\ j \in Nat /\ n \in Nat
      BY <1>1, <2>2
    <3> QED BY <3>2, <3>3
  <2> QED BY <2>1, <2>2, <2>3 DEF NamesAreUnique, t
<1> QED BY <1>2, <1>3

\* What is told of an execution, whatever was answered.
LEMMA ToldType ==
  ASSUME NEW c \in Adapters, NEW t \in told(c)
  PROVE  t.result \in RouteStatus \cup {"threw"} /\ t.of \in {"route", "source"}
<1>1. \A w : lifiStatus(w) \in RouteStatus /\ socketStatus(w) \in RouteStatus
  BY DEF lifiStatus, socketStatus, RouteStatus
<1>2. "PENDING" \in RouteStatus
  BY DEF RouteStatus
<1>3. CASE http[c] = "returned" /\ work[c].by = "lifi"
  <2>1. PICK w \in LifiWords(work[c].said) : t = Told(lifiStatus(w), "route")
    BY <1>3 DEF told
  <2> QED BY <1>1, <2>1 DEF Told
<1>4. CASE http[c] = "returned" /\ work[c].by # "lifi"
  <2>1. PICK a \in SocketAnswers(work[c].said) : t = socketTold(a)
    BY <1>4 DEF told
  <2> QED BY <1>1, <2>1 DEF socketTold, Told
<1>5. CASE http[c] # "returned"
  <2>1. t \in {Told("PENDING", "route"), Told("threw", "route")}
    BY <1>5 DEF told
  <2> QED BY <1>2, <2>1 DEF Told
<1> QED BY <1>3, <1>4, <1>5

LEMMA AdapterTypes ==
  ASSUME RouteType, NEW c \in Adapters, AdapterStep(c)
  PROVE  RouteType'
<1> USE DEF RouteType, RouteTypeOK
<1>1. NoWork \in Works
  BY DEF NoWork, Works
<1>2. ASSUME NEW k \in Kinds, fetchRawQuote(c, k) PROVE RouteType'
  <2>1. [NoWork EXCEPT !.op = "quote", !.by = k] \in Works
    BY DEF NoWork, Works
  <2>2. /\ UNCHANGED <<registered, quote, execution>> /\ asked' = asked
        /\ todo' \subseteq Kinds
    BY <1>2 DEF fetchRawQuote, Asking
  <2>3. work' \in [Adapters -> Works]
    BY <1>2, <2>1 DEF fetchRawQuote
  <2> QED BY <2>2, <2>3 DEF execution, NamesAreUnique
<1>3. CASE RespondQuote(c)
  BY <1>3 DEF RespondQuote, routeVars, theRequest, execution, NamesAreUnique
<1>4. CASE QuoteEnds(c)
  <2>1. UNCHANGED <<registered, theRequest, execution>> /\ work' = [work EXCEPT ![c] = NoWork]
    BY <1>4 DEF QuoteEnds
  <2>2. quote' \in [Kinds -> Quotes \cup {None}]
    <3>1. CASE UNCHANGED quote
      BY <3>1
    <3>2. ASSUME NEW r \in Responses,
                 Quoted(work[c].by, IF r.found THEN normalizeQuote(work[c].by, r) ELSE None)
          PROVE  quote' \in [Kinds -> Quotes \cup {None}]
      <4>1. (IF r.found THEN normalizeQuote(work[c].by, r) ELSE None) \in Quotes \cup {None}
        BY NormalizedType
      <4> QED BY <3>2, <4>1 DEF Quoted
    <3> QED BY <1>4, <3>1, <3>2 DEF QuoteEnds
  <2> QED BY <1>1, <2>1, <2>2 DEF theRequest, execution, NamesAreUnique
<1>5. CASE DropQuote(c)
  <2>1. [work[c] EXCEPT !.op = "dropped"] \in Works
    BY DEF Works
  <2> QED BY <1>5, <2>1 DEF DropQuote, theRequest, execution, NamesAreUnique
<1>6. CASE fetchStatus(c)
  <2>1. [NoWork EXCEPT !.op = "status", !.by = chosen, !.seen = {bridge}] \in Works
    BY DEF NoWork, Works
  <2> QED BY <1>6, <2>1 DEF fetchStatus, theRequest, execution, NamesAreUnique
<1>7. CASE RespondStatus(c)
  <2>1. [work[c] EXCEPT !.said = bridge] \in Works
    BY DEF Works
  <2> QED BY <1>7, <2>1 DEF RespondStatus, theRequest, execution, NamesAreUnique
<1>8. CASE StatusEnds(c)
  <2>1. PICK t \in told(c) :
          work' = [work EXCEPT ![c].op = "reported", ![c].result = t.result, ![c].of = t.of]
    BY <1>8 DEF StatusEnds
  <2>2. t.result \in RouteStatus \cup {"threw"} /\ t.of \in {"route", "source"}
    BY <2>1, ToldType
  <2>3. [work[c] EXCEPT !.op = "reported", !.result = t.result, !.of = t.of] \in Works
    BY <2>2 DEF Works
  <2> QED BY <1>8, <2>1, <2>3 DEF StatusEnds, theRequest, execution, NamesAreUnique
<1>9. CASE Seen(c)
  BY <1>9, <1>1 DEF Seen, theRequest, execution, NamesAreUnique
<1> QED
  BY <1>2, <1>3, <1>4, <1>5, <1>6, <1>7, <1>8, <1>9 DEF AdapterStep

\* Two quotes of three are those of the same name, that is, the same quote.
LEMMA TwoQuotes ==
  ASSUME RouteType, NEW i \in quotes, NEW j \in quotes \ {i}
  PROVE  /\ quotes = {i, j}
         /\ Before(i, j) <=> ~ Before(j, i)
<1>1. registered \in Seq(Kinds) /\ NamesAreUnique
  BY DEF RouteType, RouteTypeOK
<1>2. \A k \in quotes : \E n \in DOMAIN registered : registered[n] = k
  BY DEF quotes, ToSet
<1>3. \A k : getName(k) \in {"lifi", "socket"}
  BY DEF getName
<1>4. ASSUME NEW x \in quotes, NEW y \in quotes, getName(x) = getName(y) PROVE x = y
  BY <1>1, <1>2, <1>4 DEF NamesAreUnique
<1>5. getName(i) # getName(j)
  BY <1>4
<1>6. quotes = {i, j}
  BY <1>3, <1>4, <1>5
<1>7. PICK m \in DOMAIN registered : registered[m] = i
  BY <1>2
<1>8. PICK n \in DOMAIN registered : registered[n] = j
  BY <1>2
<1>9. /\ \A p \in DOMAIN registered : registered[p] = i => p = m
      /\ \A p \in DOMAIN registered : registered[p] = j => p = n
  BY <1>1, <1>7, <1>8 DEF NamesAreUnique
<1>10. m # n /\ m \in Nat /\ n \in Nat
  BY <1>1, <1>7, <1>8
<1>11. Before(i, j) <=> m < n
  BY <1>7, <1>8, <1>9 DEF Before
<1>12. Before(j, i) <=> n < m
  BY <1>7, <1>8, <1>9 DEF Before
<1> QED BY <1>6, <1>10, <1>11, <1>12

\* sort() has a first element, and nothing that comes later in it is above it.
LEMMA BestIsFirst ==
  ASSUME RouteType, quotes # {}
  PROVE  /\ best \in quotes
         /\ \A j \in quotes \ {best} :
              IF Before(best, j) THEN ~ Above(quote[j], quote[best])
              ELSE Above(quote[best], quote[j])
<1> DEFINE First(k) ==
             \A j \in quotes \ {k} :
               IF Before(k, j) THEN ~ Above(quote[j], quote[k]) ELSE Above(quote[k], quote[j])
<1>1. PICK i \in quotes : TRUE
  OBVIOUS
<1>2. \E k \in quotes : First(k)
  <2>1. CASE quotes = {i}
    BY <2>1
  <2>2. CASE quotes # {i}
    <3>1. PICK j \in quotes \ {i} : TRUE
      BY <1>1, <2>2
    <3>2. quotes = {i, j} /\ (Before(i, j) <=> ~ Before(j, i))
      BY <3>1, TwoQuotes
    <3>3. CASE Before(i, j) /\ Above(quote[j], quote[i])
      <4>1. First(j)
        BY <3>2, <3>3
      <4> QED BY <4>1, <3>1
    <3>4. CASE Before(i, j) /\ ~ Above(quote[j], quote[i])
      <4>1. First(i)
        BY <3>2, <3>4
      <4> QED BY <4>1
    <3>5. CASE ~ Before(i, j) /\ Above(quote[i], quote[j])
      <4>1. First(i)
        BY <3>2, <3>5
      <4> QED BY <4>1
    <3>6. CASE ~ Before(i, j) /\ ~ Above(quote[i], quote[j])
      <4>1. First(j)
        BY <3>2, <3>6
      <4> QED BY <4>1, <3>1
    <3> QED BY <3>3, <3>4, <3>5, <3>6
  <2> QED BY <2>1, <2>2
<1>3. best = CHOOSE k \in quotes : First(k)
  BY DEF best
<1> HIDE DEF First
<1>4. best \in quotes /\ First(best)
  BY <1>2, <1>3
<1> QED BY <1>4 DEF First

\* The scorer never ranks a quote below one that is worse in all four respects.
LEMMA BetterIsAbove ==
  ASSUME NEW q \in Quotes, NEW r \in Quotes, q.fee # NaN, r.fee # NaN,
         q.fee < r.fee, q.time < r.time, q.security > r.security, q.reliability > r.reliability
  PROVE  Above(q, r)
<1>1. /\ q.fee \in Nat /\ r.fee \in Nat /\ q.time \in Nat /\ r.time \in Nat
      /\ q.security \in 0 .. 100 /\ r.security \in 0 .. 100
      /\ q.reliability \in 0 .. 100 /\ r.reliability \in 0 .. 100
  BY DEF Quotes
<1>2. \A i \in Int : Max({0, i}) = IF 0 >= i THEN 0 ELSE i
  BY MaxOfTwo
<1>3. /\ normalizeFeeScore(q.fee) \in Int /\ normalizeFeeScore(r.fee) \in Int
      /\ normalizeFeeScore(q.fee) >= normalizeFeeScore(r.fee)
  <2>1. 10000 - q.fee \in Int /\ 10000 - r.fee \in Int /\ 10000 - q.fee >= 10000 - r.fee
    BY <1>1
  <2>2. /\ Max({0, 10000 - q.fee}) \in Int /\ Max({0, 10000 - r.fee}) \in Int
        /\ Max({0, 10000 - q.fee}) >= Max({0, 10000 - r.fee})
    BY <1>2, <2>1
  <2> QED BY <2>2 DEF normalizeFeeScore
<1>4. /\ normalizeTimeScore(q.time) \in Int /\ normalizeTimeScore(r.time) \in Int
      /\ normalizeTimeScore(q.time) >= normalizeTimeScore(r.time)
  <2>1. 36000 - q.time \in Int /\ 36000 - r.time \in Int /\ 36000 - q.time >= 36000 - r.time
    BY <1>1
  <2>2. /\ Max({0, 36000 - q.time}) \in Int /\ Max({0, 36000 - r.time}) \in Int
        /\ Max({0, 36000 - q.time}) >= Max({0, 36000 - r.time})
    BY <1>2, <2>1
  <2> QED BY <2>2 DEF normalizeTimeScore
<1>5. /\ normalizeScore(q.security) = 3600 * q.security
      /\ normalizeScore(r.security) = 3600 * r.security
      /\ normalizeScore(q.reliability) = 3600 * q.reliability
      /\ normalizeScore(r.reliability) = 3600 * r.reliability
  BY <1>1, ClampType DEF normalizeScore
<1>6. total_score(q) > total_score(r)
  <2>1. \A f, t, s, u, g, v, w, x \in Int :
          f >= g /\ t >= v /\ s > w /\ u > x =>
            3 * f + 2 * t + 3 * (3600 * s) + 2 * (3600 * u)
              > 3 * g + 2 * v + 3 * (3600 * w) + 2 * (3600 * x)
    OBVIOUS
  <2>2. /\ q.security \in Int /\ r.security \in Int
        /\ q.reliability \in Int /\ r.reliability \in Int
    BY <1>1
  <2> QED BY <1>3, <1>4, <1>5, <2>1, <2>2 DEF total_score
<1> QED BY <1>6 DEF Above

LEMMA OtherTypes ==
  ASSUME RouteType, RouteNext,
         \A c \in Adapters : ~ AdapterStep(c)
  PROVE  RouteType'
<1> USE DEF RouteType, RouteTypeOK
<1>1. ASSUME NEW c \in Adapters, UNCHANGED routeVars PROVE RouteType'
  BY <1>1 DEF routeVars, theRequest, execution, NamesAreUnique
<1>2. ASSUME NEW k \in Kinds, register(k) \/ unregister(k) PROVE RouteType'
  <2>1. registered' \in Seq(Kinds) /\ NamesAreUnique'
    BY <1>2, RegistryOK
  <2>2. IsInjective(registered)'
    BY <2>1 DEF IsInjective, NamesAreUnique
  <2>3. UNCHANGED <<theRequest, work, quote, execution>>
    BY <1>2 DEF register, unregister
  <2> QED BY <2>1, <2>2, <2>3 DEF theRequest, execution
<1>3. ASSUME NEW k \in Kinds, MockQuote(k) PROVE RouteType'
  <2>1. /\ UNCHANGED <<registered, work, execution>> /\ asked' = asked
        /\ todo' \subseteq Kinds
    BY <1>3 DEF MockQuote, Asking
  <2>2. quote' \in [Kinds -> Quotes \cup {None}]
    BY <1>3, MockType DEF MockQuote, Quoted
  <2> QED BY <2>1, <2>2 DEF execution, NamesAreUnique
<1>4. ASSUME NEW p \in Params, requestRoutes(p) PROVE RouteType'
  <2>1. getSupportedProviders(p.source_chain, p.target_chain) \subseteq Kinds
    BY DEF getSupportedProviders, ToSet
  <2> QED BY <1>4, <2>1 DEF requestRoutes, execution, NamesAreUnique
<1>5. CASE selectQuote
  <2>1. best \in Kinds
    BY <1>5, BestIsFirst DEF selectQuote, quotes, ToSet
  <2> QED BY <1>5, <2>1 DEF selectQuote, theRequest, NamesAreUnique
<1>6. CASE executeChosen
  <2>1. \A k : executeRaw(k) \in RouteStatus
    BY DEF executeRaw, executeLifi, executeSocket, executeMock, lifiStatus, socketStatus,
       RouteStatus
  <2> QED BY <1>6, <2>1 DEF executeChosen, theRequest, NamesAreUnique
<1>7. CASE BridgeStep
  <2>1. bridge' \in Bridge
    BY <1>7 DEF BridgeStep, Bridge
  <2>2. \A c \in Adapters :
          [work[c] EXCEPT !.seen = @ \cup {bridge'}] \in Works
    BY <2>1 DEF Works
  <2> QED BY <1>7, <2>1, <2>2 DEF BridgeStep, theRequest, NamesAreUnique
<1>8. CASE FinishRequest
  BY <1>8 DEF FinishRequest, Bridge, NamesAreUnique
<1> QED
  BY <1>1, <1>2, <1>3, <1>4, <1>5, <1>6, <1>7, <1>8 DEF RouteNext

LEMMA RouteTypeStep ==
  RouteType /\ [RouteNext]_<<httpVars, routeVars>> => RouteType'
<1> SUFFICES ASSUME RouteType, [RouteNext]_<<httpVars, routeVars>> PROVE RouteType'
  OBVIOUS
<1>1. CASE UNCHANGED <<httpVars, routeVars>>
  BY <1>1
     DEF RouteType, RouteTypeOK, routeVars, theRequest, execution, NamesAreUnique
<1>2. CASE \E c \in Adapters : AdapterStep(c)
  BY <1>2, AdapterTypes
<1>3. CASE RouteNext /\ ~ \E c \in Adapters : AdapterStep(c)
  BY <1>3, OtherTypes
<1> QED BY <1>1, <1>2, <1>3

-----------------------------------------------------------------------------
(* RouteProviders: statuses. *)

\* What a result of a call says is true of a state of the bridge.
True(word, of, b) == word \in IF of = "source" THEN SourceMeanings(b) ELSE Meanings(b)

\* An answer of the server stands for a state of the bridge since the call was made.
StatusCall(c) ==
  /\ work[c].op = "status" =>
       /\ bridge \in work[c].seen /\ work[c].by \in Real
       /\ response[c].status = "ok" => work[c].said \in work[c].seen \ {"unsent"}
       /\ response[c].status = "missing" => "unsent" \in work[c].seen
  /\ work[c].op = "reported" /\ work[c].result # "threw" =>
       \E b \in work[c].seen : True(work[c].result, work[c].of, b)

StatusInv == HttpInv /\ RouteType /\ \A c \in Adapters : StatusCall(c)

\* Every word of LI.FI's is mapped to something true of the state it is for.
LEMMA LifiMeans ==
  ASSUME NEW b \in Bridge \ {"unsent"}, NEW w \in LifiWords(b)
  PROVE  lifiStatus(w) \in Meanings(b)
<1>1. CASE b = "source"
  BY <1>1 DEF LifiWords, Meanings, lifiStatus
<1>2. CASE b = "crossing"
  BY <1>2 DEF LifiWords, Meanings, lifiStatus
<1>3. CASE b = "arrived"
  BY <1>3 DEF LifiWords, Meanings, lifiStatus
<1>4. CASE b \in {"failed", "refunded"}
  BY <1>4 DEF LifiWords, Meanings, lifiStatus
<1> QED BY <1>1, <1>2, <1>3, <1>4 DEF Bridge

\* Of Socket's two words, the one that is read is mapped to something true of the execution,
\* or, where there is none of the destination, of the source transaction.
LEMMA SocketMeans ==
  ASSUME NEW b \in Bridge \ {"unsent"}, NEW a \in SocketAnswers(b)
  PROVE  True(socketTold(a).result, socketTold(a).of, b)
<1> USE DEF SocketAnswers, SocketAnswer, socketTold, Told, True, Meanings, SourceMeanings,
            socketStatus
<1>1. CASE a.destination = None
  <2>1. CASE b = "source"
    BY <1>1, <2>1
  <2>2. CASE b = "crossing"
    BY <1>1, <2>2
  <2>3. CASE b = "arrived"
    BY <1>1, <2>3
  <2>4. CASE b = "failed"
    BY <1>1, <2>4
  <2>5. CASE b = "refunded"
    BY <1>1, <2>5
  <2> QED BY <2>1, <2>2, <2>3, <2>4, <2>5 DEF Bridge
<1>2. CASE a.destination # None
  <2>1. CASE b = "source"
    BY <1>2, <2>1
  <2>2. CASE b = "crossing"
    BY <1>2, <2>2
  <2>3. CASE b = "arrived"
    BY <1>2, <2>3
  <2>4. CASE b = "failed"
    BY <1>2, <2>4
  <2>5. CASE b = "refunded"
    BY <1>2, <2>5
  <2> QED BY <2>1, <2>2, <2>3, <2>4, <2>5 DEF Bridge
<1> QED BY <1>1, <1>2

\* A call is not concerned by what leaves it and the bridge alone, nor by an attempt that
\* ends, with the status of its response or without one.
LEMMA StatusFrame ==
  ASSUME NEW c \in Adapters, StatusCall(c), work'[c] = work[c], bridge' = bridge,
         response'[c].status \in {response[c].status, "none"}
  PROVE  StatusCall(c)'
BY DEF StatusCall, True, Meanings, SourceMeanings

LEMMA HttpStepStatus ==
  ASSUME StatusInv, NEW d \in Adapters, HttpStep(d), UNCHANGED routeVars, NEW c \in Adapters
  PROVE  StatusCall(c)'
<1>0. response \in [Calls -> Outcomes] /\ c \in Calls /\ d \in Calls
  BY ProvidersAssumption DEF StatusInv, HttpInv, HttpTypeOK
<1>1. response'[c].status \in {response[c].status, "none"}
  BY <1>0 DEF HttpStep, BodyRead, Unread, NetworkFails, Abort, Retry, Attempted
<1>2. StatusCall(c) /\ work'[c] = work[c] /\ bridge' = bridge
  BY DEF StatusInv, routeVars, execution
<1> QED BY <1>1, <1>2, StatusFrame

\* A step of one adapter's call.
LEMMA OwnStatus ==
  ASSUME StatusInv, NEW c \in Adapters, AdapterStep(c)
  PROVE  StatusCall(c)'
<1> USE DEF StatusInv
<1>0. /\ c \in Calls /\ work \in [Adapters -> Works]
      /\ response \in [Calls -> Outcomes]
      /\ work[c] \in Works /\ CallOK(c) /\ StatusCall(c)
  BY ProvidersAssumption DEF RouteType, RouteTypeOK, HttpInv, HttpTypeOK
<1>1. ASSUME NEW k \in Kinds, fetchRawQuote(c, k) PROVE StatusCall(c)'
  <2>1. CASE work' = [work EXCEPT ![c] = [NoWork EXCEPT !.op = "quote", !.by = k]]
    <3>1. work'[c].op = "quote"
      BY <1>0, <2>1 DEF NoWork
    <3> QED BY <3>1 DEF StatusCall
  <2>2. CASE UNCHANGED <<work, httpVars>>
    BY <1>0, <1>1, <2>2, StatusFrame DEF fetchRawQuote, execution, httpVars
  <2> QED BY <1>1, <2>1, <2>2 DEF fetchRawQuote
<1>2. CASE RespondQuote(c)
  BY <1>2 DEF RespondQuote, routeVars, StatusCall
<1>3. CASE QuoteEnds(c) \/ Seen(c)
  <2>1. work'[c].op = "none"
    BY <1>0, <1>3 DEF QuoteEnds, Seen, NoWork
  <2> QED BY <2>1 DEF StatusCall
<1>4. CASE DropQuote(c)
  <2>1. work'[c].op = "dropped"
    BY <1>0, <1>4 DEF DropQuote, Works
  <2> QED BY <2>1 DEF StatusCall
<1>5. CASE fetchStatus(c)
  <2>1. response'[c].status = "none"
    BY <1>0, <1>5 DEF fetchStatus, request, CallOK, NoResponse
  <2>2. work'[c] = [NoWork EXCEPT !.op = "status", !.by = chosen, !.seen = {bridge}]
    BY <1>0, <1>5 DEF fetchStatus
  <2>3. work'[c].op = "status" /\ work'[c].by = chosen /\ work'[c].seen = {bridge}
    BY <2>2 DEF NoWork
  <2> QED BY <1>5, <2>1, <2>3 DEF StatusCall, fetchStatus, execution
<1>6. CASE RespondStatus(c)
  <2>1. PICK s \in {IF bridge = "unsent" THEN "missing" ELSE "ok", "refused", "busy", "failure"} :
          response'[c].status = s
    BY <1>0, <1>6 DEF RespondStatus, Respond
  <2>2. /\ work'[c].op = "status" /\ work'[c].by = work[c].by
        /\ work'[c].seen = work[c].seen /\ work'[c].said = bridge
    BY <1>0, <1>6 DEF RespondStatus, Works
  <2> QED BY <1>0, <1>6, <2>1, <2>2 DEF StatusCall, RespondStatus, execution
<1>7. CASE StatusEnds(c)
  <2>1. PICK t \in told(c) :
          work' = [work EXCEPT ![c].op = "reported", ![c].result = t.result, ![c].of = t.of]
    BY <1>7 DEF StatusEnds
  <2>2. /\ work'[c].op = "reported" /\ work'[c].result = t.result /\ work'[c].of = t.of
        /\ work'[c].seen = work[c].seen
    BY <1>0, <2>1 DEF Works
  <2>3. ASSUME t.result # "threw"
        PROVE  \E b \in work[c].seen : True(t.result, t.of, b)
    <3>1. work[c].op = "status"
      BY <1>7 DEF StatusEnds
    <3>2. CASE http[c] = "returned"
      <4>1. response[c].status = "ok"
        BY <1>0, <3>2 DEF CallOK
      <4>2. /\ work[c].said \in work[c].seen \ {"unsent"} /\ work[c].seen \subseteq Bridge
            /\ work[c].by \in Real
        BY <1>0, <3>1, <4>1 DEF StatusCall, Works
      <4>3. CASE work[c].by = "lifi"
        <5>1. PICK w \in LifiWords(work[c].said) : t = Told(lifiStatus(w), "route")
          BY <2>1, <3>2, <4>3 DEF told
        <5>2. lifiStatus(w) \in Meanings(work[c].said)
          BY <4>2, LifiMeans
        <5>3. True(t.result, t.of, work[c].said)
          BY <5>1, <5>2 DEF Told, True
        <5> QED BY <4>2, <5>3
      <4>4. CASE work[c].by # "lifi"
        <5>1. PICK a \in SocketAnswers(work[c].said) : t = socketTold(a)
          BY <2>1, <3>2, <4>4 DEF told
        <5>2. True(t.result, t.of, work[c].said)
          BY <4>2, <5>1, SocketMeans
        <5> QED BY <4>2, <5>2
      <4> QED BY <4>3, <4>4
    <3>3. CASE http[c] # "returned"
      <4>1. t = Told("PENDING", "route") /\ response[c].status = "missing"
        BY <2>1, <2>3, <3>3 DEF told, Told
      <4>2. "unsent" \in work[c].seen
        BY <1>0, <3>1, <4>1 DEF StatusCall
      <4>3. True(t.result, t.of, "unsent")
        BY <4>1 DEF Told, True, Meanings
      <4> QED BY <4>2, <4>3
    <3> QED BY <3>2, <3>3
  <2> QED BY <2>2, <2>3 DEF StatusCall, True
<1> QED BY <1>1, <1>2, <1>3, <1>4, <1>5, <1>6, <1>7 DEF AdapterStep

\* It leaves the other adapters' calls alone.
LEMMA OtherStatus ==
  ASSUME StatusInv, NEW d \in Adapters, AdapterStep(d), NEW c \in Adapters \ {d}
  PROVE  StatusCall(c)'
<1>1. /\ work \in [Adapters -> Works] /\ response \in [Calls -> Outcomes]
      /\ c \in Calls /\ d \in Calls /\ StatusCall(c)
  BY ProvidersAssumption DEF StatusInv, RouteType, RouteTypeOK, HttpInv, HttpTypeOK
<1>2. bridge' = bridge
  BY DEF AdapterStep, fetchRawQuote, RespondQuote, QuoteEnds, DropQuote, fetchStatus, RespondStatus,
     StatusEnds, Seen, execution, routeVars
<1>3. work'[c] = work[c]
  BY <1>1 DEF AdapterStep, fetchRawQuote, RespondQuote, QuoteEnds, DropQuote, fetchStatus,
     RespondStatus, StatusEnds, Seen, routeVars
<1>4. response'[c] = response[c]
  BY <1>1 DEF AdapterStep, fetchRawQuote, RespondQuote, QuoteEnds, DropQuote, fetchStatus,
     RespondStatus, StatusEnds, Seen, request, Respond, Release, httpVars
<1> QED BY <1>1, <1>2, <1>3, <1>4, StatusFrame

LEMMA StatusStep ==
  StatusInv /\ [RouteNext]_<<httpVars, routeVars>> => StatusInv'
<1> SUFFICES ASSUME StatusInv, [RouteNext]_<<httpVars, routeVars>>,
                    NEW c \in Adapters
             PROVE  StatusCall(c)'
  BY RoutingHttp, RouteTypeStep DEF StatusInv
<1>0. StatusCall(c) /\ work \in [Adapters -> Works]
  BY DEF StatusInv, RouteType, RouteTypeOK
<1>1. ASSUME NEW d \in Adapters, HttpStep(d), UNCHANGED routeVars PROVE StatusCall(c)'
  BY <1>1, HttpStepStatus
<1>2. ASSUME NEW d \in Adapters, AdapterStep(d) PROVE StatusCall(c)'
  BY <1>2, OwnStatus, OtherStatus
<1>3. ASSUME NEW k \in Kinds, register(k) \/ unregister(k) \/ MockQuote(k)
      PROVE  StatusCall(c)'
  BY <1>0, <1>3, StatusFrame DEF register, unregister, MockQuote, execution, httpVars
<1>4. ASSUME NEW p \in Params, requestRoutes(p) PROVE StatusCall(c)'
  BY <1>0, <1>4, StatusFrame DEF requestRoutes, execution, httpVars
<1>5. CASE selectQuote \/ executeChosen
  BY <1>0, <1>5, StatusFrame DEF selectQuote, executeChosen, httpVars
<1>6. CASE BridgeStep
  <2>1. CASE work[c].op = "status"
    <3>1. /\ work'[c].op = "status" /\ work'[c].by = work[c].by
          /\ work'[c].said = work[c].said /\ work'[c].seen = work[c].seen \cup {bridge'}
      BY <1>0, <1>6, <2>1 DEF BridgeStep, Works
    <3> QED BY <1>0, <1>6, <2>1, <3>1 DEF StatusCall, BridgeStep, httpVars
  <2>2. CASE work[c].op # "status"
    <3>1. work'[c] = work[c]
      BY <1>6, <2>2 DEF BridgeStep
    <3> QED BY <1>0, <2>2, <3>1 DEF StatusCall
  <2> QED BY <2>1, <2>2
<1>7. CASE FinishRequest
  <2>1. work'[c] = work[c] /\ work[c].op \notin {"status", "reported"}
    BY <1>7 DEF FinishRequest
  <2> QED BY <2>1 DEF StatusCall
<1>8. CASE UNCHANGED <<httpVars, routeVars>>
  BY <1>0, <1>8, StatusFrame DEF httpVars, routeVars, execution
<1> QED
  BY <1>1, <1>2, <1>3, <1>4, <1>5, <1>6, <1>7, <1>8 DEF RouteNext

\* However slow the calls are, whatever fails and however far the bridge moves on meanwhile:
\* what fetchStatus returns was true at some time since it was asked, of the execution or, where
\* Socket answers for the source transaction alone, of that (lifi-route-provider.ts,
\* socket-route-provider.ts: fetchStatus, mapStatus).
THEOREM StatusesAreFresh == RouteSpec => []StatusIsFresh
<1>1. HttpInit /\ RouteInit => StatusInv
  <2> SUFFICES ASSUME HttpInit, RouteInit PROVE StatusInv
    OBVIOUS
  <2>1. RouteType
    BY DEF RouteInit, RouteType, RouteTypeOK, NamesAreUnique, IsInjective, Bridge, NoWork, Works
  <2>2. ASSUME NEW c \in Adapters PROVE StatusCall(c)
    BY DEF RouteInit, StatusCall, NoWork
  <2> QED BY <2>1, <2>2, HttpInitial DEF StatusInv
<1>2. StatusInv => StatusIsFresh
  BY DEF StatusInv, StatusIsFresh, StatusCall, True
<1> QED BY <1>1, <1>2, StatusStep, PTL DEF RouteSpec

-----------------------------------------------------------------------------
(* RouteProviders: the choice. *)

\* Until the choice is made, the registry, the providers to call and the quotes go together;
\* afterwards nothing is added to the quotes.
ChoiceOK ==
  /\ asked = None => todo = {} /\ chosen = None /\ \A k \in Kinds : quote[k] = None
  /\ \A c \in Adapters :
       work[c].op = "quote" => asked # None /\ chosen = None /\ work[c].by \in ToSet(registered)
  /\ chosen = None =>
       /\ todo \subseteq ToSet(registered)
       /\ \A k \in Kinds : quote[k] # None => k \in ToSet(registered)
  /\ chosen # None => todo = {} /\ ChosenIsNotDominated

ChoiceInv == RouteType /\ ChoiceOK

\* A provider answers, or does not, while its request waits for the quotes.
LEMMA WaitingChoice ==
  ASSUME ChoiceInv, NEW k \in Kinds, k \in ToSet(registered), asked # None, chosen = None,
         UNCHANGED <<registered, asked, chosen>>, todo' \subseteq todo,
         \A j \in Kinds \ {k} : quote'[j] = quote[j],
         \A c \in Adapters :
           work'[c].op = "quote" =>
             (work[c].op = "quote" /\ work'[c].by = work[c].by) \/ work'[c].by = k
  PROVE  ChoiceOK'
BY DEF ChoiceInv, ChoiceOK

\* What leaves the request, the quotes and the registry alone starts no call for a quote.
LEMMA ChoiceFrame ==
  ASSUME ChoiceInv, UNCHANGED <<registered, asked, todo, quote, chosen>>,
         \A c \in Adapters :
           work'[c].op = "quote" => work[c].op = "quote" /\ work'[c].by = work[c].by
  PROVE  ChoiceOK'
<1>1. ChosenIsNotDominated => ChosenIsNotDominated'
  BY DEF ChosenIsNotDominated
<1> QED BY <1>1 DEF ChoiceInv, ChoiceOK

LEMMA AdapterChoice ==
  ASSUME ChoiceInv, NEW c \in Adapters, AdapterStep(c)
  PROVE  ChoiceOK'
<1>0. /\ work \in [Adapters -> Works] /\ work[c] \in Works
      /\ quote \in [Kinds -> Quotes \cup {None}] /\ todo \subseteq Kinds /\ None \notin Kinds
  BY ProvidersAssumption DEF ChoiceInv, RouteType, RouteTypeOK
<1>1. ASSUME NEW k \in Kinds, fetchRawQuote(c, k) PROVE ChoiceOK'
  <2>1. k \in todo /\ k \in ToSet(registered) /\ asked # None /\ chosen = None
    BY <1>1 DEF fetchRawQuote, Asking, ChoiceInv, ChoiceOK
  <2>2. UNCHANGED <<registered, asked, chosen, quote>> /\ todo' \subseteq todo
    BY <1>1 DEF fetchRawQuote, Asking, execution
  <2>3. ASSUME NEW d \in Adapters, work'[d].op = "quote"
        PROVE  (work[d].op = "quote" /\ work'[d].by = work[d].by) \/ work'[d].by = k
    <3>1. CASE UNCHANGED work
      BY <2>3, <3>1
    <3>2. CASE work' = [work EXCEPT ![c] = [NoWork EXCEPT !.op = "quote", !.by = k]]
      <4>1. work'[c].by = k
        BY <1>0, <3>2 DEF NoWork
      <4> QED BY <1>0, <2>3, <3>2, <4>1
    <3> QED BY <1>1, <3>1, <3>2 DEF fetchRawQuote
  <2> QED BY <2>1, <2>2, <2>3, WaitingChoice
<1>2. CASE RespondQuote(c)
  BY <1>2, ChoiceFrame DEF RespondQuote, routeVars, theRequest, execution
<1>3. CASE QuoteEnds(c)
  <2>1. /\ UNCHANGED <<registered, asked, todo, chosen>>
        /\ work' = [work EXCEPT ![c] = NoWork]
    BY <1>3 DEF QuoteEnds, theRequest, execution
  <2>2. \A d \in Adapters :
          work'[d].op = "quote" => work[d].op = "quote" /\ work'[d].by = work[d].by
    BY <1>0, <2>1 DEF NoWork
  <2>3. CASE UNCHANGED quote
    BY <2>1, <2>2, <2>3, ChoiceFrame
  <2>4. CASE ~ UNCHANGED quote
    <3>1. work[c].op = "quote" /\ \E q : Quoted(work[c].by, q)
      BY <1>3, <2>4 DEF QuoteEnds
    <3>2. /\ asked # None /\ chosen = None /\ work[c].by \in ToSet(registered)
          /\ work[c].by \in Kinds \cup {None}
      BY <1>0, <3>1 DEF ChoiceInv, ChoiceOK, Works
    <3>3. ToSet(registered) \subseteq Kinds
      BY DEF ChoiceInv, RouteType, RouteTypeOK, ToSet
    <3>4. \A j \in Kinds \ {work[c].by} : quote'[j] = quote[j]
      BY <1>0, <3>1 DEF Quoted
    <3> QED BY <2>1, <2>2, <3>2, <3>3, <3>4, WaitingChoice
  <2> QED BY <2>3, <2>4
<1>4. CASE DropQuote(c)
  <2>1. \A d \in Adapters :
          work'[d].op = "quote" => work[d].op = "quote" /\ work'[d].by = work[d].by
    BY <1>0, <1>4 DEF DropQuote, Works
  <2> QED BY <1>4, <2>1, ChoiceFrame DEF DropQuote, theRequest, execution
<1>5. CASE fetchStatus(c)
  <2>1. work'[c].op = "status"
    BY <1>0, <1>5 DEF fetchStatus, NoWork
  <2>2. \A d \in Adapters \ {c} : work'[d] = work[d]
    BY <1>0, <1>5 DEF fetchStatus
  <2> QED BY <1>5, <2>1, <2>2, ChoiceFrame DEF fetchStatus, theRequest, execution
<1>6. CASE RespondStatus(c)
  <2>1. work'[c].op = "status"
    BY <1>0, <1>6 DEF RespondStatus, Works
  <2>2. \A d \in Adapters \ {c} : work'[d] = work[d]
    BY <1>0, <1>6 DEF RespondStatus
  <2> QED BY <1>6, <2>1, <2>2, ChoiceFrame DEF RespondStatus, theRequest, execution
<1>7. CASE StatusEnds(c)
  <2>1. PICK t :
          work' = [work EXCEPT ![c].op = "reported", ![c].result = t.result, ![c].of = t.of]
    BY <1>7 DEF StatusEnds
  <2>2. work'[c].op = "reported"
    BY <1>0, <2>1 DEF Works
  <2>3. \A d \in Adapters \ {c} : work'[d] = work[d]
    BY <1>0, <2>1
  <2> QED BY <1>7, <2>2, <2>3, ChoiceFrame DEF StatusEnds, theRequest, execution
<1>8. CASE Seen(c)
  <2>1. \A d \in Adapters :
          work'[d].op = "quote" => work[d].op = "quote" /\ work'[d].by = work[d].by
    BY <1>0, <1>8 DEF Seen, NoWork
  <2> QED BY <1>8, <2>1, ChoiceFrame DEF Seen, theRequest, execution
<1> QED
  BY <1>1, <1>2, <1>3, <1>4, <1>5, <1>6, <1>7, <1>8 DEF AdapterStep

\* The one that is chosen is first in the order of the scores, and the scores agree with
\* what is better in every respect.
LEMMA SelectChoice ==
  ASSUME ChoiceInv, selectQuote
  PROVE  ChoiceOK'
<1>1. /\ quotes # {} /\ chosen' = best /\ AllAnswered /\ chosen = None
      /\ UNCHANGED <<registered, asked, todo, quote, work>>
  BY DEF selectQuote, theRequest
<1>2. /\ best \in quotes
      /\ \A j \in quotes \ {best} :
           IF Before(best, j) THEN ~ Above(quote[j], quote[best])
           ELSE Above(quote[best], quote[j])
  BY <1>1, BestIsFirst DEF ChoiceInv
<1>3. best \in Kinds /\ quote[best] \in Quotes
  BY <1>2 DEF quotes, ToSet, ChoiceInv, RouteType, RouteTypeOK
<1>4. ASSUME NEW k \in Kinds \ {best}, quote[k] # None,
             quote[k].fee # NaN, quote[best].fee # NaN,
             quote[k].fee < quote[best].fee, quote[k].time < quote[best].time,
             quote[k].security > quote[best].security,
             quote[k].reliability > quote[best].reliability
      PROVE  FALSE
  <2>1. k \in quotes /\ quote[k] \in Quotes
    BY <1>1, <1>4 DEF quotes, ChoiceInv, ChoiceOK, RouteType, RouteTypeOK
  <2>2. Above(quote[k], quote[best])
    BY <1>3, <1>4, <2>1, BetterIsAbove
  <2>3. Above(quote[best], quote[k])
    BY <1>2, <1>4, <2>1, <2>2
  <2>4. total_score(quote[k]) > total_score(quote[best])
        /\ total_score(quote[best]) > total_score(quote[k])
    BY <2>2, <2>3 DEF Above
  <2>5. \A q \in Quotes : q.fee # NaN => total_score(q) \in Int
    <3> SUFFICES ASSUME NEW q \in Quotes, q.fee # NaN PROVE total_score(q) \in Int
      OBVIOUS
    <3>1. q.fee \in Nat /\ q.time \in Nat /\ q.security \in 0 .. 100 /\ q.reliability \in 0 .. 100
      BY DEF Quotes
    <3>2. Max({0, 10000 - q.fee}) \in Int /\ Max({0, 36000 - q.time}) \in Int
      BY <3>1, MaxOfTwo
    <3>3. Clamp(q.security) \in Int /\ Clamp(q.reliability) \in Int
      BY <3>1, ClampType
    <3> QED
      BY <3>2, <3>3 DEF total_score, normalizeFeeScore, normalizeTimeScore, normalizeScore
  <2> QED BY <1>3, <1>4, <2>1, <2>4, <2>5
<1>5. ChosenIsNotDominated'
  BY <1>1, <1>4 DEF ChosenIsNotDominated
<1>6. best # None
  BY <1>3, ProvidersAssumption
<1> QED BY <1>1, <1>5, <1>6 DEF ChoiceInv, ChoiceOK, AllAnswered

LEMMA ChoiceStep ==
  ChoiceInv /\ [RouteNext]_<<httpVars, routeVars>> => ChoiceInv'
<1> SUFFICES ASSUME ChoiceInv, [RouteNext]_<<httpVars, routeVars>> PROVE ChoiceOK'
  BY RouteTypeStep DEF ChoiceInv
<1>0. /\ work \in [Adapters -> Works] /\ None \notin Kinds /\ None \notin Params
      /\ quote \in [Kinds -> Quotes \cup {None}] /\ todo \subseteq Kinds
  BY ProvidersAssumption DEF ChoiceInv, RouteType, RouteTypeOK
<1>1. ASSUME UNCHANGED routeVars PROVE ChoiceOK'
  BY <1>1, ChoiceFrame DEF routeVars, theRequest, execution
<1>2. ASSUME NEW c \in Adapters, AdapterStep(c) PROVE ChoiceOK'
  BY <1>2, AdapterChoice
<1>3. ASSUME NEW k \in Kinds, register(k) \/ unregister(k) PROVE ChoiceOK'
  <2>1. LookedUp /\ UNCHANGED <<asked, todo, quote, chosen, work>>
    BY <1>3 DEF register, unregister, theRequest, execution
  <2>2. ChosenIsNotDominated => ChosenIsNotDominated'
    BY <2>1 DEF ChosenIsNotDominated
  <2> QED BY <2>1, <2>2 DEF ChoiceInv, ChoiceOK, LookedUp
<1>4. ASSUME NEW k \in Kinds, MockQuote(k) PROVE ChoiceOK'
  <2>1. k \in todo /\ k \in ToSet(registered) /\ asked # None /\ chosen = None
    BY <1>4 DEF MockQuote, Asking, ChoiceInv, ChoiceOK
  <2>2. /\ UNCHANGED <<registered, asked, chosen, work>> /\ todo' \subseteq todo
        /\ \A j \in Kinds \ {k} : quote'[j] = quote[j]
    BY <1>0, <1>4 DEF MockQuote, Asking, execution, Quoted
  <2> QED BY <2>1, <2>2, WaitingChoice
<1>5. ASSUME NEW p \in Params, requestRoutes(p) PROVE ChoiceOK'
  <2>1. getSupportedProviders(p.source_chain, p.target_chain) \subseteq ToSet(registered)
    BY DEF getSupportedProviders
  <2>2. /\ asked = None /\ chosen = None /\ asked' = p /\ p # None
        /\ todo' \subseteq ToSet(registered) /\ UNCHANGED <<registered, work, quote, chosen>>
    BY <1>0, <1>5, <2>1 DEF requestRoutes, execution
  <2> QED BY <2>2 DEF ChoiceInv, ChoiceOK
<1>6. CASE selectQuote
  BY <1>6, SelectChoice
<1>7. CASE executeChosen
  <2>1. /\ chosen # None /\ UNCHANGED <<registered, asked, todo, work, chosen>>
        /\ \A k \in Kinds : quote'[k] = None
    BY <1>7 DEF executeChosen, theRequest
  <2>2. ChosenIsNotDominated'
    BY <2>1 DEF ChosenIsNotDominated
  <2> QED BY <2>1, <2>2 DEF ChoiceInv, ChoiceOK
<1>8. CASE BridgeStep
  <2>1. \A c \in Adapters : work'[c].op = work[c].op /\ work'[c].by = work[c].by
    BY <1>0, <1>8 DEF BridgeStep, Works
  <2> QED BY <1>8, <2>1, ChoiceFrame DEF BridgeStep, theRequest
<1>9. CASE FinishRequest
  BY <1>9 DEF FinishRequest, AllAnswered, ChoiceInv, ChoiceOK
<1> QED
  BY <1>1, <1>2, <1>3, <1>4, <1>5, <1>6, <1>7, <1>8, <1>9 DEF RouteNext

\* Whatever the providers answer and in whichever order, and however the registry changes
\* before and after: no quote is cheaper, faster, safer and more reliable at once than the one
\* that is chosen (route-scorer.ts, route-engine.ts: selectBestRoute).
THEOREM ChoiceIsNotDominated == RouteSpec => []ChosenIsNotDominated
<1>1. RouteInit => ChoiceInv
  BY DEF RouteInit, ChoiceInv, ChoiceOK, RouteType, RouteTypeOK, NamesAreUnique, IsInjective,
     Bridge, NoWork, Works, ToSet
<1>2. ChoiceInv => ChosenIsNotDominated
  BY DEF ChoiceInv, ChoiceOK, ChosenIsNotDominated
<1> QED BY <1>1, <1>2, ChoiceStep, PTL DEF RouteSpec

\* The registry, the request and the calls have the values the adapters expect.
THEOREM RoutesTypeCorrect == RouteSpec => [](HttpTypeOK /\ RouteTypeOK)
<1>1. HttpInit /\ RouteInit => HttpInv /\ RouteType
  BY HttpInitial
     DEF RouteInit, RouteType, RouteTypeOK, NamesAreUnique, IsInjective, Bridge, NoWork, Works
<1>2. HttpInv /\ RouteType => HttpTypeOK /\ RouteTypeOK
  BY DEF HttpInv, RouteType
<1> QED BY <1>1, <1>2, RoutingHttp, RouteTypeStep, PTL DEF RouteSpec

-----------------------------------------------------------------------------
(* GasAbstraction. *)

\* Merging two configurations field by field makes a configuration.
LEMMA MergeType ==
  ASSUME NEW existing \in Configs \cup {Unset}, NEW config \in Configs \cup {Unset}
  PROVE  Merge(existing, config) \in Configs \cup {Unset}
<1>1. CASE existing = Unset \/ config = Unset
  BY <1>1 DEF Merge
<1>2. CASE existing # Unset /\ config # Unset
  <2>1. existing \in Configs /\ config \in Configs
    BY <1>2
  <2>2. DOMAIN config = {"strategy", "paymaster", "feePercentage"}
    BY <2>1 DEF Configs
  <2> DEFINE both == [f \in {"strategy", "paymaster", "feePercentage"} |->
                        IF config[f] = Unset THEN existing[f] ELSE config[f]]
  <2>3. Merge(existing, config) = both
    BY <1>2, <2>2 DEF Merge
  <2>4. /\ both = [strategy |-> both.strategy, paymaster |-> both.paymaster,
                   feePercentage |-> both.feePercentage]
        /\ both.strategy = IF config.strategy = Unset THEN existing.strategy ELSE config.strategy
        /\ both.paymaster = IF config.paymaster = Unset THEN existing.paymaster
                                                        ELSE config.paymaster
        /\ both.feePercentage = IF config.feePercentage = Unset THEN existing.feePercentage
                                                                ELSE config.feePercentage
    OBVIOUS
  <2> HIDE DEF both
  <2>5. both \in Configs
    BY <2>1, <2>4 DEF Configs
  <2> QED BY <2>3, <2>5
<1> QED BY <1>1, <1>2

LEMMA DefaultType ==
  \A c : DEFAULT_CHAIN_CONFIGS(c) \in Configs \cup {Unset}
BY DEF DEFAULT_CHAIN_CONFIGS, Default, Configs, Strategies

\* Of an estimate that promises a gasless execution: there is a strategy that is available.
Promised(e) ==
  e # Unset /\ e.gaslessAvailable =>
    /\ chainConfigs[e.chainId] # Unset
    /\ e.percentage = chainConfigs[e.chainId].feePercentage
    /\ \/ chainConfigs[e.chainId].strategy = "ERC4337_PAYMASTER"
       \/ /\ chainConfigs[e.chainId].strategy \in {"RELAYER", "PRIORITY_FEE_RELAY"}
          /\ e.percentage # Unset

\* What becomes of a request on the chain it was prepared for.
Executed(r) ==
  r # Unset /\ r.of.chainId = r.chainId =>
    LET config == chainConfigs[r.chainId]
    IN /\ r.success
       /\ config # Unset
       /\ config.strategy = "ERC4337_PAYMASTER" => r.percentage = 0
       /\ config.strategy \in {"RELAYER", "PRIORITY_FEE_RELAY"} =>
            r.percentage = IF hasRelayer(config) THEN config.feePercentage ELSE 1

GasInv ==
  /\ GasTypeOK
  /\ prepared # Unset => prepared = Prepared(prepared.chainId)
  /\ Promised(estimate) /\ Executed(result)

LEMMA EstimateOK ==
  ASSUME GasInv, NEW c \in Chains, NEW token \in FeeTokens, estimateGasCost(c, token)
  PROVE  GasInv'
<1> USE DEF GasInv, GasTypeOK
<1>1. UNCHANGED <<chainConfigs, prepared, result>>
  BY DEF estimateGasCost
<1>2. CASE estimate' = estimateDefault(c)
  <2>1. estimate' \in Estimates /\ Promised(estimate)'
    BY <1>2 DEF estimateDefault, Estimates, Promised
  <2> QED BY <1>1, <2>1 DEF Executed, Prepared
<1>3. CASE /\ chainConfigs[c] # Unset
           /\ LET available == isGaslessAvailable(c, token)
              IN estimate' = [chainId |-> c, gaslessAvailable |-> available,
                              percentage |-> IF available THEN chainConfigs[c].feePercentage
                                                          ELSE Unset]
  <2>1. chainConfigs[c] \in Configs /\ chainConfigs[c].paymaster \in BOOLEAN \cup {Unset}
    BY <1>3 DEF Configs
  <2>2. isGaslessAvailable(c, token) \in BOOLEAN
    BY DEF isGaslessAvailable, hasRelayer
  <2>3. isGaslessAvailable(c, token) =>
          \/ chainConfigs[c].strategy = "ERC4337_PAYMASTER"
          \/ /\ chainConfigs[c].strategy \in {"RELAYER", "PRIORITY_FEE_RELAY"}
             /\ chainConfigs[c].feePercentage # Unset
    BY DEF isGaslessAvailable, hasRelayer
  <2>4. estimate' \in Estimates
    BY <1>3, <2>1, <2>2 DEF Estimates, Configs
  <2>5. Promised(estimate)'
    BY <1>1, <1>3, <2>2, <2>3 DEF Promised
  <2> QED BY <1>1, <2>4, <2>5 DEF Executed, Prepared
<1> QED BY <1>2, <1>3 DEF estimateGasCost

LEMMA PreparedType ==
  ASSUME NEW c \in Chains
  PROVE  /\ Prepared(c) \in GasRequests \cup {Unset}
         /\ Prepared(c) # Unset => Prepared(c).chainId = c
BY DEF Prepared, GasRequests

LEMMA ExecuteOK ==
  ASSUME GasInv, NEW c \in Chains, executeGasless(c)
  PROVE  result' \in Results /\ Executed(result)'
<1> DEFINE config == chainConfigs[c]
<1>1. /\ prepared \in GasRequests /\ prepared = Prepared(prepared.chainId)
      /\ chainConfigs' = chainConfigs /\ config \in Configs \cup {Unset}
  BY DEF GasInv, GasTypeOK, executeGasless
<1>2. CASE config = Unset
  <2>1. result' = Failed(c)
    BY <1>2 DEF executeGasless
  <2>2. prepared.chainId # c
    BY <1>1, <1>2, GasAssumption DEF Prepared
  <2> QED BY <1>1, <2>1, <2>2 DEF Failed, Results, Executed
<1>3. CASE config # Unset /\ config.strategy = "ERC4337_PAYMASTER"
  <2>1. result' = executePaymaster(c)
    BY <1>3 DEF executeGasless
  <2>2. prepared.chainId = c => prepared.kind = "paymaster"
    BY <1>1, <1>3 DEF Prepared
  <2> QED BY <1>1, <1>3, <2>1, <2>2
          DEF executePaymaster, Failed, Succeeded, Results, Executed
<1>4. CASE config # Unset /\ config.strategy \in {"RELAYER", "PRIORITY_FEE_RELAY"}
  <2>1. result' = executeRelayer(c, config)
    BY <1>4 DEF executeGasless
  <2>2. prepared.chainId = c => prepared.kind = "relayer"
    BY <1>1, <1>4 DEF Prepared
  <2>3. config.feePercentage \in (0 .. 100) \cup {Unset}
    BY <1>1, <1>4 DEF Configs
  <2> QED BY <1>1, <1>4, <2>1, <2>2, <2>3
          DEF executeRelayer, Failed, Succeeded, Results, Executed, hasRelayer
<1>5. CASE /\ config # Unset
           /\ config.strategy \notin {"ERC4337_PAYMASTER", "RELAYER", "PRIORITY_FEE_RELAY"}
  <2>1. result' = Failed(c)
    BY <1>5 DEF executeGasless
  <2>2. prepared.chainId # c
    BY <1>1, <1>5, GasAssumption DEF Prepared
  <2> QED BY <1>1, <2>1, <2>2 DEF Failed, Results, Executed
<1> QED BY <1>2, <1>3, <1>4, <1>5

LEMMA GasStep == GasInv /\ [GasNext]_gasVars => GasInv'
<1> SUFFICES ASSUME GasInv, [GasNext]_gasVars PROVE GasInv'
  OBVIOUS
<1>1. ASSUME NEW c \in Chains, NEW token \in FeeTokens, estimateGasCost(c, token)
      PROVE  GasInv'
  BY <1>1, EstimateOK
<1>2. ASSUME NEW c \in Chains, prepareGasless(c) PROVE GasInv'
  <2>1. /\ prepared' = Prepared(c) /\ Prepared(c) # Unset
        /\ UNCHANGED <<chainConfigs, estimate, result>>
    BY <1>2 DEF prepareGasless
  <2>2. prepared' \in GasRequests /\ prepared' = Prepared(prepared'.chainId)
    BY <2>1, PreparedType
  <2> QED BY <2>1, <2>2 DEF GasInv, GasTypeOK, Promised, Executed, Prepared
<1>3. ASSUME NEW c \in Chains, executeGasless(c) PROVE GasInv'
  <2>1. UNCHANGED <<chainConfigs, estimate, prepared>>
    BY <1>3 DEF executeGasless
  <2> QED BY <1>3, <2>1, ExecuteOK DEF GasInv, GasTypeOK, Promised, Prepared
<1>4. CASE UNCHANGED gasVars
  BY <1>4 DEF gasVars, GasInv, GasTypeOK, Promised, Executed, Prepared
<1> QED BY <1>1, <1>2, <1>3, <1>4 DEF GasNext

\* For any chains, clients and configuration: what was promised can be prepared, and on the
\* chain it was prepared for it executes at the quoted fee or less, although the three
\* operations decide apart (gas-abstraction.service.ts: estimateGasCost, prepareGasless,
\* executeGasless).
THEOREM GaslessIsKept == GasSpec => []GaslessKeepsItsPromise
<1>1. GasInit => GasInv
  <2> SUFFICES ASSUME GasInit PROVE GasInv
    OBVIOUS
  <2>1. chainConfigs \in [Chains -> Configs \cup {Unset}]
    <3>1. PICK custom \in [Chains -> Custom \cup {Unset}] :
            chainConfigs = [c \in Chains |-> Merge(DEFAULT_CHAIN_CONFIGS(c), custom[c])]
      BY DEF GasInit
    <3>2. \A c \in Chains : custom[c] \in Configs \cup {Unset}
      BY GasAssumption
    <3> QED BY <3>1, <3>2, MergeType, DefaultType
  <2> QED BY <2>1 DEF GasInit, GasInv, GasTypeOK, Promised, Executed
<1>2. GasInv => GaslessKeepsItsPromise
  <2> SUFFICES ASSUME GasInv, estimate # Unset, estimate.gaslessAvailable
               PROVE  /\ Prepared(estimate.chainId) # Unset
                      /\ result # Unset /\ result.chainId = estimate.chainId
                           /\ result.of.chainId = estimate.chainId =>
                           /\ result.success
                           /\ result.percentage <=
                                (IF estimate.percentage = Unset THEN 0 ELSE estimate.percentage)
    BY DEF GaslessKeepsItsPromise
  <2> DEFINE c == estimate.chainId
  <2>1. /\ c \in Chains /\ chainConfigs[c] \in Configs
        /\ estimate.percentage = chainConfigs[c].feePercentage
        /\ estimate.percentage \in (0 .. 100) \cup {Unset}
        /\ \/ chainConfigs[c].strategy = "ERC4337_PAYMASTER"
           \/ /\ chainConfigs[c].strategy \in {"RELAYER", "PRIORITY_FEE_RELAY"}
              /\ estimate.percentage # Unset
    BY DEF GasInv, GasTypeOK, Promised, Estimates
  <2>2. Prepared(c) \in GasRequests
    BY <2>1, PreparedType, GasAssumption DEF Prepared, GasRequests, GasInv, Promised
  <2>3. ASSUME result # Unset, result.chainId = c, result.of.chainId = c
        PROVE  /\ result.success
               /\ result.percentage <=
                    (IF estimate.percentage = Unset THEN 0 ELSE estimate.percentage)
    <3>1. /\ result.success
          /\ chainConfigs[c].strategy = "ERC4337_PAYMASTER" => result.percentage = 0
          /\ chainConfigs[c].strategy \in {"RELAYER", "PRIORITY_FEE_RELAY"} =>
               result.percentage = IF hasRelayer(chainConfigs[c])
                                   THEN chainConfigs[c].feePercentage ELSE 1
      BY <2>3 DEF GasInv, Executed
    <3> QED BY <2>1, <3>1 DEF hasRelayer
  <2> QED BY <2>2, <2>3, GasAssumption
<1> QED BY <1>1, <1>2, GasStep, PTL DEF GasSpec

-----------------------------------------------------------------------------
(* RouteEngine: for every number of requests and providers, every          *)
(* threshold and every order of results, a breaker is CLOSED exactly       *)
(* below its threshold, can always recover, and lets nothing through while *)
(* it is OPEN and cooling down.  The invariant is inductive because every  *)
(* change of a breaker is one of four: a look (OPEN to HALF_OPEN only), a  *)
(* success, a failure, the timer.                                          *)

\* What the breakers satisfy, apart from what requests are doing.
BreakerType ==
  /\ state \in [Providers -> CircuitState]
  /\ failures \in [Providers -> Nat]
  /\ cooldown \in [Providers -> Cooldown]

BreakersOK ==
  BreakerType /\ ClosedIffHealthy /\ CanRecover

IInv == TypeOK /\ ClosedIffHealthy /\ CanRecover

LEMMA IInvBreakers == IInv => BreakersOK
BY DEF IInv, BreakersOK, BreakerType, TypeOK

-----------------------------------------------------------------------------
(* The four ways a breaker changes. *)

\* A look moves OPEN to HALF_OPEN, which leaves the count and the stamp as they are.
LEMMA LookOK ==
  ASSUME NEW S \in SUBSET Providers, BreakersOK, Look(S), UNCHANGED <<failures, cooldown>>
  PROVE  BreakersOK'
BY RouteAssumption DEF BreakersOK, BreakerType, ClosedIffHealthy,
   CanRecover, Look, getState,
   shouldAttemptRecovery, CircuitState, Cooldown

\* A success closes the breaker and clears its count and its stamp.
LEMMA SuccessOK ==
  ASSUME NEW p \in Providers, BreakersOK, onSuccess(p)
  PROVE  BreakersOK'
BY RouteAssumption DEF BreakersOK, BreakerType, ClosedIffHealthy,
   CanRecover, onSuccess,
   CircuitState, Cooldown

\* A failure stamps the breaker and opens it at the threshold; one that is HALF_OPEN is there.
LEMMA FailureOK ==
  ASSUME NEW p \in Providers, BreakersOK, onFailure(p)
  PROVE  BreakersOK'
BY RouteAssumption DEF BreakersOK, BreakerType, ClosedIffHealthy,
   CanRecover, onFailure,
   CircuitState, Cooldown

\* The recovery timeout changes neither the state nor the count.
LEMMA ElapseOK ==
  ASSUME NEW p \in Providers, BreakersOK, Elapse(p)
  PROVE  BreakersOK'
BY DEF BreakersOK, BreakerType, ClosedIffHealthy, CanRecover, Elapse,
   CircuitState, Cooldown

\* Nothing happens to the breakers.
LEMMA IdleBreakers == BreakersOK /\ UNCHANGED breakers => BreakersOK'
BY DEF BreakersOK, BreakerType, ClosedIffHealthy, CanRecover, breakers

-----------------------------------------------------------------------------
(* Typing of the requests. *)

RequestType ==
  /\ orphans \in [Providers -> Nat]
  /\ pc \in [Requests -> Phases]
  /\ answer \in [Requests -> [Providers -> Answers]]
  /\ route \in [Requests -> Providers \cup {NoProvider}]

LEMMA TypeSplit == TypeOK <=> BreakerType /\ RequestType
BY DEF TypeOK, BreakerType, RequestType

LEMMA FinishType ==
  ASSUME NEW r \in Requests, RequestType, Finish(r), UNCHANGED orphans
  PROVE  RequestType'
BY DEF RequestType, Finish, NoAnswers, Phases, Answers

LEMMA AnsweredType ==
  ASSUME NEW r \in Requests, NEW p \in Providers, NEW a \in Answers, RequestType,
         Answered(r, p, a), orphans' \in [Providers -> Nat]
  PROVE  RequestType'
BY DEF RequestType, Answered

LEMMA FetchType ==
  ASSUME NEW r \in Requests, NEW Q \in SUBSET Providers, NEW phase \in Phases, RequestType,
         fetchQuotesParallel(r, Q, phase), UNCHANGED orphans
  PROVE  RequestType'
<1> DEFINE New == [p \in Providers |->
       CASE p \notin Q -> "none" [] getState(p) = "OPEN" -> "null" [] OTHER -> "pending"]
<1>1. New \in [Providers -> Answers]
  BY DEF Answers
<1>2. answer' = [answer EXCEPT ![r] = New] /\ pc' = [pc EXCEPT ![r] = phase] /\ route' = route
  BY DEF fetchQuotesParallel
<1> HIDE DEF New
<1>3. QED
  BY <1>1, <1>2 DEF RequestType

LEMMA IdleRequests ==
  RequestType /\ UNCHANGED <<orphans, requests>> => RequestType'
BY DEF RequestType, requests

-----------------------------------------------------------------------------
(* The invariant is inductive. *)

LEMMA ProviderStepOK ==
  ASSUME NEW p \in Providers, BreakersOK, RequestType, ProviderStep(p)
  PROVE  BreakersOK' /\ RequestType'
<1>1. CASE resetCircuit(p)
  BY <1>1, SuccessOK, IdleRequests DEF resetCircuit
<1>2. CASE Elapse(p)
  BY <1>2, ElapseOK, IdleRequests DEF Elapse
<1>3. CASE getCircuitState(p)
  <2>1. Look({p}) /\ UNCHANGED <<failures, cooldown, orphans, requests>>
    BY <1>3 DEF getCircuitState
  <2>2. QED
    BY <2>1, LookOK, IdleRequests
<1>4. CASE OrphanEnds(p)
  <2>1. orphans' \in [Providers -> Nat]
    BY <1>4 DEF OrphanEnds, RequestType
  <2>2. RequestType'
    BY <1>4, <2>1 DEF OrphanEnds, RequestType, requests
  <2>3. QED
    BY <1>4, <2>2, SuccessOK, FailureOK DEF OrphanEnds
<1>5. QED
  BY <1>1, <1>2, <1>3, <1>4 DEF ProviderStep

LEMMA AnswerStepOK ==
  ASSUME NEW r \in Requests, NEW p \in Providers, BreakersOK, RequestType, AnswerStep(r, p)
  PROVE  BreakersOK' /\ RequestType'
<1>1. CASE QuoteReturns(r, p)
  <2>1. orphans' \in [Providers -> Nat] /\ "quote" \in Answers
    BY <1>1 DEF QuoteReturns, RequestType, Answers
  <2>2. QED
    BY <1>1, <2>1, SuccessOK, AnsweredType DEF QuoteReturns
<1>2. CASE QuoteThrows(r, p)
  <2>1. orphans' \in [Providers -> Nat] /\ "null" \in Answers
    BY <1>2 DEF QuoteThrows, RequestType, Answers
  <2>2. QED
    BY <1>2, <2>1, FailureOK, AnsweredType DEF QuoteThrows
<1>3. CASE createTimeout(r, p)
  <2>1. orphans' \in [Providers -> Nat] /\ "null" \in Answers
    BY <1>3 DEF createTimeout, RequestType, Answers
  <2>2. QED
    BY <1>3, <2>1, IdleBreakers, AnsweredType DEF createTimeout
<1>4. CASE QuoteExpires(r, p)
  <2>1. RequestType'
    BY <1>4 DEF QuoteExpires, RequestType, Answers
  <2>2. QED
    BY <1>4, <2>1, IdleBreakers DEF QuoteExpires
<1>5. QED
  BY <1>1, <1>2, <1>3, <1>4 DEF AnswerStep

LEMMA RequestStepOK ==
  ASSUME NEW r \in Requests, BreakersOK, RequestType, RequestStep(r)
  PROVE  BreakersOK' /\ RequestType'
<1>1. CASE selectBestRoute(r)
  <2>1. PICK S \in SUBSET Providers :
          /\ Look(S)
          /\ \/ UNCHANGED requests
             \/ fetchQuotesParallel(r, {p \in S : getState(p) # "OPEN"},
                "selecting")
          /\ UNCHANGED <<failures, cooldown, orphans>>
    BY <1>1 DEF selectBestRoute
  <2> DEFINE Q == {p \in S : getState(p) # "OPEN"}
  <2>2. Q \in SUBSET Providers /\ "selecting" \in Phases
    BY DEF Phases
  <2> HIDE DEF Q
  <2>3. CASE UNCHANGED requests
    BY <2>1, <2>3, LookOK, IdleRequests
  <2>4. CASE fetchQuotesParallel(r, Q, "selecting")
    BY <2>1, <2>2, <2>4, LookOK, FetchType
  <2>5. QED
    BY <2>1, <2>3, <2>4 DEF Q
<1>2. CASE getAllRoutes(r)
  <2>1. PICK S \in SUBSET Providers :
          /\ Look(S)
          /\ fetchQuotesParallel(r, S, "comparing")
          /\ UNCHANGED <<failures, cooldown, orphans>>
    BY <1>2 DEF getAllRoutes
  <2>2. "comparing" \in Phases
    BY DEF Phases
  <2>3. QED
    BY <2>1, <2>2, LookOK, FetchType
<1>3. CASE NoRoute(r)
  BY <1>3, IdleBreakers, FinishType DEF NoRoute
<1>4. CASE selectBest(r)
  <2>1. PICK p \in Providers : route' = [route EXCEPT ![r] = p]
    BY <1>4 DEF selectBest, validQuotes
  <2>2. RequestType'
    BY <1>4, <2>1 DEF selectBest, RequestType, Phases
  <2>3. QED
    BY <1>4, <2>2, IdleBreakers DEF selectBest
<1>5. CASE Drop(r)
  BY <1>5, IdleBreakers, FinishType DEF Drop
<1>6. CASE executeRoute(r)
  <2>1. PICK p \in Providers :
          /\ Look({p})
          /\ \/ Finish(r)
             \/ /\ pc' = [pc EXCEPT ![r] = "executing"]
                /\ UNCHANGED <<answer, route>>
          /\ UNCHANGED <<failures, cooldown, orphans>>
    BY <1>6 DEF executeRoute
  <2>2. {p} \in SUBSET Providers
    OBVIOUS
  <2>3. BreakersOK'
    BY <2>1, <2>2, LookOK
  <2>4. RequestType'
    <3>1. CASE Finish(r)
      BY <2>1, <3>1, FinishType
    <3>2. CASE pc' = [pc EXCEPT ![r] = "executing"] /\ UNCHANGED <<answer, route>>
      BY <2>1, <3>2 DEF RequestType, Phases
    <3>3. QED
      BY <2>1, <3>1, <3>2
  <2>5. QED
    BY <2>3, <2>4
<1>7. CASE ExecutionEnds(r)
  <2>1. PICK p \in Providers : onSuccess(p) \/ onFailure(p)
    BY <1>7 DEF ExecutionEnds
  <2>2. QED
    BY <1>7, <2>1, SuccessOK, FailureOK, FinishType DEF ExecutionEnds
<1>8. QED
  BY <1>1, <1>2, <1>3, <1>4, <1>5, <1>6, <1>7 DEF RequestStep

LEMMA InitIInv == Init => IInv
BY RouteAssumption DEF Init, IInv, TypeOK, ClosedIffHealthy,
   CanRecover, NoAnswers, CircuitState,
   Cooldown, Phases, Answers

LEMMA NextIInv == IInv /\ [Next]_vars => IInv'
<1> SUFFICES ASSUME IInv, [Next]_vars PROVE IInv'
  OBVIOUS
<1>1. BreakersOK /\ RequestType
  BY IInvBreakers, TypeSplit DEF IInv
<1>2. BreakersOK' /\ RequestType' => IInv'
  BY DEF BreakersOK, BreakerType, RequestType, IInv, TypeOK
<1>3. CASE Next
  BY <1>1, <1>2, <1>3, ProviderStepOK, AnswerStepOK, RequestStepOK DEF Next
<1>4. CASE UNCHANGED vars
  BY <1>1, <1>2, <1>4, IdleBreakers, IdleRequests DEF vars
<1>5. QED
  BY <1>3, <1>4

-----------------------------------------------------------------------------
(* The theorems. *)

\* The inductive invariant of breakers and requests.
THEOREM Inductive == Spec => []IInv
BY InitIInv, NextIInv, PTL DEF Spec

\* The type invariant.
THEOREM TypeCorrect == Spec => []TypeOK
BY Inductive, PTL DEF IInv

\* A breaker's state and count agree, whatever order results reach it in.
THEOREM StateFollowsCount == Spec => []ClosedIffHealthy
BY Inductive, PTL DEF IInv

\* No breaker is shut for ever.
THEOREM NoBreakerIsStuck == Spec => []CanRecover
BY Inductive, PTL DEF IInv

-----------------------------------------------------------------------------
(* No call is let through while a breaker is OPEN and cooling down. *)

Shut(p) == state[p] = "OPEN" /\ cooldown[p] = "recent"

\* A request that only loses answers, or gains one that is not "pending", waits for nothing new.
LEMMA AnsweredWaits ==
  ASSUME RequestType, NEW r \in Requests, NEW p \in Providers,
     NEW a \in Answers \ {"pending"},
         Answered(r, p, a), NEW s \in Requests, NEW q \in Providers, Waiting(s, q)'
  PROVE  Waiting(s, q)
BY DEF RequestType, Answered, Waiting

LEMMA FinishWaits ==
  ASSUME RequestType, NEW r \in Requests, Finish(r),
         NEW s \in Requests, NEW q \in Providers, Waiting(s, q)'
  PROVE  Waiting(s, q)
BY DEF RequestType, Finish, Waiting, NoAnswers

LEMMA IdleWaits ==
  ASSUME UNCHANGED requests, NEW s \in Requests, NEW q \in Providers, Waiting(s, q)'
  PROVE  Waiting(s, q)
BY DEF requests, Waiting

\* Only providers whose breaker lets the call through are waited for.
LEMMA FetchWaits ==
  ASSUME RequestType, NEW r \in Requests, NEW Q \in SUBSET Providers,
         NEW phase \in {"selecting", "comparing"}, fetchQuotesParallel(r, Q, phase),
         NEW s \in Requests, NEW q \in Providers, Shut(q), Waiting(s, q)'
  PROVE  Waiting(s, q)
<1> DEFINE New == [p \in Providers |->
       CASE p \notin Q -> "none" [] getState(p) = "OPEN" -> "null" [] OTHER -> "pending"]
<1>1. New[q] # "pending"
  BY DEF Shut, getState, shouldAttemptRecovery
<1>2. answer' = [answer EXCEPT ![r] = New] /\ pc' = [pc EXCEPT ![r] = phase] /\ route' = route
  BY DEF fetchQuotesParallel
<1> HIDE DEF New
<1>3. QED
  BY <1>1, <1>2 DEF RequestType, Waiting

LEMMA StepShields ==
  ASSUME RequestType, Next, NEW s \in Requests, NEW q \in Providers, Shut(q),
     Waiting(s, q)'
  PROVE  Waiting(s, q)
<1>1. CASE \E p \in Providers : ProviderStep(p)
  BY <1>1, IdleWaits DEF ProviderStep, resetCircuit, Elapse,
     getCircuitState, OrphanEnds
<1>2. ASSUME NEW r \in Requests, NEW p \in Providers, AnswerStep(r, p)
      PROVE  Waiting(s, q)
  <2>1. "quote" \in Answers \ {"pending"} /\ "null" \in Answers \ {"pending"}
    BY DEF Answers
  <2>2. CASE QuoteReturns(r, p) \/ QuoteThrows(r, p) \/ createTimeout(r, p)
    BY <2>1, <2>2, AnsweredWaits DEF QuoteReturns, QuoteThrows, createTimeout
  <2>3. CASE QuoteExpires(r, p)
    BY <2>3 DEF QuoteExpires, RequestType, Waiting
  <2>4. QED
    BY <1>2, <2>2, <2>3 DEF AnswerStep
<1>3. ASSUME NEW r \in Requests, RequestStep(r)
      PROVE  Waiting(s, q)
  <2>1. CASE selectBestRoute(r)
    <3>1. PICK Q \in SUBSET Providers :
            UNCHANGED requests \/ fetchQuotesParallel(r, Q, "selecting")
      <4>1. PICK S \in SUBSET Providers :
              \/ UNCHANGED requests
              \/ fetchQuotesParallel(r, {p \in S : getState(p) # "OPEN"},
                 "selecting")
        BY <2>1 DEF selectBestRoute
      <4>2. {p \in S : getState(p) # "OPEN"} \in SUBSET Providers
        OBVIOUS
      <4>3. QED
        BY <4>1, <4>2
    <3>2. QED
      BY <3>1, IdleWaits, FetchWaits
  <2>2. CASE getAllRoutes(r)
    BY <2>2, FetchWaits DEF getAllRoutes
  <2>3. CASE NoRoute(r) \/ Drop(r) \/ ExecutionEnds(r)
    BY <2>3, FinishWaits DEF NoRoute, Drop, ExecutionEnds
  <2>4. CASE selectBest(r)
    BY <2>4 DEF selectBest, RequestType, Waiting
  <2>5. CASE executeRoute(r)
    <3>1. PICK p \in Providers :
            /\ p = route[r]
            /\ \/ Finish(r)
               \/ /\ getState(p) # "OPEN"
                  /\ pc' = [pc EXCEPT ![r] = "executing"]
                  /\ UNCHANGED <<answer, route>>
      BY <2>5 DEF executeRoute
    <3>2. CASE Finish(r)
      BY <3>2, FinishWaits
    <3>3. CASE getState(p) # "OPEN" /\ pc' = [pc EXCEPT ![r] = "executing"]
               /\ UNCHANGED <<answer, route>>
      <4>1. p # q
        BY <3>3 DEF Shut, getState, shouldAttemptRecovery
      <4>2. QED
        BY <3>1, <3>3, <4>1 DEF RequestType, Waiting
    <3>4. QED
      BY <3>1, <3>2, <3>3
  <2>6. QED
    BY <1>3, <2>1, <2>2, <2>3, <2>4, <2>5 DEF RequestStep
<1>4. QED
  BY <1>1, <1>2, <1>3 DEF Next

\* Neither selection, comparison nor execution reaches a provider whose breaker is OPEN
\* and cooling down.
THEOREM BreakersShield == Spec => OpenShields
<1>1. IInv /\ [Next]_vars =>
        [\A r \in Requests, p \in Providers :
           state[p] = "OPEN" /\ cooldown[p] = "recent" /\ Waiting(r,
              p)' => Waiting(r, p)]_vars
  BY StepShields, TypeSplit DEF IInv, Shut
<1>2. QED
  BY <1>1, Inductive, PTL DEF Spec, OpenShields
=============================================================================
