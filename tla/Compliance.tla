----------------------------- MODULE Compliance -----------------------------
(***************************************************************************)
(* Screening: ComplianceOrchestrator with its VelocityChecker              *)
(* (packages/compliance/src) and ComplianceGate (packages/rate-lock/src),  *)
(* over one of the scorers: BasicRiskScorer, with or without a sanctions   *)
(* provider, or a vendor's (Chainalysis, TRM).                             *)
(*                                                                         *)
(* A call looks at the scorer's cache, perhaps asks the source of the list *)
(* and waits, and then decides.  Calls overlap, the list changes and time  *)
(* passes (Tick ages everything; there is no clock).                       *)
(*                                                                         *)
(* The vendors' calls, simulated at this commit, are taken to be the       *)
(* requests that they stand for and whose errors are handled.              *)
(*                                                                         *)
(* Abstracted: one address on one chain, the key of every map; its score   *)
(* without a match, a hash in all three scorers, to a choice at the start; *)
(* the audit log and whatever else of a result nobody decides by.          *)
(***************************************************************************)
EXTENDS Sums

CONSTANTS
  Scorers,          \* that a deployment may have
  Calls,            \* concurrent calls
  Scores,           \* scores that an address may have
  Amounts,
  Delays,           \* how long a deposit's block is old when it is screened
  ScoreTtl,         \* of the scorer
  MaxLookup,        \* bound: how long a call waits for the source
  durationMs,       \* the velocity window
  maxTransactions, maxAmount,
  Places            \* bound: records in the window

Vendors == {"chainalysis", "trm"}

ASSUME ComplianceAssumption ==
  /\ Scorers \subseteq Vendors \cup {"basic", "basicAlone"}
  /\ Scores \subseteq 0 .. 100 /\ Amounts \subseteq Nat /\ Delays \subseteq Nat
  /\ ScoreTtl \in Nat \ {0} /\ MaxLookup \in Nat /\ durationMs \in Nat
  /\ maxTransactions \in Nat /\ maxAmount \in Nat /\ IsFiniteSet(Places)

VARIABLES
  scorer,           \* fixed by the deployment, as is
  velocityChecks,   \* enableVelocityChecks of the orchestrator
  profile,          \* of the address: its score, and its categories at a vendor's
  entries,          \* whether it is on the list
  scores,           \* of the scorer: score, flags, time left, and the answer it rests on
  windows,          \* the records of VelocityChecker, in any order
  blockedAddresses, \* of the gate: whether it, or its chain, is in a set
  screenings

deployment == <<scorer, velocityChecks, profile>>
screeningVars == <<deployment, entries, scores, windows, blockedAddresses, screenings>>

Kinds == {"creation", "deposit", "settlement", "gateAddress", "gateTransaction"}
Flags == {"SANCTIONED", "MIXER", "NEW_ADDRESS"}

\* What the source said (history): whether it answered, with a match, how long ago, and how
\* long the call had waited when the answer arrived.
Answers == [ok : BOOLEAN, listed : BOOLEAN, age : Nat, took : Nat]
NoAnswer == [ok |-> FALSE, listed |-> FALSE, age |-> 0, took |-> 0]
Risks == [riskScore : 0 .. 100, flags : SUBSET Flags, basis : Answers]
NoScore == [risk |-> [riskScore |-> 0, flags |-> {}, basis |-> NoAnswer], left |-> 0]

\* What the window keeps of a screening, and (history) whether it was allowed.
Records == [amount : Amounts, age : 0 .. durationMs, allowed : BOOLEAN]
NoRecords == [n \in {} |-> 0]

\* What is screened: the kind of screening, the amount, and how old its block is.
Requests == {r \in [kind : Kinds, amount : Amounts, delay : Delays \cup {0}] :
               r.kind # "deposit" => r.delay = 0}
NoRequest == [kind |-> "none", amount |-> 0, delay |-> 0]
Ended(verdict, basis) ==
  [of |-> NoRequest, st |-> "idle", lasted |-> 0, basis |-> basis, verdict |-> verdict]
NotScreening == Ended("none", NoAnswer)

\* What the orchestrator does not block is "allowed", what the gate does not, "passed".
Verdicts == {"none", "allowed", "passed", "blocked", "threw"}
ByGate(r) == r.kind \in {"gateAddress", "gateTransaction"}

ScreeningTypeOK ==
  /\ scorer \in Scorers /\ velocityChecks \in BOOLEAN
  /\ profile \in [score : Scores, flags : SUBSET {"MIXER"}]
  /\ entries \in BOOLEAN /\ blockedAddresses \in BOOLEAN
  /\ scores \in [risk : Risks, left : 0 .. ScoreTtl]
  /\ \E D \in SUBSET Places : windows \in [D -> Records]
  /\ screenings \in [Calls -> [of : Requests \cup {NoRequest},
                               st : {"idle", "asking", "answered"},
                               lasted : Nat, basis : Answers, verdict : Verdicts]]

\* Without a match, the factors of the basic scorer are below 80, and so is their average.
ScreeningInit ==
  /\ scorer \in Scorers /\ velocityChecks \in BOOLEAN
  /\ profile \in {p \in [score : Scores, flags : SUBSET {"MIXER"}] :
                    scorer \notin Vendors => p.score < 80 /\ p.flags = {}}
  /\ entries \in BOOLEAN
  /\ scores = NoScore /\ windows = NoRecords /\ blockedAddresses = FALSE
  /\ screenings = [c \in Calls |-> NotScreening]

-----------------------------------------------------------------------------
(* The scorers. *)

\* Below HIGH nothing asks for the level.
Level(score, critical, high) ==
  CASE score >= critical -> "CRITICAL"
    [] score >= high /\ score < critical -> "HIGH"
    [] OTHER -> "LOW"

BasicRiskLevel(score) == Level(score, 80, 60)
VendorRiskLevel(score) == Level(score, 90, 70)
determineRiskLevel(score) ==
  IF scorer \in Vendors THEN VendorRiskLevel(score) ELSE BasicRiskLevel(score)

\* The score of the factor SANCTIONS; it is 0 as well when the provider throws, and as good as
\* 0 without a provider.
calculateRiskFactors(answer) == IF answer.listed THEN 100 ELSE 0

\* A match overrides the weighted average.
totalScore(answer) == IF calculateRiskFactors(answer) >= 80 THEN 100 ELSE profile.score

extractFlags(answer) == IF calculateRiskFactors(answer) >= 80 THEN {"SANCTIONED"} ELSE {}

\* A vendor's score does not depend on its finding a match.
parseRiskResponse(answer) ==
  [riskScore |-> profile.score,
   flags |-> profile.flags \cup (IF answer.listed THEN {"SANCTIONED"} ELSE {}),
   basis |-> answer]

\* The result of a screenAddress that did not find the address in the cache.
screened(answer) ==
  IF scorer \in Vendors THEN parseRiskResponse(answer)
  ELSE [riskScore |-> totalScore(answer), flags |-> extractFlags(answer), basis |-> answer]

\* The basic cache keeps the score and makes up the flags.
buildCachedResult ==
  [scores.risk EXCEPT !.flags =
     CASE scores.risk.riskScore >= 80 -> {"SANCTIONED"}
       [] scores.risk.riskScore \in 60 .. 79 -> {"NEW_ADDRESS"}
       [] OTHER -> {}]

cachedResult == IF scorer \in Vendors THEN scores.risk ELSE buildCachedResult

checkTransactionPatterns(amount) ==
  (IF amount > 100000 THEN 10 ELSE 0)
    + (IF amount % 1000 = 0 /\ amount > 0 THEN 5 ELSE 0)

\* screenTransaction adds to the score what the amount tells.
OfTransaction(r) == r.kind \in {"deposit", "gateTransaction"}
adjustedScore(r, risk) ==
  IF OfTransaction(r) THEN Min({100, risk.riskScore + checkTransactionPatterns(r.amount)})
  ELSE risk.riskScore

-----------------------------------------------------------------------------
(* VelocityChecker. *)

Total(records) == SumOver([n \in DOMAIN records |-> records[n].amount], DOMAIN records)
Count(records) == Cardinality(DOMAIN records)

\* Mutant: the amounts are not looked at.
exceeded_CountOnly(records) == Count(records) > maxTransactions

exceeded(records) == Count(records) > maxTransactions \/ Total(records) > maxAmount

Counted(r) == velocityChecks /\ r.kind \in {"creation", "deposit"}

\* The new record is dropped at once if its block is older than the window.
Enters(r) == Counted(r) /\ r.delay <= durationMs

Full == DOMAIN windows = Places
Free == CHOOSE n \in Places : n \notin DOMAIN windows

\* The records that checkVelocity leaves, if the request asks it.
checkVelocity(r, verdict) ==
  IF Enters(r)
  THEN [n \in DOMAIN windows \cup {Free} |->
          IF n \in DOMAIN windows THEN windows[n]
          ELSE [amount |-> r.amount, age |-> r.delay, allowed |-> verdict = "allowed"]]
  ELSE windows

-----------------------------------------------------------------------------
(* Decisions. *)

RiskLevel(r, risk) == determineRiskLevel(adjustedScore(r, risk))

\* Of the orchestrator.  A score that "requires manual review" does not block.
makeDecision(r, risk) ==
  \/ "SANCTIONED" \in risk.flags
  \/ RiskLevel(r, risk) = "CRITICAL"
  \/ RiskLevel(r, risk) = "HIGH" /\ r.amount > 50000
  \/ Counted(r) /\ exceeded(checkVelocity(r, "none"))

\* Of the gate's checkAddress.
AddressRefused(r, risk) ==
  \/ "SANCTIONED" \in risk.flags
  \/ RiskLevel(r, risk) = "CRITICAL"
  \/ RiskLevel(r, risk) = "HIGH" /\ r.amount > 50000

\* Of the gate's checkTransaction, which lets a high risk with a large amount pass.
TransactionRefused(r, risk) ==
  RiskLevel(r, risk) = "CRITICAL" \/ risk.flags \cap {"SANCTIONED", "MIXER"} # {}

blocked(r, risk) ==
  CASE r.kind = "gateAddress" -> AddressRefused(r, risk)
    [] r.kind = "gateTransaction" -> TransactionRefused(r, risk)
    [] OTHER -> makeDecision(r, risk)

\* The rest of a screening once the risk is known: velocity and decision.  A transaction that
\* is blocked stays in the window.
Decide(c, r, risk) ==
  LET verdict == IF blocked(r, risk) THEN "blocked" ELSE IF ByGate(r) THEN "passed" ELSE "allowed"
  IN /\ screenings' = [screenings EXCEPT ![c] = Ended(verdict, risk.basis)]
     /\ windows' = checkVelocity(r, verdict)

-----------------------------------------------------------------------------
(* A screening. *)

\* screenAddress up to the await of the source; with a cached result the screening goes
\* through.
screenAddress(c, r) ==
  /\ screenings[c].st = "idle" /\ ~ Full
  /\ IF scores.left > 0 THEN Decide(c, r, cachedResult)
     ELSE /\ screenings' = [screenings EXCEPT
               ![c] = [NotScreening EXCEPT !.of = r, !.st = "asking"]]
          /\ UNCHANGED windows
  /\ UNCHANGED <<deployment, entries, scores, blockedAddresses>>

screenIntentCreation(c, amount) ==
  screenAddress(c, [kind |-> "creation", amount |-> amount, delay |-> 0])

\* The timestamp of the transaction is that of its block.
screenDeposit(c, amount, delay) ==
  screenAddress(c, [kind |-> "deposit", amount |-> amount, delay |-> delay])

screenSettlement(c, amount) ==
  screenAddress(c, [kind |-> "settlement", amount |-> amount, delay |-> 0])

\* "Quick checks first": what is blocked while the scorer is asked is not seen.
checkAddress(c, amount) ==
  IF blockedAddresses
  THEN /\ screenings[c].st = "idle"
       /\ screenings' = [screenings EXCEPT ![c] = Ended("blocked", NoAnswer)]
       /\ UNCHANGED <<deployment, entries, scores, windows, blockedAddresses>>
  ELSE screenAddress(c, [kind |-> "gateAddress", amount |-> amount, delay |-> 0])

checkTransaction(c, amount) ==
  screenAddress(c, [kind |-> "gateTransaction", amount |-> amount, delay |-> 0])

\* The source looks at its list.
LookUp(c) ==
  /\ screenings[c].st = "asking"
  /\ screenings' = [screenings EXCEPT ![c].st = "answered",
       ![c].basis = [ok |-> TRUE, listed |-> entries, age |-> 0, took |-> 0]]
  /\ UNCHANGED <<deployment, entries, scores, windows, blockedAddresses>>

providerAnswers(c) == scorer = "basic" /\ LookUp(c)
callChainalysisRisk(c) == scorer = "chainalysis" /\ LookUp(c)
callTRMRisk(c) == scorer = "trm" /\ LookUp(c)

StoreScore(risk) == scores' = [risk |-> risk, left |-> ScoreTtl]

\* The result that the scorer makes of an answer is cached, over a later one that was faster,
\* and decided by.
Rate(c, answer) ==
  /\ ~ Full
  /\ StoreScore(screened(answer))
  /\ Decide(c, screenings[c].of, screened(answer))
  /\ UNCHANGED <<deployment, entries, blockedAddresses>>

ResultArrives(c) ==
  /\ screenings[c].st = "answered"
  /\ Rate(c, [screenings[c].basis EXCEPT !.took = screenings[c].lasted])

\* "Assume safe": the basic scorer goes on without an answer, and caches what it makes of it.
providerThrows(c) == scorer = "basic" /\ screenings[c].st = "asking" /\ Rate(c, NoAnswer)

\* It has nobody to ask.
noProvider(c) == scorer = "basicAlone" /\ screenings[c].st = "asking" /\ Rate(c, NoAnswer)

\* The catch of the orchestrator's screenings is fail-closed; the gate has none.
Unavailable(c) ==
  /\ screenings[c].st = "asking"
  /\ screenings' = [screenings EXCEPT
       ![c] = Ended(IF ByGate(screenings[c].of) THEN "threw" ELSE "blocked", NoAnswer)]
  /\ UNCHANGED <<deployment, entries, scores, windows, blockedAddresses>>

\* Mutant: a failure of the vendor is taken as the basic scorer takes its provider's.
ChainalysisFails_Open(c) ==
  scorer = "chainalysis" /\ screenings[c].st = "asking" /\ Rate(c, NoAnswer)

\* ScreeningUnavailableError.
ChainalysisFails(c) == scorer = "chainalysis" /\ Unavailable(c)
TRMFails(c) == scorer = "trm" /\ Unavailable(c)

-----------------------------------------------------------------------------
\* addEntry and removeEntry of the provider.
ChangeList ==
  /\ entries' = ~ entries
  /\ UNCHANGED <<deployment, scores, windows, blockedAddresses, screenings>>

\* blockAddress and unblockAddress.
BlockAddress ==
  /\ blockedAddresses' = ~ blockedAddresses
  /\ UNCHANGED <<deployment, entries, scores, windows, screenings>>

\* Records that leave the window are those that the next check filters out, and a verdict is
\* forgotten.
ScreeningTick ==
  /\ \A c \in Calls : screenings[c].st # "idle" => screenings[c].lasted < MaxLookup
  /\ scores' = IF scores.left <= 1 THEN NoScore
               ELSE [scores EXCEPT !.left = @ - 1, !.risk.basis.age = @ + 1]
  /\ windows' = [n \in {m \in DOMAIN windows : windows[m].age < durationMs} |->
                   [windows[n] EXCEPT !.age = @ + 1]]
  /\ screenings' = [c \in Calls |->
       CASE screenings[c].st = "asking" -> [screenings[c] EXCEPT !.lasted = @ + 1]
         [] screenings[c].st = "answered" ->
              [screenings[c] EXCEPT !.lasted = @ + 1, !.basis.age = @ + 1]
         [] OTHER -> NotScreening]
  /\ UNCHANGED <<deployment, entries, blockedAddresses>>

ScreeningNext ==
  \/ \E c \in Calls, amount \in Amounts :
       \/ screenIntentCreation(c, amount) \/ screenSettlement(c, amount)
       \/ \E delay \in Delays : screenDeposit(c, amount, delay)
       \/ checkAddress(c, amount) \/ checkTransaction(c, amount)
  \/ \E c \in Calls :
       \/ providerAnswers(c) \/ callChainalysisRisk(c) \/ callTRMRisk(c)
       \/ ResultArrives(c)
       \/ providerThrows(c) \/ noProvider(c) \/ ChainalysisFails(c) \/ TRMFails(c)
  \/ ChangeList \/ BlockAddress \/ ScreeningTick

ScreeningSpec == ScreeningInit /\ [][ScreeningNext]_screeningVars

-----------------------------------------------------------------------------
(* Properties. *)

(***************************************************************************)
(* Whichever of the five screenings lets something through, with a cache   *)
(* that overlapping calls fill in any order: if the source of the list     *)
(* answered at all, its answer was no match, and was given less than a     *)
(* cache lifetime before now or before the call began that asked for it.   *)
(* A vendor's did answer.  (Of the basic scorer's, see FailClosed.)        *)
(***************************************************************************)
AllowedWasScreened ==
  \A c \in Calls :
    screenings[c].verdict \in {"allowed", "passed"} =>
      LET basis == screenings[c].basis
      IN /\ scorer \in Vendors => basis.ok
         /\ basis.ok => ~ basis.listed /\ basis.age < ScoreTtl + basis.took

(***************************************************************************)
(* "FAIL-CLOSED: If screening is unavailable, block the payment.": what    *)
(* the orchestrator allows, the source of the list has answered about.     *)
(***************************************************************************)
FailClosed == \A c \in Calls : screenings[c].verdict = "allowed" => screenings[c].basis.ok

(***************************************************************************)
(* maxTransactions and maxAmount, in any order of creations and deposits,  *)
(* late blocks included: what was allowed and lies in the window respects  *)
(* both.                                                                   *)
(***************************************************************************)
AllowedWithinLimits ==
  LET allowed == {n \in DOMAIN windows : windows[n].allowed}
  IN /\ Cardinality(allowed) <= maxTransactions
     /\ SumOver([n \in allowed |-> windows[n].amount], allowed) <= maxAmount
=============================================================================
