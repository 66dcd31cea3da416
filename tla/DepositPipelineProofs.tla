----------------------- MODULE DepositPipelineProofs -----------------------
(***************************************************************************)
(* Theorems about DepositPipeline: for any intents, addresses, transfers,  *)
(* transactions and faults, a transfer is credited once, an intent is      *)
(* CONFIRMING only on a final transaction, a record job that succeeded has *)
(* settled the matter, and the jobs live as JobLifecycle says.             *)
(*                                                                         *)
(* The strengthening ties rows to each other: the job of a transfer names  *)
(* the one intent the transfer may be credited to, a confirm job exists    *)
(* only for a final transaction of the intent it names, and the loop's     *)
(* running job is RUNNING and has done what its outcome says.              *)
(***************************************************************************)
EXTENDS DepositPipeline, TLAPS

Exists(j) == jobStatus[j] # "ABSENT"

\* An intent was quoted before anything could be found at its address.
FoundWasQuoted == \A r \in resolved : r[2] # None => state[r[2]] # "CREATED"

JobsNameIntents ==
  \A j \in RecordJobs : Exists(j) => intentId[j] \in Intents /\ state[intentId[j]] # "CREATED"

\* An intent has a deposit from its detection on, and only then.
PaidIfDetected ==
  \A i \in Intents : paidBy[i] = None <=> state[i] \notin {"DETECTED", "CONFIRMING"}

\* Only the job of a transfer credits it, to the intent that the job was enqueued with.
CreditedByItsJob ==
  \A i \in Intents : paidBy[i] # None =>
    Exists(<<"record", paidBy[i]>>) /\ intentId[<<"record", paidBy[i]>>] = i

ConfirmJobsAreFinal ==
  \A j \in ConfirmJobs : Exists(j) =>
    /\ intentId[j] \in Intents /\ paidBy[intentId[j]] \in Transfers
    /\ TxOf[paidBy[intentId[j]]] = j[2] /\ chain[j[2]] = "deep"

SweptArePaid == \A i \in sweep : paidBy[i] \in Transfers

RunningIsRunning == running # None => jobStatus[running] = "RUNNING"

ReturnedIsDone ==
  running \in RecordJobs /\ outcome = "returned" => intentId[running] \notin Awaiting

IInv ==
  /\ TypeOK
  /\ FoundWasQuoted /\ SweptArePaid
  /\ JobsNameIntents /\ PaidIfDetected /\ CreditedByItsJob
  /\ ConfirmJobsAreFinal /\ ConfirmedIsFinal
  /\ RunningIsRunning /\ ReturnedIsDone /\ RecordedIsDone

-----------------------------------------------------------------------------
(* The keys of the jobs, and the type of the rows. *)

LEMMA Keys ==
  /\ \A t \in Transfers : <<"record", t>> \in RecordJobs /\ TxOf[t] \in Txs
  /\ \A x \in Txs : <<"confirm", x>> \in ConfirmJobs
  /\ RecordJobs \subseteq Jobs /\ ConfirmJobs \subseteq Jobs
  /\ RecordJobs \cap ConfirmJobs = {}
  /\ \A j \in RecordJobs : j[1] = "record" /\ j[2] \in Transfers /\ j = <<"record", j[2]>>
  /\ \A j \in ConfirmJobs : j[1] = "confirm" /\ j[2] \in Txs /\ j = <<"confirm", j[2]>>
  /\ \A j \in Jobs : j[1] = "record" => j \in RecordJobs
  /\ \A j \in Jobs : j[1] = "confirm" => j \in ConfirmJobs
BY DEF RecordJobs, ConfirmJobs, Jobs, Txs

LEMMA Nones == None \notin Intents /\ None \notin Transfers /\ None \notin Jobs
BY PipelineAssumption

LEMMA TypeStep == TypeOK /\ [Next]_vars => TypeOK'
<1> SUFFICES ASSUME TypeOK, [Next]_vars PROVE TypeOK'
  OBVIOUS
<1> USE DEF TypeOK, Fault, intents, client, callbacks, queue, loop
<1>1. ASSUME NEW i \in Intents, Quote(i) PROVE TypeOK'
  BY <1>1 DEF Quote
<1>2. ASSUME NEW i \in Intents, Examine(i) PROVE TypeOK'
  BY <1>2 DEF Examine, Add
<1>3. ASSUME NEW x \in Txs, Mine(x) \/ Deepen(x) \/ Reorg(x) PROVE TypeOK'
  BY <1>3 DEF Mine, Deepen, Reorg
<1>4. ASSUME NEW t \in Transfers, Poll(t) \/ Lookup(t) PROVE TypeOK'
  BY <1>4 DEF Poll, Lookup, Listening
<1>5. ASSUME NEW t \in Transfers, NEW i \in Intents \cup {None}, Enqueue(t, i) PROVE TypeOK'
  BY <1>5 DEF Enqueue, Add
<1>6. ASSUME NEW j \in Jobs, Claim(j) \/ Reclaim(j) PROVE TypeOK'
  <2>1. CASE Claim(j)
    BY <2>1 DEF Claim, SetStatus
  <2>2. CASE Reclaim(j)
    BY <2>2 DEF Reclaim, SetStatus
  <2>3. QED
    BY <1>6, <2>1, <2>2
<1>7. ASSUME Refresh PROVE TypeOK'
  <2>1. watched' \subseteq Addresses /\ passed' \subseteq Transfers
    BY <1>7, PipelineAssumption DEF Refresh, Awaiting, OnChain
  <2>2. QED
    BY <1>7, <2>1 DEF Refresh
<1>8. ASSUME LoseCallback PROVE TypeOK'
  BY <1>8 DEF LoseCallback
<1>15. ASSUME Sweep \/ Restart PROVE TypeOK'
  BY <1>15 DEF Sweep, Restart
<1>16. ASSUME Crash PROVE TypeOK'
  <2>1. watched' \subseteq Addresses /\ observed' \subseteq Transfers /\ sweep' \subseteq Intents
    BY <1>16 DEF Crash
  <2>2. resolved' \subseteq Transfers \X (Intents \cup {None})
    BY <1>16 DEF Crash
  <2>3. running' \in Jobs \cup {None} /\ outcome' \in {"none", "returned", "threw"} /\ faults' \in Nat
    BY <1>16 DEF Crash
  <2>4. QED
    BY <1>16, <2>1, <2>2, <2>3 DEF Crash
<1>9. ASSUME RecordNothing \/ ConfirmRefused \/ LogUnattributed \/ HandlerError PROVE TypeOK'
  BY <1>9 DEF RecordNothing, ConfirmRefused, LogUnattributed, HandlerError, HandlerDone
<1>10. ASSUME AcceptQuote \/ ExpireQuote \/ ConfirmDeposit PROVE TypeOK'
  BY <1>10 DEF AcceptQuote, Accepted, ExpireQuote, ConfirmDeposit, Transitioned, HandlerDone
<1>11. ASSUME DetectDeposit PROVE TypeOK'
  <2>1. running \in RecordJobs
    BY <1>11, Keys DEF DetectDeposit, Handling
  <2>2. running[2] \in Transfers
    BY <2>1, Keys
  <2>3. state' \in [Intents -> {"CREATED", "QUOTED", "AWAITING_PAYMENT", "DETECTED",
                                "CONFIRMING", "EXPIRED"}]
    BY <1>11 DEF DetectDeposit
  <2>4. paidBy' \in [Intents -> Transfers \cup {None}]
    BY <1>11, <2>2 DEF DetectDeposit
  <2>5. /\ outcome' \in {"none", "returned", "threw"} /\ faults' \in Nat
        /\ UNCHANGED <<running, polling>>
    BY <1>11 DEF DetectDeposit, Transitioned, HandlerDone
  <2>6. QED
    BY <1>11, <2>3, <2>4, <2>5 DEF DetectDeposit
<1>12. ASSUME Acknowledge \/ CompleteThrows PROVE TypeOK'
  BY <1>12 DEF Acknowledge, CompleteThrows, SetStatus, AfterFailure
<1>17. ASSUME LoopEnds PROVE TypeOK'
  <2>1. /\ UNCHANGED <<intents, chain, up, client, callbacks, sweep, intentId>>
        /\ polling' = FALSE /\ running' = None /\ outcome' = "none" /\ faults' \in Nat
    BY <1>17 DEF LoopEnds, SetStatus, Fault, queue
  <2>2. /\ jobStatus' \in [Jobs -> {"ABSENT", "PENDING", "RUNNING", "SUCCEEDED", "DEAD_LETTERED"}]
        /\ attempts' \in [Jobs -> Nat]
    <3>1. CASE UNCHANGED queue
      BY <3>1
    <3>2. ASSUME NEW j \in Jobs, SetStatus(j, "RUNNING"),
                 attempts' = [attempts EXCEPT ![j] = @ + 1]
          PROVE  /\ jobStatus' \in [Jobs -> {"ABSENT", "PENDING", "RUNNING", "SUCCEEDED",
                                             "DEAD_LETTERED"}]
                 /\ attempts' \in [Jobs -> Nat]
      BY <3>2 DEF SetStatus
    <3>3. CASE SetStatus(running, AfterFailure(running)) /\ UNCHANGED attempts
      BY <3>3 DEF SetStatus, AfterFailure
    <3>4. QED
      BY <1>17, <3>1, <3>2, <3>3 DEF LoopEnds
  <2>3. QED
    BY <2>1, <2>2
<1>13. CASE UNCHANGED vars
  BY <1>13 DEF vars
<1>14. QED
  BY <1>1, <1>2, <1>3, <1>4, <1>5, <1>6, <1>7, <1>8, <1>9, <1>10, <1>11, <1>12, <1>13,
     <1>15, <1>16, <1>17 DEF Next, Handler

LEMMA InitIInv == Init => IInv
<1> SUFFICES ASSUME Init PROVE IInv
  OBVIOUS
<1>1. TypeOK
  BY DEF Init, TypeOK
<1>2. FoundWasQuoted /\ SweptArePaid /\ JobsNameIntents /\ PaidIfDetected /\ CreditedByItsJob
  BY Keys DEF Init, FoundWasQuoted, SweptArePaid, JobsNameIntents, PaidIfDetected,
              CreditedByItsJob, Exists
<1>3. ConfirmJobsAreFinal /\ ConfirmedIsFinal /\ RunningIsRunning /\ ReturnedIsDone /\ RecordedIsDone
  BY Keys, Nones DEF Init, ConfirmJobsAreFinal, ConfirmedIsFinal, RunningIsRunning, ReturnedIsDone,
                     RecordedIsDone, Exists
<1>4. QED
  BY <1>1, <1>2, <1>3 DEF IInv

-----------------------------------------------------------------------------
(* The invariant without its type, in the parts that actions disturb together. *)

Rows == JobsNameIntents /\ PaidIfDetected /\ CreditedByItsJob /\ RecordedIsDone
Finality == ConfirmJobsAreFinal /\ ConfirmedIsFinal
LoopState == RunningIsRunning /\ ReturnedIsDone
Memory == FoundWasQuoted /\ SweptArePaid

LEMMA Split == IInv <=> TypeOK /\ Rows /\ Finality /\ LoopState /\ Memory
BY DEF IInv, Rows, Finality, LoopState, Memory

LEMMA Join == TypeOK' /\ Rows' /\ Finality' /\ LoopState' /\ Memory' => IInv'
BY DEF IInv, Rows, Finality, LoopState, Memory

\* What leaves its variables alone keeps a part.
LEMMA Frames ==
  /\ Rows /\ UNCHANGED <<intents, queue>> => Rows'
  /\ Finality /\ UNCHANGED <<intents, queue, chain>> => Finality'
  /\ LoopState /\ UNCHANGED <<intents, queue, loop>> => LoopState'
  /\ Memory /\ UNCHANGED <<intents, resolved, sweep>> => Memory'
<1> USE DEF intents, queue, loop, Exists, Awaiting
<1>1. Rows /\ UNCHANGED <<intents, queue>> => Rows'
  BY DEF Rows, JobsNameIntents, PaidIfDetected, CreditedByItsJob, RecordedIsDone
<1>2. Finality /\ UNCHANGED <<intents, queue, chain>> => Finality'
  BY DEF Finality, ConfirmJobsAreFinal, ConfirmedIsFinal
<1>3. LoopState /\ UNCHANGED <<intents, queue, loop>> => LoopState'
  BY DEF LoopState, RunningIsRunning, ReturnedIsDone
<1>4. Memory /\ UNCHANGED <<intents, resolved, sweep>> => Memory'
  BY DEF Memory, FoundWasQuoted, SweptArePaid
<1>5. QED
  BY <1>1, <1>2, <1>3, <1>4

\* The chain only adds to what is final.
LEMMA ChainStep ==
  ASSUME IInv, NEW x \in Txs, Mine(x) \/ Deepen(x) \/ Reorg(x)
  PROVE  Finality'
<1>1. \A y \in Txs : chain[y] = "deep" => chain'[y] = "deep"
  BY DEF Mine, Deepen, Reorg, IInv, TypeOK
<1>2. UNCHANGED <<intents, queue>>
  BY DEF Mine, Deepen, Reorg
<1>3. ConfirmJobsAreFinal'
  BY <1>1, <1>2, Keys DEF IInv, ConfirmJobsAreFinal, Exists, intents, queue
<1>4. ConfirmedIsFinal'
  <2>1. \A i \in Intents : paidBy[i] # None => TxOf[paidBy[i]] \in Txs
    BY Keys DEF IInv, TypeOK
  <2>2. ConfirmedIsFinal /\ state' = state /\ paidBy' = paidBy
    BY <1>2 DEF IInv, intents
  <2>3. QED
    BY <1>1, <2>1, <2>2 DEF ConfirmedIsFinal
<1>5. QED
  BY <1>3, <1>4 DEF Finality

\* Adding a job keeps the parts, if the job is what its kind promises.
LEMMA AddStep ==
  ASSUME IInv, NEW j \in Jobs, NEW i \in Intents \cup {None}, Add(j, i),
         UNCHANGED <<intents, chain, loop>>,
         j \in RecordJobs => i \in Intents /\ state[i] # "CREATED",
         j \in ConfirmJobs => /\ i \in Intents /\ paidBy[i] \in Transfers
                              /\ TxOf[paidBy[i]] = j[2] /\ chain[j[2]] = "deep"
  PROVE  Rows' /\ Finality' /\ LoopState'
<1> USE DEF IInv, intents, loop, Exists, Awaiting
<1>1. /\ \A k \in Jobs : Exists(k) => jobStatus'[k] = jobStatus[k] /\ intentId'[k] = intentId[k]
      /\ \A k \in Jobs : k # j => jobStatus'[k] = jobStatus[k] /\ intentId'[k] = intentId[k]
      /\ ~Exists(j) => jobStatus'[j] = "PENDING" /\ intentId'[j] = i
  BY DEF Add, TypeOK
<1>2. JobsNameIntents'
  BY <1>1, Keys DEF JobsNameIntents
<1>3. PaidIfDetected'
  BY DEF PaidIfDetected
<1>4. CreditedByItsJob'
  BY <1>1, Keys DEF CreditedByItsJob, TypeOK
<1>5. RecordedIsDone'
  BY <1>1, Keys DEF RecordedIsDone
<1>6. ConfirmJobsAreFinal'
  BY <1>1, Keys DEF ConfirmJobsAreFinal
<1>7. ConfirmedIsFinal'
  BY DEF ConfirmedIsFinal
<1>8. RunningIsRunning'
  BY <1>1 DEF RunningIsRunning, TypeOK
<1>9. ReturnedIsDone'
  BY <1>1, Keys, Nones DEF ReturnedIsDone, RunningIsRunning
<1>10. QED
  BY <1>2, <1>3, <1>4, <1>5, <1>6, <1>7, <1>8, <1>9 DEF Rows, Finality, LoopState

\* An intent that moves without being paid: it is quoted, accepted, expired or confirmed.
LEMMA MoveStep ==
  ASSUME IInv, NEW i \in Intents, NEW s,
         state' = [state EXCEPT ![i] = s], UNCHANGED <<paidBy, queue, chain, running>>,
         \/ state[i] = "CREATED" /\ s = "QUOTED"
         \/ state[i] = "QUOTED" /\ s = "AWAITING_PAYMENT"
         \/ state[i] = "AWAITING_PAYMENT" /\ s = "EXPIRED"
         \/ state[i] = "DETECTED" /\ s = "CONFIRMING" /\ chain[TxOf[paidBy[i]]] = "deep"
  PROVE  Rows' /\ Finality' /\ RunningIsRunning'
<1> USE DEF IInv, queue, Exists
<1>1. \A k \in Intents : state'[k] = IF k = i THEN s ELSE state[k]
  BY DEF TypeOK
<1>2. \A k \in Intents : k \in Awaiting' => k \in Awaiting \/ state[k] = "CREATED"
  BY <1>1 DEF Awaiting
<1>3. JobsNameIntents'
  BY <1>1, Keys DEF JobsNameIntents
<1>4. PaidIfDetected'
  BY <1>1 DEF PaidIfDetected
<1>5. CreditedByItsJob'
  BY DEF CreditedByItsJob
<1>6. RecordedIsDone'
  <2> SUFFICES ASSUME NEW j \in RecordJobs, jobStatus[j] = "SUCCEEDED"
               PROVE  intentId[j] \notin Awaiting'
    BY DEF RecordedIsDone
  <2>1. intentId[j] \in Intents /\ state[intentId[j]] # "CREATED" /\ intentId[j] \notin Awaiting
    BY DEF RecordedIsDone, JobsNameIntents
  <2>2. QED
    BY <1>2, <2>1
<1>7. ConfirmJobsAreFinal'
  BY DEF ConfirmJobsAreFinal
<1>8. ConfirmedIsFinal'
  <2> SUFFICES ASSUME NEW k \in Intents, state'[k] = "CONFIRMING"
               PROVE  paidBy[k] # None /\ chain[TxOf[paidBy[k]]] = "deep"
    BY DEF ConfirmedIsFinal
  <2>1. CASE k = i
    BY <1>1, <2>1 DEF PaidIfDetected
  <2>2. CASE k # i
    BY <1>1, <2>2 DEF ConfirmedIsFinal
  <2>3. QED
    BY <2>1, <2>2
<1>9. RunningIsRunning'
  BY DEF RunningIsRunning
<1>10. QED
  BY <1>3, <1>4, <1>5, <1>6, <1>7, <1>8, <1>9 DEF Rows, Finality

\* The memory of the callbacks and of the sweep survives any move of an intent.
LEMMA MoveMemory ==
  ASSUME IInv, NEW i \in Intents, NEW s, s # "CREATED", state' = [state EXCEPT ![i] = s],
         \A k \in Intents : paidBy[k] \in Transfers => paidBy'[k] \in Transfers,
         UNCHANGED <<resolved, sweep>>
  PROVE  Memory'
<1> USE DEF IInv, TypeOK
<1>1. FoundWasQuoted'
  BY DEF FoundWasQuoted
<1>2. SweptArePaid'
  BY DEF SweptArePaid
<1>3. QED
  BY <1>1, <1>2 DEF Memory

LEMMA RunningRecord ==
  ASSUME IInv, Handling("record")
  PROVE  /\ running \in RecordJobs /\ Exists(running) /\ running[2] \in Transfers
         /\ running = <<"record", running[2]>>
         /\ intentId[running] \in Intents /\ state[intentId[running]] # "CREATED"
<1>1. running \in RecordJobs
  BY Keys DEF Handling, IInv, TypeOK
<1>2. Exists(running)
  BY DEF Handling, IInv, RunningIsRunning, Exists
<1>3. QED
  BY <1>1, <1>2, Keys DEF IInv, JobsNameIntents

LEMMA RunningConfirm ==
  ASSUME IInv, Handling("confirm")
  PROVE  /\ running \in ConfirmJobs /\ intentId[running] \in Intents
         /\ chain[TxOf[paidBy[intentId[running]]]] = "deep"
<1>1. running \in ConfirmJobs
  BY Keys DEF Handling, IInv, TypeOK
<1>2. Exists(running)
  BY DEF Handling, IInv, RunningIsRunning, Exists
<1>3. QED
  BY <1>1, <1>2 DEF IInv, ConfirmJobsAreFinal

LEMMA DetectStep ==
  ASSUME IInv, DetectDeposit
  PROVE  Rows' /\ Finality' /\ LoopState' /\ Memory'
<1> DEFINE i == intentId[running]
           t == running[2]
<1>1. /\ running \in RecordJobs /\ Exists(running) /\ t \in Transfers
      /\ running = <<"record", t>> /\ i \in Intents /\ state[i] = "AWAITING_PAYMENT"
  BY RunningRecord DEF DetectDeposit
<1>2. /\ state' = [state EXCEPT ![i] = "DETECTED"] /\ paidBy' = [paidBy EXCEPT ![i] = t]
      /\ UNCHANGED <<chain, queue, running, resolved, sweep>>
  BY DEF DetectDeposit, Transitioned, HandlerDone, callbacks
<1>3. paidBy[i] = None /\ t # None
  BY <1>1, Nones DEF IInv, PaidIfDetected
<1>4. intentId[<<"record", t>>] = i /\ Exists(<<"record", t>>)
  BY <1>1
<1>5. /\ \A k \in Intents : k # i => state'[k] = state[k] /\ paidBy'[k] = paidBy[k]
      /\ state'[i] = "DETECTED" /\ paidBy'[i] = t
  BY <1>1, <1>2 DEF IInv, TypeOK
<1> HIDE DEF i, t
<1>6. \A k \in Intents : k \in Awaiting' => k \in Awaiting /\ k # i
  BY <1>5 DEF Awaiting
<1> USE DEF IInv, queue, Exists
<1>7. JobsNameIntents'
  BY <1>2, <1>5, Keys DEF JobsNameIntents
<1>8. PaidIfDetected'
  BY <1>3, <1>5 DEF PaidIfDetected
<1>9. CreditedByItsJob'
  BY <1>2, <1>4, <1>5 DEF CreditedByItsJob
<1>10. RecordedIsDone'
  BY <1>2, <1>6 DEF RecordedIsDone, JobsNameIntents
<1>11. ConfirmJobsAreFinal'
  BY <1>2, <1>3, <1>5, Nones DEF ConfirmJobsAreFinal
<1>12. ConfirmedIsFinal'
  BY <1>2, <1>5 DEF ConfirmedIsFinal
<1>13. RunningIsRunning'
  BY <1>2 DEF RunningIsRunning
<1>14. ReturnedIsDone'
  BY <1>1, <1>2, <1>6 DEF ReturnedIsDone, i
<1>15. Memory'
  BY <1>1, <1>2, <1>5, MoveMemory
<1>16. QED
  BY <1>7, <1>8, <1>9, <1>10, <1>11, <1>12, <1>13, <1>14, <1>15 DEF Rows, Finality, LoopState

\* A job that exists changes its status; it succeeds only if it has settled the matter.
LEMMA StatusStep ==
  ASSUME IInv, NEW j \in Jobs, jobStatus[j] # "ABSENT", NEW s, s # "ABSENT",
         jobStatus' = [jobStatus EXCEPT ![j] = s], UNCHANGED <<intents, chain, intentId>>,
         s = "SUCCEEDED" /\ j \in RecordJobs => intentId[j] \notin Awaiting
  PROVE  Rows' /\ Finality'
<1>1. Rows'
  BY Keys DEF IInv, TypeOK, Rows, JobsNameIntents, PaidIfDetected, CreditedByItsJob,
              RecordedIsDone, Exists, Awaiting, intents
<1>2. Finality'
  BY Keys DEF IInv, TypeOK, Finality, ConfirmJobsAreFinal, ConfirmedIsFinal, Exists, intents
<1> QED BY <1>1, <1>2

LEMMA Inductive == IInv /\ [Next]_vars => IInv'
<1> SUFFICES ASSUME IInv, [Next]_vars PROVE IInv'
  OBVIOUS
<1>0. TypeOK' /\ TypeOK /\ Rows /\ Finality /\ LoopState /\ Memory
  BY TypeStep, Split DEF IInv
<1> USE DEF callbacks
<1>1. ASSUME NEW i \in Intents, Quote(i) PROVE IInv'
  <2>1. Rows' /\ Finality' /\ RunningIsRunning'
    BY <1>1, MoveStep DEF Quote, loop
  <2>2. Memory'
    BY <1>1, MoveMemory DEF Quote
  <2>3. ReturnedIsDone'
    <3>1. running \in RecordJobs => state[intentId[running]] # "CREATED"
      BY Keys, Nones DEF IInv, RunningIsRunning, JobsNameIntents, Exists
    <3>2. \A k \in Intents : k \in Awaiting' => k \in Awaiting \/ state[k] = "CREATED"
      BY <1>1, <1>0 DEF Quote, TypeOK, Awaiting
    <3>3. \A k \in Awaiting' : k \in Intents
      BY DEF Awaiting
    <3>4. QED
      BY <1>1, <3>1, <3>2, <3>3 DEF Quote, IInv, ReturnedIsDone, loop, queue
  <2>4. QED
    BY <1>0, <2>1, <2>2, <2>3, Join DEF LoopState
<1>2. ASSUME NEW i \in Intents, Examine(i) PROVE IInv'
  <2> DEFINE x == TxOf[paidBy[i]]
  <2>0. paidBy[i] \in Transfers /\ x \in Txs
    BY <1>2, Keys DEF Examine, IInv, SweptArePaid
  <2>1. Memory'
    BY <1>2 DEF Examine, IInv, Memory, FoundWasQuoted, SweptArePaid, intents
  <2>2. CASE Settled(x) /\ Add(<<"confirm", x>>, i)
    <3>1. Rows' /\ Finality' /\ LoopState'
      BY <1>2, <2>0, <2>2, AddStep, Keys DEF Examine, Settled
    <3>2. QED
      BY <1>0, <2>1, <3>1, Join
  <2>3. CASE UNCHANGED queue
    BY <1>0, <1>2, <2>1, <2>3, Frames, Join DEF Examine
  <2>4. QED
    BY <1>2, <2>2, <2>3 DEF Examine
<1>3. ASSUME NEW x \in Txs, Mine(x) \/ Deepen(x) \/ Reorg(x) PROVE IInv'
  <2>1. UNCHANGED <<intents, queue, loop, resolved, sweep>>
    BY <1>3 DEF Mine, Deepen, Reorg
  <2>2. QED
    BY <1>0, <1>3, <2>1, ChainStep, Frames, Join
<1>4. ASSUME NEW t \in Transfers, Poll(t) PROVE IInv'
  BY <1>0, <1>4, Frames, Join DEF Poll
<1>5. ASSUME NEW t \in Transfers, Lookup(t) PROVE IInv'
  <2>1. Memory'
    BY <1>5 DEF Lookup, IInv, TypeOK, Memory, FoundWasQuoted, SweptArePaid, IsNewest, Expecting,
                Awaiting, intents
  <2>2. QED
    BY <1>0, <1>5, <2>1, Frames, Join DEF Lookup
<1>6. ASSUME NEW t \in Transfers, NEW i \in Intents \cup {None}, Enqueue(t, i) PROVE IInv'
  <2>1. Memory'
    BY <1>6 DEF Enqueue, IInv, Memory, FoundWasQuoted, SweptArePaid, intents
  <2>2. DepositKey(t, i) \in Jobs \ ConfirmJobs
    BY DEF DepositKey, Jobs, RecordJobs, ConfirmJobs
  <2>3. DepositKey(t, i) \in RecordJobs => i \in Intents /\ state[i] # "CREATED"
    BY <1>6 DEF DepositKey, RecordJobs, Enqueue, IInv, FoundWasQuoted
  <2>4. Rows' /\ Finality' /\ LoopState'
    BY <1>6, <2>2, <2>3, AddStep DEF Enqueue
  <2>5. QED
    BY <1>0, <2>1, <2>4, Join
<1>7. ASSUME NEW j \in Jobs, Claim(j) \/ Reclaim(j) PROVE IInv'
  <2>0. /\ UNCHANGED <<intents, chain, resolved, sweep, intentId>> /\ jobStatus[j] # "ABSENT"
        /\ \E s \in {"RUNNING", "PENDING"} : jobStatus' = [jobStatus EXCEPT ![j] = s]
    BY <1>7 DEF Claim, Reclaim, SetStatus
  <2>1. Rows' /\ Finality'
    BY <2>0, StatusStep
  <2>2. LoopState'
    BY <1>7, Keys, Nones DEF Claim, Reclaim, SetStatus, IInv, TypeOK, LoopState, RunningIsRunning,
                             ReturnedIsDone, loop
  <2>3. QED
    BY <1>0, <2>0, <2>1, <2>2, Frames, Join
<1>8. ASSUME Refresh \/ Restart PROVE IInv'
  BY <1>0, <1>8, Frames, Join DEF Refresh, Restart
<1>9. ASSUME LoseCallback \/ Sweep PROVE IInv'
  <2>1. Memory'
    BY <1>9, Nones DEF LoseCallback, Sweep, IInv, TypeOK, Memory, FoundWasQuoted, SweptArePaid,
                PaidIfDetected, intents
  <2>2. QED
    BY <1>0, <1>9, <2>1, Frames, Join DEF LoseCallback, Sweep
<1>10. ASSUME Crash PROVE IInv'
  <2>1. Memory' /\ LoopState'
    BY <1>10, Nones, Keys DEF Crash, Memory, FoundWasQuoted, SweptArePaid, LoopState, RunningIsRunning,
                        ReturnedIsDone
  <2>2. QED
    BY <1>0, <1>10, <2>1, Frames, Join DEF Crash
<1>11. ASSUME RecordNothing \/ ConfirmRefused \/ LogUnattributed \/ HandlerError PROVE IInv'
  <2>1. UNCHANGED <<intents, chain, resolved, sweep, queue, running>>
    BY <1>11 DEF RecordNothing, ConfirmRefused, LogUnattributed, HandlerError, HandlerDone
  <2>2. RunningIsRunning'
    BY <2>1 DEF IInv, RunningIsRunning, queue
  <2>3. ReturnedIsDone'
    BY <1>11, <2>1, Keys DEF RecordNothing, ConfirmRefused, LogUnattributed, HandlerError, HandlerDone,
             Handling, ReturnedIsDone, Awaiting, intents, queue
  <2>4. QED
    BY <1>0, <2>1, <2>2, <2>3, Frames, Join DEF LoopState
<1>12. ASSUME AcceptQuote \/ ExpireQuote PROVE IInv'
  <2> DEFINE i == intentId[running]
  <2>1. i \in Intents
    BY <1>12, RunningRecord DEF AcceptQuote, ExpireQuote
  <2>2. Rows' /\ Finality' /\ RunningIsRunning' /\ Memory'
    <3>1. CASE AcceptQuote
      BY <2>1, <3>1, MoveStep, MoveMemory DEF AcceptQuote, Accepted, loop
    <3>2. CASE ExpireQuote
      BY <2>1, <3>2, MoveStep, MoveMemory DEF ExpireQuote, Transitioned, HandlerDone
    <3>3. QED
      BY <1>12, <3>1, <3>2
  <2>3. ReturnedIsDone'
    BY <1>12, <2>1 DEF AcceptQuote, ExpireQuote, Accepted, Transitioned, HandlerDone, Handling,
                       IInv, TypeOK, ReturnedIsDone, Awaiting, loop, queue
  <2>4. QED
    BY <1>0, <2>2, <2>3, Join DEF LoopState
<1>13. ASSUME DetectDeposit PROVE IInv'
  BY <1>0, <1>13, DetectStep, Join
<1>14. ASSUME ConfirmDeposit PROVE IInv'
  <2>1. running \in ConfirmJobs /\ intentId[running] \in Intents
        /\ chain[TxOf[paidBy[intentId[running]]]] = "deep"
    BY <1>14, RunningConfirm DEF ConfirmDeposit
  <2>2. UNCHANGED <<paidBy, queue, chain, running, resolved, sweep>>
    BY <1>14 DEF ConfirmDeposit, Transitioned, HandlerDone
  <2>3. Rows' /\ Finality' /\ RunningIsRunning' /\ Memory'
    BY <1>14, <2>1, <2>2, MoveStep, MoveMemory DEF ConfirmDeposit
  <2>4. ReturnedIsDone'
    BY <2>1, <2>2, Keys DEF ReturnedIsDone
  <2>5. QED
    BY <1>0, <2>3, <2>4, Join DEF LoopState
<1>15. ASSUME Acknowledge PROVE IInv'
  <2> DEFINE s == IF outcome = "returned" THEN "SUCCEEDED" ELSE AfterFailure(running)
  <2>0. /\ UNCHANGED <<intents, chain, resolved, sweep, intentId>> /\ running \in Jobs
        /\ jobStatus' = [jobStatus EXCEPT ![running] = s] /\ jobStatus[running] # "ABSENT"
        /\ s # "ABSENT" /\ (s = "SUCCEEDED" => outcome = "returned")
    BY <1>15 DEF Acknowledge, SetStatus, AfterFailure, IInv, TypeOK, RunningIsRunning
  <2> HIDE DEF s
  <2>1. Rows' /\ Finality'
    BY <2>0, StatusStep, Keys DEF IInv, ReturnedIsDone
  <2>2. LoopState'
    BY <1>15, Keys, Nones DEF Acknowledge, LoopState, RunningIsRunning, ReturnedIsDone
  <2>3. QED
    BY <1>0, <2>0, <2>1, <2>2, Frames, Join
<1>18. ASSUME CompleteThrows PROVE IInv'
  <2>1. UNCHANGED <<intents, chain, resolved, sweep, queue, running>> /\ outcome' = "threw"
    BY <1>18 DEF CompleteThrows
  <2>2. LoopState'
    BY <2>1 DEF LoopState, IInv, RunningIsRunning, ReturnedIsDone, queue
  <2>3. QED
    BY <1>0, <2>1, <2>2, Frames, Join
<1>19. ASSUME LoopEnds PROVE IInv'
  <2>1. UNCHANGED <<intents, chain, resolved, sweep, intentId>> /\ running' = None
    BY <1>19 DEF LoopEnds, SetStatus, queue, callbacks
  <2>2. LoopState'
    BY <2>1, Keys, Nones DEF LoopState, RunningIsRunning, ReturnedIsDone
  <2>3. Rows' /\ Finality'
    <3>1. CASE UNCHANGED queue
      BY <1>0, <2>1, <3>1, Frames
    <3>2. ASSUME NEW j \in Jobs, jobStatus[j] = "PENDING", SetStatus(j, "RUNNING")
          PROVE  Rows' /\ Finality'
      BY <2>1, <3>2, StatusStep DEF SetStatus
    <3>3. CASE outcome = "threw" /\ SetStatus(running, AfterFailure(running))
      <4>1. running = None => UNCHANGED jobStatus
        BY <3>3, Nones DEF SetStatus, IInv, TypeOK
      <4>2. CASE running = None
        BY <2>1, <4>1, <4>2 DEF IInv, Rows, Finality, JobsNameIntents, PaidIfDetected,
                                CreditedByItsJob, RecordedIsDone, ConfirmJobsAreFinal,
                                ConfirmedIsFinal, Exists, Awaiting, intents
      <4>3. CASE running # None
        <5>1. running \in Jobs /\ jobStatus[running] = "RUNNING"
          BY <4>3 DEF IInv, TypeOK, RunningIsRunning
        <5>2. AfterFailure(running) \in {"DEAD_LETTERED", "PENDING"}
          BY DEF AfterFailure
        <5>3. QED
          BY <2>1, <3>3, <5>1, <5>2, StatusStep DEF SetStatus
      <4>4. QED
        BY <4>2, <4>3
    <3>4. QED
      BY <1>19, <3>1, <3>2, <3>3 DEF LoopEnds
  <2>4. QED
    BY <1>0, <2>1, <2>2, <2>3, Frames, Join
<1>16. CASE UNCHANGED vars
  BY <1>0, <1>16, Frames, Join DEF vars
<1>17. QED
  BY <1>1, <1>2, <1>3, <1>4, <1>5, <1>6, <1>7, <1>8, <1>9, <1>10, <1>11, <1>12, <1>13, <1>14,
     <1>15, <1>16, <1>18, <1>19 DEF Next, Handler

LEMMA Invariance == Spec => []IInv
BY InitIInv, Inductive, PTL DEF Spec

-----------------------------------------------------------------------------
(* The theorems. *)

\* The type invariant, for any instance of the pipeline.
THEOREM TypeCorrect == Spec => []TypeOK
BY Invariance, PTL DEF IInv

\* However transfers are redelivered and jobs repeated, a transfer pays one intent.
THEOREM TransfersAreCreditedOnce == Spec => []CreditedOnce
<1>1. IInv => CreditedOnce
  BY DEF IInv, CreditedByItsJob, CreditedOnce
<1>2. QED
  BY <1>1, Invariance, PTL

\* No intent is CONFIRMING on a transaction that is not final.
THEOREM ConfirmationsAreFinal == Spec => []ConfirmedIsFinal
BY Invariance, PTL DEF IInv

\* What each step does to the jobs in the terms of JobLifecycle.
LEMMA QueueStep == IInv /\ [Next]_vars => [Queue!Next]_<<jobStatus, attempts>>
<1> SUFFICES ASSUME IInv, [Next]_vars
             PROVE  Queue!Next \/ UNCHANGED <<jobStatus, attempts>>
  OBVIOUS
<1> USE DEF queue
<1>1. ASSUME NEW j \in Jobs, NEW i, Add(j, i) PROVE Queue!Add(j) \/ UNCHANGED <<jobStatus, attempts>>
  BY <1>1 DEF Add, Queue!Add, IInv, TypeOK
<1>2. ASSUME NEW i \in Intents, Examine(i) PROVE \/ \E j \in Jobs : Queue!Add(j)
                                                \/ UNCHANGED <<jobStatus, attempts>>
  <2>1. <<"confirm", TxOf[paidBy[i]]>> \in Jobs
    BY <1>2, Keys DEF Examine, IInv, SweptArePaid
  <2>2. QED
    BY <1>1, <1>2, <2>1 DEF Examine
<1>3. ASSUME NEW t \in Transfers, NEW i \in Intents \cup {None}, Enqueue(t, i)
      PROVE  (\E j \in Jobs : Queue!Add(j)) \/ UNCHANGED <<jobStatus, attempts>>
  <2>1. DepositKey(t, i) \in Jobs
    BY DEF DepositKey, Jobs, RecordJobs
  <2>2. QED
    BY <1>1, <1>3, <2>1 DEF Enqueue
<1>4. ASSUME NEW j \in Jobs, Claim(j) PROVE \E S \in SUBSET Jobs : Queue!Begin(S)
  <2>1. Queue!Begin({j})
    BY <1>4 DEF Claim, SetStatus, IInv, TypeOK, Queue!Begin
  <2>2. QED
    BY <2>1
<1>5. ASSUME NEW j \in Jobs, Reclaim(j) PROVE \E S \in SUBSET Jobs : Queue!Again(S)
  <2>1. Queue!Again({j})
    BY <1>5 DEF Reclaim, SetStatus, IInv, TypeOK, Queue!Again
  <2>2. QED
    BY <2>1
<1>6. ASSUME Acknowledge PROVE Queue!Next
  <2>1. running \in Jobs /\ jobStatus[running] = "RUNNING"
    BY <1>6 DEF Acknowledge, IInv, TypeOK, RunningIsRunning
  <2>2. CASE outcome = "returned"
    BY <1>6, <2>1, <2>2 DEF Acknowledge, SetStatus, Queue!Succeed, Queue!Next
  <2>3. CASE outcome # "returned" /\ attempts[running] >= MaxAttempts
    BY <1>6, <2>1, <2>3 DEF Acknowledge, SetStatus, AfterFailure, Queue!Bury, Queue!Next
  <2>4. CASE outcome # "returned" /\ ~(attempts[running] >= MaxAttempts)
    <3>1. Queue!Again({running})
      BY <1>6, <2>1, <2>4 DEF Acknowledge, SetStatus, AfterFailure, IInv, TypeOK, Queue!Again
    <3>2. QED
      BY <2>1, <3>1 DEF Queue!Next
  <2>5. QED
    BY <2>2, <2>3, <2>4
<1>11. ASSUME LoopEnds PROVE Queue!Next \/ UNCHANGED <<jobStatus, attempts>>
  <2>1. ASSUME NEW j \in Jobs, jobStatus[j] = "PENDING", SetStatus(j, "RUNNING"),
               attempts' = [attempts EXCEPT ![j] = @ + 1]
        PROVE  Queue!Next
    <3>1. Queue!Begin({j})
      BY <2>1 DEF SetStatus, IInv, TypeOK, Queue!Begin
    <3>2. QED
      BY <3>1 DEF Queue!Next
  <2>2. CASE outcome = "threw" /\ SetStatus(running, AfterFailure(running)) /\ UNCHANGED attempts
    <3>1. CASE running = None
      BY <2>2, <3>1, Nones DEF SetStatus, IInv, TypeOK
    <3>2. CASE running # None
      <4>1. running \in Jobs /\ jobStatus[running] = "RUNNING"
        BY <3>2 DEF IInv, TypeOK, RunningIsRunning
      <4>2. CASE attempts[running] >= MaxAttempts
        BY <2>2, <4>1, <4>2 DEF SetStatus, AfterFailure, Queue!Bury, Queue!Next
      <4>3. CASE ~(attempts[running] >= MaxAttempts)
        <5>1. Queue!Again({running})
          BY <2>2, <4>1, <4>3 DEF SetStatus, AfterFailure, IInv, TypeOK, Queue!Again
        <5>2. QED
          BY <4>1, <5>1 DEF Queue!Next
      <4>4. QED
        BY <4>2, <4>3
    <3>3. QED
      BY <3>1, <3>2
  <2>3. QED
    BY <1>11, <2>1, <2>2 DEF LoopEnds
<1>7. ASSUME NEW x \in Txs, Mine(x) \/ Deepen(x) \/ Reorg(x) PROVE UNCHANGED queue
  BY <1>7 DEF Mine, Deepen, Reorg
<1>8. ASSUME NEW t \in Transfers, Poll(t) \/ Lookup(t) PROVE UNCHANGED queue
  BY <1>8 DEF Poll, Lookup
<1>9. ASSUME \/ \E i \in Intents : Quote(i)
             \/ Refresh \/ LoseCallback \/ Sweep \/ Handler \/ CompleteThrows \/ Crash \/ Restart
             \/ UNCHANGED vars
      PROVE  UNCHANGED queue
  BY <1>9 DEF Quote, Refresh, LoseCallback, Sweep, CompleteThrows, Crash, Restart, vars, Handler, RecordNothing, AcceptQuote,
      DetectDeposit, ExpireQuote, ConfirmDeposit, ConfirmRefused, LogUnattributed, HandlerError
<1>10. QED
  BY <1>2, <1>3, <1>4, <1>5, <1>6, <1>7, <1>8, <1>9, <1>11 DEF Next, Queue!Next

(***************************************************************************)
(* Every job of the pipeline lives as JobLifecycle says, which is what     *)
(* WorkerProofs shows of the queue with one worker.                        *)
(***************************************************************************)
THEOREM PipelineUsesLifecycle == Spec => QueueSpec
<1>1. Init => Queue!Init
  BY DEF Init, Queue!Init
<1>2. QED
  BY <1>1, QueueStep, Invariance, PTL DEF Spec, QueueSpec, Queue!Spec, Queue!lvars

\* A record job that succeeded leaves its intent past waiting.
THEOREM RecordedJobsAreDone == Spec => []RecordedIsDone
BY Invariance, PTL DEF IInv
=============================================================================
