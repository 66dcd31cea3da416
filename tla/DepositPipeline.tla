-------------------------- MODULE DepositPipeline --------------------------
(***************************************************************************)
(* From a transfer on a chain to a CONFIRMING intent: the EVM client that  *)
(* polls blocks, the deposit watcher, the confirmation tracker and the job *)
(* handlers of one worker process, composed with the job queue (as         *)
(* JobLifecycle describes it) and with the states of the payment intents.  *)
(*                                                                         *)
(* Abstracted: every transfer pays the exact amount of an intent           *)
(* (PaymentIntent has the other verdicts), the chain and the asset are     *)
(* one, blocks are reduced to the transfers the poller has passed, a quote *)
(* may be over at any detectDeposit, and a claim takes one job (JobQueue   *)
(* has batches).  Transfers that agree in all fields of                    *)
(* depositIdempotencyKey are one Transfer: the code cannot tell them apart.*)
(***************************************************************************)
EXTENDS Naturals, FiniteSets

CONSTANTS
  Intents,       \* created intents
  CreatedAt,     \* created_at of each
  Transfers,     \* transfers that may occur on the chain
  TxOf,          \* the transaction of each
  Addresses,     \* address strings
  Lower,         \* toLowerCase of each
  AddressOf,     \* the deposit_address an intent is quoted with, as stored
  ToAddress,     \* the `to` of a transfer, as the client reports it
  FromAddress,   \* and its `from`
  Polled,        \* the queue that the loop polls
  MaxAttempts,   \* max_attempts of a job
  MaxFaults,     \* bound: errors, repeated reports, process deaths and reorgs
  None

Txs == {TxOf[t] : t \in Transfers}
RecordJobs == {"record"} \X Transfers
ConfirmJobs == {"confirm"} \X Txs
Jobs == RecordJobs \cup ConfirmJobs \cup ({"unattributed"} \X Transfers)

ASSUME PipelineAssumption ==
  /\ CreatedAt \in [Intents -> Nat]
  /\ \A i, k \in Intents : CreatedAt[i] = CreatedAt[k] => i = k
  /\ Lower \in [Addresses -> Addresses]
  /\ AddressOf \in [Intents -> Addresses]
  /\ ToAddress \in [Transfers -> Addresses] /\ FromAddress \in [Transfers -> Addresses]
  /\ MaxAttempts \in Nat \ {0} /\ MaxFaults \in Nat
  /\ None \notin Intents \cup Transfers \cup Jobs

VARIABLES
  state,      \* state column of each intent
  paidBy,     \* tx_hash of the DEPOSIT_DETECTED event: the transfer recorded
  chain,      \* what the chain says of each transaction
  up,         \* the worker process runs
  watched,    \* DepositWatcher.subscriptions
  passed,     \* transfers in blocks up to lastBlockNumber
  observed,   \* onDeposit calls before their lookup
  resolved,   \* onDeposit calls after it: a transfer and the intent found or None
  sweep,      \* DETECTED intents that runOnce has yet to examine
  jobStatus,  \* status column of each job
  intentId,   \* payload.intentId of each job
  attempts,   \* attempt_count column
  polling,    \* the loop of the queue has not ended in an error
  running,    \* the job the loop runs
  outcome,    \* how its handler ended: "none", "returned" or "threw"
  faults      \* counts against the bound

intents == <<state, paidBy>>
client == <<watched, passed>>
callbacks == <<observed, resolved>>
queue == <<jobStatus, intentId, attempts>>
loop == <<polling, running, outcome>>
vars == <<intents, chain, up, client, callbacks, sweep, queue, loop, faults>>

Awaiting == {i \in Intents : state[i] \in {"QUOTED", "AWAITING_PAYMENT"}}

TypeOK ==
  /\ state \in [Intents -> {"CREATED", "QUOTED", "AWAITING_PAYMENT", "DETECTED", "CONFIRMING",
                            "EXPIRED"}]
  /\ paidBy \in [Intents -> Transfers \cup {None}]
  /\ chain \in [Txs -> {"unsent", "mined", "deep", "reverted"}]
  /\ up \in BOOLEAN
  /\ watched \subseteq Addresses
  /\ passed \subseteq Transfers
  /\ observed \subseteq Transfers
  /\ resolved \subseteq Transfers \X (Intents \cup {None})
  /\ sweep \subseteq Intents
  /\ jobStatus \in [Jobs -> {"ABSENT", "PENDING", "RUNNING", "SUCCEEDED", "DEAD_LETTERED"}]
  /\ intentId \in [Jobs -> Intents \cup {None}]
  /\ attempts \in [Jobs -> Nat]
  /\ polling \in BOOLEAN
  /\ running \in Jobs \cup {None}
  /\ outcome \in {"none", "returned", "threw"}
  /\ faults \in Nat

Init ==
  /\ state = [i \in Intents |-> "CREATED"]
  /\ paidBy = [i \in Intents |-> None]
  /\ chain = [x \in Txs |-> "unsent"]
  /\ up = TRUE
  /\ watched = {} /\ passed = {}
  /\ observed = {} /\ resolved = {}
  /\ sweep = {}
  /\ jobStatus = [j \in Jobs |-> "ABSENT"]
  /\ intentId = [j \in Jobs |-> None]
  /\ attempts = [j \in Jobs |-> 0]
  /\ polling = TRUE /\ running = None /\ outcome = "none"
  /\ faults = 0

\* Something goes wrong: an await rejects, a transfer is reported twice, the process dies,
\* the chain reorganises.
Fault == faults < MaxFaults /\ faults' = faults + 1

-----------------------------------------------------------------------------
(* The gateway and the chain. *)

\* generateQuote by the gateway: the intent has its deposit address and waits.
Quote(i) ==
  /\ state[i] = "CREATED"
  /\ state' = [state EXCEPT ![i] = "QUOTED"]
  /\ UNCHANGED <<paidBy, chain, up, client, callbacks, sweep, queue, loop, faults>>

\* A block includes the transaction, which succeeds or reverts.  After a reorg the block
\* may have a number the poller has passed already.
Mine(x) ==
  /\ chain[x] = "unsent"
  /\ \E verdict \in {"mined", "reverted"} : chain' = [chain EXCEPT ![x] = verdict]
  /\ passed' \in {passed, {t \in passed : TxOf[t] # x}}
  /\ UNCHANGED <<intents, up, watched, callbacks, sweep, queue, loop, faults>>

\* The transaction reaches getConfirmationDepth(), from where it is final.
Deepen(x) ==
  /\ chain[x] = "mined"
  /\ chain' = [chain EXCEPT ![x] = "deep"]
  /\ UNCHANGED <<intents, up, client, callbacks, sweep, queue, loop, faults>>

Reorg(x) ==
  /\ Fault
  /\ chain[x] = "mined"
  /\ chain' = [chain EXCEPT ![x] = "unsent"]
  /\ UNCHANGED <<intents, up, client, callbacks, sweep, queue, loop>>

OnChain == {t \in Transfers : chain[TxOf[t]] # "unsent"}

-----------------------------------------------------------------------------
(* The deposit watcher and the poller below it. *)

\* watchDeposits with no poll timer starts at the head of the chain: blocks mined before
\* are never read.
Refresh ==
  /\ up
  /\ watched' = {AddressOf[i] : i \in Awaiting}
  /\ passed' = IF watched = {} /\ watched' # {} THEN passed \cup OnChain ELSE passed
  /\ UNCHANGED <<intents, chain, up, callbacks, sweep, queue, loop, faults>>

\* A watched address gets the transfer or, for native coins, sends it.
Listening(t) == \E a \in watched : Lower[a] \in {Lower[ToAddress[t]], Lower[FromAddress[t]]}

\* pollBlocks reports a transfer, whether or not its transaction reverted.  It may report it
\* again: an error later in the range leaves lastBlockNumber where it was, and addresses
\* subscribed before the first timer is set start a poller each.
Poll(t) ==
  /\ up /\ watched # {}
  /\ t \in OnChain \ passed
  /\ observed' = IF Listening(t) THEN observed \cup {t} ELSE observed
  /\ \/ passed' = passed \cup {t} /\ UNCHANGED faults
     \/ Fault /\ UNCHANGED passed
  /\ UNCHANGED <<intents, chain, up, watched, resolved, sweep, queue, loop>>

\* The stored address is compared with the reported one as a string.
Expecting(t) == {i \in Awaiting : AddressOf[i] = ToAddress[t]}

\* findAwaitingDepositAt: ORDER BY created_at DESC LIMIT 1.
IsNewest(i, S) == i \in S /\ \A k \in S : CreatedAt[k] <= CreatedAt[i]

Lookup(t) ==
  /\ t \in observed
  /\ observed' = observed \ {t}
  /\ \/ \E i \in Intents : IsNewest(i, Expecting(t)) /\ resolved' = resolved \cup {<<t, i>>}
     \/ Expecting(t) = {} /\ resolved' = resolved \cup {<<t, None>>}
  /\ UNCHANGED <<intents, chain, up, client, sweep, queue, loop, faults>>

\* Mutant: ON CONFLICT DO UPDATE SET payload.
Add_Overwrite(j, i) ==
  /\ jobStatus' = [jobStatus EXCEPT ![j] = "PENDING"]
  /\ intentId' = [intentId EXCEPT ![j] = i]
  /\ UNCHANGED attempts

\* JobQueue.enqueue: ON CONFLICT (idempotency_key) DO NOTHING.
Add(j, i) ==
  /\ jobStatus' = [jobStatus EXCEPT ![j] = IF @ = "ABSENT" THEN "PENDING" ELSE @]
  /\ intentId' = [intentId EXCEPT ![j] = IF jobStatus[j] = "ABSENT" THEN i ELSE @]
  /\ UNCHANGED attempts

DepositKey(t, i) == IF i = None THEN <<"unattributed", t>> ELSE <<"record", t>>

Enqueue(t, i) ==
  /\ <<t, i>> \in resolved
  /\ resolved' = resolved \ {<<t, i>>}
  /\ Add(DepositKey(t, i), i)
  /\ UNCHANGED <<intents, chain, up, client, observed, sweep, loop, faults>>

\* onDeposit rejects: the error is logged and nothing delivers the event again.
LoseCallback ==
  /\ Fault
  /\ \/ \E t \in observed : observed' = observed \ {t} /\ UNCHANGED resolved
     \/ \E r \in resolved : resolved' = resolved \ {r} /\ UNCHANGED observed
  /\ UNCHANGED <<intents, chain, up, client, sweep, queue, loop>>

-----------------------------------------------------------------------------
(* The confirmation tracker. *)

\* Mutant: the state that confirmed intents have.
Sweep_Confirming ==
  /\ up /\ sweep = {}
  /\ sweep' = {i \in Intents : state[i] = "CONFIRMING"}
  /\ UNCHANGED <<intents, chain, up, client, callbacks, queue, loop, faults>>

\* findByState has a LIMIT of 100; there are no more intents here.
Sweep ==
  /\ up /\ sweep = {}
  /\ sweep' = {i \in Intents : state[i] = "DETECTED"}
  /\ UNCHANGED <<intents, chain, up, client, callbacks, queue, loop, faults>>

\* Mutant: a FAILED status with enough confirmations passes.
Settled_Reverted(x) == chain[x] \in {"deep", "reverted"}

\* getTransactionStatus is not FAILED and confirmations >= required.
Settled(x) == chain[x] = "deep"

\* One intent of the sweep.  An RPC error skips it; an error of a query or of the enqueue, which
\* may have committed, ends the sweep.
Examine(i) ==
  /\ i \in sweep
  /\ LET x == TxOf[paidBy[i]]
         EnqueueIfSettled ==
           IF Settled(x) THEN Add(<<"confirm", x>>, i) ELSE UNCHANGED queue
     IN \/ EnqueueIfSettled /\ sweep' = sweep \ {i} /\ UNCHANGED faults
        \/ Fault /\ UNCHANGED queue /\ sweep' \in {sweep \ {i}, {}}
        \/ Fault /\ EnqueueIfSettled /\ sweep' = {}
  /\ UNCHANGED <<intents, chain, up, client, callbacks, loop>>

-----------------------------------------------------------------------------
(* The queue loop and the job handlers. *)

SetStatus(j, s) == jobStatus' = [jobStatus EXCEPT ![j] = s] /\ UNCHANGED intentId

(***************************************************************************)
(* The jobs are in the queue "deposits".  The composition root polls       *)
(* "default", where no job is ever claimed: what is said here of handlers  *)
(* is said of a loop that polls the queue of the jobs.                     *)
(***************************************************************************)
Claim(j) ==
  /\ up /\ polling /\ running = None
  /\ Polled = "deposits"
  /\ jobStatus[j] = "PENDING"
  /\ SetStatus(j, "RUNNING")
  /\ attempts' = [attempts EXCEPT ![j] = @ + 1]
  /\ running' = j /\ outcome' = "none"
  /\ UNCHANGED <<intents, chain, up, client, callbacks, sweep, polling, faults>>

\* reclaimStale: the process that ran the job is gone.
Reclaim(j) ==
  /\ up /\ polling /\ running = None
  /\ jobStatus[j] = "RUNNING"
  /\ SetStatus(j, "PENDING")
  /\ UNCHANGED <<intents, chain, up, client, callbacks, sweep, attempts, loop, faults>>

Handling(kind) == up /\ running # None /\ running[1] = kind /\ outcome = "none"
HandlerDone(how) == outcome' = how /\ UNCHANGED <<polling, running, faults>>

\* After a transition the handler still calls deliverWebhook or findById: a database error
\* there makes it throw although the transition has committed.
Transitioned ==
  \/ HandlerDone("returned")
  \/ outcome' = "threw" /\ UNCHANGED <<polling, running>> /\ Fault

\* recordDeposit, when the intent does not accept a deposit.
RecordNothing ==
  /\ Handling("record")
  /\ intentId[running] \notin Awaiting
  /\ HandlerDone("returned")
  /\ UNCHANGED <<intents, chain, up, client, callbacks, sweep, queue>>

\* Mutant: the first transition is taken for the whole of recordDeposit.
Accepted_Done == HandlerDone("returned")

\* After awaitPayment, recordDeposit goes on with detectDeposit.
Accepted == UNCHANGED <<loop, faults>>

AcceptQuote ==
  /\ Handling("record")
  /\ state[intentId[running]] = "QUOTED"
  /\ state' = [state EXCEPT ![intentId[running]] = "AWAITING_PAYMENT"]
  /\ Accepted
  /\ UNCHANGED <<paidBy, chain, up, client, callbacks, sweep, queue>>

\* detectDeposit before quote_expires_at.
DetectDeposit ==
  /\ Handling("record")
  /\ state[intentId[running]] = "AWAITING_PAYMENT"
  /\ state' = [state EXCEPT ![intentId[running]] = "DETECTED"]
  /\ paidBy' = [paidBy EXCEPT ![intentId[running]] = running[2]]
  /\ Transitioned
  /\ UNCHANGED <<chain, up, client, callbacks, sweep, queue>>

\* detectDeposit after it: QuoteExpiredError is caught and the job succeeds.
ExpireQuote ==
  /\ Handling("record")
  /\ state[intentId[running]] = "AWAITING_PAYMENT"
  /\ state' = [state EXCEPT ![intentId[running]] = "EXPIRED"]
  /\ Transitioned
  /\ UNCHANGED <<paidBy, chain, up, client, callbacks, sweep, queue>>

ConfirmDeposit ==
  /\ Handling("confirm")
  /\ state[intentId[running]] = "DETECTED"
  /\ state' = [state EXCEPT ![intentId[running]] = "CONFIRMING"]
  /\ Transitioned
  /\ UNCHANGED <<paidBy, chain, up, client, callbacks, sweep, queue>>

\* The transition out of any other state throws, also when the job is run again.
ConfirmRefused ==
  /\ Handling("confirm")
  /\ state[intentId[running]] # "DETECTED"
  /\ HandlerDone("threw")
  /\ UNCHANGED <<intents, chain, up, client, callbacks, sweep, queue>>

LogUnattributed ==
  /\ Handling("unattributed")
  /\ HandlerDone("returned")
  /\ UNCHANGED <<intents, chain, up, client, callbacks, sweep, queue>>

\* A read or a transition of a handler fails; nothing was written.
HandlerError ==
  /\ Handling("record") \/ Handling("confirm")
  /\ Fault
  /\ outcome' = "threw"
  /\ UNCHANGED <<intents, chain, up, client, callbacks, sweep, queue, polling, running>>

\* Mutant: fail() writes a status of its own.
AfterFailure_Failed(j) == IF attempts[j] >= MaxAttempts THEN "FAILED" ELSE "PENDING"

\* Mutant: the last attempt is not made.
AfterFailure_OneLess(j) == IF attempts[j] + 1 >= MaxAttempts THEN "DEAD_LETTERED" ELSE "PENDING"

\* fail(): backoff is a PENDING job that nobody has claimed yet.
AfterFailure(j) == IF attempts[j] >= MaxAttempts THEN "DEAD_LETTERED" ELSE "PENDING"

\* complete() or fail().
Acknowledge ==
  /\ up /\ running # None /\ outcome # "none"
  /\ SetStatus(running, IF outcome = "returned" THEN "SUCCEEDED" ELSE AfterFailure(running))
  /\ running' = None /\ outcome' = "none"
  /\ UNCHANGED <<intents, chain, up, client, callbacks, sweep, attempts, polling, faults>>

\* The error of complete() goes to fail().  (JobQueue has a complete() that committed, AckLoss.)
CompleteThrows ==
  /\ up /\ running # None /\ outcome = "returned"
  /\ Fault
  /\ outcome' = "threw"
  /\ UNCHANGED <<intents, chain, up, client, callbacks, sweep, queue, polling, running>>

\* An error of reclaimStale, claimBatch or fail(), committed or not, leaves run(), and nothing
\* in the process calls it again.
LoopEnds ==
  /\ up /\ polling
  /\ Fault
  /\ \/ running = None /\ UNCHANGED queue
     \/ \E j \in Jobs :
          /\ Polled = "deposits" /\ running = None /\ jobStatus[j] = "PENDING"
          /\ SetStatus(j, "RUNNING") /\ attempts' = [attempts EXCEPT ![j] = @ + 1]
     \/ outcome = "threw" /\ UNCHANGED queue
     \/ outcome = "threw" /\ SetStatus(running, AfterFailure(running)) /\ UNCHANGED attempts
  /\ polling' = FALSE /\ running' = None /\ outcome' = "none"
  /\ UNCHANGED <<intents, chain, up, client, callbacks, sweep>>

Crash ==
  /\ up
  /\ Fault
  /\ up' = FALSE
  /\ watched' = {} /\ observed' = {} /\ resolved' = {} /\ sweep' = {}
  /\ polling' = TRUE /\ running' = None /\ outcome' = "none"  \* those of the next process
  /\ UNCHANGED <<intents, chain, passed, queue>>

Restart ==
  /\ ~up
  /\ up' = TRUE
  /\ UNCHANGED <<intents, chain, client, callbacks, sweep, queue, loop, faults>>

-----------------------------------------------------------------------------
Handler ==
  \/ RecordNothing \/ AcceptQuote \/ DetectDeposit \/ ExpireQuote
  \/ ConfirmDeposit \/ ConfirmRefused \/ LogUnattributed \/ HandlerError

Next ==
  \/ \E i \in Intents : Quote(i) \/ Examine(i)
  \/ \E x \in Txs : Mine(x) \/ Deepen(x) \/ Reorg(x)
  \/ \E t \in Transfers : Poll(t) \/ Lookup(t)
  \/ \E t \in Transfers, i \in Intents \cup {None} : Enqueue(t, i)
  \/ \E j \in Jobs : Claim(j) \/ Reclaim(j)
  \/ Refresh \/ LoseCallback \/ Sweep
  \/ Handler \/ Acknowledge \/ CompleteThrows \/ LoopEnds
  \/ Crash \/ Restart

\* The tracker's timer fires, its awaits return, and the worker's deployment restarts it.
\* Nothing is assumed of customers, the chain or the callbacks, nor of the loop, which may have
\* ended or poll another queue.
Fairness ==
  /\ WF_vars(Sweep) /\ \A i \in Intents : WF_vars(Examine(i))
  /\ WF_vars(Restart)

Spec == Init /\ [][Next]_vars
FairSpec == Spec /\ Fairness

-----------------------------------------------------------------------------
(* Properties. *)

\* A transfer pays one intent, however often it is delivered, whichever intents wait at its
\* address by then, and however often its job is run.
CreditedOnce ==
  \A i, k \in Intents : paidBy[i] = paidBy[k] /\ paidBy[i] # None => i = k

\* "confirmation depth is a correctness requirement": no intent is CONFIRMING on a
\* transaction that reverted, that a reorg dropped or may yet drop.
ConfirmedIsFinal ==
  \A i \in Intents : state[i] = "CONFIRMING" =>
    paidBy[i] # None /\ chain[TxOf[paidBy[i]]] = "deep"

\* A record job that succeeded leaves its intent past waiting: no crash or error between the two
\* transitions of recordDeposit, nor a repeated run of the job, ends it early.
RecordedIsDone ==
  \A j \in RecordJobs : jobStatus[j] = "SUCCEEDED" => intentId[j] \notin Awaiting

\* The pipeline uses the queue as JobLifecycle, which JobQueue implements, describes it.
Queue == INSTANCE JobLifecycle WITH Handled <- Jobs, status <- jobStatus
QueueSpec == Queue!Spec

\* A recorded deposit whose transaction is final gets a durable confirm job in the end, through
\* crashes, errors of the node and of the database that end a sweep, and reorgs before: what
\* one sweep loses another finds again.  (The key names the transaction, so of two intents paid
\* in one transaction the job is one of them's.)
FinalIsQueued ==
  \A i \in Intents :
    (state[i] = "DETECTED" /\ chain[TxOf[paidBy[i]]] = "deep") ~>
      state[i] # "DETECTED" \/ jobStatus[<<"confirm", TxOf[paidBy[i]]>>] # "ABSENT"
=============================================================================
