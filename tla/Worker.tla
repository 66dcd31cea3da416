------------------------------- MODULE Worker -------------------------------
(***************************************************************************)
(* The worker process: start() and stop() of composition.ts, the signals   *)
(* of index.ts, the refreshes of DepositWatcher, the pollers they start    *)
(* and stop in the chain clients, and the loop of JobQueue.run seen from   *)
(* outside (JobQueue.tla has what happens inside it).                      *)
(*                                                                         *)
(* What one turn of the event loop does without an await is one action.    *)
(***************************************************************************)
EXTENDS Integers, FiniteSets

CONSTANTS
  Addresses,      \* deposit addresses
  EvmAddresses,   \* those on an EVM chain; the others are on Tron or Solana
  Refreshes,      \* refresh() calls that can be in flight at the same time
  None,           \* null
  MaxChanges,     \* bound: changes of the intents that await a deposit
  MaxFaults       \* bound: rejected database queries

ASSUME WorkerAssumption ==
  /\ EvmAddresses \subseteq Addresses
  /\ MaxChanges \in Nat /\ MaxFaults \in Nat

VARIABLES
  awaiting,      \* database: addresses that findAwaitingDeposits returns
  starting,      \* where main() is in start()
  stopping,      \* what stop() and its then-chain wait for
  early,         \* history: stop() was called before start() was through
  exit,          \* exit code, None while the process runs
  queueAbort,    \* the AbortController of the job loop
  queueLoop,     \* where the job loop is
  refreshTimer,  \* the watcher's interval is set
  reading,       \* per refresh in flight, the list it has asked for
  subscribed,    \* DepositWatcher.subscriptions
  listening,     \* callbacks the chain clients hold per address
  pollTimer,     \* EVM: this.pollTimer is set
  leaked,        \* EVM: an interval runs that pollTimer does not point to
  connecting,    \* EVM: startPolling calls that wait for the block number
  changes, faults

process == <<starting, stopping, early, exit>>
loop == <<queueAbort, queueLoop>>
watcher == <<refreshTimer, reading, subscribed>>
clients == <<listening, pollTimer, leaked, connecting>>
counts == <<changes, faults>>
processVars == <<awaiting, process, loop, watcher, clients, counts>>

ProcessTypeOK ==
  /\ awaiting \subseteq Addresses
  /\ starting \in {"listen", "refresh", "started"}
  /\ stopping \in {"no", "loop", "health", "pool"}
  /\ early \in BOOLEAN
  /\ exit \in {None, 0, 1}
  /\ queueAbort \in {None, "live", "aborted"}
  /\ queueLoop \in {"none", "reclaim", "jobs", "sleep", "ended"}
  /\ refreshTimer \in BOOLEAN
  /\ reading \in [Refreshes -> {None} \cup SUBSET Addresses]
  /\ subscribed \subseteq Addresses
  /\ listening \in [Addresses -> Nat]
  /\ pollTimer \in BOOLEAN /\ leaked \in BOOLEAN
  /\ connecting \in Nat
  /\ changes \in 0..MaxChanges /\ faults \in 0..MaxFaults

\* compose(): every part exists, nothing runs.
ProcessInit ==
  /\ awaiting \in SUBSET Addresses
  /\ starting = "listen" /\ stopping = "no" /\ early = FALSE /\ exit = None
  /\ queueAbort = None /\ queueLoop = "none"
  /\ refreshTimer = FALSE
  /\ reading = [r \in Refreshes |-> None]
  /\ subscribed = {}
  /\ listening = [a \in Addresses |-> 0]
  /\ pollTimer = FALSE /\ leaked = FALSE /\ connecting = 0
  /\ changes = 0 /\ faults = 0

Running == exit = None

Exit(code) == exit' = code /\ UNCHANGED <<starting, stopping, early>>

\* A query rejects: the database fails it, or closePool has ended the pool.
Rejected ==
  \/ faults < MaxFaults /\ faults' = faults + 1 /\ UNCHANGED changes
  \/ stopping = "pool" /\ UNCHANGED counts

-----------------------------------------------------------------------------
(* The chain clients. *)

Listened(l) == {a \in EvmAddresses : l[a] > 0}

\* watchDeposits for the addresses in new, and then the unsubscribe functions of those in
\* gone.  Tron and Solana run one interval per watch, of which the unsubscribe has the key.
Intervals(a, new, gone) ==
  listening[a] + (IF a \in new THEN 1 ELSE 0) - (IF a \in gone THEN 1 ELSE 0)

\* Mutant: an unsubscribe clears the poller although others still listen.
Watch_Clear(new, gone) ==
  /\ listening' = [a \in Addresses |-> Intervals(a, new, gone)]
  /\ connecting' = connecting + (IF pollTimer THEN 0 ELSE Cardinality(new \cap EvmAddresses))
  /\ pollTimer' = (pollTimer /\ gone \cap EvmAddresses = {})
  /\ UNCHANGED leaked

\* An EVM client keeps listeners and one poller: a watch starts it unless pollTimer is set,
\* which startPolling does only after an await, and the unsubscribe that leaves no listener
\* clears pollTimer.  Listeners are counted as the intervals are.
Watch(new, gone) ==
  /\ listening' = [a \in Addresses |-> Intervals(a, new, gone)]
  /\ connecting' = connecting + (IF pollTimer THEN 0 ELSE Cardinality(new \cap EvmAddresses))
  /\ pollTimer' = (pollTimer /\ (gone \cap EvmAddresses = {} \/ Listened(listening') # {}))
  /\ UNCHANGED leaked

\* The block number, or the error that stands for it, has come: the interval is set, also
\* when another startPolling has set one meanwhile or all listeners are gone.
startPolling ==
  /\ connecting > 0
  /\ connecting' = connecting - 1
  /\ pollTimer' = TRUE
  /\ leaked' = (leaked \/ pollTimer)
  /\ UNCHANGED <<awaiting, process, loop, watcher, listening, counts>>

IsPolled(a) == listening[a] > 0 /\ (a \in EvmAddresses => pollTimer \/ leaked)

-----------------------------------------------------------------------------
(* DepositWatcher. *)

\* findAwaitingDeposits reads the rows; the list arrives, and is applied, later.
Ask(r) == reading[r] = None /\ reading' = [reading EXCEPT ![r] = awaiting]

\* Mutant: an address that has a subscription is watched again.
Apply_Again(r) ==
  /\ reading[r] # None
  /\ reading' = [reading EXCEPT ![r] = None]
  /\ Watch(reading[r], subscribed \ reading[r])
  /\ subscribed' = reading[r]

\* The list has come: watch what is new in it, unsubscribe what is not in it any more.
\* Neither started nor a stop() in the meantime is looked at.
Apply(r) ==
  /\ reading[r] # None
  /\ reading' = [reading EXCEPT ![r] = None]
  /\ Watch(reading[r] \ subscribed, subscribed \ reading[r])
  /\ subscribed' = reading[r]

\* A tick of the interval: the call before it may still wait for its list.
RefreshTick(r) ==
  /\ refreshTimer /\ Ask(r)
  /\ UNCHANGED <<awaiting, process, loop, refreshTimer, subscribed, clients, counts>>

\* While start() waits for its own refresh there is no other.
refresh(r) ==
  /\ starting = "started" /\ Apply(r)
  /\ UNCHANGED <<awaiting, process, loop, refreshTimer, counts>>

RefreshFails(r) ==
  /\ starting = "started" /\ reading[r] # None /\ Rejected
  /\ reading' = [reading EXCEPT ![r] = None]
  /\ UNCHANGED <<awaiting, process, loop, refreshTimer, subscribed, clients>>

-----------------------------------------------------------------------------
(* start() and its failure, which main().catch turns into an exit. *)

\* health.listen resolves and watcher.start asks for its first list.
Listen(r) ==
  /\ starting = "listen" /\ starting' = "refresh" /\ Ask(r)
  /\ UNCHANGED <<awaiting, stopping, early, exit, loop, refreshTimer, subscribed, clients,
                 counts>>

\* The list has come: timers, a new AbortController and the job loop, whether or not
\* stop() was called meanwhile.
Started(r) ==
  /\ starting = "refresh" /\ Apply(r)
  /\ starting' = "started"
  /\ refreshTimer' = TRUE
  /\ queueAbort' = "live" /\ queueLoop' = "reclaim"
  /\ UNCHANGED <<awaiting, stopping, early, exit, counts>>

StartFails ==
  /\ starting # "started"
  /\ Rejected /\ Exit(1)
  /\ UNCHANGED <<awaiting, loop, watcher, clients>>

-----------------------------------------------------------------------------
(* JobQueue.run. *)

MoveLoop(from, to) ==
  /\ queueLoop = from /\ queueLoop' = to
  /\ UNCHANGED <<awaiting, process, queueAbort, watcher, clients>>

\* The signal is looked at before reclaimStale, not between it and runOnce.
Reclaimed == MoveLoop("reclaim", "jobs") /\ UNCHANGED counts

Aborted == queueAbort = "aborted"

\* runOnce is through its batch.
BatchDone == MoveLoop("jobs", IF Aborted THEN "ended" ELSE "sleep") /\ UNCHANGED counts

\* sleep() ends at its timeout or at the abort.
Wake == MoveLoop("sleep", IF Aborted THEN "ended" ELSE "reclaim") /\ UNCHANGED counts

\* An error of reclaimStale, claimBatch or fail ends run(); start() only logs it.
LoopFails ==
  /\ \E from \in {"reclaim", "jobs"} : MoveLoop(from, "ended")
  /\ Rejected

-----------------------------------------------------------------------------
(* stop() and what index.ts does around it. *)

\* Mutant: stop() does not wait for the job loop.
shutdown_NotAwaited ==
  /\ stopping = "no"
  /\ stopping' = "health"
  /\ early' = (starting # "started")
  /\ refreshTimer' = FALSE
  /\ Watch({}, subscribed) /\ subscribed' = {}
  /\ queueAbort' = IF queueAbort = None THEN None ELSE "aborted"
  /\ UNCHANGED <<awaiting, starting, exit, queueLoop, reading, counts>>

\* A signal or an uncaught exception; a second one is only logged.  tracker.stop,
\* watcher.stop and abort run at once; stop() then waits for the loop there is now.
shutdown ==
  /\ stopping = "no"
  /\ stopping' = IF queueLoop = "none" THEN "health" ELSE "loop"
  /\ early' = (starting # "started")
  /\ refreshTimer' = FALSE
  /\ Watch({}, subscribed) /\ subscribed' = {}
  /\ queueAbort' = IF queueAbort = None THEN None ELSE "aborted"
  /\ UNCHANGED <<awaiting, starting, exit, queueLoop, reading, counts>>

\* queueLoop has resolved; health.close has, and closePool is called.
LoopAwaited ==
  /\ stopping = "loop" /\ queueLoop = "ended" /\ stopping' = "health"
  /\ UNCHANGED <<awaiting, starting, early, exit, loop, watcher, clients, counts>>

HealthClosed ==
  /\ stopping = "health" /\ stopping' = "pool"
  /\ UNCHANGED <<awaiting, starting, early, exit, loop, watcher, clients, counts>>

\* closePool has resolved; or the deadline of forceExit passes first.
Exits ==
  /\ \/ stopping = "pool" /\ Exit(0)
     \/ stopping # "no" /\ Exit(1)
  /\ UNCHANGED <<awaiting, loop, watcher, clients, counts>>

-----------------------------------------------------------------------------

\* The gateway quotes intents; deposits, expiry and refunds end the wait for them.
IntentsChange ==
  /\ changes < MaxChanges /\ changes' = changes + 1
  /\ awaiting' \in SUBSET Addresses \ {awaiting}
  /\ UNCHANGED <<process, loop, watcher, clients, faults>>

LoopTurn == Reclaimed \/ BatchDone \/ Wake

ProcessNext ==
  /\ Running
  /\ \/ \E r \in Refreshes : Listen(r) \/ Started(r) \/ RefreshTick(r) \/ refresh(r)
                                \/ RefreshFails(r)
     \/ StartFails \/ startPolling
     \/ LoopTurn \/ LoopFails
     \/ shutdown \/ LoopAwaited \/ HealthClosed \/ Exits
     \/ IntentsChange

ProcessSpec == ProcessInit /\ [][ProcessNext]_processVars

\* A query answers or rejects and an interval ticks; nothing obliges a signal to come, a
\* batch to end or an HTTP connection to close.
ProcessFairness ==
  /\ \A r \in Refreshes :
       /\ WF_processVars(Running /\ (Listen(r) \/ Started(r)))
       /\ WF_processVars(Running /\ RefreshTick(r))
       /\ WF_processVars(Running /\ refresh(r))
  /\ WF_processVars(Running /\ startPolling)

-----------------------------------------------------------------------------

\* However refreshes, a stop and late lists follow one another, the chain clients hold one
\* callback for every address the watcher has in its table, and none that the table has
\* lost, which nothing could stop (deposit-watcher.ts:122-149, 158-172).
WatchesAreBooked ==
  \A a \in Addresses : listening[a] = IF a \in subscribed THEN 1 ELSE 0

\* A stop() of a worker that has started closes the pool only after the job loop has
\* ended, so that no job loses its database (composition.ts:163-168).
PoolClosesLast ==
  stopping = "pool" /\ ~early => queueLoop = "ended"

\* An address an intent waits at is polled, also with lists that overtake each other, a
\* refresh that fails and an EVM poller that is stopped and started around it, unless the
\* worker stops (deposit-watcher.ts:85-88, evm-chain-client.ts:335-353).
EveryAwaitedIsPolled ==
  \A a \in Addresses :
    a \in awaiting ~> (IsPolled(a) \/ a \notin awaiting \/ stopping # "no" \/ ~Running)

=============================================================================
