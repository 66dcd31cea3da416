---------------------------- MODULE WorkerProofs ----------------------------
(***************************************************************************)
(* Proofs about the worker process.  JobQueue: its job loop, for any jobs, *)
(* any number of workers and any bounds.  Worker: the process around the   *)
(* loop.  The watcher's table and the chain clients agree, and a stop of a *)
(* started worker closes the pool last, for any addresses and any number   *)
(* of refreshes in flight.                                                 *)
(***************************************************************************)
EXTENDS JobQueue, Worker, TLAPS

-----------------------------------------------------------------------------
(* The process. *)

\* The parts of ProcessTypeOK the two invariants rest on.
Tables ==
  /\ subscribed \subseteq Addresses
  /\ reading \in [Refreshes -> {None} \cup SUBSET Addresses]
  /\ awaiting \subseteq Addresses
  /\ \A r \in Refreshes : reading[r] # None => reading[r] \subseteq Addresses

\* Watched addresses are booked, and the table holds addresses only.
Booked == Tables /\ WatchesAreBooked /\ DOMAIN listening = Addresses

\* start() sets the loop when it is through; stop() of a started worker waits for it.
Drains ==
  /\ starting = "started" <=> queueLoop # "none"
  /\ stopping \in {"health", "pool"} /\ ~early => queueLoop = "ended"
  /\ stopping # "no" /\ ~early => starting = "started"

-----------------------------------------------------------------------------

\* A list that is applied leaves one callback for each of its addresses and no other:
\* Watch adds and removes exactly the difference.
LEMMA WatchBooks ==
  ASSUME Booked, NEW list, list \subseteq Addresses,
         Watch(list \ subscribed, subscribed \ list), subscribed' = list
  PROVE  WatchesAreBooked' /\ DOMAIN listening' = Addresses
<1>1. \A a \in Addresses :
        listening'[a] = listening[a] + (IF a \in list \ subscribed THEN 1 ELSE 0)
                                     - (IF a \in subscribed \ list THEN 1 ELSE 0)
  BY DEF Watch, Intervals
<1>2. DOMAIN listening' = Addresses
  BY DEF Watch
<1>3. ASSUME NEW a \in Addresses
      PROVE  listening'[a] = IF a \in list THEN 1 ELSE 0
  <2>1. listening[a] = IF a \in subscribed THEN 1 ELSE 0
    BY DEF Booked, WatchesAreBooked
  <2>2. CASE a \in list /\ a \in subscribed
    BY <1>1, <2>1, <2>2
  <2>3. CASE a \in list /\ a \notin subscribed
    BY <1>1, <2>1, <2>3
  <2>4. CASE a \notin list /\ a \in subscribed
    BY <1>1, <2>1, <2>4
  <2>5. CASE a \notin list /\ a \notin subscribed
    BY <1>1, <2>1, <2>5
  <2> QED BY <2>2, <2>3, <2>4, <2>5
<1> QED BY <1>2, <1>3 DEF WatchesAreBooked

\* The same for a refresh: the list in flight is a set of addresses.
LEMMA ApplyBooks ==
  ASSUME Booked, NEW r \in Refreshes, Apply(r), awaiting' = awaiting
  PROVE  Booked'
<1>1. reading[r] \subseteq Addresses
  BY DEF Booked, Tables, Apply
<1>2. WatchesAreBooked' /\ DOMAIN listening' = Addresses
  BY <1>1, WatchBooks DEF Apply
<1>3. reading' \in [Refreshes -> {None} \cup SUBSET Addresses]
  BY DEF Booked, Tables, Apply
<1>4. \A q \in Refreshes : reading'[q] # None => reading'[q] \subseteq Addresses
  BY DEF Booked, Tables, Apply
<1> QED BY <1>1, <1>2, <1>3, <1>4 DEF Booked, Tables, Apply

\* Asking for a list books nothing.
LEMMA AskBooks ==
  ASSUME Booked, NEW r \in Refreshes, Ask(r),
         UNCHANGED <<awaiting, subscribed, listening>>
  PROVE  Booked'
<1>1. reading' \in [Refreshes -> {None} \cup SUBSET Addresses]
  BY DEF Booked, Tables, Ask
<1>2. \A q \in Refreshes : reading'[q] # None => reading'[q] \subseteq Addresses
  BY DEF Booked, Tables, Ask
<1>3. WatchesAreBooked'
  BY DEF Booked, WatchesAreBooked
<1> QED BY <1>1, <1>2, <1>3 DEF Booked, Tables

\* Nor does a step that leaves the table and the clients alone.
LEMMA OthersBook ==
  ASSUME Booked, UNCHANGED <<subscribed, listening>>, awaiting' \subseteq Addresses,
         \/ reading' = reading
         \/ \E r \in Refreshes : reading' = [reading EXCEPT ![r] = None]
  PROVE  Booked'
<1>1. reading' \in [Refreshes -> {None} \cup SUBSET Addresses]
  BY DEF Booked, Tables
<1>2. \A q \in Refreshes : reading'[q] # None => reading'[q] \subseteq Addresses
  BY DEF Booked, Tables
<1>3. WatchesAreBooked'
  BY DEF Booked, WatchesAreBooked
<1> QED BY <1>1, <1>2, <1>3 DEF Booked, Tables

LEMMA NextBooks == Booked /\ [ProcessNext]_processVars => Booked'
<1> SUFFICES ASSUME Booked, [ProcessNext]_processVars PROVE Booked'
  OBVIOUS
<1>a. awaiting \subseteq Addresses
  BY DEF Booked, Tables
<1>1. ASSUME NEW r \in Refreshes, Listen(r) \/ RefreshTick(r) PROVE Booked'
  BY <1>1, AskBooks DEF Listen, RefreshTick, clients
<1>2. ASSUME NEW r \in Refreshes, Started(r) \/ refresh(r) PROVE Booked'
  BY <1>2, ApplyBooks DEF Started, refresh
<1>3. ASSUME NEW r \in Refreshes, RefreshFails(r) PROVE Booked'
  BY <1>3, <1>a, OthersBook DEF RefreshFails, clients
<1>4. CASE startPolling
  BY <1>4, <1>a, OthersBook DEF startPolling, watcher
<1>5. CASE StartFails \/ LoopTurn \/ LoopFails
  BY <1>5, <1>a, OthersBook
     DEF StartFails, LoopTurn, LoopFails, Reclaimed, BatchDone, Wake, MoveLoop, watcher, clients
<1>6. CASE LoopAwaited \/ HealthClosed \/ Exits
  BY <1>6, <1>a, OthersBook DEF LoopAwaited, HealthClosed, Exits, watcher, clients
<1>7. CASE shutdown
  <2>1. Watch({} \ subscribed, subscribed \ {}) /\ subscribed' = {}
    <3>1. {} \ subscribed = {} /\ subscribed \ {} = subscribed
      OBVIOUS
    <3> QED BY <1>7, <3>1 DEF shutdown
  <2>2. WatchesAreBooked' /\ DOMAIN listening' = Addresses
    BY <2>1, WatchBooks
  <2> QED BY <1>7, <2>2 DEF shutdown, Booked, Tables
<1>8. CASE IntentsChange
  <2>1. awaiting' \subseteq Addresses
    BY <1>8 DEF IntentsChange
  <2> QED BY <1>8, <2>1, OthersBook DEF IntentsChange, watcher, clients
<1>9. CASE UNCHANGED processVars
  BY <1>9, <1>a, OthersBook DEF processVars, watcher, clients
<1> QED
  BY <1>1, <1>2, <1>3, <1>4, <1>5, <1>6, <1>7, <1>8, <1>9 DEF ProcessNext

\* For any addresses and any overlap of refreshes and stops, the chain clients hold exactly
\* the callbacks the watcher can take back (deposit-watcher.ts:122-149, 158-172).
THEOREM CallbacksAreBooked == ProcessSpec => []WatchesAreBooked
<1>1. ProcessInit => Booked
  BY DEF ProcessInit, Booked, Tables, WatchesAreBooked
<1>2. Booked => WatchesAreBooked
  BY DEF Booked
<1> QED BY <1>1, <1>2, NextBooks, PTL DEF ProcessSpec

-----------------------------------------------------------------------------

LEMMA NextDrains == Drains /\ [ProcessNext]_processVars => Drains'
<1> SUFFICES ASSUME Drains, [ProcessNext]_processVars PROVE Drains'
  OBVIOUS
<1>1. ASSUME NEW r \in Refreshes,
             Listen(r) \/ Started(r) \/ RefreshTick(r) \/ refresh(r) \/ RefreshFails(r)
      PROVE  Drains'
  BY <1>1 DEF Drains, Listen, Started, RefreshTick, refresh, RefreshFails, process, loop
<1>2. CASE StartFails \/ startPolling \/ IntentsChange
  BY <1>2 DEF Drains, StartFails, startPolling, IntentsChange, Exit, process, loop
<1>3. CASE LoopTurn \/ LoopFails
  BY <1>3 DEF Drains, LoopTurn, LoopFails, Reclaimed, BatchDone, Wake, MoveLoop, process
<1>4. CASE shutdown
  BY <1>4 DEF Drains, shutdown
<1>5. CASE LoopAwaited \/ HealthClosed \/ Exits
  BY <1>5 DEF Drains, LoopAwaited, HealthClosed, Exits, Exit, loop
<1>6. CASE UNCHANGED processVars
  BY <1>6 DEF Drains, processVars, process, loop
<1> QED
  BY <1>1, <1>2, <1>3, <1>4, <1>5, <1>6 DEF ProcessNext

\* Whatever the loop was doing and whatever fails, a stop of a started worker that was not
\* forced closes the pool after the loop (composition.ts:163-168, 175-176).
THEOREM StopDrains == ProcessSpec => []PoolClosesLast
<1>1. ProcessInit => Drains
  BY DEF ProcessInit, Drains
<1>2. Drains => PoolClosesLast
  BY DEF Drains, PoolClosesLast
<1> QED BY <1>1, <1>2, NextDrains, PTL DEF ProcessSpec

-----------------------------------------------------------------------------
(* Its job loop. *)

(* The worker's place in its loop determines what it remembers. *)

\* While a job is being processed it is in the worker's batch.
CurInBatch ==
  \A w \in Workers : pc[w] \in {"handle", "complete", "fail"} =>
    cur[w] \in Jobs /\ token[w][cur[w]] # 0

\* Between batches, and without a loop, a worker holds no copy of any row.
IdleHoldsNothing ==
  \A w \in Workers : pc[w] \in {"reclaim", "claim", "dead", "down"} =>
    \A j \in Jobs : token[w][j] = 0

\* complete() is only reached by a handler that has returned.
CompleteAfterReturn == \A w \in Workers : pc[w] = "complete" => cur[w] \in returned

\* A copy of a row that was never reclaimed belongs to a row nobody can claim.
HeldIsNotPending ==
  \A w \in Workers, j \in Jobs :
    token[w][j] # 0 /\ j \notin reclaimed => status[j] # "PENDING" /\ status[j] # "ABSENT"

IInv ==
  /\ TypeOK
  /\ CurInBatch
  /\ IdleHoldsNothing
  /\ CompleteAfterReturn
  /\ HeldIsNotPending
  /\ AttemptsNumberTheLocks
  /\ SharedOnlyIfReclaimed
  /\ SucceededHasRun
  /\ DeadLetterJustified

USE JobsAssumption, BoundsAssumption
USE DEF TypeOK, Status, PC, NoBatch, vars, rows, procs, budgets

LEMMA InitIInv == Init => IInv
BY DEF Init, IInv, CurInBatch, IdleHoldsNothing, CompleteAfterReturn, HeldIsNotPending,
       AttemptsNumberTheLocks, SharedOnlyIfReclaimed, SucceededHasRun, DeadLetterJustified

-----------------------------------------------------------------------------
(* One lemma per action, one step per conjunct of the invariant. *)

LEMMA EnqueueStep == ASSUME NEW j \in Jobs, IInv, Enqueue(j) PROVE IInv'
<1> USE DEF IInv, Enqueue
<1>1. TypeOK'
  OBVIOUS
<1>2. CurInBatch'
  BY DEF CurInBatch
<1>3. IdleHoldsNothing'
  BY DEF IdleHoldsNothing
<1>4. CompleteAfterReturn'
  BY DEF CompleteAfterReturn
<1>5. HeldIsNotPending'
  BY DEF HeldIsNotPending
<1>6. AttemptsNumberTheLocks'
  BY DEF AttemptsNumberTheLocks
<1>7. SharedOnlyIfReclaimed'
  BY DEF SharedOnlyIfReclaimed
<1>8. SucceededHasRun'
  BY DEF SucceededHasRun
<1>9. DeadLetterJustified'
  BY DEF DeadLetterJustified
<1>10. QED
  BY <1>1, <1>2, <1>3, <1>4, <1>5, <1>6, <1>7, <1>8, <1>9

LEMMA BecomeDueStep == ASSUME NEW j \in Jobs, IInv, BecomeDue(j) PROVE IInv'
<1> USE DEF IInv, BecomeDue
<1>1. TypeOK'
  OBVIOUS
<1>2. CurInBatch'
  BY DEF CurInBatch
<1>3. IdleHoldsNothing'
  BY DEF IdleHoldsNothing
<1>4. CompleteAfterReturn'
  BY DEF CompleteAfterReturn
<1>5. HeldIsNotPending'
  BY DEF HeldIsNotPending
<1>6. AttemptsNumberTheLocks'
  BY DEF AttemptsNumberTheLocks
<1>7. SharedOnlyIfReclaimed'
  BY DEF SharedOnlyIfReclaimed
<1>8. SucceededHasRun'
  BY DEF SucceededHasRun
<1>9. DeadLetterJustified'
  BY DEF DeadLetterJustified
<1>10. QED
  BY <1>1, <1>2, <1>3, <1>4, <1>5, <1>6, <1>7, <1>8, <1>9

LEMMA ExpireStep == ASSUME NEW j \in Jobs, IInv, Expire(j) PROVE IInv'
<1> USE DEF IInv, Expire
<1>1. TypeOK'
  OBVIOUS
<1>2. CurInBatch'
  BY DEF CurInBatch
<1>3. IdleHoldsNothing'
  BY DEF IdleHoldsNothing
<1>4. CompleteAfterReturn'
  BY DEF CompleteAfterReturn
<1>5. HeldIsNotPending'
  BY DEF HeldIsNotPending
<1>6. AttemptsNumberTheLocks'
  BY DEF AttemptsNumberTheLocks
<1>7. SharedOnlyIfReclaimed'
  BY DEF SharedOnlyIfReclaimed
<1>8. SucceededHasRun'
  BY DEF SucceededHasRun
<1>9. DeadLetterJustified'
  BY DEF DeadLetterJustified
<1>10. QED
  BY <1>1, <1>2, <1>3, <1>4, <1>5, <1>6, <1>7, <1>8, <1>9

LEMMA ReclaimStep == ASSUME NEW w \in Workers, IInv, Reclaim(w) PROVE IInv'
<1> USE DEF IInv, Reclaim, ReclaimRows, Abandoned, Goto
<1>1. TypeOK'
  OBVIOUS
<1>2. CurInBatch'
  BY DEF CurInBatch
<1>3. IdleHoldsNothing'
  BY DEF IdleHoldsNothing
<1>4. CompleteAfterReturn'
  BY DEF CompleteAfterReturn
<1>5. HeldIsNotPending'
  BY DEF HeldIsNotPending
<1>6. AttemptsNumberTheLocks'
  BY DEF AttemptsNumberTheLocks
<1>7. SharedOnlyIfReclaimed'
  BY DEF SharedOnlyIfReclaimed
<1>8. SucceededHasRun'
  BY DEF SucceededHasRun
<1>9. DeadLetterJustified'
  BY DEF DeadLetterJustified
<1>10. QED
  BY <1>1, <1>2, <1>3, <1>4, <1>5, <1>6, <1>7, <1>8, <1>9

LEMMA ClaimStep == ASSUME NEW w \in Workers, IInv, Claim(w) PROVE IInv'
<1> USE DEF IInv, Claim, ClaimRows, Claimable, Eligible, NextAttempt, Goto
<1>1. TypeOK'
  OBVIOUS
<1>2. CurInBatch'
  BY DEF CurInBatch
<1>3. IdleHoldsNothing'
  BY DEF IdleHoldsNothing
<1>4. CompleteAfterReturn'
  BY DEF CompleteAfterReturn
<1>5. HeldIsNotPending'
  BY DEF HeldIsNotPending
<1>6. AttemptsNumberTheLocks'
  BY DEF AttemptsNumberTheLocks
<1>7. SharedOnlyIfReclaimed'
  BY DEF SharedOnlyIfReclaimed, HeldIsNotPending
<1>8. SucceededHasRun'
  BY DEF SucceededHasRun
<1>9. DeadLetterJustified'
  BY DEF DeadLetterJustified
<1>10. QED
  BY <1>1, <1>2, <1>3, <1>4, <1>5, <1>6, <1>7, <1>8, <1>9

LEMMA DispatchStep == ASSUME NEW w \in Workers, IInv, Dispatch(w) PROVE IInv'
<1> USE DEF IInv, Dispatch
<1>1. TypeOK'
  OBVIOUS
<1>2. CurInBatch'
  BY DEF CurInBatch
<1>3. IdleHoldsNothing'
  BY DEF IdleHoldsNothing
<1>4. CompleteAfterReturn'
  BY DEF CompleteAfterReturn
<1>5. HeldIsNotPending'
  BY DEF HeldIsNotPending
<1>6. AttemptsNumberTheLocks'
  BY DEF AttemptsNumberTheLocks
<1>7. SharedOnlyIfReclaimed'
  BY DEF SharedOnlyIfReclaimed
<1>8. SucceededHasRun'
  BY DEF SucceededHasRun
<1>9. DeadLetterJustified'
  BY DEF DeadLetterJustified
<1>10. QED
  BY <1>1, <1>2, <1>3, <1>4, <1>5, <1>6, <1>7, <1>8, <1>9

LEMMA EndOfBatchStep == ASSUME NEW w \in Workers, IInv, EndOfBatch(w) PROVE IInv'
<1> USE DEF IInv, EndOfBatch, Goto
<1>1. TypeOK'
  OBVIOUS
<1>2. CurInBatch'
  BY DEF CurInBatch
<1>3. IdleHoldsNothing'
  BY DEF IdleHoldsNothing
<1>4. CompleteAfterReturn'
  BY DEF CompleteAfterReturn
<1>5. HeldIsNotPending'
  BY DEF HeldIsNotPending
<1>6. AttemptsNumberTheLocks'
  BY DEF AttemptsNumberTheLocks
<1>7. SharedOnlyIfReclaimed'
  BY DEF SharedOnlyIfReclaimed
<1>8. SucceededHasRun'
  BY DEF SucceededHasRun
<1>9. DeadLetterJustified'
  BY DEF DeadLetterJustified
<1>10. QED
  BY <1>1, <1>2, <1>3, <1>4, <1>5, <1>6, <1>7, <1>8, <1>9

LEMMA HandlerReturnsStep == ASSUME NEW w \in Workers, IInv, HandlerReturns(w) PROVE IInv'
<1> USE DEF IInv, HandlerReturns, Goto
<1>0. cur[w] \in Jobs /\ token[w][cur[w]] # 0
  BY DEF CurInBatch
<1>1. TypeOK'
  BY <1>0
<1>2. CurInBatch'
  BY <1>0 DEF CurInBatch
<1>3. IdleHoldsNothing'
  BY <1>0 DEF IdleHoldsNothing
<1>4. CompleteAfterReturn'
  BY <1>0 DEF CompleteAfterReturn
<1>5. HeldIsNotPending'
  BY <1>0 DEF HeldIsNotPending
<1>6. AttemptsNumberTheLocks'
  BY <1>0 DEF AttemptsNumberTheLocks
<1>7. SharedOnlyIfReclaimed'
  BY <1>0 DEF SharedOnlyIfReclaimed
<1>8. SucceededHasRun'
  BY <1>0 DEF SucceededHasRun
<1>9. DeadLetterJustified'
  BY <1>0 DEF DeadLetterJustified
<1>10. QED
  BY <1>1, <1>2, <1>3, <1>4, <1>5, <1>6, <1>7, <1>8, <1>9

LEMMA HandlerThrowsStep == ASSUME NEW w \in Workers, IInv, HandlerThrows(w) PROVE IInv'
<1> USE DEF IInv, HandlerThrows, Goto
<1>0. cur[w] \in Jobs /\ token[w][cur[w]] # 0
  BY DEF CurInBatch
<1>1. TypeOK'
  BY <1>0
<1>2. CurInBatch'
  BY <1>0 DEF CurInBatch
<1>3. IdleHoldsNothing'
  BY <1>0 DEF IdleHoldsNothing
<1>4. CompleteAfterReturn'
  BY <1>0 DEF CompleteAfterReturn
<1>5. HeldIsNotPending'
  BY <1>0 DEF HeldIsNotPending
<1>6. AttemptsNumberTheLocks'
  BY <1>0 DEF AttemptsNumberTheLocks
<1>7. SharedOnlyIfReclaimed'
  BY <1>0 DEF SharedOnlyIfReclaimed
<1>8. SucceededHasRun'
  BY <1>0 DEF SucceededHasRun
<1>9. DeadLetterJustified'
  BY <1>0 DEF DeadLetterJustified
<1>10. QED
  BY <1>1, <1>2, <1>3, <1>4, <1>5, <1>6, <1>7, <1>8, <1>9

LEMMA CompleteStep == ASSUME NEW w \in Workers, IInv, Complete(w) PROVE IInv'
<1> USE DEF IInv, Complete, CompleteRow, Finish, Goto
<1>0. cur[w] \in Jobs /\ token[w][cur[w]] # 0
  BY DEF CurInBatch
<1>1. TypeOK'
  BY <1>0
<1>2. CurInBatch'
  BY <1>0 DEF CurInBatch
<1>3. IdleHoldsNothing'
  BY <1>0 DEF IdleHoldsNothing
<1>4. CompleteAfterReturn'
  BY <1>0 DEF CompleteAfterReturn
<1>5. HeldIsNotPending'
  BY <1>0 DEF HeldIsNotPending, SharedOnlyIfReclaimed
<1>6. AttemptsNumberTheLocks'
  BY <1>0 DEF AttemptsNumberTheLocks
<1>7. SharedOnlyIfReclaimed'
  BY <1>0 DEF SharedOnlyIfReclaimed
<1>8. SucceededHasRun'
  BY <1>0 DEF SucceededHasRun, CompleteAfterReturn
<1>9. DeadLetterJustified'
  BY <1>0 DEF DeadLetterJustified
<1>10. QED
  BY <1>1, <1>2, <1>3, <1>4, <1>5, <1>6, <1>7, <1>8, <1>9

LEMMA FailStep == ASSUME NEW w \in Workers, IInv, Fail(w) PROVE IInv'
<1> USE DEF IInv, Fail, FailRow, Verdict, Exhausted, Finish, Goto
<1>0. cur[w] \in Jobs /\ token[w][cur[w]] # 0
  BY DEF CurInBatch
<1>1. TypeOK'
  BY <1>0
<1>2. CurInBatch'
  BY <1>0 DEF CurInBatch
<1>3. IdleHoldsNothing'
  BY <1>0 DEF IdleHoldsNothing
<1>4. CompleteAfterReturn'
  BY <1>0 DEF CompleteAfterReturn
<1>5. HeldIsNotPending'
  BY <1>0 DEF HeldIsNotPending, SharedOnlyIfReclaimed
<1>6. AttemptsNumberTheLocks'
  BY <1>0 DEF AttemptsNumberTheLocks
<1>7. SharedOnlyIfReclaimed'
  BY <1>0 DEF SharedOnlyIfReclaimed
<1>8. SucceededHasRun'
  BY <1>0 DEF SucceededHasRun
<1>9. DeadLetterJustified'
  BY <1>0 DEF DeadLetterJustified, AttemptsNumberTheLocks
<1>10. QED
  BY <1>1, <1>2, <1>3, <1>4, <1>5, <1>6, <1>7, <1>8, <1>9

LEMMA CompleteErrorStep == ASSUME NEW w \in Workers, IInv, CompleteError(w) PROVE IInv'
<1> USE DEF IInv, CompleteError, CompleteRow, DbError, Goto
<1>0. cur[w] \in Jobs /\ token[w][cur[w]] # 0
  BY DEF CurInBatch
<1>1. TypeOK'
  <2>1. CASE UNCHANGED rows
    BY <1>0, <2>1
  <2>2. CASE CompleteRow(cur[w])
    BY <1>0, <2>2
  <2>3. QED
    BY <2>1, <2>2
<1>2. CurInBatch'
  BY <1>0 DEF CurInBatch
<1>3. IdleHoldsNothing'
  BY <1>0 DEF IdleHoldsNothing
<1>4. CompleteAfterReturn'
  BY <1>0 DEF CompleteAfterReturn
<1>5. HeldIsNotPending'
  BY <1>0 DEF HeldIsNotPending, SharedOnlyIfReclaimed
<1>6. AttemptsNumberTheLocks'
  BY <1>0 DEF AttemptsNumberTheLocks
<1>7. SharedOnlyIfReclaimed'
  BY <1>0 DEF SharedOnlyIfReclaimed
<1>8. SucceededHasRun'
  BY <1>0 DEF SucceededHasRun, CompleteAfterReturn
<1>9. DeadLetterJustified'
  BY <1>0 DEF DeadLetterJustified
<1>10. QED
  BY <1>1, <1>2, <1>3, <1>4, <1>5, <1>6, <1>7, <1>8, <1>9

LEMMA LoopErrorStep == ASSUME NEW w \in Workers, IInv, LoopError(w) PROVE IInv'
<1> USE DEF IInv, LoopError, LoseMemory, DbError, ReclaimRows, Abandoned, ClaimRows,
               Claimable, Eligible, NextAttempt, FailRow, Verdict, Exhausted
<1>1. TypeOK'
  <2>1. CASE UNCHANGED rows
    BY <2>1
  <2>2. CASE ReclaimRows
    BY <2>2
  <2>3. ASSUME NEW S \in SUBSET Jobs, ClaimRows(w, S) PROVE TypeOK'
    BY <2>3
  <2>4. CASE pc[w] = "fail" /\ FailRow(w, cur[w])
    BY <2>4 DEF CurInBatch
  <2>5. QED
    BY <2>1, <2>2, <2>3, <2>4
<1>2. CurInBatch'
  BY DEF CurInBatch
<1>3. IdleHoldsNothing'
  BY DEF IdleHoldsNothing, CurInBatch
<1>4. CompleteAfterReturn'
  BY DEF CompleteAfterReturn, CurInBatch
<1>5. HeldIsNotPending'
  BY DEF HeldIsNotPending, CurInBatch, SharedOnlyIfReclaimed
<1>6. AttemptsNumberTheLocks'
  BY DEF AttemptsNumberTheLocks, CurInBatch
<1>7. SharedOnlyIfReclaimed'
  BY DEF SharedOnlyIfReclaimed, CurInBatch
<1>8. SucceededHasRun'
  BY DEF SucceededHasRun, CurInBatch
<1>9. DeadLetterJustified'
  BY DEF DeadLetterJustified, CurInBatch, AttemptsNumberTheLocks
<1>10. QED
  BY <1>1, <1>2, <1>3, <1>4, <1>5, <1>6, <1>7, <1>8, <1>9

LEMMA CrashStep == ASSUME NEW w \in Workers, IInv, Crash(w) PROVE IInv'
<1> USE DEF IInv, Crash, LoseMemory, Restarting
<1>1. TypeOK'
  OBVIOUS
<1>2. CurInBatch'
  BY DEF CurInBatch
<1>3. IdleHoldsNothing'
  BY DEF IdleHoldsNothing
<1>4. CompleteAfterReturn'
  BY DEF CompleteAfterReturn
<1>5. HeldIsNotPending'
  BY DEF HeldIsNotPending
<1>6. AttemptsNumberTheLocks'
  BY DEF AttemptsNumberTheLocks
<1>7. SharedOnlyIfReclaimed'
  BY DEF SharedOnlyIfReclaimed
<1>8. SucceededHasRun'
  BY DEF SucceededHasRun
<1>9. DeadLetterJustified'
  BY DEF DeadLetterJustified
<1>10. QED
  BY <1>1, <1>2, <1>3, <1>4, <1>5, <1>6, <1>7, <1>8, <1>9

LEMMA StopStep == ASSUME NEW w \in Workers, IInv, Stop(w) PROVE IInv'
<1> USE DEF IInv, Stop, LoseMemory, Restarting
<1>1. TypeOK'
  OBVIOUS
<1>2. CurInBatch'
  BY DEF CurInBatch
<1>3. IdleHoldsNothing'
  BY DEF IdleHoldsNothing
<1>4. CompleteAfterReturn'
  BY DEF CompleteAfterReturn
<1>5. HeldIsNotPending'
  BY DEF HeldIsNotPending
<1>6. AttemptsNumberTheLocks'
  BY DEF AttemptsNumberTheLocks
<1>7. SharedOnlyIfReclaimed'
  BY DEF SharedOnlyIfReclaimed
<1>8. SucceededHasRun'
  BY DEF SucceededHasRun
<1>9. DeadLetterJustified'
  BY DEF DeadLetterJustified
<1>10. QED
  BY <1>1, <1>2, <1>3, <1>4, <1>5, <1>6, <1>7, <1>8, <1>9

LEMMA StartStep == ASSUME NEW w \in Workers, IInv, Start(w) PROVE IInv'
<1> USE DEF IInv, Start, Goto
<1>1. TypeOK'
  OBVIOUS
<1>2. CurInBatch'
  BY DEF CurInBatch
<1>3. IdleHoldsNothing'
  BY DEF IdleHoldsNothing
<1>4. CompleteAfterReturn'
  BY DEF CompleteAfterReturn
<1>5. HeldIsNotPending'
  BY DEF HeldIsNotPending
<1>6. AttemptsNumberTheLocks'
  BY DEF AttemptsNumberTheLocks
<1>7. SharedOnlyIfReclaimed'
  BY DEF SharedOnlyIfReclaimed
<1>8. SucceededHasRun'
  BY DEF SucceededHasRun
<1>9. DeadLetterJustified'
  BY DEF DeadLetterJustified
<1>10. QED
  BY <1>1, <1>2, <1>3, <1>4, <1>5, <1>6, <1>7, <1>8, <1>9

-----------------------------------------------------------------------------
(* The invariant is inductive, and the theorems. *)

LEMMA NextIInv == IInv /\ [Next]_vars => IInv'
<1> SUFFICES ASSUME IInv, [Next]_vars PROVE IInv'
  OBVIOUS
<1>1. ASSUME NEW j \in Jobs, Enqueue(j) \/ BecomeDue(j) \/ Expire(j) PROVE IInv'
  BY <1>1, EnqueueStep, BecomeDueStep, ExpireStep
<1>2. ASSUME NEW w \in Workers, LoopStep(w) PROVE IInv'
  BY <1>2, ReclaimStep, ClaimStep, DispatchStep, EndOfBatchStep, HandlerReturnsStep,
     HandlerThrowsStep, CompleteStep, FailStep DEF LoopStep
<1>3. ASSUME NEW w \in Workers,
             Start(w) \/ CompleteError(w) \/ LoopError(w) \/ Crash(w) \/ Stop(w)
      PROVE IInv'
  BY <1>3, StartStep, CompleteErrorStep, LoopErrorStep, CrashStep, StopStep
<1>4. CASE UNCHANGED vars
  BY <1>4 DEF IInv, CurInBatch, IdleHoldsNothing, CompleteAfterReturn, HeldIsNotPending,
         AttemptsNumberTheLocks, SharedOnlyIfReclaimed, SucceededHasRun, DeadLetterJustified
<1>5. QED
  BY <1>1, <1>2, <1>3, <1>4 DEF Next

\* The inductive invariant holds in every reachable state.
THEOREM Inductive == Spec => []IInv
BY InitIInv, NextIInv, PTL DEF Spec

\* Type correctness of the queue, for any number of workers and jobs.
THEOREM TypeCorrect == Spec => []TypeOK
<1>1. IInv => TypeOK
  BY DEF IInv
<1>2. QED
  BY <1>1, Inductive, PTL

\* attempt_count numbers the locks of a row: no two workers share a count, and
\* the current count of a RUNNING row belongs to the worker in locked_by.
THEOREM LocksAreNumbered == Spec => []AttemptsNumberTheLocks
<1>1. IInv => AttemptsNumberTheLocks
  BY DEF IInv
<1>2. QED
  BY <1>1, Inductive, PTL

\* SKIP LOCKED claims are exclusive as long as no live worker's lock is reclaimed.
THEOREM ClaimsAreExclusive == Spec => []SharedOnlyIfReclaimed
<1>1. IInv => SharedOnlyIfReclaimed
  BY DEF IInv
<1>2. QED
  BY <1>1, Inductive, PTL

\* No row becomes SUCCEEDED without its handler having returned, and none is dead-lettered with
\* attempts left and a handler registered.
THEOREM VerdictsAreReal == Spec => []VerdictsJustified
<1>1. IInv => VerdictsJustified
  BY DEF IInv, VerdictsJustified
<1>2. QED
  BY <1>1, Inductive, PTL

-----------------------------------------------------------------------------
(* One worker implements the lifecycle of ADR-002. *)

\* What the only worker holds is locked, and its copy is up to date.
HeldIsRunning ==
  \A w \in Workers, j \in Jobs :
    token[w][j] # 0 => status[j] = "RUNNING" /\ token[w][j] = attempts[j]

LEMMA HeldIsRunningStep ==
  ASSUME NEW one, Workers = {one}, AckLoss = FALSE, IInv, HeldIsRunning, [Next]_vars
  PROVE  HeldIsRunning'
<1> USE DEF HeldIsRunning, IInv, Goto
<1>1. ASSUME NEW j \in Jobs, Enqueue(j) \/ BecomeDue(j) \/ Expire(j) PROVE HeldIsRunning'
  BY <1>1 DEF Enqueue, BecomeDue, Expire
<1>2. ASSUME Reclaim(one) PROVE HeldIsRunning'
  BY <1>2 DEF Reclaim, ReclaimRows, IdleHoldsNothing
<1>3. ASSUME Claim(one) PROVE HeldIsRunning'
  BY <1>3 DEF Claim, ClaimRows, Claimable, Eligible, NextAttempt
<1>4. ASSUME Dispatch(one) \/ EndOfBatch(one) \/ HandlerReturns(one) \/ HandlerThrows(one) \/ Start(one)
      PROVE HeldIsRunning'
  BY <1>4 DEF Dispatch, EndOfBatch, HandlerReturns, HandlerThrows, Start
<1>5. ASSUME Complete(one) PROVE HeldIsRunning'
  BY <1>5 DEF Complete, CompleteRow, Finish, CurInBatch
<1>6. ASSUME Fail(one) PROVE HeldIsRunning'
  BY <1>6 DEF Fail, FailRow, Verdict, Finish, CurInBatch
<1>7. ASSUME CompleteError(one) PROVE HeldIsRunning'
  BY <1>7 DEF CompleteError
<1>8. ASSUME LoopError(one) \/ Crash(one) \/ Stop(one) PROVE HeldIsRunning'
  BY <1>8 DEF LoopError, Crash, Stop, LoseMemory
<1>9. CASE UNCHANGED vars
  BY <1>9
<1>10. QED
  BY <1>1, <1>2, <1>3, <1>4, <1>5, <1>6, <1>7, <1>8, <1>9 DEF Next, LoopStep

LEMMA LifecycleStep ==
  ASSUME NEW one, Workers = {one}, AckLoss = FALSE, IInv, HeldIsRunning, [Next]_vars
  PROVE  [Lifecycle!Next]_<<status, attempts>>
<1> USE DEF IInv, Goto
<1>1. ASSUME NEW j \in Jobs, Enqueue(j) \/ BecomeDue(j) \/ Expire(j)
      PROVE  Lifecycle!Add(j) \/ UNCHANGED <<status, attempts>>
  BY <1>1 DEF Enqueue, BecomeDue, Expire, Lifecycle!Add
<1>2. ASSUME Reclaim(one) PROVE Lifecycle!Again(Abandoned)
  BY <1>2 DEF Reclaim, ReclaimRows, Abandoned, Lifecycle!Again
<1>3. ASSUME Claim(one) PROVE \E S \in SUBSET Jobs : Lifecycle!Begin(S)
  <2>1. PICK S \in SUBSET Jobs : ClaimRows(one, S)
    BY <1>3 DEF Claim
  <2>2. Lifecycle!Begin(S)
    BY <2>1 DEF ClaimRows, Claimable, Eligible, NextAttempt, Lifecycle!Begin
  <2>3. QED
    BY <2>2
<1>4. ASSUME Complete(one) PROVE Lifecycle!Succeed(cur[one])
  BY <1>4 DEF Complete, CompleteRow, CurInBatch, HeldIsRunning, Lifecycle!Succeed
<1>5. ASSUME Fail(one) PROVE Lifecycle!Bury(cur[one]) \/ Lifecycle!Again({cur[one]})
  <2>0. cur[one] \in Jobs /\ status[cur[one]] = "RUNNING" /\ token[one][cur[one]] = attempts[cur[one]]
    BY <1>5 DEF Fail, CurInBatch, HeldIsRunning
  <2>1. CASE Exhausted(one, cur[one])
    BY <1>5, <2>0, <2>1 DEF Fail, FailRow, Verdict, Exhausted, Lifecycle!Bury
  <2>2. CASE ~Exhausted(one, cur[one])
    BY <1>5, <2>0, <2>2 DEF Fail, FailRow, Verdict, Lifecycle!Again
  <2>3. QED
    BY <2>1, <2>2
<1>6. ASSUME \/ Dispatch(one) \/ EndOfBatch(one) \/ HandlerReturns(one) \/ HandlerThrows(one)
             \/ Start(one) \/ CompleteError(one) \/ LoopError(one) \/ Crash(one) \/ Stop(one)
             \/ UNCHANGED vars
      PROVE  UNCHANGED <<status, attempts>>
  BY <1>6 DEF Dispatch, EndOfBatch, HandlerReturns, HandlerThrows, Start, CompleteError,
              LoopError, Crash, Stop
<1>7. pc[one] \in {"complete", "fail"} => cur[one] \in Jobs
  BY DEF CurInBatch
<1>8. Abandoned \in SUBSET Jobs
  BY DEF Abandoned
<1>9. QED
  BY <1>1, <1>2, <1>3, <1>4, <1>5, <1>6, <1>7, <1>8
     DEF Next, LoopStep, Complete, Fail, Lifecycle!Next

(***************************************************************************)
(* For any jobs and bounds, one worker whose failing statements do not     *)
(* commit implements the lifecycle of ADR-002: in particular a job that    *)
(* has ended stays ended, whatever crashes and restarts happen.            *)
(***************************************************************************)
THEOREM OneWorkerImplementsLifecycle ==
  ASSUME NEW one, Workers = {one}, AckLoss = FALSE
  PROVE  Spec => LifecycleSpec
<1>1. Init => Lifecycle!Init /\ HeldIsRunning
  BY DEF Init, Lifecycle!Init, HeldIsRunning
<1>2. IInv /\ HeldIsRunning /\ [Next]_vars => HeldIsRunning'
  BY HeldIsRunningStep
<1>3. IInv /\ HeldIsRunning /\ [Next]_vars => [Lifecycle!Next]_<<status, attempts>>
  BY LifecycleStep
<1>4. QED
  BY <1>1, <1>2, <1>3, Inductive, PTL DEF Spec, LifecycleSpec, Lifecycle!Spec, Lifecycle!lvars
=============================================================================
