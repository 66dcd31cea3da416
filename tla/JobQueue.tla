------------------------------ MODULE JobQueue ------------------------------
(***************************************************************************)
(* The durable Postgres job queue of the worker process                    *)
(* (packages/worker/src/job-queue.ts, ADR-002).                            *)
(*                                                                         *)
(* A job is one row of the table `jobs`, identified by its idempotency     *)
(* key.  Each worker runs the loop of JobQueue.run: reclaim stale rows,    *)
(* claim a batch, run the handlers of the batch one after the other.       *)
(* Every SQL statement is atomic; workers, crashes and the passing of time *)
(* interleave between statements.                                          *)
(*                                                                         *)
(* Time is abstracted to what the WHERE clauses read: the rows whose       *)
(* run_at has passed (due) and the RUNNING rows whose locked_at is older   *)
(* than the visibility timeout (stale).  The order of run_at is left out:  *)
(* a claim may take any LIMIT of the rows it could take.                   *)
(***************************************************************************)
EXTENDS Integers, FiniteSets

CONSTANTS
  Jobs,          \* idempotency keys that may be enqueued
  Workers,       \* worker processes polling the table
  QueueOf,       \* the queue column each job is enqueued with
  Polled,        \* the queue name passed to run()
  Handled,       \* the jobs whose job_type has a registered handler
  MaxAttempts,   \* the max_attempts column
  Concurrency,   \* the LIMIT of a claim
  MaxRestarts,   \* bound: crashes and graceful stops explored
  MaxDbErrors,   \* bound: failing statements explored
  AckLoss,       \* TRUE: a failing statement may nevertheless have committed
  NoWorker,      \* locked_by IS NULL
  NoJob          \* a worker is between two jobs of its batch

ASSUME JobsAssumption == /\ Handled \subseteq Jobs
                         /\ NoJob \notin Jobs
                         /\ NoWorker \notin Workers
ASSUME BoundsAssumption == /\ MaxAttempts \in Nat \ {0}
                           /\ Concurrency \in Nat \ {0}
                           /\ MaxRestarts \in Nat
                           /\ MaxDbErrors \in Nat
                           /\ AckLoss \in BOOLEAN

VARIABLES
  status,      \* status column; "ABSENT" while the row does not exist
  attempts,    \* attempt_count column
  lockedBy,    \* locked_by column
  due,         \* rows with run_at <= NOW()
  stale,       \* RUNNING rows locked longer ago than the visibility timeout
  pc,          \* where each worker is in run() and runOnce()
  token,       \* attemptCount in the worker's copy of the row, 0 if not in its batch
  cur,         \* the job of the batch a worker is processing
  returned,    \* history: jobs whose handler has returned normally
  reclaimed,   \* history: jobs taken back from a worker by reclaimStale
  restarts,    \* crashes and stops so far
  dbErrors     \* failed statements so far

rows == <<status, attempts, lockedBy, due, stale, reclaimed>>
procs == <<pc, token, cur>>
budgets == <<restarts, dbErrors>>
vars == <<rows, procs, returned, budgets>>

\* The JobStatus 'FAILED' is left out: no statement of the code writes it.
Status == {"ABSENT", "PENDING", "RUNNING", "SUCCEEDED", "DEAD_LETTERED"}
Terminal == {"SUCCEEDED", "DEAD_LETTERED"}
PC == {"reclaim", "claim", "next", "handle", "complete", "fail", "dead", "down"}
NoBatch == [j \in Jobs |-> 0]

(***************************************************************************)
(* One type invariant.  "dead": run() has thrown and the process goes on   *)
(* without it; "down": there is no process.                                *)
(***************************************************************************)
TypeOK ==
  /\ status \in [Jobs -> Status]
  /\ attempts \in [Jobs -> Nat]
  /\ lockedBy \in [Jobs -> Workers \cup {NoWorker}]
  /\ due \subseteq Jobs
  /\ stale \subseteq Jobs
  /\ pc \in [Workers -> PC]
  /\ token \in [Workers -> [Jobs -> Nat]]
  /\ cur \in [Workers -> Jobs \cup {NoJob}]
  /\ returned \subseteq Jobs
  /\ reclaimed \subseteq Jobs
  /\ restarts \in 0..MaxRestarts
  /\ dbErrors \in 0..MaxDbErrors

Init ==
  /\ status = [j \in Jobs |-> "ABSENT"]
  /\ attempts = [j \in Jobs |-> 0]
  /\ lockedBy = [j \in Jobs |-> NoWorker]
  /\ due = {}
  /\ stale = {}
  /\ pc = [w \in Workers |-> "reclaim"]
  /\ token = [w \in Workers |-> NoBatch]
  /\ cur = [w \in Workers |-> NoJob]
  /\ returned = {}
  /\ reclaimed = {}
  /\ restarts = 0
  /\ dbErrors = 0

-----------------------------------------------------------------------------
(* The SQL statements. *)

\* INSERT ... ON CONFLICT (idempotency_key) DO NOTHING: a second enqueue of
\* the same key changes nothing, hence the guard.
Enqueue(j) ==
  /\ status[j] = "ABSENT"
  /\ status' = [status EXCEPT ![j] = "PENDING"]
  /\ due' \in {due, due \cup {j}}       \* delayMs > 0, delayMs = 0
  /\ UNCHANGED <<attempts, lockedBy, stale, reclaimed, procs, returned, budgets>>

\* Mutant: the claim forgets status = 'PENDING'.
Eligible_AnyStatus == {j \in due : status[j] # "ABSENT" /\ QueueOf[j] = Polled}

Eligible == {j \in due : status[j] = "PENDING" /\ QueueOf[j] = Polled}

\* LIMIT Concurrency, skipping no row that another claim does not take.
Claimable(S) ==
  /\ S \subseteq Eligible
  /\ Cardinality(S) <= Concurrency
  /\ Cardinality(S) < Concurrency => S = Eligible

\* Mutant: the count stops at max_attempts.
NextAttempt_Capped(j) == IF attempts[j] < MaxAttempts THEN attempts[j] + 1 ELSE MaxAttempts

NextAttempt(j) == attempts[j] + 1

ClaimRows(w, S) ==
  /\ Claimable(S)
  /\ status' = [j \in Jobs |-> IF j \in S THEN "RUNNING" ELSE status[j]]
  /\ attempts' = [j \in Jobs |-> IF j \in S THEN NextAttempt(j) ELSE attempts[j]]
  /\ lockedBy' = [j \in Jobs |-> IF j \in S THEN w ELSE lockedBy[j]]
  /\ stale' = stale \ S
  /\ UNCHANGED <<due, reclaimed>>

\* complete(): WHERE id = $1 and nothing else, whoever holds the row now.
CompleteRow(j) ==
  /\ status' = [status EXCEPT ![j] = "SUCCEEDED"]
  /\ lockedBy' = [lockedBy EXCEPT ![j] = NoWorker]
  /\ stale' = stale \ {j}
  /\ UNCHANGED <<attempts, due, reclaimed>>

\* Mutant: the comparison is off by one.
Exhausted_Early(w, j) == j \notin Handled \/ token[w][j] + 1 >= MaxAttempts

\* fail() decides on the attempt count of the worker's own copy of the row;
\* runOnce overwrites that count with max_attempts when there is no handler.
Exhausted(w, j) == j \notin Handled \/ token[w][j] >= MaxAttempts

\* Mutant: the row is marked FAILED, a status no query of the loop looks for.
Verdict_Failed(w, j) == IF Exhausted(w, j) THEN "FAILED" ELSE "PENDING"

Verdict(w, j) == IF Exhausted(w, j) THEN "DEAD_LETTERED" ELSE "PENDING"

FailRow(w, j) ==
  /\ status' = [status EXCEPT ![j] = Verdict(w, j)]
  /\ lockedBy' = [lockedBy EXCEPT ![j] = NoWorker]
  /\ stale' = stale \ {j}
  /\ due' = IF Exhausted(w, j) THEN due ELSE due \ {j}   \* backoff is at least 1 ms
  /\ UNCHANGED <<attempts, reclaimed>>

\* Mutant: a lock never counts as abandoned.
Abandoned_Never == {}

Abandoned == {j \in stale : status[j] = "RUNNING"}

ReclaimRows ==
  /\ status' = [j \in Jobs |-> IF j \in Abandoned THEN "PENDING" ELSE status[j]]
  /\ lockedBy' = [j \in Jobs |-> IF j \in Abandoned THEN NoWorker ELSE lockedBy[j]]
  /\ stale' = stale \ Abandoned
  /\ due' = due \cup Abandoned
  /\ reclaimed' = reclaimed \cup Abandoned
  /\ UNCHANGED attempts

-----------------------------------------------------------------------------
(* The worker loop. *)

Goto(w, from, to) ==
  /\ pc[w] = from
  /\ pc' = [pc EXCEPT ![w] = to]

Reclaim(w) ==
  /\ Goto(w, "reclaim", "claim")
  /\ ReclaimRows
  /\ UNCHANGED <<token, cur, returned, budgets>>

Claim(w) ==
  /\ Goto(w, "claim", "next")
  /\ \E S \in SUBSET Jobs :
       /\ ClaimRows(w, S)
       /\ token' = [token EXCEPT ![w] = [j \in Jobs |-> IF j \in S THEN attempts'[j] ELSE 0]]
  /\ UNCHANGED <<cur, returned, budgets>>

\* The next job of the batch, in the unspecified order of RETURNING.
Dispatch(w) ==
  /\ pc[w] = "next"
  /\ \E j \in Jobs :
       /\ token[w][j] # 0
       /\ cur' = [cur EXCEPT ![w] = j]
       /\ pc' = [pc EXCEPT ![w] = IF j \in Handled THEN "handle" ELSE "fail"]
  /\ UNCHANGED <<rows, token, returned, budgets>>

\* The batch is done: report, sleep, next cycle.
EndOfBatch(w) ==
  /\ Goto(w, "next", "reclaim")
  /\ token[w] = NoBatch
  /\ UNCHANGED <<rows, token, cur, returned, budgets>>

HandlerReturns(w) ==
  /\ Goto(w, "handle", "complete")
  /\ returned' = returned \cup {cur[w]}
  /\ UNCHANGED <<rows, token, cur, budgets>>

\* Mutant: the handler's error is swallowed.
HandlerThrows_Swallowed(w) ==
  /\ Goto(w, "handle", "complete")
  /\ UNCHANGED <<rows, token, cur, returned, budgets>>

HandlerThrows(w) ==
  /\ Goto(w, "handle", "fail")
  /\ UNCHANGED <<rows, token, cur, returned, budgets>>

\* The worker drops its copy of the row and turns to the next one.
Finish(w) ==
  /\ token' = [token EXCEPT ![w][cur[w]] = 0]
  /\ cur' = [cur EXCEPT ![w] = NoJob]

Complete(w) ==
  /\ Goto(w, "complete", "next")
  /\ CompleteRow(cur[w])
  /\ Finish(w)
  /\ UNCHANGED <<returned, budgets>>

Fail(w) ==
  /\ Goto(w, "fail", "next")
  /\ FailRow(w, cur[w])
  /\ Finish(w)
  /\ UNCHANGED <<returned, budgets>>

-----------------------------------------------------------------------------
(* Failures. *)

\* The worker's memory is gone: the loop ends, or the process does.
LoseMemory(w, where) ==
  /\ pc' = [pc EXCEPT ![w] = where]
  /\ token' = [token EXCEPT ![w] = NoBatch]
  /\ cur' = [cur EXCEPT ![w] = NoJob]

DbError ==
  /\ dbErrors < MaxDbErrors
  /\ dbErrors' = dbErrors + 1
  /\ UNCHANGED restarts

\* complete() is inside the try of runOnce: its error goes to fail().
CompleteError(w) ==
  /\ DbError
  /\ Goto(w, "complete", "fail")
  /\ \/ UNCHANGED rows
     \/ AckLoss /\ CompleteRow(cur[w])
  /\ UNCHANGED <<token, cur, returned>>

\* Any other statement's error leaves run(); the composition root logs it and
\* nothing starts the loop again.
LoopError(w) ==
  /\ DbError
  /\ pc[w] \in {"reclaim", "claim", "fail"}
  /\ \/ UNCHANGED rows
     \/ AckLoss /\ pc[w] = "reclaim" /\ ReclaimRows
     \/ AckLoss /\ pc[w] = "claim" /\ \E S \in SUBSET Jobs : ClaimRows(w, S)
     \/ AckLoss /\ pc[w] = "fail" /\ FailRow(w, cur[w])
  /\ LoseMemory(w, "dead")
  /\ UNCHANGED returned

Restarting ==
  /\ restarts < MaxRestarts
  /\ restarts' = restarts + 1
  /\ UNCHANGED dbErrors

\* SIGKILL, out of memory, or the 30 s shutdown deadline: at any point.
Crash(w) ==
  /\ Restarting
  /\ pc[w] # "down"
  /\ LoseMemory(w, "down")
  /\ UNCHANGED <<rows, returned>>

\* A graceful stop takes effect only between two cycles of the loop.
Stop(w) ==
  /\ Restarting
  /\ pc[w] \in {"reclaim", "dead"}
  /\ LoseMemory(w, "down")
  /\ UNCHANGED <<rows, returned>>

Start(w) ==
  /\ Goto(w, "down", "reclaim")
  /\ UNCHANGED <<rows, token, cur, returned, budgets>>

-----------------------------------------------------------------------------
(* Time. *)

BecomeDue(j) ==
  /\ status[j] = "PENDING" /\ j \notin due
  /\ due' = due \cup {j}
  /\ UNCHANGED <<status, attempts, lockedBy, stale, reclaimed, procs, returned, budgets>>

Expire(j) ==
  /\ status[j] = "RUNNING" /\ j \notin stale
  /\ stale' = stale \cup {j}
  /\ UNCHANGED <<status, attempts, lockedBy, due, reclaimed, procs, returned, budgets>>

-----------------------------------------------------------------------------
LoopStep(w) ==
  \/ Reclaim(w) \/ Claim(w) \/ Dispatch(w) \/ EndOfBatch(w)
  \/ HandlerReturns(w) \/ HandlerThrows(w) \/ Complete(w) \/ Fail(w)

Next ==
  \/ \E j \in Jobs : Enqueue(j) \/ BecomeDue(j) \/ Expire(j)
  \/ \E w \in Workers : \/ LoopStep(w) \/ Start(w)
                        \/ CompleteError(w) \/ LoopError(w) \/ Crash(w) \/ Stop(w)

Spec == Init /\ [][Next]_vars

(***************************************************************************)
(* The event loop runs a worker that is up; a statement, and with it a     *)
(* handler, returns or throws in the end (a lost connection is an error,   *)
(* the webhook POST has a deadline of its own); Kubernetes restarts a      *)
(* container that exited; time passes.  Nothing forces an enqueue, a       *)
(* failure, or the end of a process whose loop has died.                   *)
(***************************************************************************)
Fairness ==
  /\ \A w \in Workers : WF_vars(LoopStep(w)) /\ WF_vars(Start(w))
  /\ \A j \in Jobs : WF_vars(BecomeDue(j)) /\ WF_vars(Expire(j))

FairSpec == Spec /\ Fairness

-----------------------------------------------------------------------------
(* Safety. *)

(***************************************************************************)
(* claimBatch counts the attempt in the statement that takes the lock, so  *)
(* attempt_count numbers the locks of a row: no two workers hold copies of *)
(* a row with the same count, none holds a count the row has not reached,  *)
(* and while the row is RUNNING the worker holding the current count is    *)
(* the one in locked_by.  (complete() and fail() do not use it as a fence; *)
(* a late verdict overwrites that of the next holder.)                     *)
(***************************************************************************)
AttemptsNumberTheLocks ==
  \A j \in Jobs, w \in Workers : token[w][j] # 0 =>
    /\ token[w][j] <= attempts[j]
    /\ \A u \in Workers \ {w} : token[u][j] # token[w][j]
    /\ status[j] = "RUNNING" /\ token[w][j] = attempts[j] => lockedBy[j] = w

(***************************************************************************)
(* FOR UPDATE SKIP LOCKED "is what makes concurrent workers safe": two     *)
(* workers have the same job in their batches only after reclaimStale took *)
(* it away from a worker that was still alive.                             *)
(***************************************************************************)
SharedOnlyIfReclaimed ==
  \A j \in Jobs, w, u \in Workers :
    w # u /\ token[w][j] # 0 /\ token[u][j] # 0 => j \in reclaimed

\* A row says SUCCEEDED only if its handler has returned normally: crashes,
\* reclaims and late writes never turn an unprocessed job into a done one.
SucceededHasRun == \A j \in Jobs : status[j] = "SUCCEEDED" => j \in returned

\* fail() dead-letters only what used up its attempts or has no handler.
DeadLetterJustified ==
  \A j \in Jobs : status[j] = "DEAD_LETTERED" => attempts[j] >= MaxAttempts \/ j \notin Handled

\* What the loop writes as final it has a reason for, whatever happens to other workers.
VerdictsJustified == SucceededHasRun /\ DeadLetterJustified

-----------------------------------------------------------------------------
(* Refinement. *)

Lifecycle == INSTANCE JobLifecycle

\* With one worker and no lost acknowledgement, what complete(), fail() and
\* reclaimStale write on a row is what the lifecycle of ADR-002 allows, through
\* crashes, restarts and failing statements.
LifecycleSpec == Lifecycle!Spec

-----------------------------------------------------------------------------
(* Liveness. *)

LoopDied == \E w \in Workers : pc[w] = "dead"

\* "Restart-safe": whatever crashes, a job in the polled queue is done or
\* dead-lettered in the end, unless an error has left run().
EveryJobSettles ==
  \A j \in {i \in Jobs : QueueOf[i] = Polled} :
    status[j] # "ABSENT" ~> status[j] \in Terminal \/ LoopDied

\* "chain event -> durable job -> intent state machine": a job enqueued by the
\* watcher or the tracker is run by the loop the composition root starts.
EnqueuedJobsRun == \A j \in Jobs : status[j] # "ABSENT" ~> status[j] \in Terminal \/ LoopDied
=============================================================================
