------------------------------ MODULE MCWorker ------------------------------
(***************************************************************************)
(* An instance of the worker for TLC: JobQueue with two jobs and two       *)
(* workers on one table, and Worker with two addresses of an EVM chain and *)
(* one of Tron, two refreshes that may overtake each other, and few enough *)
(* changes of the awaited addresses that every order of them fits.  The    *)
(* two share no variable, so that their interleavings show nothing: a      *)
(* behaviour takes the steps of one of them.                               *)
(***************************************************************************)
EXTENDS JobQueue, Worker, TLC

CONSTANTS j1, j2, w1, w2, e1, e2, t1, r1, r2

VARIABLE subject

OneQueue == (j1 :> "default") @@ (j2 :> "default")

IsQueue == subject = "queue"
IsProcess == subject = "process"

WorkerInit ==
  /\ subject \in {"queue", "process"}
  /\ Init /\ ProcessInit
  /\ IsQueue => awaiting = {}

WorkerNext ==
  /\ UNCHANGED subject
  /\ \/ IsQueue /\ Next /\ UNCHANGED processVars
     \/ IsProcess /\ ProcessNext /\ UNCHANGED vars

\* Fairness and ProcessFairness, each in the behaviours that are about it.
WorkerFairSpec ==
  /\ WorkerInit /\ [][WorkerNext]_<<subject, vars, processVars>>
  /\ \A w \in Workers : WF_vars(IsQueue /\ LoopStep(w)) /\ WF_vars(IsQueue /\ Start(w))
  /\ \A j \in Jobs : WF_vars(IsQueue /\ BecomeDue(j)) /\ WF_vars(IsQueue /\ Expire(j))
  /\ \A r \in Refreshes :
       /\ WF_processVars(IsProcess /\ Running /\ (Listen(r) \/ Started(r)))
       /\ WF_processVars(IsProcess /\ Running /\ RefreshTick(r))
       /\ WF_processVars(IsProcess /\ Running /\ refresh(r))
  /\ WF_processVars(IsProcess /\ Running /\ startPolling)
=============================================================================
