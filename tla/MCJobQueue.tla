----------------------------- MODULE MCJobQueue -----------------------------
(***************************************************************************)
(* An instance of JobQueue for TLC as the composition root wires it up.    *)
(***************************************************************************)
EXTENDS JobQueue, TLC

CONSTANTS j1, j2, w1

\* deposit-watcher.ts and confirmation-tracker.ts enqueue to 'deposits'.
DepositsQueue == (j1 :> "deposits") @@ (j2 :> "deposits")
=============================================================================
