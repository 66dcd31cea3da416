---------------------------- MODULE JobLifecycle ----------------------------
(***************************************************************************)
(* What ADR-002 promises of a job, without workers, locks or clocks: the   *)
(* lifecycle PENDING -> RUNNING -> SUCCEEDED | DEAD_LETTERED with retries, *)
(* an attempt counter that counts the runs, and ends that are final.       *)
(* JobQueue with one worker implements it.                                 *)
(***************************************************************************)
EXTENDS Naturals

CONSTANTS Jobs, MaxAttempts, Handled

VARIABLES status, attempts

lvars == <<status, attempts>>

Init ==
  /\ status = [j \in Jobs |-> "ABSENT"]
  /\ attempts = [j \in Jobs |-> 0]

Add(j) ==
  /\ status[j] = "ABSENT"
  /\ status' = [status EXCEPT ![j] = "PENDING"]
  /\ UNCHANGED attempts

\* Any set of waiting jobs starts at once; each start is an attempt.
Begin(S) ==
  /\ \A j \in S : status[j] = "PENDING"
  /\ status' = [j \in Jobs |-> IF j \in S THEN "RUNNING" ELSE status[j]]
  /\ attempts' = [j \in Jobs |-> IF j \in S THEN attempts[j] + 1 ELSE attempts[j]]

Succeed(j) ==
  /\ status[j] = "RUNNING"
  /\ status' = [status EXCEPT ![j] = "SUCCEEDED"]
  /\ UNCHANGED attempts

\* An attempt fails while attempts are left, or its worker is gone: again.
Again(S) ==
  /\ \A j \in S : status[j] = "RUNNING"
  /\ status' = [j \in Jobs |-> IF j \in S THEN "PENDING" ELSE status[j]]
  /\ UNCHANGED attempts

Bury(j) ==
  /\ status[j] = "RUNNING"
  /\ attempts[j] >= MaxAttempts \/ j \notin Handled
  /\ status' = [status EXCEPT ![j] = "DEAD_LETTERED"]
  /\ UNCHANGED attempts

Next ==
  \/ \E j \in Jobs : Add(j) \/ Succeed(j) \/ Bury(j)
  \/ \E S \in SUBSET Jobs : Begin(S) \/ Again(S)

Spec == Init /\ [][Next]_lvars
=============================================================================
