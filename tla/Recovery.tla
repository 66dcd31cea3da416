------------------------------ MODULE Recovery ------------------------------
(***************************************************************************)
(* Recovery cases and their resolutions                                    *)
(* (packages/recovery/src/recovery.service.ts, recovery.repository.ts).    *)
(*                                                                         *)
(* A case is detected, and resolved by an operator with some action or by  *)
(* processStuckTransactions, which is made for a cron job although nothing *)
(* in the repository calls it.  Both go through resolve, split at its      *)
(* awaits: the row is marked RESOLVING, the action is carried out, and its *)
(* result is written.  No update compares what it read before.             *)
(*                                                                         *)
(* Refunds and accelerations, simulated at this commit, are taken to be    *)
(* the transactions that they stand for.                                   *)
(*                                                                         *)
(* Abstracted: addresses, assets and amounts; verifyOwnership, which       *)
(* changes nothing and whose proof nothing asks for.                       *)
(***************************************************************************)
EXTENDS Naturals, FiniteSets

CONSTANTS
  Cases,      \* rows that the detect methods may insert
  CaseType,   \* case_type of each
  Reachable,  \* those whose customer_chain has a chain client
  Operators,  \* callers of resolve
  Crons,      \* callers of processStuckTransactions
  Actions,    \* the resolution actions that operators choose
  MaxCalls,   \* bound: calls of resolve by operators
  MaxFaults,  \* bound: statements that throw, and process deaths
  None

Callers == Operators \cup Crons
AllActions ==
  {"AUTO_REFUND", "AUTO_CREDIT", "TOP_UP_LINK", "RE_QUOTE", "FEE_BUMP", "RELAYER_ACCELERATION"}

ASSUME RecoveryAssumption ==
  /\ CaseType \in [Cases -> {"MISDIRECTED", "UNDERPAID", "OVERPAID", "STUCK"}]
  /\ Reachable \subseteq Cases
  /\ Operators \cap Crons = {}
  /\ Actions \subseteq AllActions
  /\ MaxCalls \in Nat /\ MaxFaults \in Nat
  /\ None \notin Cases \cup AllActions \cup Callers

VARIABLES
  status,              \* column; "ABSENT" while the row does not exist
  resolution_action,   \* column
  resolution_tx_hash,  \* column: who sent the transaction
  resolved_at,         \* column: whether it is set
  old,                 \* the cases older than stuckTransactionTimeoutMs
  pc,                  \* what each caller is doing
  batch,               \* the cases a cron job has yet to resolve, with the current one
  target, action,      \* the arguments of resolve
  success,             \* result.success: result.tx_hash follows from the action
  sent,                \* history: transactions, as <<case, caller, action>>
  credited,            \* history: <<case, caller>> whose action succeeded
  cut,                 \* history: cases that a dying process or an error out of resolve left
  calls, faults        \* count against the bounds

row == <<status, resolution_action, resolution_tx_hash, resolved_at>>
control == <<pc, batch, target, action, success>>
history == <<sent, credited, cut>>
vars == <<row, old, control, history, calls, faults>>

Status == {"ABSENT", "DETECTED", "RESOLVING", "RESOLVED", "FAILED"}

TypeOK ==
  /\ status \in [Cases -> Status]
  /\ resolution_action \in [Cases -> AllActions \cup {None}]
  /\ resolution_tx_hash \in [Cases -> Callers \cup {None}]
  /\ resolved_at \in [Cases -> BOOLEAN]
  /\ old \subseteq Cases
  /\ pc \in [Callers -> {"idle", "start", "execute", "record", "recordFailed"}]
  /\ batch \in [Callers -> SUBSET Cases]
  /\ target \in [Callers -> Cases \cup {None}]
  /\ action \in [Callers -> AllActions \cup {None}]
  /\ success \in [Callers -> BOOLEAN]
  /\ \A o \in Callers : pc[o] # "idle" => target[o] \in Cases /\ action[o] \in AllActions
  /\ sent \subseteq Cases \X Callers \X AllActions
  /\ credited \subseteq Cases \X Callers
  /\ cut \subseteq Cases
  /\ calls \in Nat /\ faults \in Nat

Init ==
  /\ status = [c \in Cases |-> "ABSENT"]
  /\ resolution_action = [c \in Cases |-> None]
  /\ resolution_tx_hash = [c \in Cases |-> None]
  /\ resolved_at = [c \in Cases |-> FALSE]
  /\ old = {}
  /\ pc = [o \in Callers |-> "idle"]
  /\ batch = [o \in Callers |-> {}]
  /\ target = [o \in Callers |-> None]
  /\ action = [o \in Callers |-> None]
  /\ success = [o \in Callers |-> FALSE]
  /\ sent = {} /\ credited = {} /\ cut = {}
  /\ calls = 0 /\ faults = 0

Fault == faults < MaxFaults /\ faults' = faults + 1

-----------------------------------------------------------------------------
(* Detection. *)

\* RecoveryRepository.update, which compares nothing: each of its callers sets the status.
update(c, newStatus) == status' = [status EXCEPT ![c] = newStatus]

\* RecoveryRepository.create; the columns of a resolution are null, as in Init.
create(c) == status' = [status EXCEPT ![c] = "DETECTED"]

\* detectMisdirected, detectUnderpayment, detectOverpayment and detectStuck differ in the
\* case_type that they insert.
detect(c) ==
  /\ status[c] = "ABSENT"
  /\ create(c)
  /\ UNCHANGED <<resolution_action, resolution_tx_hash, resolved_at, old, control, history, calls, faults>>

GrowOld(c) ==
  /\ status[c] # "ABSENT" /\ c \notin old
  /\ old' = old \cup {c}
  /\ UNCHANGED <<row, control, history, calls, faults>>

\* (Or VERIFYING, a status that nothing sets.)
findStuckTransactions == {c \in old : CaseType[c] = "STUCK" /\ status[c] = "DETECTED"}

-----------------------------------------------------------------------------
(* resolve. *)

\* Calls resolve for a case of the batch, or returns.
Continue(o, cases) ==
  \/ /\ cases = {}
     /\ pc' = [pc EXCEPT ![o] = "idle"]
     /\ batch' = [batch EXCEPT ![o] = {}]
     /\ target' = [target EXCEPT ![o] = None]
     /\ action' = [action EXCEPT ![o] = None]
  \/ \E c \in cases :
       /\ pc' = [pc EXCEPT ![o] = "start"]
       /\ batch' = [batch EXCEPT ![o] = cases]
       /\ target' = [target EXCEPT ![o] = c]
       /\ action' = [action EXCEPT ![o] = "RELAYER_ACCELERATION"]

Return(o) == Continue(o, batch[o] \ {target[o]}) /\ success' = [success EXCEPT ![o] = FALSE]

Goto(o, phase) == pc' = [pc EXCEPT ![o] = phase] /\ UNCHANGED <<batch, target, action>>

processStuckTransactions(o) ==
  /\ pc[o] = "idle"
  /\ findStuckTransactions # {}
  /\ Continue(o, findStuckTransactions)
  /\ UNCHANGED <<row, old, success, history, calls, faults>>

\* The row that is read decides nothing but whether it exists.
resolve(o, c, a) ==
  /\ pc[o] = "idle"
  /\ calls < MaxCalls
  /\ calls' = calls + 1
  /\ status[c] # "ABSENT"
  /\ pc' = [pc EXCEPT ![o] = "start"]
  /\ target' = [target EXCEPT ![o] = c]
  /\ action' = [action EXCEPT ![o] = a]
  /\ UNCHANGED <<row, old, batch, success, history, faults>>

\* Actions that end in a transaction.
Sends(a) == a \in {"AUTO_REFUND", "RELAYER_ACCELERATION"}

\* Mutant: the row keeps its status until there is a result.
SetResolving_Late(o) ==
  /\ pc[o] = "start"
  /\ resolution_action' = [resolution_action EXCEPT ![target[o]] = action[o]]
  /\ Goto(o, "execute")
  /\ UNCHANGED <<status, resolution_tx_hash, resolved_at, old, success, history, calls, faults>>

\* The three updates of resolve.
WriteResolving(o) ==
  /\ update(target[o], "RESOLVING")
  /\ resolution_action' = [resolution_action EXCEPT ![target[o]] = action[o]]
  /\ UNCHANGED <<resolution_tx_hash, resolved_at>>

\* The hash of an earlier resolution is overwritten, with null if this one sent nothing.
WriteResult(o) ==
  /\ update(target[o], IF success[o] THEN "RESOLVED" ELSE "FAILED")
  /\ resolution_tx_hash' =
       [resolution_tx_hash EXCEPT ![target[o]] = IF success[o] /\ Sends(action[o]) THEN o ELSE None]
  /\ resolved_at' = [resolved_at EXCEPT ![target[o]] = success[o]]
  /\ UNCHANGED resolution_action

\* The catch leaves resolved_at and resolution_tx_hash as they are.
WriteFailed(o) ==
  /\ update(target[o], "FAILED")
  /\ UNCHANGED <<resolution_action, resolution_tx_hash, resolved_at>>

SetResolving(o) ==
  /\ pc[o] = "start"
  /\ WriteResolving(o)
  /\ Goto(o, "execute")
  /\ UNCHANGED <<old, success, history, calls, faults>>

\* "For now, return null to indicate intent not available".
getRelatedIntent(c) == FALSE

\* Whether there is a link, for an underpayment of a known intent.
generateTopUpLink(c) == CaseType[c] = "UNDERPAID" /\ getRelatedIntent(c)

\* A refund or an acceleration needs the client of the chain; crediting, quoting again and
\* bumping the fee only return.
Succeeds(c, a) ==
  CASE a \in {"AUTO_REFUND", "RELAYER_ACCELERATION"} -> c \in Reachable
    [] a = "TOP_UP_LINK" -> generateTopUpLink(c)
    [] OTHER -> TRUE

\* Mutant: a missing chain client is no failure.
execute_Lenient(o) ==
  /\ pc[o] = "execute"
  /\ success' = [success EXCEPT ![o] = TRUE]
  /\ IF Succeeds(target[o], action[o])
     THEN /\ credited' = credited \cup {<<target[o], o>>}
          /\ sent' = IF Sends(action[o]) THEN sent \cup {<<target[o], o, action[o]>>} ELSE sent
     ELSE UNCHANGED <<credited, sent>>
  /\ Goto(o, "record")
  /\ UNCHANGED <<row, old, cut, calls, faults>>

execute(o) ==
  /\ pc[o] = "execute"
  /\ success' = [success EXCEPT ![o] = Succeeds(target[o], action[o])]
  /\ IF Succeeds(target[o], action[o])
     THEN /\ credited' = credited \cup {<<target[o], o>>}
          /\ sent' = IF Sends(action[o]) THEN sent \cup {<<target[o], o, action[o]>>} ELSE sent
     ELSE UNCHANGED <<credited, sent>>
  /\ Goto(o, "record")
  /\ UNCHANGED <<row, old, cut, calls, faults>>

\* Mutant: a result without success leaves the row alone.
RecordResult_OnlySuccess(o) ==
  /\ pc[o] = "record"
  /\ IF success[o]
     THEN /\ status' = [status EXCEPT ![target[o]] = "RESOLVED"]
          /\ resolved_at' = [resolved_at EXCEPT ![target[o]] = TRUE]
     ELSE UNCHANGED <<status, resolved_at>>
  /\ Return(o)
  /\ UNCHANGED <<resolution_action, resolution_tx_hash, old, history, calls, faults>>

RecordResult(o) ==
  /\ pc[o] = "record"
  /\ WriteResult(o)
  /\ Return(o)
  /\ UNCHANGED <<old, history, calls, faults>>

RecordFailed(o) ==
  /\ pc[o] = "recordFailed"
  /\ WriteFailed(o)
  /\ Return(o)
  /\ UNCHANGED <<old, history, calls, faults>>

\* A statement throws, whether or not it has committed: the one that records the result into
\* the catch, the others out of resolve, where a cron job goes on with its next case.
StatementThrows(o) ==
  /\ Fault
  /\ \/ /\ pc[o] = "record"
        /\ WriteResult(o) \/ UNCHANGED row
        /\ Goto(o, "recordFailed") /\ UNCHANGED <<success, cut>>
     \/ /\ pc[o] = "start"
        /\ \/ WriteResolving(o) /\ cut' = cut \cup {target[o]}
           \/ UNCHANGED <<row, cut>>
        /\ Return(o)
     \/ /\ pc[o] = "recordFailed"
        /\ WriteFailed(o) \/ UNCHANGED row
        /\ Return(o) /\ cut' = cut \cup {target[o]}
  /\ UNCHANGED <<old, sent, credited, calls>>

\* The process dies with what its callers were doing; nothing takes up a RESOLVING case.
Crash ==
  /\ Fault
  /\ \E o \in Callers : pc[o] # "idle"
  /\ cut' = cut \cup {c \in Cases : \E o \in Callers : target[o] = c /\ pc[o] # "start"}
  /\ pc' = [o \in Callers |-> "idle"]
  /\ batch' = [o \in Callers |-> {}]
  /\ target' = [o \in Callers |-> None]
  /\ action' = [o \in Callers |-> None]
  /\ success' = [o \in Callers |-> FALSE]
  /\ UNCHANGED <<row, old, sent, credited, calls>>

-----------------------------------------------------------------------------
CallerStep(o) == SetResolving(o) \/ execute(o) \/ RecordResult(o) \/ RecordFailed(o)

Next ==
  \/ \E c \in Cases : detect(c) \/ GrowOld(c)
  \/ \E o \in Crons : processStuckTransactions(o)
  \/ \E o \in Operators, c \in Cases, a \in Actions : resolve(o, c, a)
  \/ \E o \in Callers : CallerStep(o) \/ StatementThrows(o)
  \/ Crash

\* The statements of a call return.  Nothing calls processStuckTransactions, so nothing is
\* assumed of it.
Fairness == \A o \in Callers : WF_vars(CallerStep(o))

Spec == Init /\ [][Next]_vars
FairSpec == Spec /\ Fairness

-----------------------------------------------------------------------------
(* Properties. *)

\* However resolutions of a case overlap, overwrite each other or fail: a case says RESOLVED
\* only if an action for it succeeded, and the transaction it names was sent for this case.
ResolvedWasExecuted ==
  \A c \in Cases :
    /\ status[c] = "RESOLVED" \/ resolved_at[c] => \E o \in Callers : <<c, o>> \in credited
    /\ resolution_tx_hash[c] # None =>
         \E a \in AllActions : <<c, resolution_tx_hash[c], a>> \in sent

(***************************************************************************)
(* processStuckTransactions sends again only in a step of its own that     *)
(* began while the case was still DETECTED: once a cron job accelerated a  *)
(* case it never does so again, through crashes and failing statements,    *)
(* because RESOLVING is written before anything is sent.                   *)
(***************************************************************************)
AcceleratedOnce ==
  [][\A c \in Cases, o \in Crons :
       <<c, o>> \in credited => ~ (pc[o] = "execute" /\ pc'[o] = "record" /\ target[o] = c)]_vars

\* A resolution that began comes to its end: a case that is RESOLVING becomes RESOLVED or
\* FAILED, whichever of the overlapping calls writes last, unless a process died over it or
\* the statement of a call failed that nothing catches.
EveryCaseEnds ==
  \A c \in Cases : status[c] = "RESOLVING" ~> status[c] \in {"RESOLVED", "FAILED"} \/ c \in cut

=============================================================================
