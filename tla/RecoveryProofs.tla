--------------------------- MODULE RecoveryProofs ---------------------------
(***************************************************************************)
(* Proofs about Recovery: what a RESOLVED row says was done, and no job    *)
(* accelerates a case twice, for any cases, any number of operators and    *)
(* jobs, and any number of calls, failing statements and process deaths.   *)
(***************************************************************************)
EXTENDS Recovery, TLAPS

\* A caller that is about to record a success has carried the action out.
SuccessIsBooked ==
  \A o \in Callers :
    pc[o] = "record" /\ success[o] =>
      /\ <<target[o], o>> \in credited
      /\ Sends(action[o]) => <<target[o], o, action[o]>> \in sent

IInv == TypeOK /\ SuccessIsBooked /\ ResolvedWasExecuted

-----------------------------------------------------------------------------

\* What the locals of a caller are after it returned from resolve.
LEMMA AfterContinue ==
  ASSUME TypeOK, NEW o \in Callers, NEW cases, cases \subseteq Cases, Continue(o, cases)
  PROVE  /\ pc' \in [Callers -> {"idle", "start", "execute", "record", "recordFailed"}]
         /\ batch' \in [Callers -> SUBSET Cases]
         /\ target' \in [Callers -> Cases \cup {None}]
         /\ action' \in [Callers -> AllActions \cup {None}]
         /\ \A q \in Callers : pc'[q] # "idle" => target'[q] \in Cases /\ action'[q] \in AllActions
         /\ pc'[o] \in {"idle", "start"} /\ batch'[o] = cases
         /\ pc'[o] = "idle" => cases = {}
         /\ pc'[o] = "start" => target'[o] \in cases
         /\ \A q \in Callers \ {o} :
              /\ pc'[q] = pc[q] /\ batch'[q] = batch[q]
              /\ target'[q] = target[q] /\ action'[q] = action[q]
<1>1. CASE cases = {} /\ pc' = [pc EXCEPT ![o] = "idle"] /\ batch' = [batch EXCEPT ![o] = {}]
           /\ target' = [target EXCEPT ![o] = None] /\ action' = [action EXCEPT ![o] = None]
  BY <1>1 DEF TypeOK
<1>2. ASSUME NEW c \in cases,
             pc' = [pc EXCEPT ![o] = "start"], batch' = [batch EXCEPT ![o] = cases],
             target' = [target EXCEPT ![o] = c],
             action' = [action EXCEPT ![o] = "RELAYER_ACCELERATION"]
      PROVE  /\ pc' \in [Callers -> {"idle", "start", "execute", "record", "recordFailed"}]
             /\ batch' \in [Callers -> SUBSET Cases]
             /\ target' \in [Callers -> Cases \cup {None}]
             /\ action' \in [Callers -> AllActions \cup {None}]
             /\ \A q \in Callers :
                  pc'[q] # "idle" => target'[q] \in Cases /\ action'[q] \in AllActions
             /\ pc'[o] = "start" /\ batch'[o] = cases /\ target'[o] = c
             /\ \A q \in Callers \ {o} :
                  /\ pc'[q] = pc[q] /\ batch'[q] = batch[q]
                  /\ target'[q] = target[q] /\ action'[q] = action[q]
  BY <1>2 DEF TypeOK, AllActions
<1> QED BY <1>1, <1>2 DEF Continue

Writes(o) == WriteResolving(o) \/ WriteResult(o) \/ WriteFailed(o) \/ UNCHANGED row

\* Each update of resolve writes one row.
LEMMA WrittenTypes ==
  ASSUME TypeOK, NEW o \in Callers, pc[o] # "idle", Writes(o)
  PROVE  /\ status' \in [Cases -> Status]
         /\ resolution_action' \in [Cases -> AllActions \cup {None}]
         /\ resolution_tx_hash' \in [Cases -> Callers \cup {None}]
         /\ resolved_at' \in [Cases -> BOOLEAN]
<1>0. target[o] \in Cases /\ action[o] \in AllActions
  BY DEF TypeOK
<1> QED
  BY <1>0 DEF Writes, WriteResolving, WriteResult, WriteFailed, update, TypeOK, Status, row

\* Types.
LEMMA TypeStep == ASSUME TypeOK, [Next]_vars PROVE TypeOK'
<1>1. ASSUME NEW c \in Cases, detect(c) \/ GrowOld(c) PROVE TypeOK'
  BY <1>1 DEF detect, create, GrowOld, TypeOK, Status, row, control, history
<1>2. ASSUME NEW o \in Crons, processStuckTransactions(o) PROVE TypeOK'
  <2>1. o \in Callers /\ findStuckTransactions \subseteq Cases
    BY DEF Callers, findStuckTransactions, TypeOK
  <2>2. Continue(o, findStuckTransactions)
        /\ UNCHANGED <<row, old, success, history, calls, faults>>
    BY <1>2 DEF processStuckTransactions
  <2> QED BY <2>1, <2>2, AfterContinue DEF TypeOK, row, history
<1>3. ASSUME NEW o \in Operators, NEW c \in Cases, NEW a \in Actions, resolve(o, c, a)
      PROVE  TypeOK'
  BY <1>3, RecoveryAssumption DEF resolve, TypeOK, Callers, row, history
<1>4. ASSUME NEW o \in Callers, SetResolving(o) PROVE TypeOK'
  <2>1. pc[o] # "idle" /\ Writes(o)
    BY <1>4 DEF SetResolving, Writes
  <2> QED BY <1>4, <2>1, WrittenTypes DEF SetResolving, Goto, TypeOK, history
<1>5. ASSUME NEW o \in Callers, execute(o) PROVE TypeOK'
  <2>1. target[o] \in Cases /\ action[o] \in AllActions
    BY <1>5 DEF execute, TypeOK
  <2>2. Succeeds(target[o], action[o]) \in BOOLEAN
    <3>1. CASE action[o] \in {"AUTO_REFUND", "RELAYER_ACCELERATION"}
      <4>1. Succeeds(target[o], action[o]) = (target[o] \in Reachable)
        BY <3>1, Zenon DEF Succeeds
      <4>2. (target[o] \in Reachable) = TRUE \/ (target[o] \in Reachable) = FALSE
        OBVIOUS
      <4> QED BY <4>1, <4>2
    <3>2. CASE action[o] = "TOP_UP_LINK"
      BY <3>2 DEF Succeeds, generateTopUpLink
    <3>3. CASE action[o] \notin {"AUTO_REFUND", "RELAYER_ACCELERATION", "TOP_UP_LINK"}
      BY <3>3 DEF Succeeds
    <3> QED BY <3>1, <3>2, <3>3
  <2> QED BY <1>5, <2>1, <2>2 DEF execute, Goto, TypeOK, row
<1>6. ASSUME NEW o \in Callers, Return(o)
      PROVE  /\ pc' \in [Callers -> {"idle", "start", "execute", "record", "recordFailed"}]
             /\ batch' \in [Callers -> SUBSET Cases]
             /\ target' \in [Callers -> Cases \cup {None}]
             /\ action' \in [Callers -> AllActions \cup {None}]
             /\ success' \in [Callers -> BOOLEAN]
             /\ \A q \in Callers :
                  pc'[q] # "idle" => target'[q] \in Cases /\ action'[q] \in AllActions
  <2>1. batch[o] \ {target[o]} \subseteq Cases
    BY DEF TypeOK
  <2> QED BY <1>6, <2>1, AfterContinue DEF Return, TypeOK
<1>7. ASSUME NEW o \in Callers, RecordResult(o) \/ RecordFailed(o) PROVE TypeOK'
  <2>1. pc[o] # "idle" /\ Writes(o) /\ Return(o) /\ UNCHANGED <<old, history, calls, faults>>
    BY <1>7 DEF RecordResult, RecordFailed, Writes
  <2> QED BY <1>6, <2>1, WrittenTypes DEF TypeOK, history
<1>8. ASSUME NEW o \in Callers, StatementThrows(o) PROVE TypeOK'
  <2>1. /\ pc[o] # "idle" /\ Writes(o) /\ faults' \in Nat
        /\ UNCHANGED <<old, sent, credited, calls>>
    BY <1>8 DEF StatementThrows, Fault, Writes, TypeOK
  <2>2. cut' \subseteq Cases
    BY <1>8, <2>1 DEF StatementThrows, TypeOK
  <2>3. CASE Goto(o, "recordFailed") /\ UNCHANGED success /\ pc[o] = "record"
    BY <2>1, <2>2, <2>3, WrittenTypes DEF Goto, TypeOK
  <2>4. CASE Return(o)
    BY <1>6, <2>1, <2>2, <2>4, WrittenTypes DEF TypeOK
  <2> QED BY <1>8, <2>3, <2>4 DEF StatementThrows
<1>9. CASE Crash
  BY <1>9 DEF Crash, Fault, TypeOK, row
<1>10. CASE UNCHANGED vars
  BY <1>10 DEF vars, row, control, history, TypeOK
<1> QED
  BY <1>1, <1>2, <1>3, <1>4, <1>5, <1>7, <1>8, <1>9, <1>10 DEF Next, CallerStep

-----------------------------------------------------------------------------

\* The locals of callers that are elsewhere, or that go on to anything but "record", keep
\* what is said of them, since the histories grow.
LEMMA BookedStays ==
  ASSUME SuccessIsBooked, NEW o \in Callers, pc'[o] # "record" \/ ~ success'[o],
         credited \subseteq credited', sent \subseteq sent',
         \A q \in Callers \ {o} :
           /\ pc'[q] = pc[q] /\ target'[q] = target[q] /\ action'[q] = action[q]
           /\ success'[q] = success[q]
  PROVE  SuccessIsBooked'
  BY DEF SuccessIsBooked

\* A row that is not written keeps what it says, since the histories grow.
LEMMA RowStays ==
  ASSUME TypeOK, ResolvedWasExecuted, NEW c \in Cases,
         credited \subseteq credited', sent \subseteq sent',
         status'[c] = "RESOLVED" => status[c] = "RESOLVED",
         resolved_at'[c] = resolved_at[c],
         resolution_tx_hash'[c] = resolution_tx_hash[c]
  PROVE  /\ status'[c] = "RESOLVED" \/ resolved_at'[c] => \E o \in Callers : <<c, o>> \in credited'
         /\ resolution_tx_hash'[c] # None =>
              \E a \in AllActions : <<c, resolution_tx_hash'[c], a>> \in sent'
  BY DEF ResolvedWasExecuted

\* What an update of resolve writes is true of its row.
LEMMA FailedIsTrue ==
  ASSUME IInv, NEW o \in Callers, pc[o] # "idle",
         WriteResolving(o) \/ WriteFailed(o) \/ UNCHANGED row, UNCHANGED <<credited, sent>>
  PROVE  ResolvedWasExecuted'
<1>a. TypeOK /\ ResolvedWasExecuted /\ target[o] \in Cases
  BY DEF IInv, TypeOK
<1>1. \A d \in Cases :
          /\ status'[d] = "RESOLVED" => status[d] = "RESOLVED"
          /\ resolved_at'[d] = resolved_at[d] /\ resolution_tx_hash'[d] = resolution_tx_hash[d]
  BY <1>a DEF WriteResolving, WriteFailed, update, TypeOK, row
<1> QED BY <1>a, <1>1, RowStays DEF ResolvedWasExecuted

\* A result is written by the call that carried the action out.
LEMMA WrittenIsTrue ==
  ASSUME IInv, NEW o \in Callers, pc[o] = "record", Writes(o), UNCHANGED <<credited, sent>>
  PROVE  ResolvedWasExecuted'
<1>a. TypeOK /\ SuccessIsBooked /\ ResolvedWasExecuted /\ target[o] \in Cases
      /\ action[o] \in AllActions
  BY DEF IInv, TypeOK
<1>1. CASE WriteResolving(o) \/ WriteFailed(o) \/ UNCHANGED row
  BY <1>1, FailedIsTrue
<1>2. CASE WriteResult(o)
  <2>2. /\ status'[target[o]] = IF success[o] THEN "RESOLVED" ELSE "FAILED"
        /\ resolved_at'[target[o]] = success[o]
        /\ resolution_tx_hash'[target[o]] = IF success[o] /\ Sends(action[o]) THEN o ELSE None
        /\ \A d \in Cases \ {target[o]} :
             /\ status'[d] = status[d] /\ resolved_at'[d] = resolved_at[d]
             /\ resolution_tx_hash'[d] = resolution_tx_hash[d]
    BY <1>2, <1>a DEF WriteResult, update, TypeOK
  <2>3. success[o] =>
          /\ <<target[o], o>> \in credited'
          /\ Sends(action[o]) => <<target[o], o, action[o]>> \in sent'
    BY <1>a, <1>2 DEF SuccessIsBooked
  <2>4. /\ status'[target[o]] = "RESOLVED" \/ resolved_at'[target[o]] =>
             \E q \in Callers : <<target[o], q>> \in credited'
        /\ resolution_tx_hash'[target[o]] # None =>
             \E b \in AllActions : <<target[o], resolution_tx_hash'[target[o]], b>> \in sent'
    BY <1>a, <2>2, <2>3
  <2> QED BY <1>a, <2>2, <2>4, RowStays DEF ResolvedWasExecuted
<1> QED BY <1>1, <1>2 DEF Writes

\* One step per action: only execute adds to the histories, and only RecordResult writes
\* RESOLVED, a time or a hash.
LEMMA ExecutedStep == ASSUME IInv, [Next]_vars PROVE SuccessIsBooked' /\ ResolvedWasExecuted'
<1>a. TypeOK /\ SuccessIsBooked /\ ResolvedWasExecuted
  BY DEF IInv
<1>1. ASSUME NEW c \in Cases, detect(c) \/ GrowOld(c)
      PROVE  SuccessIsBooked' /\ ResolvedWasExecuted'
  <2>1. UNCHANGED <<control, sent, credited>>
    BY <1>1 DEF detect, GrowOld, history
  <2>2. \A d \in Cases :
          /\ status'[d] = "RESOLVED" => status[d] = "RESOLVED"
          /\ resolved_at'[d] = resolved_at[d] /\ resolution_tx_hash'[d] = resolution_tx_hash[d]
    BY <1>1, <1>a DEF detect, create, GrowOld, row, TypeOK
  <2> QED BY <1>a, <2>1, <2>2, RowStays DEF control, SuccessIsBooked, ResolvedWasExecuted
<1>2. ASSUME NEW o \in Crons, processStuckTransactions(o)
      PROVE  SuccessIsBooked' /\ ResolvedWasExecuted'
  <2>1. o \in Callers /\ findStuckTransactions \subseteq Cases
    BY <1>a DEF Callers, findStuckTransactions, TypeOK
  <2>2. Continue(o, findStuckTransactions) /\ UNCHANGED <<row, success, history>>
    BY <1>2 DEF processStuckTransactions
  <2>3. SuccessIsBooked'
    BY <1>a, <2>1, <2>2, AfterContinue, BookedStays DEF history
  <2> QED BY <1>a, <2>2, <2>3 DEF row, history, ResolvedWasExecuted
<1>3. ASSUME NEW o \in Operators, NEW c \in Cases, NEW a \in Actions, resolve(o, c, a)
      PROVE  SuccessIsBooked' /\ ResolvedWasExecuted'
  BY <1>3, <1>a, BookedStays DEF resolve, TypeOK, Callers, row, history, ResolvedWasExecuted
<1>4. ASSUME NEW o \in Callers, SetResolving(o) PROVE SuccessIsBooked' /\ ResolvedWasExecuted'
  <2>1. SuccessIsBooked'
    BY <1>4, <1>a, BookedStays DEF SetResolving, Goto, TypeOK, history
  <2>2. pc[o] # "idle" /\ WriteResolving(o) /\ UNCHANGED history
    BY <1>4 DEF SetResolving
  <2> QED BY <2>1, <2>2, FailedIsTrue DEF history
<1>5. ASSUME NEW o \in Callers, execute(o) PROVE SuccessIsBooked' /\ ResolvedWasExecuted'
  <2>1. /\ credited \subseteq credited' /\ sent \subseteq sent' /\ UNCHANGED row
        /\ UNCHANGED <<target, action>>
        /\ \A q \in Callers \ {o} : pc'[q] = pc[q] /\ success'[q] = success[q]
    BY <1>5, <1>a DEF execute, Goto, TypeOK
  <2>2. success'[o] =>
          /\ <<target[o], o>> \in credited'
          /\ Sends(action[o]) => <<target[o], o, action[o]>> \in sent'
    BY <1>5, <1>a DEF execute, TypeOK
  <2>3. SuccessIsBooked'
    BY <1>a, <2>1, <2>2 DEF SuccessIsBooked
  <2> QED BY <1>a, <2>1, <2>3 DEF row, ResolvedWasExecuted
<1>6. ASSUME NEW o \in Callers, Return(o), UNCHANGED <<credited, sent>> PROVE SuccessIsBooked'
  <2>1. batch[o] \ {target[o]} \subseteq Cases
    BY <1>a DEF TypeOK
  <2>2. pc'[o] # "record"
        /\ \A q \in Callers \ {o} :
             /\ pc'[q] = pc[q] /\ target'[q] = target[q] /\ action'[q] = action[q]
             /\ success'[q] = success[q]
    BY <1>6, <1>a, <2>1, AfterContinue DEF Return, TypeOK
  <2> QED BY <1>6, <1>a, <2>2, BookedStays
<1>7. ASSUME NEW o \in Callers, RecordResult(o) PROVE SuccessIsBooked' /\ ResolvedWasExecuted'
  <2>1. pc[o] = "record" /\ Writes(o) /\ Return(o) /\ UNCHANGED history
    BY <1>7 DEF RecordResult, Writes
  <2> QED BY <1>6, <2>1, WrittenIsTrue DEF history
<1>8. ASSUME NEW o \in Callers, RecordFailed(o) PROVE SuccessIsBooked' /\ ResolvedWasExecuted'
  <2>1. pc[o] = "recordFailed" /\ WriteFailed(o) /\ Return(o) /\ UNCHANGED history
    BY <1>8 DEF RecordFailed
  <2> QED BY <1>6, <2>1, FailedIsTrue DEF history
<1>9. ASSUME NEW o \in Callers, StatementThrows(o)
      PROVE  SuccessIsBooked' /\ ResolvedWasExecuted'
  <2>1. UNCHANGED <<sent, credited>>
    BY <1>9 DEF StatementThrows
  <2>2. ASSUME pc[o] = "record", WriteResult(o) \/ UNCHANGED row PROVE ResolvedWasExecuted'
    BY <2>1, <2>2, WrittenIsTrue DEF Writes
  <2>3. ASSUME pc[o] # "idle", WriteResolving(o) \/ WriteFailed(o) \/ UNCHANGED row
        PROVE  ResolvedWasExecuted'
    BY <2>1, <2>3, FailedIsTrue
  <2>4. ResolvedWasExecuted'
    BY <1>9, <2>2, <2>3 DEF StatementThrows
  <2>5. CASE pc[o] = "record" /\ Goto(o, "recordFailed") /\ UNCHANGED success
    <3>1. /\ pc'[o] # "record" /\ UNCHANGED <<target, action, success>>
          /\ \A q \in Callers \ {o} : pc'[q] = pc[q]
      BY <1>a, <2>5 DEF Goto, TypeOK
    <3>2. credited \subseteq credited' /\ sent \subseteq sent'
      BY <2>1
    <3>3. SuccessIsBooked'
      BY <1>a, <3>1, <3>2, BookedStays
    <3> QED BY <2>4, <3>3
  <2>6. CASE Return(o)
    <3>1. UNCHANGED <<credited, sent>>
      BY <2>1
    <3> QED BY <1>6, <2>4, <2>6, <3>1
  <2> QED BY <1>9, <2>5, <2>6 DEF StatementThrows
<1>10. CASE Crash
  BY <1>10, <1>a DEF Crash, row, SuccessIsBooked, ResolvedWasExecuted
<1>11. CASE UNCHANGED vars
  BY <1>11, <1>a DEF vars, row, control, history, SuccessIsBooked, ResolvedWasExecuted
<1> QED
  BY <1>1, <1>2, <1>3, <1>4, <1>5, <1>7, <1>8, <1>9, <1>10, <1>11 DEF Next, CallerStep

LEMMA InitInv == Init => IInv
  BY DEF Init, IInv, TypeOK, Status, SuccessIsBooked, ResolvedWasExecuted, Callers

LEMMA NextInv == IInv /\ [Next]_vars => IInv'
<1> SUFFICES ASSUME IInv, [Next]_vars PROVE IInv'
  OBVIOUS
<1>1. TypeOK'
  BY TypeStep DEF IInv
<1> QED BY <1>1, ExecutedStep DEF IInv

\* However resolutions overlap, overwrite each other, fail or die: a RESOLVED case was acted
\* upon, and the hash in its row is of a transaction that was sent for it
\* (recovery.service.ts:234-300).
THEOREM ResolutionsAreReal == Spec => []ResolvedWasExecuted
<1>1. IInv => ResolvedWasExecuted
  BY DEF IInv
<1> QED BY <1>1, InitInv, NextInv, PTL DEF Spec

-----------------------------------------------------------------------------

\* A case that a resolution has begun with does not look new again.
Begun(c) == status[c] \notin {"ABSENT", "DETECTED"}

\* A job resolves the cases of its batch, which were new when it read them, one after the
\* other; what it accelerated has begun, and is not among those to come.
OnceOK(o) ==
  /\ pc[o] = "idle" => batch[o] = {}
  /\ pc[o] # "idle" => target[o] \in batch[o]
  /\ pc[o] \in {"execute", "record", "recordFailed"} => Begun(target[o])
  /\ \A c \in Cases :
       <<c, o>> \in credited =>
         Begun(c) /\ (c \in batch[o] => c = target[o] /\ pc[o] \in {"record", "recordFailed"})

OnceInv == TypeOK /\ \A o \in Crons : OnceOK(o)

LEMMA CasesStayBegun ==
  ASSUME TypeOK, [Next]_vars, NEW c \in Cases, Begun(c)
  PROVE  Begun(c)'
<1> USE DEF Begun
<1>1. ASSUME NEW d \in Cases, detect(d) \/ GrowOld(d) PROVE Begun(c)'
  BY <1>1 DEF detect, create, GrowOld, row, TypeOK
<1>2. ASSUME NEW o \in Callers, pc[o] # "idle", Writes(o)
      PROVE  Begun(c)'
  <2>1. target[o] \in Cases
    BY <1>2 DEF TypeOK
  <2> QED BY <1>2, <2>1 DEF Writes, WriteResolving, WriteResult, WriteFailed, update, TypeOK, row
<1>3. ASSUME NEW o \in Callers, CallerStep(o) \/ StatementThrows(o) PROVE Begun(c)'
  <2>1. pc[o] # "idle" /\ Writes(o)
    BY <1>3 DEF CallerStep, SetResolving, execute, RecordResult, RecordFailed, StatementThrows, Writes
  <2> QED BY <1>2, <2>1
<1>4. (\E o \in Crons : processStuckTransactions(o))
        \/ (\E o \in Operators, d \in Cases, a \in Actions : resolve(o, d, a))
        \/ Crash \/ UNCHANGED vars
        => status' = status
  BY DEF processStuckTransactions, resolve, Crash, row, vars
<1> QED BY <1>1, <1>3, <1>4 DEF Next

\* A caller that does nothing keeps what is said of it.
LEMMA OthersOnce ==
  ASSUME OnceInv, [Next]_vars, NEW o \in Crons,
         pc'[o] = pc[o], batch'[o] = batch[o], target'[o] = target[o],
         \A c \in Cases : <<c, o>> \in credited' => <<c, o>> \in credited
  PROVE  OnceOK(o)'
<1>1. OnceOK(o) /\ TypeOK /\ o \in Callers
  BY DEF OnceInv, Callers
<1>2. pc[o] # "idle" => target[o] \in Cases
  BY <1>1 DEF TypeOK
<1>3. pc'[o] \in {"execute", "record", "recordFailed"} => Begun(target[o])'
  BY <1>1, <1>2, CasesStayBegun DEF OnceOK
<1>4. \A c \in Cases : <<c, o>> \in credited' => Begun(c)'
  BY <1>1, CasesStayBegun DEF OnceOK
<1> QED BY <1>1, <1>3, <1>4 DEF OnceOK

\* One step per action, most of which concern a single caller.
LEMMA OnceStep == ASSUME OnceInv, [Next]_vars PROVE OnceInv'
<1>a. TypeOK /\ TypeOK' /\ Crons \subseteq Callers /\ Operators \subseteq Callers
      /\ Operators \cap Crons = {}
  BY TypeStep, RecoveryAssumption DEF OnceInv, Callers
<1>b. ASSUME NEW q \in Callers,
             \A o \in Callers \ {q} :
               /\ pc'[o] = pc[o] /\ batch'[o] = batch[o] /\ target'[o] = target[o]
               /\ \A c \in Cases : <<c, o>> \in credited' => <<c, o>> \in credited,
             q \in Crons => OnceOK(q)'
      PROVE  OnceInv'
  <2>1. ASSUME NEW o \in Crons \ {q} PROVE OnceOK(o)'
    BY <1>a, <1>b, OthersOnce
  <2> QED BY <1>a, <1>b, <2>1 DEF OnceInv
<1>1. ASSUME UNCHANGED <<pc, batch, target, credited>> PROVE OnceInv'
  <2>1. ASSUME NEW o \in Crons PROVE OnceOK(o)'
    BY <1>1, OthersOnce
  <2> QED BY <1>a, <2>1 DEF OnceInv
<1>2. ASSUME NEW o \in Crons, processStuckTransactions(o) PROVE OnceInv'
  <2>1. /\ findStuckTransactions \subseteq Cases
        /\ \A c \in findStuckTransactions : status[c] = "DETECTED"
    BY <1>a DEF findStuckTransactions, TypeOK
  <2>2. Continue(o, findStuckTransactions) /\ UNCHANGED <<row, history>>
    BY <1>2 DEF processStuckTransactions
  <2>3. /\ pc'[o] \in {"idle", "start"} /\ batch'[o] = findStuckTransactions
        /\ pc'[o] = "idle" => batch'[o] = {}
        /\ pc'[o] = "start" => target'[o] \in batch'[o]
        /\ \A q \in Callers \ {o} :
             pc'[q] = pc[q] /\ batch'[q] = batch[q] /\ target'[q] = target[q]
    BY <1>a, <2>1, <2>2, AfterContinue
  <2>4. \A c \in Cases : <<c, o>> \in credited => Begun(c) /\ c \notin findStuckTransactions
    BY <2>1 DEF OnceInv, OnceOK, Begun
  <2>5. OnceOK(o)'
    BY <2>2, <2>3, <2>4 DEF OnceOK, Begun, row, history
  <2> QED BY <1>a, <1>b, <2>2, <2>3, <2>5 DEF history
<1>3. ASSUME NEW o \in Operators, NEW c \in Cases, NEW a \in Actions, resolve(o, c, a)
      PROVE  OnceInv'
  <2>1. \A q \in Callers \ {o} :
          pc'[q] = pc[q] /\ batch'[q] = batch[q] /\ target'[q] = target[q]
    BY <1>3, <1>a DEF resolve, TypeOK
  <2> QED BY <1>3, <1>a, <1>b, <2>1 DEF resolve, history
<1>4. ASSUME NEW o \in Callers, SetResolving(o) PROVE OnceInv'
  <2>1. /\ pc[o] = "start" /\ pc'[o] = "execute" /\ UNCHANGED <<batch, target, credited>>
        /\ \A q \in Callers \ {o} : pc'[q] = pc[q]
        /\ target[o] \in Cases /\ status'[target[o]] = "RESOLVING"
    BY <1>4, <1>a DEF SetResolving, WriteResolving, Goto, update, TypeOK, history
  <2>2. ASSUME o \in Crons PROVE OnceOK(o)'
    <3>1. OnceOK(o)
      BY <2>2 DEF OnceInv
    <3>2. Begun(target[o])'
      BY <2>1 DEF Begun
    <3>3. \A c \in Cases : <<c, o>> \in credited' => Begun(c)' /\ c \notin batch'[o]
      BY <1>a, <2>1, <3>1, CasesStayBegun DEF OnceOK
    <3> QED BY <2>1, <3>1, <3>2, <3>3 DEF OnceOK
  <2> QED BY <1>b, <2>1, <2>2
<1>5. ASSUME NEW o \in Callers, execute(o) PROVE OnceInv'
  <2>1. /\ pc[o] = "execute" /\ pc'[o] = "record" /\ UNCHANGED <<batch, target, status>>
        /\ \A q \in Callers \ {o} : pc'[q] = pc[q]
        /\ \A c \in Cases, q \in Callers :
             <<c, q>> \in credited' => <<c, q>> \in credited \/ (c = target[o] /\ q = o)
    BY <1>5, <1>a DEF execute, Goto, TypeOK, row
  <2>2. ASSUME o \in Crons PROVE OnceOK(o)'
    <3>1. OnceOK(o)
      BY <2>2 DEF OnceInv
    <3> QED BY <2>1, <3>1 DEF OnceOK, Begun
  <2> QED BY <1>b, <2>1, <2>2
<1>6. ASSUME NEW o \in Callers, Return(o), UNCHANGED credited PROVE OnceInv'
  <2>1. batch[o] \ {target[o]} \subseteq Cases /\ Continue(o, batch[o] \ {target[o]})
    BY <1>6, <1>a DEF TypeOK, Return
  <2>2. /\ pc'[o] \in {"idle", "start"} /\ batch'[o] = batch[o] \ {target[o]}
        /\ pc'[o] = "idle" => batch'[o] = {}
        /\ pc'[o] = "start" => target'[o] \in batch'[o]
        /\ \A q \in Callers \ {o} :
             pc'[q] = pc[q] /\ batch'[q] = batch[q] /\ target'[q] = target[q]
    BY <1>a, <2>1, AfterContinue
  <2>3. ASSUME o \in Crons PROVE OnceOK(o)'
    <3>1. OnceOK(o)
      BY <2>3 DEF OnceInv
    <3>2. \A c \in Cases : <<c, o>> \in credited' => Begun(c)' /\ c \notin batch'[o]
      BY <1>6, <1>a, <2>2, <3>1, CasesStayBegun DEF OnceOK
    <3> QED BY <2>2, <3>2 DEF OnceOK
  <2> QED BY <1>6, <1>b, <2>2, <2>3
<1>7. ASSUME NEW o \in Callers, RecordResult(o) \/ RecordFailed(o) PROVE OnceInv'
  BY <1>6, <1>7 DEF RecordResult, RecordFailed, history
<1>8. ASSUME NEW o \in Callers, StatementThrows(o) PROVE OnceInv'
  <2>1. CASE Return(o)
    BY <1>6, <1>8, <2>1 DEF StatementThrows
  <2>2. CASE pc[o] = "record" /\ Goto(o, "recordFailed")
    <3>1. /\ pc'[o] = "recordFailed" /\ UNCHANGED <<batch, target, credited>>
          /\ target[o] \in Cases
          /\ \A q \in Callers \ {o} : pc'[q] = pc[q]
      BY <1>8, <1>a, <2>2 DEF StatementThrows, Goto, TypeOK
    <3>2. ASSUME o \in Crons PROVE OnceOK(o)'
      <4>1. OnceOK(o)
        BY <3>2 DEF OnceInv
      <4>2. Begun(target[o])' /\ \A c \in Cases : <<c, o>> \in credited => Begun(c)'
        BY <1>a, <2>2, <3>1, <4>1, CasesStayBegun DEF OnceOK
      <4> QED BY <2>2, <3>1, <4>1, <4>2 DEF OnceOK
    <3> QED BY <1>b, <3>1, <3>2
  <2> QED BY <1>8, <2>1, <2>2 DEF StatementThrows
<1>9. CASE Crash
  <2>1. ASSUME NEW o \in Crons PROVE OnceOK(o)'
    <3>1. pc'[o] = "idle" /\ batch'[o] = {} /\ UNCHANGED <<credited, status>>
      BY <1>9, <1>a DEF Crash, row
    <3> QED BY <3>1 DEF OnceInv, OnceOK, Begun
  <2> QED BY <1>a, <2>1 DEF OnceInv
<1>10. ASSUME NEW c \in Cases, detect(c) \/ GrowOld(c) PROVE OnceInv'
  BY <1>1, <1>10 DEF detect, GrowOld, control, history
<1>11. CASE UNCHANGED vars
  BY <1>1, <1>11 DEF vars, control, history
<1> QED
  BY <1>2, <1>3, <1>4, <1>5, <1>7, <1>8, <1>9, <1>10, <1>11 DEF Next, CallerStep

\* Whatever other jobs and operators do with its cases, and however often a job fails, dies
\* and starts again: it sends no second transaction for a case
\* (recovery.service.ts:249, 392-415).
THEOREM NoSecondAcceleration == Spec => AcceleratedOnce
<1>1. Init => OnceInv
  BY DEF Init, OnceInv, OnceOK, TypeOK, Status, Callers
<1>2. ASSUME OnceInv, [Next]_vars
      PROVE  \A c \in Cases, o \in Crons :
               <<c, o>> \in credited =>
                 ~ (pc[o] = "execute" /\ pc'[o] = "record" /\ target[o] = c)
  BY <1>2 DEF OnceInv, OnceOK
<1> QED BY <1>1, <1>2, OnceStep, PTL DEF Spec, AcceleratedOnce
=============================================================================
