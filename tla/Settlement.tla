----------------------------- MODULE Settlement -----------------------------
(***************************************************************************)
(* The payout of a confirmed intent to its merchant, and the ledger        *)
(* (packages/settlement/src/settlement.service.ts, ledger.service.ts and   *)
(* their repositories).                                                    *)
(*                                                                         *)
(* Each call of settleIntent inserts a row of settlements (the call and    *)
(* the row share a name), pays on the chain, waits for the confirmations,  *)
(* completes the row and writes the ledger: one action per await, and each *)
(* may throw into handleSettlementFailure, a statement also after it was   *)
(* committed.                                                              *)
(*                                                                         *)
(* Abstracted: one merchant, chain and asset; amounts in units of 1e-8 and *)
(* fee_percentage in hundredths of a percent, without floating point       *)
(* error; the text of an error, to whether isRetryableError accepts it.    *)
(***************************************************************************)
EXTENDS Sums, FiniteSets

CONSTANTS
  Intents,
  Settlements,     \* rows: one for each call of settleIntent
  target_amount,   \* of each intent
  fee_percentage,  \* of the merchant, in 1/100 percent
  Reverting,       \* the payouts that fail on the chain, although they are mined
  OtherEntries,    \* ledger entries that other callers wrote: deposits, refunds, FX
  MaxFaults,       \* bound: calls that throw and process deaths
  None

ASSUME SettlementAssumption ==
  /\ target_amount \in [Intents -> Nat]
  /\ fee_percentage \in 0 .. 10000
  /\ None \notin Intents /\ Reverting \subseteq Settlements
  /\ MaxFaults \in Nat

VARIABLES
  intent_id,     \* column; None while the row does not exist
  status,        \* column
  tx_hash,       \* column: whether it is set
  completed_at,  \* column: whether it is set
  pc,            \* where each call of settleIntent is
  payout,        \* its transaction on the chain
  ledger,        \* ledger_entries: append-only
  broken,        \* history: calls that died, or that threw outside the try of settleIntent
  disowned,      \* history: calls whose SETTLEMENT entry was committed and reported as an error
  faults         \* counts against MaxFaults

row == <<intent_id, status, tx_hash, completed_at>>
settlementVars == <<row, pc, payout, ledger, broken, disowned, faults>>

Status == {"PENDING", "PROCESSING", "COMPLETED", "FAILED", "RETRYING"}
Phases == {"idle", "send", "hash", "confirm", "complete", "fee", "entry", "failure", "ended"}

-----------------------------------------------------------------------------
(* The ledger. *)

Merchant == <<"merchant", None>>
Fees == <<"revenue:fees", None>>
FxRevenue == <<"revenue:fx", None>>
FxExpense == <<"expense:fx", None>>
Pending(i) == <<"pending", i>>
Customer(i) == <<"customer", i>>

Entry(type, i, by, amount, debit, credit) ==
  [entry_type |-> type, intent_id |-> i, by |-> by, amount |-> amount,
   debit_account |-> debit, credit_account |-> credit]

DepositEntry(i, by, amount) == Entry("DEPOSIT", i, by, amount, Pending(i), Customer(i))
RefundEntry(i, by, amount) == Entry("REFUND", i, by, amount, Merchant, Customer(i))
FxEntry(i, by, gain) ==
  IF gain >= 0
  THEN Entry("FX_GAIN_LOSS", i, by, gain, FxRevenue, FxExpense)
  ELSE Entry("FX_GAIN_LOSS", i, by, -gain, FxExpense, FxRevenue)

\* Rounded to eight decimals, half up: here to a unit.
calculateSettlementAmount(target) ==
  (2 * (target * (10000 - fee_percentage)) + 10000) \div 20000

Amount(i) == calculateSettlementAmount(target_amount[i])

FeeEntry(i, s) == Entry("FEE", i, s, target_amount[i] - Amount(i), Merchant, Fees)
SettlementEntry(i, s) == Entry("SETTLEMENT", i, s, Amount(i), Pending(i), Merchant)

\* What other callers wrote, they wrote with recordDeposit, recordRefund and recordFxGainLoss.
ASSUME OtherEntriesAssumption ==
  /\ IsFiniteSet(OtherEntries)
  /\ \A e \in OtherEntries :
       /\ e.amount \in Int
       /\ e \in {DepositEntry(e.intent_id, e.by, e.amount), RefundEntry(e.intent_id, e.by, e.amount),
                FxEntry(e.intent_id, e.by, e.amount), FxEntry(e.intent_id, e.by, -e.amount)}

SumOf(entries) == SumOver([e \in entries |-> e.amount], entries)

DebitsOf(account) == SumOf({e \in ledger : e.debit_account = account})

getBalance(account) ==
  DebitsOf(account) - SumOf({e \in ledger : e.credit_account = account})

\* closing_balance of getStatement over a period with every entry.
closing_balance(account) ==
  LET entries == {e \in ledger : account \in {e.debit_account, e.credit_account}}
  IN SumOf({e \in entries : e.debit_account = account})
       - SumOf({e \in entries : e.credit_account = account})

getTotalFees == SumOf({e \in ledger : e.entry_type = "FEE"})

-----------------------------------------------------------------------------
EntrySet ==
  {FeeEntry(i, s) : i \in Intents, s \in Settlements}
    \cup {SettlementEntry(i, s) : i \in Intents, s \in Settlements}
    \cup OtherEntries

SettlementTypeOK ==
  /\ intent_id \in [Settlements -> Intents \cup {None}]
  /\ status \in [Settlements -> Status]
  /\ tx_hash \in [Settlements -> BOOLEAN]
  /\ completed_at \in [Settlements -> BOOLEAN]
  /\ pc \in [Settlements -> Phases]
  /\ payout \in [Settlements -> {"none", "sent", "mined", "deep"}]
  /\ ledger \subseteq EntrySet
  /\ broken \subseteq Settlements /\ disowned \subseteq Settlements
  /\ faults \in Nat

SettlementInit ==
  /\ intent_id = [s \in Settlements |-> None]
  /\ status = [s \in Settlements |-> "PENDING"]
  /\ tx_hash = [s \in Settlements |-> FALSE]
  /\ completed_at = [s \in Settlements |-> FALSE]
  /\ pc = [s \in Settlements |-> "idle"]
  /\ payout = [s \in Settlements |-> "none"]
  /\ ledger = OtherEntries  \* recordDeposit, recordRefund, recordFxGainLoss
  /\ broken = {} /\ disowned = {}
  /\ faults = 0

Rows == {s \in Settlements : intent_id[s] # None}
Goto(s, phase) == pc' = [pc EXCEPT ![s] = phase]
\* The update of a row is by its id alone, in spite of the "optimistic locking": the row it
\* read before is not compared.
update(s, st) == status' = [status EXCEPT ![s] = st]

Fault == faults < MaxFaults /\ faults' = faults + 1

-----------------------------------------------------------------------------
(* settleIntent. *)

\* The insert is outside the try.  No constraint keeps a second row of the intent out.
settleIntent(s, i) ==
  /\ pc[s] = "idle"
  /\ intent_id' = [intent_id EXCEPT ![s] = i]
  /\ Goto(s, "send")
  /\ UNCHANGED <<status, tx_hash, completed_at, payout, ledger, broken, disowned, faults>>

\* The insert is committed and reported as an error: the row stays PENDING.  (One that is not
\* committed leaves nothing.)
insertThrows(s, i) ==
  /\ pc[s] = "idle"
  /\ Fault
  /\ intent_id' = [intent_id EXCEPT ![s] = i]
  /\ broken' = broken \cup {s}
  /\ Goto(s, "ended")
  /\ UNCHANGED <<status, tx_hash, completed_at, payout, ledger, disowned>>

\* Estimate, sign and submit.
executeTransaction(s) ==
  /\ pc[s] = "send"
  /\ payout' = [payout EXCEPT ![s] = "sent"]
  /\ Goto(s, "hash")
  /\ UNCHANGED <<row, ledger, broken, disowned, faults>>

\* ... which may throw, also after the transaction was broadcast.
executeTransactionThrows(s) ==
  /\ pc[s] = "send"
  /\ Fault
  /\ \/ payout' = [payout EXCEPT ![s] = "sent"]
     \/ UNCHANGED payout
  /\ Goto(s, "failure")
  /\ UNCHANGED <<row, ledger, broken, disowned>>

(* The statements of the try, each of which commits what it writes. *)

WriteProcessing(s) ==
  /\ update(s, "PROCESSING")
  /\ tx_hash' = [tx_hash EXCEPT ![s] = TRUE]
  /\ UNCHANGED <<intent_id, completed_at, ledger>>

WriteCompleted(s) ==
  /\ update(s, "COMPLETED")
  /\ completed_at' = [completed_at EXCEPT ![s] = TRUE]
  /\ UNCHANGED <<intent_id, tx_hash, ledger>>

WriteFee(s) == ledger' = ledger \cup {FeeEntry(intent_id[s], s)} /\ UNCHANGED row

WriteSettlement(s) == ledger' = ledger \cup {SettlementEntry(intent_id[s], s)} /\ UNCHANGED row

\* Mutant: a status the readers of the table do not know.
SetProcessing_Submitted(s) ==
  /\ pc[s] = "hash"
  /\ update(s, "SUBMITTED")
  /\ tx_hash' = [tx_hash EXCEPT ![s] = TRUE]
  /\ Goto(s, "confirm")
  /\ UNCHANGED <<intent_id, completed_at, payout, ledger, broken, disowned, faults>>

SetProcessing(s) ==
  /\ pc[s] = "hash"
  /\ WriteProcessing(s)
  /\ Goto(s, "confirm")
  /\ UNCHANGED <<payout, broken, disowned, faults>>

\* Mutant: the loop has no end of its own.
waitForConfirmation_Forever(s) ==
  /\ pc[s] = "confirm"
  /\ \/ payout[s] = "deep" /\ Goto(s, "complete")
     \/ payout[s] = "mined" /\ s \in Reverting /\ Goto(s, "failure")
  /\ UNCHANGED <<row, payout, ledger, broken, disowned, faults>>

(***************************************************************************)
(* The depth is compared before the status, so a transaction that failed   *)
(* counts as confirmed once it is deep.  While it is not, the loop ends in *)
(* an error if it failed, or if five minutes passed.                       *)
(***************************************************************************)
waitForConfirmation(s) ==
  /\ pc[s] = "confirm"
  /\ \/ payout[s] = "deep" /\ Goto(s, "complete")
     \/ payout[s] # "deep" /\ Goto(s, "failure")
  /\ UNCHANGED <<row, payout, ledger, broken, disowned, faults>>

SetCompleted(s) ==
  /\ pc[s] = "complete"
  /\ WriteCompleted(s)
  /\ Goto(s, IF fee_percentage > 0 THEN "fee" ELSE "entry")
  /\ UNCHANGED <<payout, broken, disowned, faults>>

recordFee(s) ==
  /\ pc[s] = "fee"
  /\ WriteFee(s)
  /\ Goto(s, "entry")
  /\ UNCHANGED <<payout, broken, disowned, faults>>

recordSettlement(s) ==
  /\ pc[s] = "entry"
  /\ WriteSettlement(s)
  /\ Goto(s, "ended")
  /\ UNCHANGED <<payout, broken, disowned, faults>>

\* Any statement or status call inside the try throws, without having written ...
StepThrows(s) ==
  /\ pc[s] \in {"hash", "confirm", "complete", "fee", "entry"}
  /\ Fault
  /\ Goto(s, "failure")
  /\ UNCHANGED <<row, payout, ledger, broken, disowned>>

\* ... or having written: its answer was lost.
CommittedStepThrows(s) ==
  /\ \/ pc[s] = "hash" /\ WriteProcessing(s)
     \/ pc[s] = "complete" /\ WriteCompleted(s)
     \/ pc[s] = "fee" /\ WriteFee(s)
     \/ pc[s] = "entry" /\ WriteSettlement(s)
  /\ Fault
  /\ disowned' = IF pc[s] = "entry" THEN disowned \cup {s} ELSE disowned
  /\ Goto(s, "failure")
  /\ UNCHANGED <<payout, broken>>

\* An error that isRetryableError accepts also sets a timer for retrySettlement.
handleSettlementFailure(s) ==
  /\ pc[s] = "failure"
  /\ update(s, "FAILED")
  /\ Goto(s, "ended")
  /\ UNCHANGED <<intent_id, tx_hash, completed_at, payout, ledger, broken, disowned, faults>>

\* Its update throws, committed or not.
failureHandlerThrows(s) ==
  /\ pc[s] = "failure"
  /\ Fault
  /\ update(s, "FAILED") \/ UNCHANGED status
  /\ broken' = broken \cup {s}
  /\ Goto(s, "ended")
  /\ UNCHANGED <<intent_id, tx_hash, completed_at, payout, ledger, disowned>>

-----------------------------------------------------------------------------
(* Retries, crashes, the chain and other writers of the ledger. *)

\* Mutant: the status is not looked at.
retrySettlement_Any(s) ==
  /\ s \in Rows
  /\ update(s, "RETRYING")
  /\ UNCHANGED <<intent_id, tx_hash, completed_at, pc, payout, ledger, broken, disowned, faults>>

\* By the timer, which getRetryCount, always 0, never exhausts, or by an operator.  Nothing
\* takes up a RETRYING row: findPending, which selects them, has no caller.  (A FAILED row
\* changes in no other way, so the read and the update of the code are one step.)
retrySettlement(s) ==
  /\ s \in Rows
  /\ status[s] \in {"FAILED", "RETRYING"}
  /\ update(s, "RETRYING")
  /\ UNCHANGED <<intent_id, tx_hash, completed_at, pc, payout, ledger, broken, disowned, faults>>

\* The process dies with its calls (and its timers).
Crash ==
  /\ Fault
  /\ LET running == {s \in Rows : pc[s] # "ended"} IN
       /\ pc' = [s \in Settlements |-> IF s \in running THEN "ended" ELSE pc[s]]
       /\ broken' = broken \cup running
  /\ UNCHANGED <<row, payout, ledger, disowned>>

Mine(s) ==
  /\ payout[s] = "sent"
  /\ payout' = [payout EXCEPT ![s] = "mined"]
  /\ UNCHANGED <<row, pc, ledger, broken, disowned, faults>>

Deepen(s) ==
  /\ payout[s] = "mined"
  /\ payout' = [payout EXCEPT ![s] = "deep"]
  /\ UNCHANGED <<row, pc, ledger, broken, disowned, faults>>

-----------------------------------------------------------------------------
CallStep(s) ==
  \/ executeTransaction(s) \/ SetProcessing(s) \/ waitForConfirmation(s)
  \/ SetCompleted(s) \/ recordFee(s) \/ recordSettlement(s) \/ handleSettlementFailure(s)

SettlementNext ==
  \/ \E s \in Settlements :
       \/ \E i \in Intents : settleIntent(s, i) \/ insertThrows(s, i)
       \/ CallStep(s)
       \/ executeTransactionThrows(s) \/ StepThrows(s) \/ CommittedStepThrows(s)
       \/ failureHandlerThrows(s)
       \/ retrySettlement(s)
       \/ Mine(s) \/ Deepen(s)
  \/ Crash

-----------------------------------------------------------------------------
(* Properties. *)

Booked(s) == s \in Rows /\ SettlementEntry(intent_id[s], s) \in ledger
FeeTaken(s) == FeeEntry(intent_id[s], s) \in ledger

\* Step 6 comes after steps 3 to 5, whatever throws, dies or is retried in between: a
\* SETTLEMENT entry stands for a transaction that is deep in the chain and whose hash is in
\* the row, and the fee was booked before it.
EntriesFollowPayout ==
  \A s \in Rows :
    Booked(s) => /\ payout[s] = "deep" /\ tx_hash[s] /\ completed_at[s]
                 /\ fee_percentage > 0 => FeeTaken(s)

\* A call that came to its end left a row that tells how: COMPLETED and booked, or FAILED (by
\* now perhaps RETRYING) and not booked.  The one exception is an entry that was committed and
\* reported as an error: the catch has written FAILED beside it, and nothing takes either back.
OutcomeIsRecorded ==
  \A s \in Rows :
    pc[s] = "ended" /\ s \notin broken =>
      CASE s \in disowned -> Booked(s) /\ status[s] \in {"FAILED", "RETRYING"}
        [] s \notin disowned /\ Booked(s) -> status[s] = "COMPLETED"
        [] OTHER -> status[s] \in {"FAILED", "RETRYING"}

\* What chain, row and books of a settlement say of each other.
SettlementRecord == EntriesFollowPayout /\ OutcomeIsRecorded

\* A COMPLETED settlement has paid: "Transaction failed on-chain" ends one as FAILED.
CompletedWasPaid ==
  \A s \in Rows : status[s] = "COMPLETED" => payout[s] = "deep" /\ s \notin Reverting
=============================================================================
