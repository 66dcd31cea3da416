--------------------------- MODULE Reconciliation ---------------------------
(***************************************************************************)
(* A reconciliation report while settlements go on                         *)
(* (packages/reconciliation/src/reconciliation.service.ts).                *)
(*                                                                         *)
(* runReconciliation inserts its record and runs five checks, one query    *)
(* each, over a period; between two queries the settlements of module      *)
(* Settlement proceed.  Discrepancies are returned and summed up in the    *)
(* record, never inserted into the table that exportData reads.            *)
(*                                                                         *)
(* Abstracted: the period, which ends when the report begins and holds     *)
(* everything before; descriptions and values of a discrepancy, to its     *)
(* type and intent; reports by chain and merchant, of which there is one.  *)
(***************************************************************************)
EXTENDS Settlement, Sequences

CONSTANTS
  SettledIntents,  \* payment_intents in state SETTLED during the period
  MaxReports       \* bound: calls of runReconciliation, one after the other

ASSUME ReconciliationAssumption == SettledIntents \subseteq Intents /\ MaxReports \in Nat

VARIABLES
  record,     \* the row of reconciliation_records, and what the call holds
  check,      \* what runReconciliation does next
  found,      \* the discrepancies so far
  reports     \* counts against MaxReports

reportVars == <<record, check, found, reports>>
vars == <<settlementVars, reportVars>>

Checks == <<"missing_settlements", "amounts", "duplicates", "missing_ledger", "fx", "summary">>
Discrepancies ==
  {"MISSING_SETTLEMENT", "AMOUNT_MISMATCH", "DUPLICATE_SETTLEMENT", "MISSING_LEDGER_ENTRY",
   "FX_GAIN_LOSS_MISMATCH"} \X (Intents \cup {None})

Records ==
  [status : {"none", "IN_PROGRESS", "COMPLETED", "DISCREPANCY_FOUND"},
   rows : SUBSET Settlements,       \* the rows that exist when it begins
   completed : SUBSET Settlements]  \* those that have completed_at

TypeOK ==
  /\ SettlementTypeOK
  /\ record \in Records
  /\ check \in 0 .. Len(Checks)
  /\ found \subseteq Discrepancies
  /\ reports \in Nat

Init ==
  /\ SettlementInit
  /\ record = [status |-> "none", rows |-> {}, completed |-> {}]
  /\ check = 0 /\ found = {} /\ reports = 0

-----------------------------------------------------------------------------
(* The period. *)

CreatedInPeriod == record.rows
CompletedInPeriod == {s \in record.completed : status[s] = "COMPLETED"}

-----------------------------------------------------------------------------
(* The checks: the discrepancies each one finds. *)

checkMissingSettlements ==
  {<<"MISSING_SETTLEMENT", i>> :
     i \in {j \in SettledIntents : \A s \in Rows : intent_id[s] # j}}

\* The tolerance is 0.01% of the expected amount, both scaled by 10000 here.
Mismatch(target, amount) ==
  LET expected == target * (10000 - fee_percentage)
      difference == expected - 10000 * amount
  IN (IF difference < 0 THEN -difference ELSE difference) * 10000 > expected

checkAmountMismatches ==
  {<<"AMOUNT_MISMATCH", intent_id[s]>> :
     s \in {r \in CompletedInPeriod :
              Mismatch(target_amount[intent_id[r]], Amount(intent_id[r]))}}

\* Mutant: only rows that completed count.
checkDuplicateSettlements_Completed ==
  {<<"DUPLICATE_SETTLEMENT", intent_id[s]>> :
     s \in {r \in CreatedInPeriod : \E q \in CompletedInPeriod \ {r} : intent_id[q] = intent_id[r]}}

checkDuplicateSettlements ==
  {<<"DUPLICATE_SETTLEMENT", intent_id[s]>> :
     s \in {r \in CreatedInPeriod : \E q \in CreatedInPeriod \ {r} : intent_id[q] = intent_id[r]}}

\* The join is on the intent: one entry is enough for all its settlements.
checkMissingLedgerEntries ==
  {<<"MISSING_LEDGER_ENTRY", intent_id[s]>> :
     s \in {r \in CompletedInPeriod :
              \A e \in ledger : e.entry_type = "SETTLEMENT" => e.intent_id # intent_id[r]}}

\* Gains and losses differ by more than a tenth of their volume.
checkFxGainLoss ==
  LET fx == {e \in ledger : e.entry_type = "FX_GAIN_LOSS"}
      gains == SumOf({e \in fx : e.debit_account = FxRevenue})
      losses == SumOf({e \in fx : e.debit_account = FxExpense})
      net == IF gains > losses THEN gains - losses ELSE losses - gains
  IN IF gains + losses > 0 /\ 10 * net > gains + losses
     THEN {<<"FX_GAIN_LOSS_MISMATCH", None>>} ELSE {}

Findings(c) ==
  CASE c = "missing_settlements" -> checkMissingSettlements
    [] c = "amounts" -> checkAmountMismatches
    [] c = "duplicates" -> checkDuplicateSettlements
    [] c = "missing_ledger" -> checkMissingLedgerEntries
    [] c = "fx" -> checkFxGainLoss

-----------------------------------------------------------------------------
\* createRecord.
runReconciliation ==
  /\ check = 0 /\ reports < MaxReports
  /\ reports' = reports + 1
  /\ record' = [status |-> "IN_PROGRESS", rows |-> Rows,
                completed |-> {s \in Rows : completed_at[s]}]
  /\ check' = 1
  /\ found' = {}
  /\ UNCHANGED settlementVars

\* A query of the report, and what it adds to the discrepancies.
RunCheck ==
  /\ check \in 1 .. Len(Checks) - 1
  /\ found' = found \cup Findings(Checks[check])
  /\ check' = check + 1
  /\ UNCHANGED <<settlementVars, record, reports>>

\* calculateFinancialSummary and updateRecord.
updateRecord ==
  /\ check = Len(Checks)
  /\ record' = [record EXCEPT !.status = IF found = {} THEN "COMPLETED" ELSE "DISCREPANCY_FOUND"]
  /\ check' = 0
  /\ UNCHANGED <<settlementVars, found, reports>>

\* A query throws: the record stays IN_PROGRESS.
reportThrows ==
  /\ check > 0
  /\ Fault
  /\ check' = 0
  /\ UNCHANGED <<row, pc, payout, ledger, broken, disowned, record, found, reports>>

ReportStep == RunCheck \/ updateRecord

Next ==
  \/ SettlementNext /\ UNCHANGED reportVars
  \/ runReconciliation \/ ReportStep \/ reportThrows

\* Every call has a timeout of its own, the confirmation loop one of five minutes.
Fairness ==
  /\ \A s \in Settlements : WF_vars(CallStep(s) /\ UNCHANGED reportVars)
  /\ WF_vars(ReportStep)

Spec == Init /\ [][Next]_vars
FairSpec == Spec /\ Fairness

-----------------------------------------------------------------------------
(* Properties. *)

\* The amount column of the rows.
Paid == [s \in Rows |-> Amount(intent_id[s])]

\* Mutant: every settlement of the merchant is summed up.
byMerchant_All == SumOver(Paid, Rows)

Completed == {s \in Rows : status[s] = "COMPLETED"}

\* getFinancialByMerchant, getFinancialByChain and getMerchantSettledTotal, which agree for
\* one merchant and one chain.
byMerchant == SumOver(Paid, Completed)

\* calculateFinancialSummary sums up the rows whatever their status is.
totalSettledUsd == SumOver(Paid, Rows)
totalFeesUsd == getTotalFees
refunded == SumOf({e \in ledger : e.entry_type = "REFUND"})

\* Rows that the reports by merchant and by chain count and the ledger does not, and the reverse.
Unbooked == {s \in Completed : ~Booked(s)}
Uncounted == {s \in Rows \ Completed : Booked(s)}

fee == [s \in Rows |-> target_amount[intent_id[s]] - Amount(intent_id[s])]

(***************************************************************************)
(* The table and the ledger are written by separate statements, and this   *)
(* is how far the reports that read one and the other may drift apart, at  *)
(* any time.  What the table calls settled without an entry is a call in   *)
(* flight or one that was cut off; what the ledger credits without a       *)
(* COMPLETED row is an entry whose insert was reported as an error; but    *)
(* for these rows the sums are the same, and the fees of what the ledger   *)
(* credits were taken.  (The summary counts failed rows as well.)  The     *)
(* merchant's balance, and a statement of it, are the settlements, net of  *)
(* their fees, less these fees again and what was refunded.                *)
(***************************************************************************)
ReportsAgreeWithBooks ==
  LET credited == SumOf({e \in ledger : e.entry_type = "SETTLEMENT"})
  IN /\ \A s \in Unbooked : pc[s] # "ended" \/ s \in broken
     /\ Uncounted \subseteq disowned
     /\ credited + SumOver(Paid, Unbooked) = byMerchant + SumOver(Paid, Uncounted)
     /\ byMerchant <= totalSettledUsd
     /\ totalFeesUsd >= SumOver(fee, {s \in Rows : Booked(s)})
     /\ getBalance(Merchant) = totalFeesUsd + refunded - credited
     /\ closing_balance(Merchant) = getBalance(Merchant)

Clean == record.status = "COMPLETED"

(***************************************************************************)
(* What a report without discrepancies vouches for, although settlements   *)
(* went on while it ran: of what existed when it began, no intent had two  *)
(* rows, every SETTLED intent has one, and every settlement that completed *)
(* either has an entry for its intent or has failed since.                 *)
(***************************************************************************)
CleanReportIsSound ==
  Clean =>
    /\ \A s, r \in record.rows : intent_id[s] = intent_id[r] => s = r
    /\ \A i \in SettledIntents : \E s \in Rows : intent_id[s] = i
    /\ \A s \in record.completed :
         status[s] = "COMPLETED" => \E r \in Rows : intent_id[r] = intent_id[s] /\ Booked(r)

\* A call of settleIntent that was not cut off comes to its end, with a row that tells the
\* outcome, and a report ends too.
EverySettlementEnds ==
  /\ \A s \in Settlements :
       intent_id[s] # None ~>
         s \in broken \/ (Booked(s) /\ status[s] = "COMPLETED") \/ status[s] \in {"FAILED", "RETRYING"}
  /\ check > 0 ~> check = 0
=============================================================================
