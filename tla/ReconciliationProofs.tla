------------------------ MODULE ReconciliationProofs ------------------------
(***************************************************************************)
(* Proofs about Settlement and Reconciliation: what the chain, the row and *)
(* the books of a settlement say of each other, and what a clean report    *)
(* vouches for, for any number of settlements, intents, reports and faults *)
(* and whichever payouts the chain reverts.                                *)
(***************************************************************************)
EXTENDS Reconciliation, Lemmas

\* Where a call is, what its row says and where its payout is.
CallOK(s) ==
  /\ pc[s] = "idle" <=> intent_id[s] = None
  /\ status[s] \in {"FAILED", "RETRYING"} => pc[s] = "ended"
  /\ pc[s] \in {"complete", "fee", "entry"} => payout[s] = "deep" /\ tx_hash[s]
  /\ pc[s] = "confirm" => tx_hash[s]
  /\ pc[s] \in {"fee", "entry"} => status[s] = "COMPLETED"
  /\ pc[s] = "entry" /\ fee_percentage > 0 => FeeTaken(s)
  /\ status[s] = "COMPLETED" => completed_at[s]
  /\ completed_at[s] => pc[s] \in {"fee", "entry", "failure", "ended"}

\* A SETTLEMENT entry was made by the last statement of a call, and what comes before it was
\* done; the row is COMPLETED unless the call took the entry for an error.
EntryOK(s) ==
  /\ s \in disowned =>
       pc[s] \in {"failure", "ended"} /\ SettlementEntry(intent_id[s], s) \in ledger
  /\ \A i \in Intents :
       SettlementEntry(i, s) \in ledger =>
         /\ intent_id[s] = i /\ pc[s] \in {"failure", "ended"}
         /\ s \notin disowned => pc[s] = "ended" /\ status[s] = "COMPLETED"
         /\ payout[s] = "deep" /\ tx_hash[s] /\ completed_at[s]
         /\ fee_percentage > 0 => FeeTaken(s)

\* A call that came to its end by itself booked its entry or left a failed row.
EndOK(s) ==
  pc[s] = "ended" /\ s \notin broken =>
    \/ s \notin disowned /\ SettlementEntry(intent_id[s], s) \in ledger
    \/ status[s] \in {"FAILED", "RETRYING"}

Settled(s) == CallOK(s) /\ EntryOK(s) /\ EndOK(s)

IInv == SettlementTypeOK /\ \A s \in Settlements : Settled(s)

-----------------------------------------------------------------------------

\* Of the entries that others wrote, none credits the merchant, and refunds debit it.
LEMMA Others ==
  ASSUME NEW e \in OtherEntries
  PROVE  /\ e.amount \in Int /\ e.entry_type \in {"DEPOSIT", "REFUND", "FX_GAIN_LOSS"}
         /\ e.credit_account # Merchant
         /\ e.debit_account = Merchant <=> e.entry_type = "REFUND"
<1> DEFINE i == e.intent_id
           by == e.by
           amount == e.amount
<1>1. /\ amount \in Int
      /\ e \in {DepositEntry(i, by, amount), RefundEntry(i, by, amount),
                FxEntry(i, by, amount), FxEntry(i, by, -amount)}
  BY OtherEntriesAssumption
<1> HIDE DEF i, by
<1> USE DEF Entry, Merchant, FxRevenue, FxExpense, Pending, Customer
<1>2. CASE e = DepositEntry(i, by, amount)
  BY <1>1, <1>2 DEF DepositEntry
<1>3. CASE e = RefundEntry(i, by, amount)
  BY <1>1, <1>3 DEF RefundEntry
<1>4. CASE e = FxEntry(i, by, amount) \/ e = FxEntry(i, by, -amount)
  BY <1>1, <1>4 DEF FxEntry
<1> QED BY <1>1, <1>2, <1>3, <1>4

\* Entries of different settlements, and of different types, are different.
LEMMA EntriesDiffer ==
  ASSUME NEW s \in Settlements, NEW r \in Settlements, NEW i \in Intents, NEW j \in Intents
  PROVE  /\ SettlementEntry(i, s) = SettlementEntry(j, r) => s = r /\ i = j
         /\ SettlementEntry(i, s) # FeeEntry(j, r)
         /\ SettlementEntry(i, s) \notin OtherEntries
<1>1. SettlementEntry(i, s).by = s /\ SettlementEntry(i, s).intent_id = i
      /\ SettlementEntry(j, r).by = r /\ SettlementEntry(j, r).intent_id = j
  BY DEF SettlementEntry, Entry
<1>2. SettlementEntry(i, s).entry_type = "SETTLEMENT" /\ FeeEntry(j, r).entry_type = "FEE"
  BY DEF SettlementEntry, FeeEntry, Entry
<1> QED BY <1>1, <1>2, Others

\* What concerns a settlement stays true while its row, its call, its payout and its entries
\* stay, and other entries are added.
LEMMA OthersStay ==
  ASSUME IInv, NEW s \in Settlements,
         intent_id'[s] = intent_id[s], status'[s] = status[s], tx_hash'[s] = tx_hash[s],
         completed_at'[s] = completed_at[s], pc'[s] = pc[s], payout'[s] = payout[s],
         s \in broken' <=> s \in broken, s \in disowned' <=> s \in disowned,
         ledger \subseteq ledger',
         \A i \in Intents : SettlementEntry(i, s) \in ledger' => SettlementEntry(i, s) \in ledger
  PROVE  Settled(s)'
<1>1. Settled(s) /\ intent_id[s] \in Intents \cup {None}
  BY DEF IInv, SettlementTypeOK
<1>2. CallOK(s)'
  BY <1>1 DEF Settled, CallOK, FeeTaken
<1>3. EntryOK(s)'
  BY <1>1 DEF Settled, EntryOK, FeeTaken
<1>4. EndOK(s)'
  BY <1>1 DEF Settled, EndOK
<1> QED BY <1>2, <1>3, <1>4 DEF Settled

\* A step of one settlement that leaves the ledger alone.
LEMMA OneRow ==
  ASSUME IInv, NEW s \in Settlements, Settled(s)', SettlementTypeOK', ledger' = ledger,
         \A r \in Settlements \ {s} :
           /\ intent_id'[r] = intent_id[r] /\ status'[r] = status[r] /\ tx_hash'[r] = tx_hash[r]
           /\ completed_at'[r] = completed_at[r] /\ pc'[r] = pc[r] /\ payout'[r] = payout[r]
           /\ r \in broken' <=> r \in broken
           /\ r \in disowned' <=> r \in disowned
  PROVE  IInv'
<1>1. ASSUME NEW r \in Settlements \ {s} PROVE Settled(r)'
  BY <1>1, OthersStay
<1> QED BY <1>1 DEF IInv

-----------------------------------------------------------------------------

\* Types, for the steps of one settlement and the crash of all.
LEMMA TypeStep ==
  ASSUME IInv, [SettlementNext]_settlementVars
  PROVE  SettlementTypeOK'
<1>0. SettlementTypeOK
  BY DEF IInv
<1> USE <1>0 DEF SettlementTypeOK, Status, Phases
<1>1. ASSUME NEW s \in Settlements, NEW i \in Intents, settleIntent(s, i)
      PROVE  SettlementTypeOK'
  BY <1>1 DEF settleIntent, Goto
<1>13. ASSUME NEW s \in Settlements, NEW i \in Intents, insertThrows(s, i)
       PROVE  SettlementTypeOK'
  BY <1>13 DEF insertThrows, Goto, Fault
<1>2. ASSUME NEW s \in Settlements, executeTransaction(s) PROVE SettlementTypeOK'
  BY <1>2 DEF executeTransaction, Goto, row
<1>3. ASSUME NEW s \in Settlements, executeTransactionThrows(s) PROVE SettlementTypeOK'
  BY <1>3 DEF executeTransactionThrows, Goto, Fault, row
<1>4. ASSUME NEW s \in Settlements, SetProcessing(s) PROVE SettlementTypeOK'
  BY <1>4 DEF SetProcessing, WriteProcessing, Goto, update
<1>5. ASSUME NEW s \in Settlements, waitForConfirmation(s) PROVE SettlementTypeOK'
  BY <1>5 DEF waitForConfirmation, Goto, row
<1>6. ASSUME NEW s \in Settlements, SetCompleted(s) PROVE SettlementTypeOK'
  BY <1>6 DEF SetCompleted, WriteCompleted, Goto, update
<1>7. ASSUME NEW s \in Settlements, StepThrows(s) \/ failureHandlerThrows(s)
      PROVE  SettlementTypeOK'
  BY <1>7 DEF StepThrows, failureHandlerThrows, Goto, Fault, update, row
<1>8. ASSUME NEW s \in Settlements, handleSettlementFailure(s) \/ retrySettlement(s)
      PROVE  SettlementTypeOK'
  BY <1>8 DEF handleSettlementFailure, retrySettlement, Goto, update
<1>9. ASSUME NEW s \in Settlements, Mine(s) \/ Deepen(s) PROVE SettlementTypeOK'
  BY <1>9 DEF Mine, Deepen, row
<1>10. CASE Crash
  BY <1>10 DEF Crash, Fault, row, Rows
<1>11. ASSUME NEW s \in Settlements,
              recordFee(s) \/ recordSettlement(s) \/ CommittedStepThrows(s)
       PROVE  SettlementTypeOK'
  <2> USE DEF recordFee, recordSettlement, CommittedStepThrows, Goto, row, Fault
  <2>1. pc[s] \in {"fee", "entry"} => intent_id[s] \in Intents
    BY DEF IInv, Settled, CallOK
  <2>2. CASE CommittedStepThrows(s) /\ pc[s] \in {"hash", "complete"}
    <3>1. ledger' = ledger /\ intent_id' = intent_id /\ status' \in [Settlements -> Status]
          /\ tx_hash' \in [Settlements -> BOOLEAN] /\ completed_at' \in [Settlements -> BOOLEAN]
      BY <2>2 DEF WriteProcessing, WriteCompleted, update
    <3>2. /\ payout' = payout /\ broken' = broken /\ faults' \in Nat
          /\ disowned' \in {disowned, disowned \cup {s}} /\ pc' \in [Settlements -> Phases]
      BY <2>2
    <3> QED BY <3>1, <3>2
  <2>3. CASE pc[s] \in {"fee", "entry"} /\ (WriteFee(s) \/ WriteSettlement(s))
    <3>1. ledger' \subseteq EntrySet /\ UNCHANGED row
      BY <2>1, <2>3 DEF WriteFee, WriteSettlement, EntrySet
    <3> QED BY <1>11, <3>1
  <2> QED BY <1>11, <2>2, <2>3
<1>12. CASE UNCHANGED settlementVars
  BY <1>12 DEF settlementVars, row
<1> QED
  BY <1>1, <1>13, <1>2, <1>3, <1>4, <1>5, <1>6, <1>7, <1>8, <1>9, <1>10, <1>11, <1>12
     DEF SettlementNext, CallStep

-----------------------------------------------------------------------------

\* Each step of a settlement up to its completion keeps what is said of it; the others stay.
LEMMA CallKeeps ==
  ASSUME IInv, SettlementTypeOK', NEW s \in Settlements,
         (\E i \in Intents : settleIntent(s, i) \/ insertThrows(s, i)) \/ executeTransaction(s)
           \/ executeTransactionThrows(s) \/ SetProcessing(s) \/ waitForConfirmation(s)
           \/ SetCompleted(s)
           \/ (CommittedStepThrows(s) /\ pc[s] \in {"hash", "complete"})
  PROVE  IInv'
<1> USE DEF settleIntent, insertThrows, executeTransaction, executeTransactionThrows,
            SetProcessing, waitForConfirmation, SetCompleted, CommittedStepThrows,
            WriteProcessing, WriteCompleted, Goto, update, row
<1>1. Settled(s) /\ SettlementTypeOK
  BY DEF IInv
<1>2. /\ pc[s] \in {"idle", "send", "hash", "confirm", "complete"}
      /\ ledger' = ledger /\ disowned' = disowned
  OBVIOUS
<1>3. \A r \in Settlements \ {s} :
        /\ intent_id'[r] = intent_id[r] /\ status'[r] = status[r] /\ tx_hash'[r] = tx_hash[r]
        /\ completed_at'[r] = completed_at[r] /\ pc'[r] = pc[r] /\ payout'[r] = payout[r]
        /\ r \in broken' <=> r \in broken
  BY <1>1 DEF SettlementTypeOK
<1>4. pc'[s] = "ended" => s \in broken'
  BY <1>1 DEF SettlementTypeOK
<1>5. s \notin disowned /\ \A i \in Intents : SettlementEntry(i, s) \notin ledger
  BY <1>1, <1>2 DEF Settled, EntryOK
<1>6. EntryOK(s)' /\ EndOK(s)'
  BY <1>2, <1>4, <1>5 DEF EntryOK, EndOK
<1>7. CallOK(s)'
  <2>1. ASSUME NEW i \in Intents, settleIntent(s, i) \/ insertThrows(s, i) PROVE CallOK(s)'
    <3>1. /\ pc[s] = "idle" /\ pc'[s] \in {"send", "ended"} /\ intent_id'[s] = i
          /\ status' = status /\ completed_at' = completed_at
      BY <1>1, <2>1 DEF SettlementTypeOK
    <3>2. i # None
      BY SettlementAssumption
    <3> QED BY <1>1, <3>1, <3>2 DEF Settled, CallOK
  <2> USE <1>1, <1>2 DEF Settled, CallOK, SettlementTypeOK
  <2>2. CASE executeTransaction(s) \/ executeTransactionThrows(s)
    BY <2>2
  <2>3. CASE SetProcessing(s)
    BY <2>3
  <2>4. CASE waitForConfirmation(s)
    BY <2>4
  <2>5. CASE SetCompleted(s)
    <3>1. /\ pc[s] = "complete" /\ pc'[s] = IF fee_percentage > 0 THEN "fee" ELSE "entry"
          /\ status'[s] = "COMPLETED" /\ completed_at'[s]
          /\ UNCHANGED <<intent_id, tx_hash, payout>>
      BY <2>5
    <3> QED BY <3>1
  <2>6. CASE CommittedStepThrows(s) /\ pc[s] \in {"hash", "complete"}
    <3>1. /\ pc[s] \in {"hash", "complete"} /\ pc'[s] = "failure"
          /\ UNCHANGED <<intent_id, payout>>
          /\ \/ status'[s] = "PROCESSING" /\ completed_at' = completed_at
             \/ status'[s] = "COMPLETED" /\ completed_at'[s]
      BY <2>6
    <3> QED BY <3>1
  <2> QED BY <2>1, <2>2, <2>3, <2>4, <2>5, <2>6
<1> QED BY <1>2, <1>3, <1>6, <1>7, OneRow DEF Settled

\* What fails, is retried or happens on the chain leaves the entries.
LEMMA FailureKeeps ==
  ASSUME IInv, SettlementTypeOK', NEW s \in Settlements,
         StepThrows(s) \/ handleSettlementFailure(s) \/ failureHandlerThrows(s)
           \/ retrySettlement(s) \/ Mine(s) \/ Deepen(s)
  PROVE  IInv'
<1>1. Settled(s) /\ SettlementTypeOK
  BY DEF IInv
<1> USE DEF StepThrows, handleSettlementFailure, failureHandlerThrows, retrySettlement,
            Mine, Deepen, Goto, update, row
<1>2. ledger' = ledger /\ intent_id' = intent_id /\ tx_hash' = tx_hash
      /\ completed_at' = completed_at /\ disowned' = disowned
  OBVIOUS
<1>3. \A r \in Settlements \ {s} :
        /\ status'[r] = status[r] /\ pc'[r] = pc[r] /\ payout'[r] = payout[r]
        /\ r \in broken' <=> r \in broken
  BY <1>1 DEF SettlementTypeOK
<1>4. CallOK(s)'
  <2> USE <1>1, <1>2 DEF Settled, CallOK, SettlementTypeOK, Rows
  <2>1. CASE StepThrows(s)
    BY <2>1
  <2>2. CASE handleSettlementFailure(s)
    BY <2>2
  <2>3. CASE failureHandlerThrows(s)
    BY <2>3
  <2>4. CASE retrySettlement(s)
    BY <2>4
  <2>5. CASE Mine(s) \/ Deepen(s)
    BY <2>5
  <2> QED BY <2>1, <2>2, <2>3, <2>4, <2>5
<1>5. EntryOK(s)'
  <2>1. CASE StepThrows(s)
    BY <1>1, <1>2, <2>1 DEF Settled, EntryOK
  <2>2. CASE handleSettlementFailure(s) \/ failureHandlerThrows(s) \/ retrySettlement(s)
    <3>1. /\ pc'[s] \in {"failure", "ended"} /\ UNCHANGED payout
          /\ s \notin disowned => (status'[s] = status[s] /\ pc'[s] = pc[s]) \/ pc[s] = "failure"
                                    \/ status[s] \in {"FAILED", "RETRYING"}
      BY <1>1, <2>2 DEF Settled, CallOK, SettlementTypeOK, Rows
    <3> QED BY <1>1, <1>2, <3>1 DEF Settled, EntryOK, FeeTaken
  <2>3. CASE Mine(s) \/ Deepen(s)
    BY <1>1, <1>2, <2>3 DEF Settled, EntryOK, FeeTaken, SettlementTypeOK
  <2> QED BY <2>1, <2>2, <2>3
<1>6. EndOK(s)'
  BY <1>1, <1>2 DEF Settled, EndOK, CallOK, SettlementTypeOK
<1> QED BY <1>2, <1>3, <1>4, <1>5, <1>6, OneRow DEF Settled

\* Steps 7 and 8 write entries of their own settlement only, also when they end in an error.
LEMMA BookKeeps ==
  ASSUME IInv, SettlementTypeOK', NEW s \in Settlements,
         \/ pc[s] = "fee" /\ WriteFee(s) /\ disowned' = disowned
              /\ pc'[s] \in {"entry", "failure"}
         \/ pc[s] = "entry" /\ WriteSettlement(s)
              /\ \/ pc'[s] = "ended" /\ disowned' = disowned
                 \/ pc'[s] = "failure" /\ disowned' = disowned \cup {s},
         payout' = payout, broken' = broken, \A r \in Settlements \ {s} : pc'[r] = pc[r]
  PROVE  IInv'
<1>1. Settled(s) /\ SettlementTypeOK
  BY DEF IInv
<1>2. intent_id[s] \in Intents /\ status[s] = "COMPLETED" /\ completed_at[s]
  BY <1>1 DEF Settled, CallOK, SettlementTypeOK
<1>3. intent_id' = intent_id /\ status' = status /\ tx_hash' = tx_hash
      /\ completed_at' = completed_at
  BY DEF WriteFee, WriteSettlement, row
<1>4. ASSUME NEW r \in Settlements \ {s} PROVE Settled(r)'
  <2>1. ledger \subseteq ledger' /\ (r \in disowned' <=> r \in disowned)
    BY DEF WriteFee, WriteSettlement
  <2>2. \A i \in Intents : SettlementEntry(i, r) \in ledger' => SettlementEntry(i, r) \in ledger
    BY <1>2, EntriesDiffer DEF WriteFee, WriteSettlement
  <2> QED BY <1>3, <2>1, <2>2, OthersStay
<1>5. CASE pc[s] = "fee"
  <2>1. /\ pc'[s] \in {"entry", "failure"} /\ disowned' = disowned
        /\ ledger' = ledger \cup {FeeEntry(intent_id[s], s)}
    BY <1>5 DEF WriteFee
  <2>2. FeeTaken(s)'
    BY <1>3, <2>1 DEF FeeTaken
  <2>3. CallOK(s)'
    BY <1>1, <1>3, <1>5, <2>1, <2>2 DEF Settled, CallOK
  <2>4. s \notin disowned /\ \A i \in Intents : SettlementEntry(i, s) \notin ledger'
    BY <1>1, <1>2, <1>5, <2>1, EntriesDiffer DEF Settled, EntryOK
  <2> QED BY <1>4, <2>1, <2>3, <2>4 DEF IInv, Settled, EntryOK, EndOK
<1>6. CASE pc[s] = "entry"
  <2>1. /\ \/ pc'[s] = "ended" /\ disowned' = disowned
           \/ pc'[s] = "failure" /\ disowned' = disowned \cup {s}
        /\ ledger' = ledger \cup {SettlementEntry(intent_id[s], s)}
    BY <1>6 DEF WriteSettlement
  <2>2. fee_percentage > 0 => FeeTaken(s)'
    BY <1>1, <1>3, <1>6, <2>1 DEF Settled, CallOK, FeeTaken
  <2>3. CallOK(s)'
    BY <1>1, <1>3, <1>6, <2>1 DEF Settled, CallOK
  <2>4. EntryOK(s)'
    <3>1. \A i \in Intents : SettlementEntry(i, s) \in ledger' => i = intent_id[s]
      BY <1>1, <1>2, <1>6, <2>1, EntriesDiffer DEF Settled, EntryOK
    <3> QED BY <1>1, <1>2, <1>3, <1>6, <2>1, <2>2, <3>1 DEF Settled, CallOK, EntryOK
  <2>5. EndOK(s)'
    BY <1>1, <1>3, <1>6, <2>1 DEF Settled, EntryOK, EndOK
  <2> QED BY <1>4, <2>3, <2>4, <2>5 DEF IInv, Settled
<1> QED BY <1>5, <1>6

\* A crash ends the calls and touches no table.
LEMMA CrashKeeps == ASSUME IInv, SettlementTypeOK', Crash PROVE IInv'
<1>1. ledger' = ledger /\ status' = status /\ intent_id' = intent_id /\ tx_hash' = tx_hash
      /\ completed_at' = completed_at /\ payout' = payout /\ disowned' = disowned
  BY DEF Crash, row
<1>2. ASSUME NEW s \in Settlements PROVE Settled(s)'
  <2>1. Settled(s) /\ SettlementTypeOK
    BY DEF IInv
  <2>2. CASE s \in Rows /\ pc[s] # "ended"
    <3>1. pc'[s] = "ended" /\ s \in broken'
      BY <2>2 DEF Crash
    <3>2. CallOK(s)'
      BY <1>1, <2>1, <2>2, <3>1 DEF Settled, CallOK, Rows
    <3>3. EntryOK(s)'
      BY <1>1, <2>1, <2>2, <3>1 DEF Settled, EntryOK, FeeTaken
    <3> QED BY <3>1, <3>2, <3>3 DEF Settled, EndOK
  <2>3. CASE ~ (s \in Rows /\ pc[s] # "ended")
    <3>1. pc'[s] = pc[s] /\ (s \in broken' <=> s \in broken)
      BY <2>3 DEF Crash
    <3> QED BY <1>1, <3>1, OthersStay
  <2> QED BY <2>2, <2>3
<1> QED BY <1>2 DEF IInv

\* Every step of a settlement.
LEMMA SettlementStep == ASSUME IInv, [SettlementNext]_settlementVars PROVE IInv'
<1>1. SettlementTypeOK'
  BY TypeStep
<1>2. CASE UNCHANGED settlementVars
  BY <1>2, OthersStay, <1>1 DEF settlementVars, row, IInv
<1>3. CASE Crash
  BY <1>1, <1>3, CrashKeeps
<1>4. ASSUME NEW s \in Settlements, recordFee(s) \/ recordSettlement(s) PROVE IInv'
  BY <1>1, <1>4, BookKeeps DEF recordFee, recordSettlement, Goto, IInv, SettlementTypeOK
<1>5. ASSUME NEW s \in Settlements, CommittedStepThrows(s) PROVE IInv'
  <2>1. CASE pc[s] \in {"hash", "complete"}
    BY <1>1, <1>5, <2>1, CallKeeps
  <2>2. CASE (pc[s] = "fee" /\ WriteFee(s)) \/ (pc[s] = "entry" /\ WriteSettlement(s))
    <3>1. /\ pc'[s] = "failure" /\ (\A r \in Settlements \ {s} : pc'[r] = pc[r])
          /\ disowned' = IF pc[s] = "entry" THEN disowned \cup {s} ELSE disowned
          /\ payout' = payout /\ broken' = broken
      BY <1>5 DEF CommittedStepThrows, Goto, IInv, SettlementTypeOK
    <3> QED BY <1>1, <2>2, <3>1, BookKeeps
  <2>3. \/ pc[s] = "hash" \/ pc[s] = "complete"
        \/ (pc[s] = "fee" /\ WriteFee(s)) \/ (pc[s] = "entry" /\ WriteSettlement(s))
    BY <1>5, Zenon DEF CommittedStepThrows
  <2> QED BY <2>1, <2>2, <2>3
<1>6. ASSUME NEW s \in Settlements,
             StepThrows(s) \/ handleSettlementFailure(s) \/ failureHandlerThrows(s)
               \/ retrySettlement(s) \/ Mine(s) \/ Deepen(s)
      PROVE  IInv'
  BY <1>1, <1>6, FailureKeeps
<1>7. ASSUME NEW s \in Settlements,
             (\E i \in Intents : settleIntent(s, i) \/ insertThrows(s, i)) \/ executeTransaction(s)
               \/ executeTransactionThrows(s) \/ SetProcessing(s) \/ waitForConfirmation(s)
               \/ SetCompleted(s)
      PROVE  IInv'
  BY <1>1, <1>7, CallKeeps
<1> QED BY <1>2, <1>3, <1>4, <1>5, <1>6, <1>7 DEF SettlementNext, CallStep

\* The report reads only; its failing queries count as faults.
LEMMA ReportStays == ASSUME IInv, runReconciliation \/ ReportStep \/ reportThrows PROVE IInv'
<1>1. /\ UNCHANGED <<row, pc, payout, ledger, broken, disowned>> /\ faults' \in Nat
  BY SettlementAssumption
     DEF runReconciliation, ReportStep, RunCheck, updateRecord, reportThrows, Fault,
         settlementVars, IInv, SettlementTypeOK
<1>2. SettlementTypeOK'
  BY <1>1 DEF IInv, SettlementTypeOK, row
<1>3. \A s \in Settlements : Settled(s)'
  BY <1>1, OthersStay DEF row
<1> QED BY <1>2, <1>3 DEF IInv

LEMMA InitInv == Init => IInv
<1> SUFFICES ASSUME Init PROVE IInv
  OBVIOUS
<1>1. SettlementTypeOK
  BY SettlementAssumption
     DEF Init, SettlementInit, SettlementTypeOK, Status, Phases, EntrySet
<1>2. ASSUME NEW s \in Settlements PROVE Settled(s)
  <2>1. CallOK(s) /\ EndOK(s)
    BY DEF Init, SettlementInit, CallOK, EndOK
  <2>2. EntryOK(s)
    BY EntriesDiffer DEF Init, SettlementInit, EntryOK
  <2> QED BY <2>1, <2>2 DEF Settled
<1> QED BY <1>1, <1>2 DEF IInv

LEMMA NextInv == IInv /\ [Next]_vars => IInv'
<1> SUFFICES ASSUME IInv, [Next]_vars PROVE IInv'
  OBVIOUS
<1>1. CASE runReconciliation \/ ReportStep \/ reportThrows
  BY <1>1, ReportStays
<1>2. CASE SettlementNext \/ UNCHANGED settlementVars
  BY <1>2, SettlementStep
<1> QED BY <1>1, <1>2 DEF Next, vars

\* However calls throw, die, are retried or overlap: what the ledger says of a settlement was
\* done on the chain and is in its row, and a call that ends tells how
\* (settlement.service.ts:53-112).
THEOREM RecordsAgree == Spec => []SettlementRecord
<1>1. IInv => SettlementRecord
  <2> SUFFICES ASSUME IInv PROVE SettlementRecord
    OBVIOUS
  <2>1. ASSUME NEW s \in Rows
        PROVE  s \in Settlements /\ intent_id[s] \in Intents /\ Settled(s)
    BY <2>1 DEF Rows, IInv, SettlementTypeOK
  <2>2. EntriesFollowPayout
    BY <2>1 DEF EntriesFollowPayout, Booked, Settled, EntryOK
  <2>3. OutcomeIsRecorded
    BY <2>1 DEF OutcomeIsRecorded, Booked, Settled, EntryOK, EndOK
  <2> QED BY <2>2, <2>3 DEF SettlementRecord
<1> QED BY <1>1, InitInv, NextInv, PTL DEF Spec

-----------------------------------------------------------------------------

\* What each of three checks establishes if it finds nothing.
EverySettledHasRow == \A i \in SettledIntents : \E s \in Rows : intent_id[s] = i
RowsDiffer == \A s, r \in record.rows : intent_id[s] = intent_id[r] => s = r
CompletedAreBooked ==
  \A s \in record.completed :
    status[s] = "COMPLETED" => \E r \in Rows : intent_id[r] = intent_id[s] /\ Booked(r)

\* The record of a report, and what the checks so far established unless they found something.
ReportInv ==
  /\ check \in 0 .. 6 /\ record \in Records
  /\ record.rows \subseteq Rows
  /\ record.completed \subseteq {s \in Rows : completed_at[s]}
  /\ check > 1 /\ found = {} => EverySettledHasRow
  /\ check > 3 /\ found = {} => RowsDiffer
  /\ check > 4 /\ found = {} => CompletedAreBooked
  /\ check > 0 => record.status = "IN_PROGRESS"
  /\ Clean => EverySettledHasRow /\ RowsDiffer /\ CompletedAreBooked

LEMMA Order ==
  /\ Len(Checks) = 6
  /\ Checks[1] = "missing_settlements" /\ Checks[2] = "amounts" /\ Checks[3] = "duplicates"
  /\ Checks[4] = "missing_ledger" /\ Checks[5] = "fx"
  BY DEF Checks

\* While settlements go on, rows stay, their intents stay and the ledger grows; and a row that
\* completed once does not complete again.
LEMMA SettlementsGoOn ==
  ASSUME IInv, [SettlementNext]_settlementVars, NEW s \in Rows
  PROVE  /\ s \in Rows' /\ intent_id'[s] = intent_id[s]
         /\ completed_at[s] =>
              completed_at'[s] /\ (status'[s] = "COMPLETED" => status[s] = "COMPLETED")
         /\ Booked(s) => Booked(s)'
<1>1. Settled(s) /\ SettlementTypeOK /\ s \in Settlements /\ intent_id[s] # None
  BY DEF IInv, Rows
<1>2. pc[s] # "idle"
  BY <1>1 DEF Settled, CallOK
<1>3. intent_id'[s] = intent_id[s] /\ ledger \subseteq ledger'
  BY <1>1, <1>2
     DEF SettlementNext, settlementVars, row, CallStep, settleIntent, insertThrows,
         executeTransaction, executeTransactionThrows, SetProcessing, waitForConfirmation,
         SetCompleted, recordFee, recordSettlement, StepThrows, CommittedStepThrows,
         WriteProcessing, WriteCompleted, WriteFee, WriteSettlement, handleSettlementFailure,
         failureHandlerThrows, retrySettlement, Crash, Mine, Deepen, SettlementTypeOK
<1>4. ASSUME completed_at[s]
      PROVE  completed_at'[s] /\ (status'[s] = "COMPLETED" => status[s] = "COMPLETED")
  <2>1. pc[s] \in {"fee", "entry", "failure", "ended"}
    BY <1>1, <1>4 DEF Settled, CallOK
  <2> QED
    BY <1>1, <1>4, <2>1
       DEF SettlementNext, settlementVars, row, CallStep, settleIntent, insertThrows,
           executeTransaction, executeTransactionThrows, SetProcessing, waitForConfirmation,
           SetCompleted, recordFee, recordSettlement, StepThrows, CommittedStepThrows,
           WriteProcessing, WriteCompleted, WriteFee, WriteSettlement, handleSettlementFailure,
           failureHandlerThrows, retrySettlement, Crash, Mine, Deepen, SettlementTypeOK, update
<1> QED BY <1>1, <1>3, <1>4 DEF Rows, Booked

LEMMA ReportOutlivesSettlements ==
  ASSUME IInv, ReportInv, [SettlementNext]_settlementVars, UNCHANGED <<record, check, found>>
  PROVE  ReportInv'
<1>1. ASSUME EverySettledHasRow PROVE EverySettledHasRow'
  BY <1>1, SettlementsGoOn DEF EverySettledHasRow
<1>2. ASSUME RowsDiffer PROVE RowsDiffer'
  BY <1>2, SettlementsGoOn DEF RowsDiffer, ReportInv
<1>3. ASSUME CompletedAreBooked PROVE CompletedAreBooked'
  <2>1. SUFFICES ASSUME NEW s \in record.completed, status'[s] = "COMPLETED"
                 PROVE  \E r \in Rows' : intent_id'[r] = intent_id'[s] /\ Booked(r)'
    BY DEF CompletedAreBooked
  <2>2. s \in Rows /\ completed_at[s]
    BY DEF ReportInv
  <2>3. status[s] = "COMPLETED" /\ intent_id'[s] = intent_id[s]
    BY <2>1, <2>2, SettlementsGoOn
  <2>4. PICK r \in Rows : intent_id[r] = intent_id[s] /\ Booked(r)
    BY <1>3, <2>3 DEF CompletedAreBooked
  <2> QED BY <2>3, <2>4, SettlementsGoOn
<1>4. Rows \subseteq Rows' /\ \A s \in Rows : completed_at[s] => completed_at'[s]
  BY SettlementsGoOn
<1> QED BY <1>1, <1>2, <1>3, <1>4 DEF ReportInv, Clean

\* An empty answer of a query is what the check is for.
LEMMA NothingFound ==
  ASSUME IInv, ReportInv
  PROVE  /\ checkMissingSettlements = {} => EverySettledHasRow
         /\ checkDuplicateSettlements = {} => RowsDiffer
         /\ checkMissingLedgerEntries = {} => CompletedAreBooked
<1>1. checkMissingSettlements = {} => EverySettledHasRow
  BY DEF checkMissingSettlements, EverySettledHasRow
<1>2. checkDuplicateSettlements = {} => RowsDiffer
  BY DEF checkDuplicateSettlements, RowsDiffer, CreatedInPeriod
<1>3. ASSUME checkMissingLedgerEntries = {} PROVE CompletedAreBooked
  <2>1. SUFFICES ASSUME NEW s \in record.completed, status[s] = "COMPLETED"
                 PROVE  \E r \in Rows : intent_id[r] = intent_id[s] /\ Booked(r)
    BY DEF CompletedAreBooked
  <2>2. PICK e \in ledger : e.entry_type = "SETTLEMENT" /\ e.intent_id = intent_id[s]
    BY <1>3, <2>1 DEF checkMissingLedgerEntries, CompletedInPeriod
  <2>3. PICK i \in Intents, r \in Settlements : e = SettlementEntry(i, r)
    BY <2>2, Others
       DEF IInv, SettlementTypeOK, EntrySet, FeeEntry, SettlementEntry, Entry
  <2>4. i = intent_id[s]
    BY <2>2, <2>3 DEF SettlementEntry, Entry
  <2>5. intent_id[r] = i
    BY <2>3 DEF IInv, Settled, EntryOK
  <2>6. r \in Rows /\ Booked(r)
    BY <2>2, <2>3, <2>5, SettlementAssumption DEF Rows, Booked
  <2> QED BY <2>4, <2>5, <2>6
<1> QED BY <1>1, <1>2, <1>3

\* Every step of a report.
LEMMA ReportKeeps ==
  ASSUME IInv, ReportInv, runReconciliation \/ ReportStep \/ reportThrows
  PROVE  ReportInv'
<1>1. UNCHANGED <<row, ledger>>
  BY DEF runReconciliation, ReportStep, RunCheck, updateRecord, reportThrows, settlementVars
<1>2. Rows' = Rows /\ \A s \in Settlements : Booked(s)' <=> Booked(s)
  BY <1>1 DEF row, Rows, Booked
<1>3. ASSUME record'.rows = record.rows PROVE RowsDiffer' <=> RowsDiffer
  BY <1>1, <1>3 DEF row, RowsDiffer
<1>4. ASSUME record'.completed = record.completed
      PROVE  CompletedAreBooked' <=> CompletedAreBooked
  BY <1>1, <1>2, <1>4 DEF row, CompletedAreBooked, Rows
<1>5. EverySettledHasRow' <=> EverySettledHasRow
  BY <1>1, <1>2 DEF row, EverySettledHasRow
<1>6. CASE runReconciliation
  <2>1. /\ record' \in Records /\ record'.status = "IN_PROGRESS" /\ check' = 1
        /\ record'.rows = Rows /\ record'.completed = {s \in Rows : completed_at[s]}
    BY <1>6 DEF runReconciliation, Records, Rows
  <2> QED BY <1>1, <1>2, <2>1 DEF ReportInv, Clean, row
<1>7. CASE RunCheck
  <2>1. check \in 1 .. 5 /\ check' = check + 1 /\ record' = record
        /\ found' = found \cup Findings(Checks[check])
    BY <1>7, Order DEF RunCheck
  <2>2. ASSUME found' = {} PROVE found = {} /\ Findings(Checks[check]) = {}
    BY <2>1, <2>2
  <2>3. check = 1 /\ found' = {} => EverySettledHasRow
    BY <2>2, Order, NothingFound DEF Findings
  <2>4. check = 3 /\ found' = {} => RowsDiffer
    BY <2>2, Order, NothingFound DEF Findings
  <2>5. check = 4 /\ found' = {} => CompletedAreBooked
    BY <2>2, Order, NothingFound DEF Findings
  <2>6. /\ check' > 1 /\ found' = {} => EverySettledHasRow
        /\ check' > 3 /\ found' = {} => RowsDiffer
        /\ check' > 4 /\ found' = {} => CompletedAreBooked
    BY <2>1, <2>2, <2>3, <2>4, <2>5 DEF ReportInv
  <2> QED BY <1>1, <1>2, <1>3, <1>4, <1>5, <2>1, <2>6 DEF ReportInv, Clean, row
<1>8. CASE updateRecord
  <2>1. /\ check = 6 /\ check' = 0 /\ found' = found /\ record' \in Records
        /\ record'.rows = record.rows /\ record'.completed = record.completed
        /\ record'.status = "COMPLETED" => found = {}
    BY <1>8, Order DEF updateRecord, ReportInv, Records
  <2> QED BY <1>1, <1>2, <1>3, <1>4, <1>5, <2>1 DEF ReportInv, Clean, row
<1>9. CASE reportThrows
  <2>1. check > 0 /\ check' = 0 /\ record' = record /\ found' = found
    BY <1>9 DEF reportThrows
  <2> QED BY <1>1, <1>2, <1>3, <1>4, <1>5, <2>1 DEF ReportInv, Clean, row
<1> QED BY <1>6, <1>7, <1>8, <1>9 DEF ReportStep

\* The record stays true while the report and the settlements go on.
LEMMA NextReport == IInv /\ ReportInv /\ [Next]_vars => ReportInv'
<1>1. UNCHANGED vars => UNCHANGED settlementVars /\ UNCHANGED <<record, check, found>>
  BY DEF vars, reportVars
<1>2. SettlementNext /\ UNCHANGED reportVars => UNCHANGED <<record, check, found>>
  BY DEF reportVars
<1> QED BY <1>1, <1>2, ReportOutlivesSettlements, ReportKeeps DEF Next

\* However settlements begin, complete, fail and are booked between its queries: a report
\* without discrepancies vouches for what existed when it began
\* (reconciliation.service.ts:51-104).
THEOREM CleanReportsAreSound == Spec => []CleanReportIsSound
<1>1. Init => ReportInv
  BY DEF Init, ReportInv, Records, Clean
<1>2. ReportInv => CleanReportIsSound
  BY DEF ReportInv, CleanReportIsSound, EverySettledHasRow, RowsDiffer, CompletedAreBooked
<1> QED BY <1>1, <1>2, NextReport, InitInv, NextInv, PTL DEF Spec

-----------------------------------------------------------------------------

\* The checks report intents, under the names of five discrepancies.
LEMMA FindingsAreDiscrepancies ==
  ASSUME IInv, ReportInv, check \in 1 .. 5
  PROVE  Findings(Checks[check]) \subseteq Discrepancies
<1>1. /\ Rows \subseteq Settlements /\ record.rows \subseteq Settlements
      /\ CompletedInPeriod \subseteq Settlements
      /\ \A s \in Settlements : intent_id[s] \in Intents \cup {None}
  BY DEF Rows, ReportInv, CompletedInPeriod, IInv, SettlementTypeOK
<1>2. checkMissingSettlements \subseteq Discrepancies
  BY ReconciliationAssumption DEF checkMissingSettlements, Discrepancies
<1>3. checkAmountMismatches \subseteq Discrepancies
  BY <1>1 DEF checkAmountMismatches, Discrepancies
<1>4. checkDuplicateSettlements \subseteq Discrepancies
  BY <1>1 DEF checkDuplicateSettlements, CreatedInPeriod, Discrepancies
<1>5. checkMissingLedgerEntries \subseteq Discrepancies
  BY <1>1 DEF checkMissingLedgerEntries, Discrepancies
<1>6. checkFxGainLoss \subseteq Discrepancies
  BY DEF checkFxGainLoss, Discrepancies
<1>7. check = 1 \/ check = 2 \/ check = 3 \/ check = 4 \/ check = 5
  OBVIOUS
<1> QED BY <1>2, <1>3, <1>4, <1>5, <1>6, <1>7, Order DEF Findings

\* The columns, the calls, the ledger and the report have their types: the ledger has no
\* entries but those of the three operations that write it (ledger.service.ts).
THEOREM TypeCorrect == Spec => []TypeOK
<1> DEFINE FoundOK == found \subseteq Discrepancies /\ reports \in Nat
<1>1. Init => IInv /\ ReportInv /\ FoundOK
  BY InitInv DEF Init, ReportInv, Records, Clean
<1>2. IInv /\ ReportInv /\ FoundOK /\ [Next]_vars => FoundOK'
  <2> SUFFICES ASSUME IInv, ReportInv, FoundOK, [Next]_vars PROVE FoundOK'
    OBVIOUS
  <2>1. CASE RunCheck
    <3>1. check \in 1 .. 5 /\ found' = found \cup Findings(Checks[check]) /\ reports' = reports
      BY <2>1, Order DEF RunCheck
    <3> QED BY <3>1, FindingsAreDiscrepancies
  <2>2. CASE runReconciliation
    BY <2>2 DEF runReconciliation
  <2>3. CASE updateRecord \/ reportThrows \/ UNCHANGED reportVars
    BY <2>3 DEF updateRecord, reportThrows, reportVars
  <2> QED BY <2>1, <2>2, <2>3 DEF Next, ReportStep, vars
<1>3. IInv /\ ReportInv /\ FoundOK => TypeOK
  BY Order DEF IInv, ReportInv, TypeOK
<1> QED BY <1>1, <1>2, <1>3, NextReport, NextInv, PTL DEF Spec

-----------------------------------------------------------------------------
(* The sums of the books and of the table. *)

\* The ledger holds what others wrote and, for rows of the table, their fee and their payout.
Written(s) == {FeeEntry(intent_id[s], s), SettlementEntry(intent_id[s], s)}

BooksInv ==
  /\ IsFiniteSet(Rows) /\ IsFiniteSet(ledger)
  /\ OtherEntries \subseteq ledger
  /\ \A e \in ledger \ OtherEntries : \E s \in Rows : e \in Written(s)

LEMMA InitBooks == Init => BooksInv
<1> SUFFICES ASSUME Init PROVE BooksInv
  OBVIOUS
<1>1. Rows = {} /\ ledger = OtherEntries
  BY DEF Init, SettlementInit, Rows
<1> QED BY <1>1, OtherEntriesAssumption, FS_EmptySet DEF BooksInv

\* A step inserts a row, writes an entry of a row, or does neither.
LEMMA BooksStep ==
  ASSUME IInv, [SettlementNext]_settlementVars
  PROVE  \/ /\ ledger' = ledger
            /\ \E s \in Settlements \ Rows,
                i \in Intents : intent_id' = [intent_id EXCEPT ![s] = i]
         \/ /\ intent_id' = intent_id
            /\ \E s \in Rows : \E e \in Written(s) : ledger' = ledger \cup {e}
         \/ intent_id' = intent_id /\ ledger' = ledger
<1>0. ASSUME NEW s \in Settlements, pc[s] = "idle" \/ intent_id[s] = None
      PROVE  s \notin Rows /\ pc[s] = "idle"
  BY <1>0 DEF IInv, Settled, CallOK, Rows
<1>1. ASSUME NEW s \in Settlements, NEW i \in Intents, settleIntent(s, i) \/ insertThrows(s, i)
      PROVE  /\ ledger' = ledger /\ s \in Settlements \ Rows
             /\ intent_id' = [intent_id EXCEPT ![s] = i]
  BY <1>0, <1>1 DEF settleIntent, insertThrows
<1>2. ASSUME NEW s \in Settlements, pc[s] \in {"fee", "entry"}, WriteFee(s) \/ WriteSettlement(s)
      PROVE  /\ intent_id' = intent_id /\ s \in Rows
             /\ \E e \in Written(s) : ledger' = ledger \cup {e}
  BY <1>0, <1>2 DEF WriteFee, WriteSettlement, row, Written, Rows
<1>3. ASSUME NEW s \in Settlements,
             executeTransaction(s) \/ executeTransactionThrows(s) \/ SetProcessing(s)
               \/ waitForConfirmation(s) \/ SetCompleted(s) \/ StepThrows(s)
               \/ handleSettlementFailure(s) \/ failureHandlerThrows(s)
               \/ retrySettlement(s) \/ Mine(s) \/ Deepen(s)
      PROVE  intent_id' = intent_id /\ ledger' = ledger
  BY <1>3 DEF executeTransaction, executeTransactionThrows, SetProcessing, WriteProcessing,
              waitForConfirmation, SetCompleted, WriteCompleted, StepThrows,
              handleSettlementFailure, failureHandlerThrows, retrySettlement, Mine, Deepen, row
<1>4. CASE Crash \/ UNCHANGED settlementVars
  BY <1>4 DEF Crash, settlementVars, row
<1>5. ASSUME NEW s \in Settlements, CommittedStepThrows(s), ~(WriteFee(s) \/ WriteSettlement(s))
             \/ pc[s] \notin {"fee", "entry"}
      PROVE  intent_id' = intent_id /\ ledger' = ledger
  BY <1>5 DEF CommittedStepThrows, WriteProcessing, WriteCompleted
<1>6. ASSUME NEW s \in Settlements, recordFee(s) \/ recordSettlement(s)
      PROVE  pc[s] \in {"fee", "entry"} /\ (WriteFee(s) \/ WriteSettlement(s))
  BY <1>6 DEF recordFee, recordSettlement
<1> QED BY <1>1, <1>2, <1>3, <1>4, <1>5, <1>6 DEF SettlementNext, CallStep

LEMMA NextBooks == IInv /\ BooksInv /\ [Next]_vars => BooksInv'
<1> SUFFICES ASSUME IInv, BooksInv, [Next]_vars PROVE BooksInv'
  OBVIOUS
<1>0. intent_id \in [Settlements -> Intents \cup {None}] /\ None \notin Intents
  BY SettlementAssumption DEF IInv, SettlementTypeOK
<1>1. CASE intent_id' = intent_id /\ ledger' = ledger
  BY <1>1 DEF BooksInv, Rows, Written
<1>2. ASSUME NEW s \in Settlements \ Rows, NEW i \in Intents,
             intent_id' = [intent_id EXCEPT ![s] = i], ledger' = ledger
      PROVE  BooksInv'
  <2>1. Rows' = Rows \cup {s} /\ \A r \in Rows : intent_id'[r] = intent_id[r]
    BY <1>0, <1>2 DEF Rows
  <2>2. IsFiniteSet(Rows')
    BY <2>1, FS_AddElement DEF BooksInv
  <2> QED BY <1>2, <2>1, <2>2 DEF BooksInv, Written
<1>3. ASSUME NEW s \in Rows, NEW e \in Written(s), intent_id' = intent_id,
             ledger' = ledger \cup {e}
      PROVE  BooksInv'
  <2>1. IsFiniteSet(ledger') /\ Rows' = Rows
    BY <1>3, FS_AddElement DEF BooksInv, Rows
  <2> QED BY <1>3, <2>1 DEF BooksInv, Written
<1>4. CASE SettlementNext \/ UNCHANGED settlementVars
  BY <1>1, <1>2, <1>3, <1>4, BooksStep
<1>5. CASE runReconciliation \/ ReportStep \/ reportThrows
  BY <1>1, <1>5
     DEF runReconciliation, ReportStep, RunCheck, updateRecord, reportThrows, settlementVars, row
<1> QED BY <1>4, <1>5 DEF Next, vars

\* An amount is a number between nothing and its target: what is left is the fee.
LEMMA Divide ==
  /\ \A p, t \in Nat : p <= 10000 * t =>
       (2 * p + 10000) \div 20000 \in Nat /\ (2 * p + 10000) \div 20000 <= t
  /\ \A t \in Nat : (2 * (t * 10000) + 10000) \div 20000 = t
OBVIOUS

LEMMA Share ==
  \A t \in Nat, f \in 0 .. 10000 : t * (10000 - f) \in Nat /\ t * (10000 - f) <= 10000 * t
OBVIOUS

LEMMA AmountBound ==
  ASSUME NEW i \in Intents
  PROVE  /\ Amount(i) \in Nat /\ Amount(i) <= target_amount[i] /\ target_amount[i] \in Nat
         /\ fee_percentage = 0 => Amount(i) = target_amount[i]
<1> DEFINE t == target_amount[i]
<1>1. t \in Nat /\ fee_percentage \in 0 .. 10000
  BY SettlementAssumption
<1>2. Amount(i) = (2 * (t * (10000 - fee_percentage)) + 10000) \div 20000
  BY DEF Amount, calculateSettlementAmount
<1> HIDE DEF t
<1> DEFINE p == t * (10000 - fee_percentage)
<1>3. p \in Nat /\ p <= 10000 * t
  BY <1>1, Share
<1>4. Amount(i) = (2 * p + 10000) \div 20000
  BY <1>2
<1> HIDE DEF p
<1>5. Amount(i) \in Nat /\ Amount(i) <= t
  BY <1>1, <1>3, <1>4, Divide
<1>6. fee_percentage = 0 => Amount(i) = t
  BY <1>1, <1>2, Divide
<1> QED BY <1>1, <1>5, <1>6 DEF t

-----------------------------------------------------------------------------

\* What the entries of the ledger are to the merchant.
OfType(type) == {e \in ledger : e.entry_type = type}
Value == [e \in ledger |-> e.amount]

LEMMA RowFacts ==
  ASSUME IInv, NEW s \in Rows
  PROVE  /\ s \in Settlements /\ intent_id[s] \in Intents /\ Settled(s)
         /\ Paid[s] = Amount(intent_id[s])
BY DEF IInv, SettlementTypeOK, Rows, Paid

LEMMA EntryFacts ==
  ASSUME IInv, BooksInv, NEW e \in ledger
  PROVE  /\ e.amount \in Int
         /\ e.debit_account = Merchant <=> e.entry_type \in {"FEE", "REFUND"}
         /\ e.credit_account = Merchant <=> e.entry_type = "SETTLEMENT"
         /\ e.entry_type = "FEE" => e.amount \in Nat
<1>1. CASE e \in OtherEntries
  BY <1>1, Others
<1>2. ASSUME NEW s \in Rows, e \in Written(s)
      PROVE  /\ e.amount \in Int
             /\ e.debit_account = Merchant <=> e.entry_type \in {"FEE", "REFUND"}
             /\ e.credit_account = Merchant <=> e.entry_type = "SETTLEMENT"
             /\ e.entry_type = "FEE" => e.amount \in Nat
  <2> DEFINE i == intent_id[s]
  <2>1. /\ Amount(i) \in Nat /\ target_amount[i] \in Nat
        /\ target_amount[i] - Amount(i) \in Nat
    BY RowFacts, AmountBound
  <2> HIDE DEF i
  <2>2. e = FeeEntry(i, s) \/ e = SettlementEntry(i, s)
    BY <1>2 DEF Written, i
  <2> USE DEF Entry, Merchant, Fees, Pending
  <2>3. CASE e = FeeEntry(i, s)
    BY <2>1, <2>3 DEF FeeEntry
  <2>4. CASE e = SettlementEntry(i, s)
    BY <2>1, <2>4 DEF SettlementEntry
  <2> QED BY <2>2, <2>3, <2>4
<1> QED BY <1>1, <1>2 DEF BooksInv

LEMMA BookSums ==
  ASSUME IInv, BooksInv, NEW E \in SUBSET ledger
  PROVE  /\ IsFiniteSet(E) /\ SumOf(E) = SumOver(Value, E) /\ SumOf(E) \in Int
         /\ \A e \in E : Value[e] = e.amount /\ Value[e] \in Int
<1>1. IsFiniteSet(E)
  BY FS_Subset DEF BooksInv
<1>2. \A e \in E : Value[e] = e.amount /\ Value[e] \in Int
  BY EntryFacts DEF Value
<1>3. SumOf(E) = SumOver(Value, E)
  <2>1. \A e \in E : [d \in E |-> d.amount][e] = Value[e]
    BY <1>2
  <2> QED BY <1>1, <2>1, SumAgrees DEF SumOf
<1>4. SumOver(Value, E) \in Int
  BY <1>1, <1>2, SumType
<1> QED BY <1>1, <1>2, <1>3, <1>4

\* The merchant's balance is what its entries come to, at any time.
LEMMA BalanceOfTypes ==
  ASSUME IInv, BooksInv
  PROVE  /\ getBalance(Merchant) = totalFeesUsd + refunded - SumOf(OfType("SETTLEMENT"))
         /\ closing_balance(Merchant) = getBalance(Merchant)
<1> DEFINE D == {e \in ledger : e.debit_account = Merchant}
           C == {e \in ledger : e.credit_account = Merchant}
<1>1. C = OfType("SETTLEMENT")
  BY EntryFacts DEF OfType
<1>2. D \cap OfType("FEE") = OfType("FEE") /\ D \ OfType("FEE") = OfType("REFUND")
  BY EntryFacts DEF OfType
<1>3. SumOf(D) = SumOf(OfType("FEE")) + SumOf(OfType("REFUND"))
  <2>1. D \in SUBSET ledger
    OBVIOUS
  <2>2. OfType("FEE") \in SUBSET ledger /\ OfType("REFUND") \in SUBSET ledger
    BY DEF OfType
  <2> HIDE DEF D
  <2>3. SumOver(Value, D) = SumOver(Value, D \cap OfType("FEE")) + SumOver(Value, D \ OfType("FEE"))
    BY <2>1, BookSums, SumParts
  <2> QED BY <1>2, <2>1, <2>2, <2>3, BookSums
<1>4. getBalance(Merchant) = SumOf(D) - SumOf(C)
  BY DEF getBalance, DebitsOf
<1>5. closing_balance(Merchant) = SumOf(D) - SumOf(C)
  <2> DEFINE E == {e \in ledger : Merchant \in {e.debit_account, e.credit_account}}
  <2>1. {e \in E : e.debit_account = Merchant} = D /\ {e \in E : e.credit_account = Merchant} = C
    OBVIOUS
  <2>2. closing_balance(Merchant) = SumOf({e \in E : e.debit_account = Merchant})
                                      - SumOf({e \in E : e.credit_account = Merchant})
    BY DEF closing_balance
  <2> HIDE DEF E, D, C
  <2> QED BY <2>1, <2>2
<1>6. totalFeesUsd = SumOf(OfType("FEE")) /\ refunded = SumOf(OfType("REFUND"))
  BY DEF totalFeesUsd, getTotalFees, refunded, OfType
<1> HIDE DEF D, C
<1>7. SumOf(D) = totalFeesUsd + refunded
  BY <1>3, <1>6, Zenon
<1>8. getBalance(Merchant) = totalFeesUsd + refunded - SumOf(OfType("SETTLEMENT"))
  <2>1. \A type : OfType(type) \in SUBSET ledger
    BY DEF OfType
  <2>2. totalFeesUsd \in Int /\ refunded \in Int /\ SumOf(OfType("SETTLEMENT")) \in Int
    BY <1>6, <2>1, BookSums
  <2>3. \A i, j, k \in Int : (i + j) - k = i + j - k
    OBVIOUS
  <2>4. getBalance(Merchant) = (totalFeesUsd + refunded) - SumOf(OfType("SETTLEMENT"))
    BY <1>1, <1>4, <1>7, Zenon
  <2> QED BY <2>2, <2>3, <2>4
<1> QED BY <1>4, <1>5, <1>8, Zenon

Entered == {s \in Rows : Booked(s)}

\* The entries that credit the merchant are those of the rows that are booked, one for each.
LEMMA EnteredRows ==
  ASSUME IInv, BooksInv
  PROVE  /\ OfType("SETTLEMENT") = {SettlementEntry(intent_id[s], s) : s \in Entered}
         /\ fee_percentage > 0 => \A s \in Entered : FeeTaken(s)
<1>1. ASSUME NEW e \in OfType("SETTLEMENT")
      PROVE  \E s \in Entered : e = SettlementEntry(intent_id[s], s)
  <2>1. e \in ledger /\ e.entry_type = "SETTLEMENT" /\ e \notin OtherEntries
    BY Others DEF OfType
  <2>2. PICK s \in Rows : e \in Written(s)
    BY <2>1 DEF BooksInv
  <2>3. e = SettlementEntry(intent_id[s], s)
    BY <2>1, <2>2 DEF Written, FeeEntry, Entry
  <2> QED BY <2>1, <2>3 DEF Entered, Booked
<1>2. ASSUME NEW s \in Entered PROVE SettlementEntry(intent_id[s], s) \in OfType("SETTLEMENT")
  BY DEF Entered, Booked, OfType, SettlementEntry, Entry
<1>3. ASSUME NEW s \in Entered, fee_percentage > 0 PROVE FeeTaken(s)
  BY <1>3, RowFacts DEF Entered, Booked, Settled, EntryOK
<1> QED BY <1>1, <1>2, <1>3

\* A row and its entry part only where a call is under way, was cut off or disowned the entry.
LEMMA DriftIsBounded ==
  ASSUME IInv
  PROVE  /\ \A s \in Unbooked : pc[s] # "ended" \/ s \in broken
         /\ Uncounted \subseteq disowned
<1>1. ASSUME NEW s \in Unbooked PROVE pc[s] # "ended" \/ s \in broken
  <2>1. s \in Rows /\ status[s] = "COMPLETED" /\ ~Booked(s)
    BY DEF Unbooked, Completed
  <2> QED BY <2>1, RowFacts DEF Settled, EndOK, Booked
<1>2. ASSUME NEW s \in Uncounted PROVE s \in disowned
  <2>1. s \in Rows /\ status[s] # "COMPLETED" /\ Booked(s)
    BY DEF Uncounted, Completed
  <2> QED BY <2>1, RowFacts DEF Settled, EntryOK, Booked
<1> QED BY <1>1, <1>2

\* But for these rows, table and ledger say the same of what was settled.
LEMMA SettledSums ==
  ASSUME IInv, BooksInv
  PROVE  /\ SumOf(OfType("SETTLEMENT")) + SumOver(Paid, Unbooked)
              = byMerchant + SumOver(Paid, Uncounted)
         /\ byMerchant <= totalSettledUsd
<1>1. /\ Completed \in SUBSET Rows /\ Entered \in SUBSET Rows
      /\ IsFiniteSet(Completed) /\ IsFiniteSet(Entered) /\ IsFiniteSet(Rows)
  BY FS_Subset DEF Completed, Entered, BooksInv
<1>2. \A s \in Rows : Paid[s] \in Nat
  BY RowFacts, AmountBound
<1>3. byMerchant <= totalSettledUsd
  BY <1>1, <1>2, SumGrows DEF byMerchant, totalSettledUsd
<1> DEFINE m == [s \in Entered |-> SettlementEntry(intent_id[s], s)]
<1>4. OfType("SETTLEMENT") = {m[s] : s \in Entered} /\ OfType("SETTLEMENT") \in SUBSET ledger
  BY EnteredRows DEF OfType
<1>5. ASSUME NEW s \in Entered PROVE Paid[s] \in Int /\ Value[m[s]] = Paid[s]
  <2>1. m[s].amount = Paid[s]
    BY <1>1, RowFacts DEF SettlementEntry, Entry
  <2> QED BY <1>1, <1>2, <1>4, <2>1, BookSums
<1>6. \A s, r \in Entered : m[s] = m[r] => s = r
  BY <1>1, RowFacts, EntriesDiffer
<1> HIDE DEF m
<1>7. SumOver(Value, {m[s] : s \in Entered}) = SumOver(Paid, Entered)
  BY <1>1, <1>5, <1>6, SumImage
<1>8. SumOf(OfType("SETTLEMENT")) = SumOver(Paid, Entered)
  BY <1>4, <1>7, BookSums
<1>9. /\ Entered \cap Completed = Completed \cap Entered
      /\ Entered \ Completed = Uncounted /\ Completed \ Entered = Unbooked
  BY DEF Entered, Completed, Uncounted, Unbooked
<1>10. /\ SumOver(Paid, Entered)
             = SumOver(Paid, Entered \cap Completed) + SumOver(Paid, Entered \ Completed)
       /\ SumOver(Paid, Completed)
             = SumOver(Paid, Completed \cap Entered) + SumOver(Paid, Completed \ Entered)
  <2>1. ASSUME NEW S \in SUBSET Rows, NEW A
        PROVE  SumOver(Paid, S) = SumOver(Paid, S \cap A) + SumOver(Paid, S \ A)
    <3>1. IsFiniteSet(S) /\ \A x \in S : Paid[x] \in Int
      BY <1>1, <1>2, FS_Subset
    <3> QED BY <3>1, SumParts
  <2> QED BY <1>1, <2>1
<1>11. /\ SumOver(Paid, Entered \cap Completed) \in Int
       /\ SumOver(Paid, Uncounted) \in Int /\ SumOver(Paid, Unbooked) \in Int
  <2>1. \A T \in SUBSET Rows : SumOver(Paid, T) \in Nat
    BY <1>1, <1>2, SumGrows
  <2>2. Entered \cap Completed \in SUBSET Rows /\ Uncounted \in SUBSET Rows
        /\ Unbooked \in SUBSET Rows
    BY <1>1, <1>9
  <2> QED BY <2>1, <2>2
<1>12. \A e, c, i, u, b \in Int : e = i + u /\ c = i + b => e + b = c + u
  OBVIOUS
<1>13. byMerchant = SumOver(Paid, Completed)
  BY DEF byMerchant
<1>14. SumOf(OfType("SETTLEMENT")) + SumOver(Paid, Unbooked)
         = byMerchant + SumOver(Paid, Uncounted)
  <2>1. /\ SumOver(Paid, Entered) = SumOver(Paid, Entered \cap Completed) + SumOver(Paid, Uncounted)
        /\ SumOver(Paid, Completed) = SumOver(Paid, Entered \cap Completed) + SumOver(Paid, Unbooked)
    BY <1>9, <1>10, Zenon
  <2>2. SumOver(Paid, Entered) \in Int /\ SumOver(Paid, Completed) \in Int
    BY <1>11, <2>1
  <2>3. SumOver(Paid, Entered) + SumOver(Paid, Unbooked)
          = SumOver(Paid, Completed) + SumOver(Paid, Uncounted)
    BY <1>11, <1>12, <2>1, <2>2
  <2> QED BY <1>8, <1>13, <2>3, Zenon
<1> QED BY <1>3, <1>14

\* The fees of what the ledger credits were taken.
LEMMA FeeSums ==
  ASSUME IInv, BooksInv
  PROVE  totalFeesUsd >= SumOver(fee, Entered)
<1>1. Entered \subseteq Rows /\ IsFiniteSet(Entered)
  BY FS_Subset DEF Entered, BooksInv
<1>2. \A s \in Entered : /\ fee[s] = target_amount[intent_id[s]] - Amount(intent_id[s])
                         /\ fee[s] \in Nat /\ (fee_percentage = 0 => fee[s] = 0)
  BY <1>1, RowFacts, AmountBound DEF fee
<1>3. /\ OfType("FEE") \in SUBSET ledger /\ IsFiniteSet(OfType("FEE"))
      /\ totalFeesUsd = SumOver(Value, OfType("FEE"))
      /\ \A e \in OfType("FEE") : Value[e] = e.amount /\ Value[e] \in Nat
  <2>1. OfType("FEE") \in SUBSET ledger
    BY DEF OfType
  <2> QED BY <2>1, BookSums, EntryFacts DEF totalFeesUsd, getTotalFees, OfType
<1>4. CASE fee_percentage > 0
  <2> DEFINE m == [s \in Entered |-> FeeEntry(intent_id[s], s)]
  <2>1. \A s \in Entered : m[s] \in OfType("FEE")
    BY <1>4, EnteredRows DEF FeeTaken, OfType, FeeEntry, Entry
  <2>2. \A s \in Entered : fee[s] \in Int /\ Value[m[s]] = fee[s]
    BY <1>2, <1>3, <2>1 DEF FeeEntry, Entry
  <2>3. \A s, r \in Entered : m[s] = m[r] => s = r
    BY DEF FeeEntry, Entry
  <2> HIDE DEF m
  <2>4. SumOver(Value, {m[s] : s \in Entered}) = SumOver(fee, Entered)
    BY <1>1, <2>2, <2>3, SumImage
  <2>5. {m[s] : s \in Entered} \in SUBSET OfType("FEE")
    BY <2>1
  <2>6. /\ SumOver(Value, {m[s] : s \in Entered}) \in Nat
        /\ SumOver(Value, {m[s] : s \in Entered}) <= SumOver(Value, OfType("FEE"))
    BY <1>3, <2>5, SumGrows
  <2>7. totalFeesUsd \in Int
    BY <1>3, SumType
  <2>8. SumOver(fee, Entered) <= totalFeesUsd /\ SumOver(fee, Entered) \in Nat
    BY <1>3, <2>4, <2>6
  <2>9. totalFeesUsd >= SumOver(fee, Entered)
    BY <2>7, <2>8
  <2> QED BY <2>9
<1>5. CASE fee_percentage = 0
  <2>1. \A s \in Entered : fee[s] = 0
    BY <1>2, <1>5
  <2>2. SumOver(fee, Entered) = 0
    BY <1>1, <2>1, SumOfZeros
  <2>3. SumOver(Value, OfType("FEE")) \in Nat
    BY <1>3, SumGrows
  <2>4. totalFeesUsd >= SumOver(fee, Entered)
    BY <1>3, <2>2, <2>3
  <2> QED BY <2>4
<1> QED BY <1>4, <1>5, SettlementAssumption

\* The table of settlements and the ledger are written by separate statements, any of which may
\* throw, committed or not, or be cut off by a crash.  At any time they come to the same sums
\* (what was settled, its fees, the balance of the merchant) but for rows whose call is under way
\* or was cut off, and for entries whose insert was reported as an error
\* (reconciliation.service.ts:437-534, ledger.repository.ts:96-142).
THEOREM BooksAgree == Spec => []ReportsAgreeWithBooks
<1>1. IInv /\ BooksInv => ReportsAgreeWithBooks
  <2> SUFFICES ASSUME IInv, BooksInv PROVE ReportsAgreeWithBooks
    OBVIOUS
  <2>1. /\ OfType("SETTLEMENT") = {e \in ledger : e.entry_type = "SETTLEMENT"}
        /\ Entered = {s \in Rows : Booked(s)}
    BY DEF OfType, Entered
  <2> QED BY <2>1, DriftIsBounded, SettledSums, FeeSums, BalanceOfTypes DEF ReportsAgreeWithBooks
<1> QED BY <1>1, InitInv, NextInv, InitBooks, NextBooks, PTL DEF Spec
=============================================================================
