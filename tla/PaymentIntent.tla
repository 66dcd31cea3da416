--------------------------- MODULE PaymentIntent ---------------------------
(***************************************************************************)
(* The payment intents: rows of payment_intents, their append-only event   *)
(* log, and the operations of PaymentIntentService on them                 *)
(* (packages/payment-intent/src).                                          *)
(*                                                                         *)
(* Callers are the requests of the API gateway and the jobs of the worker. *)
(* An operation is split at its awaits: it reads the row, decides, and     *)
(* writes later, when other callers may have moved the row.  Only          *)
(* transition() validates under the row lock.                              *)
(*                                                                         *)
(* Abstracted: the amount of a transfer to how it compares with the target *)
(* (1% tolerance), time to whether the quote of an intent has expired, and *)
(* a request refused by validation before its first write to no step.      *)
(***************************************************************************)
EXTENDS Naturals, Sequences

CONSTANTS
  Intents,
  Callers,
  Operations,   \* the operations the callers use
  Addresses,    \* deposit addresses a quote may carry
  Transfers,    \* observed on-chain transfers
  AmountOf,     \* "short", "exact" or "excess" for each transfer
  MaxVersion,   \* bound: events in the log of an intent
  None

ASSUME ConstantsAssumption ==
  /\ None \notin Addresses \cup Transfers \cup Intents
  /\ AmountOf \in [Transfers -> {"short", "exact", "excess"}]
  /\ MaxVersion \in Nat

VARIABLES
  state,     \* state column; "ABSENT" while the row does not exist
  version,   \* version column
  deposit,   \* deposit_address column
  quote,     \* quote_expires_at: "none", "live" or "expired"
  log,       \* intent_events of each intent, oldest first
  hooks,     \* webhooks handed to delivery: <<intent, event>>
  call       \* what each caller is doing

rows == <<state, version, deposit, quote, log>>
vars == <<rows, hooks, call>>

States ==
  {"CREATED", "QUOTED", "AWAITING_PAYMENT", "DETECTED", "CONFIRMING", "ROUTING", "SETTLING",
   "SETTLED", "UNDERPAID", "OVERPAID", "MISDIRECTED", "EXPIRED", "REFUNDING", "FAILED"}

VALID_TRANSITIONS ==
       ({"CREATED"} \X {"QUOTED", "EXPIRED", "FAILED"})
  \cup ({"QUOTED"} \X {"AWAITING_PAYMENT", "EXPIRED", "FAILED"})
  \cup ({"AWAITING_PAYMENT"} \X {"DETECTED", "EXPIRED", "FAILED"})
  \cup ({"DETECTED"} \X {"CONFIRMING", "UNDERPAID", "OVERPAID", "MISDIRECTED"})
  \cup ({"CONFIRMING"} \X {"ROUTING", "FAILED"})
  \cup ({"ROUTING"} \X {"SETTLING", "FAILED"})
  \cup ({"SETTLING"} \X {"SETTLED", "FAILED"})
  \cup ({"UNDERPAID"} \X {"AWAITING_PAYMENT", "REFUNDING", "FAILED"})
  \cup ({"OVERPAID"} \X {"SETTLING", "REFUNDING", "FAILED"})
  \cup ({"MISDIRECTED"} \X {"REFUNDING", "FAILED"})
  \cup ({"REFUNDING"} \X {"SETTLED", "FAILED"})

\* Mutant: settlement without confirmation.
IsValidTransition_Shortcut(from, to) ==
  <<from, to>> \in VALID_TRANSITIONS \cup {<<"AWAITING_PAYMENT", "SETTLING">>}

IsValidTransition(from, to) == <<from, to>> \in VALID_TRANSITIONS

\* MISDIRECTED_PAYMENT, REFUND_INITIATED and REFUND_CONFIRMED are left out: no
\* code emits them.
ExpectedNextState ==
  [INTENT_CREATED |-> "CREATED",           QUOTE_GENERATED |-> "QUOTED",
   PAYMENT_AWAITED |-> "AWAITING_PAYMENT", QUOTE_EXPIRED |-> "EXPIRED",
   DEPOSIT_DETECTED |-> "DETECTED",        CONFIRMATION_RECEIVED |-> "CONFIRMING",
   ROUTE_SELECTED |-> "ROUTING",           SETTLEMENT_INITIATED |-> "SETTLING",
   SETTLEMENT_CONFIRMED |-> "SETTLED",     UNDERPAYMENT_DETECTED |-> "UNDERPAID",
   OVERPAYMENT_DETECTED |-> "OVERPAID",    FAILED |-> "FAILED"]

Events == DOMAIN ExpectedNextState
DepositEvents == {"DEPOSIT_DETECTED", "UNDERPAYMENT_DETECTED", "OVERPAYMENT_DETECTED"}
AcceptsDeposit == {"QUOTED", "AWAITING_PAYMENT", "UNDERPAID"}

\* Where a call is: at the await of this name, or nowhere.
PC == {"idle", "quote", "accept", "detect", "transition", "webhook", "sweep"}
Idle == [pc |-> "idle", op |-> None, intent |-> None, event |-> None, arg |-> None,
         seen |-> None, batch |-> {}]

(***************************************************************************)
(* A call remembers its operation, its intent, the event it is about to    *)
(* emit, its address or transfer, the state it read last (seen), and the   *)
(* expired intents still to be swept.                                      *)
(***************************************************************************)
TypeOK ==
  /\ state \in [Intents -> States \cup {"ABSENT"}]
  /\ version \in [Intents -> 0..MaxVersion]
  /\ deposit \in [Intents -> Addresses \cup {None}]
  /\ quote \in [Intents -> {"none", "live", "expired"}]
  /\ log \in [Intents -> Seq([type : Events, by : Addresses \cup Transfers \cup {None}])]
  /\ hooks \subseteq Intents \X Events
  /\ call \in [Callers ->
       [pc : PC, op : Operations \cup {None}, intent : Intents \cup {None},
        event : Events \cup {None}, arg : Addresses \cup Transfers \cup {None},
        seen : States \cup {"ABSENT", None}, batch : SUBSET Intents]]

Init ==
  /\ state = [i \in Intents |-> "ABSENT"]
  /\ version = [i \in Intents |-> 0]
  /\ deposit = [i \in Intents |-> None]
  /\ quote = [i \in Intents |-> "none"]
  /\ log = [i \in Intents |-> <<>>]
  /\ hooks = {}
  /\ call = [c \in Callers |-> Idle]

-----------------------------------------------------------------------------
(* Calls. *)

\* A call starts: its first findById has read the row of i.
Begin(c, op, i, arg, pc, event) ==
  /\ op \in Operations
  /\ call[c].pc = "idle"
  /\ call' = [call EXCEPT ![c] = [pc |-> pc, op |-> op, intent |-> i, event |-> event,
                                  arg |-> arg, seen |-> state[i], batch |-> {}]]

\* It goes on to the await pc, with the event to emit there.
Continue(c, pc, event) ==
  call' = [call EXCEPT ![c].pc = pc, ![c].event = event, ![c].seen = state[call[c].intent]]

Return(c) == call' = [call EXCEPT ![c] = Idle]

\* The sweep catches the errors of one intent and goes on with the next.
ReturnOrSweep(c) ==
  IF call[c].op = "expire" THEN call' = [call EXCEPT ![c].pc = "sweep"] ELSE Return(c)

-----------------------------------------------------------------------------
(* The repository's writes. *)

\* The payload of an event, as far as it names an address or a transfer.
Payload(event, arg) == IF event \in DepositEvents \cup {"QUOTE_GENERATED"} THEN arg ELSE None

\* Mutant: the event is not written in the transaction of the row and is lost.
Emit_Lost(i, event, arg) ==
  /\ version[i] < MaxVersion
  /\ state' = [state EXCEPT ![i] = ExpectedNextState[event]]
  /\ version' = [version EXCEPT ![i] = version[i] + 1]
  /\ \/ log' = [log EXCEPT ![i] = Append(log[i], [type |-> event, by |-> Payload(event, arg)])]
     \/ UNCHANGED log

\* Row and event commit together.
Emit(i, event, arg) ==
  /\ version[i] < MaxVersion
  /\ state' = [state EXCEPT ![i] = ExpectedNextState[event]]
  /\ version' = [version EXCEPT ![i] = version[i] + 1]
  /\ log' = [log EXCEPT ![i] = Append(log[i], [type |-> event, by |-> Payload(event, arg)])]

\* updateQuote: WHERE id, whatever the state and the version.
SetQuote(i, a) ==
  /\ deposit' = [deposit EXCEPT ![i] = a]
  /\ quote' = [quote EXCEPT ![i] = "live"]

\* Mutant: validation of the state that was read before the lock.
MayMove_Stale(c) == IsValidTransition(call[c].seen, ExpectedNextState[call[c].event])

\* transition() locks the row and validates what it then reads.
MayMove(c) == IsValidTransition(state[call[c].intent], ExpectedNextState[call[c].event])

\* What a call does once its transition has committed.
AfterTransition(c) ==
  CASE call[c].op = "record" /\ call[c].event = "PAYMENT_AWAITED" -> Continue(c, "detect", None)
    [] call[c].op = "await"                                        -> Return(c)
    [] call[c].op = "record" /\ call[c].event = "QUOTE_EXPIRED"    -> Return(c)
    [] OTHER -> call' = [call EXCEPT ![c].pc = "webhook"]

Transition(c) ==
  /\ call[c].pc = "transition"
  /\ MayMove(c)
  /\ Emit(call[c].intent, call[c].event, call[c].arg)
  /\ AfterTransition(c)
  /\ UNCHANGED <<deposit, quote, hooks>>

\* Mutant: the webhook goes out before the transition.
Refuse_Announced(c) ==
  /\ call[c].pc = "transition"
  /\ ~MayMove(c)
  /\ hooks' = hooks \cup {<<call[c].intent, call[c].event>>}
  /\ ReturnOrSweep(c)
  /\ UNCHANGED rows

\* "Invalid state transition": the operation throws.
Refuse(c) ==
  /\ call[c].pc = "transition"
  /\ ~MayMove(c)
  /\ ReturnOrSweep(c)
  /\ UNCHANGED <<rows, hooks>>

\* A merchant without webhook_url is skipped.
DeliverWebhook(c) ==
  /\ call[c].pc = "webhook"
  /\ hooks' \in {hooks, hooks \cup {<<call[c].intent, call[c].event>>}}
  /\ ReturnOrSweep(c)
  /\ UNCHANGED rows

-----------------------------------------------------------------------------
(* The operations. *)

\* The row and its first event, in one transaction.
CreateIntent(c, i) ==
  /\ state[i] = "ABSENT" /\ version[i] < MaxVersion
  /\ Emit(i, "INTENT_CREATED", None)
  /\ Begin(c, "create", i, None, "webhook", "INTENT_CREATED")
  /\ UNCHANGED <<deposit, quote, hooks>>

GenerateQuote(c, i, a) ==
  /\ IsValidTransition(state[i], "QUOTED")
  /\ Begin(c, "quote", i, a, "quote", "QUOTE_GENERATED")
  /\ UNCHANGED <<rows, hooks>>

UpdateQuote(c) ==
  /\ call[c].pc = "quote"
  /\ SetQuote(call[c].intent, call[c].arg)
  /\ call' = [call EXCEPT ![c].pc = "transition"]
  /\ UNCHANGED <<state, version, log, hooks>>

AwaitPayment(c, i) ==
  /\ IsValidTransition(state[i], "AWAITING_PAYMENT")
  /\ Begin(c, "await", i, None, "transition", "PAYMENT_AWAITED")
  /\ UNCHANGED <<rows, hooks>>

\* recordDeposit: a row in any other state makes the call a no-op.
RecordDeposit(c, i, t) ==
  /\ state[i] \in AcceptsDeposit
  /\ Begin(c, "record", i, t, IF state[i] = "QUOTED" THEN "accept" ELSE "detect", None)
  /\ UNCHANGED <<rows, hooks>>

\* The awaitPayment inside recordDeposit reads the row again, and may throw.
AcceptQuote(c) ==
  /\ call[c].pc = "accept"
  /\ IF IsValidTransition(state[call[c].intent], "AWAITING_PAYMENT")
       THEN Continue(c, "transition", "PAYMENT_AWAITED")
       ELSE Return(c)
  /\ UNCHANGED <<rows, hooks>>

\* Mutant: an event that the repository does not know.
Verdict_Unknown(i, t) ==
  CASE quote[i] = "expired"   -> "QUOTE_EXPIRED"
    [] AmountOf[t] = "short"  -> "PARTIAL_PAYMENT"
    [] AmountOf[t] = "excess" -> "OVERPAYMENT_DETECTED"
    [] OTHER                  -> "DEPOSIT_DETECTED"

\* detectDeposit reads the row again: the state is not looked at, the expiry is.
Verdict(i, t) ==
  CASE quote[i] = "expired"   -> "QUOTE_EXPIRED"
    [] AmountOf[t] = "short"  -> "UNDERPAYMENT_DETECTED"
    [] AmountOf[t] = "excess" -> "OVERPAYMENT_DETECTED"
    [] OTHER                  -> "DEPOSIT_DETECTED"

DetectDeposit(c) ==
  /\ call[c].pc = "detect"
  /\ Continue(c, "transition", Verdict(call[c].intent, call[c].arg))
  /\ UNCHANGED <<rows, hooks>>

\* The remaining operations check that the row exists and emit one event.
Request(c, op, i, event) ==
  /\ state[i] # "ABSENT"
  /\ Begin(c, op, i, None, "transition", event)
  /\ UNCHANGED <<rows, hooks>>

ConfirmDeposit(c, i)     == Request(c, "confirm", i, "CONFIRMATION_RECEIVED")
SelectRoute(c, i)        == Request(c, "route", i, "ROUTE_SELECTED")
InitiateSettlement(c, i) == Request(c, "settle", i, "SETTLEMENT_INITIATED")
ConfirmSettlement(c, i)  == Request(c, "settled", i, "SETTLEMENT_CONFIRMED")
FailIntent(c, i)         == Request(c, "fail", i, "FAILED")

Expired == {i \in Intents : state[i] \in {"QUOTED", "AWAITING_PAYMENT"} /\ quote[i] = "expired"}

ProcessExpiredQuotes(c) ==
  /\ "expire" \in Operations
  /\ call[c].pc = "idle"
  /\ call' = [call EXCEPT ![c].op = "expire", ![c].pc = "sweep", ![c].batch = Expired]
  /\ UNCHANGED <<rows, hooks>>

SweepNext(c) ==
  /\ call[c].pc = "sweep"
  /\ \E i \in call[c].batch :
       call' = [call EXCEPT ![c] = [@ EXCEPT !.pc = "transition", !.intent = i,
                    !.event = "QUOTE_EXPIRED", !.seen = state[i], !.batch = call[c].batch \ {i}]]
  /\ UNCHANGED <<rows, hooks>>

SweepDone(c) ==
  /\ call[c].pc = "sweep" /\ call[c].batch = {}
  /\ Return(c)
  /\ UNCHANGED <<rows, hooks>>

\* A statement fails, or its process dies, at any await.
Break(c) ==
  /\ call[c].pc # "idle"
  /\ Return(c) \/ ReturnOrSweep(c)
  /\ UNCHANGED <<rows, hooks>>

QuoteExpires(i) ==
  /\ quote[i] = "live"
  /\ quote' = [quote EXCEPT ![i] = "expired"]
  /\ UNCHANGED <<state, version, deposit, log, hooks, call>>

-----------------------------------------------------------------------------
Invoke(c, i) ==
  \/ CreateIntent(c, i) \/ AwaitPayment(c, i) \/ ConfirmDeposit(c, i) \/ SelectRoute(c, i)
  \/ InitiateSettlement(c, i) \/ ConfirmSettlement(c, i) \/ FailIntent(c, i)
  \/ \E a \in Addresses : GenerateQuote(c, i, a)
  \/ \E t \in Transfers : RecordDeposit(c, i, t)

Proceed(c) ==
  \/ UpdateQuote(c) \/ AcceptQuote(c) \/ DetectDeposit(c) \/ Transition(c) \/ Refuse(c)
  \/ DeliverWebhook(c) \/ SweepNext(c) \/ SweepDone(c)

Next ==
  \/ \E c \in Callers : Proceed(c) \/ Break(c) \/ ProcessExpiredQuotes(c)
                        \/ \E i \in Intents : Invoke(c, i)
  \/ \E i \in Intents : QuoteExpires(i)

Spec == Init /\ [][Next]_vars

-----------------------------------------------------------------------------
(* Safety. *)

Emitted(i) == {log[i][n].type : n \in 1..Len(log[i])}

(***************************************************************************)
(* transition() writes the row and appends its event in one transaction:   *)
(* the row is what its log says, under concurrent calls and failures.      *)
(* version counts the events and the last event determines the state.      *)
(***************************************************************************)
LogMatchesRow ==
  \A i \in Intents :
    /\ version[i] = Len(log[i])
    /\ state[i] = IF log[i] = <<>> THEN "ABSENT"
                  ELSE ExpectedNextState[log[i][Len(log[i])].type]

(***************************************************************************)
(* "Only these transitions are allowed" (payment-intent.ts): every log     *)
(* starts with INTENT_CREATED and is a path of VALID_TRANSITIONS, although *)
(* the service checks states that are stale when it writes.                *)
(***************************************************************************)
LogIsLegalPath ==
  \A i \in Intents :
    /\ log[i] # <<>> => log[i][1].type = "INTENT_CREATED"
    /\ \A n \in 2..Len(log[i]) :
         <<ExpectedNextState[log[i][n-1].type], ExpectedNextState[log[i][n].type]>>
           \in VALID_TRANSITIONS

\* What the row says of an intent is the end of a history that the table allows.
LogIsHistory == LogMatchesRow /\ LogIsLegalPath

\* A merchant hears only of what has happened: a webhook for an event goes out
\* after the event has committed.
WebhookAfterCommit == \A h \in hooks : h[2] \in Emitted(h[1])

\* updateQuote precedes QUOTE_GENERATED, so an intent that was ever quoted has
\* the deposit address and the expiry that the watcher looks for.
QuotedHasDeposit ==
  \A i \in Intents : "QUOTE_GENERATED" \in Emitted(i) => deposit[i] # None /\ quote[i] # "none"

\* Whatever the callers ask for and in whatever order, no intent is settled
\* that was not quoted and then paid.
PaidBeforeSettled ==
  \A i \in Intents : state[i] \in {"CONFIRMING", "ROUTING", "SETTLING", "SETTLED"} =>
    {"QUOTE_GENERATED", "PAYMENT_AWAITED", "DEPOSIT_DETECTED"} \subseteq Emitted(i)
=============================================================================
