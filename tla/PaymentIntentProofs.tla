------------------------ MODULE PaymentIntentProofs ------------------------
(***************************************************************************)
(* Proofs about PaymentIntent for any intents, callers, addresses and      *)
(* transfers, and any set of operations in use; and about WebhookDelivery, *)
(* with which it shares no state.                                          *)
(***************************************************************************)
EXTENDS PaymentIntent, WebhookDelivery, Lemmas, TLAPS

USE ConstantsAssumption

Args == Addresses \cup Transfers \cup {None}
Entries == [type : Events, by : Args]

LEMMA EventSet ==
  Events = {"INTENT_CREATED", "QUOTE_GENERATED", "PAYMENT_AWAITED", "QUOTE_EXPIRED",
            "DEPOSIT_DETECTED", "CONFIRMATION_RECEIVED", "ROUTE_SELECTED", "SETTLEMENT_INITIATED",
            "SETTLEMENT_CONFIRMED", "UNDERPAYMENT_DETECTED", "OVERPAYMENT_DETECTED", "FAILED"}
BY DEF Events, ExpectedNextState

LEMMA NextStateType == \A e \in Events : ExpectedNextState[e] \in States
BY EventSet DEF ExpectedNextState, States

\* What a call knows at each of its awaits.
CallOK ==
  \A c \in Callers :
    /\ call[c].pc \in {"quote", "accept", "detect", "transition", "webhook"} =>
         call[c].intent \in Intents
    /\ call[c].pc \in {"quote", "transition", "webhook"} => call[c].event \in Events
    /\ call[c].pc = "quote" => call[c].arg \in Addresses
    /\ call[c].pc = "quote" => call[c].event = "QUOTE_GENERATED"

\* The quote data is written when QUOTE_GENERATED is about to be emitted.
QuoteReady ==
  \A c \in Callers :
    call[c].pc = "transition" /\ call[c].event = "QUOTE_GENERATED" =>
      deposit[call[c].intent] # None /\ quote[call[c].intent] # "none"

\* A call that is about to send a webhook has emitted the event.
WebhookReady ==
  \A c \in Callers : call[c].pc = "webhook" => call[c].event \in Emitted(call[c].intent)

\* The events that every path to a state has emitted.
Quoted == States \ {"CREATED", "EXPIRED", "FAILED"}
Awaited == Quoted \ {"QUOTED"}
Paid == Awaited \ {"AWAITING_PAYMENT"}
History ==
  \A i \in Intents :
    /\ state[i] \in Quoted => "QUOTE_GENERATED" \in Emitted(i)
    /\ state[i] \in Awaited => "PAYMENT_AWAITED" \in Emitted(i)
    /\ state[i] \in Paid => "DEPOSIT_DETECTED" \in Emitted(i)

IInv ==
  /\ TypeOK
  /\ CallOK
  /\ LogMatchesRow
  /\ LogIsLegalPath
  /\ QuoteReady
  /\ QuotedHasDeposit
  /\ WebhookReady
  /\ WebhookAfterCommit
  /\ History

-----------------------------------------------------------------------------
(* Rows move only by Emit: of the first event, or of a legal one. *)

Legal(i, e) ==
  \/ state[i] = "ABSENT" /\ e = "INTENT_CREATED"
  \/ IsValidTransition(state[i], ExpectedNextState[e])

LEMMA EmitLog ==
  ASSUME NEW i \in Intents, NEW e \in Events, NEW a \in Args, TypeOK, Emit(i, e, a)
  PROVE  /\ log' \in [Intents -> Seq(Entries)]
         /\ state' \in [Intents -> States \cup {"ABSENT"}]
         /\ version' \in [Intents -> 0..MaxVersion]
         /\ Len(log'[i]) = Len(log[i]) + 1
         /\ log'[i][Len(log[i]) + 1].type = e
         /\ \A n \in 1..Len(log[i]) : log'[i][n] = log[i][n]
         /\ \A k \in Intents \ {i} : log'[k] = log[k] /\ state'[k] = state[k]
         /\ Emitted(i)' = Emitted(i) \cup {e}
         /\ \A k \in Intents \ {i} : Emitted(k)' = Emitted(k)
<1> DEFINE r == [type |-> e, by |-> Payload(e, a)]
<1>1. r \in Entries
  BY DEF Entries, Args, Payload
<1>2. log[i] \in Seq(Entries)
  BY DEF TypeOK, Entries, Args
<1>3. log'[i] = Append(log[i], r) /\ \A k \in Intents \ {i} : log'[k] = log[k]
  BY DEF TypeOK, Emit
<1>4. /\ Append(log[i], r) \in Seq(Entries)
      /\ Len(Append(log[i], r)) = Len(log[i]) + 1
      /\ Append(log[i], r)[Len(log[i]) + 1] = r
      /\ \A n \in 1..Len(log[i]) : Append(log[i], r)[n] = log[i][n]
  BY <1>1, <1>2
<1>5. log' \in [Intents -> Seq(Entries)]
  BY <1>4 DEF TypeOK, Emit, Entries, Args
<1>6. Emitted(i)' = Emitted(i) \cup {e}
  <2> HIDE DEF r
  <2>1. Emitted(i)' = {Append(log[i], r)[n].type : n \in 1..(Len(log[i]) + 1)}
    BY <1>3, <1>4 DEF Emitted
  <2>2. r.type = e
    BY DEF r
  <2>3. Len(log[i]) \in Nat
    BY <1>2
  <2>4. 1..(Len(log[i]) + 1) = 1..Len(log[i]) \cup {Len(log[i]) + 1}
    BY <2>3
  <2>5. Emitted(i) = {Append(log[i], r)[n].type : n \in 1..Len(log[i])}
    BY <1>4 DEF Emitted
  <2>6. QED
    BY <2>1, <2>2, <2>4, <2>5, <1>4
<1>7. \A k \in Intents \ {i} : Emitted(k)' = Emitted(k)
  BY <1>3 DEF Emitted
<1>8. state' \in [Intents -> States \cup {"ABSENT"}] /\ version' \in [Intents -> 0..MaxVersion]
  BY NextStateType DEF TypeOK, Emit
<1>9. QED
  BY <1>3, <1>4, <1>5, <1>6, <1>7, <1>8 DEF TypeOK, Emit

(* Transition and CreateIntent, seen as steps of the row. *)
RowStep(i, e, a) == e \in Events /\ a \in Args /\ Legal(i, e) /\ Emit(i, e, a)

LEMMA RowInvariants ==
  ASSUME IInv, NEW i \in Intents, NEW e, NEW a, RowStep(i, e, a)
  PROVE  LogMatchesRow' /\ LogIsLegalPath' /\ History'
<1> DEFINE L == Len(log[i])
<1>1. /\ L \in Nat
      /\ Len(log'[i]) = L + 1
      /\ log'[i][L + 1].type = e
      /\ \A n \in 1..L : log'[i][n] = log[i][n]
      /\ log'[i] # <<>>
      /\ log[i] = <<>> <=> L = 0
  <2>0. TypeOK /\ e \in Events /\ a \in Args /\ Emit(i, e, a)
    BY DEF RowStep, IInv
  <2>1. log[i] \in Seq(Entries) /\ log'[i] \in Seq(Entries)
    <3>1. log' \in [Intents -> Seq(Entries)]
      BY ONLY <2>0, EmitLog
    <3>2. log \in [Intents -> Seq(Entries)]
      BY ONLY <2>0 DEF TypeOK, Entries, Args
    <3>3. QED
      BY ONLY <3>1, <3>2, i \in Intents
  <2>2. /\ Len(log'[i]) = L + 1
        /\ log'[i][L + 1].type = e
        /\ \A n \in 1..L : log'[i][n] = log[i][n]
    BY <2>0, EmitLog
  <2>3. L \in Nat /\ (log[i] = <<>> <=> L = 0)
    BY <2>1
  <2>4. QED
    BY <2>1, <2>2, <2>3
<1>2. \A k \in Intents \ {i} : log'[k] = log[k] /\ state'[k] = state[k] /\ version'[k] = version[k]
  BY EmitLog DEF RowStep, IInv, Emit, TypeOK
<1>3. state'[i] = ExpectedNextState[e] /\ version'[i] = version[i] + 1
  BY DEF RowStep, Emit, IInv, TypeOK
<1>4. state[i] = IF L = 0 THEN "ABSENT" ELSE ExpectedNextState[log[i][L].type]
  BY <1>1 DEF IInv, LogMatchesRow
<1>5. LogMatchesRow'
  BY <1>1, <1>2, <1>3 DEF IInv, LogMatchesRow
<1>6. LogIsLegalPath'
  <2>1. ASSUME NEW k \in Intents \ {i} PROVE
          /\ log'[k] # <<>> => log'[k][1].type = "INTENT_CREATED"
          /\ \A n \in 2..Len(log'[k]) :
               <<ExpectedNextState[log'[k][n-1].type], ExpectedNextState[log'[k][n].type]>>
                 \in VALID_TRANSITIONS
    BY <1>2, <2>1 DEF IInv, LogIsLegalPath
  <2>2. log'[i][1].type = "INTENT_CREATED"
    <3>1. CASE L = 0
      <4>1. state[i] = "ABSENT"
        BY <1>4, <3>1
      <4>2. ~IsValidTransition("ABSENT", ExpectedNextState[e])
        BY DEF IsValidTransition, VALID_TRANSITIONS
      <4>3. e = "INTENT_CREATED"
        BY <4>1, <4>2 DEF RowStep, Legal
      <4>4. QED
        BY <4>3, <3>1, <1>1
    <3>2. CASE L # 0
      <4>1. 1 \in 1..L
        BY <1>1, <3>2
      <4>2. log[i][1].type = "INTENT_CREATED"
        BY <1>1, <3>2 DEF IInv, LogIsLegalPath
      <4>3. QED
        BY <4>1, <4>2, <1>1
    <3>3. QED
      BY <3>1, <3>2
  <2>3. ASSUME NEW n \in 2..(L + 1) PROVE
          <<ExpectedNextState[log'[i][n-1].type], ExpectedNextState[log'[i][n].type]>>
            \in VALID_TRANSITIONS
    <3>1. CASE n \in 2..L
      <4>1. n \in 1..L /\ n-1 \in 1..L
        BY <1>1, <3>1
      <4>2. <<ExpectedNextState[log[i][n-1].type], ExpectedNextState[log[i][n].type]>>
              \in VALID_TRANSITIONS
        BY <3>1 DEF IInv, LogIsLegalPath
      <4>3. QED
        BY <4>1, <4>2, <1>1
    <3>2. CASE n = L + 1
      <4>1. L # 0 /\ L \in 1..L /\ n-1 = L
        BY <1>1, <3>2, <2>3
      <4>2. state[i] # "ABSENT" /\ state[i] = ExpectedNextState[log'[i][n-1].type]
        <5>1. state[i] = ExpectedNextState[log[i][L].type] /\ log'[i][L] = log[i][L]
          BY <1>1, <1>4, <4>1
        <5>2. log[i][L].type \in Events
          <6>1. log[i] \in Seq(Entries)
            BY DEF IInv, TypeOK, Entries, Args
          <6>2. log[i][L] \in Entries
            BY <6>1, <4>1
          <6>3. QED
            BY <6>2 DEF Entries
        <5>3. state[i] # "ABSENT"
          BY <5>1, <5>2, NextStateType DEF States
        <5>4. QED
          BY <5>1, <5>3, <4>1
      <4>3. IsValidTransition(state[i], ExpectedNextState[e])
        BY <4>2 DEF RowStep, Legal
      <4>4. QED
        BY <4>2, <4>3, <1>1, <3>2 DEF IsValidTransition
    <3>3. QED
      BY <3>1, <3>2, <1>1
  <2>4. QED
    BY <1>1, <2>1, <2>2, <2>3 DEF LogIsLegalPath
<1>7. History'
  <2>1. Emitted(i)' = Emitted(i) \cup {e} /\ \A k \in Intents \ {i} : Emitted(k)' = Emitted(k)
    BY EmitLog DEF RowStep, IInv
  <2>2. ASSUME NEW k \in Intents \ {i} PROVE
          /\ state'[k] \in Quoted => "QUOTE_GENERATED" \in Emitted(k)'
          /\ state'[k] \in Awaited => "PAYMENT_AWAITED" \in Emitted(k)'
          /\ state'[k] \in Paid => "DEPOSIT_DETECTED" \in Emitted(k)'
    BY <1>2, <2>1 DEF IInv, History
  <2>3. /\ state'[i] \in Quoted => state[i] \in Quoted \/ e = "QUOTE_GENERATED"
        /\ state'[i] \in Awaited => state[i] \in Awaited \/ e = "PAYMENT_AWAITED"
        /\ state'[i] \in Paid => state[i] \in Paid \/ e = "DEPOSIT_DETECTED"
    BY <1>3, EventSet DEF RowStep, Legal, IsValidTransition, VALID_TRANSITIONS, ExpectedNextState,
       Quoted, Awaited, Paid, States
  <2>4. QED
    BY <2>1, <2>2, <2>3 DEF IInv, History
<1>8. QED
  BY <1>5, <1>6, <1>7

\* A step that writes no row keeps everything the log says.
LEMMA LogUnchanged ==
  ASSUME IInv, UNCHANGED <<state, version, log>>
  PROVE  /\ LogMatchesRow' /\ LogIsLegalPath' /\ History'
         /\ \A i \in Intents : Emitted(i)' = Emitted(i)
<1>1. LogMatchesRow' /\ LogIsLegalPath'
  BY DEF IInv, LogMatchesRow, LogIsLegalPath
<1>2. \A i \in Intents : Emitted(i)' = Emitted(i)
  BY DEF Emitted
<1>3. History'
  BY <1>2 DEF IInv, History
<1>4. QED
  BY <1>1, <1>2, <1>3

CallType ==
  [pc : PC, op : Operations \cup {None}, intent : Intents \cup {None}, event : Events \cup {None},
   arg : Addresses \cup Transfers \cup {None}, seen : States \cup {"ABSENT", None},
   batch : SUBSET Intents]

\* The call of c emits event e on intent i.
LEMMA EmitStep ==
  ASSUME IInv, NEW c \in Callers, NEW i \in Intents, NEW e, NEW a, RowStep(i, e, a),
         UNCHANGED <<deposit, quote, hooks>>,
         e = "QUOTE_GENERATED" => deposit[i] # None /\ quote[i] # "none",
         call' \in [Callers -> CallType],
         \A d \in Callers \ {c} : call'[d] = call[d],
         call'[c].pc \in {"idle", "sweep", "detect", "webhook"},
         call'[c].pc \in {"detect", "webhook"} => call'[c].intent = i,
         call'[c].pc = "webhook" => call'[c].event = e
  PROVE  IInv'
<1>1. e \in Events /\ a \in Args
  BY DEF RowStep
<1>2. LogMatchesRow' /\ LogIsLegalPath' /\ History'
  BY RowInvariants
<1>3. TypeOK /\ Emit(i, e, a)
  BY DEF RowStep, IInv
<1>4. /\ log' \in [Intents -> Seq(Entries)]
      /\ state' \in [Intents -> States \cup {"ABSENT"}]
      /\ version' \in [Intents -> 0..MaxVersion]
  BY <1>1, <1>3, EmitLog
<1>5. Emitted(i)' = Emitted(i) \cup {e} /\ \A k \in Intents \ {i} : Emitted(k)' = Emitted(k)
  BY <1>1, <1>3, EmitLog
<1>6. \A k \in Intents : Emitted(k) \subseteq Emitted(k)'
  BY <1>5
<1>7. TypeOK'
  BY <1>3, <1>4 DEF TypeOK, Entries, Args, CallType
<1>8. CallOK'
  BY <1>1 DEF IInv, CallOK
<1>9. QuoteReady'
  BY DEF IInv, QuoteReady
<1>10. QuotedHasDeposit'
  <2> SUFFICES ASSUME NEW k \in Intents, "QUOTE_GENERATED" \in Emitted(k)'
               PROVE  deposit[k] # None /\ quote[k] # "none"
    BY DEF QuotedHasDeposit
  <2>1. "QUOTE_GENERATED" \in Emitted(k) \/ (k = i /\ e = "QUOTE_GENERATED")
    BY <1>5
  <2>2. QED
    BY <2>1 DEF IInv, QuotedHasDeposit
<1>11. WebhookReady'
  <2> DEFINE New(k) == {log'[k][n].type : n \in 1..Len(log'[k])}
  <2>1. New(i) = Emitted(i) \cup {e} /\ \A k \in Intents : Emitted(k) \subseteq New(k)
    BY <1>5, <1>6 DEF Emitted
  <2>2. SUFFICES ASSUME NEW d \in Callers, call'[d].pc = "webhook"
                 PROVE  call'[d].event \in New(call'[d].intent)
    BY DEF WebhookReady, Emitted
  <2> HIDE DEF New
  <2>3. CASE d = c
    BY <2>1, <2>2, <2>3
  <2>4. CASE d # c
    <3>1. call'[d] = call[d] /\ call[d].intent \in Intents
      BY <2>2, <2>4 DEF IInv, CallOK
    <3>2. call[d].event \in Emitted(call[d].intent)
      BY <2>2, <3>1 DEF IInv, WebhookReady
    <3>3. QED
      BY <2>1, <3>1, <3>2
  <2>5. QED
    BY <2>3, <2>4
<1>12. WebhookAfterCommit'
  <2> SUFFICES ASSUME NEW h \in hooks PROVE h[2] \in Emitted(h[1])'
    BY DEF WebhookAfterCommit, Emitted
  <2>1. h[1] \in Intents /\ h[2] \in Emitted(h[1])
    BY <1>3 DEF TypeOK, IInv, WebhookAfterCommit
  <2>2. Emitted(h[1]) \subseteq {log'[h[1]][n].type : n \in 1..Len(log'[h[1]])}
    BY <2>1, <1>6 DEF Emitted
  <2>3. QED
    BY <2>1, <2>2 DEF Emitted
<1>13. QED
  BY <1>2, <1>7, <1>8, <1>9, <1>10, <1>11, <1>12 DEF IInv

LEMMA TransitionStep == ASSUME NEW c \in Callers, IInv, Transition(c) PROVE IInv'
<1> DEFINE i == call[c].intent
           e == call[c].event
           a == call[c].arg
<1>1. i \in Intents /\ e \in Events /\ a \in Args /\ call[c] \in CallType
  BY DEF IInv, CallOK, TypeOK, Transition, Args, CallType
<1>2. RowStep(i, e, a)
  BY <1>1 DEF RowStep, Legal, Transition, MayMove
<1>3. UNCHANGED <<deposit, quote, hooks>>
  BY DEF Transition
<1>4. e = "QUOTE_GENERATED" => deposit[i] # None /\ quote[i] # "none"
  BY DEF Transition, IInv, QuoteReady
<1>5. call \in [Callers -> CallType]
  BY DEF IInv, TypeOK, CallType
<1>6. state[i] \in States \cup {"ABSENT"}
  BY <1>1 DEF IInv, TypeOK
<1>7. \/ call' = [call EXCEPT ![c] = [call[c] EXCEPT !.pc = "webhook"]]
      \/ call' = [call EXCEPT ![c] = Idle]
      \/ call' = [call EXCEPT ![c] = [call[c] EXCEPT !.pc = "detect", !.event = None,
                                                    !.seen = state[i]]]
  BY <1>1, <1>5 DEF Transition, AfterTransition, Continue, Return
<1>8. PICK r \in CallType :
        /\ call' = [call EXCEPT ![c] = r]
        /\ r.pc \in {"idle", "sweep", "detect", "webhook"}
        /\ r.pc \in {"detect", "webhook"} => r.intent = i
        /\ r.pc = "webhook" => r.event = e
  <2>1. CASE call' = [call EXCEPT ![c] = [call[c] EXCEPT !.pc = "webhook"]]
    <3>1. [call[c] EXCEPT !.pc = "webhook"] \in CallType
      BY <1>1 DEF CallType, PC
    <3>2. QED
      BY <1>1, <2>1, <3>1 DEF CallType
  <2>2. CASE call' = [call EXCEPT ![c] = Idle]
    <3>1. Idle \in CallType
      BY DEF CallType, PC, Idle
    <3>2. QED
      BY <2>2, <3>1 DEF Idle
  <2>3. CASE call' = [call EXCEPT ![c] = [call[c] EXCEPT !.pc = "detect", !.event = None,
                                                       !.seen = state[i]]]
    <3>1. [call[c] EXCEPT !.pc = "detect", !.event = None, !.seen = state[i]] \in CallType
      BY <1>1, <1>6 DEF CallType, PC
    <3>2. QED
      BY <1>1, <2>3, <3>1 DEF CallType
  <2>4. QED
    BY <1>7, <2>1, <2>2, <2>3
<1>9. /\ call' \in [Callers -> CallType]
      /\ \A d \in Callers \ {c} : call'[d] = call[d]
      /\ call'[c] = r
  BY <1>5, <1>8
<1>10. QED
  BY <1>1, <1>2, <1>3, <1>4, <1>8, <1>9, EmitStep

LEMMA CreateStep ==
  ASSUME NEW c \in Callers, NEW i \in Intents, IInv, CreateIntent(c, i)
  PROVE  IInv'
<1> DEFINE e == "INTENT_CREATED"
<1>1. e \in Events /\ None \in Args
  BY EventSet DEF Args
<1>2. RowStep(i, e, None)
  BY <1>1 DEF RowStep, Legal, CreateIntent
<1>3. UNCHANGED <<deposit, quote, hooks>>
  BY DEF CreateIntent
<1>4. /\ call' \in [Callers -> CallType]
      /\ \A d \in Callers \ {c} : call'[d] = call[d]
      /\ call'[c].pc = "webhook" /\ call'[c].intent = i /\ call'[c].event = e
  BY <1>1 DEF IInv, TypeOK, CallType, CreateIntent, Begin, PC
<1>5. QED
  BY <1>2, <1>3, <1>4, EmitStep

-----------------------------------------------------------------------------
(* The steps of a call that write no row of the log. *)

\* Only the call of c moves.
MovesCall(c) ==
  /\ \A d \in Callers \ {c} : call'[d] = call[d]
  /\ UNCHANGED <<rows, hooks>>

LEMMA CallStep ==
  ASSUME NEW c \in Callers, IInv, MovesCall(c), TypeOK', CallOK',
         call'[c].pc # "webhook",
         call'[c].pc = "transition" => call'[c].event # "QUOTE_GENERATED"
  PROVE  IInv'
<1>1. LogMatchesRow' /\ LogIsLegalPath' /\ History' /\ \A i \in Intents : Emitted(i)' = Emitted(i)
  BY LogUnchanged DEF MovesCall, rows
<1>2. QuoteReady'
  BY DEF IInv, QuoteReady, MovesCall, rows
<1>3. QuotedHasDeposit'
  BY <1>1 DEF IInv, QuotedHasDeposit, MovesCall, rows
<1>4. WebhookReady'
  BY <1>1 DEF IInv, WebhookReady, MovesCall, CallOK
<1>5. WebhookAfterCommit'
  BY <1>1 DEF IInv, WebhookAfterCommit, MovesCall, TypeOK
<1>6. QED
  BY <1>1, <1>2, <1>3, <1>4, <1>5 DEF IInv

LEMMA UpdateQuoteStep == ASSUME NEW c \in Callers, IInv, UpdateQuote(c) PROVE IInv'
<1> DEFINE i == call[c].intent
<1>1. i \in Intents /\ call[c] \in CallType /\ call[c].arg \in Addresses
  BY DEF IInv, CallOK, TypeOK, UpdateQuote, CallType
<1>2. /\ LogMatchesRow' /\ LogIsLegalPath' /\ History'
      /\ \A k \in Intents : Emitted(k)' = Emitted(k)
  BY LogUnchanged DEF UpdateQuote
<1>3. /\ call' = [call EXCEPT ![c] = [call[c] EXCEPT !.pc = "transition"]]
      /\ [call[c] EXCEPT !.pc = "transition"] \in CallType
  BY <1>1 DEF UpdateQuote, CallType, PC
<1>4. /\ call' \in [Callers -> CallType]
      /\ \A d \in Callers \ {c} : call'[d] = call[d]
      /\ call'[c] = [call[c] EXCEPT !.pc = "transition"]
  BY <1>3 DEF IInv, TypeOK, CallType
<1>5. /\ deposit' \in [Intents -> Addresses \cup {None}]
      /\ quote' \in [Intents -> {"none", "live", "expired"}]
      /\ deposit'[i] # None /\ quote'[i] # "none"
      /\ \A k \in Intents \ {i} : deposit'[k] = deposit[k] /\ quote'[k] = quote[k]
  BY <1>1 DEF UpdateQuote, SetQuote, IInv, TypeOK
<1>6. TypeOK'
  BY <1>4, <1>5 DEF IInv, TypeOK, CallType, UpdateQuote
<1>7. CallOK'
  BY <1>1, <1>4 DEF IInv, CallOK, UpdateQuote, CallType
<1>8. QuoteReady'
  BY <1>1, <1>4, <1>5 DEF IInv, QuoteReady, CallOK, CallType
<1>9. QuotedHasDeposit'
  BY <1>2, <1>5 DEF IInv, QuotedHasDeposit
<1>10. WebhookReady'
  BY <1>1, <1>2, <1>4 DEF IInv, WebhookReady, CallOK, CallType
<1>11. WebhookAfterCommit'
  BY <1>2 DEF IInv, WebhookAfterCommit, TypeOK, UpdateQuote
<1>12. QED
  BY <1>2, <1>6, <1>7, <1>8, <1>9, <1>10, <1>11 DEF IInv

\* A call starts anything but a creation.
LEMMA BeginStep ==
  ASSUME NEW c \in Callers, NEW i \in Intents, NEW op, NEW arg \in Args,
         NEW pc \in {"quote", "accept", "detect", "transition"}, NEW event \in Events \cup {None},
         IInv, Begin(c, op, i, arg, pc, event), UNCHANGED <<rows, hooks>>,
         pc = "quote" => arg \in Addresses /\ event = "QUOTE_GENERATED",
         pc = "transition" => event \in Events \ {"QUOTE_GENERATED"}
  PROVE  IInv'
<1> DEFINE r == [pc |-> pc, op |-> op, intent |-> i, event |-> event,
                 arg |-> arg, seen |-> state[i], batch |-> {}]
<1>1. r \in CallType /\ op \in Operations
  BY DEF Begin, CallType, IInv, TypeOK, Args, PC
<1>2. call' \in [Callers -> CallType] /\ call'[c] = r /\ \A d \in Callers \ {c} : call'[d] = call[d]
  BY <1>1 DEF Begin, IInv, TypeOK, CallType
<1>3. TypeOK'
  BY <1>2 DEF IInv, TypeOK, CallType, rows
<1>4. CallOK'
  BY <1>2, EventSet DEF IInv, CallOK
<1>5. QED
  BY <1>2, <1>3, <1>4, CallStep DEF MovesCall

\* A call goes on, other than to a webhook or to QUOTE_GENERATED.
LEMMA ContinueStep ==
  ASSUME NEW c \in Callers, NEW r \in CallType, IInv,
         call' = [call EXCEPT ![c] = r], UNCHANGED <<rows, hooks>>,
         r.pc \in {"idle", "sweep", "transition"},
         r.pc = "transition" => r.intent \in Intents /\ r.event \in Events \ {"QUOTE_GENERATED"}
  PROVE  IInv'
<1>1. call' \in [Callers -> CallType] /\ call'[c] = r /\ \A d \in Callers \ {c} : call'[d] = call[d]
  BY DEF IInv, TypeOK, CallType
<1>2. TypeOK'
  BY <1>1 DEF IInv, TypeOK, CallType, rows
<1>3. CallOK'
  BY <1>1 DEF IInv, CallOK
<1>4. QED
  BY <1>1, <1>2, <1>3, CallStep DEF MovesCall

LEMMA IdleType == Idle \in CallType /\ Idle.pc = "idle"
BY DEF Idle, CallType, PC

LEMMA ReturnOrSweepStep ==
  ASSUME NEW c \in Callers, IInv, UNCHANGED <<rows, hooks>>, Return(c) \/ ReturnOrSweep(c)
  PROVE  IInv'
<1>1. call[c] \in CallType
  BY DEF IInv, TypeOK, CallType
<1>2. [call[c] EXCEPT !.pc = "sweep"] \in CallType /\ [call[c] EXCEPT !.pc = "sweep"].pc = "sweep"
  BY <1>1 DEF CallType, PC
<1>3. \/ call' = [call EXCEPT ![c] = Idle]
      \/ call' = [call EXCEPT ![c] = [call[c] EXCEPT !.pc = "sweep"]]
  BY DEF Return, ReturnOrSweep
<1>4. QED
  BY <1>2, <1>3, IdleType, ContinueStep

LEMMA DeliverWebhookStep == ASSUME NEW c \in Callers, IInv, DeliverWebhook(c) PROVE IInv'
<1>1. call[c] \in CallType /\ call[c].intent \in Intents /\ call[c].event \in Events
  BY DEF IInv, CallOK, TypeOK, CallType, DeliverWebhook
<1>2. [call[c] EXCEPT !.pc = "sweep"] \in CallType /\ [call[c] EXCEPT !.pc = "sweep"].pc = "sweep"
  BY <1>1 DEF CallType, PC
<1>3. PICK r \in CallType : call' = [call EXCEPT ![c] = r] /\ r.pc \in {"idle", "sweep"}
  BY <1>2, IdleType DEF Return, ReturnOrSweep, DeliverWebhook
<1>4. /\ call' \in [Callers -> CallType] /\ call'[c] = r
      /\ \A d \in Callers \ {c} : call'[d] = call[d]
  BY <1>3 DEF IInv, TypeOK, CallType
<1>5. UNCHANGED <<state, version, deposit, quote, log>>
  BY DEF DeliverWebhook, rows
<1>6. LogMatchesRow' /\ LogIsLegalPath' /\ History' /\ \A i \in Intents : Emitted(i)' = Emitted(i)
  BY <1>5, LogUnchanged
<1>7. hooks' \in {hooks, hooks \cup {<<call[c].intent, call[c].event>>}}
  BY DEF DeliverWebhook
<1>8. TypeOK'
  <2>1. hooks' \subseteq Intents \X Events
    BY <1>1, <1>7 DEF IInv, TypeOK
  <2>2. QED
    BY <1>4, <1>5, <2>1 DEF IInv, TypeOK, CallType
<1>9. CallOK'
  BY <1>3, <1>4 DEF IInv, CallOK
<1>10. QuoteReady'
  BY <1>3, <1>4, <1>5 DEF IInv, QuoteReady
<1>11. QuotedHasDeposit'
  BY <1>5, <1>6 DEF IInv, QuotedHasDeposit
<1>12. WebhookReady'
  BY <1>3, <1>4, <1>6 DEF IInv, WebhookReady, CallOK
<1>13. WebhookAfterCommit'
  <2>1. call[c].event \in Emitted(call[c].intent)
    BY DEF IInv, WebhookReady, DeliverWebhook
  <2>2. QED
    BY <1>1, <1>6, <1>7, <2>1 DEF IInv, WebhookAfterCommit, TypeOK
<1>14. QED
  BY <1>6, <1>8, <1>9, <1>10, <1>11, <1>12, <1>13 DEF IInv

LEMMA SweepNextStep == ASSUME NEW c \in Callers, IInv, SweepNext(c) PROVE IInv'
<1>1. call[c] \in CallType /\ state \in [Intents -> States \cup {"ABSENT"}]
  BY DEF IInv, TypeOK, CallType
<1>2. PICK i \in call[c].batch :
        call' = [call EXCEPT ![c] = [call[c] EXCEPT !.pc = "transition", !.intent = i,
                    !.event = "QUOTE_EXPIRED", !.seen = state[i], !.batch = call[c].batch \ {i}]]
  BY DEF SweepNext
<1> DEFINE r == [call[c] EXCEPT !.pc = "transition", !.intent = i,
                    !.event = "QUOTE_EXPIRED", !.seen = state[i], !.batch = call[c].batch \ {i}]
<1>3. i \in Intents
  BY <1>1, <1>2 DEF CallType
<1>4. r \in CallType /\ r.intent = i /\ r.event = "QUOTE_EXPIRED"
  BY <1>1, <1>3, EventSet DEF CallType, PC
<1>5. QED
  BY <1>2, <1>3, <1>4, EventSet, ContinueStep DEF SweepNext, CallType

LEMMA QuoteExpiresStep == ASSUME NEW i \in Intents, IInv, QuoteExpires(i) PROVE IInv'
<1>1. LogMatchesRow' /\ LogIsLegalPath' /\ History' /\ \A k \in Intents : Emitted(k)' = Emitted(k)
  BY LogUnchanged DEF QuoteExpires
<1>2. quote' \in [Intents -> {"none", "live", "expired"}]
      /\ \A k \in Intents : quote'[k] = "none" => quote[k] = "none"
  BY DEF QuoteExpires, IInv, TypeOK
<1>3. TypeOK'
  BY <1>2 DEF IInv, TypeOK, QuoteExpires
<1>4. CallOK'
  BY DEF IInv, CallOK, QuoteExpires
<1>5. QuoteReady'
  BY <1>2, EventSet DEF IInv, QuoteReady, CallOK, QuoteExpires
<1>6. QuotedHasDeposit'
  BY <1>1, <1>2 DEF IInv, QuotedHasDeposit, QuoteExpires
<1>7. WebhookReady'
  BY <1>1 DEF IInv, WebhookReady, CallOK, QuoteExpires
<1>8. WebhookAfterCommit'
  BY <1>1 DEF IInv, WebhookAfterCommit, TypeOK, QuoteExpires
<1>9. QED
  BY <1>1, <1>3, <1>4, <1>5, <1>6, <1>7, <1>8 DEF IInv

-----------------------------------------------------------------------------
(* The whole next-state relation. *)

LEMMA InvokeStep ==
  ASSUME NEW c \in Callers, NEW i \in Intents, IInv, Invoke(c, i)
  PROVE  IInv'
<1>1. CASE CreateIntent(c, i)
  BY <1>1, CreateStep
<1>2. CASE AwaitPayment(c, i)
  BY <1>2, EventSet, BeginStep DEF AwaitPayment, Args
<1>3. ASSUME NEW op, NEW event \in Events \ {"QUOTE_GENERATED"}, Request(c, op, i, event)
      PROVE  IInv'
  BY <1>3, BeginStep DEF Request, Args
<1>4. CASE ConfirmDeposit(c, i) \/ SelectRoute(c, i) \/ InitiateSettlement(c, i)
           \/ ConfirmSettlement(c, i) \/ FailIntent(c, i)
  BY <1>3, <1>4, EventSet
     DEF ConfirmDeposit, SelectRoute, InitiateSettlement, ConfirmSettlement, FailIntent
<1>5. ASSUME NEW a \in Addresses, GenerateQuote(c, i, a) PROVE IInv'
  BY <1>5, EventSet, BeginStep DEF GenerateQuote, Args
<1>6. ASSUME NEW t \in Transfers, RecordDeposit(c, i, t) PROVE IInv'
  <2>1. CASE state[i] = "QUOTED"
    BY <1>6, <2>1, BeginStep DEF RecordDeposit, Args
  <2>2. CASE state[i] # "QUOTED"
    BY <1>6, <2>2, BeginStep DEF RecordDeposit, Args
  <2>3. QED
    BY <2>1, <2>2
<1>7. QED
  BY <1>1, <1>2, <1>4, <1>5, <1>6 DEF Invoke

LEMMA ProceedStep == ASSUME NEW c \in Callers, IInv, Proceed(c) PROVE IInv'
<1>1. call[c] \in CallType
  BY DEF IInv, TypeOK, CallType
<1>2. CASE UpdateQuote(c)
  BY <1>2, UpdateQuoteStep
<1>3. ASSUME NEW e \in Events \ {"QUOTE_GENERATED"}, call[c].intent \in Intents,
             Continue(c, "transition", e), UNCHANGED <<rows, hooks>>
      PROVE  IInv'
  <2> DEFINE r == [call[c] EXCEPT !.pc = "transition", !.event = e, !.seen = state[call[c].intent]]
  <2>1. r \in CallType /\ r.pc = "transition" /\ r.intent = call[c].intent /\ r.event = e
    BY <1>1, <1>3 DEF CallType, PC, IInv, TypeOK
  <2>2. call' = [call EXCEPT ![c] = r]
    BY <1>3 DEF Continue
  <2>3. QED
    BY <1>3, <2>1, <2>2, ContinueStep
<1>4. CASE AcceptQuote(c)
  <2>1. call[c].intent \in Intents
    BY <1>4 DEF AcceptQuote, IInv, CallOK
  <2>2. Continue(c, "transition", "PAYMENT_AWAITED") \/ Return(c)
    BY <1>4 DEF AcceptQuote
  <2>3. QED
    BY <1>3, <1>4, <2>1, <2>2, EventSet, ReturnOrSweepStep DEF AcceptQuote
<1>5. CASE DetectDeposit(c)
  <2>1. call[c].intent \in Intents
    BY <1>5 DEF DetectDeposit, IInv, CallOK
  <2>2. Verdict(call[c].intent, call[c].arg) \in Events \ {"QUOTE_GENERATED"}
    BY EventSet DEF Verdict
  <2>3. QED
    BY <1>3, <1>5, <2>1, <2>2 DEF DetectDeposit
<1>6. CASE Transition(c)
  BY <1>6, TransitionStep
<1>7. CASE Refuse(c)
  BY <1>7, ReturnOrSweepStep DEF Refuse
<1>8. CASE DeliverWebhook(c)
  BY <1>8, DeliverWebhookStep
<1>9. CASE SweepNext(c)
  BY <1>9, SweepNextStep
<1>10. CASE SweepDone(c)
  BY <1>10, ReturnOrSweepStep DEF SweepDone
<1>11. QED
  BY <1>2, <1>4, <1>5, <1>6, <1>7, <1>8, <1>9, <1>10 DEF Proceed

LEMMA SweepStep == ASSUME NEW c \in Callers, IInv, ProcessExpiredQuotes(c) PROVE IInv'
<1> DEFINE r == [call[c] EXCEPT !.op = "expire", !.pc = "sweep", !.batch = Expired]
<1>0. call[c] \in CallType /\ Expired \in SUBSET Intents /\ "expire" \in Operations
  BY DEF ProcessExpiredQuotes, Begin, IInv, TypeOK, CallType, Expired
<1>1. r \in CallType /\ r.pc = "sweep"
  BY <1>0 DEF CallType, PC
<1>2. call' = [call EXCEPT ![c] = r]
  BY DEF ProcessExpiredQuotes
<1>3. QED
  BY <1>1, <1>2, ContinueStep DEF ProcessExpiredQuotes

LEMMA NextIInv == IInv /\ [Next]_vars => IInv'
<1> SUFFICES ASSUME IInv, [Next]_vars PROVE IInv'
  OBVIOUS
<1>1. ASSUME NEW c \in Callers, Proceed(c) PROVE IInv'
  BY <1>1, ProceedStep
<1>2. ASSUME NEW c \in Callers, Break(c) PROVE IInv'
  BY <1>2, ReturnOrSweepStep DEF Break
<1>3. ASSUME NEW c \in Callers, ProcessExpiredQuotes(c) PROVE IInv'
  BY <1>3, SweepStep
<1>4. ASSUME NEW c \in Callers, NEW i \in Intents, Invoke(c, i) PROVE IInv'
  BY <1>4, InvokeStep
<1>5. ASSUME NEW i \in Intents, QuoteExpires(i) PROVE IInv'
  BY <1>5, QuoteExpiresStep
<1>6. CASE UNCHANGED vars
  <2>1. LogMatchesRow' /\ LogIsLegalPath' /\ History' /\ \A k \in Intents : Emitted(k)' = Emitted(k)
    BY <1>6, LogUnchanged DEF vars, rows
  <2>2. TypeOK'
    BY <1>6 DEF vars, rows, IInv, TypeOK
  <2>3. CallOK' /\ QuoteReady'
    BY <1>6 DEF vars, rows, IInv, CallOK, QuoteReady
  <2>4. QuotedHasDeposit'
    BY <1>6, <2>1 DEF vars, rows, IInv, QuotedHasDeposit
  <2>5. WebhookReady'
    BY <1>6, <2>1 DEF vars, rows, IInv, WebhookReady, CallOK
  <2>6. WebhookAfterCommit'
    BY <1>6, <2>1 DEF vars, rows, IInv, WebhookAfterCommit, TypeOK
  <2>7. QED
    BY <2>1, <2>2, <2>3, <2>4, <2>5, <2>6 DEF IInv
<1>7. QED
  BY <1>1, <1>2, <1>3, <1>4, <1>5, <1>6 DEF Next

LEMMA InitIInv == Init => IInv
<1> SUFFICES ASSUME Init PROVE IInv
  OBVIOUS
<1>1. TypeOK
  BY IdleType DEF Init, TypeOK, CallType, Entries, Args
<1>2. CallOK /\ QuoteReady /\ WebhookReady /\ WebhookAfterCommit
  BY IdleType DEF Init, CallOK, QuoteReady, WebhookReady, WebhookAfterCommit
<1>3. \A i \in Intents : log[i] = <<>> /\ Len(log[i]) = 0 /\ Emitted(i) = {}
  <2>1. 1..0 = {}
    OBVIOUS
  <2>2. \A i \in Intents : log[i] = <<>> /\ Len(log[i]) = 0
    BY DEF Init
  <2>3. QED
    BY <2>1, <2>2 DEF Emitted
<1>4. LogMatchesRow /\ LogIsLegalPath /\ QuotedHasDeposit
  BY <1>3 DEF Init, LogMatchesRow, LogIsLegalPath, QuotedHasDeposit
<1>5. History
  BY DEF Init, History, Quoted, Awaited, Paid, States
<1>6. QED
  BY <1>1, <1>2, <1>4, <1>5 DEF IInv

-----------------------------------------------------------------------------
(* The theorems. *)

\* The inductive invariant holds of the service, its callers and their failures.
THEOREM Inductive == Spec => []IInv
BY InitIInv, NextIInv, PTL DEF Spec

\* The type invariant.
THEOREM TypeCorrect == Spec => []TypeOK
BY Inductive, PTL DEF IInv

\* transition() keeps the row and its event log in agreement, and every history is a path of the
\* transition table.
THEOREM HistoriesAreLegal == Spec => []LogIsHistory
<1>1. IInv => LogIsHistory
  BY DEF IInv, LogIsHistory
<1>2. QED
  BY <1>1, Inductive, PTL

\* No webhook announces an event that has not committed.
THEOREM WebhooksFollowCommits == Spec => []WebhookAfterCommit
BY Inductive, PTL DEF IInv

\* A quoted intent has the deposit address that the watcher needs.
THEOREM QuotesAreWatchable == Spec => []QuotedHasDeposit
BY Inductive, PTL DEF IInv

\* No intent is settled that was not quoted and paid, whatever is asked for.
THEOREM SettledWasPaid == Spec => []PaidBeforeSettled
<1>1. IInv => PaidBeforeSettled
  BY DEF IInv, History, PaidBeforeSettled, Quoted, Awaited, Paid, States
<1>2. QED
  BY <1>1, Inductive, PTL

-----------------------------------------------------------------------------
(* WebhookDelivery: for any events, callers, limits and failures, a row is *)
(* DELIVERED only if its POST was accepted, only first attempts are ever   *)
(* sent, and no row ever becomes FAILED.                                   *)
(*                                                                         *)
(* A row is written by a caller as of what the caller did, so the          *)
(* strengthening is about callers: one that is about to record DELIVERED   *)
(* has had its row accepted, one that sends or records is at attempt 1.    *)

\* What a caller is about to write is true.
OutcomeOK == \A c \in Senders : doing[c] = "delivered" => target[c] \in accepted

\* Only first attempts are sent, and only their outcome is recorded.
FirstOnly ==
  \A c \in Senders : doing[c] \in {"post", "delivered", "failed"} => attempt[c] = 1

\* No row is FAILED: it would take an attempt of number MAX_ATTEMPTS that is sent.
NeverFailed == \A e \in Deliveries : status[e] # "FAILED"

DeliveryInv ==
  /\ DeliveryTypeOK
  /\ OutcomeOK
  /\ FirstOnly
  /\ DeliveredWasAccepted
  /\ NeverFailed

-----------------------------------------------------------------------------
(* The pieces of an action. *)

LEMMA DeliveryBounds ==
  /\ MAX_ATTEMPTS \in Nat \ {0, 1} /\ NoDelivery \notin Deliveries
  /\ IsFiniteSet(Senders) /\ IsFiniteSet(Deliveries)
BY WebhookAssumption

\* What a caller does leaves a well-typed control.
ControlType ==
  /\ doing \in [Senders -> Phases]
  /\ batch \in [Senders -> SUBSET Deliveries]
  /\ target \in [Senders -> Deliveries \cup {NoDelivery}]
  /\ attempt \in [Senders -> Nat]
  /\ \A c \in Senders : doing[c] \notin {"idle", "read"} => target[c] \in Deliveries

ControlOK == ControlType /\ OutcomeOK /\ FirstOnly

RowType ==
  /\ created \in [Deliveries -> Nat]
  /\ status \in [Deliveries -> Status]
  /\ attempts \in [Deliveries -> Nat]
  /\ retryAt \in [Deliveries -> {"null", "future", "past"}]

RowOK == RowType /\ DeliveredWasAccepted /\ NeverFailed

WorldType == posts \in [Deliveries -> Nat] /\ accepted \subseteq Deliveries

CountType == calls \in [Deliveries -> Nat] /\ errors \in Nat /\ crashes \in Nat

LEMMA SplitDelivery ==
  DeliveryInv => ControlOK /\ RowOK /\ WorldType /\ CountType
BY DEF DeliveryInv, DeliveryTypeOK, ControlOK, ControlType, RowOK, RowType, WorldType, CountType

LEMMA JoinDelivery ==
  ControlOK' /\ RowOK' /\ WorldType' /\ CountType' => DeliveryInv'
BY DEF DeliveryInv, DeliveryTypeOK, ControlOK, ControlType, RowOK, RowType, WorldType, CountType

LEMMA IdleControl == ControlOK /\ UNCHANGED <<control, accepted>> => ControlOK'
BY DEF ControlOK, ControlType, OutcomeOK, FirstOnly, control

LEMMA IdleRow == RowOK /\ UNCHANGED <<row, accepted>> => RowOK'
BY DEF RowOK, RowType, DeliveredWasAccepted, NeverFailed, row

LEMMA IdleWorld == WorldType /\ UNCHANGED world => WorldType'
BY DEF WorldType, world

\* A caller that starts on a batch, or ends, promises nothing.
LEMMA AttemptOK ==
  ASSUME ControlOK, NEW c \in Senders, NEW E \in SUBSET Deliveries,
         Attempt(c, E), UNCHANGED accepted
  PROVE  ControlOK'
BY DEF ControlOK, ControlType, OutcomeOK, FirstOnly, Attempt, Phases

\* An upsert gives a new row its place and leaves the rest of a row alone.
LEMMA UpsertOK ==
  ASSUME RowOK, NEW e \in Deliveries, upsertDelivery(e),
         UNCHANGED accepted
  PROVE  RowOK'
<1>1. Rows \in SUBSET Deliveries /\ IsFiniteSet(Deliveries)
  BY DeliveryBounds DEF Rows
<1>2. Cardinality(Rows) + 1 \in Nat
  BY <1>1, FS_Subset, FS_CardinalityType
<1>3. created' \in [Deliveries -> Nat]
  BY <1>2 DEF upsertDelivery, RowOK, RowType
<1>4. QED
  BY <1>3 DEF upsertDelivery, RowOK, RowType, DeliveredWasAccepted, NeverFailed

\* A caller writes DELIVERED when its row was accepted, and PENDING otherwise.
LEMMA UpdateOK ==
  ASSUME RowOK, ControlType, NEW c \in Senders, target[c] \in Deliveries,
         NEW st \in {"PENDING", "DELIVERED"}, NEW at \in {"null", "future", "past"},
         updateDeliveryStatus(c, st, at), st = "DELIVERED" => target[c] \in accepted,
         UNCHANGED accepted
  PROVE  RowOK'
BY DEF RowOK, RowType, ControlType, DeliveredWasAccepted, NeverFailed,
    updateDeliveryStatus, Status

-----------------------------------------------------------------------------
(* The invariant is inductive. *)

LEMMA DeliverOK ==
  ASSUME DeliveryInv, NEW c \in Requests, NEW e \in Deliveries, deliverWebhook(c, e)
  PROVE  DeliveryInv'
<1>1. /\ ControlOK /\ RowOK /\ WorldType /\ CountType
      /\ c \in Senders /\ {e} \in SUBSET Deliveries
  BY SplitDelivery DEF Senders
<1>2. ControlOK'
  BY <1>1, AttemptOK DEF deliverWebhook, world
<1>3. RowOK'
  BY <1>1, UpsertOK DEF deliverWebhook, world
<1>4. WorldType' /\ CountType'
  BY <1>1 DEF deliverWebhook, world, WorldType, CountType
<1>5. QED
  BY <1>1, <1>2, <1>3, <1>4, JoinDelivery

LEMMA ProcessOK ==
  ASSUME DeliveryInv, NEW c \in Retriers, processRetries(c)
  PROVE  DeliveryInv'
<1>1. /\ ControlOK /\ RowOK /\ WorldType /\ CountType
      /\ c \in Senders
  BY SplitDelivery DEF Senders
<1>2. PICK E \in SUBSET Deliveries : Attempt(c, E)
  BY DEF processRetries, Rows
<1>3. UNCHANGED <<row, world, calls, errors, crashes>>
  BY DEF processRetries
<1>4. ControlOK' /\ RowOK'
  BY <1>1, <1>2, <1>3, AttemptOK, IdleRow DEF world
<1>5. WorldType' /\ CountType'
  BY <1>1, <1>3 DEF world, WorldType, CountType
<1>6. QED
  BY <1>1, <1>4, <1>5, JoinDelivery

LEMMA CallerStepOK ==
  ASSUME DeliveryInv, NEW c \in Senders, CallerStep(c)
  PROVE  DeliveryInv'
<1>1. ControlOK /\ RowOK /\ WorldType /\ CountType /\ ControlType
  BY SplitDelivery DEF ControlOK
<1>2. CASE getDelivery(c)
  <2>1. PICK e \in Deliveries :
          /\ target' = [target EXCEPT ![c] = e]
          /\ attempt' = [attempt EXCEPT ![c] = attempts[e] + 1]
          /\ doing' = [doing EXCEPT ![c] = IF attempts[e] + 1 > 1 THEN "reschedule" ELSE "post"]
    BY <1>1, <1>2 DEF getDelivery, ControlType
  <2>2. UNCHANGED <<row, batch, world, calls, errors, crashes>>
    BY <1>2 DEF getDelivery
  <2>3. attempts[e] \in Nat /\ (attempts[e] + 1 > 1 \/ attempts[e] + 1 = 1)
    BY <1>1 DEF RowOK, RowType
  <2>4. ControlType'
    BY <1>1, <2>1, <2>2, <2>3 DEF ControlType, Phases
  <2>5. OutcomeOK' /\ FirstOnly'
    BY <1>1, <2>1, <2>2, <2>3 DEF ControlOK, ControlType, OutcomeOK, FirstOnly, world
  <2>6. RowOK' /\ WorldType' /\ CountType'
    BY <1>1, <2>2, IdleRow DEF world, WorldType, CountType
  <2>7. QED
    BY <1>1, <2>4, <2>5, <2>6, JoinDelivery DEF ControlOK
<1>3. CASE Reschedule(c)
  <2>1. target[c] \in Deliveries /\ batch[c] \ {target[c]} \in SUBSET Deliveries
    BY <1>1, <1>3 DEF Reschedule, ControlType
  <2>2. ControlOK'
    BY <1>1, <1>3, <2>1, AttemptOK DEF Reschedule, Advance, world
  <2>3. RowOK'
    BY <1>1, <1>3, <2>1, UpdateOK DEF Reschedule, world
  <2>4. WorldType' /\ CountType'
    BY <1>1, <1>3 DEF Reschedule, world, WorldType, CountType
  <2>5. QED
    BY <1>1, <2>2, <2>3, <2>4, JoinDelivery
<1>4. CASE Post(c)
  <2>1. target[c] \in Deliveries /\ attempt[c] = 1
    BY <1>1, <1>4 DEF Post, ControlOK, ControlType, FirstOnly
  <2>2. PICK phase \in {"delivered", "failed"} :
          Goto(c, phase) /\ (phase = "delivered" => target[c] \in accepted')
    BY <1>4 DEF Post
  <2>3. accepted \subseteq accepted' /\ accepted' \subseteq Deliveries
    BY <1>1, <1>4, <2>1 DEF Post, WorldType
  <2>4. ControlOK'
    BY <1>1, <2>1, <2>2, <2>3 DEF ControlOK, ControlType, OutcomeOK, FirstOnly, Goto,
      Phases
  <2>5. RowOK'
    BY <1>1, <1>4, <2>3 DEF Post, RowOK, RowType, DeliveredWasAccepted,
      NeverFailed, row
  <2>6. WorldType' /\ CountType'
    BY <1>1, <1>4, <2>1, <2>3 DEF Post, WorldType, CountType
  <2>7. QED
    BY <1>1, <2>4, <2>5, <2>6, JoinDelivery
<1>5. CASE RecordDelivered(c)
  <2>1. /\ target[c] \in Deliveries /\ target[c] \in accepted
        /\ batch[c] \ {target[c]} \in SUBSET Deliveries
    BY <1>1, <1>5 DEF RecordDelivered, ControlOK, ControlType, OutcomeOK
  <2>2. ControlOK'
    BY <1>1, <1>5, <2>1, AttemptOK DEF RecordDelivered, Advance, world
  <2>3. RowOK'
    BY <1>1, <1>5, <2>1, UpdateOK DEF RecordDelivered, world
  <2>4. WorldType' /\ CountType'
    BY <1>1, <1>5 DEF RecordDelivered, world, WorldType, CountType
  <2>5. QED
    BY <1>1, <2>2, <2>3, <2>4, JoinDelivery
<1>6. CASE RecordFailed(c)
  <2>1. target[c] \in Deliveries /\ attempt[c] = 1 /\ batch[c] \ {target[c]} \in SUBSET Deliveries
    BY <1>1, <1>6 DEF RecordFailed, ControlOK, ControlType, FirstOnly
  <2>2. ~Exhausted(c)
    BY <1>1, <2>1, DeliveryBounds DEF Exhausted
  <2>3. ControlOK'
    BY <1>1, <1>6, <2>1, AttemptOK DEF RecordFailed, Advance, world
  <2>4. RowOK'
    BY <1>1, <1>6, <2>1, <2>2, UpdateOK DEF RecordFailed, world
  <2>5. WorldType' /\ CountType'
    BY <1>1, <1>6 DEF RecordFailed, world, WorldType, CountType
  <2>6. QED
    BY <1>1, <2>3, <2>4, <2>5, JoinDelivery
<1>7. QED
  BY <1>2, <1>3, <1>4, <1>5, <1>6 DEF CallerStep

LEMMA ThrowOK ==
  ASSUME DeliveryInv, NEW c \in Senders, StatementThrows(c)
  PROVE  DeliveryInv'
<1>1. /\ ControlOK /\ RowOK /\ WorldType /\ CountType
      /\ {} \in SUBSET Deliveries
  BY SplitDelivery
<1>2. UNCHANGED <<row, world, calls, crashes>> /\ errors' \in Nat
  BY <1>1 DEF StatementThrows, CountType
<1>3. RowOK' /\ WorldType' /\ CountType'
  BY <1>1, <1>2, IdleRow DEF world, WorldType, CountType
<1>4. CASE doing[c] = "delivered" /\ Goto(c, "failed")
  <2>1. ControlOK'
    BY <1>1, <1>2, <1>4 DEF ControlOK, ControlType, OutcomeOK, FirstOnly, Goto,
      Phases, world
  <2>2. QED
    BY <1>1, <1>3, <2>1, JoinDelivery
<1>5. CASE Attempt(c, {})
  BY <1>1, <1>2, <1>3, <1>5, AttemptOK, JoinDelivery DEF world
<1>6. QED
  BY <1>4, <1>5 DEF StatementThrows

LEMMA CrashOK == DeliveryInv /\ Crash => DeliveryInv'
<1> SUFFICES ASSUME DeliveryInv, Crash PROVE DeliveryInv'
  OBVIOUS
<1>1. ControlOK /\ RowOK /\ WorldType /\ CountType
  BY SplitDelivery
<1>2. ControlOK'
  BY <1>1 DEF Crash, ControlOK, ControlType, OutcomeOK, FirstOnly, Phases
<1>3. RowOK' /\ WorldType' /\ CountType'
  BY <1>1, IdleRow DEF Crash, world, WorldType, CountType
<1>4. QED
  BY <1>1, <1>2, <1>3, JoinDelivery

LEMMA FallsDueOK ==
  ASSUME DeliveryInv, NEW e \in Deliveries, RetryFallsDue(e)
  PROVE  DeliveryInv'
<1>1. ControlOK /\ RowOK /\ WorldType /\ CountType
  BY SplitDelivery
<1>2. ControlOK'
  BY <1>1, IdleControl DEF RetryFallsDue, world
<1>3. RowOK'
  BY <1>1 DEF RetryFallsDue, RowOK, RowType, DeliveredWasAccepted, NeverFailed,
    world
<1>4. WorldType' /\ CountType'
  BY <1>1 DEF RetryFallsDue, world, WorldType, CountType
<1>5. QED
  BY <1>1, <1>2, <1>3, <1>4, JoinDelivery

LEMMA IdleOK == DeliveryInv /\ UNCHANGED deliveryVars => DeliveryInv'
<1> SUFFICES ASSUME DeliveryInv, UNCHANGED deliveryVars PROVE DeliveryInv'
  OBVIOUS
<1>1. ControlOK /\ RowOK /\ WorldType /\ CountType
  BY SplitDelivery
<1>2. ControlOK' /\ RowOK'
  BY <1>1, IdleControl, IdleRow DEF deliveryVars, world
<1>3. WorldType' /\ CountType'
  BY <1>1 DEF deliveryVars, world, WorldType, CountType
<1>4. QED
  BY <1>1, <1>2, <1>3, JoinDelivery

LEMMA InitDelivery == DeliveryInit => DeliveryInv
BY DEF DeliveryInit, DeliveryInv, DeliveryTypeOK, OutcomeOK, FirstOnly,
    DeliveredWasAccepted, NeverFailed, Status, Phases

LEMMA NextDelivery == DeliveryInv /\ [DeliveryNext]_deliveryVars => DeliveryInv'
BY DeliverOK, ProcessOK, CallerStepOK, ThrowOK, CrashOK, FallsDueOK, IdleOK DEF DeliveryNext

-----------------------------------------------------------------------------
(* The number of POSTs.  While attempt_count is 0, every POST of a row was *)
(* followed by an error or a crash, or its outcome is yet to be recorded.  *)
(* Once it is not, only those POST that had read the row before.           *)

Unrecorded(e) == {c \in Senders : target[c] = e /\ doing[c] \in {"delivered", "failed"}}
Sending(e) == {c \in Senders : target[c] = e /\ doing[c] = "post"}

Slack(e) ==
  IF attempts[e] = 0 THEN Cardinality(Unrecorded(e))
  ELSE Cardinality(Senders) - Cardinality(Sending(e))

BudgetOK(e) == posts[e] <= Cardinality(Senders) * crashes + errors + Slack(e)

\* An attempt that writes has a number.
Numbered ==
  \A c \in Senders :
    doing[c] \in {"reschedule", "post", "delivered", "failed"} => attempt[c] > 0

Budget == Numbered /\ \A e \in Deliveries : BudgetOK(e)

LEMMA SlackType ==
  ASSUME NEW e
  PROVE  /\ IsFiniteSet(Senders) /\ IsFiniteSet(Unrecorded(e)) /\ IsFiniteSet(Sending(e))
         /\ Cardinality(Senders) \in Nat
         /\ Cardinality(Unrecorded(e)) \in Nat /\ Cardinality(Sending(e)) \in Nat
         /\ Cardinality(Unrecorded(e)) + Cardinality(Sending(e)) <= Cardinality(Senders)
<1> DEFINE U == Unrecorded(e)  S == Sending(e)
<1>1. /\ IsFiniteSet(Senders) /\ U \in SUBSET Senders
      /\ S \in SUBSET Senders /\ U \cap S = {}
  BY DeliveryBounds DEF Unrecorded, Sending
<1>2. U \cup S \in SUBSET Senders
  BY <1>1
<1> HIDE DEF U, S
<1>3. IsFiniteSet(U) /\ IsFiniteSet(S) /\ IsFiniteSet(U \cup S)
  BY <1>1, <1>2, FS_Subset
<1>4. /\ Cardinality(Senders) \in Nat /\ Cardinality(U) \in Nat /\ Cardinality(S) \in Nat
      /\ Cardinality(U \cup S) <= Cardinality(Senders)
  BY <1>1, <1>2, <1>3, FS_Subset, FS_CardinalityType
<1>5. Cardinality(U \cup S) = Cardinality(U) + Cardinality(S) - 0
  BY <1>1, <1>3, FS_Union, FS_EmptySet
<1>6. Cardinality(U) + Cardinality(S) <= Cardinality(Senders)
  BY <1>4, <1>5
<1> QED BY <1>1, <1>3, <1>4, <1>6 DEF U, S

LEMMA Slacks ==
  ASSUME DeliveryInv, NEW e
  PROVE  /\ IsFiniteSet(Senders) /\ IsFiniteSet(Unrecorded(e)) /\ IsFiniteSet(Sending(e))
         /\ Cardinality(Senders) \in Nat
         /\ Cardinality(Unrecorded(e)) \in Nat /\ Cardinality(Sending(e)) \in Nat
         /\ Cardinality(Unrecorded(e)) + Cardinality(Sending(e)) <= Cardinality(Senders)
BY SlackType DEF DeliveryInv

LEMMA BudgetArithmetic ==
  ASSUME NEW p \in Nat, NEW b \in Nat, NEW n \in Nat, NEW r \in Nat, NEW R \in Nat,
         NEW u \in Nat, NEW U \in Nat, NEW s \in Nat, NEW S \in Nat
  PROVE  /\ p <= b + r + u /\ u + r <= U + R => p <= b + R + U
         /\ p <= b + r + u /\ r <= R /\ u + s <= n /\ S <= s => p <= b + R + (n - S)
         /\ p <= b + r + (n - s) /\ r <= R /\ S <= s => p <= b + R + (n - S)
OBVIOUS

LEMMA BudgetNumbers ==
  ASSUME DeliveryInv
  PROVE  /\ errors \in Nat /\ crashes \in Nat /\ Cardinality(Senders) * crashes \in Nat
         /\ \A e \in Deliveries : posts[e] \in Nat
<1>1. errors \in Nat /\ crashes \in Nat /\ \A e \in Deliveries : posts[e] \in Nat
  BY DEF DeliveryInv, DeliveryTypeOK
<1>2. Cardinality(Senders) \in Nat
  BY DeliveryBounds, FS_CardinalityType DEF DeliveryInv
<1>3. \A i, j \in Nat : i * j \in Nat
  OBVIOUS
<1> QED BY <1>1, <1>2, <1>3

\* No POST is sent: the outcome of one is forgotten only for an error, and attempt_count is
\* never 0 again.
LEMMA BudgetKept ==
  ASSUME DeliveryInv, NEW e \in Deliveries, BudgetOK(e),
         posts'[e] = posts[e], crashes' = crashes, errors' \in Nat, errors <= errors',
         attempts'[e] = 0 =>
           /\ attempts[e] = 0
           /\ Cardinality(Unrecorded(e)) + errors <= Cardinality(Unrecorded(e)') + errors',
         attempts'[e] # 0 => Sending(e)' \subseteq Sending(e)
  PROVE  BudgetOK(e)'
<1> DEFINE p == posts[e]  b == Cardinality(Senders) * crashes
           n == Cardinality(Senders)
           u == Cardinality(Unrecorded(e))  U == Cardinality(Unrecorded(e)')
           s == Cardinality(Sending(e))  S == Cardinality(Sending(e)')
<1>1. p \in Nat /\ b \in Nat /\ n \in Nat /\ u \in Nat /\ s \in Nat /\ u + s <= n /\ errors \in Nat
  BY BudgetNumbers, Slacks
<1>2. Unrecorded(e)' \in SUBSET Senders /\ Sending(e)' \in SUBSET Senders
  BY DEF Unrecorded, Sending
<1>3. U \in Nat /\ S \in Nat
  BY <1>2, DeliveryBounds, FS_Subset, FS_CardinalityType DEF DeliveryInv
<1>4. p <= b + errors + (IF attempts[e] = 0 THEN u ELSE n - s)
  BY DEF BudgetOK, Slack
<1>5. attempts'[e] # 0 => S <= s
  BY Slacks, FS_Subset
<1>6. BudgetOK(e)' <=> p <= b + errors' + (IF attempts'[e] = 0 THEN U ELSE n - S)
  BY DEF BudgetOK, Slack
<1>7. attempts'[e] = 0 => attempts[e] = 0 /\ u + errors <= U + errors'
  OBVIOUS
<1> HIDE DEF p, b, n, u, U, s, S
<1>8. CASE attempts'[e] = 0
  BY <1>1, <1>3, <1>4, <1>6, <1>7, <1>8, BudgetArithmetic
<1>9. CASE attempts'[e] # 0
  <2>1. CASE attempts[e] = 0
    BY <1>1, <1>3, <1>4, <1>5, <1>6, <1>9, <2>1, BudgetArithmetic
  <2>2. CASE attempts[e] # 0
    BY <1>1, <1>3, <1>4, <1>5, <1>6, <1>9, <2>2, BudgetArithmetic
  <2> QED BY <2>1, <2>2
<1> QED BY <1>8, <1>9

\* The usual case: what is unrecorded stays so, and nobody else sends.
LEMMA BudgetFrame ==
  ASSUME DeliveryInv, NEW e \in Deliveries, BudgetOK(e), UNCHANGED <<posts, crashes, errors>>,
         attempts'[e] = 0 => attempts[e] = 0 /\ Unrecorded(e) \subseteq Unrecorded(e)',
         attempts'[e] # 0 => Sending(e)' \subseteq Sending(e)
  PROVE  BudgetOK(e)'
<1>1. Unrecorded(e)' \in SUBSET Senders /\ IsFiniteSet(Senders)
  BY DeliveryBounds DEF Unrecorded, DeliveryInv
<1>2. IsFiniteSet(Unrecorded(e)') /\ Cardinality(Unrecorded(e)') \in Nat
  BY <1>1, FS_Subset, FS_CardinalityType
<1>3. attempts'[e] = 0 => Cardinality(Unrecorded(e)) <= Cardinality(Unrecorded(e)')
  BY <1>2, FS_Subset
<1>4. errors \in Nat /\ Cardinality(Unrecorded(e)) \in Nat
  BY BudgetNumbers, Slacks
<1>5. attempts'[e] = 0 =>
        Cardinality(Unrecorded(e)) + errors <= Cardinality(Unrecorded(e)') + errors'
  BY <1>2, <1>3, <1>4
<1> QED BY <1>4, <1>5, BudgetKept

LEMMA BudgetStep ==
  ASSUME DeliveryInv, Budget, [DeliveryNext]_deliveryVars
  PROVE  Budget'
<1>0. /\ doing \in [Senders -> Phases]
      /\ target \in [Senders -> Deliveries \cup {NoDelivery}]
      /\ attempt \in [Senders -> Nat] /\ attempts \in [Deliveries -> Nat]
      /\ posts \in [Deliveries -> Nat] /\ NoDelivery \notin Deliveries
      /\ \A c \in Senders : doing[c] \notin {"idle", "read"} => target[c] \in Deliveries
  BY DeliveryBounds DEF DeliveryInv, DeliveryTypeOK
<1>1. ASSUME NEW c \in Senders, NEW E, Attempt(c, E),
             doing[c] \in {"idle", "read", "reschedule"},
             UNCHANGED <<posts, crashes>>, UNCHANGED attempts, errors' \in Nat, errors <= errors'
      PROVE  Budget'
  <2>1. Numbered'
    BY <1>0, <1>1 DEF Budget, Numbered, Attempt
  <2>2. ASSUME NEW e \in Deliveries PROVE BudgetOK(e)'
    <3>1. Unrecorded(e)' = Unrecorded(e) /\ Sending(e)' \subseteq Sending(e)
      BY <1>0, <1>1 DEF Unrecorded, Sending, Attempt
    <3>2. Cardinality(Unrecorded(e)) + errors <= Cardinality(Unrecorded(e)') + errors'
      BY <1>1, <3>1, Slacks, BudgetNumbers
    <3> QED BY <1>1, <3>1, <3>2, BudgetKept DEF Budget
  <2> QED BY <2>1, <2>2 DEF Budget
<1>2. ASSUME NEW c \in Senders, NEW st, NEW at, updateDeliveryStatus(c, st, at),
             Advance(c),
             doing[c] \in {"reschedule", "delivered", "failed"},
             UNCHANGED <<posts, crashes, errors>>
      PROVE  Budget'
  <2>1. Numbered'
    BY <1>0, <1>2 DEF Budget, Numbered, Advance, Attempt
  <2>2. ASSUME NEW e \in Deliveries PROVE BudgetOK(e)'
    <3>1. /\ attempts' = [attempts EXCEPT ![target[c]] = attempt[c]]
          /\ attempt[c] \in Nat /\ attempt[c] > 0
      BY <1>0, <1>2 DEF updateDeliveryStatus, Budget, Numbered
    <3>2. Sending(e)' \subseteq Sending(e)
      BY <1>0, <1>2 DEF Sending, Advance, Attempt
    <3>3. CASE e = target[c]
      <4>1. attempts'[e] # 0
        BY <1>0, <3>1, <3>3
      <4> QED BY <1>2, <3>2, <4>1, BudgetFrame DEF Budget
    <3>4. CASE e # target[c]
      <4>1. attempts'[e] = attempts[e]
        BY <1>0, <3>1, <3>4
      <4>2. Unrecorded(e) \subseteq Unrecorded(e)'
        BY <1>0, <1>2, <3>4 DEF Unrecorded, Advance, Attempt
      <4> QED BY <1>2, <3>2, <4>1, <4>2, BudgetFrame DEF Budget
    <3> QED BY <3>3, <3>4
  <2> QED BY <2>1, <2>2 DEF Budget
<1>3. ASSUME NEW c \in Senders, getDelivery(c) PROVE Budget'
  <2>1. PICK f \in batch[c] :
          /\ doing[c] = "read"
          /\ target' = [target EXCEPT ![c] = f]
          /\ attempt' = [attempt EXCEPT ![c] = attempts[f] + 1]
          /\ doing' = [doing EXCEPT ![c] = IF attempts[f] + 1 > 1 THEN "reschedule" ELSE "post"]
          /\ UNCHANGED <<row, batch, world, calls, errors, crashes>>
    BY <1>3 DEF getDelivery
  <2>2. f \in Deliveries /\ attempts[f] \in Nat
    BY <1>0 DEF DeliveryInv, DeliveryTypeOK
  <2>3. attempts[f] + 1 \in Nat /\ attempts[f] + 1 > 0 /\ (attempts[f] # 0 => attempts[f] + 1 > 1)
    BY <2>2
  <2>4. Numbered'
    BY <1>0, <2>1, <2>3 DEF Budget, Numbered
  <2>5. ASSUME NEW e \in Deliveries PROVE BudgetOK(e)'
    <3>1. Unrecorded(e) \subseteq Unrecorded(e)'
      BY <1>0, <2>1 DEF Unrecorded
    <3>2. attempts[e] # 0 => Sending(e)' \subseteq Sending(e)
      BY <1>0, <2>1, <2>3 DEF Sending
    <3>3. UNCHANGED <<posts, crashes, errors, attempts>>
      BY <2>1 DEF row, world
    <3> QED BY <3>1, <3>2, <3>3, BudgetFrame DEF Budget
  <2> QED BY <2>4, <2>5 DEF Budget
<1>4. ASSUME NEW c \in Senders, Post(c) PROVE Budget'
  <2>1. PICK phase \in {"delivered", "failed"} : Goto(c, phase)
    BY <1>4 DEF Post
  <2>2. /\ doing[c] = "post" /\ target[c] \in Deliveries
        /\ posts' = [posts EXCEPT ![target[c]] = posts[target[c]] + 1]
        /\ UNCHANGED <<attempts, attempt, target, errors, crashes>>
    BY <1>0, <1>4, <2>1 DEF Post, Goto, row
  <2>3. Numbered'
    BY <1>0, <2>1, <2>2 DEF Budget, Numbered, Goto
  <2>4. ASSUME NEW e \in Deliveries PROVE BudgetOK(e)'
    <3>1. CASE e # target[c]
      <4>1. Unrecorded(e)' = Unrecorded(e) /\ Sending(e)' = Sending(e) /\ posts'[e] = posts[e]
        BY <1>0, <2>1, <2>2, <3>1 DEF Unrecorded, Sending, Goto
      <4>2. errors \in Nat /\ Cardinality(Unrecorded(e)) \in Nat
        BY BudgetNumbers, Slacks
      <4>3. errors <= errors' /\ errors' \in Nat
            /\ Cardinality(Unrecorded(e)) + errors <= Cardinality(Unrecorded(e)') + errors'
        BY <2>2, <4>1, <4>2
      <4> QED BY <2>2, <4>1, <4>3, BudgetKept DEF Budget
    <3>2. CASE e = target[c]
      <4>1. /\ Unrecorded(e)' = Unrecorded(e) \cup {c} /\ c \notin Unrecorded(e)
            /\ Sending(e)' = Sending(e) \ {c} /\ c \in Sending(e)
        BY <1>0, <2>1, <2>2, <3>2 DEF Unrecorded, Sending, Goto
      <4>2. /\ Cardinality(Unrecorded(e)') = Cardinality(Unrecorded(e)) + 1
            /\ Cardinality(Sending(e)') = Cardinality(Sending(e)) - 1
        <5>1. \A S : IsFiniteSet(S) /\ c \notin S => Cardinality(S \cup {c}) = Cardinality(S) + 1
          BY FS_AddElement
        <5>2. \A S : IsFiniteSet(S) /\ c \in S => Cardinality(S \ {c}) = Cardinality(S) - 1
          BY FS_RemoveElement
        <5>3. IsFiniteSet(Unrecorded(e)) /\ IsFiniteSet(Sending(e))
          BY Slacks
        <5> QED BY <4>1, <5>1, <5>2, <5>3
      <4>3. posts'[e] = posts[e] + 1
        BY <1>0, <2>2, <3>2
      <4> DEFINE n == Cardinality(Senders)  u == Cardinality(Unrecorded(e))
                 s == Cardinality(Sending(e))  b == n * crashes
      <4>4. posts[e] <= b + errors + (IF attempts[e] = 0 THEN u ELSE n - s)
        BY DEF Budget, BudgetOK, Slack
      <4>5. /\ posts[e] \in Nat /\ b \in Nat /\ n \in Nat
            /\ u \in Nat /\ s \in Nat /\ errors \in Nat
        BY BudgetNumbers, Slacks
      <4>6. BudgetOK(e)' <=>
              posts[e] + 1 <= b + errors + (IF attempts[e] = 0 THEN u + 1 ELSE n - (s - 1))
        BY <2>2, <4>2, <4>3 DEF BudgetOK, Slack
      <4> HIDE DEF n, u, s, b
      <4>7. \A p, i, j, k, m, r \in Nat :
              /\ p <= i + r + k => p + 1 <= i + r + (k + 1)
              /\ p <= i + r + (m - j) => p + 1 <= i + r + (m - (j - 1))
        OBVIOUS
      <4> QED BY <4>4, <4>5, <4>6, <4>7
    <3> QED BY <3>1, <3>2
  <2> QED BY <2>3, <2>4 DEF Budget
<1>5. ASSUME NEW c \in Senders, StatementThrows(c) PROVE Budget'
  <2>1. errors' = errors + 1 /\ errors \in Nat /\ UNCHANGED <<posts, crashes, attempts>>
    BY <1>5, BudgetNumbers DEF StatementThrows, row, world
  <2>2. errors' \in Nat /\ errors <= errors'
    BY <2>1
  <2>3. CASE doing[c] = "delivered" /\ Goto(c, "failed")
    <3>1. Numbered'
      BY <1>0, <2>3 DEF Budget, Numbered, Goto
    <3>2. ASSUME NEW e \in Deliveries PROVE BudgetOK(e)'
      <4>1. Unrecorded(e)' = Unrecorded(e) /\ Sending(e)' = Sending(e)
        BY <1>0, <2>3 DEF Unrecorded, Sending, Goto
      <4>2. Cardinality(Unrecorded(e)) + errors <= Cardinality(Unrecorded(e)') + errors'
        BY <2>1, <2>2, <4>1, Slacks
      <4> QED BY <2>1, <2>2, <4>1, <4>2, BudgetKept DEF Budget
    <3> QED BY <3>1, <3>2 DEF Budget
  <2>4. CASE doing[c] \in {"read", "reschedule"} /\ Attempt(c, {})
    BY <1>1, <2>1, <2>2, <2>4
  <2>5. CASE doing[c] = "failed" /\ Attempt(c, {})
    <3>1. Numbered'
      BY <1>0, <2>5 DEF Budget, Numbered, Attempt
    <3>2. ASSUME NEW e \in Deliveries PROVE BudgetOK(e)'
      <4>1. Unrecorded(e)' = Unrecorded(e) \ {c} /\ Sending(e)' \subseteq Sending(e)
        BY <1>0, <2>5 DEF Unrecorded, Sending, Attempt
      <4>2. Cardinality(Unrecorded(e)) - 1 <= Cardinality(Unrecorded(e)')
            /\ Cardinality(Unrecorded(e)') \in Nat
        <5>1. \A S : IsFiniteSet(S) /\ c \in S =>
                Cardinality(S \ {c}) = Cardinality(S) - 1 /\ Cardinality(S \ {c}) \in Nat
          BY FS_RemoveElement, FS_CardinalityType
        <5>2. IsFiniteSet(Unrecorded(e)) /\ Cardinality(Unrecorded(e)) \in Nat
          BY Slacks
        <5>3. CASE c \in Unrecorded(e)
          BY <4>1, <5>1, <5>2, <5>3
        <5>4. CASE c \notin Unrecorded(e)
          <6>1. Unrecorded(e)' = Unrecorded(e)
            BY <4>1, <5>4
          <6> QED BY <5>2, <6>1
        <5> QED BY <5>3, <5>4
      <4>3. Cardinality(Unrecorded(e)) + errors <= Cardinality(Unrecorded(e)') + errors'
        BY <2>1, <4>2, Slacks
      <4> QED BY <2>1, <2>2, <4>1, <4>3, BudgetKept DEF Budget
    <3> QED BY <3>1, <3>2 DEF Budget
  <2> QED BY <1>5, <2>3, <2>4, <2>5 DEF StatementThrows
<1>6. CASE Crash
  <2>1. Numbered'
    BY <1>6 DEF Crash, Numbered
  <2>2. ASSUME NEW e \in Deliveries PROVE BudgetOK(e)'
    <3>1. Unrecorded(e)' = {} /\ Sending(e)' = {}
      BY <1>6, <1>0 DEF Crash, Unrecorded, Sending
    <3>2. crashes' = crashes + 1 /\ UNCHANGED <<posts, errors, attempts>>
      BY <1>6 DEF Crash, row, world
    <3> DEFINE n == Cardinality(Senders)  u == Cardinality(Unrecorded(e))
               s == Cardinality(Sending(e))
    <3>3. posts[e] <= n * crashes + errors + (IF attempts[e] = 0 THEN u ELSE n - s)
      BY DEF Budget, BudgetOK, Slack
    <3>4. /\ posts[e] \in Nat /\ n * crashes \in Nat /\ n \in Nat /\ u \in Nat /\ s \in Nat
          /\ errors \in Nat /\ crashes \in Nat /\ u + s <= n
      BY BudgetNumbers, Slacks
    <3>5. BudgetOK(e)' <=>
            posts[e] <= n * (crashes + 1) + errors + (IF attempts[e] = 0 THEN 0 ELSE n - 0)
      BY <3>1, <3>2, FS_EmptySet DEF BudgetOK, Slack
    <3> HIDE DEF n, u, s
    <3>6. n * (crashes + 1) = n * crashes + n
      BY <3>4
    <3>7. \A p, b, j, k, m, r \in Nat :
            /\ k + j <= m /\ p <= b + r + k => p <= (b + m) + r + 0
            /\ p <= b + r + (m - j) => p <= (b + m) + r + (m - 0)
      OBVIOUS
    <3> QED BY <3>3, <3>4, <3>5, <3>6, <3>7
  <2> QED BY <2>1, <2>2 DEF Budget
<1>7. ASSUME UNCHANGED <<attempts, control, posts, errors, crashes>> PROVE Budget'
  BY <1>7 DEF Budget, Numbered, BudgetOK, Slack, Unrecorded, Sending, control
<1>8. ASSUME NEW e \in Deliveries, RetryFallsDue(e) PROVE Budget'
  BY <1>7, <1>8 DEF RetryFallsDue, world
<1>9. CASE UNCHANGED deliveryVars
  BY <1>7, <1>9 DEF deliveryVars, row, world
<1>10. ASSUME NEW c \in Requests, NEW e \in Deliveries, deliverWebhook(c, e) PROVE Budget'
  <2>1. /\ Attempt(c, {e}) /\ c \in Senders /\ doing[c] = "idle"
        /\ UNCHANGED <<posts, crashes, attempts, errors>> /\ errors \in Nat /\ errors <= errors
    BY <1>10, BudgetNumbers DEF deliverWebhook, upsertDelivery, world,
      Senders
  <2> QED BY <1>1, <2>1
<1>11. ASSUME NEW c \in Retriers, processRetries(c) PROVE Budget'
  <2>1. PICK E : Attempt(c, E)
    BY <1>11 DEF processRetries
  <2>2. /\ c \in Senders /\ doing[c] = "idle"
        /\ UNCHANGED <<posts, crashes, attempts, errors>> /\ errors \in Nat /\ errors <= errors
    BY <1>11, BudgetNumbers DEF processRetries, row, world, Senders
  <2> QED BY <1>1, <2>1, <2>2
<1>12. ASSUME NEW c \in Senders,
              Reschedule(c) \/ RecordDelivered(c) \/ RecordFailed(c)
       PROVE  Budget'
  <2>1. PICK st, at : updateDeliveryStatus(c, st, at)
    BY <1>12 DEF Reschedule, RecordDelivered, RecordFailed
  <2>2. /\ Advance(c) /\ doing[c] \in {"reschedule", "delivered", "failed"}
        /\ UNCHANGED <<posts, crashes, errors>>
    BY <1>12 DEF Reschedule, RecordDelivered, RecordFailed, world
  <2> QED BY <1>2, <2>1, <2>2
<1> QED BY <1>3, <1>4, <1>5, <1>6, <1>8, <1>9, <1>10, <1>11, <1>12 DEF DeliveryNext,
    CallerStep

LEMMA BudgetStarts == DeliveryInit => Budget
<1> SUFFICES ASSUME DeliveryInit PROVE Budget
  OBVIOUS
<1>1. Cardinality(Senders) \in Nat
  BY DeliveryBounds, FS_CardinalityType
<1>2. ASSUME NEW e \in Deliveries PROVE BudgetOK(e)
  <2>1. Cardinality(Unrecorded(e)) \in Nat
    BY SlackType
  <2>2. posts[e] = 0 /\ crashes = 0 /\ errors = 0 /\ attempts[e] = 0
    BY DEF DeliveryInit
  <2>3. \A n, u \in Nat : 0 <= n * 0 + 0 + u
    OBVIOUS
  <2> QED BY <1>1, <2>1, <2>2, <2>3 DEF BudgetOK, Slack
<1> QED BY <1>2 DEF DeliveryInit, Budget, Numbered

LEMMA BudgetHolds == DeliveryInv /\ Budget => PostBudget
<1> SUFFICES ASSUME DeliveryInv, Budget, NEW e \in Deliveries
             PROVE  posts[e] <= Cardinality(Senders) * (1 + crashes) + errors
  BY DEF PostBudget
<1> DEFINE n == Cardinality(Senders)  u == Cardinality(Unrecorded(e))
           s == Cardinality(Sending(e))
<1>1. posts[e] <= n * crashes + errors + (IF attempts[e] = 0 THEN u ELSE n - s)
  BY DEF Budget, BudgetOK, Slack
<1>2. /\ posts[e] \in Nat /\ n * crashes \in Nat /\ n \in Nat /\ u \in Nat /\ s \in Nat
      /\ errors \in Nat /\ crashes \in Nat /\ u + s <= n
  BY BudgetNumbers, Slacks
<1> HIDE DEF n, u, s
<1>3. n * (1 + crashes) = n * crashes + n
  BY <1>2
<1>4. \A p, b, j, k, m, r \in Nat :
        /\ k + j <= m /\ p <= b + r + k => p <= (b + m) + r
        /\ p <= b + r + (m - j) => p <= (b + m) + r
  OBVIOUS
<1>5. posts[e] <= n * (1 + crashes) + errors
  BY <1>1, <1>2, <1>3, <1>4
<1> QED BY <1>5 DEF n

-----------------------------------------------------------------------------
(* The theorems. *)

\* The inductive invariant of rows and callers.
THEOREM DeliveryInductive == DeliverySpec => []DeliveryInv
BY InitDelivery, NextDelivery, PTL DEF DeliverySpec

\* The type invariant.
THEOREM DeliveryTypeCorrect == DeliverySpec => []DeliveryTypeOK
BY DeliveryInductive, PTL DEF DeliveryInv

\* A row says DELIVERED only if the endpoint accepted its POST.
THEOREM DeliveredRowsWereAccepted ==
  DeliverySpec => []DeliveredWasAccepted
BY DeliveryInductive, PTL DEF DeliveryInv

\* attemptDelivery returns before its POST on every attempt but the first, so the branch that
\* gives up after MAX_ATTEMPTS is never taken: a refused webhook stays PENDING for ever.
THEOREM RefusedRowsStayPending == DeliverySpec => []NeverFailed
BY DeliveryInductive, PTL DEF DeliveryInv

\* Only attempts that overlap the first one, or whose outcome an error or a crash lost, send
\* an event again, for any number of callers, events and failures.
THEOREM PostsAreBounded == DeliverySpec => []PostBudget
<1>1. DeliveryInv /\ Budget /\ [DeliveryNext]_deliveryVars => Budget'
  BY BudgetStep
<1> QED BY <1>1, DeliveryInductive, BudgetStarts, BudgetHolds, PTL DEF DeliverySpec

-----------------------------------------------------------------------------
(* Rows that were never sent.  A caller counts, delays or settles a row    *)
(* only when it, or a caller before it, has sent it.                       *)

UnsentOK(e) == posts[e] = 0 => attempts[e] = 0 /\ retryAt[e] = "null" /\ status[e] = "PENDING"

Unsent ==
  /\ \A e \in Deliveries : UnsentOK(e)
  /\ \A c \in Senders : doing[c] \in {"reschedule", "delivered", "failed"} => posts[target[c]] > 0

LEMMA UnsentFrame ==
  ASSUME Unsent, UNCHANGED <<status, attempts, retryAt, posts>>,
         \A c \in Senders : /\ doing'[c] \in {"reschedule", "delivered", "failed"}
                            => /\ doing[c] \in {"reschedule", "delivered", "failed"}
                               /\ target'[c] = target[c]
  PROVE  Unsent'
BY DEF Unsent, UnsentOK

LEMMA UnsentStep ==
  ASSUME DeliveryInv, Unsent, [DeliveryNext]_deliveryVars
  PROVE  Unsent'
<1>0. /\ doing \in [Senders -> Phases]
      /\ target \in [Senders -> Deliveries \cup {NoDelivery}]
      /\ batch \in [Senders -> SUBSET Deliveries]
      /\ attempts \in [Deliveries -> Nat] /\ retryAt \in [Deliveries -> {"null", "future", "past"}]
      /\ status \in [Deliveries -> Status] /\ posts \in [Deliveries -> Nat]
      /\ \A c \in Senders : doing[c] \notin {"idle", "read"} => target[c] \in Deliveries
  BY DEF DeliveryInv, DeliveryTypeOK
<1>1. ASSUME NEW c \in Senders, NEW E, Attempt(c, E), UNCHANGED <<status, attempts, retryAt, posts>>
      PROVE  Unsent'
  BY <1>0, <1>1, UnsentFrame DEF Attempt
<1>2. ASSUME NEW c \in Senders, NEW st, NEW at, updateDeliveryStatus(c, st, at), Advance(c),
             doing[c] \in {"reschedule", "delivered", "failed"}, UNCHANGED posts
      PROVE  Unsent'
  <2>1. posts[target[c]] > 0 /\ target[c] \in Deliveries
    BY <1>0, <1>2 DEF Unsent
  <2>2. ASSUME NEW e \in Deliveries PROVE UnsentOK(e)'
    <3>1. CASE e = target[c]
      BY <1>2, <2>1, <3>1 DEF UnsentOK
    <3>2. CASE e # target[c]
      <4>1. attempts'[e] = attempts[e] /\ retryAt'[e] = retryAt[e] /\ status'[e] = status[e]
        BY <1>0, <1>2, <3>2 DEF updateDeliveryStatus
      <4> QED BY <1>2, <4>1 DEF Unsent, UnsentOK
    <3> QED BY <3>1, <3>2
  <2>3. ASSUME NEW d \in Senders, doing'[d] \in {"reschedule", "delivered", "failed"}
        PROVE  posts'[target'[d]] > 0
    BY <1>0, <1>2, <2>3 DEF Unsent, Advance, Attempt
  <2> QED BY <2>2, <2>3 DEF Unsent
<1>3. ASSUME NEW c \in Senders, getDelivery(c) PROVE Unsent'
  <2>1. PICK f \in batch[c] :
          /\ target' = [target EXCEPT ![c] = f]
          /\ doing' = [doing EXCEPT ![c] = IF attempts[f] + 1 > 1 THEN "reschedule" ELSE "post"]
          /\ UNCHANGED <<row, batch, world, calls, errors, crashes>>
    BY <1>3 DEF getDelivery
  <2>2. f \in Deliveries /\ attempts[f] \in Nat /\ posts[f] \in Nat
    BY <1>0
  <2>3. attempts[f] + 1 > 1 => posts[f] > 0
    BY <2>2 DEF Unsent, UnsentOK
  <2>4. \A e \in Deliveries : UnsentOK(e)'
    BY <2>1 DEF Unsent, UnsentOK, row, world
  <2>5. ASSUME NEW d \in Senders, doing'[d] \in {"reschedule", "delivered", "failed"}
        PROVE  posts'[target'[d]] > 0
    <3>1. CASE d = c
      BY <1>0, <2>1, <2>3, <2>5, <3>1 DEF world
    <3>2. CASE d # c
      BY <1>0, <2>1, <2>5, <3>2 DEF Unsent, world
    <3> QED BY <3>1, <3>2
  <2> QED BY <2>4, <2>5 DEF Unsent
<1>4. ASSUME NEW c \in Senders, Post(c) PROVE Unsent'
  <2>1. PICK phase \in {"delivered", "failed"} : Goto(c, phase)
    BY <1>4 DEF Post
  <2>2. /\ target[c] \in Deliveries
        /\ posts' = [posts EXCEPT ![target[c]] = posts[target[c]] + 1]
        /\ UNCHANGED <<attempts, retryAt, status, target>>
    BY <1>0, <1>4, <2>1 DEF Post, Goto, row
  <2>3. \A e \in Deliveries : posts'[e] \in Nat /\ posts'[e] >= posts[e] /\ posts[e] \in Nat
    BY <1>0, <2>2
  <2>4. posts'[target[c]] > 0
    BY <1>0, <2>2
  <2>5. \A e \in Deliveries : UnsentOK(e)'
    BY <2>2, <2>3 DEF Unsent, UnsentOK
  <2>6. ASSUME NEW d \in Senders, doing'[d] \in {"reschedule", "delivered", "failed"}
        PROVE  posts'[target'[d]] > 0
    <3>1. CASE d = c
      BY <2>2, <2>4, <3>1
    <3>2. CASE d # c
      <4>1. doing'[d] = doing[d] /\ target'[d] = target[d] /\ target[d] \in Deliveries
        BY <1>0, <2>1, <2>2, <2>6, <3>2 DEF Goto
      <4>2. posts[target[d]] > 0
        BY <2>6, <4>1 DEF Unsent
      <4> QED BY <2>3, <4>1, <4>2
    <3> QED BY <3>1, <3>2
  <2> QED BY <2>5, <2>6 DEF Unsent
<1>5. ASSUME NEW c \in Senders, StatementThrows(c) PROVE Unsent'
  <2>1. UNCHANGED <<status, attempts, retryAt, posts>>
    BY <1>5 DEF StatementThrows, row, world
  <2>2. CASE doing[c] = "delivered" /\ Goto(c, "failed")
    BY <1>0, <2>1, <2>2, UnsentFrame DEF Goto
  <2>3. CASE Attempt(c, {})
    BY <1>1, <2>1, <2>3
  <2> QED BY <1>5, <2>2, <2>3 DEF StatementThrows
<1>6. CASE Crash
  BY <1>6, UnsentFrame DEF Crash, row, world
<1>7. ASSUME NEW e \in Deliveries, RetryFallsDue(e) PROVE Unsent'
  BY <1>0, <1>7 DEF RetryFallsDue, Unsent, UnsentOK, control, world
<1>8. ASSUME NEW c \in Requests, NEW e \in Deliveries, deliverWebhook(c, e) PROVE Unsent'
  BY <1>1, <1>8 DEF deliverWebhook, upsertDelivery, world, Senders
<1>9. ASSUME NEW c \in Retriers, processRetries(c) PROVE Unsent'
  BY <1>1, <1>9 DEF processRetries, row, world, Senders
<1>10. ASSUME NEW c \in Senders, CallerStep(c) PROVE Unsent'
  <2>1. ASSUME Reschedule(c) \/ RecordDelivered(c) \/ RecordFailed(c) PROVE Unsent'
    BY <1>2, <2>1 DEF Reschedule, RecordDelivered, RecordFailed, world
  <2> QED BY <1>3, <1>4, <1>10, <2>1 DEF CallerStep
<1>11. CASE UNCHANGED deliveryVars
  BY <1>11, UnsentFrame DEF deliveryVars, row, control, world
<1> QED BY <1>5, <1>6, <1>7, <1>8, <1>9, <1>10, <1>11 DEF DeliveryNext

\* A row that was never sent stays due: whatever crashes, fails or overlaps between the upsert
\* and the POST, the SELECT of processRetries finds it.
THEOREM UnsentRowsStayDue == DeliverySpec => []UnsentStaysDue
<1>1. DeliveryInit => Unsent
  BY DEF DeliveryInit, Unsent, UnsentOK
<1>2. DeliveryInv /\ Unsent => UnsentStaysDue
  BY DeliveryBounds DEF Unsent, UnsentOK, UnsentStaysDue, Due
<1> QED BY <1>1, <1>2, InitDelivery, NextDelivery, UnsentStep, PTL DEF DeliverySpec
=============================================================================
