-------------------------- MODULE WebhookDelivery --------------------------
(***************************************************************************)
(* The webhook deliveries: rows of webhook_deliveries and the operations   *)
(* of WebhookDeliveryService on them                                       *)
(* (packages/payment-intent/src/webhook-delivery.service.ts).              *)
(*                                                                         *)
(* One row per intent and event type (a delivery here).  Requests and jobs   *)
(* call deliverWebhook; processRetries, which no code calls yet, goes over *)
(* the due rows.  Both end in attemptDelivery, split at its awaits: it     *)
(* reads the row, POSTs, and records the outcome as of what it read.       *)
(*                                                                         *)
(* Abstracted: payload, URL and signature; next_retry_at to whether it is  *)
(* null, in the future or past; a merchant without a URL to no step.       *)
(***************************************************************************)
EXTENDS Naturals, FiniteSets

CONSTANTS
  Deliveries,    \* the rows: an intent and an event type
  Requests,      \* callers of deliverWebhook
  Retriers,      \* callers of processRetries
  MAX_ATTEMPTS,
  BatchLimit,    \* LIMIT of processRetries
  MaxDeliveries, \* bound: calls of deliverWebhook for an event
  MaxErrors,     \* bound: failing statements
  MaxCrashes,    \* bound: process deaths
  NoDelivery

Senders == Requests \cup Retriers

ASSUME WebhookAssumption ==
  /\ MAX_ATTEMPTS \in Nat \ {0, 1} /\ BatchLimit \in Nat \ {0}
  /\ MaxDeliveries \in Nat /\ MaxErrors \in Nat /\ MaxCrashes \in Nat
  /\ NoDelivery \notin Deliveries
  /\ IsFiniteSet(Senders) /\ IsFiniteSet(Deliveries) /\ Requests \cap Retriers = {}

VARIABLES
  created,   \* created_at: 0 while the row does not exist, then its place among the rows
  status,    \* status column
  attempts,  \* attempt_count column
  retryAt,   \* next_retry_at: "null", "future" or "past"
  doing,     \* what each caller is doing
  batch,     \* the rows it has yet to attempt
  target,    \* the row that it attempts
  attempt,   \* the attempt number it computed from the row it read
  posts,     \* history: POSTs sent for each event
  accepted,  \* history: events whose endpoint answered 2xx
  calls, errors, crashes   \* count against the bounds

row == <<created, status, attempts, retryAt>>
control == <<doing, batch, target, attempt>>
world == <<posts, accepted>>
deliveryVars == <<row, control, world, calls, errors, crashes>>

Status == {"PENDING", "DELIVERED", "FAILED"}
Phases == {"idle", "read", "reschedule", "post", "delivered", "failed"}

DeliveryTypeOK ==
  /\ created \in [Deliveries -> Nat]
  /\ status \in [Deliveries -> Status]
  /\ attempts \in [Deliveries -> Nat]
  /\ retryAt \in [Deliveries -> {"null", "future", "past"}]
  /\ doing \in [Senders -> Phases]
  /\ batch \in [Senders -> SUBSET Deliveries]
  /\ target \in [Senders -> Deliveries \cup {NoDelivery}]
  /\ attempt \in [Senders -> Nat]
  /\ \A c \in Senders : doing[c] \notin {"idle", "read"} => target[c] \in Deliveries
  /\ posts \in [Deliveries -> Nat]
  /\ accepted \subseteq Deliveries
  /\ calls \in [Deliveries -> Nat] /\ errors \in Nat /\ crashes \in Nat

DeliveryInit ==
  /\ created = [e \in Deliveries |-> 0]
  /\ status = [e \in Deliveries |-> "PENDING"]
  /\ attempts = [e \in Deliveries |-> 0]
  /\ retryAt = [e \in Deliveries |-> "null"]
  /\ doing = [c \in Senders |-> "idle"]
  /\ batch = [c \in Senders |-> {}]
  /\ target = [c \in Senders |-> NoDelivery]
  /\ attempt = [c \in Senders |-> 0]
  /\ posts = [e \in Deliveries |-> 0]
  /\ accepted = {}
  /\ calls = [e \in Deliveries |-> 0] /\ errors = 0 /\ crashes = 0

Exists(e) == created[e] > 0
Rows == {e \in Deliveries : Exists(e)}

-----------------------------------------------------------------------------
(* Where a call of attemptDelivery begins and ends. *)

Attempt(c, events) ==
  /\ doing' = [doing EXCEPT ![c] = IF events = {} THEN "idle" ELSE "read"]
  /\ batch' = [batch EXCEPT ![c] = events]
  /\ target' = [target EXCEPT ![c] = NoDelivery]
  /\ attempt' = [attempt EXCEPT ![c] = 0]

\* The current row is done: processRetries goes on with the next one.
Advance(c) == Attempt(c, batch[c] \ {target[c]})

Goto(c, phase) == doing' = [doing EXCEPT ![c] = phase] /\ UNCHANGED <<batch, target, attempt>>

\* Mutant: an existing row starts over.
upsertDelivery_Reset(e) ==
  /\ created' = [created EXCEPT ![e] = IF Exists(e) THEN @ ELSE Cardinality(Rows) + 1]
  /\ attempts' = [attempts EXCEPT ![e] = 0]
  /\ status' = [status EXCEPT ![e] = "PENDING"]
  /\ UNCHANGED retryAt

\* An existing row keeps its status and its attempts.
upsertDelivery(e) ==
  /\ created' = [created EXCEPT ![e] = IF Exists(e) THEN @ ELSE Cardinality(Rows) + 1]
  /\ UNCHANGED <<status, attempts, retryAt>>

deliverWebhook(c, e) ==
  /\ doing[c] = "idle"
  /\ calls[e] < MaxDeliveries
  /\ calls' = [calls EXCEPT ![e] = @ + 1]
  /\ upsertDelivery(e)
  /\ Attempt(c, {e})
  /\ UNCHANGED <<world, errors, crashes>>

\* Mutant: next_retry_at <= NOW() alone, which is not true of NULL.
Due_NotNull(e) == status[e] = "PENDING" /\ attempts[e] < MAX_ATTEMPTS /\ retryAt[e] = "past"

Due(e) == status[e] = "PENDING" /\ attempts[e] < MAX_ATTEMPTS /\ retryAt[e] # "future"

processRetries(c) ==
  LET due == {e \in Rows : Due(e)} IN
  /\ doing[c] = "idle"
  /\ due # {}
  /\ Attempt(c, {e \in due : Cardinality({f \in due : created[f] < created[e]}) < BatchLimit})
  /\ UNCHANGED <<row, world, calls, errors, crashes>>

-----------------------------------------------------------------------------
(* attemptDelivery. *)

\* The next row of the batch, by created_at.  Only one that was never attempted is sent; any
\* other is put off.
getDelivery(c) == \E e \in batch[c] :
  /\ doing[c] = "read"
  /\ \A f \in batch[c] : created[e] <= created[f]
  /\ target' = [target EXCEPT ![c] = e]
  /\ attempt' = [attempt EXCEPT ![c] = attempts[e] + 1]
  /\ doing' = [doing EXCEPT ![c] = IF attempts[e] + 1 > 1 THEN "reschedule" ELSE "post"]
  /\ UNCHANGED <<row, batch, world, calls, errors, crashes>>

updateDeliveryStatus(c, st, at) ==
  /\ status' = [status EXCEPT ![target[c]] = st]
  /\ attempts' = [attempts EXCEPT ![target[c]] = attempt[c]]
  /\ retryAt' = [retryAt EXCEPT ![target[c]] = at]
  /\ UNCHANGED created

Reschedule(c) ==
  /\ doing[c] = "reschedule"
  /\ updateDeliveryStatus(c, "PENDING", "future")
  /\ Advance(c)
  /\ UNCHANGED <<world, calls, errors, crashes>>

\* Mutant: the status of the response is not looked at.
Post_AnyStatus(c) ==
  /\ doing[c] = "post"
  /\ posts' = [posts EXCEPT ![target[c]] = @ + 1]
  /\ \/ Goto(c, "delivered") /\ accepted' = accepted \cup {target[c]}
     \/ Goto(c, "delivered") /\ UNCHANGED accepted
     \/ Goto(c, "failed") /\ UNCHANGED accepted
  /\ UNCHANGED <<row, calls, errors, crashes>>

\* The endpoint accepts, refuses, or accepts without the answer arriving in time.
Post(c) ==
  /\ doing[c] = "post"
  /\ posts' = [posts EXCEPT ![target[c]] = @ + 1]
  /\ \/ Goto(c, "delivered") /\ accepted' = accepted \cup {target[c]}
     \/ Goto(c, "failed") /\ UNCHANGED accepted
     \/ Goto(c, "failed") /\ accepted' = accepted \cup {target[c]}
  /\ UNCHANGED <<row, calls, errors, crashes>>

RecordDelivered(c) ==
  /\ doing[c] = "delivered"
  /\ updateDeliveryStatus(c, "DELIVERED", "null")
  /\ Advance(c)
  /\ UNCHANGED <<world, calls, errors, crashes>>

Exhausted(c) == attempt[c] >= MAX_ATTEMPTS

RecordFailed(c) ==
  /\ doing[c] = "failed"
  /\ IF Exhausted(c)
     THEN updateDeliveryStatus(c, "FAILED", "null")
     ELSE updateDeliveryStatus(c, "PENDING", "future")
  /\ Advance(c)
  /\ UNCHANGED <<world, calls, errors, crashes>>

\* A statement throws.  The one that records DELIVERED is inside the try of the POST, so the
\* row is then recorded as failed; any other ends the operation and drops its batch.
StatementThrows(c) ==
  /\ errors < MaxErrors
  /\ errors' = errors + 1
  /\ \/ doing[c] = "delivered" /\ Goto(c, "failed")
     \/ doing[c] \in {"read", "reschedule", "failed"} /\ Attempt(c, {})
  /\ UNCHANGED <<row, world, calls, crashes>>

\* The process dies, and with it what its callers were doing.
Crash ==
  /\ crashes < MaxCrashes
  /\ crashes' = crashes + 1
  /\ doing' = [c \in Senders |-> "idle"]
  /\ batch' = [c \in Senders |-> {}]
  /\ target' = [c \in Senders |-> NoDelivery]
  /\ attempt' = [c \in Senders |-> 0]
  /\ UNCHANGED <<row, world, calls, errors>>

\* next_retry_at passes.
RetryFallsDue(e) ==
  /\ retryAt[e] = "future"
  /\ retryAt' = [retryAt EXCEPT ![e] = "past"]
  /\ UNCHANGED <<created, status, attempts, control, world, calls, errors, crashes>>

-----------------------------------------------------------------------------
CallerStep(c) ==
  getDelivery(c) \/ Reschedule(c) \/ Post(c) \/ RecordDelivered(c) \/ RecordFailed(c)

DeliveryNext ==
  \/ \E c \in Requests, e \in Deliveries : deliverWebhook(c, e)
  \/ \E c \in Retriers : processRetries(c)
  \/ \E c \in Senders : CallerStep(c) \/ StatementThrows(c)
  \/ Crash
  \/ \E e \in Deliveries : RetryFallsDue(e)

DeliverySpec == DeliveryInit /\ [][DeliveryNext]_deliveryVars

-----------------------------------------------------------------------------
(* Properties. *)

\* A row says DELIVERED only if the merchant's endpoint accepted a POST of it, whatever
\* attempts overlap, time out or are recorded late.
DeliveredWasAccepted == \A e \in Deliveries : status[e] = "DELIVERED" => e \in accepted

(***************************************************************************)
(* "Idempotent": however often deliverWebhook is called for an event, only *)
(* attempts that overlap the first one, or whose outcome was never         *)
(* recorded, send it again.                                                *)
(***************************************************************************)
PostBudget ==
  \A e \in Deliveries : posts[e] <= Cardinality(Senders) * (1 + crashes) + errors

\* A row that was never sent is one that processRetries selects, as soon as it is called: no
\* crash, failing statement or repeated event between the upsert and the POST takes it out of
\* the due rows, whose next_retry_at may be NULL.
UnsentStaysDue == \A e \in Deliveries : Exists(e) /\ posts[e] = 0 => Due(e)

=============================================================================
