----------------------------- MODULE MCIntents -----------------------------
(***************************************************************************)
(* An instance of the intents and their webhooks for TLC: PaymentIntent    *)
(* with one intent and two callers, and WebhookDelivery with two rows, a   *)
(* request and a retrier.  Which events are handed over is a property of   *)
(* the first, what becomes of them of the second, and the two share no     *)
(* variable: a behaviour takes the steps of one of them.                   *)
(***************************************************************************)
EXTENDS PaymentIntent, WebhookDelivery, TLC

CONSTANTS i1, c1, c2, a1, t1, t2, t3, e1, e2, q1, cron

VARIABLE subject

\* Everything PaymentIntentService offers.
AllOperations == {"create", "quote", "await", "record", "confirm", "route", "settle", "settled",
                  "fail", "expire"}
Amounts == [t \in Transfers |->
  CASE t = t1 -> "exact" [] t = t2 -> "short" [] OTHER -> "excess"]

IsIntents == subject = "intents"
IsWebhooks == subject = "webhooks"

IntentsInit == subject \in {"intents", "webhooks"} /\ Init /\ DeliveryInit

IntentsNext ==
  /\ UNCHANGED subject
  /\ \/ IsIntents /\ Next /\ UNCHANGED deliveryVars
     \/ IsWebhooks /\ DeliveryNext /\ UNCHANGED vars

IntentsSpec == IntentsInit /\ [][IntentsNext]_<<subject, vars, deliveryVars>>

\* Callers are interchangeable: invariants only.
Symmetry == Permutations(Callers)
=============================================================================
