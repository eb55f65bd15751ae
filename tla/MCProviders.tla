---------------------------- MODULE MCProviders ----------------------------
(***************************************************************************)
(* Services outside the program that must be reached in the end: the mail  *)
(* server, Redis and its queue (NotificationOutbox), and the payment       *)
(* provider (ShippingFee), as scenes chosen in the initial state. Two      *)
(* scenes are NotificationOutbox, which this module extends, each with a   *)
(* part of its slots and faults; "payment" is an instance of ShippingFee   *)
(* with variables of its own, and no notification is made in it.           *)
(*                                                                         *)
(*   workers:  two worker slots on one delivery, and one fault             *)
(*   recovery: one slot that must get everything delivered, over two faults*)
(***************************************************************************)
EXTENDS NotificationOutbox

CONSTANTS n1, j1, j2, s1, d1, k1, k2, e1, r1, r2

VARIABLES scene, parcel, fee, dispute, pay, event, provider, req

feeVars == <<parcel, fee, dispute, pay, event, provider, req>>
sceneVars == <<scene, vars, feeVars>>

(* Two online payments of one fee, by a provider that tells the truth. *)
Payment == INSTANCE ShippingFee WITH
    Shipments <- {s1}, Drivers <- {d1}, Payments <- {k1, k2}, Events <- {e1}, Disputes <- {},
    Requests <- {r1, r2}, Contradicting <- {}, MaxVersion <- 4

ASSUME OutboxAssumption

NoFee == /\ parcel = None /\ fee = None /\ dispute = None /\ pay = None /\ event = None
         /\ provider = None /\ req = None

OutboxUsed == /\ scene = "workers" => faults <= 1
              /\ scene = "recovery" => slot[j2] = IdleSlot

SceneInit == /\ Init
             /\ \/ scene \in {"workers", "recovery"} /\ NoFee
                \/ scene = "payment" /\ Payment!Init

SceneNext ==
    /\ UNCHANGED scene
    /\ \/ /\ scene \in {"workers", "recovery"}
          /\ Next /\ OutboxUsed'
          /\ UNCHANGED feeVars
       \/ scene = "payment" /\ Payment!Next /\ UNCHANGED vars

(* The fairness of the two modules. Without notifications nothing of the    *)
(* outbox is enabled.                                                       *)
InPayment(A) == scene = "payment" /\ A /\ UNCHANGED <<scene, vars>>
SceneFairness ==
    /\ Fairness
    /\ \A p \in {k1, k2}, outcome \in {"SUCCEEDED", "FAILED"} :
          WF_sceneVars(InPayment(Payment!Webhook(p, e1, outcome) /\ pay' # pay))

SceneSpec == SceneInit /\ [][SceneNext]_sceneVars /\ SceneFairness

-----------------------------------------------------------------------------
(* Properties, beside those of NotificationOutbox *)

(* The rows of the outbox keep their types, and every notification a        *)
(* command committed is delivered on every channel, whatever crashed, was   *)
(* lost or was given up by BullMQ on the way.                               *)
OutboxDelivers == []TypeOK /\ EventuallyDelivered

(* What the provider has taken is recorded in the end: no state of fee and  *)
(* payment refuses a truthful webhook for good (processWebhook).            *)
CapturedIsPaid ==
    \A p \in {k1, k2} :
      (scene = "payment" /\ provider[p] = "SUCCEEDED")
        ~> (scene = "payment" /\ pay[p].fee # None /\ fee[pay[p].fee].status = "PAID")
=============================================================================
