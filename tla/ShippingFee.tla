---------------------------- MODULE ShippingFee ----------------------------
(***************************************************************************)
(* The shipping fee of a parcel: cash collected by a driver at pickup or   *)
(* delivery, online payment through an external provider and its webhooks, *)
(* remittance, settlement and disputes (ShippingFeesService and            *)
(* ShippingFeePaymentsService), together with the steps of the parcel they *)
(* depend on.                                                              *)
(*                                                                         *)
(* Amounts are left out: every amount must equal the fee's immutable       *)
(* expectedAmount or the command is refused, so that a money column is     *)
(* either null or that amount; FeeEvidence is what the integrity checks of *)
(* the services ask, so that they never refuse anything. As in LastMile, a *)
(* command that decides on rows it has not locked is a request in flight:  *)
(* a Read step and a Commit step. remit, settle and dispute repeat in      *)
(* their WHERE clause, or in a unique index, all they decided on; a        *)
(* webhook locks its payment first. They are single steps.                 *)
(***************************************************************************)
EXTENDS Naturals, FiniteSets

CONSTANTS
    Shipments,
    Drivers,
    Payments,        \* clientRequestId keys of online payments
    Events,          \* providerEventId of the webhooks of a payment
    Disputes,        \* ids of dispute rows
    Requests,        \* command handlers that can be in flight
    Contradicting,   \* payments whose provider sends contradictory webhooks
    None,            \* SQL NULL
    MaxVersion       \* bound on the parcel steps that could repeat forever

ASSUME NullAssumption ==
    None \notin Shipments \cup Drivers \cup Payments \cup Disputes

ASSUME ProviderAssumption == Contradicting \subseteq Payments

ASSUME BoundAssumption == MaxVersion \in Nat

VARIABLES
    parcel,    \* Shipment rows, and the driver who has the parcel
    fee,       \* ShippingFeeTransaction rows, one for each parcel
    dispute,   \* ShippingFeeDispute rows; fee None when absent
    pay,       \* ShippingFeePayment rows; status "NONE" when absent
    event,     \* ShippingFeePaymentEvent rows of a payment; "NONE" when absent
    provider,  \* what the payment provider knows of a payment
    req        \* commands in flight

vars == <<parcel, fee, dispute, pay, event, provider, req>>

-----------------------------------------------------------------------------
(* Rows *)

(* ShipmentStatus; AWAITING_PICKUP stands for PENDING to                    *)
(* AWAITING_PICKUP_ASSIGNMENT, IN_NETWORK for PICKED_UP to                  *)
(* DELIVERY_ASSIGNED, RETURNING for RETURN_REQUESTED to RETURNED.           *)
Stage == {"AWAITING_PICKUP", "PICKUP_ASSIGNED", "PICKUP_IN_PROGRESS", "IN_NETWORK",
          "OUT_FOR_DELIVERY", "DELIVERED", "DELIVERY_FAILED", "RETURNING", "CANCELLED"}
Payer == {"SENDER", "RECEIVER"}
FeeStatus == {"PENDING", "PAYMENT_PENDING", "PAID", "COLLECTED", "REMITTED",
              "SETTLED", "DISPUTED", "CANCELLED"}
Held == {"COLLECTED", "REMITTED", "SETTLED"}
ActivePayment == {"CREATING", "PENDING"}
Outcome == {"SUCCEEDED", "FAILED"}

ParcelRow == [stage : Stage, version : Nat, driver : Drivers \cup {None}]
FeeRow == [payer : Payer, status : FeeStatus, collectedBy : Drivers \cup {None},
           remittedBy : Drivers \cup {None}, settled : BOOLEAN, paid : BOOLEAN]
DisputeRow == [fee : Shipments \cup {None}, from : {"NONE", "COLLECTED", "REMITTED"},
               resolved : BOOLEAN]
PaymentRow == [fee : Shipments \cup {None}, status : {"NONE"} \cup ActivePayment \cup Outcome]
EventRow == [Events -> {"NONE"} \cup Outcome]
ProviderRow == {"UNKNOWN", "OPEN"} \cup Outcome

NoDispute == [fee |-> None, from |-> "NONE", resolved |-> FALSE]
NoPayment == [fee |-> None, status |-> "NONE"]

(* A request in flight: arguments (shipment, payment key, whether the       *)
(* driver reports cash) and what it has read (parcel, fee, dispute).        *)
Commands == {"pickup", "complete", "cancel", "create", "resolve"}
Request == [cmd : Commands \cup {"idle"},
            pc : {"idle", "read", "created", "calling", "answered"},
            shipment : Shipments \cup {None}, key : Payments \cup {None}, cash : BOOLEAN,
            parcel : ParcelRow \cup {None}, fee : FeeRow \cup {None},
            dispute : Disputes \cup {None}]

Idle == [cmd |-> "idle", pc |-> "idle", shipment |-> None, key |-> None, cash |-> FALSE,
         parcel |-> None, fee |-> None, dispute |-> None]

Begin(r, request) == /\ req[r].cmd = "idle"
                     /\ req' = [req EXCEPT ![r] = request]
Goto(r, pc) == req' = [req EXCEPT ![r].pc = pc]
End(r) == req' = [req EXCEPT ![r] = Idle]
At(r, cmd, pc) == req[r].cmd = cmd /\ req[r].pc = pc

-----------------------------------------------------------------------------
(* Steps of the parcel that leave the fee alone, as LastMile takes them. *)

Move(s, from, to, d) ==
    /\ parcel[s].stage = from
    /\ parcel[s].version < MaxVersion
    /\ parcel' = [parcel EXCEPT ![s] = [stage |-> to, version |-> parcel[s].version + 1,
                                        driver |-> d]]
    /\ UNCHANGED <<fee, dispute, pay, event, provider, req>>

AssignPickup(s) == \E d \in Drivers : Move(s, "AWAITING_PICKUP", "PICKUP_ASSIGNED", d)
Accept(s) == Move(s, "PICKUP_ASSIGNED", "PICKUP_IN_PROGRESS", parcel[s].driver)
Reassign(s) ==
    \E from \in {"PICKUP_ASSIGNED", "PICKUP_IN_PROGRESS"}, d \in Drivers \ {parcel[s].driver} :
      Move(s, from, "PICKUP_ASSIGNED", d)
Reject(s) == \E from \in {"PICKUP_ASSIGNED", "PICKUP_IN_PROGRESS"} :
               Move(s, from, "AWAITING_PICKUP", None)
StartDelivery(s) == \E d \in Drivers : Move(s, "IN_NETWORK", "OUT_FOR_DELIVERY", d)
FailDelivery(s) == Move(s, "OUT_FOR_DELIVERY", "DELIVERY_FAILED", None)
Redeliver(s) == Move(s, "DELIVERY_FAILED", "IN_NETWORK", None)
RequestReturn(s) == Move(s, "DELIVERY_FAILED", "RETURNING", None)

-----------------------------------------------------------------------------
(* ShippingFeesService inside the transactions of pickup, complete, cancel. *)

DuePoint(payer) == IF payer = "SENDER" THEN "pickup" ELSE "complete"

(* assertObligationSatisfied; FeeEvidence is what its integrity checks ask. *)
ObligationSatisfied(f) == f.status \in {"PAID"} \cup Held

CollectAllowedUnconfirmed(f, point, cash, d) ==  \* mutant: a pending payment counts as paid
    IF point # DuePoint(f.payer)
    THEN ~cash /\ (point = "complete" => ObligationSatisfied(f))
    ELSE \/ f.status \in {"PAYMENT_PENDING", "PAID"} /\ ~cash
         \/ f.status = "PENDING" /\ cash

(* collectAt's decision, on the fee that was read with the assignment. *)
CollectAllowed(f, point, cash, d) ==
    IF point # DuePoint(f.payer)
    THEN ~cash /\ (point = "complete" => ObligationSatisfied(f))
    ELSE \/ f.status = "PAID" /\ ~cash
         \/ f.status \in Held /\ cash /\ f.collectedBy = d
         \/ f.status = "PENDING" /\ cash

(* Whether collectAt goes on to write; the write is conditional on PENDING  *)
(* and no collection, and a miss is accepted only from the same driver.     *)
CollectsIgnoringState(s, f, point, d) ==  \* mutant: updates by id
    point = DuePoint(f.payer) /\ f.status = "PENDING"
Collects(s, f, point, d) ==
    /\ point = DuePoint(f.payer)
    /\ f.status = "PENDING"
    /\ fee[s].status = "PENDING"
    /\ fee[s].collectedBy = None

CollectAccepted(s, f, point, d) ==
    \/ point # DuePoint(f.payer)
    \/ f.status # "PENDING"
    \/ Collects(s, f, point, d)
    \/ fee[s].status \in Held /\ fee[s].collectedBy = d

ParcelUnchanged(r) == /\ parcel[req[r].shipment].stage = req[r].parcel.stage
                      /\ parcel[req[r].shipment].version = req[r].parcel.version

ReadParcelAndFee(r, cmd, s, cash) ==
    /\ Begin(r, [Idle EXCEPT !.cmd = cmd, !.pc = "read", !.shipment = s, !.cash = cash,
                             !.parcel = parcel[s], !.fee = fee[s]])
    /\ UNCHANGED <<parcel, fee, dispute, pay, event, provider>>

PickupRead(r, s, cash) ==
    /\ parcel[s].stage = "PICKUP_IN_PROGRESS"
    /\ CollectAllowed(fee[s], "pickup", cash, parcel[s].driver)
    /\ ReadParcelAndFee(r, "pickup", s, cash)

CompleteRead(r, s, cash) ==
    /\ parcel[s].stage = "OUT_FOR_DELIVERY"
    /\ CollectAllowed(fee[s], "complete", cash, parcel[s].driver)
    /\ ReadParcelAndFee(r, "complete", s, cash)

(* pickup and complete.  A retry that finds the proof calls collectAt again *)
(* and, as ObligationMet shows, changes nothing: it is not a step.          *)
CommitHandover(r) ==
    LET s == req[r].shipment  d == req[r].parcel.driver  point == req[r].cmd
    IN /\ req[r].cmd \in {"pickup", "complete"}
       /\ CollectAccepted(s, req[r].fee, point, d)
       /\ ParcelUnchanged(r)
       /\ fee' = IF Collects(s, req[r].fee, point, d)
                 THEN [fee EXCEPT ![s].status = "COLLECTED", ![s].collectedBy = d]
                 ELSE fee
       /\ parcel' = [parcel EXCEPT ![s] =
                       [stage |-> IF point = "pickup" THEN "IN_NETWORK" ELSE "DELIVERED",
                        version |-> parcel[s].version + 1, driver |-> None]]
       /\ End(r)
       /\ UNCHANGED <<dispute, pay, event, provider>>

CancelRead(r, s) ==
    /\ parcel[s].stage = "AWAITING_PICKUP"
    /\ fee[s].status = "PENDING"
    /\ ReadParcelAndFee(r, "cancel", s, FALSE)

CommitCancel(r) ==
    LET s == req[r].shipment
    IN /\ req[r].cmd = "cancel"
       /\ ParcelUnchanged(r)
       /\ fee[s].status = "PENDING"
       /\ parcel' = [parcel EXCEPT ![s].stage = "CANCELLED",
                                   ![s].version = parcel[s].version + 1]
       /\ fee' = [fee EXCEPT ![s].status = "CANCELLED"]
       /\ End(r)
       /\ UNCHANGED <<dispute, pay, event, provider>>

-----------------------------------------------------------------------------
(* Reconciliation of collected cash. *)

RemitUnattributed(s) ==  \* mutant: only the status is written
    /\ fee[s].status = "COLLECTED"
    /\ fee' = [fee EXCEPT ![s].status = "REMITTED"]
    /\ UNCHANGED <<parcel, dispute, pay, event, provider, req>>

Remit(s) ==
    /\ fee[s].status = "COLLECTED"
    /\ fee[s].remittedBy = None
    /\ fee' = [fee EXCEPT ![s].status = "REMITTED", ![s].remittedBy = fee[s].collectedBy]
    /\ UNCHANGED <<parcel, dispute, pay, event, provider, req>>

Settle(s) ==
    /\ fee[s].status = "REMITTED"
    /\ ~fee[s].settled
    /\ fee' = [fee EXCEPT ![s].status = "SETTLED", ![s].settled = TRUE]
    /\ UNCHANGED <<parcel, dispute, pay, event, provider, req>>

(* The unique index allows one unresolved dispute for a fee. *)
OpenDisputes(s) == {i \in Disputes : dispute[i].fee = s /\ ~dispute[i].resolved}

Dispute(s, i) ==
    /\ fee[s].status \in {"COLLECTED", "REMITTED"}
    /\ dispute[i].fee = None
    /\ OpenDisputes(s) = {}
    /\ fee' = [fee EXCEPT ![s].status = "DISPUTED"]
    /\ dispute' = [dispute EXCEPT ![i] = [fee |-> s, from |-> fee[s].status, resolved |-> FALSE]]
    /\ UNCHANGED <<parcel, pay, event, provider, req>>

(* Fee and dispute are read one after the other; as FeeEvidence shows, a    *)
(* dispute is open only while its fee is DISPUTED.                          *)
ResolveRead(r, s) ==
    /\ fee[s].status = "DISPUTED"
    /\ \E i \in OpenDisputes(s) :
         Begin(r, [Idle EXCEPT !.cmd = "resolve", !.pc = "read", !.shipment = s, !.dispute = i])
    /\ UNCHANGED <<parcel, fee, dispute, pay, event, provider>>

CommitResolveByStatus(r) ==  \* mutant: the dispute row is resolved by id, whatever it is now
    LET s == req[r].shipment  i == req[r].dispute
    IN /\ req[r].cmd = "resolve"
       /\ fee[s].status = "DISPUTED"
       /\ fee' = [fee EXCEPT ![s].status = dispute[i].from]
       /\ dispute' = [dispute EXCEPT ![i].resolved = TRUE]
       /\ End(r)
       /\ UNCHANGED <<parcel, pay, event, provider>>

CommitResolve(r) ==
    LET s == req[r].shipment  i == req[r].dispute
    IN /\ req[r].cmd = "resolve"
       /\ fee[s].status = "DISPUTED"
       /\ ~dispute[i].resolved
       /\ fee' = [fee EXCEPT ![s].status = dispute[i].from]
       /\ dispute' = [dispute EXCEPT ![i].resolved = TRUE]
       /\ End(r)
       /\ UNCHANGED <<parcel, pay, event, provider>>

-----------------------------------------------------------------------------
(* ShippingFeePaymentsService.create: a transaction that opens the payment, *)
(* a call to the provider outside any transaction, and a transaction that   *)
(* records the answer.  A retry with the same key resumes.                  *)

Due(payer, stage) == \/ payer = "SENDER" /\ stage = "PICKUP_IN_PROGRESS"
                     \/ payer = "RECEIVER" /\ stage = "OUT_FOR_DELIVERY"

(* The shipment is read before the fee is locked, and not again. *)
CreateRead(r, s, p) ==
    /\ pay[p].fee \in {None, s}
    /\ Begin(r, [Idle EXCEPT !.cmd = "create", !.pc = "read", !.shipment = s, !.key = p,
                             !.parcel = parcel[s]])
    /\ UNCHANGED <<parcel, fee, dispute, pay, event, provider>>

ActivePayments(s) == {p \in Payments : pay[p].fee = s /\ pay[p].status \in ActivePayment}

OpenWhenUnpaid(r) ==  \* mutant: a fee that awaits another payment is not refused
    LET s == req[r].shipment  p == req[r].key
    IN /\ At(r, "create", "read")
       /\ pay[p].status = "NONE"
       /\ fee[s].status \in {"PENDING", "PAYMENT_PENDING"}
       /\ Due(fee[s].payer, req[r].parcel.stage)
       /\ fee' = [fee EXCEPT ![s].status = "PAYMENT_PENDING"]
       /\ pay' = [pay EXCEPT ![p] = [fee |-> s, status |-> "CREATING"]]
       /\ Goto(r, "created")
       /\ UNCHANGED <<parcel, dispute, event, provider>>

OpenPayment(r) ==
    LET s == req[r].shipment  p == req[r].key
    IN /\ At(r, "create", "read")
       /\ pay[p].status = "NONE"
       /\ fee[s].status = "PENDING"
       /\ Due(fee[s].payer, req[r].parcel.stage)
       /\ ActivePayments(s) = {}
       /\ fee' = [fee EXCEPT ![s].status = "PAYMENT_PENDING"]
       /\ pay' = [pay EXCEPT ![p] = [fee |-> s, status |-> "CREATING"]]
       /\ Goto(r, "created")
       /\ UNCHANGED <<parcel, dispute, event, provider>>

ResumePayment(r) ==
    /\ At(r, "create", "read")
    /\ pay[req[r].key].fee = req[r].shipment
    /\ Goto(r, "created")
    /\ UNCHANGED <<parcel, fee, dispute, pay, event, provider>>

(* Nothing more to do for a payment that has ended. *)
CheckPayment(r) ==
    /\ At(r, "create", "created")
    /\ IF pay[req[r].key].status \in ActivePayment THEN Goto(r, "calling") ELSE End(r)
    /\ UNCHANGED <<parcel, fee, dispute, pay, event, provider>>

(* The provider opens a payment once for its idempotency key. *)
ProviderOpens(r) ==
    LET p == req[r].key
    IN /\ At(r, "create", "calling")
       /\ provider' = [provider EXCEPT ![p] = IF @ = "UNKNOWN" THEN "OPEN" ELSE @]
       /\ Goto(r, "answered")
       /\ UNCHANGED <<parcel, fee, dispute, pay, event>>

(* Records the answer, unless a webhook has been faster. *)
RecordAnswerAlways(r) ==  \* mutant: the status is overwritten
    LET p == req[r].key
    IN /\ At(r, "create", "answered")
       /\ pay' = [pay EXCEPT ![p].status = "PENDING"]
       /\ End(r)
       /\ UNCHANGED <<parcel, fee, dispute, event, provider>>

RecordAnswer(r) ==
    LET p == req[r].key
    IN /\ At(r, "create", "answered")
       /\ pay' = [pay EXCEPT ![p].status = IF @ = "CREATING" THEN "PENDING" ELSE @]
       /\ End(r)
       /\ UNCHANGED <<parcel, fee, dispute, event, provider>>

-----------------------------------------------------------------------------
(* The provider, and its webhooks: late, repeated, in any order. *)

ProviderDecides(p, outcome) ==
    /\ provider[p] = "OPEN"
    /\ provider' = [provider EXCEPT ![p] = outcome]
    /\ UNCHANGED <<parcel, fee, dispute, pay, event, req>>

MayReport(p, outcome) == \/ provider[p] = outcome
                         \/ p \in Contradicting /\ provider[p] # "UNKNOWN"

(* A new event; one that is already stored is answered and changes nothing, *)
(* one that contradicts the outcome is refused and not stored.              *)
ApplyWebhook(p, e, outcome) ==
    LET s == pay[p].fee
    IN /\ event[p][e] = "NONE"
       /\ event' = [event EXCEPT ![p][e] = outcome]
       /\ \/ /\ pay[p].status = outcome
             /\ UNCHANGED <<pay, fee>>
          \/ /\ pay[p].status \in ActivePayment
             /\ fee[s].status = "PAYMENT_PENDING"
             /\ outcome = "SUCCEEDED" => ~fee[s].paid
             /\ pay' = [pay EXCEPT ![p].status = outcome]
             /\ fee' = [fee EXCEPT ![s].status = IF outcome = "SUCCEEDED" THEN "PAID"
                                                 ELSE "PENDING",
                                   ![s].paid = @ \/ outcome = "SUCCEEDED"]
       /\ UNCHANGED <<parcel, dispute, provider, req>>

WebhookAcknowledged(p, e, outcome) ==  \* mutant: only payments whose creation was answered
    MayReport(p, outcome) /\ pay[p].status # "CREATING" /\ ApplyWebhook(p, e, outcome)
Webhook(p, e, outcome) == MayReport(p, outcome) /\ ApplyWebhook(p, e, outcome)

-----------------------------------------------------------------------------
(* A transaction rolls back, the provider's answer is lost, or the process  *)
(* stops: the request ends where it is.                                     *)
Abort(r) ==
    /\ req[r].cmd # "idle"
    /\ End(r)
    /\ UNCHANGED <<parcel, fee, dispute, pay, event, provider>>

Init ==
    /\ parcel = [s \in Shipments |-> [stage |-> "AWAITING_PICKUP", version |-> 0,
                                      driver |-> None]]
    /\ fee \in [Shipments -> [payer : Payer, status : {"PENDING"}, collectedBy : {None},
                              remittedBy : {None}, settled : {FALSE}, paid : {FALSE}]]
    /\ dispute = [i \in Disputes |-> NoDispute]
    /\ pay = [p \in Payments |-> NoPayment]
    /\ event = [p \in Payments |-> [e \in Events |-> "NONE"]]
    /\ provider = [p \in Payments |-> "UNKNOWN"]
    /\ req = [r \in Requests |-> Idle]

ParcelStep ==
    \E s \in Shipments :
      \/ AssignPickup(s) \/ Accept(s) \/ Reassign(s) \/ Reject(s)
      \/ StartDelivery(s) \/ FailDelivery(s) \/ Redeliver(s) \/ RequestReturn(s)

FeeStep ==
    \/ \E r \in Requests, s \in Shipments :
         \/ \E cash \in BOOLEAN : PickupRead(r, s, cash) \/ CompleteRead(r, s, cash)
         \/ CancelRead(r, s) \/ ResolveRead(r, s)
    \/ \E r \in Requests : CommitHandover(r) \/ CommitCancel(r) \/ CommitResolve(r)
    \/ \E s \in Shipments : \/ Remit(s) \/ Settle(s)
                            \/ \E i \in Disputes : Dispute(s, i)

PaymentStep ==
    \/ \E r \in Requests :
         \/ \E s \in Shipments, p \in Payments : CreateRead(r, s, p)
         \/ OpenPayment(r) \/ ResumePayment(r) \/ CheckPayment(r)
         \/ ProviderOpens(r) \/ RecordAnswer(r)
    \/ \E p \in Payments, outcome \in Outcome :
         \/ ProviderDecides(p, outcome)
         \/ \E e \in Events : Webhook(p, e, outcome)

Next == ParcelStep \/ FeeStep \/ PaymentStep \/ \E r \in Requests : Abort(r)

(* The provider repeats a webhook until it is accepted. *)
Fairness == \A p \in Payments, outcome \in Outcome :
              WF_vars(\E e \in Events : Webhook(p, e, outcome) /\ pay' # pay)

Spec == Init /\ [][Next]_vars
FairSpec == Spec /\ Fairness

-----------------------------------------------------------------------------
(* Properties *)

(* Rows and requests in flight are well formed. *)
TypeOK ==
    /\ parcel \in [Shipments -> ParcelRow]
    /\ fee \in [Shipments -> FeeRow]
    /\ dispute \in [Disputes -> DisputeRow]
    /\ pay \in [Payments -> PaymentRow]
    /\ event \in [Payments -> EventRow]
    /\ provider \in [Payments -> ProviderRow]
    /\ req \in [Requests -> Request]

(* The columns of a fee are the evidence its status needs, and nothing      *)
(* else: the integrity checks and the state CHECK constraint never fail.    *)
(* A disputed fee has one open dispute, which knows where to return.        *)
FeeEvidence ==
    \A s \in Shipments :
      LET f == fee[s]
      IN /\ f.collectedBy # None <=> f.status \in Held \cup {"DISPUTED"}
         /\ f.remittedBy \in {None, f.collectedBy}
         /\ f.status \in {"REMITTED", "SETTLED"} => f.remittedBy # None
         /\ f.status = "COLLECTED" => f.remittedBy = None
         /\ f.settled <=> f.status = "SETTLED"
         /\ f.paid <=> f.status = "PAID"
         /\ f.status = "DISPUTED" <=> OpenDisputes(s) # {}
         /\ \A i, j \in OpenDisputes(s) : i = j
         /\ \A i \in OpenDisputes(s) : dispute[i].from = "REMITTED" <=> f.remittedBy # None

(* A payment that took the money. *)
SucceededPayments(s) == {p \in Payments : pay[p].fee = s /\ pay[p].status = "SUCCEEDED"}

(* A fee awaits an online payment exactly while one payment is open for it, *)
(* and is PAID exactly when one of its payments succeeded.  create, the     *)
(* webhook and the driver's collection each write only their own half.      *)
OnePayment ==
    \A s \in Shipments :
      /\ fee[s].status = "PAYMENT_PENDING" <=> ActivePayments(s) # {}
      /\ fee[s].status = "PAID" <=> SucceededPayments(s) # {}
      /\ \A p, q \in ActivePayments(s) \cup SucceededPayments(s) : p = q

(* Nobody pays twice: when the provider has taken the money, the fee is     *)
(* waiting for that very payment or PAID, so that no driver has collected   *)
(* it and no second payment has been taken.                                 *)
PaidOnce ==
    \A p \in Payments \ Contradicting : provider[p] = "SUCCEEDED" =>
      /\ fee[pay[p].fee].status \in {"PAYMENT_PENDING", "PAID"}
      /\ pay[p].status \in ActivePayment \cup {"SUCCEEDED"}

(* No parcel leaves the point where its fee is due without the fee: after   *)
(* pickup for a sender's, after delivery for a receiver's fee.  And parcel  *)
(* and fee are cancelled together.                                          *)
Discharged == {"PAID", "DISPUTED"} \cup Held
ObligationMet ==
    \A s \in Shipments :
      /\ fee[s].payer = "SENDER" /\ parcel[s].stage \in
           {"IN_NETWORK", "OUT_FOR_DELIVERY", "DELIVERED", "DELIVERY_FAILED", "RETURNING"}
           => fee[s].status \in Discharged
      /\ fee[s].payer = "RECEIVER" /\ parcel[s].stage = "DELIVERED"
           => fee[s].status \in Discharged
      /\ parcel[s].stage = "CANCELLED" <=> fee[s].status = "CANCELLED"

(* Outcomes are final: a payment that ended and an event that was stored    *)
(* never change, whatever else the provider reports, and a stored event     *)
(* tells the outcome of its payment (docs C10: a contradicting callback is  *)
(* rejected instead of overwriting history).                                *)
OutcomeFinal ==
    [][/\ \A p \in Payments : pay[p].status \in Outcome => pay'[p] = pay[p]
       /\ \A p \in Payments, e \in Events : event[p][e] # "NONE" =>
            event'[p][e] = event[p][e] /\ pay[p].status = event[p][e]]_vars

(* A dispute gives the fee back as it was: a fee leaves DISPUTED only for   *)
(* the status from which its open dispute took it, with that dispute        *)
(* resolved, even when an administrator resolves what another already has.  *)
DisputeRestores ==
    [][\A s \in Shipments : fee[s].status = "DISPUTED" /\ fee'[s] # fee[s] =>
         \E i \in OpenDisputes(s) :
           /\ fee'[s] = [fee[s] EXCEPT !.status = dispute[i].from]
           /\ dispute'[i].resolved]_vars

(* What the provider has taken is recorded in the end: no state of fee and  *)
(* payment refuses a truthful webhook for good.                             *)
CapturedIsPaid ==
    \A p \in Payments \ Contradicting :
      provider[p] = "SUCCEEDED" ~> (pay[p].fee # None /\ fee[pay[p].fee].status = "PAID")

(* Docs C10 (CONSTITUTION.md line 33): creating a payment locks and         *)
(* revalidates the shipment.  Violated: the status that makes the fee due   *)
(* is read before the lock, and the parcel may have moved on since.         *)
OpenedWhenDue ==
    [][\A p \in Payments : pay[p].status = "NONE" /\ pay'[p].status = "CREATING" =>
         Due(fee[pay'[p].fee].payer, parcel[pay'[p].fee].stage)]_vars
=============================================================================
