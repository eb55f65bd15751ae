------------------------- MODULE ShippingFeeProofs -------------------------
(***************************************************************************)
(* Proofs about the shipping fee: how it is owed and paid (ShippingFee),   *)
(* for any number of parcels, payments, disputes and concurrent requests,  *)
(* and how it is priced (Booking), for any forms, price lists, pages and   *)
(* confirmations.                                                          *)
(*                                                                         *)
(* Besides the properties, the inductive invariant says that rows refer to *)
(* rows (RowsFormed), that payments and stored events agree with an honest *)
(* provider (Truthful), and what a request in flight may still rely on     *)
(* (RequestsDecided): the fee it read may have moved on, but a fee that    *)
(* was discharged still is.                                                *)
(***************************************************************************)
EXTENDS ShippingFee, Integers, FiniteSetTheorems, TLAPS

(* Rows that exist refer to rows that exist. *)
RowsFormed ==
    /\ \A s \in Shipments :
         parcel[s].stage \in {"PICKUP_ASSIGNED", "PICKUP_IN_PROGRESS", "OUT_FOR_DELIVERY"}
           => parcel[s].driver \in Drivers
    /\ \A p \in Payments : pay[p].fee = None <=> pay[p].status = "NONE"
    /\ \A p \in Payments : pay[p].status = "NONE" => provider[p] = "UNKNOWN"
    /\ \A i \in Disputes : dispute[i].fee = None <=> dispute[i].from = "NONE"

(* An honest provider has decided what a payment records, and an event tells *)
(* the outcome of its payment.                                               *)
Truthful ==
    /\ \A p \in Payments \ Contradicting :
         pay[p].status \in Outcome => provider[p] = pay[p].status
    /\ \A p \in Payments, e \in Events : event[p][e] # "NONE" => pay[p].status = event[p][e]

(* What a request q has established, and may rely on when it commits, of   *)
(* the fees f, payments y and disputes d of that moment.                    *)
DecidedParcel(q, f) ==
    q.cmd \in {"pickup", "complete", "cancel"} =>
      /\ q.shipment \in Shipments /\ q.parcel \in ParcelRow /\ q.fee \in FeeRow
      /\ q.fee.payer = f[q.shipment].payer
      /\ q.fee.status \in Discharged => f[q.shipment].status \in Discharged
      /\ q.cmd = "cancel" => q.parcel.stage = "AWAITING_PICKUP"
      /\ q.cmd = "pickup" => q.parcel.stage = "PICKUP_IN_PROGRESS"
      /\ q.cmd = "complete" => q.parcel.stage = "OUT_FOR_DELIVERY"
      /\ q.cmd # "cancel" => /\ q.parcel.driver \in Drivers
                             /\ CollectAllowed(q.fee, q.cmd, q.cash, q.parcel.driver)

DecidedCreate(q, y) ==
    q.cmd = "create" =>
      /\ q.shipment \in Shipments /\ q.key \in Payments /\ q.parcel \in ParcelRow
      /\ q.pc # "read" => y[q.key].fee = q.shipment

DecidedResolve(q, d) ==
    q.cmd = "resolve" =>
      /\ q.shipment \in Shipments /\ q.dispute \in Disputes
      /\ d[q.dispute].fee = q.shipment

Decided(q, f, y, d) == DecidedParcel(q, f) /\ DecidedCreate(q, y) /\ DecidedResolve(q, d)

RequestsDecided == \A r \in Requests : Decided(req[r], fee, pay, dispute)

IInv == /\ TypeOK /\ RowsFormed /\ FeeEvidence /\ OnePayment
        /\ ObligationMet /\ Truthful /\ RequestsDecided

(* What requests rely on never goes away. *)
StableStep ==
    /\ \A s \in Shipments : /\ fee'[s].payer = fee[s].payer
                            /\ fee[s].status \in Discharged => fee'[s].status \in Discharged
    /\ \A p \in Payments : pay[p].fee # None => pay'[p].fee = pay[p].fee
    /\ \A i \in Disputes : dispute[i].fee # None => dispute'[i].fee = dispute[i].fee

-----------------------------------------------------------------------------
(* Requests *)

(* A free request slot has read nothing. *)
LEMMA IdleType == Idle \in Request /\ Idle.cmd = "idle"
BY DEF Idle, Request, Commands

(* What a request has established survives a stable step. *)
LEMMA DecidedStable ==
    ASSUME StableStep, NEW q, Decided(q, fee, pay, dispute)
    PROVE  Decided(q, fee', pay', dispute')
<1>1. DecidedParcel(q, fee')
  BY DEF Decided, DecidedParcel, StableStep
<1>2. DecidedCreate(q, pay')
  BY NullAssumption DEF Decided, DecidedCreate, StableStep
<1>3. DecidedResolve(q, dispute')
  BY NullAssumption DEF Decided, DecidedResolve, StableStep
<1> QED
  BY <1>1, <1>2, <1>3 DEF Decided

(* A free slot relies on nothing. *)
LEMMA IdleDecided == \A f, y, d : Decided(Idle, f, y, d)
BY IdleType DEF Decided, DecidedParcel, DecidedCreate, DecidedResolve

(* A stable step that gives one request a decided state, or touches none,   *)
(* keeps the requests well formed.                                          *)
LEMMA RequestsStable ==
    ASSUME TypeOK, RequestsDecided, StableStep, NEW r \in Requests, NEW q \in Request,
           Decided(q, fee', pay', dispute'),
           req' = req \/ req' = [req EXCEPT ![r] = q]
    PROVE  req' \in [Requests -> Request] /\ RequestsDecided'
<1>1. req' \in [Requests -> Request]
  BY DEF TypeOK
<1>2. ASSUME NEW x \in Requests PROVE Decided(req'[x], fee', pay', dispute')
  <2>1. req'[x] = req[x] \/ req'[x] = q
    BY DEF TypeOK
  <2>2. Decided(req[x], fee', pay', dispute')
    BY DecidedStable DEF RequestsDecided
  <2> QED
    BY <2>1, <2>2
<1> QED
  BY <1>1, <1>2 DEF RequestsDecided

(* The same for a step that touches no request. *)
LEMMA UntouchedStable ==
    ASSUME TypeOK, RequestsDecided, StableStep, req' = req
    PROVE  req' \in [Requests -> Request] /\ RequestsDecided'
BY DecidedStable DEF TypeOK, RequestsDecided

(* The same for a step that ends a request. *)
LEMMA EndsStable ==
    ASSUME TypeOK, RequestsDecided, StableStep, NEW r \in Requests, End(r)
    PROVE  req' \in [Requests -> Request] /\ RequestsDecided'
BY IdleType, IdleDecided, RequestsStable DEF End

-----------------------------------------------------------------------------
(* Steps that only read, and steps of the parcel *)

(* A read changes no row. *)
LEMMA ReadsInv ==
    ASSUME IInv, NEW r \in Requests, NEW q \in Request, Decided(q, fee, pay, dispute),
           req' = [req EXCEPT ![r] = q],
           UNCHANGED <<parcel, fee, dispute, pay, event, provider>>
    PROVE  IInv'
<1>1. StableStep
  BY DEF StableStep
<1>2. req' \in [Requests -> Request] /\ RequestsDecided'
  BY <1>1, RequestsStable DEF IInv
<1>3. TypeOK' /\ RowsFormed' /\ FeeEvidence'
  BY <1>2 DEF IInv, TypeOK, RowsFormed, FeeEvidence, OpenDisputes
<1>4. OnePayment' /\ ObligationMet' /\ Truthful'
  BY DEF IInv, OnePayment, ActivePayments, SucceededPayments, ObligationMet, Truthful
<1> QED
  BY <1>2, <1>3, <1>4 DEF IInv

(* The stages after pickup. *)
Beyond == {"IN_NETWORK", "OUT_FOR_DELIVERY", "DELIVERED", "DELIVERY_FAILED", "RETURNING"}

(* A parcel moves without its fee, between stages that ask the same of it. *)
LEMMA MoveInv ==
    ASSUME IInv, NEW s \in Shipments, NEW from \in Stage \ {"CANCELLED"},
           NEW to \in Stage \ {"CANCELLED", "DELIVERED"}, NEW d \in Drivers \cup {None},
           to \in {"PICKUP_ASSIGNED", "PICKUP_IN_PROGRESS", "OUT_FOR_DELIVERY"} => d \in Drivers,
           to \in Beyond => from \in Beyond,
           Move(s, from, to, d)
    PROVE  IInv'
<1>1. StableStep
  BY DEF StableStep, Move
<1>2. req' \in [Requests -> Request] /\ RequestsDecided'
  BY <1>1, UntouchedStable DEF IInv, Move
<1>3. parcel' \in [Shipments -> ParcelRow]
  <2>1. [stage |-> to, version |-> parcel[s].version + 1, driver |-> d] \in ParcelRow
    BY DEF IInv, TypeOK, ParcelRow
  <2> QED
    BY <2>1 DEF IInv, TypeOK, Move
<1>4. /\ \A x \in Shipments \ {s} : parcel'[x] = parcel[x]
      /\ parcel'[s].stage = to /\ parcel'[s].driver = d
  BY DEF IInv, TypeOK, Move
<1>5. TypeOK'
  BY <1>2, <1>3 DEF IInv, TypeOK, Move
<1>6. RowsFormed'
  BY <1>4 DEF IInv, RowsFormed, Move
<1>7. FeeEvidence' /\ OnePayment' /\ Truthful'
  BY DEF IInv, FeeEvidence, OpenDisputes, OnePayment, ActivePayments, SucceededPayments, Truthful, Move
<1>8. ObligationMet'
  BY <1>4 DEF IInv, ObligationMet, Move, Beyond, Stage
<1> QED
  BY <1>2, <1>5, <1>6, <1>7, <1>8 DEF IInv

(* Every step of the parcel is such a move. *)
LEMMA ParcelStepInv == IInv /\ ParcelStep => IInv'
<1> SUFFICES ASSUME IInv, NEW s \in Shipments,
                    \/ AssignPickup(s) \/ Accept(s) \/ Reassign(s) \/ Reject(s)
                    \/ StartDelivery(s) \/ FailDelivery(s) \/ Redeliver(s) \/ RequestReturn(s)
             PROVE  IInv'
  BY DEF ParcelStep
<1> USE DEF Stage, Beyond
<1>1. CASE AssignPickup(s)
  BY <1>1, MoveInv DEF AssignPickup
<1>2. CASE Accept(s)
  <2>1. parcel[s].driver \in Drivers
    BY <1>2 DEF Accept, Move, IInv, RowsFormed
  <2> QED
    BY <1>2, <2>1, MoveInv DEF Accept
<1>3. CASE Reassign(s)
  BY <1>3, MoveInv DEF Reassign
<1>4. CASE Reject(s)
  BY <1>4, MoveInv DEF Reject
<1>5. CASE StartDelivery(s)
  BY <1>5, MoveInv DEF StartDelivery
<1>6. CASE FailDelivery(s)
  BY <1>6, MoveInv DEF FailDelivery
<1>7. CASE Redeliver(s)
  BY <1>7, MoveInv DEF Redeliver
<1>8. CASE RequestReturn(s)
  BY <1>8, MoveInv DEF RequestReturn
<1> QED
  BY <1>1, <1>2, <1>3, <1>4, <1>5, <1>6, <1>7, <1>8

-----------------------------------------------------------------------------
(* Steps of the fee *)

(* A step outside the online payments leaves them and their fee in accord. *)
LEMMA PaymentsKept ==
    ASSUME OnePayment, pay' = pay,
           \A x \in Shipments :
             \/ fee'[x] = fee[x]
             \/ {fee[x].status, fee'[x].status} \cap {"PAYMENT_PENDING", "PAID"} = {}
    PROVE  OnePayment'
<1>1. \A x \in Shipments : /\ ActivePayments(x)' = ActivePayments(x)
                           /\ SucceededPayments(x)' = SucceededPayments(x)
  BY DEF ActivePayments, SucceededPayments
<1> QED
  BY <1>1 DEF OnePayment

(* A step that leaves the disputes alone keeps the evidence of the fees it  *)
(* does not touch.                                                          *)
LEMMA EvidenceKept ==
    ASSUME FeeEvidence, dispute' = dispute, NEW s \in Shipments,
           \A x \in Shipments \ {s} : fee'[x] = fee[x],
           LET f == fee'[s]
           IN /\ f.collectedBy # None <=> f.status \in Held \cup {"DISPUTED"}
              /\ f.remittedBy \in {None, f.collectedBy}
              /\ f.status \in {"REMITTED", "SETTLED"} => f.remittedBy # None
              /\ f.status = "COLLECTED" => f.remittedBy = None
              /\ f.settled <=> f.status = "SETTLED"
              /\ f.paid <=> f.status = "PAID"
              /\ f.status # "DISPUTED",
           fee[s].status # "DISPUTED"
    PROVE  FeeEvidence'
<1>1. \A x \in Shipments : OpenDisputes(x)' = OpenDisputes(x)
  BY DEF OpenDisputes
<1>2. OpenDisputes(s) = {}
  BY DEF FeeEvidence
<1> QED
  BY <1>1, <1>2 DEF FeeEvidence

(* The reads of pickup, complete and cancel. *)
LEMMA ReadParcelAndFeeInv ==
    ASSUME IInv, NEW r \in Requests, NEW s \in Shipments, NEW cash \in BOOLEAN,
           NEW cmd \in {"pickup", "complete", "cancel"},
           cmd = "cancel" => parcel[s].stage = "AWAITING_PICKUP",
           cmd = "pickup" => parcel[s].stage = "PICKUP_IN_PROGRESS",
           cmd = "complete" => parcel[s].stage = "OUT_FOR_DELIVERY",
           cmd # "cancel" => CollectAllowed(fee[s], cmd, cash, parcel[s].driver),
           ReadParcelAndFee(r, cmd, s, cash)
    PROVE  IInv'
<1> DEFINE q == [Idle EXCEPT !.cmd = cmd, !.pc = "read", !.shipment = s, !.cash = cash,
                             !.parcel = parcel[s], !.fee = fee[s]]
<1>1. parcel[s] \in ParcelRow /\ fee[s] \in FeeRow
  BY DEF IInv, TypeOK
<1>2. /\ q \in Request
      /\ q.cmd = cmd /\ q.shipment = s /\ q.cash = cash /\ q.parcel = parcel[s] /\ q.fee = fee[s]
  BY <1>1 DEF Idle, Request, Commands
<1>3. cmd # "cancel" => parcel[s].driver \in Drivers
  BY DEF IInv, RowsFormed
<1> HIDE DEF q
<1>4. Decided(q, fee, pay, dispute)
  BY <1>1, <1>2, <1>3 DEF Decided, DecidedParcel, DecidedCreate, DecidedResolve
<1>5. /\ req' = [req EXCEPT ![r] = q]
      /\ UNCHANGED <<parcel, fee, dispute, pay, event, provider>>
  BY DEF ReadParcelAndFee, Begin, q
<1> QED
  BY <1>2, <1>4, <1>5, ReadsInv

(* A parcel is handed over at pickup or delivery, with the fee due there. *)
LEMMA CommitHandoverInv ==
    ASSUME IInv, NEW r \in Requests, CommitHandover(r)
    PROVE  IInv'
<1> DEFINE s == req[r].shipment
           d == req[r].parcel.driver
           f == req[r].fee
           point == req[r].cmd
           collects == Collects(s, f, point, d)
<1>1. /\ point \in {"pickup", "complete"} /\ s \in Shipments /\ d \in Drivers
      /\ f \in FeeRow /\ f.payer = fee[s].payer
      /\ f.status \in Discharged => fee[s].status \in Discharged
      /\ CollectAllowed(f, point, req[r].cash, d)
      /\ point = "pickup" => req[r].parcel.stage = "PICKUP_IN_PROGRESS"
      /\ point = "complete" => req[r].parcel.stage = "OUT_FOR_DELIVERY"
  BY DEF IInv, RequestsDecided, Decided, DecidedParcel, CommitHandover
<1>2. parcel[s].stage = req[r].parcel.stage
  BY DEF CommitHandover, ParcelUnchanged
<1>3. /\ parcel[s] \in ParcelRow /\ fee[s] \in FeeRow
      /\ parcel[s].version + 1 \in Nat
  BY <1>1 DEF IInv, TypeOK, ParcelRow
<1>4. /\ parcel' \in [Shipments -> ParcelRow]
      /\ \A x \in Shipments \ {s} : parcel'[x] = parcel[x]
      /\ parcel'[s].stage = IF point = "pickup" THEN "IN_NETWORK" ELSE "DELIVERED"
  <2>1. [stage |-> IF point = "pickup" THEN "IN_NETWORK" ELSE "DELIVERED",
         version |-> parcel[s].version + 1, driver |-> None] \in ParcelRow
    BY <1>3 DEF ParcelRow, Stage
  <2> QED
    BY <1>1, <2>1 DEF IInv, TypeOK, CommitHandover
<1>5. /\ fee' \in [Shipments -> FeeRow]
      /\ \A x \in Shipments \ {s} : fee'[x] = fee[x]
      /\ fee'[s] = IF collects THEN [fee[s] EXCEPT !.status = "COLLECTED", !.collectedBy = d]
                   ELSE fee[s]
  BY <1>1, <1>3 DEF IInv, TypeOK, CommitHandover, FeeRow, FeeStatus
<1>6. /\ collects => /\ fee[s].status = "PENDING" /\ fee[s].collectedBy = None
                     /\ fee'[s].status = "COLLECTED" /\ fee'[s].collectedBy = d
                     /\ fee'[s].remittedBy = fee[s].remittedBy /\ fee'[s].payer = fee[s].payer
                     /\ fee'[s].settled = fee[s].settled /\ fee'[s].paid = fee[s].paid
      /\ ~collects => fee'[s] = fee[s]
      /\ UNCHANGED <<dispute, pay, event, provider>>
      /\ CollectAccepted(s, f, point, d)
  BY <1>1, <1>3, <1>5 DEF Collects, FeeRow, CommitHandover
<1> HIDE DEF collects
<1>7. StableStep
  BY <1>1, <1>5, <1>6 DEF StableStep, Discharged, Held
<1>8. req' \in [Requests -> Request] /\ RequestsDecided'
  BY <1>7, EndsStable DEF IInv, CommitHandover
<1>9. TypeOK'
  BY <1>4, <1>5, <1>6, <1>8 DEF IInv, TypeOK
<1>10. RowsFormed'
  BY <1>1, <1>4, <1>6 DEF IInv, RowsFormed
<1>11. FeeEvidence'
  <2>1. CASE collects
    <3>1. fee[s].remittedBy = None /\ ~fee[s].settled /\ ~fee[s].paid
      BY <1>1, <1>6, <2>1 DEF IInv, FeeEvidence
    <3>2. d # None
      BY <1>1, NullAssumption
    <3> QED
      BY <1>1, <1>5, <1>6, <2>1, <3>1, <3>2, EvidenceKept DEF IInv, Held
  <2>2. CASE ~collects
    <3>1. \A x \in Shipments : fee'[x] = fee[x]
      BY <1>1, <1>5, <1>6, <2>2
    <3> QED
      BY <1>6, <3>1 DEF IInv, FeeEvidence, OpenDisputes
  <2> QED
    BY <2>1, <2>2
<1>12. OnePayment'
  BY <1>1, <1>5, <1>6, PaymentsKept DEF IInv
<1>13. Truthful'
  BY <1>6 DEF IInv, Truthful
<1>14. ObligationMet'
  <2>1. ASSUME fee[s].payer = "SENDER" \/ point = "complete"
        PROVE  fee'[s].status \in Discharged
    <3>1. CASE point # DuePoint(f.payer)
      BY <1>1, <1>6, <2>1, <3>1
      DEF CollectAllowed, DuePoint, ObligationSatisfied, Discharged, Held, FeeRow, Payer
    <3>2. CASE point = DuePoint(f.payer) /\ f.status = "PENDING"
      BY <1>6, <3>2 DEF CollectAccepted, Discharged, Held, collects
    <3>3. CASE point = DuePoint(f.payer) /\ f.status # "PENDING"
      BY <1>1, <1>6, <3>3 DEF CollectAllowed, Discharged, Held
    <3> QED
      BY <3>1, <3>2, <3>3
  <2>2. fee'[s].status # "CANCELLED" /\ fee'[s].payer = fee[s].payer
    BY <1>1, <1>2, <1>6 DEF IInv, ObligationMet
  <2>3. fee[s].payer \in Payer
    BY <1>3 DEF FeeRow
  <2>4. \A x \in Shipments \ {s} : parcel'[x] = parcel[x] /\ fee'[x] = fee[x]
    BY <1>4, <1>5
  <2>5. \/ parcel'[s].stage = "IN_NETWORK" /\ point # "complete"
        \/ parcel'[s].stage = "DELIVERED" /\ point = "complete"
    BY <1>1, <1>4
  <2> QED
    BY <2>1, <2>2, <2>3, <2>4, <2>5 DEF IInv, ObligationMet, Payer
<1> QED
  BY <1>8, <1>9, <1>10, <1>11, <1>12, <1>13, <1>14 DEF IInv

(* A parcel is cancelled with its pending fee. *)
LEMMA CommitCancelInv ==
    ASSUME IInv, NEW r \in Requests, CommitCancel(r)
    PROVE  IInv'
<1> DEFINE s == req[r].shipment
<1>1. s \in Shipments /\ parcel[s].stage = "AWAITING_PICKUP" /\ fee[s].status = "PENDING"
  BY DEF IInv, RequestsDecided, Decided, DecidedParcel, CommitCancel, ParcelUnchanged
<1>2. /\ parcel' \in [Shipments -> ParcelRow]
      /\ \A x \in Shipments \ {s} : parcel'[x] = parcel[x]
      /\ parcel'[s].stage = "CANCELLED"
  <2>1. parcel[s] \in ParcelRow /\ parcel[s].version + 1 \in Nat
    BY <1>1 DEF IInv, TypeOK, ParcelRow
  <2> QED
    BY <1>1, <2>1 DEF IInv, TypeOK, CommitCancel, ParcelRow, Stage
<1>3. /\ fee' \in [Shipments -> FeeRow]
      /\ \A x \in Shipments \ {s} : fee'[x] = fee[x]
      /\ fee'[s].status = "CANCELLED" /\ fee'[s].payer = fee[s].payer
      /\ fee'[s].collectedBy = fee[s].collectedBy /\ fee'[s].remittedBy = fee[s].remittedBy
      /\ fee'[s].settled = fee[s].settled /\ fee'[s].paid = fee[s].paid
  BY <1>1 DEF IInv, TypeOK, CommitCancel, FeeRow, FeeStatus
<1>4. UNCHANGED <<dispute, pay, event, provider>>
  BY DEF CommitCancel
<1>5. StableStep
  BY <1>1, <1>3, <1>4 DEF StableStep, Discharged, Held
<1>6. req' \in [Requests -> Request] /\ RequestsDecided'
  BY <1>5, EndsStable DEF IInv, CommitCancel
<1>7. TypeOK'
  BY <1>2, <1>3, <1>4, <1>6 DEF IInv, TypeOK
<1>8. RowsFormed' /\ Truthful'
  BY <1>1, <1>2, <1>4 DEF IInv, RowsFormed, Truthful
<1>9. FeeEvidence'
  <2>1. fee[s].collectedBy = None /\ fee[s].remittedBy = None /\ ~fee[s].settled /\ ~fee[s].paid
    BY <1>1 DEF IInv, FeeEvidence, Held
  <2> QED
    BY <1>1, <1>3, <1>4, <2>1, EvidenceKept DEF IInv, Held
<1>10. OnePayment'
  BY <1>1, <1>3, <1>4, PaymentsKept DEF IInv
<1>11. ObligationMet'
  BY <1>1, <1>2, <1>3 DEF IInv, ObligationMet
<1> QED
  BY <1>6, <1>7, <1>8, <1>9, <1>10, <1>11 DEF IInv

(* The collecting driver hands the cash over. *)
LEMMA RemitInv == ASSUME IInv, NEW s \in Shipments, Remit(s) PROVE IInv'
<1>1. /\ fee' \in [Shipments -> FeeRow]
      /\ \A x \in Shipments \ {s} : fee'[x] = fee[x]
      /\ fee'[s].status = "REMITTED" /\ fee'[s].payer = fee[s].payer
      /\ fee'[s].collectedBy = fee[s].collectedBy /\ fee'[s].remittedBy = fee[s].collectedBy
      /\ fee'[s].settled = fee[s].settled /\ fee'[s].paid = fee[s].paid
  BY DEF IInv, TypeOK, Remit, FeeRow, FeeStatus
<1>2. fee[s].status = "COLLECTED" /\ UNCHANGED <<parcel, dispute, pay, event, provider, req>>
  BY DEF Remit
<1>3. StableStep
  BY <1>1, <1>2 DEF StableStep, Discharged, Held
<1>4. req' \in [Requests -> Request] /\ RequestsDecided'
  BY <1>2, <1>3, UntouchedStable DEF IInv
<1>5. TypeOK' /\ RowsFormed' /\ Truthful'
  BY <1>1, <1>2, <1>4 DEF IInv, TypeOK, RowsFormed, Truthful
<1>6. FeeEvidence'
  <2>1. fee[s].collectedBy # None /\ ~fee[s].settled /\ ~fee[s].paid
    BY <1>2 DEF IInv, FeeEvidence, Held
  <2> QED
    BY <1>1, <1>2, <2>1, EvidenceKept DEF IInv, Held
<1>7. OnePayment'
  BY <1>1, <1>2, PaymentsKept DEF IInv
<1>8. ObligationMet'
  BY <1>1, <1>2 DEF IInv, ObligationMet, Discharged, Held
<1> QED
  BY <1>4, <1>5, <1>6, <1>7, <1>8 DEF IInv

(* The handed-over cash is settled. *)
LEMMA SettleInv == ASSUME IInv, NEW s \in Shipments, Settle(s) PROVE IInv'
<1>1. /\ fee' \in [Shipments -> FeeRow]
      /\ \A x \in Shipments \ {s} : fee'[x] = fee[x]
      /\ fee'[s].status = "SETTLED" /\ fee'[s].payer = fee[s].payer
      /\ fee'[s].collectedBy = fee[s].collectedBy /\ fee'[s].remittedBy = fee[s].remittedBy
      /\ fee'[s].settled = TRUE /\ fee'[s].paid = fee[s].paid
  BY DEF IInv, TypeOK, Settle, FeeRow, FeeStatus
<1>2. fee[s].status = "REMITTED" /\ UNCHANGED <<parcel, dispute, pay, event, provider, req>>
  BY DEF Settle
<1>3. StableStep
  BY <1>1, <1>2 DEF StableStep, Discharged, Held
<1>4. req' \in [Requests -> Request] /\ RequestsDecided'
  BY <1>2, <1>3, UntouchedStable DEF IInv
<1>5. TypeOK' /\ RowsFormed' /\ Truthful'
  BY <1>1, <1>2, <1>4 DEF IInv, TypeOK, RowsFormed, Truthful
<1>6. FeeEvidence'
  <2>1. /\ fee[s].collectedBy # None /\ fee[s].remittedBy # None
        /\ fee[s].remittedBy \in {None, fee[s].collectedBy} /\ ~fee[s].paid
    BY <1>2 DEF IInv, FeeEvidence, Held
  <2> QED
    BY <1>1, <1>2, <2>1, EvidenceKept DEF IInv, Held
<1>7. OnePayment'
  BY <1>1, <1>2, PaymentsKept DEF IInv
<1>8. ObligationMet'
  BY <1>1, <1>2 DEF IInv, ObligationMet, Discharged, Held
<1> QED
  BY <1>4, <1>5, <1>6, <1>7, <1>8 DEF IInv

(* A dispute suspends a collected or remitted fee. *)
LEMMA DisputeInv ==
    ASSUME IInv, NEW s \in Shipments, NEW i \in Disputes, Dispute(s, i)
    PROVE  IInv'
<1>1. /\ fee' \in [Shipments -> FeeRow]
      /\ \A x \in Shipments \ {s} : fee'[x] = fee[x]
      /\ fee'[s].status = "DISPUTED" /\ fee'[s].payer = fee[s].payer
      /\ fee'[s].collectedBy = fee[s].collectedBy /\ fee'[s].remittedBy = fee[s].remittedBy
      /\ fee'[s].settled = fee[s].settled /\ fee'[s].paid = fee[s].paid
  BY DEF IInv, TypeOK, Dispute, FeeRow, FeeStatus
<1>2. /\ fee[s].status \in {"COLLECTED", "REMITTED"} /\ dispute[i].fee = None
      /\ OpenDisputes(s) = {}
      /\ UNCHANGED <<parcel, pay, event, provider, req>>
  BY DEF Dispute
<1>3. /\ dispute' \in [Disputes -> DisputeRow]
      /\ \A j \in Disputes \ {i} : dispute'[j] = dispute[j]
      /\ dispute'[i] = [fee |-> s, from |-> fee[s].status, resolved |-> FALSE]
  <2>1. [fee |-> s, from |-> fee[s].status, resolved |-> FALSE] \in DisputeRow
    BY <1>2 DEF DisputeRow
  <2> QED
    BY <2>1 DEF IInv, TypeOK, Dispute
<1>4. StableStep
  BY <1>1, <1>2, <1>3 DEF StableStep, Discharged, Held
<1>5. req' \in [Requests -> Request] /\ RequestsDecided'
  BY <1>2, <1>4, UntouchedStable DEF IInv
<1>6. TypeOK' /\ Truthful'
  BY <1>1, <1>2, <1>3, <1>5 DEF IInv, TypeOK, Truthful
<1>7. RowsFormed'
  BY <1>2, <1>3, NullAssumption DEF IInv, RowsFormed
<1>8. FeeEvidence'
  <2>1. OpenDisputes(s)' = {i}
    BY <1>2, <1>3 DEF OpenDisputes
  <2>2. \A x \in Shipments \ {s} : OpenDisputes(x)' = OpenDisputes(x)
    BY <1>2, <1>3, NullAssumption DEF OpenDisputes
  <2>3. \A x \in Shipments \ {s} : \A j \in OpenDisputes(x) : dispute'[j] = dispute[j]
    BY <1>2, <1>3, NullAssumption DEF OpenDisputes
  <2>4. /\ fee[s].collectedBy # None /\ ~fee[s].settled /\ ~fee[s].paid
        /\ fee[s].remittedBy \in {None, fee[s].collectedBy}
        /\ fee[s].status = "REMITTED" <=> fee[s].remittedBy # None
    BY <1>2 DEF IInv, FeeEvidence, Held
  <2>5. dispute'[i].from = fee[s].status
    BY <1>3
  <2>6. FeeEvidence
    BY DEF IInv
  <2> QED
    BY <1>1, <1>2, <2>1, <2>2, <2>3, <2>4, <2>5, <2>6 DEF FeeEvidence
<1>9. OnePayment'
  BY <1>1, <1>2, PaymentsKept DEF IInv
<1>10. ObligationMet'
  BY <1>1, <1>2 DEF IInv, ObligationMet, Discharged, Held
<1> QED
  BY <1>5, <1>6, <1>7, <1>8, <1>9, <1>10 DEF IInv

(* An administrator reads the open dispute of a fee. *)
LEMMA ResolveReadInv ==
    ASSUME IInv, NEW r \in Requests, NEW s \in Shipments, ResolveRead(r, s)
    PROVE  IInv'
<1>1. PICK i \in OpenDisputes(s) :
        req' = [req EXCEPT ![r] = [Idle EXCEPT !.cmd = "resolve", !.pc = "read",
                                               !.shipment = s, !.dispute = i]]
  BY DEF ResolveRead, Begin
<1> DEFINE q == [Idle EXCEPT !.cmd = "resolve", !.pc = "read", !.shipment = s, !.dispute = i]
<1>2. i \in Disputes /\ dispute[i].fee = s
  BY DEF OpenDisputes
<1>3. q \in Request /\ q.cmd = "resolve" /\ q.shipment = s /\ q.dispute = i
  BY <1>2 DEF Idle, Request, Commands
<1>4. req' = [req EXCEPT ![r] = q]
  BY <1>1
<1> HIDE DEF q
<1>5. Decided(q, fee, pay, dispute)
  BY <1>2, <1>3 DEF Decided, DecidedParcel, DecidedCreate, DecidedResolve
<1> QED
  BY <1>3, <1>4, <1>5, ReadsInv DEF ResolveRead

(* The dispute that is resolved is the open one, and the fee returns. *)
LEMMA CommitResolveInv == ASSUME IInv, NEW r \in Requests, CommitResolve(r) PROVE IInv'
<1>0. PICK s \in Shipments, i \in Disputes : s = req[r].shipment /\ i = req[r].dispute
  BY DEF IInv, RequestsDecided, Decided, DecidedResolve, CommitResolve
<1>1. /\ dispute[i].fee = s
      /\ fee[s].status = "DISPUTED" /\ ~dispute[i].resolved
      /\ UNCHANGED <<parcel, pay, event, provider>>
      /\ End(r)
  BY <1>0 DEF IInv, RequestsDecided, Decided, DecidedResolve, CommitResolve
<1>2. i \in OpenDisputes(s)
  BY <1>1 DEF OpenDisputes
<1>3. dispute[i].from \in {"COLLECTED", "REMITTED"}
  BY <1>1, NullAssumption DEF IInv, TypeOK, DisputeRow, RowsFormed
<1>4. /\ fee' \in [Shipments -> FeeRow]
      /\ \A x \in Shipments \ {s} : fee'[x] = fee[x]
      /\ fee'[s].status = dispute[i].from /\ fee'[s].payer = fee[s].payer
      /\ fee'[s].collectedBy = fee[s].collectedBy /\ fee'[s].remittedBy = fee[s].remittedBy
      /\ fee'[s].settled = fee[s].settled /\ fee'[s].paid = fee[s].paid
  BY <1>0, <1>1, <1>3 DEF IInv, TypeOK, CommitResolve, FeeRow, FeeStatus
<1>5. /\ dispute' \in [Disputes -> DisputeRow]
      /\ \A j \in Disputes \ {i} : dispute'[j] = dispute[j]
      /\ dispute'[i].fee = s /\ dispute'[i].from = dispute[i].from /\ dispute'[i].resolved
  BY <1>0, <1>1 DEF IInv, TypeOK, CommitResolve, DisputeRow
<1>6. StableStep
  BY <1>1, <1>3, <1>4, <1>5 DEF StableStep, Discharged, Held
<1>7. req' \in [Requests -> Request] /\ RequestsDecided'
  BY <1>1, <1>6, EndsStable DEF IInv
<1>8. TypeOK' /\ RowsFormed' /\ Truthful'
  BY <1>1, <1>4, <1>5, <1>7 DEF IInv, TypeOK, RowsFormed, Truthful
<1>9. FeeEvidence'
  <2>1. /\ \A j \in OpenDisputes(s) : j = i
        /\ fee[s].collectedBy # None /\ ~fee[s].settled /\ ~fee[s].paid
        /\ fee[s].remittedBy \in {None, fee[s].collectedBy}
        /\ dispute[i].from = "REMITTED" <=> fee[s].remittedBy # None
    BY <1>1, <1>2 DEF IInv, FeeEvidence, Held
  <2>2. OpenDisputes(s)' = {}
    BY <1>1, <1>5, <2>1 DEF OpenDisputes
  <2>3. \A x \in Shipments \ {s} : /\ OpenDisputes(x)' = OpenDisputes(x)
                                  /\ \A j \in OpenDisputes(x) : dispute'[j] = dispute[j]
    BY <1>1, <1>5 DEF OpenDisputes
  <2>4. FeeEvidence
    BY DEF IInv
  <2>5. fee'[s].status # "DISPUTED" /\ fee'[s].status \in Held
        /\ fee'[s].status \notin {"SETTLED", "PAID"}
        /\ (fee'[s].status = "REMITTED" <=> fee'[s].remittedBy # None)
    BY <1>3, <1>4, <2>1 DEF Held
  <2> QED
    BY <1>1, <1>3, <1>4, <2>1, <2>2, <2>3, <2>4, <2>5 DEF FeeEvidence, Held
<1>10. OnePayment'
  BY <1>1, <1>3, <1>4, PaymentsKept DEF IInv
<1>11. ObligationMet'
  BY <1>1, <1>3, <1>4 DEF IInv, ObligationMet, Discharged, Held
<1> QED
  BY <1>7, <1>8, <1>9, <1>10, <1>11 DEF IInv

-----------------------------------------------------------------------------
(* Steps of online payments *)

(* A payment request goes on once its payment row is there. *)
LEMMA GotoStable ==
    ASSUME TypeOK, RequestsDecided, StableStep, NEW r \in Requests,
           NEW pc \in {"created", "calling", "answered"}, Goto(r, pc),
           req[r].cmd = "create", pay'[req[r].key].fee = req[r].shipment
    PROVE  req' \in [Requests -> Request] /\ RequestsDecided'
<1>1. PICK q : q = [req[r] EXCEPT !.pc = pc]
  OBVIOUS
<1>2. req[r] \in Request
  BY DEF TypeOK
<1>3. /\ q \in Request
      /\ q.cmd = "create" /\ q.key = req[r].key /\ q.shipment = req[r].shipment
      /\ q.parcel = req[r].parcel
  BY <1>1, <1>2 DEF Request
<1>4. Decided(q, fee', pay', dispute')
  BY <1>3 DEF RequestsDecided, Decided, DecidedParcel, DecidedCreate, DecidedResolve
<1>5. req' = [req EXCEPT ![r] = q]
  BY <1>1 DEF Goto, TypeOK
<1> QED
  BY <1>3, <1>4, <1>5, RequestsStable

(* A step that only moves requests keeps everything. *)
LEMMA RequestOnlyInv ==
    ASSUME IInv, UNCHANGED <<parcel, fee, dispute, pay, event, provider>>,
           req' \in [Requests -> Request], RequestsDecided'
    PROVE  IInv'
<1>1. TypeOK' /\ RowsFormed' /\ FeeEvidence'
  BY DEF IInv, TypeOK, RowsFormed, FeeEvidence, OpenDisputes
<1>2. OnePayment' /\ ObligationMet' /\ Truthful'
  BY DEF IInv, OnePayment, ActivePayments, SucceededPayments, ObligationMet, Truthful
<1> QED
  BY <1>1, <1>2 DEF IInv

(* A customer asks for a payment. *)
LEMMA CreateReadInv ==
    ASSUME IInv, NEW r \in Requests, NEW s \in Shipments, NEW p \in Payments,
           CreateRead(r, s, p)
    PROVE  IInv'
<1>1. PICK q : q = [Idle EXCEPT !.cmd = "create", !.pc = "read", !.shipment = s, !.key = p,
                                !.parcel = parcel[s]]
  OBVIOUS
<1>2. parcel[s] \in ParcelRow
  BY DEF IInv, TypeOK
<1>3. /\ q \in Request /\ q.cmd = "create" /\ q.pc = "read"
      /\ q.shipment = s /\ q.key = p /\ q.parcel = parcel[s]
  BY <1>1, <1>2 DEF Idle, Request, Commands
<1>4. Decided(q, fee, pay, dispute)
  BY <1>2, <1>3 DEF Decided, DecidedParcel, DecidedCreate, DecidedResolve
<1>5. req' = [req EXCEPT ![r] = q]
  BY <1>1 DEF CreateRead, Begin
<1> QED
  BY <1>3, <1>4, <1>5, ReadsInv DEF CreateRead

(* The payment row is made, for a fee nobody has paid or is paying. *)
LEMMA OpenPaymentInv == ASSUME IInv, NEW r \in Requests, OpenPayment(r) PROVE IInv'
<1>1. PICK s \in Shipments, p \in Payments : s = req[r].shipment /\ p = req[r].key
  BY DEF IInv, RequestsDecided, Decided, DecidedCreate, OpenPayment, At
<1>2. /\ pay[p].status = "NONE" /\ fee[s].status = "PENDING" /\ ActivePayments(s) = {}
      /\ req[r].cmd = "create" /\ Goto(r, "created")
      /\ UNCHANGED <<parcel, dispute, event, provider>>
  BY <1>1 DEF OpenPayment, At
<1>3. /\ fee' \in [Shipments -> FeeRow]
      /\ \A x \in Shipments \ {s} : fee'[x] = fee[x]
      /\ fee'[s].status = "PAYMENT_PENDING" /\ fee'[s].payer = fee[s].payer
      /\ fee'[s].collectedBy = fee[s].collectedBy /\ fee'[s].remittedBy = fee[s].remittedBy
      /\ fee'[s].settled = fee[s].settled /\ fee'[s].paid = fee[s].paid
  BY <1>1 DEF IInv, TypeOK, OpenPayment, FeeRow, FeeStatus
<1>4. /\ pay' \in [Payments -> PaymentRow]
      /\ \A x \in Payments \ {p} : pay'[x] = pay[x]
      /\ pay'[p].fee = s /\ pay'[p].status = "CREATING"
  <2>1. [fee |-> s, status |-> "CREATING"] \in PaymentRow
    BY DEF PaymentRow, ActivePayment
  <2> QED
    BY <1>1, <2>1 DEF IInv, TypeOK, OpenPayment
<1>5. pay[p].fee = None
  BY <1>2 DEF IInv, RowsFormed
<1>6. StableStep
  BY <1>2, <1>3, <1>4, <1>5 DEF StableStep, Discharged, Held
<1>7. req' \in [Requests -> Request] /\ RequestsDecided'
  BY <1>1, <1>2, <1>4, <1>6, GotoStable DEF IInv
<1>8. TypeOK'
  BY <1>2, <1>3, <1>4, <1>7 DEF IInv, TypeOK
<1>9. RowsFormed'
  BY <1>2, <1>4, NullAssumption DEF IInv, RowsFormed
<1>10. Truthful'
  <2>1. \A e \in Events : event[p][e] = "NONE"
    BY <1>2 DEF IInv, Truthful
  <2> QED
    BY <1>2, <1>4, <2>1 DEF IInv, Truthful, Outcome
<1>11. FeeEvidence'
  <2>1. fee[s].collectedBy = None /\ fee[s].remittedBy = None /\ ~fee[s].settled /\ ~fee[s].paid
    BY <1>2 DEF IInv, FeeEvidence, Held
  <2> QED
    BY <1>2, <1>3, <2>1, EvidenceKept DEF IInv, Held
<1>12. OnePayment'
  <2>1. ActivePayments(s)' = {p}
    BY <1>2, <1>4 DEF ActivePayments, ActivePayment
  <2>2. SucceededPayments(s) = {} /\ SucceededPayments(s)' = SucceededPayments(s)
    BY <1>2, <1>4 DEF IInv, OnePayment, SucceededPayments
  <2>3. \A x \in Shipments \ {s} : /\ ActivePayments(x)' = ActivePayments(x)
                                  /\ SucceededPayments(x)' = SucceededPayments(x)
    BY <1>2, <1>4, <1>5, NullAssumption DEF ActivePayments, SucceededPayments
  <2> QED
    BY <1>3, <2>1, <2>2, <2>3 DEF IInv, OnePayment
<1>13. ObligationMet'
  BY <1>2, <1>3 DEF IInv, ObligationMet, Discharged, Held
<1> QED
  BY <1>7, <1>8, <1>9, <1>10, <1>11, <1>12, <1>13 DEF IInv

(* A retry finds its payment; an ended payment ends the request. *)
LEMMA ResumePaymentInv ==
    ASSUME IInv, NEW r \in Requests, ResumePayment(r) \/ CheckPayment(r)
    PROVE  IInv'
<1>1. /\ UNCHANGED <<parcel, fee, dispute, pay, event, provider>>
      /\ req[r].cmd = "create" /\ pay'[req[r].key].fee = req[r].shipment
      /\ \/ Goto(r, "created") \/ Goto(r, "calling") \/ End(r)
  BY DEF ResumePayment, CheckPayment, At, IInv, RequestsDecided, Decided, DecidedCreate
<1>2. StableStep
  BY <1>1 DEF StableStep
<1>3. req' \in [Requests -> Request] /\ RequestsDecided'
  BY <1>1, <1>2, GotoStable, EndsStable DEF IInv
<1> QED
  BY <1>1, <1>3, RequestOnlyInv

(* The provider learns of the payment. *)
LEMMA ProviderOpensInv == ASSUME IInv, NEW r \in Requests, ProviderOpens(r) PROVE IInv'
<1>1. PICK p \in Payments : p = req[r].key /\ pay[p].fee = req[r].shipment /\ pay[p].fee # None
  BY NullAssumption
  DEF IInv, RequestsDecided, Decided, DecidedCreate, ProviderOpens, At
<1>2. /\ UNCHANGED <<parcel, fee, dispute, pay, event>>
      /\ req[r].cmd = "create" /\ Goto(r, "answered")
  BY DEF ProviderOpens, At
<1>3. /\ provider' \in [Payments -> ProviderRow]
      /\ \A x \in Payments \ {p} : provider'[x] = provider[x]
      /\ provider[p] # "UNKNOWN" => provider'[p] = provider[p]
  BY <1>1 DEF IInv, TypeOK, ProviderOpens, ProviderRow
<1>4. StableStep
  BY <1>2 DEF StableStep
<1>5. req' \in [Requests -> Request] /\ RequestsDecided'
  BY <1>1, <1>2, <1>4, GotoStable DEF IInv
<1>6. TypeOK'
  BY <1>2, <1>3, <1>5 DEF IInv, TypeOK
<1>7. RowsFormed'
  BY <1>1, <1>2, <1>3 DEF IInv, RowsFormed
<1>8. Truthful'
  BY <1>2, <1>3 DEF IInv, Truthful, Outcome
<1>9. FeeEvidence' /\ OnePayment' /\ ObligationMet'
  BY <1>2 DEF IInv, FeeEvidence, OpenDisputes, OnePayment, ActivePayments, SucceededPayments,
              ObligationMet
<1> QED
  BY <1>5, <1>6, <1>7, <1>8, <1>9 DEF IInv

(* The answer of the provider is recorded, unless the payment has ended. *)
LEMMA RecordAnswerInv == ASSUME IInv, NEW r \in Requests, RecordAnswer(r) PROVE IInv'
<1>1. PICK p \in Payments : p = req[r].key /\ pay[p].fee # None
  BY NullAssumption
  DEF IInv, RequestsDecided, Decided, DecidedCreate, RecordAnswer, At
<1>2. UNCHANGED <<parcel, fee, dispute, event, provider>> /\ End(r)
  BY DEF RecordAnswer
<1>3. /\ pay' \in [Payments -> PaymentRow]
      /\ \A x \in Payments : pay'[x].fee = pay[x].fee
      /\ \A x \in Payments \ {p} : pay'[x] = pay[x]
      /\ \/ pay'[p].status = pay[p].status
         \/ pay[p].status = "CREATING" /\ pay'[p].status = "PENDING"
  <2>1. pay[p] \in PaymentRow
    BY DEF IInv, TypeOK
  <2>2. PICK y : y = [pay[p] EXCEPT !.status = IF pay[p].status = "CREATING" THEN "PENDING"
                                                   ELSE pay[p].status]
    OBVIOUS
  <2>3. /\ y \in PaymentRow /\ y.fee = pay[p].fee
        /\ \/ y.status = pay[p].status
           \/ pay[p].status = "CREATING" /\ y.status = "PENDING"
    BY <2>1, <2>2 DEF PaymentRow, ActivePayment
  <2>4. pay' = [pay EXCEPT ![p] = y]
    <3>1. pay' = [pay EXCEPT ![req[r].key].status = IF @ = "CREATING" THEN "PENDING" ELSE @]
      BY DEF RecordAnswer
    <3> QED
      BY <1>1, <2>2, <3>1 DEF IInv, TypeOK
  <2> QED
    BY <2>3, <2>4 DEF IInv, TypeOK
<1>4. StableStep
  BY <1>2, <1>3 DEF StableStep
<1>5. req' \in [Requests -> Request] /\ RequestsDecided'
  BY <1>2, <1>4, EndsStable DEF IInv
<1>6. TypeOK'
  BY <1>2, <1>3, <1>5 DEF IInv, TypeOK
<1>7. RowsFormed'
  BY <1>1, <1>2, <1>3 DEF IInv, RowsFormed
<1>8. Truthful'
  <2>1. ASSUME NEW x \in Payments
        PROVE  \/ pay'[x].status = pay[x].status
               \/ pay[x].status = "CREATING" /\ pay'[x].status = "PENDING"
    <3>1. CASE x = p
      BY <1>3, <3>1
    <3>2. CASE x # p
      <4>1. pay'[x] = pay[x]
        BY <1>3, <3>2
      <4> QED
        BY <4>1
    <3> QED
      BY <3>1, <3>2
  <2>2. /\ \A x \in Payments \ Contradicting : pay'[x].status \in Outcome => provider[x] = pay'[x].status
        /\ \A x \in Payments, e \in Events : event[x][e] # "NONE" => pay[x].status = event[x][e]
    BY <2>1 DEF IInv, Truthful, Outcome
  <2>3. \A x \in Payments, e \in Events : event[x][e] \in Outcome \cup {"NONE"}
    BY DEF IInv, TypeOK, EventRow
  <2>4. \A x \in Payments, e \in Events : event[x][e] # "NONE" => pay'[x].status = event[x][e]
    BY <2>1, <2>2, <2>3 DEF Outcome
  <2> QED
    BY <1>2, <2>2, <2>4 DEF Truthful
<1>9. OnePayment'
  <2>1. \A x \in Shipments : /\ ActivePayments(x)' = ActivePayments(x)
                             /\ SucceededPayments(x)' = SucceededPayments(x)
    BY <1>3 DEF ActivePayments, SucceededPayments, ActivePayment
  <2> QED
    BY <1>2, <2>1 DEF IInv, OnePayment
<1>10. FeeEvidence' /\ ObligationMet'
  BY <1>2 DEF IInv, FeeEvidence, OpenDisputes, ObligationMet
<1> QED
  BY <1>5, <1>6, <1>7, <1>8, <1>9, <1>10 DEF IInv

(* The provider decides, once. *)
LEMMA ProviderDecidesInv ==
    ASSUME IInv, NEW p \in Payments, NEW outcome \in Outcome, ProviderDecides(p, outcome)
    PROVE  IInv'
<1>1. /\ provider[p] = "OPEN" /\ UNCHANGED <<parcel, fee, dispute, pay, event, req>>
      /\ provider' \in [Payments -> ProviderRow]
      /\ \A x \in Payments \ {p} : provider'[x] = provider[x]
  BY DEF IInv, TypeOK, ProviderDecides, ProviderRow
<1>2. StableStep
  BY <1>1 DEF StableStep
<1>3. req' \in [Requests -> Request] /\ RequestsDecided'
  BY <1>1, <1>2, UntouchedStable DEF IInv
<1>4. TypeOK' /\ RowsFormed'
  BY <1>1, <1>3 DEF IInv, TypeOK, RowsFormed
<1>5. Truthful'
  BY <1>1 DEF IInv, Truthful, Outcome
<1>6. FeeEvidence' /\ OnePayment' /\ ObligationMet'
  BY <1>1 DEF IInv, FeeEvidence, OpenDisputes, OnePayment, ActivePayments, SucceededPayments,
              ObligationMet
<1> QED
  BY <1>3, <1>4, <1>5, <1>6 DEF IInv

(* A webhook ends the one open payment of its fee, or repeats its outcome. *)
LEMMA WebhookInv ==
    ASSUME IInv, NEW p \in Payments, NEW e \in Events, NEW outcome \in Outcome,
           Webhook(p, e, outcome)
    PROVE  IInv'
<1>1. /\ event[p][e] = "NONE" /\ UNCHANGED <<parcel, dispute, provider, req>>
      /\ p \notin Contradicting => provider[p] = outcome
      /\ provider[p] # "UNKNOWN"
  BY DEF Webhook, ApplyWebhook, MayReport, Outcome
<1>2. PICK s \in Shipments : s = pay[p].fee
  BY <1>1 DEF IInv, TypeOK, RowsFormed, PaymentRow
<1>3. /\ event' \in [Payments -> EventRow]
      /\ event'[p][e] = outcome
      /\ \A x \in Payments, y \in Events : x # p \/ y # e => event'[x][y] = event[x][y]
  BY DEF IInv, TypeOK, Webhook, ApplyWebhook, EventRow
<1>4. CASE pay[p].status = outcome /\ UNCHANGED <<pay, fee>>
  <2>1. StableStep
    BY <1>1, <1>4 DEF StableStep
  <2>2. req' \in [Requests -> Request] /\ RequestsDecided'
    BY <1>1, <2>1, UntouchedStable DEF IInv
  <2>3. TypeOK' /\ RowsFormed' /\ Truthful'
    BY <1>1, <1>3, <1>4, <2>2 DEF IInv, TypeOK, RowsFormed, Truthful
  <2>4. FeeEvidence' /\ OnePayment' /\ ObligationMet'
    BY <1>1, <1>4 DEF IInv, FeeEvidence, OpenDisputes, OnePayment, ActivePayments,
                      SucceededPayments, ObligationMet
  <2> QED
    BY <2>2, <2>3, <2>4 DEF IInv
<1>5. CASE pay[p].status # outcome \/ ~UNCHANGED <<pay, fee>>
  <2>1. /\ pay[p].status \in ActivePayment /\ fee[s].status = "PAYMENT_PENDING"
        /\ pay' = [pay EXCEPT ![p].status = outcome]
        /\ fee' = [fee EXCEPT ![s].status = IF outcome = "SUCCEEDED" THEN "PAID" ELSE "PENDING",
                              ![s].paid = @ \/ outcome = "SUCCEEDED"]
    BY <1>2, <1>5 DEF Webhook, ApplyWebhook
  <2>2. /\ pay' \in [Payments -> PaymentRow]
        /\ \A x \in Payments : pay'[x].fee = pay[x].fee
        /\ \A x \in Payments \ {p} : pay'[x] = pay[x]
        /\ pay'[p].status = outcome
    BY <2>1 DEF IInv, TypeOK, PaymentRow
  <2>3. /\ fee' \in [Shipments -> FeeRow]
        /\ \A x \in Shipments \ {s} : fee'[x] = fee[x]
        /\ fee'[s].status = IF outcome = "SUCCEEDED" THEN "PAID" ELSE "PENDING"
        /\ fee'[s].paid <=> outcome = "SUCCEEDED"
        /\ fee'[s].payer = fee[s].payer
        /\ fee'[s].collectedBy = fee[s].collectedBy /\ fee'[s].remittedBy = fee[s].remittedBy
        /\ fee'[s].settled = fee[s].settled
    <3>1. fee[s] \in FeeRow /\ fee[s].paid = FALSE
      BY <2>1 DEF IInv, TypeOK, FeeEvidence, FeeRow
    <3> QED
      BY <2>1, <3>1 DEF IInv, TypeOK, FeeRow, FeeStatus
  <2>4. StableStep
    BY <1>1, <2>1, <2>2, <2>3 DEF StableStep, Discharged, Held
  <2>5. req' \in [Requests -> Request] /\ RequestsDecided'
    BY <1>1, <2>4, UntouchedStable DEF IInv
  <2>6. TypeOK'
    BY <1>1, <1>3, <2>2, <2>3, <2>5 DEF IInv, TypeOK
  <2>7. RowsFormed'
    BY <1>1, <1>2, <2>1, <2>2, NullAssumption DEF IInv, RowsFormed, Outcome, ActivePayment
  <2>8. Truthful'
    <3>1. \A y \in Events : event[p][y] = "NONE"
      BY <2>1 DEF IInv, Truthful, TypeOK, EventRow, Outcome, ActivePayment
    <3> QED
      BY <1>1, <1>3, <2>2, <3>1 DEF IInv, Truthful
  <2>9. FeeEvidence'
    <3>1. fee[s].collectedBy = None /\ fee[s].remittedBy = None /\ ~fee[s].settled
      BY <2>1 DEF IInv, FeeEvidence, Held
    <3>2. fee'[s].status \in {"PAID", "PENDING"} /\ (fee'[s].paid <=> fee'[s].status = "PAID")
      BY <2>3
    <3> QED
      BY <1>1, <2>1, <2>3, <3>1, <3>2, EvidenceKept DEF IInv, Held
  <2>10. OnePayment'
    <3>1. ActivePayments(s) = {p} /\ SucceededPayments(s) = {}
      BY <1>2, <2>1 DEF IInv, OnePayment, ActivePayments
    <3>2. /\ ActivePayments(s)' = {}
          /\ SucceededPayments(s)' = IF outcome = "SUCCEEDED" THEN {p} ELSE {}
      BY <1>2, <2>2, <3>1 DEF ActivePayments, SucceededPayments, ActivePayment, Outcome
    <3>3. \A x \in Shipments \ {s} : /\ ActivePayments(x)' = ActivePayments(x)
                                    /\ SucceededPayments(x)' = SucceededPayments(x)
      BY <1>2, <2>2 DEF ActivePayments, SucceededPayments
    <3> QED
      BY <2>3, <3>2, <3>3 DEF IInv, OnePayment
  <2>11. ObligationMet'
    BY <1>1, <2>1, <2>3 DEF IInv, ObligationMet, Discharged, Held
  <2> QED
    BY <2>5, <2>6, <2>7, <2>8, <2>9, <2>10, <2>11 DEF IInv
<1> QED
  BY <1>4, <1>5

-----------------------------------------------------------------------------
(* The inductive invariant *)

(* No fee, payment or dispute has begun. *)
LEMMA InitInv == Init => IInv
<1> SUFFICES ASSUME Init PROVE IInv
  OBVIOUS
<1>1. /\ \A s \in Shipments : /\ parcel[s].stage = "AWAITING_PICKUP"
                              /\ fee[s].status = "PENDING" /\ fee[s].collectedBy = None
                              /\ fee[s].remittedBy = None /\ ~fee[s].settled /\ ~fee[s].paid
      /\ \A i \in Disputes : dispute[i].fee = None /\ dispute[i].from = "NONE"
      /\ \A p \in Payments : /\ pay[p].fee = None /\ pay[p].status = "NONE"
                             /\ provider[p] = "UNKNOWN"
                             /\ \A e \in Events : event[p][e] = "NONE"
      /\ \A r \in Requests : req[r] = Idle
  BY DEF Init, NoDispute, NoPayment
<1>2. TypeOK
  <2>1. parcel \in [Shipments -> ParcelRow]
    BY DEF Init, ParcelRow, Stage
  <2>2. fee \in [Shipments -> FeeRow]
    BY DEF Init, FeeRow, FeeStatus
  <2>3. dispute \in [Disputes -> DisputeRow]
    BY DEF Init, DisputeRow, NoDispute
  <2>4. pay \in [Payments -> PaymentRow] /\ provider \in [Payments -> ProviderRow]
    BY DEF Init, PaymentRow, NoPayment, ProviderRow
  <2>5. event \in [Payments -> EventRow] /\ req \in [Requests -> Request]
    BY IdleType DEF Init, EventRow
  <2> QED
    BY <2>1, <2>2, <2>3, <2>4, <2>5 DEF TypeOK
<1>3. RowsFormed
  BY <1>1 DEF RowsFormed
<1>4. Truthful
  BY <1>1 DEF Truthful, Outcome
<1>5. FeeEvidence
  <2>1. \A s \in Shipments : OpenDisputes(s) = {}
    BY <1>1, NullAssumption DEF OpenDisputes
  <2> QED
    BY <1>1, <2>1 DEF FeeEvidence, Held
<1>6. OnePayment
  <2>1. \A s \in Shipments : ActivePayments(s) = {} /\ SucceededPayments(s) = {}
    BY <1>1, NullAssumption DEF ActivePayments, SucceededPayments
  <2> QED
    BY <1>1, <2>1 DEF OnePayment
<1>7. ObligationMet
  BY <1>1 DEF ObligationMet
<1>8. RequestsDecided
  BY <1>1, IdleDecided DEF RequestsDecided
<1> QED
  BY <1>2, <1>3, <1>4, <1>5, <1>6, <1>7, <1>8 DEF IInv

(* A request that ends early leaves everything as it is. *)
LEMMA AbortInv == ASSUME IInv, NEW r \in Requests, Abort(r) PROVE IInv'
<1>1. StableStep
  BY DEF StableStep, Abort
<1>2. req' \in [Requests -> Request] /\ RequestsDecided'
  BY <1>1, EndsStable DEF IInv, Abort
<1> QED
  BY <1>2, RequestOnlyInv DEF Abort

(* Every command on the fee keeps the invariant. *)
LEMMA FeeStepInv == IInv /\ FeeStep => IInv'
<1> SUFFICES ASSUME IInv, FeeStep PROVE IInv'
  OBVIOUS
<1>1. ASSUME NEW r \in Requests, NEW s \in Shipments, NEW cash \in BOOLEAN,
             PickupRead(r, s, cash) \/ CompleteRead(r, s, cash)
      PROVE  IInv'
  BY <1>1, ReadParcelAndFeeInv DEF PickupRead, CompleteRead
<1>2. ASSUME NEW r \in Requests, NEW s \in Shipments, CancelRead(r, s)
      PROVE  IInv'
  BY <1>2, ReadParcelAndFeeInv DEF CancelRead
<1> QED
  BY <1>1, <1>2, ResolveReadInv, CommitHandoverInv, CommitCancelInv, CommitResolveInv,
     RemitInv, SettleInv, DisputeInv
  DEF FeeStep

(* Every step of an online payment keeps the invariant. *)
LEMMA PaymentStepInv == IInv /\ PaymentStep => IInv'
BY CreateReadInv, OpenPaymentInv, ResumePaymentInv, ProviderOpensInv, RecordAnswerInv,
   ProviderDecidesInv, WebhookInv
DEF PaymentStep

(* The invariant holds in every reachable state. *)
LEMMA Inductive == Spec => []IInv
<1>1. IInv /\ [Next]_vars => IInv'
  <2> SUFFICES ASSUME IInv, [Next]_vars PROVE IInv'
    OBVIOUS
  <2>1. CASE UNCHANGED vars
    <3>1. StableStep
      BY <2>1 DEF StableStep, vars
    <3>2. req' \in [Requests -> Request] /\ RequestsDecided'
      BY <2>1, <3>1, UntouchedStable DEF IInv, vars
    <3> QED
      BY <2>1, <3>2, RequestOnlyInv DEF vars
  <2>2. CASE Next
    BY <2>2, ParcelStepInv, FeeStepInv, PaymentStepInv, AbortInv DEF Next
  <2> QED
    BY <2>1, <2>2
<1> QED
  BY <1>1, InitInv, PTL DEF Spec

-----------------------------------------------------------------------------
(* What the code guarantees *)

(* Rows and requests in flight are always well formed. *)
THEOREM TypeCorrect == Spec => []TypeOK
BY Inductive, PTL DEF IInv

(* The columns of a fee are always the evidence its status needs, and a      *)
(* disputed fee has exactly one open dispute.                                *)
THEOREM Evidence == Spec => []FeeEvidence
BY Inductive, PTL DEF IInv

(* At most one payment of a fee is open or has succeeded, and the status of  *)
(* the fee says which.                                                       *)
THEOREM PaymentsAgree == Spec => []OnePayment
BY Inductive, PTL DEF IInv

(* No parcel leaves the point where its fee is due without the fee.          *)
THEOREM ObligationsMet == Spec => []ObligationMet
BY Inductive, PTL DEF IInv

(* Nobody pays twice: what an honest provider has taken belongs to the one   *)
(* payment the fee waits for or was paid with.                               *)
THEOREM PaysOnce == Spec => []PaidOnce
<1>1. IInv => PaidOnce
  <2> SUFFICES ASSUME IInv, NEW p \in Payments \ Contradicting, provider[p] = "SUCCEEDED"
               PROVE  /\ fee[pay[p].fee].status \in {"PAYMENT_PENDING", "PAID"}
                      /\ pay[p].status \in ActivePayment \cup {"SUCCEEDED"}
    BY DEF PaidOnce
  <2>1. pay[p].status # "NONE" /\ pay[p].status # "FAILED"
    BY DEF IInv, RowsFormed, Truthful, Outcome
  <2>2. pay[p].status \in ActivePayment \cup {"SUCCEEDED"} /\ pay[p].fee \in Shipments
    BY <2>1 DEF IInv, TypeOK, PaymentRow, RowsFormed, Outcome
  <2>3. p \in ActivePayments(pay[p].fee) \/ p \in SucceededPayments(pay[p].fee)
    BY <2>2 DEF ActivePayments, SucceededPayments
  <2> QED
    BY <2>2, <2>3 DEF IInv, OnePayment
<1> QED
  BY <1>1, Inductive, PTL

(* Payments and events change only where their service writes them. *)
LEMMA PaymentWriters ==
    ASSUME Next
    PROVE  \/ UNCHANGED <<pay, event>>
           \/ \E r \in Requests : OpenPayment(r) \/ RecordAnswer(r)
           \/ \E p \in Payments, e \in Events, outcome \in Outcome : Webhook(p, e, outcome)
<1>1. CASE ParcelStep
  BY <1>1 DEF ParcelStep, Move, AssignPickup, Accept, Reassign, Reject, StartDelivery,
              FailDelivery, Redeliver, RequestReturn
<1>2. CASE FeeStep
  BY <1>2 DEF FeeStep, PickupRead, CompleteRead, CancelRead, ReadParcelAndFee, ResolveRead,
              CommitHandover, CommitCancel, CommitResolve, Remit, Settle, Dispute
<1>3. CASE PaymentStep
  BY <1>3 DEF PaymentStep, CreateRead, ResumePayment, CheckPayment, ProviderOpens,
              ProviderDecides
<1> QED
  BY <1>1, <1>2, <1>3 DEF Next, Abort

(* A payment that ended and an event that was stored never change, and the   *)
(* event tells the outcome of its payment, whatever the provider reports.    *)
THEOREM OutcomesFinal == Spec => OutcomeFinal
<1> DEFINE Final == /\ \A p \in Payments : pay[p].status \in Outcome => pay'[p] = pay[p]
                    /\ \A p \in Payments, e \in Events : event[p][e] # "NONE" =>
                         event'[p][e] = event[p][e] /\ pay[p].status = event[p][e]
<1>1. ASSUME IInv, Next PROVE Final
  <2>1. \A p \in Payments, e \in Events : event[p][e] # "NONE" => pay[p].status = event[p][e]
    BY <1>1 DEF IInv, Truthful
  <2>2. CASE UNCHANGED <<pay, event>>
    BY <2>1, <2>2
  <2>3. ASSUME NEW r \in Requests, OpenPayment(r) PROVE Final
    <3>1. req[r].key \in Payments
      BY <1>1, <2>3 DEF OpenPayment, At, IInv, RequestsDecided, Decided, DecidedCreate
    <3> QED
      BY <1>1, <2>1, <2>3, <3>1 DEF OpenPayment, Outcome, IInv, TypeOK
  <2>4. ASSUME NEW r \in Requests, RecordAnswer(r) PROVE Final
    <3>1. req[r].key \in Payments
      BY <1>1, <2>4 DEF RecordAnswer, At, IInv, RequestsDecided, Decided, DecidedCreate
    <3>2. ASSUME NEW p \in Payments, pay[p].status \in Outcome PROVE pay'[p] = pay[p]
      <4>1. pay[p] \in PaymentRow
        BY <1>1 DEF IInv, TypeOK
      <4> QED
        BY <1>1, <2>4, <3>1, <3>2, <4>1 DEF RecordAnswer, Outcome, IInv, TypeOK, PaymentRow
    <3> QED
      BY <2>1, <2>4, <3>2 DEF RecordAnswer
  <2>5. ASSUME NEW p \in Payments, NEW e \in Events, NEW outcome \in Outcome,
               Webhook(p, e, outcome)
        PROVE  Final
    <3>1. \A q \in Payments : pay[q].status \in Outcome => pay'[q] = pay[q]
      BY <1>1, <2>5 DEF Webhook, ApplyWebhook, Outcome, ActivePayment, IInv, TypeOK
    <3>2. \A q \in Payments, x \in Events : event[q][x] # "NONE" => event'[q][x] = event[q][x]
      BY <1>1, <2>5 DEF Webhook, ApplyWebhook, IInv, TypeOK, EventRow
    <3> QED
      BY <2>1, <3>1, <3>2
  <2> QED
    BY <1>1, <2>2, <2>3, <2>4, <2>5, PaymentWriters
<1>2. IInv /\ [Next]_vars => [Final]_vars
  BY <1>1
<1> QED
  BY <1>2, Inductive, PTL DEF Spec, OutcomeFinal

(* Only these steps write a fee. *)
LEMMA FeeWriters ==
    ASSUME Next
    PROVE  \/ UNCHANGED fee
           \/ \E r \in Requests : \/ CommitHandover(r) \/ CommitCancel(r)
                                  \/ CommitResolve(r) \/ OpenPayment(r)
           \/ \E s \in Shipments : \/ Remit(s) \/ Settle(s)
                                   \/ \E i \in Disputes : Dispute(s, i)
           \/ \E p \in Payments, e \in Events, outcome \in Outcome : Webhook(p, e, outcome)
<1>1. CASE ParcelStep
  BY <1>1 DEF ParcelStep, Move, AssignPickup, Accept, Reassign, Reject, StartDelivery,
              FailDelivery, Redeliver, RequestReturn
<1>2. CASE FeeStep
  BY <1>2 DEF FeeStep, PickupRead, CompleteRead, CancelRead, ReadParcelAndFee, ResolveRead
<1>3. CASE PaymentStep
  BY <1>3 DEF PaymentStep, CreateRead, ResumePayment, CheckPayment, ProviderOpens,
              ProviderDecides, RecordAnswer
<1> QED
  BY <1>1, <1>2, <1>3 DEF Next, Abort

(* A fee leaves DISPUTED only for the status from which its open dispute     *)
(* took it, and that dispute is resolved with it.                            *)
THEOREM DisputesRestore == Spec => DisputeRestores
<1> DEFINE Restores ==
      \A s \in Shipments : fee[s].status = "DISPUTED" /\ fee'[s] # fee[s] =>
        \E i \in OpenDisputes(s) : /\ fee'[s] = [fee[s] EXCEPT !.status = dispute[i].from]
                                   /\ dispute'[i].resolved
<1>1. ASSUME IInv, Next PROVE Restores
  <2> SUFFICES ASSUME NEW s \in Shipments, fee[s].status = "DISPUTED", fee'[s] # fee[s]
               PROVE  \E i \in OpenDisputes(s) :
                        /\ fee'[s] = [fee[s] EXCEPT !.status = dispute[i].from]
                        /\ dispute'[i].resolved
    OBVIOUS
  <2>1. fee \in [Shipments -> FeeRow] /\ fee[s].collectedBy # None
    BY <1>1 DEF IInv, TypeOK, FeeEvidence
  <2>2. ~\E r \in Requests : CommitHandover(r) \/ CommitCancel(r) \/ OpenPayment(r)
    BY <2>1 DEF CommitHandover, Collects, CommitCancel, OpenPayment
  <2>3. ~\E x \in Shipments : Remit(x) \/ Settle(x) \/ \E i \in Disputes : Dispute(x, i)
    BY <2>1 DEF Remit, Settle, Dispute
  <2>4. ~\E p \in Payments, e \in Events, outcome \in Outcome : Webhook(p, e, outcome)
    BY <2>1 DEF Webhook, ApplyWebhook
  <2>5. PICK r \in Requests : CommitResolve(r)
    BY <1>1, <2>2, <2>3, <2>4, FeeWriters
  <2>6. /\ req[r].shipment = s /\ req[r].dispute \in Disputes
        /\ dispute[req[r].dispute].fee = s /\ ~dispute[req[r].dispute].resolved
    BY <1>1, <2>1, <2>5 DEF CommitResolve, IInv, RequestsDecided, Decided, DecidedResolve
  <2>7. req[r].dispute \in OpenDisputes(s)
    BY <2>6 DEF OpenDisputes
  <2>8. /\ fee'[s] = [fee[s] EXCEPT !.status = dispute[req[r].dispute].from]
        /\ dispute'[req[r].dispute].resolved
    BY <1>1, <2>1, <2>5, <2>6 DEF CommitResolve, IInv, TypeOK, DisputeRow
  <2> QED
    BY <2>7, <2>8
<1>2. IInv /\ [Next]_vars => [Restores]_vars
  BY <1>1
<1> QED
  BY <1>2, Inductive, PTL DEF Spec, DisputeRestores

-----------------------------------------------------------------------------
(***************************************************************************)
(* The price of a shipment.                                                *)
(*                                                                         *)
(* Versions of the price list are numbered without a gap and their rates   *)
(* never change (TableInv), so that a price, which is always what some     *)
(* version yields for its form (Priced), is the same price wherever the    *)
(* same version made it, and a later reading is of no older version.       *)
(***************************************************************************)
CONSTANTS Pages, Admins, Forms, Lists, Codes, GramsPerUnit, PointsPerOne, MaxAttempts, MaxList, MaxCalls

VARIABLES configs, publishing, page, calls, shipments

Order == INSTANCE Booking WITH MaxVersion <- MaxList

(* Units and bounds are positive, amounts are numbers, and an absent value  *)
(* is none of the values.                                                   *)
PriceAssumptions == Order!BookingAssumption /\ Order!NoneAssumption

(* The versions of S are numbered from one without a gap. *)
Numbered(S, n) ==
    /\ {c.version : c \in S} = 1 .. n
    /\ \A c, d \in S : c.version = d.version => c = d

(* n is the newest version, and the one that is active.                     *)
InForce(n) == Numbered(configs, n) /\ \A c \in configs : c.active <=> c.version = n

(* The price is what a published list yields for the form.                  *)
Priced(p, f) == \E c \in configs : p = Order!calculate(f, c)

TableInv == configs \subseteq Order!Config /\ \E n \in Nat : InForce(n)

DraftsInv == publishing \in [Admins -> Order!Draft \cup {None}]

(* A quote belongs to the form it was asked for. *)
Quoted(g) ==
    /\ g.answer # None => g.asking # None /\ Priced(g.answer, g.asking)
    /\ g.data # None => \A f \in Forms : g.quoted = Order!quoteSignature(f) => Priced(g.data, f)
    /\ g.sent # None => g.sent \in Order!Ids

PagesInv == page \in [Pages -> Order!Page] /\ \A p \in Pages : Quoted(page[p])

(* What a call may rely on: prices of its form, the later one no older.     *)
Agreed(c) ==
    /\ Priced(c.shown, c.form)
    /\ c.price # None => Priced(c.price, c.form) /\ c.price.version >= c.shown.version
    /\ c.pc = "insert" => c.price # None

(* A call that is done names a shipment of its page.                        *)
Answered(c) == c.pc = "done" => \E s \in shipments : s.key = c.page /\ s.code = c.code

CallsInv ==
    /\ \E n \in 0 .. MaxCalls : Order!Ids = 1 .. n
    /\ calls \in [Order!Ids -> Order!Call]
    /\ \A i \in Order!Ids : Agreed(calls[i]) /\ Answered(calls[i])

Bought(s) ==
    /\ Priced(s.shown, s.form) /\ Priced(s.price, s.form)
    /\ s.price.version >= s.shown.version

ShipmentsInv ==
    /\ shipments \subseteq Order!Shipment
    /\ \A s, t \in shipments : s.key = t.key \/ s.code = t.code => s = t
    /\ \A s \in shipments : Bought(s)

PriceInv == TableInv /\ DraftsInv /\ PagesInv /\ CallsInv /\ ShipmentsInv

-----------------------------------------------------------------------------
LEMMA SameCount == \A S : Order!Cardinality(S) = Cardinality(S)
BY DEF Order!Cardinality, Cardinality

LEMMA NumberedSize ==
    ASSUME NEW S, NEW n \in Nat, Numbered(S, n)
    PROVE  IsFiniteSet(S) /\ Cardinality(S) = n
<1> DEFINE f == [c \in S |-> c.version]
<1>1. f \in Bijection(S, 1 .. n)
  <2>1. f \in [S -> 1 .. n]
    BY DEF Numbered
  <2>2. \A c, d \in S : f[c] = f[d] => c = d
    BY DEF Numbered
  <2>3. \A m \in 1 .. n : \E c \in S : f[c] = m
    BY DEF Numbered
  <2> QED
    BY <2>1, <2>2, <2>3 DEF Bijection, Injection, Surjection, IsInjective
<1>2. IsFiniteSet(1 .. n) /\ Cardinality(1 .. n) = n
  BY FS_Interval
<1> QED
  BY <1>1, <1>2, FS_Injection DEF Bijection

LEMMA LatestIs ==
    ASSUME NEW S, NEW n \in Nat, Numbered(S, n)
    PROVE  Order!LatestVersion(S) = n
<1>1. CASE S = {}
  <2>1. 1 .. n = {}
    BY <1>1 DEF Numbered
  <2> QED
    BY <1>1, <2>1 DEF Order!LatestVersion
<1>2. CASE S # {}
  <2> DEFINE V == {c.version : c \in S}
             Top(v) == \A c \in S : c.version <= v
  <2>1. V = 1 .. n /\ n \in V
    BY <1>2 DEF Numbered
  <2>2. Top(n)
    BY <2>1
  <2>3. \A v \in V : Top(v) => v = n
    BY <2>1
  <2>4. (CHOOSE v \in V : Top(v)) = n
    BY <2>1, <2>2, <2>3
  <2> QED
    BY <1>2, <2>4 DEF Order!LatestVersion
<1> QED
  BY <1>1, <1>2

LEMMA ActiveIs ==
    ASSUME NEW n \in Nat, configs \subseteq Order!Config, InForce(n), Order!Active # {}
    PROVE  Order!ActiveConfig \in configs /\ Order!ActiveConfig.version = n
<1>1. \A c \in Order!Active : c \in configs /\ c.version = n
  BY DEF Order!Active, InForce
<1>2. \E c \in Order!Active : \A d \in Order!Active : d.version <= c.version
  BY <1>1
<1>3. Order!ActiveConfig \in Order!Active
  BY <1>2 DEF Order!ActiveConfig
<1> QED
  BY <1>1, <1>3

LEMMA VersionsBounded ==
    ASSUME NEW n \in Nat, InForce(n), NEW p, NEW f, Priced(p, f)
    PROVE  p.version \in 1 .. n
BY DEF Priced, Order!calculate, InForce, Numbered

(* One version has one price for a form. *)
LEMMA OnePrice ==
    ASSUME TableInv, NEW p, NEW q, NEW f, Priced(p, f), Priced(q, f), p.version = q.version
    PROVE  p = q
<1>1. PICK c \in configs : p = Order!calculate(f, c)
  BY DEF Priced
<1>2. PICK d \in configs : q = Order!calculate(f, d)
  BY DEF Priced
<1>3. c.version = d.version
  BY <1>1, <1>2 DEF Order!calculate
<1>4. c = d
  BY <1>3 DEF TableInv, InForce, Numbered
<1> QED
  BY <1>1, <1>2, <1>4

(* Prices survive what publishing does to the table. *)
LEMMA PricedStays ==
    ASSUME \A c \in configs : \E d \in configs' : d.version = c.version /\ d.rates = c.rates,
           NEW p, NEW f, Priced(p, f)
    PROVE  Priced(p, f)'
BY DEF Priced, Order!calculate

LEMMA SignaturePrices ==
    ASSUME PriceAssumptions, NEW f \in Forms, NEW g \in Forms,
           Order!quoteSignature(f) = Order!quoteSignature(g), NEW p, Priced(p, f)
    PROVE  Priced(p, g)
<1>1. f.weight = g.weight /\ f.cod = g.cod
  <2> DEFINE F == [weight : Nat \ {0}, cod : Nat, pinned : BOOLEAN, payer : {"SENDER", "RECEIVER"}]
  <2>1. f \in F /\ g \in F
    BY DEF PriceAssumptions, Order!BookingAssumption
  <2>2. \A h \in F : Order!quoteSignature(h).weight = h.weight /\ Order!quoteSignature(h).cod = h.cod
    BY DEF Order!quoteSignature
  <2> QED
    BY <2>1, <2>2
<1> QED
  BY <1>1 DEF Priced, Order!calculate

(* Rounding up. *)
LEMMA CeilDivIs ==
    ASSUME NEW a \in Nat, NEW b \in Nat \ {0}
    PROVE  /\ Order!CeilDiv(a, b) \in Nat
           /\ Order!CeilDiv(a, b) * b >= a
           /\ Order!CeilDiv(a, b) > 0 => (Order!CeilDiv(a, b) - 1) * b < a
           /\ Order!CeilDiv(a, b) <= a
<1> DEFINE m == a + b - 1
           q == m \div b
           r == m % b
<1>1. m \in Nat /\ q \in Int /\ r \in 0 .. b - 1
  OBVIOUS
<1>2. m = b * q + r
  OBVIOUS
<1>3. q \in Nat
  BY <1>1, <1>2
<1> QED
  BY <1>1, <1>2, <1>3 DEF Order!CeilDiv

(* The parts of a price. *)
LEMMA PriceIs ==
    ASSUME PriceAssumptions, NEW f \in Forms, NEW c \in Order!Config
    PROVE  LET p == Order!calculate(f, c)
               excess == Order!Larger(0, f.weight - c.rates.included)
           IN /\ p \in Order!Price /\ p.version = c.version
              /\ f.weight \in Nat \ {0} /\ f.cod \in Nat /\ c.rates \in Lists
              /\ c.rates.included \in Nat /\ c.rates.points \in Nat
              /\ excess \in Nat /\ excess <= f.weight /\ f.cod * c.rates.points \in Nat
              /\ p.weightFee = Order!CeilDiv(excess, GramsPerUnit) * c.rates.perUnit
              /\ p.codFee = Order!CeilDiv(f.cod * c.rates.points, PointsPerOne)
              /\ p.total = c.rates.base + p.weightFee + p.codFee
<1> DEFINE excess == Order!Larger(0, f.weight - c.rates.included)
           units == Order!CeilDiv(excess, GramsPerUnit)
           weightFee == units * c.rates.perUnit
           share == f.cod * c.rates.points
           codFee == Order!CeilDiv(share, PointsPerOne)
           p == Order!calculate(f, c)
<1>1. f.weight \in Nat \ {0} /\ f.cod \in Nat /\ c.rates \in Lists /\ c.version \in Order!Versions
  BY DEF PriceAssumptions, Order!BookingAssumption, Order!Config
<1>2. /\ c.rates.base \in Nat /\ c.rates.included \in Nat \ {0} /\ c.rates.perUnit \in Nat
      /\ c.rates.points \in Nat
  BY <1>1 DEF PriceAssumptions, Order!BookingAssumption
<1>3. excess \in Nat /\ excess <= f.weight
  BY <1>1, <1>2 DEF Order!Larger
<1>4. share \in Nat
  BY <1>1, <1>2
<1>5. GramsPerUnit \in Nat \ {0} /\ PointsPerOne \in Nat \ {0}
  BY DEF PriceAssumptions, Order!BookingAssumption
<1> HIDE DEF excess, share
<1>6. units \in Nat /\ codFee \in Nat
  BY <1>3, <1>4, <1>5, CeilDivIs
<1> HIDE DEF units, codFee
<1>7. weightFee \in Nat
  BY <1>2, <1>6
<1>8. /\ p.version = c.version /\ p.weightFee = weightFee /\ p.codFee = codFee
      /\ p.total = c.rates.base + weightFee + codFee
      /\ p = [version |-> c.version, weightFee |-> weightFee, codFee |-> codFee,
              total |-> c.rates.base + weightFee + codFee]
  BY DEF Order!calculate, excess, units, share, codFee
<1> HIDE DEF weightFee, p
<1>9. p \in Order!Price
  BY <1>1, <1>2, <1>6, <1>7, <1>8 DEF Order!Price
<1> QED
  BY <1>1, <1>2, <1>3, <1>4, <1>8, <1>9 DEF p, weightFee, units, codFee, excess, share

(* What a listed price charges for. *)
LEMMA FeeCovers ==
    ASSUME PriceAssumptions, NEW f \in Forms, NEW c \in Order!Config, NEW p, p = Order!calculate(f, c)
    PROVE  /\ c.version = p.version
           /\ \E units \in 0 .. f.weight :
                /\ p.weightFee = units * c.rates.perUnit
                /\ units * GramsPerUnit >= f.weight - c.rates.included
                /\ units > 0 => (units - 1) * GramsPerUnit < f.weight - c.rates.included
           /\ p.codFee * PointsPerOne >= f.cod * c.rates.points
           /\ p.codFee > 0 => (p.codFee - 1) * PointsPerOne < f.cod * c.rates.points
           /\ p.total = c.rates.base + p.weightFee + p.codFee
<1> DEFINE excess == Order!Larger(0, f.weight - c.rates.included)
           units == Order!CeilDiv(excess, GramsPerUnit)
<1>1. /\ p \in Order!Price /\ p.version = c.version
      /\ f.weight \in Nat /\ f.cod \in Nat /\ c.rates.included \in Nat /\ c.rates.points \in Nat
      /\ excess \in Nat /\ excess <= f.weight /\ f.cod * c.rates.points \in Nat
      /\ p.weightFee = units * c.rates.perUnit
      /\ p.codFee = Order!CeilDiv(f.cod * c.rates.points, PointsPerOne)
      /\ p.total = c.rates.base + p.weightFee + p.codFee
  BY PriceIs
<1>2. GramsPerUnit \in Nat \ {0} /\ PointsPerOne \in Nat \ {0}
  BY DEF PriceAssumptions, Order!BookingAssumption
<1>3. excess >= f.weight - c.rates.included /\ (excess > 0 => excess = f.weight - c.rates.included)
  BY <1>1 DEF Order!Larger
<1> HIDE DEF excess
<1>4. /\ units \in Nat /\ units * GramsPerUnit >= excess
      /\ units > 0 => (units - 1) * GramsPerUnit < excess
      /\ units <= excess
  BY <1>1, <1>2, CeilDivIs
<1>5. /\ p.codFee * PointsPerOne >= f.cod * c.rates.points
      /\ p.codFee > 0 => (p.codFee - 1) * PointsPerOne < f.cod * c.rates.points
  BY <1>1, <1>2, CeilDivIs
<1> HIDE DEF units
<1>6. units * GramsPerUnit \in Int /\ (units - 1) * GramsPerUnit \in Int
  BY <1>2, <1>4
<1>7. /\ units \in 0 .. f.weight
      /\ units * GramsPerUnit >= f.weight - c.rates.included
      /\ units > 0 => excess > 0
  BY <1>1, <1>3, <1>4, <1>6
<1> QED
  BY <1>1, <1>3, <1>4, <1>5, <1>7

-----------------------------------------------------------------------------
(* Steps *)

(* What is kept while the price table and the pages and calls that a step    *)
(* leaves alone stay as they are.                                            *)
Listed == \A c \in configs : \E d \in configs' : d.version = c.version /\ d.rates = c.rates

LEMMA QuotesStay ==
    ASSUME Listed, NEW p \in Pages, Quoted(page[p]), page'[p] = page[p], Order!Ids \subseteq Order!Ids'
    PROVE  Quoted(page[p])'
BY PricedStays DEF Listed, Quoted

LEMMA CallStays ==
    ASSUME Listed, NEW i \in Order!Ids, Agreed(calls[i]), Answered(calls[i]), calls'[i] = calls[i],
           shipments \subseteq shipments'
    PROVE  Agreed(calls[i])' /\ Answered(calls[i])'
BY PricedStays DEF Listed, Agreed, Answered

LEMMA BoughtStays ==
    ASSUME Listed, NEW s, Bought(s)
    PROVE  Bought(s)'
BY PricedStays DEF Listed, Bought

LEMMA SameList ==
    ASSUME UNCHANGED configs
    PROVE  Listed
BY DEF Listed

LEMMA TableStays ==
    ASSUME TableInv, UNCHANGED configs
    PROVE  TableInv'
BY DEF TableInv, InForce, Numbered

(* A version published on top of a numbered table. *)
LEMMA PublishedNumbered ==
    ASSUME PriceAssumptions, TableInv, DraftsInv, NEW a \in Admins, Order!CommitConfig(a)
    PROVE  TableInv' /\ Listed
<1>1. PICK n \in Nat : InForce(n)
  BY DEF TableInv
<1>2. Order!LatestVersion(configs) = n /\ n + 1 \in Order!Versions
  BY <1>1, LatestIs
    DEF InForce, Order!CommitConfig, Order!Versions, PriceAssumptions, Order!BookingAssumption
<1> DEFINE top == [version |-> n + 1, rates |-> publishing[a].rates, active |-> TRUE]
           off(c) == [c EXCEPT !.active = FALSE]
<1>3. publishing[a].rates \in Lists
  BY DEF DraftsInv, Order!CommitConfig, Order!Draft
<1>4. top \in Order!Config /\ top.version = n + 1 /\ top.active = TRUE
  BY <1>2, <1>3 DEF Order!Config
<1>5. \A c \in configs : /\ off(c) \in Order!Config /\ off(c).version = c.version /\ off(c).rates = c.rates
                         /\ off(c).active = FALSE /\ c.version \in 1 .. n
  <2>1. configs \subseteq Order!Config
    BY DEF TableInv
  <2>2. \A c \in Order!Config : /\ off(c) \in Order!Config /\ off(c).version = c.version
                               /\ off(c).rates = c.rates /\ off(c).active = FALSE
    BY DEF Order!Config
  <2>3. \A c \in configs : c.version \in 1 .. n
    BY <1>1 DEF InForce, Numbered
  <2> QED
    BY <2>1, <2>2, <2>3
<1>6. configs' = {off(c) : c \in configs} \cup {top}
  BY <1>2 DEF Order!CommitConfig, Order!Published
<1> HIDE DEF top, off
<1>7. configs' \subseteq Order!Config
  BY <1>4, <1>5, <1>6
<1>8. {c.version : c \in configs'} = 1 .. n + 1
  <2>1. \A c \in configs' : c.version \in 1 .. n + 1
    BY <1>4, <1>5, <1>6
  <2>2. ASSUME NEW v \in 1 .. n + 1
        PROVE  \E c \in configs' : c.version = v
    <3>1. CASE v = n + 1
      BY <1>4, <1>6, <3>1
    <3>2. CASE v \in 1 .. n
      <4>1. PICK c \in configs : c.version = v
        BY <1>1, <3>2 DEF InForce, Numbered
      <4> QED
        BY <1>5, <1>6, <4>1
    <3> QED
      BY <3>1, <3>2
  <2> QED
    BY <2>1, <2>2
<1>9. \A c, d \in configs' : c.version = d.version => c = d
  <2>1. \A c, d \in configs : off(c).version = off(d).version => off(c) = off(d)
    BY <1>1, <1>5 DEF InForce, Numbered
  <2>2. \A c \in configs : off(c).version # top.version
    BY <1>4, <1>5
  <2> QED
    BY <1>6, <2>1, <2>2
<1>10. \A c \in configs' : c.active <=> c.version = n + 1
  BY <1>4, <1>5, <1>6
<1>11. TableInv'
  BY <1>7, <1>8, <1>9, <1>10 DEF TableInv, InForce, Numbered
<1>12. Listed
  BY <1>5, <1>6 DEF Listed
<1> QED
  BY <1>11, <1>12

LEMMA PublishingInv ==
    ASSUME PriceAssumptions, PriceInv, Order!Publishing
    PROVE  PriceInv'
<1>0. PICK a \in Admins : Order!CommitConfig(a) \/ Order!AbortConfig(a) \/ \E l \in Lists : Order!CreateConfig(a, l)
  BY DEF Order!Publishing
<1>1. TableInv' /\ Listed
  BY <1>0, PublishedNumbered, SameList, TableStays DEF Order!AbortConfig, Order!CreateConfig, PriceInv
<1>2. UNCHANGED <<page, calls, shipments>>
  BY <1>0 DEF Order!CommitConfig, Order!AbortConfig, Order!CreateConfig
<1>3. DraftsInv'
  <2>1. CASE Order!CommitConfig(a) \/ Order!AbortConfig(a)
    BY <2>1 DEF Order!CommitConfig, Order!AbortConfig, PriceInv, DraftsInv
  <2>2. ASSUME NEW l \in Lists, Order!CreateConfig(a, l)
        PROVE  DraftsInv'
    <3>1. [rates |-> l, seen |-> configs] \in Order!Draft
      BY DEF Order!Draft, PriceInv, TableInv
    <3> QED
      BY <2>2, <3>1 DEF Order!CreateConfig, PriceInv, DraftsInv
  <2> QED
    BY <1>0, <2>1, <2>2
<1>a. Order!Ids' = Order!Ids
  BY <1>2 DEF Order!Ids
<1>4. PagesInv'
  <2>1. \A p \in Pages : Quoted(page[p])'
    BY <1>1, <1>2, <1>a, QuotesStay DEF PriceInv, PagesInv
  <2> QED
    BY <1>2, <2>1 DEF PriceInv, PagesInv
<1>5. CallsInv'
  <2>1. \A i \in Order!Ids : Agreed(calls[i])' /\ Answered(calls[i])'
    BY <1>1, <1>2, CallStays DEF PriceInv, CallsInv
  <2> QED
    BY <1>2, <1>a, <2>1 DEF PriceInv, CallsInv
<1>6. ShipmentsInv'
  BY <1>1, <1>2, BoughtStays DEF PriceInv, ShipmentsInv
<1> QED
  BY <1>1, <1>3, <1>4, <1>5, <1>6 DEF PriceInv

LEMMA PageIs ==
    ASSUME PriceAssumptions, PagesInv, NEW p \in Pages
    PROVE  /\ DOMAIN page = Pages /\ page[p] \in Order!Page /\ Quoted(page[p])
           /\ DOMAIN page[p] = {"form", "asking", "answer", "data", "quoted", "sent", "opened"}
BY DEF PagesInv, Order!Page

(* A step of one page. *)
LEMMA PageEnough ==
    ASSUME PriceAssumptions, PriceInv, NEW p \in Pages, NEW g \in Order!Page,
           page' = [page EXCEPT ![p] = g],
           Quoted(g)', UNCHANGED <<configs, publishing, shipments>>, CallsInv', Order!Ids \subseteq Order!Ids'
    PROVE  PriceInv'
<1>1. Listed /\ TableInv'
  BY SameList, TableStays DEF PriceInv
<1>2. DraftsInv'
  BY DEF PriceInv, DraftsInv
<1>3. ShipmentsInv'
  BY <1>1, BoughtStays DEF PriceInv, ShipmentsInv
<1>4. page' \in [Pages -> Order!Page] /\ page'[p] = g /\ \A q \in Pages \ {p} : page'[q] = page[q]
  BY PageIs DEF PriceInv, PagesInv
<1>5. \A q \in Pages \ {p} : Quoted(page[q])'
  BY <1>1, <1>4, QuotesStay DEF PriceInv, PagesInv
<1>6. Quoted(page[p])'
  BY <1>4 DEF Quoted
<1> QED
  BY <1>1, <1>2, <1>3, <1>4, <1>5, <1>6 DEF PriceInv, PagesInv

LEMMA CallsStay ==
    ASSUME PriceInv, UNCHANGED <<configs, calls, shipments>>
    PROVE  CallsInv' /\ Order!Ids' = Order!Ids
<1>1. Order!Ids' = Order!Ids
  BY DEF Order!Ids
<1>2. \A i \in Order!Ids : Agreed(calls[i])' /\ Answered(calls[i])'
  BY CallStays, SameList DEF PriceInv, CallsInv
<1> QED
  BY <1>1, <1>2 DEF PriceInv, CallsInv

(* A quote, on a form g of the page, while configs and calls stay.          *)
LEMMA QuoteEnough ==
    ASSUME PriceAssumptions, PriceInv, NEW p \in Pages, NEW g \in Order!Page,
           page' = [page EXCEPT ![p] = g],
           Quoted(g), UNCHANGED <<configs, publishing, calls, shipments>>
    PROVE  PriceInv'
<1>1. CallsInv' /\ Order!Ids' = Order!Ids
  BY CallsStay
<1>2. Quoted(g)'
  BY <1>1 DEF Quoted, Priced, Order!calculate
<1> QED
  BY <1>1, <1>2, PageEnough

LEMMA QuoteSteps ==
    ASSUME PriceAssumptions, PriceInv, NEW p \in Pages,
           \/ \E f \in Forms : Order!Edit(p, f)
           \/ Order!Calculate(p) \/ Order!Quote(p) \/ Order!QuoteArrives(p) \/ Order!QuoteFails(p) \/ Order!CreateFails(p)
    PROVE  PriceInv'
<1> DEFINE g == page[p]
<1>0. DOMAIN page = Pages /\ g \in Order!Page /\ Quoted(g)
      /\ DOMAIN g = {"form", "asking", "answer", "data", "quoted", "sent", "opened"}
  BY PageIs DEF PriceInv
<1>a. None \notin Forms /\ None \notin Order!Price
  BY DEF PriceAssumptions, Order!NoneAssumption
<1>1. ASSUME NEW f \in Forms, Order!Edit(p, f)
      PROVE  PriceInv'
  <2> DEFINE h == [g EXCEPT !.form = f]
  <2>1. h \in Order!Page /\ Quoted(h)
    BY <1>0 DEF Order!Page, Quoted
  <2>2. page' = [page EXCEPT ![p] = h]
    BY <1>0, <1>1 DEF Order!Edit
  <2> HIDE DEF h
  <2> QED
    BY <1>1, <2>1, <2>2, QuoteEnough DEF Order!Edit
<1>2. CASE Order!Calculate(p)
  <2> DEFINE h == [g EXCEPT !.asking = g.form, !.data = None]
  <2>1. h \in Order!Page /\ Quoted(h)
    BY <1>0, <1>2 DEF Order!Page, Quoted, Order!Calculate
  <2>2. page' = [page EXCEPT ![p] = h]
    BY <1>0, <1>2 DEF Order!Calculate
  <2> HIDE DEF h
  <2> QED
    BY <1>2, <2>1, <2>2, QuoteEnough DEF Order!Calculate
<1>3. CASE Order!Quote(p)
  <2> DEFINE price == Order!calculate(g.asking, Order!ActiveConfig)
             h == [g EXCEPT !.answer = price]
  <2>1. g.asking \in Forms
    BY <1>0, <1>3 DEF Order!Page, Order!Quote
  <2>2. Order!ActiveConfig \in configs /\ Order!ActiveConfig \in Order!Config
    BY <1>3, ActiveIs DEF Order!Quote, PriceInv, TableInv
  <2>3. price \in Order!Price /\ Priced(price, g.asking)
    BY <2>1, <2>2, PriceIs DEF Priced
  <2>4. page' = [page EXCEPT ![p] = h]
    BY <1>0, <1>3 DEF Order!Quote
  <2> HIDE DEF price
  <2>5. h \in Order!Page /\ Quoted(h)
    BY <1>0, <1>3, <2>3 DEF Order!Page, Quoted, Order!Quote
  <2> HIDE DEF h
  <2> QED
    BY <1>3, <2>4, <2>5, QuoteEnough DEF Order!Quote
<1>4. CASE Order!QuoteArrives(p)
  <2> DEFINE sig == Order!quoteSignature(g.asking)
             h == [g EXCEPT !.data = g.answer, !.quoted = sig, !.asking = None, !.answer = None]
  <2>1. g.asking \in Forms /\ g.answer \in Order!Price /\ Priced(g.answer, g.asking)
    BY <1>0, <1>4 DEF Order!Page, Quoted, Order!QuoteArrives
  <2>2. \A f \in Forms : sig = Order!quoteSignature(f) => Priced(g.answer, f)
    BY <2>1, SignaturePrices
  <2>3. page' = [page EXCEPT ![p] = h]
    BY <1>0, <1>4 DEF Order!QuoteArrives
  <2>4. sig \in {Order!quoteSignature(f) : f \in Forms}
    BY <2>1
  <2> HIDE DEF sig
  <2>5. h \in Order!Page /\ Quoted(h)
    BY <1>0, <2>1, <2>2, <2>4 DEF Order!Page, Quoted
  <2> HIDE DEF h
  <2> QED
    BY <1>4, <2>3, <2>5, QuoteEnough DEF Order!QuoteArrives
<1>5. CASE Order!QuoteFails(p)
  <2> DEFINE h == [g EXCEPT !.asking = None, !.answer = None]
  <2>1. h \in Order!Page /\ Quoted(h)
    BY <1>0 DEF Order!Page, Quoted
  <2>2. page' = [page EXCEPT ![p] = h]
    BY <1>0, <1>5 DEF Order!QuoteFails
  <2> HIDE DEF h
  <2> QED
    BY <1>5, <2>1, <2>2, QuoteEnough DEF Order!QuoteFails
<1>6. CASE Order!CreateFails(p)
  <2> DEFINE h == [g EXCEPT !.sent = None]
  <2>1. h \in Order!Page /\ Quoted(h)
    BY <1>0 DEF Order!Page, Quoted
  <2>2. page' = [page EXCEPT ![p] = h]
    BY <1>0, <1>6 DEF Order!CreateFails
  <2> HIDE DEF h
  <2> QED
    BY <1>6, <2>1, <2>2, QuoteEnough DEF Order!CreateFails
<1> QED
  BY <1>1, <1>2, <1>3, <1>4, <1>5, <1>6

LEMMA CallIs ==
    ASSUME PriceAssumptions, CallsInv, NEW i \in Order!Ids
    PROVE  /\ calls[i] \in Order!Call /\ Agreed(calls[i]) /\ Answered(calls[i])
           /\ DOMAIN calls[i] = {"page", "form", "shown", "attempt", "pc", "price", "code"}
BY DEF CallsInv, Order!Call

LEMMA SubmitInv ==
    ASSUME PriceAssumptions, PriceInv, NEW p \in Pages, Order!Submit(p)
    PROVE  PriceInv'
<1> DEFINE g == page[p]
           n == Order!Cardinality(Order!Ids) + 1
<1>1. DOMAIN page = Pages /\ g \in Order!Page /\ Quoted(g)
      /\ DOMAIN g = {"form", "asking", "answer", "data", "quoted", "sent", "opened"}
  BY PageIs DEF PriceInv
<1>2. PICK m \in 0 .. MaxCalls : Order!Ids = 1 .. m
  BY DEF PriceInv, CallsInv
<1>3. n = m + 1 /\ m + 1 <= MaxCalls /\ MaxCalls \in Nat /\ MaxAttempts \in Nat \ {0}
  <2>1. Cardinality(1 .. m) = m
    BY FS_Interval
  <2>2. Order!Cardinality(Order!Ids) = m
    BY <1>2, <2>1, SameCount
  <2>3. Order!Cardinality(Order!Ids) < MaxCalls
    BY DEF Order!Submit
  <2> QED
    BY <2>2, <2>3 DEF PriceAssumptions, Order!BookingAssumption
<1>4. g.data \in Order!Price /\ g.form \in Forms /\ Priced(g.data, g.form)
  BY <1>1 DEF Order!Submit, Order!QuoteIsCurrent, Order!Page, Quoted
<1>5. PICK c \in Order!Call : /\ c = [page |-> p, form |-> g.form, shown |-> g.data,
                                attempt |-> 0, pc |-> "begin", price |-> None, code |-> None]
                         /\ Agreed(c) /\ Answered(c)
  <2> DEFINE call == [page |-> p, form |-> g.form, shown |-> g.data,
                      attempt |-> 0, pc |-> "begin", price |-> None, code |-> None]
  <2>1. call \in Order!Call /\ Agreed(call) /\ Answered(call)
    BY <1>3, <1>4 DEF Order!Call, Agreed, Answered
  <2> QED
    BY <2>1
<1>6. PICK h \in Order!Page : h = [g EXCEPT !.sent = n] /\ h.sent = n /\ h.answer = g.answer /\ h.asking = g.asking
                        /\ h.data = g.data /\ h.quoted = g.quoted
  <2> DEFINE e == [g EXCEPT !.sent = n]
  <2>1. n \in 1 .. MaxCalls
    BY <1>2, <1>3
  <2> HIDE DEF n
  <2>2. e \in Order!Page /\ e.sent = n /\ e.answer = g.answer /\ e.asking = g.asking
        /\ e.data = g.data /\ e.quoted = g.quoted
    BY <1>1, <2>1 DEF Order!Page
  <2> QED
    BY <2>2
<1>7. calls' = [i \in Order!Ids \cup {n} |-> IF i = n THEN c ELSE calls[i]] /\ page' = [page EXCEPT ![p] = h]
  BY <1>1, <1>5, <1>6 DEF Order!Submit
<1>8. PICK k : k = n
  OBVIOUS
<1>9. /\ Order!Ids' = 1 .. m + 1 /\ Order!Ids \subseteq Order!Ids'
      /\ k \in Order!Ids' /\ k \notin Order!Ids
      /\ \A i \in Order!Ids' : i \in Order!Ids \/ i = k
  BY <1>2, <1>3, <1>7, <1>8 DEF Order!Ids
<1> HIDE DEF n
<1>10. calls' \in [Order!Ids' -> Order!Call] /\ calls'[k] = c /\ \A i \in Order!Ids : calls'[i] = calls[i]
  BY <1>5, <1>7, <1>8, <1>9 DEF PriceInv, CallsInv, Order!Ids
<1>11. Listed /\ UNCHANGED <<configs, shipments>>
  BY SameList DEF Order!Submit
<1>12. \A i \in Order!Ids : Agreed(calls[i])' /\ Answered(calls[i])'
  BY <1>10, <1>11, CallStays DEF PriceInv, CallsInv
<1>13. Agreed(c)' /\ Answered(c)'
  BY <1>5, <1>11, PricedStays DEF Agreed, Answered, Listed
<1>14. \A i \in Order!Ids' : Agreed(calls[i])' /\ Answered(calls[i])'
  BY <1>9, <1>10, <1>12, <1>13 DEF Agreed, Answered
<1>15. CallsInv'
  BY <1>3, <1>9, <1>10, <1>14 DEF CallsInv
<1>16. Quoted(h)'
  BY <1>1, <1>6, <1>8, <1>9, <1>11, PricedStays DEF Quoted, Listed
<1> QED
  BY <1>6, <1>7, <1>9, <1>15, <1>16, PageEnough DEF Order!Submit

LEMMA CreateArrivesInv ==
    ASSUME PriceAssumptions, PriceInv, NEW p \in Pages, Order!CreateArrives(p)
    PROVE  PriceInv'
<1> DEFINE g == page[p]
           code == calls[g.sent].code
           h == [g EXCEPT !.opened = code, !.sent = None]
<1>1. DOMAIN page = Pages /\ g \in Order!Page /\ Quoted(g)
      /\ DOMAIN g = {"form", "asking", "answer", "data", "quoted", "sent", "opened"}
  BY PageIs DEF PriceInv
<1>2. g.sent \in Order!Ids
  BY <1>1 DEF Order!CreateArrives, Quoted
<1>3. code \in Codes \cup {None}
  BY <1>2, CallIs DEF PriceInv, Order!Call
<1>4. page' = [page EXCEPT ![p] = h]
  BY <1>1 DEF Order!CreateArrives
<1> HIDE DEF code
<1>5. h \in Order!Page /\ Quoted(h)
  BY <1>1, <1>3 DEF Order!Page, Quoted
<1> HIDE DEF h
<1> QED
  BY <1>4, <1>5, QuoteEnough DEF Order!CreateArrives

(* A step of one call, which may add a shipment.                            *)
LEMMA CallEnough ==
    ASSUME PriceAssumptions, PriceInv, NEW i \in Order!Ids, NEW c \in Order!Call,
           calls' = [calls EXCEPT ![i] = c],
           Agreed(c), Answered(c)', UNCHANGED <<configs, publishing, page>>,
           shipments \subseteq shipments', ShipmentsInv'
    PROVE  PriceInv'
<1>1. Listed /\ TableInv' /\ DraftsInv'
  BY SameList, TableStays DEF PriceInv, DraftsInv
<1>2. /\ Order!Ids' = Order!Ids /\ calls' \in [Order!Ids -> Order!Call] /\ calls'[i] = c
      /\ \A j \in Order!Ids \ {i} : calls'[j] = calls[j]
  BY DEF PriceInv, CallsInv, Order!Ids
<1>3. \A j \in Order!Ids \ {i} : Agreed(calls[j])' /\ Answered(calls[j])'
  BY <1>1, <1>2, CallStays DEF PriceInv, CallsInv
<1>4. Agreed(calls[i])' /\ Answered(calls[i])'
  BY <1>2 DEF Agreed, Answered, Priced, Order!calculate
<1>5. CallsInv'
  BY <1>2, <1>3, <1>4 DEF PriceInv, CallsInv
<1>6. \A p \in Pages : Quoted(page[p])'
  BY <1>1, <1>2, QuotesStay DEF PriceInv, PagesInv
<1> QED
  BY <1>1, <1>5, <1>6 DEF PriceInv, PagesInv

LEMMA StepEnough ==
    ASSUME PriceAssumptions, PriceInv, NEW i \in Order!Ids, NEW c \in Order!Call, Order!Step(i, c),
           Agreed(c), Answered(c)
    PROVE  PriceInv'
<1>1. Answered(c)'
  BY DEF Answered, Order!Step
<1>2. ShipmentsInv'
  BY SameList, BoughtStays DEF Order!Step, PriceInv, ShipmentsInv
<1> QED
  BY <1>1, <1>2, CallEnough DEF Order!Step

LEMMA CallSteps ==
    ASSUME PriceAssumptions, PriceInv, NEW i \in Order!Ids,
           \/ Order!FindExisting(i) \/ Order!FindNone(i) \/ Order!Refuse(i) \/ Order!ReturnExisting(i) \/ Order!TryAgain(i)
           \/ \E code \in Codes : Order!InsertConflicts(i, code)
    PROVE  PriceInv'
<1> DEFINE c == calls[i]
<1>0. c \in Order!Call /\ Agreed(c) /\ Answered(c)
      /\ DOMAIN c = {"page", "form", "shown", "attempt", "pc", "price", "code"}
  BY CallIs DEF PriceInv
<1>1. CASE Order!FindExisting(i) \/ Order!ReturnExisting(i)
  <2>1. PICK s \in Order!WithKey(c.page) : Order!Step(i, [c EXCEPT !.pc = "done", !.code = s.code])
    BY <1>1 DEF Order!FindExisting, Order!ReturnExisting
  <2> DEFINE d == [c EXCEPT !.pc = "done", !.code = s.code]
  <2>2. s \in shipments /\ s.key = c.page /\ s.code \in Codes
    BY DEF Order!WithKey, PriceInv, ShipmentsInv, Order!Shipment
  <2>3. d \in Order!Call /\ Agreed(d) /\ d.code = s.code /\ d.page = c.page
    BY <1>0, <2>2 DEF Order!Call, Agreed
  <2>4. Answered(d)
    BY <2>2, <2>3 DEF Answered
  <2> HIDE DEF d
  <2> QED
    BY <2>1, <2>3, <2>4, StepEnough DEF d
<1>2. ASSUME NEW pc \in {"price", "failed", "found"}, Order!Step(i, [c EXCEPT !.pc = pc])
      PROVE  PriceInv'
  <2> DEFINE d == [c EXCEPT !.pc = pc]
  <2>1. d \in Order!Call /\ Agreed(d) /\ Answered(d)
    BY <1>0 DEF Order!Call, Agreed, Answered
  <2> HIDE DEF d
  <2> QED
    BY <1>2, <2>1, StepEnough DEF d
<1>3. CASE Order!TryAgain(i)
  <2>1. CASE c.attempt + 1 < MaxAttempts
    <3> DEFINE d == [c EXCEPT !.pc = "begin", !.price = None, !.attempt = @ + 1]
    <3>1. c.attempt + 1 \in 0 .. MaxAttempts - 1
      BY <1>0, <2>1 DEF Order!Call, PriceAssumptions, Order!BookingAssumption
    <3>2. d \in Order!Call /\ Agreed(d) /\ Answered(d)
      BY <1>0, <3>1 DEF Order!Call, Agreed, Answered
    <3>3. Order!Step(i, d)
      BY <1>3, <2>1 DEF Order!TryAgain
    <3> HIDE DEF d
    <3> QED
      BY <3>2, <3>3, StepEnough
  <2>2. CASE ~(c.attempt + 1 < MaxAttempts)
    BY <1>2, <1>3, <2>2 DEF Order!TryAgain
  <2> QED
    BY <2>1, <2>2
<1>4. CASE Order!FindNone(i) \/ Order!Refuse(i) \/ \E code \in Codes : Order!InsertConflicts(i, code)
  BY <1>2, <1>4 DEF Order!FindNone, Order!Refuse, Order!InsertConflicts
<1> QED
  BY <1>1, <1>3, <1>4

LEMMA PriceNowInv ==
    ASSUME PriceAssumptions, PriceInv, NEW i \in Order!Ids, Order!PriceNow(i)
    PROVE  PriceInv'
<1> DEFINE c == calls[i]
           price == Order!calculate(c.form, Order!ActiveConfig)
           d == [c EXCEPT !.pc = "insert", !.price = price]
<1>0. c \in Order!Call /\ Agreed(c) /\ Answered(c)
      /\ DOMAIN c = {"page", "form", "shown", "attempt", "pc", "price", "code"}
  BY CallIs DEF PriceInv
<1>1. PICK n \in Nat : InForce(n)
  BY DEF PriceInv, TableInv
<1>2. Order!ActiveConfig \in configs /\ Order!ActiveConfig \in Order!Config /\ Order!ActiveConfig.version = n
  BY <1>1, ActiveIs DEF Order!PriceNow, PriceInv, TableInv
<1>3. c.form \in Forms /\ c.shown \in Order!Price /\ Priced(c.shown, c.form)
  BY <1>0 DEF Order!Call, Agreed
<1>4. price \in Order!Price /\ Priced(price, c.form) /\ price.version = n
  BY <1>2, <1>3, PriceIs DEF Priced
<1>5. c.shown.version \in 1 .. n
  BY <1>1, <1>3, VersionsBounded
<1>6. Order!Step(i, d)
  BY DEF Order!PriceNow
<1>7. price # None
  BY <1>4 DEF PriceAssumptions, Order!NoneAssumption
<1> HIDE DEF price
<1>8. /\ d \in Order!Call /\ d.pc = "insert" /\ d.price = price /\ d.form = c.form /\ d.shown = c.shown
      /\ d.page = c.page /\ d.code = c.code
  BY <1>0, <1>4 DEF Order!Call
<1>9. price.version >= c.shown.version
  BY <1>4, <1>5
<1>10. Agreed(d) /\ Answered(d)
  BY <1>0, <1>4, <1>7, <1>8, <1>9 DEF Agreed, Answered
<1> HIDE DEF d
<1> QED
  BY <1>6, <1>8, <1>10, StepEnough

LEMMA InsertInv ==
    ASSUME PriceAssumptions, PriceInv, NEW i \in Order!Ids, NEW code \in Codes, Order!Insert(i, code)
    PROVE  PriceInv'
<1>0. /\ calls[i] \in Order!Call /\ Agreed(calls[i])
      /\ DOMAIN calls[i] = {"page", "form", "shown", "attempt", "pc", "price", "code"}
  BY CallIs DEF PriceInv
<1>1. /\ calls[i].price \in Order!Price /\ Priced(calls[i].price, calls[i].form)
      /\ calls[i].price.version >= calls[i].shown.version
  BY <1>0 DEF Order!Insert, Order!Call, Agreed
<1>2. PICK s \in Order!Shipment : s = Order!Saved(i, code) /\ Bought(s) /\ s.key = calls[i].page /\ s.code = code
  <2> DEFINE e == Order!Saved(i, code)
  <2>1. e \in Order!Shipment /\ Bought(e) /\ e.key = calls[i].page /\ e.code = code
    BY <1>0, <1>1 DEF Order!Saved, Order!Shipment, Order!Call, Agreed, Bought
  <2> QED
    BY <2>1
<1>3. shipments' = shipments \cup {s} /\ UNCHANGED <<configs, publishing, page>>
      /\ \A t \in shipments : t.key # s.key /\ t.code # code
  BY <1>2 DEF Order!Insert, Order!WithKey
<1>4. PICK d \in Order!Call : /\ d = [calls[i] EXCEPT !.pc = "done", !.code = code]
                        /\ Agreed(d) /\ d.page = s.key /\ d.code = code
  <2> DEFINE e == [calls[i] EXCEPT !.pc = "done", !.code = code]
  <2>1. e \in Order!Call /\ Agreed(e) /\ e.page = s.key /\ e.code = code
    BY <1>0, <1>2 DEF Order!Call, Agreed
  <2> QED
    BY <2>1
<1>5. calls' = [calls EXCEPT ![i] = d]
  BY <1>0, <1>4 DEF Order!Insert, PriceInv, CallsInv
<1>6. Answered(d)'
  BY <1>2, <1>3, <1>4 DEF Answered
<1>7. ShipmentsInv'
  <2>1. \A t \in shipments' : Bought(t)'
    BY <1>2, <1>3, SameList, BoughtStays DEF PriceInv, ShipmentsInv
  <2>2. \A t, u \in shipments' : t.key = u.key \/ t.code = u.code => t = u
    BY <1>2, <1>3 DEF PriceInv, ShipmentsInv
  <2> QED
    BY <1>2, <1>3, <2>1, <2>2 DEF PriceInv, ShipmentsInv
<1> QED
  BY <1>3, <1>4, <1>5, <1>6, <1>7, CallEnough

LEMMA NextPrice ==
    ASSUME PriceAssumptions, PriceInv, [Order!Next]_Order!vars
    PROVE  PriceInv'
<1>1. CASE Order!Publishing
  BY <1>1, PublishingInv
<1>2. ASSUME NEW p \in Pages, Order!PageStep(p)
      PROVE  PriceInv'
  BY <1>2, QuoteSteps, SubmitInv, CreateArrivesInv DEF Order!PageStep
<1>3. ASSUME NEW i \in Order!Ids, Order!CallStep(i)
      PROVE  PriceInv'
  BY <1>3, CallSteps, PriceNowInv, InsertInv DEF Order!CallStep
<1>4. CASE UNCHANGED Order!vars
  <2>1. UNCHANGED <<configs, publishing, page, calls, shipments>> /\ Listed /\ Order!Ids' = Order!Ids
    BY <1>4, SameList DEF Order!vars, Order!Ids
  <2>2. TableInv' /\ DraftsInv' /\ CallsInv'
    BY <2>1, TableStays, CallsStay DEF PriceInv, DraftsInv
  <2>3. ShipmentsInv'
    BY <2>1, BoughtStays DEF PriceInv, ShipmentsInv
  <2>4. \A p \in Pages : Quoted(page[p])'
    BY <2>1, QuotesStay DEF PriceInv, PagesInv
  <2> QED
    BY <2>1, <2>2, <2>3, <2>4 DEF PriceInv, PagesInv
<1> QED
  BY <1>1, <1>2, <1>3, <1>4 DEF Order!Next

LEMMA InitPrice ==
    ASSUME PriceAssumptions, Order!Init
    PROVE  PriceInv
<1>1. TableInv
  <2>1. CASE configs = {}
    <3>1. InForce(0)
      BY <2>1 DEF InForce, Numbered
    <3> QED
      BY <2>1, <3>1 DEF TableInv
  <2>2. CASE \E l \in Lists : configs = {[version |-> 1, rates |-> l, active |-> TRUE]}
    <3>1. PICK l \in Lists : configs = {[version |-> 1, rates |-> l, active |-> TRUE]}
      BY <2>2
    <3>2. InForce(1)
      BY <3>1 DEF InForce, Numbered
    <3>3. configs \subseteq Order!Config
      BY <3>1 DEF Order!Config, Order!Versions, PriceAssumptions, Order!BookingAssumption
    <3> QED
      BY <3>2, <3>3 DEF TableInv
  <2> QED
    BY <2>1, <2>2 DEF Order!Init, Order!InitConfigs
<1>2. DraftsInv
  BY DEF Order!Init, DraftsInv
<1>3. PagesInv
  BY DEF Order!Init, PagesInv, Order!Page, Quoted
<1>4. CallsInv
  <2>1. Order!Ids = {} /\ Order!Ids = 1 .. 0 /\ 0 \in 0 .. MaxCalls
    BY DEF Order!Init, Order!Ids, PriceAssumptions, Order!BookingAssumption
  <2> QED
    BY <2>1 DEF Order!Init, CallsInv
<1>5. ShipmentsInv
  BY DEF Order!Init, ShipmentsInv
<1> QED
  BY <1>1, <1>2, <1>3, <1>4, <1>5 DEF PriceInv

-----------------------------------------------------------------------------
(* What the invariant says *)

LEMMA InForceIs ==
    ASSUME TableInv
    PROVE  Order!OneListInForce
<1>1. PICK n \in Nat : InForce(n)
  BY DEF TableInv
<1>2. Cardinality(configs) = n /\ Order!LatestVersion(configs) = n
  BY <1>1, NumberedSize, LatestIs DEF InForce
<1> QED
  BY <1>1, <1>2, SameCount DEF Order!OneListInForce, InForce, Numbered

LEMMA TypeIs ==
    ASSUME PriceInv
    PROVE  Order!TypeOK
<1>1. \A a \in Admins : publishing[a] # None =>
         publishing[a].rates \in Lists /\ publishing[a].seen \subseteq Order!Config
  BY DEF PriceInv, DraftsInv, Order!Draft
<1>2. Order!Ids = 1 .. Cardinality(Order!Ids)
  BY FS_Interval DEF PriceInv, CallsInv
<1> QED
  BY <1>1, <1>2, SameCount DEF Order!TypeOK, PriceInv, TableInv, PagesInv, CallsInv, ShipmentsInv

LEMMA CoversIs ==
    ASSUME PriceAssumptions, PriceInv
    PROVE  Order!FeeCoversParcel
<1> SUFFICES ASSUME NEW s \in shipments
             PROVE  \E c \in configs :
      /\ c.version = s.price.version
      /\ \E units \in 0 .. s.form.weight :
           /\ s.price.weightFee = units * c.rates.perUnit
           /\ units * GramsPerUnit >= s.form.weight - c.rates.included
           /\ units > 0 => (units - 1) * GramsPerUnit < s.form.weight - c.rates.included
      /\ s.price.codFee * PointsPerOne >= s.form.cod * c.rates.points
      /\ s.price.codFee > 0 => (s.price.codFee - 1) * PointsPerOne < s.form.cod * c.rates.points
      /\ s.price.total = c.rates.base + s.price.weightFee + s.price.codFee
  BY DEF Order!FeeCoversParcel
<1>1. s.form \in Forms
  BY DEF PriceInv, ShipmentsInv, Order!Shipment
<1>2. PICK c \in configs : s.price = Order!calculate(s.form, c)
  BY DEF PriceInv, ShipmentsInv, Bought, Priced
<1>3. c \in Order!Config
  BY DEF PriceInv, TableInv
<1> QED
  BY <1>1, <1>2, <1>3, FeeCovers

LEMMA ConfirmedIs ==
    ASSUME PriceInv
    PROVE  Order!PricedAsConfirmed /\ Order!OneShipmentPerPage
<1>1. \A s \in shipments : /\ s.price.version >= s.shown.version
                           /\ s.price.version = s.shown.version => s.price = s.shown
  BY OnePrice DEF PriceInv, ShipmentsInv, Bought
<1>2. Order!OneShipmentPerPage
  BY DEF Order!OneShipmentPerPage, PriceInv, ShipmentsInv, CallsInv, Answered
<1> QED
  BY <1>1, <1>2 DEF Order!PricedAsConfirmed

(* The invariant holds. *)
LEMMA PriceHolds ==
    ASSUME PriceAssumptions
    PROVE  Order!Spec => []PriceInv
<1>1. Order!Init => PriceInv
  BY InitPrice
<1>2. PriceInv /\ [Order!Next]_Order!vars => PriceInv'
  BY NextPrice
<1> QED
  BY <1>1, <1>2, PTL DEF Order!Spec

(* However price lists are published against each other, their versions are *)
(* numbered without a gap and the newest is in force, alone; any number of  *)
(* pages confirm, lose the answer and confirm again while earlier           *)
(* confirmations still run, and each gets at most one shipment, at the      *)
(* price its customer was shown or that of a newer list; and for every      *)
(* weight, amount of cash and list the fee pays for all the weight and less *)
(* than one unit too many, and for the share of the cash rounded up to the  *)
(* next dong (PricingService, create).                                      *)
THEOREM BookingHolds ==
    ASSUME Order!BookingAssumption, Order!NoneAssumption
    PROVE  Order!Spec => []Order!BookedAsConfirmed
<1>1. PriceAssumptions
  BY DEF PriceAssumptions
<1>2. Order!Spec => []PriceInv
  BY <1>1, PriceHolds
<1>3. PriceInv => Order!BookedAsConfirmed
  BY <1>1, TypeIs, InForceIs, ConfirmedIs, CoversIs DEF Order!BookedAsConfirmed, PriceInv
<1> QED
  BY <1>2, <1>3, PTL
=============================================================================
