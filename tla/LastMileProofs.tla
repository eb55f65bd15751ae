--------------------------- MODULE LastMileProofs ---------------------------
(***************************************************************************)
(* Proofs about LastMile, for any number of parcels, drivers, assignments, *)
(* trips and concurrent requests.                                          *)
(*                                                                         *)
(* The inductive invariant says, besides the properties themselves, what a *)
(* request in flight knows: the conditions its reads have checked          *)
(* (Decided) and that what it read is current while the version it read is *)
(* (SnapshotFresh).  The key lemma is that every step is disciplined: it   *)
(* changes no row without the version that the readers of the row compare. *)
(* Freshness of the requests a step does not touch follows from that alone.*)
(***************************************************************************)
EXTENDS LastMile, FiniteSetTheorems, TLAPS

(* Rows that exist refer to rows that exist. *)
RowsFormed ==
    /\ \A a \in Assignments : asg[a].status = "NONE" => asg[a].shipment = None
    /\ \A a \in Assignments : asg[a].status # "NONE" =>
         /\ asg[a].shipment \in Shipments
         /\ asg[a].driver \in Drivers
         /\ asg[a].type # "NONE"
    /\ \A t \in Trips : trip[t].status # "NONE" => trip[t].driver \in Drivers

(* The arguments of a request, and what its reads have established. *)
DecidedAssign(q) ==
    q.cmd \in {"assign", "reassign", "assignDelivery"} =>
      /\ q.shipment \in Shipments /\ q.key \in Assignments /\ q.driver \in Drivers
      /\ q.ship \in ShipmentRow /\ q.status = "NONE" /\ q.pc # "idle"
      /\ q.cmd = "assign" => q.ship.status = "AWAITING_PICKUP_ASSIGNMENT"
      /\ q.cmd = "reassign" => q.ship.status \in {"PICKUP_ASSIGNED", "PICKUP_IN_PROGRESS"}
      /\ q.cmd = "assignDelivery" => q.ship.status = "AWAITING_DELIVERY_ASSIGNMENT"
      /\ q.pc = "reading" => q.row = None /\ q.previous = None
      /\ q.pc = "read" =>
           /\ q.row \in DriverRow
           /\ Eligible(q.row, IF q.cmd = "assignDelivery" THEN "DELIVERY" ELSE "PICKUP")
           /\ q.cmd = "reassign" => q.previous \in Assignments /\ q.previousRow \in DriverRow
      /\ q.cmd # "reassign" => q.previous = None

DecidedTask(q) ==
    q.cmd \in {"accept", "reject", "pickup", "start", "complete", "fail"} =>
      /\ q.shipment \in Shipments /\ q.key \in Assignments /\ q.driver \in Drivers
      /\ q.ship \in ShipmentRow /\ q.row \in DriverRow /\ q.previous = None
      /\ q.status \in Active
      /\ q.cmd = "accept" => q.ship.status = "PICKUP_ASSIGNED"
      /\ q.cmd = "reject" => q.ship.status \in {"PICKUP_ASSIGNED", "PICKUP_IN_PROGRESS"}
      /\ q.cmd = "pickup" => q.ship.status = "PICKUP_IN_PROGRESS"
      /\ q.cmd = "start" => q.status = "PENDING" /\ q.ship.status = "DELIVERY_ASSIGNED"
      /\ q.cmd \in {"complete", "fail"} => /\ q.status = "ACCEPTED"
                                           /\ q.ship.status = "OUT_FOR_DELIVERY"

DecidedReturn(q) ==
    q.cmd = "startReturn" =>
      /\ q.shipment \in Shipments /\ q.ship \in ShipmentRow
      /\ q.row = None /\ q.status = "NONE" /\ q.previous = None
      /\ q.ship.status = "RETURN_REQUESTED"

DecidedProfile(q) ==
    q.cmd \in {"setOnline", "setOffline", "updateProfile", "restoreProfile"} =>
      /\ q.driver \in Drivers /\ q.row \in DriverRow
      /\ q.ship = None /\ q.status = "NONE" /\ q.previous = None
      /\ q.cmd = "updateProfile" => /\ q.warehouse \in Warehouses
                                    /\ q.pc = "read" /\ q.busy => q.warehouse = q.row.warehouse
      /\ q.cmd = "setOffline" /\ q.pc = "read" => ~q.busy

Decided(q) ==
    /\ q.cmd = "idle" => q = Idle
    /\ DecidedAssign(q) /\ DecidedTask(q) /\ DecidedReturn(q) /\ DecidedProfile(q)

RequestsDecided == \A r \in Requests : Decided(req[r])

(* An active assignment is a driver's only one. *)
OneTask == \A a, b \in Assignments :
             /\ asg[a].status \in Active /\ asg[b].status \in Active
             /\ asg[a].driver = asg[b].driver
             => a = b

Formed == TypeOK /\ RowsFormed /\ RequestsDecided

WorkInv == /\ AssignmentMatchesShipment /\ OneTask /\ DriverStatusTruthful
           /\ TaskExclusion /\ WorkerStaysEligible

IInv == Formed /\ SnapshotFresh /\ WorkInv

-----------------------------------------------------------------------------
(* Types *)

(* A request slot that is free is a request that has read nothing. *)
LEMMA IdleType == Idle \in Request /\ Decided(Idle)
BY DEF Idle, Request, Commands, Decided, DecidedAssign, DecidedTask, DecidedReturn, DecidedProfile

(* A versioned write of a shipment changes its status and adds one to its   *)
(* version.                                                                 *)
LEMMA WrittenShipment ==
    ASSUME NEW row \in ShipmentRow, NEW status \in ShipmentStatus
    PROVE  /\ Written(row, status) \in ShipmentRow
           /\ Written(row, status).status = status
           /\ Written(row, status).version = row.version + 1
           /\ Written(row, status).origin = row.origin
           /\ Written(row, status).dest = row.dest
<1>1. row.version + 1 \in Nat
  BY DEF ShipmentRow
<1> QED
  BY <1>1 DEF Written, ShipmentRow

(* A versioned write of a profile changes its status and adds one to its    *)
(* version.                                                                 *)
LEMMA WrittenDriver ==
    ASSUME NEW row \in DriverRow, NEW status \in DriverStatus
    PROVE  /\ Written(row, status) \in DriverRow
           /\ Written(row, status).status = status
           /\ Written(row, status).version = row.version + 1
           /\ Written(row, status).caps = row.caps
           /\ Written(row, status).warehouse = row.warehouse
           /\ Written(row, status).user = row.user
<1>1. row.version + 1 \in Nat
  BY DEF DriverRow
<1> QED
  BY <1>1 DEF Written, DriverRow

(* Writing a shipment status gives well-formed shipment rows. *)
LEMMA SetShipmentType ==
    ASSUME NEW s \in Shipments, NEW status \in ShipmentStatus, ship \in [Shipments -> ShipmentRow]
    PROVE  SetShipment(s, status) \in [Shipments -> ShipmentRow]
BY WrittenShipment DEF SetShipment

(* Writing a driver status gives well-formed driver rows. *)
LEMMA SetDriverType ==
    ASSUME NEW d \in Drivers, NEW status \in DriverStatus, driver \in [Drivers -> DriverRow]
    PROVE  SetDriver(d, status) \in [Drivers -> DriverRow]
BY WrittenDriver DEF SetDriver

(* Writing an assignment status gives well-formed assignment rows. *)
LEMMA SetAssignmentType ==
    ASSUME NEW a \in Assignments, NEW status \in Active \cup Closed, asg \in [Assignments -> AssignmentRow]
    PROVE  SetAssignment(a, status) \in [Assignments -> AssignmentRow]
BY DEF SetAssignment, AssignmentRow

(* The fresh database is well formed. *)
LEMMA InitFormed == Init => Formed
<1> SUFFICES ASSUME Init PROVE Formed
  OBVIOUS
<1>1. TypeOK
  <2>1. ship \in [Shipments -> ShipmentRow]
    BY DEF Init, ShipmentRow, ShipmentStatus
  <2>2. /\ asg \in [Assignments -> AssignmentRow]
        /\ attempt \in [Assignments -> AttemptRow]
        /\ trip \in [Trips -> TripRow]
    BY DEF Init, AssignmentRow, NoAssignment, AttemptRow, NoAttempt, TripRow, NoTrip
  <2>3. driver \in [Drivers -> DriverRow]
    <3> DEFINE New == [status : {"OFFLINE"}, version : {0}, caps : CapabilitySets,
                       warehouse : Warehouses, user : {"ACTIVE"}]
    <3>1. CapabilitySets \subseteq SUBSET Capability
      BY CapabilityAssumption DEF Capability
    <3>2. New \subseteq DriverRow
      BY <3>1 DEF DriverRow, DriverStatus
    <3>3. driver \in [Drivers -> New]
      BY DEF Init
    <3> HIDE DEF New
    <3> QED
      BY <3>2, <3>3
  <2>4. req \in [Requests -> Request]
    BY IdleType DEF Init
  <2> QED
    BY <2>1, <2>2, <2>3, <2>4 DEF Init, TypeOK
<1>2. RowsFormed
  BY DEF Init, RowsFormed, NoAssignment, NoTrip
<1>3. RequestsDecided
  BY IdleType DEF Init, RequestsDecided
<1> QED
  BY <1>1, <1>2, <1>3 DEF Formed

-----------------------------------------------------------------------------
(* The shapes of a step.  Forty commands change the rows in eight ways; the *)
(* invariants are proved once for each way.                                 *)

Fresh(q) == FreshShipment(q) /\ FreshDriver(q) /\ FreshAssignment(q) /\ FreshPrevious(q)

OthersTyped == /\ attempt' \in [Assignments -> AttemptRow]
               /\ proof' \subseteq Assignments
               /\ cod' \in [Shipments -> Drivers \cup {None}]

(* What a step does to attempts, proofs and cash: nothing, or what start,    *)
(* pickup, complete and fail record along with the task they write.          *)
RecordsKept == UNCHANGED <<attempt, proof, cod>>

RecordsStart(a) ==
    IF asg[a].type = "DELIVERY"
    THEN /\ attempt' = [attempt EXCEPT ![a] =
                [number |-> Cardinality(AttemptsOf(asg[a].shipment)) + 1, status |-> "OUT_FOR_DELIVERY"]]
         /\ UNCHANGED <<proof, cod>>
    ELSE RecordsKept

RecordsEnd(a, outcome, status) ==
    \/ /\ asg[a].type = "PICKUP" /\ status # "DELIVERED"
       /\ UNCHANGED <<attempt, cod>> /\ proof' \in {proof, proof \cup {a}}
    \/ /\ asg[a].type = "DELIVERY" /\ asg[a].status = "ACCEPTED"
       /\ outcome = "COMPLETED" /\ status = "DELIVERED"
       /\ asg[a].shipment \in CodShipments => cod[asg[a].shipment] = None
       /\ attempt' = [attempt EXCEPT ![a].status = "DELIVERED"]
       /\ proof' = proof \cup {a}
       /\ cod' = IF asg[a].shipment \in CodShipments
                 THEN [cod EXCEPT ![asg[a].shipment] = asg[a].driver] ELSE cod
    \/ /\ asg[a].type = "DELIVERY" /\ asg[a].status = "ACCEPTED"
       /\ outcome = "COMPLETED" /\ status # "DELIVERED"
       /\ attempt' = [attempt EXCEPT ![a].status = "FAILED"]
       /\ UNCHANGED <<proof, cod>>

Ends == UNCHANGED req \/ \E r \in Requests : End(r)

(* A query of a request: its result is current when it is read. *)
Reads(r, q) ==
    /\ r \in Requests /\ q \in Request
    /\ Decided(q) /\ Fresh(q)
    /\ req' = [req EXCEPT ![r] = q]
    /\ RowsUnchanged

(* A parcel that no driver holds goes to another such status. *)
MovesParcel(s, row) ==
    /\ s \in Shipments /\ row \in ShipmentRow
    /\ ship[s].status \notin InHands /\ row.status \notin InHands
    /\ ship[s].status # "DELIVERED" /\ row.status # "DELIVERED"
    /\ row.version = ship[s].version + 1
    /\ ship' = [ship EXCEPT ![s] = row]
    /\ UNCHANGED <<asg, driver, trip>> /\ OthersTyped /\ RecordsKept /\ Ends

(* A free parcel is given to a free, eligible driver. *)
AssignsTask(a, s, d, type, status) ==
    /\ a \in Assignments /\ s \in Shipments /\ d \in Drivers
    /\ status \in ShipmentStatus /\ <<type, "PENDING", status>> \in Leg
    /\ asg[a].status = "NONE" /\ ActiveOfDriver(d) = {} /\ ~ExecutingTrip(d)
    /\ ship[s].status \notin InHands /\ ship[s].status # "DELIVERED"
    /\ driver[d].user = "ACTIVE" /\ type \in driver[d].caps
    /\ asg' = [asg EXCEPT ![a] = NewAssignment(s, d, type)]
    /\ driver' = SetDriver(d, "BUSY")
    /\ ship' = SetShipment(s, status)
    /\ UNCHANGED trip /\ OthersTyped /\ RecordsKept /\ Ends

(* An active pickup p is cancelled and given to another free driver. *)
HandsOver(p, a, d, status) ==
    /\ p \in Assignments /\ a \in Assignments /\ d \in Drivers
    /\ asg[p].status \in Active /\ asg[p].type = "PICKUP" /\ asg[p].driver # d
    /\ status \in {"AVAILABLE", "OFFLINE"}
    /\ asg[a].status = "NONE" /\ ActiveOfDriver(d) = {} /\ ~ExecutingTrip(d)
    /\ driver[d].user = "ACTIVE" /\ "PICKUP" \in driver[d].caps
    /\ asg' = [asg EXCEPT ![p].status = "CANCELLED",
                          ![a] = NewAssignment(asg[p].shipment, d, "PICKUP")]
    /\ driver' = [driver EXCEPT ![asg[p].driver] = Written(driver[asg[p].driver], status),
                                ![d] = Written(driver[d], "BUSY")]
    /\ ship' = SetShipment(asg[p].shipment, "PICKUP_ASSIGNED")
    /\ UNCHANGED trip /\ OthersTyped /\ RecordsKept /\ Ends

(* A pending task is begun. *)
Advances(a, status) ==
    /\ a \in Assignments /\ status \in ShipmentStatus
    /\ asg[a].status = "PENDING" /\ <<asg[a].type, "ACCEPTED", status>> \in Leg
    /\ asg' = SetAssignment(a, "ACCEPTED")
    /\ ship' = SetShipment(asg[a].shipment, status)
    /\ UNCHANGED <<driver, trip>> /\ OthersTyped /\ RecordsStart(a) /\ Ends

(* An active task ends, the driver is released and the parcel is free. *)
Closes(a, outcome, row, status) ==
    /\ a \in Assignments /\ outcome \in Closed /\ row \in ShipmentRow
    /\ asg[a].status \in Active
    /\ row.status \notin InHands /\ row.version = ship[asg[a].shipment].version + 1
    /\ status \in {"AVAILABLE", "OFFLINE", "SUSPENDED"}
    /\ asg' = SetAssignment(a, outcome)
    /\ ship' = [ship EXCEPT ![asg[a].shipment] = row]
    /\ driver' = SetDriver(asg[a].driver, status)
    /\ UNCHANGED trip /\ OthersTyped /\ RecordsEnd(a, outcome, row.status) /\ Ends

(* A profile changes; what it says stays true of the work of the driver. *)
ChangesDriver(d, row) ==
    /\ d \in Drivers /\ row \in DriverRow
    /\ \/ row.version = driver[d].version + 1
       \/ row = [driver[d] EXCEPT !.user = "ACTIVE"]
    /\ row.status = "BUSY" => ActiveOfDriver(d) # {}
    /\ row.status \in {"AVAILABLE", "SUSPENDED"} => ActiveOfDriver(d) = {}
    /\ \A a \in ActiveOfDriver(d) : /\ asg[a].type \in row.caps
                                    /\ row.user = "ACTIVE"
                                    /\ row.warehouse = driver[d].warehouse
    /\ ExecutingTrip(d) => LineHaulEligible(row)
    /\ driver' = [driver EXCEPT ![d] = row]
    /\ UNCHANGED <<ship, asg, attempt, proof, cod, trip>> /\ Ends

(* A trip changes; it is executed only by a driver who is free for it. *)
ChangesTrip(t, row) ==
    /\ t \in Trips /\ row \in TripRow /\ row.driver \in Drivers
    /\ row.status \in Executing => /\ LineHaulEligible(driver[row.driver])
                                   /\ ActiveOfDriver(row.driver) = {}
    /\ trip' = [trip EXCEPT ![t] = row]
    /\ UNCHANGED <<ship, asg, attempt, proof, cod, driver, req>>

Shaped ==
    \/ \E r \in Requests, q \in Request : Reads(r, q)
    \/ \E s \in Shipments, row \in ShipmentRow : MovesParcel(s, row)
    \/ \E a \in Assignments, s \in Shipments, d \in Drivers, type \in {"PICKUP", "DELIVERY"},
          status \in ShipmentStatus : AssignsTask(a, s, d, type, status)
    \/ \E p, a \in Assignments, d \in Drivers, status \in DriverStatus : HandsOver(p, a, d, status)
    \/ \E a \in Assignments, status \in ShipmentStatus : Advances(a, status)
    \/ \E a \in Assignments, outcome \in Closed, row \in ShipmentRow, status \in DriverStatus :
          Closes(a, outcome, row, status)
    \/ \E d \in Drivers, row \in DriverRow : ChangesDriver(d, row)
    \/ \E t \in Trips, row \in TripRow : ChangesTrip(t, row)

-----------------------------------------------------------------------------
(* Every shape keeps the rows and the requests well formed. *)

(* Ending a request, or leaving all alone, keeps the requests well formed. *)
LEMMA EndsFormed ==
    ASSUME Formed, Ends
    PROVE  req' \in [Requests -> Request] /\ RequestsDecided'
BY IdleType DEF Formed, TypeOK, Ends, End, RequestsDecided

(* A read keeps rows and requests well formed. *)
LEMMA ReadsFormed ==
    ASSUME Formed, NEW r \in Requests, NEW q \in Request, Reads(r, q)
    PROVE  Formed'
<1>1. req' \in [Requests -> Request] /\ RequestsDecided'
  BY DEF Formed, TypeOK, Reads, RequestsDecided
<1> QED
  BY <1>1 DEF Formed, TypeOK, RowsFormed, Reads, RowsUnchanged

(* Moving a parcel that nobody holds keeps rows well formed. *)
LEMMA MovesParcelFormed ==
    ASSUME Formed, NEW s \in Shipments, NEW row \in ShipmentRow, MovesParcel(s, row)
    PROVE  Formed'
<1>1. ship' \in [Shipments -> ShipmentRow]
  BY DEF Formed, TypeOK, MovesParcel
<1>2. RowsFormed'
  BY DEF Formed, RowsFormed, MovesParcel
<1> QED
  BY <1>1, <1>2, EndsFormed DEF Formed, TypeOK, MovesParcel, OthersTyped

(* The parcel is in a driver's hands during every leg. *)
LEMMA LegStatus ==
    \A leg \in Leg : leg[1] \in {"PICKUP", "DELIVERY"} /\ leg[2] \in Active /\ leg[3] \in InHands
BY DEF Leg, Active, InHands

(* A created assignment is a well-formed row. *)
LEMMA NewAssignmentType ==
    ASSUME NEW s \in Shipments, NEW d \in Drivers, NEW type \in {"PICKUP", "DELIVERY"}
    PROVE  /\ NewAssignment(s, d, type) \in AssignmentRow
           /\ NewAssignment(s, d, type).shipment = s
           /\ NewAssignment(s, d, type).driver = d
           /\ NewAssignment(s, d, type).type = type
           /\ NewAssignment(s, d, type).status = "PENDING"
BY DEF NewAssignment, AssignmentRow, Active

(* Assigning a pickup or a delivery keeps rows well formed. *)
LEMMA AssignsTaskFormed ==
    ASSUME Formed, NEW a \in Assignments, NEW s \in Shipments, NEW d \in Drivers,
           NEW type \in {"PICKUP", "DELIVERY"}, NEW status \in ShipmentStatus,
           AssignsTask(a, s, d, type, status)
    PROVE  Formed'
<1>1. ship' \in [Shipments -> ShipmentRow] /\ driver' \in [Drivers -> DriverRow]
  BY SetShipmentType, SetDriverType DEF Formed, TypeOK, AssignsTask, DriverStatus
<1>2. asg' \in [Assignments -> AssignmentRow]
  BY NewAssignmentType DEF Formed, TypeOK, AssignsTask
<1>3. RowsFormed'
  BY NewAssignmentType DEF Formed, TypeOK, RowsFormed, AssignsTask
<1> QED
  BY <1>1, <1>2, <1>3, EndsFormed DEF Formed, TypeOK, AssignsTask, OthersTyped

(* Reassigning a pickup keeps rows well formed. *)
LEMMA HandsOverFormed ==
    ASSUME Formed, NEW p \in Assignments, NEW a \in Assignments, NEW d \in Drivers,
           NEW status \in DriverStatus, HandsOver(p, a, d, status)
    PROVE  Formed'
<1>0. asg[p].shipment \in Shipments /\ asg[p].driver \in Drivers
  BY DEF Formed, RowsFormed, HandsOver, Active
<1>1. ship' \in [Shipments -> ShipmentRow]
  BY <1>0, SetShipmentType DEF Formed, TypeOK, HandsOver, ShipmentStatus
<1>2. driver' \in [Drivers -> DriverRow]
  BY <1>0, WrittenDriver DEF Formed, TypeOK, HandsOver, DriverStatus
<1>3. asg' \in [Assignments -> AssignmentRow]
  <2>1. asg' = [SetAssignment(p, "CANCELLED")
                  EXCEPT ![a] = NewAssignment(asg[p].shipment, d, "PICKUP")]
    BY DEF HandsOver, SetAssignment
  <2>2. SetAssignment(p, "CANCELLED") \in [Assignments -> AssignmentRow]
    BY SetAssignmentType DEF Formed, TypeOK, Closed
  <2> QED
    BY <1>0, <2>1, <2>2, NewAssignmentType
<1>4. RowsFormed'
  <2>1. asg'[a] = NewAssignment(asg[p].shipment, d, "PICKUP")
    BY DEF Formed, TypeOK, HandsOver
  <2>2. a # p => asg'[p] = [asg[p] EXCEPT !.status = "CANCELLED"]
    BY DEF Formed, TypeOK, HandsOver
  <2>3. \A b \in Assignments : b \notin {a, p} => asg'[b] = asg[b]
    BY DEF Formed, TypeOK, HandsOver
  <2>4. a # p
    BY DEF HandsOver, Active
  <2>5. /\ asg'[p].shipment = asg[p].shipment /\ asg'[p].driver = asg[p].driver
        /\ asg'[p].type = "PICKUP" /\ asg'[p].status = "CANCELLED"
    BY <2>2, <2>4 DEF HandsOver, Formed, TypeOK, AssignmentRow
  <2>6. UNCHANGED trip
    BY DEF HandsOver
  <2> QED
    BY <1>0, <2>1, <2>3, <2>5, <2>6, NewAssignmentType DEF Formed, RowsFormed
<1> QED
  BY <1>1, <1>2, <1>3, <1>4, EndsFormed DEF Formed, TypeOK, HandsOver, OthersTyped

(* Accepting or starting a task keeps rows well formed. *)
LEMMA AdvancesFormed ==
    ASSUME Formed, NEW a \in Assignments, NEW status \in ShipmentStatus, Advances(a, status)
    PROVE  Formed'
<1>0. asg[a].shipment \in Shipments
  BY DEF Formed, RowsFormed, Advances
<1>1. ship' \in [Shipments -> ShipmentRow]
  BY <1>0, SetShipmentType DEF Formed, TypeOK, Advances
<1>2. asg' \in [Assignments -> AssignmentRow]
  BY SetAssignmentType DEF Formed, TypeOK, Advances, Active
<1>3. RowsFormed'
  BY DEF Formed, TypeOK, RowsFormed, Advances, SetAssignment, AssignmentRow
<1> QED
  BY <1>1, <1>2, <1>3, EndsFormed DEF Formed, TypeOK, Advances, OthersTyped

(* Rejecting, completing or failing a task keeps rows well formed. *)
LEMMA ClosesFormed ==
    ASSUME Formed, NEW a \in Assignments, NEW outcome \in Closed, NEW row \in ShipmentRow,
           NEW status \in DriverStatus, Closes(a, outcome, row, status)
    PROVE  Formed'
<1>0. asg[a].shipment \in Shipments /\ asg[a].driver \in Drivers
  BY DEF Formed, RowsFormed, Closes, Active
<1>1. ship' \in [Shipments -> ShipmentRow] /\ driver' \in [Drivers -> DriverRow]
  BY <1>0, SetDriverType DEF Formed, TypeOK, Closes
<1>2. asg' \in [Assignments -> AssignmentRow]
  BY SetAssignmentType DEF Formed, TypeOK, Closes
<1>3. RowsFormed'
  BY DEF Formed, TypeOK, RowsFormed, Closes, SetAssignment, AssignmentRow, Active, Closed
<1> QED
  BY <1>1, <1>2, <1>3, EndsFormed DEF Formed, TypeOK, Closes, OthersTyped

(* Changing a profile keeps rows well formed. *)
LEMMA ChangesDriverFormed ==
    ASSUME Formed, NEW d \in Drivers, NEW row \in DriverRow, ChangesDriver(d, row)
    PROVE  Formed'
<1>1. driver' \in [Drivers -> DriverRow]
  BY DEF Formed, TypeOK, ChangesDriver
<1>2. RowsFormed'
  BY DEF Formed, RowsFormed, ChangesDriver
<1> QED
  BY <1>1, <1>2, EndsFormed DEF Formed, TypeOK, ChangesDriver

(* Changing a trip keeps rows well formed. *)
LEMMA ChangesTripFormed ==
    ASSUME Formed, NEW t \in Trips, NEW row \in TripRow, ChangesTrip(t, row)
    PROVE  Formed'
<1>1. trip' \in [Trips -> TripRow]
  BY DEF Formed, TypeOK, ChangesTrip
<1>2. RowsFormed'
  BY DEF Formed, TypeOK, RowsFormed, ChangesTrip
<1>3. RequestsDecided'
  BY DEF Formed, RequestsDecided, ChangesTrip
<1> QED
  BY <1>1, <1>2, <1>3 DEF Formed, TypeOK, ChangesTrip

(* So does every step. *)
LEMMA ShapedFormed == Formed /\ Shaped => Formed'
BY ReadsFormed, MovesParcelFormed, AssignsTaskFormed, HandsOverFormed, AdvancesFormed,
   ClosesFormed, ChangesDriverFormed, ChangesTripFormed DEF Shaped

-----------------------------------------------------------------------------
(* Every step is disciplined, so what a request has read stays fresh. *)

(* Moving a parcel takes its version along. *)
LEMMA MovesParcelDisciplined ==
    ASSUME Formed, NEW s \in Shipments, NEW row \in ShipmentRow, MovesParcel(s, row)
    PROVE  DisciplinedStep
BY DEF Formed, TypeOK, MovesParcel, DisciplinedStep

(* Assigning takes the versions of parcel and driver along. *)
LEMMA AssignsTaskDisciplined ==
    ASSUME Formed, NEW a \in Assignments, NEW s \in Shipments, NEW d \in Drivers,
           NEW type \in {"PICKUP", "DELIVERY"}, NEW status \in ShipmentStatus,
           AssignsTask(a, s, d, type, status)
    PROVE  DisciplinedStep
<1>1. \A x \in Shipments : ship'[x] = ship[x] \/ ship'[x].version = ship[x].version + 1
  BY WrittenShipment DEF Formed, TypeOK, AssignsTask, SetShipment
<1>2. \A x \in Drivers : driver'[x] = driver[x] \/ driver'[x].version = driver[x].version + 1
  BY WrittenDriver DEF Formed, TypeOK, AssignsTask, SetDriver, DriverStatus
<1>3. /\ asg'[a] = NewAssignment(s, d, type)
      /\ \A b \in Assignments : b # a => asg'[b] = asg[b]
  BY DEF Formed, TypeOK, AssignsTask
<1>4. ship'[s].version = ship[s].version + 1
  BY WrittenShipment DEF Formed, TypeOK, AssignsTask, SetShipment
<1>5. driver'[d].version = driver[d].version + 1
  BY WrittenDriver DEF Formed, TypeOK, AssignsTask, SetDriver, DriverStatus
<1> QED
  BY <1>1, <1>2, <1>3, <1>4, <1>5, NewAssignmentType DEF DisciplinedStep, AssignsTask

(* Reassigning takes the versions of the parcel and of both drivers along. *)
LEMMA HandsOverDisciplined ==
    ASSUME Formed, NEW p \in Assignments, NEW a \in Assignments, NEW d \in Drivers,
           NEW status \in DriverStatus, HandsOver(p, a, d, status)
    PROVE  DisciplinedStep
<1> DEFINE s == asg[p].shipment
           e == asg[p].driver
<1>0. s \in Shipments /\ e \in Drivers /\ e # d /\ p # a
  BY DEF Formed, RowsFormed, HandsOver, Active
<1>1. /\ ship'[s].version = ship[s].version + 1
      /\ \A x \in Shipments : x # s => ship'[x] = ship[x]
  BY <1>0, WrittenShipment DEF Formed, TypeOK, HandsOver, SetShipment, ShipmentStatus
<1>2. /\ driver'[e].version = driver[e].version + 1
      /\ driver'[d].version = driver[d].version + 1
      /\ \A x \in Drivers : x \notin {d, e} => driver'[x] = driver[x]
  BY <1>0, WrittenDriver DEF Formed, TypeOK, HandsOver, DriverStatus
<1>3. /\ asg'[a] = NewAssignment(s, d, "PICKUP")
      /\ asg'[p] = [asg[p] EXCEPT !.status = "CANCELLED"]
      /\ \A b \in Assignments : b \notin {a, p} => asg'[b] = asg[b]
  BY <1>0 DEF Formed, TypeOK, HandsOver
<1>4. /\ asg'[p].shipment = s /\ asg'[p].driver = e /\ asg'[p].status = "CANCELLED"
  BY <1>3 DEF Formed, TypeOK, AssignmentRow
<1>5. asg[a].status = "NONE"
  BY DEF HandsOver
<1>6. /\ asg'[a].shipment = s /\ asg'[a].driver = d
  BY <1>0, <1>3, NewAssignmentType
<1>7. asg'[p] = [asg[p] EXCEPT !.status = asg'[p].status]
  BY <1>3, <1>4
<1> HIDE DEF s, e
<1>8. ASSUME NEW b \in Assignments, asg'[b] # asg[b]
      PROVE  /\ ship'[asg'[b].shipment].version = ship[asg'[b].shipment].version + 1
             /\ asg[b].status # "NONE" => asg'[b] = [asg[b] EXCEPT !.status = asg'[b].status]
             /\ driver'[asg'[b].driver].version = driver[asg'[b].driver].version + 1
  <2>1. CASE b = p
    BY <2>1, <1>1, <1>2, <1>4, <1>7
  <2>2. CASE b = a
    BY <2>2, <1>1, <1>2, <1>5, <1>6
  <2> QED
    BY <2>1, <2>2, <1>3, <1>8
<1> QED
  BY <1>0, <1>1, <1>2, <1>8 DEF DisciplinedStep

(* Accepting and starting take the version of the parcel along. *)
LEMMA AdvancesDisciplined ==
    ASSUME Formed, NEW a \in Assignments, NEW status \in ShipmentStatus, Advances(a, status)
    PROVE  DisciplinedStep
<1> DEFINE s == asg[a].shipment
<1>0. s \in Shipments
  BY DEF Formed, RowsFormed, Advances
<1>1. /\ ship'[s].version = ship[s].version + 1
      /\ \A x \in Shipments : x # s => ship'[x] = ship[x]
  BY <1>0, WrittenShipment DEF Formed, TypeOK, Advances, SetShipment
<1>2. /\ asg'[a] = [asg[a] EXCEPT !.status = "ACCEPTED"]
      /\ \A b \in Assignments : b # a => asg'[b] = asg[b]
  BY DEF Formed, TypeOK, Advances, SetAssignment
<1>3. /\ asg'[a].shipment = s /\ asg'[a].status = "ACCEPTED"
  BY <1>2 DEF Formed, TypeOK, AssignmentRow
<1> HIDE DEF s
<1> QED
  BY <1>0, <1>1, <1>2, <1>3 DEF DisciplinedStep, Advances, Active

(* Closing a task takes the versions of parcel and driver along. *)
LEMMA ClosesDisciplined ==
    ASSUME Formed, NEW a \in Assignments, NEW outcome \in Closed, NEW row \in ShipmentRow,
           NEW status \in DriverStatus, Closes(a, outcome, row, status)
    PROVE  DisciplinedStep
<1> DEFINE s == asg[a].shipment
           d == asg[a].driver
<1>0. s \in Shipments /\ d \in Drivers
  BY DEF Formed, RowsFormed, Closes, Active
<1>1. /\ ship'[s].version = ship[s].version + 1
      /\ \A x \in Shipments : x # s => ship'[x] = ship[x]
  BY <1>0 DEF Formed, TypeOK, Closes
<1>2. /\ driver'[d].version = driver[d].version + 1
      /\ \A x \in Drivers : x # d => driver'[x] = driver[x]
  BY <1>0, WrittenDriver DEF Formed, TypeOK, Closes, SetDriver
<1>3. /\ asg'[a] = [asg[a] EXCEPT !.status = outcome]
      /\ \A b \in Assignments : b # a => asg'[b] = asg[b]
  BY DEF Formed, TypeOK, Closes, SetAssignment
<1>4. /\ asg'[a].shipment = s /\ asg'[a].driver = d /\ asg'[a].status = outcome
  BY <1>3 DEF Formed, TypeOK, AssignmentRow
<1> HIDE DEF s, d
<1> QED
  BY <1>0, <1>1, <1>2, <1>3, <1>4 DEF DisciplinedStep, Closes

(* Changing a profile takes its version along, restoring the account        *)
(* excepted.                                                                *)
LEMMA ChangesDriverDisciplined ==
    ASSUME Formed, NEW d \in Drivers, NEW row \in DriverRow, ChangesDriver(d, row)
    PROVE  DisciplinedStep
BY DEF Formed, TypeOK, ChangesDriver, DisciplinedStep

(* So every step is disciplined. *)
LEMMA ShapedDisciplined == Formed /\ Shaped => DisciplinedStep
<1>1. ASSUME NEW r \in Requests, NEW q \in Request, Reads(r, q) PROVE DisciplinedStep
  BY <1>1 DEF Reads, RowsUnchanged, DisciplinedStep
<1>2. ASSUME NEW t \in Trips, NEW row \in TripRow, ChangesTrip(t, row) PROVE DisciplinedStep
  BY <1>2 DEF ChangesTrip, DisciplinedStep
<1> QED
  BY <1>1, <1>2, MovesParcelDisciplined, AssignsTaskDisciplined, HandsOverDisciplined,
     AdvancesDisciplined, ClosesDisciplined, ChangesDriverDisciplined DEF Shaped

(* A request that has read a row names the row it read. *)
LEMMA ReadNames ==
    ASSUME NEW q \in Request, Decided(q)
    PROVE  /\ q.ship # None => q.shipment \in Shipments /\ q.ship \in ShipmentRow
           /\ q.row # None => q.driver \in Drivers /\ q.row \in DriverRow
           /\ q.status # "NONE" => /\ q.key \in Assignments /\ q.ship # None
                                   /\ q.status \in Active
           /\ q.previous # None => /\ q.previous \in Assignments /\ q.ship # None
                                   /\ q.previousRow \in DriverRow
<1>1. CASE q.cmd = "idle"
  BY <1>1, NoneAssumption DEF Decided, Idle
<1>2. CASE q.cmd \in {"assign", "reassign", "assignDelivery"}
  BY <1>2, NoneAssumption DEF Decided, DecidedAssign, Request
<1>3. CASE q.cmd \in {"accept", "reject", "pickup", "start", "complete", "fail"}
  BY <1>3, NoneAssumption DEF Decided, DecidedTask, Request
<1>4. CASE q.cmd = "startReturn"
  BY <1>4, NoneAssumption DEF Decided, DecidedReturn, Request
<1>5. CASE q.cmd \in {"setOnline", "setOffline", "updateProfile", "restoreProfile"}
  BY <1>5, NoneAssumption DEF Decided, DecidedProfile, Request
<1> QED
  BY <1>1, <1>2, <1>3, <1>4, <1>5 DEF Request, Commands

(* Under a disciplined step the workload of a driver changes only with the  *)
(* version of the profile.                                                  *)
LEMMA WorkloadVersioned ==
    ASSUME Formed, Formed', DisciplinedStep, NEW d \in Drivers,
           driver'[d].version = driver[d].version
    PROVE  ActiveOfDriver(d)' = ActiveOfDriver(d)
<1>0. driver[d].version \in Nat
  BY DEF Formed, TypeOK, DriverRow
<1> SUFFICES ASSUME NEW a \in Assignments
             PROVE  (asg'[a].driver = d /\ asg'[a].status \in Active)
                      <=> (asg[a].driver = d /\ asg[a].status \in Active)
  BY DEF ActiveOfDriver
<1>1. CASE asg'[a] = asg[a]
  BY <1>1
<1>2. CASE asg'[a] # asg[a] /\ asg[a].status = "NONE"
  <2>1. driver'[asg'[a].driver].version = driver[asg'[a].driver].version + 1
    BY <1>2 DEF DisciplinedStep, Active
  <2>2. asg'[a].driver # d
    BY <2>1, <1>0
  <2> QED
    BY <2>2, <1>2 DEF Active
<1>3. CASE asg'[a] # asg[a] /\ asg[a].status # "NONE"
  <2>1. asg'[a].driver = asg[a].driver
    BY <1>3 DEF DisciplinedStep, Formed, TypeOK, AssignmentRow
  <2>2. ~(asg[a].status \in Active /\ asg'[a].status \in Active) =>
          driver'[asg'[a].driver].version = driver[asg'[a].driver].version + 1
    BY <1>3 DEF DisciplinedStep
  <2> QED
    BY <2>1, <2>2, <1>0
<1> QED
  BY <1>1, <1>2, <1>3

(* A disciplined step keeps a shipment that was read fresh. *)
LEMMA FreshShipmentKept ==
    ASSUME Formed, Formed', DisciplinedStep, NEW q \in Request, Decided(q), FreshShipment(q)
    PROVE  FreshShipment(q)'
<1> SUFFICES ASSUME q.ship # None
             PROVE  /\ q.ship.version <= ship'[q.shipment].version
                    /\ q.ship.version = ship'[q.shipment].version => q.ship = ship'[q.shipment]
  BY DEF FreshShipment
<1>1. q.shipment \in Shipments /\ q.ship \in ShipmentRow
  BY ReadNames
<1>2. q.ship.version \in Nat /\ ship[q.shipment].version \in Nat
  BY <1>1 DEF Formed, TypeOK, ShipmentRow
<1>3. \/ ship'[q.shipment] = ship[q.shipment]
      \/ ship'[q.shipment].version = ship[q.shipment].version + 1
  BY <1>1 DEF DisciplinedStep
<1> QED
  BY <1>2, <1>3 DEF FreshShipment

(* The version of a profile never decreases. *)
LEMMA DriverVersionGrows ==
    ASSUME Formed, DisciplinedStep, NEW d \in Drivers
    PROVE  /\ driver[d].version \in Nat
           /\ \/ /\ driver'[d].version = driver[d].version
                 /\ driver'[d].status = driver[d].status
              \/ driver'[d].version = driver[d].version + 1
<1>1. driver[d] \in DriverRow /\ driver[d].version \in Nat
  BY DEF Formed, TypeOK, DriverRow
<1>2. ASSUME driver'[d] = [driver[d] EXCEPT !.user = "ACTIVE"]
      PROVE  driver'[d].version = driver[d].version /\ driver'[d].status = driver[d].status
  BY <1>1, <1>2 DEF DriverRow
<1>3. \/ driver'[d] = driver[d]
      \/ driver'[d].version = driver[d].version + 1
      \/ driver'[d] = [driver[d] EXCEPT !.user = "ACTIVE"]
  BY DEF DisciplinedStep
<1> QED
  BY <1>1, <1>2, <1>3

(* A disciplined step keeps a driver that was read, and its workload,       *)
(* fresh.                                                                   *)
LEMMA FreshDriverKept ==
    ASSUME Formed, Formed', DisciplinedStep, NEW q \in Request, Decided(q), FreshDriver(q)
    PROVE  FreshDriver(q)'
<1> SUFFICES ASSUME q.row # None
             PROVE  FreshDriver(q)'
  BY DEF FreshDriver
<1> DEFINE d == q.driver
<1>1. d \in Drivers /\ q.row \in DriverRow
  BY ReadNames
<1>2. q.row.version \in Nat
  BY <1>1 DEF DriverRow
<1>3. CASE driver'[d].version = driver[d].version + 1
  <2>1. q.row.version < driver'[d].version
    <3>1. q.row.version <= driver[d].version
      BY DEF FreshDriver
    <3>2. driver[d].version \in Nat
      BY <1>1, DriverVersionGrows
    <3> QED
      BY <1>2, <1>3, <3>1, <3>2
  <2> QED
    BY <1>1, <1>2, <2>1 DEF FreshDriver, Formed, TypeOK, DriverRow
<1>4. CASE driver'[d] = driver[d] \/ driver'[d] = [driver[d] EXCEPT !.user = "ACTIVE"]
  <2>1. driver'[d].version = driver[d].version
    BY <1>1, <1>4 DEF Formed, TypeOK, DriverRow
  <2>2. ActiveOfDriver(d)' = ActiveOfDriver(d)
    BY <1>1, <2>1, WorkloadVersioned
  <2>3. /\ [driver'[d] EXCEPT !.user = q.row.user] = [driver[d] EXCEPT !.user = q.row.user]
        /\ driver[d].user = "ACTIVE" => driver'[d].user = "ACTIVE"
    BY <1>1, <1>4 DEF Formed, TypeOK, DriverRow
  <2> QED
    BY <2>1, <2>2, <2>3 DEF FreshDriver
<1> QED
  BY <1>1, <1>3, <1>4 DEF DisciplinedStep

(* A disciplined step keeps an assignment that was read fresh. *)
LEMMA FreshAssignmentKept ==
    ASSUME Formed, Formed', DisciplinedStep, NEW q \in Request, Decided(q),
           FreshShipment(q), FreshAssignment(q)
    PROVE  FreshAssignment(q)'
<1> SUFFICES ASSUME q.status # "NONE"
             PROVE  FreshAssignment(q)'
  BY DEF FreshAssignment
<1> DEFINE a == q.key
           s == q.shipment
<1>1. /\ a \in Assignments /\ s \in Shipments /\ q.ship # None
      /\ q.ship \in ShipmentRow /\ q.status \in Active
  BY ReadNames
<1>2. q.ship.version \in Nat /\ ship[s].version \in Nat
  BY <1>1 DEF Formed, TypeOK, ShipmentRow
<1>3. asg[a].shipment = s /\ asg[a].driver = q.driver
  BY DEF FreshAssignment
<1>4. asg[a].status # "NONE"
  BY <1>1, <1>3, NoneAssumption DEF Formed, RowsFormed, TypeOK, AssignmentRow
<1>5. CASE asg'[a] = asg[a]
  <2>1. \/ ship'[s] = ship[s]
        \/ ship'[s].version = ship[s].version + 1
    BY <1>1 DEF DisciplinedStep
  <2>2. q.ship.version <= ship[s].version
    BY <1>1 DEF FreshShipment
  <2>3. q.ship.version = ship'[s].version => q.ship.version = ship[s].version
    BY <2>1, <2>2, <1>2
  <2> QED
    BY <1>3, <1>5, <2>3 DEF FreshAssignment
<1>6. CASE asg'[a] # asg[a]
  <2>1. asg'[a] = [asg[a] EXCEPT !.status = asg'[a].status]
    BY <1>1, <1>4, <1>6 DEF DisciplinedStep
  <2>2. asg'[a].shipment = s /\ asg'[a].driver = q.driver
    BY <1>1, <1>3, <2>1 DEF Formed, TypeOK, AssignmentRow
  <2>3. ship'[s].version = ship[s].version + 1
    BY <1>1, <1>6, <2>2 DEF DisciplinedStep
  <2>4. q.ship.version <= ship[s].version
    BY <1>1 DEF FreshShipment
  <2>5. q.ship.version # ship'[s].version
    BY <1>2, <2>3, <2>4
  <2> QED
    BY <2>2, <2>5 DEF FreshAssignment
<1> QED
  BY <1>5, <1>6

(* A disciplined step keeps the assignment that reassign will cancel fresh. *)
LEMMA FreshPreviousKept ==
    ASSUME Formed, Formed', DisciplinedStep, NEW q \in Request, Decided(q),
           FreshShipment(q), FreshPrevious(q)
    PROVE  FreshPrevious(q)'
<1> SUFFICES ASSUME q.previous # None
             PROVE  FreshPrevious(q)'
  BY DEF FreshPrevious
<1> DEFINE p == q.previous
           s == q.shipment
           e == asg[p].driver
<1>1. /\ p \in Assignments /\ s \in Shipments /\ q.ship # None
      /\ q.ship \in ShipmentRow /\ q.previousRow \in DriverRow
  BY ReadNames
<1>2. /\ q.ship.version \in Nat /\ ship[s].version \in Nat /\ q.previousRow.version \in Nat
      /\ q.ship.version <= ship[s].version
  BY <1>1 DEF Formed, TypeOK, ShipmentRow, DriverRow, FreshShipment
<1>3. /\ asg[p].shipment = s /\ e \in Drivers \ {q.driver}
      /\ q.ship.version = ship[s].version => asg[p].status \in Active
      /\ q.previousRow.version <= driver[e].version
      /\ q.previousRow.version = driver[e].version => q.previousRow.status = driver[e].status
  BY DEF FreshPrevious
<1>4. asg[p].status # "NONE"
  BY <1>1, <1>3, NoneAssumption DEF Formed, RowsFormed
<1>5. /\ asg'[p].shipment = s /\ asg'[p].driver = e
      /\ q.ship.version = ship'[s].version => asg'[p].status \in Active
  <2>1. CASE asg'[p] = asg[p]
    <3>1. \/ ship'[s] = ship[s]
          \/ ship'[s].version = ship[s].version + 1
      BY <1>1 DEF DisciplinedStep
    <3>2. q.ship.version = ship'[s].version => q.ship.version = ship[s].version
      BY <3>1, <1>2
    <3> QED
      BY <1>3, <2>1, <3>2
  <2>2. CASE asg'[p] # asg[p]
    <3>1. asg'[p] = [asg[p] EXCEPT !.status = asg'[p].status]
      BY <1>1, <1>4, <2>2 DEF DisciplinedStep
    <3>2. asg'[p].shipment = s /\ asg'[p].driver = e
      BY <1>1, <1>3, <3>1 DEF Formed, TypeOK, AssignmentRow
    <3>3. ship'[s].version = ship[s].version + 1
      BY <1>1, <2>2, <3>2 DEF DisciplinedStep
    <3> QED
      BY <1>2, <3>2, <3>3
  <2> QED
    BY <2>1, <2>2
<1>6. /\ q.previousRow.version <= driver'[e].version
      /\ q.previousRow.version = driver'[e].version => q.previousRow.status = driver'[e].status
  <2>1. /\ driver[e].version \in Nat
        /\ \/ driver'[e].version = driver[e].version /\ driver'[e].status = driver[e].status
           \/ driver'[e].version = driver[e].version + 1
    BY <1>3, DriverVersionGrows
  <2> QED
    BY <1>2, <1>3, <2>1
<1> QED
  BY <1>3, <1>5, <1>6 DEF FreshPrevious

(* A disciplined step keeps everything that was read fresh. *)
LEMMA FreshKept ==
    ASSUME Formed, Formed', DisciplinedStep, NEW q \in Request, Decided(q), Fresh(q)
    PROVE  Fresh(q)'
BY FreshShipmentKept, FreshDriverKept, FreshAssignmentKept, FreshPreviousKept DEF Fresh

-----------------------------------------------------------------------------
(* Every shape keeps the properties of the rows. *)

(* A step that leaves the rows alone keeps the invariants about them. *)
LEMMA WorkUntouched ==
    ASSUME WorkInv, UNCHANGED <<ship, asg, driver, trip>>
    PROVE  WorkInv'
BY DEF WorkInv, AssignmentMatchesShipment, ActiveOfShipment, OneTask, DriverStatusTruthful,
       ActiveOfDriver, TaskExclusion, ExecutingTrip, WorkerStaysEligible

(* Moving a parcel that nobody holds keeps the invariants on the work. *)
LEMMA MovesParcelWork ==
    ASSUME Formed, WorkInv, NEW s \in Shipments, NEW row \in ShipmentRow, MovesParcel(s, row)
    PROVE  WorkInv'
<1>1. /\ ship'[s] = row
      /\ \A x \in Shipments : x # s => ship'[x] = ship[x]
      /\ UNCHANGED <<asg, driver, trip>>
      /\ ship[s].status \notin InHands /\ row.status \notin InHands
  BY DEF Formed, TypeOK, MovesParcel
<1>2. \A a \in Assignments : asg[a].status \in Active =>
         asg[a].shipment \in Shipments /\ asg[a].shipment # s
  BY <1>1, LegStatus DEF WorkInv, AssignmentMatchesShipment, Formed, RowsFormed, Active
<1>3. AssignmentMatchesShipment'
  BY <1>1, <1>2 DEF WorkInv, AssignmentMatchesShipment, ActiveOfShipment
<1> QED
  BY <1>1, <1>3 DEF WorkInv, OneTask, DriverStatusTruthful, ActiveOfDriver, TaskExclusion,
     ExecutingTrip, WorkerStaysEligible

(* Assigning a free parcel to a free driver keeps the invariants on the     *)
(* work.                                                                    *)
LEMMA AssignsTaskWork ==
    ASSUME Formed, WorkInv, NEW a \in Assignments, NEW s \in Shipments, NEW d \in Drivers,
           NEW type \in {"PICKUP", "DELIVERY"}, NEW status \in ShipmentStatus,
           AssignsTask(a, s, d, type, status)
    PROVE  WorkInv'
<1>1. /\ asg'[a].shipment = s /\ asg'[a].driver = d
      /\ asg'[a].type = type /\ asg'[a].status = "PENDING"
      /\ \A b \in Assignments : b # a => asg'[b] = asg[b]
  BY NewAssignmentType DEF Formed, TypeOK, AssignsTask
<1>2. /\ ship'[s].status = status
      /\ \A x \in Shipments : x # s => ship'[x] = ship[x]
  BY WrittenShipment DEF Formed, TypeOK, AssignsTask, SetShipment
<1>3. /\ driver'[d].status = "BUSY" /\ driver'[d].user = "ACTIVE"
      /\ driver'[d].caps = driver[d].caps
      /\ \A x \in Drivers : x # d => driver'[x] = driver[x]
  BY WrittenDriver DEF Formed, TypeOK, AssignsTask, SetDriver, DriverStatus
<1>4. /\ asg[a].status = "NONE" /\ ~ExecutingTrip(d) /\ UNCHANGED trip
      /\ type \in driver[d].caps
      /\ \A b \in Assignments : asg[b].status \in Active => asg[b].driver # d
  BY DEF AssignsTask, ActiveOfDriver
<1>5. \A b \in Assignments : asg[b].status \in Active =>
         /\ b # a /\ asg[b].shipment \in Shipments /\ asg[b].shipment # s
         /\ asg[b].driver \in Drivers
  BY <1>4, LegStatus DEF AssignsTask, WorkInv, AssignmentMatchesShipment, Formed, RowsFormed, Active
<1>6. AssignmentMatchesShipment'
  <2>1. <<type, "PENDING", status>> \in Leg
    BY DEF AssignsTask
  <2>2. \A b \in Assignments : asg'[b].status \in Active =>
          <<asg'[b].type, asg'[b].status, ship'[asg'[b].shipment].status>> \in Leg
    BY <1>1, <1>2, <1>5, <2>1 DEF WorkInv, AssignmentMatchesShipment
  <2>3. \A x \in Shipments : ship'[x].status \in InHands =>
          \E b \in Assignments : asg'[b].shipment = x /\ asg'[b].status \in Active
    BY <1>1, <1>2, <1>5 DEF WorkInv, AssignmentMatchesShipment, ActiveOfShipment, Active
  <2>4. \A b, c \in Assignments : /\ asg'[b].status \in Active /\ asg'[c].status \in Active
                                  /\ asg'[b].shipment = asg'[c].shipment
                                  => b = c
    BY <1>1, <1>5 DEF WorkInv, AssignmentMatchesShipment
  <2> QED
    BY <2>2, <2>3, <2>4 DEF AssignmentMatchesShipment, ActiveOfShipment
<1>7. OneTask'
  BY <1>1, <1>4, <1>5 DEF WorkInv, OneTask
<1>8. \A x \in Drivers : x # d => ActiveOfDriver(x)' = ActiveOfDriver(x)
  BY <1>1, <1>4 DEF ActiveOfDriver, Active
<1>9. DriverStatusTruthful'
  <2>1. ActiveOfDriver(d)' # {}
    BY <1>1 DEF ActiveOfDriver, Active
  <2> QED
    BY <1>3, <1>8, <2>1 DEF WorkInv, DriverStatusTruthful
<1>10. TaskExclusion'
  BY <1>4, <1>8 DEF WorkInv, TaskExclusion, ExecutingTrip
<1>11. WorkerStaysEligible'
  <2>1. \A b \in Assignments : asg'[b].status \in Active =>
          /\ driver'[asg'[b].driver].user = "ACTIVE"
          /\ asg'[b].type \in driver'[asg'[b].driver].caps
    BY <1>1, <1>3, <1>4, <1>5 DEF WorkInv, WorkerStaysEligible
  <2>2. \A t \in Trips : trip[t].status \in Executing => trip[t].driver \in Drivers \ {d}
    BY <1>4 DEF ExecutingTrip, Formed, RowsFormed, Executing
  <2>3. \A t \in Trips : trip'[t].status \in Executing => LineHaulEligible(driver'[trip'[t].driver])
    BY <1>3, <1>4, <2>2 DEF WorkInv, WorkerStaysEligible
  <2> QED
    BY <2>1, <2>3 DEF WorkerStaysEligible
<1> QED
  BY <1>6, <1>7, <1>9, <1>10, <1>11 DEF WorkInv

(* Reassigning a pickup keeps the invariants on the work. *)
LEMMA HandsOverWork ==
    ASSUME Formed, WorkInv, NEW p \in Assignments, NEW a \in Assignments, NEW d \in Drivers,
           NEW status \in DriverStatus, HandsOver(p, a, d, status)
    PROVE  WorkInv'
<1>s. PICK s \in Shipments : s = asg[p].shipment
  BY DEF Formed, RowsFormed, HandsOver, Active
<1>e. PICK e \in Drivers : e = asg[p].driver
  BY DEF Formed, RowsFormed, HandsOver, Active
<1>0. /\ s \in Shipments /\ e \in Drivers /\ e # d /\ p # a
      /\ asg[p].status \in Active /\ asg[a].status = "NONE" /\ UNCHANGED trip
      /\ status \in {"AVAILABLE", "OFFLINE"} /\ ~ExecutingTrip(d)
      /\ driver[d].user = "ACTIVE" /\ "PICKUP" \in driver[d].caps
  BY <1>e DEF HandsOver, Active
<1>1. /\ asg'[a] = NewAssignment(s, d, "PICKUP")
      /\ asg'[p] = [asg[p] EXCEPT !.status = "CANCELLED"]
      /\ \A b \in Assignments : b \notin {a, p} => asg'[b] = asg[b]
  BY <1>0, <1>s DEF Formed, TypeOK, HandsOver
<1>2. /\ asg'[a].shipment = s /\ asg'[a].driver = d
      /\ asg'[a].type = "PICKUP" /\ asg'[a].status = "PENDING"
      /\ asg'[p].status \notin Active
  BY <1>0, <1>1, NewAssignmentType DEF Formed, TypeOK, AssignmentRow, Active
<1>3. /\ ship'[s].status = "PICKUP_ASSIGNED"
      /\ \A x \in Shipments : x # s => ship'[x] = ship[x]
  BY <1>0, <1>s, WrittenShipment DEF Formed, TypeOK, HandsOver, SetShipment, ShipmentStatus
<1>4. /\ driver'[d].status = "BUSY" /\ driver'[d].user = "ACTIVE"
      /\ driver'[d].caps = driver[d].caps
      /\ driver'[e].status = status /\ driver'[e].user = driver[e].user
      /\ driver'[e].caps = driver[e].caps
      /\ \A x \in Drivers : x \notin {d, e} => driver'[x] = driver[x]
  BY <1>0, <1>e, WrittenDriver DEF Formed, TypeOK, HandsOver, DriverStatus
<1>5. \A b \in Assignments : asg[b].status \in Active /\ b # p =>
         /\ b # a /\ asg[b].shipment \in Shipments \ {s} /\ asg[b].driver \in Drivers \ {d, e}
  BY <1>0, <1>s, <1>e DEF HandsOver, ActiveOfDriver, WorkInv, AssignmentMatchesShipment, OneTask,
     Formed, RowsFormed, Active
<1>6. AssignmentMatchesShipment'
  <2>1. \A b \in Assignments : asg'[b].status \in Active =>
          <<asg'[b].type, asg'[b].status, ship'[asg'[b].shipment].status>> \in Leg
    <3> SUFFICES ASSUME NEW b \in Assignments, asg'[b].status \in Active
                 PROVE  <<asg'[b].type, asg'[b].status, ship'[asg'[b].shipment].status>> \in Leg
      OBVIOUS
    <3>1. CASE b = a
      BY <1>2, <1>3, <3>1 DEF Leg
    <3>2. CASE b # a
      <4>1. asg'[b] = asg[b] /\ b # p
        BY <1>1, <1>2, <3>2
      <4>2. asg[b].shipment \in Shipments \ {s}
        BY <1>5, <4>1
      <4> QED
        BY <1>3, <4>1, <4>2 DEF WorkInv, AssignmentMatchesShipment
    <3> QED
      BY <3>1, <3>2
  <2>2. \A x \in Shipments : ship'[x].status \in InHands =>
          \E b \in Assignments : asg'[b].shipment = x /\ asg'[b].status \in Active
    <3> SUFFICES ASSUME NEW x \in Shipments, ship'[x].status \in InHands, x # s
                 PROVE  \E b \in Assignments : asg'[b].shipment = x /\ asg'[b].status \in Active
      BY <1>2 DEF Active
    <3>1. PICK b \in Assignments : asg[b].shipment = x /\ asg[b].status \in Active
      BY <1>3 DEF WorkInv, AssignmentMatchesShipment, ActiveOfShipment
    <3>2. b \notin {a, p}
      BY <1>0, <1>s, <3>1 DEF Active
    <3> QED
      BY <1>1, <3>1, <3>2
  <2>3. \A b, c \in Assignments : /\ asg'[b].status \in Active /\ asg'[c].status \in Active
                                  /\ asg'[b].shipment = asg'[c].shipment
                                  => b = c
    <3>1. \A b \in Assignments : asg'[b].status \in Active /\ b # a =>
             /\ asg[b].status \in Active /\ asg'[b].shipment = asg[b].shipment
             /\ asg[b].shipment # s
      BY <1>1, <1>2, <1>5
    <3>2. \A b, c \in Assignments : /\ asg[b].status \in Active /\ asg[c].status \in Active
                                    /\ asg[b].shipment = asg[c].shipment
                                    => b = c
      BY DEF WorkInv, AssignmentMatchesShipment
    <3> QED
      BY <1>2, <3>1, <3>2
  <2> QED
    BY <2>1, <2>2, <2>3 DEF AssignmentMatchesShipment, ActiveOfShipment
<1>7. OneTask'
  <2>1. \A b \in Assignments : asg'[b].status \in Active /\ b # a =>
           /\ asg[b].status \in Active /\ asg'[b].driver = asg[b].driver
           /\ asg[b].driver # d
    BY <1>1, <1>2, <1>5
  <2>2. OneTask
    BY DEF WorkInv
  <2> QED
    BY <1>2, <2>1, <2>2 DEF OneTask
<1>8. /\ ActiveOfDriver(d)' # {} /\ ActiveOfDriver(e)' = {}
      /\ \A x \in Drivers : x \notin {d, e} => ActiveOfDriver(x)' = ActiveOfDriver(x)
  <2>1. ActiveOfDriver(d)' # {}
    BY <1>2 DEF ActiveOfDriver, Active
  <2>2. ActiveOfDriver(e)' = {}
    BY <1>0, <1>1, <1>2, <1>5 DEF ActiveOfDriver
  <2>3. ASSUME NEW x \in Drivers, x \notin {d, e} PROVE ActiveOfDriver(x)' = ActiveOfDriver(x)
    BY <1>0, <1>1, <1>2, <1>e, <2>3 DEF ActiveOfDriver, Active
  <2> QED
    BY <2>1, <2>2, <2>3
<1>9. DriverStatusTruthful'
  BY <1>0, <1>4, <1>8 DEF WorkInv, DriverStatusTruthful
<1>10. TaskExclusion'
  BY <1>0, <1>8 DEF WorkInv, TaskExclusion, ExecutingTrip
<1>11. WorkerStaysEligible'
  <2>1. \A b \in Assignments : asg'[b].status \in Active =>
          /\ driver'[asg'[b].driver].user = "ACTIVE"
          /\ asg'[b].type \in driver'[asg'[b].driver].caps
    <3> SUFFICES ASSUME NEW b \in Assignments, asg'[b].status \in Active
                 PROVE  /\ driver'[asg'[b].driver].user = "ACTIVE"
                        /\ asg'[b].type \in driver'[asg'[b].driver].caps
      OBVIOUS
    <3>1. CASE b = a
      BY <1>0, <1>2, <1>4, <3>1
    <3>2. CASE b # a
      <4>1. asg'[b] = asg[b] /\ b # p
        BY <1>1, <1>2, <3>2
      <4>2. asg[b].driver \in Drivers \ {d, e}
        BY <1>5, <4>1
      <4> QED
        BY <1>4, <4>1, <4>2 DEF WorkInv, WorkerStaysEligible
    <3> QED
      BY <3>1, <3>2
  <2>2. \A t \in Trips : trip[t].status \in Executing => trip[t].driver \in Drivers \ {d}
    BY <1>0 DEF ExecutingTrip, Formed, RowsFormed, Executing
  <2>3. ActiveOfDriver(e) # {}
    BY <1>0, <1>e DEF ActiveOfDriver
  <2>4. \A t \in Trips : trip[t].status \in Executing => trip[t].driver # e
    BY <1>0, <2>3 DEF WorkInv, TaskExclusion, ExecutingTrip
  <2>5. \A t \in Trips : trip'[t].status \in Executing => LineHaulEligible(driver'[trip'[t].driver])
    BY <1>0, <1>4, <2>2, <2>4 DEF WorkInv, WorkerStaysEligible
  <2> QED
    BY <2>1, <2>5 DEF WorkerStaysEligible
<1> QED
  BY <1>6, <1>7, <1>9, <1>10, <1>11 DEF WorkInv

(* Accepting or starting a task keeps the invariants on the work. *)
LEMMA AdvancesWork ==
    ASSUME Formed, WorkInv, NEW a \in Assignments, NEW status \in ShipmentStatus, Advances(a, status)
    PROVE  WorkInv'
<1> DEFINE s == asg[a].shipment
<1>0. /\ s \in Shipments /\ asg[a].status = "PENDING" /\ UNCHANGED <<driver, trip>>
      /\ <<asg[a].type, "ACCEPTED", status>> \in Leg
  BY DEF Formed, RowsFormed, Advances
<1>1. /\ ship'[s].status = status
      /\ \A x \in Shipments : x # s => ship'[x] = ship[x]
  BY <1>0, WrittenShipment DEF Formed, TypeOK, Advances, SetShipment
<1>2. /\ asg'[a].shipment = s /\ asg'[a].status = "ACCEPTED"
      /\ asg'[a].driver = asg[a].driver /\ asg'[a].type = asg[a].type
      /\ \A b \in Assignments : b # a => asg'[b] = asg[b]
  BY DEF Formed, TypeOK, Advances, SetAssignment, AssignmentRow
<1>3. \A b \in Assignments : asg[b].status \in Active /\ b # a => asg[b].shipment \in Shipments \ {s}
  BY <1>0 DEF WorkInv, AssignmentMatchesShipment, Formed, RowsFormed, Active
<1> HIDE DEF s
<1>4. \A b \in Assignments : /\ asg'[b].status \in Active <=> asg[b].status \in Active
                             /\ asg'[b].shipment = asg[b].shipment
                             /\ asg'[b].driver = asg[b].driver /\ asg'[b].type = asg[b].type
  BY <1>0, <1>2 DEF Active, s
<1>5. AssignmentMatchesShipment'
  <2>1. \A b \in Assignments : asg'[b].status \in Active =>
          <<asg'[b].type, asg'[b].status, ship'[asg'[b].shipment].status>> \in Leg
    BY <1>0, <1>1, <1>2, <1>3 DEF WorkInv, AssignmentMatchesShipment
  <2>2. \A x \in Shipments : ship'[x].status \in InHands =>
          \E b \in Assignments : asg'[b].shipment = x /\ asg'[b].status \in Active
    BY <1>1, <1>2, <1>4 DEF WorkInv, AssignmentMatchesShipment, ActiveOfShipment, Active
  <2>3. \A b, c \in Assignments : /\ asg'[b].status \in Active /\ asg'[c].status \in Active
                                  /\ asg'[b].shipment = asg'[c].shipment
                                  => b = c
    BY <1>4 DEF WorkInv, AssignmentMatchesShipment
  <2> QED
    BY <2>1, <2>2, <2>3 DEF AssignmentMatchesShipment, ActiveOfShipment
<1>6. \A x \in Drivers : ActiveOfDriver(x)' = ActiveOfDriver(x)
  BY <1>4 DEF ActiveOfDriver
<1>7. OneTask' /\ DriverStatusTruthful' /\ TaskExclusion'
  BY <1>0, <1>4, <1>6 DEF WorkInv, OneTask, DriverStatusTruthful, TaskExclusion, ExecutingTrip
<1>8. WorkerStaysEligible'
  BY <1>0, <1>4 DEF WorkInv, WorkerStaysEligible
<1> QED
  BY <1>5, <1>7, <1>8 DEF WorkInv

(* Closing a task keeps the invariants on the work. *)
LEMMA ClosesWork ==
    ASSUME Formed, WorkInv, NEW a \in Assignments, NEW outcome \in Closed, NEW row \in ShipmentRow,
           NEW status \in DriverStatus, Closes(a, outcome, row, status)
    PROVE  WorkInv'
<1>s. PICK s \in Shipments : s = asg[a].shipment
  BY DEF Formed, RowsFormed, Closes, Active
<1>d. PICK d \in Drivers : d = asg[a].driver
  BY DEF Formed, RowsFormed, Closes, Active
<1>0. /\ s \in Shipments /\ d \in Drivers /\ asg[a].status \in Active
      /\ row.status \notin InHands /\ UNCHANGED trip
      /\ status \in {"AVAILABLE", "OFFLINE", "SUSPENDED"}
  BY DEF Formed, RowsFormed, Closes, Active
<1>1. /\ ship'[s] = row
      /\ \A x \in Shipments : x # s => ship'[x] = ship[x]
  BY <1>s DEF Formed, TypeOK, Closes
<1>2. /\ driver'[d].status = status /\ driver'[d].user = driver[d].user
      /\ driver'[d].caps = driver[d].caps
      /\ \A x \in Drivers : x # d => driver'[x] = driver[x]
  BY <1>d, WrittenDriver DEF Formed, TypeOK, Closes, SetDriver
<1>3. /\ asg'[a].status \notin Active
      /\ \A b \in Assignments : b # a => asg'[b] = asg[b]
  BY DEF Formed, TypeOK, Closes, SetAssignment, AssignmentRow, Active, Closed
<1>4. \A b \in Assignments : asg[b].status \in Active /\ b # a =>
         asg[b].shipment \in Shipments \ {s} /\ asg[b].driver \in Drivers \ {d}
  BY <1>0, <1>s, <1>d DEF WorkInv, AssignmentMatchesShipment, OneTask, Formed, RowsFormed, Active
<1>5. ActiveOfDriver(d) # {}
  BY <1>0, <1>d DEF ActiveOfDriver
<1>6. AssignmentMatchesShipment'
  <2>1. \A b \in Assignments : asg'[b].status \in Active =>
          <<asg'[b].type, asg'[b].status, ship'[asg'[b].shipment].status>> \in Leg
    BY <1>1, <1>3, <1>4 DEF WorkInv, AssignmentMatchesShipment
  <2>2. \A x \in Shipments : ship'[x].status \in InHands =>
          \E b \in Assignments : asg'[b].shipment = x /\ asg'[b].status \in Active
    BY <1>0, <1>1, <1>3, <1>s DEF WorkInv, AssignmentMatchesShipment, ActiveOfShipment
  <2>3. \A b, c \in Assignments : /\ asg'[b].status \in Active /\ asg'[c].status \in Active
                                  /\ asg'[b].shipment = asg'[c].shipment
                                  => b = c
    BY <1>3 DEF WorkInv, AssignmentMatchesShipment
  <2> QED
    BY <2>1, <2>2, <2>3 DEF AssignmentMatchesShipment, ActiveOfShipment
<1>7. OneTask'
  BY <1>3 DEF WorkInv, OneTask
<1>8. /\ ActiveOfDriver(d)' = {}
      /\ \A x \in Drivers : x # d => ActiveOfDriver(x)' = ActiveOfDriver(x)
  BY <1>3, <1>4, <1>d DEF ActiveOfDriver
<1>9. DriverStatusTruthful'
  BY <1>0, <1>2, <1>8 DEF WorkInv, DriverStatusTruthful
<1>10. TaskExclusion'
  BY <1>0, <1>8 DEF WorkInv, TaskExclusion, ExecutingTrip
<1>11. WorkerStaysEligible'
  <2>1. \A b \in Assignments : asg'[b].status \in Active =>
          /\ driver'[asg'[b].driver].user = "ACTIVE"
          /\ asg'[b].type \in driver'[asg'[b].driver].caps
    BY <1>2, <1>3, <1>4 DEF WorkInv, WorkerStaysEligible
  <2>2. \A t \in Trips : trip[t].status \in Executing => trip[t].driver \in Drivers \ {d}
    BY <1>0, <1>5 DEF WorkInv, TaskExclusion, ExecutingTrip, Formed, RowsFormed, Executing
  <2>3. \A t \in Trips : trip'[t].status \in Executing => LineHaulEligible(driver'[trip'[t].driver])
    BY <1>0, <1>2, <2>2 DEF WorkInv, WorkerStaysEligible
  <2> QED
    BY <2>1, <2>3 DEF WorkerStaysEligible
<1> QED
  BY <1>6, <1>7, <1>9, <1>10, <1>11 DEF WorkInv

(* Changing a profile truthfully keeps the invariants on the work. *)
LEMMA ChangesDriverWork ==
    ASSUME Formed, WorkInv, NEW d \in Drivers, NEW row \in DriverRow, ChangesDriver(d, row)
    PROVE  WorkInv'
<1>1. /\ driver'[d] = row
      /\ \A x \in Drivers : x # d => driver'[x] = driver[x]
      /\ UNCHANGED <<ship, asg, trip>>
  BY DEF Formed, TypeOK, ChangesDriver
<1>2. AssignmentMatchesShipment' /\ OneTask' /\ TaskExclusion'
  BY <1>1 DEF WorkInv, AssignmentMatchesShipment, ActiveOfShipment, OneTask, TaskExclusion,
     ActiveOfDriver, ExecutingTrip
<1>3. DriverStatusTruthful'
  BY <1>1 DEF WorkInv, DriverStatusTruthful, ActiveOfDriver, ChangesDriver
<1>4. WorkerStaysEligible'
  <2>1. \A b \in Assignments : asg'[b].status \in Active =>
          /\ driver'[asg'[b].driver].user = "ACTIVE"
          /\ asg'[b].type \in driver'[asg'[b].driver].caps
    <3> SUFFICES ASSUME NEW b \in Assignments, asg[b].status \in Active
                 PROVE  /\ driver'[asg[b].driver].user = "ACTIVE"
                        /\ asg[b].type \in driver'[asg[b].driver].caps
      BY <1>1
    <3>1. CASE asg[b].driver = d
      BY <1>1, <3>1 DEF ChangesDriver, ActiveOfDriver
    <3>2. CASE asg[b].driver # d
      BY <1>1, <3>2 DEF WorkInv, WorkerStaysEligible, Formed, RowsFormed, Active
    <3> QED
      BY <3>1, <3>2
  <2>2. \A t \in Trips : trip'[t].status \in Executing => LineHaulEligible(driver'[trip'[t].driver])
    <3> SUFFICES ASSUME NEW t \in Trips, trip[t].status \in Executing
                 PROVE  LineHaulEligible(driver'[trip[t].driver])
      BY <1>1
    <3>1. CASE trip[t].driver = d
      BY <1>1, <3>1 DEF ChangesDriver, ExecutingTrip
    <3>2. CASE trip[t].driver # d
      BY <1>1, <3>2 DEF WorkInv, WorkerStaysEligible, Formed, RowsFormed, Executing
    <3> QED
      BY <3>1, <3>2
  <2> QED
    BY <2>1, <2>2 DEF WorkerStaysEligible
<1> QED
  BY <1>2, <1>3, <1>4 DEF WorkInv

(* Changing a trip keeps the invariants on the work. *)
LEMMA ChangesTripWork ==
    ASSUME Formed, WorkInv, NEW t \in Trips, NEW row \in TripRow, ChangesTrip(t, row)
    PROVE  WorkInv'
<1>1. /\ trip'[t] = row
      /\ \A x \in Trips : x # t => trip'[x] = trip[x]
      /\ UNCHANGED <<ship, asg, driver>>
      /\ row.status \in Executing => /\ LineHaulEligible(driver[row.driver])
                                     /\ ActiveOfDriver(row.driver) = {}
  BY DEF Formed, TypeOK, ChangesTrip
<1>2. AssignmentMatchesShipment' /\ OneTask' /\ DriverStatusTruthful'
  BY <1>1 DEF WorkInv, AssignmentMatchesShipment, ActiveOfShipment, OneTask,
     DriverStatusTruthful, ActiveOfDriver
<1>3. TaskExclusion'
  BY <1>1 DEF WorkInv, TaskExclusion, ActiveOfDriver, ExecutingTrip
<1>4. WorkerStaysEligible'
  BY <1>1 DEF WorkInv, WorkerStaysEligible
<1> QED
  BY <1>2, <1>3, <1>4 DEF WorkInv

(* So does every step. *)
LEMMA ShapedWork == Formed /\ WorkInv /\ Shaped => WorkInv'
<1>1. ASSUME WorkInv, NEW r \in Requests, NEW q \in Request, Reads(r, q) PROVE WorkInv'
  BY <1>1, WorkUntouched DEF Reads, RowsUnchanged
<1> QED
  BY <1>1, MovesParcelWork, AssignsTaskWork, HandsOverWork, AdvancesWork, ClosesWork,
     ChangesDriverWork, ChangesTripWork DEF Shaped

-----------------------------------------------------------------------------
(* Every command has one of the shapes. *)

(* A command on one shipment row moves a parcel that nobody holds. *)
LEMMA ShipmentShaped ==
    ASSUME Formed, NEW s \in Shipments, NEW row \in ShipmentRow, ship' = [ship EXCEPT ![s] = row],
           ship[s].status \notin InHands, row.status \notin InHands,
           ship[s].status # "DELIVERED", row.status # "DELIVERED",
           row.version = ship[s].version + 1,
           UNCHANGED <<asg, attempt, proof, cod, driver, trip>>, Ends
    PROVE  Shaped
BY DEF Formed, TypeOK, Shaped, MovesParcel, OthersTyped, RecordsKept

(* The destination warehouse may be written along with the status. *)
LEMMA ShipmentRowExcept ==
    ASSUME NEW row \in ShipmentRow, NEW w \in Warehouses
    PROVE  /\ [row EXCEPT !.dest = w] \in ShipmentRow
           /\ [row EXCEPT !.dest = w].status = row.status
           /\ [row EXCEPT !.dest = w].version = row.version
           /\ [row EXCEPT !.origin = w] \in ShipmentRow
           /\ [row EXCEPT !.origin = w].status = row.status
           /\ [row EXCEPT !.origin = w].version = row.version
BY DEF ShipmentRow

(* The same for a command that only writes the status. *)
LEMMA ShipmentSetShaped ==
    ASSUME Formed, NEW s \in Shipments, NEW status \in ShipmentStatus \ InHands,
           ship' = SetShipment(s, status), ship[s].status \notin InHands,
           ship[s].status # "DELIVERED", status # "DELIVERED",
           UNCHANGED <<asg, attempt, proof, cod, driver, trip>>, Ends
    PROVE  Shaped
<1> DEFINE row == Written(ship[s], status)
<1>1. row \in ShipmentRow /\ row.status = status /\ row.version = ship[s].version + 1
  BY WrittenShipment DEF Formed, TypeOK
<1>2. ship' = [ship EXCEPT ![s] = row]
  BY DEF SetShipment
<1> HIDE DEF row
<1> QED
  BY <1>1, <1>2, ShipmentShaped

(* Confirm, cancel, the warehouse leg, redeliver and return are such        *)
(* commands.                                                                *)
LEMMA ShipmentStepShaped == Formed /\ ShipmentStep => Shaped
<1> SUFFICES ASSUME Formed, NEW s \in Shipments,
                    \/ Confirm(s) \/ Cancel(s) \/ CheckIn(s)
                    \/ \E w \in Warehouses : RouteDestination(s, w)
                    \/ TransferDispatched(s) \/ TransferReceived(s) \/ MarkReadyForDelivery(s)
                    \/ Redeliver(s) \/ RequestReturn(s) \/ ReceiveReturn(s)
             PROVE  Shaped
  BY DEF ShipmentStep
<1> USE DEF InHands, ShipmentStatus, Ends
<1>1. CASE Confirm(s)
  BY <1>1, ShipmentSetShaped DEF Confirm
<1>2. CASE Cancel(s)
  BY <1>2, ShipmentSetShaped DEF Cancel
<1>3. CASE CheckIn(s)
  BY <1>3, ShipmentSetShaped DEF CheckIn
<1>4. ASSUME NEW w \in Warehouses, RouteDestination(s, w) PROVE Shaped
  <2> DEFINE status == IF w = ship[s].origin THEN "AWAITING_DELIVERY_ASSIGNMENT" ELSE ship[s].status
             old == Written(ship[s], status)
             row == [old EXCEPT !.dest = w]
  <2>1. /\ ship[s].status = "AT_ORIGIN_WAREHOUSE"
        /\ status \in ShipmentStatus \ InHands /\ status # "DELIVERED"
    BY <1>4 DEF RouteDestination
  <2>2. /\ old \in ShipmentRow /\ old.status = status
        /\ old.version = ship[s].version + 1
    BY <2>1, WrittenShipment DEF Formed, TypeOK
  <2>3. ship' = [ship EXCEPT ![s] = row]
    BY <1>4 DEF RouteDestination
  <2> HIDE DEF old, status
  <2>4. /\ row \in ShipmentRow /\ row.status = status
        /\ row.version = ship[s].version + 1
    BY <2>2, ShipmentRowExcept
  <2> HIDE DEF row
  <2> QED
    BY <1>4, <2>1, <2>3, <2>4, ShipmentShaped DEF RouteDestination
<1>5. CASE TransferDispatched(s)
  BY <1>5, ShipmentSetShaped DEF TransferDispatched
<1>6. CASE TransferReceived(s)
  BY <1>6, ShipmentSetShaped DEF TransferReceived
<1>7. CASE MarkReadyForDelivery(s)
  BY <1>7, ShipmentSetShaped DEF MarkReadyForDelivery
<1>8. CASE Redeliver(s)
  BY <1>8, ShipmentSetShaped DEF Redeliver
<1>9. CASE RequestReturn(s)
  BY <1>9, ShipmentSetShaped DEF RequestReturn
<1>10. CASE ReceiveReturn(s)
  BY <1>10, ShipmentSetShaped DEF ReceiveReturn
<1> QED
  BY <1>1, <1>2, <1>3, <1>4, <1>5, <1>6, <1>7, <1>8, <1>9, <1>10

(* A read that is well decided and current has the shape Reads. *)
LEMMA ReadShaped ==
    ASSUME NEW r \in Requests, NEW q \in Request, Decided(q), Fresh(q),
           req' = [req EXCEPT ![r] = q], RowsUnchanged
    PROVE  Shaped
BY DEF Shaped, Reads

(* The first read of assign and reassign is such a read. *)
LEMMA AssignReadShaped ==
    ASSUME Formed, NEW r \in Requests, NEW cmd \in {"assign", "reassign"}, NEW s \in Shipments,
           NEW a \in Assignments, NEW d \in Drivers, AssignRead(r, cmd, s, a, d)
    PROVE  Shaped
<1> DEFINE q == [Idle EXCEPT !.cmd = cmd, !.pc = "reading", !.shipment = s,
                             !.key = a, !.driver = d, !.ship = ship[s]]
<1>1. q \in Request
  BY DEF Idle, Request, Commands, Formed, TypeOK
<1>2. Decided(q)
  BY DEF Idle, Decided, DecidedAssign, DecidedTask, DecidedReturn, DecidedProfile,
     AssignRead, Formed, TypeOK
<1>3. Fresh(q)
  BY DEF Idle, Fresh, FreshShipment, FreshDriver, FreshAssignment, FreshPrevious,
     Formed, TypeOK, ShipmentRow
<1> HIDE DEF q
<1> QED
  BY <1>1, <1>2, <1>3, ReadShaped DEF AssignRead, Begin, q

(* So is the first read of a delivery assignment, *)
LEMMA AssignDeliveryReadShaped ==
    ASSUME Formed, NEW r \in Requests, NEW s \in Shipments,
           NEW a \in Assignments, NEW d \in Drivers, AssignDeliveryRead(r, s, a, d)
    PROVE  Shaped
<1> DEFINE q == [Idle EXCEPT !.cmd = "assignDelivery", !.pc = "reading", !.shipment = s,
                             !.key = a, !.driver = d, !.ship = ship[s]]
<1>1. q \in Request
  BY DEF Idle, Request, Commands, Formed, TypeOK
<1>2. Decided(q)
  BY DEF Idle, Decided, DecidedAssign, DecidedTask, DecidedReturn, DecidedProfile,
     AssignDeliveryRead, Formed, TypeOK
<1>3. Fresh(q)
  BY DEF Idle, Fresh, FreshShipment, FreshDriver, FreshAssignment, FreshPrevious,
     Formed, TypeOK, ShipmentRow
<1> HIDE DEF q
<1> QED
  BY <1>1, <1>2, <1>3, ReadShaped DEF AssignDeliveryRead, Begin, q

(* What a request in flight has read is fresh. *)
LEMMA CurrentFresh ==
    ASSUME NEW r \in Requests, SnapshotFresh
    PROVE  Fresh(req[r])
BY DEF SnapshotFresh, Fresh

(* A request in flight is well formed and decided. *)
LEMMA CurrentDecided ==
    ASSUME NEW r \in Requests, Formed
    PROVE  req[r] \in Request /\ Decided(req[r])
BY DEF Formed, TypeOK, RequestsDecided

(* Reading an assignment with its parcel and driver has the shape Reads. *)
LEMMA ReadAssignmentShaped ==
    ASSUME Formed, NEW r \in Requests, NEW a \in Assignments, asg[a].status \in Active,
           NEW cmd \in {"accept", "reject", "pickup", "start", "complete", "fail"},
           LET status == ship[asg[a].shipment].status
           IN  /\ cmd = "accept" => status = "PICKUP_ASSIGNED"
               /\ cmd = "reject" => status \in {"PICKUP_ASSIGNED", "PICKUP_IN_PROGRESS"}
               /\ cmd = "pickup" => status = "PICKUP_IN_PROGRESS"
               /\ cmd = "start" => asg[a].status = "PENDING" /\ status = "DELIVERY_ASSIGNED"
               /\ cmd \in {"complete", "fail"} => /\ asg[a].status = "ACCEPTED"
                                                  /\ status = "OUT_FOR_DELIVERY",
           ReadAssignment(r, cmd, a)
    PROVE  Shaped
<1> DEFINE s == asg[a].shipment
           d == asg[a].driver
           q == [Idle EXCEPT !.cmd = cmd, !.pc = "read", !.key = a, !.shipment = s, !.driver = d,
                             !.status = asg[a].status, !.ship = ship[s], !.row = driver[d]]
<1>0. s \in Shipments /\ d \in Drivers /\ ship[s] \in ShipmentRow /\ driver[d] \in DriverRow
  BY DEF Formed, TypeOK, RowsFormed, Active
<1>1. q \in Request
  BY <1>0 DEF Idle, Request, Commands
<1>2. /\ q.cmd = cmd /\ q.pc = "read" /\ q.key = a /\ q.shipment = s /\ q.driver = d
      /\ q.status = asg[a].status /\ q.ship = ship[s] /\ q.row = driver[d] /\ q.previous = None
  BY DEF Idle
<1> HIDE DEF q
<1>3. Decided(q)
  BY <1>0, <1>2 DEF Decided, DecidedAssign, DecidedTask, DecidedReturn, DecidedProfile
<1>4. Fresh(q)
  <2>1. FreshShipment(q) /\ FreshAssignment(q) /\ FreshPrevious(q)
    BY <1>0, <1>2 DEF FreshShipment, FreshAssignment, FreshPrevious, ShipmentRow
  <2>2. driver[d] = [driver[d] EXCEPT !.user = driver[d].user] /\ driver[d].version \in Nat
    BY <1>0 DEF DriverRow
  <2>3. FreshDriver(q)
    BY <1>2, <2>2 DEF FreshDriver
  <2> QED
    BY <2>1, <2>3 DEF Fresh
<1> QED
  BY <1>1, <1>3, <1>4, ReadShaped DEF ReadAssignment, Begin, q

(* The reads of accept, reject, pickup, start, complete and fail are of     *)
(* that kind.                                                               *)
LEMMA TaskReadShaped ==
    ASSUME Formed, NEW r \in Requests, NEW a \in Assignments,
           \/ AcceptRead(r, a) \/ RejectRead(r, a) \/ PickupRead(r, a)
           \/ StartRead(r, a) \/ CompleteRead(r, a) \/ FailRead(r, a)
    PROVE  Shaped
<1> USE DEF Active
<1>1. CASE AcceptRead(r, a)
  BY <1>1, ReadAssignmentShaped DEF AcceptRead
<1>2. CASE RejectRead(r, a)
  BY <1>2, ReadAssignmentShaped DEF RejectRead
<1>3. CASE PickupRead(r, a)
  BY <1>3, ReadAssignmentShaped DEF PickupRead
<1>4. CASE StartRead(r, a)
  BY <1>4, ReadAssignmentShaped DEF StartRead
<1>5. CASE CompleteRead(r, a)
  BY <1>5, ReadAssignmentShaped DEF CompleteRead, UnderWay
<1>6. CASE FailRead(r, a)
  BY <1>6, ReadAssignmentShaped DEF FailRead, UnderWay
<1> QED
  BY <1>1, <1>2, <1>3, <1>4, <1>5, <1>6

(* The second read of assign and of a delivery assignment has the shape     *)
(* Reads.                                                                   *)
LEMMA AssignReadDriverShaped ==
    ASSUME Formed, SnapshotFresh, NEW r \in Requests,
           AssignReadDrivers(r) \/ AssignDeliveryReadDriver(r)
    PROVE  Shaped
<1> DEFINE o == req[r]
           q == [o EXCEPT !.pc = "read", !.row = driver[o.driver]]
<1>0. /\ o \in Request /\ Decided(o) /\ Fresh(o)
  BY CurrentFresh, CurrentDecided
<1>1. /\ o.cmd \in {"assign", "assignDelivery"} /\ o.pc = "reading"
      /\ Eligible(driver[o.driver], IF o.cmd = "assignDelivery" THEN "DELIVERY" ELSE "PICKUP")
      /\ req' = [req EXCEPT ![r] = q] /\ RowsUnchanged
  BY DEF AssignReadDrivers, AssignDeliveryReadDriver, At, Continue
<1>2. o.driver \in Drivers /\ driver[o.driver] \in DriverRow
  BY <1>0, <1>1 DEF Decided, DecidedAssign, Formed, TypeOK
<1>3. q \in Request
  BY <1>0, <1>2 DEF Request
<1>4. /\ q.cmd = o.cmd /\ q.pc = "read" /\ q.key = o.key /\ q.shipment = o.shipment
      /\ q.driver = o.driver /\ q.status = o.status /\ q.ship = o.ship
      /\ q.row = driver[o.driver] /\ q.previous = o.previous
  BY <1>0 DEF Request
<1> HIDE DEF q, o
<1>5. Decided(q)
  BY <1>0, <1>1, <1>2, <1>4 DEF Decided, DecidedAssign, DecidedTask, DecidedReturn, DecidedProfile
<1>6. Fresh(q)
  <2>1. q.status = "NONE" /\ q.previous = None
    BY <1>0, <1>1, <1>4 DEF Decided, DecidedAssign
  <2>2. FreshShipment(q) /\ FreshAssignment(q) /\ FreshPrevious(q)
    BY <1>0, <1>4, <2>1 DEF Fresh, FreshShipment, FreshAssignment, FreshPrevious
  <2>3. /\ driver[o.driver] = [driver[o.driver] EXCEPT !.user = driver[o.driver].user]
        /\ driver[o.driver].version \in Nat
    BY <1>2 DEF DriverRow
  <2>4. FreshDriver(q)
    BY <1>1, <1>4, <2>3 DEF FreshDriver
  <2> QED
    BY <2>2, <2>4 DEF Fresh
<1> QED
  BY <1>1, <1>3, <1>5, <1>6, ReadShaped

(* So has the second read of reassign, *)
LEMMA ReassignReadDriversShaped ==
    ASSUME Formed, SnapshotFresh, NEW r \in Requests, ReassignReadDrivers(r)
    PROVE  Shaped
<1> DEFINE o == req[r]
<1>0. /\ o \in Request /\ Decided(o) /\ Fresh(o)
  BY CurrentFresh, CurrentDecided
<1>1. PICK p \in Assignments :
        /\ asg[p].shipment = o.shipment /\ asg[p].status \in Active /\ asg[p].driver # o.driver
        /\ req' = [req EXCEPT ![r] = [o EXCEPT !.pc = "read", !.row = driver[o.driver],
                                       !.previous = p, !.previousRow = driver[asg[p].driver]]]
  BY DEF ReassignReadDrivers, ActivePickup, Continue
<1> DEFINE e == asg[p].driver
           q == [o EXCEPT !.pc = "read", !.row = driver[o.driver],
                          !.previous = p, !.previousRow = driver[e]]
<1>2. /\ o.cmd = "reassign" /\ o.pc = "reading"
      /\ Eligible(driver[o.driver], "PICKUP") /\ RowsUnchanged
  BY DEF ReassignReadDrivers, At
<1>3. /\ o.driver \in Drivers /\ driver[o.driver] \in DriverRow
      /\ e \in Drivers /\ driver[e] \in DriverRow
  BY <1>0, <1>1, <1>2 DEF Decided, DecidedAssign, Formed, TypeOK, RowsFormed, Active
<1>4. q \in Request
  BY <1>0, <1>3 DEF Request
<1>5. /\ q.cmd = "reassign" /\ q.pc = "read" /\ q.key = o.key /\ q.shipment = o.shipment
      /\ q.driver = o.driver /\ q.status = o.status /\ q.ship = o.ship
      /\ q.row = driver[o.driver] /\ q.previous = p /\ q.previousRow = driver[e]
  BY <1>0, <1>2 DEF Request
<1>6. req' = [req EXCEPT ![r] = q]
  BY <1>1
<1> HIDE DEF q, o
<1>7. Decided(q)
  BY <1>0, <1>2, <1>3, <1>5 DEF Decided, DecidedAssign, DecidedTask, DecidedReturn, DecidedProfile
<1>8. Fresh(q)
  <2>1. q.status = "NONE"
    BY <1>0, <1>2, <1>5 DEF Decided, DecidedAssign
  <2>2. FreshShipment(q) /\ FreshAssignment(q)
    BY <1>0, <1>5, <2>1 DEF Fresh, FreshShipment, FreshAssignment
  <2>3. /\ driver[o.driver] = [driver[o.driver] EXCEPT !.user = driver[o.driver].user]
        /\ driver[o.driver].version \in Nat /\ driver[e].version \in Nat
    BY <1>3 DEF DriverRow
  <2>4. FreshDriver(q)
    BY <1>5, <2>3 DEF FreshDriver
  <2>5. FreshPrevious(q)
    BY <1>1, <1>3, <1>5, <2>3 DEF FreshPrevious
  <2> QED
    BY <2>2, <2>4, <2>5 DEF Fresh
<1> QED
  BY <1>2, <1>4, <1>6, <1>7, <1>8, ReadShaped

(* and the first and *)
LEMMA StartReturnReadShaped ==
    ASSUME Formed, NEW r \in Requests, NEW s \in Shipments, NEW a \in Assignments,
           StartReturnRead(r, s, a)
    PROVE  Shaped
<1> DEFINE q == [Idle EXCEPT !.cmd = "startReturn", !.pc = "reading", !.shipment = s,
                             !.key = a, !.driver = asg[a].driver, !.ship = ship[s]]
<1>1. q \in Request
  BY DEF Idle, Request, Commands, Formed, TypeOK, AssignmentRow
<1>2. Decided(q)
  BY DEF Idle, Decided, DecidedAssign, DecidedTask, DecidedReturn, DecidedProfile,
     StartReturnRead, Formed, TypeOK
<1>3. Fresh(q)
  BY DEF Idle, Fresh, FreshShipment, FreshDriver, FreshAssignment, FreshPrevious,
     Formed, TypeOK, ShipmentRow
<1> HIDE DEF q
<1> QED
  BY <1>1, <1>2, <1>3, ReadShaped DEF StartReturnRead, Begin, q

(* second read of startReturn. *)
LEMMA StartReturnReadSupersedingShaped ==
    ASSUME Formed, SnapshotFresh, NEW r \in Requests, StartReturnReadSuperseding(r)
    PROVE  Shaped
<1> DEFINE o == req[r]
           q == [o EXCEPT !.pc = "read"]
<1>0. /\ o \in Request /\ Decided(o) /\ Fresh(o)
      /\ o.cmd = "startReturn" /\ req' = [req EXCEPT ![r] = q] /\ RowsUnchanged
  BY CurrentFresh, CurrentDecided DEF StartReturnReadSuperseding, At, Continue
<1>1. q \in Request
  BY <1>0 DEF Request
<1>2. /\ q.cmd = o.cmd /\ q.shipment = o.shipment /\ q.status = o.status
      /\ q.ship = o.ship /\ q.row = o.row /\ q.previous = o.previous
  BY <1>0 DEF Request
<1> HIDE DEF q, o
<1>3. Decided(q)
  BY <1>0, <1>2 DEF Decided, DecidedAssign, DecidedTask, DecidedReturn, DecidedProfile
<1>4. Fresh(q)
  <2>1. q.status = "NONE" /\ q.previous = None /\ q.row = None
    BY <1>0, <1>2 DEF Decided, DecidedReturn
  <2> QED
    BY <1>0, <1>2, <2>1 DEF Fresh, FreshShipment, FreshDriver, FreshAssignment, FreshPrevious
<1> QED
  BY <1>0, <1>1, <1>3, <1>4, ReadShaped

(* When the conditional writes find the versions they expect, the rows are  *)
(* as they were read.                                                       *)
LEMMA ReadShipmentCurrent ==
    ASSUME Formed, SnapshotFresh, NEW r \in Requests, req[r].ship # None, ShipmentUnchanged(r)
    PROVE  ship[req[r].shipment] = req[r].ship
BY CurrentFresh DEF ShipmentUnchanged, Fresh, FreshShipment

(* When the driver write succeeds, the driver is the one that was read. *)
LEMMA ReadDriverCurrent ==
    ASSUME Formed, SnapshotFresh, NEW r \in Requests, req[r].row # None,
           DriverUnchanged(req[r].driver, req[r].row)
    PROVE  /\ driver[req[r].driver].status = req[r].row.status
           /\ driver[req[r].driver].caps = req[r].row.caps
           /\ driver[req[r].driver].warehouse = req[r].row.warehouse
           /\ req[r].row.user = "ACTIVE" => driver[req[r].driver].user = "ACTIVE"
           /\ req[r].cmd \in {"setOnline", "setOffline", "updateProfile"} /\ req[r].pc = "read"
                => req[r].busy = (ActiveOfDriver(req[r].driver) # {})
<1> DEFINE q == req[r]
<1>1. /\ q.row = [driver[q.driver] EXCEPT !.user = q.row.user]
      /\ q.row.user = "ACTIVE" => driver[q.driver].user = "ACTIVE"
      /\ q.cmd \in {"setOnline", "setOffline", "updateProfile"} /\ q.pc = "read"
           => q.busy = (ActiveOfDriver(q.driver) # {})
  BY CurrentFresh DEF DriverUnchanged, Fresh, FreshDriver
<1>2. q.driver \in Drivers /\ driver[q.driver] \in DriverRow
  BY CurrentDecided, ReadNames DEF Formed, TypeOK
<1> HIDE DEF q
<1>3. [driver[q.driver] EXCEPT !.user = q.row.user].status = driver[q.driver].status
  BY <1>2 DEF DriverRow
<1>4. [driver[q.driver] EXCEPT !.user = q.row.user].caps = driver[q.driver].caps
  BY <1>2 DEF DriverRow
<1>5. [driver[q.driver] EXCEPT !.user = q.row.user].warehouse = driver[q.driver].warehouse
  BY <1>2 DEF DriverRow
<1>6. /\ driver[q.driver].status = q.row.status
      /\ driver[q.driver].caps = q.row.caps
      /\ driver[q.driver].warehouse = q.row.warehouse
  BY <1>1, <1>3, <1>4, <1>5
<1> QED
  BY <1>1, <1>6 DEF q

(* A commit ends its request. *)
LEMMA EndEnds == ASSUME NEW r \in Requests, End(r) PROVE Ends
BY DEF Ends

(* assign and delivery assign give a free parcel to a free, eligible        *)
(* driver.                                                                  *)
LEMMA CommitAssignShaped ==
    ASSUME IInv, NEW r \in Requests, CommitAssign(r) \/ CommitAssignDelivery(r)
    PROVE  Shaped
<1> DEFINE q == req[r]
           type == IF q.cmd = "assign" THEN "PICKUP" ELSE "DELIVERY"
           status == IF q.cmd = "assign" THEN "PICKUP_ASSIGNED" ELSE "DELIVERY_ASSIGNED"
<1>0. Formed /\ SnapshotFresh
  BY DEF IInv
<1>1. /\ q.cmd \in {"assign", "assignDelivery"} /\ q.pc = "read"
      /\ ~ExecutingTrip(q.driver) /\ asg[q.key].status = "NONE"
      /\ ActiveOfDriver(q.driver) = {}
      /\ DriverUnchanged(q.driver, q.row) /\ ShipmentUnchanged(r)
      /\ asg' = [asg EXCEPT ![q.key] = NewAssignment(q.shipment, q.driver, type)]
      /\ driver' = SetDriver(q.driver, "BUSY")
      /\ ship' = SetShipment(q.shipment, status)
      /\ End(r) /\ UNCHANGED <<attempt, proof, cod, trip>>
  BY DEF CommitAssign, CommitAssignDelivery, At, NoActiveLineHaulTrip, NoActiveAssignment,
     AssignmentFits
<1>2. /\ q.shipment \in Shipments /\ q.key \in Assignments /\ q.driver \in Drivers
      /\ q.ship # None /\ q.row # None /\ q.ship.status \notin InHands
      /\ q.ship.status # "DELIVERED" /\ Eligible(q.row, type)
  BY <1>0, <1>1, CurrentDecided, NoneAssumption DEF Decided, DecidedAssign, InHands
<1>3. ship[q.shipment].status \notin InHands /\ ship[q.shipment].status # "DELIVERED"
  BY <1>0, <1>1, <1>2, ReadShipmentCurrent
<1>4. driver[q.driver].user = "ACTIVE" /\ type \in driver[q.driver].caps
  BY <1>0, <1>1, <1>2, ReadDriverCurrent DEF Eligible
<1>5. /\ type \in {"PICKUP", "DELIVERY"} /\ status \in ShipmentStatus
      /\ <<type, "PENDING", status>> \in Leg
  BY DEF ShipmentStatus, Leg
<1>6. OthersTyped /\ RecordsKept /\ Ends
  BY <1>0, <1>1, EndEnds DEF OthersTyped, RecordsKept, Formed, TypeOK
<1> HIDE DEF q, type, status
<1>7. AssignsTask(q.key, q.shipment, q.driver, type, status)
  BY <1>1, <1>2, <1>3, <1>4, <1>5, <1>6 DEF AssignsTask
<1> QED
  BY <1>2, <1>5, <1>7 DEF Shaped

(* reassign hands an active pickup over, although it cancels it by id. *)
LEMMA CommitReassignShaped ==
    ASSUME IInv, NEW r \in Requests, CommitReassign(r)
    PROVE  Shaped
<1> DEFINE q == req[r]
           p == q.previous
           e == asg[p].driver
           status == IF q.previousRow.user = "ACTIVE" /\ IsOnline(q.previousRow)
                     THEN "AVAILABLE" ELSE "OFFLINE"
<1>0. Formed /\ SnapshotFresh /\ WorkInv
  BY DEF IInv
<1>1. /\ q.cmd = "reassign" /\ q.pc = "read"
      /\ ~ExecutingTrip(q.driver) /\ asg[q.key].status = "NONE"
      /\ ActiveOfDriver(q.driver) \subseteq {p}
      /\ DriverUnchanged(q.driver, q.row) /\ ShipmentUnchanged(r)
      /\ asg' = [asg EXCEPT ![p].status = "CANCELLED",
                            ![q.key] = NewAssignment(q.shipment, q.driver, "PICKUP")]
      /\ driver' = [driver EXCEPT ![e] = Written(driver[e], status),
                                  ![q.driver] = Written(driver[q.driver], "BUSY")]
      /\ ship' = SetShipment(q.shipment, "PICKUP_ASSIGNED")
      /\ End(r) /\ UNCHANGED <<attempt, proof, cod, trip>>
  BY DEF CommitReassign, At, NoActiveLineHaulTrip, AssignmentFits
<1>2. /\ q.key \in Assignments /\ q.driver \in Drivers /\ p \in Assignments /\ p # None
      /\ q.ship # None /\ q.row # None
      /\ q.ship.status \in {"PICKUP_ASSIGNED", "PICKUP_IN_PROGRESS"}
      /\ Eligible(q.row, "PICKUP")
  BY <1>0, <1>1, CurrentDecided, NoneAssumption DEF Decided, DecidedAssign
<1>3. ship[q.shipment] = q.ship
  BY <1>0, <1>1, <1>2, ReadShipmentCurrent
<1>4. /\ asg[p].shipment = q.shipment /\ e # q.driver /\ asg[p].status \in Active
  BY <1>0, <1>2, <1>3, CurrentFresh DEF Fresh, FreshPrevious
<1>5. asg[p].type = "PICKUP"
  <2>1. <<asg[p].type, asg[p].status, ship[q.shipment].status>> \in Leg
    BY <1>0, <1>2, <1>4 DEF WorkInv, AssignmentMatchesShipment
  <2> QED
    BY <2>1, <1>2, <1>3 DEF Leg
<1>6. ActiveOfDriver(q.driver) = {}
  BY <1>1, <1>4 DEF ActiveOfDriver
<1>7. driver[q.driver].user = "ACTIVE" /\ "PICKUP" \in driver[q.driver].caps
  BY <1>0, <1>1, <1>2, ReadDriverCurrent DEF Eligible
<1>8. status \in {"AVAILABLE", "OFFLINE"} /\ status \in DriverStatus
  BY DEF DriverStatus
<1>9. OthersTyped /\ RecordsKept /\ Ends
  BY <1>0, <1>1, EndEnds DEF OthersTyped, RecordsKept, Formed, TypeOK
<1> HIDE DEF q, status
<1>10. HandsOver(p, q.key, q.driver, status)
  BY <1>1, <1>2, <1>4, <1>5, <1>6, <1>7, <1>8, <1>9 DEF HandsOver
<1> QED
  BY <1>2, <1>8, <1>10 DEF Shaped

(* The attempt number is a number: keys are finitely many. *)
LEMMA AttemptCount == \A s : Cardinality(AttemptsOf(s)) \in Nat
<1>1. \A s : AttemptsOf(s) \subseteq Assignments
  BY DEF AttemptsOf
<1> QED
  BY <1>1, KeysAssumption, FS_Subset, FS_CardinalityType

(* The task a request has read is its task still. *)
LEMMA ReadTaskCurrent ==
    ASSUME IInv, NEW r \in Requests, req[r].pc = "read",
           req[r].cmd \in {"accept", "reject", "pickup", "start", "complete", "fail"},
           ShipmentUnchanged(r)
    PROVE  /\ req[r].key \in Assignments /\ req[r].shipment \in Shipments
           /\ req[r].driver \in Drivers /\ req[r].row # None /\ req[r].row \in DriverRow
           /\ ship[req[r].shipment] = req[r].ship
           /\ asg[req[r].key].shipment = req[r].shipment
           /\ asg[req[r].key].driver = req[r].driver
           /\ asg[req[r].key].status = req[r].status
           /\ req[r].status \in Active
           /\ <<asg[req[r].key].type, req[r].status, req[r].ship.status>> \in Leg
<1> DEFINE q == req[r]
<1>0. Formed /\ SnapshotFresh /\ WorkInv
  BY DEF IInv
<1>1. /\ q.key \in Assignments /\ q.shipment \in Shipments /\ q.driver \in Drivers
      /\ q.ship # None /\ q.row # None /\ q.row \in DriverRow /\ q.status \in Active
  BY <1>0, CurrentDecided, NoneAssumption DEF Decided, DecidedTask
<1>2. ship[q.shipment] = q.ship
  BY <1>0, <1>1, ReadShipmentCurrent
<1>3. /\ asg[q.key].shipment = q.shipment /\ asg[q.key].driver = q.driver
      /\ asg[q.key].status = q.status
  BY <1>0, <1>1, <1>2, CurrentFresh DEF Fresh, FreshAssignment, Active
<1>4. <<asg[q.key].type, q.status, q.ship.status>> \in Leg
  BY <1>0, <1>1, <1>2, <1>3 DEF WorkInv, AssignmentMatchesShipment
<1> QED
  BY <1>1, <1>2, <1>3, <1>4

(* Writing ACCEPTED on a current, pending task begins it. *)
LEMMA AdvanceShaped ==
    ASSUME IInv, NEW r \in Requests, NEW status \in ShipmentStatus, req[r].pc = "read",
           req[r].cmd \in {"accept", "start"}, ShipmentUnchanged(r),
           asg[req[r].key].status = "PENDING",
           req[r].cmd = "accept" => status = "PICKUP_IN_PROGRESS",
           req[r].cmd = "start" => status = "OUT_FOR_DELIVERY",
           asg' = SetAssignment(req[r].key, "ACCEPTED"),
           ship' = SetShipment(req[r].shipment, status),
           UNCHANGED <<driver, trip>>, OthersTyped, RecordsStart(req[r].key), End(r)
    PROVE  Shaped
<1> DEFINE q == req[r]
<1>1. /\ q.key \in Assignments /\ asg[q.key].shipment = q.shipment
      /\ <<asg[q.key].type, q.status, q.ship.status>> \in Leg
  BY ReadTaskCurrent
<1>2. /\ q.cmd = "accept" => q.ship.status = "PICKUP_ASSIGNED"
      /\ q.cmd = "start" => q.ship.status = "DELIVERY_ASSIGNED"
  BY CurrentDecided DEF IInv, Decided, DecidedTask
<1>3. <<asg[q.key].type, "ACCEPTED", status>> \in Leg
  BY <1>1, <1>2 DEF Leg
<1> HIDE DEF q
<1>4. Advances(q.key, status)
  BY <1>1, <1>3, EndEnds DEF Advances, q
<1> QED
  BY <1>1, <1>4 DEF Shaped

(* accept does that, *)
LEMMA CommitAcceptShaped ==
    ASSUME IInv, NEW r \in Requests, CommitAccept(r)
    PROVE  Shaped
<1>1. OthersTyped
  BY DEF CommitAccept, OthersTyped, IInv, Formed, TypeOK
<1>2. asg[req[r].key].type = "PICKUP"
  <2>1. req[r].cmd = "accept" /\ req[r].pc = "read" /\ ShipmentUnchanged(r)
    BY DEF CommitAccept, At
  <2>2. /\ <<asg[req[r].key].type, req[r].status, req[r].ship.status>> \in Leg
        /\ req[r].ship.status = "PICKUP_ASSIGNED"
    BY <2>1, ReadTaskCurrent, CurrentDecided DEF IInv, Decided, DecidedTask
  <2> QED
    BY <2>2 DEF Leg
<1>3. RecordsStart(req[r].key)
  BY <1>2 DEF CommitAccept, RecordsStart, RecordsKept
<1> QED
  BY <1>1, <1>3, AdvanceShaped DEF CommitAccept, At, ShipmentStatus

(* and start, which does not compare the assignment. *)
LEMMA CommitStartShaped ==
    ASSUME IInv, NEW r \in Requests, CommitStart(r)
    PROVE  Shaped
<1> DEFINE q == req[r]
           n == Cardinality(AttemptsOf(q.shipment)) + 1
<1>1. /\ At(r, "start", "read") /\ ShipmentUnchanged(r) /\ End(r)
      /\ asg' = SetAssignment(q.key, "ACCEPTED")
      /\ ship' = SetShipment(q.shipment, "OUT_FOR_DELIVERY")
      /\ attempt' = [attempt EXCEPT ![q.key] = [number |-> n, status |-> "OUT_FOR_DELIVERY"]]
      /\ UNCHANGED <<proof, cod, driver, trip>>
  BY DEF CommitStart
<1>2. n \in Nat
  BY AttemptCount
<1>5. RecordsStart(q.key)
  <2>1. q.ship.status = "DELIVERY_ASSIGNED"
    BY <1>1, CurrentDecided DEF IInv, Decided, DecidedTask, At
  <2>2. /\ asg[q.key].shipment = q.shipment
        /\ <<asg[q.key].type, q.status, q.ship.status>> \in Leg
    BY <1>1, ReadTaskCurrent DEF At
  <2>3. asg[q.key].type = "DELIVERY"
    BY <2>1, <2>2 DEF Leg
  <2> QED
    BY <1>1, <2>2, <2>3 DEF RecordsStart
<1> HIDE DEF n
<1>3. OthersTyped
  BY <1>1, <1>2 DEF OthersTyped, IInv, Formed, TypeOK, AttemptRow
<1>4. asg[q.key].status = "PENDING"
  <2>1. q.status = "PENDING"
    BY <1>1, CurrentDecided DEF IInv, Decided, DecidedTask, At
  <2> QED
    BY <1>1, <2>1, ReadTaskCurrent DEF At
<1> QED
  BY <1>1, <1>3, <1>4, <1>5, AdvanceShaped DEF At, ShipmentStatus

(* Writing a closing status on a current task closes it. *)
LEMMA CloseShaped ==
    ASSUME IInv, NEW r \in Requests, NEW outcome \in Closed, NEW row \in ShipmentRow,
           NEW status \in {"AVAILABLE", "OFFLINE", "SUSPENDED"}, req[r].pc = "read",
           req[r].cmd \in {"reject", "pickup", "complete", "fail"}, ShipmentUnchanged(r),
           row.status \notin InHands, row.version = ship[req[r].shipment].version + 1,
           asg' = SetAssignment(req[r].key, outcome),
           ship' = [ship EXCEPT ![req[r].shipment] = row],
           driver' = SetDriver(req[r].driver, status),
           UNCHANGED trip, OthersTyped, RecordsEnd(req[r].key, outcome, row.status), End(r)
    PROVE  Shaped
<1>1. /\ req[r].key \in Assignments /\ asg[req[r].key].shipment = req[r].shipment
      /\ asg[req[r].key].driver = req[r].driver /\ asg[req[r].key].status \in Active
  BY ReadTaskCurrent
<1>2. Closes(req[r].key, outcome, row, status)
  BY <1>1, EndEnds DEF Closes
<1> QED
  BY <1>1, <1>2 DEF Shaped, DriverStatus

(* The parcel of a closing command tells which kind of task it closes. *)
LEMMA ClosedTask ==
    ASSUME IInv, NEW r \in Requests, req[r].pc = "read",
           req[r].cmd \in {"reject", "pickup", "complete", "fail"}, ShipmentUnchanged(r)
    PROVE  /\ asg[req[r].key].shipment = req[r].shipment /\ asg[req[r].key].driver = req[r].driver
           /\ req[r].cmd \in {"reject", "pickup"} => asg[req[r].key].type = "PICKUP"
           /\ req[r].cmd \in {"complete", "fail"} => /\ asg[req[r].key].type = "DELIVERY"
                                                     /\ asg[req[r].key].status = "ACCEPTED"
<1>1. /\ asg[req[r].key].shipment = req[r].shipment /\ asg[req[r].key].driver = req[r].driver
      /\ asg[req[r].key].status = req[r].status
      /\ <<asg[req[r].key].type, req[r].status, req[r].ship.status>> \in Leg
  BY ReadTaskCurrent
<1>2. /\ req[r].cmd = "reject" => req[r].ship.status \in {"PICKUP_ASSIGNED", "PICKUP_IN_PROGRESS"}
      /\ req[r].cmd = "pickup" => req[r].ship.status = "PICKUP_IN_PROGRESS"
      /\ req[r].cmd \in {"complete", "fail"} => /\ req[r].status = "ACCEPTED"
                                                /\ req[r].ship.status = "OUT_FOR_DELIVERY"
  BY CurrentDecided DEF IInv, Decided, DecidedTask
<1> QED
  BY <1>1, <1>2 DEF Leg

(* The parcel written by a closing command has the next version. *)
LEMMA WrittenCurrent ==
    ASSUME IInv, NEW r \in Requests, NEW status \in ShipmentStatus, req[r].pc = "read",
           req[r].cmd \in {"reject", "pickup", "complete", "fail"}, ShipmentUnchanged(r)
    PROVE  /\ Written(ship[req[r].shipment], status) \in ShipmentRow
           /\ Written(ship[req[r].shipment], status).status = status
           /\ Written(ship[req[r].shipment], status).version = ship[req[r].shipment].version + 1
<1>1. req[r].shipment \in Shipments
  BY ReadTaskCurrent
<1>2. ship[req[r].shipment] \in ShipmentRow
  BY <1>1 DEF IInv, Formed, TypeOK
<1> QED
  BY <1>2, WrittenShipment

(* reject closes the task, *)
LEMMA CommitRejectShaped ==
    ASSUME IInv, NEW r \in Requests, CommitReject(r)
    PROVE  Shaped
<1> DEFINE q == req[r]
           row == Written(ship[q.shipment], "AWAITING_PICKUP_ASSIGNMENT")
           status == IF q.row.user = "ACTIVE" /\ IsOnline(q.row) THEN "AVAILABLE"
                     ELSE IF q.row.status = "SUSPENDED" THEN "SUSPENDED" ELSE "OFFLINE"
<1>1. /\ q.pc = "read" /\ q.cmd = "reject" /\ ShipmentUnchanged(r) /\ End(r)
      /\ asg' = SetAssignment(q.key, "REJECTED")
      /\ ship' = [ship EXCEPT ![q.shipment] = row]
      /\ driver' = SetDriver(q.driver, status)
      /\ UNCHANGED <<attempt, proof, cod, trip>>
  BY DEF CommitReject, At, SetShipment
<1>2. /\ row \in ShipmentRow /\ row.status = "AWAITING_PICKUP_ASSIGNMENT"
      /\ row.version = ship[q.shipment].version + 1
  BY <1>1, WrittenCurrent DEF ShipmentStatus
<1>3. status \in {"AVAILABLE", "OFFLINE", "SUSPENDED"}
  OBVIOUS
<1>4. OthersTyped /\ RecordsEnd(q.key, "REJECTED", row.status)
  BY <1>1, <1>2, ClosedTask DEF OthersTyped, RecordsEnd, IInv, Formed, TypeOK
<1> HIDE DEF row, status
<1> QED
  BY <1>1, <1>2, <1>3, <1>4, CloseShaped DEF InHands, Closed

(* pickup does, *)
LEMMA CommitPickupShaped ==
    ASSUME IInv, NEW r \in Requests, CommitPickup(r)
    PROVE  Shaped
<1> DEFINE q == req[r]
           old == Written(ship[q.shipment], "PICKED_UP")
           row == [old EXCEPT !.origin = q.row.warehouse]
<1>1. /\ q.pc = "read" /\ q.cmd = "pickup" /\ ShipmentUnchanged(r) /\ End(r)
      /\ asg' = SetAssignment(q.key, "COMPLETED")
      /\ ship' = [ship EXCEPT ![q.shipment] = row]
      /\ driver' = SetDriver(q.driver, Released(q.row))
      /\ proof' = proof \cup {q.key}
      /\ UNCHANGED <<attempt, cod, trip>>
  BY DEF CommitPickup, At
<1>2. /\ old \in ShipmentRow /\ old.status = "PICKED_UP"
      /\ old.version = ship[q.shipment].version + 1
  BY <1>1, WrittenCurrent DEF ShipmentStatus
<1>3. q.key \in Assignments /\ q.row.warehouse \in Warehouses
  BY <1>1, ReadTaskCurrent DEF DriverRow
<1> HIDE DEF old
<1>4. /\ row \in ShipmentRow /\ row.status = "PICKED_UP"
      /\ row.version = ship[q.shipment].version + 1
  BY <1>2, <1>3, ShipmentRowExcept
<1>5. Released(q.row) \in {"AVAILABLE", "OFFLINE", "SUSPENDED"}
  BY DEF Released
<1>6. OthersTyped /\ RecordsEnd(q.key, "COMPLETED", row.status)
  BY <1>1, <1>3, <1>4, ClosedTask DEF OthersTyped, RecordsEnd, IInv, Formed, TypeOK
<1> HIDE DEF row
<1> QED
  BY <1>1, <1>4, <1>5, <1>6, CloseShaped DEF InHands, Closed

(* complete does, without comparing the assignment, *)
LEMMA CommitCompleteShaped ==
    ASSUME IInv, NEW r \in Requests, CommitComplete(r)
    PROVE  Shaped
<1> DEFINE q == req[r]
           row == Written(ship[q.shipment], "DELIVERED")
<1>1. /\ q.pc = "read" /\ q.cmd = "complete" /\ ShipmentUnchanged(r) /\ End(r)
      /\ asg' = SetAssignment(q.key, "COMPLETED")
      /\ ship' = [ship EXCEPT ![q.shipment] = row]
      /\ driver' = SetDriver(q.driver, Released(q.row))
      /\ proof' = proof \cup {q.key}
      /\ attempt' = [attempt EXCEPT ![q.key].status = "DELIVERED"]
      /\ q.shipment \in CodShipments => cod[q.shipment] = None
      /\ cod' = IF q.shipment \in CodShipments THEN [cod EXCEPT ![q.shipment] = q.driver] ELSE cod
      /\ UNCHANGED trip
  BY DEF CommitComplete, At, SetShipment
<1>2. /\ row \in ShipmentRow /\ row.status = "DELIVERED"
      /\ row.version = ship[q.shipment].version + 1
  BY <1>1, WrittenCurrent DEF ShipmentStatus
<1>3. q.key \in Assignments /\ q.driver \in Drivers
  BY <1>1, ReadTaskCurrent
<1>4. Released(q.row) \in {"AVAILABLE", "OFFLINE", "SUSPENDED"}
  BY DEF Released
<1>5. OthersTyped
  BY <1>1, <1>3 DEF OthersTyped, IInv, Formed, TypeOK, AttemptRow
<1>6. RecordsEnd(q.key, "COMPLETED", row.status)
  BY <1>1, <1>2, ClosedTask DEF RecordsEnd
<1> HIDE DEF row
<1> QED
  BY <1>1, <1>2, <1>4, <1>5, <1>6, CloseShaped DEF InHands, Closed

(* and fail does, without comparing it either. *)
LEMMA CommitFailShaped ==
    ASSUME IInv, NEW r \in Requests, CommitFail(r)
    PROVE  Shaped
<1> DEFINE q == req[r]
           row == Written(ship[q.shipment], "DELIVERY_FAILED")
<1>1. /\ q.pc = "read" /\ q.cmd = "fail" /\ ShipmentUnchanged(r) /\ End(r)
      /\ asg' = SetAssignment(q.key, "COMPLETED")
      /\ ship' = [ship EXCEPT ![q.shipment] = row]
      /\ driver' = SetDriver(q.driver, Released(q.row))
      /\ attempt' = [attempt EXCEPT ![q.key].status = "FAILED"]
      /\ UNCHANGED <<proof, cod, trip>>
  BY DEF CommitFail, At, SetShipment
<1>2. /\ row \in ShipmentRow /\ row.status = "DELIVERY_FAILED"
      /\ row.version = ship[q.shipment].version + 1
  BY <1>1, WrittenCurrent DEF ShipmentStatus
<1>3. Released(q.row) \in {"AVAILABLE", "OFFLINE", "SUSPENDED"}
  BY DEF Released
<1>4. OthersTyped
  BY <1>1 DEF OthersTyped, IInv, Formed, TypeOK, AttemptRow
<1>5. RecordsEnd(q.key, "COMPLETED", row.status)
  BY <1>1, <1>2, ClosedTask DEF RecordsEnd
<1> HIDE DEF row
<1> QED
  BY <1>1, <1>2, <1>3, <1>4, <1>5, CloseShaped DEF InHands, Closed

(* startReturn moves a parcel that nobody holds. *)
LEMMA CommitStartReturnShaped ==
    ASSUME IInv, NEW r \in Requests, CommitStartReturn(r)
    PROVE  Shaped
<1>1. /\ req[r].shipment \in Shipments /\ req[r].ship # None
      /\ req[r].ship.status = "RETURN_REQUESTED"
  BY CurrentDecided, NoneAssumption DEF CommitStartReturn, At, IInv, Decided, DecidedReturn
<1>2. /\ ship[req[r].shipment].status \notin InHands
      /\ ship[req[r].shipment].status # "DELIVERED"
  BY <1>1, ReadShipmentCurrent DEF CommitStartReturn, IInv, InHands
<1> QED
  BY <1>1, <1>2, ShipmentSetShaped, EndEnds DEF CommitStartReturn, IInv, InHands, ShipmentStatus

(* Every step of a pickup command has a shape. *)
LEMMA PickupStepShaped == IInv /\ PickupStep => Shaped
BY AssignReadShaped, AssignReadDriverShaped, ReassignReadDriversShaped, CommitAssignShaped,
   CommitReassignShaped, TaskReadShaped, CommitAcceptShaped, CommitRejectShaped,
   CommitPickupShaped DEF PickupStep, IInv

(* Every step of a delivery or return command has a shape. *)
LEMMA DeliveryStepShaped == IInv /\ DeliveryStep => Shaped
BY AssignDeliveryReadShaped, AssignReadDriverShaped, CommitAssignShaped, TaskReadShaped,
   CommitStartShaped, CommitCompleteShaped, CommitFailShaped, StartReturnReadShaped,
   StartReturnReadSupersedingShaped, CommitStartReturnShaped DEF DeliveryStep, IInv

(* The first read of a profile command has the shape Reads. *)
LEMMA ProfileReadShaped ==
    ASSUME Formed, NEW r \in Requests, NEW d \in Drivers, NEW w \in Warehouses \cup {None},
           NEW cmd \in {"setOnline", "setOffline", "updateProfile", "restoreProfile"},
           cmd = "updateProfile" => w \in Warehouses, ProfileRead(r, cmd, d, w)
    PROVE  Shaped
<1> DEFINE q == [Idle EXCEPT !.cmd = cmd, !.pc = "reading", !.driver = d,
                             !.warehouse = w, !.row = driver[d]]
<1>0. driver[d] \in DriverRow
  BY DEF Formed, TypeOK
<1>1. q \in Request
  BY <1>0 DEF Idle, Request, Commands
<1>2. /\ q.cmd = cmd /\ q.pc = "reading" /\ q.driver = d /\ q.warehouse = w /\ q.row = driver[d]
      /\ q.ship = None /\ q.status = "NONE" /\ q.previous = None
  BY DEF Idle
<1> HIDE DEF q
<1>3. Decided(q)
  BY <1>0, <1>2 DEF Decided, DecidedAssign, DecidedTask, DecidedReturn, DecidedProfile
<1>4. Fresh(q)
  <2>1. FreshShipment(q) /\ FreshAssignment(q) /\ FreshPrevious(q)
    BY <1>2 DEF FreshShipment, FreshAssignment, FreshPrevious
  <2>2. driver[d] = [driver[d] EXCEPT !.user = driver[d].user] /\ driver[d].version \in Nat
    BY <1>0 DEF DriverRow
  <2>3. FreshDriver(q)
    BY <1>2, <2>2 DEF FreshDriver
  <2> QED
    BY <2>1, <2>3 DEF Fresh
<1> QED
  BY <1>1, <1>3, <1>4, ReadShaped DEF ProfileRead, Begin, q

(* Counting the active assignments has the shape Reads. *)
LEMMA CountActiveAssignmentsShaped ==
    ASSUME Formed, SnapshotFresh, NEW r \in Requests, CountActiveAssignments(r)
    PROVE  Shaped
<1> DEFINE o == req[r]
           busy == ~NoActiveAssignment(o.driver)
           q == [o EXCEPT !.pc = "read", !.busy = busy]
<1>0. /\ o \in Request /\ Decided(o) /\ Fresh(o)
  BY CurrentFresh, CurrentDecided
<1>1. /\ o.cmd \in {"setOnline", "setOffline", "updateProfile", "restoreProfile"}
      /\ o.pc = "reading" /\ RowsUnchanged
      /\ o.cmd = "setOffline" => ~busy
      /\ o.cmd = "updateProfile" /\ busy => o.warehouse = o.row.warehouse
  BY DEF CountActiveAssignments
<1>2. req' = [req EXCEPT ![r] = q]
  BY DEF CountActiveAssignments, Continue
<1>b. busy \in BOOLEAN
  OBVIOUS
<1> HIDE DEF busy
<1>3. q \in Request
  <2>1. PICK x : x = [o EXCEPT !.pc = "read"]
    OBVIOUS
  <2>2. x \in Request
    BY <1>0, <2>1 DEF Request
  <2>3. [x EXCEPT !.busy = busy] \in Request
    BY <1>b, <2>2 DEF Request
  <2>4. q = [x EXCEPT !.busy = busy]
    BY <2>1
  <2> QED
    BY <2>3, <2>4
<1>4. /\ q.cmd = o.cmd /\ q.pc = "read" /\ q.driver = o.driver /\ q.warehouse = o.warehouse
      /\ q.row = o.row /\ q.ship = o.ship /\ q.status = o.status /\ q.previous = o.previous
      /\ q.busy = busy
  BY <1>0 DEF Request
<1> HIDE DEF q
<1>5. Decided(q)
  BY <1>0, <1>1, <1>4 DEF Decided, DecidedAssign, DecidedTask, DecidedReturn, DecidedProfile
<1>6. Fresh(q)
  <2>1. q.ship = None /\ q.status = "NONE" /\ q.previous = None
    BY <1>0, <1>1, <1>4 DEF Decided, DecidedProfile
  <2>2. FreshShipment(q) /\ FreshAssignment(q) /\ FreshPrevious(q)
    BY <2>1 DEF FreshShipment, FreshAssignment, FreshPrevious
  <2>3. FreshDriver(o)
    BY <1>0 DEF Fresh
  <2>4. FreshDriver(q)
    BY <1>4, <2>3 DEF FreshDriver, NoActiveAssignment, busy
  <2> QED
    BY <2>2, <2>4 DEF Fresh
<1> QED
  BY <1>1, <1>2, <1>3, <1>5, <1>6, ReadShaped

(* A driver with work, and one who executes a trip, before the change. *)
LEMMA WorkerFacts ==
    ASSUME IInv, NEW d \in Drivers
    PROVE  /\ driver[d] \in DriverRow
           /\ \A a \in ActiveOfDriver(d) : driver[d].user = "ACTIVE" /\ asg[a].type \in driver[d].caps
           /\ ExecutingTrip(d) => LineHaulEligible(driver[d])
           /\ driver[d].status = "BUSY" => ActiveOfDriver(d) # {}
           /\ driver[d].status \in {"AVAILABLE", "SUSPENDED"} => ActiveOfDriver(d) = {}
<1>1. driver[d] \in DriverRow
  BY DEF IInv, Formed, TypeOK
<1>2. \A a \in ActiveOfDriver(d) : driver[d].user = "ACTIVE" /\ asg[a].type \in driver[d].caps
  BY DEF IInv, WorkInv, WorkerStaysEligible, ActiveOfDriver
<1>3. ExecutingTrip(d) => LineHaulEligible(driver[d])
  BY DEF IInv, WorkInv, WorkerStaysEligible, ExecutingTrip
<1> QED
  BY <1>1, <1>2, <1>3 DEF IInv, WorkInv, DriverStatusTruthful

(* A status that is true of the work is a legal profile change. *)
LEMMA DriverSetShaped ==
    ASSUME IInv, NEW d \in Drivers, NEW status \in DriverStatus, driver' = SetDriver(d, status),
           status = "BUSY" => ActiveOfDriver(d) # {},
           status \in {"AVAILABLE", "SUSPENDED"} => ActiveOfDriver(d) = {},
           status = "SUSPENDED" => ~ExecutingTrip(d),
           UNCHANGED <<ship, asg, attempt, proof, cod, trip>>, Ends
    PROVE  Shaped
<1> DEFINE row == Written(driver[d], status)
<1>1. /\ row \in DriverRow /\ row.status = status /\ row.version = driver[d].version + 1
      /\ row.caps = driver[d].caps /\ row.user = driver[d].user
      /\ row.warehouse = driver[d].warehouse
  BY WorkerFacts, WrittenDriver
<1>2. driver' = [driver EXCEPT ![d] = row]
  BY DEF SetDriver
<1> HIDE DEF row
<1>3. ExecutingTrip(d) => LineHaulEligible(row)
  BY <1>1, WorkerFacts DEF LineHaulEligible
<1>4. ChangesDriver(d, row)
  BY <1>1, <1>2, <1>3, WorkerFacts DEF ChangesDriver
<1> QED
  BY <1>1, <1>4 DEF Shaped

(* Capabilities, warehouse and account may be written along with the        *)
(* status.                                                                  *)
LEMMA DriverRowExcept ==
    ASSUME NEW row \in DriverRow, NEW w \in Warehouses, NEW caps \in SUBSET Capability,
           NEW user \in {"ACTIVE", "SUSPENDED"}
    PROVE  /\ [row EXCEPT !.warehouse = w] \in DriverRow
           /\ [row EXCEPT !.warehouse = w].status = row.status
           /\ [row EXCEPT !.warehouse = w].version = row.version
           /\ [row EXCEPT !.warehouse = w].caps = row.caps
           /\ [row EXCEPT !.warehouse = w].user = row.user
           /\ [row EXCEPT !.warehouse = w].warehouse = w
           /\ [row EXCEPT !.caps = caps] \in DriverRow
           /\ [row EXCEPT !.caps = caps].status = row.status
           /\ [row EXCEPT !.caps = caps].version = row.version
           /\ [row EXCEPT !.caps = caps].caps = caps
           /\ [row EXCEPT !.caps = caps].user = row.user
           /\ [row EXCEPT !.caps = caps].warehouse = row.warehouse
           /\ [row EXCEPT !.user = user] \in DriverRow
           /\ [row EXCEPT !.user = user].status = row.status
           /\ [row EXCEPT !.user = user].version = row.version
           /\ [row EXCEPT !.user = user].caps = row.caps
           /\ [row EXCEPT !.user = user].warehouse = row.warehouse
           /\ [row EXCEPT !.user = user].user = user
BY DEF DriverRow

(* Going online or offline writes a status that is still true. *)
LEMMA CommitAvailabilityShaped ==
    ASSUME IInv, NEW r \in Requests, CommitAvailability(r)
    PROVE  Shaped
<1> DEFINE q == req[r]
           status == IF q.cmd = "setOffline" THEN "OFFLINE" ELSE IF q.busy THEN "BUSY" ELSE "AVAILABLE"
<1>1. /\ q.cmd \in {"setOnline", "setOffline"} /\ q.pc = "read"
      /\ DriverUnchanged(q.driver, q.row) /\ End(r)
      /\ driver' = SetDriver(q.driver, status)
      /\ UNCHANGED <<ship, asg, attempt, proof, cod, trip>>
  BY DEF CommitAvailability, At
<1>2. q.driver \in Drivers /\ q.row # None
  BY <1>1, CurrentDecided, NoneAssumption DEF IInv, Decided, DecidedProfile
<1>3. q.busy = (ActiveOfDriver(q.driver) # {})
  BY <1>1, <1>2, ReadDriverCurrent DEF IInv
<1>4. /\ status \in DriverStatus /\ status # "SUSPENDED"
      /\ status = "BUSY" => ActiveOfDriver(q.driver) # {}
      /\ status = "AVAILABLE" => ActiveOfDriver(q.driver) = {}
  BY <1>3 DEF DriverStatus
<1> HIDE DEF status
<1> QED
  BY <1>1, <1>2, <1>4, DriverSetShaped, EndEnds

(* Restoring a profile writes OFFLINE, of which nothing is claimed. *)
LEMMA CommitRestoreProfileShaped ==
    ASSUME IInv, NEW r \in Requests, CommitRestoreProfile(r)
    PROVE  Shaped
<1>1. req[r].driver \in Drivers
  BY CurrentDecided DEF CommitRestoreProfile, At, IInv, Decided, DecidedProfile
<1> QED
  BY <1>1, DriverSetShaped, EndEnds DEF CommitRestoreProfile, DriverStatus

(* A warehouse change that commits finds the driver idle still. *)
LEMMA CommitUpdateProfileShaped ==
    ASSUME IInv, NEW r \in Requests, CommitUpdateProfile(r)
    PROVE  Shaped
<1> DEFINE q == req[r]
           d == q.driver
           old == Written(driver[d], driver[d].status)
           row == [old EXCEPT !.warehouse = q.warehouse]
<1>1. /\ q.cmd = "updateProfile" /\ q.pc = "read" /\ DriverUnchanged(d, q.row) /\ End(r)
      /\ driver' = [driver EXCEPT ![d] = row]
      /\ UNCHANGED <<ship, asg, attempt, proof, cod, trip>>
  BY DEF CommitUpdateProfile, At
<1>2. /\ d \in Drivers /\ q.row # None /\ q.warehouse \in Warehouses
      /\ q.busy => q.warehouse = q.row.warehouse
  BY <1>1, CurrentDecided, NoneAssumption DEF IInv, Decided, DecidedProfile
<1>3. /\ q.busy = (ActiveOfDriver(d) # {})
      /\ driver[d].warehouse = q.row.warehouse
  BY <1>1, <1>2, ReadDriverCurrent DEF IInv
<1>4. /\ old \in DriverRow /\ old.status = driver[d].status
      /\ old.version = driver[d].version + 1 /\ old.caps = driver[d].caps
      /\ old.user = driver[d].user
  BY <1>2, WrittenDriver, WorkerFacts DEF DriverRow
<1> HIDE DEF old
<1>5. /\ row \in DriverRow /\ row.status = driver[d].status
      /\ row.version = driver[d].version + 1 /\ row.caps = driver[d].caps
      /\ row.user = driver[d].user /\ row.warehouse = q.warehouse
  BY <1>2, <1>4, DriverRowExcept DEF DriverRow
<1> HIDE DEF row
<1>6. ExecutingTrip(d) => LineHaulEligible(row)
  BY <1>2, <1>5, WorkerFacts DEF LineHaulEligible
<1>7. ActiveOfDriver(d) # {} => row.warehouse = driver[d].warehouse
  BY <1>2, <1>3, <1>5
<1> HIDE DEF d
<1>8. ChangesDriver(d, row)
  BY <1>1, <1>2, <1>5, <1>6, <1>7, WorkerFacts, EndEnds DEF ChangesDriver
<1> QED
  BY <1>2, <1>5, <1>8 DEF Shaped

(* Capabilities in use are not removed. *)
LEMMA SetCapabilitiesShaped ==
    ASSUME IInv, NEW d \in Drivers, NEW caps \in CapabilitySets, SetCapabilities(d, caps)
    PROVE  Shaped
<1> DEFINE old == Written(driver[d], driver[d].status)
           row == [old EXCEPT !.caps = caps]
<1>1. driver' = [driver EXCEPT ![d] = row]
  BY DEF SetCapabilities
<1>2. /\ old \in DriverRow /\ old.status = driver[d].status
      /\ old.version = driver[d].version + 1 /\ old.warehouse = driver[d].warehouse
      /\ old.user = driver[d].user
  BY WrittenDriver, WorkerFacts DEF DriverRow
<1>3. caps \in SUBSET Capability
  BY CapabilityAssumption DEF Capability
<1> HIDE DEF old
<1>4. /\ row \in DriverRow /\ row.status = driver[d].status
      /\ row.version = driver[d].version + 1 /\ row.caps = caps
      /\ row.user = driver[d].user /\ row.warehouse = driver[d].warehouse
  BY <1>2, <1>3, DriverRowExcept DEF DriverRow
<1> HIDE DEF row
<1>5. \A a \in ActiveOfDriver(d) : asg[a].type \in caps
  BY WorkerFacts DEF SetCapabilities
<1>6. ExecutingTrip(d) => LineHaulEligible(row)
  BY <1>4, WorkerFacts DEF LineHaulEligible, SetCapabilities, NoActiveLineHaulTrip
<1>7. UNCHANGED <<ship, asg, attempt, proof, cod, trip>> /\ Ends
  BY DEF SetCapabilities, Ends
<1>8. ChangesDriver(d, row)
  BY <1>1, <1>4, <1>5, <1>6, <1>7, WorkerFacts DEF ChangesDriver
<1> QED
  BY <1>4, <1>8 DEF Shaped

(* An account is suspended only while its driver is idle. *)
LEMMA SuspendUserShaped ==
    ASSUME IInv, NEW d \in Drivers, SuspendUser(d)
    PROVE  Shaped
<1> DEFINE old == Written(driver[d], "SUSPENDED")
           row == [old EXCEPT !.user = "SUSPENDED"]
<1>1. /\ driver' = [driver EXCEPT ![d] = row]
      /\ ActiveOfDriver(d) = {} /\ ~ExecutingTrip(d)
      /\ UNCHANGED <<ship, asg, attempt, proof, cod, trip>> /\ Ends
  BY DEF SuspendUser, NoActiveAssignment, NoActiveLineHaulTrip, Ends
<1>2. /\ old \in DriverRow /\ old.status = "SUSPENDED" /\ old.version = driver[d].version + 1
  BY WrittenDriver, WorkerFacts DEF DriverStatus
<1> HIDE DEF old
<1>3. /\ row \in DriverRow /\ row.status = "SUSPENDED" /\ row.version = driver[d].version + 1
  BY <1>2 DEF DriverRow
<1> HIDE DEF row
<1>4. ChangesDriver(d, row)
  BY <1>1, <1>3 DEF ChangesDriver
<1> QED
  BY <1>3, <1>4 DEF Shaped

(* Restoring an account is the one write without a version. *)
LEMMA RestoreUserShaped ==
    ASSUME IInv, NEW d \in Drivers, RestoreUser(d)
    PROVE  Shaped
<1> DEFINE row == [driver[d] EXCEPT !.user = "ACTIVE"]
<1>1. /\ driver' = [driver EXCEPT ![d] = row]
      /\ UNCHANGED <<ship, asg, attempt, proof, cod, trip>> /\ Ends
  BY DEF RestoreUser, Ends
<1>2. /\ row \in DriverRow /\ row.status = driver[d].status /\ row.caps = driver[d].caps
      /\ row.user = "ACTIVE" /\ row.warehouse = driver[d].warehouse
  BY WorkerFacts DEF DriverRow
<1>3. row = [driver[d] EXCEPT !.user = "ACTIVE"]
  OBVIOUS
<1> HIDE DEF row
<1>4. ExecutingTrip(d) => LineHaulEligible(row)
  BY <1>2, WorkerFacts DEF LineHaulEligible
<1>5. ChangesDriver(d, row)
  BY <1>1, <1>2, <1>3, <1>4, WorkerFacts DEF ChangesDriver
<1> QED
  BY <1>2, <1>5 DEF Shaped

(* Every step of a profile command has a shape. *)
LEMMA ProfileStepShaped == IInv /\ ProfileStep => Shaped
<1> SUFFICES ASSUME IInv, ProfileStep PROVE Shaped
  OBVIOUS
<1>1. ASSUME NEW r \in Requests, NEW d \in Drivers,
             \/ AvailabilityRead(r, "setOnline", d) \/ AvailabilityRead(r, "setOffline", d)
             \/ RestoreProfileRead(r, d)
             \/ \E w \in Warehouses : UpdateProfileRead(r, d, w)
      PROVE  Shaped
  BY <1>1, ProfileReadShaped DEF AvailabilityRead, RestoreProfileRead, UpdateProfileRead, IInv
<1>2. ASSUME NEW r \in Requests,
             \/ CountActiveAssignments(r) \/ CommitAvailability(r)
             \/ CommitUpdateProfile(r) \/ CommitRestoreProfile(r)
      PROVE  Shaped
  BY <1>2, CountActiveAssignmentsShaped, CommitAvailabilityShaped, CommitUpdateProfileShaped,
     CommitRestoreProfileShaped DEF IInv
<1>3. ASSUME NEW d \in Drivers, SuspendProfile(d) PROVE Shaped
  BY <1>3, DriverSetShaped DEF SuspendProfile, NoActiveAssignment, NoActiveLineHaulTrip,
     DriverStatus, Ends
<1> QED
  BY <1>1, <1>2, <1>3, SuspendUserShaped, RestoreUserShaped, SetCapabilitiesShaped DEF ProfileStep

(* A trip step whose driver is free for it has the shape ChangesTrip. *)
LEMMA TripShaped ==
    ASSUME NEW t \in Trips, NEW d \in Drivers, NEW status \in {"PLANNED", "READY", "IN_TRANSIT",
             "ARRIVED", "CANCELLED"},
           status \in Executing => LineHaulEligible(driver[d]) /\ ActiveOfDriver(d) = {},
           trip' = [trip EXCEPT ![t] = [driver |-> d, status |-> status]],
           UNCHANGED <<ship, asg, attempt, proof, cod, driver, req>>
    PROVE  Shaped
<1> DEFINE row == [driver |-> d, status |-> status]
<1>1. row \in TripRow /\ row.driver = d /\ row.status = status
  BY DEF TripRow
<1> HIDE DEF row
<1>2. ChangesTrip(t, row)
  BY <1>1 DEF ChangesTrip, row
<1> QED
  BY <1>1, <1>2 DEF Shaped

(* Every step of a trip has that shape. *)
LEMMA TripStepShaped == IInv /\ TripStep => Shaped
<1> SUFFICES ASSUME IInv, NEW t \in Trips,
                    \/ \E d \in Drivers : CreateTrip(t, d)
                    \/ PrepareTrip(t) \/ DispatchTrip(t) \/ ArriveTrip(t) \/ CancelTrip(t)
             PROVE  Shaped
  BY DEF TripStep
<1> USE DEF Executing
<1>1. ASSUME NEW d \in Drivers, CreateTrip(t, d) PROVE Shaped
  BY <1>1, TripShaped DEF CreateTrip
<1>2. ASSUME trip[t].status # "NONE", NEW status
      PROVE  /\ trip[t].driver \in Drivers
             /\ [trip EXCEPT ![t].status = status]
                  = [trip EXCEPT ![t] = [driver |-> trip[t].driver, status |-> status]]
  <2>1. trip[t].driver \in Drivers /\ trip[t] \in TripRow
    BY <1>2 DEF IInv, Formed, TypeOK, RowsFormed
  <2>2. [trip[t] EXCEPT !.status = status] = [driver |-> trip[t].driver, status |-> status]
    BY <2>1 DEF TripRow
  <2> QED
    BY <2>1, <2>2
<1>3. CASE PrepareTrip(t)
  BY <1>2, <1>3, TripShaped DEF PrepareTrip, ExecutionReady, NoActiveAssignment
<1>4. CASE DispatchTrip(t)
  BY <1>2, <1>4, TripShaped DEF DispatchTrip, ExecutionReady, NoActiveAssignment
<1>5. CASE ArriveTrip(t)
  BY <1>2, <1>5, TripShaped DEF ArriveTrip
<1>6. CASE CancelTrip(t)
  <2>1. /\ trip' = [trip EXCEPT ![t].status = "CANCELLED"] /\ trip[t].status # "NONE"
        /\ UNCHANGED <<ship, asg, attempt, proof, cod, driver, req>>
    BY <1>6 DEF CancelTrip
  <2>2. /\ trip[t].driver \in Drivers
        /\ trip' = [trip EXCEPT ![t] = [driver |-> trip[t].driver, status |-> "CANCELLED"]]
    BY <1>2, <2>1
  <2> QED
    BY <2>1, <2>2, TripShaped
<1> QED
  BY <1>1, <1>3, <1>4, <1>5, <1>6

(* An abort is a read of nothing. *)
LEMMA AbortShaped ==
    ASSUME NEW r \in Requests, Abort(r)
    PROVE  Shaped
<1>1. Fresh(Idle)
  BY DEF Idle, Fresh, FreshShipment, FreshDriver, FreshAssignment, FreshPrevious
<1> QED
  BY <1>1, IdleType, ReadShaped DEF Abort, End

(* Every step of the system has one of the shapes. *)
LEMMA NextShaped == IInv /\ Next => Shaped
BY ShipmentStepShaped, PickupStepShaped, DeliveryStepShaped, ProfileStepShaped, TripStepShaped,
   AbortShaped DEF Next, IInv

-----------------------------------------------------------------------------
(* The theorems *)

(* The inductive invariant holds in the fresh database, *)
LEMMA InitIInv == Init => IInv
<1> SUFFICES ASSUME Init PROVE IInv
  OBVIOUS
<1>1. \A a \in Assignments : asg[a].status = "NONE" /\ asg[a].status \notin Active
  BY DEF Init, NoAssignment, Active
<1>2. \A r \in Requests : Fresh(req[r])
  BY DEF Init, Idle, Fresh, FreshShipment, FreshDriver, FreshAssignment, FreshPrevious
<1>3. SnapshotFresh
  BY <1>2 DEF SnapshotFresh, Fresh
<1>4. AssignmentMatchesShipment
  BY <1>1 DEF Init, AssignmentMatchesShipment, InHands
<1>5. OneTask /\ DriverStatusTruthful /\ TaskExclusion
  BY <1>1 DEF Init, OneTask, DriverStatusTruthful, TaskExclusion, ActiveOfDriver
<1>6. WorkerStaysEligible
  BY <1>1 DEF Init, WorkerStaysEligible, NoTrip, Executing
<1> QED
  BY <1>3, <1>4, <1>5, <1>6, InitFormed DEF IInv, WorkInv

(* freshness is kept by every step, *)
LEMMA ShapedFresh ==
    ASSUME IInv, Shaped
    PROVE  SnapshotFresh'
<1>1. Formed /\ Formed' /\ DisciplinedStep
  BY ShapedFormed, ShapedDisciplined DEF IInv
<1>2. ASSUME NEW q \in Request, Decided(q), Fresh(q) PROVE Fresh(q)'
  BY <1>1, <1>2, FreshKept
<1>3. \A r \in Requests : req[r] \in Request /\ Decided(req[r]) /\ Fresh(req[r])
  BY CurrentFresh, CurrentDecided DEF IInv
<1>4. Fresh(Idle)
  BY DEF Idle, Fresh, FreshShipment, FreshDriver, FreshAssignment, FreshPrevious
<1>5. ASSUME NEW r \in Requests PROVE Fresh(req[r])'
  <2>1. \/ req'[r] = req[r]
        \/ req'[r] = Idle
        \/ \E q \in Request : Decided(q) /\ Fresh(q) /\ req'[r] = q
    <3>1. Ends \/ \E x \in Requests, q \in Request : Reads(x, q)
      <4>1. \A s, row : MovesParcel(s, row) => Ends
        BY DEF MovesParcel
      <4>2. \A a, s, d, type, status : AssignsTask(a, s, d, type, status) => Ends
        BY DEF AssignsTask
      <4>3. \A p, a, d, status : HandsOver(p, a, d, status) => Ends
        BY DEF HandsOver
      <4>4. \A a, status : Advances(a, status) => Ends
        BY DEF Advances
      <4>5. \A a, outcome, row, status : Closes(a, outcome, row, status) => Ends
        BY DEF Closes
      <4>6. \A d, row : ChangesDriver(d, row) => Ends
        BY DEF ChangesDriver
      <4>7. \A t, row : ChangesTrip(t, row) => Ends
        BY DEF ChangesTrip, Ends
      <4> QED
        BY <4>1, <4>2, <4>3, <4>4, <4>5, <4>6, <4>7 DEF Shaped
    <3>2. DOMAIN req = Requests
      BY <1>1 DEF Formed, TypeOK
    <3> QED
      BY <3>1, <3>2 DEF Reads, Ends, End
  <2>2. PICK q \in Request : Decided(q) /\ Fresh(q) /\ req'[r] = q
    BY <2>1, <1>3, <1>4, IdleType
  <2>3. Fresh(q)'
    BY <1>2, <2>2
  <2> QED
    BY <2>2, <2>3 DEF Fresh, FreshShipment, FreshDriver, FreshAssignment, FreshPrevious, ActiveOfDriver
<1> QED
  BY <1>5 DEF SnapshotFresh, Fresh

(* and so is the inductive invariant. *)
LEMMA NextIInv == IInv /\ [Next]_vars => IInv'
<1> SUFFICES ASSUME IInv, [Next]_vars PROVE IInv'
  OBVIOUS
<1>1. CASE Next
  BY <1>1, NextShaped, ShapedFormed, ShapedWork, ShapedFresh DEF IInv
<1>2. CASE UNCHANGED vars
  <2>1. Formed'
    BY <1>2 DEF vars, IInv, Formed, TypeOK, RowsFormed, RequestsDecided
  <2>2. WorkInv'
    BY <1>2, WorkUntouched DEF vars, IInv
  <2>3. SnapshotFresh'
    <3>1. UNCHANGED <<ship, asg, driver, req>>
      BY <1>2 DEF vars
    <3> SUFFICES ASSUME NEW r \in Requests, NEW q, q = req[r], Fresh(q) PROVE Fresh(q)'
      BY <3>1 DEF IInv, SnapshotFresh, Fresh
    <3>2. FreshShipment(q)' /\ FreshAssignment(q)'
      BY <3>1 DEF Fresh, FreshShipment, FreshAssignment
    <3>3. FreshDriver(q)'
      BY <3>1 DEF Fresh, FreshDriver, ActiveOfDriver
    <3>4. FreshPrevious(q)'
      BY <3>1 DEF Fresh, FreshPrevious
    <3> QED
      BY <3>2, <3>3, <3>4 DEF Fresh
  <2> QED
    BY <2>1, <2>2, <2>3 DEF IInv
<1> QED
  BY <1>1, <1>2

(* The inductive invariant: rows and requests well formed, reads current    *)
(* while their versions are, and the properties of the work.                *)
THEOREM Invariance == Spec => []IInv
BY InitIInv, NextIInv, PTL DEF Spec

(* Every row and every request in flight is well formed, always. *)
THEOREM TypeCorrect == Spec => []TypeOK
<1>1. IInv => TypeOK
  BY DEF IInv, Formed
<1> QED
  BY <1>1, Invariance, PTL

(* What a command read is current whenever its conditional writes succeed,  *)
(* however many commands run at the same time.                              *)
THEOREM ReadsAreCurrent == Spec => []SnapshotFresh
<1>1. IInv => SnapshotFresh
  BY DEF IInv
<1> QED
  BY <1>1, Invariance, PTL

(* A parcel in the hands of a driver has exactly one active assignment, of  *)
(* the kind and progress its status says; any other parcel has none.        *)
THEOREM AssignmentsMatch == Spec => []AssignmentMatchesShipment
<1>1. IInv => AssignmentMatchesShipment
  BY DEF IInv, WorkInv
<1> QED
  BY <1>1, Invariance, PTL

(* BUSY means an active assignment; AVAILABLE and SUSPENDED mean none. *)
THEOREM StatusTruthful == Spec => []DriverStatusTruthful
<1>1. IInv => DriverStatusTruthful
  BY DEF IInv, WorkInv
<1> QED
  BY <1>1, Invariance, PTL

(* Nobody executes a line-haul trip and holds a pickup or delivery. *)
THEOREM Exclusion == Spec => []TaskExclusion
<1>1. IInv => TaskExclusion
  BY DEF IInv, WorkInv
<1> QED
  BY <1>1, Invariance, PTL

(* Account, profile and capability stay in place while a driver works. *)
THEOREM Eligibility == Spec => []WorkerStaysEligible
<1>1. IInv => WorkerStaysEligible
  BY DEF IInv, WorkInv
<1> QED
  BY <1>1, Invariance, PTL

(* No row changes without the version that its readers compare. *)
THEOREM Discipline == Spec => VersionDiscipline
<1>1. IInv /\ [Next]_vars => [DisciplinedStep]_vars
  BY NextShaped, ShapedDisciplined DEF IInv
<1> QED
  BY <1>1, Invariance, PTL DEF Spec, VersionDiscipline

(* No step moves the warehouse of a driver who has active work. *)
LEMMA ShapedWarehouse ==
    ASSUME IInv, Shaped, NEW x \in Drivers, ActiveOfDriver(x) # {}
    PROVE  driver'[x].warehouse = driver[x].warehouse
<1>0. driver \in [Drivers -> DriverRow] /\ driver[x] \in DriverRow
  BY DEF IInv, Formed, TypeOK
<1>1. ASSUME NEW d \in Drivers, NEW status \in DriverStatus, driver' = SetDriver(d, status)
      PROVE  driver'[x].warehouse = driver[x].warehouse
  BY <1>0, <1>1, WrittenDriver DEF SetDriver
<1>2. ASSUME NEW p \in Assignments, NEW a \in Assignments, NEW d \in Drivers,
             NEW status \in DriverStatus, HandsOver(p, a, d, status)
      PROVE  driver'[x].warehouse = driver[x].warehouse
  <2>1. asg[p].driver \in Drivers
    BY <1>2 DEF HandsOver, IInv, Formed, RowsFormed, Active
  <2>2. /\ Written(driver[x], status).warehouse = driver[x].warehouse
        /\ Written(driver[x], "BUSY").warehouse = driver[x].warehouse
    BY <1>0, WrittenDriver DEF DriverStatus
  <2>3. driver'[x] \in {driver[x], Written(driver[x], status), Written(driver[x], "BUSY")}
    BY <1>0, <1>2, <2>1 DEF HandsOver
  <2> QED
    BY <2>2, <2>3
<1>3. ASSUME NEW d \in Drivers, NEW row \in DriverRow, ChangesDriver(d, row)
      PROVE  driver'[x].warehouse = driver[x].warehouse
  BY <1>0, <1>3 DEF ChangesDriver
<1>4. CASE UNCHANGED driver
  BY <1>4
<1>5. \/ UNCHANGED driver
      \/ \E d \in Drivers, status \in DriverStatus : driver' = SetDriver(d, status)
      \/ \E p, a \in Assignments, d \in Drivers, status \in DriverStatus : HandsOver(p, a, d, status)
      \/ \E d \in Drivers, row \in DriverRow : ChangesDriver(d, row)
  <2>1. ASSUME NEW a \in Assignments, asg[a].status \in Active PROVE asg[a].driver \in Drivers
    BY <2>1 DEF IInv, Formed, RowsFormed, Active
  <2>2. ASSUME NEW a \in Assignments, NEW s \in Shipments, NEW d \in Drivers,
               NEW type \in {"PICKUP", "DELIVERY"}, NEW status \in ShipmentStatus,
               AssignsTask(a, s, d, type, status)
        PROVE  driver' = SetDriver(d, "BUSY") /\ "BUSY" \in DriverStatus
    BY <2>2 DEF AssignsTask, DriverStatus
  <2>3. ASSUME NEW a \in Assignments, NEW outcome \in Closed, NEW row \in ShipmentRow,
               NEW status \in DriverStatus, Closes(a, outcome, row, status)
        PROVE  asg[a].driver \in Drivers /\ driver' = SetDriver(asg[a].driver, status)
    BY <2>1, <2>3 DEF Closes
  <2>4. ASSUME \/ \E r \in Requests, q \in Request : Reads(r, q)
               \/ \E s \in Shipments, row \in ShipmentRow : MovesParcel(s, row)
               \/ \E a \in Assignments, status \in ShipmentStatus : Advances(a, status)
               \/ \E t \in Trips, row \in TripRow : ChangesTrip(t, row)
        PROVE  UNCHANGED driver
    BY <2>4 DEF Reads, RowsUnchanged, MovesParcel, Advances, ChangesTrip
  <2> QED
    BY <2>2, <2>3, <2>4 DEF Shaped
<1> QED
  BY <1>1, <1>2, <1>3, <1>4, <1>5

(* The operating warehouse of a driver does not move under an assignment,   *)
(* so the origin recorded at pickup is the one the driver was assigned from.*)
THEOREM WarehouseFixed == Spec => WarehouseFixedWhileWorking
<1>1. IInv /\ [Next]_vars =>
        [\A d \in Drivers : ActiveOfDriver(d) # {} => driver'[d].warehouse = driver[d].warehouse]_vars
  BY NextShaped, ShapedWarehouse
<1> QED
  BY <1>1, Invariance, PTL DEF Spec, WarehouseFixedWhileWorking

-----------------------------------------------------------------------------
(* Delivery attempts, proofs and cash records                               *)
(*                                                                          *)
(* Their inductive invariant is relative to the one above. It adds that an  *)
(* attempt follows the delivery it belongs to and that the attempt under    *)
(* way is the last of its parcel: so start may count the attempts, and      *)
(* complete and fail may write one without a condition on it.               *)

(* An attempt is under way, or has ended, as its assignment is. *)
AttemptFollowsTask ==
    \A a \in Assignments :
      /\ attempt[a].status = "OUT_FOR_DELIVERY"
           <=> asg[a].type = "DELIVERY" /\ asg[a].status = "ACCEPTED"
      /\ attempt[a].status \in {"DELIVERED", "FAILED"}
           => asg[a].type = "DELIVERY" /\ asg[a].status = "COMPLETED"

LastWhileOut ==
    \A a \in Assignments :
      attempt[a].status = "OUT_FOR_DELIVERY" => LastAttempt(asg[a].shipment, a)

Numbered(s) == {attempt[a].number : a \in AttemptsOf(s)} = 1..Cardinality(AttemptsOf(s))

Deliveries(s) == {a \in AttemptsOf(s) : attempt[a].status = "DELIVERED"}

DeliveredOnce(s) ==
    /\ ship[s].status = "DELIVERED" <=> Deliveries(s) # {}
    /\ \A a \in Deliveries(s) : LastAttempt(s, a) /\ a \in proof
    /\ \A a, b \in Deliveries(s) : a = b

CashOnce(s) ==
    /\ cod[s] = None <=> (Deliveries(s) = {} \/ s \notin CodShipments)
    /\ \A a \in Deliveries(s) : s \in CodShipments => cod[s] = asg[a].driver

RecordsInv ==
    /\ AttemptFollowsTask /\ LastWhileOut
    /\ \A s \in Shipments : Numbered(s) /\ DeliveredOnce(s) /\ CashOnce(s)

-----------------------------------------------------------------------------
(* An attempt belongs to a row, and that row names its parcel and driver. *)
LEMMA AttemptHasTask ==
    ASSUME Formed, AttemptFollowsTask, NEW a \in Assignments, attempt[a].status # "NONE"
    PROVE  /\ asg[a].type = "DELIVERY" /\ asg[a].status \in {"ACCEPTED", "COMPLETED"}
           /\ asg[a].shipment \in Shipments /\ asg[a].driver \in Drivers
<1>1. attempt[a].status \in {"OUT_FOR_DELIVERY", "DELIVERED", "FAILED"}
  BY DEF Formed, TypeOK, AttemptRow
<1>2. asg[a].type = "DELIVERY" /\ asg[a].status \in {"ACCEPTED", "COMPLETED"}
  BY <1>1 DEF AttemptFollowsTask
<1> QED
  BY <1>2 DEF Formed, RowsFormed

(* The records say what AttemptHistory states. *)
LEMMA RecordsHistory == IInv /\ RecordsInv => AttemptHistory
<1> SUFFICES ASSUME IInv, RecordsInv, NEW s \in Shipments
             PROVE  /\ Numbered(s)
                    /\ (\E a \in AttemptsOf(s) : attempt[a].status = "OUT_FOR_DELIVERY")
                         <=> ship[s].status = "OUT_FOR_DELIVERY"
                    /\ DeliveredOnce(s) /\ Cardinality(Deliveries(s)) <= 1
                    /\ CashOnce(s)
  BY DEF AttemptHistory, Numbered, DeliveredOnce, CashOnce, Deliveries
<1>1. Numbered(s) /\ DeliveredOnce(s) /\ CashOnce(s) /\ AttemptFollowsTask
  BY DEF RecordsInv
<1>2. Formed /\ AssignmentMatchesShipment
  BY DEF IInv, WorkInv
<1>3. ASSUME NEW a \in AttemptsOf(s), attempt[a].status = "OUT_FOR_DELIVERY"
      PROVE  ship[s].status = "OUT_FOR_DELIVERY"
  <2>1. a \in Assignments /\ asg[a].shipment = s
    BY DEF AttemptsOf
  <2>2. asg[a].type = "DELIVERY" /\ asg[a].status = "ACCEPTED"
    BY <1>1, <1>3, <2>1 DEF AttemptFollowsTask
  <2>3. <<asg[a].type, asg[a].status, ship[s].status>> \in Leg
    BY <1>2, <2>1, <2>2 DEF AssignmentMatchesShipment, Active
  <2> QED
    BY <2>2, <2>3 DEF Leg
<1>4. ASSUME ship[s].status = "OUT_FOR_DELIVERY"
      PROVE  \E a \in AttemptsOf(s) : attempt[a].status = "OUT_FOR_DELIVERY"
  <2>1. PICK a \in Assignments : asg[a].shipment = s /\ asg[a].status \in Active
    BY <1>2, <1>4 DEF AssignmentMatchesShipment, InHands, ActiveOfShipment
  <2>2. <<asg[a].type, asg[a].status, ship[s].status>> \in Leg
    BY <1>2, <2>1 DEF AssignmentMatchesShipment
  <2>3. asg[a].type = "DELIVERY" /\ asg[a].status = "ACCEPTED"
    BY <1>4, <2>2 DEF Leg
  <2>4. attempt[a].status = "OUT_FOR_DELIVERY"
    BY <1>1, <2>3 DEF AttemptFollowsTask
  <2> QED
    BY <2>1, <2>4 DEF AttemptsOf
<1>5. Cardinality(Deliveries(s)) <= 1
  <2>1. CASE Deliveries(s) = {}
    BY <2>1, FS_EmptySet
  <2>2. ASSUME NEW a \in Deliveries(s) PROVE Cardinality(Deliveries(s)) <= 1
    <3>1. Deliveries(s) = {a}
      BY <1>1, <2>2 DEF DeliveredOnce
    <3>2. Cardinality({a}) = 1
      BY FS_Singleton
    <3> QED
      BY <3>1, <3>2
  <2> QED
    BY <2>1, <2>2
<1> QED
  BY <1>1, <1>3, <1>4, <1>5

(* A parcel whose attempts and cash a step leaves alone, and that is not    *)
(* delivered by it nor was before, keeps its records.                       *)
LEMMA ParcelUntouched ==
    ASSUME RecordsInv, NEW s \in Shipments, AttemptsOf(s)' = AttemptsOf(s),
           \A a \in AttemptsOf(s) : attempt'[a] = attempt[a] /\ asg'[a].driver = asg[a].driver,
           ship'[s].status = "DELIVERED" <=> ship[s].status = "DELIVERED",
           cod'[s] = cod[s], proof \subseteq proof'
    PROVE  (Numbered(s) /\ DeliveredOnce(s) /\ CashOnce(s))'
<1>0. Numbered(s) /\ DeliveredOnce(s) /\ CashOnce(s)
  BY DEF RecordsInv
<1>1. Deliveries(s)' = Deliveries(s)
  BY DEF Deliveries
<1>2. \A a : LastAttempt(s, a)' <=> LastAttempt(s, a)
  BY DEF LastAttempt
<1>3. Numbered(s)'
  <2>1. {attempt'[a].number : a \in AttemptsOf(s)} = {attempt[a].number : a \in AttemptsOf(s)}
    OBVIOUS
  <2> QED
    BY <1>0, <2>1 DEF Numbered
<1>4. DeliveredOnce(s)'
  BY <1>0, <1>1, <1>2 DEF DeliveredOnce
<1>5. CashOnce(s)'
  <2>1. \A a \in Deliveries(s) : asg'[a].driver = asg[a].driver
    BY DEF Deliveries
  <2> QED
    BY <1>0, <1>1, <2>1 DEF CashOnce
<1> QED
  BY <1>3, <1>4, <1>5

(* A step that leaves attempts and cash alone, and the parcel and driver of *)
(* every attempt, keeps the records true when it neither delivers a parcel  *)
(* nor moves a delivered one.                                               *)
LEMMA RecordsUntouched ==
    ASSUME RecordsInv, AttemptFollowsTask', UNCHANGED <<attempt, cod>>, proof \subseteq proof',
           \A a \in Assignments : attempt[a].status # "NONE" =>
              asg'[a].shipment = asg[a].shipment /\ asg'[a].driver = asg[a].driver,
           \A s \in Shipments : ship'[s].status = "DELIVERED" <=> ship[s].status = "DELIVERED"
    PROVE  RecordsInv'
<1>1. \A s : AttemptsOf(s)' = AttemptsOf(s)
  BY DEF AttemptsOf
<1>2. \A s, a : LastAttempt(s, a)' <=> LastAttempt(s, a)
  BY <1>1 DEF LastAttempt
<1>3. LastWhileOut'
  <2> SUFFICES ASSUME NEW a \in Assignments, attempt[a].status = "OUT_FOR_DELIVERY"
               PROVE  LastAttempt(asg[a].shipment, a)'
    BY DEF LastWhileOut
  <2>1. LastAttempt(asg[a].shipment, a) /\ asg'[a].shipment = asg[a].shipment
    BY DEF RecordsInv, LastWhileOut
  <2> QED
    BY <1>2, <2>1
<1>4. ASSUME NEW s \in Shipments PROVE (Numbered(s) /\ DeliveredOnce(s) /\ CashOnce(s))'
  <2>1. \A a \in AttemptsOf(s) : attempt'[a] = attempt[a] /\ asg'[a].driver = asg[a].driver
    BY DEF AttemptsOf
  <2> QED
    BY <1>1, <2>1, ParcelUntouched
<1> QED
  BY <1>3, <1>4 DEF RecordsInv

-----------------------------------------------------------------------------
(* Every shape of a step keeps the records true. *)

(* A row that an attempt cannot belong to has none. *)
LEMMA NoAttemptYet ==
    ASSUME Formed, AttemptFollowsTask, NEW a \in Assignments,
           asg[a].type # "DELIVERY" \/ asg[a].status \notin {"ACCEPTED", "COMPLETED"}
    PROVE  attempt[a].status = "NONE"
BY AttemptHasTask

(* The parcel of a task is not delivered while the task is active. *)
LEMMA TaskNotDelivered ==
    ASSUME IInv, NEW a \in Assignments, asg[a].status \in Active
    PROVE  asg[a].shipment \in Shipments /\ ship[asg[a].shipment].status # "DELIVERED"
<1>1. asg[a].shipment \in Shipments
  BY DEF IInv, Formed, RowsFormed, Active
<1>2. <<asg[a].type, asg[a].status, ship[asg[a].shipment].status>> \in Leg
  BY DEF IInv, WorkInv, AssignmentMatchesShipment
<1> QED
  BY <1>1, <1>2 DEF Leg

(* Reads, parcels on the warehouse leg, profiles and trips leave the        *)
(* records alone.                                                           *)
LEMMA AsideRecords ==
    ASSUME IInv, RecordsInv, UNCHANGED <<asg, attempt, proof, cod>>,
           UNCHANGED ship \/ \E s \in Shipments, row \in ShipmentRow : MovesParcel(s, row)
    PROVE  RecordsInv'
<1>1. AttemptFollowsTask'
  BY DEF RecordsInv, AttemptFollowsTask
<1>2. \A s \in Shipments : ship'[s].status = "DELIVERED" <=> ship[s].status = "DELIVERED"
  BY DEF MovesParcel, IInv, Formed, TypeOK
<1> QED
  BY <1>1, <1>2, RecordsUntouched DEF IInv

(* A new task has no attempt, and its parcel was not delivered. *)
LEMMA AssignsTaskRecords ==
    ASSUME IInv, RecordsInv, NEW a \in Assignments, NEW s \in Shipments, NEW d \in Drivers,
           NEW type \in {"PICKUP", "DELIVERY"}, NEW status \in ShipmentStatus,
           AssignsTask(a, s, d, type, status)
    PROVE  RecordsInv'
<1>0. Formed /\ AttemptFollowsTask
  BY DEF IInv, RecordsInv
<1>1. attempt[a].status = "NONE"
  BY <1>0, NoAttemptYet DEF AssignsTask
<1>2. \A b \in Assignments \ {a} : asg'[b] = asg[b]
  BY <1>0 DEF AssignsTask, Formed, TypeOK
<1>3. asg'[a].status = "PENDING"
  BY <1>0 DEF AssignsTask, NewAssignment, Formed, TypeOK
<1>4. UNCHANGED <<attempt, proof, cod>>
  BY DEF AssignsTask, RecordsKept
<1>5. AttemptFollowsTask'
  BY <1>0, <1>1, <1>2, <1>3, <1>4 DEF AttemptFollowsTask
<1>6. status # "DELIVERED"
  BY DEF AssignsTask, Leg
<1>7. \A x \in Shipments : ship'[x].status = "DELIVERED" <=> ship[x].status = "DELIVERED"
  <2>1. Written(ship[s], status).status = status
    BY <1>0, WrittenShipment DEF Formed, TypeOK
  <2> QED
    BY <1>0, <1>6, <2>1 DEF AssignsTask, SetShipment, Formed, TypeOK
<1> QED
  BY <1>0, <1>1, <1>2, <1>4, <1>5, <1>7, RecordsUntouched

(* A pickup that is handed over has no attempt, nor has the new one. *)
LEMMA HandsOverRecords ==
    ASSUME IInv, RecordsInv, NEW p \in Assignments, NEW a \in Assignments, NEW d \in Drivers,
           NEW status \in DriverStatus, HandsOver(p, a, d, status)
    PROVE  RecordsInv'
<1>0. Formed /\ AttemptFollowsTask
  BY DEF IInv, RecordsInv
<1>1. attempt[a].status = "NONE" /\ attempt[p].status = "NONE"
  BY <1>0, NoAttemptYet DEF HandsOver
<1>2. \A b \in Assignments \ {a, p} : asg'[b] = asg[b]
  BY <1>0 DEF HandsOver, Formed, TypeOK
<1>3. p # a
  BY DEF HandsOver, Active
<1>4. asg'[a].status = "PENDING" /\ asg'[p].status = "CANCELLED"
  BY <1>0, <1>3 DEF HandsOver, NewAssignment, Formed, TypeOK, AssignmentRow
<1>5. UNCHANGED <<attempt, proof, cod>>
  BY DEF HandsOver, RecordsKept
<1>6. AttemptFollowsTask'
  BY <1>0, <1>1, <1>2, <1>4, <1>5 DEF AttemptFollowsTask
<1>7. \A x \in Shipments : ship'[x].status = "DELIVERED" <=> ship[x].status = "DELIVERED"
  <2>1. asg[p].shipment \in Shipments /\ ship[asg[p].shipment].status # "DELIVERED"
    BY TaskNotDelivered DEF HandsOver
  <2>2. Written(ship[asg[p].shipment], "PICKUP_ASSIGNED").status = "PICKUP_ASSIGNED"
    BY <1>0, <2>1, WrittenShipment DEF Formed, TypeOK, ShipmentStatus
  <2> QED
    BY <1>0, <2>1, <2>2 DEF HandsOver, SetShipment, Formed, TypeOK
<1> QED
  BY <1>0, <1>1, <1>2, <1>5, <1>6, <1>7, RecordsUntouched

(* The numbers of a parcel's attempts are numbers. *)
LEMMA AttemptNumbers ==
    ASSUME Formed, NEW s
    PROVE  /\ \A a \in AttemptsOf(s) : a \in Assignments /\ attempt[a].number \in Nat
           /\ IsFiniteSet(AttemptsOf(s)) /\ Cardinality(AttemptsOf(s)) \in Nat
<1>1. AttemptsOf(s) \subseteq Assignments
  BY DEF AttemptsOf
<1> QED
  BY <1>1, AttemptCount, KeysAssumption, FS_Subset DEF Formed, TypeOK, AttemptRow

(* start counts the attempts of the parcel: none is under way, so the new   *)
(* one is the last and its number the next.                                 *)
LEMMA StartRecords ==
    ASSUME IInv, RecordsInv, NEW a \in Assignments, NEW status \in ShipmentStatus,
           Advances(a, status), asg[a].type = "DELIVERY",
           NEW s, s = asg[a].shipment, NEW n, n = Cardinality(AttemptsOf(s)) + 1
    PROVE  RecordsInv'
<1>0. Formed /\ AttemptFollowsTask /\ LastWhileOut /\ AssignmentMatchesShipment
  BY DEF IInv, RecordsInv, WorkInv
<1>1. asg[a].status = "PENDING" /\ attempt[a].status = "NONE"
  BY <1>0, NoAttemptYet DEF Advances
<1>2. s \in Shipments /\ ship[s].status # "DELIVERED"
  BY <1>1, TaskNotDelivered DEF Active
<1>3. /\ asg'[a].status = "ACCEPTED"
      /\ \A b \in Assignments : /\ asg'[b].shipment = asg[b].shipment
                                /\ asg'[b].driver = asg[b].driver
                                /\ asg'[b].type = asg[b].type
                                /\ b # a => asg'[b] = asg[b]
  BY <1>0 DEF Advances, SetAssignment, Formed, TypeOK, AssignmentRow
<1>4. /\ attempt'[a] = [number |-> n, status |-> "OUT_FOR_DELIVERY"]
      /\ \A b \in Assignments \ {a} : attempt'[b] = attempt[b]
      /\ UNCHANGED <<proof, cod>>
  BY <1>0 DEF Advances, RecordsStart, Formed, TypeOK
<1>5. AttemptsOf(s)' = AttemptsOf(s) \cup {a} /\ a \notin AttemptsOf(s)
  BY <1>1, <1>3, <1>4 DEF AttemptsOf
<1>6. \A x : x # s => AttemptsOf(x)' = AttemptsOf(x)
  BY <1>3, <1>4 DEF AttemptsOf
<1>7. ship'[s].status # "DELIVERED" /\ \A x \in Shipments \ {s} : ship'[x] = ship[x]
  <2>1. status # "DELIVERED"
    BY DEF Advances, Leg
  <2>2. Written(ship[s], status).status = status
    BY <1>0, <1>2, WrittenShipment DEF Formed, TypeOK
  <2> QED
    BY <1>0, <1>2, <2>1, <2>2 DEF Advances, SetShipment, Formed, TypeOK
<1>8. AttemptFollowsTask'
  BY <1>0, <1>1, <1>3, <1>4 DEF AttemptFollowsTask
<1>9. n \in Nat /\ Cardinality(AttemptsOf(s)') = n
  <2>1. IsFiniteSet(AttemptsOf(s)) /\ Cardinality(AttemptsOf(s)) \in Nat
    BY <1>0, AttemptNumbers
  <2>2. Cardinality(AttemptsOf(s) \cup {a}) = Cardinality(AttemptsOf(s)) + 1
    BY <1>5, <2>1, FS_AddElement
  <2> QED
    BY <1>5, <2>1, <2>2
<1>10. /\ Numbered(s) /\ n - 1 = Cardinality(AttemptsOf(s)) /\ n - 1 \in Nat
       /\ DeliveredOnce(s) /\ CashOnce(s)
  BY <1>0, <1>2, <1>9, AttemptNumbers DEF RecordsInv
<1>11. \A b \in AttemptsOf(s) : /\ b # a /\ b \in Assignments
                                /\ attempt[b].number \in 1..(n - 1)
                                /\ attempt[b].status # "OUT_FOR_DELIVERY"
  <2> SUFFICES ASSUME NEW b \in AttemptsOf(s)
               PROVE  /\ b # a /\ b \in Assignments /\ attempt[b].number \in 1..(n - 1)
                      /\ attempt[b].status # "OUT_FOR_DELIVERY"
    OBVIOUS
  <2>1. b # a /\ b \in Assignments /\ asg[b].shipment = s
    BY <1>5 DEF AttemptsOf
  <2>2. attempt[b].status # "OUT_FOR_DELIVERY"
    BY <1>0, <1>1, <2>1 DEF AttemptFollowsTask, AssignmentMatchesShipment, Active
  <2>3. attempt[b].number \in 1..(n - 1)
    BY <1>10 DEF Numbered
  <2> QED
    BY <2>1, <2>2, <2>3
<1>12. Numbered(s)'
  <2>1. {attempt'[b].number : b \in AttemptsOf(s) \cup {a}}
          = {attempt[b].number : b \in AttemptsOf(s)} \cup {n}
    BY <1>4, <1>11
  <2>2. 1..n = (1..(n - 1)) \cup {n}
    BY <1>9, <1>10
  <2> QED
    BY <1>5, <1>9, <1>10, <2>1, <2>2 DEF Numbered
<1>13. LastAttempt(s, a)'
  BY <1>4, <1>5, <1>9, <1>11 DEF LastAttempt
<1>14. LastWhileOut'
  <2> SUFFICES ASSUME NEW b \in Assignments, attempt'[b].status = "OUT_FOR_DELIVERY"
               PROVE  LastAttempt(asg[b].shipment, b)'
    BY DEF LastWhileOut
  <2>1. CASE b = a
    BY <1>3, <1>13, <2>1
  <2>2. CASE b # a
    <3>1. attempt[b].status = "OUT_FOR_DELIVERY" /\ asg'[b].shipment = asg[b].shipment
      BY <1>3, <1>4, <2>2
    <3>2. LastAttempt(asg[b].shipment, b)
      BY <1>0, <3>1 DEF LastWhileOut
    <3>3. asg[b].shipment # s
      BY <1>11, <3>1, <3>2 DEF LastAttempt
    <3>4. PICK x : x = asg[b].shipment
      OBVIOUS
    <3>5. AttemptsOf(x)' = AttemptsOf(x) /\ a \notin AttemptsOf(x)
      BY <1>1, <1>6, <3>3, <3>4 DEF AttemptsOf
    <3>6. \A c \in AttemptsOf(x) : attempt'[c] = attempt[c]
      BY <1>4, <3>5 DEF AttemptsOf
    <3>7. LastAttempt(x, b)'
      BY <3>2, <3>4, <3>5, <3>6 DEF LastAttempt
    <3> QED
      BY <3>1, <3>4, <3>7
  <2> QED
    BY <2>1, <2>2
<1>15. (DeliveredOnce(s) /\ CashOnce(s))'
  <2>1. Deliveries(s) = {}
    BY <1>2, <1>10 DEF DeliveredOnce
  <2>2. Deliveries(s)' = {}
    BY <1>4, <1>5, <1>11, <2>1 DEF Deliveries
  <2> QED
    BY <1>4, <1>7, <1>10, <2>1, <2>2 DEF DeliveredOnce, CashOnce
<1>16. ASSUME NEW x \in Shipments, x # s PROVE (Numbered(x) /\ DeliveredOnce(x) /\ CashOnce(x))'
  <2>1. \A b \in AttemptsOf(x) : attempt'[b] = attempt[b] /\ asg'[b].driver = asg[b].driver
    BY <1>3, <1>4, <1>16 DEF AttemptsOf
  <2> QED
    BY <1>4, <1>6, <1>7, <1>16, <2>1, ParcelUntouched
<1> QED
  BY <1>8, <1>12, <1>14, <1>15, <1>16 DEF RecordsInv

(* Beginning a pickup leaves the records alone. *)
LEMMA AcceptRecords ==
    ASSUME IInv, RecordsInv, NEW a \in Assignments, NEW status \in ShipmentStatus,
           Advances(a, status), asg[a].type # "DELIVERY"
    PROVE  RecordsInv'
<1>0. Formed /\ AttemptFollowsTask
  BY DEF IInv, RecordsInv
<1>1. /\ \A b \in Assignments : /\ asg'[b].shipment = asg[b].shipment
                                /\ asg'[b].driver = asg[b].driver
                                /\ asg'[b].type = asg[b].type
                                /\ b # a => asg'[b] = asg[b]
      /\ UNCHANGED <<attempt, proof, cod>>
  BY <1>0 DEF Advances, RecordsStart, RecordsKept, SetAssignment, Formed, TypeOK, AssignmentRow
<1>2. AttemptFollowsTask'
  BY <1>0, <1>1 DEF AttemptFollowsTask
<1>3. \A x \in Shipments : ship'[x].status = "DELIVERED" <=> ship[x].status = "DELIVERED"
  <2>1. asg[a].shipment \in Shipments /\ ship[asg[a].shipment].status # "DELIVERED"
    BY TaskNotDelivered DEF Advances, Active
  <2>2. status # "DELIVERED"
    BY DEF Advances, Leg
  <2>3. Written(ship[asg[a].shipment], status).status = status
    BY <1>0, <2>1, WrittenShipment DEF Formed, TypeOK
  <2> QED
    BY <1>0, <2>1, <2>2, <2>3 DEF Advances, SetShipment, Formed, TypeOK
<1> QED
  BY <1>1, <1>2, <1>3, RecordsUntouched

(* What closing a task changes besides the records. *)
LEMMA ClosesRows ==
    ASSUME IInv, NEW a \in Assignments, NEW outcome \in Closed, NEW row \in ShipmentRow,
           NEW status \in DriverStatus, Closes(a, outcome, row, status),
           NEW s, s = asg[a].shipment
    PROVE  /\ s \in Shipments /\ ship[s].status # "DELIVERED"
           /\ ship'[s] = row /\ \A x \in Shipments \ {s} : ship'[x] = ship[x]
           /\ asg'[a].status = outcome
           /\ \A b \in Assignments : /\ asg'[b].shipment = asg[b].shipment
                                     /\ asg'[b].driver = asg[b].driver
                                     /\ asg'[b].type = asg[b].type
                                     /\ b # a => asg'[b] = asg[b]
<1>1. s \in Shipments /\ ship[s].status # "DELIVERED"
  BY TaskNotDelivered DEF Closes
<1> QED
  BY <1>1 DEF Closes, SetAssignment, IInv, Formed, TypeOK, AssignmentRow

(* Rejecting or completing a pickup leaves attempts and cash alone. *)
LEMMA PickupEndRecords ==
    ASSUME IInv, RecordsInv, NEW a \in Assignments, NEW outcome \in Closed,
           NEW row \in ShipmentRow, NEW status \in DriverStatus,
           Closes(a, outcome, row, status), asg[a].type = "PICKUP"
    PROVE  RecordsInv'
<1>0. Formed /\ AttemptFollowsTask
  BY DEF IInv, RecordsInv
<1>1. UNCHANGED <<attempt, cod>> /\ proof \subseteq proof' /\ row.status # "DELIVERED"
  BY DEF Closes, RecordsEnd
<1>2. PICK s : s = asg[a].shipment
  OBVIOUS
<1>3. /\ s \in Shipments /\ ship[s].status # "DELIVERED"
      /\ ship'[s] = row /\ \A x \in Shipments \ {s} : ship'[x] = ship[x]
      /\ \A b \in Assignments : /\ asg'[b].shipment = asg[b].shipment
                                /\ asg'[b].driver = asg[b].driver
                                /\ asg'[b].type = asg[b].type
                                /\ b # a => asg'[b] = asg[b]
  BY <1>2, ClosesRows
<1>4. AttemptFollowsTask'
  BY <1>0, <1>1, <1>3 DEF AttemptFollowsTask
<1>5. \A x \in Shipments : ship'[x].status = "DELIVERED" <=> ship[x].status = "DELIVERED"
  BY <1>1, <1>3
<1> QED
  BY <1>1, <1>3, <1>4, <1>5, RecordsUntouched

(* The write of complete and fail to the attempt of their task.             *)
EndsAttempt(a, result) == attempt' = [attempt EXCEPT ![a].status = result]

(* The end of an attempt, delivered or failed: the attempt was the last of  *)
(* its parcel and the only one under way, and no other row changes.         *)
LEMMA AttemptEnds ==
    ASSUME IInv, RecordsInv, NEW a \in Assignments, NEW outcome \in Closed,
           NEW row \in ShipmentRow, NEW status \in DriverStatus,
           Closes(a, outcome, row, status), asg[a].type = "DELIVERY",
           NEW s, s = asg[a].shipment, NEW result \in {"DELIVERED", "FAILED"},
           EndsAttempt(a, result)
    PROVE  /\ attempt[a].status = "OUT_FOR_DELIVERY" /\ LastAttempt(s, a)
           /\ attempt'[a].status = result
           /\ \A b \in Assignments : /\ attempt'[b].number = attempt[b].number
                                     /\ b # a => attempt'[b] = attempt[b]
           /\ \A x : AttemptsOf(x)' = AttemptsOf(x)
           /\ \A x, b : LastAttempt(x, b)' <=> LastAttempt(x, b)
           /\ AttemptFollowsTask' /\ LastWhileOut'
           /\ \A x \in Shipments : Numbered(x)'
<1>0. Formed /\ AttemptFollowsTask /\ LastWhileOut
  BY DEF IInv, RecordsInv
<1>1. asg[a].status = "ACCEPTED" /\ outcome = "COMPLETED"
  BY DEF Closes, RecordsEnd
<1>2. attempt[a].status = "OUT_FOR_DELIVERY" /\ LastAttempt(s, a)
  BY <1>0, <1>1 DEF AttemptFollowsTask, LastWhileOut
<1>3. /\ asg'[a].status = "COMPLETED"
      /\ \A b \in Assignments : /\ asg'[b].shipment = asg[b].shipment
                                /\ asg'[b].type = asg[b].type
                                /\ b # a => asg'[b] = asg[b]
  BY <1>1, ClosesRows
<1>4. /\ attempt'[a].status = result
      /\ \A b \in Assignments : /\ attempt'[b].number = attempt[b].number
                                /\ b # a => attempt'[b] = attempt[b]
  BY <1>0 DEF EndsAttempt, Formed, TypeOK, AttemptRow
<1>5. \A x : AttemptsOf(x)' = AttemptsOf(x)
  BY <1>2, <1>3, <1>4 DEF AttemptsOf
<1>6. \A x, b : LastAttempt(x, b)' <=> LastAttempt(x, b)
  <2>1. \A x : AttemptsOf(x) \subseteq Assignments
    BY DEF AttemptsOf
  <2>2. \A b \in Assignments : attempt'[b].number = attempt[b].number
    BY <1>4
  <2> QED
    BY <1>5, <2>1, <2>2 DEF LastAttempt
<1>7. AttemptFollowsTask'
  BY <1>0, <1>3, <1>4 DEF AttemptFollowsTask
<1>8. LastWhileOut'
  <2> SUFFICES ASSUME NEW b \in Assignments, attempt'[b].status = "OUT_FOR_DELIVERY"
               PROVE  LastAttempt(asg[b].shipment, b)'
    BY DEF LastWhileOut
  <2>1. attempt[b].status = "OUT_FOR_DELIVERY" /\ asg'[b].shipment = asg[b].shipment
    BY <1>3, <1>4
  <2>2. LastAttempt(asg[b].shipment, b)
    BY <1>0, <2>1 DEF LastWhileOut
  <2>3. PICK x : x = asg[b].shipment
    OBVIOUS
  <2>4. LastAttempt(x, b)'
    BY <1>6, <2>2, <2>3
  <2> QED
    BY <2>1, <2>3, <2>4
<1>9. ASSUME NEW x \in Shipments PROVE Numbered(x)'
  <2>1. {attempt'[b].number : b \in AttemptsOf(x)} = {attempt[b].number : b \in AttemptsOf(x)}
    BY <1>4 DEF AttemptsOf
  <2> QED
    BY <1>5, <2>1 DEF Numbered, RecordsInv
<1> QED
  BY <1>2, <1>4, <1>5, <1>6, <1>7, <1>8, <1>9

(* fail writes an attempt that delivers nothing. *)
LEMMA FailRecords ==
    ASSUME IInv, RecordsInv, NEW a \in Assignments, NEW outcome \in Closed,
           NEW row \in ShipmentRow, NEW status \in DriverStatus,
           Closes(a, outcome, row, status), asg[a].type = "DELIVERY",
           row.status # "DELIVERED", NEW s, s = asg[a].shipment
    PROVE  RecordsInv'
<1>1. UNCHANGED <<proof, cod>> /\ attempt' = [attempt EXCEPT ![a].status = "FAILED"]
  BY DEF Closes, RecordsEnd
<1>2. /\ attempt[a].status = "OUT_FOR_DELIVERY" /\ attempt'[a].status = "FAILED"
      /\ \A b \in Assignments : b # a => attempt'[b] = attempt[b]
      /\ \A x : AttemptsOf(x)' = AttemptsOf(x)
      /\ \A x, b : LastAttempt(x, b)' <=> LastAttempt(x, b)
      /\ AttemptFollowsTask' /\ LastWhileOut'
      /\ \A x \in Shipments : Numbered(x)'
  <2>1. PICK result \in {"DELIVERED", "FAILED"} : result = "FAILED"
    OBVIOUS
  <2>2. EndsAttempt(a, result)
    BY <1>1, <2>1 DEF EndsAttempt
  <2> QED
    BY <2>1, <2>2, AttemptEnds
<1>3. /\ s \in Shipments /\ ship[s].status # "DELIVERED"
      /\ ship'[s] = row /\ \A x \in Shipments \ {s} : ship'[x] = ship[x]
      /\ \A b \in Assignments : asg'[b].driver = asg[b].driver
  BY ClosesRows
<1>4. ASSUME NEW x PROVE Deliveries(x)' = Deliveries(x)
  <2>1. \A b \in AttemptsOf(x) : attempt'[b].status = "DELIVERED" <=> attempt[b].status = "DELIVERED"
    BY <1>2 DEF AttemptsOf
  <2> QED
    BY <1>2, <2>1 DEF Deliveries
<1>5. ASSUME NEW x \in Shipments PROVE (DeliveredOnce(x) /\ CashOnce(x))'
  <2>1. DeliveredOnce(x) /\ CashOnce(x)
    BY DEF RecordsInv
  <2>2. ship'[x].status = "DELIVERED" <=> ship[x].status = "DELIVERED"
    BY <1>3
  <2>3. DeliveredOnce(x)'
    BY <1>1, <1>2, <1>4, <2>1, <2>2 DEF DeliveredOnce
  <2>4. CashOnce(x)'
    <3>1. cod' = cod /\ Deliveries(x)' = Deliveries(x) /\ Deliveries(x) \subseteq Assignments
      BY <1>1, <1>4 DEF Deliveries, AttemptsOf
    <3> QED
      BY <1>3, <2>1, <3>1 DEF CashOnce
  <2> QED
    BY <2>3, <2>4
<1> QED
  BY <1>2, <1>5 DEF RecordsInv

(* complete writes the delivered attempt, its proof and its cash: there is  *)
(* no delivered attempt before.                                             *)
LEMMA CompleteRecords ==
    ASSUME IInv, RecordsInv, NEW a \in Assignments, NEW outcome \in Closed,
           NEW row \in ShipmentRow, NEW status \in DriverStatus,
           Closes(a, outcome, row, status), asg[a].type = "DELIVERY",
           row.status = "DELIVERED", NEW s, s = asg[a].shipment
    PROVE  RecordsInv'
<1>1. /\ proof' = proof \cup {a} /\ attempt' = [attempt EXCEPT ![a].status = "DELIVERED"]
      /\ cod' = IF s \in CodShipments THEN [cod EXCEPT ![s] = asg[a].driver] ELSE cod
  BY DEF Closes, RecordsEnd
<1>2. /\ attempt[a].status = "OUT_FOR_DELIVERY" /\ attempt'[a].status = "DELIVERED"
      /\ LastAttempt(s, a)
      /\ \A b \in Assignments : b # a => attempt'[b] = attempt[b]
      /\ \A x : AttemptsOf(x)' = AttemptsOf(x)
      /\ \A x, b : LastAttempt(x, b)' <=> LastAttempt(x, b)
      /\ AttemptFollowsTask' /\ LastWhileOut'
      /\ \A x \in Shipments : Numbered(x)'
  <2>1. PICK result \in {"DELIVERED", "FAILED"} : result = "DELIVERED"
    OBVIOUS
  <2>2. EndsAttempt(a, result)
    BY <1>1, <2>1 DEF EndsAttempt
  <2> QED
    BY <2>1, <2>2, AttemptEnds
<1>3. /\ s \in Shipments /\ ship[s].status # "DELIVERED"
      /\ ship'[s] = row /\ \A x \in Shipments \ {s} : ship'[x] = ship[x]
      /\ \A b \in Assignments : /\ asg'[b].shipment = asg[b].shipment
                                /\ asg'[b].driver = asg[b].driver
  BY ClosesRows
<1>4. cod \in [Shipments -> Drivers \cup {None}] /\ asg[a].driver \in Drivers
  BY DEF IInv, Formed, TypeOK, RowsFormed, Closes, Active
<1>5. (DeliveredOnce(s) /\ CashOnce(s))'
  <2>1. Deliveries(s) = {} /\ cod[s] = None
    BY <1>3 DEF RecordsInv, DeliveredOnce, CashOnce
  <2>2. a \in AttemptsOf(s) /\ AttemptsOf(s) \subseteq Assignments
    BY <1>2 DEF LastAttempt, AttemptsOf
  <2>3. Deliveries(s)' = {a}
    BY <1>2, <2>1, <2>2 DEF Deliveries
  <2>4. DeliveredOnce(s)'
    BY <1>1, <1>2, <1>3, <2>3 DEF DeliveredOnce
  <2>5. cod'[s] = IF s \in CodShipments THEN asg'[a].driver ELSE None
    BY <1>1, <1>3, <1>4, <2>1
  <2>6. asg'[a].driver # None
    BY <1>3, <1>4, NoneAssumption
  <2>7. CashOnce(s)'
    BY <2>3, <2>5, <2>6 DEF CashOnce
  <2> QED
    BY <2>4, <2>7
<1>6. ASSUME NEW x \in Shipments, x # s PROVE (DeliveredOnce(x) /\ CashOnce(x))'
  <2>1. a \notin AttemptsOf(x)
    BY <1>6 DEF AttemptsOf
  <2>2. \A b \in AttemptsOf(x) : attempt'[b] = attempt[b] /\ asg'[b].driver = asg[b].driver
    BY <1>2, <1>3, <2>1 DEF AttemptsOf
  <2>3. cod'[x] = cod[x]
    BY <1>1, <1>4, <1>6
  <2> QED
    BY <1>1, <1>2, <1>3, <1>6, <2>2, <2>3, ParcelUntouched
<1> QED
  BY <1>2, <1>5, <1>6 DEF RecordsInv

-----------------------------------------------------------------------------
(* The invariant *)

(* The fresh database has no attempt, no proof and no cash. *)
LEMMA InitRecords == Init => RecordsInv
<1> SUFFICES ASSUME Init PROVE RecordsInv
  OBVIOUS
<1>1. \A a \in Assignments : attempt[a].status = "NONE" /\ asg[a].status = "NONE"
  BY DEF Init, NoAttempt, NoAssignment
<1>2. \A s : AttemptsOf(s) = {} /\ Deliveries(s) = {}
  BY <1>1 DEF AttemptsOf, Deliveries
<1>3. AttemptFollowsTask /\ LastWhileOut
  BY <1>1 DEF AttemptFollowsTask, LastWhileOut
<1>4. ASSUME NEW s \in Shipments PROVE Numbered(s) /\ DeliveredOnce(s) /\ CashOnce(s)
  <2>1. Cardinality(AttemptsOf(s)) = 0
    BY <1>2, FS_EmptySet
  <2>2. Numbered(s)
    BY <1>2, <2>1 DEF Numbered
  <2> QED
    BY <1>2, <2>2 DEF DeliveredOnce, CashOnce, Init
<1> QED
  BY <1>3, <1>4 DEF RecordsInv

(* Every step of a command keeps the records true. *)
LEMMA ShapedRecords ==
    ASSUME IInv, RecordsInv, Shaped
    PROVE  RecordsInv'
<1>1. ASSUME NEW r \in Requests, NEW q \in Request, Reads(r, q) PROVE RecordsInv'
  BY <1>1, AsideRecords DEF Reads, RowsUnchanged
<1>2. ASSUME NEW s \in Shipments, NEW row \in ShipmentRow, MovesParcel(s, row) PROVE RecordsInv'
  BY <1>2, AsideRecords DEF MovesParcel, RecordsKept
<1>3. ASSUME NEW a \in Assignments, NEW status \in ShipmentStatus, Advances(a, status)
      PROVE  RecordsInv'
  BY <1>3, AcceptRecords, StartRecords
<1>4. ASSUME NEW a \in Assignments, NEW outcome \in Closed, NEW row \in ShipmentRow,
             NEW status \in DriverStatus, Closes(a, outcome, row, status)
      PROVE  RecordsInv'
  <2>1. asg[a].type \in {"PICKUP", "DELIVERY"}
    BY <1>4 DEF Closes, RecordsEnd
  <2> QED
    BY <1>4, <2>1, PickupEndRecords, FailRecords, CompleteRecords
<1>5. ASSUME NEW d \in Drivers, NEW row \in DriverRow, ChangesDriver(d, row) PROVE RecordsInv'
  BY <1>5, AsideRecords DEF ChangesDriver
<1>6. ASSUME NEW t \in Trips, NEW row \in TripRow, ChangesTrip(t, row) PROVE RecordsInv'
  BY <1>6, AsideRecords DEF ChangesTrip
<1> QED
  BY <1>1, <1>2, <1>3, <1>4, <1>5, <1>6, AssignsTaskRecords, HandsOverRecords DEF Shaped

(* The records stay true in every execution. *)
THEOREM RecordsInvariance == Spec => [](IInv /\ RecordsInv)
<1>1. Init => IInv /\ RecordsInv
  BY InitIInv, InitRecords
<1>2. IInv /\ RecordsInv /\ [Next]_vars => (IInv /\ RecordsInv)'
  <2> SUFFICES ASSUME IInv, RecordsInv, [Next]_vars PROVE IInv' /\ RecordsInv'
    OBVIOUS
  <2>1. CASE Next
    BY <2>1, NextIInv, NextShaped, ShapedRecords
  <2>2. CASE UNCHANGED vars
    BY <2>2, NextIInv, AsideRecords DEF vars
  <2> QED
    BY <2>1, <2>2
<1> QED
  BY <1>1, <1>2, PTL DEF Spec

(* Attempts are numbered without a gap; a parcel is delivered exactly when  *)
(* its last attempt is, once, with a proof, and its cash is then held by    *)
(* the driver who delivered it (deliveries.service.ts: start, complete and  *)
(* fail write the attempt without a condition on it).                       *)
THEOREM AttemptsKept == Spec => []AttemptHistory
BY RecordsInvariance, RecordsHistory, PTL

(* What is written of a task that ended, of an attempt that ended, of a     *)
(* proof and of collected cash is never written again.                      *)
LEMMA ShapedHistory ==
    ASSUME IInv, RecordsInv, Shaped
    PROVE  /\ \A a \in Assignments :
                /\ asg[a].status \in Closed => asg'[a] = asg[a]
                /\ attempt[a].status \in {"DELIVERED", "FAILED"} => attempt'[a] = attempt[a]
           /\ proof \subseteq proof'
           /\ \A s \in Shipments : cod[s] # None => cod'[s] = cod[s]
<1>1. Formed /\ AttemptFollowsTask
  BY DEF IInv, RecordsInv
<1>2. ASSUME NEW b \in Assignments, NEW status \in ShipmentStatus, Advances(b, status)
      PROVE  /\ \A a \in Assignments :
                  /\ asg[a].status \in Closed => asg'[a] = asg[a]
                  /\ attempt[a].status \in {"DELIVERED", "FAILED"} => attempt'[a] = attempt[a]
             /\ UNCHANGED <<proof, cod>>
  BY <1>1, <1>2 DEF Advances, SetAssignment, RecordsStart, RecordsKept, AttemptFollowsTask,
                    Formed, TypeOK, Closed
<1>3. ASSUME NEW b \in Assignments, NEW outcome \in Closed, NEW row \in ShipmentRow,
             NEW status \in DriverStatus, Closes(b, outcome, row, status)
      PROVE  /\ \A a \in Assignments :
                  /\ asg[a].status \in Closed => asg'[a] = asg[a]
                  /\ attempt[a].status \in {"DELIVERED", "FAILED"} => attempt'[a] = attempt[a]
             /\ proof \subseteq proof'
             /\ \A s \in Shipments : cod[s] # None => cod'[s] = cod[s]
  <2>1. \A a \in Assignments : asg[a].status \in Closed => asg'[a] = asg[a]
    BY <1>1, <1>3 DEF Closes, SetAssignment, Active, Closed, Formed, TypeOK
  <2>2. \A a \in Assignments :
           attempt[a].status \in {"DELIVERED", "FAILED"} => attempt'[a] = attempt[a]
    BY <1>1, <1>3 DEF Closes, RecordsEnd, AttemptFollowsTask, Active, Formed, TypeOK
  <2>3. proof \subseteq proof'
    BY <1>3 DEF Closes, RecordsEnd
  <2>4. \A s \in Shipments : cod[s] # None => cod'[s] = cod[s]
    BY <1>1, <1>3 DEF Closes, RecordsEnd, Formed, TypeOK
  <2> QED
    BY <2>1, <2>2, <2>3, <2>4
<1>4. ASSUME NEW b \in Assignments, NEW s \in Shipments, NEW d \in Drivers,
             NEW type \in {"PICKUP", "DELIVERY"}, NEW status \in ShipmentStatus,
             AssignsTask(b, s, d, type, status)
      PROVE  /\ \A a \in Assignments : asg[a].status \in Closed => asg'[a] = asg[a]
             /\ RecordsKept
  BY <1>1, <1>4 DEF AssignsTask, Closed, Formed, TypeOK
<1>5. ASSUME NEW p \in Assignments, NEW b \in Assignments, NEW d \in Drivers,
             NEW status \in DriverStatus, HandsOver(p, b, d, status)
      PROVE  /\ \A a \in Assignments : asg[a].status \in Closed => asg'[a] = asg[a]
             /\ RecordsKept
  BY <1>1, <1>5 DEF HandsOver, Closed, Active, Formed, TypeOK
<1>6. CASE \/ \E r \in Requests, q \in Request : Reads(r, q)
           \/ \E s \in Shipments, row \in ShipmentRow : MovesParcel(s, row)
           \/ \E d \in Drivers, row \in DriverRow : ChangesDriver(d, row)
           \/ \E t \in Trips, row \in TripRow : ChangesTrip(t, row)
  BY <1>6 DEF Reads, RowsUnchanged, MovesParcel, RecordsKept, ChangesDriver, ChangesTrip
<1> QED
  BY <1>2, <1>3, <1>4, <1>5, <1>6 DEF Shaped, RecordsKept

(* The history of a parcel is append-only: no command, whatever runs beside *)
(* it, rewrites a closed assignment, an ended attempt, a proof or a cash    *)
(* record.                                                                  *)
THEOREM HistoryIsKept == Spec => HistoryKept
<1> DEFINE Kept == /\ \A a \in Assignments :
                        /\ asg[a].status \in Closed => asg'[a] = asg[a]
                        /\ attempt[a].status \in {"DELIVERED", "FAILED"} => attempt'[a] = attempt[a]
                   /\ proof \subseteq proof'
                   /\ \A s \in Shipments : cod[s] # None => cod'[s] = cod[s]
<1>1. IInv /\ RecordsInv /\ [Next]_vars => [Kept]_vars
  BY NextShaped, ShapedHistory
<1>2. HistoryKept <=> [][Kept]_vars
  BY DEF HistoryKept
<1> HIDE DEF Kept
<1> QED
  BY <1>1, <1>2, RecordsInvariance, PTL DEF Spec
=============================================================================
