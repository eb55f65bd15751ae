------------------------------ MODULE LastMile ------------------------------
(***************************************************************************)
(* Pickup, delivery and return of parcels by drivers: the commands of      *)
(* AssignmentsService, DeliveryService, DriversService and UsersService on *)
(* the PostgreSQL rows they share.                                         *)
(*                                                                         *)
(* A command is one READ COMMITTED transaction.  It reads rows without     *)
(* locking them, decides on what it read, and then writes; most writes are *)
(* conditional on the status and version that were read, some are not.  So *)
(* a command that depends on more than one row is a request in flight: one *)
(* Read step for each query whose result it relies on, and one Commit step *)
(* that evaluates every WHERE clause and unique index on the rows of that  *)
(* moment.  Row locks taken by the writes are held to the end of the       *)
(* transaction, so the writes are one step.  A request may abort at any    *)
(* moment: a conflict, a rejected check, a timeout or a lost connection.   *)
(*                                                                         *)
(* Commands that read and conditionally write one versioned row, and those *)
(* that lock the driver before they read, are single steps.                *)
(***************************************************************************)
EXTENDS Naturals, FiniteSets

CONSTANTS
    Shipments,       \* parcels
    CodShipments,    \* those with codAmount > 0
    Drivers,         \* driver profiles, each with its user account
    Assignments,     \* (assignedById, clientRequestId) keys, one row at most each
    Warehouses,
    Trips,           \* line-haul trips
    Requests,        \* command handlers that can be in flight
    CapabilitySets,  \* what an administrator may set a driver's capabilities to
    None,            \* SQL NULL
    MaxDriverVersion \* bound on the profile changes that could repeat forever

ASSUME KeysAssumption == IsFiniteSet(Assignments)

ASSUME CodAssumption == CodShipments \subseteq Shipments

ASSUME CapabilityAssumption ==
    CapabilitySets \subseteq SUBSET {"PICKUP", "DELIVERY", "LINE_HAUL"}

ASSUME BoundAssumption == MaxDriverVersion \in Nat

VARIABLES
    ship,     \* Shipment rows
    asg,      \* DriverAssignment rows; status "NONE" when the row is absent
    attempt,  \* the DeliveryAttempt of an assignment; "NONE" when absent
    proof,    \* assignments that have a ShipmentProof (pickup or delivery)
    cod,      \* CODTransaction.collectedByDriverId of a parcel, or None
    driver,   \* DriverProfile rows joined with User.status
    trip,     \* LineHaulTrip rows, as far as the driver is concerned
    req       \* commands in flight

vars == <<ship, asg, attempt, proof, cod, driver, trip, req>>

-----------------------------------------------------------------------------
(* Rows *)

ShipmentStatus ==
    {"PENDING", "AWAITING_PICKUP_ASSIGNMENT", "PICKUP_ASSIGNED",
     "PICKUP_IN_PROGRESS", "PICKED_UP", "AT_ORIGIN_WAREHOUSE", "IN_TRANSIT",
     "AT_DESTINATION_WAREHOUSE", "AWAITING_DELIVERY_ASSIGNMENT",
     "DELIVERY_ASSIGNED", "OUT_FOR_DELIVERY", "DELIVERED", "DELIVERY_FAILED",
     "RETURN_REQUESTED", "RETURN_IN_TRANSIT", "RETURNED", "CANCELLED"}

Active == {"PENDING", "ACCEPTED"}
Closed == {"REJECTED", "CANCELLED", "COMPLETED"}
Capability == {"PICKUP", "DELIVERY", "LINE_HAUL"}
DriverStatus == {"OFFLINE", "AVAILABLE", "BUSY", "SUSPENDED"}
Executing == {"READY", "IN_TRANSIT"}

ShipmentRow == [status : ShipmentStatus, version : Nat,
                origin : Warehouses \cup {None}, dest : Warehouses \cup {None}]
AssignmentRow == [shipment : Shipments \cup {None}, driver : Drivers \cup {None},
                  type : {"NONE", "PICKUP", "DELIVERY"},
                  status : {"NONE"} \cup Active \cup Closed]
AttemptRow == [number : Nat,
               status : {"NONE", "OUT_FOR_DELIVERY", "DELIVERED", "FAILED"}]
DriverRow == [status : DriverStatus, version : Nat, caps : SUBSET Capability,
              warehouse : Warehouses, user : {"ACTIVE", "SUSPENDED"}]
TripRow == [driver : Drivers \cup {None},
            status : {"NONE", "PLANNED", "READY", "IN_TRANSIT", "ARRIVED", "CANCELLED"}]

ASSUME NoneAssumption ==
    /\ None \notin Shipments \cup Drivers \cup Assignments \cup Warehouses
    /\ None \notin ShipmentRow \cup DriverRow

NoAssignment == [shipment |-> None, driver |-> None, type |-> "NONE", status |-> "NONE"]
NoAttempt == [number |-> 0, status |-> "NONE"]
NoTrip == [driver |-> None, status |-> "NONE"]

(* A request in flight: the command, its arguments (shipment, key, driver,  *)
(* argument), how far it has read (pc), and the rows it has read.           *)
Commands == {"assign", "reassign", "accept", "reject", "pickup", "assignDelivery",
             "start", "complete", "fail", "startReturn", "setOnline", "setOffline",
             "updateProfile", "restoreProfile"}
Request == [cmd : Commands \cup {"idle"}, pc : {"idle", "reading", "read"},
            shipment : Shipments \cup {None}, key : Assignments \cup {None},
            driver : Drivers \cup {None}, warehouse : Warehouses \cup {None},
            ship : ShipmentRow \cup {None}, status : Active \cup {"NONE"},
            row : DriverRow \cup {None}, busy : BOOLEAN,
            previous : Assignments \cup {None}, previousRow : DriverRow \cup {None}]

Idle == [cmd |-> "idle", pc |-> "idle", shipment |-> None, key |-> None,
         driver |-> None, warehouse |-> None, ship |-> None, status |-> "NONE",
         row |-> None, busy |-> FALSE, previous |-> None, previousRow |-> None]

-----------------------------------------------------------------------------
(* What queries return *)

ActiveOfDriver(d) == {a \in Assignments : asg[a].driver = d /\ asg[a].status \in Active}
ActivePickup(s) == {a \in Assignments : /\ asg[a].shipment = s
                                        /\ asg[a].type = "PICKUP"
                                        /\ asg[a].status \in Active}
ActiveOfShipment(s) == {a \in Assignments : asg[a].shipment = s /\ asg[a].status \in Active}
AttemptsOf(s) == {a \in Assignments : asg[a].shipment = s /\ attempt[a].status # "NONE"}
ExecutingTrip(d) == \E t \in Trips : trip[t].driver = d /\ trip[t].status \in Executing

(* The attempt with the greatest number: orderBy attemptNumber desc, take 1. *)
LastAttempt(s, a) == /\ a \in AttemptsOf(s)
                     /\ \A b \in AttemptsOf(s) : attempt[b].number <= attempt[a].number

(* DriverTaskOwnershipService.assertNoActiveLineHaulTrip, assertNoActiveAssignment *)
NoDrivingLineHaulTrip(d) ==  \* mutant: a READY trip is not looked at
    \A t \in Trips : trip[t].driver = d => trip[t].status # "IN_TRANSIT"
NoActiveLineHaulTrip(d) == ~ExecutingTrip(d)
NoActiveAssignment(d) == ActiveOfDriver(d) = {}

(* AssignmentPolicy.assertEligible; a fresh GPS location and, for a pickup, *)
(* a matching city are always possible.                                     *)
Eligible(row, capability) == /\ row.user = "ACTIVE"
                             /\ row.status = "AVAILABLE"
                             /\ capability \in row.caps

LineHaulEligible(row) == /\ row.user = "ACTIVE"
                         /\ row.status # "SUSPENDED"
                         /\ "LINE_HAUL" \in row.caps

(* The CHECK constraint makes isOnline a function of the status. *)
IsOnline(row) == row.status \in {"AVAILABLE", "BUSY"}

(* updateMany ... where version: the row is the one that was read. *)
ShipmentStatusUnchanged(r) ==  \* mutant: the version is not compared
    ship[req[r].shipment].status = req[r].ship.status
DriverNotCompared(d, row) ==  \* mutant: an unconditional update
    driver[d].version >= row.version
ShipmentUnchanged(r) == /\ ship[req[r].shipment].status = req[r].ship.status
                        /\ ship[req[r].shipment].version = req[r].ship.version
DriverUnchanged(d, row) == driver[d].version = row.version

(* data: status, version: { increment: 1 } *)
Written(row, status) == [row EXCEPT !.status = status, !.version = row.version + 1]
SetShipmentUnversioned(s, status) ==  \* mutant: no increment
    [ship EXCEPT ![s].status = status]
SetDriverUnversioned(d, status) ==  \* mutant: no increment
    [driver EXCEPT ![d].status = status]
SetShipment(s, status) == [ship EXCEPT ![s] = Written(ship[s], status)]
SetDriver(d, status) == [driver EXCEPT ![d] = Written(driver[d], status)]
SetAssignment(a, status) == [asg EXCEPT ![a].status = status]

Begin(r, request) == /\ req[r].cmd = "idle"
                     /\ req' = [req EXCEPT ![r] = request]
Continue(r, request) == req' = [req EXCEPT ![r] = request]
End(r) == req' = [req EXCEPT ![r] = Idle]
At(r, cmd, pc) == req[r].cmd = cmd /\ req[r].pc = pc
RowsUnchanged == UNCHANGED <<ship, asg, attempt, proof, cod, driver, trip>>

-----------------------------------------------------------------------------
(* Commands on one shipment row: confirm, cancel, and the warehouse leg.    *)
(* Confirm also accepts CONFIRMED, which no command writes any more, and    *)
(* MarkReadyForDelivery a parcel AT_ORIGIN_WAREHOUSE that is routed to that *)
(* warehouse, which RouteDestination never leaves in that status.           *)

ConfirmToConfirmed(s) ==  \* mutant: the CONFIRMED status that no command handles
    /\ ship[s].status = "PENDING"
    /\ ship' = SetShipment(s, "CONFIRMED")
    /\ UNCHANGED <<asg, attempt, proof, cod, driver, trip, req>>

Confirm(s) ==
    /\ ship[s].status = "PENDING"
    /\ ship' = SetShipment(s, "AWAITING_PICKUP_ASSIGNMENT")
    /\ UNCHANGED <<asg, attempt, proof, cod, driver, trip, req>>

Cancel(s) ==
    /\ ship[s].status \in {"PENDING", "AWAITING_PICKUP_ASSIGNMENT"}
    /\ ship' = SetShipment(s, "CANCELLED")
    /\ UNCHANGED <<asg, attempt, proof, cod, driver, trip, req>>

CheckIn(s) ==
    /\ ship[s].status = "PICKED_UP"
    /\ ship' = SetShipment(s, "AT_ORIGIN_WAREHOUSE")
    /\ UNCHANGED <<asg, attempt, proof, cod, driver, trip, req>>

RouteDestination(s, w) ==
    /\ ship[s].status = "AT_ORIGIN_WAREHOUSE"
    /\ ship[s].dest # w
    /\ ship' = [ship EXCEPT ![s] =
                 [Written(ship[s], IF w = ship[s].origin THEN "AWAITING_DELIVERY_ASSIGNMENT"
                                   ELSE ship[s].status) EXCEPT !.dest = w]]
    /\ UNCHANGED <<asg, attempt, proof, cod, driver, trip, req>>

(* The transfer between warehouses, as the shipment row sees it. *)
TransferDispatched(s) ==
    /\ ship[s].status = "AT_ORIGIN_WAREHOUSE"
    /\ ship[s].dest \notin {None, ship[s].origin}
    /\ ship' = SetShipment(s, "IN_TRANSIT")
    /\ UNCHANGED <<asg, attempt, proof, cod, driver, trip, req>>

TransferReceived(s) ==
    /\ ship[s].status = "IN_TRANSIT"
    /\ ship' = SetShipment(s, "AT_DESTINATION_WAREHOUSE")
    /\ UNCHANGED <<asg, attempt, proof, cod, driver, trip, req>>

MarkReadyForDelivery(s) ==
    /\ ship[s].status = "AT_DESTINATION_WAREHOUSE"
    /\ ship' = SetShipment(s, "AWAITING_DELIVERY_ASSIGNMENT")
    /\ UNCHANGED <<asg, attempt, proof, cod, driver, trip, req>>

Redeliver(s) ==
    /\ ship[s].status = "DELIVERY_FAILED"
    /\ ship' = SetShipment(s, "AWAITING_DELIVERY_ASSIGNMENT")
    /\ UNCHANGED <<asg, attempt, proof, cod, driver, trip, req>>

RequestReturn(s) ==
    /\ ship[s].status = "DELIVERY_FAILED"
    /\ ship' = SetShipment(s, "RETURN_REQUESTED")
    /\ UNCHANGED <<asg, attempt, proof, cod, driver, trip, req>>

ReceiveReturn(s) ==
    /\ ship[s].status = "RETURN_IN_TRANSIT"
    /\ ship' = SetShipment(s, "RETURNED")
    /\ UNCHANGED <<asg, attempt, proof, cod, driver, trip, req>>

-----------------------------------------------------------------------------
(* Pickup: assign and reassign read the shipment, then the active pickup    *)
(* assignment and the two drivers; they lock the new driver before the      *)
(* check against line-haul trips.                                           *)

AssignRead(r, cmd, s, a, d) ==
    /\ asg[a].status = "NONE"
    /\ \/ cmd = "assign" /\ ship[s].status = "AWAITING_PICKUP_ASSIGNMENT"
       \/ cmd = "reassign" /\ ship[s].status \in {"PICKUP_ASSIGNED", "PICKUP_IN_PROGRESS"}
    /\ Begin(r, [Idle EXCEPT !.cmd = cmd, !.pc = "reading", !.shipment = s,
                             !.key = a, !.driver = d, !.ship = ship[s]])
    /\ RowsUnchanged

AssignReadDrivers(r) ==
    /\ At(r, "assign", "reading")
    /\ ActivePickup(req[r].shipment) = {}
    /\ Eligible(driver[req[r].driver], "PICKUP")
    /\ Continue(r, [req[r] EXCEPT !.pc = "read", !.row = driver[req[r].driver]])
    /\ RowsUnchanged

ReassignReadDrivers(r) ==
    /\ At(r, "reassign", "reading")
    /\ Eligible(driver[req[r].driver], "PICKUP")
    /\ \E p \in ActivePickup(req[r].shipment) :
         /\ asg[p].driver # req[r].driver
         /\ Continue(r, [req[r] EXCEPT !.pc = "read", !.row = driver[req[r].driver],
                                       !.previous = p,
                                       !.previousRow = driver[asg[p].driver]])
    /\ RowsUnchanged

(* The unique indexes on the new row: key, active pickup, active driver. *)
AssignmentFits(a, s, d, released) ==
    /\ asg[a].status = "NONE"
    /\ ActivePickup(s) \subseteq released
    /\ ActiveOfDriver(d) \subseteq released

NewAssignment(s, d, type) ==
    [shipment |-> s, driver |-> d, type |-> type, status |-> "PENDING"]

CommitAssign(r) ==
    LET s == req[r].shipment  a == req[r].key  d == req[r].driver
    IN /\ At(r, "assign", "read")
       /\ NoActiveLineHaulTrip(d)
       /\ AssignmentFits(a, s, d, {})
       /\ DriverUnchanged(d, req[r].row)
       /\ ShipmentUnchanged(r)
       /\ asg' = [asg EXCEPT ![a] = NewAssignment(s, d, "PICKUP")]
       /\ driver' = SetDriver(d, "BUSY")
       /\ ship' = SetShipment(s, "PICKUP_ASSIGNED")
       /\ End(r)
       /\ UNCHANGED <<attempt, proof, cod, trip>>

(* The previous assignment is cancelled by id, whatever its status is now. *)
CommitReassign(r) ==
    LET s == req[r].shipment  a == req[r].key  d == req[r].driver
        p == req[r].previous  e == asg[p].driver
    IN /\ At(r, "reassign", "read")
       /\ NoActiveLineHaulTrip(d)
       /\ AssignmentFits(a, s, d, {p})
       /\ DriverUnchanged(e, req[r].previousRow)
       /\ DriverUnchanged(d, req[r].row)
       /\ ShipmentUnchanged(r)
       /\ asg' = [asg EXCEPT ![p].status = "CANCELLED",
                             ![a] = NewAssignment(s, d, "PICKUP")]
       /\ driver' = [driver EXCEPT
                       ![e] = Written(driver[e], IF /\ req[r].previousRow.user = "ACTIVE"
                                                    /\ IsOnline(req[r].previousRow)
                                                 THEN "AVAILABLE" ELSE "OFFLINE"),
                       ![d] = Written(driver[d], "BUSY")]
       /\ ship' = SetShipment(s, "PICKUP_ASSIGNED")
       /\ End(r)
       /\ UNCHANGED <<attempt, proof, cod, trip>>

(* The other driver commands read the assignment joined with its shipment,  *)
(* driver and attempt in one query.                                         *)
ReadAssignment(r, cmd, a) ==
    /\ Begin(r, [Idle EXCEPT !.cmd = cmd, !.pc = "read", !.key = a,
                             !.shipment = asg[a].shipment, !.driver = asg[a].driver,
                             !.status = asg[a].status, !.ship = ship[asg[a].shipment],
                             !.row = driver[asg[a].driver]])
    /\ RowsUnchanged

AcceptRead(r, a) ==
    /\ asg[a].status = "PENDING"
    /\ ship[asg[a].shipment].status = "PICKUP_ASSIGNED"
    /\ ReadAssignment(r, "accept", a)

CommitAccept(r) ==
    /\ At(r, "accept", "read")
    /\ asg[req[r].key].status = "PENDING"
    /\ ShipmentUnchanged(r)
    /\ asg' = SetAssignment(req[r].key, "ACCEPTED")
    /\ ship' = SetShipment(req[r].shipment, "PICKUP_IN_PROGRESS")
    /\ End(r)
    /\ UNCHANGED <<attempt, proof, cod, driver, trip>>

RejectRead(r, a) ==
    /\ asg[a].status \in Active
    /\ ship[asg[a].shipment].status \in {"PICKUP_ASSIGNED", "PICKUP_IN_PROGRESS"}
    /\ ReadAssignment(r, "reject", a)

CommitReject(r) ==
    LET row == req[r].row
    IN /\ At(r, "reject", "read")
       /\ asg[req[r].key].status = req[r].status
       /\ ShipmentUnchanged(r)
       /\ DriverUnchanged(req[r].driver, row)
       /\ asg' = SetAssignment(req[r].key, "REJECTED")
       /\ ship' = SetShipment(req[r].shipment, "AWAITING_PICKUP_ASSIGNMENT")
       /\ driver' = SetDriver(req[r].driver,
                      IF row.user = "ACTIVE" /\ IsOnline(row) THEN "AVAILABLE"
                      ELSE IF row.status = "SUSPENDED" THEN "SUSPENDED" ELSE "OFFLINE")
       /\ End(r)
       /\ UNCHANGED <<attempt, proof, cod, trip>>

PickupRead(r, a) ==
    /\ asg[a].status = "ACCEPTED"
    /\ a \notin proof
    /\ ship[asg[a].shipment].status = "PICKUP_IN_PROGRESS"
    /\ ship[asg[a].shipment].origin \in {None, driver[asg[a].driver].warehouse}
    /\ ReadAssignment(r, "pickup", a)

(* The driver is released: AVAILABLE when online, else OFFLINE. *)
Released(row) == IF IsOnline(row) THEN "AVAILABLE" ELSE "OFFLINE"

CommitPickup(r) ==
    LET s == req[r].shipment
    IN /\ At(r, "pickup", "read")
       /\ req[r].key \notin proof
       /\ asg[req[r].key].status = "ACCEPTED"
       /\ ShipmentUnchanged(r)
       /\ DriverUnchanged(req[r].driver, req[r].row)
       /\ proof' = proof \cup {req[r].key}
       /\ asg' = SetAssignment(req[r].key, "COMPLETED")
       /\ ship' = [ship EXCEPT ![s] = [Written(ship[s], "PICKED_UP")
                                        EXCEPT !.origin = req[r].row.warehouse]]
       /\ driver' = SetDriver(req[r].driver, Released(req[r].row))
       /\ End(r)
       /\ UNCHANGED <<attempt, cod, trip>>

-----------------------------------------------------------------------------
(* Delivery and return *)

AssignDeliveryRead(r, s, a, d) ==
    /\ asg[a].status = "NONE"
    /\ ship[s].status = "AWAITING_DELIVERY_ASSIGNMENT"
    /\ Begin(r, [Idle EXCEPT !.cmd = "assignDelivery", !.pc = "reading",
                             !.shipment = s, !.key = a, !.driver = d, !.ship = ship[s]])
    /\ RowsUnchanged

AssignDeliveryReadDriver(r) ==
    /\ At(r, "assignDelivery", "reading")
    /\ Eligible(driver[req[r].driver], "DELIVERY")
    /\ driver[req[r].driver].warehouse = req[r].ship.dest
    /\ Continue(r, [req[r] EXCEPT !.pc = "read", !.row = driver[req[r].driver]])
    /\ RowsUnchanged

CommitAssignDelivery(r) ==
    LET s == req[r].shipment  a == req[r].key  d == req[r].driver
    IN /\ At(r, "assignDelivery", "read")
       /\ NoActiveLineHaulTrip(d)
       /\ asg[a].status = "NONE"
       /\ NoActiveAssignment(d)
       /\ DriverUnchanged(d, req[r].row)
       /\ ShipmentUnchanged(r)
       /\ asg' = [asg EXCEPT ![a] = NewAssignment(s, d, "DELIVERY")]
       /\ driver' = SetDriver(d, "BUSY")
       /\ ship' = SetShipment(s, "DELIVERY_ASSIGNED")
       /\ End(r)
       /\ UNCHANGED <<attempt, proof, cod, trip>>

StartRead(r, a) ==
    /\ asg[a].type = "DELIVERY"
    /\ asg[a].status = "PENDING"
    /\ ship[asg[a].shipment].status = "DELIVERY_ASSIGNED"
    /\ ReadAssignment(r, "start", a)

CommitStartCounting(r) ==  \* mutant: the new attempt is not counted
    LET s == req[r].shipment  n == Cardinality(AttemptsOf(s))
    IN /\ At(r, "start", "read")
       /\ \A b \in AttemptsOf(s) : attempt[b].number # n
       /\ ShipmentUnchanged(r)
       /\ asg' = SetAssignment(req[r].key, "ACCEPTED")
       /\ attempt' = [attempt EXCEPT ![req[r].key] =
                        [number |-> n, status |-> "OUT_FOR_DELIVERY"]]
       /\ ship' = SetShipment(s, "OUT_FOR_DELIVERY")
       /\ End(r)
       /\ UNCHANGED <<proof, cod, driver, trip>>

(* The assignment is written by id; only the shipment write is conditional. *)
CommitStart(r) ==
    LET s == req[r].shipment  n == Cardinality(AttemptsOf(s)) + 1
    IN /\ At(r, "start", "read")
       /\ \A b \in AttemptsOf(s) : attempt[b].number # n
       /\ ShipmentUnchanged(r)
       /\ asg' = SetAssignment(req[r].key, "ACCEPTED")
       /\ attempt' = [attempt EXCEPT ![req[r].key] =
                        [number |-> n, status |-> "OUT_FOR_DELIVERY"]]
       /\ ship' = SetShipment(s, "OUT_FOR_DELIVERY")
       /\ End(r)
       /\ UNCHANGED <<proof, cod, driver, trip>>

UnderWayIgnoringStatus(a) ==  \* mutant: a closed assignment is not rejected
    /\ asg[a].type = "DELIVERY"
    /\ attempt[a].status # "NONE"
    /\ ship[asg[a].shipment].status = "OUT_FOR_DELIVERY"

UnderWay(a) ==
    /\ asg[a].type = "DELIVERY"
    /\ asg[a].status = "ACCEPTED"
    /\ attempt[a].status # "NONE"
    /\ ship[asg[a].shipment].status = "OUT_FOR_DELIVERY"

CompleteRead(r, a) ==
    /\ UnderWay(a)
    /\ a \notin proof
    /\ ReadAssignment(r, "complete", a)

CommitComplete(r) ==
    LET s == req[r].shipment  a == req[r].key
    IN /\ At(r, "complete", "read")
       /\ a \notin proof
       /\ ShipmentUnchanged(r)
       /\ DriverUnchanged(req[r].driver, req[r].row)
       /\ s \in CodShipments => cod[s] = None
       /\ proof' = proof \cup {a}
       /\ attempt' = [attempt EXCEPT ![a].status = "DELIVERED"]
       /\ asg' = SetAssignment(a, "COMPLETED")
       /\ driver' = SetDriver(req[r].driver, Released(req[r].row))
       /\ ship' = SetShipment(s, "DELIVERED")
       /\ cod' = IF s \in CodShipments THEN [cod EXCEPT ![s] = req[r].driver] ELSE cod
       /\ End(r)
       /\ UNCHANGED trip

FailRead(r, a) == UnderWay(a) /\ ReadAssignment(r, "fail", a)

CommitFail(r) ==
    /\ At(r, "fail", "read")
    /\ ShipmentUnchanged(r)
    /\ DriverUnchanged(req[r].driver, req[r].row)
    /\ attempt' = [attempt EXCEPT ![req[r].key].status = "FAILED"]
    /\ asg' = SetAssignment(req[r].key, "COMPLETED")
    /\ driver' = SetDriver(req[r].driver, Released(req[r].row))
    /\ ship' = SetShipment(req[r].shipment, "DELIVERY_FAILED")
    /\ End(r)
    /\ UNCHANGED <<proof, cod, trip>>

(* Only the driver of the last, failed attempt starts the return. *)
StartReturnRead(r, s, a) ==
    LET d == asg[a].driver
    IN /\ LastAttempt(s, a)
       /\ attempt[a].status = "FAILED"
       /\ driver[d].user = "ACTIVE"
       /\ driver[d].status # "SUSPENDED"
       /\ ship[s].status = "RETURN_REQUESTED"
       /\ Begin(r, [Idle EXCEPT !.cmd = "startReturn", !.pc = "reading", !.shipment = s,
                                !.key = a, !.driver = d, !.ship = ship[s]])
       /\ RowsUnchanged

StartReturnReadSuperseding(r) ==
    /\ At(r, "startReturn", "reading")
    /\ ActiveOfShipment(req[r].shipment) = {}
    /\ Continue(r, [req[r] EXCEPT !.pc = "read"])
    /\ RowsUnchanged

CommitStartReturn(r) ==
    /\ At(r, "startReturn", "read")
    /\ ShipmentUnchanged(r)
    /\ ship' = SetShipment(req[r].shipment, "RETURN_IN_TRANSIT")
    /\ End(r)
    /\ UNCHANGED <<asg, attempt, proof, cod, driver, trip>>

-----------------------------------------------------------------------------
(* Driver profiles.  Availability and profile changes read the profile,     *)
(* then count the active assignments, and write conditionally.              *)

ProfileRead(r, cmd, d, w) ==
    /\ driver[d].version < MaxDriverVersion
    /\ Begin(r, [Idle EXCEPT !.cmd = cmd, !.pc = "reading", !.driver = d,
                             !.warehouse = w, !.row = driver[d]])
    /\ RowsUnchanged

AvailabilityRead(r, cmd, d) ==
    /\ driver[d].status # "SUSPENDED"
    /\ driver[d].user = "ACTIVE"
    /\ ProfileRead(r, cmd, d, None)

(* One request may restore a profile and change its warehouse; it is one of *)
(* each here, as the change of warehouse needs an idle driver either way.   *)
UpdateProfileRead(r, d, w) == ProfileRead(r, "updateProfile", d, w)

RestoreProfileRead(r, d) ==
    /\ driver[d].user = "ACTIVE"
    /\ ProfileRead(r, "restoreProfile", d, None)

CountIgnoringWarehouse(r) ==  \* mutant: the warehouse may change under an assignment
    LET busy == ~NoActiveAssignment(req[r].driver)
    IN /\ req[r].pc = "reading"
       /\ \/ req[r].cmd \in {"setOnline", "updateProfile", "restoreProfile"}
          \/ req[r].cmd = "setOffline" /\ ~busy
       /\ Continue(r, [req[r] EXCEPT !.pc = "read", !.busy = busy])
       /\ RowsUnchanged

(* Going offline and changing the operating warehouse need an idle driver;  *)
(* restoring does not look at the assignments.                              *)
CountActiveAssignments(r) ==
    LET busy == ~NoActiveAssignment(req[r].driver)
    IN /\ req[r].pc = "reading"
       /\ \/ req[r].cmd = "setOnline"
          \/ req[r].cmd = "setOffline" /\ ~busy
          \/ req[r].cmd = "updateProfile" /\ (req[r].warehouse # req[r].row.warehouse => ~busy)
          \/ req[r].cmd = "restoreProfile"
       /\ Continue(r, [req[r] EXCEPT !.pc = "read", !.busy = busy])
       /\ RowsUnchanged

CommitAvailability(r) ==
    /\ At(r, "setOnline", "read") \/ At(r, "setOffline", "read")
    /\ DriverUnchanged(req[r].driver, req[r].row)
    /\ driver' = SetDriver(req[r].driver, IF req[r].cmd = "setOffline" THEN "OFFLINE"
                                          ELSE IF req[r].busy THEN "BUSY"
                                          ELSE "AVAILABLE")
    /\ End(r)
    /\ UNCHANGED <<ship, asg, attempt, proof, cod, trip>>

CommitUpdateProfile(r) ==
    LET d == req[r].driver
    IN /\ At(r, "updateProfile", "read")
       /\ DriverUnchanged(d, req[r].row)
       /\ driver' = [driver EXCEPT ![d] = [Written(driver[d], driver[d].status)
                                            EXCEPT !.warehouse = req[r].warehouse]]
       /\ End(r)
       /\ UNCHANGED <<ship, asg, attempt, proof, cod, trip>>

CommitRestoreProfile(r) ==
    /\ At(r, "restoreProfile", "read")
    /\ DriverUnchanged(req[r].driver, req[r].row)
    /\ driver' = SetDriver(req[r].driver, "OFFLINE")
    /\ End(r)
    /\ UNCHANGED <<ship, asg, attempt, proof, cod, trip>>

(* These lock the driver before they read. *)
SuspendProfile(d) ==
    /\ driver[d].version < MaxDriverVersion
    /\ NoActiveAssignment(d)
    /\ NoActiveLineHaulTrip(d)
    /\ driver' = SetDriver(d, "SUSPENDED")
    /\ UNCHANGED <<ship, asg, attempt, proof, cod, trip, req>>

SetCapabilitiesUnchecked(d, caps) ==  \* mutant: active assignments are not looked at
    /\ driver[d].version < MaxDriverVersion
    /\ caps # driver[d].caps
    /\ "LINE_HAUL" \in driver[d].caps \ caps => NoActiveLineHaulTrip(d)
    /\ driver' = [driver EXCEPT ![d] = [Written(driver[d], driver[d].status)
                                         EXCEPT !.caps = caps]]
    /\ UNCHANGED <<ship, asg, attempt, proof, cod, trip, req>>

SetCapabilities(d, caps) ==
    LET removed == driver[d].caps \ caps
    IN /\ driver[d].version < MaxDriverVersion
       /\ caps # driver[d].caps
       /\ \A a \in ActiveOfDriver(d) : asg[a].type \notin removed
       /\ "LINE_HAUL" \in removed => NoActiveLineHaulTrip(d)
       /\ driver' = [driver EXCEPT ![d] = [Written(driver[d], driver[d].status)
                                            EXCEPT !.caps = caps]]
       /\ UNCHANGED <<ship, asg, attempt, proof, cod, trip, req>>

SuspendUser(d) ==
    /\ driver[d].version < MaxDriverVersion
    /\ driver[d].user = "ACTIVE"
    /\ NoActiveAssignment(d)
    /\ NoActiveLineHaulTrip(d)
    /\ driver' = [driver EXCEPT ![d] = [Written(driver[d], "SUSPENDED")
                                         EXCEPT !.user = "SUSPENDED"]]
    /\ UNCHANGED <<ship, asg, attempt, proof, cod, trip, req>>

(* Restoring the account leaves the profile suspended, and its version alone. *)
RestoreUser(d) ==
    /\ driver[d].user = "SUSPENDED"
    /\ driver' = [driver EXCEPT ![d].user = "ACTIVE"]
    /\ UNCHANGED <<ship, asg, attempt, proof, cod, trip, req>>

-----------------------------------------------------------------------------
(* Line-haul trips, projected on their driver: vehicle, schedule, manifest  *)
(* and warehouses may allow any of these steps.  create, prepare and        *)
(* dispatch lock the driver before they check it.                           *)

CreateTrip(t, d) ==
    /\ trip[t].status = "NONE"
    /\ LineHaulEligible(driver[d])
    /\ trip' = [trip EXCEPT ![t] = [driver |-> d, status |-> "PLANNED"]]
    /\ UNCHANGED <<ship, asg, attempt, proof, cod, driver, req>>

ExecutionReady(d) ==
    /\ LineHaulEligible(driver[d])
    /\ NoActiveAssignment(d)

PrepareTrip(t) ==
    /\ trip[t].status = "PLANNED"
    /\ ExecutionReady(trip[t].driver)
    /\ trip' = [trip EXCEPT ![t].status = "READY"]
    /\ UNCHANGED <<ship, asg, attempt, proof, cod, driver, req>>

DispatchTrip(t) ==
    /\ trip[t].status = "READY"
    /\ ExecutionReady(trip[t].driver)
    /\ trip' = [trip EXCEPT ![t].status = "IN_TRANSIT"]
    /\ UNCHANGED <<ship, asg, attempt, proof, cod, driver, req>>

ArriveTrip(t) ==
    /\ trip[t].status = "IN_TRANSIT"
    /\ trip' = [trip EXCEPT ![t].status = "ARRIVED"]
    /\ UNCHANGED <<ship, asg, attempt, proof, cod, driver, req>>

CancelTrip(t) ==
    /\ trip[t].status \in {"PLANNED", "READY"}
    /\ trip' = [trip EXCEPT ![t].status = "CANCELLED"]
    /\ UNCHANGED <<ship, asg, attempt, proof, cod, driver, req>>

-----------------------------------------------------------------------------
(* A transaction that throws, times out or loses its connection rolls back. *)
Abort(r) ==
    /\ req[r].cmd # "idle"
    /\ End(r)
    /\ RowsUnchanged

Init ==
    /\ ship = [s \in Shipments |-> [status |-> "PENDING", version |-> 0,
                                    origin |-> None, dest |-> None]]
    /\ asg = [a \in Assignments |-> NoAssignment]
    /\ attempt = [a \in Assignments |-> NoAttempt]
    /\ proof = {}
    /\ cod = [s \in Shipments |-> None]
    /\ driver \in [Drivers -> [status : {"OFFLINE"}, version : {0}, caps : CapabilitySets,
                               warehouse : Warehouses, user : {"ACTIVE"}]]
    /\ trip = [t \in Trips |-> NoTrip]
    /\ req = [r \in Requests |-> Idle]

ShipmentStep ==
    \E s \in Shipments :
      \/ Confirm(s) \/ Cancel(s) \/ CheckIn(s)
      \/ \E w \in Warehouses : RouteDestination(s, w)
      \/ TransferDispatched(s) \/ TransferReceived(s) \/ MarkReadyForDelivery(s)
      \/ Redeliver(s) \/ RequestReturn(s) \/ ReceiveReturn(s)

PickupStep ==
    \E r \in Requests :
      \/ \E cmd \in {"assign", "reassign"}, s \in Shipments, a \in Assignments, d \in Drivers :
           AssignRead(r, cmd, s, a, d)
      \/ AssignReadDrivers(r) \/ ReassignReadDrivers(r)
      \/ CommitAssign(r) \/ CommitReassign(r)
      \/ \E a \in Assignments : AcceptRead(r, a) \/ RejectRead(r, a) \/ PickupRead(r, a)
      \/ CommitAccept(r) \/ CommitReject(r) \/ CommitPickup(r)

DeliveryStep ==
    \E r \in Requests :
      \/ \E s \in Shipments, a \in Assignments, d \in Drivers : AssignDeliveryRead(r, s, a, d)
      \/ AssignDeliveryReadDriver(r) \/ CommitAssignDelivery(r)
      \/ \E a \in Assignments : StartRead(r, a) \/ CompleteRead(r, a) \/ FailRead(r, a)
      \/ CommitStart(r) \/ CommitComplete(r) \/ CommitFail(r)
      \/ \E s \in Shipments, a \in Assignments : StartReturnRead(r, s, a)
      \/ StartReturnReadSuperseding(r) \/ CommitStartReturn(r)

ProfileStep ==
    \/ \E r \in Requests :
         \/ \E d \in Drivers : \/ AvailabilityRead(r, "setOnline", d)
                               \/ AvailabilityRead(r, "setOffline", d)
                               \/ RestoreProfileRead(r, d)
         \/ \E d \in Drivers, w \in Warehouses : UpdateProfileRead(r, d, w)
         \/ CountActiveAssignments(r) \/ CommitAvailability(r)
         \/ CommitUpdateProfile(r) \/ CommitRestoreProfile(r)
    \/ \E d \in Drivers :
         \/ SuspendProfile(d) \/ SuspendUser(d) \/ RestoreUser(d)
         \/ \E caps \in CapabilitySets : SetCapabilities(d, caps)

TripStep ==
    \E t \in Trips : \/ \E d \in Drivers : CreateTrip(t, d)
                     \/ PrepareTrip(t) \/ DispatchTrip(t) \/ ArriveTrip(t) \/ CancelTrip(t)

Next ==
    \/ ShipmentStep \/ PickupStep \/ DeliveryStep \/ ProfileStep \/ TripStep
    \/ \E r \in Requests : Abort(r)

Spec == Init /\ [][Next]_vars

-----------------------------------------------------------------------------
(* Properties *)

(* Every row and every request in flight is well formed. *)
TypeOK ==
    /\ ship \in [Shipments -> ShipmentRow]
    /\ asg \in [Assignments -> AssignmentRow]
    /\ attempt \in [Assignments -> AttemptRow]
    /\ proof \subseteq Assignments
    /\ cod \in [Shipments -> Drivers \cup {None}]
    /\ driver \in [Drivers -> DriverRow]
    /\ trip \in [Trips -> TripRow]
    /\ req \in [Requests -> Request]

(* The shipment status that goes with an active assignment. *)
Leg == {<<"PICKUP", "PENDING", "PICKUP_ASSIGNED">>,
        <<"PICKUP", "ACCEPTED", "PICKUP_IN_PROGRESS">>,
        <<"DELIVERY", "PENDING", "DELIVERY_ASSIGNED">>,
        <<"DELIVERY", "ACCEPTED", "OUT_FOR_DELIVERY">>}
InHands == {"PICKUP_ASSIGNED", "PICKUP_IN_PROGRESS", "DELIVERY_ASSIGNED", "OUT_FOR_DELIVERY"}

(* A parcel whose status says a driver has it has exactly one active        *)
(* assignment, of the kind and progress the status says, and any other      *)
(* parcel has none.  No index enforces it for deliveries, and start,        *)
(* complete, fail and reassign write the assignment without a condition.    *)
AssignmentMatchesShipment ==
    /\ \A a \in Assignments : asg[a].status \in Active =>
         <<asg[a].type, asg[a].status, ship[asg[a].shipment].status>> \in Leg
    /\ \A s \in Shipments : ship[s].status \in InHands => ActiveOfShipment(s) # {}
    /\ \A a, b \in Assignments :
         /\ asg[a].status \in Active /\ asg[b].status \in Active
         /\ asg[a].shipment = asg[b].shipment
         => a = b

(* The status of a driver profile tells the truth about the work: BUSY has  *)
(* an active assignment, AVAILABLE and SUSPENDED have none.                 *)
DriverStatusTruthful ==
    \A d \in Drivers :
      /\ driver[d].status = "BUSY" => ActiveOfDriver(d) # {}
      /\ driver[d].status \in {"AVAILABLE", "SUSPENDED"} => ActiveOfDriver(d) = {}

(* Docs C10: a driver never executes a line-haul trip and holds a pickup or *)
(* delivery at the same time.  The two sides check each other's table; only *)
(* the driver lock orders the checks.                                       *)
TaskExclusion == \A d \in Drivers : ActiveOfDriver(d) # {} => ~ExecutingTrip(d)

(* Nobody who works has lost the right to: account, profile and capability  *)
(* stay in place while an assignment is active or a trip executes (F03).    *)
WorkerStaysEligible ==
    /\ \A a \in Assignments : asg[a].status \in Active =>
         /\ driver[asg[a].driver].user = "ACTIVE"
         /\ asg[a].type \in driver[asg[a].driver].caps
    /\ \A t \in Trips : trip[t].status \in Executing => LineHaulEligible(driver[trip[t].driver])

(* Delivery attempts of a parcel are numbered 1..n, at most one is under    *)
(* way, exactly while the parcel is out, and a delivered parcel has one     *)
(* delivered attempt, the last, with a proof; its cash, when there is any,  *)
(* is recorded once, with the driver of that attempt.                       *)
AttemptHistory ==
    \A s \in Shipments :
      LET as == AttemptsOf(s)
          delivered == {a \in as : attempt[a].status = "DELIVERED"}
      IN /\ {attempt[a].number : a \in as} = 1..Cardinality(as)
         /\ (\E a \in as : attempt[a].status = "OUT_FOR_DELIVERY")
              <=> ship[s].status = "OUT_FOR_DELIVERY"
         /\ ship[s].status = "DELIVERED" <=> delivered # {}
         /\ \A a \in delivered : LastAttempt(s, a) /\ a \in proof
         /\ Cardinality(delivered) <= 1
         /\ cod[s] = None <=> (delivered = {} \/ s \notin CodShipments)
         /\ \A a \in delivered : s \in CodShipments => cod[s] = asg[a].driver

(* Every write is covered by a version that a concurrent command compares:  *)
(* a shipment row never changes without its version, an assignment never    *)
(* without the version of its parcel, the workload of a driver never        *)
(* without the version of the profile.  Only restoring an account is free.  *)
DisciplinedStep ==
    /\ \A s \in Shipments : \/ ship'[s] = ship[s]
                            \/ ship'[s].version = ship[s].version + 1
    /\ \A d \in Drivers :
         \/ driver'[d] = driver[d]
         \/ driver'[d].version = driver[d].version + 1
         \/ driver'[d] = [driver[d] EXCEPT !.user = "ACTIVE"]
    /\ \A a \in Assignments : asg'[a] # asg[a] =>
         /\ ship'[asg'[a].shipment].version = ship[asg'[a].shipment].version + 1
         /\ asg[a].status # "NONE" => asg'[a] = [asg[a] EXCEPT !.status = asg'[a].status]
         /\ ~(asg[a].status \in Active /\ asg'[a].status \in Active) =>
               driver'[asg'[a].driver].version = driver[asg'[a].driver].version + 1

VersionDiscipline == [][DisciplinedStep]_vars

(* What a request has read is current as long as the version it read is.   *)
FreshShipment(q) ==
    q.ship # None =>
      /\ q.ship.version <= ship[q.shipment].version
      /\ q.ship.version = ship[q.shipment].version => q.ship = ship[q.shipment]

FreshDriver(q) ==
    q.row # None =>
      /\ q.row.version <= driver[q.driver].version
      /\ q.row.version = driver[q.driver].version =>
           /\ q.row = [driver[q.driver] EXCEPT !.user = q.row.user]
           /\ q.row.user = "ACTIVE" => driver[q.driver].user = "ACTIVE"
           /\ q.cmd \in {"setOnline", "setOffline", "updateProfile"} /\ q.pc = "read"
                => q.busy = (ActiveOfDriver(q.driver) # {})

FreshAssignment(q) ==
    q.status # "NONE" =>
      /\ asg[q.key].shipment = q.shipment
      /\ asg[q.key].driver = q.driver
      /\ q.ship.version = ship[q.shipment].version => asg[q.key].status = q.status

FreshPrevious(q) ==
    q.previous # None =>
      LET p == asg[q.previous]
      IN /\ p.shipment = q.shipment
         /\ p.driver \in Drivers \ {q.driver}
         /\ q.ship.version = ship[q.shipment].version => p.status \in Active
         /\ q.previousRow.version <= driver[p.driver].version
         /\ q.previousRow.version = driver[p.driver].version
              => q.previousRow.status = driver[p.driver].status

(* A conditional write that succeeds acts on the state the command was      *)
(* decided on, although it compares only a version: shipment, driver,       *)
(* assignment and previous assignment are as they were read, and the count  *)
(* of active assignments still holds.                                       *)
SnapshotFresh ==
    \A r \in Requests : /\ FreshShipment(req[r]) /\ FreshDriver(req[r])
                        /\ FreshAssignment(req[r]) /\ FreshPrevious(req[r])

(* Assignment history is append-only (docs DOMAIN.md): a closed assignment  *)
(* never changes again, an attempt that ended keeps its outcome, and a      *)
(* proof or a cash record is never taken back.                              *)
HistoryKept ==
    [][/\ \A a \in Assignments :
            /\ asg[a].status \in Closed => asg'[a] = asg[a]
            /\ attempt[a].status \in {"DELIVERED", "FAILED"} => attempt'[a] = attempt[a]
       /\ proof \subseteq proof'
       /\ \A s \in Shipments : cod[s] # None => cod'[s] = cod[s]]_vars

(* The origin warehouse recorded at pickup is the one the driver worked for *)
(* when the pickup was assigned: it cannot move under an active assignment. *)
WarehouseFixedWhileWorking ==
    [][\A d \in Drivers : ActiveOfDriver(d) # {} => driver'[d].warehouse = driver[d].warehouse]_vars

(* A driver cannot go offline with an active assignment ("Reject or         *)
(* complete the active assignment before going offline", drivers.service.ts *)
(* line 402).  Violated: restoring a profile that is not suspended sets it  *)
(* OFFLINE whatever the driver is carrying.                                 *)
NoWorkWhileOffline ==
    \A d \in Drivers : driver[d].status = "OFFLINE" => ActiveOfDriver(d) = {}
=============================================================================
