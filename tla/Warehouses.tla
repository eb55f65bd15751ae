----------------------------- MODULE Warehouses -----------------------------
(***************************************************************************)
(* Parcels inside the warehouse network (WarehousesService,                *)
(* WarehouseTransferLifecycleService, WarehouseTransferFlowPolicy): origin *)
(* check-in, destination routing, transfers between warehouses, delivery   *)
(* readiness, and the administration of warehouses and of their staff.     *)
(*                                                                         *)
(* Every warehouse command first reads whether its actor may act in the    *)
(* warehouse, outside the transaction that then does the work; check-in    *)
(* and ready-for-delivery read the parcel there too. A command is hence a  *)
(* Begin step and a commit step of a request. routeDestination and         *)
(* createTransfer lock the shipment row, dispatch and receive the transfer *)
(* row, so that each commit is one step.                                   *)
(*                                                                         *)
(* Line-haul trips are seen here as the carriage of a transfer, the status *)
(* of the trip whose manifest holds it; LineHaul implements this view.     *)
(***************************************************************************)
EXTENDS Naturals, FiniteSets

CONSTANTS
    Sites,        \* warehouses
    Parcels,      \* shipments picked up for an origin warehouse
    Transfers,    \* WarehouseTransfer rows, by creator and clientRequestId
    Staff,        \* accounts of role WAREHOUSE_STAFF
    Office,       \* an ADMIN or DISPATCHER account
    Requests,     \* command handlers that can be in flight
    Weights,      \* verified weights a check-in may record
    Points,       \* coordinates of warehouses on the map
    None,         \* SQL NULL
    MaxVersion    \* bound on the version of a parcel

(* What the constants must satisfy. *)
SitesAssumption == None \notin Sites \cup Points /\ Office \notin Staff /\ None \notin Parcels

WeightsAssumption == Weights \subseteq Nat \ {0} /\ MaxVersion \in Nat

VARIABLES
    site,      \* Warehouse rows
    staff,     \* WarehouseStaffProfile rows
    parcel,    \* Shipment rows
    transfer,  \* WarehouseTransfer rows
    carriage,  \* status of the trip that holds the transfer, "none" without one
    era,       \* LINE_HAUL_ENFORCEMENT_FROM: not set, ahead, or passed
    req        \* commands in flight

vars == <<site, staff, parcel, transfer, carriage, era, req>>

-----------------------------------------------------------------------------
(* Rows *)

Stage == {"PICKED_UP", "AT_ORIGIN_WAREHOUSE", "IN_TRANSIT", "AT_DESTINATION_WAREHOUSE",
          "AWAITING_DELIVERY_ASSIGNMENT"}
TransferStatus == {"NONE", "PENDING", "IN_TRANSIT", "COMPLETED"}
Live == {"PENDING", "IN_TRANSIT"}
Carriage == {"none", "PLANNED", "READY", "IN_TRANSIT", "ARRIVED"}

(* A warehouse: absent, active or not, and its location on the map, if it   *)
(* has one.                                                                 *)
SiteRow == [status : {"NONE", "ACTIVE", "INACTIVE"}, point : Points \cup {None}]
StaffRow == [site : Sites \cup {None}, active : BOOLEAN]
ParcelRow == [stage : Stage, origin : Sites, current : Sites \cup {None},
              dest : Sites \cup {None}, weight : Weights \cup {0}, version : Nat]
TransferRow == [parcel : Parcels \cup {None}, from : Sites \cup {None}, to : Sites \cup {None},
                status : TransferStatus, legacy : BOOLEAN]

NoTransfer == [parcel |-> None, from |-> None, to |-> None, status |-> "NONE", legacy |-> FALSE]

Command == {"idle", "checkIn", "routeDestination", "createTransfer", "dispatchTransfer",
            "receiveTransfer", "markReadyForDelivery"}
Request == [cmd : Command, at : Sites \cup {None}, parcel : Parcels \cup {None},
            read : ParcelRow \cup {None}]
Idle == [cmd |-> "idle", at |-> None, parcel |-> None, read |-> None]

Open(w) == site[w].status = "ACTIVE"

-----------------------------------------------------------------------------
(* Administration *)

CreateWarehouse(w, active, point) ==
    /\ site[w].status = "NONE"
    /\ site' = [site EXCEPT ![w] = [status |-> IF active THEN "ACTIVE" ELSE "INACTIVE",
                                    point |-> point]]
    /\ UNCHANGED <<staff, parcel, transfer, carriage, era, req>>

(* updateWarehouse: a changed address needs a new location; the version     *)
(* makes the write conditional on the row that was read.                    *)
UpdateWarehouse(w, active, readdressed, point) ==
    /\ site[w].status # "NONE"
    /\ readdressed => point # None
    /\ site' = [site EXCEPT ![w] = [status |-> IF active THEN "ACTIVE" ELSE "INACTIVE",
                                    point |-> point]]
    /\ UNCHANGED <<staff, parcel, transfer, carriage, era, req>>

ToggleWarehouseStatus(w) ==
    /\ site[w].status # "NONE"
    /\ site' = [site EXCEPT ![w].status = IF @ = "ACTIVE" THEN "INACTIVE" ELSE "ACTIVE"]
    /\ UNCHANGED <<staff, parcel, transfer, carriage, era, req>>

AssignStaff(u, w) ==
    /\ site[w].status # "NONE"
    /\ staff' = [staff EXCEPT ![u] = [site |-> w, active |-> TRUE]]
    /\ UNCHANGED <<site, parcel, transfer, carriage, era, req>>

ToggleStaffStatus(u) ==
    /\ staff[u].site # None
    /\ staff' = [staff EXCEPT ![u].active = ~@]
    /\ UNCHANGED <<site, parcel, transfer, carriage, era, req>>

(* LINE_HAUL_ENFORCEMENT_FROM is a time: it is passed once. *)
Cutover ==
    /\ era = "before"
    /\ era' = "enforced"
    /\ UNCHANGED <<site, staff, parcel, transfer, carriage, req>>

-----------------------------------------------------------------------------
(* Commands: scope, then the work *)

(* assertStaffWarehouseScope *)
InScope(u, w) == u \in Staff => (staff[u].active /\ staff[u].site = w)

Begin(r, u, cmd, w) ==
    /\ req[r].cmd = "idle"
    /\ InScope(u, w)
    /\ cmd \in {"routeDestination", "createTransfer", "dispatchTransfer", "receiveTransfer"}
    /\ req' = [req EXCEPT ![r] = [cmd |-> cmd, at |-> w, parcel |-> None, read |-> None]]
    /\ UNCHANGED <<site, staff, parcel, transfer, carriage, era>>

BeginRead(r, cmd, w, s) ==
    /\ req[r].cmd = "idle"
    /\ req' = [req EXCEPT ![r] = [cmd |-> cmd, at |-> w, parcel |-> s, read |-> parcel[s]]]
    /\ UNCHANGED <<site, staff, parcel, transfer, carriage, era>>

CheckInRead(r, u, w, s) ==
    /\ InScope(u, w)
    /\ Open(w)
    /\ parcel[s].origin = w
    /\ parcel[s].stage = "PICKED_UP"
    /\ BeginRead(r, "checkIn", w, s)

MarkReadyRead(r, u, w, s) ==
    /\ InScope(u, w)
    /\ site[w].status # "NONE"
    /\ parcel[s].current = w
    /\ \/ parcel[s].stage = "AT_DESTINATION_WAREHOUSE"
       \/ parcel[s].stage = "AT_ORIGIN_WAREHOUSE" /\ parcel[s].dest = w
    /\ BeginRead(r, "markReadyForDelivery", w, s)

(* A refused command leaves no trace. *)
Refused(r) ==
    /\ req[r].cmd # "idle"
    /\ req' = [req EXCEPT ![r] = Idle]
    /\ UNCHANGED <<site, staff, parcel, transfer, carriage, era>>

(* updateShipmentConditionally *)
UnchangedSince(r, s) == parcel[s].stage = req[r].read.stage
                        /\ parcel[s].version = req[r].read.version

SetParcel(s, row) ==
    /\ parcel[s].version < MaxVersion
    /\ parcel' = [parcel EXCEPT ![s] = [row EXCEPT !.version = parcel[s].version + 1]]

CheckIn(r, weight) ==
    LET s == req[r].parcel IN
    /\ req[r].cmd = "checkIn"
    /\ UnchangedSince(r, s)
    /\ SetParcel(s, [parcel[s] EXCEPT !.stage = "AT_ORIGIN_WAREHOUSE", !.current = req[r].at,
                                      !.weight = weight])
    /\ req' = [req EXCEPT ![r] = Idle]
    /\ UNCHANGED <<site, staff, transfer, carriage, era>>

MarkReadyForDelivery(r) ==
    LET s == req[r].parcel IN
    /\ req[r].cmd = "markReadyForDelivery"
    /\ UnchangedSince(r, s)
    /\ SetParcel(s, [parcel[s] EXCEPT !.stage = "AWAITING_DELIVERY_ASSIGNMENT"])
    /\ req' = [req EXCEPT ![r] = Idle]
    /\ UNCHANGED <<site, staff, transfer, carriage, era>>

LiveTransfers(s) == {x \in Transfers : transfer[x].parcel = s /\ transfer[x].status \in Live}

RouteDestinationAnyway(r, s, to) ==  \* mutant: a pending transfer does not pin the destination
    /\ req[r].cmd = "routeDestination"
    /\ parcel[s].current = req[r].at
    /\ parcel[s].dest # to
    /\ parcel[s].stage = "AT_ORIGIN_WAREHOUSE"
    /\ Open(to)
    /\ SetParcel(s, [parcel[s] EXCEPT !.dest = to])
    /\ req' = [req EXCEPT ![r] = Idle]
    /\ UNCHANGED <<site, staff, transfer, carriage, era>>

RouteDestination(r, s, to) ==
    /\ req[r].cmd = "routeDestination"
    /\ parcel[s].current = req[r].at
    /\ parcel[s].dest # to
    /\ parcel[s].stage = "AT_ORIGIN_WAREHOUSE"
    /\ LiveTransfers(s) = {}
    /\ Open(to)
    /\ SetParcel(s, [parcel[s] EXCEPT !.dest = to,
                       !.stage = IF to = req[r].at THEN "AWAITING_DELIVERY_ASSIGNMENT" ELSE @])
    /\ req' = [req EXCEPT ![r] = Idle]
    /\ UNCHANGED <<site, staff, transfer, carriage, era>>

(* createTransfer answers a key, or a live transfer, that matches with the  *)
(* row itself; only the case that writes is an action.                      *)
CreateTransfer(r, s, to, x) ==
    /\ req[r].cmd = "createTransfer"
    /\ transfer[x].status = "NONE"
    /\ LiveTransfers(s) = {}
    /\ to # req[r].at
    /\ Open(req[r].at) /\ Open(to)
    /\ parcel[s].current = req[r].at
    /\ parcel[s].stage \in {"AT_ORIGIN_WAREHOUSE", "AT_DESTINATION_WAREHOUSE"}
    /\ parcel[s].dest = to
    /\ transfer' = [transfer EXCEPT ![x] = [parcel |-> s, from |-> req[r].at, to |-> to,
                                            status |-> "PENDING", legacy |-> FALSE]]
    /\ req' = [req EXCEPT ![r] = Idle]
    /\ UNCHANGED <<site, staff, parcel, carriage, era>>

-----------------------------------------------------------------------------
(* Transfers on the road *)

(* assertDispatchableTransfer, with the transfer's own route *)
Dispatchable(x) ==
    LET s == transfer[x].parcel IN
    /\ transfer[x].status = "PENDING"
    /\ parcel[s].current = transfer[x].from
    /\ parcel[s].dest = transfer[x].to
    /\ parcel[s].stage \in {"AT_ORIGIN_WAREHOUSE", "AT_DESTINATION_WAREHOUSE"}
    /\ Open(transfer[x].from) /\ Open(transfer[x].to)

(* The writes of lifecycle.dispatch, for all transfers of one transaction. *)
PutOnRoad(X) ==
    /\ transfer' = [x \in Transfers |-> IF x \in X
                      THEN [transfer[x] EXCEPT !.status = "IN_TRANSIT", !.legacy = era = "before"]
                      ELSE transfer[x]]
    /\ \A x \in X : parcel[transfer[x].parcel].version < MaxVersion
    /\ parcel' = [s \in Parcels |-> IF \E x \in X : transfer[x].parcel = s
                    THEN [parcel[s] EXCEPT !.stage = "IN_TRANSIT", !.current = None,
                                           !.version = @ + 1]
                    ELSE parcel[s]]

DispatchTransfer(r, x) ==
    /\ req[r].cmd = "dispatchTransfer"
    /\ transfer[x].from = req[r].at
    /\ carriage[x] = "none"
    /\ Dispatchable(x)
    /\ era # "enforced"
    /\ PutOnRoad({x})
    /\ req' = [req EXCEPT ![r] = Idle]
    /\ UNCHANGED <<site, staff, carriage, era>>

(* assertStandaloneReceive *)
StandaloneReceive(x) == era # "enforced" \/ transfer[x].legacy

ReceiveAllowed(x) ==
    /\ transfer[x].status = "IN_TRANSIT"
    /\ Open(transfer[x].to)
    /\ IF carriage[x] = "none" THEN StandaloneReceive(x) ELSE carriage[x] = "ARRIVED"
    /\ parcel[transfer[x].parcel].stage = "IN_TRANSIT"

ReceiveTransfer(r, x) ==
    /\ req[r].cmd = "receiveTransfer"
    /\ transfer[x].to = req[r].at
    /\ ReceiveAllowed(x)
    /\ transfer' = [transfer EXCEPT ![x].status = "COMPLETED"]
    /\ SetParcel(transfer[x].parcel, [parcel[transfer[x].parcel] EXCEPT
                                        !.stage = "AT_DESTINATION_WAREHOUSE",
                                        !.current = transfer[x].to])
    /\ req' = [req EXCEPT ![r] = Idle]
    /\ UNCHANGED <<site, staff, carriage, era>>

-----------------------------------------------------------------------------
(* What line-haul trips do to the transfers they hold *)

Ride(X, to) == carriage' = [x \in Transfers |-> IF x \in X THEN to ELSE carriage[x]]

Load(X) ==
    /\ \A x \in X : transfer[x].status = "PENDING" /\ carriage[x] = "none"
    /\ Ride(X, "PLANNED")
    /\ UNCHANGED <<site, staff, parcel, transfer, era, req>>

Unload(X) ==
    /\ \A x \in X : carriage[x] \in {"PLANNED", "READY"}
    /\ Ride(X, "none")
    /\ UNCHANGED <<site, staff, parcel, transfer, era, req>>

Seal(X) ==
    /\ \A x \in X : carriage[x] = "PLANNED" /\ Dispatchable(x)
    /\ Ride(X, "READY")
    /\ UNCHANGED <<site, staff, parcel, transfer, era, req>>

Depart(X) ==
    /\ \A x \in X : carriage[x] = "READY" /\ Dispatchable(x)
    /\ Ride(X, "IN_TRANSIT")
    /\ PutOnRoad(X)
    /\ UNCHANGED <<site, staff, era, req>>

Arrive(X) ==
    /\ \A x \in X : carriage[x] = "IN_TRANSIT"
    /\ Ride(X, "ARRIVED")
    /\ UNCHANGED <<site, staff, parcel, transfer, era, req>>

-----------------------------------------------------------------------------
Init ==
    /\ site \in [Sites -> {[status |-> "NONE", point |-> None]}
                         \cup [status : {"ACTIVE"}, point : Points \cup {None}]]
    /\ staff = [u \in Staff |-> [site |-> None, active |-> FALSE]]
    /\ parcel \in [Parcels -> {[stage |-> "PICKED_UP", origin |-> w, current |-> None, dest |-> None,
                                weight |-> 0, version |-> 0] : w \in {v \in Sites : Open(v)}}]
    /\ transfer = [x \in Transfers |-> NoTransfer]
    /\ carriage = [x \in Transfers |-> "none"]
    /\ era \in {"off", "before"}
    /\ req = [r \in Requests |-> Idle]

Administration ==
    \/ \E w \in Sites, active \in BOOLEAN, point \in Points \cup {None} :
         CreateWarehouse(w, active, point)
    \/ \E w \in Sites, active, readdressed \in BOOLEAN, point \in Points \cup {None} :
         UpdateWarehouse(w, active, readdressed, point)
    \/ \E w \in Sites : ToggleWarehouseStatus(w)
    \/ \E u \in Staff, w \in Sites : AssignStaff(u, w)
    \/ \E u \in Staff : ToggleStaffStatus(u)
    \/ Cutover

Commands ==
    \/ \E r \in Requests, u \in Staff \cup {Office}, w \in Sites :
         \/ \E cmd \in Command : Begin(r, u, cmd, w)
         \/ \E s \in Parcels : CheckInRead(r, u, w, s) \/ MarkReadyRead(r, u, w, s)
    \/ \E r \in Requests : \/ Refused(r) \/ MarkReadyForDelivery(r)
                           \/ \E weight \in Weights : CheckIn(r, weight)
    \/ \E r \in Requests, s \in Parcels, to \in Sites :
         \/ RouteDestination(r, s, to)
         \/ \E x \in Transfers : CreateTransfer(r, s, to, x)
    \/ \E r \in Requests, x \in Transfers : DispatchTransfer(r, x) \/ ReceiveTransfer(r, x)

CarriageStep == \E X \in (SUBSET Transfers) \ {{}} :
           Load(X) \/ Unload(X) \/ Seal(X) \/ Depart(X) \/ Arrive(X)

Next == Administration \/ Commands \/ CarriageStep

Spec == Init /\ [][Next]_vars

-----------------------------------------------------------------------------
(* What the screens show *)

(* WarehouseTransferFlowPolicy.describe, the workflow part of a response *)
Describe(x) ==
    [canStandaloneDispatch |-> transfer[x].status = "PENDING" /\ carriage[x] = "none"
                               /\ era # "enforced",
     canReceive |-> /\ transfer[x].status = "IN_TRANSIT"
                    /\ IF carriage[x] # "none" THEN carriage[x] = "ARRIVED"
                       ELSE era # "enforced" \/ transfer[x].legacy]

(* listInboundQueue *)
InboundQueue(w) ==
    {s \in Parcels : \/ parcel[s].stage = "PICKED_UP" /\ parcel[s].origin = w
                     \/ \E x \in Transfers : /\ transfer[x].to = w /\ transfer[x].parcel = s
                                             /\ transfer[x].status = "IN_TRANSIT"}

(* listWarehouseShipments *)
Inventory(w) == {s \in Parcels : parcel[s].current = w}

(* listTransfers, outbound and waiting *)
Outbound(w) == {x \in Transfers : transfer[x].from = w /\ transfer[x].status = "PENDING"}

-----------------------------------------------------------------------------
(* Properties *)

(* Every variable has its type. *)
TypeOK ==
    /\ site \in [Sites -> SiteRow]
    /\ staff \in [Staff -> StaffRow]
    /\ parcel \in [Parcels -> ParcelRow]
    /\ transfer \in [Transfers -> TransferRow]
    /\ carriage \in [Transfers -> Carriage]
    /\ era \in {"off", "before", "enforced"}
    /\ req \in [Requests -> Request]

(* The parcel row and the transfer rows tell one story, whatever the order  *)
(* in which routing, transfers and trips touch them: a parcel has at most   *)
(* one live transfer; a waiting transfer starts where the parcel is and     *)
(* ends where it is routed to; a parcel is on the road exactly when a       *)
(* transfer carries it there.                                               *)
ParcelPlace ==
    \A s \in Parcels :
      /\ Cardinality(LiveTransfers(s)) <= 1
      /\ \A x \in LiveTransfers(s) : /\ transfer[x].from # transfer[x].to
                                     /\ parcel[s].dest = transfer[x].to
      /\ \A x \in LiveTransfers(s) :
           transfer[x].status = "PENDING" => /\ parcel[s].stage = "AT_ORIGIN_WAREHOUSE"
                                             /\ parcel[s].current = transfer[x].from
      /\ parcel[s].stage = "IN_TRANSIT"
           <=> \E x \in LiveTransfers(s) : transfer[x].status = "IN_TRANSIT"
      /\ parcel[s].stage = "AWAITING_DELIVERY_ASSIGNMENT" => parcel[s].current = parcel[s].dest

(* The trip that holds a transfer and the transfer agree about whether it   *)
(* has left: a planned or ready trip holds waiting transfers only, a trip   *)
(* that has left holds none that is still waiting.                          *)
CarriageAgrees ==
    \A x \in Transfers :
      /\ carriage[x] \in {"PLANNED", "READY"} => transfer[x].status = "PENDING"
      /\ carriage[x] = "IN_TRANSIT" => transfer[x].status = "IN_TRANSIT"
      /\ carriage[x] = "ARRIVED" => transfer[x].status \in {"IN_TRANSIT", "COMPLETED"}

(* No transfer is stranded by the cutover to line-haul trips: one that left *)
(* without a trip can still be received, and what the response offers for a *)
(* transfer is what the commands then accept, given that both warehouses    *)
(* are active.                                                              *)
NeverStranded ==
    \A x \in Transfers :
      /\ (transfer[x].status = "IN_TRANSIT" /\ carriage[x] = "none" /\ Open(transfer[x].to))
           => ReceiveAllowed(x)
      /\ (Describe(x).canReceive /\ Open(transfer[x].to)) => ReceiveAllowed(x)
      /\ (Describe(x).canStandaloneDispatch /\ Open(transfer[x].from) /\ Open(transfer[x].to))
           => Dispatchable(x)

(* A parcel of the network is on exactly one warehouse's lists: the inbound *)
(* queue of the warehouse it is coming to or the inventory of the one it is *)
(* in; a waiting transfer is on the outbound list of that same warehouse.   *)
OneListEach ==
    /\ \A s \in Parcels : \E w \in Sites :
         /\ s \in InboundQueue(w) \cup Inventory(w)
         /\ s \notin InboundQueue(w) \cap Inventory(w)
         /\ \A v \in Sites \ {w} : s \notin InboundQueue(v) \cup Inventory(v)
    /\ \A w \in Sites : \A x \in Outbound(w) : transfer[x].parcel \in Inventory(w)

(* The verified weight and the origin of a parcel never change once a       *)
(* transfer exists for it: the capacity checks of the trips rest on it.     *)
WeightKept ==
    \A s \in Parcels : (\E x \in Transfers : transfer[x].parcel = s)
      => /\ parcel'[s].weight = parcel[s].weight /\ parcel[s].weight > 0
         /\ parcel'[s].origin = parcel[s].origin
WeightFixed == [][WeightKept]_vars

(* The rows of the network, what is listed of them and what the commands    *)
(* accept tell one story, however routing, transfers, trips and the         *)
(* administration of warehouses interleave.                                 *)
OneStory == /\ [](TypeOK /\ ParcelPlace /\ CarriageAgrees /\ NeverStranded /\ OneListEach)
            /\ WeightFixed
=============================================================================
