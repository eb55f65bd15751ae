-------------------------- MODULE WarehousesProofs --------------------------
(***************************************************************************)
(* Proofs about the warehouse network, and about the workspace page in     *)
(* front of it, for any number of warehouses, parcels, transfers, staff    *)
(* and commands in flight.                                                 *)
(*                                                                         *)
(* A transfer says where its parcel is (TransferShape), a parcel which     *)
(* transfers it can have (ParcelShape), and a command that read a parcel   *)
(* before its transaction knows the row as long as the version is the one  *)
(* it read (RequestShape): every write of a parcel raises its version.     *)
(*                                                                         *)
(* A call of the page is at work on the request the server began for it    *)
(* (Begun), what it reports is true when it is done (Truth), and stays     *)
(* true because no step of the network takes anything of it back           *)
(* (NothingTakenBack). The key of a transfer dialog is new until it is     *)
(* confirmed for the first time (DialogShape), so that its transfer can    *)
(* only be one the clerk has confirmed.                                    *)
(***************************************************************************)
EXTENDS WarehouseDesk, FiniteSetTheorems, TLAPS

(* The constants are as the code has them: NULL is neither a warehouse nor  *)
(* a parcel, and a verified weight is positive.                             *)
Assumptions == SitesAssumption /\ WeightsAssumption

-----------------------------------------------------------------------------
(* The inductive invariant *)

Of(x) == parcel[transfer[x].parcel]

(* Where the parcel of a transfer is.                                       *)
TransferShape(x) ==
    /\ transfer[x].status = "NONE" => transfer[x] = NoTransfer
    /\ transfer[x].status # "NONE" => /\ transfer[x].parcel \in Parcels
                                      /\ transfer[x].from \in Sites /\ transfer[x].to \in Sites
                                      /\ transfer[x].from # transfer[x].to
                                      /\ Of(x).stage # "PICKED_UP"
    /\ transfer[x].status = "PENDING" => /\ Of(x).stage = "AT_ORIGIN_WAREHOUSE"
                                         /\ Of(x).current = transfer[x].from
                                         /\ Of(x).dest = transfer[x].to
    /\ transfer[x].status = "IN_TRANSIT" => /\ Of(x).stage = "IN_TRANSIT"
                                            /\ Of(x).dest = transfer[x].to

(* What the trip of a transfer says about it; without a trip it left before *)
(* the cutover or where there is none.                                      *)
CarriageShape(x) ==
    /\ carriage[x] \in {"PLANNED", "READY"} => transfer[x].status = "PENDING"
    /\ carriage[x] = "IN_TRANSIT" => transfer[x].status = "IN_TRANSIT"
    /\ carriage[x] = "ARRIVED" => transfer[x].status \in {"IN_TRANSIT", "COMPLETED"}
    /\ transfer[x].status = "IN_TRANSIT" /\ carriage[x] = "none"
         => era = "off" \/ transfer[x].legacy

ParcelShape(s) ==
    /\ \A x, y \in LiveTransfers(s) : x = y
    /\ parcel[s].stage = "PICKED_UP" => parcel[s].current = None
    /\ parcel[s].stage = "IN_TRANSIT" => /\ parcel[s].current = None
                                         /\ \E x \in Transfers : /\ transfer[x].parcel = s
                                                                 /\ transfer[x].status = "IN_TRANSIT"
    /\ parcel[s].stage \notin {"PICKED_UP", "IN_TRANSIT"} => parcel[s].current \in Sites
    /\ parcel[s].stage \in {"AT_DESTINATION_WAREHOUSE", "AWAITING_DELIVERY_ASSIGNMENT"}
         => parcel[s].current = parcel[s].dest
    /\ parcel[s].stage # "PICKED_UP" => parcel[s].weight > 0

(* A command that read a parcel knows the row while its version is the one  *)
(* it read.                                                                 *)
RequestShape(r) ==
    /\ req[r].cmd # "idle" => req[r].at \in Sites
    /\ req[r].cmd \in {"checkIn", "markReadyForDelivery"} =>
         /\ req[r].parcel \in Parcels /\ req[r].read \in ParcelRow
         /\ req[r].read.version <= parcel[req[r].parcel].version
         /\ req[r].read.version = parcel[req[r].parcel].version
              => req[r].read = parcel[req[r].parcel]
    /\ req[r].cmd = "checkIn" => req[r].read.stage = "PICKED_UP"
    /\ req[r].cmd = "markReadyForDelivery" =>
         \/ req[r].read.stage = "AT_DESTINATION_WAREHOUSE"
         \/ req[r].read.stage = "AT_ORIGIN_WAREHOUSE" /\ req[r].read.current = req[r].read.dest

IInv ==
    /\ TypeOK
    /\ \A x \in Transfers : TransferShape(x) /\ CarriageShape(x)
    /\ \A s \in Parcels : ParcelShape(s)
    /\ \A r \in Requests : RequestShape(r)

-----------------------------------------------------------------------------
(* What a step of some parcels leaves alone *)

(* Parcels outside S and their transfers keep their shape.                  *)
LEMMA Elsewhere ==
    ASSUME Assumptions, IInv, NEW S \in SUBSET Parcels,
           \A s \in Parcels \ S : parcel'[s] = parcel[s],
           \A x \in Transfers : transfer'[x] = transfer[x]
                                \/ (transfer[x].parcel \in S \cup {None} /\ transfer'[x].parcel \in S)
    PROVE  /\ \A s \in Parcels \ S : ParcelShape(s)'
           /\ \A x \in Transfers : transfer'[x].parcel \notin S => TransferShape(x)'
<1>1. ASSUME NEW s \in Parcels \ S
      PROVE  ParcelShape(s)'
  <2>1. \A x \in Transfers : transfer'[x].parcel = s \/ transfer[x].parcel = s
                             => transfer'[x] = transfer[x]
    BY DEF Assumptions, SitesAssumption
  <2>2. LiveTransfers(s)' = LiveTransfers(s)
    BY <2>1 DEF LiveTransfers
  <2>3. parcel'[s] = parcel[s] /\ ParcelShape(s)
    BY DEF IInv
  <2> QED
    BY <2>1, <2>2, <2>3 DEF ParcelShape
<1>2. ASSUME NEW x \in Transfers, transfer'[x].parcel \notin S
      PROVE  TransferShape(x)'
  <2>1. transfer'[x] = transfer[x] /\ TransferShape(x)
    BY <1>2 DEF IInv
  <2>2. CASE transfer[x].status = "NONE"
    BY <2>1, <2>2 DEF TransferShape
  <2>3. CASE transfer[x].status # "NONE"
    <3>1. transfer[x].parcel \in Parcels \ S
      BY <1>2, <2>1, <2>3 DEF TransferShape
    <3>2. Of(x)' = Of(x)
      BY <2>1, <3>1 DEF Of
    <3> QED
      BY <2>1, <3>2 DEF TransferShape
  <2> QED
    BY <2>2, <2>3
<1> QED
  BY <1>1, <1>2

(* Commands in flight know what they read, or that the version has changed. *)
LEMMA ReadersKnow ==
    ASSUME IInv, parcel' \in [Parcels -> ParcelRow],
           \A s \in Parcels : parcel'[s] = parcel[s] \/ parcel'[s].version = parcel[s].version + 1,
           NEW r \in Requests, req'[r] = req[r]
    PROVE  RequestShape(r)'
<1>1. RequestShape(r)
  BY DEF IInv
<1>2. CASE req[r].cmd \in {"checkIn", "markReadyForDelivery"}
  <2>1. PICK s \in Parcels : s = req[r].parcel
    BY <1>1, <1>2 DEF RequestShape
  <2>2. parcel[s].version \in Nat /\ req[r].read.version \in Nat
    BY <1>1, <1>2, <2>1 DEF RequestShape, IInv, TypeOK, ParcelRow
  <2>3. /\ req[r].read.version <= parcel'[s].version
        /\ req[r].read.version = parcel'[s].version => req[r].read = parcel'[s]
    BY <1>1, <1>2, <2>1, <2>2 DEF RequestShape
  <2> QED
    BY <1>1, <2>1, <2>3 DEF RequestShape
<1>3. CASE req[r].cmd \notin {"checkIn", "markReadyForDelivery"}
  BY <1>1, <1>3 DEF RequestShape
<1> QED
  BY <1>2, <1>3

LEMMA IdleKnows ==
    ASSUME NEW r \in Requests, req'[r] = Idle
    PROVE  RequestShape(r)'
BY DEF RequestShape, Idle

(* A request of a step that answers it.                                     *)
LEMMA AnsweredRequests ==
    ASSUME IInv, parcel' \in [Parcels -> ParcelRow],
           \A s \in Parcels : parcel'[s] = parcel[s] \/ parcel'[s].version = parcel[s].version + 1,
           NEW r \in Requests, req' = [req EXCEPT ![r] = Idle]
    PROVE  req' \in [Requests -> Request] /\ \A q \in Requests : RequestShape(q)'
<1>1. req \in [Requests -> Request]
  BY DEF IInv, TypeOK
<1>2. Idle \in Request
  BY DEF Idle, Request, Command
<1>3. req'[r] = Idle /\ \A q \in Requests \ {r} : req'[q] = req[q]
  BY <1>1
<1> QED
  BY <1>1, <1>2, <1>3, ReadersKnow, IdleKnows

(* A step that leaves parcels and transfers alone leaves their shape.       *)
LEMMA NetworkAside ==
    ASSUME Assumptions, IInv, UNCHANGED <<parcel, transfer>>
    PROVE  /\ \A s \in Parcels : ParcelShape(s)'
           /\ \A x \in Transfers : TransferShape(x)'
<1>1. {} \in SUBSET Parcels
  OBVIOUS
<1>2. /\ \A s \in Parcels \ {} : ParcelShape(s)'
      /\ \A x \in Transfers : transfer'[x].parcel \notin {} => TransferShape(x)'
  BY <1>1, Elsewhere
<1> QED
  BY <1>2

LEMMA CarriageAside ==
    ASSUME IInv, NEW x \in Transfers, UNCHANGED <<carriage[x], era>>, transfer'[x] = transfer[x]
    PROVE  CarriageShape(x)'
BY DEF IInv, CarriageShape

(* Administration of warehouses, staff and the cutover.                     *)
LEMMA AdministrationIInv ==
    ASSUME Assumptions, IInv, Administration
    PROVE  IInv'
<1>1. UNCHANGED <<parcel, transfer, carriage, req>>
  BY DEF Administration, CreateWarehouse, UpdateWarehouse, ToggleWarehouseStatus, AssignStaff,
         ToggleStaffStatus, Cutover
<1>2. /\ site' \in [Sites -> SiteRow] /\ staff' \in [Staff -> StaffRow]
      /\ era' \in {"off", "before", "enforced"}
  <2>1. site \in [Sites -> SiteRow] /\ staff \in [Staff -> StaffRow]
        /\ era \in {"off", "before", "enforced"}
    BY DEF IInv, TypeOK
  <2>2. CASE \E w \in Sites, active \in BOOLEAN, point \in Points \cup {None} :
               CreateWarehouse(w, active, point)
    BY <2>1, <2>2 DEF CreateWarehouse, SiteRow
  <2>3. CASE \E w \in Sites, active, readdressed \in BOOLEAN, point \in Points \cup {None} :
               UpdateWarehouse(w, active, readdressed, point)
    BY <2>1, <2>3 DEF UpdateWarehouse, SiteRow
  <2>4. CASE \E w \in Sites : ToggleWarehouseStatus(w)
    BY <2>1, <2>4 DEF ToggleWarehouseStatus, SiteRow
  <2>5. CASE \E u \in Staff, w \in Sites : AssignStaff(u, w)
    BY <2>1, <2>5 DEF AssignStaff, StaffRow
  <2>6. CASE \E u \in Staff : ToggleStaffStatus(u)
    <3>1. PICK u \in Staff : staff' = [staff EXCEPT ![u].active = ~@]
      BY <2>6 DEF ToggleStaffStatus
    <3>2. [staff[u] EXCEPT !.active = ~@] \in StaffRow
      BY <2>1 DEF StaffRow
    <3>3. staff' = [staff EXCEPT ![u] = [staff[u] EXCEPT !.active = ~@]]
      BY <2>1, <3>1
    <3> QED
      BY <2>1, <2>6, <3>2, <3>3 DEF ToggleStaffStatus
  <2>7. CASE Cutover
    BY <2>1, <2>7 DEF Cutover
  <2> QED
    BY <2>2, <2>3, <2>4, <2>5, <2>6, <2>7 DEF Administration
<1>3. era' = era \/ era = "before"
  BY DEF Administration, CreateWarehouse, UpdateWarehouse, ToggleWarehouseStatus, AssignStaff,
         ToggleStaffStatus, Cutover
<1>4. \A x \in Transfers : CarriageShape(x)'
  BY <1>1, <1>3 DEF IInv, CarriageShape
<1>5. \A r \in Requests : RequestShape(r)'
  <2>1. parcel' \in [Parcels -> ParcelRow]
    BY <1>1 DEF IInv, TypeOK
  <2> QED
    BY <1>1, <2>1, ReadersKnow
<1>6. TypeOK'
  BY <1>1, <1>2 DEF IInv, TypeOK
<1> QED
  BY <1>1, <1>4, <1>5, <1>6, NetworkAside DEF IInv

-----------------------------------------------------------------------------
(* Commands on their way *)

(* A command begins with the parcel it read, or with none.                  *)
LEMMA BeginIInv ==
    ASSUME Assumptions, IInv, NEW r \in Requests, NEW row \in Request,
           req' = [req EXCEPT ![r] = row],
           UNCHANGED <<site, staff, parcel, transfer, carriage, era>>, RequestShape(r)'
    PROVE  IInv'
<1>1. req' \in [Requests -> Request] /\ \A q \in Requests \ {r} : req'[q] = req[q]
  BY DEF IInv, TypeOK
<1>2. parcel' \in [Parcels -> ParcelRow]
  BY DEF IInv, TypeOK
<1>3. \A q \in Requests : RequestShape(q)'
  BY <1>1, <1>2, ReadersKnow
<1>4. \A x \in Transfers : CarriageShape(x)'
  BY CarriageAside
<1> QED
  BY <1>1, <1>3, <1>4, NetworkAside DEF IInv, TypeOK

LEMMA BeginCommandIInv ==
    ASSUME Assumptions, IInv, NEW r \in Requests, NEW u, NEW cmd, NEW w \in Sites,
           Begin(r, u, cmd, w)
    PROVE  IInv'
<1> DEFINE row == [cmd |-> cmd, at |-> w, parcel |-> None, read |-> None]
<1>1. cmd \in {"routeDestination", "createTransfer", "dispatchTransfer", "receiveTransfer"}
      /\ req' = [req EXCEPT ![r] = row] /\ UNCHANGED <<site, staff, parcel, transfer, carriage, era>>
  BY DEF Begin
<1>2. row \in Request
  BY <1>1 DEF Request, Command
<1>3. req'[r] = row
  BY <1>1 DEF IInv, TypeOK
<1>4. RequestShape(r)'
  BY <1>1, <1>3 DEF RequestShape
<1> QED
  BY <1>1, <1>2, <1>4, BeginIInv

LEMMA CheckInReadIInv ==
    ASSUME Assumptions, IInv, NEW r \in Requests, NEW u, NEW w \in Sites, NEW s \in Parcels,
           CheckInRead(r, u, w, s)
    PROVE  IInv'
<1> DEFINE row == [cmd |-> "checkIn", at |-> w, parcel |-> s, read |-> parcel[s]]
<1>1. parcel[s].stage = "PICKED_UP" /\ parcel[s] \in ParcelRow /\ UNCHANGED parcel
      /\ req' = [req EXCEPT ![r] = row] /\ UNCHANGED <<site, staff, parcel, transfer, carriage, era>>
  BY DEF CheckInRead, BeginRead, IInv, TypeOK
<1>2. row \in Request
  BY <1>1 DEF Request, Command
<1>3. req'[r] = row
  BY <1>1 DEF IInv, TypeOK
<1>4. parcel[s].version <= parcel[s].version
  BY <1>1 DEF ParcelRow
<1>5. RequestShape(r)'
  BY <1>1, <1>3, <1>4 DEF RequestShape
<1> QED
  BY <1>1, <1>2, <1>5, BeginIInv

LEMMA MarkReadyReadIInv ==
    ASSUME Assumptions, IInv, NEW r \in Requests, NEW u, NEW w \in Sites, NEW s \in Parcels,
           MarkReadyRead(r, u, w, s)
    PROVE  IInv'
<1> DEFINE row == [cmd |-> "markReadyForDelivery", at |-> w, parcel |-> s, read |-> parcel[s]]
<1>1. /\ \/ parcel[s].stage = "AT_DESTINATION_WAREHOUSE"
         \/ parcel[s].stage = "AT_ORIGIN_WAREHOUSE" /\ parcel[s].current = parcel[s].dest
      /\ parcel[s] \in ParcelRow
      /\ req' = [req EXCEPT ![r] = row] /\ UNCHANGED <<site, staff, parcel, transfer, carriage, era>>
  BY DEF MarkReadyRead, BeginRead, IInv, TypeOK
<1>2. row \in Request
  BY <1>1 DEF Request, Command
<1>3. req'[r] = row
  BY <1>1 DEF IInv, TypeOK
<1>4. parcel[s].version <= parcel[s].version
  BY <1>1 DEF ParcelRow
<1>5. RequestShape(r)'
  BY <1>1, <1>3, <1>4 DEF RequestShape
<1> QED
  BY <1>1, <1>2, <1>5, BeginIInv

LEMMA RefusedIInv ==
    ASSUME Assumptions, IInv, NEW r \in Requests, Refused(r)
    PROVE  IInv'
<1>1. req' = [req EXCEPT ![r] = Idle] /\ UNCHANGED <<site, staff, parcel, transfer, carriage, era>>
  BY DEF Refused
<1>2. Idle \in Request
  BY DEF Idle, Request, Command
<1>3. req'[r] = Idle
  BY <1>1 DEF IInv, TypeOK
<1> QED
  BY <1>1, <1>2, <1>3, IdleKnows, BeginIInv

-----------------------------------------------------------------------------
(* Commands on a parcel *)

(* A parcel written with another place, and its version raised.             *)
Placed(row, stage, current, dest, weight) ==
    [stage |-> stage, origin |-> row.origin, current |-> current, dest |-> dest, weight |-> weight,
     version |-> row.version + 1]

IsPlaced(new, row, stage, current, dest, weight) ==
    /\ new \in ParcelRow /\ new.stage = stage /\ new.current = current /\ new.dest = dest
    /\ new.weight = weight /\ new.version = row.version + 1 /\ new.origin = row.origin

LEMMA PlacedRow ==
    ASSUME NEW row \in ParcelRow, NEW stage \in Stage, NEW current \in Sites \cup {None},
           NEW dest \in Sites \cup {None}, NEW weight \in Weights \cup {0}
    PROVE  IsPlaced(Placed(row, stage, current, dest, weight), row, stage, current, dest, weight)
<1>1. row.version + 1 \in Nat /\ row.origin \in Sites
  BY DEF ParcelRow
<1> QED
  BY <1>1 DEF IsPlaced, Placed, ParcelRow

(* What CheckIn writes, in its own words.                                   *)
CheckedIn(row, stage, current, weight) ==
    [[row EXCEPT !.stage = stage, !.current = current, !.weight = weight]
       EXCEPT !.version = row.version + 1]

(* The rows the commands write, with the version that SetParcel raises.     *)
LEMMA CheckedInRow ==
    ASSUME NEW row \in ParcelRow, NEW stage, NEW current, NEW weight, NEW new,
           new = CheckedIn(row, stage, current, weight)
    PROVE  new = Placed(row, stage, current, row.dest, weight)
<1>1. row = [stage |-> row.stage, origin |-> row.origin, current |-> row.current,
             dest |-> row.dest, weight |-> row.weight, version |-> row.version]
  BY DEF ParcelRow
<1> QED
  BY <1>1 DEF Placed, CheckedIn

LEMMA ReadyRow ==
    ASSUME NEW row \in ParcelRow, NEW stage, NEW new,
           new = [[row EXCEPT !.stage = stage] EXCEPT !.version = row.version + 1]
    PROVE  new = Placed(row, stage, row.current, row.dest, row.weight)
<1>1. row = [stage |-> row.stage, origin |-> row.origin, current |-> row.current,
             dest |-> row.dest, weight |-> row.weight, version |-> row.version]
  BY DEF ParcelRow
<1> QED
  BY <1>1 DEF Placed

LEMMA RoutedRow ==
    ASSUME NEW row \in ParcelRow, NEW stage, NEW dest, NEW new,
           new = [[row EXCEPT !.dest = dest, !.stage = stage] EXCEPT !.version = row.version + 1]
    PROVE  new = Placed(row, stage, row.current, dest, row.weight)
<1>1. row = [stage |-> row.stage, origin |-> row.origin, current |-> row.current,
             dest |-> row.dest, weight |-> row.weight, version |-> row.version]
  BY DEF ParcelRow
<1> QED
  BY <1>1 DEF Placed

LEMMA ReceivedRow ==
    ASSUME NEW row \in ParcelRow, NEW stage, NEW current, NEW new,
           new = [[row EXCEPT !.stage = stage, !.current = current] EXCEPT !.version = row.version + 1]
    PROVE  new = Placed(row, stage, current, row.dest, row.weight)
<1>1. row = [stage |-> row.stage, origin |-> row.origin, current |-> row.current,
             dest |-> row.dest, weight |-> row.weight, version |-> row.version]
  BY DEF ParcelRow
<1> QED
  BY <1>1 DEF Placed

(* A command that writes one parcel and answers its request.                *)
LEMMA ParcelStep ==
    ASSUME Assumptions, IInv, NEW r \in Requests, NEW s \in Parcels, NEW row \in ParcelRow,
           row.version = parcel[s].version + 1, parcel' = [parcel EXCEPT ![s] = row],
           req' = [req EXCEPT ![r] = Idle], UNCHANGED <<site, staff, transfer, carriage, era>>,
           ParcelShape(s)', \A x \in Transfers : transfer[x].parcel = s => TransferShape(x)'
    PROVE  IInv'
<1>1. /\ parcel' \in [Parcels -> ParcelRow] /\ parcel'[s] = row
      /\ \A d \in Parcels \ {s} : parcel'[d] = parcel[d]
  BY DEF IInv, TypeOK
<1>2. req' \in [Requests -> Request] /\ \A q \in Requests : RequestShape(q)'
  BY <1>1, AnsweredRequests
<1>3. /\ \A d \in Parcels \ {s} : ParcelShape(d)'
      /\ \A x \in Transfers : transfer'[x].parcel \notin {s} => TransferShape(x)'
  <2>1. {s} \in SUBSET Parcels
    OBVIOUS
  <2> QED
    BY <1>1, <2>1, Elsewhere
<1>4. \A x \in Transfers : TransferShape(x)'
  BY <1>3
<1>5. \A d \in Parcels : ParcelShape(d)'
  BY <1>3
<1>6. \A x \in Transfers : CarriageShape(x)'
  BY CarriageAside
<1>7. TypeOK'
  BY <1>1, <1>2 DEF IInv, TypeOK
<1> QED
  BY <1>2, <1>4, <1>5, <1>6, <1>7 DEF IInv

LEMMA CheckInIInv ==
    ASSUME Assumptions, IInv, NEW r \in Requests, NEW weight \in Weights, CheckIn(r, weight)
    PROVE  IInv'
<1>1. PICK s : s = req[r].parcel
  OBVIOUS
<1>2. RequestShape(r) /\ req[r].cmd = "checkIn"
  BY DEF CheckIn, IInv
<1>3. /\ s \in Parcels /\ req[r].at \in Sites
      /\ parcel[s] \in ParcelRow /\ parcel[s].stage = "PICKED_UP" /\ ParcelShape(s)
  BY <1>1, <1>2 DEF RequestShape, CheckIn, UnchangedSince, IInv, TypeOK
<1>4. PICK row : row = Placed(parcel[s], "AT_ORIGIN_WAREHOUSE", req[r].at, parcel[s].dest, weight)
  OBVIOUS
<1>5. parcel' = [parcel EXCEPT ![s] = row]
  <2>1. PICK new : new = [[parcel[s] EXCEPT !.stage = "AT_ORIGIN_WAREHOUSE", !.current = req[r].at,
                                            !.weight = weight] EXCEPT !.version = parcel[s].version + 1]
    OBVIOUS
  <2>2. new = row
    <3>1. PICK old, stage, at : old = parcel[s] /\ stage = "AT_ORIGIN_WAREHOUSE" /\ at = req[r].at
      OBVIOUS
    <3>2. new = CheckedIn(old, stage, at, weight)
      BY <2>1, <3>1 DEF CheckedIn
    <3>3. new = Placed(old, stage, at, old.dest, weight)
      BY <1>3, <3>1, <3>2, CheckedInRow
    <3> QED
      BY <1>4, <3>1, <3>3
  <2>3. parcel' = [parcel EXCEPT ![s] = new]
    BY <1>1, <2>1 DEF CheckIn, SetParcel
  <2> QED
    BY <2>2, <2>3
<1>6. /\ row \in ParcelRow /\ row.stage = "AT_ORIGIN_WAREHOUSE" /\ row.current = req[r].at
      /\ row.weight = weight /\ row.version = parcel[s].version + 1
  <2>1. /\ parcel[s] \in ParcelRow /\ "AT_ORIGIN_WAREHOUSE" \in Stage /\ weight \in Weights \cup {0}
        /\ req[r].at \in Sites \cup {None} /\ parcel[s].dest \in Sites \cup {None}
    BY <1>3 DEF ParcelRow, Stage
  <2>2. IsPlaced(row, parcel[s], "AT_ORIGIN_WAREHOUSE", req[r].at, parcel[s].dest, weight)
    BY <1>4, <2>1, PlacedRow
  <2> QED
    BY <2>2 DEF IsPlaced
<1>7. \A x \in Transfers : transfer[x].parcel # s
  BY <1>3 DEF IInv, TransferShape, Of, NoTransfer, Assumptions, SitesAssumption
<1>8. req' = [req EXCEPT ![r] = Idle] /\ UNCHANGED <<site, staff, transfer, carriage, era>>
  BY DEF CheckIn
<1>9. ParcelShape(s)'
  <2>1. LiveTransfers(s)' = {}
    BY <1>7, <1>8 DEF LiveTransfers
  <2>2. parcel'[s] = row /\ weight > 0
    BY <1>3, <1>5 DEF IInv, TypeOK, Assumptions, WeightsAssumption
  <2> QED
    BY <1>3, <1>6, <2>1, <2>2 DEF ParcelShape
<1> QED
  BY <1>3, <1>5, <1>6, <1>7, <1>8, <1>9, ParcelStep

(* A parcel without a live transfer keeps none.                             *)
LEMMA NoLive ==
    ASSUME NEW s \in Parcels, LiveTransfers(s) = {}, UNCHANGED transfer
    PROVE  LiveTransfers(s)' = {}
           /\ \A x \in Transfers : transfer[x].parcel = s
                                    => transfer[x].status \notin {"PENDING", "IN_TRANSIT"}
BY DEF LiveTransfers, Live

LEMMA MarkReadyIInv ==
    ASSUME Assumptions, IInv, NEW r \in Requests, MarkReadyForDelivery(r)
    PROVE  IInv'
<1>1. PICK s : s = req[r].parcel
  OBVIOUS
<1>2. RequestShape(r) /\ req[r].cmd = "markReadyForDelivery"
  BY DEF MarkReadyForDelivery, IInv
<1>3. /\ s \in Parcels /\ parcel[s] \in ParcelRow /\ ParcelShape(s)
      /\ req[r].read = parcel[s]
  BY <1>1, <1>2 DEF RequestShape, MarkReadyForDelivery, UnchangedSince, IInv, TypeOK
<1>4. /\ parcel[s].stage \in {"AT_DESTINATION_WAREHOUSE", "AT_ORIGIN_WAREHOUSE"}
      /\ parcel[s].current = parcel[s].dest
  BY <1>2, <1>3 DEF RequestShape, ParcelShape
<1>5. PICK row : row = Placed(parcel[s], "AWAITING_DELIVERY_ASSIGNMENT", parcel[s].current,
                              parcel[s].dest, parcel[s].weight)
  OBVIOUS
<1>6. parcel' = [parcel EXCEPT ![s] = row]
  <2>1. PICK new : new = [[parcel[s] EXCEPT !.stage = "AWAITING_DELIVERY_ASSIGNMENT"]
                            EXCEPT !.version = parcel[s].version + 1]
    OBVIOUS
  <2>2. new = row
    BY <1>3, <1>5, <2>1, ReadyRow
  <2>3. parcel' = [parcel EXCEPT ![s] = new]
    BY <1>1, <2>1 DEF MarkReadyForDelivery, SetParcel
  <2> QED
    BY <2>2, <2>3
<1>7. /\ row \in ParcelRow /\ row.stage = "AWAITING_DELIVERY_ASSIGNMENT"
      /\ row.current = parcel[s].current /\ row.dest = parcel[s].dest
      /\ row.weight = parcel[s].weight /\ row.version = parcel[s].version + 1
  <2>1. /\ parcel[s] \in ParcelRow /\ "AWAITING_DELIVERY_ASSIGNMENT" \in Stage
        /\ parcel[s].current \in Sites \cup {None} /\ parcel[s].dest \in Sites \cup {None}
        /\ parcel[s].weight \in Weights \cup {0}
    BY <1>3 DEF ParcelRow, Stage
  <2>2. IsPlaced(row, parcel[s], "AWAITING_DELIVERY_ASSIGNMENT", parcel[s].current, parcel[s].dest,
                 parcel[s].weight)
    BY <1>5, <2>1, PlacedRow
  <2> QED
    BY <2>2 DEF IsPlaced
<1>8. req' = [req EXCEPT ![r] = Idle] /\ UNCHANGED <<site, staff, transfer, carriage, era>>
  BY DEF MarkReadyForDelivery
<1>9. ASSUME NEW x \in Transfers, transfer[x].parcel = s
      PROVE  transfer[x].status \notin {"PENDING", "IN_TRANSIT"}
  <2>1. TransferShape(x) /\ Of(x) = parcel[s]
    BY <1>9 DEF IInv, Of
  <2> QED
    BY <1>4, <2>1 DEF TransferShape
<1>10. parcel'[s] = row
  BY <1>3, <1>6 DEF IInv, TypeOK
<1>11. ParcelShape(s)'
  <2>1. LiveTransfers(s)' = {}
    BY <1>8, <1>9 DEF LiveTransfers, Live
  <2>2. row.stage # "PICKED_UP" /\ row.current \in Sites /\ row.weight > 0
    BY <1>3, <1>4, <1>7 DEF ParcelShape
  <2> QED
    BY <1>4, <1>7, <1>10, <2>1, <2>2 DEF ParcelShape
<1>12. ASSUME NEW x \in Transfers, transfer[x].parcel = s
       PROVE  TransferShape(x)'
  <2>1. TransferShape(x) /\ transfer'[x] = transfer[x] /\ Of(x)' = row
    BY <1>8, <1>10, <1>12 DEF IInv, Of
  <2> QED
    BY <1>7, <1>9, <1>12, <2>1 DEF TransferShape
<1> QED
  BY <1>3, <1>6, <1>7, <1>8, <1>11, <1>12, ParcelStep

LEMMA RouteIInv ==
    ASSUME Assumptions, IInv, NEW r \in Requests, NEW s \in Parcels, NEW to \in Sites,
           RouteDestination(r, s, to)
    PROVE  IInv'
<1>1. /\ parcel[s].current = req[r].at /\ parcel[s].stage = "AT_ORIGIN_WAREHOUSE"
      /\ LiveTransfers(s) = {} /\ req' = [req EXCEPT ![r] = Idle]
      /\ UNCHANGED <<site, staff, transfer, carriage, era>>
      /\ parcel[s] \in ParcelRow /\ ParcelShape(s)
  BY DEF RouteDestination, IInv, TypeOK
<1>2. PICK stage : stage = IF to = req[r].at THEN "AWAITING_DELIVERY_ASSIGNMENT"
                           ELSE "AT_ORIGIN_WAREHOUSE"
  OBVIOUS
<1>3. PICK row : row = Placed(parcel[s], stage, parcel[s].current, to, parcel[s].weight)
  OBVIOUS
<1>4. parcel' = [parcel EXCEPT ![s] = row]
  <2>1. PICK new : new = [[parcel[s] EXCEPT !.dest = to, !.stage = stage]
                            EXCEPT !.version = parcel[s].version + 1]
    OBVIOUS
  <2>2. new = row
    BY <1>1, <1>3, <2>1, RoutedRow
  <2>3. parcel' = [parcel EXCEPT ![s] = new]
    BY <1>1, <1>2, <2>1 DEF RouteDestination, SetParcel, ParcelRow
  <2> QED
    BY <2>2, <2>3
<1>5. /\ row \in ParcelRow /\ row.stage = stage /\ row.current = parcel[s].current /\ row.dest = to
      /\ row.weight = parcel[s].weight /\ row.version = parcel[s].version + 1
  <2>1. stage \in Stage
    BY <1>2 DEF Stage
  <2>2. /\ parcel[s] \in ParcelRow
        /\ parcel[s].current \in Sites \cup {None} /\ parcel[s].weight \in Weights \cup {0}
        /\ to \in Sites \cup {None}
    BY <1>1 DEF ParcelRow
  <2>3. IsPlaced(row, parcel[s], stage, parcel[s].current, to, parcel[s].weight)
    BY <1>3, <2>1, <2>2, PlacedRow
  <2> QED
    BY <2>3 DEF IsPlaced
<1>6. parcel'[s] = row
  BY <1>4 DEF IInv, TypeOK
<1>7. /\ LiveTransfers(s)' = {}
      /\ \A x \in Transfers : transfer[x].parcel = s
                               => transfer[x].status \notin {"PENDING", "IN_TRANSIT"}
  BY <1>1, NoLive
<1>8. ParcelShape(s)'
  <2>1. row.stage # "PICKED_UP" /\ row.stage # "IN_TRANSIT" /\ row.current \in Sites
        /\ row.weight > 0
    BY <1>1, <1>2, <1>5 DEF ParcelShape
  <2>2. row.stage \in {"AT_DESTINATION_WAREHOUSE", "AWAITING_DELIVERY_ASSIGNMENT"}
          => row.current = row.dest
    BY <1>1, <1>2, <1>5
  <2> QED
    BY <1>6, <1>7, <2>1, <2>2 DEF ParcelShape
<1>9. ASSUME NEW x \in Transfers, transfer[x].parcel = s
      PROVE  TransferShape(x)'
  <2>1. TransferShape(x) /\ transfer'[x] = transfer[x] /\ Of(x)' = row
    BY <1>1, <1>6, <1>9 DEF IInv, Of
  <2>2. row.stage # "PICKED_UP"
    BY <1>2, <1>5
  <2> QED
    BY <1>7, <1>9, <2>1, <2>2 DEF TransferShape
<1> QED
  BY <1>1, <1>4, <1>5, <1>8, <1>9, ParcelStep

-----------------------------------------------------------------------------
(* Commands on a transfer *)

LEMMA CreateTransferIInv ==
    ASSUME Assumptions, IInv, NEW r \in Requests, NEW s \in Parcels, NEW to \in Sites,
           NEW x \in Transfers, CreateTransfer(r, s, to, x)
    PROVE  IInv'
<1>1. PICK row : row = [parcel |-> s, from |-> req[r].at, to |-> to, status |-> "PENDING",
                        legacy |-> FALSE]
  OBVIOUS
<1>2. /\ transfer[x].status = "NONE" /\ LiveTransfers(s) = {} /\ to # req[r].at
      /\ parcel[s].current = req[r].at /\ parcel[s].dest = to
      /\ parcel[s].stage \in {"AT_ORIGIN_WAREHOUSE", "AT_DESTINATION_WAREHOUSE"}
      /\ req' = [req EXCEPT ![r] = Idle] /\ UNCHANGED <<site, staff, parcel, carriage, era>>
      /\ transfer' = [transfer EXCEPT ![x] = row]
  BY <1>1 DEF CreateTransfer
<1>3. /\ ParcelShape(s) /\ TransferShape(x) /\ CarriageShape(x)
      /\ transfer \in [Transfers -> TransferRow] /\ carriage \in [Transfers -> Carriage]
  BY DEF IInv, TypeOK
<1>4. parcel[s].stage = "AT_ORIGIN_WAREHOUSE" /\ parcel[s].current \in Sites
  BY <1>2, <1>3 DEF ParcelShape
<1>5. row \in TransferRow
  BY <1>1, <1>2, <1>4 DEF TransferRow, TransferStatus
<1>6. /\ transfer' \in [Transfers -> TransferRow] /\ transfer'[x] = row
      /\ \A y \in Transfers \ {x} : transfer'[y] = transfer[y]
  BY <1>2, <1>3, <1>5
<1>7. transfer[x].parcel = None /\ carriage[x] = "none"
  BY <1>2, <1>3 DEF TransferShape, CarriageShape, NoTransfer, Carriage
<1>8. /\ \A d \in Parcels \ {s} : ParcelShape(d)'
      /\ \A y \in Transfers : transfer'[y].parcel \notin {s} => TransferShape(y)'
  <2>1. {s} \in SUBSET Parcels
    OBVIOUS
  <2>2. \A y \in Transfers : transfer'[y] = transfer[y]
                             \/ (transfer[y].parcel \in {s} \cup {None} /\ transfer'[y].parcel \in {s})
    BY <1>1, <1>6, <1>7
  <2> QED
    BY <1>2, <2>1, <2>2, Elsewhere
<1>9. TransferShape(x)'
  <2>1. Of(x)' = parcel[s]
    BY <1>1, <1>2, <1>6 DEF Of
  <2> QED
    BY <1>1, <1>2, <1>4, <1>6, <2>1 DEF TransferShape
<1>10. ASSUME NEW y \in Transfers \ {x}, transfer[y].parcel = s
       PROVE  TransferShape(y)' /\ transfer[y].status \notin {"PENDING", "IN_TRANSIT"}
  <2>1. TransferShape(y) /\ transfer'[y] = transfer[y] /\ Of(y)' = Of(y)
    BY <1>2, <1>6, <1>10 DEF IInv, Of
  <2>2. transfer[y].status \notin {"PENDING", "IN_TRANSIT"}
    BY <1>2, <1>10 DEF LiveTransfers, Live
  <2> QED
    BY <2>1, <2>2 DEF TransferShape
<1>11. ParcelShape(s)'
  <2>1. LiveTransfers(s)' = {x}
    BY <1>1, <1>6, <1>10 DEF LiveTransfers, Live
  <2> QED
    BY <1>2, <1>3, <1>4, <2>1 DEF ParcelShape
<1>12. \A y \in Transfers : TransferShape(y)'
  BY <1>6, <1>8, <1>9, <1>10
<1>13. \A y \in Transfers : CarriageShape(y)'
  <2>1. CarriageShape(x)'
    BY <1>1, <1>2, <1>6, <1>7 DEF CarriageShape
  <2>2. \A y \in Transfers \ {x} : CarriageShape(y)'
    BY <1>2, <1>6, CarriageAside
  <2> QED
    BY <2>1, <2>2
<1>14. req' \in [Requests -> Request] /\ \A q \in Requests : RequestShape(q)'
  <2>1. parcel' \in [Parcels -> ParcelRow]
    BY <1>2 DEF IInv, TypeOK
  <2> QED
    BY <1>2, <2>1, AnsweredRequests
<1>15. TypeOK'
  BY <1>2, <1>6, <1>14 DEF IInv, TypeOK
<1> QED
  BY <1>8, <1>11, <1>12, <1>13, <1>14, <1>15 DEF IInv

(* Transfers that leave take their parcels along.                           *)
LEMMA OnRoad ==
    ASSUME Assumptions, IInv, NEW X \in SUBSET Transfers, \A x \in X : Dispatchable(x), PutOnRoad(X)
    PROVE  /\ parcel' \in [Parcels -> ParcelRow] /\ transfer' \in [Transfers -> TransferRow]
           /\ \A s \in Parcels : ParcelShape(s)'
           /\ \A s \in Parcels : parcel'[s] = parcel[s]
                                 \/ parcel'[s].version = parcel[s].version + 1
           /\ \A x \in Transfers : TransferShape(x)'
           /\ \A x \in X : transfer'[x].status = "IN_TRANSIT"
                           /\ (transfer'[x].legacy = (era = "before"))
           /\ \A x \in Transfers \ X : transfer'[x] = transfer[x]
<1> DEFINE S == {transfer[x].parcel : x \in X}
<1>1. /\ transfer \in [Transfers -> TransferRow] /\ parcel \in [Parcels -> ParcelRow]
      /\ \A x \in Transfers : TransferShape(x)
      /\ \A s \in Parcels : ParcelShape(s)
  BY DEF IInv, TypeOK
<1>2. ASSUME NEW x \in X
      PROVE  /\ transfer[x].status = "PENDING" /\ transfer[x].parcel \in Parcels
             /\ Of(x).stage = "AT_ORIGIN_WAREHOUSE" /\ Of(x).dest = transfer[x].to
             /\ x \in LiveTransfers(transfer[x].parcel)
  BY <1>1, <1>2 DEF Dispatchable, TransferShape, LiveTransfers, Live
<1>3. S \in SUBSET Parcels
  BY <1>2
<1>4. ASSUME NEW x \in Transfers
      PROVE  /\ x \in X => /\ transfer'[x] \in TransferRow /\ transfer'[x].status = "IN_TRANSIT"
                           /\ (transfer'[x].legacy = (era = "before"))
                           /\ transfer'[x].parcel = transfer[x].parcel
                           /\ transfer'[x].from = transfer[x].from
                           /\ transfer'[x].to = transfer[x].to
             /\ x \notin X => transfer'[x] = transfer[x]
  <2>1. x \notin X => transfer'[x] = transfer[x]
    BY <1>4 DEF PutOnRoad
  <2>2. CASE x \in X
    <3>1. PICK old : old = transfer[x]
      OBVIOUS
    <3>2. transfer'[x] = [old EXCEPT !.status = "IN_TRANSIT", !.legacy = (era = "before")]
      BY <2>2, <3>1 DEF PutOnRoad
    <3>3. old \in TransferRow /\ "IN_TRANSIT" \in TransferStatus /\ (era = "before") \in BOOLEAN
      BY <1>1, <3>1 DEF TransferStatus
    <3> HIDE DEF TransferStatus
    <3>4. /\ transfer'[x] \in TransferRow /\ transfer'[x].status = "IN_TRANSIT"
          /\ (transfer'[x].legacy = (era = "before"))
          /\ transfer'[x].parcel = old.parcel /\ transfer'[x].from = old.from
          /\ transfer'[x].to = old.to
      BY <3>2, <3>3 DEF TransferRow
    <3> QED
      BY <2>2, <3>1, <3>4
  <2> QED
    BY <2>1, <2>2
<1>5. ASSUME NEW s \in Parcels
      PROVE  /\ s \in S => /\ parcel'[s] \in ParcelRow /\ parcel'[s].stage = "IN_TRANSIT"
                           /\ parcel'[s].current = None /\ parcel'[s].dest = parcel[s].dest
                           /\ parcel'[s].weight = parcel[s].weight
                           /\ parcel'[s].version = parcel[s].version + 1
             /\ s \notin S => parcel'[s] = parcel[s]
  <2>1. s \notin S => parcel'[s] = parcel[s]
    BY <1>5 DEF PutOnRoad
  <2>2. CASE s \in S
    <3>1. PICK old : old = parcel[s]
      OBVIOUS
    <3>2. parcel'[s] = [old EXCEPT !.stage = "IN_TRANSIT", !.current = None, !.version = @ + 1]
      BY <2>2, <3>1 DEF PutOnRoad
    <3>3. PICK v : v = old.version + 1
      OBVIOUS
    <3>4. old \in ParcelRow /\ "IN_TRANSIT" \in Stage /\ v \in Nat
      BY <1>1, <3>1, <3>3 DEF Stage, ParcelRow
    <3>5. parcel'[s] = [old EXCEPT !.stage = "IN_TRANSIT", !.current = None, !.version = v]
      BY <3>2, <3>3, <3>4 DEF ParcelRow
    <3> HIDE DEF Stage
    <3>6. /\ parcel'[s] \in ParcelRow /\ parcel'[s].stage = "IN_TRANSIT"
          /\ parcel'[s].current = None /\ parcel'[s].dest = old.dest
          /\ parcel'[s].weight = old.weight /\ parcel'[s].version = v
      BY <3>4, <3>5 DEF ParcelRow
    <3> QED
      BY <2>2, <3>1, <3>3, <3>6
  <2> QED
    BY <2>1, <2>2
<1>6. parcel' \in [Parcels -> ParcelRow]
  BY <1>1, <1>5 DEF PutOnRoad
<1>7. transfer' \in [Transfers -> TransferRow]
  BY <1>1, <1>4 DEF PutOnRoad
<1>8. /\ \A s \in Parcels \ S : ParcelShape(s)'
      /\ \A x \in Transfers : transfer'[x].parcel \notin S => TransferShape(x)'
  <2>1. \A s \in Parcels \ S : parcel'[s] = parcel[s]
    BY <1>5
  <2>2. \A x \in Transfers : transfer'[x] = transfer[x]
                             \/ (transfer[x].parcel \in S \cup {None} /\ transfer'[x].parcel \in S)
    BY <1>4
  <2> QED
    BY <1>3, <2>1, <2>2, Elsewhere
<1>9. ASSUME NEW x \in X
      PROVE  TransferShape(x)'
  <2>1. Of(x)' = parcel'[transfer[x].parcel] /\ transfer[x].parcel \in S
    BY <1>4 DEF Of
  <2>2. Of(x)'.stage = "IN_TRANSIT" /\ Of(x)'.dest = transfer[x].to
    BY <1>2, <1>5, <2>1 DEF Of
  <2>3. /\ transfer[x].parcel \in Parcels /\ transfer[x].from \in Sites /\ transfer[x].to \in Sites
        /\ transfer[x].from # transfer[x].to
    BY <1>1, <1>2 DEF TransferShape
  <2> QED
    BY <1>4, <2>2, <2>3 DEF TransferShape
<1>10. ASSUME NEW x \in Transfers \ X, transfer[x].parcel \in S
       PROVE  TransferShape(x)' /\ transfer[x].status \notin Live
  <2>1. PICK y \in X : transfer[y].parcel = transfer[x].parcel
    BY <1>10
  <2>2. PICK s \in Parcels : s = transfer[x].parcel
    BY <1>2, <2>1
  <2>3. transfer[x].status \notin Live
    BY <1>1, <1>2, <1>10, <2>1, <2>2 DEF ParcelShape, LiveTransfers
  <2>4. Of(x)' = parcel'[s] /\ parcel'[s].stage = "IN_TRANSIT"
    BY <1>4, <1>5, <1>10, <2>2 DEF Of
  <2>5. TransferShape(x) /\ transfer'[x] = transfer[x]
    BY <1>1, <1>4, <1>10
  <2> QED
    BY <2>3, <2>4, <2>5 DEF TransferShape, Live
<1>11. \A x \in Transfers : TransferShape(x)'
  BY <1>4, <1>8, <1>9, <1>10
<1>12. ASSUME NEW s \in S
       PROVE  ParcelShape(s)'
  <2>1. PICK y \in X : transfer[y].parcel = s
    BY <1>12
  <2>2. s \in Parcels /\ ParcelShape(s) /\ parcel[s].stage = "AT_ORIGIN_WAREHOUSE"
    BY <1>1, <1>2, <2>1 DEF Of
  <2>3. LiveTransfers(s)' \subseteq LiveTransfers(s)
    BY <1>2, <1>4 DEF LiveTransfers
  <2>4. \A a, b \in LiveTransfers(s)' : a = b
    BY <2>2, <2>3 DEF ParcelShape
  <2>5. y \in Transfers /\ transfer'[y].parcel = s /\ transfer'[y].status = "IN_TRANSIT"
    BY <1>4, <2>1
  <2>6. parcel'[s].weight > 0
    BY <1>5, <2>2 DEF ParcelShape
  <2> QED
    BY <1>5, <2>2, <2>4, <2>5, <2>6 DEF ParcelShape
<1>13. \A s \in Parcels : ParcelShape(s)'
  BY <1>8, <1>12
<1> HIDE DEF S
<1> QED
  BY <1>4, <1>5, <1>6, <1>7, <1>11, <1>13

LEMMA DispatchIInv ==
    ASSUME Assumptions, IInv, NEW r \in Requests, NEW x \in Transfers, DispatchTransfer(r, x)
    PROVE  IInv'
<1>1. /\ Dispatchable(x) /\ PutOnRoad({x}) /\ era # "enforced" /\ carriage[x] = "none"
      /\ req' = [req EXCEPT ![r] = Idle] /\ UNCHANGED <<site, staff, carriage, era>>
  BY DEF DispatchTransfer
<1>2. PICK X \in SUBSET Transfers : X = {x}
  OBVIOUS
<1>3. PutOnRoad(X) /\ \A y \in X : Dispatchable(y)
  BY <1>1, <1>2
<1>4. /\ parcel' \in [Parcels -> ParcelRow] /\ transfer' \in [Transfers -> TransferRow]
      /\ \A s \in Parcels : ParcelShape(s)'
      /\ \A s \in Parcels : parcel'[s] = parcel[s] \/ parcel'[s].version = parcel[s].version + 1
      /\ \A y \in Transfers : TransferShape(y)'
      /\ transfer'[x].status = "IN_TRANSIT" /\ (transfer'[x].legacy = (era = "before"))
      /\ \A y \in Transfers \ {x} : transfer'[y] = transfer[y]
  BY <1>2, <1>3, OnRoad
<1>5. \A y \in Transfers : CarriageShape(y)'
  <2>1. CarriageShape(x)'
    BY <1>1, <1>4 DEF CarriageShape, IInv, TypeOK
  <2>2. \A y \in Transfers \ {x} : CarriageShape(y)'
    BY <1>1, <1>4, CarriageAside
  <2> QED
    BY <2>1, <2>2
<1>6. req' \in [Requests -> Request] /\ \A q \in Requests : RequestShape(q)'
  BY <1>1, <1>4, AnsweredRequests
<1> QED
  BY <1>1, <1>4, <1>5, <1>6 DEF IInv, TypeOK

LEMMA ReceiveIInv ==
    ASSUME Assumptions, IInv, NEW r \in Requests, NEW x \in Transfers, ReceiveTransfer(r, x)
    PROVE  IInv'
<1>1. PICK s : s = transfer[x].parcel
  OBVIOUS
<1>2. /\ transfer[x].status = "IN_TRANSIT" /\ carriage[x] \in {"none", "ARRIVED"}
      /\ req' = [req EXCEPT ![r] = Idle] /\ UNCHANGED <<site, staff, carriage, era>>
      /\ transfer' = [transfer EXCEPT ![x].status = "COMPLETED"]
  BY DEF ReceiveTransfer, ReceiveAllowed
<1>3. /\ transfer \in [Transfers -> TransferRow] /\ TransferShape(x) /\ CarriageShape(x)
      /\ parcel \in [Parcels -> ParcelRow]
  BY DEF IInv, TypeOK
<1>4. /\ s \in Parcels /\ parcel[s].stage = "IN_TRANSIT" /\ parcel[s].dest = transfer[x].to
      /\ transfer[x].to \in Sites
  BY <1>1, <1>2, <1>3 DEF TransferShape, Of
<1>5. parcel[s] \in ParcelRow /\ ParcelShape(s)
  BY <1>4 DEF IInv, TypeOK
<1>6. PICK row : row = Placed(parcel[s], "AT_DESTINATION_WAREHOUSE", transfer[x].to, parcel[s].dest,
                              parcel[s].weight)
  OBVIOUS
<1>7. parcel' = [parcel EXCEPT ![s] = row]
  <2>1. PICK new : new = [[parcel[s] EXCEPT !.stage = "AT_DESTINATION_WAREHOUSE",
                                            !.current = transfer[x].to]
                            EXCEPT !.version = parcel[s].version + 1]
    OBVIOUS
  <2>2. new = row
    BY <1>5, <1>6, <2>1, ReceivedRow
  <2>3. parcel' = [parcel EXCEPT ![s] = new]
    BY <1>1, <2>1 DEF ReceiveTransfer, SetParcel
  <2> QED
    BY <2>2, <2>3
<1>8. /\ row \in ParcelRow /\ row.stage = "AT_DESTINATION_WAREHOUSE"
      /\ row.current = transfer[x].to /\ row.dest = transfer[x].to
      /\ row.weight = parcel[s].weight /\ row.version = parcel[s].version + 1
  <2>1. /\ parcel[s] \in ParcelRow /\ "AT_DESTINATION_WAREHOUSE" \in Stage
        /\ transfer[x].to \in Sites \cup {None} /\ parcel[s].dest \in Sites \cup {None}
        /\ parcel[s].weight \in Weights \cup {0}
    BY <1>4, <1>5 DEF ParcelRow, Stage
  <2>2. IsPlaced(row, parcel[s], "AT_DESTINATION_WAREHOUSE", transfer[x].to, parcel[s].dest,
                 parcel[s].weight)
    BY <1>6, <2>1, PlacedRow
  <2>3. parcel[s].dest = transfer[x].to
    BY <1>4
  <2> QED
    BY <2>2, <2>3 DEF IsPlaced
<1>9. /\ parcel' \in [Parcels -> ParcelRow] /\ parcel'[s] = row
      /\ \A d \in Parcels \ {s} : parcel'[d] = parcel[d]
  BY <1>3, <1>4, <1>7, <1>8
<1>10. /\ transfer' \in [Transfers -> TransferRow]
       /\ transfer'[x].status = "COMPLETED" /\ transfer'[x].parcel = s
       /\ transfer'[x].from = transfer[x].from /\ transfer'[x].to = transfer[x].to
       /\ \A y \in Transfers \ {x} : transfer'[y] = transfer[y]
  BY <1>1, <1>2, <1>3 DEF TransferRow, TransferStatus
<1>11. /\ \A d \in Parcels \ {s} : ParcelShape(d)'
       /\ \A y \in Transfers : transfer'[y].parcel \notin {s} => TransferShape(y)'
  <2>1. {s} \in SUBSET Parcels
    BY <1>4
  <2>2. \A y \in Transfers : transfer'[y] = transfer[y]
                             \/ (transfer[y].parcel \in {s} \cup {None} /\ transfer'[y].parcel \in {s})
    BY <1>1, <1>10
  <2> QED
    BY <1>9, <2>1, <2>2, Elsewhere
<1>12. ASSUME NEW y \in Transfers \ {x}, transfer[y].parcel = s
       PROVE  TransferShape(y)' /\ transfer[y].status \notin {"PENDING", "IN_TRANSIT"}
  <2>1. TransferShape(y) /\ transfer'[y] = transfer[y] /\ Of(y)' = row
    BY <1>9, <1>10, <1>12 DEF IInv, Of
  <2>2. transfer[y].status \notin {"PENDING", "IN_TRANSIT"}
    BY <1>1, <1>2, <1>5, <1>12 DEF ParcelShape, LiveTransfers, Live
  <2> QED
    BY <1>8, <2>1, <2>2 DEF TransferShape
<1>13. TransferShape(x)'
  <2>1. Of(x)' = row
    BY <1>9, <1>10 DEF Of
  <2> QED
    BY <1>1, <1>2, <1>3, <1>8, <1>10, <2>1 DEF TransferShape
<1>14. ParcelShape(s)'
  <2>1. LiveTransfers(s)' = {}
    BY <1>10, <1>12 DEF LiveTransfers, Live
  <2>2. row.weight > 0
    BY <1>4, <1>5, <1>8 DEF ParcelShape
  <2> QED
    BY <1>4, <1>8, <1>9, <2>1, <2>2 DEF ParcelShape
<1>15. \A y \in Transfers : TransferShape(y)'
  BY <1>10, <1>11, <1>12, <1>13
<1>16. \A y \in Transfers : CarriageShape(y)'
  <2>1. CarriageShape(x)'
    BY <1>2, <1>10 DEF CarriageShape
  <2>2. \A y \in Transfers \ {x} : CarriageShape(y)'
    BY <1>2, <1>10, CarriageAside
  <2> QED
    BY <2>1, <2>2
<1>17. req' \in [Requests -> Request] /\ \A q \in Requests : RequestShape(q)'
  <2>1. \A d \in Parcels : parcel'[d] = parcel[d] \/ parcel'[d].version = parcel[d].version + 1
    BY <1>8, <1>9
  <2> QED
    BY <1>2, <1>9, <2>1, AnsweredRequests
<1>18. TypeOK'
  BY <1>2, <1>9, <1>10, <1>17 DEF IInv, TypeOK
<1> QED
  BY <1>11, <1>14, <1>15, <1>16, <1>17, <1>18 DEF IInv

-----------------------------------------------------------------------------
(* Trips *)

(* A trip that takes, drops or prepares its transfers moves no parcel.      *)
LEMMA RideIInv ==
    ASSUME Assumptions, IInv, NEW X \in SUBSET Transfers, NEW to \in Carriage, Ride(X, to),
           UNCHANGED <<site, staff, parcel, transfer, era, req>>,
           \A x \in X : /\ to \in {"PLANNED", "READY"} => transfer[x].status = "PENDING"
                        /\ to = "ARRIVED" => transfer[x].status \in {"IN_TRANSIT", "COMPLETED"}
                        /\ to = "none" => transfer[x].status = "PENDING"
                        /\ to # "IN_TRANSIT"
    PROVE  IInv'
<1>1. /\ carriage' \in [Transfers -> Carriage]
      /\ \A x \in X : carriage'[x] = to
      /\ \A x \in Transfers \ X : carriage'[x] = carriage[x]
  BY DEF IInv, TypeOK, Ride
<1>2. \A x \in Transfers : CarriageShape(x)'
  <2>1. \A x \in X : CarriageShape(x)'
    BY <1>1 DEF CarriageShape
  <2>2. \A x \in Transfers \ X : CarriageShape(x)'
    BY <1>1, CarriageAside
  <2> QED
    BY <2>1, <2>2
<1>3. \A r \in Requests : RequestShape(r)'
  <2>1. parcel' \in [Parcels -> ParcelRow]
    BY DEF IInv, TypeOK
  <2> QED
    BY <2>1, ReadersKnow
<1> QED
  BY <1>1, <1>2, <1>3, NetworkAside DEF IInv, TypeOK

LEMMA CarriageIInv ==
    ASSUME Assumptions, IInv, NEW X \in SUBSET Transfers,
           Load(X) \/ Unload(X) \/ Seal(X) \/ Depart(X) \/ Arrive(X)
    PROVE  IInv'
<1>1. \A x \in Transfers : CarriageShape(x) /\ X \subseteq Transfers
  BY DEF IInv
<1>2. CASE Load(X)
  BY <1>2, RideIInv DEF Load, Carriage
<1>3. CASE Unload(X)
  BY <1>1, <1>3, RideIInv DEF Unload, Carriage, CarriageShape
<1>4. CASE Seal(X)
  BY <1>1, <1>4, RideIInv DEF Seal, Carriage, CarriageShape
<1>5. CASE Arrive(X)
  BY <1>1, <1>5, RideIInv DEF Arrive, Carriage, CarriageShape
<1>6. CASE Depart(X)
  <2>1. /\ \A x \in X : Dispatchable(x)
        /\ PutOnRoad(X) /\ Ride(X, "IN_TRANSIT") /\ UNCHANGED <<site, staff, era, req>>
    BY <1>6 DEF Depart
  <2>2. /\ parcel' \in [Parcels -> ParcelRow] /\ transfer' \in [Transfers -> TransferRow]
        /\ \A s \in Parcels : ParcelShape(s)'
        /\ \A s \in Parcels : parcel'[s] = parcel[s] \/ parcel'[s].version = parcel[s].version + 1
        /\ \A y \in Transfers : TransferShape(y)'
        /\ \A x \in X : transfer'[x].status = "IN_TRANSIT"
        /\ \A y \in Transfers \ X : transfer'[y] = transfer[y]
    BY <2>1, OnRoad
  <2>3. /\ carriage' \in [Transfers -> Carriage]
        /\ \A x \in X : carriage'[x] = "IN_TRANSIT"
        /\ \A x \in Transfers \ X : carriage'[x] = carriage[x]
    BY <2>1 DEF IInv, TypeOK, Ride, Carriage
  <2>4. \A x \in Transfers : CarriageShape(x)'
    <3>1. \A x \in X : CarriageShape(x)'
      BY <2>2, <2>3 DEF CarriageShape
    <3>2. \A x \in Transfers \ X : CarriageShape(x)'
      BY <2>1, <2>2, <2>3, CarriageAside
    <3> QED
      BY <3>1, <3>2
  <2>5. \A r \in Requests : RequestShape(r)'
    BY <2>1, <2>2, ReadersKnow
  <2> QED
    BY <2>1, <2>2, <2>3, <2>4, <2>5 DEF IInv, TypeOK
<1> QED
  BY <1>2, <1>3, <1>4, <1>5, <1>6

-----------------------------------------------------------------------------
(* The invariant *)

LEMMA InitIInv ==
    ASSUME Assumptions, Init
    PROVE  IInv
<1>1. ASSUME NEW s \in Parcels
      PROVE  parcel[s] \in ParcelRow /\ parcel[s].stage = "PICKED_UP" /\ parcel[s].current = None
  <2>1. PICK w \in Sites :
          parcel[s] = [stage |-> "PICKED_UP", origin |-> w, current |-> None, dest |-> None,
                       weight |-> 0, version |-> 0]
    BY DEF Init
  <2>2. "PICKED_UP" \in Stage /\ 0 \in Weights \cup {0} /\ 0 \in Nat
    BY DEF Stage
  <2> HIDE DEF Stage
  <2> QED
    BY <2>1, <2>2 DEF ParcelRow
<1>2. /\ transfer = [x \in Transfers |-> NoTransfer] /\ carriage = [x \in Transfers |-> "none"]
      /\ req = [r \in Requests |-> Idle] /\ era \in {"off", "before"}
      /\ staff = [u \in Staff |-> [site |-> None, active |-> FALSE]]
  BY DEF Init
<1>3. TypeOK
  <2>1. site \in [Sites -> SiteRow]
    BY DEF Init, SiteRow
  <2>2. parcel \in [Parcels -> ParcelRow]
    <3>1. \A s \in Parcels : parcel[s] \in ParcelRow
      BY <1>1
    <3>2. \E R : parcel \in [Parcels -> R]
      BY DEF Init
    <3> QED
      BY <3>1, <3>2
  <2>3. NoTransfer \in TransferRow /\ Idle \in Request
    BY DEF NoTransfer, TransferRow, TransferStatus, Idle, Request, Command
  <2>4. staff \in [Staff -> StaffRow]
    BY <1>2 DEF StaffRow
  <2> QED
    BY <1>2, <2>1, <2>2, <2>3, <2>4 DEF TypeOK, Carriage
<1>4. ASSUME NEW x \in Transfers
      PROVE  TransferShape(x) /\ CarriageShape(x)
  <2>1. transfer[x] = NoTransfer /\ carriage[x] = "none" /\ transfer[x].status = "NONE"
    BY <1>2 DEF NoTransfer
  <2> QED
    BY <2>1 DEF TransferShape, CarriageShape
<1>5. ASSUME NEW s \in Parcels
      PROVE  ParcelShape(s)
  <2>1. LiveTransfers(s) = {}
    BY <1>2 DEF LiveTransfers, Live, NoTransfer
  <2>2. parcel[s].stage = "PICKED_UP" /\ parcel[s].current = None
    BY <1>1
  <2> QED
    BY <2>1, <2>2 DEF ParcelShape
<1>6. \A r \in Requests : RequestShape(r)
  BY <1>2 DEF RequestShape, Idle
<1> QED
  BY <1>3, <1>4, <1>5, <1>6 DEF IInv

LEMMA NextIInv ==
    ASSUME Assumptions, IInv, Next
    PROVE  IInv'
<1>1. CASE Commands
  <2>1. CASE \E r \in Requests, u \in Staff \cup {Office}, w \in Sites :
               \/ \E cmd \in Command : Begin(r, u, cmd, w)
               \/ \E s \in Parcels : CheckInRead(r, u, w, s) \/ MarkReadyRead(r, u, w, s)
    BY <2>1, BeginCommandIInv, CheckInReadIInv, MarkReadyReadIInv
  <2>2. CASE \E r \in Requests : \/ Refused(r) \/ MarkReadyForDelivery(r)
                                 \/ \E weight \in Weights : CheckIn(r, weight)
    BY <2>2, RefusedIInv, MarkReadyIInv, CheckInIInv
  <2>3. CASE \E r \in Requests, s \in Parcels, to \in Sites :
               \/ RouteDestination(r, s, to)
               \/ \E x \in Transfers : CreateTransfer(r, s, to, x)
    BY <2>3, RouteIInv, CreateTransferIInv
  <2>4. CASE \E r \in Requests, x \in Transfers : DispatchTransfer(r, x) \/ ReceiveTransfer(r, x)
    BY <2>4, DispatchIInv, ReceiveIInv
  <2> QED
    BY <1>1, <2>1, <2>2, <2>3, <2>4 DEF Commands
<1> QED
  BY <1>1, AdministrationIInv, CarriageIInv DEF Next, CarriageStep

LEMMA StutterIInv ==
    ASSUME Assumptions, IInv, UNCHANGED vars
    PROVE  IInv'
<1>1. UNCHANGED <<site, staff, parcel, transfer, carriage, era, req>>
  BY DEF vars
<1>2. TypeOK'
  BY <1>1 DEF IInv, TypeOK
<1>3. \A x \in Transfers : CarriageShape(x)'
  BY <1>1, CarriageAside
<1>4. \A r \in Requests : RequestShape(r)'
  <2>1. parcel' \in [Parcels -> ParcelRow]
    BY <1>1 DEF IInv, TypeOK
  <2> QED
    BY <1>1, <2>1, ReadersKnow
<1> QED
  BY <1>1, <1>2, <1>3, <1>4, NetworkAside DEF IInv

-----------------------------------------------------------------------------
(* What the invariant says of the properties *)

LEMMA PlaceByIInv ==
    ASSUME IInv
    PROVE  ParcelPlace
<1>1. ASSUME NEW s \in Parcels
      PROVE  Cardinality(LiveTransfers(s)) <= 1
  <2>1. \A x, y \in LiveTransfers(s) : x = y
    BY DEF IInv, ParcelShape
  <2>2. CASE LiveTransfers(s) = {}
    BY <2>2, FS_EmptySet
  <2>3. CASE LiveTransfers(s) # {}
    <3>1. PICK x \in LiveTransfers(s) : LiveTransfers(s) = {x}
      BY <2>1, <2>3
    <3> QED
      BY <3>1, FS_Singleton
  <2> QED
    BY <2>2, <2>3
<1>2. ASSUME NEW s \in Parcels, NEW x \in LiveTransfers(s)
      PROVE  /\ transfer[x].from # transfer[x].to /\ parcel[s].dest = transfer[x].to
             /\ transfer[x].status = "PENDING" => /\ parcel[s].stage = "AT_ORIGIN_WAREHOUSE"
                                                  /\ parcel[s].current = transfer[x].from
             /\ transfer[x].status = "IN_TRANSIT" => parcel[s].stage = "IN_TRANSIT"
  <2>1. x \in Transfers /\ TransferShape(x) /\ Of(x) = parcel[s] /\ transfer[x].status \in Live
    BY <1>2 DEF LiveTransfers, IInv, Of
  <2> QED
    BY <2>1 DEF TransferShape, Live
<1>3. ASSUME NEW s \in Parcels
      PROVE  /\ parcel[s].stage = "IN_TRANSIT"
                  => \E x \in LiveTransfers(s) : transfer[x].status = "IN_TRANSIT"
             /\ parcel[s].stage = "AWAITING_DELIVERY_ASSIGNMENT"
                  => parcel[s].current = parcel[s].dest
  BY DEF IInv, ParcelShape, LiveTransfers, Live
<1> QED
  BY <1>1, <1>2, <1>3 DEF ParcelPlace

LEMMA AgreesByIInv ==
    ASSUME IInv
    PROVE  CarriageAgrees
BY DEF IInv, CarriageShape, CarriageAgrees

LEMMA NotStrandedByIInv ==
    ASSUME IInv
    PROVE  NeverStranded
<1>1. ASSUME NEW x \in Transfers
      PROVE  /\ (transfer[x].status = "IN_TRANSIT" /\ carriage[x] = "none" /\ Open(transfer[x].to))
                   => ReceiveAllowed(x)
             /\ (Describe(x).canReceive /\ Open(transfer[x].to)) => ReceiveAllowed(x)
             /\ (Describe(x).canStandaloneDispatch /\ Open(transfer[x].from)
                  /\ Open(transfer[x].to)) => Dispatchable(x)
  <2>1. TransferShape(x) /\ CarriageShape(x)
    BY DEF IInv
  <2>2. (transfer[x].status = "IN_TRANSIT" /\ carriage[x] = "none" /\ Open(transfer[x].to))
          => ReceiveAllowed(x)
    BY <2>1 DEF TransferShape, CarriageShape, Of, ReceiveAllowed, StandaloneReceive
  <2>3. (Describe(x).canReceive /\ Open(transfer[x].to)) => ReceiveAllowed(x)
    BY <2>1 DEF TransferShape, Of, ReceiveAllowed, StandaloneReceive, Describe
  <2>4. (Describe(x).canStandaloneDispatch /\ Open(transfer[x].from) /\ Open(transfer[x].to))
          => Dispatchable(x)
    BY <2>1 DEF TransferShape, Of, Dispatchable, Describe
  <2> QED
    BY <2>2, <2>3, <2>4
<1> QED
  BY <1>1 DEF NeverStranded

(* A parcel on the road is on the inbound list of the one warehouse its     *)
(* transfer goes to.                                                        *)
LEMMA OneListByIInv ==
    ASSUME Assumptions, IInv
    PROVE  OneListEach
<1>1. ASSUME NEW s \in Parcels, NEW w \in Sites
      PROVE  s \in InboundQueue(w)
               <=> \/ parcel[s].stage = "PICKED_UP" /\ parcel[s].origin = w
                   \/ \E x \in Transfers : /\ transfer[x].to = w /\ transfer[x].parcel = s
                                           /\ transfer[x].status = "IN_TRANSIT"
  BY DEF InboundQueue
<1>2. ASSUME NEW s \in Parcels, NEW w \in Sites
      PROVE  s \in Inventory(w) <=> parcel[s].current = w
  BY DEF Inventory
<1>3. ASSUME NEW s \in Parcels
      PROVE  \E w \in Sites :
               /\ s \in InboundQueue(w) \cup Inventory(w)
               /\ s \notin InboundQueue(w) \cap Inventory(w)
               /\ \A v \in Sites \ {w} : s \notin InboundQueue(v) \cup Inventory(v)
  <2>1. ParcelShape(s) /\ parcel[s] \in ParcelRow /\ None \notin Sites
    BY DEF IInv, TypeOK, Assumptions, SitesAssumption
  <2>2. \A x \in Transfers : transfer[x].parcel = s /\ transfer[x].status = "IN_TRANSIT"
                             => parcel[s].stage = "IN_TRANSIT" /\ x \in LiveTransfers(s)
    BY DEF IInv, TransferShape, Of, LiveTransfers, Live
  <2>3. CASE parcel[s].stage = "PICKED_UP"
    <3>1. parcel[s].origin \in Sites /\ parcel[s].current \notin Sites
      BY <2>1, <2>3 DEF ParcelShape, ParcelRow
    <3> QED
      BY <1>1, <1>2, <2>2, <2>3, <3>1
  <2>4. CASE parcel[s].stage = "IN_TRANSIT"
    <3>1. PICK x \in Transfers : transfer[x].parcel = s /\ transfer[x].status = "IN_TRANSIT"
      BY <2>1, <2>4 DEF ParcelShape
    <3>2. transfer[x].to \in Sites
      BY <3>1 DEF IInv, TransferShape
    <3>3. \A y \in Transfers : transfer[y].parcel = s /\ transfer[y].status = "IN_TRANSIT" => y = x
      BY <2>1, <2>2, <3>1 DEF ParcelShape
    <3>4. parcel[s].current \notin Sites
      BY <2>1, <2>4 DEF ParcelShape
    <3> QED
      BY <1>1, <1>2, <2>4, <3>1, <3>2, <3>3, <3>4
  <2>5. CASE parcel[s].stage \notin {"PICKED_UP", "IN_TRANSIT"}
    <3>1. parcel[s].current \in Sites
      BY <2>1, <2>5 DEF ParcelShape
    <3> QED
      BY <1>1, <1>2, <2>2, <2>5, <3>1
  <2> QED
    BY <2>3, <2>4, <2>5
<1>4. ASSUME NEW w \in Sites, NEW x \in Outbound(w)
      PROVE  transfer[x].parcel \in Inventory(w)
  BY <1>4 DEF IInv, TransferShape, Of, Outbound, Inventory
<1> QED
  BY <1>3, <1>4 DEF OneListEach

-----------------------------------------------------------------------------
(* What no step takes back *)

(* A parcel does not return to the pickup, keeps its origin, the weight its *)
(* check-in recorded and a destination of some kind, and once it is ready   *)
(* for delivery it stays so.                                                *)
Onward(s) ==
    /\ parcel'[s].origin = parcel[s].origin
    /\ parcel[s].stage # "PICKED_UP" => /\ parcel'[s].stage # "PICKED_UP"
                                        /\ parcel'[s].weight = parcel[s].weight
    /\ parcel[s].dest # None => parcel'[s].dest # None
    /\ parcel[s].stage = "AWAITING_DELIVERY_ASSIGNMENT"
         => parcel'[s].stage = "AWAITING_DELIVERY_ASSIGNMENT"

(* A transfer that has left or has arrived does not turn back.              *)
Carried(x) ==
    /\ transfer[x].status \in {"IN_TRANSIT", "COMPLETED"}
         => transfer'[x].status \in {"IN_TRANSIT", "COMPLETED"}
    /\ transfer[x].status = "COMPLETED" => transfer'[x].status = "COMPLETED"

NothingTakenBack == (\A s \in Parcels : Onward(s)) /\ (\A x \in Transfers : Carried(x))

LEMMA RowOnward ==
    ASSUME IInv, NEW s \in Parcels, NEW new, parcel' = [parcel EXCEPT ![s] = new],
           new.origin = parcel[s].origin, new.stage # "PICKED_UP",
           parcel[s].dest # None => new.dest # None,
           parcel[s].stage # "PICKED_UP" => new.weight = parcel[s].weight,
           parcel[s].stage = "AWAITING_DELIVERY_ASSIGNMENT"
             => new.stage = "AWAITING_DELIVERY_ASSIGNMENT"
    PROVE  parcel'[s] = new /\ \A d \in Parcels : Onward(d)
<1>1. parcel'[s] = new /\ \A d \in Parcels \ {s} : parcel'[d] = parcel[d]
  BY DEF IInv, TypeOK
<1> QED
  BY <1>1 DEF Onward

LEMMA CheckInDoes ==
    ASSUME IInv, NEW r \in Requests, NEW weight, CheckIn(r, weight)
    PROVE  /\ \A d \in Parcels : Onward(d)
           /\ parcel'[req[r].parcel].stage = "AT_ORIGIN_WAREHOUSE"
           /\ parcel'[req[r].parcel].weight = weight
<1>1. PICK s : s = req[r].parcel
  OBVIOUS
<1>2. s \in Parcels /\ parcel[s] \in ParcelRow /\ parcel[s].stage = "PICKED_UP"
  BY <1>1 DEF IInv, TypeOK, RequestShape, CheckIn, UnchangedSince
<1>3. PICK new : new = [[parcel[s] EXCEPT !.stage = "AT_ORIGIN_WAREHOUSE", !.current = req[r].at,
                                          !.weight = weight] EXCEPT !.version = parcel[s].version + 1]
  OBVIOUS
<1>4. new = Placed(parcel[s], "AT_ORIGIN_WAREHOUSE", req[r].at, parcel[s].dest, weight)
  <2>1. PICK old, stage, at : old = parcel[s] /\ stage = "AT_ORIGIN_WAREHOUSE" /\ at = req[r].at
    OBVIOUS
  <2>2. new = CheckedIn(old, stage, at, weight)
    BY <1>3, <2>1 DEF CheckedIn
  <2>3. new = Placed(old, stage, at, old.dest, weight)
    BY <1>2, <2>1, <2>2, CheckedInRow
  <2> QED
    BY <2>1, <2>3
<1>5. parcel' = [parcel EXCEPT ![s] = new]
  BY <1>1, <1>3 DEF CheckIn, SetParcel
<1>6. /\ new.stage = "AT_ORIGIN_WAREHOUSE" /\ new.dest = parcel[s].dest
      /\ new.weight = weight /\ new.origin = parcel[s].origin
  BY <1>4 DEF Placed
<1>7. parcel'[s] = new /\ \A d \in Parcels : Onward(d)
  BY <1>2, <1>5, <1>6, RowOnward
<1> QED
  BY <1>1, <1>6, <1>7

LEMMA MarkReadyDoes ==
    ASSUME IInv, NEW r \in Requests, MarkReadyForDelivery(r)
    PROVE  /\ \A d \in Parcels : Onward(d)
           /\ parcel'[req[r].parcel].stage = "AWAITING_DELIVERY_ASSIGNMENT"
<1>1. PICK s : s = req[r].parcel
  OBVIOUS
<1>2. s \in Parcels /\ parcel[s] \in ParcelRow
  BY <1>1 DEF IInv, TypeOK, RequestShape, MarkReadyForDelivery
<1>3. PICK new : new = [[parcel[s] EXCEPT !.stage = "AWAITING_DELIVERY_ASSIGNMENT"]
                          EXCEPT !.version = parcel[s].version + 1]
  OBVIOUS
<1>4. new = Placed(parcel[s], "AWAITING_DELIVERY_ASSIGNMENT", parcel[s].current, parcel[s].dest,
                   parcel[s].weight)
  BY <1>2, <1>3, ReadyRow
<1>5. parcel' = [parcel EXCEPT ![s] = new]
  BY <1>1, <1>3 DEF MarkReadyForDelivery, SetParcel
<1>6. /\ new.stage = "AWAITING_DELIVERY_ASSIGNMENT" /\ new.dest = parcel[s].dest
      /\ new.weight = parcel[s].weight /\ new.origin = parcel[s].origin
  BY <1>4 DEF Placed
<1>7. parcel'[s] = new /\ \A d \in Parcels : Onward(d)
  BY <1>2, <1>5, <1>6, RowOnward
<1> QED
  BY <1>1, <1>6, <1>7

LEMMA RouteDoes ==
    ASSUME Assumptions, IInv, NEW r \in Requests, NEW s \in Parcels, NEW to \in Sites,
           RouteDestination(r, s, to)
    PROVE  (\A d \in Parcels : Onward(d)) /\ parcel'[s].dest = to
<1>1. parcel[s] \in ParcelRow /\ parcel[s].stage = "AT_ORIGIN_WAREHOUSE" /\ to # None
  BY DEF IInv, TypeOK, RouteDestination, Assumptions, SitesAssumption
<1>2. PICK stage \in {"AWAITING_DELIVERY_ASSIGNMENT", "AT_ORIGIN_WAREHOUSE"} :
        stage = IF to = req[r].at THEN "AWAITING_DELIVERY_ASSIGNMENT" ELSE "AT_ORIGIN_WAREHOUSE"
  OBVIOUS
<1>3. PICK new : new = [[parcel[s] EXCEPT !.dest = to, !.stage = stage]
                          EXCEPT !.version = parcel[s].version + 1]
  OBVIOUS
<1>4. new = Placed(parcel[s], stage, parcel[s].current, to, parcel[s].weight)
  BY <1>1, <1>3, RoutedRow
<1>5. parcel' = [parcel EXCEPT ![s] = new]
  BY <1>1, <1>2, <1>3 DEF RouteDestination, SetParcel, ParcelRow
<1>6. /\ new.stage = stage /\ new.dest = to
      /\ new.weight = parcel[s].weight /\ new.origin = parcel[s].origin
  BY <1>4 DEF Placed
<1> QED
  BY <1>1, <1>2, <1>5, <1>6, RowOnward

LEMMA ReceiveDoes ==
    ASSUME IInv, NEW r \in Requests, NEW x \in Transfers, ReceiveTransfer(r, x)
    PROVE  NothingTakenBack /\ transfer'[x].status = "COMPLETED"
<1>1. PICK s : s = transfer[x].parcel
  OBVIOUS
<1>2. s \in Parcels /\ parcel[s] \in ParcelRow /\ parcel[s].stage = "IN_TRANSIT"
  BY <1>1 DEF IInv, TypeOK, TransferShape, ReceiveTransfer, ReceiveAllowed
<1>3. PICK new : new = [[parcel[s] EXCEPT !.stage = "AT_DESTINATION_WAREHOUSE",
                                          !.current = transfer[x].to]
                          EXCEPT !.version = parcel[s].version + 1]
  OBVIOUS
<1>4. new = Placed(parcel[s], "AT_DESTINATION_WAREHOUSE", transfer[x].to, parcel[s].dest,
                   parcel[s].weight)
  BY <1>2, <1>3, ReceivedRow
<1>5. parcel' = [parcel EXCEPT ![s] = new]
  BY <1>1, <1>3 DEF ReceiveTransfer, SetParcel
<1>6. \A d \in Parcels : Onward(d)
  <2>1. /\ new.stage = "AT_DESTINATION_WAREHOUSE" /\ new.dest = parcel[s].dest
        /\ new.weight = parcel[s].weight /\ new.origin = parcel[s].origin
    BY <1>4 DEF Placed
  <2> QED
    BY <1>2, <1>5, <2>1, RowOnward
<1>7. transfer' = [transfer EXCEPT ![x].status = "COMPLETED"] /\ transfer[x] \in TransferRow
      /\ transfer \in [Transfers -> TransferRow]
  BY DEF ReceiveTransfer, IInv, TypeOK
<1>8. transfer'[x] = [transfer[x] EXCEPT !.status = "COMPLETED"]
      /\ \A y \in Transfers \ {x} : transfer'[y] = transfer[y]
  BY <1>7
<1>9. transfer'[x].status = "COMPLETED"
  BY <1>7, <1>8 DEF TransferRow
<1> QED
  BY <1>6, <1>8, <1>9 DEF NothingTakenBack, Carried

LEMMA RoadDoes ==
    ASSUME IInv, NEW X \in SUBSET Transfers, PutOnRoad(X), \A x \in X : Dispatchable(x)
    PROVE  NothingTakenBack /\ \A x \in X : transfer'[x].status = "IN_TRANSIT"
<1>1. ASSUME NEW d \in Parcels
      PROVE  Onward(d)
  <2>1. PICK old : old = parcel[d]
    OBVIOUS
  <2>2. old \in ParcelRow
    BY <2>1 DEF IInv, TypeOK
  <2>3. CASE \E x \in X : transfer[x].parcel = d
    <3>1. old.stage \in {"AT_ORIGIN_WAREHOUSE", "AT_DESTINATION_WAREHOUSE"}
      BY <2>1, <2>3 DEF Dispatchable
    <3>2. parcel'[d] = [old EXCEPT !.stage = "IN_TRANSIT", !.current = None, !.version = @ + 1]
      BY <2>1, <2>3 DEF PutOnRoad
    <3>3. parcel'[d].weight = old.weight /\ parcel'[d].origin = old.origin
          /\ parcel'[d].dest = old.dest /\ parcel'[d].stage = "IN_TRANSIT"
      BY <2>2, <3>2 DEF ParcelRow
    <3> QED
      BY <2>1, <3>1, <3>3 DEF Onward
  <2>4. CASE ~\E x \in X : transfer[x].parcel = d
    <3>1. parcel'[d] = parcel[d]
      BY <2>4 DEF PutOnRoad
    <3> QED
      BY <3>1 DEF Onward
  <2> QED
    BY <2>3, <2>4
<1>2. ASSUME NEW x \in X
      PROVE  transfer'[x].status = "IN_TRANSIT" /\ transfer[x].status = "PENDING"
  <2>1. PICK old, legacy : old = transfer[x] /\ legacy = (era = "before")
    OBVIOUS
  <2>2. old \in TransferRow /\ old.status = "PENDING"
    BY <2>1 DEF IInv, TypeOK, Dispatchable
  <2>3. transfer'[x] = [old EXCEPT !.status = "IN_TRANSIT", !.legacy = legacy]
    BY <2>1 DEF PutOnRoad
  <2>4. transfer'[x].status = "IN_TRANSIT"
    BY <2>2, <2>3 DEF TransferRow
  <2> QED
    BY <2>1, <2>2, <2>4
<1>3. \A x \in Transfers \ X : transfer'[x] = transfer[x]
  BY DEF PutOnRoad
<1>4. \A x \in Transfers : Carried(x)
  BY <1>2, <1>3 DEF Carried
<1> QED
  BY <1>1, <1>2, <1>4 DEF NothingTakenBack

LEMMA CreateDoes ==
    ASSUME Assumptions, IInv, NEW r \in Requests, NEW s \in Parcels, NEW to, NEW x \in Transfers,
           CreateTransfer(r, s, to, x)
    PROVE  /\ NothingTakenBack
           /\ transfer'[x] = [parcel |-> s, from |-> req[r].at, to |-> to, status |-> "PENDING",
                              legacy |-> FALSE]
           /\ \A y \in Transfers \ {x} : transfer'[y] = transfer[y]
<1>1. transfer \in [Transfers -> TransferRow] /\ transfer[x].status = "NONE" /\ parcel' = parcel
  BY DEF CreateTransfer, IInv, TypeOK
<1>2. /\ transfer'[x] = [parcel |-> s, from |-> req[r].at, to |-> to, status |-> "PENDING",
                         legacy |-> FALSE]
      /\ \A y \in Transfers \ {x} : transfer'[y] = transfer[y]
  BY <1>1 DEF CreateTransfer
<1>3. \A y \in Transfers : Carried(y)
  BY <1>1, <1>2 DEF Carried
<1> QED
  BY <1>1, <1>2, <1>3 DEF NothingTakenBack, Onward

LEMMA SameTakenBack ==
    ASSUME UNCHANGED <<parcel, transfer>>
    PROVE  NothingTakenBack
BY DEF NothingTakenBack, Onward, Carried

LEMMA SameTransfers ==
    ASSUME UNCHANGED transfer, \A s \in Parcels : Onward(s)
    PROVE  NothingTakenBack
BY DEF NothingTakenBack, Carried

LEMMA OnwardStep ==
    ASSUME Assumptions, IInv, Next
    PROVE  NothingTakenBack
<1>1. CASE Administration
  BY <1>1, SameTakenBack DEF Administration, CreateWarehouse, UpdateWarehouse,
     ToggleWarehouseStatus, AssignStaff, ToggleStaffStatus, Cutover
<1>2. CASE Commands
  <2>1. CASE \E r \in Requests, u \in Staff \cup {Office}, w \in Sites :
               \/ \E cmd \in Command : Begin(r, u, cmd, w)
               \/ \E d \in Parcels : CheckInRead(r, u, w, d) \/ MarkReadyRead(r, u, w, d)
    BY <2>1, SameTakenBack DEF Begin, CheckInRead, MarkReadyRead, BeginRead
  <2>2. CASE \E r \in Requests : Refused(r)
    BY <2>2, SameTakenBack DEF Refused
  <2>3. CASE \E r \in Requests : MarkReadyForDelivery(r)
    BY <2>3, MarkReadyDoes, SameTransfers DEF MarkReadyForDelivery
  <2>4. CASE \E r \in Requests, weight \in Weights : CheckIn(r, weight)
    BY <2>4, CheckInDoes, SameTransfers DEF CheckIn
  <2>5. CASE \E r \in Requests, d \in Parcels, to \in Sites : RouteDestination(r, d, to)
    BY <2>5, RouteDoes, SameTransfers DEF RouteDestination
  <2>6. CASE \E r \in Requests, d \in Parcels, to \in Sites, y \in Transfers :
               CreateTransfer(r, d, to, y)
    BY <2>6, CreateDoes
  <2>7. CASE \E r \in Requests, y \in Transfers : DispatchTransfer(r, y)
    BY <2>7, RoadDoes DEF DispatchTransfer
  <2>8. CASE \E r \in Requests, y \in Transfers : ReceiveTransfer(r, y)
    BY <2>8, ReceiveDoes
  <2> QED
    BY <1>2, <2>1, <2>2, <2>3, <2>4, <2>5, <2>6, <2>7, <2>8 DEF Commands
<1>3. CASE CarriageStep
  <2>1. PICK X \in SUBSET Transfers : Load(X) \/ Unload(X) \/ Seal(X) \/ Depart(X) \/ Arrive(X)
    BY <1>3 DEF CarriageStep
  <2>2. CASE Depart(X)
    BY <2>2, RoadDoes DEF Depart
  <2>3. CASE Load(X) \/ Unload(X) \/ Seal(X) \/ Arrive(X)
    BY <2>3, SameTakenBack DEF Load, Unload, Seal, Arrive
  <2> QED
    BY <2>1, <2>2, <2>3
<1> QED
  BY <1>1, <1>2, <1>3 DEF Next

(* The weight and the origin of a parcel that a transfer exists for.         *)
LEMMA WeightStep ==
    ASSUME Assumptions, IInv, Next
    PROVE  WeightKept
<1> SUFFICES ASSUME NEW s \in Parcels, NEW x \in Transfers, transfer[x].parcel = s
             PROVE  /\ parcel'[s].weight = parcel[s].weight /\ parcel[s].weight > 0
                    /\ parcel'[s].origin = parcel[s].origin
  BY DEF WeightKept
<1>1. parcel[s].stage # "PICKED_UP"
  <2>1. transfer[x].status # "NONE"
    BY DEF IInv, TransferShape, NoTransfer, Assumptions, SitesAssumption
  <2> QED
    BY <2>1 DEF IInv, TransferShape, Of
<1>2. parcel[s].weight > 0
  BY <1>1 DEF IInv, ParcelShape
<1>3. Onward(s)
  BY OnwardStep DEF NothingTakenBack
<1> QED
  BY <1>1, <1>2, <1>3 DEF Onward

-----------------------------------------------------------------------------
(* What a transfer says of its way *)

(* A transfer that was created keeps its parcel and its two warehouses.     *)
TransferKept ==
    \A x \in Transfers : transfer[x].status # "NONE"
      => /\ transfer'[x].status # "NONE" /\ transfer'[x].parcel = transfer[x].parcel
         /\ transfer'[x].from = transfer[x].from /\ transfer'[x].to = transfer[x].to

LEMMA ReceiveKeeps ==
    ASSUME IInv, NEW r \in Requests, NEW x \in Transfers, ReceiveTransfer(r, x)
    PROVE  TransferKept
<1>1. transfer' = [transfer EXCEPT ![x].status = "COMPLETED"] /\ transfer[x] \in TransferRow
      /\ transfer \in [Transfers -> TransferRow]
  BY DEF ReceiveTransfer, IInv, TypeOK
<1>2. transfer'[x] = [transfer[x] EXCEPT !.status = "COMPLETED"]
      /\ \A y \in Transfers \ {x} : transfer'[y] = transfer[y]
  BY <1>1
<1>3. transfer'[x].status = "COMPLETED" /\ transfer'[x].parcel = transfer[x].parcel
      /\ transfer'[x].from = transfer[x].from /\ transfer'[x].to = transfer[x].to
  BY <1>1, <1>2 DEF TransferRow
<1> QED
  BY <1>2, <1>3 DEF TransferKept

LEMMA RoadKeeps ==
    ASSUME IInv, NEW X \in SUBSET Transfers, PutOnRoad(X)
    PROVE  TransferKept
<1> SUFFICES ASSUME NEW x \in Transfers, transfer[x].status # "NONE"
             PROVE  /\ transfer'[x].status # "NONE" /\ transfer'[x].parcel = transfer[x].parcel
                    /\ transfer'[x].from = transfer[x].from /\ transfer'[x].to = transfer[x].to
  BY DEF TransferKept
<1>1. PICK old, legacy : old = transfer[x] /\ legacy = (era = "before")
  OBVIOUS
<1>2. old \in TransferRow
  BY <1>1 DEF IInv, TypeOK
<1>3. \/ transfer'[x] = [old EXCEPT !.status = "IN_TRANSIT", !.legacy = legacy]
      \/ transfer'[x] = old
  BY <1>1 DEF PutOnRoad
<1> QED
  BY <1>1, <1>2, <1>3 DEF TransferRow

LEMMA TransferStep ==
    ASSUME IInv, Next
    PROVE  TransferKept
<1>1. CASE Administration
  BY <1>1 DEF Administration, CreateWarehouse, UpdateWarehouse, ToggleWarehouseStatus, AssignStaff,
              ToggleStaffStatus, Cutover, TransferKept
<1>2. CASE Commands
  <2>1. CASE \E r \in Requests, u \in Staff \cup {Office}, w \in Sites :
               \/ \E cmd \in Command : Begin(r, u, cmd, w)
               \/ \E d \in Parcels : CheckInRead(r, u, w, d) \/ MarkReadyRead(r, u, w, d)
    BY <2>1 DEF Begin, CheckInRead, MarkReadyRead, BeginRead, TransferKept
  <2>2. CASE \E r \in Requests : \/ Refused(r) \/ MarkReadyForDelivery(r)
                                 \/ \E weight \in Weights : CheckIn(r, weight)
    BY <2>2 DEF Refused, MarkReadyForDelivery, CheckIn, TransferKept
  <2>3. CASE \E r \in Requests, d \in Parcels, to \in Sites : RouteDestination(r, d, to)
    BY <2>3 DEF RouteDestination, TransferKept
  <2>4. CASE \E r \in Requests, d \in Parcels, to \in Sites, y \in Transfers :
               CreateTransfer(r, d, to, y)
    <3>1. transfer \in [Transfers -> TransferRow]
      BY DEF IInv, TypeOK
    <3> QED
      BY <2>4, <3>1 DEF CreateTransfer, TransferKept
  <2>5. CASE \E r \in Requests, y \in Transfers : DispatchTransfer(r, y)
    BY <2>5, RoadKeeps DEF DispatchTransfer
  <2>6. CASE \E r \in Requests, y \in Transfers : ReceiveTransfer(r, y)
    BY <2>6, ReceiveKeeps
  <2> QED
    BY <1>2, <2>1, <2>2, <2>3, <2>4, <2>5, <2>6 DEF Commands
<1>3. CASE CarriageStep
  <2>1. PICK X \in SUBSET Transfers : Load(X) \/ Unload(X) \/ Seal(X) \/ Depart(X) \/ Arrive(X)
    BY <1>3 DEF CarriageStep
  <2>2. CASE Depart(X)
    BY <2>2, RoadKeeps DEF Depart
  <2>3. CASE Load(X) \/ Unload(X) \/ Seal(X) \/ Arrive(X)
    BY <2>3 DEF Load, Unload, Seal, Arrive, TransferKept
  <2> QED
    BY <2>1, <2>2, <2>3
<1> QED
  BY <1>1, <1>2, <1>3 DEF Next

-----------------------------------------------------------------------------
(* The inductive invariant of the page *)

(* What a call reported as done has left behind.                            *)
Truth(c) ==
    /\ c.cmd = "checkIn" => parcel[c.s].stage # "PICKED_UP" /\ parcel[c.s].origin = c.at
    /\ c.cmd = "checkIn" /\ c.fresh => parcel[c.s].weight = c.weight
    /\ c.cmd = "routeDestination" => parcel[c.s].dest # None
    /\ c.cmd = "createTransfer" => \E x \in Transfers : Matches(x, c)
    /\ c.cmd = "dispatchTransfer" => transfer[c.x].status \in {"IN_TRANSIT", "COMPLETED"}
    /\ c.cmd = "receiveTransfer" => transfer[c.x].status = "COMPLETED"
    /\ c.cmd = "markReadyForDelivery" => parcel[c.s].stage = "AWAITING_DELIVERY_ASSIGNMENT"

(* A call names what its command is about.                                  *)
Addressed(c) ==
    /\ c \in CallRow
    /\ c.cmd \in {"routeDestination", "createTransfer"} => c.to \in Sites
    /\ c.cmd \in {"createTransfer", "dispatchTransfer", "receiveTransfer"} => c.x \in Transfers
    /\ c.cmd = "checkIn" => c.weight \in Weights

(* The server is at work on the call it was sent.                           *)
Begun(r) ==
    /\ req[r].cmd = call[r].cmd /\ req[r].at = call[r].at
    /\ call[r].cmd \in {"checkIn", "markReadyForDelivery"} => req[r].parcel = call[r].s
    /\ call[r].cmd = "checkIn" => parcel[call[r].s].origin = call[r].at

CallShape(r) == call[r] # NoCall =>
    /\ Addressed(call[r])
    /\ call[r].cmd = "createTransfer" => call[r].to \in pressed[call[r].x]
    /\ call[r].phase = "begun" => Begun(r)
    /\ call[r].phase = "done" => Truth(call[r])

(* A dialog names what it is about; the key of a transfer dialog is new     *)
(* until it is first confirmed, and what is being looked up again has been  *)
(* confirmed.                                                               *)
DialogShape ==
    /\ desk.dialog # "none" => desk.s \in Parcels
    /\ desk.dialog = "routeDestination" => desk.dest \in Sites
    /\ desk.dialog \in {"createTransfer", "dispatchTransfer", "receiveTransfer"}
         => desk.x \in Transfers
    /\ desk.dialog = "createTransfer"
         => desk.home \in Sites /\ (pressed[desk.x] = {} => transfer[desk.x].status = "NONE")
    /\ desk.step # "edit" => desk.dialog = "createTransfer"
    /\ desk.step = "recheck" => desk.dest \in pressed[desk.x]

ToldShape == desk.told # None => Addressed(desk.told) /\ Truth(desk.told)

PageInv ==
    /\ DeskTypeOK
    /\ \A r \in Requests : CallShape(r)
    /\ DialogShape /\ ToldShape
    /\ TransferAsReviewed

-----------------------------------------------------------------------------
(* Steps of the network under the page *)

LEMMA TruthKept ==
    ASSUME Assumptions, IInv, NothingTakenBack, TransferKept, NEW c, Addressed(c), Truth(c)
    PROVE  Truth(c)'
<1>1. c.s \in Parcels
  BY DEF Addressed, CallRow
<1>2. Onward(c.s)
  BY <1>1 DEF NothingTakenBack
<1>3. CASE c.cmd \in {"checkIn", "routeDestination", "markReadyForDelivery"}
  BY <1>2, <1>3 DEF Truth, Onward
<1>4. CASE c.cmd = "createTransfer"
  <2>1. PICK x \in Transfers : Matches(x, c)
    BY <1>4 DEF Truth
  <2>2. transfer[x].status # "NONE"
    BY <1>1, <2>1 DEF Matches, IInv, TransferShape, NoTransfer, Assumptions, SitesAssumption
  <2>3. Matches(x, c)'
    BY <2>1, <2>2 DEF Matches, TransferKept
  <2> QED
    BY <1>4, <2>3 DEF Truth
<1>5. CASE c.cmd \in {"dispatchTransfer", "receiveTransfer"}
  <2>1. c.x \in Transfers
    BY <1>5 DEF Addressed
  <2>2. Carried(c.x)
    BY <2>1 DEF NothingTakenBack
  <2> QED
    BY <1>5, <2>2 DEF Truth, Carried
<1>6. c.cmd \in Kinds
  BY DEF Addressed, CallRow
<1> QED
  BY <1>3, <1>4, <1>5, <1>6 DEF Kinds

LEMMA NoCallIsNone ==
    ASSUME NEW r, call[r].phase \in {"sent", "begun", "done", "refused"}
    PROVE  call[r] # NoCall
BY DEF NoCall

(* A call the step does not touch.                                          *)
LEMMA CallKept ==
    ASSUME Assumptions, IInv, NothingTakenBack, TransferKept, NEW r \in Requests, CallShape(r),
           call'[r] = call[r], call[r] # NoCall => req'[r] = req[r],
           \A x \in Transfers : pressed[x] \subseteq pressed'[x]
    PROVE  CallShape(r)'
<1> SUFFICES ASSUME call[r] # NoCall
             PROVE  CallShape(r)'
  BY DEF CallShape
<1>1. PICK c : c = call[r]
  OBVIOUS
<1>2. Addressed(c) /\ call'[r] = c
  BY <1>1 DEF CallShape
<1>3. Addressed(c)'
  BY <1>2 DEF Addressed
<1>4. c.cmd = "createTransfer" => c.to \in pressed'[c.x]
  BY <1>1, <1>2 DEF CallShape, Addressed
<1>5. c.phase = "begun" => Begun(r)'
  <2>1. c.s \in Parcels
    BY <1>2 DEF Addressed, CallRow
  <2>2. parcel'[c.s].origin = parcel[c.s].origin
    BY <2>1 DEF NothingTakenBack, Onward
  <2> QED
    BY <1>1, <1>2, <2>2 DEF CallShape, Begun
<1>6. c.phase = "done" => Truth(c)'
  BY <1>1, <1>2, TruthKept DEF CallShape
<1> QED
  BY <1>2, <1>3, <1>4, <1>5, <1>6 DEF CallShape

LEMMA ToldKept ==
    ASSUME Assumptions, IInv, NothingTakenBack, TransferKept, ToldShape, desk'.told = desk.told
    PROVE  ToldShape'
<1>1. PICK c : c = desk.told
  OBVIOUS
<1>2. c # None => Addressed(c)' /\ Truth(c)'
  BY <1>1, TruthKept DEF ToldShape, Addressed
<1> QED
  BY <1>1, <1>2 DEF ToldShape

(* The keys that are confirmed get the transfers that were confirmed.       *)
NewAsReviewed ==
    \A x \in Transfers : transfer[x].status = "NONE" /\ transfer'[x].status # "NONE"
      => (pressed[x] = {} /\ desk.x # x) \/ transfer'[x].to \in pressed[x]

LEMMA DialogKept ==
    ASSUME DialogShape, UNCHANGED <<desk, pressed>>, NewAsReviewed
    PROVE  DialogShape'
BY DEF DialogShape, NewAsReviewed

LEMMA ReviewedKept ==
    ASSUME TransferAsReviewed, TransferKept, UNCHANGED pressed, NewAsReviewed
    PROVE  TransferAsReviewed'
BY DEF TransferAsReviewed, TransferKept, NewAsReviewed

(* A step of the network that leaves the page where it is, and one call at  *)
(* most another.                                                            *)
LEMMA NetworkStep ==
    ASSUME Assumptions, IInv, PageInv, NothingTakenBack, TransferKept, NewAsReviewed,
           UNCHANGED <<clerk, desk, pressed>>, call' \in [Requests -> CallRow \cup {NoCall}],
           NEW R \in SUBSET Requests, \A r \in R : CallShape(r)',
           \A r \in Requests \ R : call'[r] = call[r] /\ (call[r] # NoCall => req'[r] = req[r])
    PROVE  PageInv'
<1>1. DeskTypeOK'
  BY DEF PageInv, DeskTypeOK, DeskRow
<1>2. \A r \in Requests \ R : CallShape(r)'
  BY CallKept DEF PageInv
<1>3. DialogShape' /\ ToldShape' /\ TransferAsReviewed'
  BY DialogKept, ToldKept, ReviewedKept DEF PageInv
<1> QED
  BY <1>1, <1>2, <1>3 DEF PageInv

-----------------------------------------------------------------------------
(* The server *)

(* The call after its phase has changed.                                    *)
Turned(r, phase, fresh) ==
    /\ call' \in [Requests -> CallRow \cup {NoCall}]
    /\ \A q \in Requests \ {r} : call'[q] = call[q]
    /\ call'[r] \in CallRow /\ call'[r].phase = phase /\ call'[r].fresh = fresh
    /\ call'[r].cmd = call[r].cmd /\ call'[r].at = call[r].at /\ call'[r].s = call[r].s
    /\ call'[r].to = call[r].to /\ call'[r].x = call[r].x /\ call'[r].weight = call[r].weight

LEMMA PhaseRow ==
    ASSUME NEW c \in CallRow, NEW phase, NEW fresh, NEW d,
           d = [c EXCEPT !.phase = phase, !.fresh = fresh]
    PROVE  d = [phase |-> phase, cmd |-> c.cmd, at |-> c.at, s |-> c.s, to |-> c.to, x |-> c.x,
                weight |-> c.weight, fresh |-> fresh]
<1>1. c = [phase |-> c.phase, cmd |-> c.cmd, at |-> c.at, s |-> c.s, to |-> c.to, x |-> c.x,
           weight |-> c.weight, fresh |-> c.fresh]
  BY DEF CallRow
<1> QED
  BY <1>1

LEMMA PhaseTurns ==
    ASSUME PageInv, NEW r \in Requests, call[r] # NoCall, NEW fresh \in BOOLEAN,
           NEW phase \in {"sent", "begun", "done", "refused"}, Phase(r, phase, fresh)
    PROVE  Turned(r, phase, fresh)
<1>1. PICK c : c = call[r]
  OBVIOUS
<1>2. c \in CallRow /\ call \in [Requests -> CallRow \cup {NoCall}]
  BY <1>1 DEF PageInv, DeskTypeOK
<1>3. PICK d : d = [phase |-> phase, cmd |-> c.cmd, at |-> c.at, s |-> c.s, to |-> c.to, x |-> c.x,
                    weight |-> c.weight, fresh |-> fresh]
  OBVIOUS
<1>4. d \in CallRow
  BY <1>2, <1>3 DEF CallRow
<1>5. call'[r] = d /\ \A q \in Requests \ {r} : call'[q] = call[q]
  <2>1. call' = [call EXCEPT ![r] = [c EXCEPT !.phase = phase, !.fresh = fresh]]
    BY <1>1, <1>2 DEF Phase
  <2>2. [c EXCEPT !.phase = phase, !.fresh = fresh] = d
    BY <1>2, <1>3, PhaseRow
  <2> QED
    BY <1>2, <2>1, <2>2
<1>6. call' \in [Requests -> CallRow \cup {NoCall}]
  BY <1>2, <1>4, <1>5 DEF Phase
<1> QED
  BY <1>1, <1>3, <1>4, <1>5, <1>6 DEF Turned

(* A call that has turned is still addressed; it is done when what it says  *)
(* is true, and at work when the server is.                                 *)
LEMMA TurnedShape ==
    ASSUME NEW r \in Requests, NEW phase, NEW fresh, Turned(r, phase, fresh), CallShape(r),
           call[r] # NoCall, UNCHANGED pressed, phase = "begun" => Begun(r)',
           phase = "done" => Truth(call[r])'
    PROVE  CallShape(r)'
<1>1. /\ Addressed(call[r])' /\ call'[r].phase = phase
      /\ call'[r].cmd = "createTransfer" => call'[r].to \in pressed'[call'[r].x]
  BY DEF Turned, CallShape, Addressed
<1> QED
  BY <1>1 DEF CallShape

LEMMA OthersWait ==
    ASSUME NEW r \in Requests, NEW q \in Requests, q # r, NEW row, IInv, req' = [req EXCEPT ![r] = row]
    PROVE  req'[q] = req[q]
BY DEF IInv, TypeOK

LEMMA AcceptStep ==
    ASSUME Assumptions, IInv, PageInv, UNCHANGED clerk, NEW r \in Requests, Accept(r)
    PROVE  Next /\ PageInv'
<1>1. PICK c : c = call[r]
  OBVIOUS
<1>2. c # NoCall /\ c.phase = "sent" /\ c \in CallRow /\ CallShape(r)
  BY <1>1, NoCallIsNone DEF Accept, PageInv, DeskTypeOK
<1>3. c.at \in Sites /\ c.s \in Parcels /\ c.cmd \in Kinds /\ clerk \in Staff \cup {Office}
  BY <1>2 DEF CallRow, PageInv, DeskTypeOK
<1>4. Turned(r, "begun", FALSE) /\ UNCHANGED <<desk, pressed>>
  BY <1>1, <1>2, PhaseTurns DEF Accept
<1>5. \/ c.cmd = "checkIn" /\ CheckInRead(r, clerk, c.at, c.s)
      \/ c.cmd = "markReadyForDelivery" /\ MarkReadyRead(r, clerk, c.at, c.s)
      \/ Begin(r, clerk, c.cmd, c.at)
  BY <1>1 DEF Accept
<1>6. Next
  BY <1>3, <1>5 DEF Next, Commands, Kinds, Command
<1>7. PICK row : /\ req' = [req EXCEPT ![r] = row] /\ row.cmd = c.cmd /\ row.at = c.at
                 /\ c.cmd \in {"checkIn", "markReadyForDelivery"} => row.parcel = c.s
                 /\ c.cmd = "checkIn" => parcel[c.s].origin = c.at
  BY <1>5 DEF CheckInRead, MarkReadyRead, BeginRead, Begin
<1>8. req'[r] = row /\ \A q \in Requests \ {r} : req'[q] = req[q]
  BY <1>7 DEF IInv, TypeOK
<1>9. UNCHANGED <<parcel, transfer>>
  BY <1>5 DEF CheckInRead, MarkReadyRead, BeginRead, Begin
<1>10. CallShape(r)'
  <2>1. Begun(r)'
    BY <1>1, <1>4, <1>7, <1>8, <1>9 DEF Begun, Turned
  <2> QED
    BY <1>1, <1>2, <1>4, <2>1, TurnedShape
<1>11. NothingTakenBack /\ TransferKept /\ NewAsReviewed
  BY <1>9, SameTakenBack DEF TransferKept, NewAsReviewed
<1>12. PageInv'
  <2>1. {r} \in SUBSET Requests /\ call' \in [Requests -> CallRow \cup {NoCall}]
    BY <1>4 DEF Turned
  <2>2. \A q \in Requests \ {r} : call'[q] = call[q] /\ req'[q] = req[q]
    BY <1>4, <1>8 DEF Turned
  <2> QED
    BY <1>4, <1>10, <1>11, <2>1, <2>2, NetworkStep
<1> QED
  BY <1>6, <1>12

(* The command a call has begun is a step of the network.                   *)
LEMMA PerformNext ==
    ASSUME PageInv, NEW r \in Requests, Perform(r)
    PROVE  Next
<1>1. PICK c : c = call[r]
  OBVIOUS
<1>2. Addressed(c) /\ c.s \in Parcels
  BY <1>1, NoCallIsNone DEF Perform, PageInv, CallShape, Addressed, CallRow
<1>3. \/ c.cmd = "checkIn" /\ CheckIn(r, c.weight)
      \/ c.cmd = "markReadyForDelivery" /\ MarkReadyForDelivery(r)
      \/ c.cmd = "routeDestination" /\ RouteDestination(r, c.s, c.to)
      \/ c.cmd = "createTransfer" /\ CreateTransfer(r, c.s, c.to, c.x)
      \/ c.cmd = "dispatchTransfer" /\ DispatchTransfer(r, c.x)
      \/ c.cmd = "receiveTransfer" /\ ReceiveTransfer(r, c.x)
  BY <1>1 DEF Perform
<1> QED
  BY <1>2, <1>3 DEF Next, Commands, Addressed

(* ... and does what the call asks.                                         *)
LEMMA PerformDoes ==
    ASSUME Assumptions, IInv, PageInv, NEW r \in Requests, Perform(r)
    PROVE  /\ NothingTakenBack /\ NewAsReviewed /\ Truth(call[r])'
           /\ \A q \in Requests \ {r} : req'[q] = req[q]
<1>1. PICK c : c = call[r]
  OBVIOUS
<1>2. /\ c # NoCall /\ Addressed(c) /\ c.s \in Parcels /\ Begun(r)
      /\ c.cmd = "createTransfer" => c.to \in pressed[c.x]
  BY <1>1, NoCallIsNone DEF Perform, PageInv, CallShape, Addressed, CallRow
<1>3. Turned(r, "done", TRUE)
  BY <1>1, <1>2, PhaseTurns DEF Perform
<1>4. PICK d : d = call'[r]
  OBVIOUS
<1>5. /\ d.cmd = c.cmd /\ d.at = c.at /\ d.s = c.s /\ d.to = c.to /\ d.x = c.x
      /\ d.weight = c.weight
  BY <1>1, <1>3, <1>4 DEF Turned
<1>6. SUFFICES /\ NothingTakenBack /\ NewAsReviewed /\ Truth(d)'
               /\ \A q \in Requests \ {r} : req'[q] = req[q]
  BY <1>4 DEF Truth, Matches
<1>7. CASE c.cmd = "checkIn" /\ CheckIn(r, c.weight)
  <2>1. UNCHANGED transfer /\ req' = [req EXCEPT ![r] = Idle]
    BY <1>7 DEF CheckIn
  <2>2. req[r].parcel = c.s /\ parcel[c.s].origin = c.at
    BY <1>1, <1>2, <1>7 DEF Begun
  <2>3. /\ \A s \in Parcels : Onward(s)
        /\ parcel'[c.s].stage = "AT_ORIGIN_WAREHOUSE" /\ parcel'[c.s].weight = c.weight
    BY <1>7, <2>2, CheckInDoes
  <2>4. parcel'[c.s].origin = c.at
    BY <1>2, <2>2, <2>3 DEF Onward
  <2>5. Truth(d)'
    BY <1>5, <1>7, <2>3, <2>4 DEF Truth
  <2> QED
    BY <2>1, <2>3, <2>5, SameTransfers, OthersWait DEF NewAsReviewed
<1>8. CASE c.cmd = "markReadyForDelivery" /\ MarkReadyForDelivery(r)
  <2>1. UNCHANGED transfer /\ req' = [req EXCEPT ![r] = Idle]
    BY <1>8 DEF MarkReadyForDelivery
  <2>2. req[r].parcel = c.s
    BY <1>1, <1>2, <1>8 DEF Begun
  <2>3. /\ \A s \in Parcels : Onward(s)
        /\ parcel'[c.s].stage = "AWAITING_DELIVERY_ASSIGNMENT"
    BY <1>8, <2>2, MarkReadyDoes
  <2>4. Truth(d)'
    BY <1>5, <1>8, <2>3 DEF Truth
  <2> QED
    BY <2>1, <2>3, <2>4, SameTransfers, OthersWait DEF NewAsReviewed
<1>9. CASE c.cmd = "routeDestination" /\ RouteDestination(r, c.s, c.to)
  <2>1. UNCHANGED transfer /\ req' = [req EXCEPT ![r] = Idle]
    BY <1>9 DEF RouteDestination
  <2>2. c.to \in Sites /\ c.to # None
    BY <1>2, <1>9 DEF Addressed, Assumptions, SitesAssumption
  <2>3. (\A s \in Parcels : Onward(s)) /\ parcel'[c.s].dest = c.to
    BY <1>2, <1>9, <2>2, RouteDoes
  <2>4. Truth(d)'
    BY <1>5, <1>9, <2>2, <2>3 DEF Truth
  <2> QED
    BY <2>1, <2>3, <2>4, SameTransfers, OthersWait DEF NewAsReviewed
<1>10. CASE c.cmd = "createTransfer" /\ CreateTransfer(r, c.s, c.to, c.x)
  <2>1. req' = [req EXCEPT ![r] = Idle]
    BY <1>10 DEF CreateTransfer
  <2>2. c.x \in Transfers /\ req[r].at = c.at /\ c.to \in pressed[c.x]
    BY <1>1, <1>2, <1>10 DEF Addressed, Begun
  <2>3. PICK new : new = [parcel |-> c.s, from |-> req[r].at, to |-> c.to, status |-> "PENDING",
                          legacy |-> FALSE]
    OBVIOUS
  <2>4. /\ NothingTakenBack /\ transfer'[c.x] = new
        /\ \A y \in Transfers \ {c.x} : transfer'[y] = transfer[y]
    BY <1>2, <1>10, <2>2, <2>3, CreateDoes
  <2>5. new.parcel = c.s /\ new.from = c.at /\ new.to = c.to
    BY <2>2, <2>3
  <2>6. NewAsReviewed
    BY <2>2, <2>4, <2>5 DEF NewAsReviewed
  <2>7. Truth(d)'
    <3>1. transfer'[c.x].parcel = d.s /\ transfer'[c.x].from = d.at /\ transfer'[c.x].to = d.to
      BY <1>5, <2>4, <2>5
    <3> QED
      BY <1>5, <1>10, <2>2, <3>1 DEF Truth, Matches
  <2> QED
    BY <2>1, <2>4, <2>6, <2>7, OthersWait
<1>11. CASE c.cmd = "dispatchTransfer" /\ DispatchTransfer(r, c.x)
  <2>1. /\ req' = [req EXCEPT ![r] = Idle] /\ PutOnRoad({c.x}) /\ Dispatchable(c.x)
        /\ {c.x} \in SUBSET Transfers
    BY <1>2, <1>11 DEF DispatchTransfer, Addressed
  <2>2. NothingTakenBack /\ transfer'[c.x].status = "IN_TRANSIT"
    BY <2>1, RoadDoes
  <2>3. NewAsReviewed
    BY <2>1 DEF NewAsReviewed, PutOnRoad, Dispatchable
  <2>4. Truth(d)'
    BY <1>5, <1>11, <2>2 DEF Truth
  <2> QED
    BY <2>1, <2>2, <2>3, <2>4, OthersWait
<1>12. CASE c.cmd = "receiveTransfer" /\ ReceiveTransfer(r, c.x)
  <2>1. /\ req' = [req EXCEPT ![r] = Idle] /\ c.x \in Transfers
        /\ transfer[c.x].status = "IN_TRANSIT"
        /\ \A y \in Transfers \ {c.x} : transfer'[y] = transfer[y]
    BY <1>2, <1>12 DEF ReceiveTransfer, ReceiveAllowed, Addressed, IInv, TypeOK
  <2>2. NothingTakenBack /\ transfer'[c.x].status = "COMPLETED"
    BY <1>12, <2>1, ReceiveDoes
  <2>3. NewAsReviewed
    BY <2>1 DEF NewAsReviewed
  <2>4. Truth(d)'
    BY <1>5, <1>12, <2>2 DEF Truth
  <2> QED
    BY <2>1, <2>2, <2>3, <2>4, OthersWait
<1>13. \/ c.cmd = "checkIn" /\ CheckIn(r, c.weight)
       \/ c.cmd = "markReadyForDelivery" /\ MarkReadyForDelivery(r)
       \/ c.cmd = "routeDestination" /\ RouteDestination(r, c.s, c.to)
       \/ c.cmd = "createTransfer" /\ CreateTransfer(r, c.s, c.to, c.x)
       \/ c.cmd = "dispatchTransfer" /\ DispatchTransfer(r, c.x)
       \/ c.cmd = "receiveTransfer" /\ ReceiveTransfer(r, c.x)
  BY <1>1 DEF Perform
<1> QED
  BY <1>7, <1>8, <1>9, <1>10, <1>11, <1>12, <1>13

LEMMA PerformStep ==
    ASSUME Assumptions, IInv, PageInv, UNCHANGED clerk, NEW r \in Requests, Perform(r)
    PROVE  Next /\ PageInv'
<1>1. call[r] # NoCall /\ CallShape(r)
  BY NoCallIsNone DEF Perform, PageInv
<1>2. Turned(r, "done", TRUE) /\ UNCHANGED <<desk, pressed>>
  BY <1>1, PhaseTurns DEF Perform
<1>3. Next /\ TransferKept
  BY PerformNext, TransferStep
<1>4. /\ NothingTakenBack /\ NewAsReviewed /\ Truth(call[r])'
      /\ \A q \in Requests \ {r} : req'[q] = req[q]
  BY PerformDoes
<1>5. CallShape(r)'
  BY <1>1, <1>2, <1>4, TurnedShape
<1>6. {r} \in SUBSET Requests /\ call' \in [Requests -> CallRow \cup {NoCall}]
      /\ \A q \in Requests \ {r} : call'[q] = call[q]
  BY <1>2 DEF Turned
<1> QED
  BY <1>2, <1>3, <1>4, <1>5, <1>6, NetworkStep

LEMMA ReplayStep ==
    ASSUME Assumptions, IInv, PageInv, UNCHANGED clerk, NEW r \in Requests, Replay(r)
    PROVE  UNCHANGED vars /\ PageInv'
<1>1. call[r] # NoCall /\ CallShape(r) /\ UNCHANGED <<vars, desk, pressed>>
  BY NoCallIsNone DEF Replay, PageInv
<1>2. Turned(r, "done", FALSE)
  BY <1>1, PhaseTurns DEF Replay
<1>3. UNCHANGED <<parcel, transfer, req>>
  BY <1>1 DEF vars
<1>4. Truth(call[r])'
  <2>1. PICK c, d : c = call[r] /\ d = call'[r]
    OBVIOUS
  <2>2. /\ d.cmd = c.cmd /\ d.at = c.at /\ d.s = c.s /\ d.to = c.to /\ d.x = c.x
        /\ d.fresh = FALSE
    BY <1>2, <2>1 DEF Turned
  <2>3. Addressed(c) /\ AlreadyDone(c)
    BY <1>1, <2>1 DEF CallShape, Replay
  <2>4. /\ c.cmd = "checkIn" => parcel[c.s].stage # "PICKED_UP" /\ parcel[c.s].origin = c.at
        /\ c.cmd = "routeDestination" => parcel[c.s].dest # None
        /\ c.cmd = "createTransfer" => \E x \in Transfers : Matches(x, c)
        /\ c.cmd = "dispatchTransfer" => transfer[c.x].status \in {"IN_TRANSIT", "COMPLETED"}
        /\ c.cmd = "receiveTransfer" => transfer[c.x].status = "COMPLETED"
        /\ c.cmd = "markReadyForDelivery" => parcel[c.s].stage = "AWAITING_DELIVERY_ASSIGNMENT"
    BY <2>3 DEF AlreadyDone, Addressed, Assumptions, SitesAssumption, LiveTransfers
  <2>5. Truth(d)'
    BY <1>3, <2>2, <2>4 DEF Truth, Matches
  <2> QED
    BY <2>1, <2>5 DEF Truth, Matches
<1>5. CallShape(r)'
  BY <1>1, <1>2, <1>4, TurnedShape
<1>6. NothingTakenBack /\ TransferKept /\ NewAsReviewed
  BY <1>3, SameTakenBack DEF TransferKept, NewAsReviewed
<1>7. {r} \in SUBSET Requests /\ call' \in [Requests -> CallRow \cup {NoCall}]
      /\ \A q \in Requests \ {r} : call'[q] = call[q]
  BY <1>2 DEF Turned
<1> QED
  BY <1>1, <1>3, <1>5, <1>6, <1>7, NetworkStep

LEMMA RefuseStep ==
    ASSUME Assumptions, IInv, PageInv, UNCHANGED clerk, NEW r \in Requests, Refuse(r)
    PROVE  (Next \/ UNCHANGED vars) /\ PageInv'
<1>1. call[r] # NoCall /\ CallShape(r) /\ UNCHANGED <<desk, pressed>>
  BY NoCallIsNone DEF Refuse, PageInv
<1>2. Turned(r, "refused", FALSE)
  BY <1>1, PhaseTurns DEF Refuse
<1>3. Refused(r) \/ UNCHANGED vars
  BY DEF Refuse
<1>4. Next \/ UNCHANGED vars
  BY <1>3 DEF Next, Commands
<1>5. UNCHANGED <<parcel, transfer>> /\ \A q \in Requests \ {r} : req'[q] = req[q]
  BY <1>3, OthersWait DEF Refused, vars
<1>6. CallShape(r)'
  BY <1>1, <1>2, TurnedShape
<1>7. NothingTakenBack /\ TransferKept /\ NewAsReviewed
  BY <1>5, SameTakenBack DEF TransferKept, NewAsReviewed
<1>8. {r} \in SUBSET Requests /\ call' \in [Requests -> CallRow \cup {NoCall}]
      /\ \A q \in Requests \ {r} : call'[q] = call[q]
  BY <1>2 DEF Turned
<1> QED
  BY <1>1, <1>4, <1>5, <1>6, <1>7, <1>8, NetworkStep

LEMMA OthersStep ==
    ASSUME Assumptions, IInv, PageInv, UNCHANGED clerk, Others
    PROVE  Next /\ PageInv'
<1>1. Next /\ TransferKept /\ NothingTakenBack
  BY TransferStep, OnwardStep DEF Others
<1>2. UNCHANGED <<desk, call, pressed>>
  BY DEF Others, deskVars
<1>3. NewAsReviewed
  BY DEF Others, NewAsReviewed
<1>4. \A r \in Requests : call'[r] = call[r] /\ (call[r] # NoCall => req'[r] = req[r])
  BY <1>2 DEF Others
<1>5. {} \in SUBSET Requests /\ call' \in [Requests -> CallRow \cup {NoCall}]
  BY <1>2 DEF PageInv, DeskTypeOK
<1> QED
  BY <1>1, <1>2, <1>3, <1>4, <1>5, NetworkStep

-----------------------------------------------------------------------------
(* The dialogs *)

(* A row of the page, field by field.                                       *)
IsDesk(row, at, dialog, s, x, dest, home, step, ctx, wait, loose, told) ==
    row = [at |-> at, dialog |-> dialog, s |-> s, x |-> x, dest |-> dest, home |-> home,
           step |-> step, ctx |-> ctx, wait |-> wait, loose |-> loose, told |-> told]

LEMMA DeskFields ==
    ASSUME NEW row \in DeskRow
    PROVE  /\ IsDesk(row, row.at, row.dialog, row.s, row.x, row.dest, row.home, row.step, row.ctx,
                     row.wait, row.loose, row.told)
           /\ row.at \in Sites \cup {None} /\ row.dialog \in Kinds \cup {"none"}
           /\ row.s \in Parcels \cup {None} /\ row.x \in Transfers \cup {None}
           /\ row.dest \in Sites \cup {None} /\ row.home \in Sites \cup {None}
           /\ row.step \in {"edit", "reading", "recheck"} /\ row.ctx \in Context
           /\ row.wait \in SUBSET Requests /\ row.loose \in SUBSET Requests
           /\ row.told \in CallRow \cup {None}
BY DEF DeskRow, IsDesk

LEMMA BlankFields ==
    ASSUME NEW w
    PROVE  IsDesk(Blank(w), w, "none", None, None, None, None, "edit", NoContext, {}, {}, None)
BY DEF Blank, IsDesk

LEMMA NoContextIsContext == NoContext \in Context
BY DEF NoContext, Context

(* The page moves on its own: calls, keys and the network stay.             *)
LEMMA PageStep ==
    ASSUME Assumptions, IInv, PageInv, UNCHANGED <<vars, clerk, call, pressed>>, desk' \in DeskRow,
           DialogShape', ToldShape'
    PROVE  PageInv'
<1>1. UNCHANGED <<site, staff, parcel, transfer, carriage, era, req>>
  BY DEF vars
<1>2. DeskTypeOK' /\ TransferAsReviewed'
  BY <1>1 DEF PageInv, DeskTypeOK, TransferAsReviewed, CallRow
<1>3. NothingTakenBack /\ TransferKept
  BY <1>1, SameTakenBack DEF TransferKept
<1>4. \A r \in Requests : CallShape(r)'
  BY <1>1, <1>3, CallKept DEF PageInv
<1> QED
  BY <1>2, <1>4 DEF PageInv

(* What is shown changes: a dialog opens in the warehouse of the page, or   *)
(* the open one gives way to the blank page.                                *)
LEMMA ShowStep ==
    ASSUME Assumptions, IInv, PageInv, UNCHANGED clerk, NEW row, NEW loose \in SUBSET Requests,
           Show(row, loose),
           NEW dialog \in Kinds \cup {"none"}, NEW s \in Parcels \cup {None},
           NEW x \in Transfers \cup {None}, NEW dest \in Sites \cup {None},
           NEW home \in Sites \cup {None}, NEW step \in {"edit", "reading"},
           IsDesk(row, None, dialog, s, x, dest, home, step, NoContext, {}, {}, None),
           dialog # "none" => s \in Parcels,
           dialog = "routeDestination" => dest \in Sites,
           dialog \in {"createTransfer", "dispatchTransfer", "receiveTransfer"} => x \in Transfers,
           dialog = "createTransfer" => home \in Sites /\ transfer[x].status = "NONE",
           step # "edit" => dialog = "createTransfer"
    PROVE  PageInv'
<1>1. /\ UNCHANGED <<vars, call, pressed>> /\ UNCHANGED <<parcel, transfer>>
      /\ desk \in DeskRow /\ DialogShape /\ ToldShape
  BY DEF Show, vars, PageInv, DeskTypeOK
<1>2. PICK at, wait, told : at = desk.at /\ wait = desk.wait /\ told = desk.told
  OBVIOUS
<1>3. at \in Sites \cup {None} /\ wait \in SUBSET Requests /\ told \in CallRow \cup {None}
  BY <1>1, <1>2, DeskFields
<1>4. IsDesk(desk', at, dialog, s, x, dest, home, step, NoContext, wait, loose, told)
  BY <1>2 DEF Show, IsDesk
<1>5. desk' \in DeskRow
  BY <1>3, <1>4, NoContextIsContext DEF IsDesk, DeskRow
<1>6. /\ desk'.dialog = dialog /\ desk'.s = s /\ desk'.x = x /\ desk'.dest = dest
      /\ desk'.home = home /\ desk'.step = step /\ desk'.told = desk.told
  BY <1>2, <1>4 DEF IsDesk
<1>7. DialogShape'
  BY <1>1, <1>6 DEF DialogShape
<1>8. ToldShape'
  BY <1>1, <1>6 DEF ToldShape, Truth, Addressed, Matches
<1> QED
  BY <1>1, <1>5, <1>7, <1>8, PageStep

LEMMA OpenStep ==
    ASSUME Assumptions, IInv, PageInv, UNCHANGED clerk,
           \/ \E s \in Parcels : \/ OpenCheckIn(s)
                                 \/ \E to \in Sites : OpenSorting(s, to)
                                 \/ \E x \in Transfers : OpenTransfer(s, x)
           \/ \E x \in Transfers : OpenDispatch(x) \/ OpenReceive(x)
    PROVE  PageInv'
<1>1. desk.at \in Sites \cup {None} /\ desk.loose \in SUBSET Requests
      /\ desk.wait \in SUBSET Requests
  BY DeskFields DEF PageInv, DeskTypeOK
<1>2. ASSUME NEW s \in Parcels, OpenCheckIn(s)
      PROVE  PageInv'
  <2>1. PICK row : row = [Blank(None) EXCEPT !.dialog = "checkIn", !.s = s]
    OBVIOUS
  <2>2. IsDesk(row, None, "checkIn", s, None, None, None, "edit", NoContext, {}, {}, None)
    BY <2>1 DEF Blank, IsDesk
  <2>3. PICK loose : loose = desk.loose \cup {r \in desk.wait : call[r].cmd = "checkIn"}
    OBVIOUS
  <2>4. Show(row, loose) /\ loose \in SUBSET Requests
    BY <1>1, <1>2, <2>1, <2>3 DEF OpenCheckIn
  <2> QED
    BY <2>2, <2>4, ShowStep DEF Kinds
<1>3. ASSUME NEW s \in Parcels, NEW to \in Sites, OpenSorting(s, to)
      PROVE  PageInv'
  <2>1. PICK row : row = [Blank(None) EXCEPT !.dialog = "routeDestination", !.s = s, !.dest = to]
    OBVIOUS
  <2>2. IsDesk(row, None, "routeDestination", s, None, to, None, "edit", NoContext, {}, {}, None)
    BY <2>1 DEF Blank, IsDesk
  <2>3. Show(row, desk.loose)
    BY <1>3, <2>1 DEF OpenSorting
  <2> QED
    BY <1>1, <2>2, <2>3, ShowStep DEF Kinds
<1>4. ASSUME NEW s \in Parcels, NEW x \in Transfers, OpenTransfer(s, x)
      PROVE  PageInv'
  <2>1. PICK at, row : /\ at = desk.at
                       /\ row = [Blank(None) EXCEPT !.dialog = "createTransfer", !.s = s, !.x = x,
                                                    !.home = at, !.step = "reading"]
    OBVIOUS
  <2>2. IsDesk(row, None, "createTransfer", s, x, None, at, "reading", NoContext, {}, {}, None)
    BY <2>1 DEF Blank, IsDesk
  <2>3. Show(row, desk.loose) /\ at \in Sites /\ transfer[x].status = "NONE"
    BY <1>1, <1>4, <2>1 DEF OpenTransfer, Ready
  <2>4. /\ "createTransfer" \in Kinds \cup {"none"} /\ s \in Parcels \cup {None}
        /\ x \in Transfers \cup {None} /\ at \in Sites \cup {None}
    BY <2>3 DEF Kinds
  <2> QED
    BY <1>1, <2>2, <2>3, <2>4, ShowStep
<1>5. ASSUME NEW x \in Transfers, NEW dialog \in {"dispatchTransfer", "receiveTransfer"},
             Show([Blank(None) EXCEPT !.dialog = dialog, !.s = transfer[x].parcel, !.x = x],
                  desk.loose),
             transfer[x].status # "NONE"
      PROVE  PageInv'
  <2>1. PICK s : s = transfer[x].parcel
    OBVIOUS
  <2>2. s \in Parcels
    BY <1>5, <2>1 DEF IInv, TransferShape
  <2>3. PICK row : row = [Blank(None) EXCEPT !.dialog = dialog, !.s = s, !.x = x]
    OBVIOUS
  <2>4. IsDesk(row, None, dialog, s, x, None, None, "edit", NoContext, {}, {}, None)
    BY <2>3 DEF Blank, IsDesk
  <2>5. Show(row, desk.loose)
    BY <1>5, <2>1, <2>3
  <2>6. dialog \in Kinds \ {"routeDestination", "createTransfer"} /\ x \in Transfers \cup {None}
    BY DEF Kinds
  <2> QED
    BY <1>1, <2>2, <2>4, <2>5, <2>6, ShowStep
<1>6. ASSUME NEW x \in Transfers, OpenDispatch(x) \/ OpenReceive(x)
      PROVE  PageInv'
  BY <1>5, <1>6 DEF OpenDispatch, OpenReceive, OffersDispatch, OffersReceive
<1> QED
  BY <1>2, <1>3, <1>4, <1>6

LEMMA CloseStep ==
    ASSUME Assumptions, IInv, PageInv, UNCHANGED clerk, Close
    PROVE  PageInv'
<1>1. desk.loose \in SUBSET Requests
  BY DeskFields DEF PageInv, DeskTypeOK
<1>2. PICK row : row = Blank(None)
  OBVIOUS
<1>3. IsDesk(row, None, "none", None, None, None, None, "edit", NoContext, {}, {}, None)
  BY <1>2, BlankFields
<1>4. Show(row, desk.loose)
  BY <1>2 DEF Close
<1> QED
  BY <1>1, <1>3, <1>4, ShowStep

(* The dialog stays as it is: another warehouse, another context, another   *)
(* set of calls awaited, or back to editing.                                *)
SameDialog ==
    /\ desk'.dialog = desk.dialog /\ desk'.s = desk.s /\ desk'.x = desk.x /\ desk'.dest = desk.dest
    /\ desk'.home = desk.home /\ desk'.told = desk.told

LEMMA SameDialogShape ==
    ASSUME PageInv, UNCHANGED <<parcel, transfer, pressed>>, SameDialog,
           desk'.step = desk.step \/ desk'.step = "edit"
           \/ (desk'.step = "reading" /\ desk.dialog = "createTransfer")
    PROVE  DialogShape' /\ ToldShape'
<1>1. DialogShape'
  BY DEF PageInv, DialogShape, SameDialog
<1>2. ToldShape'
  BY DEF PageInv, ToldShape, SameDialog, Truth, Addressed, Matches
<1> QED
  BY <1>1, <1>2

LEMMA DeskBecomes ==
    ASSUME PageInv, NEW at \in Sites \cup {None}, NEW step \in {"edit", "reading", "recheck"},
           NEW ctx \in Context, NEW wait \in SUBSET Requests, NEW loose \in SUBSET Requests,
           IsDesk(desk', at, desk.dialog, desk.s, desk.x, desk.dest, desk.home, step, ctx, wait,
                  loose, desk.told)
    PROVE  /\ desk' \in DeskRow /\ SameDialog
           /\ desk'.step = step
<1>1. PICK dialog, s, x, dest, home, told :
        /\ dialog = desk.dialog /\ s = desk.s /\ x = desk.x /\ dest = desk.dest
        /\ home = desk.home /\ told = desk.told
  OBVIOUS
<1>2. /\ dialog \in Kinds \cup {"none"} /\ s \in Parcels \cup {None}
      /\ x \in Transfers \cup {None} /\ dest \in Sites \cup {None} /\ home \in Sites \cup {None}
      /\ told \in CallRow \cup {None}
  BY <1>1, DeskFields DEF PageInv, DeskTypeOK
<1>3. IsDesk(desk', at, dialog, s, x, dest, home, step, ctx, wait, loose, told)
  BY <1>1
<1>4. desk' \in DeskRow
  BY <1>2, <1>3 DEF IsDesk, DeskRow
<1>5. SameDialog /\ desk'.step = step
  BY <1>1, <1>3 DEF IsDesk, SameDialog
<1> QED
  BY <1>4, <1>5

-----------------------------------------------------------------------------
(* A dialog that stays open *)

LEMMA MovedRow ==
    ASSUME NEW row \in DeskRow, NEW at, NEW d, d = [row EXCEPT !.at = at]
    PROVE  IsDesk(d, at, row.dialog, row.s, row.x, row.dest, row.home, row.step, row.ctx,
                  row.wait, row.loose, row.told)
BY DeskFields DEF IsDesk

LEMMA ReadRow ==
    ASSUME NEW row \in DeskRow, NEW step, NEW ctx, NEW d,
           d = [row EXCEPT !.step = step, !.ctx = ctx]
    PROVE  IsDesk(d, row.at, row.dialog, row.s, row.x, row.dest, row.home, step, ctx,
                  row.wait, row.loose, row.told)
<1>1. IsDesk(row, row.at, row.dialog, row.s, row.x, row.dest, row.home, row.step, row.ctx,
             row.wait, row.loose, row.told)
  BY DeskFields
<1> QED
  BY <1>1 DEF IsDesk

LEMMA StepRow ==
    ASSUME NEW row \in DeskRow, NEW step, NEW d, d = [row EXCEPT !.step = step]
    PROVE  IsDesk(d, row.at, row.dialog, row.s, row.x, row.dest, row.home, step, row.ctx,
                  row.wait, row.loose, row.told)
BY DeskFields DEF IsDesk

LEMMA WaitingRow ==
    ASSUME NEW row \in DeskRow, NEW wait, NEW d, d = [row EXCEPT !.wait = wait]
    PROVE  IsDesk(d, row.at, row.dialog, row.s, row.x, row.dest, row.home, row.step, row.ctx,
                  wait, row.loose, row.told)
BY DeskFields DEF IsDesk

LEMMA SentRow ==
    ASSUME NEW row \in DeskRow, NEW step, NEW wait, NEW d,
           d = [row EXCEPT !.step = step, !.wait = wait]
    PROVE  IsDesk(d, row.at, row.dialog, row.s, row.x, row.dest, row.home, step, row.ctx,
                  wait, row.loose, row.told)
<1>1. IsDesk(row, row.at, row.dialog, row.s, row.x, row.dest, row.home, row.step, row.ctx,
             row.wait, row.loose, row.told)
  BY DeskFields
<1> QED
  BY <1>1 DEF IsDesk

(* An answer crosses its call off.                                          *)
Heard(row, wait, loose) == [row EXCEPT !.wait = wait, !.loose = loose]
Told(row, wait, loose, told) == [row EXCEPT !.wait = wait, !.loose = loose, !.told = told]

LEMMA HeardRow ==
    ASSUME NEW at, NEW dialog, NEW s, NEW x, NEW dest, NEW home, NEW step, NEW ctx, NEW w, NEW l,
           NEW told, NEW row, IsDesk(row, at, dialog, s, x, dest, home, step, ctx, w, l, told),
           NEW wait, NEW loose
    PROVE  IsDesk(Heard(row, wait, loose),
                  at, dialog, s, x, dest, home, step, ctx, wait, loose, told)
<1>1. PICK d : d = [row EXCEPT !.wait = wait, !.loose = loose]
  OBVIOUS
<1>2. IsDesk(d, at, dialog, s, x, dest, home, step, ctx, wait, loose, told)
  BY <1>1 DEF IsDesk
<1> QED
  BY <1>1, <1>2 DEF Heard

LEMMA ToldRow ==
    ASSUME NEW at, NEW dialog, NEW s, NEW x, NEW dest, NEW home, NEW step, NEW ctx, NEW w, NEW l,
           NEW t, NEW row, IsDesk(row, at, dialog, s, x, dest, home, step, ctx, w, l, t),
           NEW wait, NEW loose, NEW told
    PROVE  IsDesk(Told(row, wait, loose, told),
                  at, dialog, s, x, dest, home, step, ctx, wait, loose, told)
<1>1. PICK d : d = [row EXCEPT !.wait = wait, !.loose = loose, !.told = told]
  OBVIOUS
<1>2. IsDesk(d, at, dialog, s, x, dest, home, step, ctx, wait, loose, told)
  BY <1>1 DEF IsDesk
<1> QED
  BY <1>1, <1>2 DEF Told

LEMMA PressedRow ==
    ASSUME NEW row \in DeskRow, NEW step, NEW dest, NEW ctx, NEW d,
           d = [row EXCEPT !.step = step, !.dest = dest, !.ctx = ctx]
    PROVE  IsDesk(d, row.at, row.dialog, row.s, row.x, dest, row.home, step, ctx,
                  row.wait, row.loose, row.told)
<1>1. IsDesk(row, row.at, row.dialog, row.s, row.x, row.dest, row.home, row.step, row.ctx,
             row.wait, row.loose, row.told)
  BY DeskFields
<1> QED
  BY <1>1 DEF IsDesk

(* The two reads of a context, each written into it.                        *)
LEMMA ContextRow ==
    ASSUME NEW row \in DeskRow, NEW ctx, NEW d, d = [row EXCEPT !.ctx = ctx]
    PROVE  IsDesk(d, row.at, row.dialog, row.s, row.x, row.dest, row.home, row.step, ctx,
                  row.wait, row.loose, row.told)
BY DeskFields DEF IsDesk

LEMMA ShipmentRead ==
    ASSUME NEW c \in Context, NEW got, NEW seen, NEW d, d = [c EXCEPT !.got = got, !.shipment = seen]
    PROVE  d = [got |-> got, shipment |-> seen, live |-> c.live]
<1>1. c = [got |-> c.got, shipment |-> c.shipment, live |-> c.live]
  BY DEF Context
<1> QED
  BY <1>1

LEMMA TransfersRead ==
    ASSUME NEW c \in Context, NEW got, NEW live, NEW d, d = [c EXCEPT !.got = got, !.live = live]
    PROVE  d = [got |-> got, shipment |-> c.shipment, live |-> live]
<1>1. c = [got |-> c.got, shipment |-> c.shipment, live |-> c.live]
  BY DEF Context
<1> QED
  BY <1>1

LEMMA ShipmentRow ==
    ASSUME NEW row \in DeskRow, NEW got, NEW seen, NEW d,
           d = [row EXCEPT !.ctx.got = got, !.ctx.shipment = seen]
    PROVE  IsDesk(d, row.at, row.dialog, row.s, row.x, row.dest, row.home, row.step,
                  [got |-> got, shipment |-> seen, live |-> row.ctx.live], row.wait, row.loose, row.told)
<1>1. PICK c, read : c = row.ctx /\ read = [c EXCEPT !.got = got, !.shipment = seen]
  OBVIOUS
<1>2. read = [got |-> got, shipment |-> seen, live |-> c.live]
  <2>1. c \in Context
    BY <1>1 DEF DeskRow
  <2> QED
    BY <1>1, <2>1, ShipmentRead
<1>3. d = [row EXCEPT !.ctx = read]
  BY <1>1 DEF DeskRow
<1> QED
  BY <1>1, <1>2, <1>3, ContextRow

LEMMA TransfersRow ==
    ASSUME NEW row \in DeskRow, NEW got, NEW live, NEW d,
           d = [row EXCEPT !.ctx.got = got, !.ctx.live = live]
    PROVE  IsDesk(d, row.at, row.dialog, row.s, row.x, row.dest, row.home, row.step,
                  [got |-> got, shipment |-> row.ctx.shipment, live |-> live], row.wait, row.loose, row.told)
<1>1. PICK c, read : c = row.ctx /\ read = [c EXCEPT !.got = got, !.live = live]
  OBVIOUS
<1>2. read = [got |-> got, shipment |-> c.shipment, live |-> live]
  <2>1. c \in Context
    BY <1>1 DEF DeskRow
  <2> QED
    BY <1>1, <2>1, TransfersRead
<1>3. d = [row EXCEPT !.ctx = read]
  BY <1>1 DEF DeskRow
<1> QED
  BY <1>1, <1>2, <1>3, ContextRow

(* ChangeWarehouse, the reads of the context, and their failure.            *)
LEMMA ChangeStep ==
    ASSUME Assumptions, IInv, PageInv, UNCHANGED clerk, NEW w \in Sites \cup {None},
           ChangeWarehouse(w)
    PROVE  PageInv'
<1>1. UNCHANGED <<vars, call, pressed>> /\ UNCHANGED <<parcel, transfer, pressed>>
  BY DEF ChangeWarehouse, vars
<1>2. desk \in DeskRow /\ desk' = [desk EXCEPT !.at = w]
  BY DEF ChangeWarehouse, PageInv, DeskTypeOK
<1>3. IsDesk(desk', w, desk.dialog, desk.s, desk.x, desk.dest, desk.home, desk.step, desk.ctx,
             desk.wait, desk.loose, desk.told)
  BY <1>2, MovedRow
<1>4. /\ desk.step \in {"edit", "reading", "recheck"} /\ desk.ctx \in Context
      /\ desk.wait \in SUBSET Requests /\ desk.loose \in SUBSET Requests
  BY <1>2, DeskFields
<1>5. desk' \in DeskRow /\ SameDialog /\ desk'.step = desk.step
  BY <1>3, <1>4, DeskBecomes
<1> QED
  BY <1>1, <1>5, SameDialogShape, PageStep

(* A step of the transfer dialog that changes the step and the context.     *)
LEMMA ContextStep ==
    ASSUME Assumptions, IInv, PageInv, UNCHANGED <<clerk, vars, call, pressed>>,
           NEW step \in {"edit", "reading", "recheck"}, step \in {desk.step, "edit"},
           NEW ctx \in Context,
           IsDesk(desk', desk.at, desk.dialog, desk.s, desk.x, desk.dest, desk.home, step, ctx,
                  desk.wait, desk.loose, desk.told)
    PROVE  PageInv'
<1>1. UNCHANGED <<parcel, transfer, pressed>>
  BY DEF vars
<1>2. /\ desk.at \in Sites \cup {None} /\ desk.wait \in SUBSET Requests
      /\ desk.loose \in SUBSET Requests
  BY DeskFields DEF PageInv, DeskTypeOK
<1>3. desk' \in DeskRow /\ SameDialog /\ desk'.step = step
  BY <1>2, DeskBecomes
<1> QED
  BY <1>1, <1>3, SameDialogShape, PageStep

LEMMA ReadShipmentStep ==
    ASSUME Assumptions, IInv, PageInv, UNCHANGED clerk, ReadShipment
    PROVE  PageInv'
<1>1. UNCHANGED <<clerk, vars, call, pressed>> /\ desk \in DeskRow
  BY DEF ReadShipment, PageInv, DeskTypeOK
<1>2. desk.ctx \in Context /\ desk.step \in {"edit", "reading", "recheck"} /\ desk.s \in Parcels
  BY <1>1, DeskFields DEF ReadShipment, PageInv, DialogShape
<1>3. PICK open : open = (parcel[desk.s].dest # None /\ Open(parcel[desk.s].dest))
  OBVIOUS
<1>4. PICK seen : seen = IF desk.s \notin Inventory(desk.home) THEN None
                         ELSE [stage |-> parcel[desk.s].stage, dest |-> parcel[desk.s].dest,
                               open |-> open]
  OBVIOUS
<1>5. seen \in Seen \cup {None}
  <2>1. PICK row : row = parcel[desk.s]
    OBVIOUS
  <2>2. row.stage \in Stage /\ row.dest \in Sites \cup {None} /\ open \in BOOLEAN
    BY <1>2, <1>3, <2>1 DEF IInv, TypeOK, ParcelRow
  <2> QED
    BY <1>4, <2>1, <2>2 DEF Seen
<1>6. PICK got : got = desk.ctx.got \cup {"shipment"}
  OBVIOUS
<1>7. desk' = [desk EXCEPT !.ctx.got = got, !.ctx.shipment = seen]
  BY <1>3, <1>4, <1>6 DEF ReadShipment
<1>8. PICK ctx : ctx = [got |-> got, shipment |-> seen, live |-> desk.ctx.live]
  OBVIOUS
<1>9. ctx \in Context
  BY <1>2, <1>5, <1>6, <1>8 DEF Context
<1>10. IsDesk(desk', desk.at, desk.dialog, desk.s, desk.x, desk.dest, desk.home, desk.step, ctx,
              desk.wait, desk.loose, desk.told)
  BY <1>1, <1>7, <1>8, ShipmentRow
<1> QED
  BY <1>1, <1>2, <1>9, <1>10, ContextStep

LEMMA ReadTransfersStep ==
    ASSUME Assumptions, IInv, PageInv, UNCHANGED clerk, ReadTransfers
    PROVE  PageInv'
<1>1. UNCHANGED <<clerk, vars, call, pressed>> /\ desk \in DeskRow
  BY DEF ReadTransfers, PageInv, DeskTypeOK
<1>2. desk.ctx \in Context /\ desk.step \in {"edit", "reading", "recheck"}
  BY <1>1, DeskFields
<1>3. PICK live \in BOOLEAN :
        live = \E x \in LiveTransfers(desk.s) : transfer[x].from = desk.home
  OBVIOUS
<1>4. PICK got : got = desk.ctx.got \cup {"transfers"}
  OBVIOUS
<1>5. desk' = [desk EXCEPT !.ctx.got = got, !.ctx.live = live]
  BY <1>3, <1>4 DEF ReadTransfers
<1>6. PICK ctx : ctx = [got |-> got, shipment |-> desk.ctx.shipment, live |-> live]
  OBVIOUS
<1>7. ctx \in Context
  BY <1>2, <1>3, <1>4, <1>6 DEF Context
<1>8. IsDesk(desk', desk.at, desk.dialog, desk.s, desk.x, desk.dest, desk.home, desk.step, ctx,
             desk.wait, desk.loose, desk.told)
  BY <1>1, <1>5, <1>6, TransfersRow
<1> QED
  BY <1>1, <1>2, <1>7, <1>8, ContextStep

LEMMA ContextShownStep ==
    ASSUME Assumptions, IInv, PageInv, UNCHANGED clerk, ContextShown
    PROVE  PageInv'
<1>1. /\ UNCHANGED <<clerk, vars, call, pressed>> /\ desk \in DeskRow
      /\ desk' = [desk EXCEPT !.step = "edit"]
  BY DEF ContextShown, PageInv, DeskTypeOK
<1>2. desk.ctx \in Context
  BY <1>1, DeskFields
<1>3. IsDesk(desk', desk.at, desk.dialog, desk.s, desk.x, desk.dest, desk.home, "edit", desk.ctx,
             desk.wait, desk.loose, desk.told)
  BY <1>1, StepRow
<1> QED
  BY <1>1, <1>2, <1>3, ContextStep

LEMMA ContextFailsStep ==
    ASSUME Assumptions, IInv, PageInv, UNCHANGED clerk, ContextFails
    PROVE  PageInv'
<1>1. /\ UNCHANGED <<clerk, vars, call, pressed>> /\ desk \in DeskRow
      /\ desk' = [desk EXCEPT !.step = "edit", !.ctx = NoContext]
  BY DEF ContextFails, PageInv, DeskTypeOK
<1>2. IsDesk(desk', desk.at, desk.dialog, desk.s, desk.x, desk.dest, desk.home, "edit", NoContext,
             desk.wait, desk.loose, desk.told)
  BY <1>1, ReadRow
<1> QED
  BY <1>1, <1>2, NoContextIsContext, ContextStep

-----------------------------------------------------------------------------
(* Confirming *)

(* What the clerk sees is what is confirmed from now on.                    *)
LEMMA PressTransferStep ==
    ASSUME Assumptions, IInv, PageInv, UNCHANGED clerk, PressTransfer
    PROVE  PageInv'
<1>1. /\ UNCHANGED <<vars, clerk, call>> /\ UNCHANGED <<parcel, transfer, req>>
      /\ desk \in DeskRow /\ desk.dialog = "createTransfer" /\ ~Blocked(desk.at)
  BY DEF PressTransfer, PageInv, DeskTypeOK, vars
<1>2. PICK dest : dest = desk.ctx.shipment.dest
  OBVIOUS
<1>3. dest \in Sites
  <2>1. PICK seen : seen = desk.ctx.shipment
    OBVIOUS
  <2>2. desk.ctx \in Context
    BY <1>1, DeskFields
  <2>3. seen \in Seen \cup {None} /\ seen # None /\ seen.dest # None
    BY <1>1, <2>1, <2>2 DEF Context, Blocked
  <2> QED
    BY <1>2, <2>1, <2>3 DEF Seen
<1>4. PICK x : x = desk.x
  OBVIOUS
<1>5. x \in Transfers /\ DialogShape /\ ToldShape /\ pressed \in [Transfers -> SUBSET Sites]
  BY <1>1, <1>4 DEF PageInv, DialogShape, DeskTypeOK
<1>6. /\ pressed' = [pressed EXCEPT ![x] = @ \cup {dest}]
      /\ desk' = [desk EXCEPT !.step = "recheck", !.dest = dest, !.ctx = NoContext]
  BY <1>2, <1>4 DEF PressTransfer
<1>7. /\ pressed' \in [Transfers -> SUBSET Sites] /\ dest \in pressed'[x]
      /\ \A y \in Transfers : pressed[y] \subseteq pressed'[y]
      /\ \A y \in Transfers \ {x} : pressed'[y] = pressed[y]
  BY <1>3, <1>5, <1>6
<1>8. IsDesk(desk', desk.at, desk.dialog, desk.s, desk.x, dest, desk.home, "recheck", NoContext,
             desk.wait, desk.loose, desk.told)
  BY <1>1, <1>6, PressedRow
<1>9. desk' \in DeskRow
  <2>1. PICK at, dialog, s, home, wait, loose, told :
          /\ at = desk.at /\ dialog = desk.dialog /\ s = desk.s
          /\ home = desk.home /\ wait = desk.wait /\ loose = desk.loose /\ told = desk.told
    OBVIOUS
  <2>2. /\ at \in Sites \cup {None} /\ dialog \in Kinds \cup {"none"}
        /\ s \in Parcels \cup {None} /\ home \in Sites \cup {None}
        /\ wait \in SUBSET Requests /\ loose \in SUBSET Requests /\ told \in CallRow \cup {None}
    BY <1>1, <2>1, DeskFields
  <2>3. IsDesk(desk', at, dialog, s, x, dest, home, "recheck", NoContext, wait, loose, told)
    BY <1>4, <1>8, <2>1
  <2> QED
    BY <1>3, <1>5, <2>2, <2>3, NoContextIsContext DEF IsDesk, DeskRow
<1>10. /\ desk'.dialog = desk.dialog /\ desk'.s = desk.s /\ desk'.x = x /\ desk'.dest = dest
       /\ desk'.home = desk.home /\ desk'.told = desk.told /\ desk'.step = "recheck"
  BY <1>4, <1>8 DEF IsDesk
<1>11. DialogShape'
  BY <1>1, <1>4, <1>5, <1>7, <1>10 DEF DialogShape
<1>12. NothingTakenBack /\ TransferKept
  BY <1>1, SameTakenBack DEF TransferKept
<1>13. ToldShape'
  BY <1>5, <1>10, <1>12, ToldKept
<1>14. \A r \in Requests : CallShape(r)'
  BY <1>1, <1>7, <1>12, CallKept DEF PageInv
<1>15. TransferAsReviewed'
  <2>1. ASSUME NEW y \in Transfers, pressed'[y] # {}, transfer'[y].status # "NONE"
        PROVE  transfer'[y].to \in pressed'[y]
    <3>1. pressed[y] # {}
      BY <1>1, <1>4, <1>5, <1>7, <2>1 DEF DialogShape
    <3> QED
      BY <1>1, <1>7, <2>1, <3>1 DEF PageInv, TransferAsReviewed
  <2> QED
    BY <2>1 DEF TransferAsReviewed
<1>16. DeskTypeOK'
  BY <1>1, <1>7, <1>9 DEF PageInv, DeskTypeOK, CallRow
<1> QED
  BY <1>11, <1>13, <1>14, <1>15, <1>16 DEF PageInv

(* A call, field by field.                                                  *)
IsCall(row, phase, cmd, at, s, to, x, weight, fresh) ==
    row = [phase |-> phase, cmd |-> cmd, at |-> at, s |-> s, to |-> to, x |-> x, weight |-> weight,
           fresh |-> fresh]

(* A call changes hands: it is sent, or its answer is taken; the network    *)
(* and the keys stay.                                                       *)
LEMMA CallStep ==
    ASSUME Assumptions, IInv, PageInv, UNCHANGED <<vars, clerk, pressed>>, NEW r \in Requests,
           NEW row \in CallRow \cup {NoCall}, call' = [call EXCEPT ![r] = row],
           row # NoCall => /\ Addressed(row) /\ row.phase = "sent"
                           /\ row.cmd = "createTransfer" => row.to \in pressed[row.x],
           desk' \in DeskRow, DialogShape', ToldShape'
    PROVE  PageInv'
<1>1. UNCHANGED <<parcel, transfer, req>> /\ call \in [Requests -> CallRow \cup {NoCall}]
  BY DEF vars, PageInv, DeskTypeOK
<1>2. /\ call' \in [Requests -> CallRow \cup {NoCall}] /\ call'[r] = row
      /\ \A q \in Requests \ {r} : call'[q] = call[q]
  BY <1>1
<1>3. NothingTakenBack /\ TransferKept
  BY <1>1, SameTakenBack DEF TransferKept
<1>4. \A q \in Requests \ {r} : CallShape(q)'
  BY <1>1, <1>2, <1>3, CallKept DEF PageInv
<1>5. CallShape(r)'
  <2>1. row # NoCall => Addressed(row)' /\ row.phase = "sent"
    BY DEF Addressed
  <2> QED
    BY <1>2, <2>1 DEF CallShape
<1>6. TransferAsReviewed' /\ DeskTypeOK'
  BY <1>1, <1>2 DEF PageInv, TransferAsReviewed, DeskTypeOK
<1> QED
  BY <1>4, <1>5, <1>6 DEF PageInv

(* The page sends a call and awaits its answer.                             *)
LEMMA SendStep ==
    ASSUME Assumptions, IInv, PageInv, UNCHANGED <<vars, clerk, pressed>>, NEW r \in Requests,
           NEW row, Send(r, row), NEW cmd \in Kinds, NEW at \in Sites, NEW s \in Parcels,
           NEW to \in Sites \cup {None}, NEW x \in Transfers \cup {None},
           NEW weight \in Weights \cup {None}, IsCall(row, "sent", cmd, at, s, to, x, weight, FALSE),
           cmd \in {"routeDestination", "createTransfer"} => to \in Sites,
           cmd \in {"createTransfer", "dispatchTransfer", "receiveTransfer"} => x \in Transfers,
           cmd = "checkIn" => weight \in Weights,
           cmd = "createTransfer" => to \in pressed[x],
           NEW step \in {"edit", desk.step},
           IsDesk(desk', desk.at, desk.dialog, desk.s, desk.x, desk.dest, desk.home, step, desk.ctx,
                  desk.wait \cup {r}, desk.loose, desk.told)
    PROVE  PageInv'
<1>1. UNCHANGED <<parcel, transfer, pressed>> /\ desk \in DeskRow
  BY DEF vars, PageInv, DeskTypeOK
<1>2. /\ row \in CallRow /\ row.phase = "sent" /\ row.cmd = cmd /\ row.at = at /\ row.s = s
      /\ row.to = to /\ row.x = x /\ row.weight = weight
  BY DEF IsCall, CallRow
<1>3. Addressed(row) /\ (row.cmd = "createTransfer" => row.to \in pressed[row.x])
  BY <1>2 DEF Addressed
<1>4. /\ step \in {"edit", "reading", "recheck"} /\ desk.ctx \in Context
      /\ desk.at \in Sites \cup {None}
      /\ desk.wait \cup {r} \in SUBSET Requests /\ desk.loose \in SUBSET Requests
  BY <1>1, DeskFields
<1>5. desk' \in DeskRow /\ SameDialog /\ desk'.step = step
  BY <1>4, DeskBecomes
<1>6. DialogShape' /\ ToldShape'
  BY <1>1, <1>5, SameDialogShape
<1>7. call' = [call EXCEPT ![r] = row]
  BY DEF Send
<1> QED
  BY <1>2, <1>3, <1>5, <1>6, <1>7, CallStep

(* The dialogs that send at once.                                           *)
LEMMA ConfirmedStep ==
    ASSUME Assumptions, IInv, PageInv, UNCHANGED clerk, NEW r \in Requests,
           NEW cmd \in {"checkIn", "routeDestination", "dispatchTransfer", "receiveTransfer"},
           NEW weight \in Weights \cup {None}, cmd = "checkIn" => weight \in Weights,
           Confirm(r, cmd, weight)
    PROVE  PageInv'
<1>1. UNCHANGED <<vars, clerk, pressed>> /\ desk \in DeskRow
  BY DEF Confirm, PageInv, DeskTypeOK
<1>2. PICK at, s, to, x : at = desk.at /\ s = desk.s /\ to = desk.dest /\ x = desk.x
  OBVIOUS
<1>3. /\ at \in Sites /\ s \in Parcels /\ to \in Sites \cup {None} /\ x \in Transfers \cup {None}
      /\ cmd = "routeDestination" => to \in Sites
      /\ cmd \in {"dispatchTransfer", "receiveTransfer"} => x \in Transfers
  <2>1. /\ desk.dialog = cmd /\ desk.at # None /\ DialogShape /\ cmd # "none"
        /\ desk.at \in Sites \cup {None} /\ desk.dest \in Sites \cup {None}
        /\ desk.x \in Transfers \cup {None}
    BY <1>1, DeskFields DEF Confirm, PageInv
  <2> QED
    BY <1>2, <2>1 DEF DialogShape
<1>4. PICK row : row = [Order(cmd, at, s) EXCEPT !.to = to, !.x = x, !.weight = weight]
  OBVIOUS
<1>5. IsCall(row, "sent", cmd, at, s, to, x, weight, FALSE)
  BY <1>4 DEF Order, IsCall
<1>6. Send(r, row) /\ desk' = [desk EXCEPT !.wait = desk.wait \cup {r}]
  BY <1>2, <1>4 DEF Confirm
<1>7. IsDesk(desk', desk.at, desk.dialog, desk.s, desk.x, desk.dest, desk.home, desk.step,
             desk.ctx, desk.wait \cup {r}, desk.loose, desk.told)
  BY <1>1, <1>6, WaitingRow
<1>8. cmd \in Kinds /\ cmd # "createTransfer"
  BY DEF Kinds
<1> QED
  BY <1>1, <1>3, <1>5, <1>6, <1>7, <1>8, SendStep

LEMMA PressReadyStep ==
    ASSUME Assumptions, IInv, PageInv, UNCHANGED clerk, NEW r \in Requests, NEW s \in Parcels,
           PressReady(r, s)
    PROVE  PageInv'
<1>1. UNCHANGED <<vars, clerk, pressed>> /\ desk \in DeskRow
  BY DEF PressReady, PageInv, DeskTypeOK
<1>2. PICK at : at = desk.at
  OBVIOUS
<1>3. at \in Sites
  BY <1>1, <1>2, DeskFields DEF PressReady
<1>4. PICK row : row = Order("markReadyForDelivery", at, s)
  OBVIOUS
<1>5. IsCall(row, "sent", "markReadyForDelivery", at, s, None, None, None, FALSE)
  BY <1>4 DEF Order, IsCall
<1>6. Send(r, row) /\ desk' = [desk EXCEPT !.wait = desk.wait \cup {r}]
  BY <1>2, <1>4 DEF PressReady
<1>7. IsDesk(desk', desk.at, desk.dialog, desk.s, desk.x, desk.dest, desk.home, desk.step,
             desk.ctx, desk.wait \cup {r}, desk.loose, desk.told)
  BY <1>1, <1>6, WaitingRow
<1>8. "markReadyForDelivery" \in Kinds
  BY DEF Kinds
<1> QED
  BY <1>1, <1>3, <1>5, <1>6, <1>7, <1>8, SendStep

(* The transfer that was looked up again and found as it was confirmed.     *)
LEMMA RecheckedStep ==
    ASSUME Assumptions, IInv, PageInv, UNCHANGED clerk, NEW r \in Requests, Rechecked(r)
    PROVE  PageInv'
<1>1. /\ UNCHANGED <<vars, clerk, pressed>> /\ desk \in DeskRow /\ desk.step = "recheck"
      /\ DialogShape
  BY DEF Rechecked, PageInv, DeskTypeOK
<1>2. CASE desk' = [desk EXCEPT !.step = "edit"] /\ UNCHANGED call
  <2>1. desk.ctx \in Context
    BY <1>1, DeskFields
  <2>2. IsDesk(desk', desk.at, desk.dialog, desk.s, desk.x, desk.dest, desk.home, "edit", desk.ctx,
               desk.wait, desk.loose, desk.told)
    BY <1>1, <1>2, StepRow
  <2> QED
    BY <1>1, <1>2, <2>1, <2>2, ContextStep
<1>3. CASE /\ Send(r, [Order("createTransfer", desk.home, desk.s) EXCEPT
                         !.to = desk.dest, !.x = desk.x])
           /\ desk' = [desk EXCEPT !.step = "edit", !.wait = desk.wait \cup {r}]
  <2>1. PICK at, s, to, x : at = desk.home /\ s = desk.s /\ to = desk.dest /\ x = desk.x
    OBVIOUS
  <2>2. /\ at \in Sites /\ s \in Parcels /\ x \in Transfers /\ to \in pressed[x]
        /\ pressed \in [Transfers -> SUBSET Sites]
    BY <1>1, <2>1 DEF DialogShape, PageInv, DeskTypeOK
  <2>3. PICK row : row = [Order("createTransfer", at, s) EXCEPT !.to = to, !.x = x]
    OBVIOUS
  <2>4. IsCall(row, "sent", "createTransfer", at, s, to, x, None, FALSE)
    BY <2>3 DEF Order, IsCall
  <2>5. Send(r, row)
    BY <1>3, <2>1, <2>3
  <2>6. IsDesk(desk', desk.at, desk.dialog, desk.s, desk.x, desk.dest, desk.home, "edit", desk.ctx,
               desk.wait \cup {r}, desk.loose, desk.told)
    BY <1>1, <1>3, SentRow
  <2>7. "createTransfer" \in Kinds /\ to \in Sites
    BY <2>2 DEF Kinds
  <2> QED
    BY <1>1, <2>2, <2>4, <2>5, <2>6, <2>7, SendStep
<1> QED
  BY <1>2, <1>3 DEF Rechecked

-----------------------------------------------------------------------------
(* Answers *)

(* The dialog stays, with another step or context, when an answer comes.    *)
LEMMA AnsweredStep ==
    ASSUME Assumptions, IInv, PageInv, UNCHANGED <<vars, clerk, pressed>>, NEW r \in Requests,
           call' = [call EXCEPT ![r] = NoCall] \/ UNCHANGED call,
           NEW step \in {"edit", "reading", "recheck"}, NEW ctx \in Context,
           step = desk.step \/ (step = "reading" /\ desk.dialog = "createTransfer"),
           NEW wait \in SUBSET Requests, NEW loose \in SUBSET Requests,
           NEW told \in CallRow \cup {None}, told # None => Addressed(told) /\ Truth(told),
           IsDesk(desk', desk.at, desk.dialog, desk.s, desk.x, desk.dest, desk.home, step, ctx,
                  wait, loose, told)
    PROVE  PageInv'
<1>1. UNCHANGED <<parcel, transfer, pressed>> /\ desk \in DeskRow /\ DialogShape
  BY DEF vars, PageInv, DeskTypeOK
<1>2. PICK at, dialog, s, x, dest, home :
        /\ at = desk.at /\ dialog = desk.dialog /\ s = desk.s /\ x = desk.x
        /\ dest = desk.dest /\ home = desk.home
  OBVIOUS
<1>3. /\ at \in Sites \cup {None} /\ dialog \in Kinds \cup {"none"} /\ s \in Parcels \cup {None}
      /\ x \in Transfers \cup {None} /\ dest \in Sites \cup {None} /\ home \in Sites \cup {None}
  BY <1>1, <1>2, DeskFields
<1>4. IsDesk(desk', at, dialog, s, x, dest, home, step, ctx, wait, loose, told)
  BY <1>2
<1>5. desk' \in DeskRow
  BY <1>3, <1>4 DEF IsDesk, DeskRow
<1>6. /\ desk'.dialog = desk.dialog /\ desk'.s = desk.s /\ desk'.x = desk.x
      /\ desk'.dest = desk.dest /\ desk'.home = desk.home /\ desk'.step = step
      /\ desk'.told = told
  BY <1>2, <1>4 DEF IsDesk
<1>7. DialogShape'
  BY <1>1, <1>6 DEF DialogShape
<1>8. ToldShape'
  BY <1>1, <1>6 DEF ToldShape, Truth, Addressed, Matches
<1> QED
  BY <1>5, <1>7, <1>8, CallStep, PageStep

LEMMA SuccessStep ==
    ASSUME Assumptions, IInv, PageInv, UNCHANGED clerk, NEW r \in Requests, OnSuccess(r)
    PROVE  PageInv'
<1>1. /\ UNCHANGED <<vars, clerk, pressed>> /\ UNCHANGED <<parcel, transfer>> /\ desk \in DeskRow
      /\ call' = [call EXCEPT ![r] = NoCall]
  BY DEF OnSuccess, PageInv, DeskTypeOK, vars
<1>2. PICK at, wait, loose, told, row :
        /\ at = desk.at /\ wait = desk.wait \ {r} /\ loose = desk.loose \ {r} /\ told = call[r]
        /\ row = AfterSuccess(told.cmd)
  OBVIOUS
<1>3. /\ at \in Sites \cup {None} /\ wait \in SUBSET Requests /\ loose \in SUBSET Requests
      /\ told \in CallRow /\ Addressed(told) /\ Truth(told)
  BY <1>1, <1>2, DeskFields, NoCallIsNone DEF OnSuccess, PageInv, CallShape, Addressed
<1>4. desk' = Told(row, wait, loose, told)
  BY <1>2 DEF OnSuccess, Told
<1>5. CASE row = Blank(at)
  <2>1. IsDesk(row, at, "none", None, None, None, None, "edit", NoContext, {}, {}, None)
    BY <1>5, BlankFields
  <2>2. IsDesk(desk', at, "none", None, None, None, None, "edit", NoContext, wait, loose, told)
    BY <1>4, <2>1, ToldRow
  <2>3. desk' \in DeskRow
    BY <1>3, <2>2, NoContextIsContext DEF IsDesk, DeskRow
  <2>4. desk'.dialog = "none" /\ desk'.step = "edit" /\ desk'.told = told
    BY <2>2 DEF IsDesk
  <2>5. DialogShape'
    BY <2>4 DEF DialogShape
  <2>6. ToldShape'
    BY <1>1, <1>3, <2>4 DEF ToldShape, Truth, Addressed, Matches
  <2> QED
    BY <1>1, <2>3, <2>5, <2>6, CallStep
<1>6. CASE /\ desk.dialog = "createTransfer"
           /\ row = [desk EXCEPT !.ctx = NoContext,
                       !.step = IF desk.step = "edit" THEN "reading" ELSE desk.step]
  <2>1. PICK step : step = IF desk.step = "edit" THEN "reading" ELSE desk.step
    OBVIOUS
  <2>2. step \in {"edit", "reading", "recheck"} /\ (step = "reading" \/ step = desk.step)
    BY <1>1, <2>1, DeskFields
  <2>3. row = [desk EXCEPT !.step = step, !.ctx = NoContext]
    BY <1>6, <2>1
  <2>4. IsDesk(row, desk.at, desk.dialog, desk.s, desk.x, desk.dest, desk.home, step, NoContext,
               desk.wait, desk.loose, desk.told)
    BY <1>1, <2>3, ReadRow
  <2>5. IsDesk(desk', desk.at, desk.dialog, desk.s, desk.x, desk.dest, desk.home, step, NoContext,
               wait, loose, told)
    BY <1>4, <2>4, ToldRow
  <2> QED
    BY <1>1, <1>3, <1>6, <2>2, <2>5, NoContextIsContext, AnsweredStep
<1>7. CASE row = desk
  <2>1. IsDesk(desk', desk.at, desk.dialog, desk.s, desk.x, desk.dest, desk.home, desk.step,
               desk.ctx, wait, loose, told)
    BY <1>1, <1>4, <1>7, DeskFields, ToldRow
  <2>2. desk.step \in {"edit", "reading", "recheck"} /\ desk.ctx \in Context
    BY <1>1, DeskFields
  <2> QED
    BY <1>1, <1>3, <2>1, <2>2, AnsweredStep
<1> QED
  BY <1>2, <1>5, <1>6, <1>7 DEF AfterSuccess

LEMMA FailedStep ==
    ASSUME Assumptions, IInv, PageInv, UNCHANGED <<vars, clerk, pressed>>, NEW r \in Requests,
           call' = [call EXCEPT ![r] = NoCall] \/ UNCHANGED call, Failed(r)
    PROVE  PageInv'
<1>1. desk \in DeskRow /\ ToldShape
  BY DEF PageInv, DeskTypeOK
<1>2. PICK wait, loose, row : /\ wait = desk.wait \ {r} /\ loose = desk.loose \ {r}
                              /\ row = AfterError(call[r].cmd)
  OBVIOUS
<1>3. /\ wait \in SUBSET Requests /\ loose \in SUBSET Requests /\ desk.told \in CallRow \cup {None}
      /\ desk.told # None => Addressed(desk.told) /\ Truth(desk.told)
  BY <1>1, <1>2, DeskFields DEF ToldShape
<1>4. desk' = Heard(row, wait, loose)
  BY <1>2 DEF Failed, Heard
<1>5. CASE /\ desk.dialog = "createTransfer"
           /\ row = [desk EXCEPT !.ctx = NoContext, !.step = "reading"]
  <2>1. IsDesk(row, desk.at, desk.dialog, desk.s, desk.x, desk.dest, desk.home, "reading",
               NoContext, desk.wait, desk.loose, desk.told)
    <3>1. row = [desk EXCEPT !.step = "reading", !.ctx = NoContext]
      BY <1>5
    <3> QED
      BY <1>1, <3>1, ReadRow
  <2>2. IsDesk(desk', desk.at, desk.dialog, desk.s, desk.x, desk.dest, desk.home, "reading",
               NoContext, wait, loose, desk.told)
    BY <1>4, <2>1, HeardRow
  <2> QED
    BY <1>3, <1>5, <2>2, NoContextIsContext, AnsweredStep
<1>6. CASE row = desk
  <2>1. IsDesk(desk', desk.at, desk.dialog, desk.s, desk.x, desk.dest, desk.home, desk.step,
               desk.ctx, wait, loose, desk.told)
    BY <1>1, <1>4, <1>6, DeskFields, HeardRow
  <2>2. desk.step \in {"edit", "reading", "recheck"} /\ desk.ctx \in Context
    BY <1>1, DeskFields
  <2> QED
    BY <1>3, <2>1, <2>2, AnsweredStep
<1> QED
  BY <1>2, <1>5, <1>6 DEF AfterError

LEMMA ErrorStep ==
    ASSUME Assumptions, IInv, PageInv, UNCHANGED clerk, NEW r \in Requests,
           OnError(r) \/ Disconnected(r)
    PROVE  PageInv'
<1>1. UNCHANGED <<vars, clerk, pressed>> /\ Failed(r)
      /\ (call' = [call EXCEPT ![r] = NoCall] \/ UNCHANGED call)
  BY DEF Disconnected, OnError
<1> QED
  BY <1>1, FailedStep

LEMMA UnheardStep ==
    ASSUME Assumptions, IInv, PageInv, UNCHANGED clerk, NEW r \in Requests, Unheard(r)
    PROVE  PageInv'
<1>1. /\ UNCHANGED <<vars, clerk, pressed>> /\ UNCHANGED <<parcel, transfer, pressed, desk>>
      /\ call' = [call EXCEPT ![r] = NoCall]
  BY DEF Unheard, vars
<1>2. desk' \in DeskRow /\ DialogShape' /\ ToldShape'
  BY <1>1 DEF PageInv, DeskTypeOK, DialogShape, ToldShape, Truth, Addressed, Matches
<1> QED
  BY <1>1, <1>2, CallStep

-----------------------------------------------------------------------------
(* The page over the network *)

LEMMA PageInitInv ==
    ASSUME DeskInit
    PROVE  PageInv
<1>1. DeskTypeOK
  <2>1. Blank(None) \in DeskRow
    <3>1. PICK row : row = Blank(None)
      OBVIOUS
    <3>2. IsDesk(row, None, "none", None, None, None, None, "edit", NoContext, {}, {}, None)
      BY <3>1, BlankFields
    <3>3. row \in DeskRow
      BY <3>2, NoContextIsContext DEF IsDesk, DeskRow
    <3> QED
      BY <3>1, <3>3
  <2> QED
    BY <2>1 DEF DeskInit, DeskTypeOK
<1>2. \A r \in Requests : CallShape(r)
  BY DEF DeskInit, CallShape
<1>3. DialogShape /\ ToldShape
  <2>1. desk.dialog = "none" /\ desk.step = "edit" /\ desk.told = None
    BY DEF DeskInit, Blank
  <2> QED
    BY <2>1 DEF DialogShape, ToldShape
<1>4. TransferAsReviewed
  BY DEF DeskInit, TransferAsReviewed
<1> QED
  BY <1>1, <1>2, <1>3, <1>4 DEF PageInv

(* Every step of the page is a step of the network or leaves it alone.      *)
LEMMA PageNext ==
    ASSUME Assumptions, IInv, PageInv, DeskNext
    PROVE  [Next]_vars /\ PageInv'
<1>1. CASE DialogStep
  <2>1. PageInv'
    BY <1>1, OpenStep, CloseStep, ChangeStep DEF DialogStep, DeskNext
  <2>2. UNCHANGED vars
    BY <1>1 DEF DialogStep, OpenCheckIn, OpenSorting, OpenTransfer, OpenDispatch, OpenReceive,
                Show, ChangeWarehouse, Close
  <2> QED
    BY <2>1, <2>2
<1>2. CASE ConfirmStep
  <2>1. PageInv'
    <3>1. CASE \E r \in Requests, weight \in Weights : ConfirmCheckIn(r, weight)
      BY <3>1, ConfirmedStep DEF ConfirmCheckIn, DeskNext
    <3>2. CASE \E r \in Requests : ConfirmSorting(r) \/ ConfirmDispatch(r) \/ ConfirmReceive(r)
      BY <3>2, ConfirmedStep DEF ConfirmSorting, ConfirmDispatch, ConfirmReceive, DeskNext
    <3>3. CASE \E r \in Requests : Rechecked(r) \/ \E s \in Parcels : PressReady(r, s)
      BY <3>3, PressReadyStep, RecheckedStep DEF DeskNext
    <3>4. CASE ReadShipment \/ ReadTransfers \/ ContextShown \/ PressTransfer \/ ContextFails
      BY <3>4, ReadShipmentStep, ReadTransfersStep, ContextShownStep, PressTransferStep,
         ContextFailsStep DEF DeskNext
    <3> QED
      BY <1>2, <3>1, <3>2, <3>3, <3>4 DEF ConfirmStep
  <2>2. UNCHANGED vars
    BY <1>2 DEF ConfirmStep, ConfirmCheckIn, ConfirmSorting, ConfirmDispatch, ConfirmReceive,
                Confirm, PressReady, Rechecked, ReadShipment, ReadTransfers, ContextShown,
                PressTransfer, ContextFails
  <2> QED
    BY <2>1, <2>2
<1>3. CASE ServerStep
  BY <1>3, AcceptStep, PerformStep, ReplayStep, RefuseStep DEF ServerStep, DeskNext
<1>4. CASE AnswerStep
  <2>1. PageInv'
    BY <1>4, SuccessStep, ErrorStep, UnheardStep DEF AnswerStep, DeskNext
  <2>2. UNCHANGED vars
    BY <1>4 DEF AnswerStep, Disconnected, OnSuccess, OnError, Unheard
  <2> QED
    BY <2>1, <2>2
<1>5. CASE Others
  BY <1>5, OthersStep DEF DeskNext
<1> QED
  BY <1>1, <1>2, <1>3, <1>4, <1>5 DEF DeskNext

LEMMA PageStutters ==
    ASSUME Assumptions, IInv, PageInv, UNCHANGED <<vars, deskVars>>
    PROVE  PageInv'
<1>1. UNCHANGED <<vars, clerk, call, pressed>> /\ UNCHANGED <<parcel, transfer, pressed, desk>>
  BY DEF vars, deskVars
<1>2. desk' \in DeskRow /\ DialogShape' /\ ToldShape'
  BY <1>1 DEF PageInv, DeskTypeOK, DialogShape, ToldShape, Truth, Addressed, Matches
<1> QED
  BY <1>1, <1>2, PageStep

LEMMA PageInductive ==
    ASSUME Assumptions
    PROVE  DeskSpec => [](IInv /\ PageInv) /\ [][Next]_vars
<1>1. DeskInit => IInv /\ PageInv
  BY InitIInv, PageInitInv DEF DeskInit
<1>2. IInv /\ PageInv /\ [DeskNext]_<<vars, deskVars>> => (IInv /\ PageInv)' /\ [Next]_vars
  BY PageNext, PageStutters, NextIInv, StutterIInv
<1> QED
  BY <1>1, <1>2, PTL DEF DeskSpec

LEMMA OffersByIInv ==
    ASSUME Assumptions, IInv
    PROVE  OffersAccepted
<1> SUFFICES ASSUME NEW w \in Sites, Open(w)
             PROVE  /\ \A s \in Parcels :
                         /\ OffersCheckIn(w, s) => \/ parcel[s].stage = "PICKED_UP"
                                                   \/ AlreadyDone(Order("checkIn", w, s))
                         /\ OffersSorting(w, s) => parcel[s].current = w
                         /\ OffersTransfer(w, s) =>
                              /\ parcel[s].dest \in Sites \ {w} /\ parcel[s].current = w
                              /\ parcel[s].stage \in {"AT_ORIGIN_WAREHOUSE",
                                                      "AT_DESTINATION_WAREHOUSE"}
                              /\ LiveTransfers(s) = {}
                         /\ OffersReady(w, s) => parcel[s].current = w
                    /\ \A x \in Transfers :
                         /\ (OffersDispatch(w, x) /\ Open(transfer[x].to)) => Dispatchable(x)
                         /\ OffersReceive(w, x) => ReceiveAllowed(x)
  BY DEF OffersAccepted
<1>1. ASSUME NEW s \in Parcels, OffersCheckIn(w, s), parcel[s].stage # "PICKED_UP"
      PROVE  AlreadyDone(Order("checkIn", w, s))
  <2>1. PICK c : c = Order("checkIn", w, s)
    OBVIOUS
  <2>2. c.cmd = "checkIn" /\ c.at = w /\ c.s = s
    BY <2>1 DEF Order
  <2>3. AlreadyDone(c)
    BY <1>1, <2>2 DEF AlreadyDone, OffersCheckIn
  <2> QED
    BY <2>1, <2>3
<1>2. ASSUME NEW s \in Parcels, OffersTransfer(w, s)
      PROVE  parcel[s].dest \in Sites \ {w} /\ parcel[s].stage = "AT_ORIGIN_WAREHOUSE"
             /\ LiveTransfers(s) = {}
  BY <1>2 DEF OffersTransfer, OffersSorting, IInv, TypeOK, ParcelRow
<1>3. ASSUME NEW s \in Parcels
      PROVE  OffersSorting(w, s) \/ OffersReady(w, s) => parcel[s].current = w
  BY DEF OffersSorting, OffersReady, Inventory
<1>4. ASSUME NEW x \in Transfers
      PROVE  /\ (OffersDispatch(w, x) /\ Open(transfer[x].to)) => Dispatchable(x)
             /\ OffersReceive(w, x) => ReceiveAllowed(x)
  BY NotStrandedByIInv DEF NeverStranded, OffersDispatch, OffersReceive
<1> QED
  BY <1>1, <1>2, <1>3, <1>4 DEF OffersTransfer

LEMMA TruthByPageInv ==
    ASSUME Assumptions, IInv, PageInv
    PROVE  DeskTellsTruth
<1>1. DoneIsDone
  <2> SUFFICES ASSUME desk.told # None
               PROVE  DoneIsDone
    BY DEF DoneIsDone
  <2>1. PICK c : c = desk.told
    OBVIOUS
  <2>2. Truth(c) /\ c.cmd \in Kinds
    BY <2>1 DEF PageInv, ToldShape, Addressed, CallRow
  <2> QED
    BY <2>1, <2>2 DEF DoneIsDone, Truth, Kinds
<1>2. WeightAsConfirmed
  BY DEF WeightAsConfirmed, PageInv, ToldShape, Truth
<1> QED
  BY <1>1, <1>2, OffersByIInv DEF DeskTellsTruth, PageInv

-----------------------------------------------------------------------------
(* The theorems *)

LEMMA Inductive ==
    ASSUME Assumptions
    PROVE  Spec => []IInv
<1>1. Init => IInv
  BY InitIInv
<1>2. IInv /\ [Next]_vars => IInv'
  BY NextIInv, StutterIInv
<1> QED
  BY <1>1, <1>2, PTL DEF Spec

(* Every row stays in its type, whatever the commands in flight and the      *)
(* trips do to it.                                                           *)
THEOREM TypeCorrect ==
    ASSUME SitesAssumption, WeightsAssumption
    PROVE  Spec => []TypeOK
<1>1. IInv => TypeOK
  BY DEF IInv
<1> QED
  BY <1>1, Inductive, PTL DEF Assumptions

(* The parcel row and its transfer rows tell one story: at most one live     *)
(* transfer, which starts where the parcel is and ends where it is routed,   *)
(* in every interleaving of routeDestination, createTransfer, dispatch,      *)
(* receive and trips.                                                        *)
THEOREM PlaceHolds ==
    ASSUME SitesAssumption, WeightsAssumption
    PROVE  Spec => []ParcelPlace
BY PlaceByIInv, Inductive, PTL DEF Assumptions

(* A transfer and the trip that holds it agree on whether it has left.       *)
THEOREM CarriageHolds ==
    ASSUME SitesAssumption, WeightsAssumption
    PROVE  Spec => []CarriageAgrees
BY AgreesByIInv, Inductive, PTL DEF Assumptions

(* No transfer is stranded by the cutover to trips, and the workflow of a    *)
(* response offers only what the commands accept.                            *)
THEOREM NoneStranded ==
    ASSUME SitesAssumption, WeightsAssumption
    PROVE  Spec => []NeverStranded
BY NotStrandedByIInv, Inductive, PTL DEF Assumptions

(* Every parcel is on exactly one warehouse's lists.                         *)
THEOREM OneList ==
    ASSUME SitesAssumption, WeightsAssumption
    PROVE  Spec => []OneListEach
<1>1. IInv => OneListEach
  BY OneListByIInv DEF Assumptions
<1> QED
  BY <1>1, Inductive, PTL DEF Assumptions

(* The weight and the origin that a check-in recorded stay as they are once  *)
(* a transfer exists: trips are filled by that weight.                       *)
THEOREM WeightHolds ==
    ASSUME SitesAssumption, WeightsAssumption
    PROVE  Spec => WeightFixed
<1>1. IInv /\ [Next]_vars => [WeightKept]_vars
  BY WeightStep DEF Assumptions
<1> QED
  BY <1>1, Inductive, PTL DEF Spec, WeightFixed, Assumptions

(* A transfer keeps its parcel and its two warehouses from createTransfer on. *)
THEOREM TransfersKeepTheirWay ==
    ASSUME SitesAssumption, WeightsAssumption
    PROVE  Spec => [][TransferKept]_vars
<1>1. IInv /\ [Next]_vars => [TransferKept]_vars
  BY TransferStep
<1> QED
  BY <1>1, Inductive, PTL DEF Spec, Assumptions

(* All of it, in one statement.                                              *)
THEOREM NetworkTellsOneStory ==
    ASSUME SitesAssumption, WeightsAssumption
    PROVE  Spec => OneStory
<1>1. Spec => []TypeOK /\ []ParcelPlace /\ []CarriageAgrees
  BY TypeCorrect, PlaceHolds, CarriageHolds
<1>2. Spec => []NeverStranded /\ []OneListEach /\ WeightFixed
  BY NoneStranded, OneList, WeightHolds
<1> QED
  BY <1>1, <1>2, PTL DEF OneStory

(* The page implements the network: whatever it opens, confirms, repeats or  *)
(* gives up, the rows behave as Warehouses allows.                           *)
THEOREM PageIsNetwork ==
    ASSUME SitesAssumption, WeightsAssumption
    PROVE  DeskSpec => Spec
<1>1. DeskInit => Init
  BY DEF DeskInit
<1> QED
  BY <1>1, PageInductive, PTL DEF DeskSpec, Spec, Assumptions

(* A transfer made through the page goes where the clerk saw it go when      *)
(* confirming, however the parcel was sorted again in between, and however   *)
(* often the confirmation was repeated after a lost answer (submitTransfer). *)
THEOREM SentAsReviewed ==
    ASSUME SitesAssumption, WeightsAssumption
    PROVE  DeskSpec => []TransferAsReviewed
<1>1. PageInv => TransferAsReviewed
  BY DEF PageInv
<1> QED
  BY <1>1, PageInductive, PTL DEF Assumptions

(* What the page reports as done is done, also when the answer comes to a    *)
(* page whose dialog was closed or opened again over the call, the weight of *)
(* a check-in reported as new is the one confirmed with it, and what the     *)
(* page offers on a current row is accepted.                                 *)
THEOREM PageTellsTruth ==
    ASSUME SitesAssumption, WeightsAssumption
    PROVE  DeskSpec => []DeskTellsTruth
<1>1. IInv /\ PageInv => DeskTellsTruth
  BY TruthByPageInv DEF Assumptions
<1> QED
  BY <1>1, PageInductive, PTL DEF Assumptions
=============================================================================
