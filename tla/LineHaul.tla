------------------------------ MODULE LineHaul ------------------------------
(***************************************************************************)
(* Line-haul trips between warehouses (LineHaulTripsService,               *)
(* LineHaulVehiclesService, LineHaulPolicy, line-haul-capacity): a trip    *)
(* reserves a driver and a vehicle for a window of time, carries a         *)
(* manifest of warehouse transfers, and moves them all when it departs.    *)
(*                                                                         *)
(* Commands lock the trip, then driver, vehicle and transfers, so most are *)
(* one step. The exceptions are the ones that decide on what they read     *)
(* without holding it: assignTransfer reads the capacity of a vehicle it   *)
(* does not lock, updateCapacity reads the trips of the vehicle before it  *)
(* locks them, prepare and recalculateRoute ask a route provider before    *)
(* their transaction, and schedule acts on a version a screen showed.      *)
(*                                                                         *)
(* The warehouse network is Warehouses, instantiated with the carriage of  *)
(* a transfer read off the manifests: its commands run here unchanged, and *)
(* the property Hub!Spec says that trips touch the network only as it      *)
(* expects.                                                                *)
(***************************************************************************)
EXTENDS Naturals, FiniteSets, FiniteSetsExt

CONSTANTS
    Sites, Parcels, Transfers, Staff, Office, Requests, Weights, Points, None, MaxVersion,
    Trips,        \* LineHaulTrip rows, by creator and clientRequestId
    Vehicles,     \* LineHaulVehicle rows
    Drivers,      \* driver profiles
    Windows,      \* schedule windows <<start, end>>
    Capacities,   \* vehicle capacities
    Tasks,        \* trip and vehicle commands in flight
    MaxTripVersion \* bound on the version of a trip

(* What the constants must satisfy. *)
WindowsAssumption ==
    /\ Windows \subseteq Nat \X Nat
    /\ \A w \in Windows : w[1] < w[2]  \* assertScheduleWindow
    /\ None \notin Windows \cup Trips \cup Vehicles \cup Drivers \cup Transfers

CapacitiesAssumption == Capacities \subseteq Nat \ {0} /\ MaxTripVersion \in Nat

TransfersAssumption == IsFiniteSet(Transfers)  \* rows of a table

VARIABLES
    site, staff, parcel, transfer, era, req,
    vehicle,   \* LineHaulVehicle rows
    driver,    \* what a trip needs to know of a driver
    trip,      \* LineHaulTrip rows
    manifest,  \* active LineHaulTripTransfer rows of each trip
    task       \* trip and vehicle commands in flight

hubVars == <<site, staff, parcel, transfer, era, req>>
vars == <<site, staff, parcel, transfer, era, req, vehicle, driver, trip, manifest, task>>

-----------------------------------------------------------------------------
(* Rows *)

TripStatus == {"NONE", "PLANNED", "READY", "IN_TRANSIT", "ARRIVED", "CANCELLED"}
Active == {"PLANNED", "READY", "IN_TRANSIT"}
Executing == {"READY", "IN_TRANSIT"}

(* capacity 0 stands for NULL, the capacity of a vehicle older than the     *)
(* column; route is the version of the current LineHaulTripRoute, 0 without *)
(* one; loaded and limit are the prepared snapshot.                         *)
VehicleRow == [status : {"NONE", "AVAILABLE", "IN_USE", "MAINTENANCE", "INACTIVE"},
               capacity : Capacities \cup {0}]
TripRow == [status : TripStatus, from : Sites \cup {None}, to : Sites \cup {None},
            driver : Drivers \cup {None}, vehicle : Vehicles \cup {None},
            window : Windows \cup {None}, version : 0 .. MaxTripVersion,
            route : 0 .. MaxTripVersion, loaded : Nat, limit : Nat]
NoTrip == [status |-> "NONE", from |-> None, to |-> None, driver |-> None, vehicle |-> None,
           window |-> None, version |-> 0, route |-> 0, loaded |-> 0, limit |-> 0]

(* eligible: active account, profile not suspended, LINE_HAUL capability;   *)
(* busy: a pending or accepted pickup or delivery assignment.               *)
DriverRow == [eligible : BOOLEAN, busy : BOOLEAN]

IdleTask == [cmd |-> "idle"]
TaskRow == {IdleTask}
    \cup [cmd : {"assignTransfer"}, trip : Trips, transfer : Transfers, capacity : Capacities \cup {0}]
    \cup [cmd : {"updateCapacity"}, vehicle : Vehicles, capacity : Capacities, hints : SUBSET Trips]
    \cup [cmd : {"prepare"}, trip : Trips, routed : BOOLEAN]
    \cup [cmd : {"recalculateRoute"}, trip : Trips, version : Nat, route : Nat, point : Points]
    \cup [cmd : {"schedule", "reschedule", "unschedule"}, trip : Trips, version : Nat,
          window : Windows \cup {None}]

(* Every variable has its type. *)
TypeOK ==
    /\ vehicle \in [Vehicles -> VehicleRow]
    /\ driver \in [Drivers -> DriverRow]
    /\ trip \in [Trips -> TripRow]
    /\ manifest \in [Trips -> SUBSET Transfers]
    /\ task \in [Tasks -> TaskRow]

-----------------------------------------------------------------------------
(* The network, seen through the manifests *)

Riding == [x \in Transfers |-> IF \E t \in Trips : x \in manifest[t]
                               THEN trip[CHOOSE t \in Trips : x \in manifest[t]].status
                               ELSE "none"]

Hub == INSTANCE Warehouses WITH carriage <- Riding

Weigh(X) == MapThenSumSet(LAMBDA x : parcel[transfer[x].parcel].weight, X)

ActiveTrips(v) == {t \in Trips : trip[t].vehicle = v /\ trip[t].status \in Active}

OnTrip(x) == \E t \in Trips : x \in manifest[t]

-----------------------------------------------------------------------------
(* Row locks held across a step: assignTransfer keeps its trip and its      *)
(* transfer. Whoever needs one of those rows waits.                         *)

LockedTrips == {task[q].trip : q \in {p \in Tasks : task[p].cmd = "assignTransfer"}}
LockedTransfers == {task[q].transfer : q \in {p \in Tasks : task[p].cmd = "assignTransfer"}}

Start(q, row) == task[q].cmd = "idle" /\ task' = [task EXCEPT ![q] = row]
End(q) == task' = [task EXCEPT ![q] = IdleTask]

(* Refused, rolled back, or the client gave up. *)
Abandon(q) ==
    /\ task[q].cmd # "idle"
    /\ End(q)
    /\ UNCHANGED <<hubVars, vehicle, driver, trip, manifest>>

-----------------------------------------------------------------------------
(* Policy *)

VehicleEligible(v) == vehicle[v].status = "AVAILABLE" /\ vehicle[v].capacity > 0

Overlaps(w, u) == w[1] < u[2] /\ u[1] < w[2]

(* scheduleConflictWhere *)
ConflictsWith(t, w) ==
    /\ trip[t].status \in Active
    /\ IF trip[t].window = None THEN trip[t].status \in Executing ELSE Overlaps(trip[t].window, w)

ResourcesFreeDriver(t, d, v, w) ==  \* mutant: the vehicle is not looked at
    \A u \in Trips \ {t} : ConflictsWith(u, w) => trip[u].driver # d

(* assertScheduleResourcesAvailable *)
ResourcesFree(t, d, v, w) ==
    \A u \in Trips \ {t} : ConflictsWith(u, w) => trip[u].driver # d /\ trip[u].vehicle # v

(* assertManifestWithinCapacity *)
Within(grams, capacity) == capacity > 0 /\ grams <= capacity

(* assertTransferMatchesTrip *)
MatchesTrip(x, t) == /\ transfer[x].status = "PENDING"
                     /\ transfer[x].from = trip[t].from /\ transfer[x].to = trip[t].to

(* assertExecutionReady *)
ExecutionReady(t) ==
    /\ trip[t].window # None
    /\ driver[trip[t].driver].eligible /\ ~driver[trip[t].driver].busy
    /\ VehicleEligible(trip[t].vehicle)
    /\ ResourcesFree(t, trip[t].driver, trip[t].vehicle, trip[t].window)
    /\ Hub!Open(trip[t].from) /\ Hub!Open(trip[t].to)
    /\ manifest[t] # {}
    /\ \A x \in manifest[t] : MatchesTrip(x, t) /\ Hub!Dispatchable(x)
    /\ Within(Weigh(manifest[t]), vehicle[trip[t].vehicle].capacity)

-----------------------------------------------------------------------------
(* Vehicles and drivers *)

CreateVehicle(v, c) ==
    /\ vehicle[v].status = "NONE"
    /\ vehicle' = [vehicle EXCEPT ![v] = [status |-> "AVAILABLE", capacity |-> c]]
    /\ UNCHANGED <<hubVars, driver, trip, manifest, task>>

SetOperationalStatus(v, status) ==
    /\ vehicle[v].status \notin {"NONE", "IN_USE", status}
    /\ \A t \in Trips : trip[t].vehicle = v => trip[t].status \notin Executing
    /\ status = "AVAILABLE" => vehicle[v].capacity > 0
    /\ vehicle' = [vehicle EXCEPT ![v].status = status]
    /\ UNCHANGED <<hubVars, driver, trip, manifest, task>>

CapacityRead(q, v, c) ==
    /\ vehicle[v].status # "NONE"
    /\ Start(q, [cmd |-> "updateCapacity", vehicle |-> v, capacity |-> c, hints |-> ActiveTrips(v)])
    /\ UNCHANGED <<hubVars, vehicle, driver, trip, manifest>>

UpdateCapacityUnlocked(q) ==  \* mutant: the trips of the vehicle are not locked
    /\ task[q].cmd = "updateCapacity"
    /\ vehicle[task[q].vehicle].status # "IN_USE"
    /\ ActiveTrips(task[q].vehicle) = task[q].hints
    /\ \A t \in task[q].hints : Within(Weigh(manifest[t]), task[q].capacity)
    /\ vehicle' = [vehicle EXCEPT ![task[q].vehicle].capacity = task[q].capacity]
    /\ End(q)
    /\ UNCHANGED <<hubVars, driver, trip, manifest>>

UpdateCapacity(q) ==
    /\ task[q].cmd = "updateCapacity"
    /\ task[q].hints \cap LockedTrips = {}
    /\ vehicle[task[q].vehicle].status # "IN_USE"
    /\ ActiveTrips(task[q].vehicle) = task[q].hints
    /\ \A t \in task[q].hints : Within(Weigh(manifest[t]), task[q].capacity)
    /\ vehicle' = [vehicle EXCEPT ![task[q].vehicle].capacity = task[q].capacity]
    /\ End(q)
    /\ UNCHANGED <<hubVars, driver, trip, manifest>>

(* Pickup and delivery work comes and goes, accounts and capabilities       *)
(* change: what LastMile says about drivers, with the trips it looks at.    *)
NoActiveLineHaulTrip(d) == \A t \in Trips : trip[t].driver = d => trip[t].status \notin Executing

DriverDuty(d) ==
    /\ ~driver[d].busy => NoActiveLineHaulTrip(d)
    /\ driver' = [driver EXCEPT ![d].busy = ~@]
    /\ UNCHANGED <<hubVars, vehicle, trip, manifest, task>>

DriverEligibility(d) ==
    /\ driver[d].eligible => NoActiveLineHaulTrip(d) /\ ~driver[d].busy
    /\ driver' = [driver EXCEPT ![d].eligible = ~@]
    /\ UNCHANGED <<hubVars, vehicle, trip, manifest, task>>

-----------------------------------------------------------------------------
(* Planning a trip *)

(* The checks of create. *)
Creatable(from, to, d, v, w, X) ==
    /\ from # to
    /\ Hub!Open(from) /\ Hub!Open(to)
    /\ driver[d].eligible
    /\ VehicleEligible(v)
    /\ w # None => ~driver[d].busy /\ ResourcesFree(None, d, v, w)
    /\ \A x \in X : /\ transfer[x].from = from /\ transfer[x].to = to
                    /\ Hub!Dispatchable(x)
                    /\ ~OnTrip(x)
    /\ Within(Weigh(X), vehicle[v].capacity)

Create(t, from, to, d, v, w, X) ==
    /\ trip[t].status = "NONE"
    /\ X \cap LockedTransfers = {}
    /\ Creatable(from, to, d, v, w, X)
    /\ trip' = [trip EXCEPT ![t] = [NoTrip EXCEPT !.status = "PLANNED", !.from = from, !.to = to,
                                      !.driver = d, !.vehicle = v, !.window = w]]
    /\ manifest' = [manifest EXCEPT ![t] = X]
    /\ UNCHANGED <<hubVars, vehicle, driver, task>>

AssignRead(q, t, x) ==
    /\ t \notin LockedTrips /\ x \notin LockedTransfers
    /\ trip[t].status = "PLANNED"
    /\ MatchesTrip(x, t)
    /\ ~OnTrip(x)
    /\ Start(q, [cmd |-> "assignTransfer", trip |-> t, transfer |-> x,
                 capacity |-> vehicle[trip[t].vehicle].capacity])
    /\ UNCHANGED <<hubVars, vehicle, driver, trip, manifest>>

AssignTransfer(q) ==
    LET t == task[q].trip
        X == manifest[t] \cup {task[q].transfer}
    IN /\ task[q].cmd = "assignTransfer"
       /\ Within(Weigh(X), task[q].capacity)
       /\ manifest' = [manifest EXCEPT ![t] = X]
       /\ End(q)
       /\ UNCHANGED <<hubVars, vehicle, driver, trip>>

RemoveTransfer(t, x) ==
    /\ t \notin LockedTrips
    /\ trip[t].status = "PLANNED"
    /\ x \in manifest[t]
    /\ manifest' = [manifest EXCEPT ![t] = @ \ {x}]
    /\ UNCHANGED <<hubVars, vehicle, driver, trip, task>>

-----------------------------------------------------------------------------
(* Schedules *)

(* A screen shows the trip; its command carries the version shown. *)
ShowTrip(q, cmd, t) ==
    /\ trip[t].status # "NONE"
    /\ Start(q, [cmd |-> cmd, trip |-> t, version |-> trip[t].version, window |-> trip[t].window])
    /\ UNCHANGED <<hubVars, vehicle, driver, trip, manifest>>

Reschedulable(t, cmd) ==
    /\ t \notin LockedTrips
    /\ trip[t].status = "PLANNED"
    /\ cmd = "schedule" <=> trip[t].window = None
    /\ trip[t].version < MaxTripVersion

SetSchedule(q, w) ==
    LET t == task[q].trip IN
    /\ task[q].cmd \in {"schedule", "reschedule"}
    /\ Reschedulable(t, task[q].cmd)
    /\ w # trip[t].window
    /\ trip[t].version = task[q].version
    /\ driver[trip[t].driver].eligible /\ VehicleEligible(trip[t].vehicle)
    /\ ResourcesFree(t, trip[t].driver, trip[t].vehicle, w)
    /\ trip' = [trip EXCEPT ![t].window = w, ![t].version = @ + 1]
    /\ End(q)
    /\ UNCHANGED <<hubVars, vehicle, driver, manifest>>

Unschedule(q) ==
    LET t == task[q].trip IN
    /\ task[q].cmd = "unschedule"
    /\ Reschedulable(t, "unschedule")
    /\ trip[t].version = task[q].version
    /\ trip' = [trip EXCEPT ![t].window = None, ![t].version = @ + 1]
    /\ End(q)
    /\ UNCHANGED <<hubVars, vehicle, driver, manifest>>

-----------------------------------------------------------------------------
(* Execution *)

Located(t) == site[trip[t].from].point # None /\ site[trip[t].to].point # None

AtOrigin(x, t) == LET s == parcel[transfer[x].parcel] IN
                  s.stage = "AT_ORIGIN_WAREHOUSE" /\ s.current = trip[t].from

(* plannedRoute: no route for a trip that does not look ready to leave *)
PrepareRead(q, t) ==
    /\ trip[t].status # "NONE"
    /\ Start(q, [cmd |-> "prepare", trip |-> t,
                 routed |-> /\ trip[t].status = "PLANNED"
                            /\ manifest[t] # {}
                            /\ \A x \in manifest[t] : MatchesTrip(x, t) /\ AtOrigin(x, t)
                            /\ Located(t)])
    /\ UNCHANGED <<hubVars, vehicle, driver, trip, manifest>>

Prepare(q) ==
    LET t == task[q].trip IN
    /\ task[q].cmd = "prepare"
    /\ t \notin LockedTrips /\ manifest[t] \cap LockedTransfers = {}
    /\ trip[t].status = "PLANNED"
    /\ ExecutionReady(t)
    /\ trip[t].version < MaxTripVersion
    /\ trip' = [trip EXCEPT ![t].status = "READY", ![t].version = @ + 1,
                  ![t].route = IF task[q].routed /\ Located(t) THEN 1 ELSE @,
                  ![t].loaded = Weigh(manifest[t]), ![t].limit = vehicle[trip[t].vehicle].capacity]
    /\ End(q)
    /\ UNCHANGED <<hubVars, vehicle, driver, manifest>>

DispatchEmpty(t) ==  \* mutant: the transfers of the manifest stay behind
    /\ trip[t].status = "READY"
    /\ trip[t].version < MaxTripVersion
    /\ trip' = [trip EXCEPT ![t].status = "IN_TRANSIT", ![t].version = @ + 1]
    /\ vehicle' = [vehicle EXCEPT ![trip[t].vehicle].status = "IN_USE"]
    /\ UNCHANGED <<hubVars, driver, manifest, task>>

Dispatch(t) ==
    /\ t \notin LockedTrips /\ manifest[t] \cap LockedTransfers = {}
    /\ trip[t].status = "READY"
    /\ ExecutionReady(t)
    /\ trip[t].version < MaxTripVersion
    /\ trip' = [trip EXCEPT ![t].status = "IN_TRANSIT", ![t].version = @ + 1]
    /\ vehicle' = [vehicle EXCEPT ![trip[t].vehicle].status = "IN_USE"]
    /\ Hub!PutOnRoad(manifest[t])
    /\ UNCHANGED <<site, staff, era, req, driver, manifest, task>>

(* assertDestinationConfirmationAccess: Office is an administrator here. *)
Arrive(t, u) ==
    /\ t \notin LockedTrips
    /\ Hub!InScope(u, trip[t].to)
    /\ trip[t].status = "IN_TRANSIT"
    /\ vehicle[trip[t].vehicle].status = "IN_USE"
    /\ manifest[t] # {}
    /\ trip[t].version < MaxTripVersion
    /\ trip' = [trip EXCEPT ![t].status = "ARRIVED", ![t].version = @ + 1]
    /\ vehicle' = [vehicle EXCEPT ![trip[t].vehicle].status = "AVAILABLE"]
    /\ UNCHANGED <<hubVars, driver, manifest, task>>

(* A GPS sample that is missing or goes stale refuses the command: Abandon. *)
RecalculateRead(q, t) ==
    /\ trip[t].status = "IN_TRANSIT"
    /\ trip[t].route > 0
    /\ site[trip[t].to].point # None
    /\ Start(q, [cmd |-> "recalculateRoute", trip |-> t, version |-> trip[t].version,
                 route |-> trip[t].route, point |-> site[trip[t].to].point])
    /\ UNCHANGED <<hubVars, vehicle, driver, trip, manifest>>

RecalculateRouteBlind(q) ==  \* mutant: what was read before the provider call is not compared
    LET t == task[q].trip IN
    /\ task[q].cmd = "recalculateRoute"
    /\ trip[t].version < MaxTripVersion
    /\ trip' = [trip EXCEPT ![t].route = task[q].route + 1, ![t].version = @ + 1]
    /\ End(q)
    /\ UNCHANGED <<hubVars, vehicle, driver, manifest>>

RecalculateRoute(q) ==
    LET t == task[q].trip IN
    /\ task[q].cmd = "recalculateRoute"
    /\ t \notin LockedTrips
    /\ trip[t].status = "IN_TRANSIT"
    /\ trip[t].version = task[q].version
    /\ trip[t].route = task[q].route
    /\ site[trip[t].to].point = task[q].point
    /\ trip[t].version < MaxTripVersion
    /\ trip' = [trip EXCEPT ![t].route = @ + 1, ![t].version = @ + 1]
    /\ End(q)
    /\ UNCHANGED <<hubVars, vehicle, driver, manifest>>

Cancel(t) ==
    /\ t \notin LockedTrips
    /\ trip[t].status \in {"PLANNED", "READY"}
    /\ trip[t].version < MaxTripVersion
    /\ trip' = [trip EXCEPT ![t].status = "CANCELLED", ![t].version = @ + 1]
    /\ manifest' = [manifest EXCEPT ![t] = {}]
    /\ UNCHANGED <<hubVars, vehicle, driver, task>>

-----------------------------------------------------------------------------
(* What the screens offer *)

(* listEligibleTransfers: fitsVehicleCapacity for each transfer listed *)
EligibleTransfers(t) ==
    {x \in Transfers : /\ MatchesTrip(x, t) /\ ~OnTrip(x)
                       /\ Within(Weigh(manifest[t] \cup {x}), vehicle[trip[t].vehicle].capacity)}

(* resourceAvailability, for a new trip or for one that is rescheduled *)
DriverAvailability(d, t, w) ==
    IF ~driver[d].eligible THEN "UNAVAILABLE"
    ELSE IF \E u \in Trips \ {t} : ConflictsWith(u, w) /\ trip[u].driver = d THEN "BUSY"
    ELSE "AVAILABLE"

VehicleAvailability(v, t, w) ==
    IF ~VehicleEligible(v) THEN "UNAVAILABLE"
    ELSE IF \E u \in Trips \ {t} : ConflictsWith(u, w) /\ trip[u].vehicle = v THEN "BUSY"
    ELSE "AVAILABLE"

-----------------------------------------------------------------------------
Trucks ==
    /\ driver \in [Drivers -> [eligible : {TRUE}, busy : {FALSE}]]
    /\ vehicle \in [Vehicles -> {[status |-> "NONE", capacity |-> 0]}
                                \cup [status : {"AVAILABLE"}, capacity : Capacities \cup {0}]]
    /\ trip = [t \in Trips |-> NoTrip]
    /\ manifest = [t \in Trips |-> {}]
    /\ task = [q \in Tasks |-> IdleTask]

Init == Trucks /\ Hub!Init

(* A later starting point: every parcel is checked in at one warehouse and  *)
(* has a transfer waiting to take it to another one.                        *)
Loaded ==
    /\ Trucks
    /\ site \in [Sites -> [status : {"ACTIVE"}, point : Points \cup {None}]]
    /\ staff = [u \in Staff |-> [site |-> None, active |-> FALSE]]
    /\ \E from, to \in Sites :
         /\ from # to
         /\ parcel \in [Parcels -> [stage : {"AT_ORIGIN_WAREHOUSE"}, origin : {from},
                                   current : {from}, dest : {to}, weight : Weights, version : {2}]]
         /\ transfer \in {f \in [Transfers -> [parcel : Parcels, from : {from}, to : {to},
                                                status : {"PENDING"}, legacy : {FALSE}]] :
                            \A x, y \in Transfers : x # y => f[x].parcel # f[y].parcel}
    /\ era = "enforced"
    /\ req = [r \in Requests |-> Hub!Idle]

(* The network moves; a command that needs a locked transfer waits. *)
HubStep ==
    /\ UNCHANGED <<vehicle, driver, trip, manifest, task>>
    /\ Hub!Administration \/ Hub!Commands
    /\ \A x \in LockedTransfers : transfer'[x] = transfer[x]

FleetStep ==
    \/ \E v \in Vehicles, c \in Capacities : CreateVehicle(v, c)
    \/ \E v \in Vehicles, status \in {"AVAILABLE", "MAINTENANCE", "INACTIVE"} :
         SetOperationalStatus(v, status)
    \/ \E q \in Tasks : \/ UpdateCapacity(q)
                         \/ \E v \in Vehicles, c \in Capacities : CapacityRead(q, v, c)
    \/ \E d \in Drivers : DriverDuty(d) \/ DriverEligibility(d)

PlanStep ==
    \/ \E t \in Trips, from, to \in Sites, d \in Drivers, v \in Vehicles,
           w \in Windows \cup {None}, X \in SUBSET Transfers : Create(t, from, to, d, v, w, X)
    \/ \E t \in Trips, x \in Transfers :
         \/ RemoveTransfer(t, x)
         \/ \E q \in Tasks : AssignRead(q, t, x)
    \/ \E q \in Tasks : AssignTransfer(q) \/ Abandon(q)

ScheduleStep ==
    \E q \in Tasks :
      \/ Unschedule(q)
      \/ \E w \in Windows : SetSchedule(q, w)
      \/ \E cmd \in {"schedule", "reschedule", "unschedule"}, t \in Trips : ShowTrip(q, cmd, t)

RunStep ==
    \/ \E t \in Trips : \/ Dispatch(t) \/ Cancel(t)
                         \/ \E u \in Staff \cup {Office} : Arrive(t, u)
    \/ \E q \in Tasks : \/ Prepare(q) \/ RecalculateRoute(q)
                         \/ \E t \in Trips : PrepareRead(q, t) \/ RecalculateRead(q, t)

Next == HubStep \/ FleetStep \/ PlanStep \/ ScheduleStep \/ RunStep

Spec == Init /\ [][Next]_vars

-----------------------------------------------------------------------------
(* Properties *)

(* No active trip carries more than its vehicle may, however transfers are  *)
(* added while the vehicle's capacity is being changed; a trip that was     *)
(* prepared carries exactly what was weighed then, within the limit of then.*)
ManifestFits ==
    \A t \in Trips :
      /\ (trip[t].status \in Active /\ manifest[t] # {})
           => Within(Weigh(manifest[t]), vehicle[trip[t].vehicle].capacity)
      /\ trip[t].status \in {"READY", "IN_TRANSIT", "ARRIVED"}
           => /\ trip[t].loaded = Weigh(manifest[t])
              /\ Within(trip[t].loaded, trip[t].limit)

(* No driver and no vehicle is reserved by two active trips for windows     *)
(* that overlap (windows that touch do not), by the service's own checks:   *)
(* the exclusion constraint of the database never has to step in.           *)
WindowsApart ==
    \A t, u \in Trips :
      ( /\ t # u /\ trip[t].status \in Active /\ trip[u].status \in Active
        /\ trip[t].window # None /\ trip[u].window # None
        /\ trip[t].driver = trip[u].driver \/ trip[t].vehicle = trip[u].vehicle )
      => ~Overlaps(trip[t].window, trip[u].window)

(* A vehicle is in use exactly while one trip drives it, a ready trip can   *)
(* count on its vehicle, and no transfer rides on two trips.                *)
VehicleInUse ==
    /\ \A v \in Vehicles :
         LET driving == {t \in Trips : trip[t].vehicle = v /\ trip[t].status = "IN_TRANSIT"}
         IN Cardinality(driving) = IF vehicle[v].status = "IN_USE" THEN 1 ELSE 0
    /\ \A t \in Trips : trip[t].status = "READY"
         => vehicle[trip[t].vehicle].status \in {"AVAILABLE", "IN_USE"}
    /\ \A t, u \in Trips : t # u => manifest[t] \cap manifest[u] = {}

(* The driver of a ready or running trip does no pickup or delivery work    *)
(* and stays eligible; such a trip has a schedule and a manifest whose      *)
(* transfers go where it goes.                                              *)
OneDuty ==
    \A t \in Trips : trip[t].status \in Executing =>
      /\ driver[trip[t].driver].eligible /\ ~driver[trip[t].driver].busy
      /\ trip[t].window # None
      /\ manifest[t] # {}
      /\ \A x \in manifest[t] : transfer[x].from = trip[t].from /\ transfer[x].to = trip[t].to

(* The schedule board tells the truth: a driver and a vehicle it shows as   *)
(* available for a window conflict with no active trip in that window, the  *)
(* reserved ones never show as available for a window that overlaps, and    *)
(* the transfers offered to a planned trip are accepted by it.              *)
BoardTellsTruth ==
    \A t \in Trips : trip[t].status \in Active =>
      /\ trip[t].window # None => \A w \in Windows : Overlaps(w, trip[t].window) =>
           /\ DriverAvailability(trip[t].driver, None, w) # "AVAILABLE"
           /\ VehicleAvailability(trip[t].vehicle, None, w) # "AVAILABLE"
      /\ \A w \in Windows :
           ( /\ DriverAvailability(trip[t].driver, t, w) = "AVAILABLE"
             /\ VehicleAvailability(trip[t].vehicle, t, w) = "AVAILABLE" )
           => \A u \in Trips \ {t} :
                ( /\ trip[u].status \in Active /\ trip[u].window # None
                  /\ trip[u].driver = trip[t].driver \/ trip[u].vehicle = trip[t].vehicle )
                => ~Overlaps(w, trip[u].window)
      /\ trip[t].status = "PLANNED" => \A x \in EligibleTransfers(t) :
           /\ Hub!Open(trip[t].from) /\ Hub!Open(trip[t].to) => Hub!Dispatchable(x)
           /\ x \notin UNION {manifest[u] : u \in Trips}

(* Nothing is booked twice: no driver and no vehicle for windows that       *)
(* overlap, no driver of a ready trip for other work, no vehicle and no     *)
(* transfer by two trips; and what is offered as free is free.              *)
NoDoubleBooking == WindowsApart /\ VehicleInUse /\ OneDuty /\ BoardTellsTruth

(* A schedule is only replaced by someone who saw it: between two changes   *)
(* of a window no dispatcher's change is lost.                              *)
ScheduleSeen ==
    \A t \in Trips : (trip[t].status # "NONE" /\ trip'[t].window # trip[t].window)
      => \E q \in Tasks : /\ task[q].cmd \in {"schedule", "reschedule", "unschedule"}
                          /\ task[q].trip = t /\ task[q].window = trip[t].window
                          /\ task'[q].cmd = "idle"

(* Route versions of a trip are consecutive, the planned route is the       *)
(* first, and every later one was asked for from the version before it and  *)
(* the point where the destination still is.                                *)
RouteFollows ==
    \A t \in Trips : trip'[t].route # trip[t].route
      => /\ trip'[t].route = trip[t].route + 1
         /\ IF trip[t].route = 0 THEN trip[t].status = "PLANNED"
            ELSE /\ trip[t].status = "IN_TRANSIT"
                 /\ \E q \in Tasks : /\ task[q].cmd = "recalculateRoute" /\ task[q].trip = t
                                      /\ task[q].version = trip[t].version
                                      /\ task[q].point = site[trip[t].to].point

NothingOverwritten == [][ScheduleSeen /\ RouteFollows]_vars

(* Trips implement what the warehouse network expects of the carriage of a  *)
(* transfer: each trip command is one of its trip steps or none.            *)
NetworkImplemented == Hub!Spec
=============================================================================
