----------------------------- MODULE MCLineHaul -----------------------------
(***************************************************************************)
(* Instances of LineHaul for TLC, as scenes chosen in the initial state. A *)
(* scene uses a part of the constants, of the rows and of the commands:    *)
(* what it does not use stays as it is created.                            *)
(*                                                                         *)
(*   network:  one trip in a network that moves, with its administration   *)
(*             and warehouse commands, and destinations that are relocated *)
(*   capacity: two transfers for one trip of a vehicle whose capacity and  *)
(*             status change, drivers who come and go                      *)
(*   schedule: two empty trips, one vehicle, two drivers, three windows    *)
(*   running:  two loaded trips that run one after the other               *)
(***************************************************************************)
EXTENDS LineHaul, TLC

CONSTANTS s1, s2, x1, x2, d1

VARIABLE scene

(* The morning, the afternoon, and a window that overlaps both. *)
HalfDays == {<<0, 2>>, <<2, 4>>, <<1, 3>>}
Morning == <<0, 2>>

ASSUME WindowsAssumption /\ CapacitiesAssumption /\ TransfersAssumption
ASSUME Hub!SitesAssumption /\ Hub!WeightsAssumption

-----------------------------------------------------------------------------
(* The part of the rows that a scene uses *)

AtMost(n, S) == Cardinality(S) <= n
Made == {t \in Trips : trip[t] # NoTrip}
Sent == {x \in Transfers : transfer[x] # Hub!NoTransfer}
Handled == {s \in Parcels : parcel[s].version > 0 \/ \E r \in Requests : req[r].parcel = s}
Busy == {q \in Tasks : task[q] # IdleTask}
Reserved == {trip[t].window : t \in Trips} \cup {None}
Crew == {trip[t].driver : t \in Trips} \cup {None}
Verified == {parcel[s].weight : s \in Parcels}
Fleet == {vehicle[v].capacity : v \in Vehicles} \cup {0}
Versions == {trip[t].version : t \in Trips}

(* Every parcel starts at one warehouse and has a transfer of its own. *)
Together == \A s, u \in Parcels : parcel[s].origin = parcel[u].origin
Paired == transfer[x1].parcel \in {None, s1} /\ transfer[x2].parcel \in {None, s2}
Outbound == \A t \in Trips, s \in Parcels : trip[t].from \in {None, parcel[s].origin}

OneTrip == AtMost(1, Made) /\ Reserved \subseteq {None, Morning} /\ Crew \subseteq {None, d1}

Used ==
    /\ Paired
    /\ scene = "network" => /\ OneTrip /\ AtMost(1, Sent) /\ AtMost(1, Handled)
                            /\ Verified \subseteq {0, 1} /\ Fleet \subseteq {0, 2}
    /\ scene = "capacity" => OneTrip /\ \A n \in Versions : n <= 3
    /\ scene = "schedule" => Outbound /\ Fleet \subseteq {0, 2} /\ \A n \in Versions : n <= 2
    /\ scene = "running" => /\ AtMost(1, Busy) /\ Crew \subseteq {None, d1}
                            /\ Verified \subseteq {0, 1} /\ Fleet \subseteq {0, 2}

(* What the scenes with loaded trips begin with: one parcel after the other *)
(* is checked in and gets its transfer to the other warehouse.              *)
Unlocated == \A w \in Sites : site[w] = [status |-> "ACTIVE", point |-> None]
Loading == /\ Unlocated
           /\ \A s \in Parcels : parcel[s].stage \in {"PICKED_UP", "AT_ORIGIN_WAREHOUSE"}
           /\ Cardinality(Handled) <= Cardinality(Sent) + 1
Waiting == /\ Sent = Transfers
           /\ \A r \in Requests : req[r] = Hub!Idle
           /\ era = "enforced"

-----------------------------------------------------------------------------
SceneInit ==
    /\ scene \in {"network", "capacity", "schedule", "running"}
    /\ Init
    /\ Together /\ Used
    /\ scene \in {"capacity", "running"} => era = "before" /\ Unlocated
    /\ scene = "schedule" => era = "off" /\ Unlocated

SceneNext ==
    /\ UNCHANGED scene
    /\ \/ scene = "network" /\ (HubStep \/ PlanStep \/ RunStep)
       \/ scene \in {"capacity", "running"} /\ ~Waiting /\ HubStep /\ Loading'
       \/ scene = "capacity" /\ Waiting /\ (FleetStep \/ PlanStep \/ RunStep)
       \/ scene = "running" /\ Waiting /\ (PlanStep \/ ScheduleStep \/ RunStep)
       \/ scene = "schedule" /\ (PlanStep \/ ScheduleStep \/ RunStep)
    /\ Used'

SceneSpec == SceneInit /\ [][SceneNext]_<<vars, scene>>

Alike == Permutations(Sites) \cup Permutations(Tasks) \cup Permutations(Trips)
           \cup {s1 :> s2 @@ s2 :> s1 @@ x1 :> x2 @@ x2 :> x1}
=============================================================================
