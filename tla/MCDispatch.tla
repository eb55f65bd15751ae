----------------------------- MODULE MCDispatch -----------------------------
(***************************************************************************)
(* Instances of DispatchDesk and DriverRanking for TLC: four scenes,       *)
(* chosen in the initial state. Two are DispatchDesk, which this module    *)
(* extends, each with a part of its people; the others are instances of    *)
(* DriverRanking, with constants and variables of their own.               *)
(*                                                                         *)
(*   pickup:   one of the dispatchers and two drivers, who do only this    *)
(*   delivery: two dispatchers and one of the drivers, on a delivery that  *)
(*             fails; a command that is carried out is answered            *)
(*                                                                         *)
(* Else answers and sockets get lost. While candidates are ranked the      *)
(* shipment rests.                                                         *)
(***************************************************************************)
EXTENDS DispatchDesk

CONSTANTS u1, u2, d1, d2

VARIABLES scene,
          enabled, fleet, cache, list

rankVars == <<enabled, fleet, cache, list>>
sceneVars == <<scene, vars, rankVars>>

(* A driver of each kind and one for each reason to be left out. *)
Profile(offered, capabilities, warehouse) ==
    [offered |-> offered, capabilities |-> capabilities, warehouse |-> warehouse]
Fit == {Profile(TRUE, {"PICKUP"}, "hanoi"), Profile(TRUE, {}, "hanoi")}
Kinds == {Profile(TRUE, {"PICKUP", "DELIVERY"}, "hanoi"), Profile(TRUE, {"PICKUP", "DELIVERY"}, "hanoi2"),
          Profile(TRUE, {"PICKUP"}, "closed"), Profile(FALSE, {"PICKUP"}, "hanoi")}
Cities == [hanoi |-> "HN", hanoi2 |-> "HN", saigon |-> "SG", closed |-> "HN"]
Targets ==
    {[status |-> "AWAITING_PICKUP_ASSIGNMENT", destination |-> None, city |-> "HN", located |-> TRUE],
     [status |-> "AWAITING_DELIVERY_ASSIGNMENT", destination |-> "hanoi", city |-> "SG",
      located |-> TRUE]}

(* Three places: the first two round to one cell; the third is farther by   *)
(* air and nearer by road. More fit drivers than calls of the provider.     *)
Reasons == INSTANCE DriverRanking WITH
    Drivers <- 1 .. 3, Profiles <- Kinds, Active <- {"hanoi", "hanoi2", "saigon"},
    City <- Cities, Shipments <- Targets, Places <- 1 .. 3, Cell <- <<"near", "near", "far">>,
    Air <- <<12, 26, 40>>, Road <- <<70, 75, 50>>, Time <- <<9, 9, 8>>,
    Limit <- 2, Concurrency <- 2

(* Fit drivers only, and a provider that may never answer. *)
Ends == INSTANCE DriverRanking WITH
    Drivers <- 1 .. 3, Profiles <- Fit, Active <- {"hanoi", "hanoi2", "saigon"},
    City <- Cities, Shipments <- Targets, Places <- {2, 3}, Cell <- <<"near", "near", "far">>,
    Air <- <<12, 26, 40>>, Road <- <<70, 75, 50>>, Time <- <<9, 9, 8>>,
    Limit <- 3, Concurrency <- 2

ASSUME DeskAssumption
ASSUME Reasons!RankingAssumption /\ Ends!RankingAssumption

NoRanking == enabled = None /\ fleet = None /\ cache = None /\ list = None

(* The other dispatcher only hears of rejections; the other driver is never *)
(* chosen.                                                                  *)
DeskUsed ==
    /\ scene = "pickup" => /\ desk[u2].call = NoCall /\ ~desk[u2].stale /\ desk[u2].online
                           /\ desk[u2].seen.status = "PENDING" /\ desk[u2].selected = None
    /\ scene = "delivery" => \A u \in Dispatchers : desk[u].selected # d2 /\ desk[u].online

Answered ==
    /\ \A u \in Dispatchers : ship' # ship /\ desk'[u].call # desk[u].call => desk'[u].stale
    /\ \A d \in Drivers : ship' # ship /\ phone'[d].calls # phone[d].calls => phone'[d].seen # phone[d].seen

SceneInit ==
    \/ /\ Init /\ NoRanking
       /\ scene = IF ship.stage = "PICKUP" THEN "pickup" ELSE "delivery"
    \/ /\ Init /\ ship.stage = "PICKUP"
       /\ \/ scene = "reasons" /\ Reasons!Init
          \/ scene = "ends" /\ Ends!Init

SceneNext ==
    /\ UNCHANGED scene
    /\ \/ /\ scene \in {"pickup", "delivery"}
          /\ Next /\ DeskUsed'
          /\ scene = "pickup" => (ship' = ship => free' = free)
          /\ scene = "delivery" => Answered
          /\ UNCHANGED rankVars
       \/ scene = "reasons" /\ Reasons!Next /\ UNCHANGED vars
       \/ scene = "ends" /\ Ends!Next /\ UNCHANGED vars

(* The fairness of the two modules, each in its scene. *)
InPickup(A) == scene = "pickup" /\ A /\ UNCHANGED <<scene, rankVars>>
InEnds(A) == scene = "ends" /\ A /\ UNCHANGED <<scene, vars>>
SceneFairness ==
    /\ WF_sceneVars(InPickup(Fetch(u1))) /\ WF_sceneVars(InPickup(Push(u1)))
    /\ WF_sceneVars(InPickup(Connect(u1)))
    /\ WF_sceneVars(InEnds(\E at \in [1 .. 3 -> {2, 3, None}] : Ends!Locate(at)))
    /\ \A w \in Ends!Workers : /\ WF_sceneVars(InEnds(Ends!Get(w)))
                               /\ WF_sceneVars(InEnds(Ends!ProviderFails(w)))
    /\ WF_sceneVars(InEnds(Ends!Answer))

SceneSpec == SceneInit /\ [][SceneNext]_sceneVars /\ SceneFairness

-----------------------------------------------------------------------------
(* Properties, beside TaskAsAssigned of DispatchDesk *)

(* Every candidate carries the distance of its own route, the provider is   *)
(* asked about the nearest, a known road never stands behind an estimate,   *)
(* and every driver found is a candidate or counted under one reason        *)
(* (RouteMetricsService, AssignmentCandidatesService).                      *)
RankedByOwnRoute ==
    scene = "reasons" => /\ Reasons!TypeOK
                         /\ Reasons!OwnMetric /\ Reasons!CallsSpentOnNearest
                         /\ Reasons!KnownRoadsFirst /\ Reasons!EveryDriverAccounted

(* A rejection comes to be seen on the pickup page over lost events and     *)
(* reconnections, and a listing ends whatever Redis and the provider do.    *)
RejectionsAndListsEnd ==
    /\ (scene = "pickup" /\ desk[u1].missed) ~> (scene = "pickup" /\ ~desk[u1].missed)
    /\ (scene = "ends" /\ list.pc \in {"locate", "route"})
         ~> (scene = "ends" /\ list.pc = "answered")
=============================================================================
