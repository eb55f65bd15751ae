----------------------------- MODULE MCTracking -----------------------------
(***************************************************************************)
(* Pages that follow something by polling: the live map of LiveTracking    *)
(* and the shipment page behind the cache of ShipmentCache, as two scenes  *)
(* chosen in the initial state. A scene moves its own variables under the  *)
(* fairness of its own module.                                             *)
(***************************************************************************)
EXTENDS Integers, Sequences

CONSTANTS g1, c1, r1, poll, owner, None

VARIABLES scene,
          now, trip, store, dev, runs, gps, phone, watcher, sock, page, leak,
          row, cache, command, request, shown

mapVars == <<now, trip, store, dev, runs, gps, phone, watcher, sock, page, leak>>
cacheVars == <<row, cache, command, request, shown>>
vars == <<scene, mapVars, cacheVars>>

Map == INSTANCE LiveTracking WITH
    Calls <- {g1}, TTL <- 1, Required <- 2, MaxTime <- 2, MaxRoute <- 1, MaxQueue <- 1,
    Parts <- {"page"}

(* Redis and processes may fail. *)
Summary == INSTANCE ShipmentCache WITH
    Commands <- {c1}, Requests <- {r1}, Poll <- poll, Users <- {owner}, Owner <- owner,
    Faulty <- TRUE, MaxChange <- 1

ASSUME Map!BoundAssumption /\ Map!PartsAssumption /\ Map!NoneAssumption
ASSUME Summary!CacheAssumption

NoMap == /\ now = None /\ trip = None /\ store = None /\ dev = None /\ runs = None /\ gps = None
         /\ phone = None /\ watcher = None /\ sock = None /\ page = None /\ leak = None
NoSummary == row = None /\ cache = None /\ command = None /\ request = None /\ shown = None

Init == \/ scene = "map" /\ Map!Init /\ NoSummary
        \/ scene = "summary" /\ Summary!Init /\ NoMap

MapStep == scene = "map" /\ UNCHANGED <<scene, cacheVars>> /\ Map!Next
SummaryStep == scene = "summary" /\ UNCHANGED <<scene, mapVars>> /\ Summary!Next

(* The fairness of the two modules, each in its scene. *)
InMap(A) == scene = "map" /\ A /\ UNCHANGED <<scene, cacheVars>>
InSummary(A) == scene = "summary" /\ A /\ UNCHANGED <<scene, mapVars>>
Fairness ==
    /\ WF_vars(InMap(Map!Fetch)) /\ SF_vars(InMap(Map!Fetched \/ Map!FetchFails))
    /\ WF_vars(InMap(Map!PhoneStop))
    /\ WF_vars(InSummary(Summary!AskPage))
    /\ \A r \in {r1, poll} : /\ WF_vars(InSummary(Summary!Serve(r)))
                             /\ SF_vars(InSummary(Summary!Answer(r)))
    /\ \A k \in Summary!CacheKeys : WF_vars(InSummary(Summary!Expire(k)))

Spec == Init /\ [][MapStep \/ SummaryStep]_vars /\ Fairness

-----------------------------------------------------------------------------
(* Properties, as the two modules state them *)

(* An arrived trip leaves the page for good, however the push of its end    *)
(* and the fetches fail, and the phone stops posting to it; its marker goes *)
(* at the latest TTL after the arrival, and does not come back with a fetch *)
(* that was under way.                                                      *)
ArrivalReachesAll ==
    /\ [](scene = "map" => Map!TypeOK /\ Map!MarkerGoneAfterArrival /\ Map!EndedStaysEnded)
    /\ (scene = "map" /\ trip.status = "ARRIVED")
         ~> [](scene = "map" /\ (page.listed => page.failed) /\ phone = "stopped")

(* Once the shipment stops changing, its page comes to show it as it is.    *)
PageCatchesUp == (scene = "summary") ~> [](shown = row)
=============================================================================
