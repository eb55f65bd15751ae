-------------------------- MODULE MCWarehouseDesk --------------------------
(***************************************************************************)
(* The instance of WarehouseDesk for TLC, in scenes chosen in the initial  *)
(* state, each with a part of the warehouses, keys, calls and versions.    *)
(*                                                                         *)
(*   routing:      the network without a page: commands, administration    *)
(*                 and trips                                               *)
(*   sending:      the page of the office while colleagues make and send   *)
(*                 transfers of their own                                  *)
(*   sorted again: three warehouses, so that a parcel can be sorted again  *)
(*                 elsewhere, and the whole way of a transfer              *)
(*   weighing:     two weights, and only the check-in and what follows at  *)
(*                 once                                                    *)
(*   moved:        a clerk who is moved, one warehouse at a time that      *)
(*                 closes, trips that carry transfers                      *)
(***************************************************************************)
EXTENDS WarehouseDesk, TLC

CONSTANTS w1, w2, w3, s1, x1, x2, u1, office, r1, r2

VARIABLE scene

sceneVars == <<scene, vars, deskVars>>

ASSUME SitesAssumption /\ WeightsAssumption

Pages == {"sending", "sorted again", "weighing", "moved"}

(* What the page is used for; everything else is done by colleagues.        *)
Dialogs ==
    CASE scene = "weighing" -> {"checkIn", "routeDestination"}
      [] scene = "sorted again" -> Kinds \ {"checkIn"}
      [] scene \in {"sending", "moved"} -> Kinds \ {"checkIn", "markReadyForDelivery"}

(* Keys and calls are alike, so that it does not matter which of them a     *)
(* scene leaves out.                                                        *)

Used ==
    /\ scene # "sending" => transfer[x2] = NoTransfer /\ pressed[x2] = {} /\ desk.x # x2
    /\ scene \in {"sorted again", "moved"} => req[r2] = Idle /\ call[r2] = NoCall
    /\ scene # "sorted again" =>
         /\ site[w3].status = "ACTIVE"
         /\ parcel[s1].origin # w3 /\ parcel[s1].dest # w3
         /\ desk.at # w3 /\ desk.dest # w3
         /\ \A u \in Staff : staff[u].site # w3
         /\ \A r \in Requests : req[r].at # w3
    /\ scene \in Pages =>
         /\ \A w \in Sites : site[w].status # "NONE"
         /\ Open(w1) \/ Open(w2)
         /\ era = "off"
         /\ clerk = IF scene = "moved" THEN u1 ELSE office
         /\ desk.dialog \in Dialogs \cup {"none"}
         /\ scene # "weighing" => /\ parcel[s1].weight # 2
                                  /\ \A r \in Requests : call[r] # NoCall => call[r].weight # 2
         /\ parcel[s1].version <= CASE scene = "weighing" -> 2
                                    [] scene \in {"sending", "moved"} -> 3
                                    [] scene = "sorted again" -> 4
    /\ scene = "routing" => desk = Blank(None) /\ clerk = office

SceneInit == DeskInit /\ scene \in Pages \cup {"routing"} /\ Used

(* Administration goes on without a page and while a clerk is moved, trips  *)
(* in the same scenes.                                                      *)
SceneNext ==
    /\ UNCHANGED scene
    /\ \/ scene = "routing" /\ UNCHANGED deskVars /\ Next
       \/ scene = "moved" /\ DeskNext /\ \A u \in Staff : staff'[u].active \/ ~staff[u].active
       \/ scene \in Pages \ {"moved"} /\ UNCHANGED <<site, staff, carriage>> /\ DeskNext
    /\ Used'

SceneSpec == SceneInit /\ [][SceneNext]_sceneVars

Alike == Permutations({w1, w2}) \cup Permutations({r1, r2}) \cup Permutations({x1, x2})
=============================================================================
