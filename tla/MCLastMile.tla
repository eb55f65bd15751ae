----------------------------- MODULE MCLastMile -----------------------------
(* Instances of LastMile for TLC. *)
EXTENDS LastMile, TLC

AllCapabilities == {Capability}
TwoCapabilitySets == {Capability, {"DELIVERY"}}
RequestSymmetry == Permutations(Requests)
Symmetry == Permutations(Drivers) \cup RequestSymmetry
WorkloadSymmetry == Permutations(Assignments) \cup Permutations(Warehouses) \cup RequestSymmetry

(* A driver's work beside the line-haul trip, the warehouse and the         *)
(* capabilities: one parcel. Two parcels that compete for one driver: no    *)
(* trip, one warehouse. An element that is not used stays as it is created. *)
OneParcel == /\ \A s \in Shipments \ CodShipments : ship[s].version = 0
             /\ Cardinality({a \in Assignments : asg[a].status # "NONE"}) <= 1
             /\ \A r \in Requests : req[r].shipment \in CodShipments \cup {None}
TwoParcels == /\ \A t \in Trips : trip[t] = NoTrip
              /\ \A d \in Drivers : driver[d].caps = Capability
              /\ Cardinality({driver[d].warehouse : d \in Drivers}
                                \cup {ship[s].origin : s \in Shipments}
                                \cup {ship[s].dest : s \in Shipments}
                                \cup {req[r].warehouse : r \in Requests} \cup {None}) <= 2

WorkloadBound == OneParcel \/ TwoParcels
=============================================================================
