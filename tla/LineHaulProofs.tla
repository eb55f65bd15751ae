--------------------------- MODULE LineHaulProofs ---------------------------
(***************************************************************************)
(* Proofs about line-haul trips, for any number of trips, vehicles,        *)
(* drivers, transfers and commands in flight.                              *)
(*                                                                         *)
(* Trips implement what the warehouse network expects of the carriage of a *)
(* transfer, so the invariant of the network (WarehousesProofs, with the   *)
(* carriage read off the manifests) holds here too. On it rest the weights *)
(* of manifests; the rest is what a trip says of its vehicle, its driver   *)
(* and its manifest, and what a command in flight knows of its trip.       *)
(***************************************************************************)
EXTENDS LineHaul, FiniteSetTheorems, WellFoundedInduction, TLAPS

-----------------------------------------------------------------------------
(* The weight of a manifest                                                 *)
(*                                                                          *)
(* What Weigh computes, for every manifest: the weight of a set of          *)
(* transfers is that of any one of them and of the others, whichever the    *)
(* fold takes first (sum of manifest weights, line-haul-capacity).          *)
(* Induction over finite sets is stated with sets, not with predicates: a   *)
(* nonempty set of subsets of a finite set has a minimal member.            *)

LEMMA Minimal ==
    ASSUME NEW S, IsFiniteSet(S), NEW B \in SUBSET (SUBSET S), B # {}
    PROVE  \E X \in B : \A Y \in B : ~(Y \subseteq X /\ Y # X)
<1>1. IsWellFoundedOn(StrictSubsetOrdering(S), FiniteSubsetsOf(S))
  BY FS_StrictSubsetOrderingWellFounded
<1>2. B \subseteq FiniteSubsetsOf(S)
  BY FS_Subset DEF FiniteSubsetsOf
<1>3. PICK X \in B : \A Y \in B : ~(<<Y, X>> \in StrictSubsetOrdering(S))
  BY <1>1, <1>2, WFMin
<1> QED
  BY <1>3 DEF StrictSubsetOrdering

LEMMA Least ==
    ASSUME NEW B \in SUBSET Nat, B # {}
    PROVE  \E n \in B : \A m \in B : n <= m
<1>1. PICK k \in B : TRUE
  OBVIOUS
<1> DEFINE C == {1 .. m : m \in B \cap 0 .. k}
<1>2. C \in SUBSET (SUBSET (1 .. k)) /\ C # {} /\ IsFiniteSet(1 .. k)
  <2>1. k \in Int /\ 1 \in Int
    BY <1>1
  <2>2. IsFiniteSet(1 .. k)
    BY <2>1, FS_Interval
  <2>3. k \in B \cap 0 .. k
    BY <1>1
  <2>4. ASSUME NEW m \in B \cap 0 .. k
        PROVE  1 .. m \in SUBSET (1 .. k)
    BY <1>1
  <2> QED
    BY <2>2, <2>3, <2>4
<1>3. PICK Y \in C : \A Z \in C : ~(Z \subseteq Y /\ Z # Y)
  <2>1. PICK S, D : S = 1 .. k /\ D = C
    OBVIOUS
  <2> HIDE DEF C
  <2>2. IsFiniteSet(S) /\ D \in SUBSET (SUBSET S) /\ D # {}
    BY <1>2, <2>1
  <2>3. \E Y \in D : \A Z \in D : ~(Z \subseteq Y /\ Z # Y)
    BY <2>2, Minimal
  <2> QED
    BY <2>1, <2>3
<1>4. PICK n \in B \cap 0 .. k : Y = 1 .. n
  BY <1>3
<1>5. ASSUME NEW m \in B
      PROVE  n <= m
  <2> SUFFICES ASSUME m < n PROVE FALSE
    BY <1>4
  <2>1. m \in B \cap 0 .. k /\ n \in 1 .. n /\ n \notin 1 .. m /\ 1 .. m \subseteq 1 .. n
    BY <1>1, <1>4
  <2> QED
    BY <1>3, <1>4, <2>1
<1> QED
  BY <1>4, <1>5

-----------------------------------------------------------------------------
(* The fold *)

Grams(p, f, x) == p[f[x].parcel].weight
Total(p, f, X) == MapThenSumSet(LAMBDA x : p[f[x].parcel].weight, X)

First(s) == CHOOSE x \in s : TRUE
Step(p, f, g, s) == IF s = {} THEN 0 ELSE Grams(p, f, First(s)) + g[s \ {First(s)}]
Adds(p, f, X, g) == g = [s \in SUBSET X |-> Step(p, f, g, s)]

LEMMA FirstIn ==
    ASSUME NEW s, s # {}
    PROVE  First(s) \in s
BY DEF First

LEMMA TotalDef ==
    ASSUME NEW p, NEW f, NEW X
    PROVE  Total(p, f, X) = (CHOOSE g : Adds(p, f, X, g))[X]
BY DEF Total, MapThenSumSet, MapThenFoldSet, First, Step, Adds, Grams

(* Two functions that add up the same weights agree.                        *)
LEMMA AddsAgree ==
    ASSUME NEW p, NEW f, NEW q, NEW h, NEW X, NEW Y, IsFiniteSet(Y), Y \subseteq X,
           \A x \in Y : Grams(p, f, x) = Grams(q, h, x),
           NEW a, Adds(p, f, X, a), NEW b, Adds(q, h, Y, b)
    PROVE  \A s \in SUBSET Y : a[s] = b[s]
<1> DEFINE B == {s \in SUBSET Y : a[s] # b[s]}
<1> SUFFICES ASSUME B # {} PROVE FALSE
  OBVIOUS
<1>1. PICK s \in B : \A t \in B : ~(t \subseteq s /\ t # s)
  <2>1. B \in SUBSET (SUBSET Y)
    OBVIOUS
  <2> HIDE DEF B
  <2> QED
    BY <2>1, Minimal
<1>2. s \in SUBSET Y /\ s \in SUBSET X /\ a[s] # b[s]
  OBVIOUS
<1>3. a[s] = Step(p, f, a, s) /\ b[s] = Step(q, h, b, s)
  BY <1>2 DEF Adds
<1>4. s # {}
  BY <1>2, <1>3 DEF Step
<1>5. First(s) \in s
  BY <1>4, FirstIn
<1>6. a[s \ {First(s)}] = b[s \ {First(s)}]
  <2>1. s \ {First(s)} \in SUBSET Y /\ s \ {First(s)} \subseteq s /\ s \ {First(s)} # s
    BY <1>2, <1>5
  <2> QED
    BY <1>1, <2>1
<1>7. Grams(p, f, First(s)) = Grams(q, h, First(s))
  BY <1>2, <1>5
<1> QED
  BY <1>2, <1>3, <1>4, <1>6, <1>7 DEF Step

(* There is a function that adds up the weights.                            *)
LEMMA AddsExists ==
    ASSUME NEW p, NEW f, NEW X, IsFiniteSet(X), \A x \in X : Grams(p, f, x) \in Nat
    PROVE  \E g \in [SUBSET X -> Nat] : Adds(p, f, X, g)
<1> DEFINE Up(g, n) == \A s \in SUBSET X : Cardinality(s) < n => g[s] = Step(p, f, g, s)
           B == {n \in Nat : ~\E g \in [SUBSET X -> Nat] : Up(g, n)}
<1>1. \A s \in SUBSET X : IsFiniteSet(s) /\ Cardinality(s) \in Nat /\ Cardinality(s) <= Cardinality(X)
  BY FS_Subset, FS_CardinalityType
<1>2. 0 \notin B
  <2>1. [s \in SUBSET X |-> 0] \in [SUBSET X -> Nat] /\ Up([s \in SUBSET X |-> 0], 0)
    BY <1>1
  <2> QED
    BY <2>1
<1>3. ASSUME NEW n \in Nat, n \notin B
      PROVE  n + 1 \notin B
  <2>1. PICK g \in [SUBSET X -> Nat] : Up(g, n)
    BY <1>3
  <2> DEFINE h == [s \in SUBSET X |-> Step(p, f, g, s)]
  <2>2. ASSUME NEW s \in SUBSET X
        PROVE  Step(p, f, g, s) \in Nat
    <3>1. CASE s = {}
      BY <3>1 DEF Step
    <3>2. CASE s # {}
      <4>1. First(s) \in s /\ s \ {First(s)} \in SUBSET X
        BY <3>2, FirstIn
      <4>2. Grams(p, f, First(s)) \in Nat /\ g[s \ {First(s)}] \in Nat
        BY <4>1
      <4> QED
        BY <3>2, <4>2 DEF Step
    <3> QED
      BY <3>1, <3>2
  <2>3. h \in [SUBSET X -> Nat]
    BY <2>2
  <2>4. ASSUME NEW s \in SUBSET X, Cardinality(s) < n + 1
        PROVE  h[s] = Step(p, f, h, s)
    <3>1. CASE s = {}
      BY <3>1 DEF Step
    <3>2. CASE s # {}
      <4>1. PICK t : t = s \ {First(s)}
        OBVIOUS
      <4>2. First(s) \in s /\ t \in SUBSET X
        BY <3>2, <4>1, FirstIn
      <4>3. Cardinality(t) = Cardinality(s) - 1
        BY <1>1, <4>1, <4>2, FS_RemoveElement
      <4>4. Cardinality(t) < n
        BY <1>1, <2>4, <4>3
      <4>5. g[t] = Step(p, f, g, t)
        BY <2>1, <4>2, <4>4
      <4>6. h[t] = g[t]
        BY <4>2, <4>5
      <4>7. h[s] = Grams(p, f, First(s)) + g[t]
        BY <3>2, <4>1 DEF Step
      <4> HIDE DEF h
      <4> QED
        BY <3>2, <4>1, <4>6, <4>7 DEF Step
    <3> QED
      BY <3>1, <3>2
  <2> HIDE DEF h
  <2>5. Up(h, n + 1)
    BY <2>4
  <2> QED
    BY <2>3, <2>5
<1>4. B = {}
  <2> SUFFICES ASSUME B # {} PROVE FALSE
    OBVIOUS
  <2>1. B \in SUBSET Nat
    OBVIOUS
  <2> HIDE DEF B
  <2>2. PICK n \in B : \A m \in B : n <= m
    BY <2>1, Least
  <2>3. n \in Nat /\ n # 0
    BY <1>2, <2>1
  <2>4. n - 1 \in Nat /\ n - 1 \notin B /\ (n - 1) + 1 = n
    BY <2>2, <2>3, <2>1
  <2> QED
    BY <1>3, <2>4
<1>5. PICK g \in [SUBSET X -> Nat] : Up(g, Cardinality(X) + 1)
  <2>1. Cardinality(X) + 1 \in Nat
    BY FS_CardinalityType
  <2> QED
    BY <1>4, <2>1
<1>6. \A s \in SUBSET X : g[s] = Step(p, f, g, s)
  <2>1. Cardinality(X) \in Nat
    BY FS_CardinalityType
  <2> QED
    BY <1>1, <1>5, <2>1
<1>7. g = [s \in SUBSET X |-> Step(p, f, g, s)]
  BY <1>6
<1> QED
  BY <1>7 DEF Adds

-----------------------------------------------------------------------------
(* The sum *)

Weighs(p, f, X) == IsFiniteSet(X) /\ \A x \in X : Grams(p, f, x) \in Nat

LEMMA WeighsLess ==
    ASSUME NEW p, NEW f, NEW X, Weighs(p, f, X), NEW Y \in SUBSET X
    PROVE  Weighs(p, f, Y)
BY FS_Subset DEF Weighs

LEMMA TotalAdds ==
    ASSUME NEW p, NEW f, NEW X, Weighs(p, f, X)
    PROVE  \E g \in [SUBSET X -> Nat] : Adds(p, f, X, g) /\ Total(p, f, X) = g[X]
<1>1. PICK h \in [SUBSET X -> Nat] : Adds(p, f, X, h)
  BY AddsExists DEF Weighs
<1>2. PICK g : g = CHOOSE k : Adds(p, f, X, k)
  OBVIOUS
<1>3. Adds(p, f, X, g)
  BY <1>1, <1>2
<1>4. Total(p, f, X) = g[X]
  BY <1>2, TotalDef
<1>5. X \subseteq X /\ \A x \in X : Grams(p, f, x) = Grams(p, f, x)
  OBVIOUS
<1>6. \A s \in SUBSET X : g[s] = h[s]
  BY <1>1, <1>3, <1>5, AddsAgree DEF Weighs
<1>7. g[X] = h[X]
  BY <1>6
<1> QED
  BY <1>1, <1>4, <1>7

(* The weight is a natural number, and nothing weighs nothing.              *)
LEMMA TotalNat ==
    ASSUME NEW p, NEW f, NEW X, Weighs(p, f, X)
    PROVE  Total(p, f, X) \in Nat /\ (X = {} => Total(p, f, X) = 0)
<1>1. PICK g \in [SUBSET X -> Nat] : Adds(p, f, X, g) /\ Total(p, f, X) = g[X]
  BY TotalAdds
<1>2. g[X] = Step(p, f, g, X)
  BY <1>1 DEF Adds
<1> QED
  BY <1>1, <1>2 DEF Step

(* Manifests whose transfers weigh the same weigh the same.                 *)
LEMMA TotalSame ==
    ASSUME NEW p, NEW f, NEW q, NEW h, NEW X, Weighs(p, f, X),
           \A x \in X : Grams(p, f, x) = Grams(q, h, x)
    PROVE  Total(p, f, X) = Total(q, h, X)
<1>1. Weighs(q, h, X)
  BY DEF Weighs
<1>2. PICK a \in [SUBSET X -> Nat] : Adds(p, f, X, a) /\ Total(p, f, X) = a[X]
  BY TotalAdds
<1>3. PICK b \in [SUBSET X -> Nat] : Adds(q, h, X, b) /\ Total(q, h, X) = b[X]
  BY <1>1, TotalAdds
<1>4. X \subseteq X /\ IsFiniteSet(X)
  BY DEF Weighs
<1>5. \A s \in SUBSET X : a[s] = b[s]
  BY <1>2, <1>3, <1>4, AddsAgree
<1> QED
  BY <1>2, <1>3, <1>5

LEMMA TotalFirst ==
    ASSUME NEW p, NEW f, NEW X, Weighs(p, f, X), X # {}
    PROVE  Total(p, f, X) = Grams(p, f, First(X)) + Total(p, f, X \ {First(X)})
<1>1. PICK g \in [SUBSET X -> Nat] : Adds(p, f, X, g) /\ Total(p, f, X) = g[X]
  BY TotalAdds
<1>2. PICK Y : Y = X \ {First(X)}
  OBVIOUS
<1>3. Y \in SUBSET X
  BY <1>2
<1>4. Weighs(p, f, Y)
  BY <1>3, WeighsLess
<1>5. PICK h \in [SUBSET Y -> Nat] : Adds(p, f, Y, h) /\ Total(p, f, Y) = h[Y]
  BY <1>4, TotalAdds
<1>6. \A s \in SUBSET Y : g[s] = h[s]
  <2>1. IsFiniteSet(Y) /\ Y \subseteq X /\ \A x \in Y : Grams(p, f, x) = Grams(p, f, x)
    BY <1>3, <1>4 DEF Weighs
  <2> QED
    BY <1>1, <1>5, <2>1, AddsAgree
<1>7. g[X] = Grams(p, f, First(X)) + g[Y]
  BY <1>1, <1>2 DEF Adds, Step
<1> QED
  BY <1>1, <1>2, <1>5, <1>6, <1>7

(* The weight of a manifest is that of any of its transfers and of the      *)
(* others.                                                                  *)
LEMMA TotalRemove ==
    ASSUME NEW p, NEW f, NEW X, Weighs(p, f, X), NEW x \in X
    PROVE  Total(p, f, X) = Grams(p, f, x) + Total(p, f, X \ {x})
<1> DEFINE Fits(Y, y) == Total(p, f, Y) = Grams(p, f, y) + Total(p, f, Y \ {y})
           B == {Y \in SUBSET X : \E y \in Y : ~Fits(Y, y)}
<1> SUFFICES ASSUME B # {} PROVE FALSE
  OBVIOUS
<1>1. PICK Y \in B : \A Z \in B : ~(Z \subseteq Y /\ Z # Y)
  <2>1. B \in SUBSET (SUBSET X) /\ IsFiniteSet(X)
    BY DEF Weighs
  <2> HIDE DEF B
  <2> QED
    BY <2>1, Minimal
<1>2. PICK y \in Y : ~Fits(Y, y)
  BY <1>1
<1>3. ASSUME NEW Z \in SUBSET Y, Z # Y, NEW z \in Z
      PROVE  Fits(Z, z)
  BY <1>1, <1>3
<1>4. PICK c : c = First(Y)
  OBVIOUS
<1>5. c \in Y /\ Y \in SUBSET X
  BY <1>1, <1>2, <1>4, FirstIn
<1>6. Weighs(p, f, Y) /\ Weighs(p, f, (Y \ {c}) \ {y})
  <2>1. (Y \ {c}) \ {y} \in SUBSET X
    BY <1>5
  <2> QED
    BY <1>5, <2>1, WeighsLess
<1>7. Total(p, f, Y) = Grams(p, f, c) + Total(p, f, Y \ {c})
  BY <1>2, <1>4, <1>6, TotalFirst
<1>8. y # c
  BY <1>2, <1>7
<1>9. Total(p, f, Y \ {c}) = Grams(p, f, y) + Total(p, f, (Y \ {c}) \ {y})
  <2>1. Y \ {c} \in SUBSET Y /\ Y \ {c} # Y /\ y \in Y \ {c}
    BY <1>5, <1>8
  <2> QED
    BY <1>3, <2>1
<1>10. Total(p, f, Y \ {y}) = Grams(p, f, c) + Total(p, f, (Y \ {y}) \ {c})
  <2>1. Y \ {y} \in SUBSET Y /\ Y \ {y} # Y /\ c \in Y \ {y}
    BY <1>5, <1>8
  <2> QED
    BY <1>3, <2>1
<1>11. (Y \ {y}) \ {c} = (Y \ {c}) \ {y}
  OBVIOUS
<1>12. /\ Grams(p, f, y) \in Nat /\ Grams(p, f, c) \in Nat
       /\ Total(p, f, (Y \ {c}) \ {y}) \in Nat
  BY <1>5, <1>6, TotalNat DEF Weighs
<1>13. Total(p, f, Y) = Grams(p, f, y) + Total(p, f, Y \ {y})
  <2> HIDE DEF B
  <2> QED
    BY <1>7, <1>9, <1>10, <1>11, <1>12
<1> QED
  BY <1>2, <1>13

(* A manifest without one of its transfers weighs no more.                  *)
LEMMA TotalLess ==
    ASSUME NEW p, NEW f, NEW X, Weighs(p, f, X), NEW x
    PROVE  Total(p, f, X \ {x}) <= Total(p, f, X)
<1>1. CASE x \in X
  <2>1. Total(p, f, X) = Grams(p, f, x) + Total(p, f, X \ {x})
    BY <1>1, TotalRemove
  <2>2. Weighs(p, f, X \ {x})
    BY WeighsLess
  <2>3. Grams(p, f, x) \in Nat /\ Total(p, f, X \ {x}) \in Nat
    BY <1>1, <2>2, TotalNat DEF Weighs
  <2> QED
    BY <2>1, <2>3
<1>2. CASE x \notin X
  <2>1. X \ {x} = X /\ Total(p, f, X) \in Nat
    BY <1>2, TotalNat
  <2> QED
    BY <2>1
<1> QED
  BY <1>1, <1>2

(* Weigh is that sum, before a step and after it.                           *)
LEMMA WeighTotal ==
    ASSUME NEW X
    PROVE  Weigh(X) = Total(parcel, transfer, X)
BY DEF Weigh, Total

LEMMA WeighTotalNext ==
    ASSUME NEW X
    PROVE  Weigh(X)' = Total(parcel', transfer', X)
BY DEF Weigh, Total, MapThenSumSet, MapThenFoldSet

-----------------------------------------------------------------------------
(* The network and the constants *)

(* The trips are the carriage of the network, which here has no page.       *)
HubP == INSTANCE WarehousesProofs WITH carriage <- Riding, clerk <- None, desk <- None,
                                       call <- None, pressed <- None

(* The constants are as the code has them.                                  *)
Assumptions == /\ Hub!SitesAssumption /\ Hub!WeightsAssumption
               /\ WindowsAssumption /\ CapacitiesAssumption /\ TransfersAssumption

-----------------------------------------------------------------------------
(* The inductive invariant *)

(* What a trip says of itself, of its vehicle and of its driver.            *)
TripShape(t) ==
    /\ trip[t].status # "NONE" =>
         /\ trip[t].from \in Sites /\ trip[t].to \in Sites
         /\ trip[t].driver \in Drivers /\ trip[t].vehicle \in Vehicles
         /\ vehicle[trip[t].vehicle].status # "NONE"
    /\ trip[t].status \in {"NONE", "CANCELLED"} => manifest[t] = {}
    /\ trip[t].status \in {"NONE", "PLANNED"} => trip[t].route = 0
    /\ trip[t].route <= trip[t].version
    /\ trip[t].status = "READY" => vehicle[trip[t].vehicle].status \in {"AVAILABLE", "IN_USE"}
    /\ trip[t].status = "IN_TRANSIT" => vehicle[trip[t].vehicle].status = "IN_USE"
    /\ trip[t].status \in {"READY", "IN_TRANSIT"} =>
         /\ driver[trip[t].driver].eligible /\ ~driver[trip[t].driver].busy
         /\ trip[t].window # None /\ manifest[t] # {}

(* A vehicle in use is driven, and by one trip.                             *)
VehicleShape(v) ==
    /\ vehicle[v].status = "IN_USE"
         => \E t \in Trips : trip[t].vehicle = v /\ trip[t].status = "IN_TRANSIT"
    /\ \A t, u \in Trips : /\ trip[t].vehicle = v /\ trip[t].status = "IN_TRANSIT"
                           /\ trip[u].vehicle = v /\ trip[u].status = "IN_TRANSIT"
                           => t = u

(* A transfer rides on one trip, which goes where the transfer goes.        *)
RideShape(x) ==
    /\ \A t \in Trips : x \in manifest[t] => /\ transfer[x].status # "NONE"
                                             /\ transfer[x].from = trip[t].from
                                             /\ transfer[x].to = trip[t].to
    /\ \A t, u \in Trips : x \in manifest[t] /\ x \in manifest[u] => t = u

(* Two active trips that share a driver or a vehicle are apart.             *)
Apart(t, u) ==
    ( /\ t # u /\ trip[t].status \in Active /\ trip[u].status \in Active
      /\ trip[t].window # None /\ trip[u].window # None
      /\ trip[t].driver = trip[u].driver \/ trip[t].vehicle = trip[u].vehicle )
    => ~Overlaps(trip[t].window, trip[u].window)

(* A manifest weighs what its vehicle may carry, and what was prepared.     *)
Fits(t) ==
    /\ trip[t].status \in Active /\ manifest[t] # {}
         => Within(Total(parcel, transfer, manifest[t]), vehicle[trip[t].vehicle].capacity)
    /\ trip[t].status \in {"READY", "IN_TRANSIT", "ARRIVED"}
         => /\ trip[t].loaded = Total(parcel, transfer, manifest[t])
            /\ Within(trip[t].loaded, trip[t].limit)

(* What a command in flight knows: assignTransfer holds its trip and its    *)
(* transfer, a screen the window of the version it shows.                   *)
TaskShape(q) ==
    /\ task[q].cmd = "assignTransfer" =>
         /\ trip[task[q].trip].status = "PLANNED"
         /\ MatchesTrip(task[q].transfer, task[q].trip)
         /\ ~OnTrip(task[q].transfer)
         /\ task[q].capacity = vehicle[trip[task[q].trip].vehicle].capacity
    /\ task[q].cmd \in {"schedule", "reschedule", "unschedule"} =>
         /\ trip[task[q].trip].status # "NONE"
         /\ task[q].version <= trip[task[q].trip].version
         /\ task[q].version = trip[task[q].trip].version
              => task[q].window = trip[task[q].trip].window
    /\ task[q].cmd = "recalculateRoute" => task[q].route > 0

LocksApart ==
    \A q, p \in Tasks : /\ q # p /\ task[q].cmd = "assignTransfer" /\ task[p].cmd = "assignTransfer"
                        => task[q].trip # task[p].trip /\ task[q].transfer # task[p].transfer

TripsInv == /\ \A t \in Trips : TripShape(t) /\ Fits(t)
            /\ \A t, u \in Trips : Apart(t, u)
            /\ \A v \in Vehicles : VehicleShape(v)
            /\ \A x \in Transfers : RideShape(x)

TasksInv == LocksApart /\ \A q \in Tasks : TaskShape(q)

IInv == HubP!IInv /\ TypeOK /\ TripsInv /\ TasksInv

-----------------------------------------------------------------------------
(* The network of WarehousesProofs is the network of LineHaul.              *)
LEMMA SameNetwork == Hub!Next <=> HubP!Next
BY DEF Hub!Next, HubP!Next, Hub!Administration, HubP!Administration, Hub!Commands,
       HubP!Commands, Hub!CarriageStep, HubP!CarriageStep, Hub!CreateWarehouse,
       HubP!CreateWarehouse, Hub!UpdateWarehouse, HubP!UpdateWarehouse,
       Hub!ToggleWarehouseStatus, HubP!ToggleWarehouseStatus, Hub!AssignStaff,
       HubP!AssignStaff, Hub!ToggleStaffStatus, HubP!ToggleStaffStatus, Hub!Cutover,
       HubP!Cutover, Hub!Begin, HubP!Begin, Hub!CheckInRead, HubP!CheckInRead,
       Hub!MarkReadyRead, HubP!MarkReadyRead, Hub!BeginRead, HubP!BeginRead, Hub!InScope,
       HubP!InScope, Hub!Refused, HubP!Refused, Hub!MarkReadyForDelivery,
       HubP!MarkReadyForDelivery, Hub!CheckIn, HubP!CheckIn, Hub!UnchangedSince,
       HubP!UnchangedSince, Hub!SetParcel, HubP!SetParcel, Hub!RouteDestination,
       HubP!RouteDestination, Hub!LiveTransfers, HubP!LiveTransfers, Hub!CreateTransfer,
       HubP!CreateTransfer, Hub!DispatchTransfer, HubP!DispatchTransfer,
       Hub!ReceiveTransfer, HubP!ReceiveTransfer, Hub!Dispatchable, HubP!Dispatchable,
       Hub!PutOnRoad, HubP!PutOnRoad, Hub!ReceiveAllowed, HubP!ReceiveAllowed,
       Hub!StandaloneReceive, HubP!StandaloneReceive, Hub!Open, HubP!Open, Hub!Load,
       HubP!Load, Hub!Unload, HubP!Unload, Hub!Seal, HubP!Seal, Hub!Depart, HubP!Depart,
       Hub!Arrive, HubP!Arrive, Hub!Ride, HubP!Ride, Hub!Idle, HubP!Idle, Hub!Live,
       HubP!Live, Hub!Command, HubP!Command

LEMMA SameStart == Hub!Init <=> HubP!Init
BY DEF Hub!Init, HubP!Init, Hub!Open, HubP!Open, Hub!NoTransfer, HubP!NoTransfer, Hub!Idle,
       HubP!Idle

-----------------------------------------------------------------------------
(* The carriage of a transfer *)

RideIn(m, st) == [x \in Transfers |-> IF \E t \in Trips : x \in m[t]
                                      THEN st[CHOOSE t \in Trips : x \in m[t]].status
                                      ELSE "none"]

LEMMA Rides ==
    ASSUME NEW m, NEW st, NEW x \in Transfers,
           \A t, u \in Trips : x \in m[t] /\ x \in m[u] => t = u
    PROVE  /\ \A t \in Trips : x \in m[t] => RideIn(m, st)[x] = st[t].status
           /\ (\A t \in Trips : x \notin m[t]) => RideIn(m, st)[x] = "none"
<1>1. ASSUME NEW t \in Trips, x \in m[t]
      PROVE  RideIn(m, st)[x] = st[t].status
  <2>1. PICK c : c = CHOOSE u \in Trips : x \in m[u]
    OBVIOUS
  <2>2. c \in Trips /\ x \in m[c]
    BY <1>1, <2>1
  <2>3. c = t
    BY <1>1, <2>2
  <2> QED
    BY <1>1, <2>1, <2>3 DEF RideIn
<1> QED
  BY <1>1 DEF RideIn

LEMMA RidingIs == Riding = RideIn(manifest, trip) /\ Riding' = RideIn(manifest', trip')
BY DEF Riding, RideIn

(* A transfer that no trip touches keeps its carriage.                      *)
Untouched(x) == \A t \in Trips : /\ x \in manifest'[t] <=> x \in manifest[t]
                                 /\ x \in manifest[t] => trip'[t].status = trip[t].status

(* Transfers that a step leaves with carriage c.                            *)
LeftWith(x, c) == \/ \E t \in Trips : x \in manifest'[t] /\ trip'[t].status = c
                  \/ c = "none" /\ \A t \in Trips : x \notin manifest'[t]

OneTrip(x) == \A t, u \in Trips : x \in manifest[t] /\ x \in manifest[u] => t = u

LEMMA RideStep ==
    ASSUME \A x \in Transfers : OneTrip(x) /\ OneTrip(x)',
           NEW X \in SUBSET Transfers, NEW c, \A x \in X : LeftWith(x, c),
           \A x \in Transfers \ X : Untouched(x)
    PROVE  Hub!Ride(X, c)
<1>1. ASSUME NEW x \in Transfers
      PROVE  Riding'[x] = IF x \in X THEN c ELSE Riding[x]
  <2>1. /\ \A t \in Trips : x \in manifest[t] => Riding[x] = trip[t].status
        /\ (\A t \in Trips : x \notin manifest[t]) => Riding[x] = "none"
    BY RidingIs, Rides DEF OneTrip
  <2>2. /\ \A t \in Trips : x \in manifest'[t] => Riding'[x] = trip'[t].status
        /\ (\A t \in Trips : x \notin manifest'[t]) => Riding'[x] = "none"
    BY RidingIs, Rides DEF OneTrip
  <2>3. CASE x \in X
    BY <2>2, <2>3 DEF LeftWith
  <2>4. CASE x \notin X
    BY <2>1, <2>2, <2>4 DEF Untouched
  <2> QED
    BY <2>3, <2>4
<1>2. Riding' = [x \in Transfers |-> Riding'[x]]
  BY DEF Riding
<1> QED
  BY <1>1, <1>2 DEF Hub!Ride

LEMMA RideStutter ==
    ASSUME \A x \in Transfers : OneTrip(x) /\ OneTrip(x)' /\ Untouched(x)
    PROVE  UNCHANGED Riding
<1>1. \A x \in {} : LeftWith(x, "none")
  OBVIOUS
<1>2. Hub!Ride({}, "none")
  BY <1>1, RideStep
<1>3. Riding' = [x \in Transfers |-> Riding[x]] /\ Riding = [x \in Transfers |-> Riding[x]]
  BY <1>2 DEF Hub!Ride, Riding
<1> QED
  BY <1>3

LEMMA OneTripNow ==
    ASSUME IInv
    PROVE  \A x \in Transfers : OneTrip(x)
BY DEF IInv, TripsInv, RideShape, OneTrip

-----------------------------------------------------------------------------
(* Trip rows *)

(* A trip written with its version raised.                                  *)
Written(row, status, window, route, loaded, limit) ==
    [status |-> status, from |-> row.from, to |-> row.to, driver |-> row.driver,
     vehicle |-> row.vehicle, window |-> window, version |-> row.version + 1, route |-> route,
     loaded |-> loaded, limit |-> limit]

LEMMA MovedRow ==
    ASSUME NEW row \in TripRow, NEW status, NEW new,
           new = [row EXCEPT !.status = status, !.version = @ + 1]
    PROVE  new = Written(row, status, row.window, row.route, row.loaded, row.limit)
<1>1. row = [status |-> row.status, from |-> row.from, to |-> row.to, driver |-> row.driver,
             vehicle |-> row.vehicle, window |-> row.window, version |-> row.version,
             route |-> row.route, loaded |-> row.loaded, limit |-> row.limit]
  BY DEF TripRow
<1> QED
  BY <1>1 DEF Written

LEMMA WindowRow ==
    ASSUME NEW row \in TripRow, NEW window, NEW new,
           new = [row EXCEPT !.window = window, !.version = @ + 1]
    PROVE  new = Written(row, row.status, window, row.route, row.loaded, row.limit)
<1>1. row = [status |-> row.status, from |-> row.from, to |-> row.to, driver |-> row.driver,
             vehicle |-> row.vehicle, window |-> row.window, version |-> row.version,
             route |-> row.route, loaded |-> row.loaded, limit |-> row.limit]
  BY DEF TripRow
<1> QED
  BY <1>1 DEF Written

LEMMA RouteRow ==
    ASSUME NEW row \in TripRow, NEW new,
           new = [row EXCEPT !.route = @ + 1, !.version = @ + 1]
    PROVE  new = Written(row, row.status, row.window, row.route + 1, row.loaded, row.limit)
<1>1. row = [status |-> row.status, from |-> row.from, to |-> row.to, driver |-> row.driver,
             vehicle |-> row.vehicle, window |-> row.window, version |-> row.version,
             route |-> row.route, loaded |-> row.loaded, limit |-> row.limit]
  BY DEF TripRow
<1> QED
  BY <1>1 DEF Written

LEMMA PreparedRow ==
    ASSUME NEW row \in TripRow, NEW status, NEW route, NEW loaded, NEW limit, NEW new,
           new = [row EXCEPT !.status = status, !.version = @ + 1, !.route = route,
                             !.loaded = loaded, !.limit = limit]
    PROVE  new = Written(row, status, row.window, route, loaded, limit)
<1>1. row = [status |-> row.status, from |-> row.from, to |-> row.to, driver |-> row.driver,
             vehicle |-> row.vehicle, window |-> row.window, version |-> row.version,
             route |-> row.route, loaded |-> row.loaded, limit |-> row.limit]
  BY DEF TripRow
<1> QED
  BY <1>1 DEF Written

(* What a command that writes trip t leaves.                                *)
Rewritten(t, status, window, route, loaded, limit) ==
    /\ trip' \in [Trips -> TripRow] /\ \A u \in Trips \ {t} : trip'[u] = trip[u]
    /\ trip'[t].status = status /\ trip'[t].window = window /\ trip'[t].route = route
    /\ trip'[t].loaded = loaded /\ trip'[t].limit = limit
    /\ trip'[t].version = trip[t].version + 1
    /\ trip'[t].from = trip[t].from /\ trip'[t].to = trip[t].to
    /\ trip'[t].driver = trip[t].driver /\ trip'[t].vehicle = trip[t].vehicle

LEMMA WrittenRow ==
    ASSUME NEW row \in TripRow, NEW status \in TripStatus, NEW window \in Windows \cup {None},
           NEW route \in 0 .. MaxTripVersion, NEW loaded \in Nat, NEW limit \in Nat,
           MaxTripVersion \in Nat, row.version < MaxTripVersion
    PROVE  Written(row, status, window, route, loaded, limit) \in TripRow
<1>1. row.version + 1 \in 0 .. MaxTripVersion
  BY DEF TripRow
<1>2. /\ row.from \in Sites \cup {None} /\ row.to \in Sites \cup {None}
      /\ row.driver \in Drivers \cup {None} /\ row.vehicle \in Vehicles \cup {None}
  BY DEF TripRow
<1> QED
  BY <1>1, <1>2 DEF Written, TripRow

LEMMA Rewrites ==
    ASSUME Assumptions, IInv, NEW t \in Trips, trip[t].version < MaxTripVersion,
           NEW status \in TripStatus, NEW window \in Windows \cup {None},
           NEW route \in 0 .. MaxTripVersion, NEW loaded \in Nat, NEW limit \in Nat,
           NEW new, new = Written(trip[t], status, window, route, loaded, limit),
           trip' = [trip EXCEPT ![t] = new]
    PROVE  Rewritten(t, status, window, route, loaded, limit)
<1>1. trip \in [Trips -> TripRow] /\ MaxTripVersion \in Nat
  BY DEF IInv, TypeOK, Assumptions, CapacitiesAssumption
<1>2. PICK row : row = trip[t]
  OBVIOUS
<1>3. row \in TripRow
  BY <1>1, <1>2
<1>4. new \in TripRow
  BY <1>1, <1>2, <1>3, WrittenRow
<1>5. trip' \in [Trips -> TripRow] /\ trip'[t] = new /\ \A u \in Trips \ {t} : trip'[u] = trip[u]
  BY <1>1, <1>4
<1>6. /\ new.status = status /\ new.window = window /\ new.route = route /\ new.loaded = loaded
      /\ new.limit = limit /\ new.version = row.version + 1 /\ new.from = row.from
      /\ new.to = row.to /\ new.driver = row.driver /\ new.vehicle = row.vehicle
  BY <1>2 DEF Written
<1> QED
  BY <1>2, <1>5, <1>6 DEF Rewritten

(* The types of a trip row.                                                 *)
LEMMA RowTypes ==
    ASSUME IInv, NEW t \in Trips
    PROVE  /\ trip[t] \in TripRow /\ trip[t].status \in TripStatus
           /\ trip[t].window \in Windows \cup {None} /\ trip[t].route \in 0 .. MaxTripVersion
           /\ trip[t].version \in 0 .. MaxTripVersion /\ trip[t].loaded \in Nat
           /\ trip[t].limit \in Nat
BY DEF IInv, TypeOK, TripRow

LEMMA MoveRewrites ==
    ASSUME Assumptions, IInv, NEW t \in Trips, trip[t].version < MaxTripVersion,
           NEW status \in TripStatus,
           trip' = [trip EXCEPT ![t].status = status, ![t].version = @ + 1]
    PROVE  Rewritten(t, status, trip[t].window, trip[t].route, trip[t].loaded, trip[t].limit)
<1>1. PICK new : new = [trip[t] EXCEPT !.status = status, !.version = @ + 1]
  OBVIOUS
<1>2. trip' = [trip EXCEPT ![t] = new] 
  BY <1>1 DEF IInv, TypeOK
<1>3. new = Written(trip[t], status, trip[t].window, trip[t].route, trip[t].loaded, trip[t].limit)
  BY <1>1, RowTypes, MovedRow
<1> QED
  BY <1>2, <1>3, RowTypes, Rewrites

LEMMA WindowRewrites ==
    ASSUME Assumptions, IInv, NEW t \in Trips, trip[t].version < MaxTripVersion,
           NEW window \in Windows \cup {None},
           trip' = [trip EXCEPT ![t].window = window, ![t].version = @ + 1]
    PROVE  Rewritten(t, trip[t].status, window, trip[t].route, trip[t].loaded, trip[t].limit)
<1>1. PICK new : new = [trip[t] EXCEPT !.window = window, !.version = @ + 1]
  OBVIOUS
<1>2. trip' = [trip EXCEPT ![t] = new] 
  BY <1>1 DEF IInv, TypeOK
<1>3. new = Written(trip[t], trip[t].status, window, trip[t].route, trip[t].loaded, trip[t].limit)
  BY <1>1, RowTypes, WindowRow
<1> QED
  BY <1>2, <1>3, RowTypes, Rewrites

LEMMA RouteRewrites ==
    ASSUME Assumptions, IInv, NEW t \in Trips, trip[t].version < MaxTripVersion,
           trip' = [trip EXCEPT ![t].route = @ + 1, ![t].version = @ + 1]
    PROVE  Rewritten(t, trip[t].status, trip[t].window, trip[t].route + 1, trip[t].loaded,
                     trip[t].limit)
<1>1. PICK new : new = [trip[t] EXCEPT !.route = @ + 1, !.version = @ + 1]
  OBVIOUS
<1>2. trip' = [trip EXCEPT ![t] = new] 
  BY <1>1 DEF IInv, TypeOK
<1>3. new = Written(trip[t], trip[t].status, trip[t].window, trip[t].route + 1, trip[t].loaded,
                    trip[t].limit)
  BY <1>1, RowTypes, RouteRow
<1>4. trip[t].route + 1 \in 0 .. MaxTripVersion
  <2>1. trip[t].route <= trip[t].version /\ MaxTripVersion \in Nat
    BY DEF IInv, TripsInv, TripShape, Assumptions, CapacitiesAssumption
  <2> QED
    BY <2>1, RowTypes
<1> QED
  BY <1>2, <1>3, <1>4, RowTypes, Rewrites

-----------------------------------------------------------------------------
(* Each command is a trip step of the network, or none *)

(* A step of no trip leaves the carriage alone.                             *)
LEMMA TripsAside ==
    ASSUME UNCHANGED <<trip, manifest>>
    PROVE  UNCHANGED Riding
BY DEF Riding

LEMMA RowsAside ==
    ASSUME UNCHANGED <<hubVars, trip, manifest>>
    PROVE  UNCHANGED Hub!vars
BY TripsAside DEF hubVars, Hub!vars

LEMMA OneTripSame ==
    ASSUME IInv, UNCHANGED manifest
    PROVE  \A x \in Transfers : OneTrip(x) /\ OneTrip(x)'
BY OneTripNow DEF OneTrip

(* A command that leaves the manifests and every status alone.              *)
LEMMA StatusAside ==
    ASSUME IInv, UNCHANGED <<hubVars, manifest>>, \A t \in Trips : trip'[t].status = trip[t].status
    PROVE  UNCHANGED Hub!vars
<1>1. \A x \in Transfers : OneTrip(x) /\ OneTrip(x)'
  BY OneTripSame
<1>2. \A x \in Transfers : Untouched(x)
  BY DEF Untouched
<1> QED
  BY <1>1, <1>2, RideStutter DEF hubVars, Hub!vars

(* A command that writes the status of one trip and keeps the manifests.    *)
LEMMA StatusRides ==
    ASSUME IInv, UNCHANGED manifest, NEW t \in Trips, NEW c, trip'[t].status = c,
           \A u \in Trips \ {t} : trip'[u] = trip[u]
    PROVE  Hub!Ride(manifest[t], c)
<1>1. \A x \in Transfers : OneTrip(x) /\ OneTrip(x)'
  BY OneTripSame
<1>2. manifest[t] \in SUBSET Transfers
  BY DEF IInv, TypeOK
<1>3. \A x \in manifest[t] : LeftWith(x, c)
  BY DEF LeftWith
<1>4. \A x \in Transfers \ manifest[t] : Untouched(x)
  BY DEF Untouched
<1> QED
  BY <1>1, <1>2, <1>3, <1>4, RideStep

LEMMA RidesNow ==
    ASSUME IInv, NEW t \in Trips, NEW x \in manifest[t]
    PROVE  x \in Transfers /\ Riding[x] = trip[t].status
<1>1. x \in Transfers
  BY DEF IInv, TypeOK
<1> QED
  BY <1>1, OneTripNow, RidingIs, Rides DEF OneTrip

LEMMA FreeNow ==
    ASSUME IInv, NEW x \in Transfers, ~OnTrip(x)
    PROVE  Riding[x] = "none"
BY OneTripNow, RidingIs, Rides DEF OneTrip, OnTrip

LEMMA TripStep ==
    ASSUME NEW X \in SUBSET Transfers, X # {},
           Hub!Load(X) \/ Hub!Unload(X) \/ Hub!Seal(X) \/ Hub!Depart(X) \/ Hub!Arrive(X)
    PROVE  Hub!Next
BY DEF Hub!Next, Hub!CarriageStep

-----------------------------------------------------------------------------
(* Manifests *)

(* A manifest is written for one trip.                                      *)
LEMMA ManifestWritten ==
    ASSUME IInv, NEW t \in Trips, NEW X \in SUBSET Transfers,
           manifest' = [manifest EXCEPT ![t] = X]
    PROVE  /\ manifest' \in [Trips -> SUBSET Transfers] /\ manifest'[t] = X
           /\ \A u \in Trips \ {t} : manifest'[u] = manifest[u]
BY DEF IInv, TypeOK

LEMMA FewerOneTrip ==
    ASSUME IInv, \A u \in Trips : manifest'[u] \subseteq manifest[u]
    PROVE  \A x \in Transfers : OneTrip(x) /\ OneTrip(x)'
BY OneTripNow DEF OneTrip

LEMMA MoreOneTrip ==
    ASSUME IInv, NEW t \in Trips, NEW X \in SUBSET Transfers, \A x \in X : ~OnTrip(x),
           manifest'[t] = manifest[t] \cup X, \A u \in Trips \ {t} : manifest'[u] = manifest[u]
    PROVE  \A x \in Transfers : OneTrip(x) /\ OneTrip(x)'
<1>1. ASSUME NEW x \in Transfers, NEW u \in Trips, NEW w \in Trips, x \in manifest'[u],
             x \in manifest'[w]
      PROVE  u = w
  <2>1. OneTrip(x)
    BY OneTripNow
  <2>2. CASE x \in X
    BY <1>1, <2>2 DEF OnTrip
  <2>3. CASE x \notin X
    BY <1>1, <2>1, <2>3 DEF OneTrip
  <2> QED
    BY <2>2, <2>3
<1> QED
  BY <1>1, OneTripNow DEF OneTrip

LEMMA LoadStep ==
    ASSUME IInv, NEW t \in Trips, NEW X \in SUBSET Transfers,
           \A x \in X : ~OnTrip(x) /\ transfer[x].status = "PENDING",
           manifest'[t] = manifest[t] \cup X, \A u \in Trips \ {t} : manifest'[u] = manifest[u],
           trip'[t].status = "PLANNED", \A u \in Trips \ {t} : trip'[u] = trip[u],
           manifest[t] # {} => trip[t].status = "PLANNED", UNCHANGED hubVars
    PROVE  Hub!Next \/ UNCHANGED Hub!vars
<1>1. \A x \in Transfers : OneTrip(x) /\ OneTrip(x)'
  BY MoreOneTrip
<1>2. \A x \in Transfers \ X : Untouched(x)
  BY DEF Untouched
<1>3. CASE X = {}
  <2>1. \A x \in Transfers : Untouched(x)
    BY <1>2, <1>3
  <2> QED
    BY <1>1, <2>1, RideStutter DEF hubVars, Hub!vars
<1>4. CASE X # {}
  <2>1. \A x \in X : LeftWith(x, "PLANNED")
    BY DEF LeftWith
  <2>2. Hub!Ride(X, "PLANNED")
    BY <1>1, <1>2, <2>1, RideStep
  <2>3. \A x \in X : Riding[x] = "none"
    BY FreeNow
  <2>4. Hub!Load(X)
    BY <2>2, <2>3 DEF Hub!Load, hubVars
  <2> QED
    BY <1>4, <2>4, TripStep
<1> QED
  BY <1>3, <1>4

LEMMA UnloadStep ==
    ASSUME IInv, NEW t \in Trips, NEW X \in SUBSET manifest[t],
           trip[t].status \in {"PLANNED", "READY"},
           manifest'[t] = manifest[t] \ X, \A u \in Trips \ {t} : manifest'[u] = manifest[u],
           \A u \in Trips \ {t} : trip'[u] = trip[u],
           manifest'[t] # {} => trip'[t].status = trip[t].status, UNCHANGED hubVars
    PROVE  Hub!Next \/ UNCHANGED Hub!vars
<1>1. \A x \in Transfers : OneTrip(x) /\ OneTrip(x)'
  BY FewerOneTrip
<1>2. X \in SUBSET Transfers
  BY DEF IInv, TypeOK
<1>3. \A x \in Transfers \ X : Untouched(x)
  BY DEF Untouched
<1>4. CASE X = {}
  <2>1. \A x \in Transfers : Untouched(x)
    BY <1>3, <1>4
  <2> QED
    BY <1>1, <2>1, RideStutter DEF hubVars, Hub!vars
<1>5. CASE X # {}
  <2>1. \A x \in X : LeftWith(x, "none")
    BY <1>1, <1>2 DEF LeftWith, OneTrip
  <2>2. Hub!Ride(X, "none")
    BY <1>1, <1>2, <1>3, <2>1, RideStep
  <2>3. \A x \in X : Riding[x] = trip[t].status
    BY RidesNow
  <2>4. Hub!Unload(X)
    BY <2>2, <2>3 DEF Hub!Unload, hubVars
  <2> QED
    BY <1>2, <1>5, <2>4, TripStep
<1> QED
  BY <1>4, <1>5

-----------------------------------------------------------------------------
(* The commands, as the network sees them *)

LEMMA CreateNetwork ==
    ASSUME IInv, NEW t \in Trips, NEW from, NEW to, NEW d, NEW v, NEW w,
           NEW X \in SUBSET Transfers, Create(t, from, to, d, v, w, X)
    PROVE  Hub!Next \/ UNCHANGED Hub!vars
<1>1. PICK row : row = [NoTrip EXCEPT !.status = "PLANNED", !.from = from, !.to = to, !.driver = d,
                                      !.vehicle = v, !.window = w]
  OBVIOUS
<1>2. row.status = "PLANNED"
  BY <1>1 DEF NoTrip
<1>3. trip' = [trip EXCEPT ![t] = row] /\ manifest' = [manifest EXCEPT ![t] = X] /\ UNCHANGED hubVars
      /\ \A x \in X : Hub!Dispatchable(x) /\ ~OnTrip(x)
  BY <1>1 DEF Create, Creatable
<1>4. trip'[t].status = "PLANNED" /\ \A u \in Trips \ {t} : trip'[u] = trip[u]
  BY <1>2, <1>3 DEF IInv, TypeOK
<1>5. manifest'[t] = X /\ \A u \in Trips \ {t} : manifest'[u] = manifest[u]
  BY <1>3, ManifestWritten
<1>6. manifest[t] = {}
  BY DEF Create, IInv, TripsInv, TripShape
<1>7. manifest'[t] = manifest[t] \cup X
  BY <1>5, <1>6
<1>8. \A x \in X : ~OnTrip(x) /\ transfer[x].status = "PENDING"
  BY <1>3 DEF Hub!Dispatchable
<1> QED
  BY <1>3, <1>4, <1>5, <1>6, <1>7, <1>8, LoadStep

(* The types of a command in flight.                                        *)
LEMMA AssignTypes ==
    ASSUME IInv, NEW q \in Tasks, task[q].cmd = "assignTransfer"
    PROVE  task[q].trip \in Trips /\ task[q].transfer \in Transfers
<1>1. task[q] \in TaskRow
  BY DEF IInv, TypeOK
<1> QED
  BY <1>1 DEF TaskRow, IdleTask

LEMMA AssignNetwork ==
    ASSUME IInv, NEW q \in Tasks, AssignTransfer(q)
    PROVE  Hub!Next \/ UNCHANGED Hub!vars
<1>1. PICK t, x : t = task[q].trip /\ x = task[q].transfer
  OBVIOUS
<1>2. task[q].cmd = "assignTransfer"
  BY DEF AssignTransfer
<1>3. t \in Trips /\ x \in Transfers
  BY <1>1, <1>2, AssignTypes
<1>4. trip[t].status = "PLANNED" /\ transfer[x].status = "PENDING" /\ ~OnTrip(x)
  BY <1>1, <1>2 DEF IInv, TasksInv, TaskShape, MatchesTrip
<1>5. /\ manifest' = [manifest EXCEPT ![t] = manifest[t] \cup {x}]
      /\ UNCHANGED <<hubVars, trip>>
  BY <1>1 DEF AssignTransfer
<1>6. manifest'[t] = manifest[t] \cup {x} /\ \A u \in Trips \ {t} : manifest'[u] = manifest[u]
  BY <1>3, <1>5 DEF IInv, TypeOK
<1>7. PICK X \in SUBSET Transfers : X = {x}
  BY <1>3
<1>8. \A y \in X : ~OnTrip(y) /\ transfer[y].status = "PENDING"
  BY <1>4, <1>7
<1>9. manifest'[t] = manifest[t] \cup X
  BY <1>6, <1>7
<1> QED
  BY <1>3, <1>4, <1>5, <1>6, <1>8, <1>9, LoadStep

LEMMA RemoveNetwork ==
    ASSUME IInv, NEW t \in Trips, NEW x \in Transfers, RemoveTransfer(t, x)
    PROVE  Hub!Next \/ UNCHANGED Hub!vars
<1>1. /\ manifest' = [manifest EXCEPT ![t] = manifest[t] \ {x}] /\ x \in manifest[t]
      /\ trip[t].status = "PLANNED" /\ UNCHANGED <<hubVars, trip>>
  BY DEF RemoveTransfer
<1>2. manifest'[t] = manifest[t] \ {x} /\ \A u \in Trips \ {t} : manifest'[u] = manifest[u]
  BY <1>1 DEF IInv, TypeOK
<1>3. PICK X \in SUBSET manifest[t] : X = {x}
  BY <1>1
<1>4. manifest'[t] = manifest[t] \ X
  BY <1>2, <1>3
<1> QED
  BY <1>1, <1>2, <1>4, UnloadStep

LEMMA CancelRow ==
    ASSUME Assumptions, IInv, NEW t \in Trips, Cancel(t)
    PROVE  /\ Rewritten(t, "CANCELLED", trip[t].window, trip[t].route, trip[t].loaded, trip[t].limit)
           /\ manifest' \in [Trips -> SUBSET Transfers] /\ manifest'[t] = {}
           /\ \A u \in Trips \ {t} : manifest'[u] = manifest[u]
           /\ trip[t].status \in {"PLANNED", "READY"} /\ UNCHANGED <<hubVars, vehicle, driver, task>>
           /\ t \notin LockedTrips
<1>1. /\ trip[t].version < MaxTripVersion
      /\ trip' = [trip EXCEPT ![t].status = "CANCELLED", ![t].version = @ + 1]
  BY DEF Cancel
<1>2. "CANCELLED" \in TripStatus
  BY DEF TripStatus
<1>3. Rewritten(t, "CANCELLED", trip[t].window, trip[t].route, trip[t].loaded, trip[t].limit)
  BY <1>1, <1>2, MoveRewrites
<1>4. /\ manifest' \in [Trips -> SUBSET Transfers] /\ manifest'[t] = {}
      /\ \A u \in Trips \ {t} : manifest'[u] = manifest[u]
  <2>1. manifest' = [manifest EXCEPT ![t] = {}] /\ {} \in SUBSET Transfers
    BY DEF Cancel
  <2> QED
    BY <2>1, ManifestWritten
<1> QED
  BY <1>3, <1>4 DEF Cancel

LEMMA CancelNetwork ==
    ASSUME Assumptions, IInv, NEW t \in Trips, Cancel(t)
    PROVE  Hub!Next \/ UNCHANGED Hub!vars
<1>1. /\ Rewritten(t, "CANCELLED", trip[t].window, trip[t].route, trip[t].loaded, trip[t].limit)
      /\ manifest'[t] = {} /\ \A u \in Trips \ {t} : manifest'[u] = manifest[u]
      /\ trip[t].status \in {"PLANNED", "READY"} /\ UNCHANGED hubVars
  BY CancelRow
<1>2. \A u \in Trips \ {t} : trip'[u] = trip[u]
  BY <1>1 DEF Rewritten
<1>3. PICK X \in SUBSET manifest[t] : X = manifest[t]
  OBVIOUS
<1>4. manifest'[t] = manifest[t] \ X
  BY <1>1, <1>3
<1> QED
  BY <1>1, <1>2, <1>4, UnloadStep

(* The weights of a manifest.                                               *)
LEMMA ManifestWeighs ==
    ASSUME Assumptions, IInv, NEW X \in SUBSET Transfers, \A x \in X : transfer[x].status # "NONE"
    PROVE  Weighs(parcel, transfer, X)
<1>1. IsFiniteSet(X)
  BY FS_Subset DEF Assumptions, TransfersAssumption
<1>2. ASSUME NEW x \in X
      PROVE  Grams(parcel, transfer, x) \in Nat
  <2>1. transfer[x].parcel \in Parcels
    BY <1>2 DEF IInv, HubP!IInv, HubP!TransferShape
  <2>2. parcel[transfer[x].parcel] \in HubP!ParcelRow
    BY <2>1 DEF IInv, HubP!IInv, HubP!TypeOK
  <2>3. Weights \subseteq Nat
    BY DEF Assumptions, Hub!WeightsAssumption
  <2>4. PICK row \in HubP!ParcelRow : row = parcel[transfer[x].parcel]
    BY <2>2
  <2>5. row.weight \in Weights \cup {0}
    BY DEF HubP!ParcelRow
  <2>6. row.weight \in Nat
    BY <2>3, <2>5
  <2> QED
    BY <2>4, <2>6 DEF Grams
<1> QED
  BY <1>1, <1>2 DEF Weighs

LEMMA RidersWeigh ==
    ASSUME Assumptions, IInv, NEW t \in Trips
    PROVE  manifest[t] \in SUBSET Transfers /\ Weighs(parcel, transfer, manifest[t])
<1>1. manifest[t] \in SUBSET Transfers /\ \A x \in manifest[t] : transfer[x].status # "NONE"
  BY DEF IInv, TypeOK, TripsInv, RideShape
<1> QED
  BY <1>1, ManifestWeighs

(* What the fold of the code weighs.                                        *)
LEMMA ManifestTotal ==
    ASSUME Assumptions, IInv, NEW t \in Trips
    PROVE  /\ Weigh(manifest[t]) = Total(parcel, transfer, manifest[t])
           /\ Total(parcel, transfer, manifest[t]) \in Nat
BY RidersWeigh, WeighTotal, TotalNat

LEMMA CapacityNat ==
    ASSUME Assumptions, IInv, NEW v \in Vehicles
    PROVE  vehicle[v].capacity \in Capacities \cup {0} /\ vehicle[v].capacity \in Nat
<1>1. vehicle[v].capacity \in Capacities \cup {0}
  BY DEF IInv, TypeOK, VehicleRow
<1>2. Capacities \subseteq Nat /\ 0 \in Nat
  BY DEF Assumptions, CapacitiesAssumption
<1> QED
  BY <1>1, <1>2

LEMMA TaskTrip ==
    ASSUME IInv, NEW q \in Tasks,
           task[q].cmd \in {"prepare", "recalculateRoute", "schedule", "reschedule", "unschedule"}
    PROVE  task[q].trip \in Trips
<1>1. task[q] \in TaskRow
  BY DEF IInv, TypeOK
<1> QED
  BY <1>1 DEF TaskRow, IdleTask

LEMMA PrepareRow ==
    ASSUME Assumptions, IInv, NEW q \in Tasks, Prepare(q), NEW t, t = task[q].trip
    PROVE  /\ t \in Trips /\ trip[t].status = "PLANNED" /\ t \notin LockedTrips /\ ExecutionReady(t)
           /\ UNCHANGED <<hubVars, vehicle, driver, manifest>> /\ End(q)
           /\ \E route \in {trip[t].route, 1} :
                Rewritten(t, "READY", trip[t].window, route,
                          Total(parcel, transfer, manifest[t]), vehicle[trip[t].vehicle].capacity)
<1>1. /\ task[q].cmd = "prepare" /\ trip[t].status = "PLANNED" /\ t \notin LockedTrips
      /\ ExecutionReady(t) /\ trip[t].version < MaxTripVersion /\ End(q)
      /\ UNCHANGED <<hubVars, vehicle, driver, manifest>>
      /\ trip' = [trip EXCEPT ![t].status = "READY", ![t].version = @ + 1,
                    ![t].route = IF task[q].routed /\ Located(t) THEN 1 ELSE @,
                    ![t].loaded = Weigh(manifest[t]), ![t].limit = vehicle[trip[t].vehicle].capacity]
  BY DEF Prepare
<1>2. t \in Trips
  BY <1>1, TaskTrip
<1>3. PICK route : route = IF task[q].routed /\ Located(t) THEN 1 ELSE trip[t].route
  OBVIOUS
<1>4. PICK loaded, limit : /\ loaded = Total(parcel, transfer, manifest[t])
                           /\ limit = vehicle[trip[t].vehicle].capacity
  OBVIOUS
<1>5. loaded \in Nat /\ Weigh(manifest[t]) = loaded
  BY <1>2, <1>4, ManifestTotal
<1>6. trip[t].vehicle \in Vehicles
  BY <1>1, <1>2 DEF IInv, TripsInv, TripShape
<1>7. limit \in Nat
  BY <1>4, <1>6, CapacityNat
<1>8. PICK new : new = [trip[t] EXCEPT !.status = "READY", !.version = @ + 1, !.route = route,
                                       !.loaded = loaded, !.limit = limit]
  OBVIOUS
<1>9. trip' = [trip EXCEPT ![t] = new]
  <2>1. trip \in [Trips -> TripRow]
    BY DEF IInv, TypeOK
  <2>2. trip' = [trip EXCEPT ![t] = [trip[t] EXCEPT !.status = "READY", !.version = @ + 1,
                    !.route = IF task[q].routed /\ Located(t) THEN 1 ELSE @,
                    !.loaded = Weigh(manifest[t]), !.limit = vehicle[trip[t].vehicle].capacity]]
    BY <1>1, <1>2, <2>1
  <2> QED
    BY <1>3, <1>4, <1>5, <1>8, <2>2
<1>10. new = Written(trip[t], "READY", trip[t].window, route, loaded, limit)
  <2>1. PICK row, status : row = trip[t] /\ status = "READY"
    OBVIOUS
  <2>2. row \in TripRow
    BY <1>2, <2>1, RowTypes
  <2>3. new = [row EXCEPT !.status = status, !.version = @ + 1, !.route = route,
                          !.loaded = loaded, !.limit = limit]
    BY <1>8, <2>1
  <2>4. new = Written(row, status, row.window, route, loaded, limit)
    BY <2>2, <2>3, PreparedRow
  <2> QED
    BY <2>1, <2>4
<1>11. route \in 0 .. MaxTripVersion
  <2>1. trip[t].version \in 0 .. MaxTripVersion /\ MaxTripVersion \in Nat
    BY <1>2, RowTypes DEF Assumptions, CapacitiesAssumption
  <2>2. 1 \in 0 .. MaxTripVersion
    <3>1. trip[t].version < MaxTripVersion
      BY <1>1
    <3> QED
      BY <2>1, <3>1
  <2> QED
    BY <1>2, <1>3, <2>2, RowTypes
<1>12. "READY" \in TripStatus
  BY DEF TripStatus
<1>13. Rewritten(t, "READY", trip[t].window, route, loaded, limit)
  BY <1>1, <1>2, <1>5, <1>7, <1>9, <1>10, <1>11, <1>12, RowTypes, Rewrites
<1> QED
  BY <1>1, <1>2, <1>3, <1>4, <1>13

LEMMA PrepareNetwork ==
    ASSUME Assumptions, IInv, NEW q \in Tasks, Prepare(q)
    PROVE  Hub!Next \/ UNCHANGED Hub!vars
<1>1. PICK t : t = task[q].trip
  OBVIOUS
<1>2. /\ t \in Trips /\ trip[t].status = "PLANNED" /\ ExecutionReady(t)
      /\ UNCHANGED <<hubVars, manifest>> /\ trip'[t].status = "READY"
      /\ \A u \in Trips \ {t} : trip'[u] = trip[u]
  BY <1>1, PrepareRow DEF Rewritten
<1>3. Hub!Ride(manifest[t], "READY")
  BY <1>2, StatusRides
<1>4. \A x \in manifest[t] : Riding[x] = "PLANNED" /\ Hub!Dispatchable(x)
  BY <1>2, RidesNow DEF ExecutionReady
<1>5. Hub!Seal(manifest[t])
  BY <1>2, <1>3, <1>4 DEF Hub!Seal, hubVars
<1>6. manifest[t] \in SUBSET Transfers /\ manifest[t] # {}
  BY <1>2 DEF IInv, TypeOK, ExecutionReady
<1> QED
  BY <1>5, <1>6, TripStep

LEMMA DispatchRow ==
    ASSUME Assumptions, IInv, NEW t \in Trips, Dispatch(t)
    PROVE  Rewritten(t, "IN_TRANSIT", trip[t].window, trip[t].route, trip[t].loaded, trip[t].limit)
<1>1. /\ trip[t].version < MaxTripVersion
      /\ trip' = [trip EXCEPT ![t].status = "IN_TRANSIT", ![t].version = @ + 1]
  BY DEF Dispatch
<1>2. "IN_TRANSIT" \in TripStatus
  BY DEF TripStatus
<1> QED
  BY <1>1, <1>2, MoveRewrites

LEMMA DispatchNetwork ==
    ASSUME Assumptions, IInv, NEW t \in Trips, Dispatch(t)
    PROVE  Hub!Next \/ UNCHANGED Hub!vars
<1>1. /\ trip[t].status = "READY" /\ ExecutionReady(t) /\ Hub!PutOnRoad(manifest[t])
      /\ UNCHANGED <<site, staff, era, req, manifest>>
  BY DEF Dispatch
<1>2. trip'[t].status = "IN_TRANSIT" /\ \A u \in Trips \ {t} : trip'[u] = trip[u]
  BY DispatchRow DEF Rewritten
<1>3. Hub!Ride(manifest[t], "IN_TRANSIT")
  BY <1>1, <1>2, StatusRides
<1>4. \A x \in manifest[t] : Riding[x] = "READY" /\ Hub!Dispatchable(x)
  BY <1>1, RidesNow DEF ExecutionReady
<1>5. Hub!Depart(manifest[t])
  BY <1>1, <1>3, <1>4 DEF Hub!Depart
<1>6. manifest[t] \in SUBSET Transfers /\ manifest[t] # {}
  BY <1>1 DEF IInv, TypeOK, ExecutionReady
<1> QED
  BY <1>5, <1>6, TripStep

LEMMA ArriveRow ==
    ASSUME Assumptions, IInv, NEW t \in Trips, NEW u, Arrive(t, u)
    PROVE  Rewritten(t, "ARRIVED", trip[t].window, trip[t].route, trip[t].loaded, trip[t].limit)
<1>1. /\ trip[t].version < MaxTripVersion
      /\ trip' = [trip EXCEPT ![t].status = "ARRIVED", ![t].version = @ + 1]
  BY DEF Arrive
<1>2. "ARRIVED" \in TripStatus
  BY DEF TripStatus
<1> QED
  BY <1>1, <1>2, MoveRewrites

LEMMA ArriveNetwork ==
    ASSUME Assumptions, IInv, NEW t \in Trips, NEW u, Arrive(t, u)
    PROVE  Hub!Next \/ UNCHANGED Hub!vars
<1>1. /\ trip[t].status = "IN_TRANSIT" /\ manifest[t] # {} /\ UNCHANGED <<hubVars, manifest>>
  BY DEF Arrive
<1>2. trip'[t].status = "ARRIVED" /\ \A w \in Trips \ {t} : trip'[w] = trip[w]
  BY ArriveRow DEF Rewritten
<1>3. Hub!Ride(manifest[t], "ARRIVED")
  BY <1>1, <1>2, StatusRides
<1>4. \A x \in manifest[t] : Riding[x] = "IN_TRANSIT"
  BY <1>1, RidesNow
<1>5. Hub!Arrive(manifest[t])
  BY <1>1, <1>3, <1>4 DEF Hub!Arrive, hubVars
<1>6. manifest[t] \in SUBSET Transfers /\ manifest[t] # {}
  BY <1>1 DEF IInv, TypeOK
<1> QED
  BY <1>5, <1>6, TripStep

(* Commands that write the window or the route of a trip.                   *)
LEMMA SetScheduleRow ==
    ASSUME Assumptions, IInv, NEW q \in Tasks, NEW w \in Windows, SetSchedule(q, w),
           NEW t, t = task[q].trip
    PROVE  /\ t \in Trips
           /\ Rewritten(t, trip[t].status, w, trip[t].route, trip[t].loaded, trip[t].limit)
<1>1. /\ task[q].cmd \in {"schedule", "reschedule"} /\ trip[t].version < MaxTripVersion
      /\ trip' = [trip EXCEPT ![t].window = w, ![t].version = @ + 1]
  BY DEF SetSchedule, Reschedulable
<1>2. t \in Trips
  BY <1>1, TaskTrip
<1> QED
  BY <1>1, <1>2, WindowRewrites

LEMMA UnscheduleRow ==
    ASSUME Assumptions, IInv, NEW q \in Tasks, Unschedule(q), NEW t, t = task[q].trip
    PROVE  /\ t \in Trips
           /\ Rewritten(t, trip[t].status, None, trip[t].route, trip[t].loaded, trip[t].limit)
<1>1. /\ task[q].cmd = "unschedule" /\ trip[t].version < MaxTripVersion
      /\ trip' = [trip EXCEPT ![t].window = None, ![t].version = @ + 1]
  BY DEF Unschedule, Reschedulable
<1>2. t \in Trips
  BY <1>1, TaskTrip
<1> QED
  BY <1>1, <1>2, WindowRewrites

LEMMA RecalculateRow ==
    ASSUME Assumptions, IInv, NEW q \in Tasks, RecalculateRoute(q), NEW t, t = task[q].trip
    PROVE  /\ t \in Trips
           /\ Rewritten(t, trip[t].status, trip[t].window, trip[t].route + 1, trip[t].loaded,
                        trip[t].limit)
<1>1. /\ task[q].cmd = "recalculateRoute" /\ trip[t].version < MaxTripVersion
      /\ trip' = [trip EXCEPT ![t].route = @ + 1, ![t].version = @ + 1]
  BY DEF RecalculateRoute
<1>2. t \in Trips
  BY <1>1, TaskTrip
<1> QED
  BY <1>1, <1>2, RouteRewrites

LEMMA RewrittenAside ==
    ASSUME IInv, NEW t \in Trips, NEW window, NEW route, NEW loaded, NEW limit,
           Rewritten(t, trip[t].status, window, route, loaded, limit),
           UNCHANGED <<hubVars, manifest>>
    PROVE  UNCHANGED Hub!vars
<1>1. \A u \in Trips : trip'[u].status = trip[u].status
  BY DEF Rewritten
<1> QED
  BY <1>1, StatusAside

(* The network part of every step.                                          *)
LEMMA StepOfHub ==
    ASSUME Assumptions, IInv, Next
    PROVE  Hub!Next \/ UNCHANGED Hub!vars
<1>1. CASE HubStep
  BY <1>1, TripsAside DEF HubStep, Hub!Next
<1>2. CASE FleetStep
  <2>1. UNCHANGED <<hubVars, trip, manifest>>
    BY <1>2 DEF FleetStep, CreateVehicle, SetOperationalStatus, UpdateCapacity, CapacityRead,
                DriverDuty, DriverEligibility
  <2> QED
    BY <2>1, RowsAside
<1>3. CASE PlanStep
  <2>1. CASE \E q \in Tasks : Abandon(q) \/ \E t \in Trips, x \in Transfers : AssignRead(q, t, x)
    BY <2>1, RowsAside DEF Abandon, AssignRead
  <2> QED
    BY <1>3, <2>1, CreateNetwork, RemoveNetwork, AssignNetwork DEF PlanStep
<1>4. CASE ScheduleStep
  <2>1. ASSUME NEW q \in Tasks, Unschedule(q)
        PROVE  UNCHANGED Hub!vars
    <3>1. UNCHANGED <<hubVars, manifest>>
      BY <2>1 DEF Unschedule
    <3> QED
      BY <2>1, <3>1, UnscheduleRow, RewrittenAside
  <2>2. ASSUME NEW q \in Tasks, NEW w \in Windows, SetSchedule(q, w)
        PROVE  UNCHANGED Hub!vars
    <3>1. UNCHANGED <<hubVars, manifest>>
      BY <2>2 DEF SetSchedule
    <3> QED
      BY <2>2, <3>1, SetScheduleRow, RewrittenAside
  <2>3. ASSUME NEW q \in Tasks, NEW cmd, NEW t, ShowTrip(q, cmd, t)
        PROVE  UNCHANGED Hub!vars
    BY <2>3, RowsAside DEF ShowTrip
  <2> QED
    BY <1>4, <2>1, <2>2, <2>3 DEF ScheduleStep
<1>5. CASE RunStep
  <2>1. ASSUME NEW q \in Tasks, RecalculateRoute(q)
        PROVE  UNCHANGED Hub!vars
    <3>1. UNCHANGED <<hubVars, manifest>>
      BY <2>1 DEF RecalculateRoute
    <3> QED
      BY <2>1, <3>1, RecalculateRow, RewrittenAside
  <2>2. ASSUME NEW q \in Tasks, NEW t, PrepareRead(q, t) \/ RecalculateRead(q, t)
        PROVE  UNCHANGED Hub!vars
    BY <2>2, RowsAside DEF PrepareRead, RecalculateRead
  <2> QED
    BY <1>5, <2>1, <2>2, DispatchNetwork, CancelNetwork, ArriveNetwork, PrepareNetwork DEF RunStep
<1> QED
  BY <1>1, <1>2, <1>3, <1>4, <1>5 DEF Next

-----------------------------------------------------------------------------
(* What a step of the network keeps for trips *)

GramsKept == \A x \in Transfers : transfer[x].status # "NONE"
               => Grams(parcel', transfer', x) = Grams(parcel, transfer, x)

Kept == HubP!TransferKept /\ GramsKept

LEMMA HubAssumptions ==
    ASSUME Assumptions
    PROVE  HubP!Assumptions
BY DEF Assumptions, HubP!Assumptions, Hub!SitesAssumption, HubP!SitesAssumption,
       Hub!WeightsAssumption, HubP!WeightsAssumption

LEMMA HubStutter ==
    ASSUME UNCHANGED Hub!vars
    PROVE  UNCHANGED HubP!vars /\ UNCHANGED <<parcel, transfer>>
BY DEF Hub!vars, HubP!vars

LEMMA HubKeeps ==
    ASSUME Assumptions, IInv, Next
    PROVE  HubP!IInv' /\ Kept
<1>1. HubP!Assumptions /\ HubP!IInv
  BY HubAssumptions DEF IInv
<1>2. CASE HubP!Next
  <2>1. HubP!TransferKept /\ HubP!WeightKept
    BY <1>1, <1>2, HubP!TransferStep, HubP!WeightStep
  <2>2. ASSUME NEW x \in Transfers, transfer[x].status # "NONE"
        PROVE  Grams(parcel', transfer', x) = Grams(parcel, transfer, x)
    <3>1. PICK s : s = transfer[x].parcel
      OBVIOUS
    <3>2. s \in Parcels
      BY <1>1, <2>2, <3>1 DEF HubP!IInv, HubP!TransferShape
    <3>3. parcel'[s].weight = parcel[s].weight
      BY <2>1, <3>1, <3>2 DEF HubP!WeightKept
    <3>4. transfer'[x].parcel = s
      BY <2>1, <2>2, <3>1 DEF HubP!TransferKept
    <3> QED
      BY <3>1, <3>3, <3>4 DEF Grams
  <2> QED
    BY <1>1, <1>2, <2>1, <2>2, HubP!NextIInv DEF Kept, GramsKept
<1>3. CASE UNCHANGED Hub!vars
  <2>1. UNCHANGED HubP!vars /\ UNCHANGED <<parcel, transfer>>
    BY <1>3, HubStutter
  <2> QED
    BY <1>1, <2>1, HubP!StutterIInv DEF Kept, GramsKept, HubP!TransferKept, Grams
<1> QED
  BY <1>2, <1>3, StepOfHub, SameNetwork

LEMMA KeepTotal ==
    ASSUME Assumptions, IInv, Kept, NEW X \in SUBSET Transfers,
           \A x \in X : transfer[x].status # "NONE"
    PROVE  Total(parcel', transfer', X) = Total(parcel, transfer, X)
<1>1. Weighs(parcel, transfer, X)
  BY ManifestWeighs
<1>2. \A x \in X : Grams(parcel, transfer, x) = Grams(parcel', transfer', x)
  BY DEF Kept, GramsKept
<1> QED
  BY <1>1, <1>2, TotalSame

LEMMA KeepRiders ==
    ASSUME Assumptions, IInv, Kept, NEW t \in Trips
    PROVE  Total(parcel', transfer', manifest[t]) = Total(parcel, transfer, manifest[t])
<1>1. manifest[t] \in SUBSET Transfers /\ \A x \in manifest[t] : transfer[x].status # "NONE"
  BY DEF IInv, TypeOK, TripsInv, RideShape
<1> QED
  BY <1>1, KeepTotal

-----------------------------------------------------------------------------
(* What a step keeps of each part of the invariant *)

LEMMA KeepShape ==
    ASSUME IInv, NEW t \in Trips, trip'[t] = trip[t], manifest'[t] = manifest[t],
           trip[t].status # "NONE" => vehicle'[trip[t].vehicle].status # "NONE",
           trip[t].status = "READY" => vehicle'[trip[t].vehicle].status \in {"AVAILABLE", "IN_USE"},
           trip[t].status = "IN_TRANSIT" => vehicle'[trip[t].vehicle].status = "IN_USE",
           trip[t].status \in {"READY", "IN_TRANSIT"}
             => driver'[trip[t].driver] = driver[trip[t].driver]
    PROVE  TripShape(t)'
BY DEF IInv, TripsInv, TripShape

LEMMA KeepRide ==
    ASSUME IInv, HubP!TransferKept,
           \A t \in Trips : /\ manifest'[t] \subseteq manifest[t]
                            /\ manifest'[t] # {} => /\ trip'[t].from = trip[t].from
                                                    /\ trip'[t].to = trip[t].to
    PROVE  \A x \in Transfers : RideShape(x)'
<1> SUFFICES ASSUME NEW x \in Transfers PROVE RideShape(x)'
  OBVIOUS
<1>1. RideShape(x)
  BY DEF IInv, TripsInv
<1>2. transfer[x].status # "NONE" => /\ transfer'[x].status # "NONE"
                                     /\ transfer'[x].from = transfer[x].from
                                     /\ transfer'[x].to = transfer[x].to
  BY DEF HubP!TransferKept
<1> QED
  BY <1>1, <1>2 DEF RideShape

LEMMA KeepApart ==
    ASSUME IInv,
           \A t \in Trips : trip'[t].status \in Active /\ trip'[t].window # None
             => /\ trip[t].status \in Active /\ trip'[t].window = trip[t].window
                /\ trip'[t].driver = trip[t].driver /\ trip'[t].vehicle = trip[t].vehicle
    PROVE  \A t, u \in Trips : Apart(t, u)'
<1> SUFFICES ASSUME NEW t \in Trips, NEW u \in Trips PROVE Apart(t, u)'
  OBVIOUS
<1>1. Apart(t, u)
  BY DEF IInv, TripsInv
<1> QED
  BY <1>1 DEF Apart, Overlaps

LEMMA KeepFits ==
    ASSUME Assumptions, IInv, Kept, NEW t \in Trips, manifest'[t] = manifest[t],
           trip'[t].status \in Active
             => /\ trip[t].status \in Active /\ trip'[t].vehicle = trip[t].vehicle
                /\ vehicle'[trip[t].vehicle].capacity = vehicle[trip[t].vehicle].capacity,
           trip'[t].status \in {"READY", "IN_TRANSIT", "ARRIVED"}
             => /\ trip[t].status \in {"READY", "IN_TRANSIT", "ARRIVED"}
                /\ trip'[t].loaded = trip[t].loaded /\ trip'[t].limit = trip[t].limit
    PROVE  Fits(t)'
<1>1. Total(parcel', transfer', manifest'[t]) = Total(parcel, transfer, manifest[t])
  BY KeepRiders
<1>2. Fits(t)
  BY DEF IInv, TripsInv
<1> QED
  BY <1>1, <1>2 DEF Fits, Within

(* A trip that no command in flight holds may be written: its version goes  *)
(* up, so a screen knows that it shows an old one.                          *)
LEMMA Locked ==
    ASSUME NEW q \in Tasks, task[q].cmd = "assignTransfer"
    PROVE  task[q].trip \in LockedTrips /\ task[q].transfer \in LockedTransfers
BY DEF LockedTrips, LockedTransfers

LEMMA ScreenTypes ==
    ASSUME IInv, NEW q \in Tasks, task[q].cmd \in {"schedule", "reschedule", "unschedule"}
    PROVE  task[q].trip \in Trips /\ task[q].version \in Nat
<1>1. task[q] \in TaskRow
  BY DEF IInv, TypeOK
<1> QED
  BY <1>1 DEF TaskRow, IdleTask

LEMMA KeepAssign ==
    ASSUME IInv, NEW q \in Tasks, task'[q] = task[q], task[q].cmd = "assignTransfer",
           trip'[task[q].trip] = trip[task[q].trip],
           transfer'[task[q].transfer] = transfer[task[q].transfer],
           \A t \in Trips : task[q].transfer \notin manifest'[t],
           vehicle'[trip[task[q].trip].vehicle].capacity = vehicle[trip[task[q].trip].vehicle].capacity
    PROVE  TaskShape(q)'
<1>1. TaskShape(q)
  BY DEF IInv, TasksInv
<1> QED
  BY <1>1 DEF TaskShape, MatchesTrip, OnTrip

LEMMA KeepScreen ==
    ASSUME IInv, NEW q \in Tasks, task'[q] = task[q],
           task[q].cmd \in {"schedule", "reschedule", "unschedule"},
           \/ trip'[task[q].trip] = trip[task[q].trip]
           \/ /\ trip'[task[q].trip].status # "NONE"
              /\ trip'[task[q].trip].version = trip[task[q].trip].version + 1
    PROVE  TaskShape(q)'
<1>1. TaskShape(q)
  BY DEF IInv, TasksInv
<1>2. PICK t, n : t = task[q].trip /\ n = task[q].version
  OBVIOUS
<1>3. t \in Trips /\ n \in Nat
  BY <1>2, ScreenTypes
<1>4. trip[t].version \in 0 .. MaxTripVersion
  BY <1>3, RowTypes
<1>5. /\ trip[t].status # "NONE" /\ n <= trip[t].version
      /\ n = trip[t].version => task[q].window = trip[t].window
  BY <1>1, <1>2 DEF TaskShape
<1>6. /\ trip'[t].status # "NONE" /\ n <= trip'[t].version
      /\ n = trip'[t].version => task[q].window = trip'[t].window
  <2>1. CASE trip'[t] = trip[t]
    BY <1>5, <2>1
  <2>2. CASE trip'[t].status # "NONE" /\ trip'[t].version = trip[t].version + 1
    BY <1>3, <1>4, <1>5, <2>2
  <2> QED
    BY <1>2, <2>1, <2>2
<1> QED
  BY <1>2, <1>6 DEF TaskShape

LEMMA KeepOther ==
    ASSUME IInv, NEW q \in Tasks, task'[q] = task[q],
           task[q].cmd \notin {"assignTransfer", "schedule", "reschedule", "unschedule"}
    PROVE  TaskShape(q)'
BY DEF IInv, TasksInv, TaskShape

LEMMA IdleShape ==
    ASSUME NEW q \in Tasks, task'[q] = IdleTask
    PROVE  TaskShape(q)'
BY DEF TaskShape, IdleTask

(* The commands in flight when at most one of them ends.                    *)
OneEnds == UNCHANGED task \/ \E q \in Tasks : End(q)

LEMMA TasksEnd ==
    ASSUME IInv, OneEnds, \A q \in Tasks : task'[q] = task[q] => TaskShape(q)'
    PROVE  task' \in [Tasks -> TaskRow] /\ TasksInv'
<1>1. task \in [Tasks -> TaskRow] /\ IdleTask \in TaskRow
  BY DEF IInv, TypeOK, TaskRow
<1>2. /\ task' \in [Tasks -> TaskRow]
      /\ \A q \in Tasks : task'[q] = task[q] \/ task'[q] = IdleTask
  BY <1>1 DEF OneEnds, End
<1>3. LocksApart'
  BY <1>2 DEF IInv, TasksInv, LocksApart, IdleTask
<1> QED
  BY <1>2, <1>3, IdleShape DEF TasksInv

(* The commands in flight when one of them starts.                          *)
LEMMA TasksStart ==
    ASSUME IInv, NEW q \in Tasks, NEW row \in TaskRow, Start(q, row), TaskShape(q)',
           row.cmd = "assignTransfer"
             => row.trip \notin LockedTrips /\ row.transfer \notin LockedTransfers,
           \A p \in Tasks \ {q} : task'[p] = task[p] => TaskShape(p)'
    PROVE  task' \in [Tasks -> TaskRow] /\ TasksInv'
<1>1. task \in [Tasks -> TaskRow]
  BY DEF IInv, TypeOK
<1>2. /\ task' \in [Tasks -> TaskRow] /\ task'[q] = row
      /\ \A p \in Tasks \ {q} : task'[p] = task[p]
  BY <1>1 DEF Start
<1>3. LocksApart'
  BY <1>2, Locked DEF IInv, TasksInv, LocksApart
<1> QED
  BY <1>2, <1>3 DEF TasksInv

-----------------------------------------------------------------------------
(* Steps that leave trips, vehicles and drivers alone *)

Local == TypeOK /\ TripsInv /\ TasksInv

LocksKept == \A x \in LockedTransfers : transfer'[x] = transfer[x]

LEMMA AsideTrips ==
    ASSUME Assumptions, IInv, Kept, UNCHANGED <<vehicle, driver, trip, manifest>>
    PROVE  TripsInv'
<1>1. \A t \in Trips : TripShape(t)'
  BY KeepShape DEF IInv, TripsInv, TripShape
<1>2. \A t \in Trips : Fits(t)'
  BY KeepFits
<1>3. \A t, u \in Trips : Apart(t, u)'
  BY KeepApart
<1>4. \A v \in Vehicles : VehicleShape(v)'
  BY DEF IInv, TripsInv, VehicleShape
<1>5. \A x \in Transfers : RideShape(x)'
  BY KeepRide DEF Kept
<1> QED
  BY <1>1, <1>2, <1>3, <1>4, <1>5 DEF TripsInv

LEMMA AsideTask ==
    ASSUME IInv, UNCHANGED <<vehicle, trip, manifest>>, LocksKept, NEW q \in Tasks,
           task'[q] = task[q]
    PROVE  TaskShape(q)'
<1>1. CASE task[q].cmd = "assignTransfer"
  <2>1. \A t \in Trips : task[q].transfer \notin manifest'[t]
    BY <1>1 DEF IInv, TasksInv, TaskShape, OnTrip
  <2>2. transfer'[task[q].transfer] = transfer[task[q].transfer]
    BY <1>1, Locked DEF LocksKept
  <2> QED
    BY <1>1, <2>1, <2>2, KeepAssign
<1>2. CASE task[q].cmd \in {"schedule", "reschedule", "unschedule"}
  BY <1>2, KeepScreen
<1> QED
  BY <1>1, <1>2, KeepOther

LEMMA AsideLocal ==
    ASSUME Assumptions, IInv, Kept, UNCHANGED <<vehicle, driver, trip, manifest>>, LocksKept,
           OneEnds
    PROVE  Local'
<1>1. task' \in [Tasks -> TaskRow] /\ TasksInv'
  BY AsideTask, TasksEnd
<1>2. TypeOK'
  BY <1>1 DEF IInv, TypeOK
<1> QED
  BY <1>1, <1>2, AsideTrips DEF Local

LEMMA StartLocal ==
    ASSUME Assumptions, IInv, Kept, UNCHANGED <<hubVars, vehicle, driver, trip, manifest>>,
           NEW q \in Tasks, NEW row \in TaskRow, Start(q, row), TaskShape(q)',
           row.cmd = "assignTransfer"
             => row.trip \notin LockedTrips /\ row.transfer \notin LockedTransfers
    PROVE  Local'
<1>1. LocksKept
  BY DEF LocksKept, hubVars
<1>2. task' \in [Tasks -> TaskRow] /\ TasksInv'
  BY <1>1, AsideTask, TasksStart
<1>3. TypeOK'
  BY <1>2 DEF IInv, TypeOK
<1> QED
  BY <1>2, <1>3, AsideTrips DEF Local

LEMMA StartedTask ==
    ASSUME IInv, NEW q \in Tasks, NEW row, Start(q, row)
    PROVE  task'[q] = row
BY DEF IInv, TypeOK, Start

LEMMA CapacityReadLocal ==
    ASSUME Assumptions, IInv, Kept, NEW q \in Tasks, NEW v \in Vehicles, NEW c \in Capacities,
           CapacityRead(q, v, c)
    PROVE  Local'
<1>1. PICK row : row = [cmd |-> "updateCapacity", vehicle |-> v, capacity |-> c,
                        hints |-> ActiveTrips(v)]
  OBVIOUS
<1>2. row \in TaskRow /\ row.cmd = "updateCapacity"
  BY <1>1 DEF TaskRow, ActiveTrips
<1>3. Start(q, row) /\ UNCHANGED <<hubVars, vehicle, driver, trip, manifest>>
  BY <1>1 DEF CapacityRead
<1>4. task'[q] = row
  BY <1>3, StartedTask
<1>5. TaskShape(q)'
  BY <1>2, <1>4 DEF TaskShape
<1> QED
  BY <1>2, <1>3, <1>5, StartLocal

LEMMA AssignReadLocal ==
    ASSUME Assumptions, IInv, Kept, NEW q \in Tasks, NEW t \in Trips, NEW x \in Transfers,
           AssignRead(q, t, x)
    PROVE  Local'
<1>1. PICK row : row = [cmd |-> "assignTransfer", trip |-> t, transfer |-> x,
                        capacity |-> vehicle[trip[t].vehicle].capacity]
  OBVIOUS
<1>2. /\ t \notin LockedTrips /\ x \notin LockedTransfers /\ trip[t].status = "PLANNED"
      /\ MatchesTrip(x, t) /\ ~OnTrip(x) /\ Start(q, row)
      /\ UNCHANGED <<hubVars, vehicle, driver, trip, manifest>>
  BY <1>1 DEF AssignRead
<1>3. trip[t].vehicle \in Vehicles
  BY <1>2 DEF IInv, TripsInv, TripShape
<1>4. vehicle[trip[t].vehicle].capacity \in Capacities \cup {0}
  BY <1>3, CapacityNat
<1>5. row \in TaskRow
  BY <1>1, <1>4 DEF TaskRow
<1>6. task'[q] = row
  BY <1>2, StartedTask
<1>7. TaskShape(q)'
  BY <1>1, <1>2, <1>6 DEF TaskShape, MatchesTrip, OnTrip, hubVars
<1> QED
  BY <1>1, <1>2, <1>5, <1>7, StartLocal

LEMMA ShowTripLocal ==
    ASSUME Assumptions, IInv, Kept, NEW q \in Tasks, NEW t \in Trips,
           NEW cmd \in {"schedule", "reschedule", "unschedule"}, ShowTrip(q, cmd, t)
    PROVE  Local'
<1>1. PICK row : row = [cmd |-> cmd, trip |-> t, version |-> trip[t].version,
                        window |-> trip[t].window]
  OBVIOUS
<1>2. trip[t].status # "NONE" /\ Start(q, row) /\ UNCHANGED <<hubVars, vehicle, driver, trip, manifest>>
  BY <1>1 DEF ShowTrip
<1>3. trip[t].version \in Nat /\ trip[t].window \in Windows \cup {None}
  BY RowTypes
<1>4. row \in TaskRow
  BY <1>1, <1>3 DEF TaskRow
<1>5. task'[q] = row
  BY <1>2, StartedTask
<1>6. TaskShape(q)'
  BY <1>1, <1>2, <1>3, <1>5 DEF TaskShape
<1> QED
  BY <1>1, <1>2, <1>4, <1>6, StartLocal

LEMMA PrepareReadLocal ==
    ASSUME Assumptions, IInv, Kept, NEW q \in Tasks, NEW t \in Trips, PrepareRead(q, t)
    PROVE  Local'
<1>1. PICK routed \in BOOLEAN :
        routed = (/\ trip[t].status = "PLANNED"
                  /\ manifest[t] # {}
                  /\ \A x \in manifest[t] : MatchesTrip(x, t) /\ AtOrigin(x, t)
                  /\ Located(t))
  OBVIOUS
<1>2. PICK row : row = [cmd |-> "prepare", trip |-> t, routed |-> routed]
  OBVIOUS
<1>3. row \in TaskRow /\ row.cmd = "prepare"
  BY <1>2 DEF TaskRow
<1>4. Start(q, row) /\ UNCHANGED <<hubVars, vehicle, driver, trip, manifest>>
  BY <1>1, <1>2 DEF PrepareRead
<1>5. task'[q] = row
  BY <1>4, StartedTask
<1>6. TaskShape(q)'
  BY <1>3, <1>5 DEF TaskShape
<1> QED
  BY <1>3, <1>4, <1>6, StartLocal

LEMMA RecalculateReadLocal ==
    ASSUME Assumptions, IInv, Kept, NEW q \in Tasks, NEW t \in Trips, RecalculateRead(q, t)
    PROVE  Local'
<1>1. PICK row : row = [cmd |-> "recalculateRoute", trip |-> t, version |-> trip[t].version,
                        route |-> trip[t].route, point |-> site[trip[t].to].point]
  OBVIOUS
<1>2. /\ trip[t].status = "IN_TRANSIT" /\ trip[t].route > 0 /\ site[trip[t].to].point # None
      /\ Start(q, row) /\ UNCHANGED <<hubVars, vehicle, driver, trip, manifest>>
  BY <1>1 DEF RecalculateRead
<1>3. trip[t].version \in Nat /\ trip[t].route \in Nat
  BY RowTypes
<1>4. site[trip[t].to].point \in Points
  <2>1. trip[t].to \in Sites
    BY <1>2 DEF IInv, TripsInv, TripShape
  <2>2. site[trip[t].to] \in HubP!SiteRow
    BY <2>1 DEF IInv, HubP!IInv, HubP!TypeOK
  <2> QED
    BY <1>2, <2>2 DEF HubP!SiteRow
<1>5. row \in TaskRow
  BY <1>1, <1>3, <1>4 DEF TaskRow
<1>6. task'[q] = row
  BY <1>2, StartedTask
<1>7. TaskShape(q)'
  BY <1>1, <1>2, <1>6 DEF TaskShape
<1> QED
  BY <1>1, <1>2, <1>5, <1>7, StartLocal

-----------------------------------------------------------------------------
(* Vehicles and drivers *)

LEMMA FleetTask ==
    ASSUME IInv, UNCHANGED <<hubVars, trip, manifest>>, NEW q \in Tasks, task'[q] = task[q],
           task[q].cmd = "assignTransfer"
             => vehicle'[trip[task[q].trip].vehicle].capacity
                  = vehicle[trip[task[q].trip].vehicle].capacity
    PROVE  TaskShape(q)'
<1>1. CASE task[q].cmd = "assignTransfer"
  <2>1. \A t \in Trips : task[q].transfer \notin manifest'[t]
    BY <1>1 DEF IInv, TasksInv, TaskShape, OnTrip
  <2> QED
    BY <1>1, <2>1, KeepAssign DEF hubVars
<1>2. CASE task[q].cmd \in {"schedule", "reschedule", "unschedule"}
  BY <1>2, KeepScreen
<1> QED
  BY <1>1, <1>2, KeepOther

LEMMA FleetTrips ==
    ASSUME IInv, Kept, UNCHANGED <<hubVars, trip, manifest>>,
           \A v \in Vehicles : vehicle'[v].status = "IN_USE" <=> vehicle[v].status = "IN_USE",
           \A t \in Trips : TripShape(t)' /\ Fits(t)'
    PROVE  TripsInv'
<1>1. \A t, u \in Trips : Apart(t, u)'
  BY KeepApart
<1>2. \A v \in Vehicles : VehicleShape(v)'
  BY DEF IInv, TripsInv, VehicleShape
<1>3. \A x \in Transfers : RideShape(x)'
  BY KeepRide DEF Kept
<1> QED
  BY <1>1, <1>2, <1>3 DEF TripsInv

LEMMA FleetLocal ==
    ASSUME IInv, Kept, UNCHANGED <<hubVars, trip, manifest>>, OneEnds,
           vehicle' \in [Vehicles -> VehicleRow], driver' \in [Drivers -> DriverRow],
           \A v \in Vehicles : vehicle'[v].status = "IN_USE" <=> vehicle[v].status = "IN_USE",
           \A t \in Trips : TripShape(t)' /\ Fits(t)',
           \A q \in Tasks : task[q].cmd = "assignTransfer"
             => vehicle'[trip[task[q].trip].vehicle].capacity
                  = vehicle[trip[task[q].trip].vehicle].capacity
    PROVE  Local'
<1>1. task' \in [Tasks -> TaskRow] /\ TasksInv'
  BY FleetTask, TasksEnd
<1>2. TypeOK'
  BY <1>1 DEF IInv, TypeOK
<1> QED
  BY <1>1, <1>2, FleetTrips DEF Local

(* The vehicle of the trip that an assignTransfer in flight holds.          *)
LEMMA AssignVehicle ==
    ASSUME IInv, NEW q \in Tasks, task[q].cmd = "assignTransfer"
    PROVE  /\ task[q].trip \in Trips /\ trip[task[q].trip].status = "PLANNED"
           /\ trip[task[q].trip].vehicle \in Vehicles
           /\ vehicle[trip[task[q].trip].vehicle].status # "NONE"
<1>1. PICK t \in Trips : t = task[q].trip
  BY AssignTypes
<1>2. trip[t].status = "PLANNED"
  BY <1>1 DEF IInv, TasksInv, TaskShape
<1>3. TripShape(t)
  BY DEF IInv, TripsInv
<1> QED
  BY <1>1, <1>2, <1>3 DEF TripShape

LEMMA ActiveVehicle ==
    ASSUME IInv, NEW t \in Trips, trip[t].status # "NONE"
    PROVE  trip[t].vehicle \in Vehicles /\ vehicle[trip[t].vehicle].status # "NONE"
BY DEF IInv, TripsInv, TripShape

LEMMA CreateVehicleLocal ==
    ASSUME Assumptions, IInv, Kept, NEW v \in Vehicles, NEW c \in Capacities, CreateVehicle(v, c)
    PROVE  Local'
<1>1. PICK row : row = [status |-> "AVAILABLE", capacity |-> c]
  OBVIOUS
<1>2. /\ vehicle[v].status = "NONE" /\ vehicle' = [vehicle EXCEPT ![v] = row]
      /\ UNCHANGED <<hubVars, driver, trip, manifest, task>>
  BY <1>1 DEF CreateVehicle
<1>3. row \in VehicleRow /\ row.status = "AVAILABLE"
  BY <1>1 DEF VehicleRow
<1>4. /\ vehicle' \in [Vehicles -> VehicleRow] /\ vehicle'[v].status = "AVAILABLE"
      /\ \A w \in Vehicles \ {v} : vehicle'[w] = vehicle[w]
  BY <1>2, <1>3 DEF IInv, TypeOK
<1>5. \A t \in Trips : trip[t].status # "NONE"
        => trip[t].vehicle \in Vehicles \ {v}
  BY <1>2, ActiveVehicle
<1>6. \A t \in Trips : TripShape(t)'
  BY <1>2, <1>4, <1>5, KeepShape DEF IInv, TripsInv, TripShape
<1>7. \A t \in Trips : Fits(t)'
  BY <1>2, <1>4, <1>5, KeepFits DEF Active
<1>8. \A q \in Tasks : task[q].cmd = "assignTransfer"
        => vehicle'[trip[task[q].trip].vehicle].capacity
             = vehicle[trip[task[q].trip].vehicle].capacity
  BY <1>4, <1>5, AssignVehicle
<1>9. \A w \in Vehicles : vehicle'[w].status = "IN_USE" <=> vehicle[w].status = "IN_USE"
  BY <1>2, <1>4
<1>10. driver' \in [Drivers -> DriverRow] /\ OneEnds
  BY <1>2 DEF IInv, TypeOK, OneEnds
<1> QED
  BY <1>2, <1>4, <1>6, <1>7, <1>8, <1>9, <1>10, FleetLocal

LEMMA OperationalLocal ==
    ASSUME Assumptions, IInv, Kept, NEW v \in Vehicles,
           NEW status \in {"AVAILABLE", "MAINTENANCE", "INACTIVE"}, SetOperationalStatus(v, status)
    PROVE  Local'
<1>1. /\ vehicle[v].status \notin {"NONE", "IN_USE"}
      /\ vehicle' = [vehicle EXCEPT ![v].status = status]
      /\ \A t \in Trips : trip[t].vehicle = v => trip[t].status \notin Executing
      /\ UNCHANGED <<hubVars, driver, trip, manifest, task>>
  BY DEF SetOperationalStatus
<1>2. PICK old \in VehicleRow : old = vehicle[v]
  BY DEF IInv, TypeOK
<1>3. PICK new : new = [old EXCEPT !.status = status]
  OBVIOUS
<1>4. new \in VehicleRow /\ new.status = status /\ new.capacity = old.capacity
  BY <1>3 DEF VehicleRow
<1>5. vehicle' = [vehicle EXCEPT ![v] = new]
  BY <1>1, <1>2, <1>3 DEF IInv, TypeOK
<1>6. /\ vehicle' \in [Vehicles -> VehicleRow] /\ vehicle'[v].status = status
      /\ \A w \in Vehicles \ {v} : vehicle'[w] = vehicle[w]
      /\ \A w \in Vehicles : vehicle'[w].capacity = vehicle[w].capacity
  BY <1>2, <1>4, <1>5 DEF IInv, TypeOK
<1>7. \A t \in Trips : TripShape(t)'
  <2>1. TAKE t \in Trips
  <2>2. TripShape(t)
    BY DEF IInv, TripsInv
  <2>3. CASE trip[t].vehicle = v
    <3>1. trip[t].status \notin {"READY", "IN_TRANSIT"}
      BY <1>1, <2>3 DEF Executing
    <3> QED
      BY <1>1, <1>6, <2>3, <3>1, KeepShape
  <2>4. CASE trip[t].vehicle # v
    BY <1>1, <1>6, <2>2, <2>4, KeepShape, ActiveVehicle DEF TripShape
  <2> QED
    BY <2>3, <2>4
<1>8. \A t \in Trips : Fits(t)'
  BY <1>1, <1>6, ActiveVehicle, KeepFits DEF Active
<1>9. \A q \in Tasks : task[q].cmd = "assignTransfer"
        => vehicle'[trip[task[q].trip].vehicle].capacity
             = vehicle[trip[task[q].trip].vehicle].capacity
  BY <1>6, AssignVehicle
<1>10. \A w \in Vehicles : vehicle'[w].status = "IN_USE" <=> vehicle[w].status = "IN_USE"
  BY <1>1, <1>6
<1>11. driver' \in [Drivers -> DriverRow] /\ OneEnds
  BY <1>1 DEF IInv, TypeOK, OneEnds
<1> QED
  BY <1>1, <1>6, <1>7, <1>8, <1>9, <1>10, <1>11, FleetLocal

(* updateCapacity looked at every trip that could be loading its vehicle.   *)
LEMMA UpdateCapacityLocal ==
    ASSUME Assumptions, IInv, Kept, NEW q \in Tasks, UpdateCapacity(q)
    PROVE  Local'
<1>1. PICK v, c, H : v = task[q].vehicle /\ c = task[q].capacity /\ H = task[q].hints
  OBVIOUS
<1>2. /\ task[q].cmd = "updateCapacity" /\ H \cap LockedTrips = {} /\ ActiveTrips(v) = H
      /\ \A t \in H : Within(Weigh(manifest[t]), c)
      /\ vehicle' = [vehicle EXCEPT ![v].capacity = c] /\ End(q)
      /\ UNCHANGED <<hubVars, driver, trip, manifest>>
  BY <1>1 DEF UpdateCapacity
<1>3. v \in Vehicles /\ c \in Capacities
  <2>1. task[q] \in TaskRow
    BY DEF IInv, TypeOK
  <2> QED
    BY <1>1, <1>2, <2>1 DEF TaskRow, IdleTask
<1>4. PICK old \in VehicleRow : old = vehicle[v]
  BY <1>3 DEF IInv, TypeOK
<1>5. PICK new : new = [old EXCEPT !.capacity = c]
  OBVIOUS
<1>6. new \in VehicleRow /\ new.status = old.status /\ new.capacity = c
  BY <1>3, <1>5 DEF VehicleRow
<1>7. vehicle' = [vehicle EXCEPT ![v] = new]
  BY <1>2, <1>3, <1>4, <1>5 DEF IInv, TypeOK
<1>8. /\ vehicle' \in [Vehicles -> VehicleRow] /\ vehicle'[v].capacity = c
      /\ \A w \in Vehicles \ {v} : vehicle'[w] = vehicle[w]
      /\ \A w \in Vehicles : vehicle'[w].status = vehicle[w].status
  BY <1>3, <1>4, <1>6, <1>7 DEF IInv, TypeOK
<1>9. \A t \in Trips : TripShape(t)'
  <2>1. TAKE t \in Trips
  <2>2. TripShape(t)
    BY DEF IInv, TripsInv
  <2> QED
    BY <1>2, <1>8, <2>2, KeepShape, ActiveVehicle DEF TripShape
<1>10. \A t \in Trips : Fits(t)'
  <2>1. TAKE t \in Trips
  <2>2. CASE t \in H
    <3>1. Within(Total(parcel', transfer', manifest'[t]), c)
      BY <1>2, <2>2, KeepRiders, ManifestTotal
    <3>2. trip[t].vehicle = v
      BY <1>2, <2>2 DEF ActiveTrips
    <3>3. Total(parcel', transfer', manifest'[t]) = Total(parcel, transfer, manifest[t])
      BY <1>2, KeepRiders
    <3>4. Fits(t)
      BY DEF IInv, TripsInv
    <3> QED
      BY <1>2, <1>8, <3>1, <3>2, <3>3, <3>4 DEF Fits
  <2>3. CASE t \notin H
    <3>1. trip[t].status \in Active => trip[t].vehicle # v
      BY <1>2, <2>3 DEF ActiveTrips
    <3> QED
      BY <1>2, <1>8, <3>1, ActiveVehicle, KeepFits DEF Active
  <2> QED
    BY <2>2, <2>3
<1>11. \A p \in Tasks : task[p].cmd = "assignTransfer"
        => vehicle'[trip[task[p].trip].vehicle].capacity
             = vehicle[trip[task[p].trip].vehicle].capacity
  <2>1. TAKE p \in Tasks
  <2>2. HAVE task[p].cmd = "assignTransfer"
  <2>3. PICK t \in Trips : t = task[p].trip
    BY <2>2, AssignTypes
  <2>4. t \in LockedTrips /\ trip[t].status = "PLANNED"
    BY <2>2, <2>3, Locked, AssignVehicle
  <2>5. trip[t].vehicle # v
    BY <1>2, <2>4 DEF ActiveTrips, Active
  <2> QED
    BY <1>8, <2>2, <2>3, <2>5, AssignVehicle
<1>12. driver' \in [Drivers -> DriverRow] /\ OneEnds
  BY <1>2 DEF IInv, TypeOK, OneEnds
<1> QED
  BY <1>2, <1>8, <1>9, <1>10, <1>11, <1>12, FleetLocal

(* A driver with a ready or running trip keeps duty and eligibility.        *)
LEMMA DriverLocal ==
    ASSUME Assumptions, IInv, Kept, NEW d \in Drivers, DriverDuty(d) \/ DriverEligibility(d)
    PROVE  Local'
<1>1. /\ UNCHANGED <<hubVars, vehicle, trip, manifest, task>>
      /\ \A e \in Drivers \ {d} : driver'[e] = driver[e]
      /\ driver' \in [Drivers -> DriverRow]
  <2>1. driver[d] \in DriverRow /\ driver \in [Drivers -> DriverRow]
    BY DEF IInv, TypeOK
  <2>2. CASE DriverDuty(d)
    BY <2>1, <2>2 DEF DriverDuty, DriverRow
  <2>3. CASE DriverEligibility(d)
    BY <2>1, <2>3 DEF DriverEligibility, DriverRow
  <2> QED
    BY <2>2, <2>3
<1>2. NoActiveLineHaulTrip(d) \/ driver[d].busy \/ ~driver[d].eligible
  BY DEF DriverDuty, DriverEligibility
<1>3. ASSUME NEW t \in Trips
      PROVE  TripShape(t)'
  <2>1. TripShape(t)
    BY DEF IInv, TripsInv
  <2>2. trip[t].status \in {"READY", "IN_TRANSIT"} => trip[t].driver \in Drivers \ {d}
    BY <1>2, <2>1 DEF TripShape, NoActiveLineHaulTrip, Executing
  <2> QED
    BY <1>1, <2>1, <2>2, KeepShape DEF TripShape
<1>4. \A t \in Trips : Fits(t)'
  BY <1>1, KeepFits
<1>5. vehicle' \in [Vehicles -> VehicleRow] /\ OneEnds
  BY <1>1 DEF IInv, TypeOK, OneEnds
<1> QED
  BY <1>1, <1>3, <1>4, <1>5, FleetLocal

-----------------------------------------------------------------------------
(* Commands that write one trip *)

LEMMA WriteTasks ==
    ASSUME IInv, NEW t \in Trips, t \notin LockedTrips, LocksKept, OneEnds,
           \A u \in Trips \ {t} : trip'[u] = trip[u],
           trip'[t].version = trip[t].version + 1, trip'[t].status # "NONE",
           \A u \in Trips : manifest'[u] \subseteq manifest[u],
           \A v \in Vehicles : vehicle'[v].capacity = vehicle[v].capacity
    PROVE  task' \in [Tasks -> TaskRow] /\ TasksInv'
<1>1. ASSUME NEW q \in Tasks, task'[q] = task[q]
      PROVE  TaskShape(q)'
  <2>1. CASE task[q].cmd = "assignTransfer"
    <3>1. task[q].trip \in Trips \ {t} /\ task[q].transfer \in LockedTransfers
      BY <2>1, Locked, AssignTypes
    <3>2. \A u \in Trips : task[q].transfer \notin manifest'[u]
      BY <2>1 DEF IInv, TasksInv, TaskShape, OnTrip
    <3> QED
      BY <1>1, <2>1, <3>1, <3>2, AssignVehicle, KeepAssign DEF LocksKept
  <2>2. CASE task[q].cmd \in {"schedule", "reschedule", "unschedule"}
    BY <1>1, <2>2, ScreenTypes, KeepScreen
  <2> QED
    BY <1>1, <2>1, <2>2, KeepOther
<1> QED
  BY <1>1, TasksEnd

(* The other trips, when vehicles and drivers stay as they are.             *)
LEMMA OthersKeep ==
    ASSUME Assumptions, IInv, Kept, UNCHANGED <<vehicle, driver>>, NEW t \in Trips,
           \A u \in Trips \ {t} : trip'[u] = trip[u] /\ manifest'[u] = manifest[u]
    PROVE  \A u \in Trips \ {t} : TripShape(u)' /\ Fits(u)'
<1>1. ASSUME NEW u \in Trips \ {t}
      PROVE  TripShape(u)'
  BY KeepShape DEF IInv, TripsInv, TripShape
<1>2. ASSUME NEW u \in Trips \ {t}
      PROVE  Fits(u)'
  BY KeepFits
<1> QED
  BY <1>1, <1>2

(* Vehicles, when no trip starts or stops driving.                          *)
LEMMA VehiclesKeep ==
    ASSUME IInv, UNCHANGED vehicle,
           \A t \in Trips : /\ trip'[t].status = "IN_TRANSIT" <=> trip[t].status = "IN_TRANSIT"
                            /\ trip[t].status = "IN_TRANSIT" => trip'[t].vehicle = trip[t].vehicle
    PROVE  \A v \in Vehicles : VehicleShape(v)'
BY DEF IInv, TripsInv, VehicleShape

LEMMA CancelLocal ==
    ASSUME Assumptions, IInv, Kept, NEW t \in Trips, Cancel(t)
    PROVE  Local'
<1>1. /\ Rewritten(t, "CANCELLED", trip[t].window, trip[t].route, trip[t].loaded, trip[t].limit)
      /\ manifest' \in [Trips -> SUBSET Transfers] /\ manifest'[t] = {}
      /\ \A u \in Trips \ {t} : manifest'[u] = manifest[u]
      /\ trip[t].status \in {"PLANNED", "READY"} /\ UNCHANGED <<hubVars, vehicle, driver, task>>
      /\ t \notin LockedTrips
  BY CancelRow
<1>2. /\ trip' \in [Trips -> TripRow] /\ \A u \in Trips \ {t} : trip'[u] = trip[u]
      /\ trip'[t].status = "CANCELLED" /\ trip'[t].version = trip[t].version + 1
      /\ trip'[t].route = trip[t].route
      /\ trip'[t].from = trip[t].from /\ trip'[t].to = trip[t].to
      /\ trip'[t].driver = trip[t].driver /\ trip'[t].vehicle = trip[t].vehicle
  BY <1>1 DEF Rewritten
<1>3. LocksKept /\ OneEnds
  BY <1>1 DEF LocksKept, OneEnds, hubVars
<1>4. task' \in [Tasks -> TaskRow] /\ TasksInv'
  BY <1>1, <1>2, <1>3, WriteTasks
<1>5. TypeOK'
  BY <1>1, <1>2, <1>4 DEF IInv, TypeOK
<1>6. TripShape(t)'
  <2>1. TripShape(t)
    BY DEF IInv, TripsInv
  <2>2. trip'[t].route <= trip'[t].version
    BY <1>2, <2>1, RowTypes DEF TripShape
  <2> QED
    BY <1>1, <1>2, <2>1, <2>2 DEF TripShape
<1>7. Fits(t)'
  BY <1>2 DEF Fits, Active
<1>8. \A u \in Trips \ {t} : TripShape(u)' /\ Fits(u)'
  BY <1>1, <1>2, OthersKeep
<1>9. \A u, w \in Trips : Apart(u, w)'
  BY <1>2, KeepApart DEF Active
<1>10. \A v \in Vehicles : VehicleShape(v)'
  BY <1>1, <1>2, VehiclesKeep
<1>11. \A x \in Transfers : RideShape(x)'
  BY <1>1, <1>2, KeepRide DEF Kept
<1> QED
  BY <1>4, <1>5, <1>6, <1>7, <1>8, <1>9, <1>10, <1>11 DEF Local, TripsInv

(* Commands that leave manifests, vehicles and drivers alone.               *)
LEMMA RewriteLocal ==
    ASSUME Assumptions, IInv, Kept, NEW t \in Trips, t \notin LockedTrips,
           NEW status, NEW window, NEW route, NEW loaded, NEW limit,
           Rewritten(t, status, window, route, loaded, limit),
           UNCHANGED <<hubVars, vehicle, driver, manifest>>, OneEnds,
           status \in {"PLANNED", "READY", "IN_TRANSIT"}, trip[t].status \in {"PLANNED", "IN_TRANSIT"},
           status = "IN_TRANSIT" <=> trip[t].status = "IN_TRANSIT",
           TripShape(t)', Fits(t)', \A u, w \in Trips : Apart(u, w)'
    PROVE  Local'
<1>1. /\ trip' \in [Trips -> TripRow] /\ \A u \in Trips \ {t} : trip'[u] = trip[u]
      /\ trip'[t].status = status /\ trip'[t].version = trip[t].version + 1
      /\ trip'[t].from = trip[t].from /\ trip'[t].to = trip[t].to
      /\ trip'[t].driver = trip[t].driver /\ trip'[t].vehicle = trip[t].vehicle
  BY DEF Rewritten
<1>2. LocksKept
  BY DEF LocksKept, hubVars
<1>3. task' \in [Tasks -> TaskRow] /\ TasksInv'
  BY <1>1, <1>2, WriteTasks
<1>4. TypeOK'
  BY <1>1, <1>3 DEF IInv, TypeOK
<1>5. \A u \in Trips \ {t} : TripShape(u)' /\ Fits(u)'
  BY <1>1, OthersKeep
<1>6. \A v \in Vehicles : VehicleShape(v)'
  BY <1>1, VehiclesKeep
<1>7. \A x \in Transfers : RideShape(x)'
  BY <1>1, KeepRide DEF Kept
<1> QED
  BY <1>3, <1>4, <1>5, <1>6, <1>7 DEF Local, TripsInv

(* The shape of a trip whose window or route is written.                    *)
LEMMA WindowShape ==
    ASSUME IInv, NEW t \in Trips, NEW window,
           Rewritten(t, trip[t].status, window, trip[t].route, trip[t].loaded, trip[t].limit),
           UNCHANGED <<vehicle, driver, manifest>>, trip[t].status = "PLANNED"
    PROVE  TripShape(t)'
<1>1. TripShape(t)
  BY DEF IInv, TripsInv
<1>2. trip'[t].route <= trip'[t].version
  <2>1. /\ trip[t].route <= trip[t].version /\ trip[t].route \in Nat /\ trip[t].version \in Nat
        /\ trip'[t].route = trip[t].route /\ trip'[t].version = trip[t].version + 1
    BY <1>1, RowTypes DEF TripShape, Rewritten
  <2> QED
    BY <2>1
<1>3. /\ trip'[t].status = trip[t].status /\ trip'[t].route = trip[t].route
      /\ trip'[t].from = trip[t].from /\ trip'[t].to = trip[t].to
      /\ trip'[t].driver = trip[t].driver /\ trip'[t].vehicle = trip[t].vehicle
  BY DEF Rewritten
<1> QED
  BY <1>1, <1>2, <1>3 DEF TripShape

LEMMA RouteShape ==
    ASSUME IInv, NEW t \in Trips,
           Rewritten(t, trip[t].status, trip[t].window, trip[t].route + 1, trip[t].loaded,
                     trip[t].limit),
           UNCHANGED <<vehicle, driver, manifest>>, trip[t].status = "IN_TRANSIT"
    PROVE  TripShape(t)'
<1>1. TripShape(t)
  BY DEF IInv, TripsInv
<1>2. trip'[t].route <= trip'[t].version
  <2>1. /\ trip[t].route <= trip[t].version /\ trip[t].route \in Nat /\ trip[t].version \in Nat
        /\ trip'[t].route = trip[t].route + 1 /\ trip'[t].version = trip[t].version + 1
    BY <1>1, RowTypes DEF TripShape, Rewritten
  <2> QED
    BY <2>1
<1>3. /\ trip'[t].status = trip[t].status /\ trip'[t].window = trip[t].window
      /\ trip'[t].from = trip[t].from /\ trip'[t].to = trip[t].to
      /\ trip'[t].driver = trip[t].driver /\ trip'[t].vehicle = trip[t].vehicle
  BY DEF Rewritten
<1> QED
  BY <1>1, <1>2, <1>3 DEF TripShape

LEMMA RewrittenFits ==
    ASSUME Assumptions, IInv, Kept, NEW t \in Trips, NEW window, NEW route,
           Rewritten(t, trip[t].status, window, route, trip[t].loaded, trip[t].limit),
           UNCHANGED <<vehicle, manifest>>
    PROVE  Fits(t)'
BY KeepFits DEF Rewritten

(* Windows that overlap do so either way round.                             *)
LEMMA OverlapsBoth ==
    ASSUME Assumptions, NEW w \in Windows, NEW u \in Windows, Overlaps(w, u)
    PROVE  Overlaps(u, w)
BY DEF Overlaps

(* What assertScheduleResourcesAvailable finds out for a window.            *)
LEMMA FreeApart ==
    ASSUME Assumptions, IInv, NEW t, NEW d, NEW v, NEW w \in Windows, ResourcesFree(t, d, v, w),
           NEW u \in Trips, u # t, trip[u].status \in Active, trip[u].window # None,
           trip[u].driver = d \/ trip[u].vehicle = v
    PROVE  ~Overlaps(trip[u].window, w) /\ ~Overlaps(w, trip[u].window)
<1>1. ~ConflictsWith(u, w)
  BY DEF ResourcesFree
<1>2. ~Overlaps(trip[u].window, w)
  BY <1>1 DEF ConflictsWith
<1>3. trip[u].window \in Windows
  BY RowTypes
<1> QED
  BY <1>2, <1>3, OverlapsBoth

LEMMA SetScheduleLocal ==
    ASSUME Assumptions, IInv, Kept, NEW q \in Tasks, NEW w \in Windows, SetSchedule(q, w)
    PROVE  Local'
<1>1. PICK t : t = task[q].trip
  OBVIOUS
<1>2. /\ t \in Trips
      /\ Rewritten(t, trip[t].status, w, trip[t].route, trip[t].loaded, trip[t].limit)
  BY <1>1, SetScheduleRow
<1>3. /\ t \notin LockedTrips /\ trip[t].status = "PLANNED" /\ End(q)
      /\ ResourcesFree(t, trip[t].driver, trip[t].vehicle, w)
      /\ UNCHANGED <<hubVars, vehicle, driver, manifest>>
  BY <1>1 DEF SetSchedule, Reschedulable
<1>4. TripShape(t)'
  BY <1>2, <1>3, WindowShape
<1>5. Fits(t)'
  BY <1>2, <1>3, RewrittenFits
<1>6. \A u, z \in Trips : Apart(u, z)'
  <2>1. /\ \A u \in Trips \ {t} : trip'[u] = trip[u]
        /\ trip'[t].status = trip[t].status /\ trip'[t].window = w
        /\ trip'[t].driver = trip[t].driver /\ trip'[t].vehicle = trip[t].vehicle
    BY <1>2 DEF Rewritten
  <2>2. ASSUME NEW u \in Trips \ {t}
        PROVE  Apart(u, t)' /\ Apart(t, u)'
    BY <1>2, <1>3, <2>1, FreeApart DEF Apart
  <2>3. ASSUME NEW u \in Trips \ {t}, NEW z \in Trips \ {t}
        PROVE  Apart(u, z)'
    BY <2>1 DEF IInv, TripsInv, Apart
  <2>4. Apart(t, t)'
    BY DEF Apart
  <2> QED
    BY <2>2, <2>3, <2>4
<1> QED
  BY <1>2, <1>3, <1>4, <1>5, <1>6, RewriteLocal DEF OneEnds

LEMMA UnscheduleLocal ==
    ASSUME Assumptions, IInv, Kept, NEW q \in Tasks, Unschedule(q)
    PROVE  Local'
<1>1. PICK t : t = task[q].trip
  OBVIOUS
<1>2. /\ t \in Trips
      /\ Rewritten(t, trip[t].status, None, trip[t].route, trip[t].loaded, trip[t].limit)
  BY <1>1, UnscheduleRow
<1>3. /\ t \notin LockedTrips /\ trip[t].status = "PLANNED" /\ End(q)
      /\ UNCHANGED <<hubVars, vehicle, driver, manifest>>
  BY <1>1 DEF Unschedule, Reschedulable
<1>4. TripShape(t)'
  BY <1>2, <1>3, WindowShape
<1>5. Fits(t)'
  BY <1>2, <1>3, RewrittenFits
<1>6. \A u, z \in Trips : Apart(u, z)'
  BY <1>2, KeepApart DEF Rewritten
<1> QED
  BY <1>2, <1>3, <1>4, <1>5, <1>6, RewriteLocal DEF OneEnds

LEMMA RecalculateLocal ==
    ASSUME Assumptions, IInv, Kept, NEW q \in Tasks, RecalculateRoute(q)
    PROVE  Local'
<1>1. PICK t : t = task[q].trip
  OBVIOUS
<1>2. /\ t \in Trips
      /\ Rewritten(t, trip[t].status, trip[t].window, trip[t].route + 1, trip[t].loaded,
                   trip[t].limit)
  BY <1>1, RecalculateRow
<1>3. /\ t \notin LockedTrips /\ trip[t].status = "IN_TRANSIT" /\ End(q)
      /\ UNCHANGED <<hubVars, vehicle, driver, manifest>>
  BY <1>1 DEF RecalculateRoute
<1>4. TripShape(t)'
  BY <1>2, <1>3, RouteShape
<1>5. Fits(t)'
  BY <1>2, <1>3, RewrittenFits
<1>6. \A u, z \in Trips : Apart(u, z)'
  BY <1>2, KeepApart DEF Rewritten
<1> QED
  BY <1>2, <1>3, <1>4, <1>5, <1>6, RewriteLocal DEF OneEnds

-----------------------------------------------------------------------------
(* Execution *)

LEMMA PrepareLocal ==
    ASSUME Assumptions, IInv, Kept, NEW q \in Tasks, Prepare(q)
    PROVE  Local'
<1>1. PICK t : t = task[q].trip
  OBVIOUS
<1>2. /\ t \in Trips /\ trip[t].status = "PLANNED" /\ t \notin LockedTrips /\ ExecutionReady(t)
      /\ UNCHANGED <<hubVars, vehicle, driver, manifest>> /\ End(q)
      /\ \E route \in {trip[t].route, 1} :
           Rewritten(t, "READY", trip[t].window, route,
                     Total(parcel, transfer, manifest[t]), vehicle[trip[t].vehicle].capacity)
  BY <1>1, PrepareRow
<1>3. PICK grams, limit : /\ grams = Total(parcel, transfer, manifest[t])
                          /\ limit = vehicle[trip[t].vehicle].capacity
  OBVIOUS
<1>4. PICK route \in {trip[t].route, 1} :
        Rewritten(t, "READY", trip[t].window, route, grams, limit)
  BY <1>2, <1>3
<1>5. /\ \A u \in Trips \ {t} : trip'[u] = trip[u]
      /\ trip'[t].status = "READY" /\ trip'[t].window = trip[t].window /\ trip'[t].route = route
      /\ trip'[t].loaded = grams /\ trip'[t].limit = limit
      /\ trip'[t].version = trip[t].version + 1
      /\ trip'[t].from = trip[t].from /\ trip'[t].to = trip[t].to
      /\ trip'[t].driver = trip[t].driver /\ trip'[t].vehicle = trip[t].vehicle
  BY <1>4 DEF Rewritten
<1>6. /\ trip[t].window # None /\ driver[trip[t].driver].eligible /\ ~driver[trip[t].driver].busy
      /\ vehicle[trip[t].vehicle].status = "AVAILABLE" /\ manifest[t] # {}
      /\ Within(grams, limit)
  BY <1>2, <1>3, ManifestTotal DEF ExecutionReady, VehicleEligible
<1>7. TripShape(t)'
  <2>1. TripShape(t)
    BY <1>2 DEF IInv, TripsInv
  <2>2. trip'[t].route <= trip'[t].version
    <3>1. trip[t].route <= trip[t].version /\ trip[t].route \in Nat /\ trip[t].version \in Nat
      BY <1>2, <2>1, RowTypes DEF TripShape
    <3>2. route <= trip[t].version + 1
      BY <3>1
    <3> QED
      BY <1>5, <3>2
  <2> QED
    BY <1>2, <1>5, <1>6, <2>1, <2>2 DEF TripShape
<1>8. Fits(t)'
  <2>1. Total(parcel', transfer', manifest'[t]) = grams
    BY <1>2, <1>3, KeepRiders
  <2>2. vehicle'[trip'[t].vehicle].capacity = limit
    BY <1>2, <1>3, <1>5
  <2> QED
    BY <1>5, <1>6, <2>1, <2>2 DEF Fits
<1>9. \A u, z \in Trips : Apart(u, z)'
  BY <1>2, <1>5, KeepApart DEF Active
<1> QED
  BY <1>2, <1>4, <1>7, <1>8, <1>9, RewriteLocal DEF OneEnds

(* Dispatch and arrival also write the vehicle of the trip.                 *)
VehicleWrites(v, status) ==
    /\ vehicle' \in [Vehicles -> VehicleRow] /\ vehicle'[v].status = status
    /\ \A w \in Vehicles \ {v} : vehicle'[w] = vehicle[w]
    /\ \A w \in Vehicles : vehicle'[w].capacity = vehicle[w].capacity

LEMMA VehicleWritten ==
    ASSUME IInv, NEW v \in Vehicles, NEW status \in {"IN_USE", "AVAILABLE"},
           vehicle' = [vehicle EXCEPT ![v].status = status]
    PROVE  VehicleWrites(v, status)
<1>1. PICK old \in VehicleRow : old = vehicle[v]
  BY DEF IInv, TypeOK
<1>2. PICK new : new = [old EXCEPT !.status = status]
  OBVIOUS
<1>3. new \in VehicleRow /\ new.status = status /\ new.capacity = old.capacity
  BY <1>2 DEF VehicleRow
<1>4. vehicle' = [vehicle EXCEPT ![v] = new]
  BY <1>1, <1>2 DEF IInv, TypeOK
<1> QED
  BY <1>1, <1>3, <1>4 DEF IInv, TypeOK, VehicleWrites

(* A trip moves, and its vehicle with it.                                   *)
LEMMA MovedLocal ==
    ASSUME Assumptions, IInv, Kept, NEW t \in Trips, t \notin LockedTrips, LocksKept,
           NEW status, NEW use,
           \/ status = "IN_TRANSIT" /\ use = "IN_USE"
           \/ status = "ARRIVED" /\ use = "AVAILABLE",
           Rewritten(t, status, trip[t].window, trip[t].route, trip[t].loaded, trip[t].limit),
           trip[t].status \in {"READY", "IN_TRANSIT"},
           NEW v \in Vehicles, v = trip[t].vehicle,
           VehicleWrites(v, use),
           \A u \in Trips \ {t} : trip[u].status = "IN_TRANSIT" => trip[u].vehicle # v,
           UNCHANGED <<driver, manifest, task>>
    PROVE  Local'
<1>1. use \in {"IN_USE", "AVAILABLE"} /\ status \in {"IN_TRANSIT", "ARRIVED"}
      /\ (use = "IN_USE" <=> status = "IN_TRANSIT")
  OBVIOUS
<1>2. /\ vehicle' \in [Vehicles -> VehicleRow] /\ vehicle'[v].status = use
      /\ \A w \in Vehicles \ {v} : vehicle'[w] = vehicle[w]
      /\ \A w \in Vehicles : vehicle'[w].capacity = vehicle[w].capacity
  BY DEF VehicleWrites
<1>3. /\ trip' \in [Trips -> TripRow] /\ \A u \in Trips \ {t} : trip'[u] = trip[u]
      /\ trip'[t].status = status /\ trip'[t].window = trip[t].window
      /\ trip'[t].route = trip[t].route /\ trip'[t].loaded = trip[t].loaded
      /\ trip'[t].limit = trip[t].limit /\ trip'[t].version = trip[t].version + 1
      /\ trip'[t].from = trip[t].from /\ trip'[t].to = trip[t].to
      /\ trip'[t].driver = trip[t].driver /\ trip'[t].vehicle = trip[t].vehicle
  BY DEF Rewritten
<1>4. task' \in [Tasks -> TaskRow] /\ TasksInv'
  BY <1>2, <1>3, WriteTasks DEF OneEnds
<1>5. TypeOK'
  BY <1>2, <1>3, <1>4 DEF IInv, TypeOK
<1>6. TripShape(t)'
  <2>1. TripShape(t)
    BY DEF IInv, TripsInv
  <2>2. trip'[t].route <= trip'[t].version
    BY <1>3, <2>1, RowTypes DEF TripShape
  <2>3. vehicle'[trip'[t].vehicle].status = use /\ (status = "IN_TRANSIT" => use = "IN_USE")
    BY <1>1, <1>2, <1>3
  <2> QED
    BY <1>3, <2>1, <2>2, <2>3 DEF TripShape
<1>7. ASSUME NEW u \in Trips \ {t}
      PROVE  TripShape(u)'
  <2>1. TripShape(u)
    BY DEF IInv, TripsInv
  <2>2. CASE trip[u].vehicle = v
    <3>1. trip[u].status # "IN_TRANSIT"
      BY <2>2
    <3>2. vehicle'[trip[u].vehicle].status \in {"AVAILABLE", "IN_USE"}
      BY <1>2, <2>2
    <3> QED
      BY <1>3, <3>1, <3>2, KeepShape
  <2>3. CASE trip[u].vehicle # v
    BY <1>2, <1>3, <2>1, <2>3, ActiveVehicle, KeepShape DEF TripShape
  <2> QED
    BY <2>2, <2>3
<1>8. ASSUME NEW u \in Trips
      PROVE  Fits(u)'
  <2>1. trip[u].status # "NONE" => trip[u].vehicle \in Vehicles
    BY ActiveVehicle
  <2>2. CASE u = t
    BY <1>2, <1>3, <2>2, KeepFits DEF Active
  <2>3. CASE u # t
    BY <1>2, <1>3, <2>1, <2>3, KeepFits DEF Active
  <2> QED
    BY <2>2, <2>3
<1>9. \A u, z \in Trips : Apart(u, z)'
  BY <1>3, KeepApart DEF Active
<1>10. ASSUME NEW w \in Vehicles
       PROVE  VehicleShape(w)'
  <2>1. CASE w = v
    BY <1>1, <1>2, <1>3, <2>1 DEF VehicleShape
  <2>2. CASE w # v
    <3>1. VehicleShape(w)
      BY DEF IInv, TripsInv
    <3>2. /\ vehicle'[w] = vehicle[w] /\ trip[t].vehicle # w /\ trip'[t].vehicle # w
          /\ \A u \in Trips : trip[u].vehicle = w => trip'[u] = trip[u]
          /\ \A u \in Trips : trip'[u].vehicle = w => trip'[u] = trip[u]
      BY <1>2, <1>3, <2>2
    <3> QED
      BY <3>1, <3>2 DEF VehicleShape
  <2> QED
    BY <2>1, <2>2
<1>11. \A x \in Transfers : RideShape(x)'
  BY <1>3, KeepRide DEF Kept
<1> QED
  BY <1>4, <1>5, <1>6, <1>7, <1>8, <1>9, <1>10, <1>11 DEF Local, TripsInv

LEMMA DispatchLocal ==
    ASSUME Assumptions, IInv, Kept, NEW t \in Trips, Dispatch(t)
    PROVE  Local'
<1>1. /\ t \notin LockedTrips /\ manifest[t] \cap LockedTransfers = {} /\ trip[t].status = "READY"
      /\ ExecutionReady(t) /\ Hub!PutOnRoad(manifest[t])
      /\ vehicle' = [vehicle EXCEPT ![trip[t].vehicle].status = "IN_USE"]
      /\ UNCHANGED <<driver, manifest, task>>
  BY DEF Dispatch
<1>2. Rewritten(t, "IN_TRANSIT", trip[t].window, trip[t].route, trip[t].loaded, trip[t].limit)
  BY DispatchRow
<1>3. LocksKept
  <2>1. LockedTransfers \subseteq Transfers
    BY AssignTypes DEF LockedTransfers
  <2> QED
    BY <1>1, <2>1 DEF LocksKept, Hub!PutOnRoad
<1>4. PICK v \in Vehicles : v = trip[t].vehicle
  BY <1>1, ActiveVehicle
<1>5. vehicle[v].status = "AVAILABLE"
  BY <1>1, <1>4 DEF ExecutionReady, VehicleEligible
<1>6. \A u \in Trips \ {t} : trip[u].status = "IN_TRANSIT" => trip[u].vehicle # v
  BY <1>5 DEF IInv, TripsInv, TripShape
<1>7. VehicleWrites(v, "IN_USE")
  <2>1. vehicle' = [vehicle EXCEPT ![v].status = "IN_USE"]
    BY <1>1, <1>4
  <2> QED
    BY <2>1, VehicleWritten
<1> QED
  BY <1>1, <1>2, <1>3, <1>4, <1>6, <1>7, MovedLocal

LEMMA ArriveLocal ==
    ASSUME Assumptions, IInv, Kept, NEW t \in Trips, NEW u, Arrive(t, u)
    PROVE  Local'
<1>1. /\ t \notin LockedTrips /\ trip[t].status = "IN_TRANSIT"
      /\ vehicle' = [vehicle EXCEPT ![trip[t].vehicle].status = "AVAILABLE"]
      /\ UNCHANGED <<hubVars, driver, manifest, task>>
  BY DEF Arrive
<1>2. Rewritten(t, "ARRIVED", trip[t].window, trip[t].route, trip[t].loaded, trip[t].limit)
  BY ArriveRow
<1>3. LocksKept
  BY <1>1 DEF LocksKept, hubVars
<1>4. PICK v \in Vehicles : v = trip[t].vehicle
  BY <1>1, ActiveVehicle
<1>5. \A w \in Trips \ {t} : trip[w].status = "IN_TRANSIT" => trip[w].vehicle # v
  BY <1>1, <1>4 DEF IInv, TripsInv, VehicleShape
<1>6. VehicleWrites(v, "AVAILABLE")
  <2>1. vehicle' = [vehicle EXCEPT ![v].status = "AVAILABLE"]
    BY <1>1, <1>4
  <2> QED
    BY <2>1, VehicleWritten
<1> QED
  BY <1>1, <1>2, <1>3, <1>4, <1>5, <1>6, MovedLocal

-----------------------------------------------------------------------------
(* Planning *)

LEMMA ManifestTasks ==
    ASSUME IInv, UNCHANGED <<hubVars, vehicle, trip>>, OneEnds,
           \A q \in Tasks : task'[q] = task[q] /\ task[q].cmd = "assignTransfer"
             => \A t \in Trips : task[q].transfer \notin manifest'[t]
    PROVE  task' \in [Tasks -> TaskRow] /\ TasksInv'
<1>1. ASSUME NEW q \in Tasks, task'[q] = task[q]
      PROVE  TaskShape(q)'
  <2>1. CASE task[q].cmd = "assignTransfer"
    BY <1>1, <2>1, KeepAssign DEF hubVars
  <2>2. CASE task[q].cmd \in {"schedule", "reschedule", "unschedule"}
    BY <1>1, <2>2, KeepScreen
  <2> QED
    BY <1>1, <2>1, <2>2, KeepOther
<1> QED
  BY <1>1, TasksEnd

(* A manifest is written and nothing else.                                  *)
LEMMA ManifestLocal ==
    ASSUME Assumptions, IInv, Kept, UNCHANGED <<hubVars, vehicle, driver, trip>>,
           NEW t \in Trips, trip[t].status = "PLANNED", NEW X \in SUBSET Transfers,
           manifest' = [manifest EXCEPT ![t] = X],
           task' \in [Tasks -> TaskRow], TasksInv', \A x \in Transfers : RideShape(x)', Fits(t)'
    PROVE  Local'
<1>1. /\ manifest' \in [Trips -> SUBSET Transfers] /\ manifest'[t] = X
      /\ \A u \in Trips \ {t} : manifest'[u] = manifest[u]
  BY ManifestWritten
<1>2. TypeOK'
  BY <1>1 DEF IInv, TypeOK
<1>3. \A u \in Trips \ {t} : TripShape(u)' /\ Fits(u)'
  BY <1>1, OthersKeep
<1>4. TripShape(t)'
  BY DEF IInv, TripsInv, TripShape
<1>5. \A u, w \in Trips : Apart(u, w)'
  BY KeepApart
<1>6. \A v \in Vehicles : VehicleShape(v)'
  BY VehiclesKeep
<1> QED
  BY <1>2, <1>3, <1>4, <1>5, <1>6 DEF Local, TripsInv

LEMMA RemoveLocal ==
    ASSUME Assumptions, IInv, Kept, NEW t \in Trips, NEW x \in Transfers, RemoveTransfer(t, x)
    PROVE  Local'
<1>1. PICK X : X = manifest[t] \ {x}
  OBVIOUS
<1>2. X \in SUBSET Transfers
  BY <1>1 DEF IInv, TypeOK
<1>3. /\ trip[t].status = "PLANNED" /\ manifest' = [manifest EXCEPT ![t] = X]
      /\ x \in manifest[t] /\ UNCHANGED <<hubVars, vehicle, driver, trip, task>>
  BY <1>1 DEF RemoveTransfer
<1>4. manifest'[t] = X /\ \A u \in Trips : manifest'[u] \subseteq manifest[u]
  BY <1>1, <1>2, <1>3, ManifestWritten
<1>5. task' \in [Tasks -> TaskRow] /\ TasksInv'
  <2>1. \A q \in Tasks : task[q].cmd = "assignTransfer"
          => \A u \in Trips : task[q].transfer \notin manifest'[u]
    BY <1>4 DEF IInv, TasksInv, TaskShape, OnTrip
  <2> QED
    BY <1>3, <2>1, ManifestTasks DEF OneEnds
<1>6. \A y \in Transfers : RideShape(y)'
  BY <1>3, <1>4, KeepRide DEF Kept
<1>7. Fits(t)'
  <2>1. Weighs(parcel, transfer, manifest[t])
    BY RidersWeigh
  <2>2. PICK old, new : /\ old = Total(parcel, transfer, manifest[t])
                        /\ new = Total(parcel, transfer, X)
    OBVIOUS
  <2>3. new <= old
    BY <1>1, <2>1, <2>2, TotalLess
  <2>4. Weighs(parcel, transfer, X)
    BY <1>1, <2>1, WeighsLess
  <2>5. old \in Nat /\ new \in Nat
    BY <2>1, <2>2, <2>4, TotalNat
  <2>6. Total(parcel', transfer', manifest'[t]) = new
    BY <1>3, <1>4, <2>2 DEF hubVars
  <2>7. Within(old, vehicle[trip[t].vehicle].capacity)
    BY <1>3, <2>2 DEF IInv, TripsInv, Fits, Active
  <2>8. vehicle[trip[t].vehicle].capacity \in Nat
    BY <1>3, ActiveVehicle, CapacityNat
  <2>9. Within(new, vehicle[trip[t].vehicle].capacity)
    BY <2>3, <2>5, <2>7, <2>8 DEF Within
  <2> QED
    BY <1>3, <2>6, <2>9 DEF Fits
<1> QED
  BY <1>2, <1>3, <1>5, <1>6, <1>7, ManifestLocal

LEMMA AssignLocal ==
    ASSUME Assumptions, IInv, Kept, NEW q \in Tasks, AssignTransfer(q)
    PROVE  Local'
<1>1. PICK t, x : t = task[q].trip /\ x = task[q].transfer
  OBVIOUS
<1>2. PICK X : X = manifest[t] \cup {x}
  OBVIOUS
<1>3. /\ task[q].cmd = "assignTransfer" /\ Within(Weigh(X), task[q].capacity)
      /\ manifest' = [manifest EXCEPT ![t] = X] /\ End(q)
      /\ UNCHANGED <<hubVars, vehicle, driver, trip>>
  BY <1>1, <1>2 DEF AssignTransfer
<1>4. t \in Trips /\ x \in Transfers
  BY <1>1, <1>3, AssignTypes
<1>5. /\ trip[t].status = "PLANNED" /\ MatchesTrip(x, t) /\ ~OnTrip(x)
      /\ task[q].capacity = vehicle[trip[t].vehicle].capacity
  BY <1>1, <1>3 DEF IInv, TasksInv, TaskShape
<1>6. X \in SUBSET Transfers /\ \A y \in X : transfer[y].status # "NONE"
  <2>1. manifest[t] \in SUBSET Transfers /\ \A y \in manifest[t] : transfer[y].status # "NONE"
    BY <1>4 DEF IInv, TypeOK, TripsInv, RideShape
  <2> QED
    BY <1>2, <1>4, <1>5, <2>1 DEF MatchesTrip
<1>7. manifest'[t] = X /\ \A u \in Trips \ {t} : manifest'[u] = manifest[u]
  BY <1>3, <1>4, <1>6, ManifestWritten
<1>8. task' \in [Tasks -> TaskRow] /\ TasksInv'
  <2>1. task'[q].cmd = "idle"
    BY <1>3 DEF End, IdleTask, IInv, TypeOK
  <2>2. ASSUME NEW p \in Tasks, task'[p] = task[p], task[p].cmd = "assignTransfer", NEW u \in Trips
        PROVE  task[p].transfer \notin manifest'[u]
    <3>1. p # q
      BY <1>3, <2>1, <2>2
    <3>2. task[p].transfer # x
      BY <1>1, <1>3, <2>2, <3>1 DEF IInv, TasksInv, LocksApart
    <3>3. ~OnTrip(task[p].transfer)
      BY <2>2 DEF IInv, TasksInv, TaskShape
    <3> QED
      BY <1>2, <1>7, <3>2, <3>3 DEF OnTrip
  <2>3. OneEnds
    BY <1>3 DEF OneEnds
  <2> QED
    BY <1>3, <2>2, <2>3, ManifestTasks
<1>9. ASSUME NEW y \in Transfers
      PROVE  RideShape(y)'
  <2>1. RideShape(y) /\ UNCHANGED transfer
    BY <1>3 DEF IInv, TripsInv, hubVars
  <2>2. CASE y = x
    <3>1. \A u \in Trips : y \in manifest'[u] => u = t
      BY <1>5, <1>7, <2>2 DEF OnTrip
    <3> QED
      BY <1>3, <1>5, <2>1, <2>2, <3>1 DEF RideShape, MatchesTrip
  <2>3. CASE y # x
    <3>1. \A u \in Trips : y \in manifest'[u] <=> y \in manifest[u]
      BY <1>2, <1>7, <2>3
    <3> QED
      BY <1>3, <2>1, <3>1 DEF RideShape
  <2> QED
    BY <2>2, <2>3
<1>10. Fits(t)'
  <2>1. Total(parcel', transfer', manifest'[t]) = Weigh(X)
    BY <1>3, <1>7, WeighTotal DEF hubVars
  <2> QED
    BY <1>3, <1>5, <2>1 DEF Fits
<1> QED
  BY <1>3, <1>4, <1>5, <1>6, <1>8, <1>9, <1>10, ManifestLocal

(* The row that create writes.                                              *)
LEMMA CreatedRow ==
    ASSUME Assumptions, IInv, NEW t \in Trips, NEW from \in Sites, NEW to \in Sites,
           NEW d \in Drivers, NEW v \in Vehicles, NEW w \in Windows \cup {None},
           NEW X \in SUBSET Transfers, Create(t, from, to, d, v, w, X)
    PROVE  /\ trip' \in [Trips -> TripRow] /\ \A u \in Trips \ {t} : trip'[u] = trip[u]
           /\ trip'[t].status = "PLANNED" /\ trip'[t].from = from /\ trip'[t].to = to
           /\ trip'[t].driver = d /\ trip'[t].vehicle = v /\ trip'[t].window = w
           /\ trip'[t].version = 0 /\ trip'[t].route = 0
<1>1. PICK row : row = [NoTrip EXCEPT !.status = "PLANNED", !.from = from, !.to = to, !.driver = d,
                                      !.vehicle = v, !.window = w]
  OBVIOUS
<1>2. row = [status |-> "PLANNED", from |-> from, to |-> to, driver |-> d, vehicle |-> v,
             window |-> w, version |-> 0, route |-> 0, loaded |-> 0, limit |-> 0]
  BY <1>1 DEF NoTrip
<1>3. 0 \in 0 .. MaxTripVersion /\ 0 \in Nat
  BY DEF Assumptions, CapacitiesAssumption
<1>4. row \in TripRow
  BY <1>2, <1>3 DEF TripRow, TripStatus
<1>5. trip' = [trip EXCEPT ![t] = row]
  BY <1>1 DEF Create
<1>6. trip' \in [Trips -> TripRow] /\ trip'[t] = row /\ \A u \in Trips \ {t} : trip'[u] = trip[u]
  BY <1>4, <1>5 DEF IInv, TypeOK
<1> QED
  BY <1>2, <1>6

LEMMA CreateLocal ==
    ASSUME Assumptions, IInv, Kept, NEW t \in Trips, NEW from \in Sites, NEW to \in Sites,
           NEW d \in Drivers, NEW v \in Vehicles, NEW w \in Windows \cup {None},
           NEW X \in SUBSET Transfers, Create(t, from, to, d, v, w, X)
    PROVE  Local'
<1>1. /\ trip[t].status = "NONE" /\ X \cap LockedTransfers = {} /\ Creatable(from, to, d, v, w, X)
      /\ manifest' = [manifest EXCEPT ![t] = X] /\ UNCHANGED <<hubVars, vehicle, driver, task>>
  BY DEF Create
<1>2. /\ trip' \in [Trips -> TripRow] /\ \A u \in Trips \ {t} : trip'[u] = trip[u]
      /\ trip'[t].status = "PLANNED" /\ trip'[t].from = from /\ trip'[t].to = to
      /\ trip'[t].driver = d /\ trip'[t].vehicle = v /\ trip'[t].window = w
      /\ trip'[t].version = 0 /\ trip'[t].route = 0
  BY CreatedRow
<1>3. /\ manifest' \in [Trips -> SUBSET Transfers] /\ manifest'[t] = X
      /\ \A u \in Trips \ {t} : manifest'[u] = manifest[u]
  BY <1>1, ManifestWritten
<1>4. /\ vehicle[v].status = "AVAILABLE" /\ Within(Weigh(X), vehicle[v].capacity)
      /\ \A x \in X : /\ transfer[x].status = "PENDING" /\ transfer[x].from = from
                      /\ transfer[x].to = to /\ ~OnTrip(x)
  BY <1>1 DEF Creatable, VehicleEligible, Hub!Dispatchable
<1>5. task' \in [Tasks -> TaskRow] /\ TasksInv'
  <2>1. ASSUME NEW q \in Tasks, task'[q] = task[q]
        PROVE  TaskShape(q)'
    <3>1. CASE task[q].cmd = "assignTransfer"
      <4>1. task[q].trip \in Trips \ {t} /\ task[q].transfer \in LockedTransfers
        BY <1>1, <3>1, Locked, AssignVehicle
      <4>2. ~OnTrip(task[q].transfer)
        BY <3>1 DEF IInv, TasksInv, TaskShape
      <4>3. \A u \in Trips : task[q].transfer \notin manifest'[u]
        BY <1>1, <1>3, <4>1, <4>2 DEF OnTrip
      <4>4. transfer' = transfer /\ vehicle' = vehicle
        BY <1>1 DEF hubVars
      <4> QED
        BY <1>2, <2>1, <3>1, <4>1, <4>3, <4>4, KeepAssign
    <3>2. CASE task[q].cmd \in {"schedule", "reschedule", "unschedule"}
      <4>1. trip[task[q].trip].status # "NONE"
        BY <3>2 DEF IInv, TasksInv, TaskShape
      <4>2. trip'[task[q].trip] = trip[task[q].trip]
        BY <1>1, <1>2, <3>2, <4>1, ScreenTypes
      <4> QED
        BY <2>1, <3>2, <4>2, KeepScreen
    <3> QED
      BY <2>1, <3>1, <3>2, KeepOther
  <2> QED
    BY <1>1, <2>1, TasksEnd DEF OneEnds
<1>6. TypeOK'
  BY <1>1, <1>2, <1>3, <1>5 DEF IInv, TypeOK
<1>7. TripShape(t)'
  BY <1>1, <1>2, <1>4 DEF TripShape
<1>8. Fits(t)'
  <2>1. Total(parcel', transfer', manifest'[t]) = Weigh(X)
    BY <1>1, <1>3, WeighTotal DEF hubVars
  <2> QED
    BY <1>1, <1>2, <1>4, <2>1 DEF Fits
<1>9. \A u \in Trips \ {t} : TripShape(u)' /\ Fits(u)'
  BY <1>1, <1>2, <1>3, OthersKeep
<1>10. \A u, z \in Trips : Apart(u, z)'
  <2>1. ASSUME NEW u \in Trips \ {t}
        PROVE  Apart(u, t)' /\ Apart(t, u)'
    <3>1. CASE w = None
      BY <1>2, <3>1 DEF Apart
    <3>2. CASE w # None
      <4>1. w \in Windows /\ ResourcesFree(None, d, v, w)
        BY <1>1, <3>2 DEF Creatable
      <4>2. u # None
        BY DEF Assumptions, WindowsAssumption
      <4> QED
        BY <1>2, <4>1, <4>2, FreeApart DEF Apart
    <3> QED
      BY <3>1, <3>2
  <2>2. ASSUME NEW u \in Trips \ {t}, NEW z \in Trips \ {t}
        PROVE  Apart(u, z)'
    BY <1>2 DEF IInv, TripsInv, Apart
  <2>3. Apart(t, t)'
    BY DEF Apart
  <2> QED
    BY <2>1, <2>2, <2>3
<1>11. \A z \in Vehicles : VehicleShape(z)'
  <2>1. \A u \in Trips : trip'[u].status = "IN_TRANSIT" => trip'[u] = trip[u]
    BY <1>2
  <2>2. \A u \in Trips : trip[u].status = "IN_TRANSIT" => trip'[u] = trip[u]
    BY <1>1, <1>2
  <2> QED
    BY <1>1, <2>1, <2>2, VehiclesKeep
<1>12. ASSUME NEW y \in Transfers
       PROVE  RideShape(y)'
  <2>1. RideShape(y) /\ UNCHANGED transfer
    BY <1>1 DEF IInv, TripsInv, hubVars
  <2>2. CASE y \in X
    <3>1. \A u \in Trips : y \in manifest'[u] => u = t
      BY <1>3, <1>4, <2>2 DEF OnTrip
    <3> QED
      BY <1>2, <1>4, <2>1, <2>2, <3>1 DEF RideShape
  <2>3. CASE y \notin X
    <3>1. \A u \in Trips : y \in manifest'[u] => u # t /\ y \in manifest[u] /\ trip'[u] = trip[u]
      BY <1>2, <1>3, <2>3
    <3> QED
      BY <2>1, <3>1 DEF RideShape
  <2> QED
    BY <2>2, <2>3
<1> QED
  BY <1>5, <1>6, <1>7, <1>8, <1>9, <1>10, <1>11, <1>12 DEF Local, TripsInv

-----------------------------------------------------------------------------
(* The invariant of every reachable state *)

LEMMA NextIInv ==
    ASSUME Assumptions, IInv, Next
    PROVE  IInv'
<1>1. HubP!IInv' /\ Kept
  BY HubKeeps
<1> SUFFICES Local'
  BY <1>1 DEF IInv, Local
<1>2. CASE HubStep
  BY <1>1, <1>2, AsideLocal DEF HubStep, LocksKept, OneEnds
<1>3. CASE FleetStep
  BY <1>1, <1>3, CreateVehicleLocal, OperationalLocal, UpdateCapacityLocal, CapacityReadLocal,
     DriverLocal DEF FleetStep
<1>4. CASE PlanStep
  <2>1. ASSUME NEW q \in Tasks, Abandon(q)
        PROVE  Local'
    BY <1>1, <2>1, AsideLocal DEF Abandon, OneEnds, LocksKept, hubVars
  <2> QED
    BY <1>1, <1>4, <2>1, CreateLocal, RemoveLocal, AssignReadLocal, AssignLocal DEF PlanStep
<1>5. CASE ScheduleStep
  BY <1>1, <1>5, UnscheduleLocal, SetScheduleLocal, ShowTripLocal DEF ScheduleStep
<1>6. CASE RunStep
  BY <1>1, <1>6, DispatchLocal, CancelLocal, ArriveLocal, PrepareLocal, RecalculateLocal,
     PrepareReadLocal, RecalculateReadLocal DEF RunStep
<1> QED
  BY <1>2, <1>3, <1>4, <1>5, <1>6 DEF Next

LEMMA StutterIInv ==
    ASSUME Assumptions, IInv, UNCHANGED vars
    PROVE  IInv'
<1>1. UNCHANGED <<hubVars, vehicle, driver, trip, manifest, task>>
  BY DEF vars, hubVars
<1>2. UNCHANGED Hub!vars
  BY <1>1, RowsAside
<1>3. UNCHANGED HubP!vars /\ UNCHANGED <<parcel, transfer>>
  BY <1>2, HubStutter
<1>4. HubP!IInv'
  BY <1>3, HubAssumptions, HubP!StutterIInv DEF IInv
<1>5. Kept
  BY <1>3 DEF Kept, GramsKept, HubP!TransferKept, Grams
<1>6. Local'
  BY <1>1, <1>3, <1>5, AsideLocal DEF OneEnds, LocksKept
<1> QED
  BY <1>4, <1>6 DEF IInv, Local

LEMMA InitIInv ==
    ASSUME Assumptions, Init
    PROVE  IInv
<1>1. /\ driver \in [Drivers -> [eligible : {TRUE}, busy : {FALSE}]]
      /\ vehicle \in [Vehicles -> {[status |-> "NONE", capacity |-> 0]}
                                  \cup [status : {"AVAILABLE"}, capacity : Capacities \cup {0}]]
      /\ trip = [t \in Trips |-> NoTrip]
      /\ manifest = [t \in Trips |-> {}]
      /\ task = [q \in Tasks |-> IdleTask]
  BY DEF Init, Trucks
<1>2. HubP!IInv
  BY SameStart, HubAssumptions, HubP!InitIInv DEF Init
<1>3. NoTrip \in TripRow
  <2>1. 0 \in 0 .. MaxTripVersion /\ 0 \in Nat
    BY DEF Assumptions, CapacitiesAssumption
  <2> QED
    BY <2>1 DEF NoTrip, TripRow, TripStatus
<1>4. TypeOK
  <2>1. driver \in [Drivers -> DriverRow]
    BY <1>1 DEF DriverRow
  <2>2. vehicle \in [Vehicles -> VehicleRow]
    <3>1. {[status |-> "NONE", capacity |-> 0]}
             \cup [status : {"AVAILABLE"}, capacity : Capacities \cup {0}] \subseteq VehicleRow
      BY DEF VehicleRow
    <3> QED
      BY <1>1, <3>1
  <2>3. trip \in [Trips -> TripRow]
    BY <1>1, <1>3
  <2> QED
    BY <1>1, <2>1, <2>2, <2>3 DEF TypeOK, TaskRow
<1>5. \A t \in Trips : /\ trip[t].status = "NONE" /\ trip[t].route = 0 /\ trip[t].version = 0
                       /\ manifest[t] = {}
  BY <1>1 DEF NoTrip
<1>6. \A v \in Vehicles : vehicle[v].status # "IN_USE"
  BY <1>1
<1>7. TripsInv
  BY <1>5, <1>6 DEF TripsInv, TripShape, Fits, Active, Apart, VehicleShape, RideShape
<1>8. TasksInv
  BY <1>1 DEF TasksInv, TaskShape, LocksApart, IdleTask
<1> QED
  BY <1>2, <1>4, <1>7, <1>8 DEF IInv

LEMMA Inductive ==
    ASSUME Assumptions
    PROVE  Spec => []IInv
<1>1. Init => IInv
  BY InitIInv
<1>2. IInv /\ [Next]_vars => IInv'
  BY NextIInv, StutterIInv
<1> QED
  BY <1>1, <1>2, PTL DEF Spec

-----------------------------------------------------------------------------
(* What the invariant says to a reader *)

LEMMA FitsByIInv ==
    ASSUME Assumptions, IInv
    PROVE  ManifestFits
BY ManifestTotal DEF IInv, TripsInv, Fits, ManifestFits

LEMMA BookingByIInv ==
    ASSUME IInv
    PROVE  WindowsApart
BY DEF IInv, TripsInv, Apart, WindowsApart

LEMMA InUseByIInv ==
    ASSUME IInv
    PROVE  VehicleInUse
<1>1. ASSUME NEW v \in Vehicles
      PROVE  Cardinality({t \in Trips : trip[t].vehicle = v /\ trip[t].status = "IN_TRANSIT"})
               = IF vehicle[v].status = "IN_USE" THEN 1 ELSE 0
  <2>1. PICK driving : driving = {t \in Trips : trip[t].vehicle = v /\ trip[t].status = "IN_TRANSIT"}
    OBVIOUS
  <2>2. VehicleShape(v) /\ \A t \in driving : vehicle[v].status = "IN_USE"
    BY <2>1 DEF IInv, TripsInv, TripShape
  <2>3. CASE vehicle[v].status = "IN_USE"
    <3>1. PICK t \in driving : \A u \in driving : u = t
      BY <2>1, <2>2, <2>3 DEF VehicleShape
    <3>2. driving = {t}
      BY <3>1
    <3> QED
      BY <2>1, <2>3, <3>2, FS_Singleton
  <2>4. CASE vehicle[v].status # "IN_USE"
    <3>1. driving = {}
      BY <2>2, <2>4
    <3> QED
      BY <2>1, <2>4, <3>1, FS_EmptySet
  <2> QED
    BY <2>3, <2>4
<1>2. \A t \in Trips : trip[t].status = "READY"
        => vehicle[trip[t].vehicle].status \in {"AVAILABLE", "IN_USE"}
  BY DEF IInv, TripsInv, TripShape
<1>3. \A t, u \in Trips : t # u => manifest[t] \cap manifest[u] = {}
  BY DEF IInv, TypeOK, TripsInv, RideShape
<1> QED
  BY <1>1, <1>2, <1>3 DEF VehicleInUse

LEMMA DutyByIInv ==
    ASSUME IInv
    PROVE  OneDuty
<1> SUFFICES ASSUME NEW t \in Trips, trip[t].status \in Executing
             PROVE  /\ driver[trip[t].driver].eligible /\ ~driver[trip[t].driver].busy
                    /\ trip[t].window # None
                    /\ manifest[t] # {}
                    /\ \A x \in manifest[t] : transfer[x].from = trip[t].from
                                              /\ transfer[x].to = trip[t].to
  BY DEF OneDuty
<1>1. manifest[t] \in SUBSET Transfers /\ trip[t].status \in {"READY", "IN_TRANSIT"}
  BY DEF IInv, TypeOK, Executing
<1>2. TripShape(t) /\ \A x \in Transfers : RideShape(x)
  BY DEF IInv, TripsInv
<1> QED
  BY <1>1, <1>2 DEF TripShape, RideShape

(* The step that writes a window, and the one that writes a route.          *)
LEMMA OneEnded ==
    ASSUME IInv, NEW q \in Tasks, End(q)
    PROVE  task'[q].cmd = "idle"
BY DEF End, IdleTask, IInv, TypeOK

LEMMA SeenBySchedule ==
    ASSUME Assumptions, IInv, NEW q \in Tasks, NEW w,
           Unschedule(q) \/ (w \in Windows /\ SetSchedule(q, w))
    PROVE  ScheduleSeen
<1>1. PICK t : t = task[q].trip
  OBVIOUS
<1>2. /\ t \in Trips /\ \A u \in Trips \ {t} : trip'[u] = trip[u]
      /\ task[q].cmd \in {"schedule", "reschedule", "unschedule"}
      /\ task[q].version = trip[t].version /\ End(q)
  BY <1>1, SetScheduleRow, UnscheduleRow DEF Rewritten, SetSchedule, Unschedule
<1>3. task[q].window = trip[t].window
  BY <1>1, <1>2 DEF IInv, TasksInv, TaskShape
<1> QED
  BY <1>1, <1>2, <1>3, OneEnded DEF ScheduleSeen

(* Every other command leaves the windows of existing trips alone.          *)
LEMMA WindowsAside ==
    ASSUME \A t \in Trips : trip[t].status # "NONE" => trip'[t].window = trip[t].window
    PROVE  ScheduleSeen
BY DEF ScheduleSeen

LEMMA ScheduleStepSeen ==
    ASSUME Assumptions, IInv, Next
    PROVE  ScheduleSeen
<1>1. CASE HubStep \/ FleetStep
  <2>1. UNCHANGED trip
    BY <1>1 DEF HubStep, FleetStep, CreateVehicle, SetOperationalStatus, UpdateCapacity,
                CapacityRead, DriverDuty, DriverEligibility
  <2> QED
    BY <2>1, WindowsAside
<1>2. CASE PlanStep
  <2>1. ASSUME NEW t \in Trips, NEW from \in Sites, NEW to \in Sites, NEW d \in Drivers,
               NEW v \in Vehicles, NEW w \in Windows \cup {None}, NEW X \in SUBSET Transfers,
               Create(t, from, to, d, v, w, X)
        PROVE  ScheduleSeen
    <3>1. trip[t].status = "NONE" /\ \A u \in Trips \ {t} : trip'[u] = trip[u]
      BY <2>1, CreatedRow DEF Create
    <3> QED
      BY <3>1, WindowsAside
  <2>2. CASE \/ \E t \in Trips, x \in Transfers : \/ RemoveTransfer(t, x)
                                                \/ \E q \in Tasks : AssignRead(q, t, x)
             \/ \E q \in Tasks : AssignTransfer(q) \/ Abandon(q)
    <3>1. UNCHANGED trip
      BY <2>2 DEF RemoveTransfer, AssignRead, AssignTransfer, Abandon
    <3> QED
      BY <3>1, WindowsAside
  <2> QED
    BY <1>2, <2>1, <2>2 DEF PlanStep
<1>3. CASE ScheduleStep
  <2>1. ASSUME NEW q \in Tasks, NEW cmd, NEW t, ShowTrip(q, cmd, t)
        PROVE  ScheduleSeen
    BY <2>1, WindowsAside DEF ShowTrip
  <2> QED
    BY <1>3, <2>1, SeenBySchedule DEF ScheduleStep
<1>4. CASE RunStep
  <2>1. ASSUME NEW t \in Trips, Dispatch(t) \/ Cancel(t) \/ \E u \in Staff \cup {Office} : Arrive(t, u)
        PROVE  ScheduleSeen
    <3>1. \A u \in Trips : trip'[u].window = trip[u].window
      BY <2>1, DispatchRow, CancelRow, ArriveRow DEF Rewritten
    <3> QED
      BY <3>1, WindowsAside
  <2>2. ASSUME NEW q \in Tasks, Prepare(q) \/ RecalculateRoute(q)
        PROVE  ScheduleSeen
    <3>1. \A u \in Trips : trip'[u].window = trip[u].window
      BY <2>2, PrepareRow, RecalculateRow DEF Rewritten
    <3> QED
      BY <3>1, WindowsAside
  <2>3. ASSUME NEW q \in Tasks, NEW t, PrepareRead(q, t) \/ RecalculateRead(q, t)
        PROVE  ScheduleSeen
    BY <2>3, WindowsAside DEF PrepareRead, RecalculateRead
  <2> QED
    BY <1>4, <2>1, <2>2, <2>3 DEF RunStep
<1> QED
  BY <1>1, <1>2, <1>3, <1>4 DEF Next

(* Every other command leaves the routes of trips alone.                    *)
LEMMA RoutesAside ==
    ASSUME \A t \in Trips : trip'[t].route = trip[t].route
    PROVE  RouteFollows
BY DEF RouteFollows

LEMMA PlannedFollows ==
    ASSUME Assumptions, IInv, NEW q \in Tasks, Prepare(q)
    PROVE  RouteFollows
<1>1. PICK t : t = task[q].trip
  OBVIOUS
<1>2. /\ t \in Trips /\ trip[t].status = "PLANNED" /\ \A u \in Trips \ {t} : trip'[u] = trip[u]
      /\ trip'[t].route \in {trip[t].route, 1}
  BY <1>1, PrepareRow DEF Rewritten
<1>3. trip[t].route = 0
  BY <1>2 DEF IInv, TripsInv, TripShape
<1> QED
  BY <1>2, <1>3 DEF RouteFollows

LEMMA RecalculatedFollows ==
    ASSUME Assumptions, IInv, NEW q \in Tasks, RecalculateRoute(q)
    PROVE  RouteFollows
<1>1. PICK t : t = task[q].trip
  OBVIOUS
<1>2. /\ t \in Trips /\ \A u \in Trips \ {t} : trip'[u] = trip[u]
      /\ trip'[t].route = trip[t].route + 1
  BY <1>1, RecalculateRow DEF Rewritten
<1>3. /\ task[q].cmd = "recalculateRoute" /\ trip[t].status = "IN_TRANSIT"
      /\ task[q].version = trip[t].version /\ trip[t].route = task[q].route
      /\ task[q].point = site[trip[t].to].point
  BY <1>1 DEF RecalculateRoute
<1>4. task[q].route > 0
  BY <1>3 DEF IInv, TasksInv, TaskShape
<1> QED
  BY <1>1, <1>2, <1>3, <1>4 DEF RouteFollows

LEMMA RouteStepFollows ==
    ASSUME Assumptions, IInv, Next
    PROVE  RouteFollows
<1>1. CASE HubStep \/ FleetStep
  <2>1. UNCHANGED trip
    BY <1>1 DEF HubStep, FleetStep, CreateVehicle, SetOperationalStatus, UpdateCapacity,
                CapacityRead, DriverDuty, DriverEligibility
  <2> QED
    BY <2>1, RoutesAside
<1>2. CASE PlanStep
  <2>1. ASSUME NEW t \in Trips, NEW from \in Sites, NEW to \in Sites, NEW d \in Drivers,
               NEW v \in Vehicles, NEW w \in Windows \cup {None}, NEW X \in SUBSET Transfers,
               Create(t, from, to, d, v, w, X)
        PROVE  RouteFollows
    <3>1. trip'[t].route = 0 /\ \A u \in Trips \ {t} : trip'[u] = trip[u]
      BY <2>1, CreatedRow
    <3>2. trip[t].route = 0
      BY <2>1 DEF Create, IInv, TripsInv, TripShape
    <3> QED
      BY <3>1, <3>2, RoutesAside
  <2>2. CASE \/ \E t \in Trips, x \in Transfers : \/ RemoveTransfer(t, x)
                                                \/ \E q \in Tasks : AssignRead(q, t, x)
             \/ \E q \in Tasks : AssignTransfer(q) \/ Abandon(q)
    <3>1. UNCHANGED trip
      BY <2>2 DEF RemoveTransfer, AssignRead, AssignTransfer, Abandon
    <3> QED
      BY <3>1, RoutesAside
  <2> QED
    BY <1>2, <2>1, <2>2 DEF PlanStep
<1>3. CASE ScheduleStep
  <2>1. ASSUME NEW q \in Tasks, NEW w, Unschedule(q) \/ (w \in Windows /\ SetSchedule(q, w))
        PROVE  RouteFollows
    <3>1. \A u \in Trips : trip'[u].route = trip[u].route
      BY <2>1, SetScheduleRow, UnscheduleRow DEF Rewritten
    <3> QED
      BY <3>1, RoutesAside
  <2>2. ASSUME NEW q \in Tasks, NEW cmd, NEW t, ShowTrip(q, cmd, t)
        PROVE  RouteFollows
    BY <2>2, RoutesAside DEF ShowTrip
  <2> QED
    BY <1>3, <2>1, <2>2 DEF ScheduleStep
<1>4. CASE RunStep
  <2>1. ASSUME NEW t \in Trips, Dispatch(t) \/ Cancel(t) \/ \E u \in Staff \cup {Office} : Arrive(t, u)
        PROVE  RouteFollows
    <3>1. \A u \in Trips : trip'[u].route = trip[u].route
      BY <2>1, DispatchRow, CancelRow, ArriveRow DEF Rewritten
    <3> QED
      BY <3>1, RoutesAside
  <2>2. ASSUME NEW q \in Tasks, NEW t, PrepareRead(q, t) \/ RecalculateRead(q, t)
        PROVE  RouteFollows
    BY <2>2, RoutesAside DEF PrepareRead, RecalculateRead
  <2> QED
    BY <1>4, <2>1, <2>2, PlannedFollows, RecalculatedFollows DEF RunStep
<1> QED
  BY <1>1, <1>2, <1>3, <1>4 DEF Next

(* The schedule board shows what the commands would find.                   *)
LEMMA BoardBusy ==
    ASSUME NEW t \in Trips, trip[t].status \in Active, trip[t].window # None, NEW w \in Windows,
           Overlaps(trip[t].window, w)
    PROVE  /\ DriverAvailability(trip[t].driver, None, w) # "AVAILABLE" \/ None = t
           /\ VehicleAvailability(trip[t].vehicle, None, w) # "AVAILABLE" \/ None = t
<1>1. ConflictsWith(t, w)
  BY DEF ConflictsWith
<1> QED
  BY <1>1 DEF DriverAvailability, VehicleAvailability

LEMMA BoardApart ==
    ASSUME NEW t \in Trips, NEW w \in Windows, NEW u \in Trips \ {t}, trip[u].status \in Active,
           trip[u].window # None, Overlaps(trip[u].window, w)
    PROVE  /\ trip[u].driver = trip[t].driver
                => DriverAvailability(trip[t].driver, t, w) # "AVAILABLE"
           /\ trip[u].vehicle = trip[t].vehicle
                => VehicleAvailability(trip[t].vehicle, t, w) # "AVAILABLE"
<1>1. ConflictsWith(u, w)
  BY DEF ConflictsWith
<1> QED
  BY <1>1 DEF DriverAvailability, VehicleAvailability

LEMMA BoardByIInv ==
    ASSUME Assumptions, IInv
    PROVE  BoardTellsTruth
<1> SUFFICES ASSUME NEW t \in Trips, trip[t].status \in Active
             PROVE  /\ trip[t].window # None => \A w \in Windows : Overlaps(w, trip[t].window) =>
                         /\ DriverAvailability(trip[t].driver, None, w) # "AVAILABLE"
                         /\ VehicleAvailability(trip[t].vehicle, None, w) # "AVAILABLE"
                    /\ \A w \in Windows :
                         ( /\ DriverAvailability(trip[t].driver, t, w) = "AVAILABLE"
                           /\ VehicleAvailability(trip[t].vehicle, t, w) = "AVAILABLE" )
                         => \A u \in Trips \ {t} :
                              ( /\ trip[u].status \in Active /\ trip[u].window # None
                                /\ trip[u].driver = trip[t].driver \/ trip[u].vehicle = trip[t].vehicle )
                              => ~Overlaps(w, trip[u].window)
                    /\ trip[t].status = "PLANNED" => \A x \in EligibleTransfers(t) :
                         /\ Hub!Open(trip[t].from) /\ Hub!Open(trip[t].to) => Hub!Dispatchable(x)
                         /\ x \notin UNION {manifest[u] : u \in Trips}
  BY DEF BoardTellsTruth
<1>1. \A u \in Trips : trip[u].window \in Windows \cup {None}
  BY RowTypes
<1>2. None \notin Trips
  BY DEF Assumptions, WindowsAssumption
<1>3. ASSUME trip[t].window # None, NEW w \in Windows, Overlaps(w, trip[t].window)
      PROVE  /\ DriverAvailability(trip[t].driver, None, w) # "AVAILABLE"
             /\ VehicleAvailability(trip[t].vehicle, None, w) # "AVAILABLE"
  BY <1>1, <1>2, <1>3, OverlapsBoth, BoardBusy
<1>4. ASSUME NEW w \in Windows, NEW u \in Trips \ {t}, trip[u].status \in Active,
             trip[u].window # None, Overlaps(w, trip[u].window)
      PROVE  /\ trip[u].driver = trip[t].driver
                  => DriverAvailability(trip[t].driver, t, w) # "AVAILABLE"
             /\ trip[u].vehicle = trip[t].vehicle
                  => VehicleAvailability(trip[t].vehicle, t, w) # "AVAILABLE"
  BY <1>1, <1>4, OverlapsBoth, BoardApart
<1>5. ASSUME NEW x \in EligibleTransfers(t)
      PROVE  /\ Hub!Open(trip[t].from) /\ Hub!Open(trip[t].to) => Hub!Dispatchable(x)
             /\ x \notin UNION {manifest[u] : u \in Trips}
  <2>1. x \in Transfers /\ MatchesTrip(x, t) /\ ~OnTrip(x)
    BY DEF EligibleTransfers
  <2>2. HubP!TransferShape(x)
    BY <2>1 DEF IInv, HubP!IInv
  <2> QED
    BY <2>1, <2>2 DEF OnTrip, MatchesTrip, HubP!TransferShape, HubP!Of, Hub!Dispatchable
<1> QED
  BY <1>3, <1>4, <1>5

-----------------------------------------------------------------------------
(* Each row stays in its type.                                              *)
THEOREM TypeCorrect ==
    ASSUME Hub!SitesAssumption, Hub!WeightsAssumption, WindowsAssumption, CapacitiesAssumption,
           TransfersAssumption
    PROVE  Spec => []TypeOK
<1>1. IInv => TypeOK
  BY DEF IInv
<1> QED
  BY <1>1, Inductive, PTL DEF Assumptions

(* No trip carries more than its vehicle may, although assignTransfer reads *)
(* a capacity it does not lock and updateCapacity reads trips it does not:  *)
(* the one waits for the trip, the other compares what it read.             *)
THEOREM ManifestsFit ==
    ASSUME Hub!SitesAssumption, Hub!WeightsAssumption, WindowsAssumption, CapacitiesAssumption,
           TransfersAssumption
    PROVE  Spec => []ManifestFits
<1>1. IInv => ManifestFits
  BY FitsByIInv DEF Assumptions
<1> QED
  BY <1>1, Inductive, PTL DEF Assumptions

(* No driver and no vehicle is booked twice for windows that overlap,       *)
(* however create, schedule and reschedule interleave; a vehicle is in use  *)
(* while one trip drives it, the driver of a ready trip has no other duty,  *)
(* and what the board and the list of eligible transfers offer is accepted. *)
THEOREM BookedOnce ==
    ASSUME Hub!SitesAssumption, Hub!WeightsAssumption, WindowsAssumption, CapacitiesAssumption,
           TransfersAssumption
    PROVE  Spec => []NoDoubleBooking
<1>1. IInv => NoDoubleBooking
  BY BookingByIInv, InUseByIInv, DutyByIInv, BoardByIInv DEF NoDoubleBooking, Assumptions
<1> QED
  BY <1>1, Inductive, PTL DEF Assumptions

(* A window is replaced only by a dispatcher who saw it; route versions are *)
(* consecutive, each asked for from the version before it and the           *)
(* destination that still is.                                               *)
THEOREM NothingIsOverwritten ==
    ASSUME Hub!SitesAssumption, Hub!WeightsAssumption, WindowsAssumption, CapacitiesAssumption,
           TransfersAssumption
    PROVE  Spec => NothingOverwritten
<1>1. IInv /\ [Next]_vars => [ScheduleSeen /\ RouteFollows]_vars
  BY ScheduleStepSeen, RouteStepFollows DEF Assumptions
<1> QED
  BY <1>1, Inductive, PTL DEF Spec, NothingOverwritten, Assumptions

(* Trips implement what the warehouse network expects of the carriage of a  *)
(* transfer: every trip command is one of its trip steps, or none.          *)
THEOREM TripsImplementCarriage ==
    ASSUME Hub!SitesAssumption, Hub!WeightsAssumption, WindowsAssumption, CapacitiesAssumption,
           TransfersAssumption
    PROVE  Spec => NetworkImplemented
<1>1. Init => Hub!Init
  BY DEF Init
<1>2. IInv /\ [Next]_vars => [Hub!Next]_(Hub!vars)
  <2>1. UNCHANGED vars => UNCHANGED Hub!vars
    BY RowsAside DEF vars, hubVars
  <2> QED
    BY <2>1, StepOfHub DEF Assumptions
<1> QED
  BY <1>1, <1>2, Inductive, PTL DEF Spec, NetworkImplemented, Hub!Spec, Assumptions

(* So with trips, too, the parcel rows and the transfer rows tell one story *)
(* and no transfer is stranded by the cutover.                              *)
THEOREM NetworkHolds ==
    ASSUME Hub!SitesAssumption, Hub!WeightsAssumption, WindowsAssumption, CapacitiesAssumption,
           TransfersAssumption
    PROVE  Spec => [](HubP!ParcelPlace /\ HubP!CarriageAgrees /\ HubP!NeverStranded)
<1>1. IInv => HubP!ParcelPlace /\ HubP!CarriageAgrees /\ HubP!NeverStranded
  BY HubP!PlaceByIInv, HubP!AgreesByIInv, HubP!NotStrandedByIInv DEF IInv
<1> QED
  BY <1>1, Inductive, PTL DEF Assumptions

=============================================================================
