----------------------------- MODULE PlanScore -----------------------------
(***************************************************************************)
(* How line-haul planning ranks its recommendations (scoreLineHaulPlanning *)
(* of line-haul-planning.policy): every vehicle takes the oldest transfers *)
(* that fit, and each free pair of a departure window and a driver is a    *)
(* candidate; the loop keeps the best few in a list that it sorts and cuts *)
(* after every candidate.                                                  *)
(*                                                                         *)
(* Times are minutes from earliestStartAt. Drivers and vehicles are        *)
(* numbered in the order of their codes, transfers in the order they were  *)
(* created. The percentages, tenths here, are computed without rounding    *)
(* errors; the code's are doubles.                                         *)
(***************************************************************************)
EXTENDS Integers, Sequences, FiniteSets, SequencesExt

CONSTANTS
    Fleets,        \* capacities of the vehicles, in their order
    Loads,         \* weights of the waiting transfers, oldest first
    Crews,         \* for each driver, whether the origin is where they work from
    Bookings,      \* sets of conflicts [driver, vehicle, from, until]
    Roads,         \* routes [mode, seconds]; seconds -1 is an unknown duration
    Ends,          \* latestEndAt
    Limits         \* maxRecommendations

(* What the constants must satisfy. *)
InputsAssumption ==
    /\ \A fleet \in Fleets : \A v \in DOMAIN fleet : fleet[v] \in Nat \ {0}
    /\ \A loads \in Loads : \A x \in DOMAIN loads : loads[x] \in Nat \ {0}
    /\ Limits \subseteq Nat \ {0} /\ Ends \subseteq Nat

VARIABLES
    input,  \* ScorePlanningInput
    at,     \* the candidate the loops are at: vehicle, window, driver
    recs    \* recommendations so far, best first

vars == <<input, at, recs>>

-----------------------------------------------------------------------------
SlotMinutes == 30
RouteBufferMinutes == 30
MinDurationMinutes == 60
FallbackDurationMinutes == 180

CeilDiv(a, b) == (a + b - 1) \div b
RoundDiv(a, b) == (2 * a + b) \div (2 * b)  \* Math.round(a / b)
AtLeast(a, b) == IF a > b THEN a ELSE b
AtMost(a, b) == IF a < b THEN a ELSE b

(* resolvePlanningDurationMinutes *)
Duration(seconds) ==
    IF seconds < 0 THEN FallbackDurationMinutes
    ELSE AtLeast(MinDurationMinutes,
                 CeilDiv(seconds + 60 * RouteBufferMinutes, 60 * SlotMinutes) * SlotMinutes)

(* buildDepartureWindows: the starting minutes of the slots *)
Slots == {i \in 0 .. input.end \div SlotMinutes :
            i * SlotMinutes + Duration(input.road.seconds) <= input.end}
Window(i) == [start |-> i * SlotMinutes, end |-> i * SlotMinutes + Duration(input.road.seconds)]

(* selectTransfersForCapacity *)
Take(capacity) ==
    LET taken[n \in 0 .. Len(input.loads)] ==
          IF n = 0 THEN [weight |-> 0, set |-> {}]
          ELSE LET so == taken[n - 1] IN
               IF so.weight + input.loads[n] > capacity THEN so
               ELSE [weight |-> so.weight + input.loads[n], set |-> so.set \cup {n}]
    IN taken[Len(input.loads)].set

Weight(X) == FoldLeft(LAMBDA sum, n : IF n \in X THEN sum + input.loads[n] ELSE sum, 0,
                      [n \in DOMAIN input.loads |-> n])

(* overlaps: a trip under way without a schedule conflicts with everything *)
Overlapping(booking, w) ==
    booking.from = -1 \/ (w.start < booking.until /\ w.end > booking.from)
HasVehicleConflict(v, w) == \E b \in input.bookings : b.vehicle = v /\ Overlapping(b, w)
HasDriverConflict(d, w) == \E b \in input.bookings : b.driver = d /\ Overlapping(b, w)

Utilization(X, capacity) == RoundDiv(1000 * Weight(X), capacity)  \* in tenths of a percent

(* scoreReasons, summed *)
Score(X, capacity, i, d) ==
    AtMost(45, RoundDiv(45 * Utilization(X, capacity), 1000))
    + AtMost(20, 4 * Cardinality(X))
    + AtLeast(0, 20 - 2 * i)
    + (CASE input.road.mode = "ROAD_ROUTE" -> 10 [] input.road.mode = "HAVERSINE_FALLBACK" -> 5
         [] OTHER -> 0)
    + (IF input.crew[d] THEN 5 ELSE 0)

Candidate(v, i, d) ==
    LET X == Take(input.fleet[v])
    IN [score |-> Score(X, input.fleet[v], i, d), used |-> Utilization(X, input.fleet[v]),
        transfers |-> X, window |-> Window(i), driver |-> d, vehicle |-> v]

(* compareRecommendations *)
Better(a, b) ==
    \/ a.score > b.score
    \/ /\ a.score = b.score
       /\ \/ a.used > b.used
          \/ /\ a.used = b.used
             /\ \/ Cardinality(a.transfers) > Cardinality(b.transfers)
                \/ /\ Cardinality(a.transfers) = Cardinality(b.transfers)
                   /\ \/ a.window.start < b.window.start
                      \/ /\ a.window.start = b.window.start
                         /\ \/ a.driver < b.driver
                            \/ a.driver = b.driver /\ a.vehicle < b.vehicle

InsertWhileRoom(c) ==  \* mutant: a full list takes no more candidates
    IF Len(recs) >= input.limit THEN recs ELSE SortSeq(Append(recs, c), Better)

(* Push, sort, pop: the cut keeps the list at its limit. *)
Insert(c) ==
    LET all == SortSeq(Append(recs, c), Better)
    IN SubSeq(all, 1, AtMost(Len(all), input.limit))

-----------------------------------------------------------------------------
Init ==
    /\ input \in [fleet : Fleets, loads : Loads, crew : Crews, bookings : Bookings, road : Roads,
                  end : Ends, limit : Limits]
    /\ at = [vehicle |-> 1, slot |-> 0, driver |-> 1]
    /\ recs = <<>>

Running == at.vehicle <= Len(input.fleet) /\ input.loads # <<>>

NextVehicle == [vehicle |-> at.vehicle + 1, slot |-> 0, driver |-> 1]
NextSlot == [at EXCEPT !.slot = @ + 1, !.driver = 1]

(* A vehicle that can take nothing, or whose windows are all considered. *)
SkipVehicle ==
    /\ Running
    /\ Take(input.fleet[at.vehicle]) = {} \/ at.slot \notin Slots
    /\ at' = NextVehicle
    /\ UNCHANGED <<input, recs>>

Considered == Running /\ Take(input.fleet[at.vehicle]) # {} /\ at.slot \in Slots

SkipWindow ==
    /\ Considered
    /\ at.driver > Len(input.crew) \/ HasVehicleConflict(at.vehicle, Window(at.slot))
    /\ at' = NextSlot
    /\ UNCHANGED <<input, recs>>

Consider ==
    /\ Considered
    /\ at.driver <= Len(input.crew) /\ ~HasVehicleConflict(at.vehicle, Window(at.slot))
    /\ recs' = IF HasDriverConflict(at.driver, Window(at.slot)) THEN recs
               ELSE Insert(Candidate(at.vehicle, at.slot, at.driver))
    /\ at' = [at EXCEPT !.driver = @ + 1]
    /\ UNCHANGED input

Next == SkipVehicle \/ SkipWindow \/ Consider

Spec == Init /\ [][Next]_vars

-----------------------------------------------------------------------------
(* Properties *)

(* Every variable has its type. *)
TypeOK ==
    /\ input.loads \in Loads /\ input.fleet \in Fleets /\ input.crew \in Crews
    /\ at.vehicle \in 1 .. Len(input.fleet) + 1 /\ at.slot \in Nat
    /\ at.driver \in 1 .. Len(input.crew) + 1
    /\ Len(recs) <= input.limit

(* The list that is cut after every candidate ends as the best of all free  *)
(* combinations, in order, with none twice: nothing that was dropped early  *)
(* would have belonged to the answer (scoreLineHaulPlanning).               *)
BestOfAll ==
    ~Running =>
      LET All == IF input.loads = <<>> THEN {}
                 ELSE {Candidate(v, i, d) : <<v, i, d>> \in
                         {<<v, i, d>> \in (DOMAIN input.fleet) \X Slots \X (DOMAIN input.crew) :
                            /\ \E n \in DOMAIN input.loads : input.loads[n] <= input.fleet[v]
                            /\ ~HasVehicleConflict(v, Window(i))
                            /\ ~HasDriverConflict(d, Window(i))}}
      IN /\ Len(recs) = AtMost(Cardinality(All), input.limit)
         /\ \A k \in DOMAIN recs :
              /\ recs[k] \in All
              /\ Cardinality({c \in All : Better(c, recs[k])}) = k - 1

(* A recommended manifest fits its vehicle, leaves no waiting transfer      *)
(* behind that would still fit, and never passes over the oldest transfer   *)
(* the vehicle can take at all (selectTransfersForCapacity).                *)
NothingLeftBehind ==
    \A k \in DOMAIN recs :
      LET X == recs[k].transfers
          capacity == input.fleet[recs[k].vehicle]
          fits == {n \in DOMAIN input.loads : input.loads[n] <= capacity}
      IN /\ Weight(X) <= capacity
         /\ \A n \in DOMAIN input.loads \ X : Weight(X) + input.loads[n] > capacity
         /\ \E n \in X : \A m \in fits : n <= m

(* A recommended window lies in the range that was asked for and is long    *)
(* enough for the route and the handling time, but never a slot longer than *)
(* it has to be (resolvePlanningDurationMinutes, buildDepartureWindows).    *)
WindowCoversRoute ==
    \A k \in DOMAIN recs :
      LET w == recs[k].window
          needed == input.road.seconds + 60 * RouteBufferMinutes
      IN /\ 0 <= w.start /\ w.end <= input.end
         /\ input.road.seconds >= 0 =>
              /\ 60 * (w.end - w.start) >= needed
              /\ w.end - w.start > MinDurationMinutes => 60 * (w.end - w.start - SlotMinutes) < needed

(* The panel shows scores out of 100: no recommendation leaves that scale,  *)
(* and the list is in the order of the scores it shows.                     *)
ScoreOutOf100 ==
    /\ \A k \in DOMAIN recs : recs[k].score \in 0 .. 100
    /\ \A j, k \in DOMAIN recs : j < k => recs[j].score >= recs[k].score
=============================================================================
