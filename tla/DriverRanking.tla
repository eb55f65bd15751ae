---------------------------- MODULE DriverRanking ----------------------------
(***************************************************************************)
(* The list of drivers offered to a dispatcher for one pickup or delivery  *)
(* (AssignmentCandidatesService.listForTarget): drivers are read, then     *)
(* their positions, the fit ones are sorted by air, and the road of the    *)
(* nearest few is asked of the route provider by concurrent workers, over  *)
(* a cache whose keys round the coordinates (RouteMetricsService).         *)
(*                                                                         *)
(* A place is a position of a driver. Its distances to the target, the     *)
(* cell its coordinates round to and its road are constants.               *)
(***************************************************************************)
EXTENDS Integers, Sequences, SequencesExt, FiniteSets, FiniteSetsExt

CONSTANTS
    Drivers,     \* a set of naturals, in the order of the employee codes
    Profiles,    \* what the database may hold of a driver
    Active,      \* warehouses that are active
    City,        \* [warehouse -> city]
    Shipments,   \* what a shipment to assign may look like
    Places,      \* positions of drivers
    Cell,        \* [place -> the coordinates rounded for the cache]
    Air, Road,   \* [place -> metres to the target]
    Time,        \* [place -> seconds to the target by road]
    Limit,       \* ROUTE_BATCH_EXTERNAL_CALL_LIMIT
    Concurrency, \* ROUTE_BATCH_CONCURRENCY
    None

VARIABLES
    enabled, \* whether a route provider is configured
    fleet,   \* [driver -> profile]
    cache,   \* [cell -> road metric]
    list     \* the listing under way

vars == <<enabled, fleet, cache, list>>

(* What the constants must satisfy. *)
RankingAssumption ==
    /\ Drivers \subseteq Nat /\ IsFiniteSet(Drivers)
    /\ Limit \in Nat \ {0} /\ Concurrency \in Nat \ {0}
    /\ \A p \in Places : Air[p] \in Nat /\ Road[p] \in Nat /\ Time[p] \in Nat

-----------------------------------------------------------------------------
(* Distances *)

(* A route without a duration ranks as if it took this long. *)
Unknown == 1000000

roadRoute(p) == [mode |-> "ROAD_ROUTE", distance |-> Road[p], duration |-> Time[p]]
fallback(p) == [mode |-> "HAVERSINE_FALLBACK", distance |-> Air[p], duration |-> Unknown]
Metrics == {roadRoute(p) : p \in Places} \cup {fallback(p) : p \in Places}

(* Distances by air are compared in units of ten metres. *)
RoundedAir(p) == (Air[p] + 5) \div 10

(* Keys are compared component by component. *)
Less(a, b) ==
    \E i \in 1 .. Len(a) : a[i] < b[i] /\ \A j \in 1 .. i - 1 : a[j] = b[j]

-----------------------------------------------------------------------------
(* Who may be asked *)

Types == {"PICKUP", "DELIVERY"}

Issues == {"DRIVER_CAPABILITY_REQUIRED", "DRIVER_OPERATING_WAREHOUSE_REQUIRED",
           "DRIVER_OUTSIDE_OPERATING_AREA", "DRIVER_CURRENT_LOCATION_REQUIRED"}

(* offered: online, available, active and not on a line-haul trip. *)
Offered == {d \in Drivers : fleet[d].offered}

Assignable(type, status) ==
    status \in IF type = "PICKUP"
               THEN {"AWAITING_PICKUP_ASSIGNMENT", "PICKUP_ASSIGNED", "PICKUP_IN_PROGRESS"}
               ELSE {"AWAITING_DELIVERY_ASSIGNMENT"}

(* A delivery starts at the destination warehouse. *)
HasTarget(type, s) == s.located /\ (type = "DELIVERY" => s.destination # None)

Target(type, s) ==
    IF type = "PICKUP" THEN [type |-> type, warehouse |-> None, city |-> s.city]
                       ELSE [type |-> type, warehouse |-> s.destination, city |-> City[s.destination]]

evaluate(profile, target, p) ==
    IF target.type \notin profile.capabilities THEN "DRIVER_CAPABILITY_REQUIRED"
    ELSE IF profile.warehouse \notin Active THEN "DRIVER_OPERATING_WAREHOUSE_REQUIRED"
    ELSE IF target.type = "DELIVERY" /\ profile.warehouse # target.warehouse
         THEN "DRIVER_OUTSIDE_OPERATING_AREA"
    ELSE IF target.type = "PICKUP" /\ City[profile.warehouse] # target.city
         THEN "DRIVER_OUTSIDE_OPERATING_AREA"
    ELSE IF p = None THEN "DRIVER_CURRENT_LOCATION_REQUIRED"
    ELSE None

-----------------------------------------------------------------------------
(* State *)

Workers == 1 .. Concurrency
AtRest == [pc |-> "rest", index |-> 0]

Nobody == [pc |-> "idle"]

Listing ==
    [pc : {"locate", "route", "answered"},
     target : [type : Types, warehouse : DOMAIN City \cup {None}, city : {City[w] : w \in DOMAIN City}],
     found : SUBSET Drivers,
     at : [Drivers -> Places \cup {None}],
     eligible : Seq(Drivers),
     exclusions : [Issues -> Nat],
     next : Nat,
     worker : [Workers -> [pc : {"rest", "get", "ask"}, index : Nat]],
     asked : Nat,
     results : Seq(Metrics \cup {None}),
     candidates : Seq([driver : Drivers, metric : Metrics])]

Init ==
    /\ enabled \in BOOLEAN
    /\ fleet \in [Drivers -> Profiles]
    /\ cache = [c \in {Cell[p] : p \in Places} |-> None]
    /\ list = Nobody

-----------------------------------------------------------------------------
(* A listing *)

(* listPickup and listDelivery; without an assignable status or a target    *)
(* they answer with an error. The drivers are read here.                    *)
listForTarget(type, s) ==
    /\ list.pc \in {"idle", "answered"}
    /\ Assignable(type, s.status)
    /\ HasTarget(type, s)
    /\ list' = [pc |-> "locate", target |-> Target(type, s), found |-> Offered,
                at |-> [d \in Drivers |-> None], eligible |-> <<>>,
                exclusions |-> [i \in Issues |-> 0], next |-> 1,
                worker |-> [w \in Workers |-> AtRest], asked |-> 0,
                results |-> <<>>, candidates |-> <<>>]
    /\ UNCHANGED <<enabled, fleet, cache>>

Issue(d, at) == evaluate(fleet[d], list.target, at[d])

ByAir(at) ==
    SetToSortSeq({d \in list.found : Issue(d, at) = None},
                 LAMBDA a, b : Less(<<RoundedAir(at[a]), a>>, <<RoundedAir(at[b]), b>>))

countExclusion(at) == [i \in Issues |-> Cardinality({d \in list.found : Issue(d, at) = i})]

(* The road of the first Limit drivers is asked. *)
roadRequests(eligible) == IF Len(eligible) < Limit THEN Len(eligible) ELSE Limit

(* The positions are read, all of them missing when Redis fails. Each       *)
(* worker takes the next driver.                                            *)
Locate(at) ==
    /\ list.pc = "locate"
    /\ \A d \in Drivers \ list.found : at[d] = None
    /\ LET eligible == ByAir(at)
           n == roadRequests(eligible)
           started == IF n < Concurrency THEN n ELSE Concurrency
       IN list' = [list EXCEPT !.pc = "route", !.at = at, !.eligible = eligible,
                     !.exclusions = countExclusion(at),
                     !.results = [i \in 1 .. n |-> None],
                     !.next = started + 1,
                     !.worker = [w \in Workers |->
                        IF w <= started THEN [pc |-> "get", index |-> w] ELSE AtRest]]
    /\ UNCHANGED <<enabled, fleet, cache>>

-----------------------------------------------------------------------------
(* Workers *)

Place(w) == list.at[list.eligible[list.worker[w].index]]

InOrderOfAnswers(w, metric) ==  \* mutant: a result is put after the earlier ones
    LET index == CHOOSE i \in DOMAIN list.results :
                   list.results[i] = None /\ \A j \in 1 .. i - 1 : list.results[j] # None
    IN [list EXCEPT !.results[index] = metric,
          !.worker[w] = IF list.next <= Len(list.results)
                        THEN [pc |-> "get", index |-> list.next] ELSE AtRest,
          !.next = IF list.next <= Len(list.results) THEN @ + 1 ELSE @]

(* The worker stores its result and takes the next request. *)
Stored(w, metric) ==
    [list EXCEPT !.results[list.worker[w].index] = metric,
       !.worker[w] = IF list.next <= Len(list.results)
                     THEN [pc |-> "get", index |-> list.next] ELSE AtRest,
       !.next = IF list.next <= Len(list.results) THEN @ + 1 ELSE @]

Disabled(w) ==
    /\ ~enabled
    /\ list' = Stored(w, fallback(Place(w)))
    /\ UNCHANGED <<enabled, fleet, cache>>

CacheHit(w) ==
    /\ enabled
    /\ cache[Cell[Place(w)]] # None
    /\ list' = Stored(w, cache[Cell[Place(w)]])
    /\ UNCHANGED <<enabled, fleet, cache>>

(* Also when Redis fails. *)
CacheMiss(w) ==
    /\ enabled
    /\ list' = [list EXCEPT !.worker[w].pc = "ask", !.asked = @ + 1]
    /\ UNCHANGED <<enabled, fleet, cache>>

Get(w) ==
    /\ list.pc = "route"
    /\ list.worker[w].pc = "get"
    /\ Disabled(w) \/ CacheHit(w) \/ CacheMiss(w)

(* The provider answers; writing to the cache may fail. *)
ProviderAnswers(w, kept) ==
    /\ list.pc = "route"
    /\ list.worker[w].pc = "ask"
    /\ list' = Stored(w, roadRoute(Place(w)))
    /\ cache' = IF kept THEN [cache EXCEPT ![Cell[Place(w)]] = roadRoute(Place(w))] ELSE cache
    /\ UNCHANGED <<enabled, fleet>>

(* The call fails, is malformed or is aborted after its time. *)
ProviderFails(w) ==
    /\ list.pc = "route"
    /\ list.worker[w].pc = "ask"
    /\ list' = Stored(w, fallback(Place(w)))
    /\ UNCHANGED <<enabled, fleet, cache>>

-----------------------------------------------------------------------------
(* The answer *)

Metric(i) ==
    IF i <= Len(list.results) THEN list.results[i] ELSE fallback(list.at[list.eligible[i]])

(* Roads before estimates, then nearest, quickest and the employee code. *)
RankKey(c) ==
    <<IF c.metric.mode = "ROAD_ROUTE" THEN 0 ELSE 1, c.metric.distance, c.metric.duration, c.driver>>

Answer ==
    /\ list.pc = "route"
    /\ \A w \in Workers : list.worker[w].pc = "rest"
    /\ LET candidates == {[driver |-> list.eligible[i], metric |-> Metric(i)] : i \in DOMAIN list.eligible}
       IN list' = [list EXCEPT !.pc = "answered",
                     !.candidates = SetToSortSeq(candidates, LAMBDA a, b : Less(RankKey(a), RankKey(b)))]
    /\ UNCHANGED <<enabled, fleet, cache>>

-----------------------------------------------------------------------------
(* What happens beside the listing *)

(* Another listing stores the road of a place; an entry outlives its time. *)
OtherStores(p) ==
    /\ enabled
    /\ cache' = [cache EXCEPT ![Cell[p]] = roadRoute(p)]
    /\ UNCHANGED <<enabled, fleet, list>>

Expire(c) ==
    /\ cache[c] # None
    /\ cache' = [cache EXCEPT ![c] = None]
    /\ UNCHANGED <<enabled, fleet, list>>

Next ==
    \/ \E type \in Types, s \in Shipments : listForTarget(type, s)
    \/ \E at \in [Drivers -> Places \cup {None}] : Locate(at)
    \/ \E w \in Workers : Get(w) \/ ProviderFails(w) \/ \E kept \in BOOLEAN : ProviderAnswers(w, kept)
    \/ Answer
    \/ \E p \in Places : OtherStores(p)
    \/ \E c \in DOMAIN cache : Expire(c)

Spec == Init /\ [][Next]_vars

(* Redis answers or fails and a call of the provider ends by its time-out;  *)
(* nothing is assumed of the provider.                                      *)
Fairness ==
    /\ WF_vars(\E at \in [Drivers -> Places \cup {None}] : Locate(at))
    /\ \A w \in Workers : WF_vars(Get(w)) /\ WF_vars(ProviderFails(w))
    /\ WF_vars(Answer)

FairSpec == Spec /\ Fairness

-----------------------------------------------------------------------------
(* Properties *)

(* Every variable keeps its type. *)
TypeOK ==
    /\ enabled \in BOOLEAN
    /\ fleet \in [Drivers -> Profiles]
    /\ \A c \in DOMAIN cache : cache[c] # None => cache[c] \in Metrics
    /\ list # Nobody =>
         /\ list \in Listing
         /\ \A w \in Workers : list.worker[w].index \in 0 .. Len(list.results)

(* Although workers finish out of order, every candidate carries the        *)
(* distance of its own route: of a place that rounds as its own position    *)
(* does, or of that position by air (mapWithConcurrency, metrics[index]).   *)
OwnMetric ==
    list.pc = "answered" =>
      \A i \in DOMAIN list.candidates :
        LET c == list.candidates[i]
            p == list.at[c.driver]
        IN \/ c.metric = fallback(p)
           \/ \E q \in Places : Cell[q] = Cell[p] /\ c.metric = roadRoute(q)

(* One listing costs the provider at most Limit calls, and a driver it was  *)
(* not asked about is no nearer by air than those it was asked about        *)
(* (calculateBatch).                                                        *)
CallsSpentOnNearest ==
    list.pc = "answered" =>
      /\ list.asked <= Limit
      /\ \A i, j \in DOMAIN list.eligible : i <= Limit /\ Limit < j =>
           RoundedAir(list.at[list.eligible[i]]) <= RoundedAir(list.at[list.eligible[j]])

(* A driver whose road is known never stands behind one whose distance is   *)
(* only estimated, which a shorter line through the air would allow, and    *)
(* nobody stands behind a longer road (candidates.sort).                    *)
KnownRoadsFirst ==
    list.pc = "answered" =>
      \A i, j \in DOMAIN list.candidates : i < j =>
        LET a == list.candidates[i].metric
            b == list.candidates[j].metric
        IN b.mode = "ROAD_ROUTE" => a.mode = "ROAD_ROUTE" /\ a.distance <= b.distance

(* Every driver the query found is either a candidate or counted once under *)
(* the reason the dispatcher is shown (countExclusion).                     *)
EveryDriverAccounted ==
    list.pc = "answered" =>
      Cardinality(list.found) = Len(list.candidates) +
        FoldSet(LAMBDA i, n : n + list.exclusions[i], 0, Issues)

(* A listing ends whatever Redis and the provider do (fallback, abort).     *)
ListingEnds == list.pc \in {"locate", "route"} ~> list.pc = "answered"
=============================================================================
