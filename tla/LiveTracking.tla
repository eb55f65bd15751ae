---------------------------- MODULE LiveTracking ----------------------------
(***************************************************************************)
(* A line-haul trip on the map: the driver's phone posts its position,     *)
(* LocationsService stores it in Redis and judges it against the route,    *)
(* the gateway pushes it to the sockets in the trip's room, and a watcher's *)
(* map page merges pushes with the list it fetches every 20 seconds. The   *)
(* customer's map of a parcel out for delivery works the same way, with    *)
(* "OUT_FOR_DELIVERY" in place of "IN_TRANSIT".                            *)
(*                                                                         *)
(* Time is a counter; a position is the time it was captured, and whether  *)
(* it lies off the route is an input. A GPS call holds the trip's row lock *)
(* until its pushes are done; that it finishes within the transaction      *)
(* time-out is assumed.                                                    *)
(***************************************************************************)
EXTENDS Naturals, Sequences, FiniteSets

CONSTANTS
    Calls,      \* GPS requests the server may be handling
    TTL,        \* LOCATION_TTL: how long a position is current
    Required,   \* LINE_HAUL_ROUTE_DEVIATION_CONSECUTIVE_SAMPLES
    MaxTime,    \* bound on the clock
    MaxRoute,   \* bound on route versions
    MaxQueue,   \* bound on pushes on the wire
    Parts,      \* what varies: "page" a map page is open, "rights" its user's
                \* rights change, "route" samples may be off the route
    None

(* What the constants must satisfy. *)
BoundAssumption ==
    /\ TTL \in Nat \ {0} /\ Required \in Nat \ {0}
    /\ MaxTime \in Nat /\ MaxRoute \in Nat \ {0} /\ MaxQueue \in Nat \ {0}
PartsAssumption == Parts \subseteq {"page", "rights", "route"}
NoneAssumption == None \notin Calls \cup Nat

VARIABLES
    now,
    trip,     \* LineHaulTrip: status, arrival time, current route version, row lock
    store,    \* Redis: the position key of the trip
    dev,      \* Redis: the deviation record of each route version
    runs,     \* history: off-route samples in a row, by route version
    gps,      \* GPS requests
    phone,    \* the publisher loop on the driver's phone
    watcher,  \* whether the watcher's session and scope still allow the trip
    sock,     \* the watcher's socket
    page,     \* the map page
    leak      \* history: a push reached a watcher who had no right to it

server == <<trip, store, dev, runs>>
vars == <<now, trip, store, dev, runs, gps, phone, watcher, sock, page, leak>>

-----------------------------------------------------------------------------
(* State *)

Times == 0 .. MaxTime
Routes == 1 .. MaxRoute
TripRow == [status : {"READY", "IN_TRANSIT", "ARRIVED"}, at : Times \cup {None},
            route : Routes, lock : Calls \cup {None}, ending : {"no", "delete", "emit"}]
DevRow == [state : {"ON_ROUTE", "DEVIATED", "UNKNOWN"}, count : 0 .. Required]
NoDev == [state |-> "UNKNOWN", count |-> 0]

(* held: the rights the watcher had at some time since the call began. *)
Rights == {"valid", "scope"}
GpsRow == [pc : {"idle", "sent", "locked", "stored", "judged", "valid", "cut", "ok", "refused",
                 "failed"},
           off : BOOLEAN, at : Times \cup {None}, held : SUBSET Rights]
NoCall == [pc |-> "idle", off |-> FALSE, at |-> None, held |-> {}]

Event == [kind : {"location"}, at : Times] \cup [kind : {"ended"}]
SockRow == [up : BOOLEAN, joined : BOOLEAN, sub : {"none", "asked", "valid", "allowed"},
            queue : Seq(Event)]
NoSock == [up |-> FALSE, joined |-> FALSE, sub |-> "none", queue |-> <<>>]

(* listed: the trip is in the cached list; at: its position there; failed:   *)
(* the last fetch failed and its error is shown in place of the list; got is *)
(* what a fetch has read so far.                                             *)
PageRow == [listed : BOOLEAN, failed : BOOLEAN, at : Times \cup {None}, ended : BOOLEAN,
            fetch : {"none", "asked", "trips", "read"},
            got : [listed : BOOLEAN, at : Times \cup {None}]]
Nothing == [listed |-> FALSE, at |-> None]

(* Every variable has its type. *)
TypeOK ==
    /\ now \in Times /\ trip \in TripRow /\ store \in Times \cup {None}
    /\ dev \in [Routes -> DevRow] /\ runs \in [Routes -> 0 .. Required]
    /\ gps \in [Calls -> GpsRow]
    /\ phone \in {"stopped", "waiting"} \cup Calls
    /\ watcher \in [valid : BOOLEAN, scope : BOOLEAN]
    /\ sock \in SockRow /\ page \in PageRow /\ leak \in BOOLEAN

Init ==
    /\ now = 0
    /\ trip = [status |-> "READY", at |-> None, route |-> 1, lock |-> None, ending |-> "no"]
    /\ store = None /\ dev = [r \in Routes |-> NoDev] /\ runs = [r \in Routes |-> 0]
    /\ gps = [g \in Calls |-> NoCall]
    /\ phone = "stopped"
    /\ watcher = [valid |-> TRUE, scope |-> TRUE]
    /\ sock = NoSock
    /\ page = [listed |-> FALSE, failed |-> FALSE, at |-> None, ended |-> FALSE, fetch |-> "none", got |-> Nothing]
    /\ leak = FALSE

Entitled == watcher.valid /\ watcher.scope
InTransit == trip.status = "IN_TRANSIT"

(* parse, parseLineHaul, effectiveLineHaulLocationState: too old is not shown. *)
Current(at) == at # None /\ now < at + TTL

-----------------------------------------------------------------------------
(* The trip (LineHaul has its life; here what tracking needs of it) *)

Depart ==
    /\ trip.status = "READY" /\ trip.lock = None
    /\ trip' = [trip EXCEPT !.status = "IN_TRANSIT"]
    /\ UNCHANGED <<now, store, dev, runs, gps, phone, watcher, sock, page, leak>>

(* arrive waits for the row lock; tracking is ended after its commit. *)
Arrive ==
    /\ InTransit /\ trip.lock = None
    /\ trip' = [trip EXCEPT !.status = "ARRIVED", !.at = now, !.ending = "delete"]
    /\ UNCHANGED <<now, store, dev, runs, gps, phone, watcher, sock, page, leak>>

(* A new route version: its deviation record starts from nothing. *)
Reroute ==
    /\ InTransit /\ trip.lock = None /\ trip.route < MaxRoute
    /\ trip' = [trip EXCEPT !.route = @ + 1]
    /\ UNCHANGED <<now, store, dev, runs, gps, phone, watcher, sock, page, leak>>

(* endLineHaulTripTracking: delete the key, also when that fails push the    *)
(* end to the room, then empty the room.                                     *)
EndDelete(works) ==
    /\ trip.ending = "delete"
    /\ store' = IF works THEN None ELSE store
    /\ trip' = [trip EXCEPT !.ending = "emit"]
    /\ UNCHANGED <<now, dev, runs, gps, phone, watcher, sock, page, leak>>

EndEmit ==
    /\ trip.ending = "emit"
    /\ trip' = [trip EXCEPT !.ending = "no"]
    /\ sock' = IF sock.joined /\ Entitled
               THEN [sock EXCEPT !.queue = Append(@, [kind |-> "ended"]), !.joined = FALSE]
               ELSE IF sock.joined /\ ~watcher.valid THEN NoSock
               ELSE [sock EXCEPT !.joined = FALSE]
    /\ UNCHANGED <<now, store, dev, runs, gps, phone, watcher, page, leak>>

-----------------------------------------------------------------------------
(* The phone: startDriverGpsPublisher, one request at a time *)

(* The provider starts the loop when its trip is IN_TRANSIT and stops it     *)
(* when it no longer is, as its own polling finds.                           *)
PhoneStart ==
    /\ phone = "stopped" /\ InTransit
    /\ phone' = "waiting"
    /\ UNCHANGED <<now, server, gps, watcher, sock, page, leak>>

PhoneStop ==
    /\ phone # "stopped" /\ ~InTransit
    /\ phone' = "stopped"
    /\ UNCHANGED <<now, server, gps, watcher, sock, page, leak>>

PhoneTick(g, off) ==
    /\ phone = "waiting" /\ gps[g].pc = "idle"
    /\ off => "route" \in Parts
    /\ Len(sock.queue) < MaxQueue   \* bound
    /\ gps' = [gps EXCEPT ![g] = [NoCall EXCEPT !.pc = "sent", !.off = off, 
                                           !.held = {what \in Rights : watcher[what]}]]
    /\ phone' = g
    /\ UNCHANGED <<now, server, watcher, sock, page, leak>>

(* The answer: 401 or 403 stops the loop, any other failure waits for the next tick. *)
PhoneAnswered(g) ==
    /\ gps[g].pc \in {"ok", "refused", "failed"}
    /\ gps' = [gps EXCEPT ![g] = NoCall]
    /\ phone' = IF phone = g THEN IF gps[g].pc = "refused" THEN "stopped" ELSE "waiting"
                ELSE phone
    /\ UNCHANGED <<now, server, watcher, sock, page, leak>>

(* The phone gives up on a request the server goes on with. *)
PhoneGivesUp ==
    /\ phone \in Calls
    /\ phone' = "waiting"
    /\ UNCHANGED <<now, server, gps, watcher, sock, page, leak>>

-----------------------------------------------------------------------------
(* updateMyLineHaulTrip *)

(* Lock the trip; only the driver of a trip IN_TRANSIT may go on. *)
GpsLock(g) ==
    /\ gps[g].pc = "sent" /\ trip.lock = None
    /\ IF InTransit
       THEN /\ trip' = [trip EXCEPT !.lock = g]
            /\ gps' = [gps EXCEPT ![g].pc = "locked"]
       ELSE gps' = [gps EXCEPT ![g].pc = "refused"] /\ UNCHANGED trip
    /\ UNCHANGED <<now, store, dev, runs, phone, watcher, sock, page, leak>>

(* Redis takes the position, stamped by the server, or the call fails. *)
GpsStore(g, works) ==
    /\ gps[g].pc = "locked"
    /\ IF works
       THEN /\ store' = now /\ gps' = [gps EXCEPT ![g].pc = "stored", ![g].at = now]
            /\ UNCHANGED trip
       ELSE /\ gps' = [gps EXCEPT ![g].pc = "failed"] /\ trip' = [trip EXCEPT !.lock = None]
            /\ UNCHANGED store
    /\ UNCHANGED <<now, dev, runs, phone, watcher, sock, page, leak>>

OneMore(n) == IF n < Required THEN n + 1 ELSE n   \* more than Required is all the same

(* RouteDeviationService.evaluate against the current version's record. *)
Judge(old, off) ==
    LET n == IF off THEN OneMore(old.count) ELSE 0 IN
    [count |-> n,
     state |-> IF ~off THEN "ON_ROUTE"
               ELSE IF old.state = "DEVIATED" \/ n >= Required THEN "DEVIATED"
               ELSE old.state]

(* An unreadable record counts as none; without the write nothing happened.  *)
GpsJudge(g, redis) ==
    /\ gps[g].pc = "stored" /\ redis \in {"ok", "unread", "down"}
    /\ dev' = CASE redis = "ok" -> [dev EXCEPT ![trip.route] = Judge(@, gps[g].off)]
                [] redis = "unread" -> [dev EXCEPT ![trip.route] = Judge(NoDev, gps[g].off)]
                [] redis = "down" -> dev
    /\ runs' = IF redis = "down" THEN runs
               ELSE [runs EXCEPT ![trip.route] = IF gps[g].off THEN OneMore(@) ELSE 0]
    /\ gps' = [gps EXCEPT ![g].pc = "judged"]
    /\ UNCHANGED <<now, trip, store, phone, watcher, sock, page, leak>>

(* A deviation record nobody has written for a minute expires. *)
DevExpire(r) ==
    /\ dev[r] # NoDev
    /\ dev' = [dev EXCEPT ![r] = NoDev]
    /\ UNCHANGED <<now, trip, store, runs, gps, phone, watcher, sock, page, leak>>

(* emitToRoom: a socket now in the room is authenticated again (one that     *)
(* reconnects meanwhile counts as the same) ...                              *)
GpsRevalidate(g) ==
    /\ gps[g].pc = "judged"
    /\ gps' = [gps EXCEPT ![g].pc = IF sock.joined /\ watcher.valid THEN "valid" ELSE "cut"]
    /\ sock' = IF sock.joined /\ ~watcher.valid THEN NoSock ELSE sock
    /\ UNCHANGED <<now, server, phone, watcher, page, leak>>

(* ... and its access checked again, before it is pushed to or leaves; the   *)
(* call commits and releases the row.                                        *)
PushToRoom(g) ==  \* mutant: being in the room is enough
    /\ gps[g].pc \in {"valid", "cut"}
    /\ sock' = IF sock.joined
               THEN [sock EXCEPT !.queue = Append(@, [kind |-> "location", at |-> gps[g].at])]
               ELSE sock
    /\ leak' = (leak \/ (sock.joined /\ gps[g].held # Rights))
    /\ trip' = [trip EXCEPT !.lock = None]
    /\ gps' = [gps EXCEPT ![g].pc = "ok"]
    /\ UNCHANGED <<now, store, dev, runs, phone, watcher, page>>
GpsPush(g) ==
    /\ gps[g].pc \in {"valid", "cut"}
    /\ IF gps[g].pc = "valid" /\ sock.joined
       THEN IF watcher.scope /\ InTransit
            THEN /\ sock' = [sock EXCEPT !.queue = Append(@, [kind |-> "location", at |-> gps[g].at])]
                 /\ leak' = (leak \/ gps[g].held # Rights)
            ELSE sock' = [sock EXCEPT !.joined = FALSE] /\ UNCHANGED leak
       ELSE UNCHANGED <<sock, leak>>
    /\ trip' = [trip EXCEPT !.lock = None]
    /\ gps' = [gps EXCEPT ![g].pc = "ok"]
    /\ UNCHANGED <<now, store, dev, runs, phone, watcher, page>>

-----------------------------------------------------------------------------
(* The watcher: rights, socket, page *)

(* A logout or suspension ends the session, a transfer of staff the scope. *)
LoseAccess(what) ==
    /\ watcher[what] /\ "rights" \in Parts
    /\ watcher' = [watcher EXCEPT ![what] = FALSE]
    /\ UNCHANGED <<now, server, gps, phone, sock, page, leak>>

RegainAccess(what) ==
    /\ ~watcher[what]
    /\ watcher' = [watcher EXCEPT ![what] = TRUE]
    /\ gps' = [g \in Calls |-> IF gps[g].pc = "idle" THEN gps[g]
                               ELSE [gps[g] EXCEPT !.held = @ \cup {what}]]
    /\ UNCHANGED <<now, server, phone, sock, page, leak>>

Drop ==
    /\ sock.up
    /\ sock' = NoSock
    /\ UNCHANGED <<now, server, gps, phone, watcher, page, leak>>

(* The page has a socket while it lists a trip; on connect it subscribes and *)
(* fetches again.                                                            *)
Connect ==
    /\ ~sock.up /\ page.listed /\ watcher.valid
    /\ sock' = [NoSock EXCEPT !.up = TRUE, !.sub = "asked"]
    /\ page' = [page EXCEPT !.fetch = "asked", !.got = Nothing]
    /\ UNCHANGED <<now, server, gps, phone, watcher, leak>>

(* subscribeLineHaulTrip: authenticate, check, join. *)
SubValidate ==
    /\ sock.sub = "asked"
    /\ sock' = IF watcher.valid THEN [sock EXCEPT !.sub = "valid"] ELSE NoSock
    /\ UNCHANGED <<now, server, gps, phone, watcher, page, leak>>

SubCheck ==
    /\ sock.sub = "valid"
    /\ sock' = [sock EXCEPT !.sub = IF watcher.scope /\ InTransit THEN "allowed" ELSE "none"]
    /\ page' = IF watcher.scope /\ InTransit THEN page
               ELSE [page EXCEPT !.fetch = "asked", !.got = Nothing]
    /\ UNCHANGED <<now, server, gps, phone, watcher, leak>>

SubJoin ==
    /\ sock.sub = "allowed"
    /\ sock' = [sock EXCEPT !.sub = "none", !.joined = TRUE]
    /\ UNCHANGED <<now, server, gps, phone, watcher, page, leak>>

(* Fetch on mount and every 20 seconds: the trips IN_TRANSIT in scope, then  *)
(* their positions, then the answer replaces the list.                       *)
Fetch ==
    /\ page.fetch = "none" /\ "page" \in Parts
    /\ page' = [page EXCEPT !.fetch = "asked", !.got = Nothing]
    /\ UNCHANGED <<now, server, gps, phone, watcher, sock, leak>>

ReadAnyTrip ==  \* mutant: the list of trips is not filtered by status
    /\ page.fetch = "asked" /\ Entitled
    /\ page' = [page EXCEPT !.fetch = "trips", !.got = [Nothing EXCEPT !.listed = TRUE]]
    /\ UNCHANGED <<now, server, gps, phone, watcher, sock, leak>>
ReadTrips ==
    /\ page.fetch = "asked" /\ Entitled
    /\ page' = [page EXCEPT !.fetch = "trips", !.got = [Nothing EXCEPT !.listed = InTransit]]
    /\ UNCHANGED <<now, server, gps, phone, watcher, sock, leak>>

ReadPositions ==
    /\ page.fetch = "trips"
    /\ page' = [page EXCEPT !.fetch = "read",
                    !.got.at = IF page.got.listed /\ Current(store) THEN store ELSE None]
    /\ UNCHANGED <<now, server, gps, phone, watcher, sock, leak>>

(* Another set of trips is another socket: the old one is closed. *)
Fetched ==
    /\ page.fetch = "read"
    /\ page' = [page EXCEPT !.fetch = "none", !.got = Nothing, !.failed = FALSE,
                    !.listed = page.got.listed, !.at = page.got.at]
    /\ sock' = IF page.got.listed = page.listed THEN sock ELSE NoSock
    /\ UNCHANGED <<now, server, gps, phone, watcher, leak>>

(* A refused or failed fetch keeps the cached list behind the error. *)
FetchFails ==
    /\ page.fetch # "none"
    /\ page' = [page EXCEPT !.fetch = "none", !.got = Nothing, !.failed = TRUE]
    /\ UNCHANGED <<now, server, gps, phone, watcher, sock, leak>>

(* Pushes, in the order they were sent; writing the cache clears the error. *)
OnLocation ==
    /\ sock.queue # <<>> /\ Head(sock.queue).kind = "location"
    /\ page' = [page EXCEPT !.at = IF page.listed THEN Head(sock.queue).at ELSE @, !.failed = FALSE]
    /\ sock' = [sock EXCEPT !.queue = Tail(@)]
    /\ UNCHANGED <<now, server, gps, phone, watcher, leak>>

(* Drop the trip and fetch again, which cancels a fetch under way. *)
OnEnded ==
    /\ sock.queue # <<>> /\ Head(sock.queue).kind = "ended"
    /\ page' = [page EXCEPT !.listed = FALSE, !.failed = FALSE, !.at = None, !.ended = TRUE,
                    !.fetch = "asked", !.got = Nothing]
    /\ sock' = NoSock
    /\ UNCHANGED <<now, server, gps, phone, watcher, leak>>

Tick ==
    /\ now < MaxTime
    /\ now' = now + 1
    /\ store' = IF store # None /\ now + 1 < store + TTL THEN store ELSE None
    /\ UNCHANGED <<trip, dev, runs, gps, phone, watcher, sock, page, leak>>

TripStep == Depart \/ Arrive \/ Reroute \/ (\E works \in BOOLEAN : EndDelete(works)) \/ EndEmit
PhoneStep ==
    \/ PhoneStart \/ PhoneStop \/ PhoneGivesUp
    \/ \E g \in Calls : PhoneAnswered(g) \/ \E off \in BOOLEAN : PhoneTick(g, off)
GpsStep ==
    \/ \E g \in Calls : GpsLock(g) \/ GpsRevalidate(g) \/ GpsPush(g)
    \/ \E g \in Calls, works \in BOOLEAN : GpsStore(g, works)
    \/ \E g \in Calls, redis \in {"ok", "unread", "down"} : GpsJudge(g, redis)
    \/ \E r \in Routes : DevExpire(r)
SocketStep ==
    \/ Drop \/ Connect \/ SubValidate \/ SubCheck \/ SubJoin
    \/ \E what \in Rights : LoseAccess(what) \/ RegainAccess(what)
PageStep == Fetch \/ ReadTrips \/ ReadPositions \/ Fetched \/ FetchFails \/ OnLocation \/ OnEnded

Next == TripStep \/ PhoneStep \/ GpsStep \/ SocketStep \/ PageStep \/ Tick

(* The page polls and the browser delivers the answer or an error. A new     *)
(* connection starts the fetch again, but reconnects back off and a fetch    *)
(* takes far less: now and then one is answered. The provider polls its trip *)
(* and stops the loop.                                                       *)
Polling ==
    /\ WF_vars(Fetch) /\ SF_vars(Fetched \/ FetchFails)
    /\ WF_vars(PhoneStop)
Spec == Init /\ [][Next]_vars /\ Polling

-----------------------------------------------------------------------------
(* Properties *)

(* No push reaches a watcher whose session or scope had ended before the     *)
(* position was sent, although rooms are left lazily: a socket stays in its  *)
(* room until the next push (emitToRoom).                                    *)
NoLeak == ~leak

(* A marker disappears at the latest TTL after the trip has arrived, also    *)
(* when the end of tracking never reaches the page.                          *)
MarkerGoneAfterArrival ==
    trip.status = "ARRIVED" /\ page.listed /\ Current(page.at) => now < trip.at + TTL

(* A trip the page has been told has ended does not come back with the       *)
(* answer of a fetch that was under way.                                     *)
EndedStaysEnded == page.ended => ~page.listed

(* A trip is called deviated only after Required samples in a row that       *)
(* Redis took were off its current route: a new route version does not       *)
(* inherit the old verdict.                                                  *)
DeviationEarned == \A r \in Routes : dev[r].state = "DEVIATED" => runs[r] >= Required

(* An arrived trip leaves the page for good even if the push of its end is   *)
(* lost and fetches fail, and the phone stops posting to it.                 *)
ArrivalReachesAll ==
    (trip.status = "ARRIVED") ~> []((page.listed => page.failed) /\ phone = "stopped")

=============================================================================
