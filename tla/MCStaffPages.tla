---------------------------- MODULE MCStaffPages ----------------------------
(***************************************************************************)
(* A member of the staff signs in and works on the pages of the trips:     *)
(* AuthSessions, TripPlanning, TripDesk, PlanScore and LiveTracking for    *)
(* TLC, as scenes chosen in the initial state. Two scenes are AuthSessions,*)
(* which this module extends, each with a part of its constants; the       *)
(* others are instances with constants and variables of their own, and no  *)
(* account exists in them. Scenes share no row, so what holds in each holds*)
(* of the run.                                                             *)
(*                                                                         *)
(*   sessions:  three sessions and a password that changes once            *)
(*   passwords: two sessions and a password that changes twice             *)
(***************************************************************************)
EXTENDS AuthSessions, Integers, Sequences, TLC

CONSTANTS z1, z2, y1, y2, h1, h2, h3, w1, w2, s1, s2, s3, x1, x2, x3, office, p1, t1, t2, t3, v1, d1, d2, c1, c2, q1,
          g1, g2

VARIABLES scene,
          site, staff, parcel, transfer, era, req, vehicle, driver, trip, manifest, task,
          plan, page, pageCall, desk, input, at, recs,
          now, vehicleTrip, store, dev, runs, gps, phone, watcher, sock, map, leak

tripVars == <<site, staff, parcel, transfer, era, req, vehicle, driver, trip, manifest, task>>
scoreVars == <<input, at, recs>>
mapVars == <<now, vehicleTrip, store, dev, runs, gps, phone, watcher, sock, map, leak>>
sceneVars == <<scene, vars, tripVars, plan, page, pageCall, desk, scoreVars, mapVars>>

HalfDays == {<<0, 2>>, <<1, 3>>}

(* Two transfers, two drivers and a vehicle while the whole fleet works. *)
Advice == INSTANCE TripPlanning WITH
    call <- pageCall,
    Sites <- {w1, w2}, Parcels <- {s1, s2}, Transfers <- {x1, x2}, Staff <- {}, Office <- office,
    Requests <- {}, Weights <- {1, 2}, Points <- {}, MaxVersion <- 4,
    Trips <- {t1}, Vehicles <- {v1}, Drivers <- {d1, d2}, Windows <- HalfDays,
    Capacities <- {2}, Tasks <- {q1}, MaxTripVersion <- 3, Calls <- {}

(* The planning panel, its review, and a second confirmation. *)
Review == INSTANCE TripPlanning WITH
    call <- pageCall,
    Sites <- {w1, w2}, Parcels <- {s3}, Transfers <- {x3}, Staff <- {}, Office <- office,
    Requests <- {}, Weights <- {1, 2}, Points <- {}, MaxVersion <- 4,
    Trips <- {t2, t3}, Vehicles <- {v1}, Drivers <- {d1}, Windows <- {<<0, 2>>},
    Capacities <- {2}, Tasks <- {q1}, MaxTripVersion <- 2, Calls <- {c1, c2}

(* The page of a trip with two transfers, while colleagues change it. *)
Leaving == INSTANCE TripDesk WITH
    call <- pageCall,
    Sites <- {w1, w2}, Parcels <- {s1, s2}, Transfers <- {x1, x2}, Staff <- {}, Office <- office,
    Requests <- {}, Weights <- {1}, Points <- {}, MaxVersion <- 4,
    Trips <- {t1}, Vehicles <- {v1}, Drivers <- {d1}, Windows <- {<<0, 2>>},
    Capacities <- {2}, Tasks <- {c1, c2, q1}, MaxTripVersion <- 3,
    Shown <- t1, Calls <- {c1, c2}, Used <- {"prepare", "dispatch", "arrive", "cancel"},
    Around <- {"removeTransfer", "prepare", "unschedule", "cancel"}

(* The whole life of a trip from its page. *)
Living == INSTANCE TripDesk WITH
    call <- pageCall,
    Sites <- {w1, w2}, Parcels <- {s3}, Transfers <- {x3}, Staff <- {}, Office <- office,
    Requests <- {}, Weights <- {1}, Points <- {p1}, MaxVersion <- 4,
    Trips <- {t1}, Vehicles <- {v1}, Drivers <- {d1}, Windows <- {<<0, 2>>},
    Capacities <- {2}, Tasks <- {c1, c2, q1}, MaxTripVersion <- 4,
    Shown <- t1, Calls <- {c1, c2},
    Used <- {"assignTransfer", "removeTransfer", "prepare", "dispatch", "arrive", "cancel",
             "recalculateRoute"},
    Around <- {"prepare", "removeTransfer", "assignTransfer", "arrive"}

(* Schedules changed on the page and by colleagues. *)
Scheduling == INSTANCE TripDesk WITH
    call <- pageCall,
    Sites <- {w1, w2}, Parcels <- {}, Transfers <- {}, Staff <- {}, Office <- office,
    Requests <- {}, Weights <- {1}, Points <- {}, MaxVersion <- 4,
    Trips <- {t1}, Vehicles <- {v1}, Drivers <- {d1}, Windows <- {<<0, 2>>, <<2, 4>>},
    Capacities <- {2}, Tasks <- {c1, c2, q1}, MaxTripVersion <- 2,
    Shown <- t1, Calls <- {c1, c2}, Used <- {"schedule", "reschedule", "unschedule"},
    Around <- {"schedule", "reschedule", "unschedule", "cancel"}

Booked(d, v, from, until) == [driver |-> d, vehicle |-> v, from |-> from, until |-> until]
Score == INSTANCE PlanScore WITH
    Fleets <- {<<3>>, <<2, 5>>, <<6, 6>>},
    Loads <- {<<>>, <<4, 1, 2>>, <<2, 2, 2>>, <<1, 3, 1, 2>>, <<7>>, <<1, 1, 1, 1, 1, 1>>},
    Crews <- {<<TRUE>>, <<FALSE, TRUE>>, <<TRUE, TRUE>>},
    Bookings <- {{}, {Booked(1, 1, 0, 60)}, {Booked(2, 2, 60, 90), Booked(1, 9, 120, 150)},
                 {Booked(9, 1, 30, 120)}, {Booked(1, 2, -1, -1)}},
    Roads <- {[mode |-> "NONE", seconds |-> -1], [mode |-> "HAVERSINE_FALLBACK", seconds |-> -1]}
             \cup [mode : {"ROAD_ROUTE"}, seconds : {0, 1800, 1801, 5400}],
    Ends <- {50, 90, 240}, Limits <- {1, 3}

(* A watcher whose rights change, and a driver who leaves the route. *)
Rights == INSTANCE LiveTracking WITH
    trip <- vehicleTrip, page <- map, Calls <- {g1}, TTL <- 1, Required <- 2,
    MaxTime <- 0, MaxRoute <- 1, MaxQueue <- 1, Parts <- {"page", "rights"}
Route == INSTANCE LiveTracking WITH
    trip <- vehicleTrip, page <- map, Calls <- {g1, g2}, TTL <- 1, Required <- 2,
    MaxTime <- 0, MaxRoute <- 2, MaxQueue <- 1, Parts <- {"route"}

ASSUME VersionAssumption /\ NoneAssumption
ASSUME Advice!WindowsAssumption /\ Review!CapacitiesAssumption
ASSUME Leaving!DeskAssumption /\ Living!DeskAssumption /\ Scheduling!DeskAssumption
ASSUME Score!InputsAssumption
ASSUME Rights!BoundAssumption /\ Rights!PartsAssumption /\ Rights!NoneAssumption

(* Which transfer takes which parcel is a matter of names. *)
Named == transfer[x1].parcel = s1 /\ transfer[x2].parcel = s2

NoTrips == /\ site = None /\ staff = None /\ parcel = None /\ transfer = None /\ era = None
           /\ req = None /\ vehicle = None /\ driver = None /\ trip = None /\ manifest = None
           /\ task = None
NoPage == plan = None /\ page = None
NoScore == input = None /\ at = None /\ recs = None
NoMap == /\ now = None /\ vehicleTrip = None /\ store = None /\ dev = None /\ runs = None
         /\ gps = None /\ phone = None /\ watcher = None /\ sock = None /\ map = None
         /\ leak = None

(* The part of the account's rows that a scene uses. Which of the unused    *)
(* session rows is inserted next is a matter of names.                      *)
AuthUsed ==
    /\ h1 \in FreeSessions => h2 \in FreeSessions
    /\ h2 \in FreeSessions => h3 \in FreeSessions
    /\ scene = "sessions" => user = NoUser \/ user.version <= 1
    /\ scene = "passwords" => h3 \in FreeSessions

SceneInit ==
    /\ Init
    /\ \/ /\ scene \in {"sessions", "passwords"}
          /\ NoTrips /\ NoPage /\ pageCall = None /\ desk = None /\ NoScore /\ NoMap
       \/ /\ \/ scene = "advice" /\ Advice!Loaded /\ Named /\ Advice!PageInit
             \/ scene = "review" /\ Review!Loaded /\ Review!PageInit
          /\ desk = None /\ NoScore /\ NoMap
       \/ /\ \/ scene = "leaving" /\ Leaving!Loaded /\ Named /\ Leaving!DeskInit
             \/ scene = "living" /\ Living!Loaded /\ Living!DeskInit
             \/ scene = "scheduling" /\ Scheduling!Loaded /\ Scheduling!DeskInit
          /\ NoPage /\ NoScore /\ NoMap
       \/ /\ scene = "score" /\ Score!Init
          /\ NoTrips /\ NoPage /\ pageCall = None /\ desk = None /\ NoMap
       \/ /\ \/ scene = "rights" /\ Rights!Init
             \/ scene = "route" /\ Route!Init
          /\ NoTrips /\ NoPage /\ pageCall = None /\ desk = None /\ NoScore

SceneNext ==
    /\ UNCHANGED scene
    /\ \/ /\ scene \in {"sessions", "passwords"}
          /\ Next /\ AuthUsed'
          /\ UNCHANGED <<tripVars, plan, page, pageCall, desk, scoreVars, mapVars>>
       \/ /\ \/ scene = "advice" /\ Advice!FleetAtWork
             \/ scene = "review" /\ (Review!PageStep \/ Review!ColleagueStep)
          /\ UNCHANGED <<vars, desk, scoreVars, mapVars>>
       \/ /\ \/ scene = "leaving" /\ Leaving!DeskNext
             \/ scene = "living" /\ Living!DeskNext
             \/ scene = "scheduling" /\ Scheduling!DeskNext
          /\ UNCHANGED <<vars, plan, page, scoreVars, mapVars>>
       \/ /\ scene = "score" /\ Score!Next
          /\ UNCHANGED <<vars, tripVars, plan, page, pageCall, desk, mapVars>>
       \/ /\ \/ scene = "rights" /\ Rights!Next
             \/ scene = "route" /\ Route!Next
          /\ UNCHANGED <<vars, tripVars, plan, page, pageCall, desk, scoreVars>>

SceneSpec == SceneInit /\ [][SceneNext]_sceneVars

(* Exchanges of names, each for all scenes at once. *)
Exchange(a, b) == a :> b @@ b :> a
Alike == Permutations({None})
         \cup {Exchange(w1, w2) @@ Exchange(z1, z2),
               Exchange(c1, c2) @@ Exchange(y1, y2),
               Exchange(s1, s2) @@ Exchange(x1, x2)}

-----------------------------------------------------------------------------
(* Properties, as the other modules state them *)

(* Every combination recommended from current rows would be accepted by     *)
(* create, no change of the form leaves another combination's plan attached,*)
(* and a plan confirmed twice reserves its window and transfers once; what  *)
(* the trip page reports as done is done, and what departs is what it showed*)
(* when the dialog was opened.                                              *)
PagesTellTruth ==
    /\ [](scene = "passwords" => TypeOK)
    /\ [](scene = "advice" => Advice!AdviceAccepted)
    /\ [](scene = "review" => Review!PageTypeOK /\ Review!PlanFitsForm /\ Review!PlanCarriedOutOnce)
    /\ [](scene = "leaving" => Leaving!TypeOK /\ Leaving!DeskTypeOK /\ Leaving!AnswersTellTruth)
    /\ [](scene = "living" => Living!AnswersTellTruth)
    /\ [](scene = "scheduling" => Scheduling!AnswersTellTruth)
    /\ [][scene = "leaving" => Leaving!DispatchAsReviewed]_sceneVars

(* The cut list of recommendations is the best of all free combinations, in *)
(* order; each leaves nothing behind that would fit, and takes a window as  *)
(* long as the route and not a slot more (scoreLineHaulPlanning).           *)
BestOfAll == scene = "score" => /\ Score!TypeOK /\ Score!BestOfAll /\ Score!NothingLeftBehind
                                /\ Score!WindowCoversRoute /\ Score!ScoreOutOf100

(* No push reaches a watcher who had lost the right to it before, and a trip*)
(* is called deviated only after enough samples in a row off its current    *)
(* route.                                                                   *)
PushesEarned == /\ scene = "rights" => Rights!NoLeak
                /\ scene = "route" => Route!DeviationEarned
=============================================================================
