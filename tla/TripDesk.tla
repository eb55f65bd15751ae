------------------------------ MODULE TripDesk ------------------------------
(***************************************************************************)
(* The detail page of one line-haul trip (LineHaulTripDetailPage and       *)
(* LineHaulSchedulePanel) in front of LineHaul. The page shows a copy of   *)
(* the trip: fetched, pushed in by the answer of a command, and polled     *)
(* only while the trip is on the road. A dialog is opened by what the copy *)
(* offers (availableActions) and confirmed later; its command carries no   *)
(* version, except for schedules. Calls may be refused, answered late or   *)
(* not at all, and confirmed again; colleagues work on the same trip.      *)
(*                                                                         *)
(* The page belongs to an administrator. A GPS sample that a new route     *)
(* needs is LiveTracking's matter, the receipt of parcels WarehouseDesk's. *)
(***************************************************************************)
EXTENDS LineHaul

CONSTANTS
    Shown,   \* the trip of the page
    Calls,   \* the page's calls, each at work in the task of its name
    Used,    \* the commands used on the page
    Around   \* the commands colleagues use

VARIABLES
    desk,  \* the page
    call   \* its calls

tripVars == vars
deskVars == <<desk, call>>

-----------------------------------------------------------------------------
(* State *)

View == [status : TripStatus, window : Windows \cup {None}, version : 0 .. MaxTripVersion,
         manifest : SUBSET Transfers]
NoView == [status |-> "NONE", window |-> None, version |-> 0, manifest |-> {}]

(* toLineHaulTripResponse *)
Show(t) == [status |-> trip[t].status, window |-> trip[t].window, version |-> trip[t].version,
            manifest |-> manifest[t]]

ScheduleCommands == {"schedule", "reschedule", "unschedule"}
Commands == {"assignTransfer", "removeTransfer", "prepare", "dispatch", "arrive", "cancel",
             "recalculateRoute"} \cup ScheduleCommands

(* What the constants must satisfy. *)
DeskAssumption ==
    /\ Shown \in Trips /\ Calls \subseteq Tasks
    /\ Used \subseteq Commands /\ Around \subseteq Commands

(* fetch is the answer on its way, None without one; reviewed is the view   *)
(* the open dialog was opened on, wait the call whose answer is awaited.    *)
DeskRow == [view : View, fetch : View \cup {None}, dialog : Commands \cup {"none"},
            x : Transfers \cup {None}, reviewed : View, wait : Calls \cup {None}]

(* answer is what the page gets; left, a history, is the trip as the        *)
(* transaction of the command left or found it.                             *)
CallRow == [phase : {"sent", "begun", "committed", "done", "refused"}, cmd : Commands,
            x : Transfers \cup {None}, window : Windows \cup {None}, reviewed : View,
            left : View, answer : View]
NoCall == [phase |-> "none"]

(* availableActions *)
Offers(view, cmd) ==
    CASE cmd \in {"assignTransfer", "removeTransfer"} -> view.status = "PLANNED"
      [] cmd \in {"prepare", "reschedule", "unschedule"} ->
           view.status = "PLANNED" /\ view.window # None
      [] cmd = "schedule" -> view.status = "PLANNED" /\ view.window = None
      [] cmd = "dispatch" -> view.status = "READY"
      [] cmd = "cancel" -> view.status \in {"PLANNED", "READY"}
      [] cmd \in {"arrive", "recalculateRoute"} -> view.status = "IN_TRANSIT"

-----------------------------------------------------------------------------
(* The copy of the trip *)

(* The page is opened, comes back to the front, hears of the trip on its    *)
(* socket, or polls. A new fetch takes the place of the one under way.      *)
Fetch ==
    /\ trip[Shown].status # "NONE"
    /\ desk' = [desk EXCEPT !.fetch = Show(Shown)]
    /\ UNCHANGED <<tripVars, call>>

FetchArrives ==
    /\ desk.fetch # None
    /\ desk' = [desk EXCEPT !.view = desk.fetch, !.fetch = None]
    /\ UNCHANGED <<tripVars, call>>

FetchFails ==
    /\ desk.fetch # None
    /\ desk' = [desk EXCEPT !.fetch = None]
    /\ UNCHANGED <<tripVars, call>>

-----------------------------------------------------------------------------
(* Dialogs *)

(* The rows of the manifest and of the list of eligible transfers may be    *)
(* stale: any transfer can be the one chosen to be assigned.                *)
Targets(cmd) ==
    CASE cmd = "assignTransfer" -> Transfers \ desk.view.manifest
      [] cmd = "removeTransfer" -> desk.view.manifest
      [] OTHER -> {None}

OpenDialog(cmd, x) ==
    /\ desk.dialog = "none" /\ desk.wait = None
    /\ Offers(desk.view, cmd)
    /\ desk' = [desk EXCEPT !.dialog = cmd, !.x = x, !.reviewed = desk.view]
    /\ UNCHANGED <<tripVars, call>>

CloseDialog ==
    /\ desk.dialog # "none" /\ desk.wait = None
    /\ desk' = [desk EXCEPT !.dialog = "none", !.x = None, !.reviewed = NoView]
    /\ UNCHANGED <<tripVars, call>>

(* What the server's task of a call holds from the start. *)
Request(cmd) == IF cmd \in ScheduleCommands
                THEN [cmd |-> cmd, trip |-> Shown, version |-> desk.view.version,
                      window |-> desk.view.window]
                ELSE IdleTask

Send(q, cmd, x, w) ==
    /\ desk.wait = None
    /\ call[q].phase = "none"
    /\ call' = [call EXCEPT ![q] = [phase |-> "sent", cmd |-> cmd, x |-> x, window |-> w,
                                    reviewed |-> desk.reviewed, left |-> NoView,
                                    answer |-> NoView]]
    /\ task' = [task EXCEPT ![q] = Request(cmd)]
    /\ desk' = [desk EXCEPT !.wait = q]
    /\ UNCHANGED <<hubVars, vehicle, driver, trip, manifest>>

ConfirmDialog(q) ==
    /\ desk.dialog # "none"
    /\ Send(q, desk.dialog, desk.x, None)

(* submit of the schedule panel, which has no dialog; the availability it   *)
(* asks for may be stale.                                                   *)
SubmitSchedule(q, cmd, w) ==
    /\ desk.dialog = "none"
    /\ Offers(desk.view, cmd)
    /\ Send(q, cmd, None, w)

-----------------------------------------------------------------------------
(* The server *)

(* Commands that read something before they decide. *)
Begin(q) ==
    /\ call[q].phase = "sent"
    /\ \/ call[q].cmd = "assignTransfer" /\ AssignRead(q, Shown, call[q].x)
       \/ call[q].cmd = "prepare" /\ PrepareRead(q, Shown)
       \/ call[q].cmd = "recalculateRoute" /\ RecalculateRead(q, Shown)
    /\ call' = [call EXCEPT ![q].phase = "begun"]
    /\ UNCHANGED desk

(* These commands answer with a read of their own after their transaction   *)
(* and what they announce; the others with the row they read in it.         *)
ReadsBack == {"prepare", "dispatch", "arrive", "recalculateRoute"}

Commit(q, view) ==
    call' = IF call[q].cmd \in ReadsBack
            THEN [call EXCEPT ![q].phase = "committed", ![q].left = view]
            ELSE [call EXCEPT ![q].phase = "done", ![q].left = view, ![q].answer = view]

Finish(q) ==
    /\ \/ /\ call[q].phase = "begun"
          /\ AssignTransfer(q) \/ Prepare(q) \/ RecalculateRoute(q)
       \/ /\ call[q].phase = "sent"
          /\ \/ call[q].cmd \in {"schedule", "reschedule"} /\ SetSchedule(q, call[q].window)
             \/ call[q].cmd = "unschedule" /\ Unschedule(q)
             \/ call[q].cmd = "removeTransfer" /\ RemoveTransfer(Shown, call[q].x)
             \/ call[q].cmd = "dispatch" /\ Dispatch(Shown)
             \/ call[q].cmd = "arrive" /\ Arrive(Shown, Office)
             \/ call[q].cmd = "cancel" /\ Cancel(Shown)
    /\ Commit(q, Show(Shown)')
    /\ UNCHANGED desk

(* What each command finds done already. Whoever removes a transfer saw it  *)
(* in the manifest, so the removed assignment is on record.                 *)
Replayable(q) ==
    LET t == trip[Shown]
        x == call[q].x
    IN CASE call[q].cmd \in {"schedule", "reschedule"} ->
              t.status = "PLANNED" /\ t.window = call[q].window
         [] call[q].cmd = "unschedule" -> t.status = "PLANNED" /\ t.window = None
         [] call[q].cmd = "assignTransfer" ->
              /\ call[q].phase = "sent"
              /\ t.status = "PLANNED" /\ MatchesTrip(x, Shown) /\ x \in manifest[Shown]
         [] call[q].cmd = "removeTransfer" -> t.status = "PLANNED" /\ x \notin manifest[Shown]
         [] call[q].cmd = "prepare" ->
              call[q].phase = "begun" /\ t.status \in {"READY", "IN_TRANSIT", "ARRIVED"}
         [] call[q].cmd = "dispatch" -> t.status \in {"IN_TRANSIT", "ARRIVED"}
         [] call[q].cmd = "arrive" -> t.status = "ARRIVED"
         [] call[q].cmd = "cancel" -> t.status = "CANCELLED"
         [] OTHER -> FALSE

Replay(q) ==
    /\ call[q].phase \in {"sent", "begun"}
    /\ Shown \notin LockedTrips
    /\ Replayable(q)
    /\ Commit(q, Show(Shown))
    /\ task' = [task EXCEPT ![q] = IdleTask]
    /\ UNCHANGED <<hubVars, vehicle, driver, trip, manifest, desk>>

(* this.get after the transaction: the trip as it is by now. *)
ReadBack(q) ==
    /\ call[q].phase = "committed"
    /\ call' = [call EXCEPT ![q].phase = "done", ![q].answer = Show(Shown)]
    /\ UNCHANGED <<tripVars, desk>>

(* A condition of the command does not hold, or the transaction fails. *)
Refuse(q) ==
    /\ call[q].phase \in {"sent", "begun"}
    /\ call' = [call EXCEPT ![q].phase = "refused"]
    /\ task' = [task EXCEPT ![q] = IdleTask]
    /\ UNCHANGED <<hubVars, vehicle, driver, trip, manifest, desk>>

-----------------------------------------------------------------------------
(* Answers *)

(* updateTrip: the answer takes the place of the copy. *)
OnSuccess(q) ==
    /\ desk.wait = q /\ call[q].phase = "done"
    /\ desk' = [desk EXCEPT !.view = call[q].answer, !.dialog = "none", !.x = None,
                            !.reviewed = NoView, !.wait = None]
    /\ UNCHANGED <<tripVars, call>>

(* A refusal, a time-out or a lost connection leaves the dialog open, and   *)
(* perhaps the call at work.                                                *)
OnError(q) ==
    /\ desk.wait = q
    /\ desk' = [desk EXCEPT !.wait = None]
    /\ UNCHANGED <<tripVars, call>>

-----------------------------------------------------------------------------
DeskInit ==
    /\ desk = [view |-> NoView, fetch |-> None, dialog |-> "none", x |-> None,
               reviewed |-> NoView, wait |-> None]
    /\ call = [q \in Calls |-> NoCall]

ViewStep == Fetch \/ FetchArrives \/ FetchFails

DialogStep ==
    \/ \E cmd \in Used \ {"schedule", "reschedule"} : \E x \in Targets(cmd) : OpenDialog(cmd, x)
    \/ CloseDialog
    \/ \E q \in Calls : \/ ConfirmDialog(q)
                         \/ \E cmd \in Used \cap {"schedule", "reschedule"}, w \in Windows :
                              SubmitSchedule(q, cmd, w)

CallStep ==
    \E q \in Calls : \/ Begin(q) \/ Finish(q) \/ Replay(q) \/ ReadBack(q) \/ Refuse(q)
                    \/ OnSuccess(q) \/ OnError(q)

(* The trip is planned, and colleagues work on it. *)
ColleagueTask(q) ==
    \/ "assignTransfer" \in Around /\ \E x \in Transfers : AssignRead(q, Shown, x)
    \/ AssignTransfer(q)
    \/ "prepare" \in Around /\ PrepareRead(q, Shown)
    \/ Prepare(q)
    \/ \E cmd \in ScheduleCommands \cap Around : ShowTrip(q, cmd, Shown)
    \/ Unschedule(q)
    \/ \E w \in Windows : SetSchedule(q, w)
    \/ Abandon(q)

ColleagueStep ==
    /\ \/ \E from, to \in Sites, d \in Drivers, v \in Vehicles, w \in Windows \cup {None},
             X \in SUBSET Transfers : Create(Shown, from, to, d, v, w, X)
       \/ "removeTransfer" \in Around /\ \E x \in Transfers : RemoveTransfer(Shown, x)
       \/ "dispatch" \in Around /\ Dispatch(Shown)
       \/ "arrive" \in Around /\ Arrive(Shown, Office)
       \/ "cancel" \in Around /\ Cancel(Shown)
       \/ \E q \in Tasks \ Calls : ColleagueTask(q)
    /\ UNCHANGED deskVars

DeskNext == ViewStep \/ DialogStep \/ CallStep \/ ColleagueStep

DeskSpec == Loaded /\ DeskInit /\ [][DeskNext]_<<vars, deskVars>>

-----------------------------------------------------------------------------
(* Properties *)

(* Every variable of the page has its type. *)
DeskTypeOK ==
    /\ desk \in DeskRow
    /\ call \in [Calls -> CallRow \cup {NoCall}]

(* What departs is what was reviewed: a dispatch confirmed on the page      *)
(* sends the transfers, at the time, that the page showed when its dialog   *)
(* was opened, however long it was open and whoever worked on the trip.     *)
DispatchAsReviewed ==
    \A q \in Calls :
      (Finish(q) /\ call[q].cmd = "dispatch") =>
        /\ call[q].reviewed.manifest = manifest[Shown]
        /\ call[q].reviewed.window = trip[Shown].window
DepartsAsReviewed == [][DispatchAsReviewed]_<<vars, deskVars>>

(* What a command is to bring about. *)
Meant(c, view) ==
    CASE c.cmd \in {"schedule", "reschedule"} -> view.window = c.window
      [] c.cmd = "unschedule" -> view.window = None
      [] c.cmd = "assignTransfer" -> c.x \in view.manifest
      [] c.cmd = "removeTransfer" -> c.x \notin view.manifest
      [] c.cmd = "prepare" -> view.status \in {"READY", "IN_TRANSIT", "ARRIVED"} /\ view.manifest # {}
      [] c.cmd = "dispatch" -> view.status \in {"IN_TRANSIT", "ARRIVED"}
      [] c.cmd = "arrive" -> view.status = "ARRIVED"
      [] c.cmd = "cancel" -> view.status = "CANCELLED" /\ view.manifest = {}
      [] OTHER -> view.status = "IN_TRANSIT"

(* A trip that came in between a commit and its answer may have been        *)
(* cancelled after it was prepared, or have arrived after its reroute.      *)
Overtaken(c, view) ==
    \/ c.cmd = "prepare" /\ view.status = "CANCELLED"
    \/ c.cmd = "recalculateRoute" /\ view.status = "ARRIVED"

(* A command that is reported as done was done, by this call, an earlier    *)
(* one or a colleague: its transaction left the trip as the command means   *)
(* it. The trip in the answer is that trip, or, where the answer is read    *)
(* after the transaction, a newer version of it, in which at most a         *)
(* preparation is undone or a rerouted trip has arrived; a departure and an *)
(* arrival reported are never followed by anything else.                    *)
AnswersTellTruth ==
    \A q \in Calls : call[q].phase = "done" =>
      LET c == call[q] IN
      /\ Meant(c, c.left)
      /\ \/ c.answer = c.left
         \/ /\ c.cmd \in ReadsBack /\ c.answer.version > c.left.version
            /\ Meant(c, c.answer) \/ Overtaken(c, c.answer)
=============================================================================
