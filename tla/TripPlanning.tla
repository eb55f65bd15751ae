---------------------------- MODULE TripPlanning ----------------------------
(***************************************************************************)
(* How a trip comes to be planned: LineHaulPlanningService reads what is   *)
(* free and, after a call to the route provider, what is booked, and       *)
(* recommends combinations; the trips page puts a recommendation into its  *)
(* form, the dispatcher reviews it and sends createLineHaulTrip. Nothing   *)
(* is reserved before create runs, so a recommendation may be stale, and   *)
(* an answer of create may be lost while the dialog is still open.         *)
(*                                                                         *)
(* The range asked for holds all of Windows. Which of the free             *)
(* combinations make the list, and the windows' lengths, are PlanScore's   *)
(* matter: here every manifest that selectTransfersForCapacity can return  *)
(* for some order of the transfers is one that may be recommended.         *)
(***************************************************************************)
EXTENDS LineHaul

CONSTANT Calls   \* calls of createLineHaulTrip, in no order

VARIABLES
    plan,  \* the planning panel and its request
    page,  \* the form of the trips page and its review dialog
    call   \* createLineHaulTrip calls

pageVars == <<plan, page, call>>
tripVars == vars

-----------------------------------------------------------------------------
(* Rows *)

Form == [from : Sites, to : Sites, driver : Drivers, vehicle : Vehicles]
EmptyForm == [from |-> None, to |-> None, driver |-> None, vehicle |-> None]

Recommendation == [form : Form, window : Windows, transfers : (SUBSET Transfers) \ {{}}]

NoPlan == [phase |-> "idle"]

(* waiting is the call the dialog shows as loading, tried the calls sent    *)
(* since the review began.                                                  *)
NewPage == [form |-> EmptyForm, rec |-> None, review |-> FALSE, waiting |-> None, tried |-> {}]

CallRow == [phase : {"sent", "done", "refused"}, form : Form, rec : Recommendation \cup {None},
            trip : Trips \cup {None}, retryOf : SUBSET Calls]
NoCall == [phase |-> "none"]

-----------------------------------------------------------------------------
(* Recommendations *)

FreeDriversBusy ==  \* mutant: pickup and delivery work is not looked at
    {d \in Drivers : driver[d].eligible /\ NoActiveLineHaulTrip(d)}

FreeDrivers == {d \in Drivers : driver[d].eligible /\ ~driver[d].busy /\ NoActiveLineHaulTrip(d)}

UsableVehicles == {[id |-> v, capacity |-> vehicle[v].capacity] : v \in {u \in Vehicles : VehicleEligible(u)}}

WaitingTransfers(from, to) ==
    {x \in Transfers :
       /\ transfer[x].status = "PENDING" /\ transfer[x].from = from /\ transfer[x].to = to
       /\ ~OnTrip(x)
       /\ LET s == parcel[transfer[x].parcel] IN
          s.stage = "AT_ORIGIN_WAREHOUSE" /\ s.current = from /\ s.dest = to}

(* What the service reads before it asks for the route. *)
Resources(from, to) == [phase |-> "read", from |-> from, to |-> to, drivers |-> FreeDrivers,
                        vehicles |-> UsableVehicles, transfers |-> WaitingTransfers(from, to)]

(* selectTransfersForCapacity, for every order *)
Selections(X, capacity) ==
    {Y \in SUBSET X : /\ Y # {}
                      /\ Weigh(Y) <= capacity
                      /\ \A x \in X \ Y : Weigh(Y \cup {x}) > capacity}

(* The combinations free of the conflicts that are read last. *)
Combinations(r) ==
    UNION {{[form |-> [from |-> r.from, to |-> r.to, driver |-> d, vehicle |-> v.id],
             window |-> w, transfers |-> X] : X \in Selections(r.transfers, v.capacity)} :
           <<d, v, w>> \in {<<d, v, w>> \in r.drivers \X r.vehicles \X Windows :
                              ResourcesFree(None, d, v.id, w)}}

-----------------------------------------------------------------------------
(* The planning panel *)

(* The button is disabled while a request is pending; a new one clears what *)
(* the last one found.                                                      *)
AskForAdvice(from, to) ==
    /\ plan.phase # "read"
    /\ from # to /\ Hub!Open(from) /\ Hub!Open(to)
    /\ plan' = Resources(from, to)
    /\ UNCHANGED <<tripVars, page, call>>

AdviceArrives ==
    /\ plan.phase = "read"
    /\ plan' = [phase |-> "shown", recs |-> Combinations(plan)]
    /\ UNCHANGED <<tripVars, page, call>>

(* Refused, timed out, or the range is too short for the route. *)
AdviceFails ==
    /\ plan.phase = "read"
    /\ plan' = NoPlan
    /\ UNCHANGED <<tripVars, page, call>>

-----------------------------------------------------------------------------
(* The form and its review. The dialog is modal, and open until create has  *)
(* succeeded or the dispatcher goes back.                                   *)

ApplyRecommendation(r) ==
    /\ plan.phase = "shown" /\ r \in plan.recs
    /\ ~page.review
    /\ page' = [page EXCEPT !.form = r.form, !.rec = r]
    /\ UNCHANGED <<tripVars, plan, call>>

DropRecommendation ==
    /\ page.rec # None /\ ~page.review
    /\ page' = [page EXCEPT !.rec = None]
    /\ UNCHANGED <<tripVars, plan, call>>

(* Any change, or several in a row; what the lists offer may be stale. *)
Edit(form) ==
    /\ ~page.review /\ form # page.form
    /\ page' = [page EXCEPT !.form = form, !.rec = None]
    /\ UNCHANGED <<tripVars, plan, call>>

(* Every field has to be chosen before the form can be submitted. *)
Submit ==
    /\ ~page.review
    /\ page.form # EmptyForm /\ page.form.from # page.form.to
    /\ page' = [page EXCEPT !.review = TRUE, !.tried = {}]
    /\ UNCHANGED <<tripVars, plan, call>>

GoBack ==
    /\ page.review /\ page.waiting = None
    /\ page' = [page EXCEPT !.review = FALSE]
    /\ UNCHANGED <<tripVars, plan, call>>

(* createLineHaulTrip makes a clientRequestId of its own for every call. *)
Confirm(c) ==
    /\ page.review /\ page.waiting = None
    /\ call[c].phase = "none"
    /\ call' = [call EXCEPT ![c] = [phase |-> "sent", form |-> page.form, rec |-> page.rec,
                                    trip |-> None, retryOf |-> page.tried]]
    /\ page' = [page EXCEPT !.waiting = c, !.tried = @ \cup {c}]
    /\ UNCHANGED <<tripVars, plan>>

-----------------------------------------------------------------------------
(* The server *)

WindowOf(rec) == IF rec = None THEN None ELSE rec.window
TransfersOf(rec) == IF rec = None THEN {} ELSE rec.transfers

CreateCalled(c, t) ==
    LET f == call[c].form
        r == call[c].rec
    IN /\ call[c].phase = "sent"
       /\ Create(t, f.from, f.to, f.driver, f.vehicle, WindowOf(r), TransfersOf(r))
       /\ call' = [call EXCEPT ![c].phase = "done", ![c].trip = t]
       /\ UNCHANGED <<plan, page>>

CreateRefused(c) ==
    LET f == call[c].form
        r == call[c].rec
    IN /\ call[c].phase = "sent"
       /\ ~Creatable(f.from, f.to, f.driver, f.vehicle, WindowOf(r), TransfersOf(r))
       /\ call' = [call EXCEPT ![c].phase = "refused"]
       /\ UNCHANGED <<tripVars, plan, page>>

-----------------------------------------------------------------------------
(* Its answer *)

Created(c) ==
    /\ page.waiting = c /\ call[c].phase = "done"
    /\ page' = NewPage
    /\ UNCHANGED <<tripVars, plan, call>>

(* A refusal, a time-out or a lost connection: the dialog stays open and    *)
(* can be confirmed again, while the call may still be at work.             *)
NotCreated(c) ==
    /\ page.waiting = c
    /\ page' = [page EXCEPT !.waiting = None]
    /\ UNCHANGED <<tripVars, plan, call>>

-----------------------------------------------------------------------------
PageInit ==
    /\ plan = NoPlan
    /\ page = NewPage
    /\ call = [c \in Calls |-> NoCall]

PageStep ==
    \/ \E from, to \in Sites : AskForAdvice(from, to)
    \/ AdviceArrives \/ AdviceFails
    \/ plan.phase = "shown" /\ \E r \in plan.recs : ApplyRecommendation(r)
    \/ DropRecommendation
    \/ \E form \in Form : Edit(form)
    \/ Submit \/ GoBack
    \/ \E c \in Calls : Confirm(c) \/ CreateRefused(c) \/ Created(c) \/ NotCreated(c)
    \/ \E c \in Calls, t \in Trips : CreateCalled(c, t)

(* Colleagues undo what a plan reserved, on a screen of their own. *)
ColleagueStep ==
    /\ \/ \E t \in Trips : Cancel(t) \/ \E x \in Transfers : RemoveTransfer(t, x)
       \/ \E q \in Tasks : Unschedule(q) \/ \E t \in Trips : ShowTrip(q, "unschedule", t)
    /\ UNCHANGED pageVars

(* The whole fleet at work; nobody plans. *)
FleetAtWork ==
    /\ FleetStep \/ PlanStep \/ ScheduleStep \/ RunStep
    /\ UNCHANGED pageVars

PlanningSpec == Loaded /\ PageInit /\ [][PageStep \/ ColleagueStep]_<<vars, pageVars>>
AdviceSpec == Loaded /\ PageInit /\ [][FleetAtWork]_<<vars, pageVars>>

-----------------------------------------------------------------------------
(* Properties *)

(* Every variable has its type. *)
PageTypeOK ==
    /\ plan.phase \in {"idle", "read", "shown"}
    /\ page.form \in Form \cup {EmptyForm}
    /\ page.rec \in Recommendation \cup {None}
    /\ page.waiting \in Calls \cup {None} /\ page.tried \subseteq Calls
    /\ call \in [Calls -> CallRow \cup {NoCall}]

(* The queries of recommendations and the checks of create agree: whatever  *)
(* the fleet is doing, a combination recommended from what is true now      *)
(* would be accepted by create now.                                         *)
AdviceAccepted ==
    \A from, to \in Sites :
      (from # to /\ Hub!Open(from) /\ Hub!Open(to)) =>
        \A r \in Combinations(Resources(from, to)) :
          Creatable(from, to, r.form.driver, r.form.vehicle, r.window, r.transfers)

(* The window and the manifest a dispatcher confirms are those that were    *)
(* recommended for the driver, the vehicle and the warehouses in the form:  *)
(* no change of the form leaves another combination's plan attached, and no *)
(* trip is made of one.                                                     *)
PlanFitsForm ==
    /\ page.rec # None => page.rec.form = page.form
    /\ \A c \in Calls : call[c].phase = "done" /\ call[c].rec # None =>
         call[c].rec.form = call[c].form

(* A recommendation that is confirmed again after an answer was lost is not *)
(* carried out twice: unless a colleague gave its window and its transfers  *)
(* free, the second call makes no second trip.                              *)
PlanCarriedOutOnce ==
    \A c \in Calls : call[c].phase = "done" /\ call[c].rec # None =>
      \A b \in call[c].retryOf : call[b].phase = "done" =>
        LET t == call[c].trip
            u == call[b].trip
        IN trip[t].status \in Active /\ trip[u].status \in Active =>
             /\ manifest[t] \cap manifest[u] = {}
             /\ trip[t].window = None \/ trip[t].window # trip[u].window
=============================================================================
