----------------------------- MODULE DispatchDesk -----------------------------
(***************************************************************************)
(* One shipment on the screens of the people who move it: the dispatchers' *)
(* pickup and delivery pages and the drivers' task pages. A page shows     *)
(* what it last fetched; its commands carry no version of it. The commands *)
(* are single steps here: LastMile has them statement by statement.        *)
(*                                                                         *)
(* A delivery task is COMPLETED when its attempt was delivered and FAILED  *)
(* when it failed (the assignment row is COMPLETED in both cases).         *)
(***************************************************************************)
EXTENDS Integers, Sequences, FiniteSets

CONSTANTS
    Dispatchers, Drivers,
    Lossy,    \* whether answers and sockets may be lost
    Sharing,  \* drivers who also work on other shipments
    MaxTasks, \* bound: assignments of the shipment
    None

VARIABLES
    ship,  \* the shipment and its assignments
    free,  \* drivers who are online and available
    desk,  \* [dispatcher -> page]
    phone  \* [driver -> page]

vars == <<ship, free, desk, phone>>

(* What the constants must satisfy. *)
DeskAssumption ==
    /\ Lossy \in BOOLEAN
    /\ Sharing \subseteq Drivers
    /\ MaxTasks \in Nat

-----------------------------------------------------------------------------
(* State *)

Statuses ==
    {"PENDING", "AWAITING_PICKUP_ASSIGNMENT", "PICKUP_ASSIGNED", "PICKUP_IN_PROGRESS", "PICKED_UP",
     "AWAITING_DELIVERY_ASSIGNMENT", "DELIVERY_ASSIGNED", "OUT_FOR_DELIVERY", "DELIVERED",
     "DELIVERY_FAILED", "RETURN_REQUESTED"}
TaskStatuses == {"PENDING", "ACCEPTED", "REJECTED", "COMPLETED", "FAILED", "CANCELLED"}
Task == [driver : Drivers, status : TaskStatuses]

IsActive(t) == t.status \in {"PENDING", "ACCEPTED"}
Holders(s) == {i \in DOMAIN s.tasks : IsActive(s.tasks[i])}

(* The page shows the latest assignment of the shipment. *)
toOperationalShipment(s) ==
    [status |-> s.status,
     driver |-> IF s.tasks = <<>> THEN None ELSE s.tasks[Len(s.tasks)].driver]

NoCall == [kind |-> "none"]

(* stage: the part of its way the shipment is on, for which the dispatchers *)
(* have the page open; it stays.                                            *)
(* pushed: an event is on its way over the socket; stale: a fetch is to be  *)
(* answered; missed: a rejection has not been fetched yet.                  *)

Init ==
    /\ \E stage \in {"PICKUP", "DELIVERY"} :
         ship = [stage |-> stage,
                 status |-> IF stage = "PICKUP" THEN "PENDING" ELSE "AWAITING_DELIVERY_ASSIGNMENT",
                 tasks |-> <<>>, failures |-> 0, decisions |-> 0]
    /\ free = Drivers
    /\ desk = [u \in Dispatchers |->
         [online |-> TRUE, pushed |-> FALSE, stale |-> FALSE, missed |-> FALSE,
          seen |-> toOperationalShipment(ship), selected |-> None, call |-> NoCall]]
    /\ phone = [d \in Drivers |-> [task |-> 0, seen |-> None, calls |-> {}]]

-----------------------------------------------------------------------------
(* Commands of a dispatcher: the shipment after it, or None if it refuses *)

To(status) == [ship EXCEPT !.status = status]

Confirmed ==
    IF ship.status = "AWAITING_PICKUP_ASSIGNMENT" THEN ship
    ELSE IF ship.status = "PENDING" THEN To("AWAITING_PICKUP_ASSIGNMENT")
    ELSE None

Given(d, status) == [To(status) EXCEPT !.tasks = Append(@, [driver |-> d, status |-> "PENDING"])]

Assigned(d) ==
    IF ship.status # "AWAITING_PICKUP_ASSIGNMENT" \/ Holders(ship) # {} \/ d \notin free THEN None
    ELSE Given(d, "PICKUP_ASSIGNED")

Reassigned(d) ==
    IF ship.status \notin {"PICKUP_ASSIGNED", "PICKUP_IN_PROGRESS"} \/ Holders(ship) = {} \/ d \notin free
    THEN None
    ELSE [Given(d, "PICKUP_ASSIGNED") EXCEPT !.tasks =
            [i \in DOMAIN @ |-> IF i \in Holders(ship) THEN [@[i] EXCEPT !.status = "CANCELLED"] ELSE @[i]]]

DeliveryAssigned(d) ==
    IF ship.status # "AWAITING_DELIVERY_ASSIGNMENT" \/ d \notin free THEN None
    ELSE Given(d, "DELIVERY_ASSIGNED")

Redelivered ==
    IF ship.status = "AWAITING_DELIVERY_ASSIGNMENT" THEN ship
    ELSE IF ship.status = "DELIVERY_FAILED"
         THEN [To("AWAITING_DELIVERY_ASSIGNMENT") EXCEPT !.decisions = @ + 1]
    ELSE None

ReturnRequested ==
    IF ship.status = "RETURN_REQUESTED" THEN ship
    ELSE IF ship.status = "DELIVERY_FAILED" THEN [To("RETURN_REQUESTED") EXCEPT !.decisions = @ + 1]
    ELSE None

After(kind, d) ==
    CASE kind = "confirm" -> Confirmed
      [] kind = "assign" -> Assigned(d)
      [] kind = "reassign" -> Reassigned(d)
      [] kind = "assignDelivery" -> DeliveryAssigned(d)
      [] kind = "redeliver" -> Redelivered
      [] kind = "return" -> ReturnRequested

(* Whoever holds a task is busy; who loses one is available again. *)
FreeAfter(s) ==
    (free \cup {ship.tasks[i].driver : i \in Holders(ship)}) \ {s.tasks[i].driver : i \in Holders(s)}

-----------------------------------------------------------------------------
(* The dispatcher's page *)

Page(u, changed) ==
    /\ desk' = [desk EXCEPT ![u] = changed]
    /\ UNCHANGED <<ship, free, phone>>

(* The buttons of a card, by the status it shows. *)
PickupOffers(status) ==
    CASE status = "PENDING" -> {"confirm"}
      [] status = "AWAITING_PICKUP_ASSIGNMENT" -> {"assign"}
      [] status \in {"PICKUP_ASSIGNED", "PICKUP_IN_PROGRESS"} -> {"reassign"}
      [] OTHER -> {}

DeliveryOffers(status) ==
    CASE status = "AWAITING_DELIVERY_ASSIGNMENT" -> {"assignDelivery"}
      [] status = "DELIVERY_FAILED" -> {"redeliver", "return"}
      [] OTHER -> {}

Offers(status) == IF ship.stage = "PICKUP" THEN PickupOffers(status) ELSE DeliveryOffers(status)

(* The list of candidates is up to five seconds old; a choice stays when    *)
(* its driver leaves the list.                                              *)
Select(u, d) ==
    /\ desk[u].call = NoCall
    /\ \E kind \in Offers(desk[u].seen.status) : kind \in {"assign", "reassign", "assignDelivery"}
    /\ Page(u, [desk[u] EXCEPT !.selected = d])

Press(u, kind) ==
    /\ desk[u].call = NoCall
    /\ kind \in Offers(desk[u].seen.status)
    /\ kind \in {"assign", "reassign", "assignDelivery"} => desk[u].selected # None
    /\ Page(u, [desk[u] EXCEPT !.call =
                 [kind |-> kind, driver |-> desk[u].selected]])

(* The command runs; a success makes the page fetch again, unless the       *)
(* answer is lost.                                                          *)
Run(u, answered) ==
    /\ desk[u].call # NoCall
    /\ LET result == After(desk[u].call.kind, desk[u].call.driver)
           s == IF result = None THEN ship ELSE result
       IN /\ Len(s.tasks) <= MaxTasks
          /\ ship' = s
          /\ free' = FreeAfter(s)
          /\ desk' = [desk EXCEPT ![u].call = NoCall, ![u].stale = @ \/ (answered /\ result # None)]
    /\ UNCHANGED phone

(* The request never arrives. *)
Drop(u) ==
    /\ desk[u].call # NoCall
    /\ Page(u, [desk[u] EXCEPT !.call = NoCall])

(* A fetch is answered and shown; one that fails is tried again. *)
Fetch(u) ==
    /\ desk[u].stale
    /\ Page(u, [desk[u] EXCEPT !.stale = FALSE, !.missed = FALSE, !.seen = toOperationalShipment(ship)])

(* The window gets the focus, or the page is opened again. *)
Focus(u) ==
    Page(u, [desk[u] EXCEPT !.missed = FALSE, !.seen = toOperationalShipment(ship)])

(* The pickup page is among what a pushed notification refreshes, the       *)
(* delivery page is not.                                                    *)
refreshOperations(u, changed) == [changed EXCEPT !.stale = @ \/ ship.stage = "PICKUP"]

Push(u) ==
    /\ desk[u].pushed
    /\ Page(u, refreshOperations(u, [desk[u] EXCEPT !.pushed = FALSE]))

Disconnect(u) ==
    /\ desk[u].online
    /\ Page(u, [desk[u] EXCEPT !.online = FALSE, !.pushed = FALSE])

ConnectSilently(u) ==  \* mutant: nothing is fetched after a reconnection
    /\ ~desk[u].online
    /\ Page(u, [desk[u] EXCEPT !.online = TRUE])

Connect(u) ==
    /\ ~desk[u].online
    /\ Page(u, refreshOperations(u, [desk[u] EXCEPT !.online = TRUE]))

-----------------------------------------------------------------------------
(* Drivers *)

Commands == {"accept", "reject", "pickup", "start", "complete", "fail"}

(* from, at: the statuses of the task and of the shipment a command needs;  *)
(* to, then: what they become.                                              *)
Effect(cmd) ==
    CASE cmd = "accept" ->
           [from |-> {"PENDING"}, at |-> {"PICKUP_ASSIGNED"}, to |-> "ACCEPTED", then |-> "PICKUP_IN_PROGRESS"]
      [] cmd = "reject" ->
           [from |-> {"PENDING", "ACCEPTED"}, at |-> {"PICKUP_ASSIGNED", "PICKUP_IN_PROGRESS"},
            to |-> "REJECTED", then |-> "AWAITING_PICKUP_ASSIGNMENT"]
      [] cmd = "pickup" ->
           [from |-> {"ACCEPTED"}, at |-> {"PICKUP_IN_PROGRESS"}, to |-> "COMPLETED", then |-> "PICKED_UP"]
      [] cmd = "start" ->
           [from |-> {"PENDING"}, at |-> {"DELIVERY_ASSIGNED"}, to |-> "ACCEPTED", then |-> "OUT_FOR_DELIVERY"]
      [] cmd = "complete" ->
           [from |-> {"ACCEPTED"}, at |-> {"OUT_FOR_DELIVERY"}, to |-> "COMPLETED", then |-> "DELIVERED"]
      [] cmd = "fail" ->
           [from |-> {"ACCEPTED"}, at |-> {"OUT_FOR_DELIVERY"}, to |-> "FAILED", then |-> "DELIVERY_FAILED"]

AllowedToAnyHolder(cmd, i) ==  \* mutant: the status of the task is not asked for
    ship.status \in Effect(cmd).at

Allowed(cmd, i) == ship.tasks[i].status \in Effect(cmd).from /\ ship.status \in Effect(cmd).at

(* A command that has been done answers with the task as it is; pickup and  *)
(* complete ask only for their proof.                                       *)
Done(cmd, i) ==
    \/ ship.tasks[i].status = Effect(cmd).to /\
         (cmd \in {"pickup", "complete"} \/ ship.status = Effect(cmd).then)
    \/ cmd = "accept" /\ ship.tasks[i].status = "COMPLETED" /\ ship.status = "PICKED_UP"

(* Opening a task, or the focus on its page, fetches it. *)
Open(d, i) ==
    /\ i \in DOMAIN ship.tasks
    /\ ship.tasks[i].driver = d
    /\ phone[d].task # i \/ phone[d].seen # ship.tasks[i].status
    /\ phone[d].calls = {} \/ phone[d].task = i
    /\ phone' = [phone EXCEPT ![d].task = i, ![d].seen = ship.tasks[i].status]
    /\ UNCHANGED <<ship, free, desk>>

PickupTaskOffers(status) ==
    CASE status = "PENDING" -> {"accept", "reject"}
      [] status = "ACCEPTED" -> {"pickup"}
      [] OTHER -> {}

DeliveryTaskOffers(status) ==
    CASE status = "PENDING" -> {"start"}
      [] status = "ACCEPTED" -> {"complete", "fail"}
      [] OTHER -> {}

TaskOffers(status) == IF ship.stage = "PICKUP" THEN PickupTaskOffers(status) ELSE DeliveryTaskOffers(status)

(* A button is disabled while its own command is under way, reject while    *)
(* any is.                                                                  *)
Tap(d, cmd) ==
    /\ phone[d].task # 0
    /\ cmd \in TaskOffers(phone[d].seen)
    /\ cmd \notin phone[d].calls
    /\ cmd = "reject" => phone[d].calls = {}
    /\ phone' = [phone EXCEPT ![d].calls = @ \cup {cmd}]
    /\ UNCHANGED <<ship, free, desk>>

(* Only a rejection is notified to dispatchers; the other commands notify   *)
(* the customer.                                                            *)
NotifiesDispatchers(cmd) == cmd = "reject"

ShipAfter(cmd, i) ==
    [To(Effect(cmd).then) EXCEPT
       !.tasks[i].status = Effect(cmd).to,
       !.failures = IF cmd = "fail" THEN @ + 1 ELSE @]

(* The command runs on the task the page has open; the page shows its       *)
(* answer, unless it is lost.                                               *)
Perform(d, cmd, answered) ==
    /\ cmd \in phone[d].calls
    /\ LET i == phone[d].task
           now == Allowed(cmd, i) /\ ~Done(cmd, i)
           s == IF now THEN ShipAfter(cmd, i) ELSE ship
           ok == answered /\ (now \/ Done(cmd, i))
       IN /\ ship' = s
          /\ free' = FreeAfter(s)
          /\ desk' = [u \in Dispatchers |->
               [desk[u] EXCEPT !.missed = @ \/ (now /\ cmd = "reject"),
                               !.pushed = @ \/ (now /\ NotifiesDispatchers(cmd) /\ desk[u].online)]]
          /\ phone' = [phone EXCEPT ![d].calls = @ \ {cmd},
                         ![d].seen = IF ok THEN s.tasks[i].status ELSE @]

(* A driver takes up or ends work on other shipments, or goes off line. *)
WorkElsewhere(d) ==
    /\ d \in Sharing
    /\ \A i \in Holders(ship) : ship.tasks[i].driver # d
    /\ free' = IF d \in free THEN free \ {d} ELSE free \cup {d}
    /\ UNCHANGED <<ship, desk, phone>>

-----------------------------------------------------------------------------
(* Specification *)

DeskKinds == {"confirm", "assign", "reassign", "assignDelivery", "redeliver", "return"}

DeskStep(u) ==
    \/ \E d \in Drivers : Select(u, d)
    \/ \E kind \in DeskKinds : Press(u, kind)
    \/ \E answered \in {TRUE, ~Lossy} : Run(u, answered)
    \/ Fetch(u)
    \/ Focus(u)
    \/ Push(u)

PhoneStep(d) ==
    \/ \E i \in DOMAIN ship.tasks : Open(d, i)
    \/ \E cmd \in Commands : Tap(d, cmd)
    \/ \E cmd \in Commands, answered \in {TRUE, ~Lossy} : Perform(d, cmd, answered)
    \/ WorkElsewhere(d)

Loss(u) == Lossy /\ (Drop(u) \/ Disconnect(u) \/ Connect(u))

Next ==
    \/ \E u \in Dispatchers : DeskStep(u) \/ Loss(u)
    \/ \E d \in Drivers : PhoneStep(d)

Spec == Init /\ [][Next]_vars

(* Requests are answered, a socket reconnects and a pushed event arrives or *)
(* its socket is lost. Nobody has to press, open or focus anything.         *)
Fairness ==
    \A u \in Dispatchers :
      /\ WF_vars(Fetch(u))
      /\ WF_vars(Push(u))
      /\ WF_vars(Connect(u))

FairSpec == Spec /\ Fairness

-----------------------------------------------------------------------------
(* Properties *)

Summary == [status : Statuses, driver : Drivers \cup {None}]

(* Every variable keeps its type, and at most one assignment is active.     *)
TypeOK ==
    /\ ship.status \in Statuses
    /\ \A i \in DOMAIN ship.tasks : ship.tasks[i] \in Task
    /\ Cardinality(Holders(ship)) <= 1
    /\ free \subseteq Drivers
    /\ \A u \in Dispatchers : desk[u].seen \in Summary /\ desk[u].selected \in Drivers \cup {None}
    /\ \A d \in Drivers : phone[d].task \in 0 .. Len(ship.tasks) /\ phone[d].calls \subseteq Commands

HolderOf(s) == {s.tasks[i].driver : i \in Holders(s)}

(* However old the page, only a reassignment moves a shipment straight from *)
(* one driver to another: a first assignment pressed on a stale card never  *)
(* takes a task away (assign, isReassignment).                              *)
AssignGives ==
    HolderOf(ship) # {} /\ HolderOf(ship') # {} /\ HolderOf(ship') # HolderOf(ship) =>
      \E u \in Dispatchers : desk[u].call # NoCall /\ desk'[u].call = NoCall
                             /\ desk[u].call.kind = "reassign"
AssignTakesNothing == [][AssignGives]_vars

(* The proof of a pickup or delivery comes from the driver who held the     *)
(* task, however long another's page went on showing it: a completed task   *)
(* is the last one given out and the only one completed (pickup, complete). *)
ProofFromHolder ==
    \A i \in DOMAIN ship.tasks : ship.tasks[i].status = "COMPLETED" =>
      /\ i = Len(ship.tasks)
      /\ ship.status \in {"PICKED_UP", "DELIVERED"}
      /\ Holders(ship) = {}

(* Whatever two dispatchers press on a failed delivery, each failure is     *)
(* decided once, and a parcel to be returned is not delivered (redeliver,   *)
(* requestReturn).                                                          *)
FailureDecidedOnce ==
    /\ ship.decisions <= ship.failures
    /\ ship.decisions = ship.failures <=> ship.status # "DELIVERY_FAILED"

(* Whoever holds a task got it, gives its proof, and decides a failure once,*)
(* in any order of old pages, repeated commands and lost answers.           *)
TaskAsAssigned == [](TypeOK /\ ProofFromHolder /\ FailureDecidedOnce) /\ AssignTakesNothing

(* A rejection comes to be seen on every pickup page, over lost events      *)
(* and reconnections, without anybody touching the page (reject,            *)
(* refreshOperations).                                                      *)
RejectionSeen == \A u \in Dispatchers : desk[u].missed ~> ~desk[u].missed
=============================================================================
