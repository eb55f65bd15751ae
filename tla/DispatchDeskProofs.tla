------------------------- MODULE DispatchDeskProofs -------------------------
(***************************************************************************)
(* Proofs about the pages of dispatchers and drivers, for any number of    *)
(* both, of assignments and of old pages, with lost answers or without.    *)
(*                                                                         *)
(* A page is not trusted by any step of the argument: what holds is held   *)
(* by the rows. Only the last assignment can be under way, and its status  *)
(* is the one that goes with the status of the shipment (LastFits); a      *)
(* command that finds the shipment in the status it needs therefore finds  *)
(* the assignment it means.                                                *)
(***************************************************************************)
EXTENDS DispatchDesk, FiniteSetTheorems, SequenceTheorems, TLAPS

-----------------------------------------------------------------------------
(* The inductive invariant *)

Over == {"REJECTED", "CANCELLED", "FAILED"}

ShipRow == [stage : {"PICKUP", "DELIVERY"}, status : Statuses, tasks : Seq(Task),
            failures : Nat, decisions : Nat]

(* The status of the last assignment that goes with one of the shipment. *)
LastStatus(status) ==
    IF status \in {"PICKUP_ASSIGNED", "DELIVERY_ASSIGNED"} THEN {"PENDING"}
    ELSE IF status \in {"PICKUP_IN_PROGRESS", "OUT_FOR_DELIVERY"} THEN {"ACCEPTED"}
    ELSE IF status \in {"PICKED_UP", "DELIVERED"} THEN {"COMPLETED"}
    ELSE Over

Bare(status) == LastStatus(status) = Over

LastFits(s) ==
    /\ \A i \in 1 .. Len(s.tasks) :
         IF i = Len(s.tasks) THEN s.tasks[i].status \in LastStatus(s.status)
         ELSE s.tasks[i].status \in Over
    /\ s.tasks = <<>> => Bare(s.status)

(* Each failure has been decided, but for the one that stands. *)
Decided(s) ==
    s.failures = s.decisions + (IF s.status = "DELIVERY_FAILED" THEN 1 ELSE 0)

ShipOK(s) == s \in ShipRow /\ LastFits(s) /\ Decided(s)

Calls == {NoCall} \cup [kind : DeskKinds, driver : Drivers \cup {None}]
DeskRow == [online : BOOLEAN, pushed : BOOLEAN, stale : BOOLEAN, missed : BOOLEAN,
            seen : Summary, selected : Drivers \cup {None}, call : Calls]
PhoneRow == [task : Nat, seen : TaskStatuses \cup {None}, calls : SUBSET Commands]

PhoneOK(p) == /\ p.task <= Len(ship.tasks)
              /\ p.calls # {} => p.task # 0

PagesOK == /\ desk \in [Dispatchers -> DeskRow]
           /\ phone \in [Drivers -> PhoneRow]
           /\ \A d \in Drivers : PhoneOK(phone[d])

Inv == ShipOK(ship) /\ free \in SUBSET Drivers /\ PagesOK

-----------------------------------------------------------------------------
(* Assignments *)

LEMMA Tasks ==
    ASSUME NEW s \in ShipRow
    PROVE  /\ s.tasks \in Seq(Task) /\ Len(s.tasks) \in Nat /\ DOMAIN s.tasks = 1 .. Len(s.tasks)
           /\ \A i \in 1 .. Len(s.tasks) : s.tasks[i] \in Task
BY DEF ShipRow

(* Nobody holds a shipment whose assignments are all over; else only the    *)
(* last one can be held.                                                    *)
LEMMA HoldersLast ==
    ASSUME NEW s, ShipOK(s)
    PROVE  /\ Holders(s) \subseteq {Len(s.tasks)} /\ Holders(s) \subseteq 1 .. Len(s.tasks)
           /\ Bare(s.status) => Holders(s) = {} /\ \A i \in 1 .. Len(s.tasks) : s.tasks[i].status \in Over
<1>1. Len(s.tasks) \in Nat /\ DOMAIN s.tasks = 1 .. Len(s.tasks)
  BY Tasks DEF ShipOK
<1>2. ASSUME NEW i \in 1 .. Len(s.tasks), i # Len(s.tasks) \/ Bare(s.status)
      PROVE  s.tasks[i].status \in Over
  BY <1>1, <1>2 DEF ShipOK, LastFits, Bare
<1>3. \A i \in 1 .. Len(s.tasks) : s.tasks[i].status \in Over => ~IsActive(s.tasks[i])
  BY DEF IsActive, Over
<1> QED
  BY <1>1, <1>2, <1>3 DEF Holders

LEMMA ToFacts ==
    ASSUME ShipOK(ship), NEW status \in Statuses
    PROVE  /\ To(status) \in ShipRow /\ To(status).status = status /\ To(status).tasks = ship.tasks
           /\ To(status).failures = ship.failures /\ To(status).decisions = ship.decisions
           /\ To(status).stage = ship.stage
BY DEF To, ShipOK, ShipRow

LEMMA GivenFacts ==
    ASSUME ShipOK(ship), NEW status \in Statuses, NEW d \in Drivers
    PROVE  /\ Given(d, status) \in ShipRow /\ Given(d, status).status = status
           /\ Given(d, status).tasks = Append(ship.tasks, [driver |-> d, status |-> "PENDING"])
           /\ Given(d, status).failures = ship.failures /\ Given(d, status).decisions = ship.decisions
<1>1. PICK s \in ShipRow : s = To(status)
  BY ToFacts
<1>2. /\ s.status = status /\ s.tasks = ship.tasks
      /\ s.failures = ship.failures /\ s.decisions = ship.decisions
  BY <1>1, ToFacts
<1>3. PICK t \in Task : t = [driver |-> d, status |-> "PENDING"]
  BY DEF Task, TaskStatuses
<1>4. PICK ts : ts = Append(s.tasks, t)
  OBVIOUS
<1>5. ts \in Seq(Task)
  BY <1>4, Tasks
<1>6. Given(d, status) = [s EXCEPT !.tasks = ts]
  BY <1>1, <1>3, <1>4 DEF Given
<1> QED
  BY <1>2, <1>3, <1>4, <1>5, <1>6 DEF ShipRow

(* An assignment given while all others are over.                           *)
LEMMA GivenFits ==
    ASSUME ShipOK(ship), NEW status \in {"PICKUP_ASSIGNED", "DELIVERY_ASSIGNED"}, NEW d \in Drivers,
           Bare(ship.status), ship.status # "DELIVERY_FAILED"
    PROVE  ShipOK(Given(d, status)) /\ Len(Given(d, status).tasks) = Len(ship.tasks) + 1
<1>1. status \in Statuses
  BY DEF Statuses
<1>2. PICK s \in ShipRow : s = Given(d, status)
  BY <1>1, GivenFacts
<1>3. PICK t \in Task : t = [driver |-> d, status |-> "PENDING"]
  BY DEF Task, TaskStatuses
<1>4. /\ s.status = status /\ s.tasks = Append(ship.tasks, t)
      /\ s.failures = ship.failures /\ s.decisions = ship.decisions
  BY <1>1, <1>2, <1>3, GivenFacts
<1>5. /\ Len(ship.tasks) \in Nat /\ ship.tasks \in Seq(Task)
      /\ \A i \in 1 .. Len(ship.tasks) : ship.tasks[i].status \in Over
  BY Tasks, HoldersLast DEF ShipOK
<1>6. /\ Len(s.tasks) = Len(ship.tasks) + 1 /\ s.tasks[Len(s.tasks)] = t
      /\ \A i \in 1 .. Len(ship.tasks) : s.tasks[i] = ship.tasks[i]
      /\ s.tasks # <<>>
  BY <1>4, <1>5
<1>7. t.status \in LastStatus(s.status)
  BY <1>3, <1>4 DEF LastStatus
<1>8. LastFits(s)
  <2>1. PICK n \in Nat : n = Len(ship.tasks)
    BY <1>5
  <2>2. \A i \in 1 .. n + 1 : i = n + 1 \/ i \in 1 .. n
    OBVIOUS
  <2>3. Len(s.tasks) = n + 1 /\ \A i \in 1 .. n : s.tasks[i].status \in Over /\ i # n + 1
    BY <1>5, <1>6, <2>1
  <2> QED
    BY <1>6, <1>7, <2>2, <2>3 DEF LastFits
<1>9. Decided(s)
  BY <1>4 DEF ShipOK, Decided
<1> QED
  BY <1>2, <1>6, <1>8, <1>9 DEF ShipOK

(* An assignment given in the place of the one under way.                   *)
LEMMA ReplacedFits ==
    ASSUME ShipOK(ship), NEW d \in Drivers, ship.status \in {"PICKUP_ASSIGNED", "PICKUP_IN_PROGRESS"},
           NEW r, r = [Given(d, "PICKUP_ASSIGNED") EXCEPT !.tasks =
                         [i \in DOMAIN @ |-> IF i \in Holders(ship) THEN [@[i] EXCEPT !.status = "CANCELLED"]
                                            ELSE @[i]]]
    PROVE  ShipOK(r) /\ Len(r.tasks) = Len(ship.tasks) + 1
<1>1. PICK s \in ShipRow : s = Given(d, "PICKUP_ASSIGNED")
  BY GivenFacts DEF Statuses
<1>2. PICK t \in Task : t = [driver |-> d, status |-> "PENDING"]
  BY DEF Task, TaskStatuses
<1>3. /\ s.status = "PICKUP_ASSIGNED" /\ s.tasks = Append(ship.tasks, t)
      /\ s.failures = ship.failures /\ s.decisions = ship.decisions
  BY <1>1, <1>2, GivenFacts DEF Statuses
<1>4. PICK n \in Nat : n = Len(ship.tasks)
  BY Tasks DEF ShipOK
<1>5. /\ \A i \in 1 .. n : ship.tasks[i] \in Task /\ s.tasks[i] = ship.tasks[i]
      /\ Len(s.tasks) = n + 1 /\ s.tasks[n + 1] = t /\ DOMAIN s.tasks = 1 .. n + 1
      /\ Holders(ship) \subseteq 1 .. n
  BY <1>3, <1>4, Tasks, HoldersLast DEF ShipOK
<1>6. PICK ts : ts = [i \in 1 .. n + 1 |-> IF i \in Holders(ship) THEN [s.tasks[i] EXCEPT !.status = "CANCELLED"]
                                         ELSE s.tasks[i]]
  OBVIOUS
<1>7. r = [s EXCEPT !.tasks = ts]
  BY <1>1, <1>5, <1>6
<1>8. ASSUME NEW x \in Task
      PROVE  [x EXCEPT !.status = "CANCELLED"] \in Task /\ [x EXCEPT !.status = "CANCELLED"].status = "CANCELLED"
  BY DEF Task, TaskStatuses
<1>9. ASSUME NEW i \in 1 .. n PROVE ts[i] \in Task /\ ts[i].status \in Over
  <2>1. PICK x \in Task : x = ship.tasks[i] /\ x = s.tasks[i]
    BY <1>5
  <2>2. CASE i \in Holders(ship)
    <3>1. ts[i] = [x EXCEPT !.status = "CANCELLED"]
      BY <1>6, <2>1, <2>2
    <3> QED
      BY <1>8, <3>1 DEF Over
  <2>3. CASE i \notin Holders(ship)
    <3>1. ts[i] = x
      BY <1>6, <2>1, <2>3
    <3>2. ~IsActive(x)
      BY <1>4, <2>1, <2>3, Tasks DEF Holders, ShipOK
    <3>3. i # n => x.status \in Over
      BY <1>4, <2>1 DEF ShipOK, LastFits
    <3>4. i = n => x.status \in {"PENDING", "ACCEPTED"}
      BY <1>4, <2>1 DEF ShipOK, LastFits, LastStatus
    <3> QED
      BY <3>1, <3>2, <3>3, <3>4 DEF IsActive
  <2> QED
    BY <2>2, <2>3
<1>10. ts[n + 1] = t
  BY <1>4, <1>5, <1>6
<1>11. ts \in Seq(Task) /\ Len(ts) = n + 1 /\ ts # <<>>
  <2>1. \A i \in 1 .. n + 1 : i \in 1 .. n \/ i = n + 1
    OBVIOUS
  <2>2. \A i \in 1 .. n + 1 : ts[i] \in Task
    BY <1>9, <1>10, <2>1
  <2>3. ts \in [1 .. n + 1 -> Task]
    BY <1>6, <2>2
  <2> QED
    BY <2>3
<1>12. /\ r \in ShipRow /\ r.tasks = ts /\ r.status = "PICKUP_ASSIGNED"
       /\ r.failures = ship.failures /\ r.decisions = ship.decisions
  BY <1>3, <1>7, <1>11 DEF ShipRow
<1>13. t.status \in LastStatus(r.status)
  BY <1>2, <1>12 DEF LastStatus
<1>14. LastFits(r)
  <2>1. \A i \in 1 .. n + 1 : i \in 1 .. n \/ i = n + 1
    OBVIOUS
  <2>2. \A i \in 1 .. n + 1 : IF i = n + 1 THEN ts[i].status \in LastStatus(r.status)
                             ELSE ts[i].status \in Over
    BY <1>9, <1>10, <1>13, <2>1
  <2> QED
    BY <1>11, <1>12, <2>2 DEF LastFits
<1>15. Decided(r)
  BY <1>12 DEF ShipOK, Decided
<1> QED
  BY <1>4, <1>11, <1>12, <1>14, <1>15 DEF ShipOK

(* The shipment moves on between two statuses without a task under way.     *)
LEMMA MovesOn ==
    ASSUME ShipOK(ship), NEW status \in Statuses, Bare(ship.status), Bare(status),
           NEW n \in {0, 1}, n = IF ship.status = "DELIVERY_FAILED" THEN 1 ELSE 0,
           status # "DELIVERY_FAILED",
           NEW r, r = [To(status) EXCEPT !.decisions = @ + n]
    PROVE  ShipOK(r) /\ r.tasks = ship.tasks
<1>1. PICK s \in ShipRow : s = To(status)
  BY ToFacts
<1>2. /\ s.status = status /\ s.tasks = ship.tasks
      /\ s.failures = ship.failures /\ s.decisions = ship.decisions
  BY <1>1, ToFacts
<1>3. ship.failures \in Nat /\ ship.decisions \in Nat
  BY DEF ShipOK, ShipRow
<1>4. /\ r \in ShipRow /\ r.status = status /\ r.tasks = ship.tasks
      /\ r.failures = ship.failures /\ r.decisions = ship.decisions + n
  BY <1>1, <1>2, <1>3 DEF ShipRow
<1>5. LastFits(r)
  BY <1>4 DEF ShipOK, LastFits, Bare
<1>6. Decided(r)
  BY <1>3, <1>4 DEF ShipOK, Decided
<1> QED
  BY <1>4, <1>5, <1>6 DEF ShipOK

(* A command that is not refused leaves a shipment in order, and unless it  *)
(* is a reassignment the shipment changes hands at most with nobody.        *)
LEMMA CommandKeeps ==
    ASSUME ShipOK(ship), free \in SUBSET Drivers, NEW kind \in DeskKinds, NEW d,
           After(kind, d) # None
    PROVE  /\ ShipOK(After(kind, d)) /\ Len(ship.tasks) <= Len(After(kind, d).tasks)
           /\ kind = "reassign" \/ Holders(ship) = {} \/ After(kind, d).tasks = ship.tasks
<1>1. Len(ship.tasks) \in Nat
  BY Tasks DEF ShipOK
<1>2. CASE kind = "confirm"
  <2>1. After(kind, d) = Confirmed
    BY <1>2 DEF After
  <2>2. CASE ship.status = "PENDING"
    <3>1. PICK r : r = [To("AWAITING_PICKUP_ASSIGNMENT") EXCEPT !.decisions = @ + 0]
      OBVIOUS
    <3>2. r = To("AWAITING_PICKUP_ASSIGNMENT")
      BY <3>1, ToFacts DEF ShipRow, Statuses
    <3>3. ShipOK(r) /\ r.tasks = ship.tasks
      BY <2>2, <3>1, MovesOn DEF Statuses, Bare, LastStatus
    <3> QED
      BY <1>1, <2>1, <2>2, <3>2, <3>3 DEF Confirmed
  <2> QED
    BY <1>1, <2>1, <2>2 DEF Confirmed
<1>3. CASE kind = "assign"
  <2>1. After(kind, d) = Assigned(d)
    BY <1>3 DEF After
  <2>2. /\ ship.status = "AWAITING_PICKUP_ASSIGNMENT" /\ d \in Drivers /\ Holders(ship) = {}
        /\ After(kind, d) = Given(d, "PICKUP_ASSIGNED")
    BY <2>1 DEF Assigned
  <2> QED
    BY <1>1, <2>2, GivenFits DEF Bare, LastStatus
<1>4. CASE kind = "assignDelivery"
  <2>1. After(kind, d) = DeliveryAssigned(d)
    BY <1>4 DEF After
  <2>2. /\ ship.status = "AWAITING_DELIVERY_ASSIGNMENT" /\ d \in Drivers
        /\ After(kind, d) = Given(d, "DELIVERY_ASSIGNED")
    BY <2>1 DEF DeliveryAssigned
  <2> QED
    BY <1>1, <2>2, GivenFits, HoldersLast DEF Bare, LastStatus
<1>5. CASE kind = "reassign"
  <2>1. After(kind, d) = Reassigned(d)
    BY <1>5 DEF After
  <2>2. /\ ship.status \in {"PICKUP_ASSIGNED", "PICKUP_IN_PROGRESS"} /\ d \in Drivers
    BY <2>1 DEF Reassigned
  <2>3. PICK r : r = [Given(d, "PICKUP_ASSIGNED") EXCEPT !.tasks =
                        [i \in DOMAIN @ |-> IF i \in Holders(ship) THEN [@[i] EXCEPT !.status = "CANCELLED"]
                                           ELSE @[i]]]
    OBVIOUS
  <2>4. After(kind, d) = r
    BY <2>1, <2>3 DEF Reassigned
  <2>5. ShipOK(r) /\ Len(r.tasks) = Len(ship.tasks) + 1
    BY <2>2, <2>3, ReplacedFits
  <2> QED
    BY <1>1, <1>5, <2>4, <2>5
<1>6. CASE kind = "redeliver"
  <2>1. After(kind, d) = Redelivered
    BY <1>6 DEF After
  <2>2. CASE ship.status = "DELIVERY_FAILED"
    <3>1. PICK r : r = [To("AWAITING_DELIVERY_ASSIGNMENT") EXCEPT !.decisions = @ + 1]
      OBVIOUS
    <3>2. ShipOK(r) /\ r.tasks = ship.tasks
      BY <2>2, <3>1, MovesOn DEF Statuses, Bare, LastStatus
    <3> QED
      BY <1>1, <2>1, <2>2, <3>1, <3>2 DEF Redelivered
  <2> QED
    BY <1>1, <2>1, <2>2 DEF Redelivered
<1>7. CASE kind = "return"
  <2>1. After(kind, d) = ReturnRequested
    BY <1>7 DEF After
  <2>2. CASE ship.status = "DELIVERY_FAILED"
    <3>1. PICK r : r = [To("RETURN_REQUESTED") EXCEPT !.decisions = @ + 1]
      OBVIOUS
    <3>2. ShipOK(r) /\ r.tasks = ship.tasks
      BY <2>2, <3>1, MovesOn DEF Statuses, Bare, LastStatus
    <3> QED
      BY <1>1, <2>1, <2>2, <3>1, <3>2 DEF ReturnRequested
  <2> QED
    BY <1>1, <2>1, <2>2 DEF ReturnRequested
<1> QED
  BY <1>2, <1>3, <1>4, <1>5, <1>6, <1>7 DEF DeskKinds

-----------------------------------------------------------------------------
(* Commands of a driver *)

LEMMA EffectFacts ==
    ASSUME NEW cmd \in Commands
    PROVE  /\ Effect(cmd).from \subseteq {"PENDING", "ACCEPTED"} /\ "DELIVERY_FAILED" \notin Effect(cmd).at
           /\ Effect(cmd).to \in TaskStatuses /\ Effect(cmd).then \in Statuses
           /\ Effect(cmd).to \in LastStatus(Effect(cmd).then)
           /\ cmd = "fail" <=> Effect(cmd).then = "DELIVERY_FAILED"
<1>1. CASE cmd \in {"accept", "reject", "pickup"}
  BY <1>1 DEF Effect, Commands, LastStatus, Over, TaskStatuses, Statuses
<1>2. CASE cmd \in {"start", "complete", "fail"}
  BY <1>2 DEF Effect, Commands, LastStatus, Over, TaskStatuses, Statuses
<1> QED
  BY <1>1, <1>2 DEF Commands

(* A command that finds its task and the shipment as it needs them finds    *)
(* the last assignment.                                                     *)
LEMMA TaskKeeps ==
    ASSUME ShipOK(ship), NEW cmd \in Commands, NEW k \in 1 .. Len(ship.tasks), Allowed(cmd, k)
    PROVE  /\ ShipOK(ShipAfter(cmd, k)) /\ Len(ShipAfter(cmd, k).tasks) = Len(ship.tasks)
           /\ k \in Holders(ship)
           /\ \A i \in 1 .. Len(ship.tasks) : ShipAfter(cmd, k).tasks[i].driver = ship.tasks[i].driver
<1>1. PICK n \in Nat : n = Len(ship.tasks)
  BY Tasks DEF ShipOK
<1>2. PICK e : e = Effect(cmd)
  OBVIOUS
<1>3. /\ e.from \subseteq {"PENDING", "ACCEPTED"} /\ "DELIVERY_FAILED" \notin e.at
      /\ e.to \in TaskStatuses /\ e.then \in Statuses /\ e.to \in LastStatus(e.then)
      /\ cmd = "fail" <=> e.then = "DELIVERY_FAILED"
  BY <1>2, EffectFacts
<1>4. ship.tasks[k].status \in {"PENDING", "ACCEPTED"} /\ ship.status # "DELIVERY_FAILED"
  BY <1>2, <1>3 DEF Allowed
<1>5. k = n
  BY <1>1, <1>4 DEF ShipOK, LastFits, Over
<1>6. k \in Holders(ship)
  BY <1>4, Tasks DEF Holders, IsActive, ShipOK
<1>7. PICK s \in ShipRow : s = To(e.then)
  BY <1>3, ToFacts
<1>8. /\ s.status = e.then /\ s.tasks = ship.tasks
      /\ s.failures = ship.failures /\ s.decisions = ship.decisions
  BY <1>3, <1>7, ToFacts
<1>9. PICK x \in Task : x = s.tasks[k]
  BY <1>8, Tasks DEF ShipOK
<1>10. PICK y : y = [x EXCEPT !.status = e.to]
  OBVIOUS
<1>11. y \in Task /\ y.status = e.to /\ y.driver = x.driver
  BY <1>3, <1>9, <1>10 DEF Task
<1>12. PICK ts : ts = [s.tasks EXCEPT ![k] = y]
  OBVIOUS
<1>13. PICK f : f = IF cmd = "fail" THEN s.failures + 1 ELSE s.failures
  OBVIOUS
<1>14. ShipAfter(cmd, k) = [s EXCEPT !.tasks = ts, !.failures = f]
  BY <1>2, <1>7, <1>9, <1>10, <1>12, <1>13 DEF ShipAfter
<1>15. PICK r : r = [s EXCEPT !.tasks = ts, !.failures = f]
  OBVIOUS
<1>16. ship.tasks \in Seq(Task) /\ ship.failures \in Nat /\ ship.decisions \in Nat
  BY Tasks DEF ShipOK, ShipRow
<1>17. /\ ts \in Seq(Task) /\ Len(ts) = n /\ ts[k] = y /\ ts # <<>>
       /\ \A i \in 1 .. n : i # k => ts[i] = ship.tasks[i]
  BY <1>1, <1>8, <1>11, <1>12, <1>16
<1>18. f \in Nat
  BY <1>8, <1>13, <1>16
<1>19. /\ r \in ShipRow /\ r.tasks = ts /\ r.status = e.then /\ r.failures = f
       /\ r.decisions = ship.decisions
  BY <1>7, <1>8, <1>15, <1>17, <1>18 DEF ShipRow
<1>20. LastFits(r)
  <2>1. \A i \in 1 .. n : i # n => ship.tasks[i].status \in Over
    BY <1>1 DEF ShipOK, LastFits
  <2> QED
    BY <1>3, <1>5, <1>11, <1>17, <1>19, <2>1 DEF LastFits
<1>21. Decided(r)
  <2>1. ship.failures = ship.decisions
    BY <1>4, <1>16 DEF ShipOK, Decided
  <2> QED
    BY <1>3, <1>8, <1>13, <1>16, <1>19, <2>1 DEF Decided
<1>22. \A i \in 1 .. n : r.tasks[i].driver = ship.tasks[i].driver
  BY <1>8, <1>9, <1>11, <1>17, <1>19
<1> QED
  BY <1>1, <1>6, <1>14, <1>15, <1>17, <1>19, <1>20, <1>21, <1>22 DEF ShipOK

-----------------------------------------------------------------------------
(* Steps *)

(* Whoever held the shipment, or nobody, holds it after the step.           *)
Gives(s) == HolderOf(ship) # {} /\ HolderOf(s) # {} => HolderOf(s) = HolderOf(ship)

LEMMA FreeKept ==
    ASSUME ShipOK(ship), free \in SUBSET Drivers, NEW s
    PROVE  FreeAfter(s) \in SUBSET Drivers
<1>1. \A i \in Holders(ship) : ship.tasks[i].driver \in Drivers
  BY HoldersLast, Tasks DEF ShipOK, Task
<1> QED
  BY <1>1 DEF FreeAfter

LEMMA Shown ==
    ASSUME ShipOK(ship)
    PROVE  toOperationalShipment(ship) \in Summary
<1>1. ship.status \in Statuses
  BY DEF ShipOK, ShipRow
<1>2. ship.tasks # <<>> => ship.tasks[Len(ship.tasks)].driver \in Drivers
  BY Tasks DEF ShipOK, Task
<1> QED
  BY <1>1, <1>2 DEF toOperationalShipment, Summary

(* A page changes and the rows do not.                                      *)
LEMMA PageStep ==
    ASSUME Inv, NEW u \in Dispatchers, NEW row \in DeskRow, Page(u, row)
    PROVE  Inv' /\ ship' = ship
<1>1. desk' \in [Dispatchers -> DeskRow]
  BY DEF Page, Inv, PagesOK
<1> QED
  BY <1>1 DEF Page, Inv, PagesOK, PhoneOK, ShipOK, LastFits, Decided

(* What the dispatchers do short of a command, and what their sockets do.   *)
LEMMA PagesKeep ==
    ASSUME Inv, NEW u \in Dispatchers,
           \/ \E d \in Drivers : Select(u, d)
           \/ \E kind \in DeskKinds : Press(u, kind)
           \/ Fetch(u) \/ Focus(u) \/ Push(u) \/ Drop(u) \/ Disconnect(u) \/ Connect(u)
    PROVE  Inv' /\ ship' = ship
<1>1. PICK p \in DeskRow : p = desk[u]
  BY DEF Inv, PagesOK
<1>2. toOperationalShipment(ship) \in Summary
  BY Shown DEF Inv
<1>3. SUFFICES \E row \in DeskRow : Page(u, row)
  BY PageStep
<1>4. ASSUME NEW d \in Drivers, Select(u, d) PROVE \E row \in DeskRow : Page(u, row)
  <2>1. PICK row : row = [p EXCEPT !.selected = d]
    OBVIOUS
  <2> QED
    BY <1>1, <1>4, <2>1 DEF Select, DeskRow
<1>5. ASSUME NEW kind \in DeskKinds, Press(u, kind) PROVE \E row \in DeskRow : Page(u, row)
  <2>1. PICK c : c = [kind |-> kind, driver |-> p.selected]
    OBVIOUS
  <2>2. c \in Calls
    BY <1>1, <2>1 DEF Calls, DeskRow
  <2>3. PICK row : row = [p EXCEPT !.call = c]
    OBVIOUS
  <2>4. row \in DeskRow
    BY <2>2, <2>3 DEF DeskRow
  <2> QED
    BY <1>1, <1>5, <2>1, <2>3, <2>4 DEF Press
<1>6. CASE Fetch(u)
  <2>1. PICK row : row = [p EXCEPT !.stale = FALSE, !.missed = FALSE, !.seen = toOperationalShipment(ship)]
    OBVIOUS
  <2>2. row \in DeskRow
    BY <1>2, <2>1 DEF DeskRow
  <2> QED
    BY <1>1, <1>6, <2>1, <2>2 DEF Fetch
<1>7. CASE Focus(u)
  <2>1. PICK row : row = [p EXCEPT !.missed = FALSE, !.seen = toOperationalShipment(ship)]
    OBVIOUS
  <2>2. row \in DeskRow
    BY <1>2, <2>1 DEF DeskRow
  <2> QED
    BY <1>1, <1>7, <2>1, <2>2 DEF Focus
<1>8. ASSUME NEW row \in DeskRow PROVE refreshOperations(u, row) \in DeskRow
  BY DEF refreshOperations, DeskRow
<1>9. CASE Push(u)
  <2>1. PICK row : row = [p EXCEPT !.pushed = FALSE]
    OBVIOUS
  <2>2. row \in DeskRow
    BY <2>1 DEF DeskRow
  <2> QED
    BY <1>1, <1>8, <1>9, <2>1, <2>2 DEF Push
<1>10. CASE Drop(u)
  <2>1. PICK row : row = [p EXCEPT !.call = NoCall]
    OBVIOUS
  <2>2. row \in DeskRow
    BY <2>1 DEF DeskRow, Calls
  <2> QED
    BY <1>1, <1>10, <2>1, <2>2 DEF Drop
<1>11. CASE Disconnect(u)
  <2>1. PICK row : row = [p EXCEPT !.online = FALSE, !.pushed = FALSE]
    OBVIOUS
  <2>2. row \in DeskRow
    BY <2>1 DEF DeskRow
  <2> QED
    BY <1>1, <1>11, <2>1, <2>2 DEF Disconnect
<1>12. CASE Connect(u)
  <2>1. PICK row : row = [p EXCEPT !.online = TRUE]
    OBVIOUS
  <2>2. row \in DeskRow
    BY <2>1 DEF DeskRow
  <2> QED
    BY <1>1, <1>8, <1>12, <2>1, <2>2 DEF Connect
<1> QED
  BY <1>4, <1>5, <1>6, <1>7, <1>9, <1>10, <1>11, <1>12

(* A page that is behind sends its command: the rows decide.                *)
LEMMA RunKeeps ==
    ASSUME Inv, NEW u \in Dispatchers, NEW answered \in BOOLEAN, Run(u, answered)
    PROVE  Inv' /\ AssignGives
<1>1. PICK p \in DeskRow : p = desk[u]
  BY DEF Inv, PagesOK
<1>2. p.call # NoCall /\ p.call.kind \in DeskKinds
  BY <1>1 DEF Run, DeskRow, Calls
<1>3. PICK result : result = After(p.call.kind, p.call.driver)
  OBVIOUS
<1>4. PICK s : s = IF result = None THEN ship ELSE result
  OBVIOUS
<1>5. /\ ship' = s /\ free' = FreeAfter(s) /\ phone' = phone
      /\ desk' = [desk EXCEPT ![u].call = NoCall, ![u].stale = @ \/ (answered /\ result # None)]
  BY <1>1, <1>3, <1>4 DEF Run
<1>6. Len(ship.tasks) \in Nat
  BY Tasks DEF Inv, ShipOK
<1>7. /\ ShipOK(s) /\ Len(ship.tasks) <= Len(s.tasks)
      /\ p.call.kind = "reassign" \/ Holders(ship) = {} \/ s.tasks = ship.tasks
  <2>1. CASE result = None
    BY <1>4, <1>6, <2>1 DEF Inv
  <2>2. CASE result # None
    BY <1>2, <1>3, <1>4, <2>2, CommandKeeps DEF Inv
  <2> QED
    BY <2>1, <2>2
<1>8. PICK row : row = [p EXCEPT !.call = NoCall, !.stale = @ \/ (answered /\ result # None)]
  OBVIOUS
<1>9. row \in DeskRow /\ row.call = NoCall
  BY <1>8 DEF DeskRow, Calls
<1>10. desk' = [desk EXCEPT ![u] = row]
  BY <1>1, <1>5, <1>8 DEF Inv, PagesOK
<1>11. desk' \in [Dispatchers -> DeskRow] /\ desk'[u] = row
  BY <1>9, <1>10 DEF Inv, PagesOK
<1>12. ASSUME NEW d \in Drivers PROVE PhoneOK(phone[d])'
  <2>1. phone[d].task \in Nat /\ PhoneOK(phone[d])
    BY DEF Inv, PagesOK, PhoneRow
  <2>2. Len(s.tasks) \in Nat
    BY <1>7, Tasks DEF ShipOK
  <2> QED
    BY <1>5, <1>6, <1>7, <2>1, <2>2 DEF PhoneOK
<1>13. Inv'
  <2>1. ShipOK(ship)'
    BY <1>5, <1>7 DEF ShipOK, LastFits, Decided
  <2>2. free' \in SUBSET Drivers
    BY <1>5, FreeKept DEF Inv
  <2> QED
    BY <1>5, <1>11, <1>12, <2>1, <2>2 DEF Inv, PagesOK
<1>14. AssignGives
  <2>1. CASE p.call.kind = "reassign"
    BY <1>1, <1>2, <1>9, <1>11, <2>1 DEF AssignGives
  <2>2. CASE Holders(ship) = {}
    BY <2>2 DEF AssignGives, HolderOf
  <2>3. CASE s.tasks = ship.tasks
    BY <1>5, <2>3 DEF AssignGives, HolderOf, Holders
  <2> QED
    BY <1>7, <2>1, <2>2, <2>3
<1> QED
  BY <1>13, <1>14

(* A page of a driver changes and the rows do not.                          *)
LEMMA PhoneStays ==
    ASSUME Inv, NEW d \in Drivers, NEW row \in PhoneRow, PhoneOK(row),
           phone' = [phone EXCEPT ![d] = row], UNCHANGED <<ship, free, desk>>
    PROVE  Inv' /\ ship' = ship
<1>1. phone' \in [Drivers -> PhoneRow]
  BY DEF Inv, PagesOK
<1>2. ASSUME NEW e \in Drivers PROVE phone'[e].task <= Len(ship.tasks) /\ (phone'[e].calls # {} => phone'[e].task # 0)
  BY DEF Inv, PagesOK, PhoneOK
<1>3. \A e \in Drivers : PhoneOK(phone[e])'
  BY <1>2 DEF PhoneOK
<1> QED
  BY <1>1, <1>3 DEF Inv, PagesOK, ShipOK, LastFits, Decided

LEMMA OpenKeeps ==
    ASSUME Inv, NEW d \in Drivers, NEW i \in DOMAIN ship.tasks, Open(d, i)
    PROVE  Inv' /\ ship' = ship
<1>1. PICK p \in PhoneRow : p = phone[d]
  BY DEF Inv, PagesOK
<1>2. i \in 1 .. Len(ship.tasks) /\ Len(ship.tasks) \in Nat /\ ship.tasks[i].status \in TaskStatuses
  BY Tasks DEF Inv, ShipOK, Task
<1>3. PICK row : row = [p EXCEPT !.task = i, !.seen = ship.tasks[i].status]
  OBVIOUS
<1>4. row \in PhoneRow /\ row.task = i
  <2>1. PICK k \in Nat : k = i
    BY <1>2
  <2>2. PICK status \in TaskStatuses : status = ship.tasks[i].status
    BY <1>2
  <2> QED
    BY <1>3, <2>1, <2>2 DEF PhoneRow
<1>5. PhoneOK(row)
  BY <1>2, <1>4 DEF PhoneOK
<1>6. phone' = [phone EXCEPT ![d] = row]
  BY <1>1, <1>3 DEF Open, Inv, PagesOK
<1> QED
  BY <1>4, <1>5, <1>6, PhoneStays DEF Open

LEMMA TapKeeps ==
    ASSUME Inv, NEW d \in Drivers, NEW cmd \in Commands, Tap(d, cmd)
    PROVE  Inv' /\ ship' = ship
<1>1. PICK p \in PhoneRow : p = phone[d] /\ PhoneOK(p)
  BY DEF Inv, PagesOK
<1>2. PICK row : row = [p EXCEPT !.calls = @ \cup {cmd}]
  OBVIOUS
<1>3. row \in PhoneRow /\ row.task = p.task
  BY <1>2 DEF PhoneRow
<1>4. PhoneOK(row)
  BY <1>1, <1>3 DEF PhoneOK, Tap
<1>5. phone' = [phone EXCEPT ![d] = row]
  BY <1>1, <1>2 DEF Tap, Inv, PagesOK
<1> QED
  BY <1>3, <1>4, <1>5, PhoneStays DEF Tap

(* A driver's command: on the task the page has open, however it looks now. *)
LEMMA PerformKeeps ==
    ASSUME Inv, NEW d \in Drivers, NEW cmd \in Commands, NEW answered \in BOOLEAN,
           Perform(d, cmd, answered)
    PROVE  Inv' /\ Gives(ship')
<1>1. PICK p \in PhoneRow : p = phone[d] /\ PhoneOK(p)
  BY DEF Inv, PagesOK
<1>2. PICK n \in Nat : n = Len(ship.tasks)
  BY Tasks DEF Inv, ShipOK
<1>3. PICK k \in 1 .. n : k = p.task
  <2>1. p.task \in Nat
    BY DEF PhoneRow
  <2>2. p.task <= n /\ p.task # 0
    BY <1>1, <1>2 DEF Perform, PhoneOK
  <2> QED
    BY <2>1, <2>2
<1>4. PICK now \in BOOLEAN : now = (Allowed(cmd, k) /\ ~Done(cmd, k))
  OBVIOUS
<1>5. PICK s : s = IF now THEN ShipAfter(cmd, k) ELSE ship
  OBVIOUS
<1>6. PICK ok \in BOOLEAN : ok = (answered /\ (now \/ Done(cmd, k)))
  OBVIOUS
<1>7. /\ ship' = s /\ free' = FreeAfter(s)
      /\ desk' = [u \in Dispatchers |->
               [desk[u] EXCEPT !.missed = @ \/ (now /\ cmd = "reject"),
                               !.pushed = @ \/ (now /\ NotifiesDispatchers(cmd) /\ desk[u].online)]]
      /\ phone' = [phone EXCEPT ![d].calls = @ \ {cmd},
                         ![d].seen = IF ok THEN s.tasks[k].status ELSE @]
  BY <1>1, <1>3, <1>4, <1>5, <1>6 DEF Perform
<1>8. /\ ShipOK(s) /\ Len(s.tasks) = n
      /\ s = ship \/ (Holders(ship) = {n} /\ s.tasks[n].driver = ship.tasks[n].driver)
  <2>1. CASE now
    <3>1. /\ ShipOK(s) /\ Len(s.tasks) = n /\ k \in Holders(ship)
          /\ \A i \in 1 .. n : s.tasks[i].driver = ship.tasks[i].driver
      BY <1>2, <1>3, <1>4, <1>5, <2>1, TaskKeeps DEF Inv
    <3>2. Holders(ship) \subseteq {n}
      BY <1>2, HoldersLast DEF Inv
    <3> QED
      BY <1>3, <3>1, <3>2
  <2>2. CASE ~now
    BY <1>2, <1>5, <2>2 DEF Inv
  <2> QED
    BY <2>1, <2>2
<1>9. desk' \in [Dispatchers -> DeskRow]
  <2>1. ASSUME NEW u \in Dispatchers PROVE desk'[u] \in DeskRow
    <3>1. PICK q \in DeskRow : q = desk[u]
      BY DEF Inv, PagesOK
    <3>2. PICK row : row = [q EXCEPT !.missed = @ \/ (now /\ cmd = "reject"),
                               !.pushed = @ \/ (now /\ NotifiesDispatchers(cmd) /\ q.online)]
      OBVIOUS
    <3>3. row \in DeskRow
      BY <3>2 DEF DeskRow
    <3>4. desk'[u] = row
      BY <1>7, <3>1, <3>2
    <3> QED
      BY <3>3, <3>4
  <2> QED
    BY <1>7, <2>1
<1>10. PICK row : row = [p EXCEPT !.calls = @ \ {cmd}, !.seen = IF ok THEN s.tasks[k].status ELSE @]
  OBVIOUS
<1>11. row \in PhoneRow /\ row.task = k
  <2>1. s.tasks[k].status \in TaskStatuses
    BY <1>8, Tasks DEF ShipOK, Task
  <2> QED
    BY <1>3, <1>10, <2>1 DEF PhoneRow
<1>12. phone' = [phone EXCEPT ![d] = row]
  BY <1>1, <1>7, <1>10 DEF Inv, PagesOK
<1>13. /\ phone' \in [Drivers -> PhoneRow] /\ phone'[d] = row
       /\ \A e \in Drivers : e # d => phone'[e] = phone[e]
  BY <1>11, <1>12 DEF Inv, PagesOK
<1>14. ASSUME NEW e \in Drivers PROVE PhoneOK(phone[e])'
  <2>1. Len(ship'.tasks) = n
    BY <1>7, <1>8
  <2>2. CASE e = d
    <3>1. phone'[e].task = k /\ k <= n /\ k # 0
      BY <1>11, <1>13, <2>2
    <3> QED
      BY <2>1, <3>1 DEF PhoneOK
  <2>3. CASE e # d
    <3>1. PhoneOK(phone[e]) /\ phone'[e] = phone[e]
      BY <1>13, <2>3 DEF Inv, PagesOK
    <3> QED
      BY <1>2, <2>1, <3>1 DEF PhoneOK
  <2> QED
    BY <2>2, <2>3
<1>15. Inv'
  <2>1. ShipOK(ship)'
    BY <1>7, <1>8 DEF ShipOK, LastFits, Decided
  <2>2. free' \in SUBSET Drivers
    BY <1>7, FreeKept DEF Inv
  <2> QED
    BY <1>9, <1>13, <1>14, <2>1, <2>2 DEF Inv, PagesOK
<1>16. Gives(s)
  <2>1. CASE s = ship
    BY <2>1 DEF Gives
  <2>2. CASE Holders(ship) = {n} /\ s.tasks[n].driver = ship.tasks[n].driver
    <3>1. Holders(s) \subseteq {n}
      BY <1>8, HoldersLast
    <3>2. CASE Holders(s) = {}
      BY <3>2 DEF Gives, HolderOf
    <3>3. CASE Holders(s) = {n}
      BY <2>2, <3>3 DEF Gives, HolderOf
    <3> QED
      BY <3>1, <3>2, <3>3
  <2> QED
    BY <1>8, <2>1, <2>2
<1> QED
  BY <1>7, <1>15, <1>16

LEMMA WorkElsewhereKeeps ==
    ASSUME Inv, NEW d \in Drivers, WorkElsewhere(d)
    PROVE  Inv' /\ ship' = ship
<1>1. free' \in SUBSET Drivers
  BY DEF WorkElsewhere, Inv
<1> QED
  BY <1>1 DEF WorkElsewhere, Inv, PagesOK, PhoneOK, ShipOK, LastFits, Decided

LEMMA SameShip ==
    ASSUME \/ ship' = ship
           \/ Gives(ship')
    PROVE  AssignGives
BY DEF AssignGives, Gives

-----------------------------------------------------------------------------
(* The invariant *)

LEMMA Start ==
    ASSUME Init
    PROVE  Inv
<1>1. PICK stage \in {"PICKUP", "DELIVERY"} :
        ship = [stage |-> stage,
                status |-> IF stage = "PICKUP" THEN "PENDING" ELSE "AWAITING_DELIVERY_ASSIGNMENT",
                tasks |-> <<>>, failures |-> 0, decisions |-> 0]
  BY DEF Init
<1>2. PICK status \in {"PENDING", "AWAITING_DELIVERY_ASSIGNMENT"} :
        status = IF stage = "PICKUP" THEN "PENDING" ELSE "AWAITING_DELIVERY_ASSIGNMENT"
  OBVIOUS
<1>3. ship = [stage |-> stage, status |-> status, tasks |-> <<>>, failures |-> 0, decisions |-> 0]
  BY <1>1, <1>2
<1>4. ship.status = status /\ ship.tasks = <<>> /\ ship.failures = 0 /\ ship.decisions = 0
  BY <1>3
<1>5. ship \in ShipRow
  BY <1>3 DEF ShipRow, Statuses
<1>6. Len(ship.tasks) = 0
  BY <1>4
<1>7. ShipOK(ship)
  BY <1>4, <1>5, <1>6 DEF ShipOK, LastFits, Decided, Bare, LastStatus
<1>8. desk \in [Dispatchers -> DeskRow]
  <2>1. PICK shown \in Summary : shown = toOperationalShipment(ship)
    BY <1>7, Shown
  <2>2. PICK row : row = [online |-> TRUE, pushed |-> FALSE, stale |-> FALSE, missed |-> FALSE,
                        seen |-> shown, selected |-> None, call |-> NoCall]
    OBVIOUS
  <2>3. row \in DeskRow
    BY <2>2 DEF DeskRow, Calls
  <2>4. desk = [u \in Dispatchers |-> row]
    BY <2>1, <2>2 DEF Init
  <2> QED
    BY <2>3, <2>4
<1>9. phone = [d \in Drivers |-> [task |-> 0, seen |-> None, calls |-> {}]]
  BY DEF Init
<1>10. phone \in [Drivers -> PhoneRow]
  BY <1>9 DEF PhoneRow
<1>11. \A d \in Drivers : PhoneOK(phone[d])
  BY <1>6, <1>9 DEF PhoneOK
<1> QED
  BY <1>7, <1>8, <1>10, <1>11 DEF Init, Inv, PagesOK

LEMMA StepKeeps ==
    ASSUME DeskAssumption, Inv, [Next]_vars
    PROVE  Inv' /\ [AssignGives]_vars
<1>1. ASSUME NEW u \in Dispatchers, DeskStep(u) \/ Loss(u)
      PROVE  Inv' /\ AssignGives
  <2>1. ASSUME NEW answered \in {TRUE, ~Lossy}, Run(u, answered)
        PROVE  Inv' /\ AssignGives
    BY <2>1, RunKeeps DEF DeskAssumption
  <2>2. CASE \/ \E d \in Drivers : Select(u, d)
             \/ \E kind \in DeskKinds : Press(u, kind)
             \/ Fetch(u) \/ Focus(u) \/ Push(u) \/ Drop(u) \/ Disconnect(u) \/ Connect(u)
    BY <2>2, PagesKeep, SameShip
  <2> QED
    BY <1>1, <2>1, <2>2 DEF DeskStep, Loss
<1>2. ASSUME NEW d \in Drivers, PhoneStep(d)
      PROVE  Inv' /\ AssignGives
  <2>1. ASSUME NEW i \in DOMAIN ship.tasks, Open(d, i)
        PROVE  Inv' /\ AssignGives
    BY <2>1, OpenKeeps, SameShip
  <2>2. ASSUME NEW cmd \in Commands, Tap(d, cmd)
        PROVE  Inv' /\ AssignGives
    BY <2>2, TapKeeps, SameShip
  <2>3. ASSUME NEW cmd \in Commands, NEW answered \in {TRUE, ~Lossy}, Perform(d, cmd, answered)
        PROVE  Inv' /\ AssignGives
    BY <2>3, PerformKeeps, SameShip DEF DeskAssumption
  <2>4. CASE WorkElsewhere(d)
    BY <2>4, WorkElsewhereKeeps, SameShip
  <2> QED
    BY <1>2, <2>1, <2>2, <2>3, <2>4 DEF PhoneStep
<1>3. CASE UNCHANGED vars
  BY <1>3 DEF vars, Inv, PagesOK, PhoneOK, ShipOK, LastFits, Decided
<1> QED
  BY <1>1, <1>2, <1>3 DEF Next

(* What the invariant says of the run's state properties.                   *)
LEMMA InvMeans ==
    ASSUME Inv
    PROVE  TypeOK /\ ProofFromHolder /\ FailureDecidedOnce
<1>1. PICK n \in Nat : n = Len(ship.tasks)
  BY Tasks DEF Inv, ShipOK
<1>2. DOMAIN ship.tasks = 1 .. n /\ \A i \in 1 .. n : ship.tasks[i] \in Task
  BY <1>1, Tasks DEF Inv, ShipOK
<1>3. Holders(ship) \subseteq {n}
  BY <1>1, HoldersLast DEF Inv
<1>4. TypeOK
  <2>1. ship.status \in Statuses
    BY DEF Inv, ShipOK, ShipRow
  <2>2. Cardinality(Holders(ship)) <= 1
    <3>1. CASE Holders(ship) = {}
      BY <3>1, FS_EmptySet
    <3>2. CASE Holders(ship) = {n}
      BY <3>2, FS_Singleton
    <3> QED
      BY <1>3, <3>1, <3>2
  <2>3. ASSUME NEW u \in Dispatchers
        PROVE  desk[u].seen \in Summary /\ desk[u].selected \in Drivers \cup {None}
    BY DEF Inv, PagesOK, DeskRow
  <2>4. ASSUME NEW d \in Drivers
        PROVE  phone[d].task \in 0 .. Len(ship.tasks) /\ phone[d].calls \subseteq Commands
    BY <1>1 DEF Inv, PagesOK, PhoneRow, PhoneOK
  <2> QED
    BY <1>2, <2>1, <2>2, <2>3, <2>4 DEF TypeOK, Inv
<1>5. ProofFromHolder
  <2>1. SUFFICES ASSUME NEW i \in 1 .. n, ship.tasks[i].status = "COMPLETED"
                 PROVE  i = n /\ ship.status \in {"PICKED_UP", "DELIVERED"} /\ Holders(ship) = {}
    BY <1>1, <1>2 DEF ProofFromHolder
  <2>2. i = n
    BY <1>1, <2>1 DEF Inv, ShipOK, LastFits, Over
  <2>3. "COMPLETED" \in LastStatus(ship.status)
    BY <1>1, <2>1, <2>2 DEF Inv, ShipOK, LastFits
  <2>4. ship.status \in {"PICKED_UP", "DELIVERED"}
    BY <2>3 DEF LastStatus, Over
  <2>5. n \notin Holders(ship)
    BY <2>1, <2>2 DEF Holders, IsActive
  <2> QED
    BY <1>3, <2>2, <2>4, <2>5
<1>6. FailureDecidedOnce
  <2>1. ship.failures \in Nat /\ ship.decisions \in Nat /\ Decided(ship)
    BY DEF Inv, ShipOK, ShipRow
  <2> QED
    BY <2>1 DEF Decided, FailureDecidedOnce
<1> QED
  BY <1>4, <1>5, <1>6

(* For any number of dispatchers and drivers, of assignments, old pages and *)
(* lost answers: at most one assignment is under way, the proof of a task   *)
(* comes from the driver who held it, a failure is decided once, and only a *)
(* reassignment takes a shipment from one driver for another.               *)
THEOREM TasksAreAsAssigned ==
    ASSUME DeskAssumption
    PROVE  Spec => TaskAsAssigned
<1>1. Init => Inv
  BY Start
<1>2. Inv /\ [Next]_vars => Inv' /\ [AssignGives]_vars
  BY StepKeeps
<1>3. Inv => TypeOK /\ ProofFromHolder /\ FailureDecidedOnce
  BY InvMeans
<1> QED
  BY <1>1, <1>2, <1>3, PTL DEF Spec, TaskAsAssigned, AssignTakesNothing
=============================================================================
