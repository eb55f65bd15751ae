---------------------- MODULE NotificationOutboxProofs ----------------------
(***************************************************************************)
(* Proofs about the notification outbox, for any notifications, worker     *)
(* slots, batch size, number of attempts and number of faults.             *)
(*                                                                         *)
(* Why a mail is doubled by a fault only: a slot that works on a mail      *)
(* without holding its job has lost the job by a fault, and that fault is  *)
(* not yet accounted for while the slot may still send (Exposed). A slot   *)
(* that holds the job is the only one that does, and after it has sent, the*)
(* mail is recorded, or a fault has come in between (Settled).             *)
(***************************************************************************)
EXTENDS NotificationOutbox, FiniteSetTheorems, TLAPS

-----------------------------------------------------------------------------
(* The inductive invariant *)

Job == [state : {"absent", "waiting", "active", "delayed", "failed", "completed"},
        tries : Nat, holder : Slots \cup {None}]

Shapes == /\ row \in [Notes -> NoteRow]
          /\ del \in [Deliveries -> {"none", "open", "done"}]
          /\ job \in [Deliveries -> Job]
          /\ slot \in [Slots -> SlotRow]
          /\ mails \in [Notes -> Nat]
          /\ pushed \in SUBSET Notes
          /\ faults \in Nat

JobsOK == \A d \in Deliveries : job[d].holder # None => job[d].state = "active"

(* What a slot that has come so far may rely on. *)
SlotOK(s) ==
    /\ s.pc # "idle" => s.d \in Deliveries
    /\ s.pc = "emit" => s.d[2] = "REALTIME"
    /\ s.pc \in {"claim", "send", "record"} => s.d[2] = "EMAIL"
    /\ s.pc \in {"send", "record"} => s.attempts < row[s.d[1]].attempts
    /\ s.pc = "record" => mails[s.d[1]] > 0
    /\ s.pc = "complete" /\ s.d[2] = "EMAIL" => row[s.d[1]].sent
    /\ s.pc = "complete" /\ s.d[2] = "REALTIME" => s.d[1] \in pushed

SlotsOK == \A w \in Slots : SlotOK(slot[w])

(* No two slots send a mail on the same claim. *)
ClaimsApart ==
    \A v, w \in Slots :
        v # w /\ slot[v].d = slot[w].d /\ slot[v].pc \in {"send", "record"}
          /\ slot[w].pc \in {"send", "record"} => slot[v].attempts # slot[w].attempts

Mail(n) == <<n, "EMAIL">>
At(n, w, pcs) == slot[w].d = Mail(n) /\ slot[w].pc \in pcs
Holds(n, w) == job[Mail(n)].holder = w

Sending(n) == {w \in Slots : At(n, w, {"send"})}
Exposed(n) == {w \in Slots : \/ At(n, w, {"send"})
                             \/ At(n, w, {"start", "claim"}) /\ ~Holds(n, w)}
Settled(n) == \/ row[n].sent
              \/ \E w \in Slots : At(n, w, {"send", "record"}) /\ Holds(n, w)

CountOK(n) ==
    /\ mails[n] + Cardinality(Exposed(n)) <= faults + (IF Settled(n) THEN 1 ELSE 0)
    /\ mails[n] + Cardinality(Sending(n)) <= row[n].attempts

Counts == \A n \in Notes : CountOK(n)

IInv == Shapes /\ JobsOK /\ SlotsOK /\ ClaimsApart /\ Counts /\ CompleteIsTrue

-----------------------------------------------------------------------------
(* Counting slots *)

Has(S, w) == IF w \in S THEN 1 ELSE 0

LEMMA CardinalMoves ==
    ASSUME NEW S, NEW T, NEW w, IsFiniteSet(S), IsFiniteSet(T), S \ {w} = T \ {w}
    PROVE  /\ Cardinality(S) \in Nat /\ Cardinality(T) \in Nat
           /\ Cardinality(T) = Cardinality(S) + Has(T, w) - Has(S, w)
<1>1. Cardinality(S) \in Nat /\ Cardinality(T) \in Nat
  BY FS_CardinalityType
<1>2. Cardinality(S \ {w}) = IF w \in S THEN Cardinality(S) - 1 ELSE Cardinality(S)
  BY FS_RemoveElement
<1>3. Cardinality(T \ {w}) = IF w \in T THEN Cardinality(T) - 1 ELSE Cardinality(T)
  BY FS_RemoveElement
<1> QED
  BY <1>1, <1>2, <1>3 DEF Has

LEMMA FiniteSlots ==
    ASSUME OutboxAssumption, NEW n
    PROVE  /\ IsFiniteSet(Sending(n)) /\ IsFiniteSet(Exposed(n))
           /\ Cardinality(Sending(n)) \in Nat /\ Cardinality(Exposed(n)) \in Nat
BY FS_Subset, FS_CardinalityType DEF OutboxAssumption, Sending, Exposed

(* One slot moves, and nobody else takes up or loses the job of n's mail.   *)
OneMoves(w, n) ==
    /\ \A v \in Slots \ {w} : slot'[v] = slot[v]
    /\ \A v \in Slots \ {w} : Holds(n, v)' <=> Holds(n, v)

LEMMA SlotsMove ==
    ASSUME OutboxAssumption, NEW w \in Slots, NEW n, OneMoves(w, n)
    PROVE  /\ Cardinality(Sending(n))' =
                Cardinality(Sending(n)) + Has(Sending(n)', w) - Has(Sending(n), w)
           /\ Cardinality(Exposed(n))' =
                Cardinality(Exposed(n)) + Has(Exposed(n)', w) - Has(Exposed(n), w)
<1>1. Sending(n)' \ {w} = Sending(n) \ {w}
  BY DEF Sending, At, OneMoves
<1>2. Exposed(n)' \ {w} = Exposed(n) \ {w}
  BY DEF Exposed, At, OneMoves
<1>3. IsFiniteSet(Sending(n)') /\ IsFiniteSet(Exposed(n)')
  BY FS_Subset DEF OutboxAssumption, Sending, Exposed
<1> QED
  BY <1>1, <1>2, <1>3, FiniteSlots, CardinalMoves

(* Nothing of the counts of a mail changes but the faults.                  *)
LEMMA CountStays ==
    ASSUME OutboxAssumption, NEW n \in Notes, Shapes, CountOK(n),
           Sending(n)' = Sending(n), Exposed(n)' = Exposed(n), Settled(n) => Settled(n)',
           mails'[n] = mails[n], row'[n].attempts = row[n].attempts,
           faults' \in Nat, faults <= faults'
    PROVE  CountOK(n)'
<1>1. /\ mails[n] \in Nat /\ faults \in Nat /\ row[n].attempts \in Nat
      /\ Cardinality(Sending(n)) \in Nat /\ Cardinality(Exposed(n)) \in Nat
  BY FiniteSlots DEF Shapes, NoteRow
<1> QED
  BY <1>1 DEF CountOK

(* The same when one slot moves that has nothing to do with the mail.       *)
Works == {"start", "claim", "send", "record"}

LEMMA CountElsewhere ==
    ASSUME OutboxAssumption, NEW n \in Notes, NEW w \in Slots, Shapes, CountOK(n), OneMoves(w, n),
           ~At(n, w, Works), ~At(n, w, Works)',
           mails'[n] = mails[n], row'[n].attempts = row[n].attempts, row[n].sent => row'[n].sent,
           faults' \in Nat, faults <= faults'
    PROVE  CountOK(n)'
<1>1. Sending(n)' = Sending(n)
  BY DEF Sending, At, OneMoves, Works
<1>2. Exposed(n)' = Exposed(n)
  BY DEF Exposed, At, OneMoves, Works
<1>3. Settled(n) => Settled(n)'
  BY DEF Settled, At, OneMoves, Works
<1> QED
  BY <1>1, <1>2, <1>3, CountStays

(* What a step of the slot may do to the counts of its own mail.            *)
Paid(n) == IF Settled(n) THEN 1 ELSE 0

LEMMA CountHere ==
    ASSUME OutboxAssumption, NEW n \in Notes, NEW w \in Slots, Shapes, Shapes', CountOK(n),
           OneMoves(w, n),
           mails'[n] + Has(Exposed(n)', w) + faults + Paid(n)
             <= mails[n] + Has(Exposed(n), w) + faults' + Paid(n)',
           mails'[n] + Has(Sending(n)', w) + row[n].attempts
             <= mails[n] + Has(Sending(n), w) + row'[n].attempts
    PROVE  CountOK(n)'
<1>1. /\ mails[n] \in Nat /\ faults \in Nat /\ row[n].attempts \in Nat
      /\ mails'[n] \in Nat /\ faults' \in Nat /\ row'[n].attempts \in Nat
      /\ Cardinality(Sending(n)) \in Nat /\ Cardinality(Exposed(n)) \in Nat
  BY FiniteSlots DEF Shapes, NoteRow
<1>2. /\ Has(Exposed(n)', w) \in Nat /\ Has(Exposed(n), w) \in Nat
      /\ Has(Sending(n)', w) \in Nat /\ Has(Sending(n), w) \in Nat
      /\ Paid(n) \in Nat /\ Paid(n)' \in Nat
  BY DEF Has, Paid
<1>3. /\ mails[n] + Cardinality(Exposed(n)) <= faults + Paid(n)
      /\ mails[n] + Cardinality(Sending(n)) <= row[n].attempts
  BY DEF CountOK, Paid
<1>4. /\ mails'[n] + Cardinality(Exposed(n))' <= faults' + Paid(n)'
      /\ mails'[n] + Cardinality(Sending(n))' <= row'[n].attempts
  BY <1>1, <1>2, <1>3, SlotsMove
<1> QED
  BY <1>4 DEF CountOK, Paid

-----------------------------------------------------------------------------
(* Steps of a slot *)

(* Rows only grow, so what a slot relies on stays.                          *)
Grows == \A n \in Notes : /\ row[n].attempts <= row'[n].attempts
                          /\ row[n].sent => row'[n].sent
                          /\ mails[n] <= mails'[n]
                          /\ n \in pushed => n \in pushed'

LEMMA SlotStays ==
    ASSUME Shapes, Shapes', NEW s \in SlotRow, SlotOK(s), Grows
    PROVE  SlotOK(s)'
<1>1. CASE s.pc = "idle"
  BY <1>1 DEF SlotOK
<1>2. CASE s.pc # "idle"
  <2>1. s.d \in Deliveries /\ s.d[1] \in Notes
    BY <1>2 DEF SlotOK, Deliveries
  <2>2. PICK n \in Notes : n = s.d[1]
    BY <2>1
  <2>3. /\ row[n].attempts \in Nat /\ row'[n].attempts \in Nat /\ mails[n] \in Nat
        /\ mails'[n] \in Nat /\ s.attempts \in Nat
    BY DEF Shapes, NoteRow, SlotRow
  <2> QED
    BY <2>1, <2>2, <2>3 DEF SlotOK, Grows
<1> QED
  BY <1>1, <1>2

(* A slot ends its job: BullMQ hears of it if the slot still has the job.   *)
LEMMA FinishFacts ==
    ASSUME OutboxAssumption, Shapes, JobsOK, NEW w \in Slots, slot[w].d \in Deliveries,
           NEW failed \in BOOLEAN, Finish(w, failed)
    PROVE  /\ slot' \in [Slots -> SlotRow] /\ job' \in [Deliveries -> Job] /\ JobsOK'
           /\ slot'[w] = IdleSlot /\ \A v \in Slots \ {w} : slot'[v] = slot[v]
           /\ \A d \in Deliveries : job'[d].holder = IF d = slot[w].d /\ job[d].holder = w
                                                     THEN None ELSE job[d].holder
<1>1. IdleSlot \in SlotRow
  BY DEF IdleSlot, SlotRow
<1>2. /\ slot' = [slot EXCEPT ![w] = IdleSlot] /\ slot' \in [Slots -> SlotRow]
      /\ slot'[w] = IdleSlot /\ \A v \in Slots \ {w} : slot'[v] = slot[v]
  BY <1>1 DEF Finish, Shapes
<1>3. PICK e \in Deliveries : e = slot[w].d
  OBVIOUS
<1>4. CASE job[e].holder = w
  <2>1. PICK old \in Job : old = job[e]
    BY <1>3 DEF Shapes
  <2>2. PICK end : end = IF ~failed THEN "completed" ELSE IF old.tries + 1 < MaxTries
                         THEN "delayed" ELSE "failed"
    OBVIOUS
  <2>3. PICK new : new = [state |-> end, tries |-> IF failed THEN old.tries + 1 ELSE old.tries,
                          holder |-> None]
    OBVIOUS
  <2>4. new \in Job /\ new.holder = None
    BY <2>1, <2>2, <2>3 DEF Job
  <2>5. job' = [job EXCEPT ![e] = new]
    BY <1>3, <1>4, <2>1, <2>2, <2>3 DEF Finish
  <2>6. /\ job' \in [Deliveries -> Job] /\ job'[e] = new
        /\ \A d \in Deliveries \ {e} : job'[d] = job[d]
    BY <2>4, <2>5 DEF Shapes
  <2>7. JobsOK'
    BY <2>4, <2>6 DEF JobsOK
  <2> QED
    BY <1>2, <1>3, <1>4, <2>4, <2>6, <2>7
<1>5. CASE job[e].holder # w
  <2>1. job' = job
    BY <1>3, <1>5 DEF Finish
  <2> QED
    BY <1>2, <1>3, <1>5, <2>1 DEF JobsOK, Shapes
<1> QED
  BY <1>4, <1>5

LEMMA SlotsKept ==
    ASSUME Shapes, Shapes', SlotsOK, Grows, NEW w \in Slots, NEW s, s = slot'[w], SlotOK(s)',
           \A v \in Slots \ {w} : slot'[v] = slot[v]
    PROVE  SlotsOK'
<1> SUFFICES ASSUME NEW v \in Slots
             PROVE  SlotOK(slot[v])'
  BY DEF SlotsOK
<1>1. CASE v = w
  BY <1>1 DEF SlotOK
<1>2. CASE v # w
  <2>1. PICK old \in SlotRow : old = slot[v]
    BY DEF Shapes
  <2>2. SlotOK(old)'
    BY <2>1, SlotStays DEF SlotsOK
  <2> QED
    BY <1>2, <2>1, <2>2 DEF SlotOK
<1> QED
  BY <1>1, <1>2

LEMMA ApartKept ==
    ASSUME ClaimsApart, NEW w \in Slots, \A v \in Slots \ {w} : slot'[v] = slot[v],
           slot'[w].pc \in {"send", "record"} =>
               /\ slot[w].pc \in {"send", "record"}
               /\ slot'[w].d = slot[w].d /\ slot'[w].attempts = slot[w].attempts
    PROVE  ClaimsApart'
BY DEF ClaimsApart

(* A complete delivery stays accounted for while nothing is newly recorded. *)
LEMMA CompleteStays ==
    ASSUME CompleteIsTrue, Shapes, Shapes', Grows,
           \A d \in Deliveries : del'[d] = "done" => del[d] = "done",
           \A n \in Notes : row'[n].sent => row[n].sent
    PROVE  CompleteIsTrue'
<1> SUFFICES ASSUME NEW n \in Notes
             PROVE  /\ del'[<<n, "EMAIL">>] = "done" /\ Enabled /\ n \in Mailable
                         => row'[n].sent /\ mails'[n] > 0
                    /\ del'[<<n, "REALTIME">>] = "done" => n \in pushed'
                    /\ row'[n].sent => mails'[n] > 0
  BY DEF CompleteIsTrue
<1>1. <<n, "EMAIL">> \in Deliveries /\ <<n, "REALTIME">> \in Deliveries
  BY DEF Deliveries, Channels
<1>2. mails[n] \in Nat /\ mails'[n] \in Nat
  BY DEF Shapes
<1> QED
  BY <1>1, <1>2 DEF CompleteIsTrue, Grows

(* The same when the delivery of a mail is marked complete.                 *)
LEMMA MailCompleted ==
    ASSUME CompleteIsTrue, Shapes, Shapes', Grows, NEW m \in Notes, NEW e \in Deliveries,
           e = <<m, e[2]>>, e[2] = "EMAIL", del' = [del EXCEPT ![e] = "done"],
           ~Enabled \/ row[m].sent \/ m \notin Mailable, row' = row
    PROVE  CompleteIsTrue'
<1> SUFFICES ASSUME NEW n \in Notes
             PROVE  /\ del'[<<n, "EMAIL">>] = "done" /\ Enabled /\ n \in Mailable
                         => row'[n].sent /\ mails'[n] > 0
                    /\ del'[<<n, "REALTIME">>] = "done" => n \in pushed'
                    /\ row'[n].sent => mails'[n] > 0
  BY DEF CompleteIsTrue
<1>1. <<n, "EMAIL">> \in Deliveries /\ <<n, "REALTIME">> \in Deliveries
  BY DEF Deliveries, Channels
<1>2. mails[n] \in Nat /\ mails'[n] \in Nat
  BY DEF Shapes
<1>3. del'[<<n, "REALTIME">>] = del[<<n, "REALTIME">>]
  BY <1>1 DEF Shapes
<1>4. n # m => del'[<<n, "EMAIL">>] = del[<<n, "EMAIL">>]
  BY <1>1 DEF Shapes
<1>5. row[n].sent => mails'[n] > 0
  <2>1. row[n].sent => mails[n] > 0
    BY DEF CompleteIsTrue
  <2>2. mails[n] <= mails'[n]
    BY DEF Grows
  <2> QED
    BY <1>2, <2>1, <2>2
<1> QED
  BY <1>1, <1>2, <1>3, <1>4, <1>5 DEF CompleteIsTrue, Grows

(* The same for a push, and for the record of a mail that was accepted.     *)
LEMMA PushCompleted ==
    ASSUME CompleteIsTrue, Shapes, Shapes', Grows, NEW m \in Notes, NEW e \in Deliveries,
           e = <<m, e[2]>>, e[2] = "REALTIME", del' = [del EXCEPT ![e] = "done"],
           m \in pushed, row' = row
    PROVE  CompleteIsTrue'
<1> SUFFICES ASSUME NEW n \in Notes
             PROVE  /\ del'[<<n, "EMAIL">>] = "done" /\ Enabled /\ n \in Mailable
                         => row'[n].sent /\ mails'[n] > 0
                    /\ del'[<<n, "REALTIME">>] = "done" => n \in pushed'
                    /\ row'[n].sent => mails'[n] > 0
  BY DEF CompleteIsTrue
<1>1. <<n, "EMAIL">> \in Deliveries /\ <<n, "REALTIME">> \in Deliveries
  BY DEF Deliveries, Channels
<1>2. mails[n] \in Nat /\ mails'[n] \in Nat /\ mails[n] <= mails'[n]
  BY DEF Shapes, Grows
<1>3. del'[<<n, "EMAIL">>] = del[<<n, "EMAIL">>]
  BY <1>1 DEF Shapes
<1>4. n # m => del'[<<n, "REALTIME">>] = del[<<n, "REALTIME">>]
  BY <1>1 DEF Shapes
<1>5. n \in pushed => n \in pushed'
  BY DEF Grows
<1>6. /\ del[<<n, "EMAIL">>] = "done" /\ Enabled /\ n \in Mailable => row[n].sent /\ mails[n] > 0
      /\ del[<<n, "REALTIME">>] = "done" => n \in pushed
      /\ row[n].sent => mails[n] > 0
  BY DEF CompleteIsTrue
<1> QED
  BY <1>2, <1>3, <1>4, <1>5, <1>6

LEMMA RecordCompletes ==
    ASSUME CompleteIsTrue, Shapes, Shapes', Grows, del' = del, NEW m \in Notes, mails[m] > 0,
           \A n \in Notes \ {m} : row'[n] = row[n]
    PROVE  CompleteIsTrue'
<1> SUFFICES ASSUME NEW n \in Notes
             PROVE  /\ del'[<<n, "EMAIL">>] = "done" /\ Enabled /\ n \in Mailable
                         => row'[n].sent /\ mails'[n] > 0
                    /\ del'[<<n, "REALTIME">>] = "done" => n \in pushed'
                    /\ row'[n].sent => mails'[n] > 0
  BY DEF CompleteIsTrue
<1>1. mails[n] \in Nat /\ mails'[n] \in Nat /\ mails[n] <= mails'[n]
  BY DEF Shapes, Grows
<1>2. /\ n \in pushed => n \in pushed'
      /\ row[n].sent => row'[n].sent
      /\ n # m => row'[n] = row[n]
  BY DEF Grows
<1>3. /\ del[<<n, "EMAIL">>] = "done" /\ Enabled /\ n \in Mailable => row[n].sent /\ mails[n] > 0
      /\ del[<<n, "REALTIME">>] = "done" => n \in pushed
      /\ row[n].sent => mails[n] > 0
  BY DEF CompleteIsTrue
<1> QED
  BY <1>1, <1>2, <1>3

LEMMA Finished ==
    ASSUME OutboxAssumption, IInv, NEW w \in Slots, NEW failed \in BOOLEAN, slot[w].pc # "idle",
           Finish(w, failed), row' = row, pushed' = pushed,
           \/ mails' = mails
           \/ slot[w].pc = "send" /\ mails' = [mails EXCEPT ![slot[w].d[1]] = @ + 1],
           \/ faults' = faults + 1
           \/ faults' = faults /\ slot[w].pc \notin {"send", "record"},
           del' \in [Deliveries -> {"none", "open", "done"}]
    PROVE  /\ Shapes' /\ JobsOK' /\ SlotsOK' /\ ClaimsApart' /\ Counts' /\ Grows
           /\ slot'[w] = IdleSlot /\ \A v \in Slots \ {w} : slot'[v] = slot[v]
<1> USE DEF IInv
<1>1. slot[w].d \in Deliveries
  BY DEF SlotsOK, SlotOK
<1>2. PICK e \in Deliveries : e = slot[w].d
  BY <1>1
<1>3. e[1] \in Notes
  BY DEF Deliveries
<1>4. /\ slot' \in [Slots -> SlotRow] /\ job' \in [Deliveries -> Job] /\ JobsOK'
      /\ slot'[w] = IdleSlot /\ \A v \in Slots \ {w} : slot'[v] = slot[v]
      /\ \A d \in Deliveries : job'[d].holder = IF d = e /\ job[d].holder = w
                                                THEN None ELSE job[d].holder
  BY <1>1, <1>2, FinishFacts
<1>5. /\ \/ mails' = mails
         \/ slot[w].pc = "send" /\ mails' = [mails EXCEPT ![e[1]] = @ + 1]
      /\ mails' \in [Notes -> Nat] /\ faults' \in Nat
      /\ \A n \in Notes \ {e[1]} : mails'[n] = mails[n]
      /\ \A n \in Notes : mails[n] <= mails'[n]
  BY <1>2, <1>3 DEF Shapes
<1>6. Shapes'
  BY <1>4, <1>5 DEF Shapes
<1>7. Grows
  BY <1>5 DEF Grows, Shapes, NoteRow
<1>8. SlotsOK'
  <2>1. PICK s : s = slot'[w] /\ s.pc = "idle"
    BY <1>4 DEF IdleSlot
  <2>2. SlotOK(s)'
    BY <2>1 DEF SlotOK
  <2> QED
    BY <1>4, <1>6, <1>7, <2>1, <2>2, SlotsKept
<1>9. ClaimsApart'
  BY <1>4, ApartKept DEF IdleSlot
<1>10. ASSUME NEW n \in Notes PROVE CountOK(n)'
  <2>1. Mail(n) \in Deliveries /\ CountOK(n)
    BY DEF Mail, Deliveries, Channels, Counts
  <2>2. OneMoves(w, n) /\ ~At(n, w, Works)' /\ ~At(n, w, {"send"})'
    BY <1>4, <2>1 DEF OneMoves, Holds, OutboxAssumption, At, IdleSlot, Works
  <2>3. row'[n].attempts = row[n].attempts /\ faults' \in Nat /\ faults <= faults'
    BY <1>5 DEF Shapes
  <2>4. CASE ~At(n, w, Works)
    <3>1. mails'[n] = mails[n]
      <4>1. CASE slot[w].pc = "send"
        BY <1>2, <1>5, <2>4, <4>1 DEF At, Works, Mail, SlotsOK, SlotOK, Deliveries
      <4> QED
        BY <1>5, <4>1
    <3> QED
      BY <2>1, <2>2, <2>3, <2>4, <3>1, CountElsewhere
  <2>5. CASE At(n, w, Works)
    <3>1. Has(Exposed(n)', w) = 0 /\ Has(Sending(n)', w) = 0
      BY <1>4 DEF Has, Exposed, Sending, At, IdleSlot
    <3>2. CASE slot[w].pc \in {"send", "record"}
      <4>1. Has(Exposed(n), w) = Has(Sending(n), w)
            /\ Has(Sending(n), w) = IF slot[w].pc = "send" THEN 1 ELSE 0
        BY <2>5, <3>2 DEF Has, Exposed, Sending, At
      <4>2. Paid(n) \in {0, 1} /\ Paid(n)' \in {0, 1} /\ mails[n] \in Nat /\ faults \in Nat
            /\ row[n].attempts \in Nat
        BY DEF Paid, Shapes, NoteRow
      <4>3. mails'[n] = mails[n] \/ (slot[w].pc = "send" /\ mails'[n] = mails[n] + 1)
        BY <1>3, <1>5, <2>5 DEF Shapes
      <4>4. faults' = faults + 1
        BY <3>2
      <4> QED
        BY <1>6, <2>1, <2>2, <2>3, <3>1, <4>1, <4>2, <4>3, <4>4, CountHere
    <3>3. CASE slot[w].pc \notin {"send", "record"}
      <4>1. Settled(n) => Settled(n)'
        BY <2>2, <3>3 DEF Settled, OneMoves, At
      <4>2. Paid(n) <= Paid(n)' /\ Paid(n) \in {0, 1} /\ Paid(n)' \in {0, 1}
        BY <4>1 DEF Paid
      <4>3. Has(Exposed(n), w) \in {0, 1} /\ Has(Sending(n), w) \in {0, 1}
        BY DEF Has
      <4>4. mails'[n] = mails[n] /\ mails[n] \in Nat /\ faults \in Nat /\ row[n].attempts \in Nat
        BY <1>5, <3>3 DEF Shapes, NoteRow
      <4> QED
        BY <1>6, <2>1, <2>2, <2>3, <3>1, <4>2, <4>3, <4>4, CountHere
    <3> QED
      BY <3>2, <3>3
  <2> QED
    BY <2>4, <2>5
<1> QED
  BY <1>4, <1>6, <1>7, <1>8, <1>9, <1>10 DEF Counts

(* A slot goes on with its job.                                             *)
Goes(w, s) == /\ slot' = [slot EXCEPT ![w] = s] /\ job' = job
              /\ s \in SlotRow /\ s.d = slot[w].d

LEMMA GotoFacts ==
    ASSUME Shapes, NEW w \in Slots,
           NEW pc \in {"emit", "claim", "send", "record", "complete"}, Goto(w, pc)
    PROVE  \E s \in SlotRow : Goes(w, s) /\ s.pc = pc /\ s.attempts = slot[w].attempts
<1>1. PICK old \in SlotRow : old = slot[w]
  BY DEF Shapes
<1>2. PICK s : s = [old EXCEPT !.pc = pc]
  OBVIOUS
<1>3. s \in SlotRow /\ s.d = old.d /\ s.pc = pc /\ s.attempts = old.attempts
  BY <1>2 DEF SlotRow
<1>4. slot' = [slot EXCEPT ![w] = s] /\ job' = job
  BY <1>1, <1>2 DEF Goto
<1> QED
  BY <1>1, <1>3, <1>4 DEF Goes

LEMMA GoesFacts ==
    ASSUME Shapes, NEW w \in Slots, NEW s, Goes(w, s)
    PROVE  /\ slot' \in [Slots -> SlotRow] /\ slot'[w] = s
           /\ \A v \in Slots \ {w} : slot'[v] = slot[v]
           /\ \A n : OneMoves(w, n) /\ \A v : Holds(n, v)' <=> Holds(n, v)
BY DEF Goes, Shapes, OneMoves, Holds

(* All but the counts of its mail and what is complete.                     *)
LEMMA Went ==
    ASSUME OutboxAssumption, IInv, NEW w \in Slots, NEW s, Goes(w, s), SlotOK(s)',
           row' \in [Notes -> NoteRow], mails' \in [Notes -> Nat], pushed' \in SUBSET Notes,
           del' \in [Deliveries -> {"none", "open", "done"}], faults' = faults, Grows,
           s.pc \in {"send", "record"} =>
               \/ slot[w].pc \in {"send", "record"} /\ s.attempts = slot[w].attempts
               \/ \A v \in Slots \ {w} :
                     slot[v].d = s.d /\ slot[v].pc \in {"send", "record"} => slot[v].attempts # s.attempts,
           \A n \in Notes : s.d # Mail(n) => mails'[n] = mails[n] /\ row'[n].attempts = row[n].attempts,
           \A n \in Notes : s.d = Mail(n) => CountOK(n)'
    PROVE  Shapes' /\ JobsOK' /\ SlotsOK' /\ ClaimsApart' /\ Counts'
<1> USE DEF IInv
<1>1. /\ slot' \in [Slots -> SlotRow] /\ slot'[w] = s
      /\ \A v \in Slots \ {w} : slot'[v] = slot[v]
      /\ \A n : OneMoves(w, n)
  BY GoesFacts
<1>2. job' = job /\ s.d = slot[w].d
  BY DEF Goes
<1>3. Shapes' /\ JobsOK'
  BY <1>1, <1>2 DEF Shapes, JobsOK
<1>4. SlotsOK'
  BY <1>1, <1>3, SlotsKept
<1>5. ClaimsApart'
  BY <1>1, <1>2 DEF ClaimsApart
<1>6. ASSUME NEW n \in Notes PROVE CountOK(n)'
  <2>1. CASE s.d # Mail(n)
    <3>1. ~At(n, w, Works) /\ ~At(n, w, Works)'
      BY <1>1, <1>2, <2>1 DEF At
    <3>2. row[n].sent => row'[n].sent
      BY DEF Grows
    <3>3. faults' \in Nat /\ faults <= faults'
      BY DEF Shapes
    <3> QED
      BY <1>1, <2>1, <3>1, <3>2, <3>3, CountElsewhere DEF Counts
  <2> QED
    BY <2>1
<1> QED
  BY <1>3, <1>4, <1>5, <1>6 DEF Counts

-----------------------------------------------------------------------------
(* The workers *)

LEMMA StartJobStep ==
    ASSUME OutboxAssumption, IInv, NEW w \in Slots, StartJob(w)
    PROVE  IInv'
<1>1. /\ Shapes /\ JobsOK /\ SlotsOK /\ ClaimsApart /\ Counts /\ CompleteIsTrue
      /\ slot[w] \in SlotRow /\ slot[w].pc = "start"
      /\ UNCHANGED <<row, scan, up, mails, pushed, faults>>
  BY DEF IInv, Shapes, StartJob
<1>2. PICK e \in Deliveries : e = slot[w].d
  BY <1>1 DEF SlotsOK, SlotOK
<1>3. e[1] \in Notes /\ e = <<e[1], e[2]>>
  BY DEF Deliveries
<1>4. Grows
  BY <1>1 DEF Grows, Shapes, NoteRow
<1>5. CASE Finish(w, FALSE) /\ UNCHANGED <<del, due>>
  <2>1. Shapes' /\ JobsOK' /\ SlotsOK' /\ ClaimsApart' /\ Counts'
    BY <1>1, <1>5, Finished DEF Shapes
  <2> QED
    BY <1>1, <1>4, <1>5, <2>1, CompleteStays DEF IInv
<1>6. CASE e[2] = "REALTIME" /\ Goto(w, "emit") /\ UNCHANGED <<del, due>>
  <2>1. PICK s \in SlotRow : Goes(w, s) /\ s.pc = "emit"
    BY <1>1, <1>6, GotoFacts
  <2>2. s.d = e
    BY <1>2, <2>1 DEF Goes
  <2>3. SlotOK(s)' /\ \A n \in Notes : s.d # Mail(n)
    BY <1>6, <2>1, <2>2 DEF SlotOK, Mail
  <2>4. Shapes' /\ JobsOK' /\ SlotsOK' /\ ClaimsApart' /\ Counts'
    BY <1>1, <1>4, <1>6, <2>1, <2>3, Went DEF Shapes
  <2> QED
    BY <1>1, <1>4, <1>6, <2>4, CompleteStays DEF IInv
<1>7. CASE /\ e[2] = "EMAIL"
           /\ ~Enabled \/ row[e[1]].sent \/ e[1] \notin Mailable
           /\ Complete(e) /\ Finish(w, FALSE)
  <2>1. del' = [del EXCEPT ![e] = "done"] /\ del' \in [Deliveries -> {"none", "open", "done"}]
    BY <1>1, <1>7 DEF Complete, Shapes
  <2>2. Shapes' /\ JobsOK' /\ SlotsOK' /\ ClaimsApart' /\ Counts'
    BY <1>1, <1>7, <2>1, Finished
  <2>3. CompleteIsTrue'
    BY <1>1, <1>3, <1>4, <1>7, <2>1, <2>2, MailCompleted
  <2> QED
    BY <2>2, <2>3 DEF IInv
<1>8. CASE /\ e[2] = "EMAIL" /\ UNCHANGED <<job, del, due>>
           /\ slot' = [slot EXCEPT ![w].pc = "claim", ![w].attempts = row[e[1]].attempts]
  <2>1. PICK old \in SlotRow : old = slot[w]
    BY <1>1
  <2>2. PICK s : s = [old EXCEPT !.pc = "claim", !.attempts = row[e[1]].attempts]
    OBVIOUS
  <2>3. row[e[1]].attempts \in Nat
    BY <1>1, <1>3 DEF Shapes, NoteRow
  <2>4. s \in SlotRow /\ s.d = e /\ s.pc = "claim"
    BY <1>2, <2>1, <2>2, <2>3 DEF SlotRow
  <2>5. slot' = [slot EXCEPT ![w] = s]
    BY <1>8, <2>1, <2>2
  <2>6. Goes(w, s) /\ SlotOK(s)'
    BY <1>2, <1>8, <2>4, <2>5 DEF Goes, SlotOK
  <2>7. ASSUME NEW n \in Notes PROVE CountOK(n)'
    <3>1. slot'[w] = s /\ OneMoves(w, n) /\ \A v : Holds(n, v)' <=> Holds(n, v)
      BY <1>1, <2>6, GoesFacts
    <3>2. Sending(n)' = Sending(n) /\ Exposed(n)' = Exposed(n) /\ (Settled(n) => Settled(n)')
      BY <1>1, <1>2, <2>4, <3>1 DEF Sending, Exposed, Settled, At, OneMoves
    <3> QED
      BY <1>1, <3>2, CountStays DEF Counts, Shapes
  <2>8. Shapes' /\ JobsOK' /\ SlotsOK' /\ ClaimsApart' /\ Counts'
    BY <1>1, <1>4, <1>8, <2>4, <2>6, <2>7, Went DEF Shapes
  <2> QED
    BY <1>1, <1>4, <1>8, <2>8, CompleteStays DEF IInv
<1> QED
  BY <1>2, <1>5, <1>6, <1>7, <1>8 DEF StartJob

LEMMA EmitStep ==
    ASSUME OutboxAssumption, IInv, NEW w \in Slots, Emit(w)
    PROVE  IInv'
<1>1. /\ Shapes /\ JobsOK /\ SlotsOK /\ ClaimsApart /\ Counts /\ CompleteIsTrue
      /\ slot[w] \in SlotRow /\ slot[w].pc = "emit"
      /\ UNCHANGED <<row, del, due, scan, up, mails>>
  BY DEF IInv, Shapes, Emit
<1>2. PICK e \in Deliveries : e = slot[w].d
  BY <1>1 DEF SlotsOK, SlotOK
<1>3. e[1] \in Notes /\ e[2] = "REALTIME"
  BY <1>1, <1>2 DEF Deliveries, SlotsOK, SlotOK
<1>4. CASE pushed' = pushed \cup {e[1]} /\ Goto(w, "complete") /\ UNCHANGED faults
  <2>1. Grows /\ pushed' \in SUBSET Notes
    BY <1>1, <1>3, <1>4 DEF Grows, Shapes, NoteRow
  <2>2. PICK s \in SlotRow : Goes(w, s) /\ s.pc = "complete"
    BY <1>1, <1>4, GotoFacts
  <2>3. s.d = e
    BY <1>2, <2>2 DEF Goes
  <2>4. SlotOK(s)' /\ \A n \in Notes : s.d # Mail(n)
    BY <1>3, <1>4, <2>2, <2>3 DEF SlotOK, Mail
  <2>5. Shapes' /\ JobsOK' /\ SlotsOK' /\ ClaimsApart' /\ Counts'
    BY <1>1, <1>4, <2>1, <2>2, <2>4, Went DEF Shapes
  <2> QED
    BY <1>1, <2>1, <2>5, CompleteStays DEF IInv
<1>5. CASE Fault /\ Finish(w, TRUE) /\ UNCHANGED pushed
  <2>1. Shapes' /\ JobsOK' /\ SlotsOK' /\ ClaimsApart' /\ Counts' /\ Grows
    BY <1>1, <1>5, Finished DEF Shapes, Fault
  <2> QED
    BY <1>1, <2>1, CompleteStays DEF IInv
<1> QED
  BY <1>2, <1>4, <1>5 DEF Emit

LEMMA ClaimMailStep ==
    ASSUME OutboxAssumption, IInv, NEW w \in Slots, ClaimMail(w)
    PROVE  IInv'
<1>1. /\ Shapes /\ JobsOK /\ SlotsOK /\ ClaimsApart /\ Counts /\ CompleteIsTrue
      /\ slot[w] \in SlotRow /\ slot[w].pc = "claim"
      /\ UNCHANGED <<del, due, scan, up, mails, pushed, faults>>
  BY DEF IInv, Shapes, ClaimMail
<1>2. PICK e \in Deliveries : e = slot[w].d
  BY <1>1 DEF SlotsOK, SlotOK
<1>3. PICK m \in Notes : m = e[1] /\ e = Mail(m)
  BY <1>1, <1>2 DEF Deliveries, SlotsOK, SlotOK, Mail
<1>4. CASE /\ ~row[m].sent /\ row[m].attempts = slot[w].attempts
           /\ row' = [row EXCEPT ![m].attempts = @ + 1]
           /\ Goto(w, "send")
  <2>1. PICK old \in NoteRow : old = row[m]
    BY <1>1 DEF Shapes
  <2>2. PICK new : new = [old EXCEPT !.attempts = old.attempts + 1]
    OBVIOUS
  <2>3. /\ new \in NoteRow /\ new.attempts = old.attempts + 1 /\ old.attempts \in Nat
        /\ new.sent = old.sent
    BY <2>1, <2>2 DEF NoteRow
  <2>4. row' = [row EXCEPT ![m] = new]
    BY <1>4, <2>1, <2>2
  <2>5. /\ row' \in [Notes -> NoteRow] /\ row'[m] = new
        /\ \A n \in Notes \ {m} : row'[n] = row[n]
    BY <1>1, <2>3, <2>4 DEF Shapes
  <2>6. Grows
    BY <1>1, <2>1, <2>3, <2>5 DEF Grows, Shapes, NoteRow
  <2>7. PICK s \in SlotRow : Goes(w, s) /\ s.pc = "send" /\ s.attempts = slot[w].attempts
    BY <1>1, <1>4, GotoFacts
  <2>8. s.d = e
    BY <1>2, <2>7 DEF Goes
  <2>9. SlotOK(s)'
    BY <1>3, <1>4, <2>1, <2>3, <2>5, <2>7, <2>8 DEF SlotOK, Mail
  <2>10. ASSUME NEW v \in Slots \ {w}, slot[v].d = s.d, slot[v].pc \in {"send", "record"}
         PROVE  slot[v].attempts # s.attempts
    <3>1. slot[v].attempts < row[m].attempts
      BY <1>1, <1>3, <2>8, <2>10 DEF SlotsOK, SlotOK
    <3>2. slot[v].attempts \in Nat /\ row[m].attempts \in Nat
      BY <1>1 DEF Shapes, SlotRow, NoteRow
    <3> QED
      BY <1>4, <2>7, <3>1, <3>2
  <2>11. Shapes'
    BY <1>1, <2>5, <2>7, GoesFacts DEF Shapes, Goes
  <2>12. ASSUME NEW n \in Notes PROVE s.d = Mail(n) => CountOK(n)'
    <3> SUFFICES ASSUME s.d = Mail(n)
                 PROVE  CountOK(n)'
      OBVIOUS
    <3>1. n = m
      BY <1>3, <2>8 DEF Mail
    <3>2. slot'[w] = s /\ OneMoves(w, n) /\ \A v : Holds(n, v)' <=> Holds(n, v)
      BY <1>1, <2>7, GoesFacts
    <3>3. Has(Sending(n), w) = 0 /\ Has(Sending(n)', w) = 1
      BY <1>1, <2>7, <3>2 DEF Sending, Has, At
    <3>4. Has(Exposed(n)', w) = 1 /\ Has(Exposed(n), w) = IF Holds(n, w) THEN 0 ELSE 1
      BY <1>1, <1>2, <2>7, <2>8, <3>2 DEF Exposed, Has, At
    <3>5. CASE Holds(n, w)
      <4>1. ~Settled(n)
        BY <1>1, <1>4, <3>1, <3>5 DEF Settled, At, Holds
      <4>2. Settled(n)'
        BY <2>7, <3>2, <3>5 DEF Settled, At
      <4>3. Paid(n) = 0 /\ Paid(n)' = 1
        BY <4>1, <4>2 DEF Paid
      <4>4. mails[n] \in Nat /\ mails'[n] = mails[n] /\ faults \in Nat /\ faults' = faults
            /\ row[n].attempts \in Nat /\ row'[n].attempts = row[n].attempts + 1
        BY <1>1, <2>1, <2>3, <2>5, <3>1 DEF Shapes
      <4> QED
        BY <1>1, <2>11, <3>2, <3>3, <3>4, <3>5, <4>3, <4>4, CountHere DEF Counts
    <3>6. CASE ~Holds(n, w)
      <4>1. Settled(n) => Settled(n)'
        BY <1>1, <2>1, <2>3, <2>5, <3>1, <3>2 DEF Settled, At, OneMoves
      <4>2. Paid(n) <= Paid(n)' /\ Paid(n) \in {0, 1} /\ Paid(n)' \in {0, 1}
        BY <4>1 DEF Paid
      <4>3. mails[n] \in Nat /\ mails'[n] = mails[n] /\ faults \in Nat /\ faults' = faults
            /\ row[n].attempts \in Nat /\ row'[n].attempts = row[n].attempts + 1
        BY <1>1, <2>1, <2>3, <2>5, <3>1 DEF Shapes
      <4> QED
        BY <1>1, <2>11, <3>2, <3>3, <3>4, <3>6, <4>2, <4>3, CountHere DEF Counts
    <3> QED
      BY <3>5, <3>6
  <2>13. \A n \in Notes : s.d # Mail(n) => mails'[n] = mails[n] /\ row'[n].attempts = row[n].attempts
    BY <1>1, <1>3, <2>5, <2>8
  <2>14. JobsOK' /\ SlotsOK' /\ ClaimsApart' /\ Counts'
    BY <1>1, <2>5, <2>6, <2>7, <2>9, <2>10, <2>12, <2>13, Went DEF Shapes
  <2>15. \A n \in Notes : row'[n].sent => row[n].sent
    BY <2>1, <2>3, <2>5
  <2> QED
    BY <1>1, <2>6, <2>11, <2>14, <2>15, CompleteStays DEF IInv
<1>5. CASE Finish(w, FALSE) /\ UNCHANGED row
  <2>1. Shapes' /\ JobsOK' /\ SlotsOK' /\ ClaimsApart' /\ Counts' /\ Grows
    BY <1>1, <1>5, Finished DEF Shapes
  <2> QED
    BY <1>1, <1>5, <2>1, CompleteStays DEF IInv
<1> QED
  BY <1>2, <1>3, <1>4, <1>5 DEF ClaimMail, Claimable

LEMMA SendMailStep ==
    ASSUME OutboxAssumption, IInv, NEW w \in Slots, SendMail(w)
    PROVE  IInv'
<1>1. /\ Shapes /\ JobsOK /\ SlotsOK /\ ClaimsApart /\ Counts /\ CompleteIsTrue
      /\ slot[w] \in SlotRow /\ slot[w].pc = "send"
      /\ UNCHANGED <<row, del, due, scan, up, pushed>>
  BY DEF IInv, Shapes, SendMail
<1>2. PICK e \in Deliveries : e = slot[w].d
  BY <1>1 DEF SlotsOK, SlotOK
<1>3. PICK m \in Notes : m = e[1] /\ e = Mail(m)
  BY <1>1, <1>2 DEF Deliveries, SlotsOK, SlotOK, Mail
<1>4. CASE mails' = [mails EXCEPT ![m] = @ + 1] /\ Goto(w, "record") /\ UNCHANGED faults
  <2>1. /\ mails' \in [Notes -> Nat] /\ mails[m] \in Nat /\ mails'[m] = mails[m] + 1
        /\ \A n \in Notes \ {m} : mails'[n] = mails[n]
    BY <1>1, <1>4 DEF Shapes
  <2>2. Grows
    BY <1>1, <2>1 DEF Grows, Shapes, NoteRow
  <2>3. PICK s \in SlotRow : Goes(w, s) /\ s.pc = "record" /\ s.attempts = slot[w].attempts
    BY <1>1, <1>4, GotoFacts
  <2>4. s.d = e
    BY <1>2, <2>3 DEF Goes
  <2>5. SlotOK(s)'
    BY <1>1, <1>2, <1>3, <2>1, <2>3, <2>4 DEF SlotOK, SlotsOK, Mail
  <2>6. Shapes'
    BY <1>1, <1>4, <2>1, <2>3, GoesFacts DEF Shapes, Goes
  <2>7. ASSUME NEW n \in Notes PROVE s.d = Mail(n) => CountOK(n)'
    <3> SUFFICES ASSUME s.d = Mail(n)
                 PROVE  CountOK(n)'
      OBVIOUS
    <3>1. n = m
      BY <1>3, <2>4 DEF Mail
    <3>2. slot'[w] = s /\ OneMoves(w, n) /\ \A v : Holds(n, v)' <=> Holds(n, v)
      BY <1>1, <2>3, GoesFacts
    <3>3. Has(Sending(n), w) = 1 /\ Has(Exposed(n), w) = 1
      BY <1>1, <1>2, <2>4 DEF Sending, Exposed, Has, At
    <3>4. Has(Sending(n)', w) = 0 /\ Has(Exposed(n)', w) = 0
      BY <2>3, <3>2 DEF Sending, Exposed, Has, At
    <3>5. Settled(n) => Settled(n)'
      BY <1>1, <1>2, <2>3, <2>4, <3>2 DEF Settled, At, OneMoves
    <3>6. Paid(n) <= Paid(n)' /\ Paid(n) \in {0, 1} /\ Paid(n)' \in {0, 1}
      BY <3>5 DEF Paid
    <3>7. faults \in Nat /\ faults' = faults /\ row[n].attempts \in Nat
          /\ row'[n].attempts = row[n].attempts
      BY <1>1, <1>4 DEF Shapes, NoteRow
    <3> QED
      BY <1>1, <2>1, <2>6, <3>1, <3>2, <3>3, <3>4, <3>6, <3>7, CountHere DEF Counts
  <2>8. \A n \in Notes : s.d # Mail(n) => mails'[n] = mails[n] /\ row'[n].attempts = row[n].attempts
    BY <1>1, <1>3, <2>1, <2>4
  <2>9. JobsOK' /\ SlotsOK' /\ ClaimsApart' /\ Counts'
    BY <1>1, <1>4, <2>1, <2>2, <2>3, <2>5, <2>7, <2>8, Went DEF Shapes
  <2> QED
    BY <1>1, <2>2, <2>6, <2>9, CompleteStays DEF IInv
<1>5. CASE Fault /\ Finish(w, TRUE) /\ mails' \in {mails, [mails EXCEPT ![m] = @ + 1]}
  <2>1. Shapes' /\ JobsOK' /\ SlotsOK' /\ ClaimsApart' /\ Counts' /\ Grows
    BY <1>1, <1>2, <1>3, <1>5, Finished DEF Shapes, Fault
  <2> QED
    BY <1>1, <2>1, CompleteStays DEF IInv
<1> QED
  BY <1>2, <1>3, <1>4, <1>5 DEF SendMail

LEMMA RecordMailStep ==
    ASSUME OutboxAssumption, IInv, NEW w \in Slots, RecordMail(w)
    PROVE  IInv'
<1>1. /\ Shapes /\ JobsOK /\ SlotsOK /\ ClaimsApart /\ Counts /\ CompleteIsTrue
      /\ slot[w] \in SlotRow /\ slot[w].pc = "record"
      /\ UNCHANGED <<del, due, scan, up, mails, pushed>>
  BY DEF IInv, Shapes, RecordMail
<1>2. PICK e \in Deliveries : e = slot[w].d
  BY <1>1 DEF SlotsOK, SlotOK
<1>3. PICK m \in Notes : m = e[1] /\ e = Mail(m)
  BY <1>1, <1>2 DEF Deliveries, SlotsOK, SlotOK, Mail
<1>4. CASE row' = [row EXCEPT ![m].sent = TRUE] /\ Goto(w, "complete") /\ UNCHANGED faults
  <2>1. PICK old \in NoteRow : old = row[m]
    BY <1>1 DEF Shapes
  <2>2. PICK new : new = [old EXCEPT !.sent = TRUE]
    OBVIOUS
  <2>3. new \in NoteRow /\ new.sent /\ new.attempts = old.attempts
    BY <2>1, <2>2 DEF NoteRow
  <2>4. row' = [row EXCEPT ![m] = new]
    BY <1>4, <2>1, <2>2
  <2>5. /\ row' \in [Notes -> NoteRow] /\ row'[m] = new
        /\ \A n \in Notes \ {m} : row'[n] = row[n]
    BY <1>1, <2>3, <2>4 DEF Shapes
  <2>6. \A n \in Notes : row'[n].attempts = row[n].attempts
    BY <2>1, <2>3, <2>5
  <2>7. Grows
    BY <1>1, <2>3, <2>5, <2>6 DEF Grows, Shapes, NoteRow
  <2>8. PICK s \in SlotRow : Goes(w, s) /\ s.pc = "complete"
    BY <1>1, <1>4, GotoFacts
  <2>9. s.d = e
    BY <1>2, <2>8 DEF Goes
  <2>10. SlotOK(s)'
    BY <1>3, <2>3, <2>5, <2>8, <2>9 DEF SlotOK, Mail
  <2>11. Shapes'
    BY <1>1, <1>4, <2>5, <2>8, GoesFacts DEF Shapes, Goes
  <2>12. ASSUME NEW n \in Notes PROVE s.d = Mail(n) => CountOK(n)'
    <3> SUFFICES ASSUME s.d = Mail(n)
                 PROVE  CountOK(n)'
      OBVIOUS
    <3>1. n = m
      BY <1>3, <2>9 DEF Mail
    <3>2. slot'[w] = s /\ OneMoves(w, n) /\ \A v : Holds(n, v)' <=> Holds(n, v)
      BY <1>1, <2>8, GoesFacts
    <3>3. Sending(n)' = Sending(n) /\ Exposed(n)' = Exposed(n)
      BY <1>1, <2>8, <3>2 DEF Sending, Exposed, At, OneMoves
    <3>4. Settled(n)'
      BY <2>3, <2>5, <3>1 DEF Settled
    <3> QED
      BY <1>1, <1>4, <2>6, <3>3, <3>4, CountStays DEF Counts, Shapes
  <2>13. JobsOK' /\ SlotsOK' /\ ClaimsApart' /\ Counts'
    BY <1>1, <1>4, <2>5, <2>6, <2>7, <2>8, <2>10, <2>12, Went DEF Shapes
  <2>14. mails[m] > 0
    BY <1>1, <1>2, <1>3 DEF SlotsOK, SlotOK
  <2>15. CompleteIsTrue'
    BY <1>1, <2>5, <2>7, <2>11, <2>14, RecordCompletes
  <2> QED
    BY <2>11, <2>13, <2>15 DEF IInv
<1>5. CASE Fault /\ Finish(w, TRUE) /\ UNCHANGED row
  <2>1. Shapes' /\ JobsOK' /\ SlotsOK' /\ ClaimsApart' /\ Counts' /\ Grows
    BY <1>1, <1>5, Finished DEF Shapes, Fault
  <2> QED
    BY <1>1, <1>5, <2>1, CompleteStays DEF IInv
<1> QED
  BY <1>2, <1>3, <1>4, <1>5 DEF RecordMail

LEMMA CompleteJobStep ==
    ASSUME OutboxAssumption, IInv, NEW w \in Slots, CompleteJob(w)
    PROVE  IInv'
<1>1. /\ Shapes /\ JobsOK /\ SlotsOK /\ ClaimsApart /\ Counts /\ CompleteIsTrue
      /\ slot[w] \in SlotRow /\ slot[w].pc = "complete"
      /\ UNCHANGED <<row, scan, up, mails, pushed>>
  BY DEF IInv, Shapes, CompleteJob
<1>2. PICK e \in Deliveries : e = slot[w].d
  BY <1>1 DEF SlotsOK, SlotOK
<1>3. e[1] \in Notes /\ e = <<e[1], e[2]>> /\ e[2] \in {"REALTIME", "EMAIL"}
  BY DEF Deliveries, Channels
<1>4. CASE Complete(e) /\ Finish(w, FALSE) /\ UNCHANGED faults
  <2>1. del' = [del EXCEPT ![e] = "done"] /\ del' \in [Deliveries -> {"none", "open", "done"}]
    BY <1>1, <1>4 DEF Complete, Shapes
  <2>2. Shapes' /\ JobsOK' /\ SlotsOK' /\ ClaimsApart' /\ Counts' /\ Grows
    BY <1>1, <1>4, <2>1, Finished
  <2>3. CASE e[2] = "EMAIL"
    <3>1. row[e[1]].sent
      BY <1>1, <1>2, <2>3 DEF SlotsOK, SlotOK
    <3>2. CompleteIsTrue'
      BY <1>1, <1>3, <2>1, <2>2, <2>3, <3>1, MailCompleted
    <3> QED
      BY <2>2, <3>2 DEF IInv
  <2>4. CASE e[2] = "REALTIME"
    <3>1. e[1] \in pushed
      BY <1>1, <1>2, <2>4 DEF SlotsOK, SlotOK
    <3>2. CompleteIsTrue'
      BY <1>1, <1>3, <2>1, <2>2, <2>4, <3>1, PushCompleted
    <3> QED
      BY <2>2, <3>2 DEF IInv
  <2> QED
    BY <1>3, <2>3, <2>4
<1>5. CASE Fault /\ Finish(w, TRUE) /\ UNCHANGED <<del, due>>
  <2>1. Shapes' /\ JobsOK' /\ SlotsOK' /\ ClaimsApart' /\ Counts' /\ Grows
    BY <1>1, <1>5, Finished DEF Shapes, Fault
  <2> QED
    BY <1>1, <1>5, <2>1, CompleteStays DEF IInv
<1> QED
  BY <1>2, <1>4, <1>5 DEF CompleteJob

-----------------------------------------------------------------------------
(* Commands, reconciliation and BullMQ *)

(* The slots stay as they are.                                              *)
LEMMA SlotsRest ==
    ASSUME OutboxAssumption, IInv, Shapes', UNCHANGED <<slot, mails, pushed>>,
           \A n \in Notes : row'[n].sent = row[n].sent /\ row'[n].attempts = row[n].attempts,
           \A d \in Deliveries : del'[d] = "done" => del[d] = "done"
    PROVE  SlotsOK' /\ ClaimsApart' /\ CompleteIsTrue'
<1> USE DEF IInv
<1>1. Grows
  BY DEF Grows, Shapes, NoteRow
<1>2. SlotsOK'
  <2> SUFFICES ASSUME NEW v \in Slots
               PROVE  SlotOK(slot[v])'
    BY DEF SlotsOK
  <2>1. PICK s \in SlotRow : s = slot[v]
    BY DEF Shapes
  <2>2. SlotOK(s)'
    BY <1>1, <2>1, SlotStays DEF SlotsOK
  <2> QED
    BY <2>1, <2>2 DEF SlotOK
<1>3. ClaimsApart'
  BY DEF ClaimsApart
<1>4. CompleteIsTrue'
  BY <1>1, CompleteStays
<1> QED
  BY <1>2, <1>3, <1>4

(* And what they work on stays theirs, or not theirs.                       *)
LEMMA SlotsHeld ==
    ASSUME OutboxAssumption, IInv, Shapes', JobsOK',
           UNCHANGED <<slot, mails, pushed>>, faults' = faults \/ faults' = faults + 1,
           \A d \in Deliveries, v \in Slots :
               slot[v].d = d => (job'[d].holder = v <=> job[d].holder = v),
           \A n \in Notes : row'[n].sent = row[n].sent /\ row'[n].attempts = row[n].attempts,
           \A d \in Deliveries : del'[d] = "done" => del[d] = "done"
    PROVE  IInv'
<1>1. ASSUME NEW n \in Notes PROVE CountOK(n)'
  <2>1. Mail(n) \in Deliveries
    BY DEF Mail, Deliveries, Channels
  <2>2. Sending(n)' = Sending(n) /\ Exposed(n)' = Exposed(n) /\ (Settled(n) => Settled(n)')
    BY <2>1 DEF Sending, Exposed, Settled, At, Holds
  <2> QED
    BY <2>2, CountStays DEF IInv, Counts, Shapes
<1> QED
  BY <1>1, SlotsRest DEF IInv, Counts

LEMMA CreateStep ==
    ASSUME OutboxAssumption, IInv, NEW n \in Notes, CreateIdempotent(n)
    PROVE  IInv'
<1>1. Shapes /\ JobsOK /\ UNCHANGED <<job, scan, slot, up, mails, pushed, faults>>
  BY DEF IInv, CreateIdempotent
<1>2. PICK old \in NoteRow : old = row[n]
  BY <1>1 DEF Shapes
<1>3. PICK new : new = [old EXCEPT !.made = TRUE]
  OBVIOUS
<1>4. new \in NoteRow /\ new.sent = old.sent /\ new.attempts = old.attempts
  BY <1>2, <1>3 DEF NoteRow
<1>5. row' = [row EXCEPT ![n] = new]
  BY <1>2, <1>3 DEF CreateIdempotent
<1>6. /\ row' \in [Notes -> NoteRow]
      /\ \A k \in Notes : row'[k].sent = row[k].sent /\ row'[k].attempts = row[k].attempts
  BY <1>1, <1>2, <1>4, <1>5 DEF Shapes
<1>7. /\ del' \in [Deliveries -> {"none", "open", "done"}]
      /\ \A d \in Deliveries : del'[d] = "done" => del[d] = "done"
  BY <1>1 DEF CreateIdempotent, Shapes
<1>8. Shapes' /\ JobsOK'
  BY <1>1, <1>6, <1>7 DEF Shapes, JobsOK
<1> QED
  BY <1>1, <1>6, <1>7, <1>8, SlotsHeld

LEMMA MarkReadStep ==
    ASSUME OutboxAssumption, IInv, NEW S, MarkRead(S)
    PROVE  IInv'
<1>1. Shapes /\ JobsOK /\ UNCHANGED <<del, job, scan, slot, up, mails, pushed, faults>>
  BY DEF IInv, MarkRead
<1>2. ASSUME NEW n \in Notes
      PROVE  row'[n] \in NoteRow /\ row'[n].sent = row[n].sent /\ row'[n].attempts = row[n].attempts
  <2>1. PICK old \in NoteRow : old = row[n]
    BY <1>1 DEF Shapes
  <2>2. PICK new : new = [old EXCEPT !.read = TRUE]
    OBVIOUS
  <2>3. new \in NoteRow /\ new.sent = old.sent /\ new.attempts = old.attempts
    BY <2>1, <2>2 DEF NoteRow
  <2>4. row'[n] = new \/ row'[n] = old
    BY <2>1, <2>2 DEF MarkRead
  <2> QED
    BY <2>1, <2>3, <2>4
<1>3. row' \in [Notes -> NoteRow]
  BY <1>2 DEF MarkRead
<1>4. Shapes' /\ JobsOK'
  BY <1>1, <1>3 DEF Shapes, JobsOK
<1> QED
  BY <1>1, <1>2, <1>4, SlotsHeld

(* Elapse, Reconcile and Restart only touch what the invariant leaves free. *)
LEMMA IdleStep ==
    ASSUME OutboxAssumption, IInv, UNCHANGED <<row, del, job, slot, mails, pushed, faults>>
    PROVE  IInv'
<1>1. Shapes' /\ JobsOK'
  BY DEF IInv, Shapes, JobsOK
<1> QED
  BY <1>1, SlotsHeld

LEMMA PickStep ==
    ASSUME OutboxAssumption, IInv, NEW w \in Slots, NEW e \in Deliveries, Pick(w, e)
    PROVE  IInv'
<1>1. /\ Shapes /\ JobsOK /\ SlotsOK /\ ClaimsApart /\ Counts /\ CompleteIsTrue
      /\ UNCHANGED <<row, del, due, scan, up, mails, pushed, faults>>
      /\ slot[w].pc = "idle" /\ job[e].state \in {"waiting", "delayed"}
  BY DEF IInv, Pick
<1>2. PICK old \in Job : old = job[e]
  BY <1>1 DEF Shapes
<1>3. PICK new : new = [old EXCEPT !.state = "active", !.holder = w]
  OBVIOUS
<1>4. new \in Job /\ new.state = "active" /\ new.holder = w
  BY <1>2, <1>3 DEF Job
<1>5. job' = [job EXCEPT ![e] = new]
  BY <1>2, <1>3 DEF Pick
<1>6. /\ job' \in [Deliveries -> Job] /\ job'[e] = new
      /\ \A d \in Deliveries \ {e} : job'[d] = job[d]
  BY <1>1, <1>4, <1>5 DEF Shapes
<1>7. PICK s : s = [IdleSlot EXCEPT !.pc = "start", !.d = e]
  OBVIOUS
<1>8. s \in SlotRow /\ s.pc = "start" /\ s.d = e
  BY <1>7 DEF SlotRow, IdleSlot
<1>9. slot' = [slot EXCEPT ![w] = s]
  BY <1>7 DEF Pick
<1>10. /\ slot' \in [Slots -> SlotRow] /\ slot'[w] = s
       /\ \A v \in Slots \ {w} : slot'[v] = slot[v]
  BY <1>1, <1>8, <1>9 DEF Shapes
<1>11. Shapes' /\ JobsOK'
  BY <1>1, <1>4, <1>6, <1>10 DEF Shapes, JobsOK
<1>12. Grows
  BY <1>1 DEF Grows, Shapes, NoteRow
<1>13. SlotsOK'
  <2>1. SlotOK(s)'
    BY <1>8 DEF SlotOK
  <2> QED
    BY <1>1, <1>10, <1>11, <1>12, <2>1, SlotsKept
<1>14. ClaimsApart'
  BY <1>1, <1>8, <1>10, ApartKept
<1>15. job[e].holder = None /\ None \notin Slots
  BY <1>1 DEF JobsOK, OutboxAssumption
<1>16. ASSUME NEW n \in Notes PROVE CountOK(n)'
  <2>1. Mail(n) \in Deliveries /\ CountOK(n)
    BY <1>1 DEF Mail, Deliveries, Channels, Counts
  <2>2. OneMoves(w, n)
    BY <1>4, <1>6, <1>10, <1>15, <2>1 DEF OneMoves, Holds
  <2>3. CASE e # Mail(n)
    <3>1. ~At(n, w, Works) /\ ~At(n, w, Works)'
      BY <1>1, <1>8, <1>10, <2>3 DEF At, Works
    <3> QED
      BY <1>1, <2>1, <2>2, <3>1, CountElsewhere DEF Shapes
  <2>4. CASE e = Mail(n)
    <3>1. Holds(n, w)' /\ \A v \in Slots : ~Holds(n, v)
      BY <1>4, <1>6, <1>15, <2>4 DEF Holds
    <3>2. Sending(n)' = Sending(n)
      BY <1>1, <1>8, <1>10 DEF Sending, At
    <3>3. Has(Exposed(n)', w) = 0 /\ Has(Exposed(n), w) = 0
      BY <1>1, <1>8, <1>10, <3>1 DEF Exposed, At, Has
    <3>4. Settled(n) => Settled(n)'
      BY <1>1, <3>1 DEF Settled
    <3>5. Paid(n) <= Paid(n)' /\ Paid(n) \in {0, 1} /\ Paid(n)' \in {0, 1}
      BY <3>4 DEF Paid
    <3>6. /\ mails[n] \in Nat /\ mails'[n] = mails[n] /\ faults \in Nat /\ faults' = faults
          /\ row[n].attempts \in Nat /\ row'[n].attempts = row[n].attempts
      BY <1>1 DEF Shapes, NoteRow
    <3>7. Has(Sending(n)', w) = Has(Sending(n), w) /\ Has(Sending(n), w) \in {0, 1}
      BY <3>2 DEF Has
    <3> QED
      BY <1>1, <1>11, <2>1, <2>2, <3>3, <3>5, <3>6, <3>7, CountHere
  <2> QED
    BY <2>3, <2>4
<1>17. CompleteIsTrue'
  BY <1>1, <1>11, <1>12, CompleteStays
<1> QED
  BY <1>11, <1>13, <1>14, <1>16, <1>17 DEF IInv, Counts

LEMMA EnqueueStep ==
    ASSUME OutboxAssumption, IInv, Enqueue
    PROVE  IInv'
<1>1. Shapes /\ JobsOK /\ UNCHANGED <<row, del, due, slot, up, mails, pushed>>
  BY DEF IInv, Enqueue
<1>2. CASE job' = [job EXCEPT ![Head(scan)] = Requeued(@)] /\ UNCHANGED faults
  <2>1. PICK h : h = Head(scan)
    OBVIOUS
  <2>2. ASSUME NEW d \in Deliveries
        PROVE  /\ job'[d] \in Job /\ job'[d].holder = job[d].holder
               /\ job'[d].holder # None => job'[d].state = "active"
    <3>1. PICK old \in Job : old = job[d]
      BY <1>1 DEF Shapes
    <3>2. PICK new : new = [NoJob EXCEPT !.state = "waiting"]
      OBVIOUS
    <3>3. new \in Job /\ new.holder = None
      BY <3>2 DEF Job, NoJob
    <3>4. job'[d] = old \/ (job'[d] = new /\ old.state # "active")
      BY <1>1, <1>2, <2>1, <3>1, <3>2 DEF Requeued, Shapes
    <3>5. old.holder # None => old.state = "active"
      BY <1>1, <3>1 DEF JobsOK
    <3> QED
      BY <3>1, <3>3, <3>4, <3>5
  <2>3. Shapes' /\ JobsOK'
    BY <1>1, <1>2, <2>2 DEF Shapes, JobsOK
  <2> QED
    BY <1>1, <1>2, <2>2, <2>3, SlotsHeld
<1>3. CASE Fault /\ UNCHANGED job
  <2>1. Shapes' /\ JobsOK' /\ faults' = faults + 1
    BY <1>1, <1>3 DEF Shapes, JobsOK, Fault
  <2> QED
    BY <1>1, <1>3, <2>1, SlotsHeld
<1> QED
  BY <1>2, <1>3 DEF Enqueue

LEMMA CrashStep ==
    ASSUME OutboxAssumption, IInv, Crash
    PROVE  IInv'
<1>1. /\ Shapes /\ JobsOK /\ Counts /\ CompleteIsTrue
      /\ UNCHANGED <<row, del, due, job, mails, pushed>>
      /\ slot' = [w \in Slots |-> IdleSlot] /\ faults' = faults + 1
  BY DEF IInv, Crash, Fault
<1>2. IdleSlot \in SlotRow /\ IdleSlot.pc = "idle"
  BY DEF IdleSlot, SlotRow
<1>3. Shapes' /\ JobsOK'
  BY <1>1, <1>2 DEF Shapes, JobsOK
<1>4. SlotsOK' /\ ClaimsApart'
  BY <1>1, <1>2 DEF SlotsOK, SlotOK, ClaimsApart
<1>5. ASSUME NEW n \in Notes PROVE CountOK(n)'
  <2>1. Sending(n)' = {} /\ Exposed(n)' = {}
    BY <1>1, <1>2 DEF Sending, Exposed, At
  <2>2. Cardinality(Sending(n))' = 0 /\ Cardinality(Exposed(n))' = 0
    BY <2>1, FS_EmptySet
  <2>3. /\ mails[n] \in Nat /\ faults \in Nat /\ row[n].attempts \in Nat
        /\ Cardinality(Sending(n)) \in Nat /\ Cardinality(Exposed(n)) \in Nat
    BY <1>1, FiniteSlots DEF Shapes, NoteRow
  <2>4. CountOK(n)
    BY <1>1 DEF Counts
  <2>5. mails[n] <= faults + 1 /\ mails[n] <= row[n].attempts
    BY <2>3, <2>4 DEF CountOK
  <2> QED
    BY <1>1, <2>2, <2>3, <2>5 DEF CountOK
<1>6. Grows
  BY <1>1 DEF Grows, Shapes, NoteRow
<1>7. CompleteIsTrue'
  BY <1>1, <1>3, <1>6, CompleteStays
<1> QED
  BY <1>3, <1>4, <1>5, <1>7 DEF IInv, Counts

LEMMA LoseJobStep ==
    ASSUME OutboxAssumption, IInv, NEW e \in Deliveries, NEW to \in {"absent", "waiting", "failed"},
           LoseJob(e, to)
    PROVE  IInv'
<1>1. /\ Shapes /\ JobsOK /\ Counts /\ faults' = faults + 1
      /\ UNCHANGED <<row, del, due, scan, slot, up, mails, pushed>>
  BY DEF IInv, LoseJob, Fault
<1>2. PICK new : new = [NoJob EXCEPT !.state = to]
  OBVIOUS
<1>3. new \in Job /\ new.holder = None
  BY <1>2 DEF Job, NoJob
<1>4. job' = [job EXCEPT ![e] = new]
  BY <1>2 DEF LoseJob
<1>5. /\ job' \in [Deliveries -> Job] /\ job'[e] = new
      /\ \A d \in Deliveries \ {e} : job'[d] = job[d]
  BY <1>1, <1>3, <1>4 DEF Shapes
<1>6. Shapes' /\ JobsOK'
  BY <1>1, <1>3, <1>5 DEF Shapes, JobsOK
<1>7. SlotsOK' /\ ClaimsApart' /\ CompleteIsTrue'
  BY <1>1, <1>6, SlotsRest
<1>8. CASE job[e].holder \notin Slots
  BY <1>1, <1>3, <1>5, <1>6, <1>8, SlotsHeld DEF OutboxAssumption
<1>9. CASE job[e].holder \in Slots
  <2>1. PICK h \in Slots : h = job[e].holder
    BY <1>9
  <2>2. None \notin Slots
    BY DEF OutboxAssumption
  <2>3. ASSUME NEW n \in Notes PROVE CountOK(n)'
    <3>1. Mail(n) \in Deliveries /\ CountOK(n)
      BY <1>1 DEF Mail, Deliveries, Channels, Counts
    <3>2. OneMoves(h, n) /\ Sending(n)' = Sending(n)
      BY <1>1, <1>3, <1>5, <2>1, <2>2, <3>1 DEF OneMoves, Holds, Sending, At
    <3>3. CASE e # Mail(n)
      <4>1. Exposed(n)' = Exposed(n) /\ (Settled(n) => Settled(n)')
        BY <1>1, <1>5, <3>1, <3>3 DEF Exposed, Settled, At, Holds
      <4> QED
        BY <1>1, <3>1, <3>2, <4>1, CountStays DEF Shapes
    <3>4. CASE e = Mail(n)
      <4>1. Holds(n, h) /\ ~Holds(n, h)' /\ \A v \in Slots : Holds(n, v) => v = h
        BY <1>3, <1>5, <2>1, <2>2, <3>4 DEF Holds
      <4>2. /\ mails[n] \in Nat /\ mails'[n] = mails[n] /\ faults \in Nat
            /\ row[n].attempts \in Nat /\ row'[n].attempts = row[n].attempts
        BY <1>1 DEF Shapes, NoteRow
      <4>3. Has(Sending(n)', h) = Has(Sending(n), h) /\ Has(Sending(n), h) \in {0, 1}
        BY <3>2 DEF Has
      <4>4. Paid(n) \in {0, 1} /\ Paid(n)' \in {0, 1}
        BY DEF Paid
      <4>5. CASE At(n, h, {"send", "record"})
        <5>1. Has(Exposed(n)', h) = Has(Exposed(n), h) /\ Has(Exposed(n), h) \in {0, 1}
          BY <1>1, <4>5 DEF Exposed, At, Has
        <5> QED
          BY <1>1, <1>6, <3>1, <3>2, <4>2, <4>3, <4>4, <5>1, CountHere
      <4>6. CASE ~At(n, h, {"send", "record"})
        <5>1. Settled(n) => Settled(n)'
          BY <1>1, <4>1, <4>6 DEF Settled
        <5>2. Paid(n) <= Paid(n)'
          BY <5>1 DEF Paid
        <5>3. Has(Exposed(n)', h) \in {0, 1} /\ Has(Exposed(n), h) \in {0, 1}
          BY DEF Has
        <5> QED
          BY <1>1, <1>6, <3>1, <3>2, <4>2, <4>3, <4>4, <5>2, <5>3, CountHere
      <4> QED
        BY <4>5, <4>6
    <3> QED
      BY <3>3, <3>4
  <2> QED
    BY <1>6, <1>7, <2>3 DEF IInv, Counts
<1> QED
  BY <1>8, <1>9

LEMMA RecoverStep ==
    ASSUME OutboxAssumption, IInv, NEW e \in Deliveries, NEW to \in {"waiting", "failed"},
           Recover(e, to)
    PROVE  IInv'
<1>1. /\ Shapes /\ JobsOK
      /\ UNCHANGED <<row, del, due, scan, slot, up, mails, pushed, faults>>
      /\ \A w \in Slots : job[e].holder = w => slot[w].d # e
  BY DEF IInv, Recover
<1>2. PICK old \in Job : old = job[e]
  BY <1>1 DEF Shapes
<1>3. PICK new : new = [old EXCEPT !.state = to, !.holder = None]
  OBVIOUS
<1>4. new \in Job /\ new.holder = None
  BY <1>2, <1>3 DEF Job
<1>5. job' = [job EXCEPT ![e] = new]
  BY <1>2, <1>3 DEF Recover
<1>6. /\ job' \in [Deliveries -> Job] /\ job'[e] = new
      /\ \A d \in Deliveries \ {e} : job'[d] = job[d]
  BY <1>1, <1>4, <1>5 DEF Shapes
<1>7. Shapes' /\ JobsOK'
  BY <1>1, <1>4, <1>6 DEF Shapes, JobsOK
<1>8. None \notin Slots
  BY DEF OutboxAssumption
<1> QED
  BY <1>1, <1>4, <1>6, <1>7, <1>8, SlotsHeld

-----------------------------------------------------------------------------
(* The invariant, and what it is for *)

LEMMA NextStep ==
    ASSUME OutboxAssumption, IInv, [Next]_vars
    PROVE  IInv'
<1>1. CASE \E n \in Notes : CreateIdempotent(n) \/ Reconcile({n})
  BY <1>1, CreateStep, IdleStep DEF Reconcile
<1>2. CASE \E S : MarkRead(S)
  BY <1>2, MarkReadStep
<1>3. CASE Reconcile(Notes) \/ Restart \/ \E d \in Deliveries : Elapse(d)
  BY <1>3, IdleStep DEF Reconcile, Restart, Elapse
<1>4. CASE Enqueue \/ Crash
  BY <1>4, EnqueueStep, CrashStep
<1>5. CASE \E w \in Slots : WorkerStep(w)
  BY <1>5, StartJobStep, EmitStep, ClaimMailStep, SendMailStep, RecordMailStep, CompleteJobStep
     DEF WorkerStep
<1>6. CASE \E w \in Slots, d \in Deliveries : Pick(w, d)
  BY <1>6, PickStep
<1>7. CASE \E d \in Deliveries : \E to \in {"absent", "waiting", "failed"} : LoseJob(d, to)
  BY <1>7, LoseJobStep
<1>8. CASE \E d \in Deliveries : \E to \in {"waiting", "failed"} : Recover(d, to)
  BY <1>8, RecoverStep
<1>9. CASE UNCHANGED vars
  BY <1>9, IdleStep DEF vars
<1> QED
  BY <1>1, <1>2, <1>3, <1>4, <1>5, <1>6, <1>7, <1>8, <1>9 DEF Next

LEMMA InitHolds ==
    ASSUME OutboxAssumption, Init
    PROVE  IInv
<1>1. NoJob \in Job /\ NoJob.holder = None /\ IdleSlot \in SlotRow /\ IdleSlot.pc = "idle"
  BY DEF NoJob, Job, IdleSlot, SlotRow
<1>2. Shapes
  BY <1>1 DEF Init, Shapes, NoteRow
<1>3. JobsOK /\ SlotsOK /\ ClaimsApart
  BY <1>1 DEF Init, JobsOK, SlotsOK, SlotOK, ClaimsApart
<1>4. ASSUME NEW n \in Notes PROVE CountOK(n)
  <2>1. Sending(n) = {} /\ Exposed(n) = {}
    BY <1>1 DEF Init, Sending, Exposed, At
  <2>2. Cardinality(Sending(n)) = 0 /\ Cardinality(Exposed(n)) = 0
    BY <2>1, FS_EmptySet
  <2> QED
    BY <2>2 DEF Init, CountOK
<1>5. CompleteIsTrue
  BY DEF Init, CompleteIsTrue, Deliveries, Channels
<1> QED
  BY <1>2, <1>3, <1>4, <1>5 DEF IInv, Counts

LEMMA MailsCounted ==
    ASSUME OutboxAssumption, IInv
    PROVE  NoGratuitousMail
<1>1. ASSUME NEW n \in Notes PROVE mails[n] <= 1 + faults /\ mails[n] <= row[n].attempts
  <2>1. /\ mails[n] \in Nat /\ faults \in Nat /\ row[n].attempts \in Nat
        /\ Cardinality(Sending(n)) \in Nat /\ Cardinality(Exposed(n)) \in Nat
    BY FiniteSlots DEF IInv, Shapes, NoteRow
  <2>2. CountOK(n)
    BY DEF IInv, Counts
  <2> QED
    BY <2>1, <2>2 DEF CountOK
<1>2. ASSUME NEW v \in Slots, NEW w \in Slots, v # w, slot[v].d = slot[w].d,
             {slot[v].pc, slot[w].pc} \subseteq {"send", "record"}
      PROVE  slot[v].attempts # slot[w].attempts
  BY <1>2 DEF IInv, ClaimsApart
<1> QED
  BY <1>1, <1>2 DEF NoGratuitousMail

(* A step keeps what is done if it takes nothing back and no slot comes to  *)
(* emit or to claim anew unless its delivery is pending.                    *)
Anew(w) == slot'[w].pc \in {"emit", "claim"} /\ slot'[w] # slot[w]

LEMMA DoneByParts ==
    ASSUME \A d \in Deliveries : del[d] = "done" => del'[d] = "done",
           \A w \in Slots : Anew(w) => Pending(slot'[w].d)
    PROVE  DoneKept
BY DEF DoneKept, Anew, Pending

LEMMA DoneByWorker ==
    ASSUME Shapes, NEW w \in Slots, WorkerStep(w)
    PROVE  DoneKept
<1>1. ASSUME NEW d \in Deliveries, del[d] = "done" PROVE del'[d] = "done"
  BY <1>1 DEF WorkerStep, StartJob, Emit, ClaimMail, SendMail, RecordMail, CompleteJob, Complete, Shapes
<1>2. ASSUME Finish(w, FALSE) \/ Finish(w, TRUE), NEW v \in Slots PROVE ~Anew(v)
  BY <1>2 DEF Finish, Anew, Shapes, IdleSlot
<1>3. ASSUME NEW pc, NEW v \in Slots, Goto(w, pc) PROVE Anew(v) => v = w /\ pc \in {"emit", "claim"}
  <2>1. CASE v = w
    <3>1. PICK old \in SlotRow : old = slot[w]
      BY DEF Shapes
    <3>2. PICK s : s = [old EXCEPT !.pc = pc]
      OBVIOUS
    <3>3. s.pc = pc
      BY <3>2 DEF SlotRow
    <3>4. slot'[w] = s
      BY <1>3, <3>1, <3>2 DEF Goto, Shapes
    <3> QED
      BY <2>1, <3>3, <3>4 DEF Anew
  <2>2. CASE v # w
    BY <1>3, <2>2 DEF Goto, Anew, Shapes
  <2> QED
    BY <2>1, <2>2
<1>4. ASSUME NEW v \in Slots, Anew(v) PROVE Pending(slot'[v].d)
  <2>1. PICK old \in SlotRow : old = slot[w]
    BY DEF Shapes
  <2>2. v = w /\ StartJob(w) /\ Pending(old.d)
    <3>1. CASE StartJob(w)
      <4>1. CASE Pending(old.d)
        <5>1. CASE Goto(w, "emit")
          BY <1>3, <1>4, <3>1, <4>1, <5>1
        <5>2. CASE slot' = [slot EXCEPT ![w].pc = "claim", ![w].attempts = row[old.d[1]].attempts]
          <6>1. v # w => slot'[v] = slot[v]
            BY <5>2 DEF Shapes
          <6> QED
            BY <1>4, <3>1, <4>1, <6>1 DEF Anew
        <5>3. CASE Finish(w, FALSE)
          BY <1>2, <1>4, <5>3
        <5> QED
          BY <2>1, <3>1, <5>1, <5>2, <5>3 DEF StartJob
      <4>2. CASE ~Pending(old.d)
        BY <1>2, <1>4, <2>1, <3>1, <4>2 DEF StartJob
      <4> QED
        BY <4>1, <4>2
    <3>2. CASE Emit(w) \/ ClaimMail(w) \/ SendMail(w) \/ RecordMail(w) \/ CompleteJob(w)
      <4>1. \/ Finish(w, FALSE) \/ Finish(w, TRUE)
            \/ Goto(w, "send") \/ Goto(w, "record") \/ Goto(w, "complete")
        BY <3>2 DEF Emit, ClaimMail, SendMail, RecordMail, CompleteJob
      <4>2. ~Goto(w, "send") /\ ~Goto(w, "record") /\ ~Goto(w, "complete")
        BY <1>3, <1>4
      <4> QED
        BY <1>2, <1>4, <4>1, <4>2
    <3> QED
      BY <3>1, <3>2 DEF WorkerStep
  <2>3. slot'[w].d = old.d
    <3>1. CASE Goto(w, "emit")
      BY <2>1, <3>1, GotoFacts, GoesFacts DEF Goes
    <3>2. CASE slot' = [slot EXCEPT ![w].pc = "claim", ![w].attempts = row[old.d[1]].attempts]
      <4>1. PICK s : s = [old EXCEPT !.pc = "claim", !.attempts = row[old.d[1]].attempts]
        OBVIOUS
      <4>2. s.d = old.d
        BY <4>1 DEF SlotRow
      <4>3. slot'[w] = s
        BY <2>1, <3>2, <4>1 DEF Shapes
      <4> QED
        BY <4>2, <4>3
    <3>3. Goto(w, "emit") \/ slot' = [slot EXCEPT ![w].pc = "claim", ![w].attempts = row[old.d[1]].attempts]
      BY <1>2, <1>4, <2>1, <2>2 DEF StartJob
    <3> QED
      BY <3>1, <3>2, <3>3
  <2> QED
    BY <2>2, <2>3
<1> QED
  BY <1>1, <1>4, DoneByParts

LEMMA DoneStep ==
    ASSUME OutboxAssumption, IInv, Next
    PROVE  DoneKept
<1>1. Shapes
  BY DEF IInv
<1>2. CASE \E w \in Slots : WorkerStep(w)
  BY <1>1, <1>2, DoneByWorker
<1>3. CASE \E w \in Slots, e \in Deliveries : Pick(w, e)
  <2>1. PICK w \in Slots, e \in Deliveries : Pick(w, e)
    BY <1>3
  <2>2. PICK s : s = [IdleSlot EXCEPT !.pc = "start", !.d = e]
    OBVIOUS
  <2>3. s.pc = "start"
    BY <2>2 DEF IdleSlot
  <2>4. slot' = [slot EXCEPT ![w] = s] /\ del' = del
    BY <2>1, <2>2 DEF Pick
  <2>5. \A v \in Slots : ~Anew(v)
    BY <1>1, <2>3, <2>4 DEF Anew, Shapes
  <2> QED
    BY <2>4, <2>5, DoneByParts
<1>4. CASE Crash
  BY <1>4, DoneByParts DEF Crash, Anew, IdleSlot
<1>5. CASE \E n \in Notes : CreateIdempotent(n)
  BY <1>5, DoneByParts DEF CreateIdempotent, Anew
<1>6. CASE UNCHANGED <<del, slot>>
  BY <1>6, DoneByParts DEF Anew
<1>7. \/ \E w \in Slots : WorkerStep(w) \/ \E e \in Deliveries : Pick(w, e)
      \/ Crash \/ \E n \in Notes : CreateIdempotent(n)
      \/ UNCHANGED <<del, slot>>
  BY DEF Next, Reconcile, MarkRead, Enqueue, Restart, Elapse, LoseJob, Recover
<1> QED
  BY <1>2, <1>3, <1>4, <1>5, <1>6, <1>7

(* MailsAreTrue, for any notifications, slots, batches, tries and faults: a *)
(* mail is doubled by a fault only and never by two workers on one claim, a *)
(* delivery marked complete took place, and nothing of it starts anew.      *)
THEOREM MailsHold == ASSUME OutboxAssumption PROVE Behaviour => MailsAreTrue
<1>1. Init => IInv
  BY InitHolds
<1>2. IInv /\ [Next]_vars => IInv'
  BY NextStep
<1>3. IInv => NoGratuitousMail /\ CompleteIsTrue
  BY MailsCounted DEF IInv
<1>4. IInv /\ [Next]_vars => [DoneKept]_vars
  BY DoneStep
<1> QED
  BY <1>1, <1>2, <1>3, <1>4, PTL DEF Behaviour, MailsAreTrue, DoneStaysDone
=============================================================================
