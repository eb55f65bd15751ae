------------------------- MODULE NotificationOutbox -------------------------
(***************************************************************************)
(* The notification outbox (NotificationsService, NotificationJobsService, *)
(* EmailSender). A command writes its notifications and one delivery row   *)
(* per channel in its own transaction. A reconciliation, run by a timer    *)
(* and after each commit, claims the deliveries that are due and puts a    *)
(* BullMQ job into Redis for each; workers push to the sockets or send the *)
(* mail and mark the delivery complete.                                    *)
(*                                                                         *)
(* Nothing spans PostgreSQL, Redis and the mail server: the process may    *)
(* stop, Redis may lose a job, a job's lock may expire under its worker,   *)
(* and the mail server may accept a mail and time out.                     *)
(***************************************************************************)
EXTENDS Naturals, FiniteSets, Sequences, SequencesExt

CONSTANTS
    Notes,      \* notifications, by user and eventKey
    Mailable,   \* those of a customer and of an e-mail type
    Readable,   \* those whose user opens the notification centre
    Enabled,    \* EMAIL_DELIVERY_ENABLED
    Slots,      \* concurrent job slots of the workers
    Batch,      \* LIMIT of a reconciliation
    MaxTries,   \* BullMQ attempts
    MaxFaults,  \* bound on faults
    None

(* What the constants must satisfy. *)
OutboxAssumption ==
    /\ Mailable \subseteq Notes /\ Readable \subseteq Notes /\ Enabled \in BOOLEAN
    /\ Batch \in Nat \ {0} /\ MaxTries \in Nat \ {0} /\ MaxFaults \in Nat
    /\ IsFiniteSet(Slots) /\ None \notin Slots

VARIABLES
    row,     \* Notification rows
    del,     \* NotificationDelivery rows: "none", "open" or "done"
    due,     \* open deliveries whose nextAttemptAt has come, oldest first
    job,     \* BullMQ jobs, in Redis
    scan,    \* deliveries the running reconciliation still has to enqueue
    slot,    \* what each worker slot is doing
    up,      \* the backend process runs
    mails,   \* mails the mail server accepted
    pushed,  \* notifications emitted to the user's sockets
    faults   \* faults so far

vars == <<row, del, due, job, scan, slot, up, mails, pushed, faults>>

Channels == {"REALTIME", "EMAIL"}
Deliveries == Notes \X Channels

NoteRow == [made : BOOLEAN, sent : BOOLEAN, attempts : Nat, read : BOOLEAN]
JobRow == [state : {"absent", "waiting", "active", "delayed", "failed", "completed"},
           tries : 0 .. MaxTries, holder : Slots \cup {None}]
SlotRow == [pc : {"idle", "start", "emit", "claim", "send", "record", "complete"},
            d : Deliveries \cup {None}, attempts : Nat]
NoJob == [state |-> "absent", tries |-> 0, holder |-> None]
IdleSlot == [pc |-> "idle", d |-> None, attempts |-> 0]

(* Every variable has its type. *)
TypeOK ==
    /\ row \in [Notes -> NoteRow]
    /\ del \in [Deliveries -> {"none", "open", "done"}]
    /\ due \in Seq(Deliveries) /\ scan \in Seq(Deliveries)
    /\ job \in [Deliveries -> JobRow]
    /\ slot \in [Slots -> SlotRow]
    /\ up \in BOOLEAN
    /\ mails \in [Notes -> Nat]
    /\ pushed \in SUBSET Notes
    /\ faults \in 0 .. MaxFaults

Fault == faults < MaxFaults /\ faults' = faults + 1

-----------------------------------------------------------------------------
(* Commands and users *)

(* createIdempotent, in the transaction of the command: a retry of the      *)
(* command finds the row and its deliveries and leaves them as they are.    *)
CreateIdempotent(n) ==
    /\ up
    /\ row' = [row EXCEPT ![n].made = TRUE]
    /\ del' = [d \in Deliveries |-> IF d[1] = n /\ del[d] = "none" THEN "open" ELSE del[d]]
    /\ due' = IF row[n].made THEN due ELSE due \o <<<<n, "EMAIL">>, <<n, "REALTIME">>>>
    /\ UNCHANGED <<job, scan, slot, up, mails, pushed, faults>>

(* markRead, and markAllRead over all of the user's notifications. *)
MarkRead(S) ==
    /\ up /\ \E n \in S : row[n].made /\ ~row[n].read
    /\ row' = [n \in Notes |-> IF n \in S /\ row[n].made THEN [row[n] EXCEPT !.read = TRUE]
                               ELSE row[n]]
    /\ UNCHANGED <<del, due, job, scan, slot, up, mails, pushed, faults>>

-----------------------------------------------------------------------------
(* Reconciliation *)

(* nextAttemptAt of an open delivery comes. *)
Elapse(d) ==
    /\ del[d] = "open" /\ ~Contains(due, d)
    /\ due' = Append(due, d)
    /\ UNCHANGED <<row, del, job, scan, slot, up, mails, pushed, faults>>

(* The claim of reconcileBatch: at most Batch of the due deliveries of S,   *)
(* the oldest first, due again only after a backoff.                        *)
ClaimDue(S) ==
    LET mine == SelectSeq(due, LAMBDA d : d[1] \in S)
        claimed == SubSeq(mine, 1, IF Len(mine) < Batch THEN Len(mine) ELSE Batch) IN
    /\ scan' = claimed
    /\ due' = SelectSeq(due, LAMBDA d : ~Contains(claimed, d))

(* reconcile: one at a time; a call that meets a running one does nothing,  *)
(* so a notification just committed may have to wait for the timer.         *)
Reconcile(S) ==
    /\ up /\ scan = <<>>
    /\ \E i \in DOMAIN due : due[i][1] \in S
    /\ ClaimDue(S)
    /\ UNCHANGED <<row, del, job, slot, up, mails, pushed, faults>>

RequeuedAbsent(j) ==  \* mutant: an exhausted job is left where it is
    IF j.state = "absent" THEN [NoJob EXCEPT !.state = "waiting"] ELSE j

Requeued(j) == IF j.state \in {"absent", "failed", "completed"}
               THEN [NoJob EXCEPT !.state = "waiting"] ELSE j

(* One turn of the loop: the job is added, or retried if BullMQ gave it up. *)
Enqueue ==
    /\ up /\ scan # <<>>
    /\ scan' = Tail(scan)
    /\ \/ job' = [job EXCEPT ![Head(scan)] = Requeued(@)] /\ UNCHANGED faults
       \/ Fault /\ UNCHANGED job   \* Redis does not answer
    /\ UNCHANGED <<row, del, due, slot, up, mails, pushed>>

-----------------------------------------------------------------------------
(* Workers *)

Pick(w, d) ==
    /\ up /\ slot[w].pc = "idle" /\ job[d].state \in {"waiting", "delayed"}
    /\ job' = [job EXCEPT ![d].state = "active", ![d].holder = w]
    /\ slot' = [slot EXCEPT ![w] = [IdleSlot EXCEPT !.pc = "start", !.d = d]]
    /\ UNCHANGED <<row, del, due, scan, up, mails, pushed, faults>>

(* BullMQ's answer to the end of a processor, if it still holds the job. *)
Finish(w, failed) ==
    LET d == slot[w].d
        tries == job[d].tries + 1
        end == IF ~failed THEN "completed" ELSE IF tries < MaxTries THEN "delayed" ELSE "failed" IN
    /\ slot' = [slot EXCEPT ![w] = IdleSlot]
    /\ job' = IF job[d].holder = w
              THEN [job EXCEPT ![d] = [state |-> end, tries |-> IF failed THEN tries ELSE @.tries,
                                       holder |-> None]]
              ELSE job

Goto(w, pc) == slot' = [slot EXCEPT ![w].pc = pc] /\ UNCHANGED job

Complete(d) ==
    /\ del' = [del EXCEPT ![d] = "done"]
    /\ due' = SelectSeq(due, LAMBDA e : e # d)

Pending(d) == del[d] # "done"

(* pending, and for a mail the row as processEmail reads it. *)
StartJob(w) ==
    LET d == slot[w].d
        n == d[1] IN
    /\ slot[w].pc = "start"
    /\ \/ ~Pending(d) /\ Finish(w, FALSE) /\ UNCHANGED <<del, due>>
       \/ Pending(d) /\ d[2] = "REALTIME" /\ Goto(w, "emit") /\ UNCHANGED <<del, due>>
       \/ /\ Pending(d) /\ d[2] = "EMAIL"
          /\ ~Enabled \/ row[n].sent \/ n \notin Mailable
          /\ Complete(d) /\ Finish(w, FALSE)
       \/ /\ Pending(d) /\ d[2] = "EMAIL" /\ Enabled /\ n \in Mailable /\ ~row[n].sent
          /\ slot' = [slot EXCEPT ![w].pc = "claim", ![w].attempts = row[n].attempts]
          /\ UNCHANGED <<job, del, due>>
    /\ UNCHANGED <<row, scan, up, mails, pushed, faults>>

(* gateway.emitNotification: without sockets it succeeds; it fails when a   *)
(* socket's authorization cannot be read.                                   *)
Emit(w) ==
    /\ slot[w].pc = "emit"
    /\ \/ /\ pushed' = pushed \cup {slot[w].d[1]}
          /\ Goto(w, "complete") /\ UNCHANGED faults
       \/ Fault /\ Finish(w, TRUE) /\ UNCHANGED pushed
    /\ UNCHANGED <<row, del, due, scan, up, mails>>

ClaimableLoose(w) == ~row[slot[w].d[1]].sent  \* mutant: attempts are not compared

Claimable(w) == ~row[slot[w].d[1]].sent /\ row[slot[w].d[1]].attempts = slot[w].attempts

(* Whoever loses the claim ends its job; the delivery stays open. *)
ClaimMail(w) ==
    /\ slot[w].pc = "claim"
    /\ \/ /\ Claimable(w)
          /\ row' = [row EXCEPT ![slot[w].d[1]].attempts = @ + 1]
          /\ Goto(w, "send")
       \/ ~Claimable(w) /\ Finish(w, FALSE) /\ UNCHANGED row
    /\ UNCHANGED <<del, due, scan, up, mails, pushed, faults>>

(* The mail server accepts the mail and says so; accepts it and the answer  *)
(* is lost; or refuses it.                                                  *)
SendMail(w) ==
    LET n == slot[w].d[1] IN
    /\ slot[w].pc = "send"
    /\ \/ mails' = [mails EXCEPT ![n] = @ + 1] /\ Goto(w, "record") /\ UNCHANGED faults
       \/ /\ Fault /\ Finish(w, TRUE)
          /\ mails' \in {mails, [mails EXCEPT ![n] = @ + 1]}
    /\ UNCHANGED <<row, del, due, scan, up, pushed>>

RecordMail(w) ==
    LET n == slot[w].d[1] IN
    /\ slot[w].pc = "record"
    /\ \/ row' = [row EXCEPT ![n].sent = TRUE] /\ Goto(w, "complete") /\ UNCHANGED faults
       \/ /\ Fault /\ Finish(w, TRUE) /\ UNCHANGED row    \* the database does not answer
    /\ UNCHANGED <<del, due, scan, up, mails, pushed>>

CompleteJob(w) ==
    /\ slot[w].pc = "complete"
    /\ \/ Complete(slot[w].d) /\ Finish(w, FALSE) /\ UNCHANGED faults
       \/ Fault /\ Finish(w, TRUE) /\ UNCHANGED <<del, due>>
    /\ UNCHANGED <<row, scan, up, mails, pushed>>

-----------------------------------------------------------------------------
(* Faults *)

(* The process stops; BullMQ keeps its active jobs until they count as stalled. *)
Crash ==
    /\ up /\ Fault
    /\ up' = FALSE /\ scan' = <<>>
    /\ slot' = [w \in Slots |-> IdleSlot]
    /\ UNCHANGED <<row, del, due, job, mails, pushed>>

Restart == ~up /\ up' = TRUE
           /\ UNCHANGED <<row, del, due, job, scan, slot, mails, pushed, faults>>

(* A worker's lock on its job expires while it works, or Redis loses the    *)
(* job: another slot may take it up.                                        *)
LoseJob(d, to) ==
    /\ job[d].state # "absent" /\ Fault
    /\ to = "absent" \/ job[d].state = "active"
    /\ job' = [job EXCEPT ![d] = [NoJob EXCEPT !.state = to]]
    /\ UNCHANGED <<row, del, due, scan, slot, up, mails, pushed>>

(* BullMQ finds an active job whose worker is gone: once it waits again, the *)
(* second time it has failed.                                                *)
Recover(d, to) ==
    /\ up /\ job[d].state = "active"
    /\ \A w \in Slots : job[d].holder = w => slot[w].d # d
    /\ job' = [job EXCEPT ![d] = [@ EXCEPT !.state = to, !.holder = None]]
    /\ UNCHANGED <<row, del, due, scan, slot, up, mails, pushed, faults>>

-----------------------------------------------------------------------------

Init ==
    /\ row = [n \in Notes |-> [made |-> FALSE, sent |-> FALSE, attempts |-> 0, read |-> FALSE]]
    /\ del = [d \in Deliveries |-> "none"]
    /\ due = <<>> /\ scan = <<>>
    /\ job = [d \in Deliveries |-> NoJob]
    /\ slot = [w \in Slots |-> IdleSlot]
    /\ up = TRUE
    /\ mails = [n \in Notes |-> 0]
    /\ pushed = {} /\ faults = 0

WorkerStep(w) == StartJob(w) \/ Emit(w) \/ ClaimMail(w) \/ SendMail(w) \/ RecordMail(w) \/ CompleteJob(w)

Next ==
    \/ \E n \in Notes : CreateIdempotent(n) \/ Reconcile({n})
    \/ \E n \in Readable : MarkRead({n})
    \/ MarkRead(Readable) \/ Reconcile(Notes) \/ Enqueue \/ Crash \/ Restart
    \/ \E w \in Slots : WorkerStep(w) \/ \E d \in Deliveries : Pick(w, d)
    \/ \E d \in Deliveries :
          \/ Elapse(d)
          \/ \E to \in {"absent", "waiting", "failed"} : LoseJob(d, to)
          \/ \E to \in {"waiting", "failed"} : Recover(d, to)

(* The timer fires every five seconds, backoffs elapse, BullMQ hands out    *)
(* waiting jobs and finds stalled ones, workers go on, and a stopped        *)
(* process is started again.                                                *)
Fairness ==
    /\ WF_vars(Reconcile(Notes)) /\ WF_vars(Enqueue) /\ WF_vars(Restart)
    /\ \A d \in Deliveries :
          /\ WF_vars(Elapse(d))
          /\ WF_vars(\E to \in {"waiting", "failed"} : Recover(d, to))
          /\ SF_vars(\E w \in Slots : Pick(w, d))
    /\ \A w \in Slots : WF_vars(WorkerStep(w))

Behaviour == Init /\ [][Next]_vars
Spec == Behaviour /\ Fairness

-----------------------------------------------------------------------------
(* Properties *)

(* A mail goes out again only because of a fault, once for each, and two    *)
(* workers never send it on the strength of the same claim: a lost lock, a  *)
(* job put back or a retry alone does not double a mail.                    *)
NoGratuitousMail ==
    /\ \A n \in Notes : mails[n] <= 1 + faults /\ mails[n] <= row[n].attempts
    /\ \A v, w \in Slots :
          v # w /\ slot[v].d = slot[w].d /\ {slot[v].pc, slot[w].pc} \subseteq {"send", "record"}
              => slot[v].attempts # slot[w].attempts

(* A delivery marked complete took place: the mail was accepted and         *)
(* recorded, unless it was disabled or not for mail, and the push was made. *)
CompleteIsTrue == \A n \in Notes :
    /\ del[<<n, "EMAIL">>] = "done" /\ Enabled /\ n \in Mailable => row[n].sent /\ mails[n] > 0
    /\ del[<<n, "REALTIME">>] = "done" => n \in pushed
    /\ row[n].sent => mails[n] > 0

(* Every notification a command committed is delivered on every channel,    *)
(* whatever crashed, was lost or was given up by BullMQ on the way.         *)
EventuallyDelivered == \A n \in Notes :
    row[n].made ~> \A ch \in Channels : del[<<n, ch>>] = "done"

(* Once a delivery is complete nothing of it starts again: no worker claims *)
(* or emits for it anew, though its job may still be retried.               *)
DoneKept == \A d \in Deliveries :
    del[d] = "done" => /\ del'[d] = "done"
                       /\ \A w \in Slots : slot'[w].d = d /\ slot'[w].pc \in {"emit", "claim"} =>
                              slot[w].d = d /\ slot[w].pc = slot'[w].pc
DoneStaysDone == [][DoneKept]_vars

(* The mails and pushes are the ones the rows speak of, in any order of     *)
(* workers, reconciliations and faults.                                     *)
MailsAreTrue == [](NoGratuitousMail /\ CompleteIsTrue) /\ DoneStaysDone
=============================================================================
