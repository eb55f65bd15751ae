----------------------------- MODULE CodCustody -----------------------------
(***************************************************************************)
(* Cash on delivery after the door (CodService and the two COD screens):   *)
(* the driver hands the cash over, an admin confirms or rejects, settles,  *)
(* creates a payout and records it as sent, the customer acknowledges it.  *)
(*                                                                         *)
(* Every command locks the CODTransaction first, so each is one step. What *)
(* is hard is between the screens and the server: a form is filled from a  *)
(* list read earlier, its request or its answer may be lost, the user      *)
(* edits and sends again, and an abandoned copy may still arrive.          *)
(*                                                                         *)
(* Texts stands for what a user types: the note of a handover, the reason  *)
(* of a rejection or dispute, the method, reference and note of a payout.  *)
(***************************************************************************)
EXTENDS Naturals, FiniteSets

CONSTANTS
    Cods,      \* parcels with codAmount > 0
    Drivers, Admins, Customers,
    Owner,     \* the customer of each parcel
    Due,       \* expectedAmount of each COD
    Amounts,   \* amounts a client may send
    Keys,      \* clientRequestId values
    Texts,
    Forms,     \* forms open on the screens of all users
    Acts,      \* commands whose screens are in use
    None

(* What the constants must satisfy. *)
OwnerAssumption == Owner \in [Cods -> Customers]
DueAssumption == Amounts \subseteq Nat \ {0} /\ Due \in [Cods -> Amounts]
NoneAssumption == None \notin Drivers \cup Admins \cup Texts \cup Keys \cup Amounts
KeysAssumption == IsFiniteSet(Keys)

VARIABLES
    cod,     \* CODTransaction rows
    rem,     \* CODRemittance rows, by COD and clientRequestId
    payout,  \* CODPayout rows, one per COD
    log,     \* number of AuditLog rows, by COD and action
    form     \* forms on the screens, with their requests on the wire

rows == <<cod, rem, payout, log>>
vars == <<cod, rem, payout, log, form>>

-----------------------------------------------------------------------------
(* Rows *)

CodRow == [status : {"NONE", "COLLECTED", "REMITTED", "SETTLED"}, by : Drivers \cup {None},
           remitted : Amounts \cup {None}, version : 0 .. 2]
RemRow == [status : {"NONE", "PENDING", "CONFIRMED", "REJECTED"}, by : Drivers \cup {None},
           amount : Amounts \cup {None}, note : Texts \cup {None},
           reviewer : Admins \cup {None}, reason : Texts \cup {None}, version : 0 .. 1]
NoRem == [status |-> "NONE", by |-> None, amount |-> None, note |-> None, reviewer |-> None,
          reason |-> None, version |-> 0]
PayoutRow == [status : {"NONE", "PENDING", "SENT", "PAID_OUT", "DISPUTED"},
              amount : Amounts \cup {None}, terms : Texts \cup {None},
              creator : Admins \cup {None}, sender : Admins \cup {None},
              reason : Texts \cup {None}, version : 0 .. 2]
NoPayout == [status |-> "NONE", amount |-> None, terms |-> None, creator |-> None,
             sender |-> None, reason |-> None, version |-> 0]

Events == {"HANDOVER_SUBMITTED", "HANDOVER_CONFIRMED", "HANDOVER_REJECTED", "REMITTED",
           "SETTLED", "PAYOUT_CREATED", "PAYOUT_SENT", "PAYOUT_RECEIVED", "PAYOUT_DISPUTED"}

DriverActs == {"submit"}
AdminActs == {"confirm", "reject", "settle", "create", "send"}
CustomerActs == {"receive", "dispute"}
AllActs == DriverActs \cup AdminActs \cup CustomerActs
ActAssumption == None \notin AllActs   \* a screen without a command has none of them
Worded == {"submit", "reject", "create", "dispute"}   \* the form has a text field

(* sent is the text of the copy the form waits for, late the texts of copies *)
(* it gave up on that are still on the wire, said the text that took effect. *)
FormRow == [act : AllActs \cup {None}, by : Drivers \cup Admins \cup Customers \cup {None},
            cod : Cods \cup {None}, key : Keys \cup {None}, version : 0 .. 2,
            amount : Amounts \cup {None}, text : Texts \cup {None},
            phase : {"shut", "open", "waiting", "done"}, sent : Texts \cup {None},
            late : SUBSET (Texts \cup {None}), applied : BOOLEAN, said : Texts \cup {None}]
ShutForm == [act |-> None, by |-> None, cod |-> None, key |-> None, version |-> 0,
             amount |-> None, text |-> None, phase |-> "shut", sent |-> None,
             late |-> {}, applied |-> FALSE, said |-> None]

(* Every variable has its type. *)
TypeOK ==
    /\ cod \in [Cods -> CodRow]
    /\ rem \in [Cods -> [Keys -> RemRow]]
    /\ payout \in [Cods -> PayoutRow]
    /\ log \in [Cods -> [Events -> 0 .. Cardinality(Keys) + 1]]
    /\ form \in [Forms -> FormRow]

-----------------------------------------------------------------------------
(* Screens *)

PendingKeys(c) == {k \in Keys : rem[c][k].status = "PENDING"}

(* The lists: a driver sees the CODs collected by that driver, a customer    *)
(* those of own parcels, an admin all.                                      *)
Shown(by, c) == cod[c].status # "NONE" /\ (by \in Admins \/ by \in {cod[c].by, Owner[c]})

(* The buttons a screen shows for the row it has just read. *)
StaffOffered(act, by, c) ==
    \/ act = "submit" /\ by \in Drivers /\ cod[c].status = "COLLECTED" /\ PendingKeys(c) = {}
    \/ act \in {"confirm", "reject"} /\ by \in Admins /\ PendingKeys(c) # {}
    \/ act = "settle" /\ by \in Admins /\ cod[c].status = "REMITTED"
    \/ act = "create" /\ by \in Admins /\ cod[c].status = "SETTLED" /\ payout[c].status = "NONE"
    \/ act = "send" /\ by \in Admins /\ payout[c].status = "PENDING"

CustomerOffered(act, by, c) ==
    act \in CustomerActs /\ by \in Customers /\ payout[c].status = "SENT"

Fresh(k) == /\ \A c \in Cods : rem[c][k].status = "NONE"
            /\ \A q \in Forms : form[q].key # k

(* choose: the form keeps the row as it was read. The page sends the amount *)
(* of the row; another client of the API may send any.                      *)
Choose(q, act, by, c, k, amount) ==
    /\ form[q].phase = "shut"
    /\ Shown(by, c) /\ (StaffOffered(act, by, c) \/ CustomerOffered(act, by, c))
    /\ IF act = "submit" THEN k \in Keys /\ Fresh(k)
       ELSE IF act \in {"confirm", "reject"} THEN k \in PendingKeys(c) ELSE k = None
    /\ IF act \in {"submit", "create"} THEN amount \in Amounts ELSE amount = None
    /\ form' = [form EXCEPT ![q] =
           [ShutForm EXCEPT !.phase = "open", !.act = act, !.by = by, !.cod = c, !.key = k,
                !.amount = amount,
                !.version = IF k \in PendingKeys(c) THEN rem[c][k].version ELSE payout[c].version,
                !.text = IF act = "send" THEN payout[c].terms ELSE None]]
    /\ UNCHANGED rows

(* The user types, before the first attempt or between two of them. *)
Type(q, x) ==
    /\ form[q].phase = "open" /\ form[q].act \in Worded /\ x # form[q].text
    /\ form' = [form EXCEPT ![q].text = x]
    /\ UNCHANGED rows

(* A reason and a payout reference are required, a note is not. *)
Submit(q) ==
    /\ form[q].phase = "open"
    /\ form[q].act \in {"reject", "create", "dispute"} => form[q].text # None
    /\ form' = [form EXCEPT ![q].phase = "waiting", ![q].sent = form[q].text]
    /\ UNCHANGED rows

(* The request is lost, or the client gives up on one still on its way. *)
GiveUp(q, lost) ==
    /\ form[q].phase = "waiting"
    /\ lost \/ form[q].late = {}   \* bound: one abandoned copy a form
    /\ form' = [form EXCEPT ![q].phase = "open",
                    ![q].late = IF lost THEN @ ELSE @ \cup {form[q].sent}]
    /\ UNCHANGED rows

Close(q) ==
    /\ form[q].phase \in {"open", "done"} /\ form[q].late = {}
    /\ form' = [form EXCEPT ![q] = ShutForm]
    /\ UNCHANGED rows

-----------------------------------------------------------------------------
(* The server. A copy of a request is the text it carries and whether the   *)
(* form still waits for its answer.                                         *)

Copies(q) == {<<x, FALSE>> : x \in form[q].late}
             \cup (IF form[q].phase = "waiting" THEN {<<form[q].sent, TRUE>>} ELSE {})

Log(c, events) == log' = [log EXCEPT ![c] = [e \in Events |->
                                 log[c][e] + (IF e \in events THEN 1 ELSE 0)]]

(* The handler answers the copy m of form q. *)
Reply(q, m, ok, applied) ==
    form' = [form EXCEPT ![q] =
        LET f == IF applied THEN [@ EXCEPT !.applied = TRUE, !.said = m[1]] ELSE @ IN
        IF m[2] THEN [f EXCEPT !.phase = IF ok THEN "done" ELSE "open"]
        ELSE [f EXCEPT !.late = @ \ {m[1]}]]

AmountOK(c, amount) == cod[c].status # "NONE" /\ amount = Due[c]

(* Each command first answers what it recognises as its own retry. *)
RemitReplay(f, x) ==
    LET row == rem[f.cod][f.key] IN
    /\ cod[f.cod].by = f.by /\ AmountOK(f.cod, f.amount)
    /\ row.status # "NONE"
    /\ row.amount = f.amount /\ row.by = f.by /\ row.note = x

ReviewReplayStale(f, x) ==  \* mutant: compares with the version before the change
    LET row == rem[f.cod][f.key] IN
    /\ row.status = (IF f.act = "confirm" THEN "CONFIRMED" ELSE "REJECTED")
    /\ row.version = f.version /\ row.reviewer = f.by /\ row.reason = x

ReviewReplay(f, x) ==
    LET row == rem[f.cod][f.key] IN
    /\ row.status = (IF f.act = "confirm" THEN "CONFIRMED" ELSE "REJECTED")
    /\ row.version = f.version + 1 /\ row.reviewer = f.by /\ row.reason = x

SettleReplay(f, x) == cod[f.cod].status = "SETTLED" /\ AmountOK(f.cod, cod[f.cod].remitted)

CreateReplay(f, x) ==
    LET row == payout[f.cod] IN
    /\ cod[f.cod].status = "SETTLED" /\ AmountOK(f.cod, f.amount) /\ AmountOK(f.cod, cod[f.cod].remitted)
    /\ row.status # "NONE"
    /\ row.amount = f.amount /\ row.terms = x /\ row.creator = f.by

SendReplay(f, x) ==
    LET row == payout[f.cod] IN
    /\ cod[f.cod].status = "SETTLED" /\ AmountOK(f.cod, row.amount)
    /\ row.terms = x /\ row.sender = f.by /\ f.version = 0

AcknowledgeReplay(f, x) ==
    LET row == payout[f.cod] IN
    /\ row.status = (IF f.act = "receive" THEN "PAID_OUT" ELSE "DISPUTED")
    /\ row.version = f.version + 1 /\ row.reason = x

RemitNew(f, x) ==
    /\ rem[f.cod][f.key].status = "NONE"
    /\ cod[f.cod].by = f.by /\ AmountOK(f.cod, f.amount)
    /\ cod[f.cod].status = "COLLECTED"
    /\ PendingKeys(f.cod) = {}

ReviewNew(f, x) ==
    /\ rem[f.cod][f.key].status = "PENDING" /\ cod[f.cod].status = "COLLECTED"
    /\ rem[f.cod][f.key].version = f.version
    /\ AmountOK(f.cod, rem[f.cod][f.key].amount)

SettleNew(f, x) == cod[f.cod].status = "REMITTED" /\ AmountOK(f.cod, cod[f.cod].remitted)

CreateNew(f, x) ==
    /\ cod[f.cod].status = "SETTLED" /\ payout[f.cod].status = "NONE"
    /\ AmountOK(f.cod, f.amount) /\ AmountOK(f.cod, cod[f.cod].remitted)

SendNew(f, x) ==
    /\ cod[f.cod].status = "SETTLED" /\ AmountOK(f.cod, payout[f.cod].amount)
    /\ payout[f.cod].status = "PENDING"
    /\ payout[f.cod].terms = x /\ payout[f.cod].version = f.version

AcknowledgeNewAgain(f, x) ==  \* mutant: a disputed payout may still be acknowledged
    /\ cod[f.cod].status = "SETTLED" /\ AmountOK(f.cod, payout[f.cod].amount)
    /\ payout[f.cod].status \in {"SENT", "DISPUTED"}

AcknowledgeNew(f, x) ==
    /\ cod[f.cod].status = "SETTLED" /\ AmountOK(f.cod, payout[f.cod].amount)
    /\ payout[f.cod].status = "SENT" /\ payout[f.cod].version = f.version

-----------------------------------------------------------------------------
(* Commands, on the copy m of form q *)

(* A retry, or a refusal: nothing is written. *)
Unwritten(q, m, new, replay) == ~new /\ Reply(q, m, replay, FALSE) /\ UNCHANGED rows

Remit(q, m) ==
    LET f == form[q] IN
    /\ f.act = "submit" /\ m \in Copies(q)
    /\ \/ /\ RemitNew(f, m[1])
          /\ rem' = [rem EXCEPT ![f.cod][f.key] =
                 [NoRem EXCEPT !.status = "PENDING", !.by = f.by, !.amount = f.amount,
                               !.note = m[1]]]
          /\ Log(f.cod, {"HANDOVER_SUBMITTED"})
          /\ Reply(q, m, TRUE, TRUE)
          /\ UNCHANGED <<cod, payout>>
       \/ Unwritten(q, m, RemitNew(f, m[1]), RemitReplay(f, m[1]))

Reviewed(row, status, reviewer, x) ==
    [row EXCEPT !.status = status, !.reviewer = reviewer, !.reason = x, !.version = @ + 1]

ReviewRemittance(q, m) ==
    LET f == form[q] IN
    /\ f.act \in {"confirm", "reject"} /\ m \in Copies(q)
    /\ \/ /\ ReviewNew(f, m[1]) /\ ~ReviewReplay(f, m[1])
          /\ rem' = [rem EXCEPT ![f.cod][f.key] =
                 Reviewed(@, IF f.act = "confirm" THEN "CONFIRMED" ELSE "REJECTED", f.by, m[1])]
          /\ cod' = IF f.act = "confirm"
                    THEN [cod EXCEPT ![f.cod].status = "REMITTED",
                                     ![f.cod].remitted = rem[f.cod][f.key].amount,
                                     ![f.cod].version = @ + 1]
                    ELSE cod
          /\ Log(f.cod, IF f.act = "confirm" THEN {"REMITTED", "HANDOVER_CONFIRMED"}
                        ELSE {"HANDOVER_REJECTED"})
          /\ Reply(q, m, TRUE, TRUE)
          /\ UNCHANGED payout
       \/ Unwritten(q, m, ReviewNew(f, m[1]), ReviewReplay(f, m[1]))

Settle(q, m) ==
    LET f == form[q] IN
    /\ f.act = "settle" /\ m \in Copies(q)
    /\ \/ /\ SettleNew(f, m[1])
          /\ cod' = [cod EXCEPT ![f.cod].status = "SETTLED", ![f.cod].version = @ + 1]
          /\ Log(f.cod, {"SETTLED"})
          /\ Reply(q, m, TRUE, TRUE)
          /\ UNCHANGED <<rem, payout>>
       \/ Unwritten(q, m, SettleNew(f, m[1]), SettleReplay(f, m[1]))

CreatePayout(q, m) ==
    LET f == form[q] IN
    /\ f.act = "create" /\ m \in Copies(q)
    /\ \/ /\ CreateNew(f, m[1])
          /\ payout' = [payout EXCEPT ![f.cod] =
                 [NoPayout EXCEPT !.status = "PENDING", !.amount = f.amount, !.terms = m[1],
                                  !.creator = f.by]]
          /\ Log(f.cod, {"PAYOUT_CREATED"})
          /\ Reply(q, m, TRUE, TRUE)
          /\ UNCHANGED <<cod, rem>>
       \/ Unwritten(q, m, CreateNew(f, m[1]), CreateReplay(f, m[1]))

SendPayout(q, m) ==
    LET f == form[q] IN
    /\ f.act = "send" /\ m \in Copies(q)
    /\ \/ /\ SendNew(f, m[1])
          /\ payout' = [payout EXCEPT ![f.cod].status = "SENT", ![f.cod].sender = f.by,
                                      ![f.cod].version = @ + 1]
          /\ Log(f.cod, {"PAYOUT_SENT"})
          /\ Reply(q, m, TRUE, TRUE)
          /\ UNCHANGED <<cod, rem>>
       \/ Unwritten(q, m, SendNew(f, m[1]), SendReplay(f, m[1]))

AcknowledgePayout(q, m) ==
    LET f == form[q] IN
    /\ f.act \in CustomerActs /\ m \in Copies(q)
    /\ \/ /\ AcknowledgeNew(f, m[1])
          /\ payout' = [payout EXCEPT ![f.cod].status =
                                          IF f.act = "receive" THEN "PAID_OUT" ELSE "DISPUTED",
                                      ![f.cod].reason = m[1], ![f.cod].version = @ + 1]
          /\ Log(f.cod, IF f.act = "receive" THEN {"PAYOUT_RECEIVED"} ELSE {"PAYOUT_DISPUTED"})
          /\ Reply(q, m, TRUE, TRUE)
          /\ UNCHANGED <<cod, rem>>
       \/ Unwritten(q, m, AcknowledgeNew(f, m[1]), AcknowledgeReplay(f, m[1]))

(* The delivery of the parcel records the cash its driver took. *)
Collect(c, d) ==
    /\ cod[c].status = "NONE"
    /\ cod' = [cod EXCEPT ![c].status = "COLLECTED", ![c].by = d]
    /\ UNCHANGED <<rem, payout, log, form>>

-----------------------------------------------------------------------------

(* Rows older than the handover tables are remitted or settled without any  *)
(* remittance: the migration does not invent one.                           *)
Init ==
    /\ cod \in [Cods -> {[status |-> "NONE", by |-> None, remitted |-> None, version |-> 0]}
                        \cup [status : {"COLLECTED"}, by : Drivers, remitted : {None},
                              version : {0}]
                        \cup [status : {"REMITTED", "SETTLED"}, by : Drivers,
                              remitted : Amounts, version : {0}]]
    /\ \A c \in Cods : cod[c].remitted \in {None, Due[c]}
    /\ rem = [c \in Cods |-> [k \in Keys |-> NoRem]]
    /\ payout = [c \in Cods |-> NoPayout]
    /\ log = [c \in Cods |-> [e \in Events |-> 0]]
    /\ form = [q \in Forms |-> ShutForm]

Command(q, m) ==
    \/ Remit(q, m) \/ ReviewRemittance(q, m) \/ Settle(q, m)
    \/ CreatePayout(q, m) \/ SendPayout(q, m) \/ AcknowledgePayout(q, m)

ScreenStep(q) ==
    \/ \E act \in Acts, by \in Drivers \cup Admins \cup Customers, c \in Cods,
          k \in Keys \cup {None}, amount \in Amounts \cup {None} :
           Choose(q, act, by, c, k, amount)
    \/ \E x \in Texts \cup {None} : Type(q, x)
    \/ Submit(q)
    \/ \E lost \in BOOLEAN : GiveUp(q, lost)
    \/ Close(q)

Next ==
    \/ \E c \in Cods, d \in Drivers : Collect(c, d)
    \/ \E q \in Forms : ScreenStep(q) \/ \E m \in Copies(q) : Command(q, m)

Spec == Init /\ [][Next]_vars

-----------------------------------------------------------------------------
(* Properties *)

Holding(c) ==
    LET paid == payout[c].status IN
    CASE paid = "SENT" -> "underway"
      [] paid = "PAID_OUT" -> "customer"
      [] paid = "DISPUTED" -> "contested"
      [] OTHER -> CASE cod[c].status = "NONE" -> "receiver"
                    [] cod[c].status = "COLLECTED" -> "driver"
                    [] cod[c].status = "REMITTED" -> "company"
                    [] OTHER -> "cleared"

Ledger == INSTANCE CodLedger WITH
              holder <- [c \in Cods |-> Holding(c)],
              offered <- [c \in Cods |-> PendingKeys(c) # {}]

(* The COD tables implement the ledger: the cash of a parcel passes from    *)
(* hand to hand in order, once, and reaches the company only as the answer  *)
(* to an offer of the driver, whatever requests are lost, late or repeated. *)
LedgerImplemented == Ledger!Spec

(* A user whose form was applied while the answer was lost, and who sends   *)
(* the same form again, is always told that it succeeded.                   *)
LostAnswersHeal == \A q \in Forms :
    LET f == form[q] IN
    f.applied => CASE f.act = "submit" -> RemitReplay(f, f.said)
                   [] f.act \in {"confirm", "reject"} -> ReviewReplay(f, f.said)
                   [] f.act = "settle" -> SettleReplay(f, f.said)
                   [] f.act = "create" -> CreateReplay(f, f.said)
                   [] f.act = "send" -> SendReplay(f, f.said)
                   [] OTHER -> AcknowledgeReplay(f, f.said)

(* A form told "saved" is right about who did what with which words: the    *)
(* row carries the user and the text of the form, though another user or an *)
(* older copy of the form may have come first.                              *)
SuccessIsTrue == \A q \in Forms :
    LET f == form[q] IN
    f.phase = "done" =>
        CASE f.act = "submit" -> rem[f.cod][f.key].by = f.by /\ rem[f.cod][f.key].note = f.sent
          [] f.act = "confirm" -> /\ rem[f.cod][f.key].status = "CONFIRMED"
                                  /\ rem[f.cod][f.key].reviewer = f.by
          [] f.act = "reject" -> /\ rem[f.cod][f.key].status = "REJECTED"
                                 /\ rem[f.cod][f.key].reviewer = f.by
                                 /\ rem[f.cod][f.key].reason = f.sent
          [] f.act = "settle" -> cod[f.cod].status = "SETTLED"
          [] f.act = "create" -> payout[f.cod].creator = f.by /\ payout[f.cod].terms = f.sent
          [] f.act = "send" -> payout[f.cod].sender = f.by
          [] f.act = "receive" -> payout[f.cod].status = "PAID_OUT"
          [] OTHER -> payout[f.cod].status = "DISPUTED" /\ payout[f.cod].reason = f.sent

(* The audit log tells what the rows tell: one entry for each change that   *)
(* stands, none for a retry or a refusal, and a COD is remitted in the log  *)
(* exactly when one handover was confirmed.                                 *)
AuditMatches == \A c \in Cods :
    LET answered(st) == Cardinality({k \in Keys : rem[c][k].status = st})
        once(b) == IF b THEN 1 ELSE 0
        paid == payout[c].status IN
    /\ log[c]["HANDOVER_SUBMITTED"] = Cardinality(Keys) - answered("NONE")
    /\ log[c]["HANDOVER_CONFIRMED"] = answered("CONFIRMED")
    /\ log[c]["HANDOVER_REJECTED"] = answered("REJECTED")
    /\ log[c]["REMITTED"] = answered("CONFIRMED") /\ answered("CONFIRMED") \in {0, 1}
    /\ cod[c].status \in {"NONE", "COLLECTED"} => answered("CONFIRMED") = 0
    /\ log[c]["PAYOUT_CREATED"] = once(paid # "NONE")
    /\ log[c]["PAYOUT_SENT"] = once(payout[c].sender # None)
    /\ log[c]["PAYOUT_RECEIVED"] = once(paid = "PAID_OUT")
    /\ log[c]["PAYOUT_DISPUTED"] = once(paid = "DISPUTED")
    /\ cod[c].version = log[c]["REMITTED"] + log[c]["SETTLED"]

(* A handover waits for an answer only while the driver has the money, and  *)
(* a payout exists only for money the company has received in full.         *)
PaidFromReceived == \A c \in Cods :
    /\ PendingKeys(c) # {} => cod[c].status = "COLLECTED"
    /\ Cardinality(PendingKeys(c)) <= 1
    /\ payout[c].status # "NONE" => cod[c].status = "SETTLED"
                                    /\ cod[c].remitted = Due[c] /\ payout[c].amount = Due[c]

(* The rows, the audit log and the screens agree about the cash of every    *)
(* parcel: the four parts above.                                            *)
CashAccounted ==
    /\ LostAnswersHeal
    /\ SuccessIsTrue
    /\ AuditMatches
    /\ PaidFromReceived

=============================================================================
