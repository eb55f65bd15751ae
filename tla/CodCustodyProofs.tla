-------------------------- MODULE CodCustodyProofs --------------------------
(***************************************************************************)
(* Proofs about the cash on delivery, for any number of parcels, users,    *)
(* request keys, texts and open forms; and about what the owner's page     *)
(* shows of it through the cache.                                          *)
(*                                                                         *)
(* A command writes rows in one of six ways or answers without writing.    *)
(* What a command writes for a form is what it recognises as the form's    *)
(* retry (Recorded), and no later command unwrites it: that carries what   *)
(* the screens are told. The rows of a parcel are tied together by their   *)
(* status, their versions and the counts of the audit log (RowsInv).       *)
(***************************************************************************)
EXTENDS CodCustody, Integers, FiniteSetTheorems, TLAPS

(* The constants are as the code has them: a parcel has one customer and a  *)
(* positive amount, an absent value is none of the values, and the database *)
(* holds finitely many request keys.                                        *)
Assumptions == OwnerAssumption /\ DueAssumption /\ NoneAssumption /\ KeysAssumption /\ ActAssumption

-----------------------------------------------------------------------------
(* The inductive invariant *)

Answered(c, st) == {k \in Keys : rem[c][k].status = st}

RemShape(row) ==
    /\ row.status = "NONE" => row = NoRem
    /\ row.status = "PENDING" => row.version = 0

PayoutShape(row) ==
    /\ row.status = "NONE" => row = NoPayout
    /\ row.status \in {"NONE", "PENDING"} => row.sender = None /\ row.version = 0
    /\ row.status \in {"SENT", "PAID_OUT", "DISPUTED"} => row.sender # None
    /\ row.status = "SENT" => row.version = 1

(* The rows of a parcel, by their status.                                   *)
Staged(c) ==
    /\ cod[c].status \in {"NONE", "COLLECTED"} => cod[c].version = 0
    /\ \A k \in Keys : RemShape(rem[c][k])
    /\ PayoutShape(payout[c])
    /\ \A k, l \in PendingKeys(c) : k = l
    /\ PendingKeys(c) # {} => cod[c].status = "COLLECTED"
    /\ payout[c].status # "NONE" => /\ cod[c].status = "SETTLED"
                                    /\ cod[c].remitted = Due[c] /\ payout[c].amount = Due[c]

Once(b) == IF b THEN 1 ELSE 0

(* The counts of the audit log of a parcel.                                 *)
Audited(c) ==
    /\ log[c]["HANDOVER_SUBMITTED"] = Cardinality(Keys) - Cardinality(Answered(c, "NONE"))
    /\ log[c]["HANDOVER_CONFIRMED"] = Cardinality(Answered(c, "CONFIRMED"))
    /\ log[c]["HANDOVER_REJECTED"] = Cardinality(Answered(c, "REJECTED"))
    /\ log[c]["REMITTED"] = Cardinality(Answered(c, "CONFIRMED"))
    /\ Cardinality(Answered(c, "CONFIRMED")) \in {0, 1}
    /\ cod[c].status \in {"NONE", "COLLECTED"} => Cardinality(Answered(c, "CONFIRMED")) = 0
    /\ log[c]["PAYOUT_CREATED"] = Once(payout[c].status # "NONE")
    /\ log[c]["PAYOUT_SENT"] = Once(payout[c].sender # None)
    /\ log[c]["PAYOUT_RECEIVED"] = Once(payout[c].status = "PAID_OUT")
    /\ log[c]["PAYOUT_DISPUTED"] = Once(payout[c].status = "DISPUTED")
    /\ cod[c].version = log[c]["REMITTED"] + log[c]["SETTLED"]
    /\ log[c]["SETTLED"] \in {0, 1}
    /\ cod[c].status # "SETTLED" => log[c]["SETTLED"] = 0

(* What a command recognises as the retry of form f with text x.            *)
Recorded(f, x) ==
    CASE f.act = "submit" -> RemitReplay(f, x)
      [] f.act \in {"confirm", "reject"} -> ReviewReplay(f, x)
      [] f.act = "settle" -> SettleReplay(f, x)
      [] f.act = "create" -> CreateReplay(f, x)
      [] f.act = "send" -> SendReplay(f, x)
      [] OTHER -> AcknowledgeReplay(f, x)

(* A form in use belongs to a user of the right role and names its rows.    *)
FormShape(f) ==
    /\ f.act \notin AllActs => f.phase = "shut" /\ ~f.applied
    /\ f.act \in AllActs => f.cod \in Cods
    /\ f.act \in {"submit", "confirm", "reject"} => f.key \in Keys
    /\ f.act = "submit" => f.by \in Drivers
    /\ f.act \in AdminActs => f.by \in Admins

Told(f) ==
    /\ f.applied => Recorded(f, f.said)
    /\ f.phase = "done" => Recorded(f, f.sent)

RowsTyped ==
    /\ cod \in [Cods -> CodRow]
    /\ rem \in [Cods -> [Keys -> RemRow]]
    /\ payout \in [Cods -> PayoutRow]
    /\ log \in [Cods -> [Events -> 0 .. Cardinality(Keys) + 1]]

RowsInv == RowsTyped /\ \A c \in Cods : Staged(c) /\ Audited(c)

FormsInv == \A q \in Forms : form[q] \in FormRow /\ FormShape(form[q]) /\ Told(form[q])

FormsTyped == form \in [Forms -> FormRow]

IInv == RowsInv /\ FormsTyped /\ FormsInv

-----------------------------------------------------------------------------
(* What a command writes *)

WritesRemit(f, x) ==
    /\ f.act = "submit" /\ RemitNew(f, x)
    /\ rem' = [rem EXCEPT ![f.cod][f.key] =
                   [NoRem EXCEPT !.status = "PENDING", !.by = f.by, !.amount = f.amount, !.note = x]]
    /\ Log(f.cod, {"HANDOVER_SUBMITTED"})
    /\ UNCHANGED <<cod, payout>>

WritesReview(f, x) ==
    /\ f.act \in {"confirm", "reject"} /\ ReviewNew(f, x)
    /\ rem' = [rem EXCEPT ![f.cod][f.key] =
                   Reviewed(@, IF f.act = "confirm" THEN "CONFIRMED" ELSE "REJECTED", f.by, x)]
    /\ cod' = IF f.act = "confirm"
              THEN [cod EXCEPT ![f.cod].status = "REMITTED",
                               ![f.cod].remitted = rem[f.cod][f.key].amount,
                               ![f.cod].version = @ + 1]
              ELSE cod
    /\ Log(f.cod, IF f.act = "confirm" THEN {"REMITTED", "HANDOVER_CONFIRMED"}
                  ELSE {"HANDOVER_REJECTED"})
    /\ UNCHANGED payout

WritesSettle(f, x) ==
    /\ f.act = "settle" /\ SettleNew(f, x)
    /\ cod' = [cod EXCEPT ![f.cod].status = "SETTLED", ![f.cod].version = @ + 1]
    /\ Log(f.cod, {"SETTLED"})
    /\ UNCHANGED <<rem, payout>>

WritesCreate(f, x) ==
    /\ f.act = "create" /\ CreateNew(f, x)
    /\ payout' = [payout EXCEPT ![f.cod] =
                      [NoPayout EXCEPT !.status = "PENDING", !.amount = f.amount, !.terms = x,
                                       !.creator = f.by]]
    /\ Log(f.cod, {"PAYOUT_CREATED"})
    /\ UNCHANGED <<cod, rem>>

WritesSend(f, x) ==
    /\ f.act = "send" /\ SendNew(f, x)
    /\ payout' = [payout EXCEPT ![f.cod].status = "SENT", ![f.cod].sender = f.by,
                                ![f.cod].version = @ + 1]
    /\ Log(f.cod, {"PAYOUT_SENT"})
    /\ UNCHANGED <<cod, rem>>

WritesAcknowledge(f, x) ==
    /\ f.act \in CustomerActs /\ AcknowledgeNew(f, x)
    /\ payout' = [payout EXCEPT ![f.cod].status = IF f.act = "receive" THEN "PAID_OUT"
                                                  ELSE "DISPUTED",
                                ![f.cod].reason = x, ![f.cod].version = @ + 1]
    /\ Log(f.cod, IF f.act = "receive" THEN {"PAYOUT_RECEIVED"} ELSE {"PAYOUT_DISPUTED"})
    /\ UNCHANGED <<cod, rem>>

Writes(f, x) ==
    \/ WritesRemit(f, x) \/ WritesReview(f, x) \/ WritesSettle(f, x)
    \/ WritesCreate(f, x) \/ WritesSend(f, x) \/ WritesAcknowledge(f, x)

-----------------------------------------------------------------------------
(* Rows *)

(* An audit entry adds one to the counts of its events, for its parcel.     *)
LEMMA Logged ==
    ASSUME RowsTyped, NEW c \in Cods, NEW events, Log(c, events)
    PROVE  /\ \A d \in Cods \ {c} : log'[d] = log[d]
           /\ \A e \in Events : log'[c][e] = log[c][e] + Once(e \in events)
           /\ log' = [log EXCEPT ![c] = log'[c]]
           /\ DOMAIN log'[c] = Events /\ log'[c] = [e \in Events |-> log'[c][e]]
BY DEF RowsTyped, Log, Once

(* The counts of the audit log are bounded by the request keys.             *)
LEMMA LogBounded ==
    ASSUME Assumptions, NEW c \in Cods, Audited(c)'
    PROVE  \A e \in Events : log'[c][e] \in 0 .. Cardinality(Keys) + 1
<1> DEFINE Count(st) == Cardinality(Answered(c, st)')
<1>1. \A st : /\ Answered(c, st)' \subseteq Keys
              /\ Count(st) \in Nat /\ Count(st) <= Cardinality(Keys)
  BY FS_Subset, FS_CardinalityType DEF Answered, Assumptions, KeysAssumption
<1>2. Cardinality(Keys) \in Nat
  BY FS_CardinalityType DEF Assumptions, KeysAssumption
<1>3. /\ Count("NONE") \in 0 .. Cardinality(Keys)
      /\ Count("CONFIRMED") \in 0 .. Cardinality(Keys)
      /\ Count("REJECTED") \in 0 .. Cardinality(Keys)
  BY <1>1, <1>2
<1>4. /\ log'[c]["HANDOVER_SUBMITTED"] = Cardinality(Keys) - Count("NONE")
      /\ log'[c]["HANDOVER_CONFIRMED"] = Count("CONFIRMED")
      /\ log'[c]["HANDOVER_REJECTED"] = Count("REJECTED")
      /\ log'[c]["REMITTED"] = Count("CONFIRMED")
      /\ log'[c]["PAYOUT_CREATED"] \in {0, 1} /\ log'[c]["PAYOUT_SENT"] \in {0, 1}
      /\ log'[c]["PAYOUT_RECEIVED"] \in {0, 1} /\ log'[c]["PAYOUT_DISPUTED"] \in {0, 1}
      /\ log'[c]["SETTLED"] \in {0, 1}
  BY DEF Audited, Once
<1> HIDE DEF Count
<1> QED
  BY <1>2, <1>3, <1>4 DEF Events

(* A parcel whose rows a command leaves alone.                              *)
LEMMA ParcelAside ==
    ASSUME RowsInv, NEW d \in Cods, cod'[d] = cod[d], rem'[d] = rem[d], payout'[d] = payout[d],
           log'[d] = log[d]
    PROVE  Staged(d)' /\ Audited(d)'
<1>1. PendingKeys(d)' = PendingKeys(d) /\ \A st : Answered(d, st)' = Answered(d, st)
  BY DEF PendingKeys, Answered
<1> QED
  BY <1>1 DEF RowsInv, Staged, Audited

(* What a command writes for one parcel is enough for the rows of all.      *)
LEMMA ParcelEnough ==
    ASSUME Assumptions, RowsInv, NEW c \in Cods, NEW events, Log(c, events),
           cod' \in [Cods -> CodRow], rem' \in [Cods -> [Keys -> RemRow]],
           payout' \in [Cods -> PayoutRow],
           \A d \in Cods \ {c} : cod'[d] = cod[d] /\ rem'[d] = rem[d] /\ payout'[d] = payout[d],
           Staged(c)', Audited(c)'
    PROVE  RowsInv'
<1>1. /\ \A d \in Cods \ {c} : log'[d] = log[d]
      /\ log' = [log EXCEPT ![c] = log'[c]]
      /\ log'[c] = [e \in Events |-> log'[c][e]]
  BY Logged DEF RowsInv
<1>2. \A e \in Events : log'[c][e] \in 0 .. Cardinality(Keys) + 1
  BY LogBounded
<1>3. log'[c] \in [Events -> 0 .. Cardinality(Keys) + 1]
  BY <1>1, <1>2
<1>4. log' \in [Cods -> [Events -> 0 .. Cardinality(Keys) + 1]]
  BY <1>1, <1>3 DEF RowsInv, RowsTyped
<1>5. \A d \in Cods : Staged(d)' /\ Audited(d)'
  BY <1>1, ParcelAside
<1> QED
  BY <1>4, <1>5 DEF RowsInv, RowsTyped

(* The rows that a review, a remittance, a sent and an acknowledged payout  *)
(* write, and what the fields of each are.                                  *)
Remitted(row, amount) == [row EXCEPT !.status = "REMITTED", !.remitted = amount, !.version = @ + 1]
Settled(row) == [row EXCEPT !.status = "SETTLED", !.version = @ + 1]
Sent(row, by) == [row EXCEPT !.status = "SENT", !.sender = by, !.version = @ + 1]
Acknowledged(row, st, x) == [row EXCEPT !.status = st, !.reason = x, !.version = @ + 1]

LEMMA ReviewedRow ==
    ASSUME NEW row \in RemRow, row.version = 0, NEW st \in {"CONFIRMED", "REJECTED"},
           NEW by \in Admins, NEW x \in Texts \cup {None}
    PROVE  /\ Reviewed(row, st, by, x) \in RemRow
           /\ Reviewed(row, st, by, x).status = st /\ Reviewed(row, st, by, x).reviewer = by
           /\ Reviewed(row, st, by, x).reason = x /\ Reviewed(row, st, by, x).version = 1
           /\ Reviewed(row, st, by, x).by = row.by /\ Reviewed(row, st, by, x).note = row.note
           /\ Reviewed(row, st, by, x).amount = row.amount
<1>1. ASSUME NEW r \in RemRow, NEW v \in 0 .. 1
      PROVE  /\ [r EXCEPT !.status = st] \in RemRow
             /\ [r EXCEPT !.reviewer = by] \in RemRow
             /\ [r EXCEPT !.reason = x] \in RemRow
             /\ [r EXCEPT !.version = v] \in RemRow
  BY DEF RemRow
<1>2. 1 \in 0 .. 1
  OBVIOUS
<1>3. [[[[row EXCEPT !.status = st] EXCEPT !.reviewer = by] EXCEPT !.reason = x] EXCEPT !.version = 1]
        \in RemRow
  BY <1>1, <1>2
<1> QED
  BY <1>3 DEF RemRow, Reviewed

LEMMA RemittedRow ==
    ASSUME NEW row \in CodRow, row.version \in {0, 1}, NEW amount \in Amounts
    PROVE  /\ Remitted(row, amount) \in CodRow /\ Remitted(row, amount).status = "REMITTED"
           /\ Remitted(row, amount).remitted = amount /\ Remitted(row, amount).by = row.by
           /\ Remitted(row, amount).version = row.version + 1
           /\ Settled(row) \in CodRow /\ Settled(row).status = "SETTLED"
           /\ Settled(row).remitted = row.remitted /\ Settled(row).by = row.by
           /\ Settled(row).version = row.version + 1
<1>1. row.version + 1 \in 0 .. 2
  OBVIOUS
<1> QED
  BY <1>1 DEF Remitted, Settled, CodRow

LEMMA PaidRow ==
    ASSUME NEW row \in PayoutRow, row.version \in {0, 1},
           NEW st \in {"PAID_OUT", "DISPUTED"}, NEW x \in Texts \cup {None}
    PROVE  /\ Acknowledged(row, st, x) \in PayoutRow /\ Acknowledged(row, st, x).status = st
           /\ Acknowledged(row, st, x).reason = x
           /\ Acknowledged(row, st, x).version = row.version + 1
           /\ Acknowledged(row, st, x).amount = row.amount
           /\ Acknowledged(row, st, x).terms = row.terms
           /\ Acknowledged(row, st, x).creator = row.creator
           /\ Acknowledged(row, st, x).sender = row.sender
<1>1. row.version + 1 \in 0 .. 2
  OBVIOUS
<1>2. ASSUME NEW r \in PayoutRow, NEW v \in 0 .. 2
      PROVE  /\ [r EXCEPT !.status = st] \in PayoutRow
             /\ [r EXCEPT !.reason = x] \in PayoutRow
             /\ [r EXCEPT !.version = v] \in PayoutRow
  BY DEF PayoutRow
<1>3. [[[row EXCEPT !.status = st] EXCEPT !.reason = x] EXCEPT !.version = row.version + 1]
         \in PayoutRow
  BY <1>1, <1>2
<1> QED
  BY <1>3 DEF PayoutRow, Acknowledged

LEMMA SentRow ==
    ASSUME NEW row \in PayoutRow, row.version \in {0, 1}, NEW by \in Admins
    PROVE  /\ Sent(row, by) \in PayoutRow /\ Sent(row, by).status = "SENT"
           /\ Sent(row, by).sender = by /\ Sent(row, by).version = row.version + 1
           /\ Sent(row, by).amount = row.amount /\ Sent(row, by).terms = row.terms
           /\ Sent(row, by).creator = row.creator
<1>1. row.version + 1 \in 0 .. 2
  OBVIOUS
<1>2. ASSUME NEW r \in PayoutRow, NEW v \in 0 .. 2
      PROVE  /\ [r EXCEPT !.status = "SENT"] \in PayoutRow
             /\ [r EXCEPT !.sender = by] \in PayoutRow
             /\ [r EXCEPT !.version = v] \in PayoutRow
  BY DEF PayoutRow
<1>3. [[[row EXCEPT !.status = "SENT"] EXCEPT !.sender = by] EXCEPT !.version = row.version + 1]
        \in PayoutRow
  BY <1>1, <1>2
<1> QED
  BY <1>3 DEF PayoutRow, Sent

(* A new handover.                                                          *)
LEMMA RemitRows ==
    ASSUME Assumptions, RowsInv, NEW f \in FormRow, FormShape(f), NEW x \in Texts \cup {None},
           WritesRemit(f, x), NEW c, c = f.cod, NEW k, k = f.key
    PROVE  RowsInv'
<1>1. c \in Cods /\ k \in Keys /\ f.by \in Drivers
  BY DEF WritesRemit, FormShape, AllActs, DriverActs
<1>2. /\ rem[c][k].status = "NONE" /\ cod[c].status = "COLLECTED" /\ PendingKeys(c) = {}
      /\ f.amount = Due[c] /\ f.amount \in Amounts
  BY <1>1 DEF WritesRemit, RemitNew, AmountOK, Assumptions, DueAssumption
<1>3. /\ rem'[c][k] = [NoRem EXCEPT !.status = "PENDING", !.by = f.by, !.amount = f.amount, !.note = x]
      /\ \A l \in Keys \ {k} : rem'[c][l] = rem[c][l]
      /\ \A d \in Cods \ {c} : rem'[d] = rem[d]
      /\ UNCHANGED <<cod, payout>>
  BY <1>1 DEF WritesRemit, RowsInv, RowsTyped
<1>4. rem'[c][k] \in RemRow /\ rem'[c][k].status = "PENDING" /\ rem'[c][k].version = 0
  <2>1. rem'[c][k] = [status |-> "PENDING", by |-> f.by, amount |-> f.amount, note |-> x,
                      reviewer |-> None, reason |-> None, version |-> 0]
    BY <1>3 DEF NoRem
  <2> QED
    BY <1>1, <1>2, <2>1 DEF RemRow
<1>5. rem' \in [Cods -> [Keys -> RemRow]]
  BY <1>1, <1>4 DEF WritesRemit, RowsInv, RowsTyped
<1>a. \A l \in Keys : rem'[c][l].status = IF l = k THEN "PENDING" ELSE rem[c][l].status
  BY <1>3, <1>4
<1>6. PendingKeys(c)' = {k}
  BY <1>1, <1>2, <1>a DEF PendingKeys
<1>7. Staged(c)'
  <2>1. Staged(c)
    BY <1>1 DEF RowsInv
  <2>2. \A l \in Keys : RemShape(rem'[c][l])
    <3>1. RemShape(rem'[c][k])
      BY <1>4 DEF RemShape
    <3>2. \A l \in Keys \ {k} : RemShape(rem'[c][l])
      BY <1>3, <2>1 DEF Staged
    <3> QED
      BY <3>1, <3>2
  <2> QED
    BY <1>2, <1>3, <1>6, <2>1, <2>2 DEF Staged
<1>8. /\ Answered(c, "NONE")' = Answered(c, "NONE") \ {k} /\ k \in Answered(c, "NONE")
      /\ Answered(c, "CONFIRMED")' = Answered(c, "CONFIRMED")
      /\ Answered(c, "REJECTED")' = Answered(c, "REJECTED")
  BY <1>1, <1>2, <1>a DEF Answered
<1>9. /\ Cardinality(Answered(c, "NONE")') = Cardinality(Answered(c, "NONE")) - 1
      /\ Cardinality(Answered(c, "NONE")) \in Nat /\ Cardinality(Keys) \in Nat
  <2>1. IsFiniteSet(Answered(c, "NONE"))
    BY FS_Subset DEF Answered, Assumptions, KeysAssumption
  <2> QED
    BY <1>8, <2>1, FS_RemoveElement, FS_CardinalityType DEF Assumptions, KeysAssumption
<1>10. /\ \A e \in Events : log'[c][e] = log[c][e] + Once(e \in {"HANDOVER_SUBMITTED"})
       /\ \A e \in Events : log[c][e] \in Int
       /\ Log(c, {"HANDOVER_SUBMITTED"})
  <2>1. Log(c, {"HANDOVER_SUBMITTED"}) /\ RowsTyped
    BY DEF WritesRemit, RowsInv
  <2>2. \A e \in Events : log[c][e] \in Int
    BY <1>1, <2>1 DEF RowsTyped
  <2>3. \A e \in Events : log'[c][e] = log[c][e] + Once(e \in {"HANDOVER_SUBMITTED"})
    BY <1>1, <2>1, Logged
  <2> QED
    BY <2>1, <2>2, <2>3
<1>11. Audited(c)'
  <2>1. Audited(c)
    BY <1>1 DEF RowsInv
  <2>2. /\ log'[c]["HANDOVER_SUBMITTED"] = log[c]["HANDOVER_SUBMITTED"] + 1
        /\ \A e \in Events \ {"HANDOVER_SUBMITTED"} : log'[c][e] = log[c][e]
    BY <1>10 DEF Events, Once
  <2> QED
    BY <1>3, <1>8, <1>9, <2>1, <2>2 DEF Audited, Events
<1> QED
  BY <1>1, <1>3, <1>5, <1>7, <1>10, <1>11, ParcelEnough DEF RowsInv, RowsTyped

(* An answered handover: the waiting one, and there was one.                *)
LEMMA ReviewRows ==
    ASSUME Assumptions, RowsInv, NEW f \in FormRow, FormShape(f), NEW x \in Texts \cup {None},
           WritesReview(f, x), NEW c, c = f.cod, NEW k, k = f.key,
           NEW new, new = IF f.act = "confirm" THEN "CONFIRMED" ELSE "REJECTED"
    PROVE  RowsInv'
<1>1. c \in Cods /\ k \in Keys /\ f.by \in Admins
  BY DEF WritesReview, FormShape, AllActs, AdminActs
<1>2. /\ rem[c][k].status = "PENDING" /\ cod[c].status = "COLLECTED"
      /\ k \in PendingKeys(c) /\ rem[c][k].amount = Due[c] /\ rem[c][k].amount \in Amounts
  BY <1>1 DEF WritesReview, ReviewNew, AmountOK, PendingKeys, Assumptions, DueAssumption
<1>3. Staged(c) /\ Audited(c) /\ RowsTyped
  BY <1>1 DEF RowsInv
<1>4. cod[c].version = 0 /\ rem[c][k].version = 0 /\ payout[c].status = "NONE"
  BY <1>1, <1>2, <1>3 DEF Staged, RemShape
<1>5. /\ rem'[c][k] = Reviewed(rem[c][k], new, f.by, x)
      /\ \A l \in Keys \ {k} : rem'[c][l] = rem[c][l]
      /\ \A d \in Cods \ {c} : rem'[d] = rem[d]
      /\ UNCHANGED payout
      /\ rem' = [rem EXCEPT ![c] = [rem[c] EXCEPT ![k] = Reviewed(rem[c][k], new, f.by, x)]]
  <2>1. rem \in [Cods -> [Keys -> RemRow]] /\ UNCHANGED payout
    BY <1>3 DEF WritesReview, RowsTyped
  <2>2. rem' = [rem EXCEPT ![c][k] = Reviewed(rem[c][k], new, f.by, x)]
    BY <1>1, <2>1 DEF WritesReview
  <2>3. rem' = [rem EXCEPT ![c] = [rem[c] EXCEPT ![k] = Reviewed(rem[c][k], new, f.by, x)]]
    BY <1>1, <2>1, <2>2
  <2> QED
    BY <1>1, <2>1, <2>3
<1>6. /\ rem'[c][k] \in RemRow /\ rem'[c][k].status = new
      /\ rem' \in [Cods -> [Keys -> RemRow]]
  <2>1. rem[c][k] \in RemRow /\ new \in {"CONFIRMED", "REJECTED"} /\ rem \in [Cods -> [Keys -> RemRow]]
    BY <1>1, <1>3 DEF RowsTyped
  <2>2. rem'[c][k] \in RemRow /\ rem'[c][k].status = new
    BY <1>1, <1>4, <1>5, <2>1, ReviewedRow
  <2> QED
    BY <1>1, <1>5, <2>1, <2>2
<1>7. /\ cod' \in [Cods -> CodRow] /\ \A d \in Cods \ {c} : cod'[d] = cod[d]
      /\ f.act = "confirm" => cod'[c] = Remitted(cod[c], rem[c][k].amount)
      /\ f.act = "confirm" => cod'[c].status = "REMITTED" /\ cod'[c].version = 1
      /\ f.act # "confirm" => cod'[c] = cod[c]
  <2>1. cod \in [Cods -> CodRow] /\ cod[c] \in CodRow
    BY <1>1, <1>3 DEF RowsTyped
  <2>2. CASE f.act = "confirm"
    <3>1. cod' = [cod EXCEPT ![c].status = "REMITTED", ![c].remitted = rem[c][k].amount,
                             ![c].version = @ + 1]
      BY <2>2 DEF WritesReview
    <3>2. cod' = [cod EXCEPT ![c] = Remitted(cod[c], rem[c][k].amount)]
      BY <1>1, <2>1, <3>1 DEF CodRow, Remitted
    <3>3. /\ Remitted(cod[c], rem[c][k].amount) \in CodRow
          /\ Remitted(cod[c], rem[c][k].amount).status = "REMITTED"
          /\ Remitted(cod[c], rem[c][k].amount).version = 1
      BY <1>2, <1>4, <2>1, RemittedRow
    <3> QED
      BY <1>1, <2>1, <2>2, <3>2, <3>3
  <2>3. CASE f.act # "confirm"
    BY <2>1, <2>3 DEF WritesReview
  <2> QED
    BY <2>2, <2>3
<1>8. new \in {"CONFIRMED", "REJECTED"} /\ (new = "CONFIRMED" <=> f.act = "confirm")
  OBVIOUS
<1>9. \A l \in Keys : rem'[c][l].status = IF l = k THEN new ELSE rem[c][l].status
  BY <1>5, <1>6
<1>10. PendingKeys(c)' = {}
  BY <1>1, <1>2, <1>3, <1>8, <1>9 DEF PendingKeys, Staged
<1>11. Staged(c)'
  <2>1. RemShape(rem'[c][k])
    BY <1>6, <1>8 DEF RemShape
  <2>2. \A l \in Keys \ {k} : RemShape(rem'[c][l])
    BY <1>3, <1>5 DEF Staged
  <2> QED
    BY <1>2, <1>3, <1>4, <1>5, <1>7, <1>10, <2>1, <2>2 DEF Staged
<1>12. /\ Answered(c, "NONE")' = Answered(c, "NONE")
       /\ Answered(c, new)' = Answered(c, new) \cup {k} /\ k \notin Answered(c, new)
       /\ \A st \in {"CONFIRMED", "REJECTED"} \ {new} : Answered(c, st)' = Answered(c, st)
  BY <1>1, <1>2, <1>8, <1>9 DEF Answered
<1>13. /\ Cardinality(Answered(c, new)') = Cardinality(Answered(c, new)) + 1
       /\ Cardinality(Answered(c, new)) \in Nat
  <2>1. IsFiniteSet(Answered(c, new))
    BY FS_Subset DEF Answered, Assumptions, KeysAssumption
  <2> QED
    BY <1>12, <2>1, FS_AddElement, FS_CardinalityType
<1>14. \A e \in Events : log[c][e] \in Int
  BY <1>1, <1>3 DEF RowsTyped
<1>15. Audited(c)' /\ \E events : Log(c, events)
  <2>1. CASE f.act = "confirm"
    <3>1. Log(c, {"REMITTED", "HANDOVER_CONFIRMED"})
      BY <2>1 DEF WritesReview
    <3>2. \A e \in Events : log'[c][e] = log[c][e] + Once(e \in {"REMITTED", "HANDOVER_CONFIRMED"})
      BY <1>1, <1>3, <3>1, Logged
    <3>3. /\ log'[c]["REMITTED"] = log[c]["REMITTED"] + 1
          /\ log'[c]["HANDOVER_CONFIRMED"] = log[c]["HANDOVER_CONFIRMED"] + 1
          /\ \A e \in Events \ {"REMITTED", "HANDOVER_CONFIRMED"} : log'[c][e] = log[c][e]
      BY <1>14, <3>2 DEF Events, Once
    <3>4. /\ Cardinality(Answered(c, "CONFIRMED")') = Cardinality(Answered(c, "CONFIRMED")) + 1
          /\ Answered(c, "REJECTED")' = Answered(c, "REJECTED")
      BY <1>12, <1>13, <2>1
    <3>5. Audited(c)'
      BY <1>2, <1>3, <1>4, <1>5, <1>7, <1>12, <2>1, <3>3, <3>4 DEF Audited, Events
    <3> QED
      BY <3>1, <3>5
  <2>2. CASE f.act # "confirm"
    <3>1. Log(c, {"HANDOVER_REJECTED"})
      BY <2>2 DEF WritesReview
    <3>2. \A e \in Events : log'[c][e] = log[c][e] + Once(e \in {"HANDOVER_REJECTED"})
      BY <1>1, <1>3, <3>1, Logged
    <3>3. /\ log'[c]["HANDOVER_REJECTED"] = log[c]["HANDOVER_REJECTED"] + 1
          /\ \A e \in Events \ {"HANDOVER_REJECTED"} : log'[c][e] = log[c][e]
      BY <1>14, <3>2 DEF Events, Once
    <3>4. /\ Cardinality(Answered(c, "REJECTED")') = Cardinality(Answered(c, "REJECTED")) + 1
          /\ Answered(c, "CONFIRMED")' = Answered(c, "CONFIRMED")
      BY <1>12, <1>13, <2>2
    <3>5. Audited(c)'
      BY <1>3, <1>5, <1>7, <1>12, <2>2, <3>3, <3>4 DEF Audited, Events
    <3> QED
      BY <3>1, <3>5
  <2> QED
    BY <2>1, <2>2
<1>16. payout' \in [Cods -> PayoutRow] /\ \A d \in Cods \ {c} : payout'[d] = payout[d]
  BY <1>3, <1>5 DEF RowsTyped
<1> QED
  BY <1>1, <1>5, <1>6, <1>7, <1>11, <1>15, <1>16, ParcelEnough

(* The handovers of a parcel stay as they are in the steps after them.      *)
LEMMA HandoversAside ==
    ASSUME NEW c, UNCHANGED rem
    PROVE  PendingKeys(c)' = PendingKeys(c) /\ \A st : Answered(c, st)' = Answered(c, st)
BY DEF PendingKeys, Answered

(* A settlement.                                                            *)
LEMMA SettleRows ==
    ASSUME Assumptions, RowsInv, NEW f \in FormRow, FormShape(f), NEW x \in Texts \cup {None},
           WritesSettle(f, x), NEW c, c = f.cod
    PROVE  RowsInv'
<1>1. c \in Cods
  BY DEF WritesSettle, FormShape, AllActs, AdminActs
<1>2. cod[c].status = "REMITTED" /\ UNCHANGED <<rem, payout>> /\ Log(c, {"SETTLED"})
  BY DEF WritesSettle, SettleNew
<1>3. Staged(c) /\ Audited(c) /\ RowsTyped
  BY <1>1 DEF RowsInv
<1>4. payout[c].status = "NONE" /\ PendingKeys(c) = {} /\ log[c]["SETTLED"] = 0
  BY <1>2, <1>3 DEF Staged, Audited
<1>5. cod[c].version \in {0, 1}
  BY <1>2, <1>3, <1>4 DEF Audited
<1>6. /\ cod' \in [Cods -> CodRow] /\ \A d \in Cods \ {c} : cod'[d] = cod[d]
      /\ cod'[c].status = "SETTLED" /\ cod'[c].version = cod[c].version + 1
  <2>1. cod[c] \in CodRow /\ cod[c].version + 1 \in 0 .. 2 /\ cod \in [Cods -> CodRow]
    BY <1>1, <1>3, <1>5 DEF RowsTyped
  <2>2. cod' = [cod EXCEPT ![c].status = "SETTLED", ![c].version = @ + 1]
    BY DEF WritesSettle
  <2>3. cod' = [cod EXCEPT ![c] = Settled(cod[c])]
    BY <1>1, <2>1, <2>2 DEF CodRow, Settled
  <2>4. /\ Settled(cod[c]) \in CodRow /\ Settled(cod[c]).status = "SETTLED"
        /\ Settled(cod[c]).version = cod[c].version + 1
    <3>1. PICK amount \in Amounts : TRUE
      BY <1>1 DEF Assumptions, DueAssumption
    <3> QED
      BY <1>5, <2>1, <3>1, RemittedRow
  <2> QED
    BY <1>1, <2>1, <2>3, <2>4
<1>7. PendingKeys(c)' = PendingKeys(c) /\ \A st : Answered(c, st)' = Answered(c, st)
  BY <1>2, HandoversAside
<1>8. Staged(c)'
  BY <1>2, <1>3, <1>4, <1>6, <1>7 DEF Staged
<1>9. Audited(c)'
  <2>0. \A e \in Events : log[c][e] \in Int
    BY <1>1, <1>3 DEF RowsTyped
  <2>1. \A e \in Events : log'[c][e] = log[c][e] + Once(e \in {"SETTLED"})
    BY <1>1, <1>2, <1>3, Logged
  <2>2. /\ log'[c]["SETTLED"] = 1
        /\ \A e \in Events \ {"SETTLED"} : log'[c][e] = log[c][e]
    BY <1>4, <2>0, <2>1 DEF Events, Once
  <2>3. /\ log'[c]["HANDOVER_SUBMITTED"] = log[c]["HANDOVER_SUBMITTED"]
        /\ log'[c]["HANDOVER_CONFIRMED"] = log[c]["HANDOVER_CONFIRMED"]
        /\ log'[c]["HANDOVER_REJECTED"] = log[c]["HANDOVER_REJECTED"]
        /\ log'[c]["REMITTED"] = log[c]["REMITTED"]
        /\ log'[c]["PAYOUT_CREATED"] = log[c]["PAYOUT_CREATED"]
        /\ log'[c]["PAYOUT_SENT"] = log[c]["PAYOUT_SENT"]
        /\ log'[c]["PAYOUT_RECEIVED"] = log[c]["PAYOUT_RECEIVED"]
        /\ log'[c]["PAYOUT_DISPUTED"] = log[c]["PAYOUT_DISPUTED"]
        /\ log[c]["REMITTED"] \in Int /\ log'[c]["SETTLED"] = 1
    BY <2>0, <2>2 DEF Events
  <2> QED
    BY <1>2, <1>3, <1>4, <1>6, <1>7, <2>3 DEF Audited
<1> QED
  BY <1>1, <1>2, <1>3, <1>6, <1>8, <1>9, ParcelEnough DEF RowsTyped

(* A step of the payout of a parcel, from what it writes.                   *)
LEMMA PayoutRows ==
    ASSUME Assumptions, RowsInv, NEW c \in Cods, NEW row \in PayoutRow, NEW event,
           UNCHANGED <<cod, rem>>, payout' = [payout EXCEPT ![c] = row], Log(c, {event}),
           PayoutShape(row), row.status # "NONE",
           cod[c].status = "SETTLED", cod[c].remitted = Due[c], row.amount = Due[c],
           \/ event = "PAYOUT_CREATED" /\ payout[c].status = "NONE" /\ row.status = "PENDING"
           \/ event = "PAYOUT_SENT" /\ payout[c].status = "PENDING" /\ row.status = "SENT"
           \/ event = "PAYOUT_RECEIVED" /\ payout[c].status = "SENT" /\ row.status = "PAID_OUT"
           \/ event = "PAYOUT_DISPUTED" /\ payout[c].status = "SENT" /\ row.status = "DISPUTED"
    PROVE  RowsInv'
<1>1. Staged(c) /\ Audited(c) /\ RowsTyped
  BY DEF RowsInv
<1>2. /\ payout'[c] = row /\ payout' \in [Cods -> PayoutRow]
      /\ \A d \in Cods \ {c} : payout'[d] = payout[d]
  BY <1>1 DEF RowsTyped
<1>3. PendingKeys(c)' = PendingKeys(c) /\ \A st : Answered(c, st)' = Answered(c, st)
  BY HandoversAside
<1>4. Staged(c)'
  BY <1>1, <1>2, <1>3 DEF Staged
<1>5. Audited(c)'
  <2>0. \A e \in Events : log[c][e] \in Int
    BY <1>1 DEF RowsTyped
  <2>1. \A e \in Events : log'[c][e] = log[c][e] + Once(e \in {event})
    BY <1>1, Logged
  <2>2. PayoutShape(payout[c])
    BY <1>1 DEF Staged
  <2>3. /\ log'[c]["PAYOUT_CREATED"] = Once(row.status # "NONE")
        /\ log'[c]["PAYOUT_SENT"] = Once(row.sender # None)
        /\ log'[c]["PAYOUT_RECEIVED"] = Once(row.status = "PAID_OUT")
        /\ log'[c]["PAYOUT_DISPUTED"] = Once(row.status = "DISPUTED")
    <3>1. /\ log'[c]["PAYOUT_CREATED"] = log[c]["PAYOUT_CREATED"] + Once("PAYOUT_CREATED" = event)
          /\ log'[c]["PAYOUT_SENT"] = log[c]["PAYOUT_SENT"] + Once("PAYOUT_SENT" = event)
          /\ log'[c]["PAYOUT_RECEIVED"] = log[c]["PAYOUT_RECEIVED"] + Once("PAYOUT_RECEIVED" = event)
          /\ log'[c]["PAYOUT_DISPUTED"] = log[c]["PAYOUT_DISPUTED"] + Once("PAYOUT_DISPUTED" = event)
      BY <2>1 DEF Events, Once
    <3>2. /\ log[c]["PAYOUT_CREATED"] = Once(payout[c].status # "NONE")
          /\ log[c]["PAYOUT_SENT"] = Once(payout[c].sender # None)
          /\ log[c]["PAYOUT_RECEIVED"] = Once(payout[c].status = "PAID_OUT")
          /\ log[c]["PAYOUT_DISPUTED"] = Once(payout[c].status = "DISPUTED")
      BY <1>1 DEF Audited
    <3> QED
      BY <2>2, <3>1, <3>2 DEF Once, PayoutShape
  <2>4. \A e \in {"HANDOVER_SUBMITTED", "HANDOVER_CONFIRMED", "HANDOVER_REJECTED", "REMITTED",
                   "SETTLED"} : log'[c][e] = log[c][e]
    BY <2>0, <2>1 DEF Once, Events
  <2> QED
    BY <1>1, <1>2, <1>3, <2>3, <2>4 DEF Audited
<1> QED
  BY <1>1, <1>2, <1>4, <1>5, ParcelEnough DEF RowsTyped

(* A new payout.                                                            *)
LEMMA CreateRows ==
    ASSUME Assumptions, RowsInv, NEW f \in FormRow, FormShape(f), NEW x \in Texts \cup {None},
           WritesCreate(f, x), NEW c, c = f.cod,
           NEW row, row = [status |-> "PENDING", amount |-> f.amount, terms |-> x, creator |-> f.by,
                           sender |-> None, reason |-> None, version |-> 0]
    PROVE  RowsInv'
<1>1. c \in Cods /\ f.by \in Admins
  BY DEF WritesCreate, FormShape, AllActs, AdminActs
<1>2. /\ cod[c].status = "SETTLED" /\ payout[c].status = "NONE"
      /\ cod[c].remitted = Due[c] /\ f.amount = Due[c] /\ f.amount \in Amounts
      /\ UNCHANGED <<cod, rem>> /\ Log(c, {"PAYOUT_CREATED"})
  BY <1>1 DEF WritesCreate, CreateNew, AmountOK, Assumptions, DueAssumption
<1>3. payout' = [payout EXCEPT ![c] = row]
  <2>1. PICK new : new = [NoPayout EXCEPT !.status = "PENDING", !.amount = f.amount, !.terms = x,
                                          !.creator = f.by]
    OBVIOUS
  <2>2. new = [status |-> "PENDING", amount |-> f.amount, terms |-> x, creator |-> f.by,
               sender |-> None, reason |-> None, version |-> 0]
    BY <2>1 DEF NoPayout
  <2> QED
    BY <2>1, <2>2 DEF WritesCreate
<1>4. row \in PayoutRow
  <2>1. 0 \in 0 .. 2 /\ f.amount \in Amounts
    BY <1>2
  <2> QED
    BY <1>1, <2>1 DEF PayoutRow
<1>5. /\ row.status = "PENDING" /\ row.amount = Due[c] /\ row.sender = None /\ row.version = 0
  BY <1>2
<1>6. PayoutShape(row)
  BY <1>5 DEF PayoutShape
<1> QED
  BY <1>1, <1>2, <1>3, <1>4, <1>5, <1>6, PayoutRows

(* A payout recorded as sent.                                               *)
LEMMA SendRows ==
    ASSUME Assumptions, RowsInv, NEW f \in FormRow, FormShape(f), NEW x \in Texts \cup {None},
           WritesSend(f, x), NEW c, c = f.cod,
           NEW row, row = Sent(payout[c], f.by)
    PROVE  RowsInv'
<1>1. c \in Cods /\ f.by \in Admins /\ f.by # None
  BY DEF WritesSend, FormShape, AllActs, AdminActs, Assumptions, NoneAssumption
<1>2. Staged(c) /\ payout[c] \in PayoutRow /\ DOMAIN payout = Cods
  BY <1>1 DEF RowsInv, RowsTyped
<1>3. /\ cod[c].status = "SETTLED" /\ payout[c].status = "PENDING" /\ payout[c].version = 0
      /\ cod[c].remitted = Due[c] /\ payout[c].amount = Due[c]
      /\ UNCHANGED <<cod, rem>> /\ Log(c, {"PAYOUT_SENT"})
  BY <1>2 DEF WritesSend, SendNew, Staged, PayoutShape
<1>4. payout' = [payout EXCEPT ![c] = row]
  BY <1>1, <1>2 DEF WritesSend, PayoutRow, Sent
<1>5. /\ row \in PayoutRow /\ row.status = "SENT" /\ row.amount = Due[c]
      /\ row.sender = f.by /\ row.version = 1
  BY <1>1, <1>2, <1>3, SentRow
<1>6. PayoutShape(row)
  BY <1>1, <1>5 DEF PayoutShape
<1> QED
  BY <1>1, <1>3, <1>4, <1>5, <1>6, PayoutRows

(* An acknowledged payout.                                                  *)
LEMMA AcknowledgeRows ==
    ASSUME Assumptions, RowsInv, NEW f \in FormRow, FormShape(f), NEW x \in Texts \cup {None},
           WritesAcknowledge(f, x), NEW c, c = f.cod,
           NEW new, new = IF f.act = "receive" THEN "PAID_OUT" ELSE "DISPUTED",
           NEW row, row = Acknowledged(payout[c], new, x)
    PROVE  RowsInv'
<1>1. c \in Cods
  BY DEF WritesAcknowledge, FormShape, AllActs
<1>2. Staged(c) /\ payout[c] \in PayoutRow /\ DOMAIN payout = Cods
  BY <1>1 DEF RowsInv, RowsTyped
<1>3. /\ cod[c].status = "SETTLED" /\ payout[c].status = "SENT" /\ payout[c].version = 1
      /\ cod[c].remitted = Due[c] /\ payout[c].amount = Due[c] /\ payout[c].sender # None
      /\ UNCHANGED <<cod, rem>>
      /\ Log(c, IF f.act = "receive" THEN {"PAYOUT_RECEIVED"} ELSE {"PAYOUT_DISPUTED"})
  BY <1>2 DEF WritesAcknowledge, AcknowledgeNew, Staged, PayoutShape
<1>4. payout' = [payout EXCEPT ![c] = row]
  BY <1>1, <1>2 DEF WritesAcknowledge, PayoutRow, Acknowledged
<1>5. /\ row \in PayoutRow /\ row.status = new /\ row.amount = Due[c]
      /\ row.sender = payout[c].sender
  <2>1. new \in {"PAID_OUT", "DISPUTED"}
    OBVIOUS
  <2> QED
    BY <1>2, <1>3, <2>1, PaidRow
<1>6. PayoutShape(row)
  BY <1>3, <1>5 DEF PayoutShape
<1>7. CASE f.act = "receive"
  BY <1>1, <1>3, <1>4, <1>5, <1>6, <1>7, PayoutRows
<1>8. CASE f.act # "receive"
  BY <1>1, <1>3, <1>4, <1>5, <1>6, <1>8, PayoutRows
<1> QED
  BY <1>7, <1>8

(* Whatever a command writes, the rows stay tied together.                  *)
LEMMA WritesRows ==
    ASSUME Assumptions, RowsInv, NEW f \in FormRow, FormShape(f), NEW x \in Texts \cup {None},
           Writes(f, x)
    PROVE  RowsInv'
BY RemitRows, ReviewRows, SettleRows, CreateRows, SendRows, AcknowledgeRows DEF Writes

(* The delivery records the cash.                                           *)
LEMMA CollectRows ==
    ASSUME Assumptions, RowsInv, NEW c \in Cods, NEW d \in Drivers, Collect(c, d)
    PROVE  RowsInv'
<1>1. Staged(c) /\ Audited(c) /\ RowsTyped /\ cod[c].status = "NONE"
  BY DEF RowsInv, Collect
<1>2. /\ cod' \in [Cods -> CodRow] /\ \A b \in Cods \ {c} : cod'[b] = cod[b]
      /\ cod'[c].status = "COLLECTED" /\ cod'[c].version = cod[c].version
  <2>1. cod[c] \in CodRow
    BY <1>1 DEF RowsTyped
  <2>2. cod' = [cod EXCEPT ![c] = [cod[c] EXCEPT !.status = "COLLECTED", !.by = d]]
    BY <1>1 DEF Collect, RowsTyped
  <2>3. [cod[c] EXCEPT !.status = "COLLECTED", !.by = d] \in CodRow
    BY <2>1 DEF CodRow
  <2> QED
    BY <1>1, <2>1, <2>2, <2>3 DEF RowsTyped, CodRow
<1>3. UNCHANGED <<rem, payout, log>>
  BY DEF Collect
<1>4. PendingKeys(c)' = PendingKeys(c) /\ \A st : Answered(c, st)' = Answered(c, st)
  BY <1>3, HandoversAside
<1>5. Staged(c)' /\ Audited(c)'
  BY <1>1, <1>2, <1>3, <1>4 DEF Staged, Audited
<1>6. \A b \in Cods : Staged(b)' /\ Audited(b)'
  BY <1>2, <1>3, <1>5, ParcelAside
<1> QED
  BY <1>1, <1>2, <1>3, <1>6 DEF RowsInv, RowsTyped

-----------------------------------------------------------------------------
(* What is recorded stays recorded                                          *)

(* What no step takes back: who collected, what was settled, what a driver  *)
(* offered and how it was answered, what a payout was and how it ended.     *)
KeptRows ==
    \A c \in Cods :
      /\ cod[c].status # "NONE" => cod'[c].status # "NONE" /\ cod'[c].by = cod[c].by
      /\ cod[c].status = "SETTLED" => cod'[c] = cod[c]
      /\ \A k \in Keys :
           LET old == rem[c][k]  new == rem'[c][k] IN
           /\ old.status # "NONE" => /\ new.status # "NONE" /\ new.by = old.by
                                     /\ new.amount = old.amount /\ new.note = old.note
           /\ old.status \in {"CONFIRMED", "REJECTED"} => new = old
      /\ LET old == payout[c]  new == payout'[c] IN
         /\ old.status # "NONE" => /\ new.status # "NONE" /\ new.amount = old.amount
                                   /\ new.terms = old.terms /\ new.creator = old.creator
         /\ old.sender # None => new.sender = old.sender
         /\ old.status \in {"PAID_OUT", "DISPUTED"} => new = old

(* A step of the payout of one parcel takes nothing back.                   *)
LEMMA PayoutKept ==
    ASSUME RowsInv, NEW c \in Cods, NEW row, UNCHANGED <<cod, rem>>,
           payout' = [payout EXCEPT ![c] = row],
           payout[c].status \in {"NONE", "PENDING", "SENT"},
           payout[c].status # "NONE" => /\ row.status # "NONE" /\ row.amount = payout[c].amount
                                        /\ row.terms = payout[c].terms
                                        /\ row.creator = payout[c].creator,
           payout[c].sender # None => row.sender = payout[c].sender
    PROVE  KeptRows
<1>1. payout'[c] = row /\ \A d \in Cods \ {c} : payout'[d] = payout[d]
  BY DEF RowsInv, RowsTyped
<1> QED
  BY <1>1 DEF KeptRows

(* No command takes anything back.                                          *)
LEMMA WritesKept ==
    ASSUME Assumptions, RowsInv, NEW f \in FormRow, FormShape(f), NEW x \in Texts \cup {None},
           Writes(f, x)
    PROVE  KeptRows
<1> DEFINE c == f.cod
           k == f.key
<1>1. c \in Cods /\ (f.act \in {"submit", "confirm", "reject"} => k \in Keys)
      /\ (f.act \in AdminActs => f.by \in Admins)
  BY DEF Writes, WritesRemit, WritesReview, WritesSettle, WritesCreate, WritesSend,
         WritesAcknowledge, FormShape, AllActs, DriverActs, AdminActs, CustomerActs
<1>2. Staged(c) /\ RowsTyped /\ payout[c] \in PayoutRow /\ cod[c] \in CodRow
  BY <1>1 DEF RowsInv, RowsTyped
<1> HIDE DEF c, k
<1>3. CASE WritesRemit(f, x)
  <2>1. rem[c][k].status = "NONE" /\ k \in Keys /\ UNCHANGED <<cod, payout>>
    BY <1>1, <1>3 DEF WritesRemit, RemitNew, c, k
  <2>2. \A d \in Cods, l \in Keys : rem[d][l].status # "NONE" => rem'[d][l] = rem[d][l]
    BY <1>1, <1>2, <1>3, <2>1 DEF WritesRemit, RowsTyped, c, k
  <2> QED
    BY <2>1, <2>2 DEF KeptRows
<1>4. CASE WritesReview(f, x)
  <2> DEFINE new == IF f.act = "confirm" THEN "CONFIRMED" ELSE "REJECTED"
  <2>1. /\ rem[c][k].status = "PENDING" /\ cod[c].status = "COLLECTED" /\ UNCHANGED payout
        /\ k \in Keys /\ f.by \in Admins
    BY <1>1, <1>4 DEF WritesReview, ReviewNew, AdminActs, c, k
  <2>2. new \in {"CONFIRMED", "REJECTED"}
    OBVIOUS
  <2>3. rem' = [rem EXCEPT ![c][k] = Reviewed(rem[c][k], new, f.by, x)]
    BY <1>1, <1>2, <1>4, <2>1 DEF WritesReview, RowsTyped, c, k
  <2> HIDE DEF new
  <2>4. rem[c][k] \in RemRow /\ rem[c][k].version = 0
    BY <1>1, <1>2, <2>1 DEF RowsTyped, Staged, RemShape
  <2>5. /\ rem'[c][k].status # "NONE" /\ rem'[c][k].by = rem[c][k].by
        /\ rem'[c][k].amount = rem[c][k].amount /\ rem'[c][k].note = rem[c][k].note
        /\ \A d \in Cods, l \in Keys : d # c \/ l # k => rem'[d][l] = rem[d][l]
    <3>1. rem'[c][k] = Reviewed(rem[c][k], new, f.by, x)
          /\ \A d \in Cods, l \in Keys : d # c \/ l # k => rem'[d][l] = rem[d][l]
      BY <1>1, <1>2, <2>1, <2>3 DEF RowsTyped
    <3> QED
      BY <2>1, <2>2, <2>4, <3>1, ReviewedRow
  <2>6. /\ cod'[c].status # "NONE" /\ cod'[c].by = cod[c].by
        /\ \A d \in Cods \ {c} : cod'[d] = cod[d]
    <3>1. CASE f.act = "confirm"
      <4>1. cod' = [cod EXCEPT ![c].status = "REMITTED", ![c].remitted = rem[c][k].amount,
                               ![c].version = @ + 1]
        BY <1>4, <3>1 DEF WritesReview, c, k
      <4> QED
        BY <1>1, <1>2, <4>1 DEF RowsTyped, CodRow
    <3>2. CASE f.act # "confirm"
      BY <1>4, <2>1, <3>2 DEF WritesReview
    <3> QED
      BY <3>1, <3>2
  <2> QED
    BY <2>1, <2>5, <2>6 DEF KeptRows
<1>5. CASE WritesSettle(f, x)
  <2>1. cod[c].status = "REMITTED" /\ UNCHANGED <<rem, payout>>
    BY <1>5 DEF WritesSettle, SettleNew, c
  <2>2. cod' = [cod EXCEPT ![c].status = "SETTLED", ![c].version = @ + 1]
    BY <1>5 DEF WritesSettle, c
  <2>3. /\ cod'[c].status # "NONE" /\ cod'[c].by = cod[c].by
        /\ \A d \in Cods \ {c} : cod'[d] = cod[d]
    BY <1>1, <1>2, <2>2 DEF RowsTyped, CodRow
  <2> QED
    BY <2>1, <2>3 DEF KeptRows
<1>6. CASE WritesCreate(f, x)
  <2>1. PICK row : payout' = [payout EXCEPT ![c] = row]
    BY <1>6 DEF WritesCreate, c
  <2>2. payout[c].status = "NONE" /\ UNCHANGED <<cod, rem>>
    BY <1>6 DEF WritesCreate, CreateNew, c
  <2>3. payout[c].sender = None
    BY <1>2, <2>2 DEF Staged, PayoutShape
  <2> QED
    BY <1>1, <2>1, <2>2, <2>3, PayoutKept
<1>7. CASE WritesSend(f, x)
  <2>1. payout[c].status = "PENDING" /\ UNCHANGED <<cod, rem>> /\ f.by \in Admins
    BY <1>1, <1>7 DEF WritesSend, SendNew, AdminActs, c
  <2>2. payout[c].sender = None /\ payout[c].version = 0
    BY <1>2, <2>1 DEF Staged, PayoutShape
  <2>3. payout' = [payout EXCEPT ![c] = Sent(payout[c], f.by)]
    BY <1>1, <1>2, <1>7 DEF WritesSend, PayoutRow, Sent, RowsTyped, c
  <2>4. /\ Sent(payout[c], f.by).status # "NONE"
        /\ Sent(payout[c], f.by).amount = payout[c].amount
        /\ Sent(payout[c], f.by).terms = payout[c].terms
        /\ Sent(payout[c], f.by).creator = payout[c].creator
    BY <1>2, <2>1, <2>2, SentRow
  <2> QED
    BY <1>1, <2>1, <2>2, <2>3, <2>4, PayoutKept
<1>8. CASE WritesAcknowledge(f, x)
  <2> DEFINE new == IF f.act = "receive" THEN "PAID_OUT" ELSE "DISPUTED"
  <2>1. payout[c].status = "SENT" /\ UNCHANGED <<cod, rem>> /\ new \in {"PAID_OUT", "DISPUTED"}
    BY <1>8 DEF WritesAcknowledge, AcknowledgeNew, c
  <2>2. payout[c].version = 1
    BY <1>2, <2>1 DEF Staged, PayoutShape
  <2>3. payout' = [payout EXCEPT ![c] = Acknowledged(payout[c], new, x)]
    BY <1>1, <1>2, <1>8 DEF WritesAcknowledge, PayoutRow, Acknowledged, RowsTyped, c
  <2> HIDE DEF new
  <2>4. /\ Acknowledged(payout[c], new, x).status # "NONE"
        /\ Acknowledged(payout[c], new, x).amount = payout[c].amount
        /\ Acknowledged(payout[c], new, x).terms = payout[c].terms
        /\ Acknowledged(payout[c], new, x).creator = payout[c].creator
        /\ Acknowledged(payout[c], new, x).sender = payout[c].sender
    BY <1>2, <2>1, <2>2, PaidRow
  <2> QED
    BY <1>1, <2>1, <2>2, <2>3, <2>4, PayoutKept
<1> QED
  BY <1>3, <1>4, <1>5, <1>6, <1>7, <1>8 DEF Writes

(* Collecting takes nothing back: nothing was collected before.             *)
LEMMA CollectKept ==
    ASSUME RowsInv, NEW c \in Cods, NEW d \in Drivers, Collect(c, d)
    PROVE  KeptRows
<1>1. \A b \in Cods : cod[b].status # "NONE" => cod'[b] = cod[b]
  BY DEF Collect, RowsInv, RowsTyped
<1>2. UNCHANGED <<rem, payout>>
  BY DEF Collect
<1> QED
  BY <1>1, <1>2 DEF KeptRows

(* What is recorded for a form stays recorded.                              *)
LEMMA RecordedKept ==
    ASSUME Assumptions, RowsInv, KeptRows, NEW g \in FormRow, FormShape(g), g.act \in AllActs,
           NEW y, Recorded(g, y)
    PROVE  Recorded(g, y)'
<1> DEFINE c == g.cod
           k == g.key
<1>1. c \in Cods /\ (g.act \in {"submit", "confirm", "reject"} => k \in Keys)
      /\ (g.act = "send" => g.by # None)
  BY DEF FormShape, AdminActs, Assumptions, NoneAssumption
<1>2. PayoutShape(payout[c])
  BY <1>1 DEF RowsInv, Staged
<1> HIDE DEF c, k
<1>3. CASE g.act = "submit"
  <2>1. /\ cod[c].by = g.by /\ cod[c].status # "NONE" /\ g.amount = Due[c]
        /\ rem[c][k].status # "NONE" /\ rem[c][k].amount = g.amount
        /\ rem[c][k].by = g.by /\ rem[c][k].note = y
    BY <1>3 DEF Recorded, RemitReplay, AmountOK, c, k
  <2>2. /\ cod'[c].by = g.by /\ cod'[c].status # "NONE"
        /\ rem'[c][k].status # "NONE" /\ rem'[c][k].amount = g.amount
        /\ rem'[c][k].by = g.by /\ rem'[c][k].note = y
    BY <1>1, <1>3, <2>1 DEF KeptRows
  <2> QED
    BY <1>3, <2>1, <2>2 DEF Recorded, RemitReplay, AmountOK, c, k
<1>4. CASE g.act \in {"confirm", "reject"}
  <2>1. ReviewReplay(g, y)
    BY <1>4 DEF Recorded
  <2>2. rem[c][k].status \in {"CONFIRMED", "REJECTED"}
    BY <2>1 DEF ReviewReplay, c, k
  <2>3. rem'[c][k] = rem[c][k]
    BY <1>1, <1>4, <2>2 DEF KeptRows
  <2>4. ReviewReplay(g, y)'
    BY <2>1, <2>3 DEF ReviewReplay, c, k
  <2> QED
    BY <1>4, <2>4 DEF Recorded
<1>5. CASE g.act = "settle"
  <2>1. cod[c].status = "SETTLED" /\ cod[c].remitted = Due[c]
    BY <1>5 DEF Recorded, SettleReplay, AmountOK, c
  <2>2. cod'[c] = cod[c]
    BY <1>1, <2>1 DEF KeptRows
  <2> QED
    BY <1>5, <2>1, <2>2 DEF Recorded, SettleReplay, AmountOK, c
<1>6. CASE g.act = "create"
  <2>1. /\ cod[c].status = "SETTLED" /\ cod[c].remitted = Due[c] /\ g.amount = Due[c]
        /\ payout[c].status # "NONE"
        /\ payout[c].amount = g.amount /\ payout[c].terms = y /\ payout[c].creator = g.by
    BY <1>6 DEF Recorded, CreateReplay, AmountOK, c
  <2>2. /\ cod'[c] = cod[c] /\ payout'[c].status # "NONE"
        /\ payout'[c].amount = g.amount /\ payout'[c].terms = y /\ payout'[c].creator = g.by
    BY <1>1, <2>1 DEF KeptRows
  <2> QED
    BY <1>6, <2>1, <2>2 DEF Recorded, CreateReplay, AmountOK, c
<1>7. CASE g.act = "send"
  <2>1. /\ cod[c].status = "SETTLED" /\ payout[c].amount = Due[c]
        /\ payout[c].terms = y /\ payout[c].sender = g.by /\ g.version = 0
    BY <1>7 DEF Recorded, SendReplay, AmountOK, c
  <2>2. payout[c].status # "NONE" /\ payout[c].sender # None
    BY <1>1, <1>2, <1>7, <2>1 DEF PayoutShape
  <2>3. /\ cod'[c] = cod[c] /\ payout'[c].amount = Due[c]
        /\ payout'[c].terms = y /\ payout'[c].sender = g.by
    BY <1>1, <2>1, <2>2 DEF KeptRows
  <2> QED
    BY <1>7, <2>1, <2>3 DEF Recorded, SendReplay, AmountOK, c
<1>8. CASE g.act \in CustomerActs
  <2>1. AcknowledgeReplay(g, y)
    BY <1>8 DEF Recorded, CustomerActs
  <2>2. payout[c].status \in {"PAID_OUT", "DISPUTED"}
    BY <2>1 DEF AcknowledgeReplay, c
  <2>3. payout'[c] = payout[c]
    BY <1>1, <2>2 DEF KeptRows
  <2>4. AcknowledgeReplay(g, y)'
    BY <2>1, <2>3 DEF AcknowledgeReplay, c
  <2> QED
    BY <1>8, <2>4 DEF Recorded, CustomerActs
<1> QED
  BY <1>3, <1>4, <1>5, <1>6, <1>7, <1>8 DEF AllActs, DriverActs, AdminActs

(* What a command writes for a form is recorded for it.                     *)
LEMMA WritesRecorded ==
    ASSUME Assumptions, RowsInv, NEW f \in FormRow, FormShape(f), NEW x \in Texts \cup {None},
           Writes(f, x)
    PROVE  Recorded(f, x)'
<1> DEFINE c == f.cod
           k == f.key
<1>1. c \in Cods /\ (f.act \in {"submit", "confirm", "reject"} => k \in Keys)
      /\ (f.act \in AdminActs => f.by \in Admins)
  BY DEF Writes, WritesRemit, WritesReview, WritesSettle, WritesCreate, WritesSend,
         WritesAcknowledge, FormShape, AllActs, DriverActs, AdminActs, CustomerActs
<1>2. Staged(c) /\ RowsTyped /\ payout[c] \in PayoutRow /\ cod[c] \in CodRow
  BY <1>1 DEF RowsInv, RowsTyped
<1> HIDE DEF c, k
<1>3. CASE WritesRemit(f, x)
  <2>1. /\ f.act = "submit" /\ k \in Keys /\ cod[c].by = f.by /\ cod[c].status = "COLLECTED"
        /\ f.amount = Due[c] /\ UNCHANGED cod
    BY <1>1, <1>3 DEF WritesRemit, RemitNew, AmountOK, c, k
  <2>2. rem'[c][k] = [NoRem EXCEPT !.status = "PENDING", !.by = f.by, !.amount = f.amount, !.note = x]
    BY <1>1, <1>2, <1>3, <2>1 DEF WritesRemit, RowsTyped, c, k
  <2>3. /\ rem'[c][k].status = "PENDING" /\ rem'[c][k].by = f.by
        /\ rem'[c][k].amount = f.amount /\ rem'[c][k].note = x
    BY <2>2 DEF NoRem
  <2> QED
    BY <2>1, <2>3 DEF Recorded, RemitReplay, AmountOK, c, k
<1>4. CASE WritesReview(f, x)
  <2> DEFINE new == IF f.act = "confirm" THEN "CONFIRMED" ELSE "REJECTED"
  <2>1. /\ rem[c][k].status = "PENDING" /\ rem[c][k].version = f.version
        /\ k \in Keys /\ f.by \in Admins /\ f.act \in {"confirm", "reject"}
        /\ new \in {"CONFIRMED", "REJECTED"}
    BY <1>1, <1>4 DEF WritesReview, ReviewNew, AdminActs, c, k
  <2>2. rem'[c][k] = Reviewed(rem[c][k], new, f.by, x)
    BY <1>1, <1>2, <1>4, <2>1 DEF WritesReview, RowsTyped, c, k
  <2>3. rem[c][k] \in RemRow /\ rem[c][k].version = 0
    BY <1>1, <1>2, <2>1 DEF RowsTyped, Staged, RemShape
  <2>4. /\ rem'[c][k].status = new /\ rem'[c][k].reviewer = f.by /\ rem'[c][k].reason = x
        /\ rem'[c][k].version = 1
    <3> HIDE DEF new
    <3> QED
      BY <2>1, <2>2, <2>3, ReviewedRow
  <2>5. ReviewReplay(f, x)'
    BY <2>1, <2>3, <2>4 DEF ReviewReplay, c, k
  <2> QED
    BY <2>1, <2>5 DEF Recorded
<1>5. CASE WritesSettle(f, x)
  <2>1. f.act = "settle" /\ cod[c].remitted = Due[c]
    BY <1>5 DEF WritesSettle, SettleNew, AmountOK, c
  <2>2. cod' = [cod EXCEPT ![c].status = "SETTLED", ![c].version = @ + 1]
    BY <1>5 DEF WritesSettle, c
  <2>3. cod'[c].status = "SETTLED" /\ cod'[c].remitted = Due[c]
    BY <1>1, <1>2, <2>1, <2>2 DEF RowsTyped, CodRow
  <2> QED
    BY <2>1, <2>3 DEF Recorded, SettleReplay, AmountOK, c
<1>6. CASE WritesCreate(f, x)
  <2>1. f.act = "create" /\ f.amount = Due[c] /\ cod[c].status = "SETTLED" /\ UNCHANGED cod
        /\ cod[c].remitted = Due[c]
    BY <1>6 DEF WritesCreate, CreateNew, AmountOK, c
  <2>2. payout'[c] = [NoPayout EXCEPT !.status = "PENDING", !.amount = f.amount, !.terms = x,
                                      !.creator = f.by]
    BY <1>1, <1>2, <1>6 DEF WritesCreate, RowsTyped, c
  <2>3. /\ payout'[c].status = "PENDING" /\ payout'[c].amount = f.amount
        /\ payout'[c].terms = x /\ payout'[c].creator = f.by
    BY <2>2 DEF NoPayout
  <2> QED
    BY <2>1, <2>3 DEF Recorded, CreateReplay, AmountOK, c
<1>7. CASE WritesSend(f, x)
  <2>1. /\ f.act = "send" /\ cod[c].status = "SETTLED" /\ UNCHANGED cod /\ f.by \in Admins
        /\ payout[c].status = "PENDING" /\ payout[c].terms = x /\ payout[c].version = f.version
        /\ payout[c].amount = Due[c]
    BY <1>1, <1>7 DEF WritesSend, SendNew, AmountOK, AdminActs, c
  <2>2. payout[c].version = 0
    BY <1>2, <2>1 DEF Staged, PayoutShape
  <2>3. payout'[c] = Sent(payout[c], f.by)
    BY <1>1, <1>2, <1>7 DEF WritesSend, PayoutRow, Sent, RowsTyped, c
  <2>4. payout'[c].amount = Due[c] /\ payout'[c].terms = x /\ payout'[c].sender = f.by
    BY <1>2, <2>1, <2>2, <2>3, SentRow
  <2> QED
    BY <2>1, <2>2, <2>4 DEF Recorded, SendReplay, AmountOK, c
<1>8. CASE WritesAcknowledge(f, x)
  <2> DEFINE new == IF f.act = "receive" THEN "PAID_OUT" ELSE "DISPUTED"
  <2>1. /\ payout[c].status = "SENT" /\ payout[c].version = f.version
        /\ f.act \in CustomerActs /\ new \in {"PAID_OUT", "DISPUTED"}
    BY <1>8 DEF WritesAcknowledge, AcknowledgeNew, c
  <2>2. payout[c].version = 1
    BY <1>2, <2>1 DEF Staged, PayoutShape
  <2>3. payout'[c] = Acknowledged(payout[c], new, x)
    BY <1>1, <1>2, <1>8 DEF WritesAcknowledge, PayoutRow, Acknowledged, RowsTyped, c
  <2>4. payout'[c].status = new /\ payout'[c].reason = x /\ payout'[c].version = f.version + 1
    <3> HIDE DEF new
    <3> QED
      BY <1>2, <2>1, <2>2, <2>3, PaidRow
  <2>5. AcknowledgeReplay(f, x)'
    BY <2>1, <2>4 DEF AcknowledgeReplay, c
  <2> QED
    BY <2>1, <2>5 DEF Recorded, CustomerActs
<1> QED
  BY <1>3, <1>4, <1>5, <1>6, <1>7, <1>8 DEF Writes

-----------------------------------------------------------------------------
(* Forms *)

(* What the screen of form f shows when the copy m of it has been answered. *)
Replied(f, m, ok, applied) ==
    LET g == IF applied THEN [f EXCEPT !.applied = TRUE, !.said = m[1]] ELSE f IN
    IF m[2] THEN [g EXCEPT !.phase = IF ok THEN "done" ELSE "open"]
    ELSE [g EXCEPT !.late = @ \ {m[1]}]

SameCommand(f, g) ==
    /\ g.act = f.act /\ g.by = f.by /\ g.cod = f.cod /\ g.key = f.key
    /\ g.version = f.version /\ g.amount = f.amount

Answers(f, g, m, ok, applied) ==
    /\ g \in FormRow /\ SameCommand(f, g) /\ g.sent = f.sent
    /\ g.applied = (f.applied \/ applied)
    /\ g.said = IF applied THEN m[1] ELSE f.said
    /\ g.phase = IF m[2] THEN (IF ok THEN "done" ELSE "open") ELSE f.phase

LEMMA RepliedForm ==
    ASSUME NEW f \in FormRow, NEW m, m[1] \in Texts \cup {None}, m[2] \in BOOLEAN,
           NEW ok \in BOOLEAN, NEW applied \in BOOLEAN,
           NEW g, g = Replied(f, m, ok, applied)
    PROVE  Answers(f, g, m, ok, applied)
<1> DEFINE a(h) == [h EXCEPT !.applied = TRUE]
           s(h) == [h EXCEPT !.said = m[1]]
           p(h) == [h EXCEPT !.phase = IF ok THEN "done" ELSE "open"]
           l(h) == [h EXCEPT !.late = @ \ {m[1]}]
           told == IF applied THEN s(a(f)) ELSE f
<1>1. ASSUME NEW h \in FormRow
      PROVE  a(h) \in FormRow /\ SameCommand(h, a(h)) /\ a(h).sent = h.sent /\ a(h).applied
             /\ a(h).phase = h.phase
  <2>1. ASSUME NEW b \in BOOLEAN
        PROVE  /\ [h EXCEPT !.applied = b] \in FormRow
               /\ SameCommand(h, [h EXCEPT !.applied = b])
               /\ [h EXCEPT !.applied = b].sent = h.sent
               /\ [h EXCEPT !.applied = b].phase = h.phase
               /\ [h EXCEPT !.applied = b].applied = b
    BY DEF FormRow, SameCommand
  <2> QED
    BY <2>1
<1>2. ASSUME NEW h \in FormRow
      PROVE  s(h) \in FormRow /\ SameCommand(h, s(h)) /\ s(h).sent = h.sent
             /\ s(h).applied = h.applied /\ s(h).said = m[1] /\ s(h).phase = h.phase
  BY DEF FormRow, SameCommand
<1>3. ASSUME NEW h \in FormRow
      PROVE  p(h) \in FormRow /\ SameCommand(h, p(h)) /\ p(h).sent = h.sent
             /\ p(h).applied = h.applied /\ p(h).said = h.said
             /\ p(h).phase = IF ok THEN "done" ELSE "open"
  BY DEF FormRow, SameCommand
<1>4. ASSUME NEW h \in FormRow
      PROVE  l(h) \in FormRow /\ SameCommand(h, l(h)) /\ l(h).sent = h.sent
             /\ l(h).applied = h.applied /\ l(h).said = h.said /\ l(h).phase = h.phase
  BY DEF FormRow, SameCommand
<1>5. g = IF m[2] THEN p(told) ELSE l(told)
  BY DEF Replied
<1>6. f.applied \in BOOLEAN
  BY DEF FormRow
<1> HIDE DEF a, s, p, l
<1>7. /\ told \in FormRow /\ SameCommand(f, told) /\ told.sent = f.sent
      /\ told.applied = (f.applied \/ applied)
      /\ told.said = IF applied THEN m[1] ELSE f.said
      /\ told.phase = f.phase
  <2>1. CASE applied
    <3>1. a(f) \in FormRow /\ SameCommand(f, a(f)) /\ a(f).sent = f.sent /\ a(f).applied
          /\ a(f).phase = f.phase
      BY <1>1
    <3>2. s(a(f)) \in FormRow /\ SameCommand(a(f), s(a(f))) /\ s(a(f)).sent = a(f).sent
          /\ s(a(f)).applied = a(f).applied /\ s(a(f)).said = m[1] /\ s(a(f)).phase = a(f).phase
      BY <1>2, <3>1
    <3> QED
      BY <2>1, <3>1, <3>2 DEF SameCommand
  <2>2. CASE ~applied
    BY <1>6, <2>2 DEF SameCommand
  <2> QED
    BY <2>1, <2>2
<1> HIDE DEF told
<1>8. CASE m[2]
  <2>1. g = p(told)
    BY <1>5, <1>8
  <2> QED
    BY <1>3, <1>7, <1>8, <2>1 DEF SameCommand, Answers
<1>9. CASE ~m[2]
  <2>1. g = l(told)
    BY <1>5, <1>9
  <2> QED
    BY <1>4, <1>7, <1>9, <2>1 DEF SameCommand, Answers
<1> QED
  BY <1>8, <1>9

(* What is recorded depends only on the command of the form.                *)
LEMMA SameRecorded ==
    ASSUME NEW f, NEW g, SameCommand(f, g), NEW y
    PROVE  Recorded(f, y) = Recorded(g, y) /\ Recorded(f, y)' = Recorded(g, y)'
BY DEF SameCommand, Recorded, RemitReplay, ReviewReplay, SettleReplay, CreateReplay, SendReplay,
       AcknowledgeReplay, AmountOK

(* A form stays truthful while nothing is taken back.                       *)
LEMMA ToldKept ==
    ASSUME Assumptions, RowsInv, KeptRows, NEW g \in FormRow, FormShape(g), Told(g)
    PROVE  Told(g)'
<1>1. g.applied \/ g.phase = "done" => g.act \in AllActs
  BY DEF FormShape
<1> QED
  BY <1>1, RecordedKept DEF Told

LEMMA UnchangedKept ==
    ASSUME UNCHANGED rows
    PROVE  KeptRows
BY DEF rows, KeptRows

(* A step of one form leaves the others as they were told.                  *)
LEMMA FormStep ==
    ASSUME Assumptions, IInv, KeptRows, NEW q \in Forms, NEW g \in FormRow, FormShape(g), Told(g)',
           form' = [form EXCEPT ![q] = g]
    PROVE  FormsTyped' /\ FormsInv'
<1>1. form' \in [Forms -> FormRow] /\ form'[q] = g /\ \A p \in Forms \ {q} : form'[p] = form[p]
  BY DEF IInv, FormsTyped
<1>2. ASSUME NEW p \in Forms \ {q}, NEW h, h = form[p]
      PROVE  h \in FormRow /\ FormShape(h) /\ Told(h)'
  <2>1. h \in FormRow /\ FormShape(h) /\ Told(h)
    BY <1>2 DEF IInv, FormsInv
  <2> QED
    BY <2>1, ToldKept DEF IInv
<1>3. ASSUME NEW p \in Forms \ {q}
      PROVE  form'[p] \in FormRow /\ FormShape(form'[p]) /\ Told(form[p])'
  <2>1. PICK h : h = form[p]
    OBVIOUS
  <2>2. h = form'[p] /\ h = form[p]
    BY <1>1, <2>1
  <2>3. h \in FormRow /\ FormShape(h) /\ Told(h)'
    BY <1>2, <2>1
  <2> QED
    BY <2>2, <2>3 DEF Told
<1>4. ASSUME NEW p \in Forms
      PROVE  form'[p] \in FormRow /\ FormShape(form'[p]) /\ Told(form[p])'
  <2>1. CASE p = q
    BY <1>1, <2>1 DEF Told
  <2> QED
    BY <1>3, <2>1
<1> QED
  BY <1>1, <1>4 DEF FormsTyped, FormsInv

-----------------------------------------------------------------------------
(* Commands *)

(* A copy carries a text a user typed; the one the form waits for is the    *)
(* text it sent.                                                            *)
LEMMA CopyShape ==
    ASSUME NEW f, f \in FormRow, NEW q, f = form[q], NEW m \in Copies(q)
    PROVE  /\ m[1] \in Texts \cup {None} /\ m[2] \in BOOLEAN
           /\ m[2] => m[1] = f.sent /\ f.phase = "waiting"
<1>1. f.sent \in Texts \cup {None} /\ f.late \subseteq Texts \cup {None}
  BY DEF FormRow
<1>2. CASE m \in {<<x, FALSE>> : x \in f.late}
  <2>1. PICK x \in f.late : m = <<x, FALSE>>
    BY <1>2
  <2> QED
    BY <1>1, <2>1
<1>3. CASE f.phase = "waiting" /\ m = <<f.sent, TRUE>>
  BY <1>1, <1>3
<1> QED
  BY <1>2, <1>3 DEF Copies

(* A command writes rows and says so, or writes nothing and says "done"     *)
(* only for what it recognises.                                             *)
LEMMA CommandCases ==
    ASSUME NEW q, NEW m, NEW f, f = form[q], form \in [Forms -> FormRow], q \in Forms, Command(q, m)
    PROVE  /\ f.act \in AllActs /\ m \in Copies(q)
           /\ \E ok \in BOOLEAN, applied \in BOOLEAN :
                /\ form' = [form EXCEPT ![q] = Replied(f, m, ok, applied)]
                /\ applied => ok /\ Writes(f, m[1])
                /\ ok /\ ~applied => Recorded(f, m[1])
                /\ ~applied => UNCHANGED rows
<1> DEFINE Outcome == \E ok \in BOOLEAN, applied \in BOOLEAN :
                        /\ form' = [form EXCEPT ![q] = Replied(f, m, ok, applied)]
                        /\ applied => ok /\ Writes(f, m[1])
                        /\ ok /\ ~applied => Recorded(f, m[1])
                        /\ ~applied => UNCHANGED rows
<1>1. ASSUME NEW ok \in BOOLEAN, NEW applied \in BOOLEAN, Reply(q, m, ok, applied)
      PROVE  form' = [form EXCEPT ![q] = Replied(f, m, ok, applied)]
  BY <1>1 DEF Reply, Replied
<1>2. ASSUME Writes(f, m[1]), Reply(q, m, TRUE, TRUE)
      PROVE  Outcome
  BY <1>1, <1>2
<1>3. ASSUME NEW replay \in BOOLEAN, replay => Recorded(f, m[1]), Reply(q, m, replay, FALSE),
             UNCHANGED rows
      PROVE  Outcome
  BY <1>1, <1>3
<1>4. ASSUME NEW new, NEW replay, replay \in BOOLEAN, replay => Recorded(f, m[1]),
             Unwritten(q, m, new, replay)
      PROVE  Outcome
  BY <1>3, <1>4 DEF Unwritten
<1>5. /\ RemitReplay(f, m[1]) \in BOOLEAN /\ ReviewReplay(f, m[1]) \in BOOLEAN
      /\ SettleReplay(f, m[1]) \in BOOLEAN /\ CreateReplay(f, m[1]) \in BOOLEAN
      /\ SendReplay(f, m[1]) \in BOOLEAN /\ AcknowledgeReplay(f, m[1]) \in BOOLEAN
  BY DEF RemitReplay, ReviewReplay, SettleReplay, CreateReplay, SendReplay, AcknowledgeReplay
<1> HIDE DEF Outcome
<1>6. CASE Remit(q, m)
  <2>1. f.act = "submit" /\ m \in Copies(q)
    BY <1>6 DEF Remit
  <2>2. \/ Writes(f, m[1]) /\ Reply(q, m, TRUE, TRUE)
        \/ Unwritten(q, m, RemitNew(f, m[1]), RemitReplay(f, m[1]))
    BY <1>6 DEF Remit, Writes, WritesRemit
  <2>3. RemitReplay(f, m[1]) => Recorded(f, m[1])
    BY <2>1 DEF Recorded
  <2>4. Outcome
    BY <1>2, <1>4, <1>5, <2>2, <2>3
  <2> QED
    BY <2>1, <2>4 DEF Outcome, AllActs, DriverActs
<1>7. CASE ReviewRemittance(q, m)
  <2>1. f.act \in {"confirm", "reject"} /\ m \in Copies(q)
    BY <1>7 DEF ReviewRemittance
  <2>2. \/ Writes(f, m[1]) /\ Reply(q, m, TRUE, TRUE)
        \/ Unwritten(q, m, ReviewNew(f, m[1]), ReviewReplay(f, m[1]))
    BY <1>7 DEF ReviewRemittance, Writes, WritesReview
  <2>3. ReviewReplay(f, m[1]) => Recorded(f, m[1])
    BY <2>1 DEF Recorded
  <2>4. Outcome
    BY <1>2, <1>4, <1>5, <2>2, <2>3
  <2> QED
    BY <2>1, <2>4 DEF Outcome, AllActs, AdminActs
<1>8. CASE Settle(q, m)
  <2>1. f.act = "settle" /\ m \in Copies(q)
    BY <1>8 DEF Settle
  <2>2. \/ Writes(f, m[1]) /\ Reply(q, m, TRUE, TRUE)
        \/ Unwritten(q, m, SettleNew(f, m[1]), SettleReplay(f, m[1]))
    BY <1>8 DEF Settle, Writes, WritesSettle
  <2>3. SettleReplay(f, m[1]) => Recorded(f, m[1])
    BY <2>1 DEF Recorded
  <2>4. Outcome
    BY <1>2, <1>4, <1>5, <2>2, <2>3
  <2> QED
    BY <2>1, <2>4 DEF Outcome, AllActs, AdminActs
<1>9. CASE CreatePayout(q, m)
  <2>1. f.act = "create" /\ m \in Copies(q)
    BY <1>9 DEF CreatePayout
  <2>2. \/ Writes(f, m[1]) /\ Reply(q, m, TRUE, TRUE)
        \/ Unwritten(q, m, CreateNew(f, m[1]), CreateReplay(f, m[1]))
    BY <1>9 DEF CreatePayout, Writes, WritesCreate
  <2>3. CreateReplay(f, m[1]) => Recorded(f, m[1])
    BY <2>1 DEF Recorded
  <2>4. Outcome
    BY <1>2, <1>4, <1>5, <2>2, <2>3
  <2> QED
    BY <2>1, <2>4 DEF Outcome, AllActs, AdminActs
<1>10. CASE SendPayout(q, m)
  <2>1. f.act = "send" /\ m \in Copies(q)
    BY <1>10 DEF SendPayout
  <2>2. \/ Writes(f, m[1]) /\ Reply(q, m, TRUE, TRUE)
        \/ Unwritten(q, m, SendNew(f, m[1]), SendReplay(f, m[1]))
    BY <1>10 DEF SendPayout, Writes, WritesSend
  <2>3. SendReplay(f, m[1]) => Recorded(f, m[1])
    BY <2>1 DEF Recorded
  <2>4. Outcome
    BY <1>2, <1>4, <1>5, <2>2, <2>3
  <2> QED
    BY <2>1, <2>4 DEF Outcome, AllActs, AdminActs
<1>11. CASE AcknowledgePayout(q, m)
  <2>1. f.act \in CustomerActs /\ m \in Copies(q)
    BY <1>11 DEF AcknowledgePayout
  <2>2. \/ Writes(f, m[1]) /\ Reply(q, m, TRUE, TRUE)
        \/ Unwritten(q, m, AcknowledgeNew(f, m[1]), AcknowledgeReplay(f, m[1]))
    BY <1>11 DEF AcknowledgePayout, Writes, WritesAcknowledge
  <2>3. AcknowledgeReplay(f, m[1]) => Recorded(f, m[1])
    BY <2>1 DEF Recorded, CustomerActs
  <2>4. Outcome
    BY <1>2, <1>4, <1>5, <2>2, <2>3
  <2> QED
    BY <2>1, <2>4 DEF Outcome, AllActs
<1> QED
  BY <1>6, <1>7, <1>8, <1>9, <1>10, <1>11 DEF Command

LEMMA RowsStay ==
    ASSUME RowsInv, UNCHANGED rows
    PROVE  RowsInv'
<1>1. UNCHANGED <<cod, rem, payout, log>>
  BY DEF rows
<1>2. \A d \in Cods : Staged(d)' /\ Audited(d)'
  BY <1>1, ParcelAside
<1> QED
  BY <1>1, <1>2 DEF RowsInv, RowsTyped

(* Every command keeps the invariant, whichever copy of a form arrives.     *)
LEMMA CommandIInv ==
    ASSUME Assumptions, IInv, NEW q \in Forms, NEW m \in Copies(q), Command(q, m)
    PROVE  IInv'
<1>1. PICK f : f = form[q]
  OBVIOUS
<1>2. f \in FormRow /\ FormShape(f) /\ Told(f) /\ RowsInv /\ form \in [Forms -> FormRow]
  BY <1>1 DEF IInv, FormsInv, FormsTyped
<1>3. f.act \in AllActs
  BY <1>1, <1>2, CommandCases
<1>4. PICK ok \in BOOLEAN, applied \in BOOLEAN :
        /\ form' = [form EXCEPT ![q] = Replied(f, m, ok, applied)]
        /\ applied => ok /\ Writes(f, m[1])
        /\ ok /\ ~applied => Recorded(f, m[1])
        /\ ~applied => UNCHANGED rows
  BY <1>1, <1>2, CommandCases
<1>5. /\ m[1] \in Texts \cup {None} /\ m[2] \in BOOLEAN
      /\ m[2] => m[1] = f.sent /\ f.phase = "waiting"
  BY <1>1, <1>2, CopyShape
<1>6. RowsInv' /\ KeptRows
  <2>1. CASE applied
    BY <1>2, <1>4, <1>5, <2>1, WritesRows, WritesKept
  <2>2. CASE ~applied
    <3>1. UNCHANGED rows
      BY <1>4, <2>2
    <3>2. RowsInv'
      BY <1>2, <3>1, RowsStay
    <3> QED
      BY <3>1, <3>2, UnchangedKept
  <2> QED
    BY <2>1, <2>2
<1>7. ok => Recorded(f, m[1])'
  <2>1. CASE applied
    BY <1>2, <1>4, <1>5, <2>1, WritesRecorded
  <2>2. CASE ~applied
    BY <1>2, <1>3, <1>4, <1>6, <2>2, RecordedKept
  <2> QED
    BY <2>1, <2>2
<1>8. PICK g : g = Replied(f, m, ok, applied)
  OBVIOUS
<1>9. /\ g \in FormRow /\ SameCommand(f, g) /\ g.sent = f.sent
      /\ g.applied = (f.applied \/ applied)
      /\ g.said = IF applied THEN m[1] ELSE f.said
      /\ g.phase = IF m[2] THEN (IF ok THEN "done" ELSE "open") ELSE f.phase
  <2>1. Answers(f, g, m, ok, applied)
    BY <1>2, <1>5, <1>8, RepliedForm
  <2> QED
    BY <2>1 DEF Answers
<1>10. FormShape(g)
  BY <1>2, <1>3, <1>9 DEF FormShape, SameCommand
<1>11. Told(f)'
  BY <1>2, <1>6, ToldKept
<1>12. \A y : Recorded(f, y)' => Recorded(g, y)'
  BY <1>9, SameRecorded
<1>13. Told(g)'
  <2>1. g.applied => Recorded(g, g.said)'
    BY <1>4, <1>7, <1>9, <1>11, <1>12 DEF Told
  <2>2. g.phase = "done" => Recorded(g, g.sent)'
    BY <1>4, <1>5, <1>7, <1>9, <1>11, <1>12 DEF Told
  <2> QED
    BY <2>1, <2>2 DEF Told
<1>14. FormsTyped' /\ FormsInv'
  BY <1>4, <1>6, <1>8, <1>9, <1>10, <1>13, FormStep
<1> QED
  BY <1>6, <1>14 DEF IInv

-----------------------------------------------------------------------------
(* Screens *)

(* A form the user opens, edits, sends or gives up on claims nothing new.   *)
SameClaims(f, g) ==
    /\ SameCommand(f, g) /\ g.phase # "done" /\ (g.applied = f.applied) /\ g.said = f.said

LEMMA EditStep ==
    ASSUME Assumptions, IInv, UNCHANGED rows, NEW q \in Forms, NEW f, f = form[q],
           f.phase # "shut", NEW g \in FormRow, SameClaims(f, g), form' = [form EXCEPT ![q] = g]
    PROVE  IInv'
<1>1. f \in FormRow /\ FormShape(f) /\ Told(f) /\ RowsInv
  BY DEF IInv, FormsInv
<1>2. f.act \in AllActs
  BY <1>1 DEF FormShape
<1>3. KeptRows /\ RowsInv'
  BY <1>1, UnchangedKept, RowsStay
<1>4. Told(f)'
  BY <1>1, <1>3, ToldKept
<1>5. FormShape(g)
  BY <1>1, <1>2 DEF FormShape, SameClaims, SameCommand
<1>6. \A y : Recorded(f, y)' => Recorded(g, y)'
  BY SameRecorded DEF SameClaims
<1>7. Told(g)'
  BY <1>4, <1>6 DEF Told, SameClaims
<1> QED
  BY <1>3, <1>5, <1>7, FormStep DEF IInv

LEMMA TypeIInv ==
    ASSUME Assumptions, IInv, NEW q \in Forms, NEW x \in Texts \cup {None}, Type(q, x)
    PROVE  IInv'
<1>1. PICK f : f = form[q]
  OBVIOUS
<1>2. f \in FormRow /\ form \in [Forms -> FormRow]
  BY <1>1 DEF IInv, FormsTyped
<1>3. PICK g : g = [f EXCEPT !.text = x]
  OBVIOUS
<1>4. g \in FormRow /\ SameCommand(f, g) /\ g.phase = f.phase /\ g.applied = f.applied
      /\ g.said = f.said
  BY <1>2, <1>3 DEF FormRow, SameCommand
<1>5. f.phase = "open" /\ UNCHANGED rows /\ form' = [form EXCEPT ![q] = g]
  BY <1>1, <1>2, <1>3 DEF Type
<1>6. SameClaims(f, g)
  BY <1>4, <1>5 DEF SameClaims
<1> QED
  BY <1>1, <1>4, <1>5, <1>6, EditStep

LEMMA SubmitIInv ==
    ASSUME Assumptions, IInv, NEW q \in Forms, Submit(q)
    PROVE  IInv'
<1>1. PICK f : f = form[q]
  OBVIOUS
<1>2. f \in FormRow /\ form \in [Forms -> FormRow] /\ f.text \in Texts \cup {None}
  BY <1>1 DEF IInv, FormsTyped, FormRow
<1>3. PICK h : h = [f EXCEPT !.phase = "waiting"]
  OBVIOUS
<1>4. h \in FormRow /\ SameCommand(f, h) /\ h.phase = "waiting" /\ h.applied = f.applied
      /\ h.said = f.said
  BY <1>2, <1>3 DEF FormRow, SameCommand
<1>5. PICK g : g = [h EXCEPT !.sent = f.text]
  OBVIOUS
<1>6. g \in FormRow /\ SameCommand(h, g) /\ g.phase = h.phase /\ g.applied = h.applied
      /\ g.said = h.said
  BY <1>2, <1>4, <1>5 DEF FormRow, SameCommand
<1>7. f.phase = "open" /\ UNCHANGED rows /\ form' = [form EXCEPT ![q] = g]
  BY <1>1, <1>2, <1>3, <1>5 DEF Submit, FormRow
<1>8. SameClaims(f, g)
  <2>1. SameCommand(f, g)
    BY <1>4, <1>6 DEF SameCommand
  <2> QED
    BY <1>4, <1>6, <2>1 DEF SameClaims
<1> QED
  BY <1>1, <1>6, <1>7, <1>8, EditStep

LEMMA GiveUpIInv ==
    ASSUME Assumptions, IInv, NEW q \in Forms, NEW lost \in BOOLEAN, GiveUp(q, lost)
    PROVE  IInv'
<1>1. PICK f : f = form[q]
  OBVIOUS
<1>2. f \in FormRow /\ form \in [Forms -> FormRow] /\ f.sent \in Texts \cup {None}
  BY <1>1 DEF IInv, FormsTyped, FormRow
<1>3. PICK h : h = [f EXCEPT !.phase = "open"]
  OBVIOUS
<1>4. h \in FormRow /\ SameCommand(f, h) /\ h.phase = "open" /\ h.applied = f.applied
      /\ h.said = f.said
  BY <1>2, <1>3 DEF FormRow, SameCommand
<1>5. PICK late : late = IF lost THEN f.late ELSE f.late \cup {f.sent}
  OBVIOUS
<1>6. late \in SUBSET (Texts \cup {None})
  BY <1>2, <1>5 DEF FormRow
<1>7. PICK g : g = [h EXCEPT !.late = late]
  OBVIOUS
<1>8. g \in FormRow /\ SameCommand(h, g) /\ g.phase = h.phase /\ g.applied = h.applied
      /\ g.said = h.said
  BY <1>4, <1>6, <1>7 DEF FormRow, SameCommand
<1>9. f.phase = "waiting" /\ UNCHANGED rows /\ form' = [form EXCEPT ![q] = g]
  BY <1>1, <1>2, <1>3, <1>5, <1>7 DEF GiveUp, FormRow
<1>10. SameClaims(f, g)
  <2>1. SameCommand(f, g)
    BY <1>4, <1>8 DEF SameCommand
  <2> QED
    BY <1>4, <1>8, <2>1 DEF SameClaims
<1> QED
  BY <1>1, <1>8, <1>9, <1>10, EditStep

LEMMA Shut ==
    ASSUME Assumptions
    PROVE  ShutForm \in FormRow /\ FormShape(ShutForm) /\ Told(ShutForm) /\ Told(ShutForm)'
<1>1. 0 \in 0 .. 2
  OBVIOUS
<1> QED
  BY <1>1 DEF ShutForm, FormRow, FormShape, Told, Assumptions, ActAssumption, AdminActs, DriverActs,
              CustomerActs, AllActs

LEMMA CloseIInv ==
    ASSUME Assumptions, IInv, NEW q \in Forms, Close(q)
    PROVE  IInv'
<1>1. UNCHANGED rows /\ form' = [form EXCEPT ![q] = ShutForm]
  BY DEF Close
<1>2. KeptRows /\ RowsInv'
  BY <1>1, UnchangedKept, RowsStay DEF IInv
<1> QED
  BY <1>1, <1>2, Shut, FormStep DEF IInv

LEMMA ChooseIInv ==
    ASSUME Assumptions, IInv, NEW q \in Forms, NEW act, NEW by \in Drivers \cup Admins \cup Customers,
           NEW c \in Cods, NEW k \in Keys \cup {None}, NEW amount \in Amounts \cup {None},
           Choose(q, act, by, c, k, amount)
    PROVE  IInv'
<1> DEFINE v == IF k \in PendingKeys(c) THEN rem[c][k].version ELSE payout[c].version
           x == IF act = "send" THEN payout[c].terms ELSE None
<1>1. UNCHANGED rows /\ KeptRows /\ RowsInv'
  BY UnchangedKept, RowsStay DEF Choose, IInv
<1>2. v \in 0 .. 2 /\ x \in Texts \cup {None}
  <2>1. payout[c].version \in 0 .. 2 /\ payout[c].terms \in Texts \cup {None}
    BY DEF IInv, RowsInv, RowsTyped, PayoutRow
  <2>2. k \in PendingKeys(c) => rem[c][k].version \in 0 .. 2
    BY DEF IInv, RowsInv, RowsTyped, RemRow, PendingKeys
  <2> QED
    BY <2>1, <2>2
<1>3. /\ act \in AllActs
      /\ act = "submit" => by \in Drivers
      /\ act \in AdminActs => by \in Admins
      /\ act \in {"submit", "confirm", "reject"} => k \in Keys
  BY DEF Choose, StaffOffered, CustomerOffered, AllActs, DriverActs, AdminActs, CustomerActs,
         PendingKeys
<1>4. PICK g : g = [ShutForm EXCEPT !.phase = "open", !.act = act, !.by = by, !.cod = c, !.key = k,
                        !.amount = amount, !.version = v, !.text = x]
  OBVIOUS
<1>5. form' = [form EXCEPT ![q] = g]
  BY <1>4 DEF Choose
<1> HIDE DEF v, x
<1>6. g = [act |-> act, by |-> by, cod |-> c, key |-> k, version |-> v, amount |-> amount,
           text |-> x, phase |-> "open", sent |-> None, late |-> {}, applied |-> FALSE,
           said |-> None]
  BY <1>4 DEF ShutForm
<1>7. g \in FormRow
  BY <1>2, <1>3, <1>6 DEF FormRow
<1>8. /\ g.act = act /\ g.by = by /\ g.cod = c /\ g.key = k /\ g.phase = "open" /\ ~g.applied
  BY <1>6
<1>9. FormShape(g) /\ Told(g)'
  BY <1>3, <1>8 DEF FormShape, Told
<1> QED
  BY <1>1, <1>5, <1>7, <1>9, FormStep DEF IInv

-----------------------------------------------------------------------------
(* The invariant *)

LEMMA InitIInv ==
    ASSUME Assumptions, Init
    PROVE  IInv
<1>1. RowsTyped
  <2>1. cod \in [Cods -> CodRow]
    <3>1. 0 \in 0 .. 2
      OBVIOUS
    <3> QED
      BY <3>1 DEF Init, CodRow
  <2>2. NoRem \in RemRow
    <3>1. 0 \in 0 .. 1
      OBVIOUS
    <3> QED
      BY <3>1 DEF NoRem, RemRow
  <2>3. NoPayout \in PayoutRow
    <3>1. 0 \in 0 .. 2
      OBVIOUS
    <3> QED
      BY <3>1 DEF NoPayout, PayoutRow
  <2>4. 0 \in 0 .. Cardinality(Keys) + 1
    BY FS_CardinalityType DEF Assumptions, KeysAssumption
  <2> QED
    BY <2>1, <2>2, <2>3, <2>4 DEF Init, RowsTyped
<1>2. ASSUME NEW c \in Cods
      PROVE  Staged(c) /\ Audited(c)
  <2>1. /\ \A k \in Keys : rem[c][k] = NoRem
        /\ payout[c] = NoPayout /\ \A e \in Events : log[c][e] = 0
        /\ cod[c].version = 0
    BY <1>2 DEF Init
  <2>2. /\ PendingKeys(c) = {} /\ Answered(c, "NONE") = Keys
        /\ Answered(c, "CONFIRMED") = {} /\ Answered(c, "REJECTED") = {}
    BY <2>1 DEF PendingKeys, Answered, NoRem
  <2>3. Staged(c)
    BY <2>1, <2>2 DEF Staged, RemShape, PayoutShape, NoRem, NoPayout
  <2>4. Audited(c)
    <3>1. Cardinality({}) = 0 /\ Cardinality(Keys) \in Nat
      BY FS_EmptySet, FS_CardinalityType DEF Assumptions, KeysAssumption
    <3>2. payout[c].status = "NONE" /\ payout[c].sender = None
      BY <2>1 DEF NoPayout
    <3>3. /\ log[c]["HANDOVER_SUBMITTED"] = 0 /\ log[c]["HANDOVER_CONFIRMED"] = 0
          /\ log[c]["HANDOVER_REJECTED"] = 0 /\ log[c]["REMITTED"] = 0 /\ log[c]["SETTLED"] = 0
          /\ log[c]["PAYOUT_CREATED"] = 0 /\ log[c]["PAYOUT_SENT"] = 0
          /\ log[c]["PAYOUT_RECEIVED"] = 0 /\ log[c]["PAYOUT_DISPUTED"] = 0
      BY <2>1 DEF Events
    <3>4. /\ Cardinality(Keys) - Cardinality(Answered(c, "NONE")) = 0
          /\ Cardinality(Answered(c, "CONFIRMED")) = 0 /\ Cardinality(Answered(c, "REJECTED")) = 0
      BY <2>2, <3>1
    <3> QED
      BY <2>1, <3>2, <3>3, <3>4 DEF Audited, Once
  <2> QED
    BY <2>3, <2>4
<1>3. \A q \in Forms : form[q] = ShutForm
  BY DEF Init
<1>4. FormsTyped
  BY Shut DEF Init, FormsTyped
<1>5. FormsInv
  <2>1. PICK g : g = ShutForm
    OBVIOUS
  <2>2. g \in FormRow /\ FormShape(g) /\ Told(g)
    BY <2>1, Shut
  <2>3. \A q \in Forms : form[q] = g
    BY <1>3, <2>1
  <2> QED
    BY <2>2, <2>3 DEF FormsInv
<1> QED
  BY <1>1, <1>2, <1>4, <1>5 DEF IInv, RowsInv

LEMMA CollectIInv ==
    ASSUME Assumptions, IInv, NEW c \in Cods, NEW d \in Drivers, Collect(c, d)
    PROVE  IInv'
<1>1. RowsInv' /\ KeptRows
  BY CollectRows, CollectKept DEF IInv
<1>2. UNCHANGED form
  BY DEF Collect
<1>3. ASSUME NEW q \in Forms
      PROVE  form[q] \in FormRow /\ FormShape(form[q]) /\ Told(form[q])'
  <2>1. PICK g : g = form[q]
    OBVIOUS
  <2>2. g \in FormRow /\ FormShape(g) /\ Told(g)
    BY <2>1 DEF IInv, FormsInv
  <2>3. Told(g)'
    BY <1>1, <2>2, ToldKept DEF IInv
  <2> QED
    BY <1>2, <2>1, <2>2, <2>3 DEF Told
<1> QED
  BY <1>1, <1>2, <1>3 DEF IInv, FormsTyped, FormsInv

LEMMA NextIInv ==
    ASSUME Assumptions, IInv, Next
    PROVE  IInv'
<1>1. ASSUME NEW q \in Forms, ScreenStep(q)
      PROVE  IInv'
  BY <1>1, ChooseIInv, TypeIInv, SubmitIInv, GiveUpIInv, CloseIInv DEF ScreenStep
<1> QED
  BY <1>1, CollectIInv, CommandIInv DEF Next

LEMMA StutterIInv ==
    ASSUME Assumptions, IInv, UNCHANGED vars
    PROVE  IInv'
<1>1. UNCHANGED <<rows, form>>
  BY DEF vars, rows
<1>2. RowsInv' /\ KeptRows
  BY <1>1, RowsStay, UnchangedKept DEF IInv
<1>3. ASSUME NEW q \in Forms
      PROVE  form[q] \in FormRow /\ FormShape(form[q]) /\ Told(form[q])'
  <2>1. PICK g : g = form[q]
    OBVIOUS
  <2>2. g \in FormRow /\ FormShape(g) /\ Told(g)
    BY <2>1 DEF IInv, FormsInv
  <2>3. Told(g)'
    BY <1>2, <2>2, ToldKept DEF IInv
  <2> QED
    BY <1>1, <2>1, <2>2, <2>3 DEF Told
<1> QED
  BY <1>1, <1>2, <1>3 DEF IInv, FormsTyped, FormsInv

-----------------------------------------------------------------------------
(* What the invariant says of the properties *)

LEMMA TypedByIInv ==
    ASSUME IInv
    PROVE  TypeOK
BY DEF IInv, RowsInv, RowsTyped, FormsTyped, TypeOK

LEMMA HealsByIInv ==
    ASSUME IInv
    PROVE  LostAnswersHeal
BY DEF IInv, FormsInv, Told, Recorded, LostAnswersHeal

(* A form told "saved" is recorded, and the rows that record it say who did *)
(* what with which words.                                                   *)
LEMMA TrueByIInv ==
    ASSUME IInv
    PROVE  SuccessIsTrue
<1>1. ASSUME NEW q \in Forms, form[q].phase = "done"
      PROVE  form[q].act \in AllActs /\ Recorded(form[q], form[q].sent)
  BY <1>1 DEF IInv, FormsInv, Told, FormShape
<1> QED
  BY <1>1 DEF Recorded, SuccessIsTrue, RemitReplay, ReviewReplay, SettleReplay, CreateReplay,
     SendReplay, AcknowledgeReplay, AllActs, DriverActs, AdminActs, CustomerActs

LEMMA MatchesByIInv ==
    ASSUME IInv
    PROVE  AuditMatches
BY DEF IInv, RowsInv, Audited, Answered, Once, AuditMatches

LEMMA ReceivedByIInv ==
    ASSUME IInv, KeysAssumption
    PROVE  PaidFromReceived
<1>1. ASSUME NEW c \in Cods
      PROVE  Cardinality(PendingKeys(c)) <= 1
  <2>1. \A k, l \in PendingKeys(c) : k = l
    BY DEF IInv, RowsInv, Staged
  <2>2. CASE PendingKeys(c) = {}
    BY <2>2, FS_EmptySet
  <2>3. CASE PendingKeys(c) # {}
    <3>1. PICK k \in PendingKeys(c) : PendingKeys(c) = {k}
      BY <2>1, <2>3
    <3> QED
      BY <3>1, FS_Singleton
  <2> QED
    BY <2>2, <2>3
<1> QED
  BY <1>1 DEF IInv, RowsInv, Staged, PaidFromReceived

(* The variables keep their types.                                          *)
THEOREM TypeCorrect ==
    ASSUME OwnerAssumption, DueAssumption, NoneAssumption, KeysAssumption, ActAssumption
    PROVE  Spec => []TypeOK
<1> USE DEF Assumptions
<1>1. Init => IInv
  BY InitIInv
<1>2. IInv /\ [Next]_vars => IInv'
  BY NextIInv, StutterIInv
<1>3. IInv => TypeOK
  BY TypedByIInv
<1> QED
  BY <1>1, <1>2, <1>3, PTL DEF Spec

(* The rows, the audit log and the screens agree about the cash of every    *)
(* parcel, whatever requests and answers are lost, repeated or late: the    *)
(* service recognises its own retries, and only those.                      *)
THEOREM CashIsAccounted ==
    ASSUME OwnerAssumption, DueAssumption, NoneAssumption, KeysAssumption, ActAssumption
    PROVE  Spec => []CashAccounted
<1> USE DEF Assumptions
<1>1. Init => IInv
  BY InitIInv
<1>2. IInv /\ [Next]_vars => IInv'
  BY NextIInv, StutterIInv
<1>3. IInv => CashAccounted
  BY HealsByIInv, TrueByIInv, MatchesByIInv, ReceivedByIInv DEF CashAccounted
<1> QED
  BY <1>1, <1>2, <1>3, PTL DEF Spec

-----------------------------------------------------------------------------
(* The ledger *)

holder == [c \in Cods |-> Holding(c)]
offered == [c \in Cods |-> PendingKeys(c) # {}]

(* Who holds the money, by the rows.                                        *)
LEMMA HoldingByRows ==
    ASSUME NEW c, NEW cs, cs = cod[c].status, NEW ps, ps = payout[c].status
    PROVE  /\ ps = "SENT" => Holding(c) = "underway"
           /\ ps = "PAID_OUT" => Holding(c) = "customer"
           /\ ps = "DISPUTED" => Holding(c) = "contested"
           /\ ps \notin {"SENT", "PAID_OUT", "DISPUTED"} =>
                /\ cs = "NONE" => Holding(c) = "receiver"
                /\ cs = "COLLECTED" => Holding(c) = "driver"
                /\ cs = "REMITTED" => Holding(c) = "company"
                /\ cs = "SETTLED" => Holding(c) = "cleared"
BY DEF Holding

LEMMA HoldingByRowsNext ==
    ASSUME NEW c, NEW cs, cs = cod'[c].status, NEW ps, ps = payout'[c].status
    PROVE  /\ ps = "SENT" => Holding(c)' = "underway"
           /\ ps = "PAID_OUT" => Holding(c)' = "customer"
           /\ ps = "DISPUTED" => Holding(c)' = "contested"
           /\ ps \notin {"SENT", "PAID_OUT", "DISPUTED"} =>
                /\ cs = "NONE" => Holding(c)' = "receiver"
                /\ cs = "COLLECTED" => Holding(c)' = "driver"
                /\ cs = "REMITTED" => Holding(c)' = "company"
                /\ cs = "SETTLED" => Holding(c)' = "cleared"
BY DEF Holding

(* A step of the rows of one parcel moves only its money.                   *)
LEMMA OneParcelMoves ==
    ASSUME NEW c \in Cods,
           \A d \in Cods \ {c} : cod'[d] = cod[d] /\ rem'[d] = rem[d] /\ payout'[d] = payout[d]
    PROVE  /\ holder' = [holder EXCEPT ![c] = Holding(c)']
           /\ offered' = [offered EXCEPT ![c] = PendingKeys(c)' # {}]
           /\ holder[c] = Holding(c) /\ (offered[c] = (PendingKeys(c) # {}))
<1>1. \A d \in Cods \ {c} : Holding(d)' = Holding(d) /\ PendingKeys(d)' = PendingKeys(d)
  BY DEF Holding, PendingKeys
<1> QED
  BY <1>1 DEF holder, offered

(* A step that leaves the handovers of a parcel alone leaves its offer.     *)
LEMMA OfferAside ==
    ASSUME NEW c \in Cods, UNCHANGED rem
    PROVE  UNCHANGED offered
BY DEF offered, PendingKeys

LEMMA CollectTakes ==
    ASSUME IInv, NEW c \in Cods, NEW d \in Drivers, Collect(c, d)
    PROVE  Ledger!Take(c)
<1>1. cod \in [Cods -> CodRow] /\ Staged(c) /\ UNCHANGED <<rem, payout>>
  BY DEF IInv, RowsInv, RowsTyped, Collect
<1>2. /\ cod[c].status = "NONE" /\ cod'[c].status = "COLLECTED"
      /\ \A b \in Cods \ {c} : cod'[b] = cod[b]
  BY <1>1 DEF Collect, CodRow
<1>3. payout[c].status = "NONE" /\ payout'[c].status = "NONE"
  BY <1>1, <1>2 DEF Staged
<1>4. Holding(c) = "receiver" /\ Holding(c)' = "driver"
  BY <1>2, <1>3, HoldingByRows, HoldingByRowsNext
<1>5. /\ holder' = [holder EXCEPT ![c] = "driver"] /\ holder[c] = "receiver"
      /\ UNCHANGED offered
  BY <1>1, <1>2, <1>4, OneParcelMoves, OfferAside
<1> QED
  BY <1>5 DEF Ledger!Take, Ledger!Move, holder, offered

(* A new handover is an offer.                                              *)
LEMMA RemitOffers ==
    ASSUME IInv, NEW f \in FormRow, FormShape(f), NEW x, WritesRemit(f, x), NEW c, c = f.cod
    PROVE  c \in Cods /\ Ledger!Offer(c)
<1>1. PICK k : k = f.key
  OBVIOUS
<1>2. c \in Cods /\ k \in Keys
  BY <1>1 DEF WritesRemit, FormShape, AllActs, DriverActs
<1>3. cod[c].status = "COLLECTED" /\ PendingKeys(c) = {} /\ UNCHANGED <<cod, payout>>
  BY <1>1 DEF WritesRemit, RemitNew
<1>4. rem \in [Cods -> [Keys -> RemRow]] /\ Staged(c)
  BY <1>2 DEF IInv, RowsInv, RowsTyped
<1>5. /\ \A d \in Cods \ {c} : rem'[d] = rem[d]
      /\ rem'[c][k].status = "PENDING"
  <2>1. PICK row : row = [NoRem EXCEPT !.status = "PENDING", !.by = f.by, !.amount = f.amount,
                                       !.note = x]
    OBVIOUS
  <2>2. row.status = "PENDING"
    BY <2>1 DEF NoRem
  <2>3. rem' = [rem EXCEPT ![c][k] = row]
    BY <1>1, <2>1 DEF WritesRemit
  <2> QED
    BY <1>2, <1>4, <2>2, <2>3
<1>6. k \in PendingKeys(c)'
  BY <1>2, <1>5 DEF PendingKeys
<1>7. payout[c].status = "NONE"
  BY <1>3, <1>4 DEF Staged
<1>8. Holding(c) = "driver" /\ UNCHANGED Holding(c)
  BY <1>3, <1>7, HoldingByRows, HoldingByRowsNext
<1>9. /\ holder' = [holder EXCEPT ![c] = Holding(c)] /\ holder[c] = "driver"
      /\ offered' = [offered EXCEPT ![c] = TRUE] /\ offered[c] = FALSE
  BY <1>2, <1>3, <1>5, <1>6, <1>8, OneParcelMoves
<1>10. UNCHANGED holder
  BY <1>8, <1>9 DEF holder
<1> QED
  BY <1>2, <1>9, <1>10 DEF Ledger!Offer, holder, offered

(* A review answers the one offer of the driver.                            *)
LEMMA ReviewAnswers ==
    ASSUME Assumptions, IInv, NEW f \in FormRow, FormShape(f), NEW x \in Texts \cup {None},
           WritesReview(f, x), NEW c, c = f.cod
    PROVE  c \in Cods /\ Ledger!Answer(c)
<1>1. PICK k : k = f.key
  OBVIOUS
<1>2. PICK new : new = IF f.act = "confirm" THEN "CONFIRMED" ELSE "REJECTED"
  OBVIOUS
<1>3. c \in Cods /\ k \in Keys /\ f.by \in Admins /\ new \in {"CONFIRMED", "REJECTED"}
  BY <1>1, <1>2 DEF WritesReview, FormShape, AllActs, AdminActs
<1>4. rem[c][k].status = "PENDING" /\ cod[c].status = "COLLECTED" /\ UNCHANGED payout
  BY <1>1 DEF WritesReview, ReviewNew
<1>5. /\ rem \in [Cods -> [Keys -> RemRow]] /\ cod \in [Cods -> CodRow] /\ Staged(c)
  BY <1>3 DEF IInv, RowsInv, RowsTyped
<1>6. rem[c][k] \in RemRow /\ rem[c][k].version = 0 /\ payout[c].status = "NONE"
  BY <1>3, <1>4, <1>5 DEF Staged, RemShape
<1>7. /\ \A d \in Cods \ {c} : rem'[d] = rem[d]
      /\ \A l \in Keys \ {k} : rem'[c][l] = rem[c][l]
      /\ rem'[c][k].status = new
  <2>1. PICK row : row = Reviewed(rem[c][k], new, f.by, x)
    OBVIOUS
  <2>2. row.status = new
    BY <1>3, <1>6, <2>1, ReviewedRow
  <2>3. rem' = [rem EXCEPT ![c][k] = row]
    BY <1>1, <1>2, <1>3, <1>5, <2>1 DEF WritesReview
  <2> QED
    BY <1>3, <1>5, <2>2, <2>3
<1>8. PendingKeys(c) # {} /\ PendingKeys(c)' = {}
  BY <1>3, <1>4, <1>5, <1>7 DEF Staged, PendingKeys
<1>9. Holding(c) = "driver"
  BY <1>4, <1>6, HoldingByRows
<1>10. /\ \A d \in Cods \ {c} : cod'[d] = cod[d]
       /\ Holding(c)' \in {"driver", "company"}
  <2>1. CASE f.act = "confirm"
    <3>1. cod' = [cod EXCEPT ![c].status = "REMITTED", ![c].remitted = rem[c][k].amount,
                             ![c].version = @ + 1]
      BY <1>1, <2>1 DEF WritesReview
    <3>2. cod'[c].status = "REMITTED" /\ \A d \in Cods \ {c} : cod'[d] = cod[d]
      BY <1>3, <1>5, <3>1 DEF CodRow
    <3> QED
      BY <1>4, <1>6, <3>2, HoldingByRowsNext
  <2>2. CASE f.act # "confirm"
    <3>1. UNCHANGED cod
      BY <2>2 DEF WritesReview
    <3> QED
      BY <1>4, <1>6, <3>1, HoldingByRowsNext
  <2> QED
    BY <2>1, <2>2
<1>11. /\ holder' = [holder EXCEPT ![c] = Holding(c)'] /\ holder[c] = "driver"
       /\ offered' = [offered EXCEPT ![c] = FALSE] /\ offered[c]
  BY <1>3, <1>4, <1>7, <1>8, <1>9, <1>10, OneParcelMoves
<1>12. Holding(c)' = "driver" => UNCHANGED holder
  BY <1>11 DEF holder
<1> QED
  BY <1>3, <1>10, <1>11, <1>12 DEF Ledger!Answer, Ledger!Move, holder, offered

(* A settlement clears the money of the company.                            *)
LEMMA SettleClears ==
    ASSUME IInv, NEW f \in FormRow, FormShape(f), NEW x, WritesSettle(f, x), NEW c, c = f.cod
    PROVE  c \in Cods /\ Ledger!Clear(c)
<1>1. c \in Cods
  BY DEF WritesSettle, FormShape, AllActs, AdminActs
<1>2. cod \in [Cods -> CodRow] /\ Staged(c) /\ UNCHANGED <<rem, payout>>
  BY <1>1 DEF IInv, RowsInv, RowsTyped, WritesSettle
<1>3. cod[c].status = "REMITTED"
  BY DEF WritesSettle, SettleNew
<1>4. cod'[c].status = "SETTLED" /\ \A d \in Cods \ {c} : cod'[d] = cod[d]
  <2>1. cod' = [cod EXCEPT ![c].status = "SETTLED", ![c].version = @ + 1]
    BY DEF WritesSettle
  <2> QED
    BY <1>1, <1>2, <2>1 DEF CodRow
<1>5. payout[c].status = "NONE"
  BY <1>2, <1>3 DEF Staged
<1>6. Holding(c) = "company" /\ Holding(c)' = "cleared"
  BY <1>2, <1>3, <1>4, <1>5, HoldingByRows, HoldingByRowsNext
<1>7. /\ holder' = [holder EXCEPT ![c] = "cleared"] /\ holder[c] = "company"
      /\ UNCHANGED offered
  BY <1>1, <1>2, <1>4, <1>6, OneParcelMoves, OfferAside
<1> QED
  BY <1>1, <1>7 DEF Ledger!Clear, Ledger!Move, holder, offered

(* A new payout moves no money yet.                                         *)
LEMMA CreateStutters ==
    ASSUME IInv, NEW f \in FormRow, FormShape(f), NEW x, WritesCreate(f, x), NEW c, c = f.cod
    PROVE  UNCHANGED <<holder, offered>>
<1>1. c \in Cods
  BY DEF WritesCreate, FormShape, AllActs, AdminActs
<1>2. payout \in [Cods -> PayoutRow] /\ UNCHANGED <<cod, rem>>
  BY DEF IInv, RowsInv, RowsTyped, WritesCreate
<1>3. cod[c].status = "SETTLED" /\ payout[c].status = "NONE"
  BY DEF WritesCreate, CreateNew
<1>4. payout'[c].status = "PENDING" /\ \A d \in Cods \ {c} : payout'[d] = payout[d]
  <2>1. PICK row : row = [NoPayout EXCEPT !.status = "PENDING", !.amount = f.amount, !.terms = x,
                                          !.creator = f.by]
    OBVIOUS
  <2>2. row.status = "PENDING"
    BY <2>1 DEF NoPayout
  <2>3. payout' = [payout EXCEPT ![c] = row]
    BY <2>1 DEF WritesCreate
  <2> QED
    BY <1>1, <1>2, <2>2, <2>3
<1>5. Holding(c) = "cleared" /\ Holding(c)' = "cleared"
  BY <1>2, <1>3, <1>4, HoldingByRows, HoldingByRowsNext
<1>6. /\ holder' = [holder EXCEPT ![c] = "cleared"] /\ holder[c] = "cleared"
      /\ UNCHANGED offered
  BY <1>1, <1>2, <1>4, <1>5, OneParcelMoves, OfferAside
<1> QED
  BY <1>6 DEF holder

(* A sent payout forwards the money, an acknowledged one ends its way.      *)
LEMMA SendForwards ==
    ASSUME IInv, NEW f \in FormRow, FormShape(f), NEW x, WritesSend(f, x), NEW c, c = f.cod
    PROVE  c \in Cods /\ Ledger!Forward(c)
<1>1. c \in Cods
  BY DEF WritesSend, FormShape, AllActs, AdminActs
<1>2. payout \in [Cods -> PayoutRow] /\ UNCHANGED <<cod, rem>>
  BY DEF IInv, RowsInv, RowsTyped, WritesSend
<1>3. cod[c].status = "SETTLED" /\ payout[c].status = "PENDING"
  BY DEF WritesSend, SendNew
<1>4. payout'[c].status = "SENT" /\ \A d \in Cods \ {c} : payout'[d] = payout[d]
  <2>1. payout' = [payout EXCEPT ![c].status = "SENT", ![c].sender = f.by, ![c].version = @ + 1]
    BY DEF WritesSend
  <2> QED
    BY <1>1, <1>2, <2>1 DEF PayoutRow
<1>5. Holding(c) = "cleared" /\ Holding(c)' = "underway"
  BY <1>2, <1>3, <1>4, HoldingByRows, HoldingByRowsNext
<1>6. /\ holder' = [holder EXCEPT ![c] = "underway"] /\ holder[c] = "cleared"
      /\ UNCHANGED offered
  BY <1>1, <1>2, <1>4, <1>5, OneParcelMoves, OfferAside
<1> QED
  BY <1>1, <1>6 DEF Ledger!Forward, Ledger!Move, holder, offered

LEMMA AcknowledgeEnds ==
    ASSUME IInv, NEW f \in FormRow, FormShape(f), NEW x, WritesAcknowledge(f, x), NEW c, c = f.cod
    PROVE  c \in Cods /\ Ledger!Acknowledge(c)
<1>1. c \in Cods
  BY DEF WritesAcknowledge, FormShape, AllActs
<1>2. payout \in [Cods -> PayoutRow] /\ UNCHANGED <<cod, rem>>
  BY DEF IInv, RowsInv, RowsTyped, WritesAcknowledge
<1>3. payout[c].status = "SENT"
  BY DEF WritesAcknowledge, AcknowledgeNew
<1>4. /\ payout'[c].status \in {"PAID_OUT", "DISPUTED"}
      /\ \A d \in Cods \ {c} : payout'[d] = payout[d]
  <2>1. PICK new : new = IF f.act = "receive" THEN "PAID_OUT" ELSE "DISPUTED"
    OBVIOUS
  <2>2. payout' = [payout EXCEPT ![c].status = new, ![c].reason = x, ![c].version = @ + 1]
    BY <2>1 DEF WritesAcknowledge
  <2>3. payout'[c].status = new /\ \A d \in Cods \ {c} : payout'[d] = payout[d]
    BY <1>1, <1>2, <2>2 DEF PayoutRow
  <2> QED
    BY <2>1, <2>3
<1>5. Holding(c) = "underway" /\ Holding(c)' \in {"customer", "contested"}
  BY <1>3, <1>4, HoldingByRows, HoldingByRowsNext
<1>6. /\ holder' = [holder EXCEPT ![c] = Holding(c)'] /\ holder[c] = "underway"
      /\ UNCHANGED offered
  BY <1>1, <1>2, <1>4, <1>5, OneParcelMoves, OfferAside
<1> QED
  BY <1>1, <1>5, <1>6 DEF Ledger!Acknowledge, Ledger!Move, holder, offered

LEMMA StepsOfLedger ==
    ASSUME Assumptions, IInv, Next
    PROVE  Ledger!Next \/ UNCHANGED <<holder, offered>>
<1>1. ASSUME UNCHANGED rows
      PROVE  UNCHANGED <<holder, offered>>
  BY <1>1 DEF rows, holder, offered, Holding, PendingKeys
<1>2. ASSUME NEW q \in Forms, ScreenStep(q)
      PROVE  UNCHANGED rows
  <2>1. \A act, by, c, k, amount : Choose(q, act, by, c, k, amount) => UNCHANGED rows
    BY DEF Choose
  <2>2. \A x : Type(q, x) => UNCHANGED rows
    BY DEF Type
  <2>3. \A lost : GiveUp(q, lost) => UNCHANGED rows
    BY DEF GiveUp
  <2>4. Submit(q) \/ Close(q) => UNCHANGED rows
    BY DEF Submit, Close
  <2> QED
    BY <1>2, <2>1, <2>2, <2>3, <2>4 DEF ScreenStep
<1>3. ASSUME NEW f \in FormRow, FormShape(f), NEW x \in Texts \cup {None}, Writes(f, x)
      PROVE  Ledger!Next \/ UNCHANGED <<holder, offered>>
  <2>1. PICK c : c = f.cod
    OBVIOUS
  <2>2. CASE WritesRemit(f, x)
    BY <1>3, <2>1, <2>2, RemitOffers DEF Ledger!Next
  <2>3. CASE WritesReview(f, x)
    BY <1>3, <2>1, <2>3, ReviewAnswers DEF Ledger!Next
  <2>4. CASE WritesSettle(f, x)
    BY <1>3, <2>1, <2>4, SettleClears DEF Ledger!Next
  <2>5. CASE WritesCreate(f, x)
    BY <1>3, <2>1, <2>5, CreateStutters
  <2>6. CASE WritesSend(f, x)
    BY <1>3, <2>1, <2>6, SendForwards DEF Ledger!Next
  <2>7. CASE WritesAcknowledge(f, x)
    BY <1>3, <2>1, <2>7, AcknowledgeEnds DEF Ledger!Next
  <2> QED
    BY <1>3, <2>2, <2>3, <2>4, <2>5, <2>6, <2>7 DEF Writes
<1>4. ASSUME NEW q \in Forms, NEW m \in Copies(q), Command(q, m)
      PROVE  Ledger!Next \/ UNCHANGED <<holder, offered>>
  <2>1. PICK f : f = form[q]
    OBVIOUS
  <2>2. f \in FormRow /\ FormShape(f) /\ form \in [Forms -> FormRow]
    BY <2>1 DEF IInv, FormsInv, FormsTyped
  <2>3. m[1] \in Texts \cup {None}
    BY <2>1, <2>2, CopyShape
  <2>4. Writes(f, m[1]) \/ UNCHANGED rows
    BY <1>4, <2>1, <2>2, CommandCases
  <2> QED
    BY <1>1, <1>3, <2>2, <2>3, <2>4
<1>5. ASSUME NEW c \in Cods, NEW d \in Drivers, Collect(c, d)
      PROVE  Ledger!Next
  BY <1>5, CollectTakes DEF Ledger!Next
<1> QED
  BY <1>1, <1>2, <1>4, <1>5 DEF Next

LEMMA LedgerStarts ==
    ASSUME Init
    PROVE  Ledger!Init
<1>1. ASSUME NEW c \in Cods
      PROVE  /\ cod[c].status \in {"NONE", "COLLECTED", "REMITTED", "SETTLED"}
             /\ payout[c].status = "NONE" /\ PendingKeys(c) = {}
  BY DEF Init, NoPayout, NoRem, PendingKeys
<1>2. \A c \in Cods : Holding(c) \in {"receiver", "driver", "company", "cleared"}
  BY <1>1, HoldingByRows
<1> QED
  BY <1>1, <1>2 DEF Ledger!Init

(* The COD tables implement the ledger: every command moves the money of    *)
(* one parcel by one hand, or no money at all.                              *)
THEOREM LedgerIsImplemented ==
    ASSUME OwnerAssumption, DueAssumption, NoneAssumption, KeysAssumption, ActAssumption
    PROVE  Spec => LedgerImplemented
<1> USE DEF Assumptions
<1>1. Init => IInv /\ Ledger!Init
  BY InitIInv, LedgerStarts
<1>2. IInv /\ [Next]_vars => IInv'
  BY NextIInv, StutterIInv
<1>3. IInv /\ [Next]_vars => [Ledger!Next]_(Ledger!ledgerVars)
  <2>1. IInv /\ Next => Ledger!Next \/ UNCHANGED <<holder, offered>>
    BY StepsOfLedger
  <2>2. UNCHANGED vars => UNCHANGED <<holder, offered>>
    BY DEF vars, holder, offered, Holding, PendingKeys
  <2> QED
    BY <2>1, <2>2 DEF Ledger!ledgerVars, holder, offered
<1> QED
  BY <1>1, <1>2, <1>3, PTL DEF Spec, LedgerImplemented, Ledger!Spec
-----------------------------------------------------------------------------
(***************************************************************************)
(* What the owner's page shows of the shipment, for any number of commands *)
(* and requests.                                                           *)
(*                                                                         *)
(* The cache may hold an answer of any age: the COD status of a private    *)
(* answer is the one that was read with the ownership, after the request   *)
(* came (Asked).                                                           *)
(***************************************************************************)
CONSTANTS Commands, Requests, Poll, Users, PageOwner, Faulty, MaxChange

VARIABLES row, cache, command, request, shown

Reads == INSTANCE ShipmentCache WITH Owner <- PageOwner

(* A request of a page: the answer of the owner's summary carries the COD    *)
(* status read with the ownership, which was read after the request came.    *)
Asked(q) ==
    /\ q \in Reads!Request
    /\ q.begun.cod <= row.cod
    /\ q.pc \in {"set", "answer"} => q.data \in Reads!Row
    /\ q.key = "summary" /\ q.pc # "own" =>
         /\ q.user = PageOwner
         /\ q.cod \in 0 .. MaxChange /\ q.cod >= q.begun.cod
         /\ q.pc \in {"set", "answer"} => q.data.cod = q.cod
    /\ q.key = "tracking" => q.pc # "own"

ReadInv ==
    /\ row \in Reads!Row
    /\ cache \in [Reads!CacheKeys -> Reads!Entry \cup {None}]
    /\ command \in [Commands -> {"idle", "invalidate"}]
    /\ request \in [Reads!Slots -> Reads!Request \cup {Reads!Idle}]
    /\ \A r \in Reads!Slots : request[r] # Reads!Idle => Asked(request[r])
    /\ shown \in Reads!Row \cup {None}

LEMMA RequestIs ==
    ASSUME ReadInv, NEW r \in Reads!Slots, request[r].pc # "idle"
    PROVE  /\ request[r] \in Reads!Request /\ Asked(request[r])
           /\ request[r].key \in Reads!CacheKeys /\ request[r].begun \in Reads!Row
BY DEF ReadInv, Reads!Request, Reads!Idle

(* What a step of a request makes of it. *)
At(q, pc) == [q EXCEPT !.pc = pc]
Owned(q, seen) == [q EXCEPT !.pc = "get", !.cod = seen]
Filled(q, pc, data) == [q EXCEPT !.pc = pc, !.data = data]

LEMMA AtIs ==
    ASSUME NEW q \in Reads!Request, NEW pc \in {"own", "get", "read", "set", "answer"}
    PROVE  /\ At(q, pc) \in Reads!Request /\ At(q, pc).pc = pc /\ At(q, pc).key = q.key
           /\ At(q, pc).user = q.user /\ At(q, pc).begun = q.begun /\ At(q, pc).cod = q.cod
           /\ At(q, pc).data = q.data
BY DEF At, Reads!Request

LEMMA OwnedIs ==
    ASSUME NEW q \in Reads!Request, NEW seen \in 0 .. MaxChange
    PROVE  /\ Owned(q, seen) \in Reads!Request /\ Owned(q, seen).pc = "get" /\ Owned(q, seen).key = q.key
           /\ Owned(q, seen).user = q.user /\ Owned(q, seen).begun = q.begun /\ Owned(q, seen).cod = seen
BY DEF Owned, Reads!Request

LEMMA FilledIs ==
    ASSUME NEW q \in Reads!Request, NEW pc \in {"set", "answer"}, NEW data \in Reads!Row
    PROVE  /\ Filled(q, pc, data) \in Reads!Request /\ Filled(q, pc, data).pc = pc
           /\ Filled(q, pc, data).key = q.key /\ Filled(q, pc, data).user = q.user
           /\ Filled(q, pc, data).begun = q.begun /\ Filled(q, pc, data).cod = q.cod
           /\ Filled(q, pc, data).data = data
BY DEF Filled, Reads!Request

(* A step of one request. *)
LEMMA RequestStep ==
    ASSUME ReadInv, NEW r \in Reads!Slots, NEW q \in Reads!Request \cup {Reads!Idle},
           request' = [request EXCEPT ![r] = q], q # Reads!Idle => Asked(q),
           UNCHANGED <<row, command>>, cache' \in [Reads!CacheKeys -> Reads!Entry \cup {None}],
           shown' \in Reads!Row \cup {None}
    PROVE  ReadInv'
<1>1. /\ request' \in [Reads!Slots -> Reads!Request \cup {Reads!Idle}] /\ request'[r] = q
      /\ \A s \in Reads!Slots \ {r} : request'[s] = request[s]
  BY DEF ReadInv
<1>2. ASSUME NEW s \in Reads!Slots, request'[s] # Reads!Idle'
      PROVE  Asked(request[s])'
  <2>1. CASE s = r
    BY <1>1, <1>2, <2>1 DEF Asked, Reads!Idle
  <2>2. CASE s # r
    BY <1>1, <1>2, <2>2 DEF ReadInv, Asked, Reads!Idle
  <2> QED
    BY <2>1, <2>2
<1> QED
  BY <1>1, <1>2 DEF ReadInv

(* A step that leaves the requests alone. *)
LEMMA RowStep ==
    ASSUME ReadInv, UNCHANGED <<request, shown>>, row' \in Reads!Row, row'.cod >= row.cod,
           cache' \in [Reads!CacheKeys -> Reads!Entry \cup {None}],
           command' \in [Commands -> {"idle", "invalidate"}]
    PROVE  ReadInv'
<1>1. ASSUME NEW s \in Reads!Slots, request'[s] # Reads!Idle'
      PROVE  Asked(request[s])'
  <2>1. request[s] \in Reads!Request /\ request[s].begun \in Reads!Row /\ Asked(request[s])
    BY <1>1 DEF ReadInv, Reads!Request, Reads!Idle
  <2>2. row.cod \in Int /\ row'.cod \in Int /\ request[s].begun.cod \in Int
    BY <2>1 DEF ReadInv, Reads!Row
  <2> QED
    BY <2>1, <2>2 DEF Asked
<1> QED
  BY <1>1 DEF ReadInv

LEMMA CommandInv ==
    ASSUME Reads!CacheAssumption, ReadInv, NEW c \in Commands, Reads!CommandStep(c)
    PROVE  ReadInv'
<1>1. ASSUME NEW changed, Reads!Commit(c, changed),
             \/ changed = [row EXCEPT !.status = @ + 1] \/ changed = [row EXCEPT !.fee = @ + 1]
             \/ changed = [row EXCEPT !.cod = @ + 1],
             command' = command \/ command' = [command EXCEPT ![c] = "invalidate"]
      PROVE  ReadInv'
  <2>1. row.status \in 0 .. MaxChange /\ row.fee \in 0 .. MaxChange /\ row.cod \in 0 .. MaxChange
        /\ MaxChange \in Nat /\ row.status + row.fee + row.cod < MaxChange
    BY <1>1 DEF ReadInv, Reads!Row, Reads!Commit, Reads!CacheAssumption
  <2>2. row.status + 1 \in 0 .. MaxChange /\ row.fee + 1 \in 0 .. MaxChange /\ row.cod + 1 \in 0 .. MaxChange
    BY <2>1
  <2>3. changed \in Reads!Row /\ changed.cod >= row.cod
    BY <1>1, <2>1, <2>2 DEF ReadInv, Reads!Row
  <2>4. command' \in [Commands -> {"idle", "invalidate"}]
    BY <1>1 DEF ReadInv
  <2> QED
    BY <1>1, <2>3, <2>4, RowStep DEF Reads!Commit, ReadInv
<1>2. ASSUME NEW keys \in SUBSET Reads!CacheKeys, Reads!invalidateShipment(c, keys)
      PROVE  ReadInv'
  <2>1. cache' \in [Reads!CacheKeys -> Reads!Entry \cup {None}] /\ command' \in [Commands -> {"idle", "invalidate"}]
    BY <1>2 DEF Reads!invalidateShipment, ReadInv
  <2>2. row' = row /\ row \in Reads!Row /\ row.cod >= row.cod
    BY <1>2 DEF Reads!invalidateShipment, ReadInv, Reads!Row
  <2> QED
    BY <1>2, <2>1, <2>2, RowStep DEF Reads!invalidateShipment
<1> QED
  BY <1>1, <1>2 DEF Reads!CommandStep, Reads!ChangeStatus, Reads!ChangePayment, Reads!ChangeFeeLedger, Reads!ChangeCod

LEMMA ExpireInv ==
    ASSUME ReadInv, NEW k \in Reads!CacheKeys, Reads!Expire(k)
    PROVE  ReadInv'
<1>1. cache' \in [Reads!CacheKeys -> Reads!Entry \cup {None}]
  BY DEF Reads!Expire, ReadInv
<1>2. row' = row /\ row \in Reads!Row /\ row.cod >= row.cod
  BY DEF Reads!Expire, ReadInv, Reads!Row
<1> QED
  BY <1>1, <1>2, RowStep DEF Reads!Expire, ReadInv

LEMMA AskInv ==
    ASSUME Reads!CacheAssumption, ReadInv, NEW r \in Reads!Slots, NEW key \in Reads!CacheKeys, NEW user \in Users \cup {None},
           Reads!Ask(r, key, user)
    PROVE  ReadInv'
<1> DEFINE q == [key |-> key, user |-> user, begun |-> row, cod |-> None, data |-> None,
                 pc |-> IF key = "summary" THEN "own" ELSE "get"]
<1>1. q \in Reads!Request
  BY DEF Reads!Request, ReadInv
<1>2. Asked(q)
  BY <1>1 DEF Asked, ReadInv, Reads!Row
<1>3. request' = [request EXCEPT ![r] = q]
  BY DEF Reads!Ask
<1> HIDE DEF q
<1> QED
  BY <1>1, <1>2, <1>3, RequestStep DEF Reads!Ask, ReadInv

LEMMA MoveInv ==
    ASSUME ReadInv, NEW r \in Reads!Slots, NEW q \in Reads!Request \cup {Reads!Idle}, q # Reads!Idle => Asked(q), Reads!Move(r, q),
           cache' \in [Reads!CacheKeys -> Reads!Entry \cup {None}]
    PROVE  ReadInv'
BY RequestStep DEF Reads!Move, ReadInv

LEMMA ServeInv ==
    ASSUME Reads!CacheAssumption, ReadInv, NEW r \in Reads!Slots, Reads!Serve(r) \/ Reads!Lose(r)
    PROVE  ReadInv'
<1> DEFINE q == request[r]
<1>1. q \in Reads!Request /\ Asked(q) /\ q.key \in Reads!CacheKeys /\ q.begun \in Reads!Row
  BY RequestIs DEF Reads!Serve, Reads!Lose, Reads!CheckOwner, Reads!GetCached, Reads!GetNothing, Reads!Read, Reads!Set, Reads!SetFails, Reads!Answer
<1>2. row \in Reads!Row /\ cache \in [Reads!CacheKeys -> Reads!Entry \cup {None}] /\ shown \in Reads!Row \cup {None}
  BY DEF ReadInv
<1>3. CASE Reads!CheckOwner(r)
  <2>1. CASE q.user = PageOwner
    <3>1. row.cod \in 0 .. MaxChange /\ row.cod >= q.begun.cod
      BY <1>1, <1>2 DEF Asked, Reads!Row
    <3>2. Owned(q, row.cod) \in Reads!Request /\ Asked(Owned(q, row.cod))
      <4>1. q.pc = "own"
        BY <1>3 DEF Reads!CheckOwner
      <4>2. PICK o : o = Owned(q, row.cod)
        OBVIOUS
      <4>3. /\ o \in Reads!Request /\ o.pc = "get" /\ o.key = q.key /\ o.user = q.user
            /\ o.begun = q.begun /\ o.cod = row.cod
        BY <1>1, <3>1, <4>2, OwnedIs
      <4>4. Asked(o)
        BY <1>1, <2>1, <3>1, <4>1, <4>3 DEF Asked
      <4> QED
        BY <4>2, <4>3, <4>4
    <3>3. Reads!Move(r, Owned(q, row.cod))
      BY <1>3, <2>1 DEF Reads!CheckOwner, Owned
    <3> QED
      BY <1>2, <1>3, <3>2, <3>3, MoveInv DEF Reads!CheckOwner
  <2>2. CASE q.user # PageOwner
    <3>1. Reads!Move(r, Reads!Idle)
      BY <1>3, <2>2 DEF Reads!CheckOwner
    <3> QED
      BY <1>2, <1>3, <3>1, MoveInv DEF Reads!CheckOwner
  <2> QED
    BY <2>1, <2>2
<1>4. CASE Reads!GetCached(r)
  <2> DEFINE data == Reads!WithCod(r, cache[q.key].data)
  <2>1. cache[q.key].data \in Reads!Row
    BY <1>1, <1>2, <1>4 DEF Reads!GetCached, Reads!Entry
  <2>2. data \in Reads!Row /\ (q.key = "summary" => data.cod = q.cod)
    BY <1>1, <1>4, <2>1 DEF Reads!WithCod, Reads!Row, Asked, Reads!GetCached
  <2>3. Reads!Move(r, Filled(q, "answer", data))
    BY <1>4 DEF Reads!GetCached, Filled
  <2> HIDE DEF data
  <2>4. PICK f \in Reads!Request : /\ f = Filled(q, "answer", data)
                             /\ f.pc = "answer" /\ f.key = q.key /\ f.user = q.user
                             /\ f.begun = q.begun /\ f.cod = q.cod /\ f.data = data
    BY <1>1, <2>2, FilledIs
  <2>5. Asked(f)
    BY <1>1, <1>2, <1>4, <2>2, <2>4 DEF Asked, Reads!GetCached
  <2> QED
    BY <1>2, <1>4, <2>3, <2>4, <2>5, MoveInv DEF Reads!GetCached
<1>5. CASE Reads!GetNothing(r)
  <2>1. Reads!Move(r, At(q, "read"))
    BY <1>5 DEF Reads!GetNothing, At
  <2>2. At(q, "read") \in Reads!Request /\ Asked(At(q, "read"))
    BY <1>1, <1>2, <1>5, AtIs DEF Asked, Reads!GetNothing
  <2> QED
    BY <1>2, <1>5, <2>1, <2>2, MoveInv DEF Reads!GetNothing
<1>6. CASE Reads!Read(r)
  <2> DEFINE data == IF q.key = "summary" THEN Reads!WithCod(r, row) ELSE Reads!Public(row)
  <2>1. 0 \in 0 .. MaxChange
    BY DEF Reads!CacheAssumption
  <2>2. data \in Reads!Row /\ (q.key = "summary" => data.cod = q.cod)
    BY <1>1, <1>2, <1>6, <2>1 DEF Reads!WithCod, Reads!Public, Reads!Row, Asked, Reads!Read
  <2>3. Reads!Move(r, Filled(q, "set", data))
    BY <1>6 DEF Reads!Read, Filled
  <2> HIDE DEF data
  <2>4. PICK f \in Reads!Request : /\ f = Filled(q, "set", data)
                             /\ f.pc = "set" /\ f.key = q.key /\ f.user = q.user
                             /\ f.begun = q.begun /\ f.cod = q.cod /\ f.data = data
    BY <1>1, <2>2, FilledIs
  <2>5. Asked(f)
    BY <1>1, <1>2, <1>6, <2>2, <2>4 DEF Asked, Reads!Read
  <2> QED
    BY <1>2, <1>6, <2>3, <2>4, <2>5, MoveInv DEF Reads!Read
<1>7. CASE Reads!Set(r) \/ Reads!SetFails(r)
  <2>1. Reads!Move(r, At(q, "answer"))
    BY <1>7 DEF Reads!Set, Reads!SetFails, At
  <2>2. At(q, "answer") \in Reads!Request /\ Asked(At(q, "answer"))
    BY <1>1, <1>2, <1>7, AtIs DEF Asked, Reads!Set, Reads!SetFails
  <2>3. [data |-> q.data, lasting |-> FALSE] \in Reads!Entry
    BY <1>1, <1>7 DEF Reads!Set, Reads!SetFails, Asked, Reads!Entry
  <2>4. cache' \in [Reads!CacheKeys -> Reads!Entry \cup {None}]
    BY <1>1, <1>2, <1>7, <2>3 DEF Reads!Set, Reads!SetFails
  <2> QED
    BY <2>1, <2>2, <2>4, MoveInv
<1>8. CASE Reads!Answer(r)
  <2>1. q.data \in Reads!Row
    BY <1>1, <1>8 DEF Asked, Reads!Answer
  <2> QED
    BY <1>2, <1>8, <2>1, RequestStep DEF Reads!Answer
<1>9. CASE Reads!Lose(r)
  BY <1>2, <1>9, MoveInv DEF Reads!Lose
<1> QED
  BY <1>3, <1>4, <1>5, <1>6, <1>7, <1>8, <1>9 DEF Reads!Serve

LEMMA InitRead ==
    ASSUME Reads!CacheAssumption, Reads!Init
    PROVE  ReadInv
<1>1. row \in Reads!Row
  BY DEF Reads!Init, Reads!NewShipment, Reads!Row, Reads!CacheAssumption
<1> QED
  BY <1>1 DEF Reads!Init, ReadInv

LEMMA NextRead ==
    ASSUME Reads!CacheAssumption, ReadInv, [Reads!Next]_Reads!vars
    PROVE  ReadInv'
<1>1. ASSUME NEW c \in Commands, Reads!CommandStep(c)
      PROVE  ReadInv'
  BY <1>1, CommandInv
<1>2. ASSUME NEW k \in Reads!CacheKeys, Reads!Expire(k)
      PROVE  ReadInv'
  BY <1>2, ExpireInv
<1>3. CASE Reads!AskPage
  BY <1>3, AskInv DEF Reads!AskPage, Reads!Slots, Reads!CacheKeys, Reads!CacheAssumption
<1>4. ASSUME NEW r \in Requests, Reads!Ask(r, "tracking", None) \/ \E u \in Users : Reads!Ask(r, "summary", u)
      PROVE  ReadInv'
  BY <1>4, AskInv DEF Reads!Slots, Reads!CacheKeys
<1>5. ASSUME NEW r \in Reads!Slots, Reads!Serve(r) \/ Reads!Lose(r)
      PROVE  ReadInv'
  BY <1>5, ServeInv
<1>6. CASE UNCHANGED Reads!vars
  <2>1. row' = row /\ row \in Reads!Row /\ row.cod >= row.cod
    BY <1>6 DEF Reads!vars, ReadInv, Reads!Row
  <2> QED
    BY <1>6, <2>1, RowStep DEF Reads!vars, ReadInv
<1> QED
  BY <1>1, <1>2, <1>3, <1>4, <1>5, <1>6 DEF Reads!Next

(* However many requests and commands there are, whatever the cache holds   *)
(* and wherever Redis fails, the private answer goes to the owner alone,    *)
(* and its COD status is never older than the request (getOwned).           *)
THEOREM CodIsShown ==
    ASSUME Reads!CacheAssumption
    PROVE  Reads!Spec => [](Reads!TypeOK /\ Reads!CodIsCurrent)
<1>1. ReadInv => Reads!TypeOK /\ Reads!CodIsCurrent
  <2>1. ReadInv => Reads!TypeOK
    BY DEF ReadInv, Reads!TypeOK
  <2>2. ASSUME ReadInv, NEW r \in Reads!Slots, request[r].pc = "answer", request[r].key = "summary"
        PROVE  request[r].user = PageOwner /\ request[r].data.cod >= request[r].begun.cod
    BY <2>2, RequestIs DEF Asked
  <2> QED
    BY <2>1, <2>2 DEF Reads!CodIsCurrent
<1>2. Reads!Init => ReadInv
  BY InitRead
<1>3. ReadInv /\ [Reads!Next]_Reads!vars => ReadInv'
  BY NextRead
<1> QED
  BY <1>1, <1>2, <1>3, PTL DEF Reads!Spec
=============================================================================
