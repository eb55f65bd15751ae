----------------------------- MODULE AddressBook -----------------------------
(***************************************************************************)
(* One customer's saved addresses (AddressesService) and the browser tabs  *)
(* that show them (AddressesPage). The commands are transactions of        *)
(* several statements at read committed: each statement sees what was      *)
(* committed when it began, a row that another transaction has written is  *)
(* waited for, and an index allows one default address at a time.          *)
(*                                                                         *)
(* An address is the text it was saved with and the place that was pinned  *)
(* for it on the map. A place is named by the text it was confirmed for,   *)
(* and a text by its fingerprint, so that an address is right when its pin *)
(* and its text are equal.                                                 *)
(***************************************************************************)
EXTENDS Integers, FiniteSets

CONSTANTS
    MaxId,   \* bound: addresses ever created
    Texts,   \* addresses a customer may write
    Tabs,    \* tabs of the customer, each with one command at a time
    Lossy,   \* whether answers may be lost
    None

VARIABLES
    book,  \* the table, as committed
    tx,    \* the command of each tab
    page   \* what each tab shows

vars == <<book, tx, page>>

(* What the constants must satisfy. *)
BookAssumption == MaxId \in Nat \ {0} /\ Lossy \in BOOLEAN

-----------------------------------------------------------------------------
(* State *)

Ids == 1 .. MaxId
Row == [text : Texts, pin : Texts \cup {None}, isDefault : BOOLEAN]
(* What an absent value must satisfy. *)
NoneAssumption == None \notin Ids \cup Texts /\ None \notin BOOLEAN /\ None \notin Row
Table == [Ids -> Row \cup {None}]

(* What a form holds; fingerprint is that of the text the pin goes with. *)
Form == [id : Ids \cup {None}, text : Texts, pin : Texts \cup {None},
         fingerprint : Texts \cup {None}, isDefault : BOOLEAN]

Page == [list : Table, form : Form \cup {None}]

(* isDefault is None where the input leaves it out; seen is what a          *)
(* statement has found, wrote the rows written so far.                      *)
IsTx(c) ==
    /\ c.op \in {"create", "update", "remove", "promote"}
    /\ c.pc \in {"read", "unset", "unsetting", "write", "promote", "commit", "done", "failed"}
    /\ c.id \in Ids \cup {None} /\ c.text \in Texts \cup {None} /\ c.pin \in Texts \cup {None}
    /\ c.isDefault \in BOOLEAN \cup {None}
    /\ c.seen \subseteq Ids /\ DOMAIN c.wrote \subseteq Ids
    /\ \A i \in DOMAIN c.wrote : c.wrote[i] \in Row \cup {None}
Idle == [pc |-> "idle"]

Busy(k) == tx[k].pc # "idle"
Working(k) == tx[k].pc \notin {"idle", "done", "failed"}

-----------------------------------------------------------------------------
(* The table as a transaction sees it *)

Sees(k) == [i \in Ids |-> IF i \in DOMAIN tx[k].wrote THEN tx[k].wrote[i] ELSE book[i]]
Present(table) == {i \in Ids : table[i] # None}
Defaults(table) == {i \in Present(table) : table[i].isDefault}

Locked(k, i) == \E j \in Tabs \ {k} : Working(j) /\ i \in DOMAIN tx[j].wrote

Write(k, rows, pc) ==
    tx' = [tx EXCEPT ![k].wrote = [i \in DOMAIN @ \cup DOMAIN rows |->
                                     IF i \in DOMAIN rows THEN rows[i] ELSE @[i]],
                     ![k].pc = pc]

IndexDropped(k, i, row) == TRUE  \* mutant: no unique index

(* CustomerAddress_one_default_per_customer: a default row can be written   *)
(* when no other row is one, and waits for whoever may change that.         *)
IndexAllows(k, i, row) ==
    row.isDefault =>
      /\ Defaults(Sees(k)) \subseteq {i}
      /\ \A j \in Tabs \ {k} : Working(j) =>
           \A n \in DOMAIN tx[j].wrote : tx[j].wrote[n] # None => ~tx[j].wrote[n].isDefault

-----------------------------------------------------------------------------
(* The statements of the commands *)

Start(k, command) ==
    /\ ~Busy(k)
    /\ tx' = [tx EXCEPT ![k] = command]

Command(op, id, text, pin, isDefault) ==
    [op |-> op, id |-> id, text |-> text, pin |-> pin, isDefault |-> isDefault,
     pc |-> "read", seen |-> {}, wrote |-> [i \in {} |-> None]]

(* create: the first address becomes the default. *)
Count(k) ==
    LET first == Present(book) = {}
        d == tx[k].isDefault \/ first
    IN /\ tx[k].pc = "read" /\ tx[k].op = "create"
       /\ tx' = [tx EXCEPT ![k].isDefault = d, ![k].pc = IF d THEN "unset" ELSE "write"]
       /\ UNCHANGED <<book, page>>

(* update: the default address cannot be unset. *)
FindToUpdate(k) ==
    LET row == book[tx[k].id] IN
    /\ tx[k].pc = "read" /\ tx[k].op = "update"
    /\ row # None
    /\ ~(row.isDefault /\ tx[k].isDefault = FALSE)
    /\ tx' = [tx EXCEPT ![k].pc = IF tx[k].isDefault = TRUE /\ ~row.isDefault THEN "unset" ELSE "write"]
    /\ UNCHANGED <<book, page>>

(* remove: whether it is the default is read here and used below. *)
FindToRemove(k) ==
    LET row == book[tx[k].id] IN
    /\ tx[k].pc = "read" /\ tx[k].op = "remove"
    /\ row # None
    /\ tx' = [tx EXCEPT ![k].isDefault = row.isDefault, ![k].pc = "write"]
    /\ UNCHANGED <<book, page>>

(* updateMany of the default rows: those this statement finds, once nobody  *)
(* else holds them, and as far as they still are.                           *)
UnsetFind(k) ==
    /\ tx[k].pc = "unset"
    /\ tx' = [tx EXCEPT ![k].seen = Defaults(Sees(k)), ![k].pc = "unsetting"]
    /\ UNCHANGED <<book, page>>

Unset(k) ==
    /\ tx[k].pc = "unsetting"
    /\ \A i \in tx[k].seen : ~Locked(k, i)
    /\ Write(k, [i \in tx[k].seen \cap Defaults(Sees(k)) |-> [book[i] EXCEPT !.isDefault = FALSE]], "write")
    /\ UNCHANGED <<book, page>>

Insert(k, i) ==
    LET row == [text |-> tx[k].text, pin |-> tx[k].pin, isDefault |-> tx[k].isDefault] IN
    /\ tx[k].pc = "write" /\ tx[k].op = "create"
    /\ book[i] = None /\ ~Locked(k, i)
    /\ \A j \in Ids : j > i => book[j] = None /\ ~Locked(k, j)
    /\ IndexAllows(k, i, row)
    /\ Write(k, [n \in {i} |-> row], "commit")
    /\ UNCHANGED <<book, page>>

(* Coordinates and a default that the input leaves out stay as they are. *)
Updated(row, c) == [text |-> IF c.text = None THEN row.text ELSE c.text,
                    pin |-> IF c.pin = None THEN row.pin ELSE c.pin,
                    isDefault |-> IF c.isDefault = None THEN row.isDefault ELSE c.isDefault]

Update(k) ==
    LET i == tx[k].id IN
    /\ tx[k].pc = "write" /\ tx[k].op \in {"update", "promote"}
    /\ ~Locked(k, i) /\ Sees(k)[i] # None
    /\ LET row == Updated(Sees(k)[i], tx[k]) IN
       IndexAllows(k, i, row) /\ Write(k, [n \in {i} |-> row], "commit")
    /\ UNCHANGED <<book, page>>

Delete(k) ==
    LET i == tx[k].id IN
    /\ tx[k].pc = "write" /\ tx[k].op = "remove"
    /\ ~Locked(k, i) /\ book[i] # None
    /\ Write(k, [n \in {i} |-> None], IF tx[k].isDefault THEN "promote" ELSE "commit")
    /\ UNCHANGED <<book, page>>

(* The replacement is the newest address this statement finds. *)
FindReplacement(k) ==
    LET others == Present(Sees(k)) IN
    /\ tx[k].pc = "promote"
    /\ \/ others = {} /\ tx' = [tx EXCEPT ![k].pc = "commit"]
       \/ \E i \in others :
            /\ \A j \in others : j <= i
            /\ tx' = [tx EXCEPT ![k].op = "promote", ![k].id = i, ![k].isDefault = TRUE, ![k].pc = "write"]
    /\ UNCHANGED <<book, page>>

Commit(k) ==
    /\ tx[k].pc = "commit"
    /\ book' = Sees(k)
    /\ tx' = [tx EXCEPT ![k].pc = "done", ![k].wrote = [i \in {} |-> None], ![k].seen = {}]
    /\ UNCHANGED page

(* Refused, in conflict with the index, deadlocked or disconnected. *)
RollBack(k) ==
    /\ Working(k)
    /\ tx' = [tx EXCEPT ![k].pc = "failed", ![k].wrote = [i \in {} |-> None], ![k].seen = {}]
    /\ UNCHANGED <<book, page>>

-----------------------------------------------------------------------------
(* The page *)

Refetch(k) ==
    /\ page' = [page EXCEPT ![k].list = book]
    /\ UNCHANGED <<book, tx>>

OpenCreate(k) ==
    /\ page[k].form = None
    /\ \E t \in Texts :
         page' = [page EXCEPT ![k].form = [id |-> None, text |-> t, pin |-> None, fingerprint |-> None,
                                           isDefault |-> FALSE]]
    /\ UNCHANGED <<book, tx>>

(* openEdit takes saved coordinates for those of the saved text. *)
OpenEdit(k, i) ==
    LET a == page[k].list[i] IN
    /\ a # None /\ ~Busy(k)
    /\ page' = [page EXCEPT ![k].form =
                  [id |-> i, text |-> a.text, pin |-> a.pin, isDefault |-> a.isDefault,
                   fingerprint |-> IF a.pin = None THEN None ELSE a.text]]
    /\ UNCHANGED <<book, tx>>

Fill(k) ==
    /\ page[k].form # None /\ ~Busy(k)
    /\ \/ \E t \in Texts : page' = [page EXCEPT ![k].form.text = t]
       \/ page' = [page EXCEPT ![k].form.isDefault = ~@]
    /\ UNCHANGED <<book, tx>>

(* The picker gives back the place confirmed and the address it was for. *)
ConfirmLocation(k) ==
    /\ page[k].form # None /\ ~Busy(k)
    /\ page' = [page EXCEPT ![k].form.pin = page[k].form.text, ![k].form.fingerprint = page[k].form.text]
    /\ UNCHANGED <<book, tx>>

CloseForm(k) ==
    /\ page[k].form # None /\ ~Busy(k)
    /\ page' = [page EXCEPT ![k].form = None]
    /\ UNCHANGED <<book, tx>>

FormCommand(f, pin) == Command(IF f.id = None THEN "create" ELSE "update", f.id, f.text, pin, f.isDefault)

(* addressSchema refuses a pin that was confirmed for another text. *)
Submit(k) ==
    LET f == page[k].form IN
    /\ f # None
    /\ f.pin # None => f.fingerprint = f.text
    /\ Start(k, FormCommand(f, f.pin))
    /\ UNCHANGED <<book, page>>

SetDefault(k, i) ==
    /\ page[k].list[i] # None /\ ~page[k].list[i].isDefault
    /\ Start(k, Command("update", i, None, None, TRUE))
    /\ UNCHANGED <<book, page>>

ConfirmDelete(k, i) ==
    /\ page[k].list[i] # None
    /\ Start(k, Command("remove", i, None, None, None))
    /\ UNCHANGED <<book, page>>

(* onSuccess fetches the list again, and a save closes the form. *)
OnSuccess(k) ==
    /\ tx[k].pc = "done"
    /\ tx' = [tx EXCEPT ![k] = Idle]
    /\ page' = [page EXCEPT ![k].list = book,
                            ![k].form = IF tx[k].text # None THEN None ELSE @]
    /\ UNCHANGED book

(* An error, which may hide a commit when the answer is lost. *)
OnError(k) ==
    /\ tx[k].pc \in {"failed"} \cup (IF Lossy THEN {"done"} ELSE {})
    /\ tx' = [tx EXCEPT ![k] = Idle]
    /\ UNCHANGED <<book, page>>

-----------------------------------------------------------------------------
Init ==
    /\ book = [i \in Ids |-> None]
    /\ tx = [k \in Tabs |-> Idle]
    /\ page = [k \in Tabs |-> [list |-> [i \in Ids |-> None], form |-> None]]

Serve(k) ==
    \/ Count(k) \/ FindToUpdate(k) \/ FindToRemove(k) \/ UnsetFind(k) \/ Unset(k)
    \/ \E i \in Ids : Insert(k, i)
    \/ Update(k) \/ Delete(k) \/ FindReplacement(k) \/ Commit(k) \/ RollBack(k)

Use(k) ==
    \/ Refetch(k) \/ OpenCreate(k) \/ Fill(k) \/ ConfirmLocation(k) \/ CloseForm(k) \/ Submit(k)
    \/ \E i \in Ids : OpenEdit(k, i) \/ SetDefault(k, i) \/ ConfirmDelete(k, i)
    \/ OnSuccess(k) \/ OnError(k)

Next == \E k \in Tabs : Serve(k) \/ Use(k)

Spec == Init /\ [][Next]_vars

(* The commands alone, sent by pages that may show anything. *)
Send(k) ==
    /\ \/ \E t \in Texts, d \in BOOLEAN : Start(k, Command("create", None, t, None, d))
       \/ \E i \in Ids, d \in BOOLEAN \cup {None} : Start(k, Command("update", i, None, None, d))
       \/ \E i \in Ids : Start(k, Command("remove", i, None, None, None))
    /\ UNCHANGED <<book, page>>

Answer(k) ==
    /\ tx[k].pc \in {"done", "failed"}
    /\ tx' = [tx EXCEPT ![k] = Idle]
    /\ UNCHANGED <<book, page>>

CommandNext == \E k \in Tabs : Serve(k) \/ Send(k) \/ Answer(k)

-----------------------------------------------------------------------------
(* Properties *)

(* Every variable has its type. *)
TypeOK ==
    /\ book \in Table
    /\ \A k \in Tabs : tx[k] = Idle \/ IsTx(tx[k])
    /\ page \in [Tabs -> Page]

(* However the commands of several tabs interleave, at most one address is  *)
(* the default one, and a transaction that is about to commit leaves it so. *)
AtMostOneDefault ==
    /\ Cardinality(Defaults(book)) <= 1
    /\ \A k \in Tabs : tx[k].pc = "commit" => Cardinality(Defaults(Sees(k))) <= 1

(* A customer with saved addresses has a default one: the first becomes it, *)
(* it cannot be unset, and removing it promotes another (AddressesService). *)
HasDefault == Present(book) # {} => Defaults(book) # {}

(* The place saved with an address was confirmed on the map for the text    *)
(* saved with it, whatever was edited in between (address-form.ts).         *)
PinFitsAddress == \A i \in Present(book) : book[i].pin \in {None, book[i].text}
(* What a customer finds in the address book: never two default addresses,  *)
(* always one with one tab at work, and with no answer lost the place that  *)
(* was confirmed for the text (AddressesService, address-form.ts).          *)
OneDefault ==
    /\ TypeOK /\ AtMostOneDefault
    /\ (\E k \in Tabs : Tabs = {k}) => HasDefault /\ (~Lossy => PinFitsAddress)
=============================================================================
