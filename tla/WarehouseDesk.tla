---------------------------- MODULE WarehouseDesk ----------------------------
(***************************************************************************)
(* The warehouse workspace page in front of Warehouses: a clerk opens a    *)
(* dialog on a row of a list, and confirms it later, when the row may have *)
(* changed, when the clerk may have been moved to another warehouse, or    *)
(* when an earlier confirmation may still be under way: its answer never   *)
(* came, or its dialog was closed before it came. Others work on the same  *)
(* parcels meanwhile.                                                      *)
(*                                                                         *)
(* A dialog keeps the row it was opened on, so that the time between the   *)
(* fetch of the list and the click is part of the time the dialog is open: *)
(* dialogs open on current rows. The lists themselves are those of         *)
(* Warehouses (InboundQueue, Inventory, Outbound, Describe).               *)
(***************************************************************************)
EXTENDS Warehouses

VARIABLES
    clerk,    \* the user of the page: one of Staff, or Office
    desk,     \* the page
    call,     \* its calls that the server has not finished
    pressed   \* history: the destinations confirmed with each transfer key

deskVars == <<clerk, desk, call, pressed>>

-----------------------------------------------------------------------------
(* State *)

Kinds == {"checkIn", "routeDestination", "createTransfer", "dispatchTransfer", "receiveTransfer",
          "markReadyForDelivery"}

(* A call carries the ids in the URL and the body; x is the transfer, or    *)
(* the clientRequestId of a new one.                                        *)
CallRow == [phase : {"sent", "begun", "done", "refused"}, cmd : Kinds, at : Sites,
            s : Parcels, to : Sites \cup {None}, x : Transfers \cup {None},
            weight : Weights \cup {None}, fresh : BOOLEAN]
NoCall == [phase |-> "none"]

(* What transferContext has read: the parcel if it is still in stock here,  *)
(* and whether it has a live transfer.                                      *)
Seen == [stage : Stage, dest : Sites \cup {None}, open : BOOLEAN]
Context == [got : SUBSET {"shipment", "transfers"}, shipment : Seen \cup {None}, live : BOOLEAN]
NoContext == [got |-> {}, shipment |-> None, live |-> FALSE]

(* dest: the warehouse chosen in the sorting dialog, or the one the clerk   *)
(* has confirmed in the transfer dialog; home: the warehouse a transfer     *)
(* dialog was opened in; wait: the calls whose answers will be heard;       *)
(* loose: those of them that checkInMutation.reset has let go of; told: the *)
(* call the message of success is about.                                    *)
DeskRow == [at : Sites \cup {None}, dialog : Kinds \cup {"none"}, s : Parcels \cup {None},
            x : Transfers \cup {None}, dest : Sites \cup {None}, home : Sites \cup {None},
            step : {"edit", "reading", "recheck"}, ctx : Context, wait : SUBSET Requests,
            loose : SUBSET Requests, told : CallRow \cup {None}]
Blank(w) == [at |-> w, dialog |-> "none", s |-> None, x |-> None, dest |-> None, home |-> None,
             step |-> "edit", ctx |-> NoContext, wait |-> {}, loose |-> {}, told |-> None]

(* isPending of the mutation of a command. *)
Busy(cmd) == \E r \in desk.wait \ desk.loose : call[r].cmd = cmd

(* Every variable of the page has its type. *)
DeskTypeOK ==
    /\ clerk \in Staff \cup {Office}
    /\ desk \in DeskRow
    /\ call \in [Requests -> CallRow \cup {NoCall}]
    /\ pressed \in [Transfers -> SUBSET Sites]

-----------------------------------------------------------------------------
(* The buttons of the lists, on current rows *)

(* Chờ nhập and the quick scan: lookupCheckInShipment *)
OffersCheckIn(w, s) ==
    /\ Open(w) /\ parcel[s].origin = w
    /\ parcel[s].stage = "PICKED_UP"
       \/ (parcel[s].stage = "AT_ORIGIN_WAREHOUSE" /\ parcel[s].current = w)

(* Tồn kho: Phân loại, Tạo transfer, Sẵn sàng giao *)
OffersSorting(w, s) ==
    s \in Inventory(w) /\ parcel[s].stage = "AT_ORIGIN_WAREHOUSE" /\ LiveTransfers(s) = {}

OffersTransfer(w, s) == OffersSorting(w, s) /\ parcel[s].dest \notin {None, w}

OffersReady(w, s) == s \in Inventory(w) /\ parcel[s].stage = "AT_DESTINATION_WAREHOUSE"

(* Chuyển đi, Chuyển đến *)
OffersDispatch(w, x) ==
    transfer[x].status # "NONE" /\ transfer[x].from = w /\ Describe(x).canStandaloneDispatch
OffersReceive(w, x) ==
    transfer[x].status # "NONE" /\ transfer[x].to = w /\ Describe(x).canReceive

-----------------------------------------------------------------------------
(* Dialogs *)

(* The page behind the dialog stays: its warehouse, the calls it listens    *)
(* for and its message.                                                     *)
Show(row, loose) ==
    /\ desk' = [row EXCEPT !.at = desk.at, !.wait = desk.wait, !.loose = loose, !.told = desk.told]
    /\ UNCHANGED <<vars, call, pressed>>

(* From the list, or by the answer to a scanned code, which comes when it   *)
(* comes. What has been confirmed before is forgotten, not stopped.         *)
OpenCheckIn(s) ==
    /\ desk.dialog \in {"none", "checkIn"} /\ desk.at # None /\ OffersCheckIn(desk.at, s)
    /\ Show([Blank(None) EXCEPT !.dialog = "checkIn", !.s = s],
            desk.loose \cup {r \in desk.wait : call[r].cmd = "checkIn"})

(* The buttons of the other dialogs are disabled while their command is     *)
(* under way.                                                               *)
Ready(cmd) == desk.dialog = "none" /\ desk.at # None /\ ~Busy(cmd)

(* The suggestion in the select may be replaced by any active warehouse. *)
OpenSorting(s, to) ==
    /\ Ready("routeDestination") /\ OffersSorting(desk.at, s) /\ Open(to)
    /\ Show([Blank(None) EXCEPT !.dialog = "routeDestination", !.s = s, !.dest = to], desk.loose)

(* A new clientRequestId for every opening. *)
OpenTransfer(s, x) ==
    /\ Ready("createTransfer") /\ OffersTransfer(desk.at, s)
    /\ transfer[x].status = "NONE" /\ pressed[x] = {}
    /\ Show([Blank(None) EXCEPT !.dialog = "createTransfer", !.s = s, !.x = x, !.home = desk.at,
                                !.step = "reading"], desk.loose)

OpenDispatch(x) ==
    /\ Ready("dispatchTransfer") /\ OffersDispatch(desk.at, x)
    /\ Show([Blank(None) EXCEPT !.dialog = "dispatchTransfer", !.s = transfer[x].parcel, !.x = x],
            desk.loose)

OpenReceive(x) ==
    /\ Ready("receiveTransfer") /\ OffersReceive(desk.at, x)
    /\ Show([Blank(None) EXCEPT !.dialog = "receiveTransfer", !.s = transfer[x].parcel, !.x = x],
            desk.loose)

(* Only the transfer dialog stays until its command has answered; the       *)
(* others may be closed over a call that goes on.                           *)
Close ==
    /\ desk.dialog # "none"
    /\ desk.dialog = "createTransfer" => desk.step = "edit" /\ ~Busy("createTransfer")
    /\ Show(Blank(None), desk.loose)

(* The staff profile is fetched again; an office user picks a warehouse. *)
ChangeWarehouse(w) ==
    /\ w # desk.at
    /\ IF clerk \in Staff THEN w = staff[clerk].site
       ELSE w # None /\ Open(w) /\ desk.dialog = "none"
    /\ desk' = [desk EXCEPT !.at = w]
    /\ UNCHANGED <<vars, call, pressed>>

-----------------------------------------------------------------------------
(* Confirming *)

Send(r, row) ==
    /\ call[r] = NoCall /\ req[r].cmd = "idle" /\ ~Busy(row.cmd)
    /\ call' = [call EXCEPT ![r] = row]

Order(cmd, w, s) == [phase |-> "sent", cmd |-> cmd, at |-> w, s |-> s, to |-> None, x |-> None,
                     weight |-> None, fresh |-> FALSE]

(* The dialogs that send at once, always to the warehouse of the page now. *)
Confirm(r, cmd, weight) ==
    /\ desk.dialog = cmd /\ desk.at # None
    /\ Send(r, [Order(cmd, desk.at, desk.s) EXCEPT !.to = desk.dest, !.x = desk.x,
                                                   !.weight = weight])
    /\ desk' = [desk EXCEPT !.wait = @ \cup {r}]
    /\ UNCHANGED <<vars, pressed>>

ConfirmCheckIn(r, weight) == Confirm(r, "checkIn", weight)
ConfirmSorting(r) == Confirm(r, "routeDestination", None)
ConfirmDispatch(r) == Confirm(r, "dispatchTransfer", None)
ConfirmReceive(r) == Confirm(r, "receiveTransfer", None)

PressReady(r, s) ==
    /\ desk.dialog = "none" /\ desk.at # None /\ OffersReady(desk.at, s)
    /\ Send(r, Order("markReadyForDelivery", desk.at, s))
    /\ desk' = [desk EXCEPT !.wait = @ \cup {r}]
    /\ UNCHANGED <<vars, pressed>>

(* transferContext: two reads in any order. *)
ReadShipment ==
    /\ desk.step \in {"reading", "recheck"} /\ "shipment" \notin desk.ctx.got
    /\ desk' = [desk EXCEPT !.ctx.got = @ \cup {"shipment"}, !.ctx.shipment =
                  IF desk.s \notin Inventory(desk.home) THEN None
                  ELSE [stage |-> parcel[desk.s].stage, dest |-> parcel[desk.s].dest,
                        open |-> parcel[desk.s].dest # None /\ Open(parcel[desk.s].dest)]]
    /\ UNCHANGED <<vars, call, pressed>>

ReadTransfers ==
    /\ desk.step \in {"reading", "recheck"} /\ "transfers" \notin desk.ctx.got
    /\ desk' = [desk EXCEPT !.ctx.got = @ \cup {"transfers"},
                  !.ctx.live = \E x \in LiveTransfers(desk.s) : transfer[x].from = desk.home]
    /\ UNCHANGED <<vars, call, pressed>>

Loaded == desk.ctx.got = {"shipment", "transfers"}

(* transferBlockReason *)
Blocked(w) ==
    \/ desk.ctx.shipment = None
    \/ desk.ctx.live
    \/ desk.ctx.shipment.stage # "AT_ORIGIN_WAREHOUSE"
    \/ desk.ctx.shipment.dest \in {None, w}
    \/ ~desk.ctx.shipment.open

ContextShown ==
    /\ desk.step = "reading" /\ Loaded
    /\ desk' = [desk EXCEPT !.step = "edit"]
    /\ UNCHANGED <<vars, call, pressed>>

(* submitTransfer: what the clerk sees is what is confirmed ... *)
PressTransfer ==
    /\ desk.dialog = "createTransfer" /\ desk.step = "edit" /\ ~Busy("createTransfer")
    /\ desk.home = desk.at /\ ~Blocked(desk.at)
    /\ desk' = [desk EXCEPT !.step = "recheck", !.dest = desk.ctx.shipment.dest, !.ctx = NoContext]
    /\ pressed' = [pressed EXCEPT ![desk.x] = @ \cup {desk.ctx.shipment.dest}]
    /\ UNCHANGED <<vars, call>>

(* ... and is looked up again before it is sent. *)
RecheckedBlindly(r) ==  \* mutant: the destination read again is sent without comparing
    /\ desk.step = "recheck" /\ Loaded
    /\ IF Blocked(desk.home)
       THEN desk' = [desk EXCEPT !.step = "edit"] /\ UNCHANGED call
       ELSE /\ Send(r, [Order("createTransfer", desk.home, desk.s) EXCEPT
                          !.to = desk.ctx.shipment.dest, !.x = desk.x])
            /\ desk' = [desk EXCEPT !.step = "edit", !.wait = @ \cup {r}]
    /\ UNCHANGED <<vars, pressed>>
Rechecked(r) ==
    /\ desk.step = "recheck" /\ Loaded
    /\ IF Blocked(desk.home) THEN desk' = [desk EXCEPT !.step = "edit"] /\ UNCHANGED call
       ELSE IF desk.ctx.shipment.dest # desk.dest
       THEN desk' = [desk EXCEPT !.step = "edit"] /\ UNCHANGED call
       ELSE /\ Send(r, [Order("createTransfer", desk.home, desk.s) EXCEPT
                          !.to = desk.dest, !.x = desk.x])
            /\ desk' = [desk EXCEPT !.step = "edit", !.wait = @ \cup {r}]
    /\ UNCHANGED <<vars, pressed>>

ContextFails ==
    /\ desk.step \in {"reading", "recheck"}
    /\ desk' = [desk EXCEPT !.step = "edit", !.ctx = NoContext]
    /\ UNCHANGED <<vars, call, pressed>>

-----------------------------------------------------------------------------
(* The server, by the commands of Warehouses *)

Phase(r, phase, fresh) == call' = [call EXCEPT ![r].phase = phase, ![r].fresh = fresh]

Accept(r) ==
    LET c == call[r] IN
    /\ c.phase = "sent"
    /\ \/ c.cmd = "checkIn" /\ CheckInRead(r, clerk, c.at, c.s)
       \/ c.cmd = "markReadyForDelivery" /\ MarkReadyRead(r, clerk, c.at, c.s)
       \/ Begin(r, clerk, c.cmd, c.at)
    /\ Phase(r, "begun", FALSE)
    /\ UNCHANGED <<desk, pressed>>

Perform(r) ==
    LET c == call[r] IN
    /\ c.phase = "begun"
    /\ \/ c.cmd = "checkIn" /\ CheckIn(r, c.weight)
       \/ c.cmd = "markReadyForDelivery" /\ MarkReadyForDelivery(r)
       \/ c.cmd = "routeDestination" /\ RouteDestination(r, c.s, c.to)
       \/ c.cmd = "createTransfer" /\ CreateTransfer(r, c.s, c.to, c.x)
       \/ c.cmd = "dispatchTransfer" /\ DispatchTransfer(r, c.x)
       \/ c.cmd = "receiveTransfer" /\ ReceiveTransfer(r, c.x)
    /\ Phase(r, "done", TRUE)
    /\ UNCHANGED <<desk, pressed>>

(* What each command answers when its work is already done. *)
Matches(x, c) == transfer[x].parcel = c.s /\ transfer[x].from = c.at /\ transfer[x].to = c.to

AlreadyDoneEarly(c) ==  \* mutant: any transfer of the row is taken for a dispatched one
    \/ c.cmd = "dispatchTransfer" /\ transfer[c.x].from = c.at /\ transfer[c.x].status # "NONE"

AlreadyDone(c) ==
    LET s == parcel[c.s] IN
    \/ c.cmd = "checkIn" /\ s.origin = c.at /\ s.current = c.at /\ s.stage = "AT_ORIGIN_WAREHOUSE"
    \/ c.cmd = "markReadyForDelivery" /\ s.current = c.at /\ s.stage = "AWAITING_DELIVERY_ASSIGNMENT"
    \/ /\ c.cmd = "routeDestination" /\ s.current = c.at /\ s.dest = c.to
       /\ s.stage \in {"AT_ORIGIN_WAREHOUSE", "AWAITING_DELIVERY_ASSIGNMENT"}
    \/ /\ c.cmd = "createTransfer"
       /\ IF transfer[c.x].status # "NONE" THEN Matches(c.x, c)
          ELSE \E x \in LiveTransfers(c.s) : Matches(x, c)
    \/ /\ c.cmd = "dispatchTransfer" /\ transfer[c.x].from = c.at
       /\ transfer[c.x].status \in {"IN_TRANSIT", "COMPLETED"}
    \/ c.cmd = "receiveTransfer" /\ transfer[c.x].to = c.at /\ transfer[c.x].status = "COMPLETED"

Replay(r) ==
    /\ call[r].phase = "sent" /\ InScope(clerk, call[r].at)
    /\ call[r].cmd = "checkIn" => Open(call[r].at)
    /\ AlreadyDone(call[r])
    /\ Phase(r, "done", FALSE)
    /\ UNCHANGED <<vars, desk, pressed>>

(* A condition fails, or the server cannot do it now. *)
Refuse(r) ==
    /\ call[r].phase \in {"sent", "begun"}
    /\ IF call[r].phase = "begun" THEN Refused(r) ELSE UNCHANGED vars
    /\ Phase(r, "refused", FALSE)
    /\ UNCHANGED <<desk, pressed>>

-----------------------------------------------------------------------------
(* Answers *)

(* A success closes the dialog of its command, whatever row that shows by   *)
(* now; a sorted parcel makes an open transfer dialog read its context.     *)
AfterSuccess(cmd) ==
    IF desk.dialog = cmd THEN Blank(desk.at)
    ELSE IF cmd = "routeDestination" /\ desk.dialog = "createTransfer" /\ desk.home = desk.at
    THEN [desk EXCEPT !.ctx = NoContext, !.step = IF @ = "edit" THEN "reading" ELSE @]
    ELSE desk

OnSuccess(r) ==
    /\ r \in desk.wait /\ call[r].phase = "done"
    /\ desk' = [AfterSuccess(call[r].cmd) EXCEPT !.wait = desk.wait \ {r},
                   !.loose = desk.loose \ {r}, !.told = call[r]]
    /\ call' = [call EXCEPT ![r] = NoCall]
    /\ UNCHANGED <<vars, pressed>>

(* An error keeps the dialog; the transfer dialog reads its context again. *)
AfterError(cmd) ==
    IF cmd = "createTransfer" /\ desk.dialog = "createTransfer"
    THEN [desk EXCEPT !.ctx = NoContext, !.step = "reading"]
    ELSE desk

Failed(r) ==
    desk' = [AfterError(call[r].cmd) EXCEPT !.wait = desk.wait \ {r}, !.loose = desk.loose \ {r}]

OnError(r) ==
    /\ r \in desk.wait /\ call[r].phase = "refused"
    /\ Failed(r)
    /\ call' = [call EXCEPT ![r] = NoCall]
    /\ UNCHANGED <<vars, pressed>>

(* The connection breaks; the server may still be at work. *)
Disconnected(r) ==
    /\ r \in desk.wait
    /\ Failed(r)
    /\ UNCHANGED <<vars, call, pressed>>

(* An answer nobody waits for. *)
Unheard(r) ==
    /\ r \notin desk.wait /\ call[r].phase \in {"done", "refused"}
    /\ call' = [call EXCEPT ![r] = NoCall]
    /\ UNCHANGED <<vars, desk, pressed>>

-----------------------------------------------------------------------------
DeskInit ==
    /\ Init
    /\ clerk \in Staff \cup {Office}
    /\ desk = Blank(None)
    /\ call = [r \in Requests |-> NoCall]
    /\ pressed = [x \in Transfers |-> {}]

(* Everyone else; they have requests and keys of their own. *)
Others ==
    /\ Next
    /\ \A r \in Requests : call[r] # NoCall => req'[r] = req[r]
    /\ \A x \in Transfers : transfer'[x].status # transfer[x].status /\ transfer[x].status = "NONE"
         => pressed[x] = {} /\ desk.x # x
    /\ UNCHANGED deskVars

DialogStep ==
    \/ \E s \in Parcels : \/ OpenCheckIn(s)
                          \/ \E to \in Sites : OpenSorting(s, to)
                          \/ \E x \in Transfers : OpenTransfer(s, x)
    \/ \E x \in Transfers : OpenDispatch(x) \/ OpenReceive(x)
    \/ \E w \in Sites \cup {None} : ChangeWarehouse(w)
    \/ Close

ConfirmStep ==
    \/ \E r \in Requests : \/ \E weight \in Weights : ConfirmCheckIn(r, weight)
                            \/ ConfirmSorting(r) \/ ConfirmDispatch(r) \/ ConfirmReceive(r)
                            \/ \E s \in Parcels : PressReady(r, s)
                            \/ Rechecked(r)
    \/ ReadShipment \/ ReadTransfers \/ ContextShown \/ PressTransfer \/ ContextFails

ServerStep == \E r \in Requests : Accept(r) \/ Perform(r) \/ Replay(r) \/ Refuse(r)

AnswerStep ==
    \E r \in Requests : OnSuccess(r) \/ OnError(r) \/ Disconnected(r) \/ Unheard(r)

DeskNext ==
    /\ DialogStep \/ ConfirmStep \/ ServerStep \/ AnswerStep \/ Others
    /\ UNCHANGED clerk

DeskSpec == DeskInit /\ [][DeskNext]_<<vars, deskVars>>

-----------------------------------------------------------------------------
(* Properties *)

(* A transfer made through the page goes where the clerk saw it go when     *)
(* confirming, however the parcel was sorted again in between and however   *)
(* often a confirmation was repeated after a lost answer (submitTransfer).  *)
TransferAsReviewed ==
    \A x \in Transfers : (pressed[x] # {} /\ transfer[x].status # "NONE")
                           => transfer[x].to \in pressed[x]

(* What the page reports as done has been done, also when the answer is one *)
(* to a repeated call or the row had changed under the dialog.              *)
DoneIsDone ==
    LET c == desk.told IN c # None =>
      CASE c.cmd = "checkIn" -> parcel[c.s].stage # "PICKED_UP" /\ parcel[c.s].origin = c.at
        [] c.cmd = "routeDestination" -> parcel[c.s].dest # None
        [] c.cmd = "createTransfer" -> \E x \in Transfers : Matches(x, c)
        [] c.cmd = "dispatchTransfer" -> transfer[c.x].status \in {"IN_TRANSIT", "COMPLETED"}
        [] c.cmd = "receiveTransfer" -> transfer[c.x].status = "COMPLETED"
        [] c.cmd = "markReadyForDelivery" -> parcel[c.s].stage = "AWAITING_DELIVERY_ASSIGNMENT"

(* A check-in the page reports as new recorded the weight of the            *)
(* confirmation it answers, not the one of a colleague, of an earlier try   *)
(* or of another dialog on the same parcel. The confirmation need not be    *)
(* the one of the dialog that the answer closes.                            *)
WeightAsConfirmed ==
    (desk.told # None /\ desk.told.cmd = "checkIn" /\ desk.told.fresh)
      => parcel[desk.told.s].weight = desk.told.weight

(* Every button the lists show on a current row is one the server accepts   *)
(* from a clerk of that warehouse while the warehouses concerned are        *)
(* active: the page's conditions and the server's agree.                    *)
OffersAccepted ==
    \A w \in Sites : Open(w) =>
      /\ \A s \in Parcels :
           /\ OffersCheckIn(w, s) => \/ parcel[s].stage = "PICKED_UP"
                                     \/ AlreadyDone(Order("checkIn", w, s))
           /\ OffersSorting(w, s) => parcel[s].current = w
           /\ OffersTransfer(w, s) =>
                /\ parcel[s].dest \in Sites \ {w} /\ parcel[s].current = w
                /\ parcel[s].stage \in {"AT_ORIGIN_WAREHOUSE", "AT_DESTINATION_WAREHOUSE"}
                /\ LiveTransfers(s) = {}
           /\ OffersReady(w, s) => parcel[s].current = w
      /\ \A x \in Transfers :
           /\ (OffersDispatch(w, x) /\ Open(transfer[x].to)) => Dispatchable(x)
           /\ OffersReceive(w, x) => ReceiveAllowed(x)

(* The page keeps its type and tells the truth: what it reports as done is  *)
(* done, also when the report comes after the dialog was closed, a check-in *)
(* it reports as new recorded the weight that was confirmed with it, and    *)
(* what it offers is accepted (warehouse-workspace-page.tsx).               *)
DeskTellsTruth == DeskTypeOK /\ DoneIsDone /\ WeightAsConfirmed /\ OffersAccepted
=============================================================================
