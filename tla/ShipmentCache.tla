---------------------------- MODULE ShipmentCache ----------------------------
(***************************************************************************)
(* What people are shown of one shipment: its owner's page (getOwned) and  *)
(* the public tracking page (publicTracking) read through two Redis keys,  *)
(* which the commands on the shipment delete after they have committed     *)
(* (CacheService). Redis may fail at any call, a process may stop between  *)
(* its commit and its deletion, and a reader may be slow between its read  *)
(* of the database and its write to the cache.                             *)
(*                                                                         *)
(* The shipment is three counters that commands raise: its status with the *)
(* public timeline, its shipping fee and its COD transaction.              *)
(***************************************************************************)
EXTENDS Integers

CONSTANTS
    Commands,  \* commands on the shipment that may run at once
    Requests,  \* requests from other pages that may run at once
    Poll,      \* the request slot of the owner's page
    Users,     \* users of the service
    Owner,     \* the customer whose shipment it is
    Faulty,    \* whether Redis and processes may fail
    MaxChange, \* bound: changes of the shipment
    None

VARIABLES
    row,     \* the shipment as committed
    cache,   \* the two keys
    command, \* what each command has still to do
    request, \* the requests under way
    shown    \* what the owner's page shows

vars == <<row, cache, command, request, shown>>

(* What the constants must satisfy. *)
CacheAssumption ==
    /\ Owner \in Users
    /\ Poll \notin Requests
    /\ MaxChange \in Nat
    /\ Faulty \in BOOLEAN

-----------------------------------------------------------------------------
(* State *)

Row == [status : 0 .. MaxChange, fee : 0 .. MaxChange, cod : 0 .. MaxChange]
NewShipment == [status |-> 0, fee |-> 0, cod |-> 0]

(* The summary key holds a whole answer, the tracking key its public part;  *)
(* lasting is whether the entry has no time to live.                        *)
CacheKeys == {"summary", "tracking"}
Entry == [data : Row, lasting : BOOLEAN]

Slots == Requests \cup {Poll}

(* begun is the shipment when the request came, cod the status read with    *)
(* the ownership, data the answer.                                          *)
Request == [key : CacheKeys, user : Users \cup {None}, begun : Row,
            pc : {"own", "get", "read", "set", "answer"},
            cod : (0 .. MaxChange) \cup {None}, data : Row \cup {None}]
Idle == [pc |-> "idle"]

(* Nothing of the COD transaction is on the public page. *)
Public(data) == [data EXCEPT !.cod = 0]

-----------------------------------------------------------------------------
(* Commands *)

Commit(c, changed) ==
    /\ command[c] = "idle"
    /\ row.status + row.fee + row.cod < MaxChange
    /\ row' = changed
    /\ UNCHANGED <<cache, request, shown>>

(* Lifecycle commands and online payments delete both keys afterwards. *)
ChangeStatus(c) ==
    /\ Commit(c, [row EXCEPT !.status = @ + 1])
    /\ command' = [command EXCEPT ![c] = "invalidate"]

ChangePayment(c) ==
    /\ Commit(c, [row EXCEPT !.fee = @ + 1])
    /\ command' = [command EXCEPT ![c] = "invalidate"]

(* Remittance, settlement and disputes of the fee, and every COD command,   *)
(* leave the cache alone.                                                   *)
ChangeFeeLedger(c) ==
    /\ Commit(c, [row EXCEPT !.fee = @ + 1])
    /\ UNCHANGED command

ChangeCod(c) ==
    /\ Commit(c, [row EXCEPT !.cod = @ + 1])
    /\ UNCHANGED command

(* The tracking key is left when its code cannot be read, both when Redis   *)
(* fails or the process has stopped.                                        *)
invalidateShipment(c, keys) ==
    /\ command[c] = "invalidate"
    /\ "tracking" \in keys => "summary" \in keys
    /\ ~Faulty => keys = CacheKeys
    /\ cache' = [k \in CacheKeys |-> IF k \in keys THEN None ELSE cache[k]]
    /\ command' = [command EXCEPT ![c] = "idle"]
    /\ UNCHANGED <<row, request, shown>>

Expire(k) ==
    /\ cache[k] # None
    /\ ~cache[k].lasting
    /\ cache' = [cache EXCEPT ![k] = None]
    /\ UNCHANGED <<row, command, request, shown>>

-----------------------------------------------------------------------------
(* Requests *)

Ask(r, key, user) ==
    /\ request[r].pc = "idle"
    /\ request' = [request EXCEPT ![r] =
         [key |-> key, user |-> user, begun |-> row, cod |-> None, data |-> None,
          pc |-> IF key = "summary" THEN "own" ELSE "get"]]
    /\ UNCHANGED <<row, cache, command, shown>>

Move(r, changed) ==
    /\ request' = [request EXCEPT ![r] = changed]
    /\ UNCHANGED <<row, command, shown>>

(* Anyone else gets SHIPMENT_NOT_FOUND; the COD status is read here. *)
CheckOwner(r) ==
    /\ request[r].pc = "own"
    /\ Move(r, IF request[r].user = Owner
               THEN [request[r] EXCEPT !.pc = "get", !.cod = row.cod]
               ELSE Idle)
    /\ UNCHANGED cache

(* An answer of getOwned carries the COD status read with the ownership. *)
WithCod(r, data) == IF request[r].key = "summary" THEN [data EXCEPT !.cod = request[r].cod] ELSE data

GetCached(r) ==
    /\ request[r].pc = "get"
    /\ cache[request[r].key] # None
    /\ Move(r, [request[r] EXCEPT !.pc = "answer", !.data = WithCod(r, cache[request[r].key].data)])
    /\ UNCHANGED cache

(* Also when Redis fails. *)
GetNothing(r) ==
    /\ request[r].pc = "get"
    /\ Move(r, [request[r] EXCEPT !.pc = "read"])
    /\ UNCHANGED cache

Read(r) ==
    /\ request[r].pc = "read"
    /\ Move(r, [request[r] EXCEPT !.pc = "set",
                  !.data = IF request[r].key = "summary" THEN WithCod(r, row) ELSE Public(row)])
    /\ UNCHANGED cache

SetLasting(r) ==  \* mutant: the entry has no time to live
    /\ request[r].pc = "set"
    /\ cache' = [cache EXCEPT ![request[r].key] = [data |-> request[r].data, lasting |-> TRUE]]
    /\ Move(r, [request[r] EXCEPT !.pc = "answer"])

Set(r) ==
    /\ request[r].pc = "set"
    /\ cache' = [cache EXCEPT ![request[r].key] = [data |-> request[r].data, lasting |-> FALSE]]
    /\ Move(r, [request[r] EXCEPT !.pc = "answer"])

SetFails(r) ==
    /\ request[r].pc = "set"
    /\ UNCHANGED cache
    /\ Move(r, [request[r] EXCEPT !.pc = "answer"])

(* The answer arrives; the owner's page shows it. *)
Answer(r) ==
    /\ request[r].pc = "answer"
    /\ request' = [request EXCEPT ![r] = Idle]
    /\ shown' = IF r = Poll THEN request[r].data ELSE shown
    /\ UNCHANGED <<row, cache, command>>

(* A request fails, at the latest when its answer is lost; the page keeps   *)
(* what it shows.                                                           *)
Lose(r) ==
    /\ request[r].pc = "answer"
    /\ Move(r, Idle)
    /\ UNCHANGED cache

-----------------------------------------------------------------------------
(* Specification *)

Init ==
    /\ row = NewShipment
    /\ cache = [k \in CacheKeys |-> None]
    /\ command = [c \in Commands |-> "idle"]
    /\ request = [r \in Slots |-> Idle]
    /\ shown = None

CommandStep(c) ==
    \/ ChangeStatus(c)
    \/ ChangePayment(c)
    \/ ChangeFeeLedger(c)
    \/ ChangeCod(c)
    \/ \E keys \in SUBSET CacheKeys : invalidateShipment(c, keys)

Serve(r) ==
    \/ CheckOwner(r)
    \/ GetCached(r)
    \/ GetNothing(r)
    \/ Read(r)
    \/ Set(r)
    \/ SetFails(r)
    \/ Answer(r)

AskPage == Ask(Poll, "summary", Owner)

Next ==
    \/ \E c \in Commands : CommandStep(c)
    \/ \E k \in CacheKeys : Expire(k)
    \/ AskPage
    \/ \E r \in Requests : Ask(r, "tracking", None) \/ \E u \in Users : Ask(r, "summary", u)
    \/ \E r \in Slots : Serve(r) \/ Lose(r)

Spec == Init /\ [][Next]_vars

(* The page asks every thirty seconds and is answered now and then; a       *)
(* request ends; Redis removes what has outlived its time.                  *)
Fairness ==
    /\ WF_vars(AskPage)
    /\ \A r \in Slots : WF_vars(Serve(r)) /\ SF_vars(Answer(r))
    /\ \A k \in CacheKeys : WF_vars(Expire(k))

FairSpec == Spec /\ Fairness

-----------------------------------------------------------------------------
(* Properties *)

(* Every variable keeps its type. *)
TypeOK ==
    /\ row \in Row
    /\ \A k \in CacheKeys : cache[k] \in Entry \cup {None}
    /\ command \in [Commands -> {"idle", "invalidate"}]
    /\ \A r \in Slots : request[r] # Idle => request[r] \in Request
    /\ shown \in Row \cup {None}

(* Whatever the cache holds, the private answer goes to the owner alone and *)
(* its COD status is never older than the request (getOwned).               *)
CodIsCurrent ==
    \A r \in Slots : request[r].pc = "answer" /\ request[r].key = "summary" =>
      request[r].user = Owner /\ request[r].data.cod >= request[r].begun.cod

(* A stale summary put into the cache after its invalidation is outlived:   *)
(* once the shipment stops changing, the owner's page comes to show it as   *)
(* it is and keeps doing so (getOwned, set with EX, refetchInterval).       *)
PageCatchesUp == <>[](shown = row)
=============================================================================
