----------------------------- MODULE MCCustomer -----------------------------
(***************************************************************************)
(* What a customer does in a browser, and what becomes of the customer's   *)
(* cash: BrowserTabs, AddressBook, Booking, ShipmentCache and CodCustody   *)
(* for TLC, as scenes chosen in the initial state. Three scenes are        *)
(* CodCustody, which this module extends, each with a part of its          *)
(* constants; the others are instances with constants and variables of     *)
(* their own, and the COD rows rest in them. Scenes share no row, so what  *)
(* holds in each holds of the run.                                         *)
(*                                                                         *)
(*   handover:  the cash of a parcel to the company, with two handovers    *)
(*   rejection: one handover, rejected in words that are edited between    *)
(*              two attempts                                               *)
(*   payout:    the cash on to the customer                                *)
(*                                                                         *)
(* The same model values name the tabs of one scene and the admins of      *)
(* another, so that one set of symmetries serves all; it leaves f1 to f4   *)
(* and None where they are.                                                *)
(***************************************************************************)
EXTENDS CodCustody, Integers, Sequences, TLC

CONSTANTS a1, a2, b1, b2, c1, c2, c3, e1, e2, f1, f2, f3, f4

VARIABLES scene,
          owner, live, stray, jar, holder, tab, out, late,
          book, tx, addressPage,
          configs, publishing, page, calls, shipments,
          row, cache, command, request, shown

tabVars == <<owner, live, stray, jar, holder, tab, out, late>>
bookVars == <<book, tx, addressPage>>
priceVars == <<configs, publishing, page, calls, shipments>>
cacheVars == <<row, cache, command, request, shown>>
sceneVars == <<scene, vars, tabVars, bookVars, priceVars, cacheVars>>

A == {a1, a2}
B == {b1, b2}
C == {c1, c2, c3}
E == {e1, e2}

(* Two tabs with Web Locks; one tab, without, that refreshes more often. *)
Locks == INSTANCE BrowserTabs WITH Tabs <- A, Users <- B, Tokens <- E, HasLocks <- TRUE
Single == INSTANCE BrowserTabs WITH Tabs <- {f1}, Users <- A, Tokens <- C, HasLocks <- FALSE

(* Nothing is saved while a password is changed or a request outlives its tab. *)
TabsUsed ==
    scene = "locks" =>
        \/ \A t \in A : tab[t].save = "idle"
        \/ stray = {} /\ \A t \in A : tab[t].form # "change"

(* One tab and its forms; the commands of two tabs. *)
OneTab == INSTANCE AddressBook WITH
    page <- addressPage, MaxId <- 3, Texts <- A, Tabs <- {f1}, Lossy <- FALSE
Races == INSTANCE AddressBook WITH
    page <- addressPage, MaxId <- 3, Texts <- {f1}, Tabs <- A, Lossy <- FALSE

(* Weights and rates are scaled down: three grams to the unit and ten points *)
(* to the whole keep every boundary.                                         *)
BookingForm(weight, cash, payer, pinned) ==
    [weight |-> weight, cod |-> cash, payer |-> payer, pinned |-> pinned]
OneForm == {BookingForm(3, 7, "SENDER", TRUE)}
SomeForms == {BookingForm(2, 0, "SENDER", TRUE), BookingForm(3, 7, "RECEIVER", TRUE),
              BookingForm(3, 7, "SENDER", FALSE)}
Weights == {BookingForm(w, 7, "SENDER", TRUE) : w \in {2, 3, 5, 6, 8}} \cup {BookingForm(3, 0, "SENDER", TRUE)}
OneList == {[base |-> 3, included |-> 2, perUnit |-> 5, points |-> 3]}
TwoLists == OneList \cup {[base |-> 4, included |-> 5, perUnit |-> 7, points |-> 10]}

(* A confirmation sent again while the price list changes. *)
Retry == INSTANCE Booking WITH
    Pages <- {f1}, Admins <- {f2}, Forms <- SomeForms, Lists <- OneList, Codes <- A,
    GramsPerUnit <- 3, PointsPerOne <- 10, MaxAttempts <- 2, MaxVersion <- 2, MaxCalls <- 2
(* Two pages that draw the same tracking codes. *)
Drawing == INSTANCE Booking WITH
    Pages <- A, Admins <- {}, Forms <- OneForm, Lists <- OneList, Codes <- B,
    GramsPerUnit <- 3, PointsPerOne <- 10, MaxAttempts <- 2, MaxVersion <- 1, MaxCalls <- 3
(* Weights at, just above and far above the included weight of two lists. *)
Prices == INSTANCE Booking WITH
    Pages <- {f1}, Admins <- {}, Forms <- Weights, Lists <- TwoLists, Codes <- {f2},
    GramsPerUnit <- 3, PointsPerOne <- 10, MaxAttempts <- 2, MaxVersion <- 1, MaxCalls <- 1
(* Two administrators publish at once. *)
Publish == INSTANCE Booking WITH
    Pages <- {f1}, Admins <- A, Forms <- OneForm, Lists <- TwoLists, Codes <- {f2},
    GramsPerUnit <- 3, PointsPerOne <- 10, MaxAttempts <- 2, MaxVersion <- 3, MaxCalls <- 1

(* One parcel, and the part of its COD rows, forms and commands that a       *)
(* scene uses.                                                               *)
OwnerOfAll == f1 :> f3
DueOfAll == f1 :> 2

AtMost(n, S) == Cardinality(S) <= n
Handed == {k \in Keys : rem[f1][k] # NoRem \/ \E q \in Forms : form[q].key = k}
Typed == (UNION {{form[q].text, form[q].sent, form[q].said} \cup form[q].late : q \in Forms}
          \cup UNION {{rem[f1][k].note, rem[f1][k].reason} : k \in Keys}) \ {None}
Acting == {form[q].act : q \in Forms} \ {None}
Asked == {form[q].amount : q \in Forms} \ {None}

CodUsed ==
    /\ scene = "handover" => /\ AtMost(1, Typed)
                             /\ Acting \subseteq {"submit", "confirm", "reject", "settle"}
    /\ scene = "rejection" => /\ AtMost(1, Handed) /\ Asked \subseteq {2}
                              /\ Acting \subseteq {"submit", "reject"}
    /\ scene = "payout" => Acting \subseteq {"settle", "create", "send", "receive", "dispute"}

(* The COD rows at rest: no parcel has been delivered. *)
Uncollected == Init /\ \A c \in Cods : cod[c].status = "NONE"

(* The owner's page and another user's request; Redis and processes fail. *)
Reads == INSTANCE ShipmentCache WITH
    Commands <- {f1}, Requests <- {f2}, Poll <- f3, Users <- {f1, f4}, Owner <- f1,
    Faulty <- TRUE, MaxChange <- 1

ASSUME Locks!LocksAssumption /\ Locks!NoneAssumption /\ Single!LocksAssumption
ASSUME OneTab!BookAssumption /\ Races!BookAssumption
ASSUME OneTab!NoneAssumption /\ Races!NoneAssumption
ASSUME Retry!BookingAssumption /\ Drawing!BookingAssumption
ASSUME Prices!BookingAssumption /\ Publish!BookingAssumption
ASSUME Retry!NoneAssumption /\ Drawing!NoneAssumption
ASSUME Prices!NoneAssumption /\ Publish!NoneAssumption
ASSUME OwnerAssumption /\ DueAssumption /\ NoneAssumption /\ KeysAssumption /\ ActAssumption
ASSUME Reads!CacheAssumption

NoTabs == /\ owner = None /\ live = None /\ stray = None /\ jar = None /\ holder = None
          /\ tab = None /\ out = None /\ late = None
NoBook == book = None /\ tx = None /\ addressPage = None
NoPrice == /\ configs = None /\ publishing = None /\ page = None /\ calls = None
           /\ shipments = None
NoCache == row = None /\ cache = None /\ command = None /\ request = None /\ shown = None

SceneInit ==
    \/ /\ scene \in {"handover", "rejection", "payout"} /\ Init
       /\ NoTabs /\ NoBook /\ NoPrice /\ NoCache
    \/ /\ \/ scene = "locks" /\ Locks!Init
          \/ scene = "single" /\ Single!Init
       /\ Uncollected /\ NoBook /\ NoPrice /\ NoCache
    \/ /\ \/ scene = "one tab" /\ OneTab!Init
          \/ scene = "races" /\ Races!Init
       /\ Uncollected /\ NoTabs /\ NoPrice /\ NoCache
    \/ /\ \/ scene = "retry" /\ Retry!Init
          \/ scene = "drawing" /\ Drawing!Init
          \/ scene = "prices" /\ Prices!Init
          \/ scene = "publish" /\ Publish!Init
       /\ Uncollected /\ NoTabs /\ NoBook /\ NoCache
    \/ /\ scene = "reads" /\ Reads!Init
       /\ Uncollected /\ NoTabs /\ NoBook /\ NoPrice

SceneNext ==
    /\ UNCHANGED scene
    /\ \/ /\ scene \in {"handover", "rejection", "payout"}
          /\ Next /\ CodUsed'
          /\ UNCHANGED <<tabVars, bookVars, priceVars, cacheVars>>
       \/ /\ \/ scene = "locks" /\ Locks!Next /\ TabsUsed'
             \/ scene = "single" /\ Single!Next
          /\ UNCHANGED <<vars, bookVars, priceVars, cacheVars>>
       \/ /\ \/ scene = "one tab" /\ OneTab!Next
             \/ scene = "races" /\ Races!CommandNext
          /\ UNCHANGED <<vars, tabVars, priceVars, cacheVars>>
       \/ /\ \/ scene = "retry" /\ Retry!Next
             \/ scene = "drawing" /\ Drawing!Next
             \/ scene = "prices" /\ Prices!Next
             \/ scene = "publish" /\ Publish!Next
          /\ UNCHANGED <<vars, tabVars, bookVars, cacheVars>>
       \/ /\ scene = "reads" /\ Reads!Next
          /\ UNCHANGED <<vars, tabVars, bookVars, priceVars>>

SceneSpec == SceneInit /\ [][SceneNext]_sceneVars

(* An exchange of the values of B goes with one of two of the values of C.  *)
Alike == Permutations(A) \cup Permutations(E)
         \cup {b1 :> b2 @@ b2 :> b1 @@ c1 :> c2 @@ c2 :> c1}

-----------------------------------------------------------------------------
(* Properties, as the modules state them *)

(* After a logout no cookie and no tab has a session that still works, tabs *)
(* at rest show the user whom the cookie would sign in unless a profile save*)
(* was answered after its user had left (updateUser), and a tab turns into  *)
(* a guest only when the cookie is over or a newer session about to reach it*)
(* (api.ts, auth-session.ts); the page of a shipment is shown to its owner  *)
(* alone, and never an older COD than it asked for (readThrough).           *)
TabsAgree ==
    /\ [](scene = "locks" => Locks!TypeOK /\ Locks!LogoutSticks /\ Locks!IdentityAgrees)
    /\ [](scene = "single" => Single!LogoutSticks)
    /\ [](scene = "reads" => Reads!TypeOK /\ Reads!CodIsCurrent)
    /\ [][/\ scene = "locks" => Locks!GuestRightly
          /\ scene = "single" => Single!GuestRightly]_sceneVars

(* However the commands of two tabs interleave, at most one address is the  *)
(* default; with one tab there always is one, and the place saved with an   *)
(* address was confirmed for its text (AddressesService).                   *)
OneDefault ==
    /\ scene = "one tab" => OneTab!OneDefault
    /\ scene = "races" => Races!OneDefault

(* A page makes one shipment, however often its confirmation is sent, at the*)
(* price its customer was shown or that of a newer list; the fees are exact;*)
(* one price list, the newest, is in force (PricingService).                *)
BookedAsConfirmed ==
    /\ scene = "retry" => Retry!BookedAsConfirmed
    /\ scene = "drawing" => Drawing!BookedAsConfirmed
    /\ scene = "prices" => Prices!BookedAsConfirmed
    /\ scene = "publish" => Publish!BookedAsConfirmed
=============================================================================
