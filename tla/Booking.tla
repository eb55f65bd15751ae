------------------------------- MODULE Booking -------------------------------
(***************************************************************************)
(* How a shipment gets its price. Administrators publish price lists       *)
(* (PricingService.createConfig), a customer's page asks for a quote and   *)
(* then confirms it (CreateShipmentPage), and the service prices the       *)
(* parcel again when it saves it (ShipmentsService.create). A page has one *)
(* request key for its life: a confirmation whose answer is lost is sent   *)
(* again under the same key, and the first one may still be running.       *)
(*                                                                         *)
(* A form is the weight and the cash to collect, which the price depends   *)
(* on, whether the pin of the destination is confirmed, and who pays the   *)
(* fee. The rest of it is neither priced nor compared.                     *)
(***************************************************************************)
EXTENDS Integers, FiniteSets

CONSTANTS
    Pages,        \* create pages that are open, each with its own request key
    Admins,       \* administrators publishing price lists
    Forms,        \* contents a page's form may have
    Lists,        \* rates an administrator may publish
    Codes,        \* tracking codes that may be drawn
    GramsPerUnit, \* 1000: grams in the unit extra weight is charged by
    PointsPerOne, \* 10000: basis points in the whole
    MaxAttempts,  \* draws of a tracking code before the service gives up
    MaxVersion,   \* bound: versions of the price list
    MaxCalls,     \* bound: confirmations sent
    None

VARIABLES
    configs,    \* the PricingConfig table
    publishing, \* the transaction of each administrator
    page,       \* what each page holds
    calls,      \* confirmations, in the order they were sent
    shipments   \* the Shipment table

vars == <<configs, publishing, page, calls, shipments>>

(* What the constants must satisfy. *)
BookingAssumption ==
    /\ GramsPerUnit \in Nat \ {0}
    /\ PointsPerOne \in Nat \ {0}
    /\ MaxAttempts \in Nat \ {0}
    /\ MaxVersion \in Nat \ {0}
    /\ MaxCalls \in Nat
    /\ Forms \subseteq [weight : Nat \ {0}, cod : Nat, pinned : BOOLEAN, payer : {"SENDER", "RECEIVER"}]
    /\ Lists \subseteq [base : Nat \ {0}, included : Nat \ {0}, perUnit : Nat, points : 0 .. PointsPerOne]

-----------------------------------------------------------------------------
(* State *)

Versions == 1 .. MaxVersion
Config == [version : Versions, rates : Lists, active : BOOLEAN]
Price == [version : Versions, weightFee : Nat, codFee : Nat, total : Nat]

(* What a quote is good for: everything but the payer. *)
quoteSignature(form) == [form EXCEPT !.payer = None]

(* asking is the form a quote was asked for, answer the price on its way    *)
(* back; data is the price shown; sent is the confirmation that is awaited. *)
Page == [form : Forms, asking : Forms \cup {None}, answer : Price \cup {None},
         data : Price \cup {None}, quoted : {quoteSignature(f) : f \in Forms} \cup {None},
         sent : (1 .. MaxCalls) \cup {None}, opened : Codes \cup {None}]

(* shown is the price the page showed when the customer confirmed.          *)
Call == [page : Pages, form : Forms, shown : Price, attempt : 0 .. MaxAttempts - 1,
         pc : {"begin", "price", "insert", "found", "done", "failed"},
         price : Price \cup {None}, code : Codes \cup {None}]

Shipment == [key : Pages, code : Codes, form : Forms, price : Price, shown : Price]

(* The transaction of an administrator: seen is the table it has read.      *)
Draft == [rates : Lists, seen : SUBSET Config]

(* What an absent value must satisfy. *)
NoneAssumption ==
    /\ None \notin Forms \cup Codes
    /\ None \notin Nat
    /\ None \notin Price
    /\ None \notin Draft

Ids == DOMAIN calls

-----------------------------------------------------------------------------
(* The price *)

Larger(a, b) == IF a > b THEN a ELSE b

CeilDiv(a, b) == (a + b - 1) \div b

(* Distance fee, surcharge and discount are zero: createConfig writes no    *)
(* others and the table allows no others.                                   *)
calculate(form, config) ==
    LET excess == Larger(0, form.weight - config.rates.included)
        weightFee == CeilDiv(excess, GramsPerUnit) * config.rates.perUnit
        codFee == CeilDiv(form.cod * config.rates.points, PointsPerOne)
    IN [version |-> config.version, weightFee |-> weightFee, codFee |-> codFee,
        total |-> config.rates.base + weightFee + codFee]

Active == {c \in configs : c.active}

(* findFirst among the active ones, the highest version first. *)
ActiveConfig == CHOOSE c \in Active : \A d \in Active : d.version <= c.version

LatestVersion(table) ==
    IF table = {} THEN 0
    ELSE CHOOSE v \in {c.version : c \in table} : \A c \in table : c.version <= v

-----------------------------------------------------------------------------
(* Publishing a price list: one serializable transaction *)

CreateConfig(a, rates) ==
    /\ publishing[a] = None
    /\ publishing' = [publishing EXCEPT ![a] = [rates |-> rates, seen |-> configs]]
    /\ UNCHANGED <<configs, page, calls, shipments>>

Published(a) ==
    {[c EXCEPT !.active = FALSE] : c \in publishing[a].seen}
      \cup {[version |-> LatestVersion(publishing[a].seen) + 1,
             rates |-> publishing[a].rates, active |-> TRUE]}

CommitConfig(a) ==
    /\ publishing[a] # None
    /\ publishing[a].seen = configs
    /\ LatestVersion(configs) < MaxVersion
    /\ configs' = Published(a)
    /\ publishing' = [publishing EXCEPT ![a] = None]
    /\ UNCHANGED <<page, calls, shipments>>

(* PRICING_CONFIG_CONFLICT, or the request is lost before it commits. *)
AbortConfig(a) ==
    /\ publishing[a] # None
    /\ publishing' = [publishing EXCEPT ![a] = None]
    /\ UNCHANGED <<configs, page, calls, shipments>>

-----------------------------------------------------------------------------
(* The create page *)

Edit(p, form) ==
    /\ page[p].opened = None
    /\ page[p].form # form
    /\ page' = [page EXCEPT ![p].form = form]
    /\ UNCHANGED <<configs, publishing, calls, shipments>>

(* The button is off while a quote or a confirmation is awaited, and the    *)
(* form must pass the schema, which asks for a confirmed pin.               *)
Calculate(p) ==
    /\ page[p].opened = None
    /\ page[p].asking = None
    /\ page[p].sent = None
    /\ page[p].form.pinned
    /\ page' = [page EXCEPT ![p].asking = page[p].form, ![p].data = None]
    /\ UNCHANGED <<configs, publishing, calls, shipments>>

(* The service reads the active list and answers. *)
Quote(p) ==
    /\ page[p].asking # None
    /\ page[p].answer = None
    /\ Active # {}
    /\ page' = [page EXCEPT ![p].answer = calculate(page[p].asking, ActiveConfig)]
    /\ UNCHANGED <<configs, publishing, calls, shipments>>

QuoteArrivesLate(p) ==  \* mutant: the quote is taken for the form as it is now
    /\ page[p].answer # None
    /\ page' = [page EXCEPT ![p].data = page[p].answer,
                            ![p].quoted = quoteSignature(page[p].form),
                            ![p].asking = None, ![p].answer = None]
    /\ UNCHANGED <<configs, publishing, calls, shipments>>

(* The quote is remembered with the form it was asked for. *)
QuoteArrives(p) ==
    /\ page[p].answer # None
    /\ page' = [page EXCEPT ![p].data = page[p].answer,
                            ![p].quoted = quoteSignature(page[p].asking),
                            ![p].asking = None, ![p].answer = None]
    /\ UNCHANGED <<configs, publishing, calls, shipments>>

(* No list is active, or the call is lost. *)
QuoteFails(p) ==
    /\ page[p].asking # None
    /\ page' = [page EXCEPT ![p].asking = None, ![p].answer = None]
    /\ UNCHANGED <<configs, publishing, calls, shipments>>

QuoteIsCurrent(p) ==
    /\ page[p].data # None
    /\ page[p].quoted = quoteSignature(page[p].form)

Submit(p) ==
    /\ page[p].opened = None
    /\ page[p].asking = None
    /\ page[p].sent = None
    /\ page[p].form.pinned
    /\ QuoteIsCurrent(p)
    /\ Cardinality(Ids) < MaxCalls
    /\ LET n == Cardinality(Ids) + 1
           call == [page |-> p, form |-> page[p].form, shown |-> page[p].data,
                    attempt |-> 0, pc |-> "begin", price |-> None, code |-> None]
       IN /\ calls' = [i \in Ids \cup {n} |-> IF i = n THEN call ELSE calls[i]]
          /\ page' = [page EXCEPT ![p].sent = n]
    /\ UNCHANGED <<configs, publishing, shipments>>

(* The page opens the shipment it is told. *)
CreateArrives(p) ==
    /\ page[p].sent # None
    /\ calls[page[p].sent].pc = "done"
    /\ page' = [page EXCEPT ![p].opened = calls[page[p].sent].code, ![p].sent = None]
    /\ UNCHANGED <<configs, publishing, calls, shipments>>

(* Refused, or the answer is lost, perhaps while the call still runs. *)
CreateFails(p) ==
    /\ page[p].sent # None
    /\ page' = [page EXCEPT ![p].sent = None]
    /\ UNCHANGED <<configs, publishing, calls, shipments>>

-----------------------------------------------------------------------------
(* Creating the shipment *)

WithKey(p) == {s \in shipments : s.key = p}

Step(i, changed) ==
    /\ calls' = [calls EXCEPT ![i] = changed]
    /\ UNCHANGED <<configs, publishing, page, shipments>>

(* The transaction begins by looking for the key. *)
FindExisting(i) ==
    /\ calls[i].pc = "begin"
    /\ WithKey(calls[i].page) # {}
    /\ \E s \in WithKey(calls[i].page) :
         Step(i, [calls[i] EXCEPT !.pc = "done", !.code = s.code])

FindNone(i) ==
    /\ calls[i].pc = "begin"
    /\ WithKey(calls[i].page) = {}
    /\ Step(i, [calls[i] EXCEPT !.pc = "price"])

(* The form is priced by the list that is active now. *)
PriceNow(i) ==
    /\ calls[i].pc = "price"
    /\ Active # {}
    /\ Step(i, [calls[i] EXCEPT !.pc = "insert", !.price = calculate(calls[i].form, ActiveConfig)])

(* The address or the price list is gone, or the database fails. *)
Refuse(i) ==
    /\ calls[i].pc \in {"begin", "price", "insert"}
    /\ Step(i, [calls[i] EXCEPT !.pc = "failed"])

Saved(i, code) ==
    [key |-> calls[i].page, code |-> code, form |-> calls[i].form,
     price |-> calls[i].price, shown |-> calls[i].shown]

Insert(i, code) ==
    /\ calls[i].pc = "insert"
    /\ WithKey(calls[i].page) = {}
    /\ code \notin {s.code : s \in shipments}
    /\ shipments' = shipments \cup {Saved(i, code)}
    /\ calls' = [calls EXCEPT ![i].pc = "done", ![i].code = code]
    /\ UNCHANGED <<configs, publishing, page>>

(* P2002: the key was taken meanwhile, or the code drawn is. *)
InsertConflicts(i, code) ==
    /\ calls[i].pc = "insert"
    /\ \E s \in shipments : s.key = calls[i].page \/ s.code = code
    /\ Step(i, [calls[i] EXCEPT !.pc = "found"])

(* After a conflict the key is looked for once more. *)
ReturnExisting(i) ==
    /\ calls[i].pc = "found"
    /\ \E s \in WithKey(calls[i].page) :
         Step(i, [calls[i] EXCEPT !.pc = "done", !.code = s.code])

(* Another code is drawn, in a transaction that starts over. *)
TryAgain(i) ==
    /\ calls[i].pc = "found"
    /\ WithKey(calls[i].page) = {}
    /\ Step(i, IF calls[i].attempt + 1 < MaxAttempts
               THEN [calls[i] EXCEPT !.pc = "begin", !.price = None, !.attempt = @ + 1]
               ELSE [calls[i] EXCEPT !.pc = "failed"])

-----------------------------------------------------------------------------
(* Specification *)

InitConfigs == {{}} \cup {{[version |-> 1, rates |-> l, active |-> TRUE]} : l \in Lists}

Init ==
    /\ configs \in InitConfigs
    /\ publishing = [a \in Admins |-> None]
    /\ page \in [Pages -> {[form |-> f, asking |-> None, answer |-> None, data |-> None,
                            quoted |-> None, sent |-> None, opened |-> None] : f \in Forms}]
    /\ calls = [i \in {} |-> None]
    /\ shipments = {}

Publishing == \E a \in Admins : CommitConfig(a) \/ AbortConfig(a) \/ \E l \in Lists : CreateConfig(a, l)

PageStep(p) ==
    \/ \E f \in Forms : Edit(p, f)
    \/ Calculate(p)
    \/ Quote(p)
    \/ QuoteArrives(p)
    \/ QuoteFails(p)
    \/ Submit(p)
    \/ CreateArrives(p)
    \/ CreateFails(p)

CallStep(i) ==
    \/ FindExisting(i)
    \/ FindNone(i)
    \/ PriceNow(i)
    \/ Refuse(i)
    \/ \E code \in Codes : Insert(i, code) \/ InsertConflicts(i, code)
    \/ ReturnExisting(i)
    \/ TryAgain(i)

Next == Publishing \/ (\E p \in Pages : PageStep(p)) \/ (\E i \in Ids : CallStep(i))

Spec == Init /\ [][Next]_vars

-----------------------------------------------------------------------------
(* Properties *)

(* Every variable keeps its type. *)
TypeOK ==
    /\ configs \subseteq Config
    /\ \A a \in Admins : publishing[a] # None =>
         /\ publishing[a].rates \in Lists
         /\ publishing[a].seen \subseteq Config
    /\ page \in [Pages -> Page]
    /\ Ids = 1 .. Cardinality(Ids)
    /\ \A i \in Ids : calls[i] \in Call
    /\ shipments \subseteq Shipment

(* However lists are published against each other, their versions are       *)
(* numbered without a gap and the newest is the one in force, alone         *)
(* (createConfig).                                                          *)
OneListInForce ==
    /\ {c.version : c \in configs} = 1 .. Cardinality(configs)
    /\ \A c \in configs : c.active <=> c.version = LatestVersion(configs)

(* A page's confirmations, sent again and running side by side, make one    *)
(* shipment, and each one that succeeds is answered with it; no two         *)
(* shipments share a tracking code (create, findByIdempotencyKey).          *)
OneShipmentPerPage ==
    /\ \A s, t \in shipments : s.key = t.key \/ s.code = t.code => s = t
    /\ \A i \in Ids : calls[i].pc = "done" =>
         \E s \in shipments : s.key = calls[i].page /\ s.code = calls[i].code

(* A shipment costs what its customer was shown on confirming, unless a     *)
(* newer price list has been published since; it is never priced by an      *)
(* older one (quoteSignature, create).                                      *)
PricedAsConfirmed ==
    \A s \in shipments :
      /\ s.price.version >= s.shown.version
      /\ s.price.version = s.shown.version => s.price = s.shown

(* The weight fee pays for every gram beyond the included weight and for    *)
(* less than one unit too many; the COD fee is the share of the cash        *)
(* rounded up to the next dong; what is stored is what the stored list      *)
(* version yields for the stored parcel (calculate).                        *)
FeeCoversParcel ==
    \A s \in shipments : \E c \in configs :
      /\ c.version = s.price.version
      /\ \E units \in 0 .. s.form.weight :
           /\ s.price.weightFee = units * c.rates.perUnit
           /\ units * GramsPerUnit >= s.form.weight - c.rates.included
           /\ units > 0 => (units - 1) * GramsPerUnit < s.form.weight - c.rates.included
      /\ s.price.codFee * PointsPerOne >= s.form.cod * c.rates.points
      /\ s.price.codFee > 0 => (s.price.codFee - 1) * PointsPerOne < s.form.cod * c.rates.points
      /\ s.price.total = c.rates.base + s.price.weightFee + s.price.codFee
(* A page makes one shipment, however often its confirmation is sent, at the*)
(* price its customer was shown or that of a newer list; the fees are exact;*)
(* one price list, the newest, is in force (PricingService).                *)
BookedAsConfirmed ==
    TypeOK /\ OneListInForce /\ OneShipmentPerPage /\ PricedAsConfirmed /\ FeeCoversParcel
=============================================================================
