# Verification of the logistics platform

TLA+ models of the backend in `src/backend` and of the pages in
`src/frontend` that command it: parcels that drivers pick up, move between
warehouses and deliver, and the money that follows them.  Every definition is
translated from the services under `src/backend/src/modules` and the features
under `src/frontend/src`; `PROJECT.json` maps each definition to its lines.

## The system

The backend is a NestJS application over PostgreSQL (Prisma).  It keeps no
business state in memory: every command is a READ COMMITTED transaction on
shared rows, and any number of commands run at once.  Redis holds caches, live
positions, job queues and counters; nothing spans PostgreSQL, Redis, the mail
server, the payment provider and the route provider.  The client is a React
application that shows copies of rows and sends commands decided on those
copies.  The hard behaviour is therefore what concurrent transactions do to
each other between a read and the write that depends on it, what a failure
between two stores leaves behind, and what a command does that was decided on an
old copy.

| part | state | operations | what makes it correct | module |
|---|---|---|---|---|
| pickup assignments | `DriverAssignment`, `Shipment`, `DriverProfile` | assign, reassign, accept, reject, pickup | one active assignment per parcel and driver, matching the parcel's status | `LastMile`, `DispatchDesk` |
| delivery and return | the same and `DeliveryAttempt`, `ShipmentProof`, `CODTransaction` | assign, start, complete, fail, redeliver, request return, start return | attempts numbered and closed once, cash recorded once | `LastMile`, `DispatchDesk` |
| assignment candidates | Redis positions and route metrics | list candidates | each driver has its own distance, nobody is unaccounted for | `DriverRanking` |
| driver profiles, accounts | `DriverProfile`, `User` | availability, profile update, capabilities, suspension | the profile tells the truth about the work | `LastMile`, `AuthSessions` |
| booking and pricing | `PricingConfig`, `Shipment` | publish, quote, create | a parcel costs what was confirmed, one parcel per confirmation | `Booking` |
| address book | `CustomerAddress` | create, update, remove, pin | one default address; the pin belongs to the text | `AddressBook` |
| warehouses, transfers | `Shipment`, `WarehouseTransfer`, `Warehouse`, `WarehouseStaffProfile` | check-in, route, transfer dispatch and receipt, ready for delivery | a parcel is in one place; one open transfer | `Warehouses`, `WarehouseDesk` |
| line haul | `LineHaulTrip`, `LineHaulVehicle`, manifest, route versions | create, schedule, prepare, dispatch, arrive, cancel, reroute | no double booking, capacity, no driver with two kinds of work | `LineHaul`, `TripDesk` |
| planning | none of its own | recommend, review, create | advice that create accepts, carried out once | `TripPlanning`, `PlanScore` |
| live tracking | Redis positions and deviation records, sockets | post, push, subscribe, fetch | no position after arrival, none to strangers | `LiveTracking` |
| shipping fees | `ShippingFeeTransaction`, `ShippingFeeDispute` | collect, cancel, remit, settle, dispute, resolve | a fee is paid once, in cash or online | `ShippingFee` |
| online payments | `ShippingFeePayment`, `ShippingFeePaymentEvent` | create, webhook | exactly one open payment per pending fee, no lost or contradictory outcome | `ShippingFee` |
| cash on delivery | `CODTransaction`, `CODRemittance`, `CODPayout` | remit, review, settle, payout, acknowledge | the money has one custodian and is paid out once | `CodCustody`, `CodLedger` |
| notifications | `NotificationDelivery` outbox, BullMQ jobs | enqueue, reconcile, process | nothing is lost in a crash, mails double only because of a fault | `NotificationOutbox` |
| authentication | `AuthSession`, `User`, `PasswordResetToken`, refresh cookie, tabs | login, refresh, logout, password change and reset | a revoked credential opens no session | `AuthSessions`, `BrowserTabs` |
| shipment cache | two Redis keys per shipment | read, fill, invalidate | private answers stay private, staleness ends | `ShipmentCache` |

Components interact through rows: a pickup writes assignment, driver, parcel
and fee in one transaction; a trip and an assignment exclude each other through
a lock on the driver; suspension and capability changes look at both; a
committed command invalidates the cache, writes its notifications in its own
transaction and pushes to sockets.  `PROJECT.json` lists every part, modelled or
not, and the hazards at the line where each bites.

## How the modules compose

`Warehouses` sees a trip only as the *carriage* of a transfer.  `LineHaul`
holds trips and manifests, instantiates `Warehouses` with the carriage computed
from them (`Hub == INSTANCE Warehouses WITH carriage <- ...`), runs its commands
unchanged, and has `Hub!Spec` as the property `NetworkImplemented`: trip
commands touch the network only as the network expects.  The pages in front of
these commands extend them: `WarehouseDesk` extends `Warehouses`; `TripPlanning`
and `TripDesk` extend `LineHaul`.  `CodCustody` implements `CodLedger`, an
abstract account of who holds the cash.  The other modules stand alone and meet
at rows that each of them names; `DispatchDesk` takes as single steps the commands
that `LastMile` has statement by statement.

## The runs

A run is an MC module with one cfg.  `MCLastMile` and `MCShippingFee` extend one
module each.  The other runs have *scenes*: a variable `scene`, chosen in the initial
state and never changed, says which of them a behaviour is in.  A scene is of one of
two kinds.  `MCLineHaul`, `MCWarehouseDesk`, `MCStaffPages`, `MCCustomer`,
`MCProviders` and `MCDispatch` extend the component whose theorems they check on an
instance (`LineHaul`, `WarehouseDesk`, `AuthSessions`, `CodCustody`, `NotificationOutbox`,
`DispatchDesk`): a scene of that component has its variables and constants, and a
predicate on the rows (`Used`, `AuthUsed`, `CodUsed`, `OutboxUsed`, `DeskUsed`) says
which part of the constants it keeps to.  Every other scene is an instance with constants and
variables of its own; it moves these under the fairness of its module, the variables
of the other scenes stay `None`, and the extended component rests.  Scenes share no row
and no process in the code, so a property that holds in each scene is all there is to
say of their union; what does share rows (a trip and its transfers, a page and the
commands behind it) is composed inside one module, never split over scenes.

| run | scenes | asks |
|---|---|---|
| `lastmile_history` | - | what concurrent commands leave behind in rows and records |
| `lastmile_workload` | - | whether a driver ever has two kinds of work, or work without the right to it |
| `lastmile_offline` | - | a disagreement (finding 1) |
| `shippingfee_cash` | - | whether a fee is paid once and every status has its evidence |
| `shippingfee_due` | - | a disagreement (finding 2) |
| `providers` | workers, recovery, payment | what happens when a service outside fails, repeats or is late |
| `warehouse_desk` | routing, sending, sorted again, weighing, moved | the place of a parcel, and the workspace page in front of it |
| `linehaul` | network, capacity, schedule, running | trips over the network, capacity, booking, schedules |
| `staff_pages` | sessions, passwords, advice, review, leaving, living, scheduling, score, rights, route | signing in; planning, the trip's page and pushes while it runs |
| `tracking` | map, summary | pages that must catch up by polling |
| `dispatch` | pickup, delivery, reasons, ends | dispatchers and drivers on old pages; the candidates they choose from |
| `customer` | locks, single, one tab, races, retry, drawing, prices, publish, handover, rejection, payout, reads | what a customer's browser, colleagues and lost answers can do |

**Finding 1** (`lastmile_offline`).  `DriversService.update` with `suspended: false`
sets the profile OFFLINE without requiring that it is suspended and without counting
the driver's assignments, so a BUSY driver goes offline in the middle of a delivery;
`setAvailability` refuses exactly that.  `DriverStatusTruthful` says nothing about
OFFLINE for this reason.

**Finding 2** (`shippingfee_due`).  `create` reads the shipment before it locks the
fee and does not read it again, while docs/CONSTITUTION.md (line 33) asks that creation
locks and revalidates payment, fee and shipment.  The run opens a payment for a
parcel that the driver has meanwhile rejected.  The money stays correct (`PaidOnce`,
`ObligationMet` hold); the fee is merely payable outside its point.

## LastMile: drivers and parcels

`LastMile.tla` models AssignmentsService, DeliveryService, DriversService,
the account status of UsersService, the parcel's steps through the warehouses,
and line-haul trips as far as their driver is concerned.

*State.* `ship`, `asg`, `attempt`, `proof`, `cod`, `driver`, `trip` are the
rows; `driver` joins the profile with the account's status, and an online flag
is a function of the status because a CHECK constraint says so.  `req` holds
the commands in flight.

*Actions.* A command that relies on several queries is a sequence of steps: one
`...Read` step for each query, which stores what it read in `req[r]`, and one
`Commit...` step that evaluates the WHERE clauses of the conditional updates
and the unique indexes on the rows of that moment.  The writes of a
transaction are one step because PostgreSQL holds their row locks until it
ends and publishes them together.  `Abort` is any rollback: a failed check, a
conflict, a timeout, a lost connection.  Commands on one versioned row, and
those that lock the driver before they look, are single steps.  A row and the
rows it includes are read together: `relationJoins` (schema.prisma, line 3)
makes an `include` one SQL query.  Some writes
have no condition at all in the code (`start`, `complete`, `fail` and `reassign`
update the assignment by id); the model keeps them unconditional.

*Left out.* GPS freshness and the city match of an assignment candidate (any
driver may satisfy them), addresses, prices, texts, tracking events and audit
rows (append-only, never read back by a command).  The shipping fee and the
transfer rows belong to modules of their own.

### Runs

| run | instance | checks |
|---|---|---|
| `lastmile_history` | one parcel with cash on delivery, two drivers, three assignments, two commands in flight | `TypeOK`, `AssignmentMatchesShipment`, `AttemptHistory`, `SnapshotFresh`, `HistoryKept`, `VersionDiscipline` |
| `lastmile_workload` | one driver: with one parcel, a trip, two warehouses and all the administrator's commands; and with two parcels that compete for the driver (`WorkloadBound`) | `TaskExclusion`, `WorkerStaysEligible`, `DriverStatusTruthful`, `WarehouseFixedWhileWorking` |
| `lastmile_offline` | one parcel, one driver | `NoWorkWhileOffline`, violated |

Two commands in flight show every pairwise race; three assignments allow a
pickup, a failed delivery and a second delivery, or two reassignments.
`MaxDriverVersion` bounds only the administrator's commands, which could
otherwise repeat forever; drivers and dispatchers are bounded by the number of
assignment keys.  Runs may stop (`CHECK_DEADLOCK FALSE`): a delivered parcel
with no keys left ends a behaviour.

### Theorems

`LastMileProofs.tla` proves, for any sets of parcels, drivers, assignments,
warehouses, trips and concurrent requests: `TypeCorrect`, `ReadsAreCurrent`,
`AssignmentsMatch`, `StatusTruthful`, `Exclusion`, `Eligibility`, and the two action
properties `Discipline` and `WarehouseFixed`; and what stays on record:
`AttemptsKept` (`AttemptHistory`) and `HistoryIsKept` (`HistoryKept`).
Assumptions: the ones named in `LastMile.tla` (finitely many assignment keys, NULL is
no value, cash parcels are parcels, capability sets are sets of capabilities).

The inductive invariant is `TypeOK` with the shape of rows and requests, the
freshness of what requests have read (`SnapshotFresh` and its parts), and the
properties themselves.  Freshness is what the argument turns on: a commit
compares one version number and then relies on everything the command read, so
the proof must know that each of those facts is covered by that version;
`VersionDiscipline` is the other half, no write escapes its version.

The records need an invariant of their own (`RecordsInv`): an attempt is under way or
has ended as its assignment is, and the attempt under way is the last of its parcel.
Only then may `start` number an attempt by counting the others, and `complete` and
`fail` write an attempt without a condition on it: what they meet has not ended.

## ShippingFee: the fee of a parcel

`ShippingFee.tla` models ShippingFeesService and ShippingFeePaymentsService,
with the steps of the parcel on which they depend and the external payment
provider.

*State.* `fee`, `dispute`, `pay` and `event` are the rows of the fee, its
disputes, its online payments and their stored webhooks; `parcel` is the
shipment, reduced to the stages the fee tells apart, with the driver who holds
it; `provider` is what the provider knows of a payment; `req` holds the
commands in flight.  An amount is null or the fee's immutable amount, because
every command refuses another one.

*Actions.* `collectAt` and `cancelPending` run inside the transactions of
`pickup`, `complete` and `cancel`, on a fee that was read with the assignment or
the shipment: a Read step decides, a Commit step evaluates the conditional
updates.  Creating an online payment is five steps, `CreateRead` (the shipment),
`OpenPayment` or `ResumePayment` (under the lock on the fee), `CheckPayment`,
`ProviderOpens` (the call, outside any transaction) and `RecordAnswer`; `Abort`
ends it after any of them, which also is the gateway's timeout.  A webhook is
one step, because it locks its payment first and its write to the fee is
conditional on PAYMENT_PENDING; webhooks come late, repeatedly and in any order,
and a provider in `Contradicting` reports both outcomes of one payment.  `remit`,
`settle` and `dispute` are single steps: their WHERE clauses, and for disputes a
unique index, repeat what they decided on.

### Runs

| run | instance | checks |
|---|---|---|
| `shippingfee_cash` | one parcel, two drivers, two payments, two events, two disputes, two requests | `FeeEvidence`, `ObligationMet`, `OnePayment`, `PaidOnce`, `DisputeRestores`, `OutcomeFinal` |
| `providers`, scene payment | two payments by a truthful provider, two requests, with fairness | `CapturedIsPaid` |
| `shippingfee_due` | one payment, one request | `OpenedWhenDue`, violated |

`MaxVersion` bounds the parcel's own steps: 5 reaches a delivery in progress after a
rejected or reassigned pickup, 7 a second delivery attempt.  Two payments are needed
for a failed one followed by another, two disputes for an administrator who resolves
what another already has.  `FeeSpec` in `MCShippingFee` keeps the run from
multiplying the long life of a parcel (two drivers, two disputes: `Cash`) with a
provider that contradicts itself (two webhooks of it, one driver at a time, five
steps of the parcel: `Online`); every behaviour of either kind is explored, and the
theorems below need no such bound.

*Fairness.* `FairSpec`, whose conjuncts the scene *payment* repeats, assumes weak
fairness of the webhooks only: a provider
repeats a webhook until the endpoint accepts it (the endpoint answers 4xx when
it refuses, and the event is then not stored).  No fairness is assumed of
customers, drivers or the backend's own requests, so `CapturedIsPaid` says that
no state of fee and payment refuses a truthful webhook for good.

*Observations.* Nothing ends a payment that the provider never decides: its fee
stays PAYMENT_PENDING, and neither cash collection nor cancellation is possible.
A retry of `pickup` or `complete` that finds its proof runs `collectAt` again and
is refused while the fee is disputed; it changes nothing.

### Theorems

`ShippingFeeProofs.tla` proves, for any sets of parcels, drivers, payments,
events, disputes and requests, `TypeCorrect`, `Evidence`, `PaymentsAgree`,
`PaysOnce`, `ObligationsMet` and the action properties `OutcomesFinal` and
`DisputesRestore`.  Assumptions: NULL is no value, contradicting payments are
payments, the bound is a number.

The invariant `IInv` joins the properties with the shape of rows, the agreement
of payments and events with an honest provider (`Truthful`), and `Decided`, what
a request in flight may rely on.  The last is the point of the argument: no
version covers the fee, so what a handler read of it may be wrong by the time it
commits.  It relies only on what cannot be undone (`StableStep`): payers are
fixed, and a fee that was paid, collected or disputed stays so.

## CodCustody: cash after the door

`CodCustody.tla` models CodService with the two COD screens: handover by the driver,
review, settlement, payout, acknowledgement or dispute by the customer.  Every
command locks the `CODTransaction` first and is one step; what is hard is between
screens and server: a form is filled from a list read earlier, its request or its
answer is lost, it is edited and sent again, and an abandoned copy arrives late.

`CodLedger.tla` is the abstract specification: cash passes from the driver to the
company as the answer to an offer, then to the customer, in order and once.
`LedgerImplemented` is its `Spec` under the mapping in `CodCustody`.

| run, scene | instance | checks |
|---|---|---|
| `customer`, handover | one COD, one driver, two admins, two handover keys, two open forms, amounts 1 and 2; submit, confirm, reject, settle | `CashAccounted`, `LedgerImplemented` |
| `customer`, rejection | two texts of a rejection that is edited and sent again | `CashAccounted` |
| `customer`, payout | the screens from settlement to acknowledgement | `CashAccounted`, `LedgerImplemented` |

`CashAccounted` joins `LostAnswersHeal` (a form sent again is told of its success),
`SuccessIsTrue` (a form told "saved" is right about who did what with which words),
`AuditMatches` (the audit log counts what the rows tell) and `PaidFromReceived`.
CODs share no row, so one shows every interaction; two forms are two users at
once or one user's abandoned copy and its repetition.

### Theorems

`CodCustodyProofs.tla` proves `TypeCorrect`, `CashIsAccounted` and
`LedgerIsImplemented` for any number of CODs, users, request keys, texts, amounts and
forms, from the assumptions named in `CodCustody.tla` (every COD has an owner and a
positive amount due, NULL is no value, finitely many request keys).  The invariant
says of each form that a command applied for it is recorded in the rows and the log,
where the same command would be recognised as a retry (`Told`): nobody else's command
takes such a record away, which is why a lost or late answer does no harm.  Beside it
stand the rows of a parcel by their status (`Staged`) and the counts of its log
(`Audited`).  The refinement is proved command by command: each maps to one step of
`CodLedger` on the COD it locks, or to a stutter when it was a retry.

## NotificationOutbox: notifications and mail

`NotificationOutbox.tla` models the outbox written with a command, the
reconciliation that claims due deliveries and enqueues BullMQ jobs, and the workers.
Faults: the process stops anywhere, Redis loses a job, a worker's job lock expires,
the mail server refuses or accepts and times out, a database or Redis call fails.

| run, scene | instance | checks |
|---|---|---|
| `providers`, workers | one notification on two channels, two worker slots, one fault | `MailsAreTrue` |
| `providers`, recovery | one slot, a batch of one, two attempts, two faults | `MailsAreTrue`, `OutboxDelivers` |

`MailsAreTrue` joins `NoGratuitousMail`, `CompleteIsTrue` and `DoneStaysDone`;
`OutboxDelivers` joins `TypeOK` and `EventuallyDelivered`.

*Fairness.* The reconciliation timer fires, times pass, the process is restarted, a
worker that runs goes on, BullMQ recovers stalled jobs, and a queued job is picked
now and then (strong fairness, because faults may take it away again).

*Observation.* Mail is at least once: a lock lost before the mail claim, or a mail
server that accepts and times out, doubles a mail; `NoGratuitousMail` counts one
extra mail for each fault and none without.

### Theorems

`NotificationOutboxProofs.tla` proves `MailsHold`: `MailsAreTrue` for any notifications,
slots (finitely many), batch, number of attempts and number of faults.  That a fault
doubles at most one mail is a counting argument.  A slot that works on a mail without
holding its job has lost it by a fault, and until it gives up or sends, that fault has
not been spent (`Exposed`).  The slot that holds the job is the only one; once it has
sent, the mail is recorded or a fault has come in between (`Settled`).  The invariant
bounds mails sent plus slots exposed by faults, plus one when settled.  A second count
bounds mails by the attempts of the row, since no two slots send on the same claim
(`ClaimsApart`), and `SlotOK` says what a slot may rely on at each of its steps.
`TypeOK` is left to TLC: that the list of due deliveries is a sequence again after
`SelectSeq` is an induction over data.

## AuthSessions: credentials

`AuthSessions.tla` models AuthService, UsersService.setStatus and the access-token
guard for one account (accounts share no row): register, login, refresh, logout,
forgotten password, reset, change, suspension.  Login, refresh and change read and
verify before they lock the user; a bulk revocation is an UPDATE that does not see
rows inserted after it began.

| run, scene | instance | checks |
|---|---|---|
| `staff_pages`, sessions | three sessions, one reset token, two calls, two passwords, one change of the token version | `CredentialsEnd` |
| `staff_pages`, passwords | two sessions, one reset token, two calls, two passwords, two changes | `CredentialsEnd` |

`CredentialsEnd` joins `NoSessionOutlivesPassword`, `ExchangedOnce`, `ResetOnce` and
`SuspensionEndsAccess`.

*Observations.* A session from before a suspension can be refreshed again after the
account is restored.  Two concurrent forgotten-password requests may leave two live
reset tokens, each still of one use.  `resetPassword` does not ask for the account's
status.

### Theorems

`AccountProofs.tla` proves `TypeCorrect` and `CredentialsHold` (`CredentialsEnd`)
for any number of sessions, reset tokens, requests in flight and passwords, and any
bound on the token version, from `VersionAssumption` (the bound is a number) and
`NoneAssumption` (NULL is no session, token, request or password).

The invariant turns on the row lock of the user.  A request that has passed its lock
step holds the lock (`Entry`); everybody else's knowledge may be old, but does not act
before it has been compared again.  The bulk revocation is the delicate step: its
snapshot is taken after the lock, and as long as the lock is held nobody opens a
session, so at the commit every live session is still in the snapshot (`Live \subseteq
row.scan`), although the UPDATE would not see one inserted in between.  A live session
therefore carries the present password hash, and an access token whose version is the
user's was signed after the last suspension (`SessionOK`).  For `ExchangedOnce` the
invariant adds that a session that was exchanged is not live (`ParentsApart`), and for
`ResetOnce` that a token whose request is past its lock step has set no password yet.

## BrowserTabs: the browser's side of a session

`BrowserTabs.tla` models `services/api.ts`, `auth-session.ts` and AuthProvider: tabs
share the refresh cookie and tell each other of a new session over a
BroadcastChannel; refresh and logout take a Web Lock where the browser has them.
A session is the token pair and the user shown with it.  Refresh and login bring both; the
answer of a profile save replaces the user alone (`updateUser`: `SaveAnswered`).  A save
refused with 401 is repeated once with the session the tab has by then (`RepeatSave`).
One person uses the browser: no login while a login or logout is under way, no logout
during a login, one save at a time and only when earlier broadcasts have arrived.

| run, scene | instance | checks |
|---|---|---|
| `customer`, locks | two tabs, two users, two refresh tokens, the profile page (`TabsUsed`: nothing is saved while a password is changed or a request outlives its tab) | `TabsAgree` |
| `customer`, single | one tab without Web Locks, two users, three tokens, the profile page | `TabsAgree` |

`TabsAgree` joins `LogoutSticks`, `IdentityAgrees` and `GuestRightly`, of which the last
two need the locks or a single tab, and `CodIsCurrent` of `ShipmentCache`.
`IdentityAgrees` compares both parts of every tab's session, its token and the user it
shows, with the cookie, unless `late`: a profile save was answered after its user had left.

*What `late` leaves out.* `updateUser` takes the session of the moment, puts in the user
of an answer that may be older, and broadcasts the result; it compares no revision, and
clearing the query cache does not stop the `onSuccess` of a pending save.  So a save that
is answered after a logout and the login of another user shows the first user on the
second user's tokens, in every tab, until the next refresh or reload.  A save answered
in a tab that has yet to hear of a logout or a login elsewhere sends its old session to the other
tabs; it no longer works on the server.  A tab without a session ignores the answer.
Without the exception TLC refutes `IdentityAgrees`; `LogoutSticks` and `GuestRightly` hold
without one.

*Observations.* Without Web Locks a refresh answered after another tab's logout puts a
working cookie back, although a comment in `api.ts` excludes it; no scene has two tabs
without locks.  When the logout after a password change fails, the tab keeps its
session, although a comment says that logging out locally still clears it; so it does
when the answer of the change itself is lost (`ChangeLost`).

A lost refresh answer consumes the cookie and signs the user out.  A command repeated
after a 401 uses whatever session the tab has by then: a profile typed by one user is
then saved for the next.

## Warehouses: parcels in the network

`Warehouses.tla` models WarehousesService, the transfer lifecycle and the
transfer-flow policy: check-in, routing, transfers, receipt, readiness for
delivery, and the administration of warehouses and staff.

*State.* `site`, `staff`, `parcel`, `transfer` are rows; `carriage` is the
status of the trip that holds a transfer; `era` is the cutover date
LINE_HAUL_ENFORCEMENT_FROM, not set, ahead or passed; `req` the commands in flight.

*Actions.* The right to act in a warehouse is read outside the transaction that
does the work, so a command is a Begin and a commit step.  `routeDestination`
and `createTransfer` lock the shipment, `dispatchTransfer` and `receiveTransfer` the
transfer; each commit is one step.

| run, scene | instance | checks |
|---|---|---|
| `warehouse_desk`, routing | one parcel of two weights, one transfer, two warehouses, one clerk and the office, two commands in flight | `OneStory` |

`OneStory` joins `TypeOK`, `ParcelPlace`, `CarriageAgrees`, `NeverStranded` and
`OneListEach` in every state and `WeightKept` in every step.  `MaxVersion` = 4 bounds the parcel's
version, which only routing could otherwise raise forever; the scene *sending* and the
run `linehaul` have two transfers, and `linehaul` a map point (which only trips read).

*Observations.* The inbound queue shows at most 50 picked-up parcels.  No
command sets DAMAGED or LOST.  No command cancels a pending transfer: one whose
destination is deactivated waits until it is active again.

### Theorems

`WarehousesProofs.tla` proves `TypeCorrect`, `PlaceHolds`, `CarriageHolds`,
`NoneStranded`, `OneList`, `WeightHolds`, `TransfersKeepTheirWay` and, together, `NetworkTellsOneStory`
(`OneStory`) for any sets of
warehouses, parcels, transfers, staff, weights and commands, from `SitesAssumption`
(NULL is neither a warehouse nor a parcel, the office is no member of staff) and
`WeightsAssumption` (verified weights are positive).

`ParcelPlace` is not inductive.  The invariant says where the parcel of each transfer
is (`TransferShape`), what the trip of a transfer says about it (`CarriageShape`), and
what each stage of a parcel means (`ParcelShape`).  Of the commands in flight it says
that a row read before the transaction is the present row as long as its version is the
one that was read (`RequestShape`), which is what the conditional updates of the
check-in and of the readiness for delivery compare.  `Elsewhere`, a lemma about the
parcels and transfers that a step does not touch, carries every commit.

## WarehouseDesk: the workspace page

`WarehouseDesk.tla` puts the warehouse workspace page in front of `Warehouses`.
A dialog keeps the row it was opened on; its confirmation may be refused, may
lose its answer, may be repeated while an earlier call is still under way, and
colleagues, closing warehouses, trips and a clerk who is moved to another
warehouse come between (`Others`).  Who the clerk is (a member of staff, or the
office) is a variable that never changes.

Each command is one mutation of the page: `wait` are the calls whose answer it awaits,
`loose` those of the check-ins before the last opening of their dialog, which resets the mutation.
Only the transfer dialog stays until its call has answered (`Close`); check-in, sorting,
dispatch and receive dialogs may be closed, and others opened, over a call that goes on.
Its success closes the dialog of its command, whatever row that shows by then
(`OnSuccess`).  Two dialogs open at once, by a scanned code that is answered while another
dialog is open, are not modelled; a check-in dialog may be replaced by one.

| run, scene | instance | checks |
|---|---|---|
| `warehouse_desk`, sending | two transfers of one parcel, two calls | `DeskTellsTruth` |
| `warehouse_desk`, sorted again | three warehouses, so that a parcel can be sorted to another destination | `TransferAsReviewed`, `DeskTellsTruth` |
| `warehouse_desk`, weighing | two weights, two calls | `DeskTellsTruth` (`WeightAsConfirmed`) |
| `warehouse_desk`, moved | a clerk, staff, sites and trips that change, one warehouse at a time closed | `DeskTellsTruth` (`OffersAccepted`) |

The scenes are parts of one instance (`Used`): each leaves some of the warehouses, keys,
calls, weights, versions and dialogs (`Dialogs`) alone, and the changes of sites, staff
and trips belong to *routing* and *moved*.  `OneStory` is checked in all of them.

*Observations.* The sort dialog is last-writer-wins: `routeDestination` is not
conditional on what the screen showed.  A check-in, sorting, dispatch or receive dialog
that was opened after another of its kind was closed over a pending call is closed by the
late success of that call, before it was confirmed, and what was typed in it is lost.
The message names only the parcel.  After two check-ins of one parcel, the second dialog
with a corrected weight, it therefore reads like the success of the correction, while the weight
on record is the first.  `DeskTellsTruth` says what does hold: what a message
reports of a parcel or transfer is done, and the weight recorded is that of the
confirmation the answer belongs to, which need not be that of the dialog it closes.

### Theorems

`WarehousesProofs.tla` also proves, under the same two assumptions and for any number of
calls, keys and clerks: `PageIsNetwork`, that the page implements the network (every step
of `DeskSpec` is a step of `Warehouses` or leaves its rows alone), `SentAsReviewed`
(`TransferAsReviewed`) and `PageTellsTruth` (`DeskTellsTruth`).

Neither property is inductive.  That what was reported stays true rests on an action
property of the network, `NothingTakenBack`: no command of anyone takes a check-in, a
destination, a departure, an arrival or the readiness for delivery back.  The invariant of
the page, `PageInv`, adds to it what a call is about (`Addressed`), that the command at
work on the server is the one that was sent (`Begun`), that the key of a transfer dialog
names no transfer until it is first confirmed, and that what is being looked up again
after a lost answer had been confirmed (`DialogShape`).  The network's own invariant stands
beside it.

## LineHaul: trips and vehicles

`LineHaul.tla` models LineHaulTripsService, LineHaulVehiclesService, the policy
and the capacity rules.

*State.* `vehicle`, `driver`, `trip` and `manifest` beside the rows of the
network; `task` the trip and vehicle commands in flight.

*Actions.* Commands lock the trip, then driver, vehicle and transfers, so most
are one step.  Those that decide on something they do not hold are several:
`assignTransfer` (the capacity of a vehicle it does not lock), `updateCapacity`
(the trips of the vehicle, read before they are locked), `prepare` and
`recalculateRoute` (a route provider is asked before their transaction) and
`schedule` (a version a screen showed).

| scene of `linehaul` | instance | checks |
|---|---|---|
| network | one trip, one parcel, two trip commands and a warehouse command in flight, a point that changes | `NetworkImplemented`, `NothingOverwritten` (`RouteFollows`) |
| capacity | one trip, two parcels of weights 1 and 2, capacities 2 and 3 that change | `ManifestFits`, `NoDoubleBooking` (`OneDuty`) |
| schedule | two trips, one vehicle, two drivers, three windows of which one overlaps the others | `NoDoubleBooking` (`WindowsApart`, `BoardTellsTruth`), `NothingOverwritten` (`ScheduleSeen`) |
| running | two trips of one vehicle and one driver, each with its transfer | `NoDoubleBooking` (`VehicleInUse`) |

`NoDoubleBooking` joins `WindowsApart`, `VehicleInUse`, `OneDuty` and `BoardTellsTruth`.
Each scene leaves out what its question does not touch (*schedule* has no
parcels); together they fire every command.  Every scene begins with `Init`: *capacity*
and *running* first take their parcels in and make a transfer for each (`Loading`), and
their trips begin when all of these wait (`Waiting`).  `MaxTripVersion` bounds repeated
scheduling.

*Refinement.* `NetworkImplemented` is `Hub!Spec` with the carriage read off
manifests and trip statuses: every trip command is one trip step of
`Warehouses` or none.

*Observations.* A driver with two trips whose windows do not overlap may be
dispatched on both when the vehicles differ.  A retry of `create` after manifest
or schedule changed is answered IDEMPOTENCY_KEY_REUSED.  `prepare` may commit READY
without a route when the manifest was empty when it asked for one.  Messages say
"Return the trip from READY", but only cancelling leaves READY.

### Theorems

`LineHaulProofs.tla` proves, for any sets of warehouses, parcels, transfers, trips,
vehicles, drivers, windows and commands in flight: `TypeCorrect`, `ManifestsFit`,
`BookedOnce` (the whole of `NoDoubleBooking`), the action property
`NothingIsOverwritten`, and the refinement `TripsImplementCarriage`
(`NetworkImplemented`) with `NetworkHolds`, which brings what is proved of the network
alone (`WarehousesProofs`) to the network with trips in it.  Assumptions: those of
`Warehouses.tla`, windows that end after they begin, capacities that are positive
integers, a finite set of transfers, and NULL as no value.

The invariant has three parts beside the types:

- *The network.* With `carriage` read off manifests and trip statuses (`Riding`), every
  trip command is one trip step of `Warehouses` or leaves the network alone.  So the
  network's invariant carries over, and the trips rely on it in turn: a transfer on the
  manifest of a trip that has not left still waits where the trip begins.
- *The trips* (`TripsInv`).  What the status of a trip says of its vehicle, its driver
  and its manifest; a transfer rides on one trip; a vehicle in use is driven by one;
  active trips that share a driver or a vehicle have windows apart; a manifest weighs
  what its vehicle may carry.
- *The commands in flight* (`TasksInv`).  `assignTransfer` holds its trip and its transfer
  and reads the capacity of a vehicle that it does not hold; `updateCapacity` finds the
  active trips first and locks them later.  The capacity that `assignTransfer` read
  stays the vehicle's, because `updateCapacity` cannot have a lock on that trip and
  starts over when the trips it finds are not those it locked.  A schedule command
  knows the window of the version that its screen shows, as long as that is the trip's.

The first part of `LineHaulProofs.tla` has the lemmas about the weight of a manifest, a
fold over a finite set.  The induction scheme of the library takes a predicate, which the provers cannot
instantiate; here the sets on which a claim fails form a set, and a nonempty set of
subsets of a finite set has a minimal member (`Minimal`), from which one transfer is
taken away.

## TripPlanning and PlanScore: planning a trip

`TripPlanning.tla` extends `LineHaul` with the planning queries and the page that
reviews a recommendation and sends `createLineHaulTrip`.  The three resource
queries are one read, the conflicts, read after the call to the route provider,
a later one; answers may be lost and confirmations repeated.  Which of the free
combinations make the list is `PlanScore.tla`'s matter: its actions are the loops
of `scoreLineHaulPlanning`, with their skips, sorting and cut; percentages that are
doubles in the code are exact.

| scene of `staff_pages` | instance | checks |
|---|---|---|
| score | fleets of up to two vehicles, loads, crews, bookings and routes of the MC module, lists cut at 1 and 3 | `BestOfAll` (with `NothingLeftBehind`, `WindowCoversRoute`, `ScoreOutOf100`) |
| advice | two weights, two drivers, one vehicle, two windows that overlap, a fleet at work | `PagesTellTruth` (`AdviceAccepted`) |
| review | two trips, two calls of the page | `PagesTellTruth` (`PlanFitsForm`, `PlanCarriedOutOnce`) |

*Observation.* docs/DEMO.md asks that a retry reuse its clientRequestId;
`createLineHaulTrip` draws a new one for every call, so that a create without a
recommendation, confirmed again after a lost answer, makes a second trip when driver
and vehicle are free for it.

## TripDesk: the trip's page

`TripDesk.tla` extends `LineHaul` with the detail page of one trip: a copy that
is fetched, written by the answers of commands and polled only while the trip is
on the road; dialogs that a copy offers and that are confirmed later; calls
answered late, repeated or never.  The page belongs to an administrator.

| scene of `staff_pages` | instance | checks |
|---|---|---|
| leaving | two parcels, two calls, colleagues who remove, prepare, unschedule, cancel | `PagesTellTruth` (`DispatchAsReviewed`, `AnswersTellTruth`) |
| living | the commands of a whole life of the trip, a map point, colleagues who assign, remove, prepare, arrive | `PagesTellTruth` (`AnswersTellTruth`) |
| scheduling | two windows, two calls, colleagues who schedule | `PagesTellTruth` (`AnswersTellTruth`) |

*Observation.* A fetch read while the trip was READY and answered after the dispatch
puts READY back over IN_TRANSIT; the page then stops polling a trip that runs, until it
is focused or opened again.

*Answers.* Every command but four answers with the row it read in its transaction.
`prepare`, `dispatch`, `arrive` and `recalculateRoute` read the trip again after theirs
(`ReadBack`), so colleagues may come between.  `AnswersTellTruth` says what the page can
rely on: the transaction left the trip as the command means it (`Meant`), and the answer is
that trip or a newer version of it, in which a departure or an arrival still stands.  A
preparation reported as done may show a cancelled trip, a reroute an arrived one
(`Overtaken`); both are reached in the runs.  The P2002 path of `assignTransfer` reads after
its transaction too; the locks of trip and transfer leave it nothing to catch.

*Observation.* Commands other than schedules carry no version, so the count in the
prepare dialog may differ from what is locked; the trip stays right.  The assign
calls draw a new clientRequestId each time; the rule of one active assignment per
transfer prevents a double.

## LiveTracking: positions on the map

`LiveTracking.tla` models the phone's publisher loop, LocationsService, the
deviation verdict, the rooms of the gateway and the map page with its 20-second
fetch.  Time is a counter, a position is the time it was captured.

| run, scene | instance | checks |
|---|---|---|
| `tracking`, map | a page, two clock ticks with TTL 1 | `ArrivalReachesAll` (with `MarkerGoneAfterArrival`, `EndedStaysEnded`) |
| `staff_pages`, rights | a watcher whose session and scope end | `PushesEarned` (`NoLeak`) |
| `staff_pages`, route | two GPS calls, two route versions, two samples for a verdict | `PushesEarned` (`DeviationEarned`) |

*Fairness.* The page fetches on its interval and a fetch is answered now and
then (strong fairness: reconnection backs off and retries); the phone notices
that its trip is over at its next poll.  No push is assumed to arrive.

*Assumptions.* A GPS call ends within Prisma's transaction time-out; the phone's
poll is read and applied in one step.  A fetch under way may overwrite a newer pushed
position; the page promises no order.  Rooms of shipments and of operations are
managed by the same code and are not repeated.

## AddressBook: saved addresses

`AddressBook.tla` has AddressesService statement by statement at read committed,
with the row locks and the partial unique index on the default, and the page with
its form and map pin.  `RollBack` stands for refusals, index violations, deadlocks
and lost connections.  A text stands for its fingerprint class; a pin is named by the text
it was confirmed for.

| scene of `customer` | instance | checks |
|---|---|---|
| one tab | one tab with its form, three addresses, two texts | `OneDefault` with `HasDefault` and `PinFitsAddress` |
| races | the commands of two tabs, three addresses | `OneDefault` (`AtMostOneDefault` in every state) |

*Observations.* Removing the default address while another tab adds one leaves a book
without a default: neither transaction sees the other's row.  A form opened before a
pin was saved elsewhere omits the coordinates, and the update keeps the other text's
pin.  Both need a second tab (or a lost answer), which is why *one tab* has
`Lossy = FALSE`.  An edit form opened before another tab changed the default
sends its old `isDefault` again.

### Theorems

`AccountProofs.tla` instantiates the module (`Book`) and proves `AddressesHold`
(`OneDefault`) for any number of addresses, texts and tabs, from `BookAssumption` and
`NoneAssumption`.  It rests on three theorems:

- `DefaultIsOne` (`AtMostOneDefault`), also for commands from pages that may show
  anything (`CommandNext`).  The index speaks only of the moment of a write, so the
  invariant (`OneInv`) says what lasts until the commit: two running transactions hold
  no row in common, and one that holds a default row is the only one to hold one and
  sees no other default.  An unset that found the old default before another command
  changed it writes only rows that still are defaults, and adds none.
- `DefaultIsKept` (`HasDefault`) with one tab.  Between the removal of the default and
  the promotion of another the transaction sees none; `BookKept` says of each step what
  the command has still to write, so that what it commits has one again.
- `PinsFit` (`PinFitsAddress`) with one tab that hears every answer.  `Pinned` says that
  the list on the page is the table, that the pin in the form goes with its fingerprint,
  and that a form may leave out its pin only where the saved row has none.

With two tabs the last two are false, as the observations above say; the assumption is
theirs, not one the code makes.

## Booking: prices and new shipments

`Booking.tla` models PricingService.createConfig and calculate,
ShipmentsService.create and the create page with its quote, its edits and its one
clientRequestId.  A serializable transaction is one that commits only if the table
is as it read it.

Every scene checks the whole of `BookedAsConfirmed`; each is built for one part of it.

| scene of `customer` | instance | built for |
|---|---|---|
| retry | one page, two confirmations, two list versions, an administrator | `PricedAsConfirmed` |
| drawing | two pages, three confirmations, two tracking codes of two draws | `OneShipmentPerPage` |
| prices | weights around every step of two lists | `FeeCoversParcel` |
| publish | two administrators, three versions | `OneListInForce` |

Fees are scaled (3 grams per unit, 10 points per whole) so that every rounding
boundary occurs; at the DTO limits a total stays below 2.01e9 < 2^31 and the code's
doubles are exact.

*Observations.* A form edited after a lost answer and sent under the same
clientRequestId gets the old shipment back: unlike line haul, no payload is compared.
The pricing page publishes from a copy without a version, and a repeated publish
makes another version.

### Theorems

`ShippingFeeProofs.tla` instantiates the module (`Order`) and proves `BookingHolds`
(`BookedAsConfirmed`) for any forms, lists, pages, administrators, tracking codes and
confirmations, and with the units unscaled, from `BookingAssumption` (units and bounds
are positive, amounts are numbers, a share is at most the whole) and `NoneAssumption`.

The invariant (`PriceInv`) starts from the table: versions are numbered without a gap,
the newest alone is active, and publishing leaves the rates of old versions as they are
(`TableInv`, from the serializable transaction).  Every price anywhere, in a quote on
its way, on a page, in a confirmation or in a row, is what some version yields for the
form it belongs to (`Priced`).  So two prices of one form by one version are equal
(`OnePrice`), whoever computed them; a quote remembered with the form it was asked for
is good for every form of that signature (`SignaturePrices`); and what the service
reads after the confirmation is no older than what the page read before it.  One
shipment per page follows from the unique key and the unique code alone, whatever calls
interleave.  Rounding is arithmetic (`CeilDivIs`, `FeeCovers`): integer division rounds
up by less than one unit, for all weights and amounts and not only at the boundaries
that the runs visit.

## ShipmentCache: what people are shown

`ShipmentCache.tla` models the cached reads (`getOwned`, `publicTracking`), the
deletion that follows a commit, and the owner's page with its 30-second poll.
The shipment is three counters: status with timeline, fee, COD.

| run, scene | instance | checks |
|---|---|---|
| `customer`, reads | a command, the owner's and another user's requests, the poll, Redis failures, one change | `TabsAgree` (`CodIsCurrent`) |
| `tracking`, summary | the owner's page, a command, a request, failures, one change | `PageCatchesUp` |

*Fairness.* The page polls; requests are served; a request is answered now and then
(strong fairness); Redis expires keys that have a time to live.

*Observations.* A reader slow between its database read and its cache write puts the old
summary back after the command deleted it, and later requests are served it until it
expires; an e2e test (sequential, so it passes) asserts the opposite.  Remittance, settlement and
disputes of the fee do not invalidate: the summary stays stale until it expires.

### Theorem

`CodCustodyProofs.tla` instantiates the module (`Reads`) and proves `CodIsShown`
(`TypeOK` and `CodIsCurrent`) for any number of commands, requests, users and changes,
from `CacheAssumption`, with every failure of Redis allowed.  Nothing is assumed of the
age of a cached entry: a private answer takes its COD status from the row read with the
ownership, which a request does after it came (`Asked`), and COD only moves forward.

## DriverRanking: assignment candidates

`DriverRanking.tla` models AssignmentCandidatesService.listForTarget and
RouteMetricsService: eligibility and exclusion counts, the sort by air, concurrent
workers over a cache with rounded keys and a limited provider, the final sort.
Positions are a free choice at the read (a failing Redis has none); the fleet is fixed
during a listing; other listings act through the cache.

| scene of `dispatch` | instance | checks |
|---|---|---|
| reasons | three drivers, two provider calls, two workers | `RankedByOwnRoute` (`OwnMetric`, `CallsSpentOnNearest`, `KnownRoadsFirst`, `EveryDriverAccounted`) |
| ends | fit drivers, a limit that is not reached, a provider that may never answer | `RejectionsAndListsEnd` (a listing ends) |

*Fairness.* Queries end, workers run, and a provider call that does not answer is
aborted (weak fairness of `ProviderFails`, its timer); the provider itself need not
answer.

## DispatchDesk: dispatchers and drivers at their pages

`DispatchDesk.tla` follows one shipment over the dispatchers' pickup and delivery
pages and the drivers' task pages, with the pushes that make them fetch.
The commands are single steps (`LastMile` has their statements).  Any driver may be
chosen in the select, because its list is up to five seconds old and a choice stays
selected; the server checks again.  Events about other shipments, which would also
refresh a page, are left out: properties must hold without them.

| scene of `dispatch` | instance | checks |
|---|---|---|
| pickup | one dispatcher, two drivers; answers, events and sockets are lost | `TaskAsAssigned` (`ProofFromHolder`, `AssignGives`), `RejectionsAndListsEnd` (`RejectionSeen` for that dispatcher) |
| delivery | two dispatchers on the delivery page, a driver with other work; a command that is carried out is answered | `TaskAsAssigned` (`ProofFromHolder`, `FailureDecidedOnce`) |

*Fairness.* Fetches are answered, a push arrives or the socket drops, a dropped
socket reconnects (`socket.io`), and a page fetches on reconnection.  Nobody has to
touch or focus a page.

*Observations.* A reassignment carries neither a version nor the driver it showed, and
replaces another dispatcher's choice unseen.  A driver is told that the dispatchers
were notified of a failed delivery; only the customer is.  The pickup page does not
follow acceptances and pickups by itself, though it says so.

### Theorems

`DispatchDeskProofs.tla` proves `TasksAreAsAssigned`: `TaskAsAssigned` for any number of
dispatchers, drivers and assignments, over any old pages, repeated commands and lost
answers.  No page is trusted anywhere in the argument.  Every assignment but the last is
over, and the status of the last goes with the status of the shipment (`LastFits`), so
that a command that finds the status it needs finds the assignment it means; failures
exceed decisions by one exactly while a failure stands (`Decided`).  Only a
reassignment gives the shipment to a new driver while another holds it
(`CommandKeeps`), and a driver's own command ends or keeps a holding (`TaskKeeps`).

## Proved, and only model-checked

Proved for every value of the constants, without the bounds and scenes of the runs: the
theorems of `LastMileProofs`, `ShippingFeeProofs`, `CodCustodyProofs`,
`WarehousesProofs`, `LineHaulProofs`, `AccountProofs`, `NotificationOutboxProofs`
and `DispatchDeskProofs` listed above.  Every assumption is a named one of the module that
declares the constants, and TLC evaluates it for the instances of a run.  Every inductive
invariant was checked by TLC on the instances of the runs before it was proved.

Only model-checked:

- liveness (`CapturedIsPaid`, `OutboxDelivers`, `ArrivalReachesAll`,
  `PageCatchesUp`, `RejectionsAndListsEnd`): the prover has no rules for fairness that it
  could use here;
- `BestOfAll` and `RankedByOwnRoute`: what sorting and scoring loops compute is an
  induction over data;
- `TabsAgree` (but `CodIsCurrent`), `PagesTellTruth`, `PushesEarned`: not proved.

## Bounds

Every run is small in objects, because the races of this code are between two
commands: two requests in flight show every pair.  Counters that could grow forever
are bounded by `MaxVersion`, `MaxTripVersion`, `MaxDriverVersion`, `MaxTime`,
`MaxRoute`, `MaxQueue`, `MaxFaults`, `MaxTries`, `MaxCalls`, `MaxAttempts`, `MaxId`,
`MaxTasks` and `MaxChange`; each is declared, with a comment, in the module that uses
it.  Keys that clients draw (assignments, transfers, trips, payments, disputes,
sessions, tokens) are finite sets, which bounds how often they act.
Runs may stop (`CHECK_DEADLOCK FALSE`) where work ends for good; `DispatchDesk` and
`DriverRanking` have steps that never end, and the run `dispatch` checks for deadlock.
Symmetry is used for objects that are alike, never in a run with a liveness property;
a permutation that moves names used in several scenes is a symmetry of each of them.

## Plan

Every module of the first plan is written, and the proofs reach all that moves parcels
and cash, the price of a parcel, the credentials and the address book of accounts, the
mails, and the pages of dispatchers, drivers and warehouses.  What is left to prove, in
this order:

1. `TripDesk` and `TripPlanning` (`PagesTellTruth`), over the invariant of `LineHaulProofs`.
2. `BrowserTabs` (`LogoutSticks`).

## Not modelled

- Dashboards, control tower and analytics: read-only aggregation.
- The audit log, except COD's, where its entries are compared with the rows
  (`AuditMatches`): append-only rows that nothing reads back.
- Address search and the map's location picker: calls to an external service and a
  filter on the answer.  Haversine, polylines and the HTTP of the route provider:
  numeric or I/O; `DriverRanking`, `LineHaul` and `LiveTracking` have their outcomes.
- Login rate limits and request throttling, counters in one atomic Lua script, and
  TrustedOriginGuard.
- The administrators' pages for drivers, warehouses, vehicles and users: plain forms
  over commands that are modelled.
- Configuration, startup, health checks, containers, migrations and scripts: no
  business state.
- Returns: only the driver of the last failed attempt may start one, and no command
  helps when that driver is suspended; nothing in the repository promises otherwise.
- A payment its provider never decides: nothing in the code ends it.
