# A verification development for seatkey

seatkey is a self-hosted license server: a vendor issues license keys with a number of seats, a
customer's application activates a device with the key and gets a signed token that it can verify
without the server, and a dashboard lets the vendor issue, revoke and free. This directory holds
TLA+ models of the server (Go, `internal/` and `cmd/`), the TLC configurations that check them on
small instances, and proofs, checked by TLAPS, of the results that matter most for every instance.

`PROJECT.json` maps each definition to the lines it models and lists runs, hazards, disagreements
between code and documents, mutations and theorems.

## The system

| part | state it keeps | operations | modules |
| --- | --- | --- | --- |
| licensing service (`internal/license/service.go`, `token.go`) | none of its own: a request's local variables between two statements | Activate, OfflineActivate, Validate, Deactivate, sign, notify | `Licensing`, `TokenRules` |
| store of licenses and devices (`internal/store/licenses.go`, `devices.go`, `models.go`, `schema.go`) | tables `licenses`, `devices` | look-ups, count, upsert, touch, free, issue, revoke; lists | `Licensing`; the lists in `Pages` |
| public API (`internal/web/api.go`) | - | activate, validate, deactivate, mapping of errors; the public key | `Licensing`, `DemoClient` |
| license pages (`internal/web/admin.go`) | - | issue, revoke, free a device, offline activation; lists and counts | `Licensing`; what they display in `Pages` |
| dashboard authentication (`internal/web/auth.go`, `internal/store/admin.go`) | tables `admins`, `sessions`; the browser's cookie | setup, login, logout, guard of every page, change of the password | `Admin`, `AdminHistory` |
| webhook sender and settings (`internal/webhook/webhook.go`, `internal/store/settings.go`, closure in `cmd/seatkeyd/main.go`) | rows `webhook_url`, `webhook_secret`; a goroutine per event | settings form, notify, two attempts | `Webhook`, `WebhookHistory`, `Delivery` |
| signing key (`cmd/seatkeyd/main.go`, `internal/crypto/keys.go`) | row `signing_key_seed`; the key of the process | open, load or create at boot, stop | `SigningKey` |
| signatures (`internal/crypto/envelope.go`) | - | sign, verify | `EnvelopeOf` and `Verify` in `DemoClient` |
| demo client (`cmd/democli/main.go`) | the files `license.json` and `pubkey.txt` | activate, validate, deactivate, run, offline activation | `DemoClient`, `Accepts` in `TokenRules` |
| database connection (`internal/store/store.go`) | a pool of one connection | open; acquire, release | `Pages`, `SigningKey` |
| products (`internal/store/products.go`), license keys (`internal/store/licenses.go`) | table `products`; the unique index of `licenses.key` | insert, look-up, list; draw a key | `Pages` |
| routing, templates | - | - | which statements a page runs, in `Pages` |

How they interact. `net/http` runs each request in a goroutine of its own. A handler calls the
service or the store directly; the service calls the store, and calls `Notifier.Notify` after the
statement that took or freed a seat. `Notify` reads the settings in the goroutine of the request
and starts a goroutine that delivers: its comment says that it never blocks the caller
(`internal/webhook/webhook.go:43`), which is so of the delivery, but the request waits for the two
look-ups and so for the connection. The only shared state is the database. Its pool holds one
connection, so statements exclude each other, but **no handler opens a transaction**, so the
statements of different requests interleave freely, and whatever a request has read may be out of
date when it writes. This is the source of nearly every hazard in `PROJECT.json`:

- check-then-act over two statements: seats counted and then taken, a device looked up and then
  activated, an account looked for and then inserted, a password compared and then replaced;
- answers that mix several reads: a token is made of a row, a clock reading and a count taken at
  three different times;
- a statement that fails, or a process that stops, between the write and what should follow it;
- deliveries that time out while the endpoint is still at work, and retry;
- uses of the settings form that overlap, or fail between their two statements;
- a client whose command is killed while its request goes on at the server, and whose two files are
  written one after the other;
- pages of several statements that all need the one connection.

What makes each part correct:

- *service and store*: seats stay within the limit (or within a bound that can be stated), no
  request acts on a license that it misremembers, no usable token outlives its license, every
  answer is true of some instant of its request, every taken or freed seat is told;
- *authentication*: setup closes with the first account, no page and no change of the password
  without a live session, no login and no change without the password of the account;
- *webhook*: what was acknowledged is not sent again, what was not is tried twice, every delivery
  ends, and a url and a secret that do not belong together are paired only in circumstances that
  can be named;
- *signing key*: whatever was ever signed verifies for the life of the database;
- *client*: a seat that was freed and a license that was revoked cannot be used for longer than the
  grace period, a license that expired not at all, the two files belong together, a readable file
  is lost only with the seat or in the moment of its rewriting;
- *pages*: every request gets the connection and ends, no list changes while it is read.

## The modules

**`TokenRules`** has the rules about time as operators: `Status` (`License.Status`), `ValidUntil`
(the period of `Service.sign`), `Accepts` (how the client judges a cached token). Instants are
integers and durations are constants.

**`Licensing`** is the core. `licenses` and `devices` are the two tables; a device's row is
`absent`, `active` (`deactivated_at IS NULL`) or `freed`. `calls[h]` is the request handler `h`
works on: the statement before it (`pc`), its parameters, and the local variables of the Go
functions: the row as it was read (`lic`), `now` (`at`), the count for the token (`seats`). One
action is one SQL statement with the computation up to the next; reading the clock is a step of
its own (`CheckStatus`), and so is telling the notifier. The paths are

    activate     GetLicenseByKey  CheckStatus  GetActiveDevice  CheckSeats  ActivateDevice  Notify  CountSeats  Respond
                                                             \  TouchDevice  CountSeats  Respond
    validate     GetLicenseByKey  CheckStatus  GetActiveDevice  TouchDevice  CountSeats  Respond
    deactivate   GetLicenseByKey  DeactivateDevice  Notify  Respond
    offline      GetLicense, then as activate
    free         GetLicense, then as deactivate

with a refusal at every check. `StatementFails` may replace any statement, `Crash` ends all
requests and leaves the tables, `Tick` lets time pass. `IssueLicense` and `RevokeLicense` are
requests of a single statement.

**`SeatLedger`** is what the service promises, in four actions: issue, revoke, take, free. `Slack`
is the number of seats that may be taken beyond the limit. `Licensing!ImplementsLedger` is the
refinement: the ledger's seats are the active rows, its slack one less than the number of requests
worked on at a time. It says in particular that a statement changes one device of one license.

**`LicensingHistory`** adds a history variable `seen`: what was true, at some instant of each
request, of its license and its device. Its invariants say which answers can be trusted in the
sense of "it was so while you asked". One fact is of a step and not of an instant: `lostSeat`, that
the device had its seat before a step and not after it. It is what the answer to a deactivation
means; a request that finds the seat freed before it came has not seen it. **`LicensingEvents`** adds
counters: how often a seat was taken and freed, how often the notifier was told, how often the
process stopped just before.

**`Admin`** models the statements of `auth.go` in the same style. A row of `admins` is its
password, the table is a sequence in the order of ids; bcrypt is abstracted to equality; a session
token is drawn at most once. The expiry of a new session is fixed (`StartSession`) before its row
is written. A request may come with any cookie a browser was ever given, also one that was logged
out. **`AdminHistory`** adds what was true during each request, and which sessions a logout ended.

**`Webhook`** has the settings form with its two statements (`forms`: any number of uses of it at a
time, since no lock keeps the statements of two uses apart), and per event the goroutine: reading
the two rows (a read that fails counts as an empty value, as the closure in `main` has it), an
attempt, the timeout, the sleep, the retry. `wire` holds the requests on their way, `inbox` what the
endpoint has processed and what became of its answer. The endpoint may refuse, be slow, or be
unreachable; the network may lose the request or the answer. **`Delivery`** is what the vendor can
expect of all this: an event is told, and dropped or attempted; it arrives at most once for each of
two attempts, the second is made only while no acknowledgement has come back, and it ends in one way
for good, although it may still arrive after its end. `Webhook!ImplementsDelivery` is the
refinement: what has arrived is read off `inbox`, and whatever a goroutine does between its start
and its end is `Pending`. **`WebhookHistory`** remembers which pairs of url and secret were brought
together by one use of the form (`submitted`), whether the use that is on its way has had no company
(`lone`), and whether the two rows can be those of different uses (`torn`): uses that overlap or one
that is cut short leave them so, until a use without company has written both. A pair that only came
about in the rows is not in `submitted`, whether it stays for a moment or for good. `amid` says of
each event whether its rows were read while a use was about or the rows were torn, and only then may
its attempts pair values of different uses (`PairJustified`).

**`SigningKey`** is the life of the process: open the database, look the seed up, generate and store
one if there is none, serve, stop at any of these points and start again. A look-up that fails ends
the process (`log.Fatalf`), which is `Stop`. One process runs at a time, as the program's README
asks.

**`DemoClient`** composes a licensed machine with `Licensing` (EXTENDS: the requests of its commands
are requests of the service) and with `SigningKey` (INSTANCE). A command is a record with its step,
the request it waits for, the envelope and the key it is to save. `os.WriteFile` is two steps, a
file that was truncated and not written is `Torn`. `Abandon` ends the command anywhere, be it
killed, or a call or file operation failed; its request stays at the server and goes on. `Stop`
breaks the connections. Requests of the vendor and of other devices (`OthersRequest`) and the mail
that brings an activation file (`OthersRespond`) come in between. `Runs` is the decision the
application takes at every start. Three history variables remember the last instant at which the
machine had its seat (`lastSeat`), the last at which the license was unrevoked or a request that had
read it so was still at work (`lastValid`), and whether the machine was without a seat while the
command ran (`unseated`).

**`Pages`** has the pool as a lock: `Acquire` gives the connection to a request for one statement,
`Release` takes it back when the statement's result is read. A list holds it from its first row to
its last (`NextRow`, `EndRows`); the pages run several statements, `toLicenseView` one for each
license. Writes of the API stand here as one statement each. `stale` is a history variable: whether
a device of the license was written between the list of a page and its count. A form beyond
`MaxProducts` or `MaxLicenses` can only fail.

Small definitions whose comment begins with "The slip of" stand before the definition they are a
faulty variant of. No specification uses them: they are the mutations of `PROJECT.json`, put in
the place of the right definition to see that a property notices.

## The runs

| run | instance | states | shows |
| --- | --- | --- | --- |
| `licensing` | 1 license of 1 seat, expiring at 1, 2 devices, 2 requests at a time, all operations, clock 0..2, with history | 3.9 M | the inductive invariant `IInv`, `SnapshotAgrees`, `AcceptedTokenUnexpired`; `TokenJustified`, `RefusalJustified`, `FreeJustified`: what each answer still means |
| `two_licenses` | 2 licenses of 1 seat, 2 devices, 2 requests at a time | 1.6 M | `ImplementsLedger`: of two licenses neither is touched by what is done to the other |
| `events` | 1 license of 1 seat, 3 devices, 2 at a time of 6 requests | 435 k | `DeactivationsTold`, `ActivationsTold`, `ActivationsToldBound`; `SeatOvershootBound`: 2 devices on 1 seat happen, 3 do not; `ImplementsLedger` where a third device would exceed limit and slack |
| `sequential` | licenses of 1 or 2 seats, 3 devices, 5 requests one at a time, all operations, clock 0..2 | 461 k | `SeatLimit`, `TokenSeatsInRange`, `ActivationsToldOnce`: the promises that hold without overlap |
| `admin` | 2 passwords, 2 tokens, 2 at a time of 4 requests, sessions of one instant | 1.2 M | `AdminRowsBounded`, `GuardJustified`, `LogoutEnds`, `PasswordJustified`, `SetupJustified`; no step but a password change with the password moves the account (`AccountChangesHands`) |
| `webhook` | 1 event, 1 url, 1 secret, 3 uses of the form, 2 at a time | 398 k | `RetryRule`, `PairJustified`, `ImplementsDelivery`, and `DeliveriesEnd` under fairness |
| `client` | 1 machine, 1 license of 1 seat, expiring at 1 or never, 2 requests at a time of 3, 2 key pairs, clock 0..2 | 2.4 M | `FreedSeatEnds`, `RevokedLicenseEnds`, `ExpiredLicenseEnds`, `KeyForLife`, `CachedFilesAgree`, `FileOutlivesSeat` |
| `pages` | 2 requests at a time, without end, of every page and form, 1 product, 2 licenses, 1 device, 2 keys | 261 k | `NobodyWritesUnderAList`, `CountAgreesUnlessWritten`, and `EveryRequestEnds` under fairness |

Four runs end in a violation: each checks a sentence of a comment or a document that the code
keeps only while requests do not overlap, or while the settings do not change.

| run | the sentence | what happens |
| --- | --- | --- |
| `seat_overshoot` | Activate enforces the seat limit (`internal/license/service.go:67`) | two activations count before either takes its seat |
| `refused_for_own_seat` | re-activating an active device always succeeds (`internal/license/service.go:68`) | the count that refuses includes the seat the device has just got |
| `second_admin` | the single admin account (`internal/store/admin.go:17`) | two setups both find none |
| `stale_url` | the url is read on every send (`internal/webhook/webhook.go:26`) | the retry uses the url read before the first attempt |

With two requests at a time `ActivationsToldOnce` fails as well: two activations of one device
both find it without a seat and both tell of it. What remains true then is `ActivationsTold`,
and that the seat is told of no more often than once by each request (`ActivationsToldBound`).

Bounds. Two requests are enough for every pair of statements to interleave; that the overshoot grows
by one per request and no faster is proved for any number. `events` has as many devices as would
exceed the bound, so it is not met for want of devices, and the ledger's guard of `Take` would refuse
the third; in `two_licenses` that guard cannot fail, the run is about the isolation of licenses. The form's value 0, which is clamped to one
seat, makes a full license the usual case. A clock of 0..2 with a grace period of 1, a horizon of 2
and an expiry at 1 puts the expiry before, at and after the end of a token's period, and requests
before, at and after the expiry; licenses that never expire are in the other runs, and `client` has
both kinds, so that a file outlives its license by the clock and by a revocation. In `admin` a
session lasts one instant and the clock makes one step, so sessions expire under requests; four
requests are two setups, a login and a change of the password, or a setup, a logout and two requests
with the old cookie. In `client` three requests are enough to activate, free the seat by a request
that outlives its command, and validate or activate again; two key pairs are enough for a boot to
draw a second one; with one device the requests of others are the vendor's (free, revoke, offline
activation), and a grace period of 1 in a clock of 0..2 lets the token of a freed seat or of a
revoked license run out. In `webhook` events do not touch
one another, so one is enough; two uses of the form overlap, and a third comes after them with no
company and makes the rows whole again; with the empty url and the empty secret there are two values
of each row to tell apart. In `pages` two keys for two licenses make a drawn key collide, and one
device is enough for a count to differ from a list. `MaxCalls`, `MaxRequests`, `MaxClock`,
`MaxSaves`, `MaxProducts` and `MaxLicenses` are the only bounds in guards. Handlers, devices,
licenses, passwords and tokens are interchangeable in every definition, so symmetry is sound; no run
with a liveness property uses it. Each cfg checks for deadlock: the crash of the environment is
always enabled, so this check says little, and the progress of deliveries is a property instead.

The license pages are taken for requests of a logged-in administrator: `Licensing` does not repeat
the guard that `Admin` models, and neither does `Pages`.

Fairness. `Webhook` states weak fairness of the steps of each delivery's goroutine (`Advance`). The
Go scheduler runs a goroutine that can go on, a statement and the sleep end, and the client's
timeout of five seconds (`NewSender`) makes `Fail` a step that comes if no answer does. Nothing is
assumed of the endpoint, the network, the settings form or crashes. `Pages` states weak fairness of
each request that has what it needs (`Proceed`) and strong fairness of `Acquire`: a waiting request
may find the connection taken by others again and again, but `database/sql` hands a connection that
is given back to one of the waiting requests at random, so that none is passed over for ever.
Nothing is assumed of crashes or of new requests. The other modules are checked for safety only:
their requests take finitely many statements, each of which `Pages` shows to come.

## The proofs

`LicensingProof` proves for every set of licenses and devices, every finite set of handlers, every
choice of operations, seats, expiries, periods and clock bound (the named `ASSUME`s of `Licensing`
and `TokenRules`, which TLC evaluates in the runs):

| theorem | statement |
| --- | --- |
| `TypeCorrect` | `Spec => []TypeOK` |
| `SeatOvershootBounded` | `Spec => []SeatOvershootBound` |
| `SequentialSeatLimit` | if there is one handler, `Spec => []SeatLimit` |
| `SnapshotsAgree` | `Spec => []SnapshotAgrees` |
| `AcceptedTokensUnexpired` | `Spec => []AcceptedTokenUnexpired` |
| `LedgerImplemented` | `Spec => ImplementsLedger` |
| `TokenLife` | for any period, horizon, expiry and instants: a token ends neither after its period nor after its license, can be used when it is signed, and no client accepts it once the license has expired |

The argument. `SeatOvershootBound` is not inductive: a state at the bound with a request about to
take a seat satisfies it and its successor does not. `SeatBudget` counts those requests too
(`Reserving`), and a request joins them only when fewer seats are taken than the license has, at
which time the others are at most `Cardinality(Handlers) - 1`. For that step the limit the request
compares with must be the limit of the table, which is `SnapshotAgrees`; that the request has read
a row at all is `ReadsComeFirst`; that an unissued license has no seats, so that issuing it cannot
break the budget, is `SeatsAreIssued`; and that the counts are numbers although `Devices` may be
infinite is `FinitelyActive`. `IInv` is the conjunction, checked by TLC in the run `licensing` and
proved inductive in `NextIInv`. The other theorems follow from it. `AcceptedTokensUnexpired` adds
that a request's clock reading is not in the future and the status was active at it (`Checked`);
what the cut of the period then means for a client is `TokenLife`, a fact about the operators of
`TokenRules` alone.
The refinement maps each statement to an action of the ledger or a stutter; only `ActivateDevice`
needs the invariant, for the guard of `Take`.

`SeatHistoryProof` proves `TokensJustified`, `RefusalsJustified` and `FreesJustified` of
`LicensingHistory`. `HistoryIInv` adds to `IInv` that what a request has passed is in its history
(`Warranted`): the status of the license was, at an instant not in the future, that of the row it
read, and is in the history; past the check it was active, past the search for a seat the device was
seated. The facts of now are always in the history, which is why a step need not say when it looked;
that a seat was lost is recorded by the step that frees it, and only a request that took that step
goes on to tell of it.
`SequentialRefusals` is the sentence that the run `refused_for_own_seat` refutes, under the
hypothesis it needs: if there is one handler, a device is refused only for the seats of others
(`Alone`: a device found without a seat has none when the seats are counted).

`EventsProof` proves `DeactivationsAreTold` and `ActivationsAreTold` of `LicensingEvents`: each sum
is inductive once it is known which steps take or free a seat and which tell (`ProceedKinds`); a
step that frees a seat adds the request to `Pending`, one that tells moves it to `told`, a crash to
`lost`. `ActivationsToldBounded` is not inductive as it stands: a request that has not found the
device and is about to take the seat will tell of it, too. `ToldBudget` counts these requests
(`Chasing`) with the events while the seat is taken; none joins them then, and the step that takes a
free seat raises the bound by as many as there can be. With one handler it also proves
`SequentialActivationsTold` and `SequentialTokenSeats`: from the search for a seat to the answer the
device's row cannot change (`StillSeated`).

`ClientProof` proves, of the whole composition, `KeysForLife`, `CachedFilesAlwaysAgree`,
`FreedSeatsEnd`, `RevokedLicensesEnd`, `ExpiredLicensesEnd` and `FilesOutliveSeats`, next to the
type invariant. Its first theorem, `ServiceComposed`, is that every step of the composition is a
step of `Licensing` or a stutter, so that `IInv` is at hand without being proved again and every
theorem of `Licensing` holds in the composition; `LedgerComposed` is the refinement of the ledger
carried over. They need, one on top of the other:

- `KeyInv`: all that is signed, fetched, saved or mailed carries the stored seed's key; the seed is
  stored before the process serves, and is drawn only while none is stored;
- `WaitInv`: the request a command waits for is one for its own license and device;
- `EnvelopeOrigin`, a lemma: an envelope that is in a reply, a command, a file or the mail after a
  step was there before it, or is the token of a request that the step answered. An invariant of
  envelopes has then to be shown once, for the token that is signed, and not for each of the places
  an envelope passes through;
- `SeatInv`: the token of a request and every envelope end no later than the grace period after the
  last instant of the seat, because the clock is read before the seat is looked for;
- `LicenseInv`: every request is for the machine's license, and every envelope ends no later than
  that license (`InTerm`, from `TokenLife`) and, if it is for online use, no later than the grace
  period after the last instant at which the license counted as unrevoked (`SignedValid`), because
  the row is read before the clock and the request is at work until it is answered;
- `OutliveInv` and `InHandInv`: a command is told "ok" only by a request that freed the seat while
  the command waited, and one that saves has an envelope to save.

`AdminProof` proves all of the properties of the run `admin`, and, if there is one handler, the
`SingleAdmin` that the run `second_admin` refutes (`SequentialAccount`). `AdminIInv` says that a
request past the guard, the password or the look for an admin has in its history that it was so
(`RequestsJustified`), and that a token is drawn once, so that the row of an ended session never
comes back (`TokensOnce`). For `AdminRowsBounded` it counts the setups about to insert.

`WebhookProof` proves `DeliveryImplemented`, that every behaviour of the sender, the network and the
endpoint is one of `Delivery`. The refinement needs an invariant of its own (`DeliveryIInv`): an
attempt is in one place at a time, about to be sent, on the wire, or in the inbox, and nothing is
anywhere of an event that was not sent (`Apart`). Then a request that is processed is a new arrival
of an attempt already made (`ArrivalPromised`), the steps that only move a goroutine are stutters
(`MovePromised`), and histories can be forgotten (`HistoryForgets`). It also proves
`RetriesFollowTheRule` (a sender sleeps only after its first attempt, nothing is on the wire that
was not sent yet: `AttemptsInv`) and `PairsAreJustified`, for any number of uses of the form at a
time. `FormsInv` says what the rows hold: each row what some use brought, and both what one use
brought unless they are torn or a use is between its two writes; a use that has had no company finds
its own url when it writes the secret. `FormSteps` reduces a step to what it does to the form.
`ReadingInv` then says of an event that is not read amid a use that the url it has is that of the
rows.

`PagesProof` proves the safety properties of the run `pages` for any number of requests, devices and
keys. `PoolInv` says that the connection is used by at most one statement, of a request at it; a
request that does not hold it has read no row yet (`Sound`). So no other statement is run from the
first row of a list to its last, and the list stays as it is (`NobodyWrites`); a page that no write
overtook counts what it has listed. That counts are in range needs the primary key of `devices`
(`OneRowEach`).

The assumptions are the named `ASSUME`s of the modules, which TLC evaluates in the runs: sets of
requests and handlers are finite and not empty, sentinels differ from values, bounds and periods
are natural numbers, the machine's license and device are among those considered, and, for `Pages`,
devices are finitely many.

Model-checked only: the liveness properties `DeliveriesEnd` and `EveryRequestEnds`, which are out of
the prover's reach, and the four runs that end in a violation. Every other property of the runs is
also a theorem.

## What the models take for granted

- One clock, which never goes back and is the same on the server and on the licensed machine:
  `Runs` compares the clock of `Licensing` with the end of a token, and `FreedSeatEnds`,
  `RevokedLicenseEnds` and `ExpiredLicenseEnds` count from its readings. A machine whose clock lags
  runs longer by as much, and one that is set back as long as it likes; the code has no measure
  against either. `TokenLife` and `AcceptedTokenUnexpired`, too, compare instants of one clock.
- One endpoint. `http.Client` follows redirects, so a status of 300 or more is a refusal only if it
  is not followed to its end. An endpoint with whatever it redirects to is one endpoint in
  `Webhook`: what arrives there, and the answer that comes back at last, are its own.
- One connection to the database, which makes a statement atomic; `Pages` has it as a lock.

## What is not modelled

- Encodings and the curve (`internal/crypto`): an envelope stands for its token and the key it is
  signed with, a seed determines its pair, signatures are not forged; the HMAC is the secret it is
  keyed with. The failure to encode a token comes, in effect, as a failed statement: an error after
  the seat was taken.
- The letters of a license key; the rules for names of products. Neither is ever removed.
- Templates, static files, `/healthz`, the settings page as it is displayed: they change no state.
- `offline-request` of the demo client, which prints two values, and the flags and paths of its
  commands, which are taken as given. Two commands at one time on one machine.
- `http.Post` of the demo client has no timeout; `Abandon` stands for whoever loses patience.
- Widths: the program computes with 64-bit durations, the longest of which is 3.2e18 ns, and
  compares small counts; no overflow is in reach.
- `last_seen_at`, names and e-mail addresses: written, never read by a rule.
- The order in which events reach the endpoint: `LicensingEvents` says what is told and `Webhook`
  what becomes of one event; deliveries are goroutines of their own and the code keeps no order.

## What could come next

- The service composed with the sender: which sums over the events hold at an endpoint that does
  not fail, however they are reordered.
- The guard of `Admin` in front of the license pages, so that a revocation is one of a session.
- The settings page as it is read: a row that cannot be read shows as an empty field, and saving the
  form then erases the setting.
