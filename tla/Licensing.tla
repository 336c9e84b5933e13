------------------------------ MODULE Licensing ------------------------------
(***************************************************************************)
(* The licensing service of seatkey (internal/license/service.go) over its *)
(* store (internal/store/licenses.go, devices.go), driven by the handlers  *)
(* of the public API (internal/web/api.go) and of the dashboard            *)
(* (internal/web/admin.go).                                                *)
(*                                                                         *)
(* net/http runs every request in a goroutine of its own.  The database    *)
(* pool holds one connection, so each SQL statement is atomic, and no      *)
(* handler opens a transaction, so the statements of different requests    *)
(* interleave freely.  One action is therefore one statement, with the     *)
(* local computation up to the next one.  A statement may fail, and the    *)
(* process may stop between any two of them.                               *)
(***************************************************************************)
EXTENDS TokenRules, FiniteSets

CONSTANTS
    Licenses,        \* a license, its id and its key (both are unique)
    Devices,         \* device ids that clients present
    Handlers,        \* requests the server works on at one time
    Ops,             \* the requests considered
    RequestedSeats,  \* what the max_devices field of the issue form may hold
    Expiries,        \* the expiries a license may be issued with
    MaxClock,        \* bound on the clock
    NoLicense,       \* the license row that does not exist
    NoCall           \* a handler between two requests

ASSUME HandlersAssumption == IsFiniteSet(Handlers) /\ Handlers # {}
ASSUME RequestedSeatsAssumption == RequestedSeats \subseteq Int
ASSUME ExpiriesAssumption == Expiries \subseteq Int \cup {Never}
ASSUME MaxClockAssumption == MaxClock \in Nat

(* Activate, Validate and Deactivate of the API, and the dashboard's       *)
(* offline activation and "free this seat" button.                         *)
Operations == {"activate", "validate", "deactivate", "offline", "free"}

ASSUME OpsAssumption == Ops \subseteq Operations

(* handleLicenseCreate: a field that is no positive number issues one seat. *)
ClampSeats(n) == IF n < 1 THEN 1 ELSE n

(* A row of table licenses: every license has at least one seat.           *)
LicenseRows ==
    [maxDevices : Nat \ {0},
     expiresAt  : Expiries,
     revokedAt  : Int \cup {Never}]

(* A device without a row, with a row whose deactivated_at is NULL, and    *)
(* with a row whose deactivated_at is set.                                 *)
RowStates == {"absent", "active", "freed"}

(* The statements and steps a request is about to execute.                 *)
Statements == {"GetLicense", "GetLicenseByKey", "GetActiveDevice", "CheckSeats",
               "ActivateDevice", "TouchDevice", "CountSeats", "DeactivateDevice"}
Steps == Statements \cup {"CheckStatus", "Notify", "Respond"}

Answers == {"none", "token", "ok", "redirected", "not_found", "license_not_active",
            "device_limit_reached", "could_not_issue", "internal_error"}

CallRecords ==
    [pc     : Steps,
     op     : Ops,
     key    : Licenses,
     device : Devices,
     lic    : LicenseRows \cup {NoLicense},  \* the row as it was when it was read
     at     : Int,                           \* now, captured after that read
     seats  : Nat,                           \* seats in use, counted last
     answer : Answers]

ASSUME SentinelsAssumption == NoLicense \notin LicenseRows /\ NoCall \notin CallRecords

VARIABLES
    clock,     \* time.Now
    licenses,  \* table licenses: a row for each license issued
    devices,   \* table devices: what its row says of a license and a device
    calls      \* the request each handler is working on

vars == <<clock, licenses, devices, calls>>

TypeOK ==
    /\ clock \in 0..MaxClock
    /\ licenses \in [Licenses -> LicenseRows \cup {NoLicense}]
    /\ devices \in [Licenses -> [Devices -> RowStates]]
    /\ calls \in [Handlers -> CallRecords \cup {NoCall}]

-----------------------------------------------------------------------------
(* Queries.                                                                *)

Issued(l) == licenses[l] # NoLicense

ActiveDevices(l) == {d \in Devices : devices[l][d] = "active"}

ActiveDeviceCount(l) == Cardinality(ActiveDevices(l))

StatusOf(lic, t) == Status(lic.revokedAt, lic.expiresAt, t)

(* Handler h has the step pc before it.                                    *)
At(h, pc) == calls[h] # NoCall /\ calls[h].pc = pc

ByDashboard(op) == op \in {"offline", "free"}
Activates(op) == op \in {"activate", "offline"}
Deactivates(op) == op \in {"deactivate", "free"}

(* What the handler answers for what the service returned: mapLicenseError *)
(* for the API; the dashboard's offline activation folds unexpected errors *)
(* into one message, and its free button treats an unseated device as done.*)
Answer(op, outcome) ==
    CASE op = "offline" /\ outcome \in {"not_found", "internal_error"} -> "could_not_issue"
      [] op = "free" /\ outcome \in {"ok", "not_found"} -> "redirected"
      [] OTHER -> outcome

(* The slip of sign taking the time again.                                 *)
TokenOfSignedLate(h) ==
    LET c == calls[h] IN
    [license    |-> c.key,
     device     |-> c.device,
     seatsMax   |-> c.lic.maxDevices,
     seatsUsed  |-> c.seats,
     status     |-> StatusOf(c.lic, clock),
     issuedAt   |-> clock,
     validUntil |-> ValidUntil(c.lic.expiresAt, clock, c.op = "offline"),
     licenseExp |-> c.lic.expiresAt,
     offline    |-> c.op = "offline"]

(* The token that sign builds from the values handler h captured.          *)
TokenOf(h) ==
    LET c == calls[h] IN
    [license    |-> c.key,
     device     |-> c.device,
     seatsMax   |-> c.lic.maxDevices,
     seatsUsed  |-> c.seats,
     status     |-> StatusOf(c.lic, c.at),
     issuedAt   |-> c.at,
     validUntil |-> ValidUntil(c.lic.expiresAt, c.at, c.op = "offline"),
     licenseExp |-> c.lic.expiresAt,
     offline    |-> c.op = "offline"]

-----------------------------------------------------------------------------
(* Steps of a request.                                                     *)

Goto(h, pc) == calls' = [calls EXCEPT ![h].pc = pc]

Reply(h, answer) ==
    calls' = [calls EXCEPT ![h].pc = "Respond", ![h].answer = answer]

Return(h, outcome) == Reply(h, Answer(calls[h].op, outcome))

(* A well-formed request arrives; one that is not is answered without      *)
(* touching anything.  A license not issued yet stands for an unknown key. *)
Receive(h, op, l, d) ==
    /\ calls[h] = NoCall
    /\ calls' = [calls EXCEPT ![h] =
                    [pc     |-> IF ByDashboard(op) THEN "GetLicense" ELSE "GetLicenseByKey",
                     op     |-> op,
                     key    |-> l,
                     device |-> d,
                     lic    |-> NoLicense,
                     at     |-> 0,
                     seats  |-> 0,
                     answer |-> "none"]]
    /\ UNCHANGED <<clock, licenses, devices>>

(* The dashboard finds the license of its URL by id, only to pass its key  *)
(* on to the service, which reads the row again.                           *)
GetLicense(h) ==
    /\ At(h, "GetLicense")
    /\ IF Issued(calls[h].key) THEN Goto(h, "GetLicenseByKey") ELSE Reply(h, "not_found")
    /\ UNCHANGED <<clock, licenses, devices>>

(* The slip of an offline activation that forgets the status.              *)
GetLicenseByKeyOfflineUnchecked(h) ==
    /\ At(h, "GetLicenseByKey")
    /\ IF Issued(calls[h].key)
       THEN calls' = [calls EXCEPT ![h].lic = licenses[calls[h].key],
                                   ![h].pc = CASE Deactivates(calls[h].op) -> "DeactivateDevice"
                                               [] calls[h].op = "offline"  -> "GetActiveDevice"
                                               [] OTHER                    -> "CheckStatus"]
       ELSE Return(h, "not_found")
    /\ UNCHANGED <<clock, licenses, devices>>

GetLicenseByKey(h) ==
    /\ At(h, "GetLicenseByKey")
    /\ IF Issued(calls[h].key)
       THEN calls' = [calls EXCEPT ![h].lic = licenses[calls[h].key],
                                   ![h].pc = IF Deactivates(calls[h].op)
                                             THEN "DeactivateDevice" ELSE "CheckStatus"]
       ELSE Return(h, "not_found")
    /\ UNCHANGED <<clock, licenses, devices>>

(* The slip of an expiry check that takes the place of the status.         *)
CheckExpiry(h) ==
    /\ At(h, "CheckStatus")
    /\ IF ~ExpiredAt(calls[h].lic.expiresAt, clock)
       THEN calls' = [calls EXCEPT ![h].at = clock, ![h].pc = "GetActiveDevice"]
       ELSE Return(h, "license_not_active")
    /\ UNCHANGED <<clock, licenses, devices>>

(* The clock is read after the row and judges the row as it was read.      *)
CheckStatus(h) ==
    /\ At(h, "CheckStatus")
    /\ IF StatusOf(calls[h].lic, clock) = "active"
       THEN calls' = [calls EXCEPT ![h].at = clock, ![h].pc = "GetActiveDevice"]
       ELSE Return(h, "license_not_active")
    /\ UNCHANGED <<clock, licenses, devices>>

(* The slip of a query without "deactivated_at IS NULL".                   *)
GetAnyDevice(h) ==
    /\ At(h, "GetActiveDevice")
    /\ IF devices[calls[h].key][calls[h].device] # "absent" THEN Goto(h, "TouchDevice")
       ELSE IF Activates(calls[h].op) THEN Goto(h, "CheckSeats")
       ELSE Return(h, "not_found")
    /\ UNCHANGED <<clock, licenses, devices>>

GetActiveDevice(h) ==
    /\ At(h, "GetActiveDevice")
    /\ IF calls[h].device \in ActiveDevices(calls[h].key) THEN Goto(h, "TouchDevice")
       ELSE IF Activates(calls[h].op) THEN Goto(h, "CheckSeats")
       ELSE Return(h, "not_found")
    /\ UNCHANGED <<clock, licenses, devices>>

(* The slip of comparing with > for >=.                                    *)
CheckSeatsOffByOne(h) ==
    /\ At(h, "CheckSeats")
    /\ IF ActiveDeviceCount(calls[h].key) > calls[h].lic.maxDevices
       THEN Return(h, "device_limit_reached")
       ELSE Goto(h, "ActivateDevice")
    /\ UNCHANGED <<clock, licenses, devices>>

(* The slip of counting the rows of freed devices too.                     *)
CheckSeatsOfAllRows(h) ==
    /\ At(h, "CheckSeats")
    /\ IF Cardinality({d \in Devices : devices[calls[h].key][d] # "absent"})
              >= calls[h].lic.maxDevices
       THEN Return(h, "device_limit_reached")
       ELSE Goto(h, "ActivateDevice")
    /\ UNCHANGED <<clock, licenses, devices>>

CheckSeats(h) ==
    /\ At(h, "CheckSeats")
    /\ IF ActiveDeviceCount(calls[h].key) >= calls[h].lic.maxDevices
       THEN Return(h, "device_limit_reached")
       ELSE Goto(h, "ActivateDevice")
    /\ UNCHANGED <<clock, licenses, devices>>

(* The slip of telling only of devices that are new to the license.        *)
ActivateDeviceTellingInserts(h) ==
    /\ At(h, "ActivateDevice")
    /\ devices' = [devices EXCEPT ![calls[h].key][calls[h].device] = "active"]
    /\ Goto(h, IF devices[calls[h].key][calls[h].device] = "absent" THEN "Notify" ELSE "CountSeats")
    /\ UNCHANGED <<clock, licenses>>

(* The upsert: whatever row the device has, it is active afterwards.       *)
ActivateDevice(h) ==
    /\ At(h, "ActivateDevice")
    /\ devices' = [devices EXCEPT ![calls[h].key][calls[h].device] = "active"]
    /\ Goto(h, "Notify")
    /\ UNCHANGED <<clock, licenses>>

(* The slip of not looking at the number of rows changed.                  *)
DeactivateDeviceUncounted(h) ==
    /\ At(h, "DeactivateDevice")
    /\ devices' = IF calls[h].device \in ActiveDevices(calls[h].key)
                  THEN [devices EXCEPT ![calls[h].key][calls[h].device] = "freed"]
                  ELSE devices
    /\ Goto(h, "Notify")
    /\ UNCHANGED <<clock, licenses>>

(* The slip of an UPDATE without "license_id = ?".                         *)
DeactivateDeviceEverywhere(h) ==
    /\ At(h, "DeactivateDevice")
    /\ IF calls[h].device \in ActiveDevices(calls[h].key)
       THEN /\ devices' = [l \in Licenses |->
                              IF calls[h].device \in ActiveDevices(l)
                              THEN [devices[l] EXCEPT ![calls[h].device] = "freed"]
                              ELSE devices[l]]
            /\ Goto(h, "Notify")
       ELSE Return(h, "not_found") /\ UNCHANGED devices
    /\ UNCHANGED <<clock, licenses>>

(* Only the request whose UPDATE changed the row goes on to tell of it.    *)
DeactivateDevice(h) ==
    /\ At(h, "DeactivateDevice")
    /\ IF calls[h].device \in ActiveDevices(calls[h].key)
       THEN /\ devices' = [devices EXCEPT ![calls[h].key][calls[h].device] = "freed"]
            /\ Goto(h, "Notify")
       ELSE Return(h, "not_found") /\ UNCHANGED devices
    /\ UNCHANGED <<clock, licenses>>

(* The event is handed to the notifier, which never blocks nor fails.      *)
Notify(h) ==
    /\ At(h, "Notify")
    /\ IF Deactivates(calls[h].op) THEN Return(h, "ok") ELSE Goto(h, "CountSeats")
    /\ UNCHANGED <<clock, licenses, devices>>

(* The slip of telling of a device seen again.                             *)
TouchDeviceTelling(h) ==
    /\ At(h, "TouchDevice")
    /\ Goto(h, "Notify")
    /\ UNCHANGED <<clock, licenses, devices>>

(* Refreshes last_seen_at by row id, whatever became of the row.           *)
TouchDevice(h) ==
    /\ At(h, "TouchDevice")
    /\ Goto(h, "CountSeats")
    /\ UNCHANGED <<clock, licenses, devices>>

(* The last count goes into the token, TokenOf(h), that is then signed.    *)
CountSeats(h) ==
    /\ At(h, "CountSeats")
    /\ calls' = [calls EXCEPT ![h].seats = ActiveDeviceCount(calls[h].key),
                              ![h].pc = "Respond",
                              ![h].answer = "token"]
    /\ UNCHANGED <<clock, licenses, devices>>

(* A statement fails: it changed nothing, but what the statements before   *)
(* it changed stays, for no handler opens a transaction.  The dashboard's  *)
(* own lookup answers an error page; the service's errors go to Return.    *)
StatementFails(h) ==
    /\ \E pc \in Statements : At(h, pc)
    /\ IF At(h, "GetLicense") THEN Reply(h, "internal_error") ELSE Return(h, "internal_error")
    /\ UNCHANGED <<clock, licenses, devices>>

Respond(h) ==
    /\ At(h, "Respond")
    /\ calls' = [calls EXCEPT ![h] = NoCall]
    /\ UNCHANGED <<clock, licenses, devices>>

-----------------------------------------------------------------------------
(* Requests of one statement, and the environment.                         *)

(* The slip of storing the number of the form as it is.                    *)
IssueLicenseUnclamped(l, n, expiresAt) ==
    /\ ~Issued(l)
    /\ licenses' = [licenses EXCEPT ![l] = [maxDevices |-> n,
                                            expiresAt  |-> expiresAt,
                                            revokedAt  |-> Never]]
    /\ UNCHANGED <<clock, devices, calls>>

(* handleLicenseCreate: a fresh key and id, nothing revoked.  Products are *)
(* never removed, so the lookup of the product before it decides nothing.  *)
IssueLicense(l, n, expiresAt) ==
    /\ ~Issued(l)
    /\ licenses' = [licenses EXCEPT ![l] = [maxDevices |-> ClampSeats(n),
                                            expiresAt  |-> expiresAt,
                                            revokedAt  |-> Never]]
    /\ UNCHANGED <<clock, devices, calls>>

(* The slip of an UPDATE without "revoked_at IS NULL".                     *)
RevokeLicenseAgain(l) ==
    /\ Issued(l)
    /\ licenses' = [licenses EXCEPT ![l].revokedAt = clock]
    /\ UNCHANGED <<clock, devices, calls>>

(* handleLicenseRevoke: the UPDATE matches a row not yet revoked; any      *)
(* other press of the button changes nothing.                              *)
RevokeLicense(l) ==
    /\ Issued(l)
    /\ licenses[l].revokedAt = Never
    /\ licenses' = [licenses EXCEPT ![l].revokedAt = clock]
    /\ UNCHANGED <<clock, devices, calls>>

Tick ==
    /\ clock < MaxClock
    /\ clock' = clock + 1
    /\ UNCHANGED <<licenses, devices, calls>>

(* The process stops and is started again: the tables stay, the requests   *)
(* and the events not handed over yet are gone.                            *)
Crash ==
    /\ calls' = [h \in Handlers |-> NoCall]
    /\ UNCHANGED <<clock, licenses, devices>>

-----------------------------------------------------------------------------

Init ==
    /\ clock = 0
    /\ licenses = [l \in Licenses |-> NoLicense]
    /\ devices = [l \in Licenses |-> [d \in Devices |-> "absent"]]
    /\ calls = [h \in Handlers |-> NoCall]

(* The next step of the request that handler h works on.                   *)
Proceed(h) ==
    \/ GetLicense(h)
    \/ GetLicenseByKey(h)
    \/ CheckStatus(h)
    \/ GetActiveDevice(h)
    \/ CheckSeats(h)
    \/ ActivateDevice(h)
    \/ DeactivateDevice(h)
    \/ Notify(h)
    \/ TouchDevice(h)
    \/ CountSeats(h)
    \/ StatementFails(h)
    \/ Respond(h)

Next ==
    \/ \E h \in Handlers, op \in Ops, l \in Licenses, d \in Devices : Receive(h, op, l, d)
    \/ \E h \in Handlers : Proceed(h)
    \/ \E l \in Licenses, n \in RequestedSeats, e \in Expiries : IssueLicense(l, n, e)
    \/ \E l \in Licenses : RevokeLicense(l)
    \/ Tick
    \/ Crash

Spec == Init /\ [][Next]_vars

-----------------------------------------------------------------------------
(* Properties.                                                             *)

(* The promise of the documentation: a license never has more active       *)
(* devices than its max_devices (service.Activate).  The count and the     *)
(* upsert are two statements, so this holds only while requests come one   *)
(* at a time.                                                              *)
SeatLimit == \A l \in Licenses : Issued(l) => ActiveDeviceCount(l) <= licenses[l].maxDevices

(* What the code keeps when requests overlap: the first activation to pass *)
(* the seat check can be joined by one activation of every other request,  *)
(* so the limit is exceeded by at most the number of requests less one.    *)
SeatOvershootBound ==
    \A l \in Licenses :
        Issued(l) => ActiveDeviceCount(l) <= licenses[l].maxDevices + Cardinality(Handlers) - 1

(* The requests that passed the seat check of l and have not taken the     *)
(* seat yet.                                                               *)
Reserving(l) == {h \in Handlers : At(h, "ActivateDevice") /\ calls[h].key = l}

(* The same bound with the seats that are about to be taken: this is what  *)
(* each step keeps.                                                        *)
SeatBudget ==
    \A l \in Licenses :
        Issued(l) => ActiveDeviceCount(l) + Cardinality(Reserving(l))
                         <= licenses[l].maxDevices + Cardinality(Handlers) - 1

(* Past the lookup a request works with the limit and the expiry that the  *)
(* license still has: only revoked_at can have changed since it was read.  *)
SnapshotAgrees ==
    \A h \in Handlers :
        (calls[h] # NoCall /\ calls[h].lic # NoLicense) =>
            /\ Issued(calls[h].key)
            /\ calls[h].lic.maxDevices = licenses[calls[h].key].maxDevices
            /\ calls[h].lic.expiresAt = licenses[calls[h].key].expiresAt
            /\ calls[h].lic.revokedAt \in {Never, licenses[calls[h].key].revokedAt}

(* The row was read, and the status of that row was checked at a time not  *)
(* in the future.                                                          *)
Checked(c) ==
    /\ c.lic # NoLicense
    /\ c.at <= clock
    /\ StatusOf(c.lic, c.at) = "active"

(* No step, and no token, comes before the reads and the checks it relies  *)
(* on, whichever way through the service a request takes.                  *)
ReadFirst(c) ==
    c # NoCall =>
        /\ c.pc # "Respond" => c.answer = "none"
        /\ c.pc \notin {"GetLicense", "GetLicenseByKey", "Respond"} => c.lic # NoLicense
        /\ c.pc = "DeactivateDevice" => Deactivates(c.op)
        /\ \/ c.pc \in {"GetActiveDevice", "CheckSeats", "ActivateDevice",
                       "TouchDevice", "CountSeats"}
           \/ c.pc = "Notify" /\ ~Deactivates(c.op)
           \/ c.answer = "token"
           => Checked(c)

ReadsComeFirst == \A h \in Handlers : ReadFirst(calls[h])

(* No device is active on a license that was never issued (the foreign key *)
(* of table devices).                                                      *)
SeatsAreIssued ==
    \A l \in Licenses : ~Issued(l) => \A d \in Devices : devices[l][d] = "absent"

(* Devices may be infinitely many, but only finitely many ever hold a seat.*)
FinitelyActive == \A l \in Licenses : IsFiniteSet(ActiveDevices(l))

(* The inductive invariant.  SeatBudget is kept because a request can pass *)
(* the seat check only while the license is not full; the rest says that   *)
(* what a request has read is still what the tables say, in whatever order *)
(* the statements of the requests come.                                    *)
IInv ==
    /\ TypeOK
    /\ FinitelyActive
    /\ SeatsAreIssued
    /\ ReadsComeFirst
    /\ SnapshotAgrees
    /\ SeatBudget

(* Any token a request has just been given, and that a client would accept *)
(* at this moment, is for a license that has not expired, however long the *)
(* request took between reading the row, reading the clock and signing.    *)
AcceptedTokenUnexpired ==
    \A h \in Handlers :
        LET tok == TokenOf(h) IN
        At(h, "Respond") /\ calls[h].answer = "token" /\ Accepts(tok.validUntil, clock) =>
            /\ ~ExpiredAt(licenses[tok.license].expiresAt, clock)
            /\ tok.status = "active"

(* A token counts the seat of its own device, and shows no more seats in   *)
(* use than the license has.  The count is a statement of its own, after   *)
(* the seat was taken or found, so this too needs requests one at a time.  *)
TokenSeatsInRange ==
    \A h \in Handlers :
        At(h, "Respond") /\ calls[h].answer = "token" =>
            TokenOf(h).seatsUsed \in 1..TokenOf(h).seatsMax

-----------------------------------------------------------------------------
(* The ledger these tables implement.                                      *)

Ledger == INSTANCE SeatLedger WITH
    SeatLimits <- {1} \cup {n \in RequestedSeats : n > 1},
    Slack      <- Cardinality(Handlers) - 1,
    limit      <- [l \in Licenses |-> IF Issued(l) THEN licenses[l].maxDevices ELSE 0],
    revoked    <- {l \in Licenses : Issued(l) /\ licenses[l].revokedAt # Never},
    seats      <- [l \in Licenses |-> ActiveDevices(l)]

(* Every step of the service is one of the ledger or changes nothing in    *)
(* it: seats are taken one device at a time and within the slack, freed    *)
(* one at a time, a license is issued once and revoked once.               *)
ImplementsLedger == Ledger!Spec
=============================================================================
