-------------------------------- MODULE Pages --------------------------------
(***************************************************************************)
(* The dashboard's pages over one database connection: the lists of        *)
(* products, licenses and devices, the forms that create them              *)
(* (internal/web/admin.go, internal/store/products.go, licenses.go,        *)
(* devices.go), and the pool that every statement waits for                *)
(* (internal/store/store.go).                                              *)
(*                                                                         *)
(* A statement holds the connection from Acquire until its result is read. *)
(* A list is read row by row and holds it for all that time.  The pages    *)
(* run several statements, one of them per license, so other requests come *)
(* in between.  The statements of the public API stand here as single      *)
(* writes of a device's row; Licensing has them one by one, and Admin the  *)
(* guard in front of the pages.                                            *)
(***************************************************************************)
EXTENDS Integers, FiniteSets

CONSTANTS
    Requests,     \* requests the server works on at one time
    Ops,          \* the requests considered
    Devices,      \* device ids
    LicenseKeys,  \* what GenerateLicenseKey may return
    MaxProducts,  \* bound on the products created
    MaxLicenses,  \* bound on the licenses created
    NoRequest     \* a goroutine between two requests

ASSUME PagesRequestsAssumption == IsFiniteSet(Requests) /\ Requests # {}
ASSUME PagesDevicesAssumption == IsFiniteSet(Devices)
ASSUME PagesBoundsAssumption == MaxProducts \in Nat /\ MaxLicenses \in Nat

Operations == {"products", "product", "license", "create_product", "create_license", "api"}

ASSUME PagesOpsAssumption == Ops \subseteq Operations

(* Products and licenses are known by their number in order of insertion.  *)
Ids == 1..(IF MaxProducts < MaxLicenses THEN MaxLicenses ELSE MaxProducts)

Lists == {"ListProducts", "ListLicenses", "ListDevices"}
Statements == Lists \cup {"GetProduct", "GetLicense", "ActiveDeviceCount",
                          "CreateProduct", "CreateLicense", "WriteDevice"}

(* The tables' rows.                                                       *)
Products == [id : Ids]
Licenses == [id : Ids, product : Ids, key : LicenseKeys]
Seats    == [license : Ids, device : Devices, active : BOOLEAN]

(* The number of active devices of a license, as a page shows it.          *)
Counts == [license : Ids, active : 0..Cardinality(Devices)]

RequestRecords ==
    [pc     : Statements \cup {"Respond"},
     op     : Ops,
     id     : Ids,                 \* the product or license of the URL
     rows   : SUBSET (Products \cup Licenses \cup Seats), \* of the list, read so far
     counts : SUBSET Counts,
     stale  : BOOLEAN,             \* history, see CountAgreesUnlessWritten
     answer : {"none", "page", "redirect", "not_found", "error"}]

ASSUME PagesSentinelAssumption == NoRequest \notin RequestRecords

VARIABLES
    products,  \* table products
    licenses,  \* table licenses
    devices,   \* table devices
    held,      \* the connections in use: by which request, for which statement
    requests   \* the request each goroutine works on

vars == <<products, licenses, devices, held, requests>>

TypeOK ==
    /\ products \subseteq Products
    /\ licenses \subseteq Licenses
    /\ \A l \in licenses : \E p \in products : p.id = l.product
    /\ devices \subseteq Seats
    /\ \A s \in devices : \E l \in licenses : l.id = s.license
    /\ held \subseteq Requests \X Statements
    /\ requests \in [Requests -> RequestRecords \cup {NoRequest}]

-----------------------------------------------------------------------------
(* Queries.  A list is sorted by a time its rows' writers took before they *)
(* had the connection; the order matters to nothing here and is left open. *)

SeatsOf(l) == {s \in devices : s.license = l}

(* What the list that request r reads holds now.                           *)
ListOf(r) ==
    CASE requests[r].pc = "ListProducts" -> products
      [] requests[r].pc = "ListLicenses" -> {l \in licenses : l.product = requests[r].id}
      [] requests[r].pc = "ListDevices"  -> SeatsOf(requests[r].id)

Active(seats) == Cardinality({s \in seats : s.active})

Exists(table, id) == \E row \in table : row.id = id

At(r, pc) == requests[r] # NoRequest /\ requests[r].pc = pc

-----------------------------------------------------------------------------
(* The pool.                                                               *)

(* The slip of leaving the pool unlimited, as it is by default.            *)
MaxOpenConnsUnset == 2

MaxOpenConns == 1

(* A statement waits for a connection; whoever waits may get the next one. *)
Acquire(r) ==
    /\ \E pc \in Statements : At(r, pc) /\ <<r, pc>> \notin held /\ held' = held \cup {<<r, pc>>}
    /\ Cardinality(held) < MaxOpenConns
    /\ UNCHANGED <<products, licenses, devices, requests>>

(* Request r has a connection for the statement pc it is at.               *)
Executes(r, pc) == At(r, pc) /\ <<r, pc>> \in held

Release(r) == held' = held \ ({r} \X Statements)

Goto(r, pc) == requests' = [requests EXCEPT ![r].pc = pc]

Reply(r, answer) ==
    requests' = [requests EXCEPT ![r].pc = "Respond", ![r].answer = answer]

-----------------------------------------------------------------------------
(* Statements.                                                             *)

FirstStatement(op) ==
    CASE op = "products"                     -> "ListProducts"
      [] op \in {"product", "create_license"} -> "GetProduct"
      [] op = "license"                      -> "GetLicense"
      [] op = "create_product"               -> "CreateProduct"
      [] op = "api"                          -> "WriteDevice"

(* The API finds the licenses it is asked about; the pages look theirs up. *)
Receive(r, op, id) ==
    /\ requests[r] = NoRequest
    /\ op = "api" => Exists(licenses, id)
    /\ requests' = [requests EXCEPT ![r] =
                       [pc |-> FirstStatement(op), op |-> op, id |-> id, rows |-> {},
                        counts |-> {}, stale |-> FALSE, answer |-> "none"]]
    /\ UNCHANGED <<products, licenses, devices, held>>

(* The slip of a form that does not look for its product, on a database    *)
(* without foreign keys.                                                   *)
GetProductUnchecked(r) ==
    /\ Executes(r, "GetProduct")
    /\ Goto(r, IF requests[r].op = "product" THEN "ListLicenses" ELSE "CreateLicense")
    /\ Release(r)
    /\ UNCHANGED <<products, licenses, devices>>

GetProduct(r) ==
    /\ Executes(r, "GetProduct")
    /\ IF Exists(products, requests[r].id)
       THEN Goto(r, IF requests[r].op = "product" THEN "ListLicenses" ELSE "CreateLicense")
       ELSE Reply(r, "not_found")
    /\ Release(r)
    /\ UNCHANGED <<products, licenses, devices>>

GetLicense(r) ==
    /\ Executes(r, "GetLicense")
    /\ IF Exists(licenses, requests[r].id)
       THEN Goto(r, "ListDevices") ELSE Reply(r, "not_found")
    /\ Release(r)
    /\ UNCHANGED <<products, licenses, devices>>

(* The slip of counting the devices of a license as soon as its row is     *)
(* read, with the list still open.                                         *)
NextRowCounting(r) ==
    /\ \E pc \in Lists : Executes(r, pc)
    /\ \E row \in ListOf(r) \ requests[r].rows :
          requests' = [requests EXCEPT ![r].rows = @ \cup {row},
                                       ![r].pc = IF @ = "ListLicenses"
                                                 THEN "ActiveDeviceCount" ELSE @]
    /\ UNCHANGED <<products, licenses, devices, held>>

(* rows.Next and rows.Scan: the connection stays with the list.            *)
NextRow(r) ==
    /\ \E pc \in Lists : Executes(r, pc)
    /\ \E row \in ListOf(r) \ requests[r].rows :
          requests' = [requests EXCEPT ![r].rows = @ \cup {row}]
    /\ UNCHANGED <<products, licenses, devices, held>>

(* The end of the list closes it.                                          *)
EndRows(r) ==
    /\ \E pc \in Lists : Executes(r, pc)
    /\ ListOf(r) \subseteq requests[r].rows
    /\ IF requests[r].op = "license" \/ (requests[r].op = "product" /\ requests[r].rows # {})
       THEN Goto(r, "ActiveDeviceCount") ELSE Reply(r, "page")
    /\ Release(r)
    /\ UNCHANGED <<products, licenses, devices>>

(* The slip of counting the rows of freed devices too.                     *)
ActiveDeviceCountOfAllRows(l) == Cardinality(SeatsOf(l))

ActiveDeviceCount(l) == Active(SeatsOf(l))

(* The licenses a page counts the devices of: its own, or all it lists.    *)
Shown(req) == IF req.op = "product" THEN {row.id : row \in req.rows} ELSE {req.id}

(* toLicenseView, a statement for each license shown.                      *)
CountDevices(r, l) ==
    LET req  == requests[r]
        left == Shown(req) \ {c.license : c \in req.counts}
    IN  /\ Executes(r, "ActiveDeviceCount")
        /\ l \in left
        /\ requests' = [requests EXCEPT
               ![r].counts = @ \cup {[license |-> l, active |-> ActiveDeviceCount(l)]},
               ![r].pc     = IF left = {l} THEN "Respond" ELSE @,
               ![r].answer = IF left = {l} THEN "page" ELSE @]
        /\ Release(r)
        /\ UNCHANGED <<products, licenses, devices>>

CreateProduct(r) ==
    /\ Executes(r, "CreateProduct")
    /\ Cardinality(products) < MaxProducts
    /\ products' = products \cup {[id |-> Cardinality(products) + 1]}
    /\ Reply(r, "redirect")
    /\ Release(r)
    /\ UNCHANGED <<licenses, devices>>

NewLicense(r, key) ==
    [id |-> Cardinality(licenses) + 1, product |-> requests[r].id, key |-> key]

(* A key drawn before is refused by the table (ErrKeyExists); the form is  *)
(* answered with an error and no other key is tried.                       *)
CreateLicense(r, key) ==
    /\ Executes(r, "CreateLicense")
    /\ Cardinality(licenses) < MaxLicenses
    /\ IF \E l \in licenses : l.key = key
       THEN Reply(r, "error") /\ UNCHANGED licenses
       ELSE Reply(r, "redirect") /\ licenses' = licenses \cup {NewLicense(r, key)}
    /\ Release(r)
    /\ UNCHANGED <<products, devices>>

(* The row of a device, inserted or changed by the API: an activation      *)
(* makes it active, a deactivation frees it if it is there.  A license     *)
(* page that has its list and not yet its count has become stale.          *)
WriteDevice(r, d, active) ==
    LET l   == requests[r].id
        old == {s \in devices : s.license = l /\ s.device = d}
    IN  /\ Executes(r, "WriteDevice")
        /\ devices' = IF old = {} /\ ~active THEN devices
                      ELSE (devices \ old)
                           \cup {[license |-> l, device |-> d, active |-> active]}
        /\ requests' = [o \in Requests |->
               IF o = r THEN [requests[o] EXCEPT !.pc = "Respond", !.answer = "page"]
               ELSE IF At(o, "ActiveDeviceCount") /\ requests[o].op = "license"
                       /\ requests[o].id = l
                    THEN [requests[o] EXCEPT !.stale = TRUE]
                    ELSE requests[o]]
        /\ Release(r)
        /\ UNCHANGED <<products, licenses>>

(* A statement, or the reading of a row, fails; the deferred Close gives   *)
(* the connection back, and the page is answered with an error.            *)
StatementFails(r) ==
    /\ \E pc \in Statements : Executes(r, pc)
    /\ Reply(r, "error")
    /\ Release(r)
    /\ UNCHANGED <<products, licenses, devices>>

Respond(r) ==
    /\ At(r, "Respond")
    /\ requests' = [requests EXCEPT ![r] = NoRequest]
    /\ UNCHANGED <<products, licenses, devices, held>>

(* The process stops and is started again.                                 *)
Crash ==
    /\ requests' = [r \in Requests |-> NoRequest]
    /\ held' = {}
    /\ UNCHANGED <<products, licenses, devices>>

-----------------------------------------------------------------------------

Init ==
    /\ products = {}
    /\ licenses = {}
    /\ devices = {}
    /\ held = {}
    /\ requests = [r \in Requests |-> NoRequest]

(* The next step of request r, once it has the connection if it needs it.  *)
Proceed(r) ==
    \/ GetProduct(r)
    \/ GetLicense(r)
    \/ NextRow(r)
    \/ EndRows(r)
    \/ \E l \in Ids : CountDevices(r, l)
    \/ CreateProduct(r)
    \/ \E key \in LicenseKeys : CreateLicense(r, key)
    \/ \E d \in Devices, active \in BOOLEAN : WriteDevice(r, d, active)
    \/ StatementFails(r)
    \/ Respond(r)

Next ==
    \/ \E r \in Requests, op \in Ops, id \in Ids : Receive(r, op, id)
    \/ \E r \in Requests : Acquire(r)
    \/ \E r \in Requests : Proceed(r)
    \/ Crash

(* A goroutine that can go on does.  A connection that is given back goes  *)
(* to a waiting request chosen at random (database/sql), so one that keeps *)
(* waiting gets it in the end: strong fairness.                            *)
Fairness == \A r \in Requests : SF_vars(Acquire(r)) /\ WF_vars(Proceed(r))

Spec == Init /\ [][Next]_vars /\ Fairness

-----------------------------------------------------------------------------
(* Properties.                                                             *)

(* Request r has a list open: its statement was run, its rows not closed.  *)
Listing(r) == \E pc \in Lists : Executes(r, pc)

(* While a list is open, nobody changes what it lists: from the first row  *)
(* to the last no row of it is inserted, changed or deleted, by whichever  *)
(* request.  With more connections a write would meet the open list, and   *)
(* SQLite would refuse it as busy, which is what the single connection is  *)
(* for (store.Open).                                                       *)
NobodyWritesUnderAList ==
    [][ \A r \in Requests : Listing(r) /\ Listing(r)' => ListOf(r)' = ListOf(r) ]_vars

(* The page of a license lists its devices and then counts the active ones *)
(* in a statement of its own (handleLicenseDetail): the two disagree only  *)
(* when a device of the license was written between them.                  *)
CountAgreesUnlessWritten ==
    \A r \in Requests :
        LET req == requests[r] IN
        At(r, "Respond") /\ req.op = "license" /\ req.answer = "page" =>
            req.stale \/ \A c \in req.counts : c.active = Active(req.rows)

(* Every request is answered, or ended by a crash: none waits for ever for *)
(* a connection, and none waits for the one it holds itself.               *)
EveryRequestEnds ==
    \A r \in Requests : requests[r] # NoRequest ~> requests[r] = NoRequest
=============================================================================
