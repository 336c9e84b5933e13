------------------------------ MODULE PagesProof ------------------------------
(* Theorems about Pages, for any requests, devices and keys and any bounds *)
(* on the products and licenses.                                           *)
EXTENDS Pages, FiniteSetTheorems, TLAPS

-----------------------------------------------------------------------------
(* The inductive invariant.                                                *)

(* The connection is used by one statement, that of a request at it.       *)
PoolInv ==
    \/ held = {}
    \/ \E r \in Requests, pc \in Statements : held = {<<r, pc>>} /\ At(r, pc)

(* The primary key of table devices.                                       *)
OneRowEach ==
    \A s, t \in devices : s.license = t.license /\ s.device = t.device => s = t

(* What a request has read of a list is in it, and it has read nothing yet *)
(* unless it holds the connection; the page of a license that no write has *)
(* overtaken has the rows of now until it counts them.                     *)
Sound(r) ==
    LET q == requests[r] IN
    /\ q.pc \notin Lists \cup {"ActiveDeviceCount", "Respond"} => q.rows = {}
    /\ q.pc \notin {"ActiveDeviceCount", "Respond"} => q.counts = {}
    /\ q.op = "license" => q.pc \in {"GetLicense", "ListDevices", "ActiveDeviceCount", "Respond"}
    /\ q.pc = "CreateLicense" => Exists(products, q.id)
    /\ q.pc = "WriteDevice" => Exists(licenses, q.id)
    /\ q.pc \in Lists => q.rows \subseteq ListOf(r)
    /\ q.pc \in Lists /\ <<r, q.pc>> \notin held => q.rows = {}
    /\ q.op = "license" /\ q.pc = "ActiveDeviceCount" /\ ~q.stale => q.rows = SeatsOf(q.id)
    /\ q.op = "license" /\ ~q.stale => \A c \in q.counts : c.active = Active(q.rows)

PagesIInv ==
    /\ TypeOK
    /\ IsFiniteSet(products) /\ IsFiniteSet(licenses)
    /\ OneRowEach
    /\ PoolInv
    /\ \A r \in Requests : requests[r] # NoRequest => Sound(r)

-----------------------------------------------------------------------------
(* Lists, counts and the pool.                                             *)

(* What each list lists.                                                   *)
LEMMA ListsOf ==
  ASSUME NEW r \in Requests
  PROVE  /\ requests[r].pc = "ListProducts" => ListOf(r) = products
         /\ requests[r].pc = "ListLicenses" =>
               ListOf(r) = {l \in licenses : l.product = requests[r].id}
         /\ requests[r].pc = "ListDevices" => ListOf(r) = SeatsOf(requests[r].id)
  BY DEF ListOf

(* Where each request begins.                                              *)
LEMMA FirstOf ==
  ASSUME NEW op \in Ops
  PROVE  /\ op = "products" => FirstStatement(op) = "ListProducts"
         /\ op \in {"product", "create_license"} => FirstStatement(op) = "GetProduct"
         /\ op = "license" => FirstStatement(op) = "GetLicense"
         /\ op = "create_product" => FirstStatement(op) = "CreateProduct"
         /\ op = "api" => FirstStatement(op) = "WriteDevice"
  BY DEF FirstStatement

(* A license has at most one active row of each device.                    *)
LEMMA CountInRange ==
  ASSUME TypeOK, OneRowEach, NEW l \in Ids
  PROVE  ActiveDeviceCount(l) \in 0..Cardinality(Devices)
<1> DEFINE S == {s \in SeatsOf(l) : s.active}
           f == [s \in S |-> s.device]
<1>1. f \in [S -> Devices]
  BY DEF TypeOK, SeatsOf, Seats
<1>2. \A s, t \in S : f[s] = f[t] => s = t
  BY DEF OneRowEach, SeatsOf
<1>3. f \in Injection(S, Devices)
  BY <1>1, <1>2 DEF Injection, IsInjective
<1> HIDE DEF f
<1>4. /\ IsFiniteSet(S) /\ Cardinality(S) <= Cardinality(Devices)
      /\ Cardinality(S) \in Nat /\ Cardinality(Devices) \in Nat
  BY <1>3, PagesDevicesAssumption, FS_Injection, FS_CardinalityType
<1> QED
  BY <1>4 DEF ActiveDeviceCount, Active

(* The request that executes a statement has the connection to itself.     *)
LEMMA OnlyExecutor ==
  ASSUME PoolInv, NEW r \in Requests, NEW pc \in Statements, Executes(r, pc)
  PROVE  /\ held = {<<r, pc>>}
         /\ Release(r) => held' = {}
         /\ \A o \in Requests, x \in Statements : o # r => <<o, x>> \notin held
  BY DEF PoolInv, Executes, Release

(* A request moves to another statement, or is answered.                   *)
LEMMA GotoType ==
  ASSUME TypeOK, NEW r \in Requests, requests[r] # NoRequest,
         NEW pc \in Statements \cup {"Respond"}, Goto(r, pc)
  PROVE  /\ requests' \in [Requests -> RequestRecords \cup {NoRequest}]
         /\ requests'[r] \in RequestRecords /\ requests'[r] # NoRequest
         /\ requests'[r].pc = pc
         /\ requests'[r].op = requests[r].op /\ requests'[r].id = requests[r].id
         /\ requests'[r].rows = requests[r].rows /\ requests'[r].counts = requests[r].counts
         /\ requests'[r].stale = requests[r].stale
         /\ \A o \in Requests : o # r => requests'[o] = requests[o]
<1>1. requests'[r] = [requests[r] EXCEPT !.pc = pc] /\ requests[r] \in RequestRecords
  BY DEF TypeOK, Goto
<1>2. requests'[r] \in RequestRecords
  BY <1>1 DEF RequestRecords
<1> QED
  BY <1>1, <1>2, PagesSentinelAssumption DEF TypeOK, Goto, RequestRecords

(* ... and keeps what it has read.                                        *)
LEMMA ReplyType ==
  ASSUME TypeOK, NEW r \in Requests, requests[r] # NoRequest,
         NEW answer \in {"page", "redirect", "not_found", "error"}, Reply(r, answer)
  PROVE  /\ requests' \in [Requests -> RequestRecords \cup {NoRequest}]
         /\ requests'[r] \in RequestRecords /\ requests'[r] # NoRequest
         /\ requests'[r].pc = "Respond"
         /\ requests'[r].op = requests[r].op /\ requests'[r].id = requests[r].id
         /\ requests'[r].rows = requests[r].rows /\ requests'[r].counts = requests[r].counts
         /\ requests'[r].stale = requests[r].stale
         /\ \A o \in Requests : o # r => requests'[o] = requests[o]
<1>1. /\ requests'[r] = [requests[r] EXCEPT !.pc = "Respond", !.answer = answer]
      /\ requests[r] \in RequestRecords
  BY DEF TypeOK, Reply
<1>2. requests'[r] \in RequestRecords
  BY <1>1 DEF RequestRecords
<1> QED
  BY <1>1, <1>2, PagesSentinelAssumption DEF TypeOK, Reply, RequestRecords

(* A request that does not move stays sound as long as the tables stay, or *)
(* it has no list open and no count to make of rows that changed.          *)
LEMMA StaysSound ==
  ASSUME NEW o \in Requests, requests[o] # NoRequest, Sound(o), requests'[o] = requests[o],
         \/ UNCHANGED <<products, licenses, devices>> /\ held \subseteq held'
         \/ \A pc \in Lists : <<o, pc>> \notin held,
         /\ \A p \in products : p \in products'
         /\ \A l \in licenses : l \in licenses',
         requests[o].op = "license" /\ requests[o].pc = "ActiveDeviceCount" =>
             SeatsOf(requests[o].id)' = SeatsOf(requests[o].id)
  PROVE  Sound(o)'
<1>1. requests[o].pc \in Lists => requests'[o].rows \subseteq ListOf(o)'
  <2>1. CASE UNCHANGED <<products, licenses, devices>>
    <3>1. requests[o].pc \in Lists => ListOf(o)' = ListOf(o)
      BY <2>1 DEF ListOf, SeatsOf, Lists
    <3> QED
      BY <3>1 DEF Sound
  <2>2. CASE \A pc \in Lists : <<o, pc>> \notin held
    BY <2>2 DEF Sound
  <2> QED
    BY <2>1, <2>2
<1>2. requests[o].pc \in Lists /\ <<o, requests[o].pc>> \notin held' => requests'[o].rows = {}
  BY DEF Sound
<1>3. Exists(products, requests[o].id) => Exists(products, requests[o].id)'
  BY DEF Exists
<1>4. Exists(licenses, requests[o].id) => Exists(licenses, requests[o].id)'
  BY DEF Exists
<1>5. (Active(requests[o].rows))' = Active(requests[o].rows)
  BY DEF Active
<1> QED
  BY <1>1, <1>2, <1>3, <1>4, <1>5 DEF Sound

(* A step of one request that writes no table keeps the invariant if it    *)
(* leaves that request sound and gives nobody else's connection away.      *)
LEMMA OthersStaySound ==
  ASSUME PagesIInv, NEW r \in Requests, UNCHANGED <<products, licenses, devices>>,
         requests' \in [Requests -> RequestRecords \cup {NoRequest}],
         held' \subseteq Requests \X Statements, PoolInv',
         \A o \in Requests : o # r => requests'[o] = requests[o],
         \/ held \subseteq held'
         \/ \A o \in Requests, pc \in Statements : o # r => <<o, pc>> \notin held,
         requests'[r] # NoRequest => Sound(r)'
  PROVE  PagesIInv'
<1>1. TypeOK'
  BY DEF PagesIInv, TypeOK
<1>2. OneRowEach'
  BY DEF PagesIInv, OneRowEach
<1>3. IsFiniteSet(products)' /\ IsFiniteSet(licenses)'
  BY DEF PagesIInv
<1>4. ASSUME NEW o \in Requests, o # r, requests'[o] # NoRequest
      PROVE  Sound(o)'
  <2>1. requests[o] # NoRequest /\ requests'[o] = requests[o] /\ Sound(o)
    BY <1>4 DEF PagesIInv
  <2>2. SeatsOf(requests[o].id)' = SeatsOf(requests[o].id)
    BY <2>1 DEF SeatsOf
  <2>3. held \subseteq held' \/ \A pc \in Lists : <<o, pc>> \notin held
    BY <1>4 DEF Statements
  <2> QED
    BY <2>1, <2>2, <2>3, StaysSound
<1> QED
  BY <1>1, <1>2, <1>3, <1>4 DEF PagesIInv

(* Nothing about the pool changes for the others when a request at a       *)
(* statement of its own gives its connection back.                         *)
LEMMA ReleaseFrame ==
  ASSUME PagesIInv, NEW r \in Requests, NEW pc \in Statements, Executes(r, pc), Release(r)
  PROVE  /\ held' = {} /\ PoolInv' /\ held' \subseteq Requests \X Statements
         /\ \A o \in Requests, x \in Statements : o # r => <<o, x>> \notin held
         /\ requests[r] \in RequestRecords /\ requests[r] # NoRequest /\ requests[r].pc = pc
         /\ Sound(r)
<1>1. requests[r] # NoRequest /\ requests[r].pc = pc
  BY DEF Executes, At
<1>2. held' = {} /\ \A o \in Requests, x \in Statements : o # r => <<o, x>> \notin held
  BY OnlyExecutor DEF PagesIInv
<1> QED
  BY <1>1, <1>2 DEF PagesIInv, TypeOK, PoolInv

(* A request that is answered is sound.                                    *)
LEMMA AnsweredSound ==
  ASSUME NEW r \in Requests, Sound(r), requests'[r].pc = "Respond",
         requests'[r].op = requests[r].op, requests'[r].stale = requests[r].stale,
         requests'[r].rows = requests[r].rows, requests'[r].counts = requests[r].counts
  PROVE  Sound(r)'
<1>1. requests'[r].op = "license" /\ ~requests'[r].stale =>
          \A c \in requests'[r].counts : c.active = Active(requests'[r].rows)
  BY DEF Sound
<1>2. \A S : Active(S)' = Cardinality({s \in S' : s.active})
  BY DEF Active
<1> QED
  BY <1>1 DEF Sound, Lists, Active

-----------------------------------------------------------------------------
(* Steps.                                                                  *)

(* A request that arrives has read nothing.                                *)
LEMMA ReceiveStep ==
  ASSUME PagesIInv, NEW r \in Requests, NEW op \in Ops, NEW id \in Ids, Receive(r, op, id)
  PROVE  PagesIInv'
<1> DEFINE q == [pc |-> FirstStatement(op), op |-> op, id |-> id, rows |-> {},
                 counts |-> {}, stale |-> FALSE, answer |-> "none"]
<1>1. /\ requests'[r] = q /\ requests[r] = NoRequest
      /\ \A o \in Requests : o # r => requests'[o] = requests[o]
  BY DEF Receive, PagesIInv, TypeOK
<1>2. op \in Operations /\ FirstStatement(op) \in Statements
  BY FirstOf, PagesOpsAssumption DEF Operations, Statements, Lists
<1>3. q \in RequestRecords
  BY <1>2 DEF RequestRecords
<1>4. requests' \in [Requests -> RequestRecords \cup {NoRequest}]
  BY <1>3 DEF Receive, PagesIInv, TypeOK
<1>5. PoolInv' /\ held' \subseteq Requests \X Statements
  BY <1>1 DEF PagesIInv, TypeOK, PoolInv, Receive, At
<1>6. Sound(r)'
  <2>1. /\ requests'[r].pc = FirstStatement(op) /\ requests'[r].op = op
        /\ requests'[r].id = id /\ requests'[r].rows = {} /\ requests'[r].counts = {}
    BY <1>1
  <2>2. FirstStatement(op) \notin {"ActiveDeviceCount", "CreateLicense", "Respond"}
    BY <1>2, FirstOf DEF Operations
  <2>3. FirstStatement(op) = "WriteDevice" => Exists(licenses, id)'
    BY <1>2, FirstOf DEF Receive, Exists, Operations
  <2> QED
    BY <2>1, <2>2, <2>3, FirstOf DEF Sound
<1> QED
  BY <1>1, <1>4, <1>5, <1>6, OthersStaySound DEF Receive

(* The connection is given out when nobody has it.                         *)
LEMMA AcquireStep ==
  ASSUME PagesIInv, NEW r \in Requests, Acquire(r)
  PROVE  PagesIInv'
<1>1. PICK pc \in Statements : At(r, pc) /\ held' = held \cup {<<r, pc>>}
  BY DEF Acquire
<1>2. held = {}
  <2>1. SUFFICES ASSUME NEW x, held = {x}
                 PROVE  FALSE
    BY DEF PagesIInv, PoolInv
  <2>2. Cardinality(held) = 1
    BY <2>1, FS_Singleton
  <2> QED
    BY <2>2 DEF Acquire, MaxOpenConns
<1>3. PoolInv' /\ held' \subseteq Requests \X Statements
  BY <1>1, <1>2 DEF PoolInv, Acquire, At
<1>4. Sound(r)'
  <2>1. Sound(r) /\ requests[r] # NoRequest /\ requests'[r] = requests[r]
    BY <1>1 DEF PagesIInv, At, Acquire
  <2>2. SeatsOf(requests[r].id)' = SeatsOf(requests[r].id)
    BY DEF SeatsOf, Acquire
  <2> QED
    BY <1>1, <2>1, <2>2, StaysSound DEF Acquire
<1> QED
  BY <1>1, <1>3, <1>4, OthersStaySound DEF Acquire, PagesIInv, TypeOK

(* The look-ups lead to a list or a form's insert, or to no page.          *)
LEMMA GetProductStep ==
  ASSUME PagesIInv, NEW r \in Requests, GetProduct(r)
  PROVE  PagesIInv'
<1> "GetProduct" \in Statements /\ Executes(r, "GetProduct") /\ Release(r)
  BY DEF GetProduct, Statements
<1>1. /\ held' = {} /\ PoolInv' /\ held' \subseteq Requests \X Statements
      /\ \A o \in Requests, x \in Statements : o # r => <<o, x>> \notin held
      /\ requests[r] \in RequestRecords /\ requests[r] # NoRequest
      /\ requests[r].pc = "GetProduct" /\ Sound(r)
  BY ReleaseFrame
<1>2. CASE Exists(products, requests[r].id)
  <2> DEFINE pc == IF requests[r].op = "product" THEN "ListLicenses" ELSE "CreateLicense"
  <2>1. Goto(r, pc) /\ pc \in Statements \cup {"Respond"}
    BY <1>2 DEF GetProduct, Statements, Lists
  <2> HIDE DEF pc
  <2>2. /\ requests' \in [Requests -> RequestRecords \cup {NoRequest}]
        /\ requests'[r].pc = pc /\ requests'[r].op = requests[r].op
        /\ requests'[r].id = requests[r].id /\ requests'[r].rows = requests[r].rows
        /\ requests'[r].counts = requests[r].counts
        /\ \A o \in Requests : o # r => requests'[o] = requests[o]
    BY <1>1, <2>1, GotoType DEF PagesIInv
  <2>3. pc = "ListLicenses" \/ pc = "CreateLicense"
    BY DEF pc
  <2>4. requests[r].rows = {} /\ requests[r].counts = {} /\ requests[r].op # "license"
    BY <1>1 DEF Sound, Lists
  <2>5. Exists(products, requests[r].id)'
    BY <1>2, <2>2 DEF Exists, GetProduct
  <2>6. Sound(r)'
    BY <2>2, <2>3, <2>4, <2>5 DEF Sound, Lists
  <2> QED
    BY <1>1, <2>2, <2>6, OthersStaySound DEF GetProduct
<1>3. CASE ~Exists(products, requests[r].id)
  <2>1. Reply(r, "not_found")
    BY <1>3 DEF GetProduct
  <2>2. /\ requests' \in [Requests -> RequestRecords \cup {NoRequest}] /\ Sound(r)'
        /\ \A o \in Requests : o # r => requests'[o] = requests[o]
    BY <1>1, <2>1, ReplyType, AnsweredSound DEF PagesIInv
  <2> QED
    BY <1>1, <2>2, OthersStaySound DEF GetProduct
<1> QED
  BY <1>2, <1>3

(* The license page goes on to its list.                                   *)
LEMMA GetLicenseStep ==
  ASSUME PagesIInv, NEW r \in Requests, GetLicense(r)
  PROVE  PagesIInv'
<1> "GetLicense" \in Statements /\ Executes(r, "GetLicense") /\ Release(r)
  BY DEF GetLicense, Statements
<1>1. /\ held' = {} /\ PoolInv' /\ held' \subseteq Requests \X Statements
      /\ \A o \in Requests, x \in Statements : o # r => <<o, x>> \notin held
      /\ requests[r] \in RequestRecords /\ requests[r] # NoRequest
      /\ requests[r].pc = "GetLicense" /\ Sound(r)
  BY ReleaseFrame
<1>2. CASE Exists(licenses, requests[r].id)
  <2>1. Goto(r, "ListDevices") /\ "ListDevices" \in Statements \cup {"Respond"}
    BY <1>2 DEF GetLicense, Statements, Lists
  <2>2. /\ requests' \in [Requests -> RequestRecords \cup {NoRequest}]
        /\ requests'[r].pc = "ListDevices" /\ requests'[r].op = requests[r].op
        /\ requests'[r].id = requests[r].id /\ requests'[r].rows = requests[r].rows
        /\ requests'[r].counts = requests[r].counts
        /\ \A o \in Requests : o # r => requests'[o] = requests[o]
    BY <1>1, <2>1, GotoType DEF PagesIInv
  <2>3. requests[r].rows = {} /\ requests[r].counts = {}
    BY <1>1 DEF Sound, Lists
  <2>4. Sound(r)'
    BY <2>2, <2>3 DEF Sound
  <2> QED
    BY <1>1, <2>2, <2>4, OthersStaySound DEF GetLicense
<1>3. CASE ~Exists(licenses, requests[r].id)
  <2>1. Reply(r, "not_found")
    BY <1>3 DEF GetLicense
  <2>2. /\ requests' \in [Requests -> RequestRecords \cup {NoRequest}] /\ Sound(r)'
        /\ \A o \in Requests : o # r => requests'[o] = requests[o]
    BY <1>1, <2>1, ReplyType, AnsweredSound DEF PagesIInv
  <2> QED
    BY <1>1, <2>2, OthersStaySound DEF GetLicense
<1> QED
  BY <1>2, <1>3

(* What a list lists is of the tables' rows, and a page's list is one.     *)
LEMMA ListTyped ==
  ASSUME TypeOK, NEW r \in Requests, requests[r] # NoRequest, requests[r].pc \in Lists
  PROVE  ListOf(r) \subseteq Products \cup Licenses \cup Seats
BY ListsOf DEF TypeOK, Lists, SeatsOf

(* A row is read off the list with the connection still held.              *)
LEMMA NextRowStep ==
  ASSUME PagesIInv, NEW r \in Requests, NextRow(r)
  PROVE  PagesIInv'
<1>1. PICK pc \in Lists : Executes(r, pc)
  BY DEF NextRow
<1>2. PICK row \in ListOf(r) \ requests[r].rows :
          requests' = [requests EXCEPT ![r].rows = @ \cup {row}]
  BY DEF NextRow
<1>3. /\ requests[r] \in RequestRecords /\ requests[r] # NoRequest
      /\ requests[r].pc = pc /\ Sound(r) /\ <<r, pc>> \in held
  BY <1>1 DEF Executes, At, PagesIInv, TypeOK
<1>4. /\ requests'[r] = [requests[r] EXCEPT !.rows = @ \cup {row}]
      /\ \A o \in Requests : o # r => requests'[o] = requests[o]
  BY <1>2, <1>3 DEF PagesIInv, TypeOK
<1>5. row \in Products \cup Licenses \cup Seats
  BY <1>2, <1>3, ListTyped DEF PagesIInv
<1>6. requests'[r] \in RequestRecords
  BY <1>3, <1>4, <1>5 DEF RequestRecords
<1>7. requests' \in [Requests -> RequestRecords \cup {NoRequest}]
  BY <1>2, <1>4, <1>6 DEF PagesIInv, TypeOK
<1>8. /\ requests'[r].pc = pc /\ requests'[r].op = requests[r].op
      /\ requests'[r].id = requests[r].id /\ requests'[r].rows = requests[r].rows \cup {row}
      /\ requests'[r].counts = requests[r].counts /\ requests'[r].stale = requests[r].stale
  BY <1>3, <1>4 DEF RequestRecords
<1>9. Sound(r)'
  <2>1. ListOf(r)' = ListOf(r)
    BY <1>3, <1>8 DEF ListOf, SeatsOf, NextRow, Lists
  <2>2. requests[r].counts = {}
    BY <1>3 DEF Sound, Lists
  <2> QED
    BY <1>2, <1>3, <1>8, <2>1, <2>2 DEF Sound, Lists, NextRow
<1>10. PoolInv' /\ held' \subseteq Requests \X Statements
  <2>1. held = {<<r, pc>>} /\ pc \in Statements
    BY <1>1, OnlyExecutor DEF PagesIInv, Statements
  <2>2. requests'[r] # NoRequest
    BY <1>6, PagesSentinelAssumption
  <2> QED
    BY <1>8, <2>1, <2>2 DEF PoolInv, NextRow, At
<1> QED
  BY <1>4, <1>7, <1>9, <1>10, OthersStaySound DEF NextRow

(* The license page that comes to the end of its list has read it all, as  *)
(* it is now.                                                              *)
LEMMA EndRowsStep ==
  ASSUME PagesIInv, NEW r \in Requests, EndRows(r)
  PROVE  PagesIInv'
<1>1. PICK pc \in Lists : Executes(r, pc)
  BY DEF EndRows
<1>2. /\ held' = {} /\ PoolInv' /\ held' \subseteq Requests \X Statements
      /\ \A o \in Requests, x \in Statements : o # r => <<o, x>> \notin held
      /\ requests[r] \in RequestRecords /\ requests[r] # NoRequest
      /\ requests[r].pc = pc /\ Sound(r)
  BY <1>1, ReleaseFrame DEF EndRows, Statements
<1>3. CASE Goto(r, "ActiveDeviceCount")
  <2>1. /\ requests' \in [Requests -> RequestRecords \cup {NoRequest}]
        /\ requests'[r].pc = "ActiveDeviceCount" /\ requests'[r].op = requests[r].op
        /\ requests'[r].id = requests[r].id /\ requests'[r].rows = requests[r].rows
        /\ requests'[r].counts = requests[r].counts
        /\ \A o \in Requests : o # r => requests'[o] = requests[o]
    <3>1. "ActiveDeviceCount" \in Statements \cup {"Respond"}
      BY DEF Statements
    <3> QED
      BY <1>2, <1>3, <3>1, GotoType DEF PagesIInv
  <2>2. requests[r].counts = {}
    BY <1>2 DEF Sound, Lists
  <2>3. requests[r].rows = ListOf(r)
    BY <1>2 DEF EndRows, Sound
  <2>4. requests[r].op = "license" => pc = "ListDevices"
    BY <1>2 DEF Sound, Lists
  <2>5. requests[r].op = "license" => requests[r].rows = SeatsOf(requests[r].id)
    BY <1>2, <2>3, <2>4, ListsOf
  <2>6. Sound(r)'
    BY <2>1, <2>2, <2>5 DEF Sound, Lists, SeatsOf, EndRows
  <2> QED
    BY <1>2, <2>1, <2>6, OthersStaySound DEF EndRows
<1>4. CASE Reply(r, "page")
  <2>1. /\ requests' \in [Requests -> RequestRecords \cup {NoRequest}] /\ Sound(r)'
        /\ \A o \in Requests : o # r => requests'[o] = requests[o]
    BY <1>2, <1>4, ReplyType, AnsweredSound DEF PagesIInv
  <2> QED
    BY <1>2, <2>1, OthersStaySound DEF EndRows
<1> QED
  BY <1>3, <1>4 DEF EndRows

(* The count of the license page is that of the rows it read.              *)
LEMMA CountDevicesStep ==
  ASSUME PagesIInv, NEW r \in Requests, NEW l \in Ids, CountDevices(r, l)
  PROVE  PagesIInv'
<1> DEFINE left == Shown(requests[r]) \ {c.license : c \in requests[r].counts}
           new  == [license |-> l, active |-> ActiveDeviceCount(l)]
           pc   == IF left = {l} THEN "Respond" ELSE requests[r].pc
           answer == IF left = {l} THEN "page" ELSE requests[r].answer
<1>1. /\ Executes(r, "ActiveDeviceCount") /\ l \in left /\ Release(r)
      /\ requests' = [requests EXCEPT ![r].counts = @ \cup {new}, ![r].pc = pc,
                                      ![r].answer = answer]
  BY DEF CountDevices, PagesIInv, TypeOK
<1>2. /\ held' = {} /\ PoolInv' /\ held' \subseteq Requests \X Statements
      /\ \A o \in Requests, x \in Statements : o # r => <<o, x>> \notin held
      /\ requests[r] \in RequestRecords /\ requests[r] # NoRequest
      /\ requests[r].pc = "ActiveDeviceCount" /\ Sound(r)
  BY <1>1, ReleaseFrame DEF Statements
<1>3. new \in Counts
  BY CountInRange DEF Counts, PagesIInv
<1> HIDE DEF new
<1>4. pc \in {"ActiveDeviceCount", "Respond"} /\ answer \in {"page", requests[r].answer}
  BY <1>2
<1> HIDE DEF pc, answer
<1>5. /\ requests'[r] = [requests[r] EXCEPT !.counts = @ \cup {new}, !.pc = pc,
                                            !.answer = answer]
      /\ \A o \in Requests : o # r => requests'[o] = requests[o]
  BY <1>1 DEF PagesIInv, TypeOK
<1>6. requests'[r] \in RequestRecords
  <2>1. requests[r].counts \cup {new} \in SUBSET Counts
    BY <1>2, <1>3 DEF RequestRecords
  <2>2. pc \in Statements \cup {"Respond"}
    BY <1>4 DEF Statements
  <2>3. answer \in {"none", "page", "redirect", "not_found", "error"}
    BY <1>2, <1>4 DEF RequestRecords
  <2> QED
    BY <1>2, <1>5, <2>1, <2>2, <2>3 DEF RequestRecords
<1>7. requests' \in [Requests -> RequestRecords \cup {NoRequest}]
  BY <1>1, <1>5, <1>6 DEF PagesIInv, TypeOK
<1>8. /\ requests'[r].pc = pc /\ requests'[r].op = requests[r].op
      /\ requests'[r].id = requests[r].id /\ requests'[r].rows = requests[r].rows
      /\ requests'[r].counts = requests[r].counts \cup {new}
      /\ requests'[r].stale = requests[r].stale
  BY <1>2, <1>5 DEF RequestRecords
<1>9. requests[r].op = "license" /\ ~requests[r].stale => new.active = Active(requests[r].rows)
  <2>1. SUFFICES ASSUME requests[r].op = "license", ~requests[r].stale
                 PROVE  new.active = Active(requests[r].rows)
    OBVIOUS
  <2>2. l = requests[r].id
    BY <1>1, <2>1 DEF Shown
  <2>3. requests[r].rows = SeatsOf(l)
    BY <1>2, <2>1, <2>2 DEF Sound
  <2> QED
    BY <2>3 DEF new, ActiveDeviceCount
<1>10. requests'[r].op = "license" /\ ~requests'[r].stale =>
           \A c \in requests'[r].counts : c.active = Active(requests'[r].rows)
  BY <1>2, <1>8, <1>9 DEF Sound
<1>11. UNCHANGED <<products, licenses, devices>>
  BY DEF CountDevices
<1>12. SeatsOf(requests[r].id) = {s \in devices' : s.license = requests'[r].id}
  BY <1>8, <1>11 DEF SeatsOf
<1>13. Sound(r)'
  BY <1>2, <1>4, <1>8, <1>10, <1>12 DEF Sound, Lists, SeatsOf, Active
<1> QED
  BY <1>2, <1>5, <1>7, <1>11, <1>13, OthersStaySound

(* A statement that fails, or a form that is refused, only answers.        *)
LEMMA AnswerStep ==
  ASSUME PagesIInv, NEW r \in Requests, NEW pc \in Statements, Executes(r, pc), Release(r),
         NEW answer \in {"page", "redirect", "not_found", "error"}, Reply(r, answer),
         UNCHANGED <<products, licenses, devices>>
  PROVE  PagesIInv'
<1>1. /\ held' = {} /\ PoolInv' /\ held' \subseteq Requests \X Statements
      /\ \A o \in Requests, x \in Statements : o # r => <<o, x>> \notin held
      /\ requests[r] \in RequestRecords /\ requests[r] # NoRequest /\ Sound(r)
  BY ReleaseFrame
<1>2. /\ requests' \in [Requests -> RequestRecords \cup {NoRequest}] /\ Sound(r)'
      /\ \A o \in Requests : o # r => requests'[o] = requests[o]
  BY <1>1, ReplyType, AnsweredSound DEF PagesIInv
<1> QED
  BY <1>1, <1>2, OthersStaySound

(* A product gets the next number.                                         *)
LEMMA CreateProductStep ==
  ASSUME PagesIInv, NEW r \in Requests, CreateProduct(r)
  PROVE  PagesIInv'
<1> "CreateProduct" \in Statements /\ Executes(r, "CreateProduct") /\ Release(r)
  BY DEF CreateProduct, Statements
<1> DEFINE row == [id |-> Cardinality(products) + 1]
<1>1. /\ held' = {} /\ PoolInv' /\ held' \subseteq Requests \X Statements
      /\ \A o \in Requests, x \in Statements : o # r => <<o, x>> \notin held
      /\ requests[r] \in RequestRecords /\ requests[r] # NoRequest
      /\ requests[r].pc = "CreateProduct" /\ Sound(r)
  BY ReleaseFrame
<1>2. /\ requests' \in [Requests -> RequestRecords \cup {NoRequest}] /\ Sound(r)'
      /\ \A o \in Requests : o # r => requests'[o] = requests[o]
  BY <1>1, ReplyType, AnsweredSound DEF PagesIInv, CreateProduct
<1>3. /\ products' = products \cup {row} /\ UNCHANGED <<licenses, devices>>
      /\ Cardinality(products) < MaxProducts
  BY DEF CreateProduct
<1>4. Cardinality(products) \in Nat
  BY FS_CardinalityType DEF PagesIInv
<1>5. Cardinality(products) + 1 \in Ids
  BY <1>3, <1>4, PagesBoundsAssumption DEF Ids
<1>6. row \in Products
  BY <1>5 DEF Products
<1> HIDE DEF row
<1>7. TypeOK'
  BY <1>1, <1>2, <1>3, <1>6 DEF PagesIInv, TypeOK
<1>8. IsFiniteSet(products)' /\ IsFiniteSet(licenses)'
  BY <1>3, FS_AddElement DEF PagesIInv
<1>9. OneRowEach'
  BY <1>3 DEF PagesIInv, OneRowEach
<1>10. ASSUME NEW o \in Requests, o # r, requests'[o] # NoRequest
       PROVE  Sound(o)'
  <2>1. requests[o] # NoRequest /\ requests'[o] = requests[o] /\ Sound(o)
    BY <1>2, <1>10 DEF PagesIInv
  <2>2. SeatsOf(requests[o].id)' = SeatsOf(requests[o].id)
    BY <1>3, <2>1 DEF SeatsOf
  <2>3. \A pc \in Lists : <<o, pc>> \notin held
    BY <1>1, <1>10 DEF Statements
  <2> QED
    BY <1>3, <2>1, <2>2, <2>3, StaysSound
<1> QED
  BY <1>1, <1>2, <1>7, <1>8, <1>9, <1>10 DEF PagesIInv

(* A license gets the next number, and its key only if no license has it.  *)
LEMMA CreateLicenseStep ==
  ASSUME PagesIInv, NEW r \in Requests, NEW key \in LicenseKeys, CreateLicense(r, key)
  PROVE  PagesIInv'
<1> "CreateLicense" \in Statements /\ Executes(r, "CreateLicense") /\ Release(r)
  BY DEF CreateLicense, Statements
<1> DEFINE row == NewLicense(r, key)
<1>1. /\ held' = {} /\ PoolInv' /\ held' \subseteq Requests \X Statements
      /\ \A o \in Requests, x \in Statements : o # r => <<o, x>> \notin held
      /\ requests[r] \in RequestRecords /\ requests[r] # NoRequest
      /\ requests[r].pc = "CreateLicense" /\ Sound(r)
  BY ReleaseFrame
<1>2. CASE \E l \in licenses : l.key = key
  BY <1>2, AnswerStep DEF CreateLicense
<1>3. CASE ~\E l \in licenses : l.key = key
  <2>1. /\ Reply(r, "redirect") /\ licenses' = licenses \cup {row}
        /\ UNCHANGED <<products, devices>> /\ Cardinality(licenses) < MaxLicenses
    BY <1>3 DEF CreateLicense
  <2>2. /\ requests' \in [Requests -> RequestRecords \cup {NoRequest}] /\ Sound(r)'
        /\ \A o \in Requests : o # r => requests'[o] = requests[o]
    BY <1>1, <2>1, ReplyType, AnsweredSound DEF PagesIInv
  <2>3. Cardinality(licenses) \in Nat
    BY FS_CardinalityType DEF PagesIInv
  <2>4. Cardinality(licenses) + 1 \in Ids
    BY <2>1, <2>3, PagesBoundsAssumption DEF Ids
  <2>5. row \in Licenses /\ row.product = requests[r].id /\ row.key = key
    BY <1>1, <2>4 DEF Licenses, NewLicense, RequestRecords
  <2>6. \E p \in products : p.id = row.product
    BY <1>1, <2>5 DEF Sound, Exists
  <2> HIDE DEF row
  <2>7. TypeOK'
    BY <1>1, <2>1, <2>2, <2>5, <2>6 DEF PagesIInv, TypeOK
  <2>8. IsFiniteSet(products)' /\ IsFiniteSet(licenses)'
    BY <2>1, FS_AddElement DEF PagesIInv
  <2>9. OneRowEach'
    BY <1>3, <2>1, <2>5 DEF PagesIInv, OneRowEach
  <2>10. ASSUME NEW o \in Requests, o # r, requests'[o] # NoRequest
         PROVE  Sound(o)'
    <3>1. requests[o] # NoRequest /\ requests'[o] = requests[o] /\ Sound(o)
      BY <2>2, <2>10 DEF PagesIInv
    <3>2. SeatsOf(requests[o].id)' = SeatsOf(requests[o].id)
      BY <2>1, <3>1 DEF SeatsOf
    <3>3. \A pc \in Lists : <<o, pc>> \notin held
      BY <1>1, <2>10 DEF Statements
    <3> QED
      BY <2>1, <3>1, <3>2, <3>3, StaysSound
  <2> QED
    BY <1>1, <2>2, <2>7, <2>8, <2>9, <2>10 DEF PagesIInv
<1> QED
  BY <1>2, <1>3

(* A write finds no list open, and makes stale the page of its license     *)
(* that has its list and not its count.                                    *)
LEMMA WriteDeviceStep ==
  ASSUME PagesIInv, NEW r \in Requests, NEW d \in Devices, NEW active \in BOOLEAN,
         WriteDevice(r, d, active)
  PROVE  PagesIInv'
<1> DEFINE l   == requests[r].id
           old == {s \in devices : s.license = l /\ s.device = d}
           new == [license |-> l, device |-> d, active |-> active]
           overtaken(o) == /\ At(o, "ActiveDeviceCount") /\ requests[o].op = "license"
                           /\ requests[o].id = l
<1> "WriteDevice" \in Statements /\ Executes(r, "WriteDevice") /\ Release(r)
  BY DEF WriteDevice, Statements
<1>1. /\ held' = {} /\ PoolInv' /\ held' \subseteq Requests \X Statements
      /\ \A o \in Requests, x \in Statements : o # r => <<o, x>> \notin held
      /\ requests[r] \in RequestRecords /\ requests[r] # NoRequest
      /\ requests[r].pc = "WriteDevice" /\ Sound(r)
  BY ReleaseFrame
<1>2. /\ devices' = IF old = {} /\ ~active THEN devices ELSE (devices \ old) \cup {new}
      /\ UNCHANGED <<products, licenses>>
      /\ requests' = [o \in Requests |->
             IF o = r THEN [requests[o] EXCEPT !.pc = "Respond", !.answer = "page"]
             ELSE IF overtaken(o) THEN [requests[o] EXCEPT !.stale = TRUE]
             ELSE requests[o]]
  BY DEF WriteDevice
<1>3. l \in Ids /\ Exists(licenses, l)
  BY <1>1 DEF RequestRecords, Sound
<1>4. new \in Seats /\ new.license = l /\ new.device = d
  BY <1>3 DEF Seats
<1> HIDE DEF new
<1>5. requests'[r] = [requests[r] EXCEPT !.pc = "Respond", !.answer = "page"]
  BY <1>2
<1>6. /\ requests'[r] \in RequestRecords /\ requests'[r].pc = "Respond"
      /\ requests'[r].op = requests[r].op /\ requests'[r].stale = requests[r].stale
      /\ requests'[r].rows = requests[r].rows /\ requests'[r].counts = requests[r].counts
  BY <1>1, <1>5 DEF RequestRecords
<1>7. ASSUME NEW o \in Requests, o # r, overtaken(o)
      PROVE  /\ requests'[o] \in RequestRecords
             /\ requests'[o].pc = "ActiveDeviceCount" /\ requests'[o].stale = TRUE
             /\ requests'[o].op = "license"
  <2>1. requests'[o] = [requests[o] EXCEPT !.stale = TRUE]
    BY <1>2, <1>7
  <2>2. requests[o] \in RequestRecords
    BY <1>7 DEF At, PagesIInv, TypeOK
  <2> QED
    BY <1>7, <2>1, <2>2 DEF RequestRecords, At
<1>8. ASSUME NEW o \in Requests, o # r, ~overtaken(o)
      PROVE  requests'[o] = requests[o]
  BY <1>2, <1>8
<1> HIDE DEF overtaken
<1>9. requests' \in [Requests -> RequestRecords \cup {NoRequest}]
  <2>1. requests' = [o \in Requests |-> requests'[o]]
    BY <1>2
  <2>2. \A o \in Requests : requests'[o] \in RequestRecords \cup {NoRequest}
    BY <1>6, <1>7, <1>8 DEF PagesIInv, TypeOK
  <2> QED
    BY <2>1, <2>2
<1>10. devices' \subseteq Seats /\ \A s \in devices' : \E k \in licenses : k.id = s.license
  BY <1>2, <1>3, <1>4 DEF PagesIInv, TypeOK, Exists
<1>11. TypeOK'
  BY <1>1, <1>2, <1>9, <1>10 DEF PagesIInv, TypeOK
<1>12. OneRowEach'
  BY <1>2, <1>4 DEF PagesIInv, OneRowEach
<1>13. IsFiniteSet(products)' /\ IsFiniteSet(licenses)'
  BY <1>2 DEF PagesIInv
<1>14. ASSUME NEW k, k # l
       PROVE  {s \in devices' : s.license = k} = {s \in devices : s.license = k}
  BY <1>2, <1>4, <1>14
<1>15. ASSUME NEW o \in Requests, requests'[o] # NoRequest
       PROVE  Sound(o)'
  <2>1. CASE o = r
    BY <1>1, <1>6, <2>1, AnsweredSound
  <2>2. CASE o # r /\ overtaken(o)
    BY <1>7, <2>2 DEF Sound, Lists
  <2>3. CASE o # r /\ ~overtaken(o)
    <3>1. requests[o] # NoRequest /\ requests'[o] = requests[o] /\ Sound(o)
      BY <1>8, <1>15, <2>3 DEF PagesIInv
    <3>2. \A pc \in Lists : <<o, pc>> \notin held
      BY <1>1, <2>3 DEF Statements
    <3>3. requests[o].op = "license" /\ requests[o].pc = "ActiveDeviceCount" =>
              SeatsOf(requests[o].id)' = SeatsOf(requests[o].id)
      <4>1. requests[o].op = "license" /\ requests[o].pc = "ActiveDeviceCount" =>
                requests[o].id # l
        BY <2>3, <3>1 DEF overtaken, At
      <4> QED
        BY <1>14, <3>1, <4>1 DEF SeatsOf
    <3> QED
      BY <1>2, <3>1, <3>2, <3>3, StaysSound
  <2> QED
    BY <2>1, <2>2, <2>3
<1> QED
  BY <1>1, <1>11, <1>12, <1>13, <1>15 DEF PagesIInv

(* A request that has been answered is gone, and used no connection.       *)
LEMMA RespondStep ==
  ASSUME PagesIInv, NEW r \in Requests, Respond(r)
  PROVE  PagesIInv'
<1>1. /\ requests'[r] = NoRequest
      /\ requests' \in [Requests -> RequestRecords \cup {NoRequest}]
      /\ \A o \in Requests : o # r => requests'[o] = requests[o]
  BY DEF Respond, PagesIInv, TypeOK
<1>2. PoolInv' /\ held' \subseteq Requests \X Statements
  BY <1>1 DEF PagesIInv, TypeOK, PoolInv, Respond, At, Statements, Lists
<1> QED
  BY <1>1, <1>2, OthersStaySound DEF Respond

(* A process that stops leaves the tables.                                 *)
LEMMA PagesCrashStep ==
  ASSUME PagesIInv, Crash
  PROVE  PagesIInv'
BY DEF PagesIInv, TypeOK, PoolInv, OneRowEach, Crash

-----------------------------------------------------------------------------
(* Theorems.                                                               *)

(* The database is empty and nobody asks.                                  *)
LEMMA PagesInit == Init => PagesIInv
BY FS_EmptySet DEF Init, PagesIInv, TypeOK, PoolInv, OneRowEach

(* Every step keeps the invariant.                                         *)
LEMMA PagesNext == PagesIInv /\ [Next]_vars => PagesIInv'
<1> SUFFICES ASSUME PagesIInv, [Next]_vars
             PROVE  PagesIInv'
  OBVIOUS
<1>1. CASE \E r \in Requests, op \in Ops, id \in Ids : Receive(r, op, id)
  BY <1>1, ReceiveStep
<1>2. CASE \E r \in Requests : Acquire(r)
  BY <1>2, AcquireStep
<1>3. ASSUME NEW r \in Requests, Proceed(r)
      PROVE  PagesIInv'
  <2>1. CASE GetProduct(r)
    BY <2>1, GetProductStep
  <2>2. CASE GetLicense(r)
    BY <2>2, GetLicenseStep
  <2>3. CASE NextRow(r)
    BY <2>3, NextRowStep
  <2>4. CASE EndRows(r)
    BY <2>4, EndRowsStep
  <2>5. CASE \E l \in Ids : CountDevices(r, l)
    BY <2>5, CountDevicesStep
  <2>6. CASE CreateProduct(r)
    BY <2>6, CreateProductStep
  <2>7. CASE \E key \in LicenseKeys : CreateLicense(r, key)
    BY <2>7, CreateLicenseStep
  <2>8. CASE \E d \in Devices, active \in BOOLEAN : WriteDevice(r, d, active)
    BY <2>8, WriteDeviceStep
  <2>9. CASE StatementFails(r)
    BY <2>9, AnswerStep DEF StatementFails
  <2>10. CASE Respond(r)
    BY <2>10, RespondStep
  <2> QED
    BY <1>3, <2>1, <2>2, <2>3, <2>4, <2>5, <2>6, <2>7, <2>8, <2>9, <2>10 DEF Proceed
<1>4. CASE Crash
  BY <1>4, PagesCrashStep
<1>5. CASE UNCHANGED vars
  BY <1>5 DEF vars, PagesIInv, TypeOK, PoolInv, OneRowEach, Sound,
              At, Exists, ListOf, SeatsOf, Active
<1> QED
  BY <1>1, <1>2, <1>3, <1>4, <1>5 DEF Next

(* The invariant holds in every state.                                     *)
LEMMA PagesInvariance == Spec => []PagesIInv
<1>1. Init => PagesIInv
  BY PagesInit
<1>2. PagesIInv /\ [Next]_vars => PagesIInv'
  BY PagesNext
<1> QED
  BY <1>1, <1>2, PTL DEF Spec

(* Tables and requests keep their types: every license has its product,    *)
(* every device its license, and every count is in range.                  *)
THEOREM PagesTypeCorrect == Spec => []TypeOK
<1>1. PagesIInv => TypeOK
  BY DEF PagesIInv
<1> QED
  BY <1>1, PagesInvariance, PTL

(* A list is that of before as long as the tables and its request are.     *)
LEMMA SameList ==
  ASSUME NEW r \in Requests, UNCHANGED <<products, licenses, devices>>,
         requests'[r].pc = requests[r].pc, requests'[r].id = requests[r].id
  PROVE  ListOf(r)' = ListOf(r)
BY DEF ListOf, SeatsOf

(* The single connection keeps writers away from an open list: while one   *)
(* request reads rows, no statement of another is run (store.Open).        *)
THEOREM NobodyWrites == Spec => NobodyWritesUnderAList
<1> DEFINE Kept(r) == Listing(r) /\ Listing(r)' => ListOf(r)' = ListOf(r)
<1>1. ASSUME PagesIInv, Next, NEW r \in Requests, Listing(r), Listing(r)'
      PROVE  ListOf(r)' = ListOf(r)
  <2>1. PICK pc \in Lists : Executes(r, pc)
    BY <1>1 DEF Listing
  <2>2. /\ pc \in Statements /\ requests[r].pc = pc /\ requests[r] # NoRequest
        /\ requests[r] \in RequestRecords
    BY <1>1, <2>1 DEF Statements, Executes, At, PagesIInv, TypeOK
  <2>3. held = {<<r, pc>>} /\ \A o \in Requests, x \in Statements : o # r => <<o, x>> \notin held
    BY <1>1, <2>1, <2>2, OnlyExecutor DEF PagesIInv
  <2>4. ~Release(r)
    BY <1>1 DEF Listing, Release, Executes, Lists, Statements
  <2>5. CASE \E o \in Requests, op \in Ops, id \in Ids : Receive(o, op, id)
    <3>1. requests'[r] = requests[r] /\ UNCHANGED <<products, licenses, devices>>
      BY <1>1, <2>2, <2>5 DEF Receive, PagesIInv, TypeOK
    <3> QED
      BY <3>1, SameList
  <2>6. CASE \E o \in Requests : Acquire(o)
    BY <2>6, SameList DEF Acquire
  <2>7. ASSUME NEW o \in Requests, Proceed(o)
        PROVE  ListOf(r)' = ListOf(r)
    <3>1. NextRow(o) \/ Respond(o) \/ (Release(o) /\ \E x \in Statements : Executes(o, x))
      BY <2>7 DEF Proceed, GetProduct, GetLicense, EndRows, CountDevices, CreateProduct,
                  CreateLicense, WriteDevice, StatementFails, Statements
    <3>2. CASE NextRow(o)
      <4>1. /\ \E row : requests' = [requests EXCEPT ![o].rows = @ \cup {row}]
            /\ UNCHANGED <<products, licenses, devices>>
        BY <3>2 DEF NextRow
      <4>2. requests'[r].pc = requests[r].pc /\ requests'[r].id = requests[r].id
        BY <1>1, <2>2, <4>1 DEF PagesIInv, TypeOK, RequestRecords
      <4> QED
        BY <4>1, <4>2, SameList
    <3>3. CASE Respond(o)
      <4>1. o # r
        BY <2>2, <3>3 DEF Respond, At, Lists
      <4>2. requests'[r] = requests[r] /\ UNCHANGED <<products, licenses, devices>>
        BY <1>1, <3>3, <4>1 DEF Respond, PagesIInv, TypeOK
      <4> QED
        BY <4>2, SameList
    <3>4. CASE Release(o) /\ \E x \in Statements : Executes(o, x)
      BY <2>3, <2>4, <3>4 DEF Executes
    <3> QED
      BY <3>1, <3>2, <3>3, <3>4
  <2>8. CASE Crash
    BY <1>1, <2>8 DEF Crash, Listing, Executes
  <2> QED
    BY <1>1, <2>5, <2>6, <2>7, <2>8 DEF Next
<1>2. PagesIInv /\ [Next]_vars => [\A r \in Requests : Kept(r)]_vars
  BY <1>1
<1> QED
  BY <1>2, PagesInvariance, PTL DEF Spec, NobodyWritesUnderAList

(* The number beside a license's devices is wrong only after a write.      *)
THEOREM CountAgrees == Spec => []CountAgreesUnlessWritten
<1>1. PagesIInv => CountAgreesUnlessWritten
  BY DEF PagesIInv, CountAgreesUnlessWritten, At, Sound
<1> QED
  BY <1>1, PagesInvariance, PTL
=============================================================================
