--------------------------- MODULE LicensingProof ---------------------------
(* Theorems about Licensing, for any licenses, devices, requests, seat     *)
(* limits, expiries and periods.                                           *)
EXTENDS Licensing, FiniteSetTheorems, TLAPS

-----------------------------------------------------------------------------
(* Type correctness.                                                       *)

(* Seats issued through the form are at least one.                         *)
LEMMA ClampedPositive == \A n \in RequestedSeats : ClampSeats(n) \in Nat \ {0}
  BY RequestedSeatsAssumption DEF ClampSeats

(* An outcome of the service, once mapped, is one of the answers.          *)
LEMMA AnswerType ==
  ASSUME NEW op, NEW outcome \in Answers
  PROVE  Answer(op, outcome) \in Answers
  BY DEF Answer, Answers

(* The initial state is well typed.                                        *)
LEMMA InitTypeOK == Init => TypeOK
  BY MaxClockAssumption DEF Init, TypeOK, RowStates

(* The seats in use are a natural number, whatever the set of devices.     *)
LEMMA CountType ==
  ASSUME FinitelyActive, NEW l \in Licenses
  PROVE  ActiveDeviceCount(l) \in Nat
  BY FS_CardinalityType DEF FinitelyActive, ActiveDeviceCount

(* Moving a request on, or answering it, keeps its record well typed.      *)
LEMMA GotoType ==
  ASSUME TypeOK, NEW h \in Handlers, calls[h] # NoCall, NEW pc \in Steps, Goto(h, pc)
  PROVE  calls' \in [Handlers -> CallRecords \cup {NoCall}]
  BY DEF TypeOK, Goto, CallRecords

(* ... and so do an answer of the handler ...                              *)
LEMMA ReplyType ==
  ASSUME TypeOK, NEW h \in Handlers, calls[h] # NoCall,
         NEW answer \in Answers, Reply(h, answer)
  PROVE  calls' \in [Handlers -> CallRecords \cup {NoCall}]
  BY DEF TypeOK, Reply, CallRecords, Steps

(* ... and the return of the service.                                      *)
LEMMA ReturnType ==
  ASSUME TypeOK, NEW h \in Handlers, calls[h] # NoCall,
         NEW outcome \in Answers, Return(h, outcome)
  PROVE  calls' \in [Handlers -> CallRecords \cup {NoCall}]
  BY AnswerType, ReplyType DEF Return

(* A request that advances keeps its record and the tables well typed.     *)
LEMMA ProceedTypeOK ==
  ASSUME TypeOK, FinitelyActive, NEW h \in Handlers, Proceed(h)
  PROVE  TypeOK'
<1> DEFINE CallsOK == calls \in [Handlers -> CallRecords \cup {NoCall}]
<1> USE DEF Steps, Statements, Answers
<1>1. CASE GetLicense(h)
  <2>1. CallsOK'
    BY <1>1, GotoType, ReplyType DEF GetLicense, At
  <2> QED
    BY <1>1, <2>1 DEF GetLicense, TypeOK
<1>2. CASE GetLicenseByKey(h)
  <2>1. calls[h] \in CallRecords /\ calls[h].key \in Licenses /\ calls[h] # NoCall
    BY <1>2 DEF GetLicenseByKey, At, TypeOK, CallRecords
  <2>2. CASE Issued(calls[h].key)
    <3>1. licenses[calls[h].key] \in LicenseRows
      BY <2>1, <2>2 DEF Issued, TypeOK
    <3>2. PICK pc \in Steps : calls' = [calls EXCEPT ![h].lic = licenses[calls[h].key],
                                                     ![h].pc = pc]
      BY <1>2, <2>2 DEF GetLicenseByKey
    <3>3. CallsOK'
      BY <2>1, <3>1, <3>2 DEF TypeOK, CallRecords
    <3> QED
      BY <1>2, <3>3 DEF GetLicenseByKey, TypeOK
  <2>3. CASE ~Issued(calls[h].key)
    <3>1. Return(h, "not_found")
      BY <1>2, <2>3 DEF GetLicenseByKey
    <3>2. CallsOK'
      BY <2>1, <3>1, ReturnType
    <3> QED
      BY <1>2, <3>2 DEF GetLicenseByKey, TypeOK
  <2> QED
    BY <2>2, <2>3
<1>3. CASE CheckStatus(h)
  <2>1. calls[h] \in CallRecords /\ calls[h] # NoCall /\ clock \in Int
    BY <1>3, MaxClockAssumption DEF CheckStatus, At, TypeOK
  <2>2. CASE StatusOf(calls[h].lic, clock) = "active"
    <3>1. calls' = [calls EXCEPT ![h].at = clock, ![h].pc = "GetActiveDevice"]
      BY <1>3, <2>2 DEF CheckStatus
    <3>2. [calls[h] EXCEPT !.at = clock, !.pc = "GetActiveDevice"] \in CallRecords
      BY <2>1 DEF CallRecords
    <3>3. calls' = [calls EXCEPT ![h] =
                       [calls[h] EXCEPT !.at = clock, !.pc = "GetActiveDevice"]]
      BY <2>1, <3>1
    <3>4. CallsOK'
      BY <3>2, <3>3 DEF TypeOK
    <3> QED
      BY <1>3, <3>4 DEF CheckStatus, TypeOK
  <2>3. CASE ~(StatusOf(calls[h].lic, clock) = "active")
    <3>1. CallsOK'
      BY <1>3, <2>1, <2>3, ReturnType DEF CheckStatus
    <3> QED
      BY <1>3, <3>1 DEF CheckStatus, TypeOK
  <2> QED
    BY <2>2, <2>3
<1>4. CASE GetActiveDevice(h)
  <2>1. CallsOK'
    BY <1>4, GotoType, ReturnType DEF GetActiveDevice, At
  <2> QED
    BY <1>4, <2>1 DEF GetActiveDevice, TypeOK
<1>5. CASE CheckSeats(h)
  <2>1. CallsOK'
    BY <1>5, GotoType, ReturnType DEF CheckSeats, At
  <2> QED
    BY <1>5, <2>1 DEF CheckSeats, TypeOK
<1>6. CASE ActivateDevice(h)
  <2>1. CallsOK'
    BY <1>6, GotoType DEF ActivateDevice, At
  <2>2. devices' \in [Licenses -> [Devices -> RowStates]]
    BY <1>6 DEF ActivateDevice, TypeOK, RowStates
  <2> QED
    BY <1>6, <2>1, <2>2 DEF ActivateDevice, TypeOK
<1>7. CASE DeactivateDevice(h)
  <2>1. CallsOK'
    BY <1>7, GotoType, ReturnType DEF DeactivateDevice, At
  <2>2. devices' \in {devices, [devices EXCEPT ![calls[h].key][calls[h].device] = "freed"]}
    BY <1>7 DEF DeactivateDevice
  <2>3. devices' \in [Licenses -> [Devices -> RowStates]]
    BY <2>2 DEF TypeOK, RowStates
  <2> QED
    BY <1>7, <2>1, <2>3 DEF DeactivateDevice, TypeOK
<1>8. CASE Notify(h)
  <2>1. CallsOK'
    BY <1>8, GotoType, ReturnType DEF Notify, At
  <2> QED
    BY <1>8, <2>1 DEF Notify, TypeOK
<1>9. CASE TouchDevice(h)
  <2>1. CallsOK'
    BY <1>9, GotoType DEF TouchDevice, At
  <2> QED
    BY <1>9, <2>1 DEF TouchDevice, TypeOK
<1>10. CASE CountSeats(h)
  <2>1. calls[h] \in CallRecords /\ calls[h].key \in Licenses
    BY <1>10 DEF CountSeats, At, TypeOK, CallRecords
  <2>2. ActiveDeviceCount(calls[h].key) \in Nat
    BY <2>1, CountType
  <2>3. CallsOK'
    BY <1>10, <2>1, <2>2 DEF CountSeats, TypeOK, CallRecords
  <2> QED
    BY <1>10, <2>3 DEF CountSeats, TypeOK
<1>11. CASE StatementFails(h)
  <2>1. CallsOK'
    BY <1>11, ReplyType, ReturnType DEF StatementFails, At
  <2> QED
    BY <1>11, <2>1 DEF StatementFails, TypeOK
<1>12. CASE Respond(h)
  BY <1>12 DEF Respond, TypeOK
<1> QED
  BY <1>1, <1>2, <1>3, <1>4, <1>5, <1>6, <1>7, <1>8, <1>9, <1>10, <1>11, <1>12 DEF Proceed

(* Each step keeps the types; Devices need not be finite, but the devices  *)
(* that hold a seat have to be, for their count to be a number.            *)
LEMMA NextTypeOK ==
  ASSUME TypeOK, FinitelyActive, [Next]_vars
  PROVE  TypeOK'
<1>1. ASSUME NEW h \in Handlers, NEW op \in Ops, NEW l \in Licenses, NEW d \in Devices,
             Receive(h, op, l, d)
      PROVE  TypeOK'
  BY <1>1 DEF Receive, TypeOK, CallRecords, Steps, Statements, Answers
<1>2. ASSUME NEW h \in Handlers, Proceed(h)
      PROVE  TypeOK'
  BY <1>2, ProceedTypeOK
<1>3. ASSUME NEW l \in Licenses, NEW n \in RequestedSeats, NEW e \in Expiries,
             IssueLicense(l, n, e)
      PROVE  TypeOK'
  BY <1>3, ClampedPositive DEF IssueLicense, TypeOK, LicenseRows
<1>4. ASSUME NEW l \in Licenses, RevokeLicense(l)
      PROVE  TypeOK'
  <2>1. licenses[l] \in LicenseRows /\ clock \in Int
    BY <1>4, MaxClockAssumption DEF RevokeLicense, Issued, TypeOK
  <2>2. [licenses[l] EXCEPT !.revokedAt = clock] \in LicenseRows
    BY <2>1 DEF LicenseRows
  <2>3. licenses' = [licenses EXCEPT ![l] = [licenses[l] EXCEPT !.revokedAt = clock]]
    BY <1>4 DEF RevokeLicense
  <2> QED
    BY <1>4, <2>2, <2>3 DEF RevokeLicense, TypeOK
<1>5. CASE Tick
  BY <1>5, MaxClockAssumption DEF Tick, TypeOK
<1>6. CASE Crash
  BY <1>6 DEF Crash, TypeOK
<1>7. CASE UNCHANGED vars
  BY <1>7 DEF vars, TypeOK
<1> QED
  BY <1>1, <1>2, <1>3, <1>4, <1>5, <1>6, <1>7 DEF Next

-----------------------------------------------------------------------------
(* The order of the reads and the agreement of what they returned.         *)

(* A request that advances leaves the licenses, the clock and the other    *)
(* requests alone.                                                         *)
LEMMA ProceedFrame ==
  ASSUME TypeOK, NEW h \in Handlers, Proceed(h)
  PROVE  /\ calls[h] # NoCall
         /\ calls[h] \in CallRecords
         /\ clock' = clock
         /\ licenses' = licenses
         /\ \A g \in Handlers : g # h => calls'[g] = calls[g]
<1>1. calls[h] # NoCall
  BY DEF Proceed, GetLicense, GetLicenseByKey, CheckStatus, GetActiveDevice, CheckSeats,
     ActivateDevice, DeactivateDevice, Notify, TouchDevice, CountSeats, StatementFails,
     Respond, At
<1>2. clock' = clock /\ licenses' = licenses
  BY DEF Proceed, GetLicense, GetLicenseByKey, CheckStatus, GetActiveDevice, CheckSeats,
     ActivateDevice, DeactivateDevice, Notify, TouchDevice, CountSeats, StatementFails,
     Respond
<1>3. \A g \in Handlers : g # h => calls'[g] = calls[g]
  BY DEF TypeOK, Proceed, GetLicense, GetLicenseByKey, CheckStatus, GetActiveDevice,
     CheckSeats, ActivateDevice, DeactivateDevice, Notify, TouchDevice, CountSeats,
     StatementFails, Respond, Goto, Reply, Return
<1> QED
  BY <1>1, <1>2, <1>3 DEF TypeOK

(* Moving on changes the step and nothing else of the request.             *)
LEMMA GotoFrame ==
  ASSUME TypeOK, NEW h \in Handlers, calls[h] \in CallRecords, NEW pc, Goto(h, pc)
  PROVE  /\ calls'[h].pc = pc
         /\ calls'[h].op = calls[h].op
         /\ calls'[h].key = calls[h].key
         /\ calls'[h].lic = calls[h].lic
         /\ calls'[h].at = calls[h].at
         /\ calls'[h].answer = calls[h].answer
  BY DEF TypeOK, Goto, CallRecords

(* Returning an outcome that is no token answers the request and keeps     *)
(* what it has read.                                                       *)
LEMMA ReturnFrame ==
  ASSUME TypeOK, NEW h \in Handlers, calls[h] \in CallRecords,
         NEW outcome \in Answers \ {"token"},
         Return(h, outcome) \/ Reply(h, outcome)
  PROVE  /\ calls'[h].pc = "Respond"
         /\ calls'[h].answer # "token"
         /\ calls'[h].op = calls[h].op
         /\ calls'[h].key = calls[h].key
         /\ calls'[h].lic = calls[h].lic
<1>1. Answer(calls[h].op, outcome) # "token"
  BY DEF Answer
<1> QED
  BY <1>1 DEF TypeOK, Return, Reply, CallRecords

(* A request that advances keeps the order of its reads.                   *)
LEMMA ProceedReadFirst ==
  ASSUME TypeOK, NEW h \in Handlers, Proceed(h), ReadFirst(calls[h])
  PROVE  ReadFirst(calls'[h])
<1>1. calls[h] # NoCall /\ calls[h] \in CallRecords /\ clock \in Int
  BY ProceedFrame, MaxClockAssumption DEF TypeOK
<1> USE <1>1 DEF ReadFirst, Checked
<1>2. ASSUME NEW outcome \in Answers \ {"token"},
             Return(h, outcome) \/ Reply(h, outcome)
      PROVE  ReadFirst(calls'[h])
  BY <1>2, ReturnFrame
<1>3. CASE GetLicense(h)
  <2>1. CASE Goto(h, "GetLicenseByKey")
    BY <1>3, <2>1, GotoFrame DEF GetLicense, At
  <2> QED
    BY <1>2, <1>3, <2>1 DEF GetLicense, Answers
<1>4. CASE GetLicenseByKey(h)
  <2>1. CASE Issued(calls[h].key)
    <3>1. calls'[h] = [calls[h] EXCEPT !.lic = licenses[calls[h].key],
                                       !.pc = IF Deactivates(calls[h].op)
                                              THEN "DeactivateDevice" ELSE "CheckStatus"]
      BY <1>4, <2>1 DEF GetLicenseByKey, TypeOK
    <3>2. /\ \/ calls'[h].pc = "DeactivateDevice" /\ Deactivates(calls[h].op)
             \/ calls'[h].pc = "CheckStatus"
          /\ calls'[h].op = calls[h].op
          /\ calls'[h].lic = licenses[calls[h].key]
          /\ calls'[h].answer = calls[h].answer
      BY <3>1 DEF CallRecords
    <3>3. licenses[calls[h].key] # NoLicense
      BY <2>1 DEF Issued
    <3> QED
      BY <1>4, <3>2, <3>3 DEF GetLicenseByKey, At
  <2>2. CASE ~Issued(calls[h].key)
    BY <1>2, <1>4, <2>2 DEF GetLicenseByKey, Answers
  <2> QED
    BY <2>1, <2>2
<1>5. CASE CheckStatus(h)
  <2>1. CASE StatusOf(calls[h].lic, clock) = "active"
    <3>1. calls'[h] = [calls[h] EXCEPT !.at = clock, !.pc = "GetActiveDevice"]
      BY <1>5, <2>1 DEF CheckStatus, TypeOK
    <3>2. /\ calls'[h].pc = "GetActiveDevice"
          /\ calls'[h].at = clock
          /\ calls'[h].lic = calls[h].lic
          /\ calls'[h].answer = calls[h].answer
      BY <3>1 DEF CallRecords
    <3> QED
      BY <1>5, <2>1, <3>2 DEF CheckStatus, At
  <2>2. CASE ~(StatusOf(calls[h].lic, clock) = "active")
    BY <1>2, <1>5, <2>2 DEF CheckStatus, Answers
  <2> QED
    BY <2>1, <2>2
<1>6. CASE GetActiveDevice(h)
  <2>1. CASE Goto(h, "TouchDevice") \/ Goto(h, "CheckSeats")
    BY <1>6, <2>1, GotoFrame DEF GetActiveDevice, At
  <2> QED
    BY <1>2, <1>6, <2>1 DEF GetActiveDevice, Answers
<1>7. CASE CheckSeats(h)
  <2>1. CASE Goto(h, "ActivateDevice")
    BY <1>7, <2>1, GotoFrame DEF CheckSeats, At
  <2> QED
    BY <1>2, <1>7, <2>1 DEF CheckSeats, Answers
<1>8. CASE ActivateDevice(h)
  BY <1>8, GotoFrame DEF ActivateDevice, At
<1>9. CASE DeactivateDevice(h)
  <2>1. CASE Goto(h, "Notify")
    BY <1>9, <2>1, GotoFrame DEF DeactivateDevice, At
  <2> QED
    BY <1>2, <1>9, <2>1 DEF DeactivateDevice, Answers
<1>10. CASE Notify(h)
  <2>1. CASE Deactivates(calls[h].op)
    BY <1>2, <1>10, <2>1 DEF Notify, Answers
  <2>2. CASE ~Deactivates(calls[h].op)
    BY <1>10, <2>2, GotoFrame DEF Notify, At
  <2> QED
    BY <2>1, <2>2
<1>11. CASE TouchDevice(h)
  BY <1>11, GotoFrame DEF TouchDevice, At
<1>12. CASE CountSeats(h)
  <2>1. calls'[h] = [calls[h] EXCEPT !.seats = ActiveDeviceCount(calls[h].key),
                                     !.pc = "Respond", !.answer = "token"]
    BY <1>12 DEF CountSeats, TypeOK
  <2>2. calls'[h].pc = "Respond" /\ calls'[h].lic = calls[h].lic /\ calls'[h].at = calls[h].at
    BY <2>1 DEF CallRecords
  <2> QED
    BY <1>12, <2>2 DEF CountSeats, At
<1>13. CASE StatementFails(h)
  BY <1>2, <1>13 DEF StatementFails, Answers
<1>14. CASE Respond(h)
  BY <1>14 DEF Respond, TypeOK
<1> QED
  BY <1>3, <1>4, <1>5, <1>6, <1>7, <1>8, <1>9, <1>10, <1>11, <1>12, <1>13, <1>14 DEF Proceed

(* A request that arrives has read nothing.                                *)
LEMMA ReceiveFrame ==
  ASSUME TypeOK, NEW h \in Handlers, NEW op \in Ops, NEW l \in Licenses, NEW d \in Devices,
         Receive(h, op, l, d)
  PROVE  /\ calls'[h].pc \in {"GetLicense", "GetLicenseByKey"}
         /\ calls'[h].lic = NoLicense
         /\ calls'[h].answer = "none"
         /\ \A g \in Handlers : g # h => calls'[g] = calls[g]
         /\ UNCHANGED <<clock, licenses, devices>>
  BY DEF Receive, TypeOK

(* Every step keeps the order of reads of every request.                   *)
LEMMA NextReadsComeFirst ==
  ASSUME TypeOK, ReadsComeFirst, [Next]_vars
  PROVE  ReadsComeFirst'
<1> SUFFICES ASSUME NEW g \in Handlers
             PROVE  ReadFirst(calls[g])'
  BY DEF ReadsComeFirst
<1>1. ReadFirst(calls[g]) /\ clock \in Int
  BY MaxClockAssumption DEF ReadsComeFirst, TypeOK
<1>2. ASSUME NEW h \in Handlers, NEW op \in Ops, NEW l \in Licenses, NEW d \in Devices,
             Receive(h, op, l, d)
      PROVE  ReadFirst(calls[g])'
  BY <1>1, <1>2, ReceiveFrame DEF ReadFirst, Checked
<1>3. ASSUME NEW h \in Handlers, Proceed(h)
      PROVE  ReadFirst(calls[g])'
  <2>1. CASE g = h
    BY <1>1, <1>3, <2>1, ProceedReadFirst, ProceedFrame DEF ReadFirst, Checked
  <2>2. CASE g # h
    BY <1>1, <1>3, <2>2, ProceedFrame DEF ReadFirst, Checked
  <2> QED
    BY <2>1, <2>2
<1>4. CASE Tick
  <2>1. calls'[g] = calls[g] /\ clock' = clock + 1
    BY <1>4 DEF Tick
  <2>2. calls[g] # NoCall => calls[g].at \in Int
    BY DEF TypeOK, CallRecords
  <2> QED
    BY <1>1, <2>1, <2>2 DEF ReadFirst, Checked
<1>5. CASE Crash
  BY <1>5 DEF Crash, ReadFirst
<1>6. ASSUME calls' = calls, clock' = clock
      PROVE  ReadFirst(calls[g])'
  BY <1>1, <1>6 DEF ReadFirst, Checked
<1> QED
  BY <1>2, <1>3, <1>4, <1>5, <1>6 DEF Next, IssueLicense, RevokeLicense, vars

(* While a request advances it keeps its key, and the row it has read is   *)
(* the one it had or the one the table holds now.                          *)
LEMMA ProceedLicense ==
  ASSUME TypeOK, NEW h \in Handlers, Proceed(h), calls'[h] # NoCall
  PROVE  /\ calls'[h].key = calls[h].key
         /\ calls'[h].op = calls[h].op
         /\ calls'[h].device = calls[h].device
         /\ \/ calls'[h].lic = calls[h].lic
            \/ Issued(calls[h].key) /\ calls'[h].lic = licenses[calls[h].key]
<1>1. calls[h] # NoCall /\ calls[h] \in CallRecords
  BY ProceedFrame
<1>2. CASE GetLicenseByKey(h)
  BY <1>1, <1>2 DEF GetLicenseByKey, Reply, Return, TypeOK, CallRecords
<1>3. CASE CheckStatus(h)
  BY <1>1, <1>3 DEF CheckStatus, Reply, Return, TypeOK, CallRecords
<1>4. CASE CountSeats(h)
  BY <1>1, <1>4 DEF CountSeats, TypeOK, CallRecords
<1>5. CASE Respond(h)
  BY <1>5 DEF Respond, TypeOK
<1>6. CASE /\ ~GetLicenseByKey(h) /\ ~CheckStatus(h) /\ ~CountSeats(h) /\ ~Respond(h)
  <2>1. \/ \E pc \in Steps : Goto(h, pc)
        \/ \E answer \in Answers : Reply(h, answer) \/ Return(h, answer)
    BY <1>6 DEF Proceed, GetLicense, GetActiveDevice, CheckSeats, ActivateDevice,
       DeactivateDevice, Notify, TouchDevice, StatementFails, Steps, Statements, Answers
  <2> QED
    BY <1>1, <2>1 DEF Goto, Reply, Return, TypeOK, CallRecords
<1> QED
  BY <1>2, <1>3, <1>4, <1>5, <1>6

(* Every step keeps what requests have read in agreement with the tables:  *)
(* limits and expiries never change, and a license is revoked once.        *)
LEMMA NextSnapshotAgrees ==
  ASSUME TypeOK, SnapshotAgrees, [Next]_vars
  PROVE  SnapshotAgrees'
<1> SUFFICES ASSUME NEW g \in Handlers, calls'[g] # NoCall, calls'[g].lic # NoLicense
             PROVE  /\ Issued(calls[g].key)'
                    /\ calls'[g].lic.maxDevices = licenses'[calls'[g].key].maxDevices
                    /\ calls'[g].lic.expiresAt = licenses'[calls'[g].key].expiresAt
                    /\ calls'[g].lic.revokedAt \in {Never, licenses'[calls'[g].key].revokedAt}
  BY DEF SnapshotAgrees
<1> USE DEF SnapshotAgrees, Issued
<1>1. ASSUME NEW h \in Handlers, NEW op \in Ops, NEW l \in Licenses, NEW d \in Devices,
             Receive(h, op, l, d)
      PROVE  calls'[g] = calls[g] /\ licenses' = licenses
  BY <1>1, ReceiveFrame
<1>2. ASSUME NEW h \in Handlers, Proceed(h)
      PROVE  /\ licenses' = licenses
             /\ calls[g] # NoCall
             /\ calls'[g].key = calls[g].key
             /\ \/ calls'[g].lic = calls[g].lic
                \/ Issued(calls[g].key) /\ calls'[g].lic = licenses[calls[g].key]
  <2>1. CASE g = h
    BY <1>2, <2>1, ProceedFrame, ProceedLicense
  <2>2. CASE g # h
    BY <1>2, <2>2, ProceedFrame
  <2> QED
    BY <2>1, <2>2
<1>3. ASSUME NEW l \in Licenses, NEW n \in RequestedSeats, NEW e \in Expiries,
             IssueLicense(l, n, e)
      PROVE  /\ calls'[g] = calls[g]
             /\ licenses'[calls[g].key] = licenses[calls[g].key]
  <2>1. calls'[g] = calls[g]
    BY <1>3 DEF IssueLicense
  <2>2. calls[g].key # l
    BY <1>3, <2>1 DEF IssueLicense
  <2> QED
    BY <1>3, <2>1, <2>2 DEF IssueLicense, TypeOK
<1>4. ASSUME NEW l \in Licenses, RevokeLicense(l)
      PROVE  /\ calls'[g] = calls[g]
             /\ Issued(calls[g].key)'
             /\ licenses'[calls[g].key].maxDevices = licenses[calls[g].key].maxDevices
             /\ licenses'[calls[g].key].expiresAt = licenses[calls[g].key].expiresAt
             /\ calls[g].lic.revokedAt \in {Never, licenses'[calls[g].key].revokedAt}
  <2>1. calls'[g] = calls[g] /\ calls[g] # NoCall /\ calls[g].lic # NoLicense
    BY <1>4 DEF RevokeLicense
  <2>2. calls[g].key \in Licenses /\ licenses[calls[g].key] \in LicenseRows
    BY <2>1 DEF TypeOK, CallRecords
  <2>3. CASE calls[g].key = l
    <3>1. licenses'[l] = [licenses[l] EXCEPT !.revokedAt = clock]
      BY <1>4 DEF RevokeLicense, TypeOK
    <3>2. licenses'[l] \in LicenseRows
      BY <1>4, <2>2, <2>3, <3>1, MaxClockAssumption DEF LicenseRows, TypeOK
    <3>3. licenses'[l] # NoLicense
      BY <3>2, SentinelsAssumption
    <3>4. calls[g].lic.revokedAt = Never
      BY <1>4, <2>1, <2>3 DEF RevokeLicense
    <3> QED
      BY <2>1, <2>2, <2>3, <3>1, <3>3, <3>4 DEF LicenseRows
  <2>4. CASE calls[g].key # l
    BY <1>4, <2>1, <2>2, <2>4 DEF RevokeLicense, TypeOK
  <2> QED
    BY <2>3, <2>4
<1>5. CASE Crash
  BY <1>5 DEF Crash
<1>6. CASE calls' = calls /\ licenses' = licenses
  BY <1>6
<1>7. CASE \E h \in Handlers : Proceed(h)
  <2>1. PICK h \in Handlers : Proceed(h)
    BY <1>7
  <2> QED
    BY <1>2, <2>1
<1>8. CASE \E l \in Licenses : RevokeLicense(l)
  BY <1>4, <1>8
<1> QED
  BY <1>1, <1>3, <1>5, <1>6, <1>7, <1>8 DEF Next, Tick, vars

-----------------------------------------------------------------------------
(* Seats taken, freed and about to be taken.                               *)

(* A license that was issued has at least one seat.                        *)
LEMMA LimitType ==
  ASSUME TypeOK, NEW l \in Licenses, Issued(l)
  PROVE  licenses[l] \in LicenseRows /\ licenses[l].maxDevices \in Nat \ {0}
  BY DEF TypeOK, Issued, LicenseRows

(* A request that does not move to the upsert reserves nothing new.        *)
LEMMA ReservingShrinks ==
  ASSUME TypeOK, NEW h \in Handlers, NEW l \in Licenses,
         calls'[h] # NoCall => calls'[h].pc # "ActivateDevice",
         \A g \in Handlers : g # h => calls'[g] = calls[g]
  PROVE  Reserving(l)' \subseteq Reserving(l) \ {h}
  BY DEF Reserving, At

(* What a step can do to the seats of a license: leave them and reserve    *)
(* nothing new; free one; pass the seat check while the license is not     *)
(* full; or take a seat that was reserved.                                 *)
LEMMA SeatSteps ==
  ASSUME TypeOK, FinitelyActive, ReadsComeFirst, SnapshotAgrees, [Next]_vars,
         NEW l \in Licenses
  PROVE  \/ /\ ActiveDevices(l)' \subseteq ActiveDevices(l)
            /\ Reserving(l)' \subseteq Reserving(l)
         \/ /\ ActiveDevices(l)' = ActiveDevices(l)
            /\ Issued(l)
            /\ ActiveDeviceCount(l) < licenses[l].maxDevices
         \/ \E h \in Reserving(l), d \in Devices :
               /\ Issued(l)
               /\ ActiveDevices(l)' = ActiveDevices(l) \cup {d}
               /\ Reserving(l)' \subseteq Reserving(l) \ {h}
<1> DEFINE Quiet == /\ ActiveDevices(l)' \subseteq ActiveDevices(l)
                    /\ Reserving(l)' \subseteq Reserving(l)
<1>1. ASSUME NEW h \in Handlers, NEW op \in Ops, NEW k \in Licenses, NEW d \in Devices,
             Receive(h, op, k, d)
      PROVE  Quiet
  <2>1. Reserving(l)' \subseteq Reserving(l)
    BY <1>1, ReceiveFrame, ReservingShrinks
  <2> QED
    BY <1>1, <2>1 DEF Receive, ActiveDevices
<1>2. ASSUME NEW h \in Handlers, CheckSeats(h)
      PROVE  \/ Quiet
             \/ /\ ActiveDevices(l)' = ActiveDevices(l)
                /\ Issued(l)
                /\ ActiveDeviceCount(l) < licenses[l].maxDevices
  <2>1. devices' = devices /\ calls[h] # NoCall /\ calls[h] \in CallRecords
    BY <1>2 DEF CheckSeats, At, TypeOK
  <2>2. \A g \in Handlers : g # h => calls'[g] = calls[g]
    BY <1>2, ProceedFrame DEF Proceed
  <2>3. calls[h].lic # NoLicense
    BY <1>2 DEF CheckSeats, At, ReadsComeFirst, ReadFirst, Checked
  <2>4. CASE Return(h, "device_limit_reached")
    <3>1. calls'[h].pc = "Respond"
      BY <2>1, <2>4 DEF Return, Reply, TypeOK, CallRecords
    <3> QED
      BY <2>1, <2>2, <3>1, ReservingShrinks DEF ActiveDevices
  <2>5. CASE ~(ActiveDeviceCount(calls[h].key) >= calls[h].lic.maxDevices)
    <3>1. calls'[h].key = calls[h].key
      BY <1>2, <2>1, <2>5, GotoFrame DEF CheckSeats
    <3>2. CASE calls[h].key = l
      <4>1. calls[h].lic.maxDevices = licenses[l].maxDevices /\ Issued(l)
        BY <2>1, <2>3, <3>2 DEF SnapshotAgrees
      <4>2. ~(ActiveDeviceCount(l) >= licenses[l].maxDevices)
        BY <2>5, <3>2, <4>1
      <4>3. licenses[l].maxDevices \in Nat
        BY <4>1, LimitType
      <4>4. ActiveDeviceCount(l) < licenses[l].maxDevices
        BY <4>2, <4>3, CountType
      <4> QED
        BY <2>1, <4>1, <4>4 DEF ActiveDevices
    <3>3. CASE calls[h].key # l
      BY <2>1, <2>2, <3>1, <3>3 DEF Reserving, At, ActiveDevices
    <3> QED
      BY <3>2, <3>3
  <2> QED
    BY <1>2, <2>4, <2>5 DEF CheckSeats
<1>3. ASSUME NEW h \in Handlers, ActivateDevice(h)
      PROVE  \/ Quiet
             \/ \E d \in Devices :
                   /\ h \in Reserving(l)
                   /\ Issued(l)
                   /\ ActiveDevices(l)' = ActiveDevices(l) \cup {d}
                   /\ Reserving(l)' \subseteq Reserving(l) \ {h}
  <2>1. /\ calls[h] # NoCall /\ calls[h] \in CallRecords
        /\ calls[h].key \in Licenses /\ calls[h].device \in Devices
    BY <1>3 DEF ActivateDevice, At, TypeOK, CallRecords
  <2>2. Reserving(l)' \subseteq Reserving(l) \ {h}
    <3>1. calls'[h].pc = "Notify"
      BY <1>3, <2>1, GotoFrame DEF ActivateDevice
    <3>2. \A g \in Handlers : g # h => calls'[g] = calls[g]
      BY <1>3, ProceedFrame DEF Proceed
    <3> QED
      BY <3>1, <3>2, ReservingShrinks
  <2>3. CASE calls[h].key = l
    <3>1. h \in Reserving(l)
      BY <1>3, <2>3 DEF ActivateDevice, Reserving
    <3>2. Issued(l)
      BY <1>3, <2>1, <2>3 DEF ActivateDevice, At, ReadsComeFirst, ReadFirst, Checked,
         SnapshotAgrees
    <3>3. ActiveDevices(l)' = ActiveDevices(l) \cup {calls[h].device}
      BY <1>3, <2>1, <2>3 DEF ActivateDevice, ActiveDevices, TypeOK
    <3> QED
      BY <2>1, <2>2, <3>1, <3>2, <3>3
  <2>4. CASE calls[h].key # l
    BY <1>3, <2>1, <2>2, <2>4 DEF ActivateDevice, ActiveDevices, TypeOK
  <2> QED
    BY <2>3, <2>4
<1>4. ASSUME NEW h \in Handlers, Proceed(h), ~CheckSeats(h), ~ActivateDevice(h)
      PROVE  Quiet
  <2>1. calls[h] \in CallRecords /\ \A g \in Handlers : g # h => calls'[g] = calls[g]
    BY <1>4, ProceedFrame
  <2>2. calls'[h] # NoCall => calls'[h].pc # "ActivateDevice"
    <3>1. CASE GetLicenseByKey(h)
      BY <2>1, <3>1 DEF GetLicenseByKey, Reply, Return, TypeOK, CallRecords
    <3>2. CASE CheckStatus(h) \/ CountSeats(h) \/ Respond(h)
      BY <2>1, <3>2 DEF CheckStatus, CountSeats, Respond, Reply, Return, TypeOK, CallRecords
    <3>3. CASE \/ \E pc \in Steps \ {"ActivateDevice"} : Goto(h, pc)
               \/ \E answer \in Answers : Reply(h, answer) \/ Return(h, answer)
      BY <2>1, <3>3 DEF Goto, Reply, Return, TypeOK, CallRecords
    <3> QED
      BY <1>4, <3>1, <3>2, <3>3 DEF Proceed, GetLicense, GetActiveDevice,
         DeactivateDevice, Notify, TouchDevice, StatementFails, Steps, Statements, Answers
  <2>3. Reserving(l)' \subseteq Reserving(l)
    BY <2>1, <2>2, ReservingShrinks
  <2>4. CASE DeactivateDevice(h)
    <3>1. devices' \in {devices, [devices EXCEPT ![calls[h].key][calls[h].device] = "freed"]}
      BY <2>4 DEF DeactivateDevice
    <3>2. ActiveDevices(l)' \subseteq ActiveDevices(l)
      BY <3>1 DEF ActiveDevices, TypeOK
    <3> QED
      BY <2>3, <3>2
  <2>5. CASE devices' = devices
    BY <2>3, <2>5 DEF ActiveDevices
  <2> QED
    BY <1>4, <2>4, <2>5 DEF Proceed, GetLicense, GetLicenseByKey, CheckStatus,
       GetActiveDevice, Notify, TouchDevice, CountSeats, StatementFails, Respond
<1>5. CASE Crash
  BY <1>5 DEF Crash, Reserving, At, ActiveDevices
<1>6. CASE calls' = calls /\ devices' = devices
  BY <1>6 DEF Reserving, At, ActiveDevices
<1>7. CASE \E h \in Handlers : Proceed(h)
  <2>1. PICK h \in Handlers : Proceed(h)
    BY <1>7
  <2> QED
    BY <1>2, <1>3, <1>4, <2>1
<1> QED
  BY <1>1, <1>5, <1>6, <1>7 DEF Next, IssueLicense, RevokeLicense, Tick, vars

-----------------------------------------------------------------------------
(* The inductive invariant.                                                *)

(* There are finitely many requests at a time, and at least one.           *)
LEMMA HandlersCount ==
  /\ Cardinality(Handlers) \in Nat \ {0}
  /\ \A l \in Licenses : /\ IsFiniteSet(Reserving(l))
                        /\ Cardinality(Reserving(l)) \in Nat
                        /\ Cardinality(Reserving(l)) <= Cardinality(Handlers)
<1>1. Cardinality(Handlers) \in Nat \ {0}
  BY HandlersAssumption, FS_CardinalityType, FS_EmptySet
<1>2. ASSUME NEW l \in Licenses
      PROVE  /\ IsFiniteSet(Reserving(l))
             /\ Cardinality(Reserving(l)) \in Nat
             /\ Cardinality(Reserving(l)) <= Cardinality(Handlers)
  <2>1. Reserving(l) \subseteq Handlers
    BY DEF Reserving
  <2> QED
    BY <2>1, HandlersAssumption, FS_Subset, FS_CardinalityType
<1> QED
  BY <1>1, <1>2

(* The invariant holds before the first request.                           *)
LEMMA InitIInv == Init => IInv
<1> SUFFICES ASSUME Init PROVE IInv
  OBVIOUS
<1>1. \A l \in Licenses : ActiveDevices(l) = {} /\ ~Issued(l)
  BY DEF Init, ActiveDevices, Issued
<1>2. FinitelyActive
  BY <1>1, FS_EmptySet DEF FinitelyActive
<1>3. SeatBudget
  BY <1>1 DEF SeatBudget
<1>4. SeatsAreIssued
  BY DEF Init, SeatsAreIssued
<1>5. ReadsComeFirst /\ SnapshotAgrees
  BY DEF Init, ReadsComeFirst, ReadFirst, SnapshotAgrees
<1> QED
  BY <1>2, <1>3, <1>4, <1>5, InitTypeOK DEF IInv

(* Only finitely many devices hold a seat after a step, too.               *)
LEMMA NextFinitelyActive ==
  ASSUME TypeOK, FinitelyActive, ReadsComeFirst, SnapshotAgrees, [Next]_vars
  PROVE  FinitelyActive'
<1> SUFFICES ASSUME NEW l \in Licenses
             PROVE  IsFiniteSet(ActiveDevices(l)')
  BY DEF FinitelyActive
<1>1. IsFiniteSet(ActiveDevices(l))
  BY DEF FinitelyActive
<1>2. CASE ActiveDevices(l)' \subseteq ActiveDevices(l)
  BY <1>1, <1>2, FS_Subset
<1>3. CASE \E d \in Devices : ActiveDevices(l)' = ActiveDevices(l) \cup {d}
  BY <1>1, <1>3, FS_AddElement
<1> QED
  BY <1>2, <1>3, SeatSteps

(* A device row is written only for a license that was issued.             *)
LEMMA NextSeatsAreIssued ==
  ASSUME TypeOK, FinitelyActive, SeatsAreIssued, ReadsComeFirst, SnapshotAgrees, [Next]_vars
  PROVE  SeatsAreIssued'
<1> SUFFICES ASSUME NEW l \in Licenses, ~Issued(l)', NEW d \in Devices
             PROVE  devices'[l][d] = "absent"
  BY DEF SeatsAreIssued
<1>1. CASE devices' = devices /\ licenses' = licenses
  BY <1>1 DEF SeatsAreIssued, Issued
<1>2. ASSUME NEW h \in Handlers, ActivateDevice(h) \/ DeactivateDevice(h)
      PROVE  devices'[l][d] = "absent"
  <2>1. calls[h] # NoCall /\ calls[h] \in CallRecords /\ licenses' = licenses
    BY <1>2 DEF ActivateDevice, DeactivateDevice, At, TypeOK
  <2>2. calls[h].lic # NoLicense
    BY <1>2 DEF ActivateDevice, DeactivateDevice, At, ReadsComeFirst, ReadFirst
  <2>3. Issued(calls[h].key)
    BY <2>1, <2>2 DEF SnapshotAgrees
  <2>4. calls[h].key # l
    BY <2>1, <2>3 DEF Issued
  <2>5. devices'[l] = devices[l]
    BY <1>2, <2>1, <2>4 DEF ActivateDevice, DeactivateDevice, TypeOK, CallRecords
  <2> QED
    BY <2>1, <2>5 DEF SeatsAreIssued, Issued
<1>3. ASSUME NEW k \in Licenses, NEW n \in RequestedSeats, NEW e \in Expiries,
             IssueLicense(k, n, e)
      PROVE  devices'[l][d] = "absent"
  <2>1. ~Issued(l)
    BY <1>3, ClampedPositive, SentinelsAssumption DEF IssueLicense, Issued, TypeOK, LicenseRows
  <2> QED
    BY <1>3, <2>1 DEF IssueLicense, SeatsAreIssued
<1>4. ASSUME NEW k \in Licenses, RevokeLicense(k)
      PROVE  devices'[l][d] = "absent"
  <2>1. CASE k = l
    <3>1. licenses[l] \in LicenseRows /\ clock \in Int
      BY <1>4, <2>1, LimitType, MaxClockAssumption DEF RevokeLicense, TypeOK
    <3>2. licenses'[l] = [licenses[l] EXCEPT !.revokedAt = clock]
      BY <1>4, <2>1 DEF RevokeLicense, TypeOK
    <3>3. licenses'[l] \in LicenseRows
      BY <3>1, <3>2 DEF LicenseRows
    <3> QED
      BY <3>3, SentinelsAssumption DEF Issued
  <2>2. CASE k # l
    BY <1>4, <2>2 DEF RevokeLicense, SeatsAreIssued, Issued, TypeOK
  <2> QED
    BY <2>1, <2>2
<1>5. CASE \E h \in Handlers : Proceed(h)
  <2>1. PICK h \in Handlers : Proceed(h)
    BY <1>5
  <2>2. CASE ~ActivateDevice(h) /\ ~DeactivateDevice(h)
    <3>1. devices' = devices /\ licenses' = licenses
      BY <2>1, <2>2 DEF Proceed, GetLicense, GetLicenseByKey, CheckStatus, GetActiveDevice,
         CheckSeats, Notify, TouchDevice, CountSeats, StatementFails, Respond
    <3> QED
      BY <1>1, <3>1
  <2> QED
    BY <1>2, <2>2
<1> QED
  BY <1>1, <1>3, <1>4, <1>5 DEF Next, Receive, Tick, Crash, vars

(* An issued license stays issued, with the seats and the expiry it has.   *)
LEMMA LicensesKept ==
  ASSUME TypeOK, [Next]_vars, NEW l \in Licenses, Issued(l)
  PROVE  /\ Issued(l)'
         /\ licenses'[l].maxDevices = licenses[l].maxDevices
         /\ licenses'[l].expiresAt = licenses[l].expiresAt
<1>1. CASE licenses' = licenses
  BY <1>1 DEF Issued
<1>2. ASSUME NEW k \in Licenses, NEW n \in RequestedSeats, NEW e \in Expiries,
             IssueLicense(k, n, e)
      PROVE  licenses'[l] = licenses[l]
  BY <1>2 DEF IssueLicense, Issued, TypeOK
<1>3. ASSUME NEW k \in Licenses, RevokeLicense(k)
      PROVE  /\ Issued(l)'
             /\ licenses'[l].maxDevices = licenses[l].maxDevices
             /\ licenses'[l].expiresAt = licenses[l].expiresAt
  <2>1. CASE k = l
    <3>1. licenses[l] \in LicenseRows /\ clock \in Int
      BY LimitType, MaxClockAssumption DEF TypeOK
    <3>2. licenses'[l] = [licenses[l] EXCEPT !.revokedAt = clock]
      BY <1>3, <2>1 DEF RevokeLicense, TypeOK
    <3>3. licenses'[l] \in LicenseRows
      BY <3>1, <3>2 DEF LicenseRows
    <3> QED
      BY <3>1, <3>2, <3>3, SentinelsAssumption DEF Issued, LicenseRows
  <2>2. CASE k # l
    BY <1>3, <2>2 DEF RevokeLicense, Issued, TypeOK
  <2> QED
    BY <2>1, <2>2
<1>4. CASE \E h \in Handlers : Proceed(h)
  BY <1>1, <1>4, ProceedFrame
<1>5. CASE \E k \in Licenses, n \in RequestedSeats, e \in Expiries : IssueLicense(k, n, e)
  BY <1>2, <1>5 DEF Issued
<1>6. CASE \E k \in Licenses : RevokeLicense(k)
  BY <1>3, <1>6
<1> QED
  BY <1>1, <1>4, <1>5, <1>6 DEF Next, Receive, Tick, Crash, vars

(* The number of seats held and about to be taken stays within the limit   *)
(* and the slack.                                                          *)
LEMMA NextSeatBudget ==
  ASSUME IInv, [Next]_vars
  PROVE  SeatBudget'
<1> SUFFICES ASSUME NEW l \in Licenses, Issued(l)'
             PROVE  Cardinality(ActiveDevices(l)') + Cardinality(Reserving(l)')
                      <= licenses'[l].maxDevices + Cardinality(Handlers) - 1
  BY DEF SeatBudget, ActiveDeviceCount
<1> DEFINE A == ActiveDevices(l)
           R == Reserving(l)
           N == Cardinality(Handlers)
           max == licenses[l].maxDevices
<1> HIDE DEF A, R, N, max
<1>1. IsFiniteSet(A) /\ IsFiniteSet(R) /\ N \in Nat \ {0}
  BY HandlersCount DEF IInv, FinitelyActive, A, R, N
<1>2. Cardinality(A) \in Nat /\ Cardinality(R) \in Nat
  BY <1>1, FS_CardinalityType
<1>3. IsFiniteSet(R') /\ Cardinality(R') \in Nat /\ Cardinality(R') <= N
  <2>1. R' \subseteq Handlers
    BY DEF R, Reserving
  <2> QED
    BY <2>1, HandlersAssumption, FS_Subset, FS_CardinalityType DEF N
<1>4. CASE Issued(l)
  <2>1. licenses'[l].maxDevices = max /\ max \in Nat \ {0}
    BY <1>4, LicensesKept, LimitType DEF IInv, max
  <2>2. Cardinality(A) + Cardinality(R) <= max + N - 1
    BY <1>4 DEF IInv, SeatBudget, ActiveDeviceCount, A, R, N, max
  <2>3. CASE A' \subseteq A /\ R' \subseteq R
    <3>1. Cardinality(A') <= Cardinality(A) /\ Cardinality(R') <= Cardinality(R)
      BY <1>1, <2>3, FS_Subset
    <3>2. Cardinality(A') \in Nat
      BY <1>1, <2>3, FS_Subset, FS_CardinalityType
    <3> QED
      BY <1>1, <1>2, <1>3, <2>1, <2>2, <3>1, <3>2 DEF A, R, N
  <2>4. CASE A' = A /\ Cardinality(A) < max
    BY <1>1, <1>2, <1>3, <2>1, <2>4 DEF A, R, N
  <2>5. CASE \E h \in R, d \in Devices : A' = A \cup {d} /\ R' \subseteq R \ {h}
    <3>1. PICK h \in R, d \in Devices : A' = A \cup {d} /\ R' \subseteq R \ {h}
      BY <2>5
    <3>2. Cardinality(A') \in Nat /\ Cardinality(A') <= Cardinality(A) + 1
      <4>1. /\ IsFiniteSet(A \cup {d})
            /\ Cardinality(A \cup {d}) \in {Cardinality(A), Cardinality(A) + 1}
        BY <1>1, FS_AddElement
      <4> QED
        BY <1>2, <3>1, <4>1
    <3>3. Cardinality(R \ {h}) = Cardinality(R) - 1 /\ IsFiniteSet(R \ {h})
      BY <1>1, FS_RemoveElement
    <3>4. Cardinality(R') <= Cardinality(R) - 1
      BY <3>1, <3>3, FS_Subset
    <3> QED
      BY <1>1, <1>2, <1>3, <2>1, <2>2, <3>2, <3>4 DEF A, R, N
  <2> QED
    BY <2>3, <2>4, <2>5, SeatSteps DEF IInv, ActiveDeviceCount, A, R, max
<1>5. CASE ~Issued(l)
  <2>1. PICK n \in RequestedSeats, e \in Expiries : IssueLicense(l, n, e)
    <3>1. licenses' # licenses
      BY <1>5 DEF Issued
    <3>2. CASE \E h \in Handlers : Proceed(h)
      BY <3>1, <3>2, ProceedFrame DEF IInv
    <3>3. ASSUME NEW k \in Licenses, RevokeLicense(k)
          PROVE  FALSE
      BY <1>5, <3>3 DEF RevokeLicense, Issued, IInv, TypeOK
    <3>4. ASSUME NEW k \in Licenses, NEW m \in RequestedSeats, NEW f \in Expiries,
                 IssueLicense(k, m, f), k # l
          PROVE  FALSE
      BY <1>5, <3>4 DEF IssueLicense, Issued, IInv, TypeOK
    <3> QED
      BY <3>1, <3>2, <3>3, <3>4 DEF Next, Receive, Tick, Crash, vars
  <2>2. A = {} /\ R = {}
    BY <1>5 DEF IInv, SeatsAreIssued, ReadsComeFirst, ReadFirst, Checked, SnapshotAgrees,
       A, R, ActiveDevices, Reserving, At
  <2>3. A' = A /\ R' = R
    BY <2>1 DEF IssueLicense, A, R, ActiveDevices, Reserving, At
  <2>4. licenses'[l].maxDevices \in Nat \ {0}
    BY <2>1, ClampedPositive DEF IssueLicense, IInv, TypeOK
  <2>5. Cardinality(A') = 0 /\ Cardinality(R') = 0
    BY <2>2, <2>3, FS_EmptySet
  <2> QED
    BY <1>1, <2>4, <2>5 DEF A, R, N
<1> QED
  BY <1>4, <1>5

(* The invariant is inductive.                                             *)
LEMMA NextIInv == IInv /\ [Next]_vars => IInv'
  BY NextTypeOK, NextFinitelyActive, NextSeatsAreIssued, NextReadsComeFirst,
     NextSnapshotAgrees, NextSeatBudget DEF IInv

(* The invariant holds in every state of every behaviour.                  *)
THEOREM Invariance == Spec => []IInv
  BY InitIInv, NextIInv, PTL DEF Spec

-----------------------------------------------------------------------------
(* Theorems.                                                               *)

(* Type correctness: for any number of devices and licenses, the tables    *)
(* and the requests have the types TypeOK gives them; in particular every  *)
(* count that goes into a token is a number.                               *)
THEOREM TypeCorrect == Spec => []TypeOK
  BY Invariance, PTL DEF IInv

(* However requests overlap, fail or are cut short by a crash, a license   *)
(* has at most as many active devices as it allows, and one more for every *)
(* request the server works on besides the first (service.activate, store. *)
(* ActivateDevice).                                                        *)
THEOREM SeatOvershootBounded == Spec => []SeatOvershootBound
<1>1. IInv => SeatOvershootBound
  <2> SUFFICES ASSUME IInv, NEW l \in Licenses, Issued(l)
               PROVE  ActiveDeviceCount(l) <= licenses[l].maxDevices + Cardinality(Handlers) - 1
    BY DEF SeatOvershootBound
  <2>1. /\ ActiveDeviceCount(l) \in Nat
        /\ Cardinality(Reserving(l)) \in Nat
        /\ Cardinality(Handlers) \in Nat
        /\ licenses[l].maxDevices \in Nat
    BY CountType, HandlersCount, LimitType DEF IInv
  <2>2. ActiveDeviceCount(l) + Cardinality(Reserving(l))
          <= licenses[l].maxDevices + Cardinality(Handlers) - 1
    BY DEF IInv, SeatBudget
  <2> QED
    BY <2>1, <2>2
<1> QED
  BY <1>1, Invariance, PTL

(* Requests that come one at a time never exceed the limit: this is the    *)
(* documented seat limit, and the only condition under which it holds.     *)
THEOREM SequentialSeatLimit ==
  ASSUME Cardinality(Handlers) = 1
  PROVE  Spec => []SeatLimit
<1>1. SeatOvershootBound /\ TypeOK => SeatLimit
  <2> SUFFICES ASSUME SeatOvershootBound, TypeOK, NEW l \in Licenses, Issued(l)
               PROVE  ActiveDeviceCount(l) <= licenses[l].maxDevices
    BY DEF SeatLimit
  <2>1. licenses[l].maxDevices \in Nat
    BY LimitType
  <2>2. ActiveDeviceCount(l) <= licenses[l].maxDevices + 1 - 1
    BY DEF SeatOvershootBound
  <2> QED
    BY <2>1, <2>2
<1> QED
  BY <1>1, SeatOvershootBounded, TypeCorrect, PTL

(* What a request has read of a license agrees with the table for as long  *)
(* as the request lasts, but for a revocation in between.                  *)
THEOREM SnapshotsAgree == Spec => []SnapshotAgrees
  BY Invariance, PTL DEF IInv

(* The time rules, for any period, horizon and expiry (License.Status,     *)
(* service.sign, cmdRun): a token signed while the license is good can be  *)
(* used at least at that instant, and at no instant at which a client      *)
(* accepts it is the license expired or the period over.                   *)
THEOREM TokenLife ==
  ASSUME NEW expiresAt \in Int \cup {Never}, NEW t \in Int, NEW offline \in BOOLEAN
  PROVE  LET until == ValidUntil(expiresAt, t, offline) IN
         /\ until \in Int
         /\ expiresAt # Never => until <= expiresAt
         /\ until <= t + (IF offline THEN OfflineHorizon ELSE OnlineGracePeriod)
         /\ Status(Never, expiresAt, t) = "active" => Accepts(until, t)
         /\ \A u \in Int : Accepts(until, u) => Status(Never, expiresAt, u) = "active"
<1> DEFINE uncapped == t + (IF offline THEN OfflineHorizon ELSE OnlineGracePeriod)
<1>1. uncapped \in Int /\ t <= uncapped
  BY DurationsAssumption
<1>2. ValidUntil(expiresAt, t, offline) =
        IF expiresAt # Never /\ expiresAt < uncapped THEN expiresAt ELSE uncapped
  BY DEF ValidUntil
<1> HIDE DEF uncapped
<1>3. CASE expiresAt = Never
  BY <1>1, <1>2, <1>3 DEF Status, ExpiredAt, Accepts, uncapped
<1>4. CASE expiresAt \in Int
  BY <1>1, <1>2, <1>4, NeverAssumption DEF Status, ExpiredAt, Accepts, uncapped
<1> QED
  BY <1>3, <1>4

(* No client accepts a token just issued once its license has expired, at  *)
(* whatever points of the request time passed (service.sign).              *)
THEOREM AcceptedTokensUnexpired == Spec => []AcceptedTokenUnexpired
<1>1. IInv => AcceptedTokenUnexpired
  <2> SUFFICES ASSUME IInv, NEW h \in Handlers, At(h, "Respond"), calls[h].answer = "token",
                      Accepts(TokenOf(h).validUntil, clock)
               PROVE  /\ ~ExpiredAt(licenses[TokenOf(h).license].expiresAt, clock)
                      /\ TokenOf(h).status = "active"
    BY DEF AcceptedTokenUnexpired
  <2>1. /\ calls[h] # NoCall /\ calls[h] \in CallRecords
        /\ calls[h].key \in Licenses /\ calls[h].at \in Int /\ clock \in Int
    BY MaxClockAssumption DEF At, IInv, TypeOK, CallRecords
  <2>2. Checked(calls[h])
    BY <2>1 DEF IInv, ReadsComeFirst, ReadFirst
  <2>3. /\ calls[h].lic.expiresAt = licenses[calls[h].key].expiresAt
        /\ Issued(calls[h].key)
    BY <2>1, <2>2 DEF IInv, SnapshotAgrees, Checked
  <2>4. calls[h].lic.expiresAt \in Int \cup {Never}
    BY <2>1, <2>3, LimitType, ExpiriesAssumption DEF IInv, LicenseRows
  <2>5. /\ TokenOf(h).license = calls[h].key
        /\ TokenOf(h).status = StatusOf(calls[h].lic, calls[h].at)
        /\ TokenOf(h).validUntil =
             ValidUntil(calls[h].lic.expiresAt, calls[h].at, calls[h].op = "offline")
    BY DEF TokenOf
  <2>6. Accepts(ValidUntil(calls[h].lic.expiresAt, calls[h].at, calls[h].op = "offline"), clock)
    BY <2>5
  <2>7. ~ExpiredAt(calls[h].lic.expiresAt, clock)
    <3> DEFINE offline == calls[h].op = "offline"
               until == ValidUntil(calls[h].lic.expiresAt, calls[h].at, offline)
    <3>1. offline \in BOOLEAN
      OBVIOUS
    <3>2. until \in Int /\ (calls[h].lic.expiresAt # Never => until <= calls[h].lic.expiresAt)
      BY <2>1, <2>4, <3>1, TokenLife
    <3>3. Accepts(until, clock)
      BY <2>6
    <3> HIDE DEF until
    <3> QED
      BY <2>1, <2>4, <3>2, <3>3 DEF Accepts, ExpiredAt
  <2> QED
    BY <2>2, <2>3, <2>5, <2>7 DEF Checked
<1> QED
  BY <1>1, Invariance, PTL

-----------------------------------------------------------------------------
(* The tables implement the ledger.                                        *)

(* The expressions that stand for the variables of the ledger.             *)
LedgerLimit == [l \in Licenses |-> IF Issued(l) THEN licenses[l].maxDevices ELSE 0]
LedgerRevoked == {l \in Licenses : Issued(l) /\ licenses[l].revokedAt # Never}
LedgerSeats == [l \in Licenses |-> ActiveDevices(l)]

(* A step that leaves the tables alone leaves the ledger alone.            *)
LEMMA LedgerStutters ==
  ASSUME licenses' = licenses, devices' = devices
  PROVE  UNCHANGED Ledger!vars
  BY DEF Ledger!vars, Issued, ActiveDevices

(* The upsert takes one seat, within the slack, or revives nothing.        *)
LEMMA ActivateTakes ==
  ASSUME IInv, NEW h \in Handlers, ActivateDevice(h)
  PROVE  \/ UNCHANGED Ledger!vars
         \/ Ledger!Take(calls[h].key, calls[h].device)
<1>1. PICK k \in Licenses, d \in Devices :
         /\ calls[h] # NoCall /\ k = calls[h].key /\ d = calls[h].device
         /\ licenses' = licenses
         /\ devices' = [devices EXCEPT ![k][d] = "active"]
  BY DEF ActivateDevice, At, IInv, TypeOK, CallRecords
<1>2. Issued(k)
  BY <1>1 DEF ActivateDevice, At, IInv, ReadsComeFirst, ReadFirst, Checked, SnapshotAgrees
<1>3. LedgerLimit' = LedgerLimit /\ LedgerRevoked' = LedgerRevoked
  BY <1>1 DEF LedgerLimit, LedgerRevoked, Issued
<1>4. /\ ActiveDevices(k)' = ActiveDevices(k) \cup {d}
      /\ \A l \in Licenses : l # k => ActiveDevices(l)' = ActiveDevices(l)
  BY <1>1 DEF ActiveDevices, IInv, TypeOK
<1>5. CASE d \in ActiveDevices(k)
  <2>1. \A l \in Licenses : ActiveDevices(l)' = ActiveDevices(l)
    BY <1>4, <1>5
  <2>2. LedgerSeats' = LedgerSeats
    BY <2>1 DEF LedgerSeats
  <2> QED
    BY <1>3, <2>2 DEF Ledger!vars, LedgerLimit, LedgerRevoked, LedgerSeats
<1>6. CASE d \notin ActiveDevices(k)
  <2>1. h \in Reserving(k)
    BY <1>1 DEF Reserving, ActivateDevice
  <2>2. Cardinality(Reserving(k)) \in Nat \ {0}
    BY <1>1, <2>1, HandlersCount, FS_EmptySet
  <2>3. licenses[k].maxDevices \in Nat \ {0}
    BY <1>1, <1>2, LimitType DEF IInv
  <2>4. Cardinality(ActiveDevices(k)) + Cardinality(Reserving(k))
          <= licenses[k].maxDevices + Cardinality(Handlers) - 1
    BY <1>1, <1>2 DEF IInv, SeatBudget, ActiveDeviceCount
  <2>5. Cardinality(ActiveDevices(k)) \in Nat
    BY <1>1, CountType DEF IInv, ActiveDeviceCount
  <2>6. Cardinality(ActiveDevices(k)) < licenses[k].maxDevices + (Cardinality(Handlers) - 1)
    BY <2>2, <2>3, <2>4, <2>5, HandlersCount
  <2>7. /\ LedgerLimit[k] # 0
        /\ d \notin LedgerSeats[k]
        /\ Cardinality(LedgerSeats[k]) < LedgerLimit[k] + (Cardinality(Handlers) - 1)
    BY <1>1, <1>2, <1>6, <2>3, <2>6 DEF LedgerLimit, LedgerSeats
  <2>8. LedgerSeats' = [LedgerSeats EXCEPT ![k] = @ \cup {d}]
    BY <1>4 DEF LedgerSeats
  <2>9. (/\ LedgerLimit[k] # 0
         /\ d \notin LedgerSeats[k]
         /\ Cardinality(LedgerSeats[k]) < LedgerLimit[k] + (Cardinality(Handlers) - 1)
         /\ LedgerSeats' = [LedgerSeats EXCEPT ![k] = @ \cup {d}]
         /\ LedgerLimit' = LedgerLimit
         /\ LedgerRevoked' = LedgerRevoked) => Ledger!Take(k, d)
    BY Zenon DEF Ledger!Take, LedgerLimit, LedgerRevoked, LedgerSeats,
       Ledger!Cardinality, Cardinality
  <2> QED
    BY <1>1, <1>3, <2>7, <2>8, <2>9
<1> QED
  BY <1>5, <1>6

(* The UPDATE of a deactivation frees one seat, or finds none to free.     *)
LEMMA DeactivateFrees ==
  ASSUME IInv, NEW h \in Handlers, DeactivateDevice(h)
  PROVE  \/ UNCHANGED Ledger!vars
         \/ \E l \in Licenses, d \in Devices : Ledger!Free(l, d)
<1>1. PICK k \in Licenses, d \in Devices :
         calls[h] # NoCall /\ k = calls[h].key /\ d = calls[h].device
  BY DEF DeactivateDevice, At, IInv, TypeOK, CallRecords
<1>2. licenses' = licenses
  BY DEF DeactivateDevice
<1>3. CASE devices' = devices
  BY <1>2, <1>3, LedgerStutters
<1>4. CASE devices' = [devices EXCEPT ![k][d] = "freed"] /\ d \in ActiveDevices(k)
  <2>1. LedgerLimit' = LedgerLimit /\ LedgerRevoked' = LedgerRevoked
    BY <1>2 DEF LedgerLimit, LedgerRevoked, Issued
  <2>2. /\ ActiveDevices(k)' = ActiveDevices(k) \ {d}
        /\ \A l \in Licenses : l # k => ActiveDevices(l)' = ActiveDevices(l)
    BY <1>1, <1>4 DEF ActiveDevices, IInv, TypeOK
  <2>3. LedgerSeats' = [LedgerSeats EXCEPT ![k] = @ \ {d}]
    BY <2>2 DEF LedgerSeats
  <2>4. d \in LedgerSeats[k]
    BY <1>4 DEF LedgerSeats
  <2>5. Ledger!Free(k, d)
    BY <2>1, <2>3, <2>4 DEF Ledger!Free, LedgerLimit, LedgerRevoked, LedgerSeats
  <2> QED
    BY <2>5
<1> QED
  BY <1>1, <1>3, <1>4 DEF DeactivateDevice

(* The issue form adds a license to the ledger, with at least one seat.    *)
LEMMA IssueIssues ==
  ASSUME IInv, NEW l \in Licenses, NEW n \in RequestedSeats, NEW e \in Expiries,
         IssueLicense(l, n, e)
  PROVE  Ledger!Issue(l, ClampSeats(n))
<1>1. /\ ~Issued(l)
      /\ licenses' = [licenses EXCEPT ![l] = [maxDevices |-> ClampSeats(n),
                                              expiresAt  |-> e,
                                              revokedAt  |-> Never]]
      /\ devices' = devices
  BY DEF IssueLicense
<1>2. licenses'[l] \in LicenseRows /\ licenses'[l].maxDevices = ClampSeats(n)
      /\ licenses'[l].revokedAt = Never
  BY <1>1, ClampedPositive DEF IInv, TypeOK, LicenseRows
<1>3. Issued(l)'
  BY <1>2, SentinelsAssumption DEF Issued
<1>4. \A k \in Licenses : k # l => licenses'[k] = licenses[k]
  BY <1>1 DEF IInv, TypeOK
<1>5. LedgerLimit[l] = 0
  BY <1>1 DEF LedgerLimit
<1>6. LedgerLimit' = [LedgerLimit EXCEPT ![l] = ClampSeats(n)]
  BY <1>2, <1>3, <1>4 DEF LedgerLimit, Issued
<1>7. LedgerRevoked' = LedgerRevoked
  BY <1>1, <1>2, <1>4 DEF LedgerRevoked, Issued
<1>8. LedgerSeats' = LedgerSeats
  BY <1>1 DEF LedgerSeats, ActiveDevices
<1> QED
  BY <1>5, <1>6, <1>7, <1>8 DEF Ledger!Issue, LedgerLimit, LedgerRevoked, LedgerSeats

(* The revoke button strikes a license off once.                           *)
LEMMA RevokeRevokes ==
  ASSUME IInv, NEW l \in Licenses, RevokeLicense(l)
  PROVE  Ledger!Revoke(l)
<1>1. /\ Issued(l) /\ licenses[l].revokedAt = Never
      /\ licenses' = [licenses EXCEPT ![l].revokedAt = clock]
      /\ devices' = devices
      /\ clock \in Int
  BY MaxClockAssumption DEF RevokeLicense, IInv, TypeOK
<1>2. licenses[l] \in LicenseRows /\ licenses[l].maxDevices \in Nat \ {0}
  BY <1>1, LimitType DEF IInv
<1>3. licenses'[l] = [licenses[l] EXCEPT !.revokedAt = clock]
  BY <1>1 DEF IInv, TypeOK
<1>4. /\ licenses'[l] \in LicenseRows
      /\ licenses'[l].maxDevices = licenses[l].maxDevices
      /\ licenses'[l].revokedAt # Never
  BY <1>1, <1>2, <1>3, NeverAssumption DEF LicenseRows
<1>5. Issued(l)'
  BY <1>4, SentinelsAssumption DEF Issued
<1>6. \A k \in Licenses : k # l => licenses'[k] = licenses[k]
  BY <1>1 DEF IInv, TypeOK
<1>7. LedgerLimit[l] # 0 /\ l \notin LedgerRevoked
  BY <1>1, <1>2 DEF LedgerLimit, LedgerRevoked
<1>8. LedgerLimit' = LedgerLimit
  BY <1>1, <1>4, <1>5, <1>6 DEF LedgerLimit, Issued
<1>9. LedgerRevoked' = LedgerRevoked \cup {l}
  BY <1>4, <1>5, <1>6 DEF LedgerRevoked, Issued
<1>10. LedgerSeats' = LedgerSeats
  BY <1>1 DEF LedgerSeats, ActiveDevices
<1> QED
  BY <1>7, <1>8, <1>9, <1>10 DEF Ledger!Revoke, LedgerLimit, LedgerRevoked, LedgerSeats

(* Every step of the service is a step of the ledger or leaves it alone.   *)
LEMMA StepImplementsLedger ==
  IInv /\ [Next]_vars => [Ledger!Next]_(Ledger!vars)
<1> SUFFICES ASSUME IInv, [Next]_vars
             PROVE  [Ledger!Next]_(Ledger!vars)
  OBVIOUS
<1>1. CASE licenses' = licenses /\ devices' = devices
  BY <1>1, LedgerStutters
<1>2. ASSUME NEW h \in Handlers, ActivateDevice(h)
      PROVE  [Ledger!Next]_(Ledger!vars)
  <2>1. calls[h].key \in Licenses /\ calls[h].device \in Devices
    BY <1>2 DEF ActivateDevice, At, IInv, TypeOK, CallRecords
  <2> QED
    BY <1>2, <2>1, ActivateTakes DEF Ledger!Next
<1>3. ASSUME NEW h \in Handlers, DeactivateDevice(h)
      PROVE  [Ledger!Next]_(Ledger!vars)
  BY <1>3, DeactivateFrees DEF Ledger!Next
<1>4. ASSUME NEW l \in Licenses, NEW n \in RequestedSeats, NEW e \in Expiries,
             IssueLicense(l, n, e)
      PROVE  [Ledger!Next]_(Ledger!vars)
  <2>1. ClampSeats(n) \in {1} \cup {m \in RequestedSeats : m > 1}
    BY RequestedSeatsAssumption DEF ClampSeats
  <2> QED
    BY <1>4, <2>1, IssueIssues DEF Ledger!Next
<1>5. ASSUME NEW l \in Licenses, RevokeLicense(l)
      PROVE  [Ledger!Next]_(Ledger!vars)
  BY <1>5, RevokeRevokes DEF Ledger!Next
<1>6. ASSUME NEW h \in Handlers, Proceed(h), ~ActivateDevice(h), ~DeactivateDevice(h)
      PROVE  licenses' = licenses /\ devices' = devices
  BY <1>6 DEF Proceed, GetLicense, GetLicenseByKey, CheckStatus, GetActiveDevice,
     CheckSeats, Notify, TouchDevice, CountSeats, StatementFails, Respond
<1>7. CASE \E h \in Handlers : Proceed(h)
  <2>1. PICK h \in Handlers : Proceed(h)
    BY <1>7
  <2> QED
    BY <1>1, <1>2, <1>3, <1>6, <2>1
<1>8. CASE \E l \in Licenses, n \in RequestedSeats, e \in Expiries : IssueLicense(l, n, e)
  BY <1>4, <1>8
<1>9. CASE \E l \in Licenses : RevokeLicense(l)
  BY <1>5, <1>9
<1>10. CASE Tick \/ Crash \/ UNCHANGED vars
  <2>1. licenses' = licenses /\ devices' = devices
    BY <1>10 DEF Tick, Crash, vars
  <2> QED
    BY <1>1, <2>1
<1>11. CASE \E h \in Handlers, op \in Ops, l \in Licenses, d \in Devices : Receive(h, op, l, d)
  <2>1. licenses' = licenses /\ devices' = devices
    BY <1>11 DEF Receive
  <2> QED
    BY <1>1, <2>1
<1> QED
  BY <1>7, <1>8, <1>9, <1>10, <1>11 DEF Next

(* The service implements the ledger: seats are taken and freed one at a   *)
(* time and within the slack, a license is issued once and revoked once,   *)
(* and what is done to one license changes no other.                       *)
THEOREM LedgerImplemented == Spec => ImplementsLedger
<1>1. Init => Ledger!Init
  BY DEF Init, Ledger!Init, Issued, ActiveDevices
<1> QED
  BY <1>1, StepImplementsLedger, Invariance, PTL DEF Spec, ImplementsLedger, Ledger!Spec
=============================================================================
