-------------------------- MODULE SeatHistoryProof --------------------------
(* Theorems about LicensingHistory, for any licenses, devices, requests,   *)
(* seat limits, expiries and periods: what the answers of the service can  *)
(* be relied on for when requests overlap.                                 *)
EXTENDS LicensingHistory, LicensingProof

-----------------------------------------------------------------------------
(* The inductive invariant.                                                *)

(* The status of the license as it was read was true when it was read; the *)
(* license was active for every request past the check, the device seated  *)
(* for every one past the search for a seat; and each answer has what it   *)
(* says in the history.                                                    *)
Warranted(c, facts) ==
    /\ c.pc = "CheckStatus" => \E t \in Int : t <= clock /\ StatusOf(c.lic, t) \in facts
    /\ \/ c.pc \in {"GetActiveDevice", "CheckSeats", "ActivateDevice",
                    "TouchDevice", "CountSeats"}
       \/ c.pc = "Notify" /\ ~Deactivates(c.op)
       \/ c.answer = "token"
       => "active" \in facts
    /\ c.pc \in {"TouchDevice", "CountSeats", "Notify"} => "seated" \in facts
    /\ c.pc \in {"CheckSeats", "ActivateDevice", "Notify"} => "unseated" \in facts
    /\ c.pc \in {"CheckSeats", "ActivateDevice"} => ~Deactivates(c.op)
    /\ c.answer = "token" => "seated" \in facts
    /\ c.answer = "ok" \/ (c.pc = "Notify" /\ Deactivates(c.op)) => "lostSeat" \in facts
    /\ c.answer = "redirected" => "unseated" \in facts
    /\ c.answer = "device_limit_reached" => "full" \in facts /\ "unseated" \in facts
    /\ c.answer = "license_not_active" => "revoked" \in facts \/ "expired" \in facts
    /\ c.answer = "not_found" => "unknown" \in facts \/ "unseated" \in facts

RequestsWarranted ==
    \A h \in Handlers :
        calls[h] # NoCall => FactsNow(h) \subseteq seen[h] /\ Warranted(calls[h], seen[h])

HistoryIInv ==
    /\ IInv
    /\ HistoryTypeOK
    /\ RequestsWarranted

-----------------------------------------------------------------------------
(* What the record of a request says.                                      *)

(* The history of a request grows, by what holds after the step.           *)
LEMMA RecordedFacts ==
  ASSUME Record, NEW h \in Handlers, calls[h] # NoCall, calls'[h] # NoCall
  PROVE  /\ seen[h] \subseteq seen'[h]
         /\ FactsNow(h)' \subseteq seen'[h]
         /\ Seated(h) /\ ~Seated(h)' => "lostSeat" \in seen'[h]
  BY DEF Record, FactsOfStep

(* A request whose step leaves the tables alone records what they say.     *)
LEMMA FactsUnchanged ==
  ASSUME Record, NEW h \in Handlers, calls[h] # NoCall, calls'[h] # NoCall,
         calls'[h].key = calls[h].key, calls'[h].device = calls[h].device,
         UNCHANGED <<clock, licenses, devices>>
  PROVE  LET l == calls[h].key IN
         /\ calls[h].device \in ActiveDevices(l) => "seated" \in seen'[h]
         /\ calls[h].device \notin ActiveDevices(l) => "unseated" \in seen'[h]
         /\ ~Issued(l) => "unknown" \in seen'[h]
         /\ Issued(l) => StatusOf(licenses[l], clock) \in seen'[h]
         /\ Issued(l) /\ ActiveDeviceCount(l) >= licenses[l].maxDevices => "full" \in seen'[h]
<1>1. FactsNow(h)' = FactsNow(h)
  BY DEF FactsNow, Seated, ActiveDevices, ActiveDeviceCount, Issued
<1>2. LET l == calls[h].key IN
      /\ calls[h].device \in ActiveDevices(l) => "seated" \in FactsNow(h)
      /\ calls[h].device \notin ActiveDevices(l) => "unseated" \in FactsNow(h)
      /\ ~Issued(l) => "unknown" \in FactsNow(h)
      /\ Issued(l) => StatusOf(licenses[l], clock) \in FactsNow(h)
      /\ Issued(l) /\ ActiveDeviceCount(l) >= licenses[l].maxDevices => "full" \in FactsNow(h)
  BY DEF FactsNow, Seated
<1> QED
  BY <1>1, <1>2, RecordedFacts

(* A status that is active at a time was active before it.                 *)
LEMMA ActiveBefore ==
  ASSUME NEW lic \in LicenseRows, NEW t \in Int, NEW u \in Int, t <= u,
         StatusOf(lic, u) = "active"
  PROVE  StatusOf(lic, t) = "active"
<1>1. lic.expiresAt \in Int \cup {Never}
  BY ExpiriesAssumption DEF LicenseRows
<1>2. lic.revokedAt = Never /\ ~ExpiredAt(lic.expiresAt, u)
  BY DEF StatusOf, Status
<1>3. ~ExpiredAt(lic.expiresAt, t)
  BY <1>1, <1>2, NeverAssumption DEF ExpiredAt
<1> QED
  BY <1>2, <1>3 DEF StatusOf, Status

(* The answers the outcomes of the service come to.                        *)
LEMMA AnswersOf ==
  ASSUME NEW op
  PROVE  /\ \A o \in {"license_not_active", "device_limit_reached"} : Answer(op, o) = o
         /\ Answer(op, "not_found") = "redirected" => op = "free"
         /\ Answer(op, "not_found") \in {"could_not_issue", "redirected", "not_found"}
         /\ Answer(op, "ok") \in {"redirected", "ok"}
         /\ Answer(op, "internal_error") \in {"could_not_issue", "internal_error"}
  BY DEF Answer

-----------------------------------------------------------------------------
(* The steps of a request.                                                 *)

(* Where the request stays between two answers, and what an error says.    *)
LEMMA MovesOn ==
  ASSUME TypeOK, NEW h \in Handlers, calls[h] \in CallRecords, NEW pc, Goto(h, pc)
  PROVE  /\ calls'[h].pc = pc /\ calls'[h].op = calls[h].op
         /\ calls'[h].lic = calls[h].lic /\ calls'[h].answer = calls[h].answer
  BY GotoFrame

(* A return of the service keeps the operation and sets the answer.        *)
LEMMA Returns ==
  ASSUME TypeOK, NEW h \in Handlers, calls[h] \in CallRecords, NEW outcome, Return(h, outcome)
  PROVE  /\ calls'[h].pc = "Respond" /\ calls'[h].op = calls[h].op
         /\ calls'[h].answer = Answer(calls[h].op, outcome)
  BY DEF TypeOK, Return, Reply, CallRecords

(* ... as a reply of the handler does.                                     *)
LEMMA Replies ==
  ASSUME TypeOK, NEW h \in Handlers, calls[h] \in CallRecords, NEW answer, Reply(h, answer)
  PROVE  /\ calls'[h].pc = "Respond" /\ calls'[h].op = calls[h].op
         /\ calls'[h].answer = answer
  BY DEF TypeOK, Reply, CallRecords

(* A request that advances has in its history what it then relies on.      *)
LEMMA ProceedWarranted ==
  ASSUME HistoryIInv, NEW h \in Handlers, Proceed(h), Record, calls'[h] # NoCall
  PROVE  Warranted(calls[h], seen[h])'
<1> DEFINE l == calls[h].key
           W == Warranted(calls[h], seen[h])'
<1>1. /\ TypeOK /\ calls[h] # NoCall /\ calls[h] \in CallRecords
      /\ l \in Licenses /\ calls[h].device \in Devices
      /\ clock' = clock /\ licenses' = licenses /\ clock \in Int
      /\ calls'[h].key = l /\ calls'[h].device = calls[h].device
  <2>1. TypeOK
    BY DEF HistoryIInv, IInv
  <2> QED
    BY <2>1, ProceedFrame, ProceedLicense, MaxClockAssumption DEF TypeOK, CallRecords
<1>2. Warranted(calls[h], seen[h]) /\ FactsNow(h) \subseteq seen[h]
  BY <1>1 DEF HistoryIInv, RequestsWarranted
<1>3. seen[h] \subseteq seen'[h] /\ FactsNow(h)' \subseteq seen'[h]
  BY <1>1, RecordedFacts
<1>4. ReadFirst(calls[h])
  BY DEF HistoryIInv, IInv, ReadsComeFirst
<1>5. calls[h].pc # "Respond" => calls[h].answer = "none"
  BY <1>1, <1>4 DEF ReadFirst
<1>6. devices' = devices =>
         /\ calls[h].device \in ActiveDevices(l) => "seated" \in seen'[h]
         /\ calls[h].device \notin ActiveDevices(l) => "unseated" \in seen'[h]
         /\ ~Issued(l) => "unknown" \in seen'[h]
         /\ Issued(l) => StatusOf(licenses[l], clock) \in seen'[h]
         /\ Issued(l) /\ ActiveDeviceCount(l) >= licenses[l].maxDevices => "full" \in seen'[h]
  BY <1>1, FactsUnchanged
<1> USE <1>1
<1>7. ASSUME calls'[h].pc = "Respond", calls'[h].answer \in {"could_not_issue", "internal_error"}
      PROVE  W
  BY <1>7 DEF Warranted
<1>8. CASE GetLicense(h)
  <2>1. CASE Issued(l)
    BY <1>5, <1>8, <2>1, MovesOn DEF GetLicense, At, Warranted
  <2>2. CASE ~Issued(l)
    BY <1>6, <1>8, <2>2, Replies DEF GetLicense, At, Warranted
  <2> QED
    BY <2>1, <2>2
<1>9. CASE GetLicenseByKey(h)
  <2>1. CASE Issued(l)
    <3>1. /\ calls'[h].pc = IF Deactivates(calls[h].op) THEN "DeactivateDevice" ELSE "CheckStatus"
          /\ calls'[h].lic = licenses[l] /\ calls'[h].answer = "none"
      BY <1>5, <1>9, <2>1 DEF GetLicenseByKey, At, TypeOK, CallRecords
    <3>2. StatusOf(licenses[l], clock) \in seen'[h]
      BY <1>6, <1>9, <2>1 DEF GetLicenseByKey
    <3> QED
      BY <3>1, <3>2 DEF Warranted
  <2>2. CASE ~Issued(l)
    <3>1. calls[h].device \notin ActiveDevices(l)
      BY <2>2 DEF HistoryIInv, IInv, SeatsAreIssued, ActiveDevices
    <3>2. Return(h, "not_found") /\ "unseated" \in seen'[h]
      BY <1>6, <1>9, <2>2, <3>1 DEF GetLicenseByKey
    <3> QED
      BY <3>2, Returns, AnswersOf DEF Warranted
  <2> QED
    BY <2>1, <2>2
<1>10. CASE CheckStatus(h)
  <2>1. PICK t \in Int : t <= clock /\ StatusOf(calls[h].lic, t) \in seen[h]
    BY <1>2, <1>10 DEF CheckStatus, At, Warranted
  <2>2. calls[h].lic # NoLicense /\ calls[h].lic \in LicenseRows
    BY <1>4, <1>10 DEF CheckStatus, At, ReadFirst, CallRecords
  <2>3. CASE StatusOf(calls[h].lic, clock) = "active"
    <3>1. "active" \in seen'[h]
      BY <1>3, <2>1, <2>2, <2>3, ActiveBefore
    <3>2. calls'[h].pc = "GetActiveDevice" /\ calls'[h].answer = "none"
      BY <1>5, <1>10, <2>3 DEF CheckStatus, At, TypeOK, CallRecords
    <3> QED
      BY <3>1, <3>2 DEF Warranted
  <2>4. CASE StatusOf(calls[h].lic, clock) # "active"
    <3>1. Return(h, "license_not_active")
      BY <1>10, <2>4 DEF CheckStatus
    <3>2. StatusOf(licenses[l], clock) \in {"revoked", "expired"}
      BY <2>2, <2>4 DEF HistoryIInv, IInv, SnapshotAgrees, StatusOf, Status
    <3>3. "revoked" \in seen'[h] \/ "expired" \in seen'[h]
      BY <1>6, <1>10, <2>2, <3>2 DEF CheckStatus, HistoryIInv, IInv, SnapshotAgrees
    <3> QED
      BY <3>1, <3>3, Returns, AnswersOf DEF Warranted
  <2> QED
    BY <2>3, <2>4
<1>11. CASE GetActiveDevice(h)
  <2>1. "active" \in seen'[h] /\ devices' = devices /\ calls[h].answer = "none"
    BY <1>2, <1>3, <1>5, <1>11 DEF GetActiveDevice, At, Warranted
  <2>2. CASE calls[h].device \in ActiveDevices(l)
    <3>1. calls'[h].pc = "TouchDevice" /\ calls'[h].answer = "none"
      BY <1>11, <2>1, <2>2, MovesOn DEF GetActiveDevice
    <3> QED
      BY <1>6, <2>1, <2>2, <3>1 DEF Warranted
  <2>3. CASE calls[h].device \notin ActiveDevices(l) /\ Activates(calls[h].op)
    <3>1. /\ calls'[h].pc = "CheckSeats" /\ calls'[h].answer = "none"
          /\ ~Deactivates(calls'[h].op)
      BY <1>11, <2>1, <2>3, MovesOn DEF GetActiveDevice, Activates, Deactivates
    <3> QED
      BY <1>6, <2>1, <2>3, <3>1 DEF Warranted
  <2>4. CASE calls[h].device \notin ActiveDevices(l) /\ ~Activates(calls[h].op)
    <3>1. Return(h, "not_found")
      BY <1>11, <2>4 DEF GetActiveDevice
    <3> QED
      BY <1>6, <2>1, <2>4, <3>1, Returns, AnswersOf DEF Warranted
  <2> QED
    BY <2>2, <2>3, <2>4
<1>12. CASE CheckSeats(h)
  <2>1. /\ "active" \in seen'[h] /\ "unseated" \in seen'[h]
        /\ devices' = devices /\ calls[h].answer = "none" /\ ~Deactivates(calls[h].op)
    BY <1>2, <1>3, <1>5, <1>12 DEF CheckSeats, At, Warranted
  <2>2. CASE Goto(h, "ActivateDevice")
    <3>1. /\ calls'[h].pc = "ActivateDevice" /\ calls'[h].answer = "none"
          /\ ~Deactivates(calls'[h].op)
      BY <2>1, <2>2, MovesOn
    <3> QED
      BY <2>1, <3>1 DEF Warranted
  <2>3. CASE /\ ActiveDeviceCount(l) >= calls[h].lic.maxDevices
             /\ Return(h, "device_limit_reached")
    <3>1. Issued(l) /\ calls[h].lic.maxDevices = licenses[l].maxDevices
      BY <1>4, <1>12 DEF CheckSeats, At, ReadFirst, HistoryIInv, IInv, SnapshotAgrees
    <3>2. "full" \in seen'[h]
      BY <1>6, <2>1, <2>3, <3>1
    <3> QED
      BY <2>1, <2>3, <3>2, Returns, AnswersOf DEF Warranted
  <2> QED
    BY <1>12, <2>2, <2>3 DEF CheckSeats
<1>13. CASE ActivateDevice(h)
  <2>1. /\ "active" \in seen'[h] /\ "unseated" \in seen'[h]
        /\ calls'[h].pc = "Notify" /\ calls'[h].answer = "none" /\ ~Deactivates(calls'[h].op)
    BY <1>2, <1>3, <1>5, <1>13, MovesOn DEF ActivateDevice, At, Warranted
  <2>2. devices'[l][calls[h].device] = "active"
    BY <1>13 DEF ActivateDevice, TypeOK
  <2>3. "seated" \in FactsNow(h)'
    BY <2>2 DEF FactsNow, Seated, ActiveDevices
  <2> QED
    BY <1>3, <2>1, <2>3 DEF Warranted
<1>14. CASE DeactivateDevice(h)
  <2>1. calls[h].pc = "DeactivateDevice" /\ calls[h].answer = "none"
    BY <1>5, <1>14 DEF DeactivateDevice, At
  <2>2. CASE calls[h].device \in ActiveDevices(l)
    <3>1. /\ calls'[h].pc = "Notify" /\ calls'[h].answer = "none"
          /\ calls'[h].op = calls[h].op /\ Deactivates(calls[h].op)
      BY <1>4, <1>14, <2>1, <2>2, MovesOn DEF DeactivateDevice, ReadFirst
    <3>2. "seated" \in FactsNow(h)
      BY <2>2 DEF FactsNow, Seated
    <3>3. "seated" \in seen'[h]
      BY <1>2, <1>3, <3>2
    <3>4. devices'[l][calls[h].device] = "freed"
      BY <1>14, <2>2 DEF DeactivateDevice, TypeOK
    <3>5. ~Seated(h)'
      BY <3>4 DEF Seated, ActiveDevices
    <3>6. "unseated" \in FactsNow(h)'
      BY <3>5 DEF FactsNow
    <3>7. "lostSeat" \in seen'[h]
      BY <2>2, <3>5, RecordedFacts DEF Seated
    <3> QED
      BY <1>3, <3>1, <3>3, <3>6, <3>7 DEF Warranted
  <2>3. CASE calls[h].device \notin ActiveDevices(l)
    <3>1. Return(h, "not_found") /\ devices' = devices
      BY <1>14, <2>3 DEF DeactivateDevice
    <3> QED
      BY <1>6, <2>3, <3>1, Returns, AnswersOf DEF Warranted
  <2> QED
    BY <2>2, <2>3
<1>15. CASE Notify(h)
  <2>1. "seated" \in seen'[h] /\ "unseated" \in seen'[h] /\ calls[h].answer = "none"
    BY <1>2, <1>3, <1>5, <1>15 DEF Notify, At, Warranted
  <2>2. CASE Deactivates(calls[h].op)
    <3>1. Return(h, "ok")
      BY <1>15, <2>2 DEF Notify
    <3>2. "lostSeat" \in seen'[h]
      BY <1>2, <1>3, <1>15, <2>2 DEF Notify, At, Warranted
    <3> QED
      BY <2>1, <3>1, <3>2, Returns, AnswersOf DEF Warranted
  <2>3. CASE ~Deactivates(calls[h].op)
    <3>1. "active" \in seen'[h]
      BY <1>2, <1>3, <1>15, <2>3 DEF Notify, At, Warranted
    <3>2. calls'[h].pc = "CountSeats" /\ calls'[h].answer = "none"
      BY <1>15, <2>1, <2>3, MovesOn DEF Notify
    <3> QED
      BY <2>1, <3>1, <3>2 DEF Warranted
  <2> QED
    BY <2>2, <2>3
<1>16. CASE TouchDevice(h)
  <2>1. /\ "active" \in seen'[h] /\ "seated" \in seen'[h]
        /\ calls'[h].pc = "CountSeats" /\ calls'[h].answer = "none"
    BY <1>2, <1>3, <1>5, <1>16, MovesOn DEF TouchDevice, At, Warranted
  <2> QED
    BY <2>1 DEF Warranted
<1>17. CASE CountSeats(h)
  <2>1. "active" \in seen'[h] /\ "seated" \in seen'[h]
    BY <1>2, <1>3, <1>17 DEF CountSeats, At, Warranted
  <2>2. calls'[h].pc = "Respond" /\ calls'[h].answer = "token"
    BY <1>17 DEF CountSeats, TypeOK, CallRecords
  <2> QED
    BY <2>1, <2>2 DEF Warranted
<1>18. CASE StatementFails(h)
  <2>1. Return(h, "internal_error") \/ Reply(h, "internal_error")
    BY <1>18 DEF StatementFails
  <2> QED
    BY <1>7, <2>1, Returns, Replies, AnswersOf
<1>19. ~Respond(h)
  BY DEF Respond, TypeOK
<1> QED
  BY <1>8, <1>9, <1>10, <1>11, <1>12, <1>13, <1>14, <1>15, <1>16, <1>17, <1>18, <1>19
     DEF Proceed

(* Every step keeps the requests warranted.                                *)
LEMMA NextWarranted ==
  ASSUME HistoryIInv, HistoryNext
  PROVE  RequestsWarranted'
<1> SUFFICES ASSUME NEW g \in Handlers, calls'[g] # NoCall
             PROVE  (FactsNow(g) \subseteq seen[g] /\ Warranted(calls[g], seen[g]))'
  BY DEF RequestsWarranted
<1>1. TypeOK /\ Next /\ Record
  BY DEF HistoryIInv, IInv, HistoryNext
<1>2. FactsNow(g)' \subseteq seen'[g]
  BY <1>1 DEF Record
<1>3. CASE calls'[g] = calls[g] /\ clock <= clock' /\ clock \in Int /\ clock' \in Int
  <2>1. Warranted(calls[g], seen[g]) /\ seen[g] \subseteq seen'[g]
    BY <1>1, <1>3, RecordedFacts DEF HistoryIInv, RequestsWarranted
  <2>2. Warranted(calls[g], seen[g])'
    BY <1>3, <2>1 DEF Warranted
  <2> QED
    BY <1>2, <2>2
<1>4. clock <= clock' /\ clock \in Int /\ clock' \in Int
  <2>1. clock \in Int
    BY <1>1, MaxClockAssumption DEF TypeOK
  <2>2. clock' = clock \/ clock' = clock + 1
    BY <1>1, ProceedFrame DEF Next, Receive, IssueLicense, RevokeLicense, Tick, Crash
  <2> QED
    BY <2>1, <2>2
<1>5. ASSUME NEW h \in Handlers, NEW op \in Ops, NEW l \in Licenses, NEW d \in Devices,
             Receive(h, op, l, d), g = h
      PROVE  Warranted(calls[g], seen[g])'
  BY <1>1, <1>5, ReceiveFrame DEF Warranted
<1>6. ASSUME NEW h \in Handlers, Proceed(h), g = h
      PROVE  Warranted(calls[g], seen[g])'
  BY <1>1, <1>6, ProceedWarranted
<1>7. ASSUME NEW h \in Handlers, g # h,
             \/ Proceed(h)
             \/ \E op \in Ops, l \in Licenses, d \in Devices : Receive(h, op, l, d)
      PROVE  calls'[g] = calls[g]
  BY <1>1, <1>7, ProceedFrame, ReceiveFrame
<1>8. ~Crash
  BY DEF Crash
<1> QED
  BY <1>1, <1>2, <1>3, <1>4, <1>5, <1>6, <1>7, <1>8 DEF Next, IssueLicense, RevokeLicense, Tick

-----------------------------------------------------------------------------
(* The invariant holds in every state of every behaviour.                  *)

(* No request runs, so none has a history.                                 *)
LEMMA InitHistoryIInv == HistoryInit => HistoryIInv
<1> SUFFICES ASSUME HistoryInit PROVE HistoryIInv
  OBVIOUS
<1>1. IInv
  BY InitIInv DEF HistoryInit
<1>2. HistoryTypeOK
  BY <1>1 DEF HistoryInit, HistoryTypeOK, IInv
<1>3. RequestsWarranted
  BY DEF HistoryInit, Init, RequestsWarranted
<1> QED
  BY <1>1, <1>2, <1>3 DEF HistoryIInv

(* Every step keeps the invariant.                                         *)
LEMMA NextHistoryIInv == HistoryIInv /\ [HistoryNext]_historyVars => HistoryIInv'
<1> SUFFICES ASSUME HistoryIInv, [HistoryNext]_historyVars PROVE HistoryIInv'
  OBVIOUS
<1>1. CASE HistoryNext
  <2>1. IInv'
    BY <1>1, NextIInv DEF HistoryIInv, HistoryNext
  <2>2. \A h \in Handlers : FactsNow(h)' \subseteq Facts /\ FactsOfStep(h) \subseteq Facts
    BY DEF FactsNow, FactsOfStep, Facts, StatusNames, StatusOf, Status
  <2>3. seen' \in [Handlers -> SUBSET Facts]
    BY <1>1, <2>2 DEF HistoryNext, Record, HistoryIInv, HistoryTypeOK
  <2>4. HistoryTypeOK'
    BY <2>1, <2>3 DEF HistoryTypeOK, IInv
  <2> QED
    BY <1>1, <2>1, <2>4, NextWarranted DEF HistoryIInv
<1>2. CASE UNCHANGED historyVars
  <2>1. UNCHANGED vars /\ UNCHANGED seen
    BY <1>2 DEF historyVars
  <2>2. IInv'
    BY <2>1, NextIInv DEF HistoryIInv
  <2>3. HistoryTypeOK'
    BY <2>1, <2>2 DEF HistoryIInv, HistoryTypeOK, IInv
  <2>4. RequestsWarranted'
    BY <2>1 DEF HistoryIInv, RequestsWarranted, Warranted, FactsNow, Seated, Issued,
       ActiveDevices, ActiveDeviceCount, vars
  <2> QED
    BY <2>2, <2>3, <2>4 DEF HistoryIInv
<1> QED
  BY <1>1, <1>2

(* The invariant holds in every state.                                     *)
LEMMA HistoryInvariance == HistorySpec => []HistoryIInv
  BY InitHistoryIInv, NextHistoryIInv, PTL DEF HistorySpec

-----------------------------------------------------------------------------
(* Theorems.                                                               *)

(* Type correctness of the service with the history of its requests.       *)
THEOREM HistoryTypeCorrect == HistorySpec => []HistoryTypeOK
  BY HistoryInvariance, PTL DEF HistoryIInv

(* A token is given only to a device that held a seat on a license that    *)
(* was active while the request was worked on, however requests overlap    *)
(* and whatever fails (service.Activate, Validate, ActivateOffline).       *)
THEOREM TokensJustified == HistorySpec => []TokenJustified
<1>1. HistoryIInv => TokenJustified
  BY DEF HistoryIInv, RequestsWarranted, Warranted, TokenJustified, Answered, At
<1> QED
  BY <1>1, HistoryInvariance, PTL

(* Each refusal names something that was so while the request was worked   *)
(* on (service.activate, Validate, Deactivate and mapLicenseError).        *)
THEOREM RefusalsJustified == HistorySpec => []RefusalJustified
<1>1. HistoryIInv => RefusalJustified
  BY DEF HistoryIInv, RequestsWarranted, Warranted, RefusalJustified, Answered, At
<1> QED
  BY <1>1, HistoryInvariance, PTL

(* Whoever is told that a seat is free can rely on it: the device lost it  *)
(* while the request was worked on (service.Deactivate), or, for the       *)
(* dashboard's button, had none then (handleDeviceDeactivate).             *)
THEOREM FreesJustified == HistorySpec => []FreeJustified
<1>1. HistoryIInv => FreeJustified
  BY DEF HistoryIInv, RequestsWarranted, Warranted, FreeJustified, Answered, At
<1> QED
  BY <1>1, HistoryInvariance, PTL

-----------------------------------------------------------------------------
(* One request at a time.                                                  *)

(* The server works on one request at a time.                              *)
OneRequest == \A g, h \in Handlers : g = h

(* A device without a seat stays without one until its own request inserts *)
(* its row, and a refusal rests on the other devices' seats.               *)
Alone(h) ==
    /\ At(h, "CheckSeats") => calls[h].device \notin ActiveDevices(calls[h].key)
    /\ calls[h].answer = "device_limit_reached" => "fullWithoutIt" \in seen[h]

SequentialIInv ==
    /\ HistoryIInv
    /\ \A h \in Handlers : calls[h] # NoCall => Alone(h)

(* A request that advances: it searches for a seat and takes the branch of *)
(* a new device only if there is none, and counts the seats next.          *)
LEMMA ProceedAlone ==
  ASSUME SequentialIInv, NEW h \in Handlers, Proceed(h), Record, calls'[h] # NoCall
  PROVE  Alone(h)'
<1> DEFINE l == calls[h].key
<1>1. /\ TypeOK /\ calls[h] # NoCall /\ calls[h] \in CallRecords
      /\ clock' = clock /\ licenses' = licenses
      /\ calls'[h].key = l /\ calls'[h].device = calls[h].device
  <2>1. TypeOK
    BY DEF SequentialIInv, HistoryIInv, IInv
  <2> QED
    BY <2>1, ProceedFrame, ProceedLicense DEF TypeOK, CallRecords
<1>2. Alone(h)
  BY <1>1 DEF SequentialIInv
<1>3. seen[h] \subseteq seen'[h] /\ FactsNow(h)' \subseteq seen'[h]
  BY <1>1, RecordedFacts
<1>4. ReadFirst(calls[h]) /\ SnapshotAgrees
  BY DEF SequentialIInv, HistoryIInv, IInv, ReadsComeFirst
<1>5. calls[h].pc # "Respond" => calls[h].answer = "none"
  BY <1>1, <1>4 DEF ReadFirst
<1> USE <1>1
<1>6. ASSUME calls'[h].pc # "CheckSeats", calls'[h].answer # "device_limit_reached"
      PROVE  Alone(h)'
  BY <1>6 DEF Alone, At
<1>7. ASSUME NEW outcome \in {"not_found", "license_not_active", "internal_error", "ok"},
             Return(h, outcome)
      PROVE  Alone(h)'
  <2>1. Answer(calls[h].op, outcome) # "device_limit_reached"
    BY <1>7, AnswersOf
  <2> QED
    BY <1>6, <1>7, <2>1, Returns
<1>8. ASSUME NEW pc, Goto(h, pc), pc # "CheckSeats", calls[h].pc # "Respond"
      PROVE  Alone(h)'
  BY <1>5, <1>6, <1>8, MovesOn
<1>9. CASE GetLicense(h)
  BY <1>6, <1>8, <1>9, Replies DEF GetLicense, At
<1>10. CASE GetLicenseByKey(h)
  <2>1. CASE Issued(l)
    BY <1>5, <1>6, <1>10, <2>1 DEF GetLicenseByKey, At, TypeOK, CallRecords
  <2>2. CASE ~Issued(l)
    BY <1>7, <1>10, <2>2 DEF GetLicenseByKey
  <2> QED
    BY <2>1, <2>2
<1>11. CASE CheckStatus(h)
  <2>1. CASE StatusOf(calls[h].lic, clock) = "active"
    BY <1>5, <1>6, <1>11, <2>1 DEF CheckStatus, At, TypeOK, CallRecords
  <2>2. CASE StatusOf(calls[h].lic, clock) # "active"
    BY <1>7, <1>11, <2>2 DEF CheckStatus
  <2> QED
    BY <2>1, <2>2
<1>12. CASE GetActiveDevice(h)
  <2>1. CASE calls[h].device \in ActiveDevices(l)
    BY <1>8, <1>12, <2>1 DEF GetActiveDevice, At
  <2>2. CASE calls[h].device \notin ActiveDevices(l) /\ Activates(calls[h].op)
    <3>1. Goto(h, "CheckSeats") /\ devices' = devices /\ calls[h].answer = "none"
      BY <1>5, <1>12, <2>2 DEF GetActiveDevice, At
    <3>2. calls'[h].answer = "none"
      BY <3>1, MovesOn
    <3> QED
      BY <2>2, <3>1, <3>2 DEF Alone, ActiveDevices
  <2>3. CASE calls[h].device \notin ActiveDevices(l) /\ ~Activates(calls[h].op)
    BY <1>7, <1>12, <2>3 DEF GetActiveDevice
  <2> QED
    BY <2>1, <2>2, <2>3
<1>13. CASE CheckSeats(h)
  <2>1. CASE Goto(h, "ActivateDevice")
    BY <1>8, <1>13, <2>1 DEF CheckSeats, At
  <2>2. CASE /\ ActiveDeviceCount(l) >= calls[h].lic.maxDevices
             /\ Return(h, "device_limit_reached")
    <3>1. Issued(l) /\ calls[h].lic.maxDevices = licenses[l].maxDevices
      BY <1>4, <1>13 DEF CheckSeats, At, ReadFirst, SnapshotAgrees
    <3>2. calls[h].device \notin ActiveDevices(l)
      BY <1>2, <1>13 DEF CheckSeats, Alone
    <3>3. "fullWithoutIt" \in FactsNow(h)
      BY <2>2, <3>1, <3>2 DEF FactsNow, Seated
    <3>4. FactsNow(h) \subseteq seen[h]
      BY DEF SequentialIInv, HistoryIInv, RequestsWarranted
    <3>5. calls'[h].pc = "Respond"
      BY <2>2, Returns
    <3> QED
      BY <1>3, <3>3, <3>4, <3>5 DEF Alone, At
  <2> QED
    BY <1>13, <2>1, <2>2 DEF CheckSeats
<1>14. CASE ActivateDevice(h)
  BY <1>8, <1>14 DEF ActivateDevice, At
<1>15. CASE DeactivateDevice(h)
  <2>1. CASE calls[h].device \in ActiveDevices(l)
    BY <1>8, <1>15, <2>1 DEF DeactivateDevice, At
  <2>2. CASE calls[h].device \notin ActiveDevices(l)
    BY <1>7, <1>15, <2>2 DEF DeactivateDevice
  <2> QED
    BY <2>1, <2>2
<1>16. CASE Notify(h)
  <2>1. CASE Deactivates(calls[h].op)
    BY <1>7, <1>16, <2>1 DEF Notify
  <2>2. CASE ~Deactivates(calls[h].op)
    BY <1>8, <1>16, <2>2 DEF Notify, At
  <2> QED
    BY <2>1, <2>2
<1>17. CASE TouchDevice(h)
  BY <1>8, <1>17 DEF TouchDevice, At
<1>18. CASE CountSeats(h)
  BY <1>6, <1>18 DEF CountSeats, TypeOK, CallRecords
<1>19. CASE StatementFails(h)
  <2>1. Return(h, "internal_error") \/ Reply(h, "internal_error")
    BY <1>19 DEF StatementFails
  <2> QED
    BY <1>6, <1>7, <2>1, Replies
<1>20. ~Respond(h)
  BY DEF Respond, TypeOK
<1> QED
  BY <1>9, <1>10, <1>11, <1>12, <1>13, <1>14, <1>15, <1>16, <1>17, <1>18, <1>19, <1>20
     DEF Proceed

(* Every step keeps it as long as no other request touches the seats.      *)
LEMMA NextSequentialIInv ==
  ASSUME OneRequest, SequentialIInv, [HistoryNext]_historyVars
  PROVE  SequentialIInv'
<1>1. HistoryIInv'
  BY NextHistoryIInv DEF SequentialIInv
<1> SUFFICES ASSUME NEW g \in Handlers, calls'[g] # NoCall
             PROVE  Alone(g)'
  BY <1>1 DEF SequentialIInv
<1>2. calls[g] # NoCall => Alone(g)
  BY DEF SequentialIInv
<1>3. ASSUME calls'[g] = calls[g], devices' = devices, seen[g] \subseteq seen'[g]
      PROVE  Alone(g)'
  BY <1>2, <1>3 DEF Alone, At, ActiveDevices
<1>4. CASE HistoryNext
  <2>1. TypeOK /\ Next /\ Record
    BY <1>4 DEF SequentialIInv, HistoryIInv, IInv, HistoryNext
  <2>2. ASSUME NEW h \in Handlers, NEW op \in Ops, NEW l \in Licenses, NEW d \in Devices,
               Receive(h, op, l, d)
        PROVE  Alone(g)'
    <3>1. g = h
      BY DEF OneRequest
    <3> QED
      BY <2>1, <2>2, <3>1, ReceiveFrame DEF Alone, At
  <2>3. ASSUME NEW h \in Handlers, Proceed(h)
        PROVE  Alone(g)'
    <3>1. g = h
      BY DEF OneRequest
    <3> QED
      BY <2>1, <2>3, <3>1, ProceedAlone
  <2>4. CASE \/ \E l \in Licenses, n \in RequestedSeats, x \in Expiries : IssueLicense(l, n, x)
             \/ \E l \in Licenses : RevokeLicense(l)
             \/ Tick
    <3>1. calls'[g] = calls[g] /\ devices' = devices
      BY <2>4 DEF IssueLicense, RevokeLicense, Tick
    <3> QED
      BY <1>3, <2>1, <3>1, RecordedFacts
  <2>5. ~Crash
    BY DEF Crash
  <2> QED
    BY <2>1, <2>2, <2>3, <2>4, <2>5 DEF Next
<1>5. CASE UNCHANGED historyVars
  BY <1>3, <1>5 DEF historyVars, vars
<1> QED
  BY <1>4, <1>5

(* While requests come one at a time, a device is refused for want of a    *)
(* seat only when the other devices hold them all: the run                 *)
(* refused_for_own_seat shows that overlapping activations of one device   *)
(* take this away (service.activate, store.GetActiveDevice,                *)
(* store.ActiveDeviceCount).                                               *)
THEOREM SequentialRefusals == OneRequest => (HistorySpec => []RefusedForOthersSeats)
<1> SUFFICES ASSUME OneRequest
             PROVE  HistorySpec => []RefusedForOthersSeats
  OBVIOUS
<1>1. HistoryInit => SequentialIInv
  <2> SUFFICES ASSUME HistoryInit PROVE SequentialIInv
    OBVIOUS
  <2>1. \A h \in Handlers : calls[h] = NoCall
    BY DEF HistoryInit, Init
  <2> QED
    BY <2>1, InitHistoryIInv DEF SequentialIInv
<1>2. SequentialIInv /\ [HistoryNext]_historyVars => SequentialIInv'
  BY NextSequentialIInv
<1>3. SequentialIInv => RefusedForOthersSeats
  BY DEF SequentialIInv, Alone, RefusedForOthersSeats, Answered, At
<1> QED
  BY <1>1, <1>2, <1>3, PTL DEF HistorySpec
=============================================================================
