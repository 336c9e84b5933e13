----------------------------- MODULE EventsProof -----------------------------
(* Theorems about LicensingEvents, for any licenses, devices, requests and *)
(* bound on them: the account of the events comes out right; and what more *)
(* holds when requests come one at a time.                                 *)
EXTENDS LicensingEvents, LicensingProof

-----------------------------------------------------------------------------
(* The inductive invariant.                                                *)

(* Only an activation is on its way to take a seat.                        *)
OpsInv ==
    \A h \in Handlers :
        calls[h] # NoCall /\ calls[h].pc \in {"CheckSeats", "ActivateDevice"}
            => ~Deactivates(calls[h].op)

(* The requests on their way to take the seat of event e.                  *)
Chasing(e) ==
    {h \in Handlers : /\ calls[h] # NoCall
                      /\ calls[h].pc \in {"CheckSeats", "ActivateDevice"}
                      /\ calls[h].key = e[2] /\ calls[h].device = e[3]}

(* What was told of the seat of e, and may yet be told without its being   *)
(* taken again: while it is taken nobody sets out to take it, so those on  *)
(* their way only get fewer.                                               *)
ToldBudget(e) ==
    LET chasing == IF e[3] \in ActiveDevices(e[2]) THEN Cardinality(Chasing(e)) ELSE 0
    IN  Accounted(e) + chasing <= Cardinality(Handlers) * changed[e]

EventsIInv ==
    /\ IInv
    /\ EventsTypeOK
    /\ OpsInv
    /\ DeactivationsTold
    /\ ActivationsTold
    /\ \A e \in Events : e[1] = "activation" => ToldBudget(e)

-----------------------------------------------------------------------------
(* The steps of a request, by what they mean to the events.                *)

Kept(h) ==
    /\ calls'[h] # NoCall
    /\ calls'[h].op = calls[h].op /\ calls'[h].key = calls[h].key
    /\ calls'[h].device = calls[h].device

(* It has nothing to tell, before and after.                               *)
StaysQuiet(h) ==
    /\ UNCHANGED devices
    /\ calls[h] # NoCall => calls[h].pc # "Notify"
    /\ calls'[h] # NoCall => calls'[h].pc # "Notify"

TakesSeat(h) ==
    /\ calls[h].pc = "ActivateDevice" /\ ~Deactivates(calls[h].op)
    /\ Kept(h) /\ calls'[h].pc = "Notify"
    /\ devices' = [devices EXCEPT ![calls[h].key][calls[h].device] = "active"]

FreesSeat(h) ==
    /\ calls[h].pc = "DeactivateDevice" /\ Deactivates(calls[h].op)
    /\ calls[h].device \in ActiveDevices(calls[h].key)
    /\ Kept(h) /\ calls'[h].pc = "Notify"
    /\ devices' = [devices EXCEPT ![calls[h].key][calls[h].device] = "freed"]

TellsEvent(h) ==
    /\ calls[h].pc = "Notify"
    /\ calls'[h] # NoCall /\ calls'[h].pc # "Notify"
    /\ UNCHANGED devices

(* A request goes on to another statement.                                 *)
LEMMA Moves ==
  ASSUME TypeOK, NEW h \in Handlers, calls[h] \in CallRecords, NEW pc \in Steps, Goto(h, pc)
  PROVE  Kept(h) /\ calls'[h].pc = pc
<1>1. calls'[h] = [calls[h] EXCEPT !.pc = pc]
  BY DEF TypeOK, Goto
<1>2. calls'[h] \in CallRecords
  BY <1>1 DEF CallRecords
<1> QED
  BY <1>1, <1>2, SentinelsAssumption DEF Kept, CallRecords

(* A request is answered.                                                  *)
LEMMA Ends ==
  ASSUME TypeOK, NEW h \in Handlers, calls[h] \in CallRecords, NEW outcome \in Answers,
         Return(h, outcome) \/ Reply(h, outcome)
  PROVE  Kept(h) /\ calls'[h].pc = "Respond"
<1>1. PICK answer \in Answers : Reply(h, answer)
  BY AnswerType DEF Return
<1>2. calls'[h] = [calls[h] EXCEPT !.pc = "Respond", !.answer = answer]
  BY <1>1 DEF TypeOK, Reply
<1>3. calls'[h] \in CallRecords
  BY <1>2 DEF CallRecords, Steps
<1> QED
  BY <1>2, <1>3, SentinelsAssumption DEF Kept, CallRecords

(* What a step of a request means for the account of events: nothing, a    *)
(* seat taken or freed, or an event told.                                  *)
LEMMA ProceedKinds ==
  ASSUME IInv, OpsInv, NEW h \in Handlers, Proceed(h)
  PROVE  /\ StaysQuiet(h) \/ TakesSeat(h) \/ FreesSeat(h) \/ TellsEvent(h)
         /\ calls'[h] # NoCall /\ calls'[h].pc \in {"CheckSeats", "ActivateDevice"} =>
               /\ ~Deactivates(calls'[h].op)
               /\ \/ calls[h].pc = "CheckSeats"
                  \/ calls[h].device \notin ActiveDevices(calls[h].key)
<1>1. TypeOK /\ calls[h] # NoCall /\ calls[h] \in CallRecords /\ ReadFirst(calls[h])
  BY ProceedFrame DEF IInv, ReadsComeFirst
<1> USE <1>1
<1>2. ASSUME NEW outcome \in Answers, Return(h, outcome) \/ Reply(h, outcome),
             UNCHANGED devices, calls[h].pc # "Notify"
      PROVE  StaysQuiet(h) /\ calls'[h].pc = "Respond"
  BY <1>2, Ends DEF StaysQuiet
<1>3. CASE GetLicense(h)
  BY <1>2, <1>3, Moves DEF GetLicense, At, StaysQuiet, Steps, Statements, Answers
<1>4. CASE GetLicenseByKey(h)
  <2>1. CASE Issued(calls[h].key)
    <3>1. calls'[h] = [calls[h] EXCEPT !.lic = licenses[calls[h].key],
                                       !.pc = IF Deactivates(calls[h].op)
                                              THEN "DeactivateDevice" ELSE "CheckStatus"]
      BY <1>4, <2>1 DEF GetLicenseByKey, TypeOK
    <3>2. calls'[h].pc \in {"DeactivateDevice", "CheckStatus"}
      BY <3>1 DEF CallRecords
    <3> QED
      BY <1>4, <3>2 DEF GetLicenseByKey, At, StaysQuiet
  <2>2. CASE ~Issued(calls[h].key)
    BY <1>2, <1>4, <2>2 DEF GetLicenseByKey, At, Answers
  <2> QED
    BY <2>1, <2>2
<1>5. CASE CheckStatus(h)
  <2>1. CASE StatusOf(calls[h].lic, clock) = "active"
    <3>1. calls'[h].pc = "GetActiveDevice"
      BY <1>5, <2>1 DEF CheckStatus, TypeOK, CallRecords
    <3> QED
      BY <1>5, <3>1 DEF CheckStatus, At, StaysQuiet
  <2>2. CASE StatusOf(calls[h].lic, clock) # "active"
    BY <1>2, <1>5, <2>2 DEF CheckStatus, At, Answers
  <2> QED
    BY <2>1, <2>2
<1>6. CASE GetActiveDevice(h)
  <2>1. CASE Goto(h, "TouchDevice")
    BY <1>6, <2>1, Moves DEF GetActiveDevice, At, StaysQuiet, Steps, Statements
  <2>2. CASE /\ Goto(h, "CheckSeats") /\ Activates(calls[h].op)
             /\ calls[h].device \notin ActiveDevices(calls[h].key)
    <3>1. Kept(h) /\ calls'[h].pc = "CheckSeats"
      BY <2>2, Moves DEF Steps, Statements
    <3>2. ~Deactivates(calls'[h].op)
      BY <2>2, <3>1 DEF Kept, Activates, Deactivates
    <3> QED
      BY <1>6, <2>2, <3>1, <3>2 DEF GetActiveDevice, At, StaysQuiet
  <2>3. CASE Return(h, "not_found")
    BY <1>2, <1>6, <2>3 DEF GetActiveDevice, At, Answers
  <2> QED
    BY <1>6, <2>1, <2>2, <2>3 DEF GetActiveDevice
<1>7. CASE CheckSeats(h)
  <2>1. CASE Goto(h, "ActivateDevice")
    <3>1. Kept(h) /\ calls'[h].pc = "ActivateDevice"
      BY <2>1, Moves DEF Steps, Statements
    <3> QED
      BY <1>7, <3>1 DEF CheckSeats, At, StaysQuiet, OpsInv, Kept
  <2>2. CASE Return(h, "device_limit_reached")
    BY <1>2, <1>7, <2>2 DEF CheckSeats, At, Answers
  <2> QED
    BY <1>7, <2>1, <2>2 DEF CheckSeats
<1>8. CASE ActivateDevice(h)
  BY <1>8, Moves DEF ActivateDevice, At, TakesSeat, OpsInv, Steps
<1>9. CASE DeactivateDevice(h)
  <2>1. CASE calls[h].device \in ActiveDevices(calls[h].key)
    BY <1>9, <2>1, Moves DEF DeactivateDevice, At, FreesSeat, ReadFirst, Steps
  <2>2. CASE calls[h].device \notin ActiveDevices(calls[h].key)
    BY <1>2, <1>9, <2>2 DEF DeactivateDevice, At, Answers
  <2> QED
    BY <2>1, <2>2
<1>10. CASE Notify(h)
  <2>1. CASE Deactivates(calls[h].op)
    BY <1>10, <2>1, Ends DEF Notify, At, TellsEvent, Kept, Answers
  <2>2. CASE ~Deactivates(calls[h].op)
    BY <1>10, <2>2, Moves DEF Notify, At, TellsEvent, Kept, Steps, Statements
  <2> QED
    BY <2>1, <2>2
<1>11. CASE TouchDevice(h)
  BY <1>11, Moves DEF TouchDevice, At, StaysQuiet, Steps, Statements
<1>12. CASE CountSeats(h)
  <2>1. calls'[h].pc = "Respond"
    BY <1>12 DEF CountSeats, TypeOK, CallRecords
  <2> QED
    BY <1>12, <2>1 DEF CountSeats, At, StaysQuiet
<1>13. CASE StatementFails(h)
  BY <1>2, <1>13 DEF StatementFails, At, Statements, Answers
<1>14. CASE Respond(h)
  BY <1>14 DEF Respond, At, TypeOK, StaysQuiet
<1> QED
  BY <1>3, <1>4, <1>5, <1>6, <1>7, <1>8, <1>9, <1>10, <1>11, <1>12, <1>13, <1>14 DEF Proceed

-----------------------------------------------------------------------------
(* The account of one event.                                               *)

(* The requests that owe an event are handlers, and so finitely many.      *)
LEMMA PendingCount ==
  ASSUME NEW e
  PROVE  /\ IsFiniteSet(Pending(e)) /\ Cardinality(Pending(e)) \in Nat
         /\ IsFiniteSet(Pending(e)') /\ Cardinality(Pending(e)') \in Nat
         /\ Tells(e) \subseteq Pending(e) /\ Loses(e) \subseteq Pending(e)
<1>1. Pending(e) \subseteq Handlers /\ Pending(e)' \subseteq Handlers
  BY DEF Pending
<1>2. Tells(e) \subseteq Pending(e) /\ Loses(e) \subseteq Pending(e)
  BY DEF Tells, Loses
<1> QED
  BY <1>1, <1>2, HandlersAssumption, FS_Subset, FS_CardinalityType

(* What the step of request h does to the set of requests that have event  *)
(* e to tell.                                                              *)
LEMMA PendingSteps ==
  ASSUME NEW h \in Handlers, calls[h] # NoCall, NEW e,
         \A g \in Handlers : g # h => calls'[g] = calls[g]
  PROVE  /\ Loses(e) \subseteq {h} /\ Tells(e) \subseteq {h}
         /\ Pending(e) \ {h} = Pending(e)' \ {h}
         /\ h \in Loses(e) <=> h \in Pending(e) /\ calls'[h] = NoCall
         /\ h \in Tells(e) <=> h \in Pending(e) /\ calls'[h] # NoCall /\ calls'[h].pc # "Notify"
         /\ h \in Pending(e) <=> calls[h].pc = "Notify" /\ EventOf(h) = e
         /\ h \in Pending(e)' <=> calls'[h] # NoCall /\ calls'[h].pc = "Notify" /\ EventOf(h)' = e
<1>1. \A g \in Handlers : g # h => EventOf(g)' = EventOf(g)
  BY DEF EventOf
<1> QED
  BY <1>1 DEF Pending, Tells, Loses, At

(* The step is the upsert of an activation of the device of event e, which *)
(* changes the table unless the device is active.                          *)
Upserted(e) ==
    \E h \in Handlers :
        /\ At(h, "ActivateDevice") /\ calls[h].key = e[2] /\ calls[h].device = e[3]
        /\ calls'[h].pc = "Notify"
        /\ \A g \in Handlers : g # h => calls'[g] = calls[g]
        /\ e[3] \notin ActiveDevices(e[2]) => Changes(e)

(* Each step that changes the table for an event leaves it to be told.     *)
LEMMA EventSums ==
  ASSUME EventsIInv, Next, Account, NEW e \in Events
  PROVE  /\ Accounted(e) \in Nat /\ Accounted(e)' \in Nat
         /\ \/ ~Changes(e) /\ Accounted(e)' = Accounted(e)
            \/ e[1] = "activation" /\ Accounted(e)' = Accounted(e) + 1 /\ Upserted(e)
            \/ e[1] = "deactivation" /\ Changes(e) /\ Accounted(e)' = Accounted(e) + 1
<1>1. /\ TypeOK /\ told[e] \in Nat /\ lost[e] \in Nat
      /\ told'[e] = told[e] + Cardinality(Tells(e))
      /\ lost'[e] = lost[e] + Cardinality(Loses(e))
  BY DEF EventsIInv, EventsTypeOK, Account
<1> DEFINE P == Cardinality(Pending(e))
           Q == Cardinality(Pending(e)')
           T == Cardinality(Tells(e))
           L == Cardinality(Loses(e))
<1>2. P \in Nat /\ Q \in Nat /\ T \in Nat /\ L \in Nat
  BY PendingCount, FS_Subset, FS_CardinalityType
<1>3. Accounted(e) = told[e] + lost[e] + P /\ Accounted(e)' = told[e] + T + lost[e] + L + Q
  BY <1>1, <1>2 DEF Accounted
<1> HIDE DEF P, Q, T, L
<1>4. Accounted(e) \in Nat /\ Accounted(e)' \in Nat
  BY <1>1, <1>2, <1>3
<1>5. devices' = devices => ~Changes(e)
  BY DEF Changes, ActiveDevices
<1>6. ASSUME devices' = devices, T + L + Q = P
      PROVE  ~Changes(e) /\ Accounted(e)' = Accounted(e)
  BY <1>1, <1>2, <1>3, <1>5, <1>6
<1>7. ASSUME Tells(e) = {}, Loses(e) = {}, Pending(e)' = Pending(e)
      PROVE  T + L + Q = P /\ Accounted(e)' = Accounted(e)
  <2>1. T = 0 /\ L = 0 /\ Q = P
    BY <1>7, FS_EmptySet DEF T, L, Q, P
  <2> QED
    BY <1>1, <1>2, <1>3, <2>1
<1>8. ASSUME NEW h \in Handlers, Proceed(h)
      PROVE  \/ ~Changes(e) /\ Accounted(e)' = Accounted(e)
             \/ e[1] = "activation" /\ Accounted(e)' = Accounted(e) + 1 /\ Upserted(e)
             \/ e[1] = "deactivation" /\ Changes(e) /\ Accounted(e)' = Accounted(e) + 1
  <2>1. /\ calls[h] # NoCall /\ calls[h].key \in Licenses /\ calls[h].device \in Devices
        /\ \A g \in Handlers : g # h => calls'[g] = calls[g]
    BY <1>1, <1>8, ProceedFrame DEF CallRecords
  <2>2. StaysQuiet(h) \/ TakesSeat(h) \/ FreesSeat(h) \/ TellsEvent(h)
    BY <1>8, ProceedKinds DEF EventsIInv
  <2>3. Kept(h) => EventOf(h)' = EventOf(h)
    BY DEF Kept, EventOf
  <2>4. ASSUME h \notin Pending(e), h \notin Pending(e)'
        PROVE  Tells(e) = {} /\ Loses(e) = {} /\ Pending(e)' = Pending(e)
    BY <2>1, <2>4, PendingSteps
  <2>5. ASSUME h \notin Pending(e), h \in Pending(e)'
        PROVE  Accounted(e)' = Accounted(e) + 1
    <3>1. Tells(e) = {} /\ Loses(e) = {} /\ Pending(e)' = Pending(e) \cup {h}
      BY <2>1, <2>5, PendingSteps
    <3>2. T = 0 /\ L = 0 /\ Q = P + 1
      BY <2>5, <3>1, PendingCount, FS_EmptySet, FS_AddElement DEF T, L, Q, P
    <3> QED
      BY <1>1, <1>2, <1>3, <3>2
  <2>6. CASE StaysQuiet(h)
    <3>1. h \notin Pending(e) /\ h \notin Pending(e)'
      BY <2>1, <2>6, PendingSteps DEF StaysQuiet
    <3> QED
      BY <1>6, <1>7, <2>4, <2>6, <3>1 DEF StaysQuiet
  <2>7. CASE TakesSeat(h)
    <3>1. /\ h \notin Pending(e) /\ (h \in Pending(e)' <=> EventOf(h) = e)
          /\ EventOf(h)[1] = "activation"
      BY <2>1, <2>3, <2>7, PendingSteps DEF TakesSeat, Kept, EventOf
    <3>2. /\ Changes(e) => e = EventOf(h)
          /\ e = EventOf(h) => Upserted(e)
      <4>1. e = <<e[1], e[2], e[3]>> /\ e[1] \in Kinds /\ e[2] \in Licenses /\ e[3] \in Devices
        BY DEF Events
      <4>2. \A l \in Licenses, d \in Devices :
              /\ d \in ActiveDevices(l) => d \in ActiveDevices(l)'
              /\ d \in ActiveDevices(l)' /\ d \notin ActiveDevices(l)
                    => l = calls[h].key /\ d = calls[h].device
        BY <1>1, <2>1, <2>7 DEF TakesSeat, ActiveDevices, TypeOK
      <4>3. Changes(e) => e = EventOf(h)
        BY <2>7, <4>1, <4>2 DEF Changes, Kinds, EventOf, TakesSeat
      <4>4. ASSUME e = EventOf(h)
            PROVE  Upserted(e)
        <5>1. /\ e[1] = "activation" /\ e[2] \in Licenses /\ e[3] \in Devices
              /\ At(h, "ActivateDevice") /\ calls[h].key = e[2] /\ calls[h].device = e[3]
          BY <2>1, <2>7, <4>4 DEF TakesSeat, EventOf, At
        <5>2. devices'[e[2]][e[3]] = "active"
          BY <1>1, <2>7, <5>1 DEF TakesSeat, TypeOK
        <5>3. e[3] \notin ActiveDevices(e[2]) => Changes(e)
          BY <5>1, <5>2 DEF Changes, ActiveDevices
        <5> QED
          BY <2>1, <2>7, <5>1, <5>3 DEF TakesSeat, Upserted
      <4> QED
        BY <4>3, <4>4
    <3> QED
      BY <1>7, <2>4, <2>5, <3>1, <3>2
  <2>8. CASE FreesSeat(h)
    <3>1. /\ h \notin Pending(e) /\ (h \in Pending(e)' <=> EventOf(h) = e)
          /\ EventOf(h)[1] = "deactivation"
      BY <2>1, <2>3, <2>8, PendingSteps DEF FreesSeat, Kept, EventOf
    <3>2. Changes(e) <=> e = EventOf(h)
      <4>1. e = <<e[1], e[2], e[3]>> /\ e[1] \in Kinds /\ e[2] \in Licenses /\ e[3] \in Devices
        BY DEF Events
      <4>2. \A l \in Licenses, d \in Devices :
              /\ d \in ActiveDevices(l)' => d \in ActiveDevices(l)
              /\ d \in ActiveDevices(l) /\ d \notin ActiveDevices(l)'
                    <=> l = calls[h].key /\ d = calls[h].device
        BY <1>1, <2>1, <2>8 DEF FreesSeat, ActiveDevices, TypeOK
      <4> QED
        BY <2>8, <4>1, <4>2 DEF Changes, Kinds, EventOf, FreesSeat
    <3> QED
      BY <1>7, <2>4, <2>5, <3>1, <3>2
  <2>9. CASE TellsEvent(h)
    <3>1. h \notin Pending(e)' /\ h \notin Loses(e) /\ (h \in Tells(e) <=> h \in Pending(e))
      BY <2>1, <2>9, PendingSteps DEF TellsEvent
    <3>2. CASE h \notin Pending(e)
      BY <1>6, <1>7, <2>4, <2>9, <3>1, <3>2 DEF TellsEvent
    <3>3. CASE h \in Pending(e)
      <4>1. Tells(e) = {h} /\ Loses(e) = {} /\ Pending(e)' = Pending(e) \ {h}
        BY <2>1, <3>1, <3>3, PendingSteps
      <4>2. T = 1 /\ L = 0 /\ Q = P - 1
        <5>1. T = 1
          BY <4>1, FS_Singleton DEF T
        <5>2. L = 0
          BY <4>1, FS_EmptySet DEF L
        <5>3. Q = P - 1
          BY <3>3, <4>1, PendingCount, FS_RemoveElement DEF Q, P
        <5> QED
          BY <5>1, <5>2, <5>3
      <4> QED
        BY <1>2, <1>6, <2>9, <4>2 DEF TellsEvent
    <3> QED
      BY <3>2, <3>3
  <2> QED
    BY <2>2, <2>6, <2>7, <2>8, <2>9
<1>9. ASSUME NEW h \in Handlers, NEW op \in Ops, NEW l \in Licenses, NEW d \in Devices,
             Receive(h, op, l, d)
      PROVE  ~Changes(e) /\ Accounted(e)' = Accounted(e)
  <2>1. calls[h] = NoCall /\ calls'[h].pc # "Notify"
    BY <1>1, <1>9, ReceiveFrame DEF Receive
  <2>2. \A g \in Handlers : g # h => calls'[g] = calls[g] /\ EventOf(g)' = EventOf(g)
    BY <1>1, <1>9, ReceiveFrame DEF EventOf
  <2>3. Tells(e) = {} /\ Loses(e) = {} /\ Pending(e)' = Pending(e)
    BY <2>1, <2>2 DEF Tells, Loses, Pending, At
  <2> QED
    BY <1>6, <1>7, <1>9, <2>3 DEF Receive
<1>10. ASSUME UNCHANGED <<devices, calls>>
       PROVE  ~Changes(e) /\ Accounted(e)' = Accounted(e)
  <2>1. Tells(e) = {} /\ Loses(e) = {} /\ Pending(e)' = Pending(e)
    BY <1>10 DEF Tells, Loses, Pending, At, EventOf
  <2> QED
    BY <1>6, <1>7, <1>10, <2>1
<1>11. CASE Crash
  <2>1. Tells(e) = {} /\ Loses(e) = Pending(e) /\ Pending(e)' = {}
    BY <1>11 DEF Crash, Tells, Loses, Pending, At
  <2>2. T = 0 /\ L = P /\ Q = 0
    BY <2>1, FS_EmptySet DEF T, L, Q, P
  <2>3. devices' = devices /\ T + L + Q = P
    BY <1>2, <1>11, <2>2 DEF Crash
  <2> QED
    BY <1>4, <1>6, <2>3
<1> QED
  BY <1>4, <1>8, <1>9, <1>10, <1>11 DEF Next, IssueLicense, RevokeLicense, Tick

-----------------------------------------------------------------------------
(* How often a seat is told of.                                            *)

(* The requests on their way to a seat are finitely many.                  *)
LEMMA ChasingCount ==
  ASSUME NEW e
  PROVE  /\ IsFiniteSet(Chasing(e)) /\ Cardinality(Chasing(e)) \in Nat
         /\ IsFiniteSet(Chasing(e)') /\ Cardinality(Chasing(e)') \in Nat
<1>1. Chasing(e) \subseteq Handlers /\ Chasing(e)' \subseteq Handlers
  BY DEF Chasing
<1> QED
  BY <1>1, HandlersAssumption, FS_Subset, FS_CardinalityType

(* While a seat is taken no other request sets out to take it.             *)
LEMMA ChasingShrinks ==
  ASSUME EventsIInv, Next, NEW e \in Events, e[3] \in ActiveDevices(e[2])
  PROVE  Chasing(e)' \subseteq Chasing(e)
<1>1. TypeOK /\ IInv /\ OpsInv
  BY DEF EventsIInv, IInv
<1> SUFFICES ASSUME NEW g \in Handlers, calls'[g] # NoCall,
                    calls'[g].pc \in {"CheckSeats", "ActivateDevice"},
                    calls'[g].key = e[2], calls'[g].device = e[3]
             PROVE  g \in Chasing(e)
  BY DEF Chasing
<1>2. CASE calls'[g] = calls[g]
  BY <1>2 DEF Chasing
<1>3. ASSUME NEW h \in Handlers, Proceed(h)
      PROVE  g \in Chasing(e)
  <2>1. CASE g # h
    BY <1>1, <1>2, <1>3, <2>1, ProceedFrame
  <2>2. CASE g = h
    <3>1. /\ calls[g] # NoCall /\ calls'[g].key = calls[g].key
          /\ calls'[g].device = calls[g].device
      BY <1>1, <1>3, <2>2, ProceedFrame, ProceedLicense
    <3>2. calls[g].pc = "CheckSeats"
      BY <1>1, <1>3, <2>2, <3>1, ProceedKinds
    <3> QED
      BY <3>1, <3>2 DEF Chasing
  <2> QED
    BY <2>1, <2>2
<1>4. ASSUME NEW h \in Handlers, NEW op \in Ops, NEW l \in Licenses, NEW d \in Devices,
             Receive(h, op, l, d)
      PROVE  g \in Chasing(e)
  BY <1>1, <1>2, <1>4, ReceiveFrame
<1>5. ~Crash
  BY DEF Crash
<1> QED
  BY <1>2, <1>3, <1>4, <1>5 DEF Next, IssueLicense, RevokeLicense, Tick

(* A step that tells of a seat once more takes it, or is the upsert of a   *)
(* request that was on its way to it.                                      *)
LEMMA BudgetKept ==
  ASSUME EventsIInv, Next, Account, NEW e \in Events, e[1] = "activation"
  PROVE  ToldBudget(e)'
<1> DEFINE K == Cardinality(Handlers)
           A == Accounted(e)
           B == Accounted(e)'
           C == Cardinality(Chasing(e))
           D == Cardinality(Chasing(e)')
           x == changed[e]
           y == changed'[e]
<1>1. /\ K \in Nat /\ A \in Nat /\ B \in Nat /\ C \in Nat /\ D \in Nat /\ x \in Nat
      /\ y = x + (IF Changes(e) THEN 1 ELSE 0)
  BY EventSums, ChasingCount, HandlersAssumption, FS_CardinalityType
     DEF EventsIInv, EventsTypeOK, Account
<1>2. /\ e[3] \in ActiveDevices(e[2]) => A + C <= K * x
      /\ e[3] \notin ActiveDevices(e[2]) => A <= K * x
  BY <1>1 DEF EventsIInv, ToldBudget
<1>3. /\ e[3] \in ActiveDevices(e[2])' => B + D <= K * y
      /\ e[3] \notin ActiveDevices(e[2])' => B <= K * y
      => ToldBudget(e)'
  BY <1>1 DEF ToldBudget
<1>4. K * (x + 1) = K * x + K /\ K * x \in Nat
  BY <1>1
<1>5. Changes(e) <=> e[3] \in ActiveDevices(e[2])' /\ e[3] \notin ActiveDevices(e[2])
  BY DEF Changes
<1>6. e[3] \in ActiveDevices(e[2]) => D <= C
  BY ChasingShrinks, ChasingCount, FS_Subset
<1> HIDE DEF K, A, B, C, D, x, y
<1>7. CASE ~Changes(e) /\ B = A
  <2>1. y = x
    BY <1>1, <1>7
  <2>2. e[3] \in ActiveDevices(e[2])' => B + D <= K * y
    BY <1>1, <1>2, <1>4, <1>5, <1>6, <1>7, <2>1
  <2>3. B <= K * y
    BY <1>1, <1>2, <1>4, <1>7, <2>1
  <2> QED
    BY <1>3, <2>2, <2>3
<1>8. CASE B = A + 1 /\ Upserted(e)
  <2>1. PICK h \in Handlers :
           /\ At(h, "ActivateDevice") /\ calls[h].key = e[2] /\ calls[h].device = e[3]
           /\ calls'[h].pc = "Notify"
           /\ \A g \in Handlers : g # h => calls'[g] = calls[g]
           /\ e[3] \notin ActiveDevices(e[2]) => Changes(e)
    BY <1>8 DEF Upserted
  <2>2. h \in Chasing(e) /\ Chasing(e)' = Chasing(e) \ {h}
    BY <2>1 DEF Chasing, At
  <2>3. D = C - 1
    BY <2>2, ChasingCount, FS_RemoveElement DEF C, D
  <2>4. C <= K
    <3>1. Chasing(e) \subseteq Handlers
      BY DEF Chasing
    <3> QED
      BY <3>1, HandlersAssumption, FS_Subset DEF C, K
  <2>5. CASE e[3] \in ActiveDevices(e[2])
    <3>1. y = x /\ B + D = A + C
      BY <1>1, <1>5, <1>8, <2>3, <2>5
    <3>2. B + D <= K * y /\ B <= K * y
      BY <1>1, <1>2, <1>4, <2>5, <3>1
    <3> QED
      BY <1>3, <3>2
  <2>6. CASE e[3] \notin ActiveDevices(e[2])
    <3>1. y = x + 1
      BY <1>1, <2>1, <2>6
    <3>2. K * y = K * x + K
      BY <1>4, <3>1
    <3>3. B + D <= K * y /\ B <= K * y
      BY <1>1, <1>2, <1>4, <1>8, <2>3, <2>4, <2>6, <3>2
    <3> QED
      BY <1>3, <3>3
  <2> QED
    BY <2>5, <2>6
<1> QED
  BY <1>7, <1>8, EventSums DEF A, B

-----------------------------------------------------------------------------
(* The invariant holds in every state of every behaviour.                  *)

(* No seat is active, no event told or owed.                               *)
LEMMA InitEventsIInv == EventsInit => EventsIInv
<1> SUFFICES ASSUME EventsInit PROVE EventsIInv
  OBVIOUS
<1>1. IInv
  BY InitIInv DEF EventsInit
<1>2. EventsTypeOK
  BY <1>1, MaxCallsAssumption DEF EventsInit, EventsTypeOK, IInv
<1>3. OpsInv
  BY DEF EventsInit, Init, OpsInv
<1>4. \A e \in Events : changed[e] = 0 /\ Accounted(e) = 0
  <2>1. \A e \in Events : Pending(e) = {}
    BY DEF EventsInit, Init, Pending, At
  <2> QED
    BY <2>1, FS_EmptySet DEF EventsInit, Accounted
<1>5. DeactivationsTold /\ ActivationsTold
  BY <1>4 DEF DeactivationsTold, ActivationsTold, Events, Kinds
<1>6. \A e \in Events : ToldBudget(e)
  <2>1. \A e : Chasing(e) = {}
    BY DEF EventsInit, Init, Chasing
  <2> QED
    BY <1>4, <2>1, FS_EmptySet, FS_CardinalityType, HandlersAssumption DEF ToldBudget
<1> QED
  BY <1>1, <1>2, <1>3, <1>5, <1>6 DEF EventsIInv

(* Every step keeps the two sums.                                          *)
LEMMA NextEventsIInv == EventsIInv /\ [EventsNext]_eventVars => EventsIInv'
<1> SUFFICES ASSUME EventsIInv, [EventsNext]_eventVars PROVE EventsIInv'
  OBVIOUS
<1>1. CASE EventsNext
  <2>1. IInv'
    BY <1>1, NextIInv DEF EventsIInv, EventsNext
  <2>2. OpsInv'
    <3> SUFFICES ASSUME NEW g \in Handlers, calls'[g] # NoCall,
                        calls'[g].pc \in {"CheckSeats", "ActivateDevice"}
                 PROVE  ~Deactivates(calls'[g].op)
      BY DEF OpsInv
    <3>1. TypeOK /\ IInv /\ OpsInv
      BY DEF EventsIInv, IInv
    <3>2. CASE calls'[g] = calls[g]
      BY <3>1, <3>2 DEF OpsInv
    <3>3. ASSUME NEW h \in Handlers, Proceed(h)
          PROVE  ~Deactivates(calls'[g].op)
      BY <3>1, <3>2, <3>3, ProceedFrame, ProceedKinds
    <3>4. ASSUME NEW h \in Handlers, NEW op \in Ops, NEW l \in Licenses, NEW d \in Devices,
                 Receive(h, op, l, d)
          PROVE  ~Deactivates(calls'[g].op)
      BY <3>1, <3>2, <3>4, ReceiveFrame
    <3>5. ~Crash
      BY DEF Crash
    <3> QED
      BY <1>1, <3>2, <3>3, <3>4, <3>5 DEF EventsNext, Next, IssueLicense, RevokeLicense, Tick
  <2>3. EventsTypeOK'
    <3>1. received' \in 0..MaxCalls
      BY <1>1, MaxCallsAssumption DEF EventsNext, Account, EventsIInv, EventsTypeOK
    <3>2. \A e \in Events : Cardinality(Tells(e)) \in Nat /\ Cardinality(Loses(e)) \in Nat
      BY PendingCount, FS_Subset, FS_CardinalityType
    <3>3. /\ changed' \in [Events -> Nat]
          /\ told' \in [Events -> Nat]
          /\ lost' \in [Events -> Nat]
      BY <1>1, <3>2 DEF EventsNext, Account, EventsIInv, EventsTypeOK
    <3> QED
      BY <2>1, <3>1, <3>3 DEF EventsTypeOK, IInv
  <2>4. \A e \in Events :
          /\ changed[e] \in Nat
          /\ changed'[e] = changed[e] + (IF Changes(e) THEN 1 ELSE 0)
    BY <1>1 DEF EventsNext, Account, EventsIInv, EventsTypeOK
  <2>5. DeactivationsTold'
    <3> SUFFICES ASSUME NEW l \in Licenses, NEW d \in Devices
                 PROVE  changed'[<<"deactivation", l, d>>] = Accounted(<<"deactivation", l, d>>)'
      BY DEF DeactivationsTold
    <3> DEFINE e == <<"deactivation", l, d>>
    <3>1. e \in Events /\ e[1] = "deactivation" /\ changed[e] = Accounted(e)
      BY DEF Events, Kinds, EventsIInv, DeactivationsTold
    <3> HIDE DEF e
    <3>2. changed'[e] = Accounted(e)'
      BY <1>1, <2>4, <3>1, EventSums DEF EventsNext
    <3> QED
      BY <3>2 DEF e
  <2>6. ActivationsTold'
    <3> SUFFICES ASSUME NEW l \in Licenses, NEW d \in Devices
                 PROVE  changed'[<<"activation", l, d>>] <= Accounted(<<"activation", l, d>>)'
      BY DEF ActivationsTold
    <3> DEFINE e == <<"activation", l, d>>
    <3>1. e \in Events /\ e[1] = "activation" /\ changed[e] <= Accounted(e)
      BY DEF Events, Kinds, EventsIInv, ActivationsTold
    <3> HIDE DEF e
    <3>2. changed'[e] <= Accounted(e)'
      BY <1>1, <2>4, <3>1, EventSums DEF EventsNext
    <3> QED
      BY <3>2 DEF e
  <2>7. \A e \in Events : e[1] = "activation" => ToldBudget(e)'
    BY <1>1, <2>4, BudgetKept DEF EventsNext
  <2> QED
    BY <2>1, <2>2, <2>3, <2>5, <2>6, <2>7 DEF EventsIInv
<1>2. CASE UNCHANGED eventVars
  <2>1. UNCHANGED vars /\ UNCHANGED <<received, changed, told, lost>>
    BY <1>2 DEF eventVars
  <2>2. IInv'
    BY <2>1, NextIInv DEF EventsIInv
  <2>3. OpsInv' /\ EventsTypeOK'
    BY <2>1, <2>2 DEF EventsIInv, OpsInv, EventsTypeOK, IInv, vars
  <2>4. \A e : Accounted(e)' = Accounted(e)
    BY <2>1 DEF Accounted, Pending, At, EventOf, vars
  <2>5. DeactivationsTold' /\ ActivationsTold'
    BY <2>1, <2>4 DEF EventsIInv, DeactivationsTold, ActivationsTold
  <2>6. \A e \in Events : e[1] = "activation" => ToldBudget(e)'
    <3>1. \A e : Chasing(e)' = Chasing(e) /\ ActiveDevices(e[2])' = ActiveDevices(e[2])
      BY <2>1 DEF Chasing, ActiveDevices, vars
    <3> QED
      BY <2>1, <2>4, <3>1 DEF EventsIInv, ToldBudget
  <2> QED
    BY <2>2, <2>3, <2>5, <2>6 DEF EventsIInv
<1> QED
  BY <1>1, <1>2

(* The sums hold in every state.                                           *)
LEMMA EventsInvariance == EventsSpec => []EventsIInv
  BY InitEventsIInv, NextEventsIInv, PTL DEF EventsSpec

-----------------------------------------------------------------------------
(* Theorems.                                                               *)

(* However requests overlap, every seat freed is told exactly once, or is  *)
(* about to be, or was cut off by a crash (service.Deactivate).            *)
THEOREM DeactivationsAreTold == EventsSpec => []DeactivationsTold
  BY EventsInvariance, PTL DEF EventsIInv

(* However requests overlap, no seat is taken without an event, unless the *)
(* process stops before (service.activate).                                *)
THEOREM ActivationsAreTold == EventsSpec => []ActivationsTold
  BY EventsInvariance, PTL DEF EventsIInv

(* However requests overlap, a seat taken once is told of at most as often *)
(* as the server works on requests at one time (service.activate, store.   *)
(* GetActiveDevice, store.ActivateDevice).                                 *)
THEOREM ActivationsToldBounded == EventsSpec => []ActivationsToldBound
<1>1. EventsIInv => ActivationsToldBound
  <2> SUFFICES ASSUME EventsIInv, NEW l \in Licenses, NEW d \in Devices
               PROVE  LET e == <<"activation", l, d>>
                      IN  Accounted(e) <= Cardinality(Handlers) * changed[e]
    BY DEF ActivationsToldBound
  <2> DEFINE e == <<"activation", l, d>>
  <2>1. e \in Events /\ e[1] = "activation" /\ ToldBudget(e)
    BY DEF Events, Kinds, EventsIInv
  <2>2. /\ told[e] \in Nat /\ lost[e] \in Nat /\ changed[e] \in Nat
        /\ Cardinality(Pending(e)) \in Nat /\ Cardinality(Chasing(e)) \in Nat
        /\ Cardinality(Handlers) \in Nat
    BY <2>1, PendingCount, ChasingCount, HandlersAssumption, FS_CardinalityType
       DEF EventsIInv, EventsTypeOK
  <2> HIDE DEF e
  <2>3. Accounted(e) \in Nat /\ Cardinality(Handlers) * changed[e] \in Nat
    BY <2>2 DEF Accounted
  <2>4. Accounted(e) <= Cardinality(Handlers) * changed[e]
    BY <2>1, <2>2, <2>3 DEF ToldBudget
  <2> QED
    BY <2>4 DEF e
<1> QED
  BY <1>1, EventsInvariance, PTL

-----------------------------------------------------------------------------
(* Requests one at a time.                                                 *)

(* What a request has found of the seat of its device is still so; and the *)
(* seats of its token are those of its license.                            *)
StillSeated(h) ==
    LET c == calls[h]
        seated == c.device \in ActiveDevices(c.key)
    IN  /\ c.pc \in {"CheckSeats", "ActivateDevice"} => ~seated
        /\ c.pc \in {"TouchDevice", "CountSeats"} => seated
        /\ c.pc = "Notify" /\ ~Deactivates(c.op) => seated
        /\ c.pc = "Respond" /\ c.answer = "token" => c.seats \in 1..c.lic.maxDevices

SequentialIInv ==
    /\ EventsIInv
    /\ \A h \in Handlers : calls[h] # NoCall => StillSeated(h)
    /\ ActivationsToldOnce

(* The number of seats that the only request counts.                       *)
LEMMA CountedSeats ==
  ASSUME Cardinality(Handlers) = 1, IInv, NEW l \in Licenses, Issued(l),
         NEW d \in ActiveDevices(l)
  PROVE  ActiveDeviceCount(l) \in 1..licenses[l].maxDevices
<1>1. /\ IsFiniteSet(ActiveDevices(l)) /\ ActiveDeviceCount(l) \in Nat
      /\ ActiveDeviceCount(l) # 0
  BY CountType, FS_EmptySet DEF IInv, FinitelyActive, ActiveDeviceCount
<1>2. Cardinality(Reserving(l)) \in Nat /\ licenses[l].maxDevices \in Nat
  BY HandlersCount, LimitType DEF IInv
<1>3. ActiveDeviceCount(l) + Cardinality(Reserving(l)) <= licenses[l].maxDevices + 1 - 1
  BY DEF IInv, SeatBudget
<1> QED
  BY <1>1, <1>2, <1>3

(* The step of the only request keeps what it has found.                   *)
LEMMA ProceedStillSeated ==
  ASSUME Cardinality(Handlers) = 1, IInv, OpsInv, NEW h \in Handlers, StillSeated(h),
         Proceed(h), calls'[h] # NoCall
  PROVE  StillSeated(h)'
<1>1. /\ TypeOK /\ calls[h] # NoCall /\ calls[h] \in CallRecords /\ ReadFirst(calls[h])
      /\ calls[h].key \in Licenses /\ calls[h].device \in Devices
      /\ calls'[h].key = calls[h].key /\ calls'[h].op = calls[h].op
      /\ calls'[h].device = calls[h].device
  BY ProceedFrame, ProceedLicense DEF IInv, ReadsComeFirst, CallRecords
<1> USE <1>1
<1>2. devices' = devices => \A l : ActiveDevices(l)' = ActiveDevices(l)
  BY DEF ActiveDevices
<1>3. CASE \E outcome \in Answers \ {"token"} : Return(h, outcome) \/ Reply(h, outcome)
  BY <1>3, ReturnFrame DEF StillSeated
<1>4. CASE GetLicense(h)
  BY <1>3, <1>4, GotoFrame DEF GetLicense, StillSeated, Answers
<1>5. CASE GetLicenseByKey(h)
  <2>1. CASE Issued(calls[h].key)
    <3>1. calls'[h] = [calls[h] EXCEPT !.lic = licenses[calls[h].key],
                                       !.pc = IF Deactivates(calls[h].op)
                                              THEN "DeactivateDevice" ELSE "CheckStatus"]
      BY <1>5, <2>1 DEF GetLicenseByKey, TypeOK
    <3>2. calls'[h].pc \in {"DeactivateDevice", "CheckStatus"}
      BY <3>1 DEF CallRecords
    <3> QED
      BY <3>2 DEF StillSeated
  <2>2. CASE ~Issued(calls[h].key)
    BY <1>3, <1>5, <2>2 DEF GetLicenseByKey, Answers
  <2> QED
    BY <2>1, <2>2
<1>6. CASE CheckStatus(h)
  <2>1. CASE StatusOf(calls[h].lic, clock) = "active"
    <3>1. calls'[h].pc = "GetActiveDevice"
      BY <1>6, <2>1 DEF CheckStatus, TypeOK, CallRecords
    <3> QED
      BY <3>1 DEF StillSeated
  <2>2. CASE StatusOf(calls[h].lic, clock) # "active"
    BY <1>3, <1>6, <2>2 DEF CheckStatus, Answers
  <2> QED
    BY <2>1, <2>2
<1>7. CASE GetActiveDevice(h)
  <2>1. CASE Goto(h, "TouchDevice") /\ calls[h].device \in ActiveDevices(calls[h].key)
    BY <1>2, <1>7, <2>1, GotoFrame DEF GetActiveDevice, StillSeated
  <2>2. CASE Goto(h, "CheckSeats") /\ calls[h].device \notin ActiveDevices(calls[h].key)
    BY <1>2, <1>7, <2>2, GotoFrame DEF GetActiveDevice, StillSeated
  <2>3. CASE Return(h, "not_found")
    BY <1>3, <2>3 DEF Answers
  <2> QED
    BY <1>7, <2>1, <2>2, <2>3 DEF GetActiveDevice
<1>8. CASE CheckSeats(h)
  <2>1. CASE Goto(h, "ActivateDevice")
    BY <1>2, <1>8, <2>1, GotoFrame DEF CheckSeats, At, StillSeated
  <2>2. CASE Return(h, "device_limit_reached")
    BY <1>3, <2>2 DEF Answers
  <2> QED
    BY <1>8, <2>1, <2>2 DEF CheckSeats
<1>9. CASE ActivateDevice(h)
  <2>1. calls'[h].pc = "Notify"
    BY <1>9, GotoFrame DEF ActivateDevice
  <2>2. devices'[calls[h].key][calls[h].device] = "active"
    BY <1>9 DEF ActivateDevice, TypeOK
  <2> QED
    BY <2>1, <2>2 DEF StillSeated, ActiveDevices
<1>10. CASE DeactivateDevice(h)
  <2>1. CASE Goto(h, "Notify")
    <3>1. calls'[h].pc = "Notify" /\ Deactivates(calls[h].op)
      BY <1>10, <2>1, GotoFrame DEF DeactivateDevice, At, ReadFirst
    <3> QED
      BY <3>1 DEF StillSeated
  <2>2. CASE Return(h, "not_found")
    BY <1>3, <2>2 DEF Answers
  <2> QED
    BY <1>10, <2>1, <2>2 DEF DeactivateDevice
<1>11. CASE Notify(h)
  <2>1. CASE Deactivates(calls[h].op)
    BY <1>3, <1>11, <2>1 DEF Notify, Answers
  <2>2. CASE ~Deactivates(calls[h].op)
    BY <1>2, <1>11, <2>2, GotoFrame DEF Notify, At, StillSeated
  <2> QED
    BY <2>1, <2>2
<1>12. CASE TouchDevice(h)
  BY <1>2, <1>12, GotoFrame DEF TouchDevice, At, StillSeated
<1>13. CASE CountSeats(h)
  <2>1. /\ calls'[h].pc = "Respond" /\ calls'[h].lic = calls[h].lic
        /\ calls'[h].seats = ActiveDeviceCount(calls[h].key)
    <3>1. calls'[h] = [calls[h] EXCEPT !.seats = ActiveDeviceCount(calls[h].key),
                                       !.pc = "Respond", !.answer = "token"]
      BY <1>13 DEF CountSeats, TypeOK
    <3> QED
      BY <3>1 DEF CallRecords
  <2>2. calls[h].device \in ActiveDevices(calls[h].key)
    BY <1>13 DEF CountSeats, At, StillSeated
  <2>3. Issued(calls[h].key) /\ calls[h].lic.maxDevices = licenses[calls[h].key].maxDevices
    BY <1>13 DEF CountSeats, At, ReadFirst, IInv, SnapshotAgrees
  <2>4. ActiveDeviceCount(calls[h].key) \in 1..licenses[calls[h].key].maxDevices
    BY <2>2, <2>3, CountedSeats
  <2> QED
    BY <2>1, <2>3, <2>4 DEF StillSeated
<1>14. CASE StatementFails(h)
  BY <1>3, <1>14 DEF StatementFails, Answers
<1>15. ~Respond(h)
  BY DEF Respond, TypeOK
<1> QED
  BY <1>4, <1>5, <1>6, <1>7, <1>8, <1>9, <1>10, <1>11, <1>12, <1>13, <1>14, <1>15 DEF Proceed

(* Every step keeps the invariant while there is only one handler.         *)
LEMMA NextSequentialIInv ==
  ASSUME Cardinality(Handlers) = 1
  PROVE  SequentialIInv /\ [EventsNext]_eventVars => SequentialIInv'
<1> SUFFICES ASSUME SequentialIInv, [EventsNext]_eventVars PROVE SequentialIInv'
  OBVIOUS
<1>1. PICK only \in Handlers : Handlers = {only}
  BY HandlersAssumption, FS_Singleton
<1>2. EventsIInv /\ EventsIInv' /\ IInv /\ OpsInv /\ TypeOK
  BY NextEventsIInv DEF SequentialIInv, EventsIInv, IInv
<1>3. calls[only] # NoCall => StillSeated(only)
  BY DEF SequentialIInv
<1>4. CASE EventsNext
  <2>1. ASSUME calls'[only] # NoCall PROVE StillSeated(only)'
    <3>1. CASE calls'[only] = calls[only] /\ devices' = devices
      BY <1>3, <2>1, <3>1 DEF StillSeated, ActiveDevices
    <3>2. ASSUME NEW op \in Ops, NEW l \in Licenses, NEW d \in Devices,
                 Receive(only, op, l, d)
          PROVE  StillSeated(only)'
      BY <1>2, <3>2, ReceiveFrame DEF StillSeated
    <3>3. CASE Proceed(only)
      BY <1>2, <1>3, <2>1, <3>3, ProceedFrame, ProceedStillSeated
    <3>4. ~Crash
      BY <2>1 DEF Crash
    <3> QED
      BY <1>1, <1>4, <3>1, <3>2, <3>3, <3>4
         DEF EventsNext, Next, IssueLicense, RevokeLicense, Tick
  <2>2. ActivationsToldOnce'
    <3> SUFFICES ASSUME NEW l \in Licenses, NEW d \in Devices
                 PROVE  changed'[<<"activation", l, d>>] = Accounted(<<"activation", l, d>>)'
      BY DEF ActivationsToldOnce
    <3> DEFINE e == <<"activation", l, d>>
    <3>1. /\ e \in Events /\ e[1] = "activation" /\ e[2] = l /\ e[3] = d
          /\ changed[e] = Accounted(e)
      BY DEF Events, Kinds, SequentialIInv, ActivationsToldOnce
    <3> HIDE DEF e
    <3>2. Upserted(e) => Changes(e)
      BY <1>1, <1>3 DEF Upserted, At, StillSeated
    <3>3. changed'[e] = changed[e] + (IF Changes(e) THEN 1 ELSE 0)
      BY <1>4, <3>1 DEF EventsNext, Account
    <3>4. changed[e] \in Nat
      BY <1>2, <3>1 DEF EventsIInv, EventsTypeOK
    <3>5. changed'[e] = Accounted(e)'
      BY <1>2, <1>4, <3>1, <3>2, <3>3, <3>4, EventSums DEF EventsNext
    <3> QED
      BY <3>5 DEF e
  <2> QED
    BY <1>1, <1>2, <2>1, <2>2 DEF SequentialIInv
<1>5. CASE UNCHANGED eventVars
  <2>1. UNCHANGED vars /\ UNCHANGED <<received, changed, told, lost>>
    BY <1>5 DEF eventVars
  <2>2. \A h \in Handlers : calls'[h] # NoCall => StillSeated(h)'
    BY <2>1 DEF SequentialIInv, StillSeated, ActiveDevices, vars
  <2>3. \A e : Accounted(e)' = Accounted(e)
    BY <2>1 DEF Accounted, Pending, At, EventOf, vars
  <2>4. ActivationsToldOnce'
    BY <2>1, <2>3 DEF SequentialIInv, ActivationsToldOnce
  <2> QED
    BY <1>2, <2>2, <2>4 DEF SequentialIInv
<1> QED
  BY <1>4, <1>5

(* They hold with equality when one request runs at a time.                *)
LEMMA SequentialInvariance ==
  ASSUME Cardinality(Handlers) = 1
  PROVE  EventsSpec => []SequentialIInv
<1>1. EventsInit => SequentialIInv
  <2> SUFFICES ASSUME EventsInit PROVE SequentialIInv
    OBVIOUS
  <2>1. \A e \in Events : changed[e] = 0 /\ Accounted(e) = 0
    <3>1. \A e \in Events : Pending(e) = {}
      BY DEF EventsInit, Init, Pending, At
    <3> QED
      BY <3>1, FS_EmptySet DEF EventsInit, Accounted
  <2>2. ActivationsToldOnce
    BY <2>1 DEF ActivationsToldOnce, Events, Kinds
  <2> QED
    BY <2>2, InitEventsIInv DEF SequentialIInv, EventsInit, Init
<1>2. SequentialIInv /\ [EventsNext]_eventVars => SequentialIInv'
  BY NextSequentialIInv
<1> QED
  BY <1>1, <1>2, PTL DEF EventsSpec

(* As the test TestWebhookFiresOnActivationAndDeactivation has it, a seat  *)
(* is told of once when it is taken and never again for a device that has  *)
(* it: so long as the server works on one request at a time.               *)
THEOREM SequentialActivationsTold ==
  ASSUME Cardinality(Handlers) = 1
  PROVE  EventsSpec => []ActivationsToldOnce
<1>1. SequentialIInv => ActivationsToldOnce
  BY DEF SequentialIInv
<1> QED
  BY <1>1, SequentialInvariance, PTL

(* A token counts the seat of its device, and no more seats than there are *)
(* on the license: so long as the server works on one request at a time    *)
(* (service.sign).                                                         *)
THEOREM SequentialTokenSeats ==
  ASSUME Cardinality(Handlers) = 1
  PROVE  EventsSpec => []TokenSeatsInRange
<1>1. SequentialIInv => TokenSeatsInRange
  BY DEF SequentialIInv, StillSeated, TokenSeatsInRange, TokenOf, At
<1> QED
  BY <1>1, SequentialInvariance, PTL
=============================================================================
