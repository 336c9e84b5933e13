---------------------------- MODULE ClientProof ----------------------------
(* Theorems about DemoClient, for any keys, requests, periods and expiries.*)
EXTENDS DemoClient, LicensingProof

-----------------------------------------------------------------------------
(* The service goes on under the client as Licensing has it.               *)

(* Every step of the composition is one of the service or leaves it alone. *)
LEMMA ServiceStep == [ClientNext]_clientVars => [Next]_vars
<1> SUFFICES ASSUME [ClientNext]_clientVars PROVE [Next]_vars
  OBVIOUS
<1>1. CASE UNCHANGED serverVars
  BY <1>1 DEF serverVars, vars
<1>2. ASSUME NEW h \in Handlers, NEW op \in {"activate", "validate", "deactivate"},
             SendRequest(h, op)
      PROVE  Next
  BY <1>2, ClientAssumption DEF SendRequest, Next
<1>3. ASSUME NEW h \in Handlers, ReceiveReply(h) \/ OthersRespond(h) \/ Work(h)
      PROVE  Next
  BY <1>3 DEF ReceiveReply, OthersRespond, Work, Proceed, Next
<1>4. ASSUME NEW h \in Handlers, NEW op \in Ops, NEW d \in Devices, OthersRequest(h, op, d)
      PROVE  Next
  BY <1>4, ClientAssumption DEF OthersRequest, Next
<1>5. CASE Vendor
  BY <1>5, ClientAssumption DEF Vendor, Next
<1>6. CASE Stop \/ TimePasses
  BY <1>6 DEF Stop, TimePasses, Next
<1>7. CASE Boot
  BY <1>7, <1>1 DEF Boot
<1>8. CASE FetchKey \/ OpenKeyFile \/ WriteKeyFile \/ OpenTokenFile \/ WriteTokenFile
           \/ Remove \/ Abandon \/ \E pub \in Keys : OfflineActivate(pub)
  BY <1>8, <1>1 DEF FetchKey, OfflineActivate, OpenKeyFile, WriteKeyFile,
     OpenTokenFile, WriteTokenFile, Remove, Abandon
<1>9. CASE CommandStep
  BY <1>2, <1>3, <1>8, <1>9 DEF CommandStep
<1>10. CASE ServerStep
  <2>1. CASE \E h \in Handlers, op \in Ops, d \in Devices : OthersRequest(h, op, d)
    BY <1>4, <2>1
  <2>2. CASE \E h \in Handlers : OthersRespond(h) \/ Work(h)
    BY <1>3, <2>2
  <2> QED
    BY <1>5, <1>6, <1>7, <1>10, <2>1, <2>2 DEF ServerStep
<1> QED
  BY <1>1, <1>6, <1>9, <1>10 DEF ClientNext, clientVars

(* What is proved of the service holds with the client and the boots of    *)
(* the server around it: the composition implements Licensing.             *)
THEOREM ServiceComposed == ClientSpec => Spec
<1>1. ClientInit => Init
  BY DEF ClientInit
<1> QED
  BY <1>1, ServiceStep, PTL DEF ClientSpec, Spec

-----------------------------------------------------------------------------
(* One key for the life of the database.                                   *)

Signed(env) == env.signer = seed /\ seed # NoKey

(* What keeps everything signed with one key: a process that serves works  *)
(* with the stored seed, nothing is requested of one that does not, a seed *)
(* is drawn only while none is stored, and what is signed, fetched, mailed *)
(* or saved was signed by the key of that seed.                            *)
KeyInv ==
    /\ phase = "serving" => key = seed /\ seed # NoKey
    /\ phase # "serving" => \A h \in Handlers : calls[h] = NoCall
    /\ phase \in {"GenerateSeed", "SetSetting"} => seed = NoKey
    /\ phase = "SetSetting" => key # NoKey
    /\ Cached => Signed(tokenFile)
    /\ KeyCached => keyFile = seed /\ seed # NoKey
    /\ mailed # NoFile => Signed(mailed)
    /\ command # NoCommand /\ command.env # NoFile => Signed(command.env)
    /\ Running("OpenKeyFile") \/ Running("WriteKeyFile") =>
          command.pub = seed /\ seed # NoKey

(* Any token that is about to be answered becomes a proper envelope.       *)
LEMMA EnvelopeType ==
  ASSUME IInv, ClientTypeOK, KeyInv, NEW h \in Handlers,
         At(h, "Respond"), calls[h].answer = "token"
  PROVE  EnvelopeOf(h) \in Envelopes /\ EnvelopeOf(h) \notin {NoFile, Torn}
<1>1. /\ calls[h] # NoCall /\ calls[h] \in CallRecords
      /\ calls[h].key \in Licenses /\ calls[h].at \in Int
  BY DEF At, IInv, TypeOK, CallRecords
<1>2. Checked(calls[h])
  BY <1>1 DEF IInv, ReadsComeFirst, ReadFirst
<1>3. /\ calls[h].lic.expiresAt = licenses[calls[h].key].expiresAt
      /\ Issued(calls[h].key)
  BY <1>1, <1>2 DEF IInv, SnapshotAgrees, Checked
<1>4. calls[h].lic.expiresAt \in Int \cup {Never}
  BY <1>1, <1>3, LimitType, ExpiriesAssumption DEF IInv, LicenseRows
<1>5. /\ TokenOf(h).offline = (calls[h].op = "offline")
      /\ TokenOf(h).validUntil =
           ValidUntil(calls[h].lic.expiresAt, calls[h].at, calls[h].op = "offline")
  BY DEF TokenOf
<1>6. (calls[h].op = "offline") \in BOOLEAN
  OBVIOUS
<1>7. TokenOf(h).validUntil \in Int
  BY <1>1, <1>4, <1>5, <1>6, TokenLife
<1>8. key \in Keys
  BY <1>1 DEF KeyInv, ClientTypeOK, Server!TypeOK
<1>9. EnvelopeOf(h) \in Envelopes
  BY <1>5, <1>6, <1>7, <1>8 DEF EnvelopeOf, Envelopes
<1> QED
  BY <1>9, ClientSentinelsAssumption

(* The command goes on, waits or ends with a well-typed record.            *)
LEMMA CommandType ==
  ASSUME ClientTypeOK, command # NoCommand
  PROVE  /\ command \in Commands
         /\ command.env \in Envelopes \cup {NoFile}
         /\ command.pub \in Keys \cup {NoKey}
         /\ \A pc \in CommandSteps :
               /\ [command EXCEPT !.pc = pc] \in Commands
               /\ [command EXCEPT !.pc = pc].pc = pc
               /\ [command EXCEPT !.pc = pc].env = command.env
               /\ [command EXCEPT !.pc = pc].pub = command.pub
  BY DEF ClientTypeOK, Commands

(* One step of the composition keeps everything signed with one key.       *)
LEMMA NextKeyInv ==
  ASSUME IInv, ClientTypeOK, KeyInv, [ClientNext]_clientVars
  PROVE  KeyInv'
<1> USE DEF KeyInv, Signed, Cached, KeyCached, Running
<1>1. ASSUME UNCHANGED <<processVars, fileVars, command>>,
             phase = "serving" \/ UNCHANGED calls
      PROVE  KeyInv'
  BY <1>1 DEF processVars, fileVars
<1>2. ASSUME NEW h \in Handlers, NEW op \in {"activate", "validate", "deactivate"},
             SendRequest(h, op)
      PROVE  KeyInv'
  BY <1>2 DEF SendRequest, processVars, fileVars
<1>3. ASSUME NEW h \in Handlers, ReceiveReply(h)
      PROVE  KeyInv'
  <2>1. phase = "serving" /\ command # NoCommand /\ command \in Commands
    BY <1>3, CommandType DEF ReceiveReply, WaitsFor, Respond, At
  <2>2. UNCHANGED <<processVars, fileVars>>
    BY <1>3 DEF ReceiveReply
  <2>3. \/ command' = NoCommand
        \/ \E pc \in CommandSteps \ {"OpenKeyFile", "WriteKeyFile"} :
              \/ /\ command'.pc = pc
                 /\ command'.env \in {command.env, EnvelopeOf(h)}
    BY <1>3, <2>1 DEF ReceiveReply, AfterReply, Commands, CommandSteps
  <2>4. EnvelopeOf(h).signer = key
    BY DEF EnvelopeOf
  <2> QED
    BY <2>1, <2>2, <2>3, <2>4 DEF processVars, fileVars
<1>4. CASE FetchKey
  <2>1. /\ phase = "serving" /\ command # NoCommand /\ command \in Commands
        /\ UNCHANGED <<serverVars, processVars, fileVars>>
    BY <1>4, CommandType DEF FetchKey
  <2>2. command'.env = command.env /\ command'.pub = key
    BY <1>4, <2>1 DEF FetchKey, Commands
  <2> QED
    BY <2>1, <2>2 DEF processVars, fileVars, serverVars
<1>5. ASSUME NEW pub \in Keys, OfflineActivate(pub)
      PROVE  KeyInv'
  BY <1>5 DEF OfflineActivate, Verify, processVars, fileVars, serverVars
<1>6. CASE OpenKeyFile \/ WriteKeyFile \/ OpenTokenFile \/ WriteTokenFile \/ Remove \/ Abandon
  <2>1. UNCHANGED <<serverVars, processVars, mailed>>
    BY <1>6 DEF OpenKeyFile, WriteKeyFile, OpenTokenFile, WriteTokenFile, Remove, Abandon, fileVars
  <2>2. CASE OpenKeyFile
    BY <1>6, <2>1, <2>2, CommandType
       DEF OpenKeyFile, Continue, CommandSteps, serverVars, processVars
  <2>3. CASE WriteKeyFile
    BY <1>6, <2>1, <2>3, CommandType
       DEF WriteKeyFile, Continue, CommandSteps, serverVars, processVars
  <2>4. CASE OpenTokenFile
    BY <1>6, <2>1, <2>4, CommandType
       DEF OpenTokenFile, Continue, CommandSteps, serverVars, processVars
  <2>5. CASE WriteTokenFile \/ Remove \/ Abandon
    BY <1>6, <2>1, <2>5
       DEF WriteTokenFile, Remove, Abandon, serverVars, processVars, fileVars
  <2> QED
    BY <1>6, <2>2, <2>3, <2>4, <2>5
<1>7. ASSUME NEW h \in Handlers, NEW op \in Ops, NEW d \in Devices, OthersRequest(h, op, d)
      PROVE  KeyInv'
  BY <1>1, <1>7 DEF OthersRequest
<1>8. ASSUME NEW h \in Handlers, OthersRespond(h)
      PROVE  KeyInv'
  <2>1. phase = "serving"
    BY <1>8 DEF OthersRespond, Respond, At
  <2>2. EnvelopeOf(h).signer = key
    BY DEF EnvelopeOf
  <2> QED
    BY <1>8, <2>1, <2>2 DEF OthersRespond, processVars
<1>9. ASSUME NEW h \in Handlers, Work(h)
      PROVE  KeyInv'
  <2>1. phase = "serving"
    BY <1>9, ProceedFrame DEF Work, IInv
  <2> QED
    BY <1>1, <1>9, <2>1 DEF Work
<1>10. CASE Vendor
  BY <1>1, <1>10 DEF Vendor
<1>11. CASE Boot
  <2>1. UNCHANGED <<serverVars, fileVars, command>>
    BY <1>11 DEF Boot
  <2>2. CASE Server!Open \/ Server!GetSetting
    BY <2>1, <2>2 DEF Server!Open, Server!GetSetting, serverVars, fileVars
  <2>3. CASE Server!GenerateSeed
    BY <2>1, <2>3, ClientSentinelsAssumption DEF Server!GenerateSeed, serverVars, fileVars
  <2>4. CASE Server!SetSetting
    BY <2>1, <2>4 DEF Server!SetSetting, serverVars, fileVars
  <2> QED
    BY <1>11, <2>2, <2>3, <2>4 DEF Boot, Server!Boot
<1>12. CASE Stop
  BY <1>12 DEF Stop, Server!Stop, Crash, fileVars
<1>13. CASE TimePasses
  BY <1>1, <1>13 DEF TimePasses, Tick
<1>14. CASE UNCHANGED clientVars
  BY <1>1, <1>14 DEF clientVars, serverVars
<1> QED
  BY <1>2, <1>3, <1>4, <1>5, <1>6, <1>7, <1>8, <1>9, <1>10, <1>11, <1>12, <1>13, <1>14
     DEF ClientNext, CommandStep, ServerStep

(* One step of the composition keeps the types of the server process, of   *)
(* the files and of the command.                                           *)
LEMMA NextClientTypeOK ==
  ASSUME IInv, ClientTypeOK, KeyInv, [ClientNext]_clientVars
  PROVE  ClientTypeOK'
<1>1. TypeOK'
  BY ServiceStep, NextTypeOK DEF IInv
<1>2. Server!TypeOK'
  <2>1. CASE UNCHANGED processVars
    BY <2>1 DEF ClientTypeOK, Server!TypeOK, processVars
  <2>2. CASE Server!Boot \/ Server!Stop
    BY <2>2 DEF ClientTypeOK, Server!TypeOK, Server!Boot, Server!Stop, Server!Open,
       Server!GetSetting, Server!GenerateSeed, Server!SetSetting, Server!Phases
  <2> QED
    BY <2>1, <2>2 DEF ClientNext, CommandStep, ServerStep, SendRequest, ReceiveReply, FetchKey,
       OfflineActivate, OpenKeyFile, WriteKeyFile, OpenTokenFile, WriteTokenFile, Remove,
       Abandon, OthersRequest, OthersRespond, Work, Vendor, Boot, Stop, TimePasses, clientVars
<1>3. /\ tokenFile' \in Envelopes \cup {NoFile, Torn}
      /\ keyFile' \in Keys \cup {NoFile, Torn}
      /\ mailed' \in Envelopes \cup {NoFile}
  <2> USE DEF ClientTypeOK
  <2>1. CASE UNCHANGED fileVars
    BY <2>1 DEF fileVars
  <2>2. CASE OpenKeyFile \/ WriteKeyFile \/ OpenTokenFile \/ WriteTokenFile \/ Remove
    <3>1. CASE WriteKeyFile
      BY <3>1, CommandType, ClientSentinelsAssumption
         DEF WriteKeyFile, KeyInv, Running, Server!TypeOK
    <3>2. CASE OpenKeyFile \/ OpenTokenFile \/ WriteTokenFile \/ Remove
      BY <3>2, CommandType
         DEF OpenKeyFile, OpenTokenFile, WriteTokenFile, Remove, Running
    <3> QED
      BY <2>2, <3>1, <3>2
  <2>3. ASSUME NEW h \in Handlers, OthersRespond(h)
        PROVE  /\ UNCHANGED <<tokenFile, keyFile>>
               /\ mailed' \in Envelopes \cup {NoFile}
    BY <2>3, EnvelopeType DEF OthersRespond
  <2> QED
    BY <2>1, <2>2, <2>3 DEF ClientNext, CommandStep, ServerStep, SendRequest, ReceiveReply,
       FetchKey, OfflineActivate, Abandon, OthersRequest, Work, Vendor, Boot, Stop,
       TimePasses, clientVars
<1>4. command' \in Commands \cup {NoCommand}
  <2>1. CASE UNCHANGED command \/ command' = NoCommand
    BY <2>1 DEF ClientTypeOK
  <2>2. ASSUME NEW h \in Handlers, NEW op \in {"activate", "validate", "deactivate"},
               SendRequest(h, op)
        PROVE  command' \in Commands
    BY <2>2 DEF SendRequest, Commands, CommandSteps
  <2>3. ASSUME NEW h \in Handlers, ReceiveReply(h)
        PROVE  command' \in Commands \cup {NoCommand}
    <3>1. command \in Commands /\ At(h, "Respond")
      BY <2>3, CommandType DEF ReceiveReply, WaitsFor, Running, Respond
    <3>2. calls[h].answer = "token" => EnvelopeOf(h) \in Envelopes
      BY <3>1, EnvelopeType
    <3> QED
      BY <2>3, <3>1, <3>2 DEF ReceiveReply, AfterReply, Commands, CommandSteps
  <2>4. CASE FetchKey
    <3>1. command \in Commands /\ key \in Keys \cup {NoKey}
      BY <2>4, CommandType DEF FetchKey, Running, ClientTypeOK, Server!TypeOK
    <3> QED
      BY <2>4, <3>1 DEF FetchKey, Commands, CommandSteps
  <2>5. ASSUME NEW pub \in Keys, OfflineActivate(pub)
        PROVE  command' \in Commands
    BY <2>5 DEF OfflineActivate, Commands, CommandSteps, ClientTypeOK
  <2>6. CASE OpenKeyFile \/ WriteKeyFile \/ OpenTokenFile
    BY <2>6, CommandType
       DEF OpenKeyFile, WriteKeyFile, OpenTokenFile, Continue, Running, CommandSteps
  <2>7. CASE WriteTokenFile \/ Remove \/ Abandon \/ TimePasses \/ ServerStep
    BY <2>1, <2>7 DEF WriteTokenFile, Remove, Abandon, TimePasses, ServerStep,
       OthersRequest, OthersRespond, Work, Vendor, Boot, Stop
  <2> QED
    BY <2>1, <2>2, <2>3, <2>4, <2>5, <2>6, <2>7 DEF ClientNext, CommandStep, clientVars
<1>5. received' \in 0..MaxRequests
  <2>1. CASE UNCHANGED received \/ Count
    BY <2>1, ClientAssumption DEF Count, ClientTypeOK
  <2> QED
    BY <2>1 DEF ClientNext, CommandStep, ServerStep, SendRequest, ReceiveReply, FetchKey,
       OfflineActivate, OpenKeyFile, WriteKeyFile, OpenTokenFile, WriteTokenFile, Remove,
       Abandon, OthersRequest, OthersRespond, Work, Vendor, Boot, Stop, TimePasses, clientVars
<1>6. lastSeat' \in 0..MaxClock /\ lastValid' \in 0..MaxClock /\ unseated' \in BOOLEAN
  <2>1. clock' \in 0..MaxClock
    BY <1>1 DEF TypeOK
  <2>2. CASE Record
    BY <2>1, <2>2 DEF Record, ClientTypeOK
  <2>3. CASE UNCHANGED clientVars
    BY <2>3 DEF clientVars, historyVars, ClientTypeOK
  <2> QED
    BY <2>2, <2>3 DEF ClientNext
<1> QED
  BY <1>1, <1>2, <1>3, <1>4, <1>5, <1>6 DEF ClientTypeOK

-----------------------------------------------------------------------------
(* Where envelopes come from.                                              *)

(* The envelopes that can still become the token of the machine.           *)
Around ==
    {env \in Envelopes : \/ env \in {tokenFile, mailed}
                         \/ command # NoCommand /\ env = command.env}

(* Handler h is answering with env, and it may become the machine's.       *)
AnsweredWith(h, env) ==
    /\ At(h, "Respond") /\ calls[h].answer = "token"
    /\ env = EnvelopeOf(h)
    /\ WaitsFor(h) \/ calls[h].op = "offline"

(* Envelopes come from the server: what is around after a step was around  *)
(* before it, or a request is being answered with it: one the command      *)
(* waits for, or an offline activation of the vendor.                      *)
LEMMA EnvelopeOrigin ==
  ASSUME ClientTypeOK, [ClientNext]_clientVars, NEW env \in Around'
  PROVE  \/ env \in Around
         \/ \E h \in Handlers : AnsweredWith(h, env)
<1>1. env \in Envelopes /\ env # NoFile /\ env # Torn
  BY ClientSentinelsAssumption DEF Around
<1>2. ASSUME tokenFile' \in {tokenFile, NoFile, Torn}, mailed' = mailed,
             command' # NoCommand => command # NoCommand /\ command'.env \in {command.env, NoFile}
      PROVE  env \in Around
  BY <1>1, <1>2 DEF Around
<1>3. ASSUME NEW h \in Handlers, NEW op \in {"activate", "validate", "deactivate"},
             SendRequest(h, op)
      PROVE  env \in Around
  BY <1>1, <1>3 DEF Around, SendRequest, fileVars
<1>4. ASSUME NEW h \in Handlers, ReceiveReply(h)
      PROVE  env \in Around \/ AnsweredWith(h, env)
  <2>1. command \in Commands /\ command # NoCommand /\ At(h, "Respond")
    BY <1>4, CommandType DEF ReceiveReply, WaitsFor, Running, Respond
  <2>2. \/ command' = NoCommand \/ command'.env = command.env
        \/ command'.env = EnvelopeOf(h) /\ calls[h].answer = "token"
    BY <1>4, <2>1 DEF ReceiveReply, AfterReply, Commands
  <2>3. UNCHANGED <<tokenFile, mailed>>
    BY <1>4 DEF ReceiveReply, fileVars
  <2> QED
    BY <1>4, <2>1, <2>2, <2>3 DEF Around, AnsweredWith, ReceiveReply
<1>5. CASE FetchKey \/ OpenKeyFile \/ WriteKeyFile \/ OpenTokenFile
  <2>1. command'.env = command.env /\ command # NoCommand
    BY <1>5, CommandType DEF FetchKey, OpenKeyFile, WriteKeyFile, OpenTokenFile, Running,
       Continue, CommandSteps, Commands
  <2> QED
    BY <1>2, <1>5, <2>1
       DEF FetchKey, OpenKeyFile, WriteKeyFile, OpenTokenFile, fileVars
<1>6. ASSUME NEW pub \in Keys, OfflineActivate(pub)
      PROVE  env \in Around
  BY <1>6 DEF Around, OfflineActivate, fileVars
<1>7. CASE WriteTokenFile
  BY <1>7 DEF Around, WriteTokenFile, Running
<1>8. ASSUME NEW h \in Handlers, OthersRespond(h)
      PROVE  env \in Around \/ AnsweredWith(h, env)
  BY <1>8 DEF Around, AnsweredWith, OthersRespond
<1>9. CASE Remove \/ Abandon \/ Boot \/ Stop \/ Vendor \/ TimePasses
           \/ (\E h \in Handlers : Work(h)) \/ UNCHANGED clientVars
           \/ \E h \in Handlers, op \in Ops, d \in Devices : OthersRequest(h, op, d)
  <2>1. /\ tokenFile' \in {tokenFile, NoFile} /\ mailed' = mailed
        /\ command' = command \/ command' = NoCommand
    BY <1>9 DEF Remove, Abandon, Boot, Stop, Vendor, TimePasses, Work, OthersRequest,
       clientVars, fileVars
  <2> QED
    BY <1>2, <2>1
<1> QED
  BY <1>3, <1>4, <1>5, <1>6, <1>7, <1>8, <1>9 DEF ClientNext, CommandStep, ServerStep

-----------------------------------------------------------------------------
(* The machine and its seat.                                               *)

(* A command that waits for an answer waits for a request of its own.      *)
WaitInv ==
    \A h \in Handlers :
        WaitsFor(h) =>
            /\ calls[h] # NoCall
            /\ calls[h].key = LicenseKey
            /\ calls[h].device = Machine

(* The service has found or made the seat of the machine for request c.    *)
OnSeat(c) ==
    /\ c # NoCall
    /\ c.key = LicenseKey /\ c.device = Machine
    /\ \/ c.pc \in {"TouchDevice", "CountSeats"}
       \/ c.pc = "Notify" /\ ~Deactivates(c.op)
       \/ c.answer = "token"

(* The service has freed a seat for request c.                             *)
FreedFor(c) == (c.pc = "Notify" /\ Deactivates(c.op)) \/ c.answer = "ok"

(* Only the requests that look for a seat pass through the checks.         *)
LooksForSeat(c) ==
    c # NoCall /\ c.pc \in {"CheckStatus", "GetActiveDevice", "CheckSeats", "ActivateDevice"}
        => ~Deactivates(c.op)

InGrace(env) == env.offline \/ env.validUntil <= lastSeat + OnlineGracePeriod

(* What bounds the life of a freed seat: the time a request took is one at *)
(* which the machine had not lost its seat yet, and the online tokens that *)
(* are around were signed with such a time.                                *)
SeatInv ==
    /\ lastSeat <= clock
    /\ Seated => lastSeat = clock
    /\ \A h \in Handlers : OnSeat(calls[h]) => calls[h].at <= lastSeat
    /\ \A env \in Around : InGrace(env)

(* What ties the removal of the license file to the seat: a command is     *)
(* told "ok" only by a request that freed the seat while it was waiting.   *)
OutliveInv ==
    /\ \A h \in Handlers : LooksForSeat(calls[h])
    /\ \A h \in Handlers : WaitsFor(h) /\ FreedFor(calls[h]) => unseated
    /\ Running("Remove") => unseated

(* A command that saves has an envelope to save.                           *)
Saving == CommandSteps \ {"Reply", "Remove"}
InHandInv == \A pc \in Saving : Running(pc) => command.env \in Envelopes

(* A request is found a seat only while the device is seated.              *)
LEMMA ProceedOnSeat ==
  ASSUME IInv, NEW h \in Handlers, Proceed(h), OnSeat(calls'[h])
  PROVE  /\ calls'[h].at = calls[h].at
         /\ OnSeat(calls[h]) \/ (Seated' /\ calls[h].at <= clock)
<1>1. /\ TypeOK
      /\ calls[h] # NoCall /\ calls[h] \in CallRecords
      /\ ReadFirst(calls[h])
  BY ProceedFrame DEF IInv, ReadsComeFirst
<1>2. /\ calls'[h] # NoCall
      /\ calls'[h].key = calls[h].key /\ calls'[h].op = calls[h].op
      /\ calls'[h].device = calls[h].device
      /\ calls[h].key = LicenseKey /\ calls[h].device = Machine
  BY <1>1, ProceedLicense DEF OnSeat
<1>3. ASSUME NEW outcome \in Answers \ {"token"}, Return(h, outcome) \/ Reply(h, outcome)
      PROVE  FALSE
  BY <1>1, <1>3, ReturnFrame DEF OnSeat
<1>4. ASSUME NEW pc, Goto(h, pc), ~At(h, "Respond")
      PROVE  /\ calls'[h].at = calls[h].at
             /\ pc \in {"TouchDevice", "CountSeats"} \/ (pc = "Notify" /\ ~Deactivates(calls[h].op))
  BY <1>1, <1>2, <1>4, GotoFrame DEF OnSeat, ReadFirst, At
<1>5. CASE GetLicense(h) \/ GetLicenseByKey(h)
  <2>1. CASE GetLicense(h)
    BY <1>3, <1>4, <2>1 DEF GetLicense, At, Answers
  <2>2. CASE GetLicenseByKey(h)
    <3>1. CASE ~Issued(calls[h].key)
      BY <1>3, <2>2, <3>1 DEF GetLicenseByKey, Answers
    <3>2. CASE Issued(calls[h].key)
      <4>1. /\ calls'[h].pc \in {"DeactivateDevice", "CheckStatus"}
            /\ calls'[h].answer = calls[h].answer
        BY <1>1, <2>2, <3>2 DEF GetLicenseByKey, TypeOK, CallRecords
      <4>2. calls[h].answer = "none"
        BY <1>1, <2>2 DEF GetLicenseByKey, At, ReadFirst
      <4> QED
        BY <4>1, <4>2 DEF OnSeat
    <3> QED
      BY <3>1, <3>2
  <2> QED
    BY <1>5, <2>1, <2>2
<1>6. CASE CheckStatus(h)
  BY <1>1, <1>3, <1>6 DEF CheckStatus, At, Answers, ReadFirst, OnSeat, TypeOK, CallRecords
<1>7. CASE GetActiveDevice(h)
  <2>1. CASE Machine \in ActiveDevices(LicenseKey)
    <3>0. calls[h].device \in ActiveDevices(calls[h].key)
      BY <1>2, <2>1
    <3>1. Goto(h, "TouchDevice")
      BY <1>7, <3>0 DEF GetActiveDevice
    <3>2. devices' = devices /\ At(h, "GetActiveDevice")
      BY <1>7 DEF GetActiveDevice
    <3>3. Seated'
      BY <2>1, <3>2 DEF Seated, ActiveDevices
    <3> QED
      BY <1>1, <1>4, <3>1, <3>2, <3>3 DEF At, ReadFirst, Checked
  <2>2. CASE Machine \notin ActiveDevices(LicenseKey)
    BY <1>2, <1>3, <1>4, <1>7, <2>2 DEF GetActiveDevice, At, Answers
  <2> QED
    BY <2>1, <2>2
<1>8. CASE CheckSeats(h)
  BY <1>3, <1>4, <1>8 DEF CheckSeats, At, Answers
<1>9. CASE ActivateDevice(h)
  <2>1. devices' = [devices EXCEPT ![LicenseKey][Machine] = "active"]
    BY <1>2, <1>9 DEF ActivateDevice
  <2>2. Seated'
    BY <1>1, <2>1, ClientAssumption DEF Seated, ActiveDevices, TypeOK
  <2> QED
    BY <1>1, <1>4, <1>9, <2>2 DEF ActivateDevice, At, ReadFirst, Checked
<1>10. CASE DeactivateDevice(h)
  BY <1>1, <1>3, <1>4, <1>10 DEF DeactivateDevice, At, Answers, ReadFirst
<1>11. CASE Notify(h)
  BY <1>1, <1>2, <1>3, <1>4, <1>11 DEF Notify, At, Answers, OnSeat
<1>12. CASE TouchDevice(h)
  BY <1>1, <1>2, <1>4, <1>12 DEF TouchDevice, At, OnSeat
<1>13. CASE CountSeats(h)
  BY <1>1, <1>2, <1>13 DEF CountSeats, At, OnSeat, TypeOK, CallRecords
<1>14. CASE StatementFails(h)
  BY <1>3, <1>14 DEF StatementFails, Answers
<1>15. CASE Respond(h)
  BY <1>1, <1>2, <1>15 DEF Respond, TypeOK
<1> QED
  BY <1>5, <1>6, <1>7, <1>8, <1>9, <1>10, <1>11, <1>12, <1>13, <1>14, <1>15 DEF Proceed

(* A request is told "ok" only after it has freed the seat of its device.  *)
LEMMA ProceedFreed ==
  ASSUME IInv, NEW h \in Handlers, Proceed(h), LooksForSeat(calls[h]), calls'[h] # NoCall
  PROVE  /\ LooksForSeat(calls'[h])
         /\ FreedFor(calls'[h]) =>
               \/ FreedFor(calls[h])
               \/ calls[h].device \notin ActiveDevices(calls[h].key)'
<1>1. /\ TypeOK
      /\ calls[h] # NoCall /\ calls[h] \in CallRecords
      /\ ReadFirst(calls[h])
  BY ProceedFrame DEF IInv, ReadsComeFirst
<1>2. /\ calls'[h].key = calls[h].key /\ calls'[h].op = calls[h].op
      /\ calls'[h].device = calls[h].device
  BY <1>1, ProceedLicense
<1>3. ASSUME NEW outcome \in Answers \ {"token", "ok"}, Return(h, outcome) \/ Reply(h, outcome)
      PROVE  LooksForSeat(calls'[h]) /\ ~FreedFor(calls'[h])
  <2>1. Answer(calls[h].op, outcome) # "ok"
    BY <1>3 DEF Answer
  <2>2. calls'[h].pc = "Respond" /\ calls'[h].answer # "ok"
    BY <1>1, <1>3, <2>1 DEF Return, Reply, TypeOK, CallRecords
  <2> QED
    BY <2>2 DEF LooksForSeat, FreedFor
<1>4. ASSUME NEW pc, Goto(h, pc), ~At(h, "Respond")
      PROVE  calls'[h].pc = pc /\ calls'[h].answer = "none"
  BY <1>1, <1>4, GotoFrame DEF ReadFirst, At
<1> USE <1>1, <1>2, <1>3, <1>4 DEF LooksForSeat, FreedFor, At, Answers
<1>5. CASE GetLicense(h)
  BY <1>5 DEF GetLicense
<1>6. CASE GetLicenseByKey(h)
  <2>1. CASE ~Issued(calls[h].key)
    BY <1>6, <2>1 DEF GetLicenseByKey
  <2>2. CASE Issued(calls[h].key)
    <3>1. /\ calls'[h].pc = IF Deactivates(calls[h].op) THEN "DeactivateDevice" ELSE "CheckStatus"
          /\ calls'[h].answer = calls[h].answer
      BY <1>6, <2>2 DEF GetLicenseByKey, TypeOK, CallRecords
    <3> QED
      BY <1>6, <3>1 DEF GetLicenseByKey, ReadFirst
  <2> QED
    BY <2>1, <2>2
<1>7. CASE CheckStatus(h)
  <2>1. CASE StatusOf(calls[h].lic, clock) = "active"
    <3>1. calls'[h].pc = "GetActiveDevice" /\ calls'[h].answer = calls[h].answer
      BY <1>7, <2>1 DEF CheckStatus, TypeOK, CallRecords
    <3> QED
      BY <1>7, <3>1 DEF CheckStatus, ReadFirst
  <2> QED
    BY <1>7, <2>1 DEF CheckStatus
<1>8. CASE GetActiveDevice(h)
  BY <1>8 DEF GetActiveDevice
<1>9. CASE CheckSeats(h)
  BY <1>9 DEF CheckSeats
<1>10. CASE ActivateDevice(h)
  BY <1>10 DEF ActivateDevice
<1>11. CASE DeactivateDevice(h)
  <2>1. CASE calls[h].device \in ActiveDevices(calls[h].key)
    <3>1. /\ devices' = [devices EXCEPT ![calls[h].key][calls[h].device] = "freed"]
          /\ Goto(h, "Notify")
      BY <1>11, <2>1 DEF DeactivateDevice
    <3>2. calls[h].device \notin ActiveDevices(calls[h].key)'
      BY <3>1 DEF ActiveDevices, TypeOK, CallRecords
    <3> QED
      BY <1>11, <3>1, <3>2 DEF DeactivateDevice
  <2> QED
    BY <1>11, <2>1 DEF DeactivateDevice
<1>12. CASE Notify(h)
  BY <1>12 DEF Notify, Return, Reply, TypeOK, CallRecords
<1>13. CASE TouchDevice(h)
  BY <1>13 DEF TouchDevice
<1>14. CASE CountSeats(h)
  BY <1>14 DEF CountSeats, TypeOK, CallRecords
<1>15. CASE StatementFails(h)
  BY <1>15 DEF StatementFails
<1>16. CASE Respond(h)
  BY <1>16 DEF Respond, TypeOK
<1> QED
  BY <1>5, <1>6, <1>7, <1>8, <1>9, <1>10, <1>11, <1>12, <1>13, <1>14, <1>15, <1>16 DEF Proceed

(* A request keeps its handler busy until it is answered.                  *)
LEMMA WorkKeepsCall ==
  ASSUME IInv, NEW h \in Handlers, Work(h)
  PROVE  calls'[h] # NoCall
<1> SUFFICES calls'[h] \in CallRecords
  BY SentinelsAssumption
<1>1. /\ TypeOK
      /\ Proceed(h) /\ ~Respond(h)
      /\ calls[h] # NoCall /\ calls[h] \in CallRecords
  BY ProceedFrame DEF IInv, Work, Respond
<1>2. ASSUME NEW pc \in Steps, Goto(h, pc)
      PROVE  calls'[h] \in CallRecords
  BY <1>1, <1>2 DEF Goto, TypeOK, CallRecords
<1>3. ASSUME NEW answer \in Answers, Reply(h, answer) \/ Return(h, answer)
      PROVE  calls'[h] \in CallRecords
  <2>1. PICK mapped \in Answers : Reply(h, mapped)
    BY <1>3, AnswerType DEF Return
  <2> QED
    BY <1>1, <2>1 DEF Reply, TypeOK, CallRecords, Steps
<1>4. calls[h].key \in Licenses /\ clock \in Int /\ FinitelyActive
  BY <1>1, MaxClockAssumption DEF CallRecords, TypeOK, IInv
<1> USE DEF Steps, Statements, Answers
<1>5. CASE GetLicenseByKey(h)
  <2>1. CASE Issued(calls[h].key)
    BY <1>1, <1>4, <1>5, <2>1 DEF GetLicenseByKey, TypeOK, CallRecords, Issued
  <2> QED
    BY <1>3, <1>5, <2>1 DEF GetLicenseByKey
<1>6. CASE CheckStatus(h)
  <2>1. CASE StatusOf(calls[h].lic, clock) = "active"
    BY <1>1, <1>4, <1>6, <2>1 DEF CheckStatus, TypeOK, CallRecords
  <2> QED
    BY <1>3, <1>6, <2>1 DEF CheckStatus
<1>7. CASE CountSeats(h)
  BY <1>1, <1>4, <1>7, CountType DEF CountSeats, TypeOK, CallRecords
<1>8. CASE GetLicense(h) \/ GetActiveDevice(h) \/ CheckSeats(h) \/ ActivateDevice(h)
           \/ DeactivateDevice(h) \/ Notify(h) \/ TouchDevice(h) \/ StatementFails(h)
  BY <1>2, <1>3, <1>8 DEF GetLicense, GetActiveDevice, CheckSeats, ActivateDevice,
     DeactivateDevice, Notify, TouchDevice, StatementFails
<1> QED
  BY <1>1, <1>5, <1>6, <1>7, <1>8 DEF Proceed

(* A command that has its answer, or needs none, waits no more.            *)
LEMMA StepsWithoutReply ==
  ASSUME ClientTypeOK, NEW h \in Handlers, CommandStep,
         ~\E g \in Handlers, op \in {"activate", "validate", "deactivate"} : SendRequest(g, op)
  PROVE  ~WaitsFor(h)'
<1> SUFFICES command' = NoCommand \/ command'.pc # "Reply"
  BY DEF WaitsFor, Running
<1>1. ASSUME NEW g \in Handlers, ReceiveReply(g)
      PROVE  command' = NoCommand \/ command'.pc # "Reply"
  <2>1. command \in Commands
    BY <1>1, CommandType DEF ReceiveReply, WaitsFor, Running
  <2> QED
    BY <1>1, <2>1 DEF ReceiveReply, AfterReply, Commands
<1>2. CASE FetchKey
  BY <1>2, CommandType DEF FetchKey, Running, Commands
<1>3. CASE OpenKeyFile \/ WriteKeyFile \/ OpenTokenFile
  BY <1>3, CommandType
     DEF OpenKeyFile, WriteKeyFile, OpenTokenFile, Continue, CommandSteps, Running
<1>4. CASE WriteTokenFile \/ Remove \/ Abandon
  BY <1>4 DEF WriteTokenFile, Remove, Abandon
<1>5. CASE \E pub \in Keys : OfflineActivate(pub)
  BY <1>5 DEF OfflineActivate
<1> QED
  BY <1>1, <1>2, <1>3, <1>4, <1>5 DEF CommandStep

(* One step of the composition keeps a waiting command with its request.   *)
LEMMA NextWaitInv ==
  ASSUME IInv, ClientTypeOK, WaitInv, [ClientNext]_clientVars
  PROVE  WaitInv'
<1> SUFFICES ASSUME NEW h \in Handlers, WaitsFor(h)'
             PROVE  /\ calls'[h] # NoCall
                    /\ calls'[h].key = LicenseKey
                    /\ calls'[h].device = Machine
  BY DEF WaitInv
<1>1. TypeOK
  BY DEF IInv
<1>2. ASSUME command' = command, calls'[h] = calls[h]
      PROVE  /\ calls'[h] # NoCall
             /\ calls'[h].key = LicenseKey
             /\ calls'[h].device = Machine
  BY <1>2 DEF WaitInv, WaitsFor, Running
<1>3. ASSUME NEW g \in Handlers, NEW op \in {"activate", "validate", "deactivate"},
             SendRequest(g, op)
      PROVE  /\ calls'[h] # NoCall
             /\ calls'[h].key = LicenseKey
             /\ calls'[h].device = Machine
  <2>1. h = g
    BY <1>3 DEF SendRequest, WaitsFor, Running
  <2>2. calls'[h].key = LicenseKey /\ calls'[h].device = Machine
    BY <1>1, <1>3, <2>1 DEF SendRequest, Receive, TypeOK
  <2>3. calls'[h] \in CallRecords
    BY <1>1, <1>3, <2>1, ClientAssumption
       DEF SendRequest, Receive, TypeOK, CallRecords, Steps, Statements, Answers
  <2> QED
    BY <2>2, <2>3, SentinelsAssumption
<1>4. ASSUME CommandStep,
             ~\E g \in Handlers, op \in {"activate", "validate", "deactivate"} : SendRequest(g, op)
      PROVE  FALSE
  BY <1>4, StepsWithoutReply
<1>5. ASSUME NEW g \in Handlers, NEW op \in Ops, NEW d \in Devices, OthersRequest(g, op, d)
      PROVE  command' = command /\ calls'[h] = calls[h]
  <2>1. h # g
    BY <1>5 DEF OthersRequest, Receive, WaitInv, WaitsFor, Running
  <2> QED
    BY <1>1, <1>5, <2>1, ReceiveFrame, ClientAssumption DEF OthersRequest
<1>6. ASSUME NEW g \in Handlers, OthersRespond(g)
      PROVE  command' = command /\ calls'[h] = calls[h]
  <2>1. command' = command /\ h # g
    BY <1>6 DEF OthersRespond, WaitsFor, Running
  <2> QED
    BY <1>1, <1>6, <2>1 DEF OthersRespond, Respond, TypeOK
<1>7. ASSUME NEW g \in Handlers, Work(g)
      PROVE  /\ calls'[h] # NoCall
             /\ calls'[h].key = LicenseKey
             /\ calls'[h].device = Machine
  <2>1. CASE g = h
    <3>1. calls'[h] # NoCall /\ Proceed(h) /\ command' = command
      BY <1>7, <2>1, WorkKeepsCall DEF Work
    <3>2. calls'[h].key = calls[h].key /\ calls'[h].device = calls[h].device
      BY <1>1, <3>1, ProceedLicense
    <3> QED
      BY <3>1, <3>2 DEF WaitInv, WaitsFor, Running
  <2>2. CASE g # h
    BY <1>1, <1>2, <1>7, <2>2, ProceedFrame DEF Work
  <2> QED
    BY <2>1, <2>2
<1>8. CASE Vendor \/ Boot \/ TimePasses \/ UNCHANGED clientVars
  BY <1>2, <1>8 DEF Vendor, IssueLicense, RevokeLicense, Boot, TimePasses, Tick,
     clientVars, serverVars
<1>9. ASSUME Stop
       PROVE  FALSE
  BY <1>9 DEF Stop, WaitsFor, Running
<1> QED
  BY <1>2, <1>3, <1>4, <1>5, <1>6, <1>7, <1>8, <1>9 DEF ClientNext, ServerStep

(* Time goes forwards, and the last instant of the seat follows it.        *)
LEMMA LastSeat ==
  ASSUME IInv, ClientTypeOK, SeatInv, [ClientNext]_clientVars
  PROVE  /\ lastSeat \in Int /\ lastSeat' \in Int /\ clock \in Int /\ clock' \in Int
         /\ lastSeat <= lastSeat' /\ lastSeat' <= clock'
         /\ Seated' => lastSeat' = clock'
<1>1. /\ clock \in Int /\ clock' \in Int
      /\ lastSeat \in Int /\ lastSeat <= clock
  BY ServiceStep, NextTypeOK, MaxClockAssumption DEF IInv, TypeOK, ClientTypeOK, SeatInv
<1>2. clock <= clock'
  BY <1>1, ServiceStep, ProceedFrame DEF IInv, Next, Receive, IssueLicense, RevokeLicense,
     Tick, Crash, vars
<1>3. CASE Record
  BY <1>1, <1>2, <1>3 DEF Record
<1>4. CASE UNCHANGED clientVars
  BY <1>1, <1>4 DEF clientVars, historyVars, serverVars, Seated, ActiveDevices, SeatInv
<1> QED
  BY <1>3, <1>4 DEF ClientNext

(* A time by which the machine had its seat stays one.                     *)
LEMMA NextOnSeat ==
  ASSUME IInv, ClientTypeOK, SeatInv, [ClientNext]_clientVars,
         NEW h \in Handlers, OnSeat(calls'[h])
  PROVE  calls'[h].at <= lastSeat'
<1>1. TypeOK /\ [Next]_vars
  BY ServiceStep DEF IInv
<1>2. OnSeat(calls[h]) => calls[h].at <= lastSeat /\ calls[h].at \in Int
  BY <1>1 DEF SeatInv, OnSeat, TypeOK, CallRecords
<1>3. CASE calls'[h] = calls[h]
  BY <1>2, <1>3, LastSeat
<1>4. ASSUME NEW g \in Handlers, NEW op \in Ops, NEW l \in Licenses, NEW d \in Devices,
             Receive(g, op, l, d)
      PROVE  calls'[h] = calls[h]
  BY <1>1, <1>4, ReceiveFrame DEF OnSeat
<1>5. ASSUME NEW g \in Handlers, Proceed(g)
      PROVE  calls'[h].at <= lastSeat'
  <2>1. CASE g = h
    <3>1. /\ calls'[h].at = calls[h].at /\ calls[h].at \in Int
          /\ OnSeat(calls[h]) \/ (Seated' /\ calls[h].at <= clock)
          /\ clock' = clock
      BY <1>1, <1>5, <2>1, ProceedOnSeat, ProceedFrame DEF CallRecords
    <3> QED
      BY <1>2, <3>1, LastSeat
  <2>2. CASE g # h
    BY <1>1, <1>3, <1>5, <2>2, ProceedFrame
  <2> QED
    BY <2>1, <2>2
<1>6. CASE Crash
  BY <1>6 DEF Crash, OnSeat
<1>7. CASE UNCHANGED calls
  BY <1>3, <1>7
<1> QED
  BY <1>1, <1>3, <1>4, <1>5, <1>6, <1>7 DEF Next, IssueLicense, RevokeLicense, Tick, vars

(* An online token is signed for a seat and lives for the grace period.    *)
LEMMA EnvelopeInGrace ==
  ASSUME IInv, ClientTypeOK, KeyInv, WaitInv, SeatInv, NEW h \in Handlers,
         AnsweredWith(h, EnvelopeOf(h))
  PROVE  InGrace(EnvelopeOf(h))
<1> USE DEF AnsweredWith
<1>1. CASE calls[h].op = "offline"
  BY <1>1 DEF EnvelopeOf, TokenOf, InGrace
<1>2. CASE calls[h].op # "offline"
  <2>1. /\ calls[h] # NoCall /\ calls[h] \in CallRecords
        /\ calls[h].at \in Int /\ calls[h].at <= lastSeat
    BY <1>2 DEF At, IInv, TypeOK, CallRecords, WaitInv, SeatInv, OnSeat
  <2>2. EnvelopeOf(h).validUntil = ValidUntil(calls[h].lic.expiresAt, calls[h].at, FALSE)
    BY <1>2 DEF EnvelopeOf, TokenOf
  <2>3. EnvelopeOf(h).validUntil \in Int
    BY EnvelopeType DEF Envelopes
  <2>4. EnvelopeOf(h).validUntil <= calls[h].at + OnlineGracePeriod
    <3>1. CASE calls[h].lic.expiresAt # Never
               /\ calls[h].lic.expiresAt < calls[h].at + OnlineGracePeriod
      BY <2>1, <2>2, <2>3, <3>1, DurationsAssumption DEF ValidUntil
    <3>2. CASE ~(calls[h].lic.expiresAt # Never
                 /\ calls[h].lic.expiresAt < calls[h].at + OnlineGracePeriod)
      BY <2>1, <2>2, <3>2, DurationsAssumption DEF ValidUntil
    <3> QED
      BY <3>1, <3>2
  <2>5. lastSeat \in Int
    BY MaxClockAssumption DEF ClientTypeOK
  <2> QED
    BY <2>1, <2>3, <2>4, <2>5, DurationsAssumption DEF InGrace
<1> QED
  BY <1>1, <1>2

(* One step of the composition bounds the life of a freed seat.            *)
LEMMA NextSeatInv ==
  ASSUME IInv, ClientTypeOK, KeyInv, WaitInv, SeatInv, [ClientNext]_clientVars
  PROVE  SeatInv'
<1>1. /\ lastSeat' <= clock'
      /\ Seated' => lastSeat' = clock'
      /\ \A h \in Handlers : OnSeat(calls'[h]) => calls'[h].at <= lastSeat'
  BY LastSeat, NextOnSeat
<1>2. ASSUME NEW env \in Envelopes, InGrace(env)
      PROVE  InGrace(env)'
  <2>1. env.validUntil \in Int
    BY DEF Envelopes
  <2> QED
    BY <1>2, <2>1, LastSeat, DurationsAssumption DEF InGrace
<1>3. ASSUME NEW env \in Around'
      PROVE  InGrace(env)'
  <2>1. env \in Envelopes
    BY DEF Around
  <2>2. CASE env \in Around
    BY <1>2, <2>1, <2>2 DEF SeatInv
  <2>3. CASE \E h \in Handlers : AnsweredWith(h, env)
    BY <1>2, <2>1, <2>3, EnvelopeInGrace DEF AnsweredWith
  <2> QED
    BY <2>2, <2>3, EnvelopeOrigin
<1> QED
  BY <1>1, <1>3 DEF SeatInv

(* One step of the composition removes no file of a seat still held.       *)
LEMMA NextOutliveInv ==
  ASSUME IInv, ClientTypeOK, WaitInv, OutliveInv, [ClientNext]_clientVars
  PROVE  OutliveInv'
<1>1. TypeOK /\ [Next]_vars
  BY ServiceStep DEF IInv
<1>2. ASSUME NEW h \in Handlers
      PROVE  LooksForSeat(calls'[h])
  <2>1. CASE calls'[h] = calls[h]
    BY <2>1 DEF OutliveInv
  <2>2. ASSUME NEW g \in Handlers, NEW op \in Ops, NEW l \in Licenses, NEW d \in Devices,
               Receive(g, op, l, d)
        PROVE  LooksForSeat(calls'[h])
    BY <1>1, <2>1, <2>2, ReceiveFrame DEF LooksForSeat
  <2>3. ASSUME NEW g \in Handlers, Proceed(g)
        PROVE  LooksForSeat(calls'[h])
    <3>1. CASE g = h
      BY <2>3, <3>1, ProceedFreed DEF OutliveInv, LooksForSeat
    <3>2. CASE g # h
      BY <1>1, <2>1, <2>3, <3>2, ProceedFrame
    <3> QED
      BY <3>1, <3>2
  <2>4. CASE Crash
    BY <2>4 DEF Crash, LooksForSeat
  <2> QED
    BY <1>1, <2>1, <2>2, <2>3, <2>4 DEF Next, IssueLicense, RevokeLicense, Tick, vars
<1>3. ASSUME unseated, command # NoCommand, command' # NoCommand
      PROVE  unseated'
  BY <1>3 DEF ClientNext, Record, clientVars, historyVars
<1>4. ASSUME NEW h \in Handlers, WaitsFor(h)', FreedFor(calls'[h])
      PROVE  unseated'
  <2>1. CASE command' = command /\ calls'[h] = calls[h]
    BY <1>3, <1>4, <2>1 DEF OutliveInv, WaitsFor, Running
  <2>2. ASSUME NEW g \in Handlers, NEW op \in {"activate", "validate", "deactivate"},
               SendRequest(g, op)
        PROVE  FALSE
    <3>1. h = g
      BY <1>4, <2>2 DEF SendRequest, WaitsFor, Running
    <3> QED
      BY <1>1, <1>4, <2>2, <3>1 DEF SendRequest, Receive, TypeOK, FreedFor
  <2>3. CASE CommandStep /\ ~\E g \in Handlers, op \in {"activate", "validate", "deactivate"} :
                                  SendRequest(g, op)
    BY <1>4, <2>3, StepsWithoutReply
  <2>4. ASSUME NEW g \in Handlers, NEW op \in Ops, NEW d \in Devices, OthersRequest(g, op, d)
        PROVE  command' = command /\ calls'[h] = calls[h]
    <3>1. h # g
      BY <1>4, <2>4 DEF OthersRequest, Receive, WaitInv, WaitsFor, Running
    <3> QED
      BY <1>1, <2>4, <3>1, ReceiveFrame, ClientAssumption DEF OthersRequest
  <2>5. ASSUME NEW g \in Handlers, OthersRespond(g)
        PROVE  command' = command /\ calls'[h] = calls[h]
    <3>1. command' = command /\ h # g
      BY <1>4, <2>5 DEF OthersRespond, WaitsFor, Running
    <3> QED
      BY <1>1, <2>5, <3>1 DEF OthersRespond, Respond, TypeOK
  <2>6. ASSUME NEW g \in Handlers, Work(g)
        PROVE  unseated'
    <3>1. Proceed(g) /\ command' = command /\ WaitsFor(h)
      BY <1>4, <2>6 DEF Work, WaitsFor, Running
    <3>2. CASE g = h
      <4>1. /\ calls'[h] # NoCall
            /\ calls[h].key = LicenseKey /\ calls[h].device = Machine
            /\ LooksForSeat(calls[h])
            /\ calls'[h].key = LicenseKey
        BY <1>1, <2>6, <3>1, <3>2, WorkKeepsCall, ProceedLicense DEF WaitInv, OutliveInv
      <4>2. CASE FreedFor(calls[h])
        BY <1>3, <3>1, <4>2 DEF OutliveInv, WaitsFor, Running
      <4>3. CASE ~FreedFor(calls[h])
        <5>1. ~Seated'
          BY <1>4, <3>1, <3>2, <4>1, <4>3, ProceedFreed DEF Seated
        <5>2. Record /\ command' # NoCommand
          BY <1>4, <3>1, <4>3 DEF ClientNext, clientVars, serverVars, WaitsFor, Running
        <5> QED
          BY <5>1, <5>2 DEF Record
      <4> QED
        BY <4>2, <4>3
    <3>3. CASE g # h
      BY <1>1, <2>1, <3>1, <3>3, ProceedFrame
    <3> QED
      BY <3>2, <3>3
  <2>7. CASE Vendor \/ Boot \/ TimePasses \/ UNCHANGED clientVars
    BY <2>1, <2>7 DEF Vendor, IssueLicense, RevokeLicense, Boot, TimePasses, Tick,
       clientVars, serverVars
  <2>8. ASSUME Stop
        PROVE  FALSE
    BY <1>4, <2>8 DEF Stop, WaitsFor, Running
  <2> QED
    BY <2>1, <2>2, <2>3, <2>4, <2>5, <2>6, <2>7, <2>8 DEF ClientNext, CommandStep, ServerStep
<1>5. Running("Remove")' => unseated'
  <2> SUFFICES ASSUME Running("Remove")' PROVE unseated'
    OBVIOUS
  <2>1. CASE Running("Remove")
    BY <1>3, <2>1 DEF OutliveInv, Running
  <2>2. ASSUME NEW h \in Handlers, ReceiveReply(h)
        PROVE  unseated'
    <3>1. command \in Commands /\ command # NoCommand /\ WaitsFor(h)
      BY <2>2, CommandType DEF ReceiveReply, WaitsFor, Running
    <3>2. calls[h].answer = "ok"
      BY <2>2, <3>1 DEF ReceiveReply, AfterReply, Running, Commands
    <3> QED
      BY <1>3, <3>1, <3>2 DEF OutliveInv, FreedFor, Running
  <2>3. CASE FetchKey \/ OpenKeyFile \/ WriteKeyFile \/ OpenTokenFile
    BY <2>3, CommandType DEF FetchKey, OpenKeyFile, WriteKeyFile, OpenTokenFile, Running,
       Continue, CommandSteps, Commands
  <2>4. CASE \/ \E h \in Handlers, op \in {"activate", "validate", "deactivate"} : SendRequest(h, op)
             \/ \E pub \in Keys : OfflineActivate(pub)
             \/ WriteTokenFile \/ Remove \/ Abandon
    BY <2>4 DEF SendRequest, OfflineActivate, WriteTokenFile, Remove, Abandon, Running
  <2>5. CASE ServerStep \/ TimePasses \/ UNCHANGED clientVars
    BY <2>1, <2>5 DEF ServerStep, OthersRequest, OthersRespond, Work, Vendor, Boot, Stop,
       TimePasses, clientVars, Running
  <2> QED
    BY <2>2, <2>3, <2>4, <2>5 DEF ClientNext, CommandStep
<1> QED
  BY <1>2, <1>4, <1>5 DEF OutliveInv

(* One step of the composition leaves no command without its envelope.     *)
LEMMA NextInHandInv ==
  ASSUME IInv, ClientTypeOK, KeyInv, InHandInv, [ClientNext]_clientVars
  PROVE  InHandInv'
<1> USE DEF InHandInv, Saving, CommandSteps, Running
<1>1. ASSUME NEW h \in Handlers, ReceiveReply(h)
      PROVE  InHandInv'
  <2>1. command \in Commands /\ command # NoCommand /\ At(h, "Respond")
    BY <1>1, CommandType DEF ReceiveReply, WaitsFor, Respond
  <2>2. CASE calls[h].answer = "token"
    <3>1. EnvelopeOf(h) \in Envelopes
      BY <2>1, <2>2, EnvelopeType
    <3>2. command'.env = EnvelopeOf(h)
      BY <1>1, <2>1, <2>2 DEF ReceiveReply, AfterReply, Commands
    <3> QED
      BY <3>1, <3>2
  <2>3. CASE calls[h].answer # "token"
    BY <1>1, <2>1, <2>3 DEF ReceiveReply, AfterReply, Commands
  <2> QED
    BY <2>2, <2>3
<1>2. CASE FetchKey \/ OpenKeyFile \/ WriteKeyFile \/ OpenTokenFile
  <2>1. command \in Commands /\ command # NoCommand
    BY <1>2, CommandType DEF FetchKey, OpenKeyFile, WriteKeyFile, OpenTokenFile
  <2>2. command.env \in Envelopes
    BY <1>2 DEF FetchKey, OpenKeyFile, WriteKeyFile, OpenTokenFile
  <2>3. command'.env = command.env
    BY <1>2, <2>1 DEF FetchKey, OpenKeyFile, WriteKeyFile, OpenTokenFile, Continue, Commands
  <2> QED
    BY <2>2, <2>3
<1>3. ASSUME NEW pub \in Keys, OfflineActivate(pub)
      PROVE  InHandInv'
  BY <1>3 DEF OfflineActivate, ClientTypeOK
<1>4. CASE \/ \E h \in Handlers, op \in {"activate", "validate", "deactivate"} : SendRequest(h, op)
           \/ WriteTokenFile \/ Remove \/ Abandon
  BY <1>4 DEF SendRequest, WriteTokenFile, Remove, Abandon
<1>5. CASE ServerStep \/ TimePasses \/ UNCHANGED clientVars
  BY <1>5 DEF ServerStep, OthersRequest, OthersRespond, Work, Vendor, Boot, Stop,
     TimePasses, clientVars
<1> QED
  BY <1>1, <1>2, <1>3, <1>4, <1>5 DEF ClientNext, CommandStep

-----------------------------------------------------------------------------
(* The machine and its license.                                            *)

(* Every request is for the license the machine was given.                 *)
OneLicense == \A h \in Handlers : calls[h] # NoCall => calls[h].key = LicenseKey

InTerm(env) ==
    /\ Issued(LicenseKey)
    /\ licenses[LicenseKey].expiresAt # Never => env.validUntil <= licenses[LicenseKey].expiresAt

SignedValid(env) == env.offline \/ env.validUntil <= lastValid + OnlineGracePeriod

(* What bounds the life of a revoked or expired license: every envelope    *)
(* ends with the license, and was signed, if it is for online use, at a    *)
(* time at which the license counted as valid.                             *)
LicenseInv ==
    /\ OneLicense
    /\ lastValid <= clock
    /\ CountsAsValid => lastValid = clock
    /\ \A env \in Around : InTerm(env) /\ SignedValid(env)

(* Every step of the composition is for the one license.                   *)
LEMMA NextOneLicense ==
  ASSUME TypeOK, OneLicense, [ClientNext]_clientVars
  PROVE  OneLicense'
<1> SUFFICES ASSUME NEW g \in Handlers, calls'[g] # NoCall
             PROVE  calls'[g].key = LicenseKey
  BY DEF OneLicense
<1>1. CASE calls'[g] = calls[g]
  BY <1>1 DEF OneLicense
<1>2. ASSUME NEW h \in Handlers, NEW op, NEW d, Receive(h, op, LicenseKey, d)
      PROVE  calls'[g].key = LicenseKey
  BY <1>1, <1>2 DEF Receive, TypeOK
<1>3. ASSUME NEW h \in Handlers, Proceed(h)
      PROVE  calls'[g].key = LicenseKey
  BY <1>1, <1>3, ProceedFrame, ProceedLicense DEF OneLicense
<1>4. CASE Crash
  BY <1>4 DEF Crash
<1>5. CASE CommandStep
  BY <1>1, <1>2, <1>3, <1>5 DEF CommandStep, SendRequest, ReceiveReply, Proceed, FetchKey,
     OfflineActivate, OpenKeyFile, WriteKeyFile, OpenTokenFile, WriteTokenFile, Remove, Abandon,
     serverVars
<1>6. CASE ServerStep
  BY <1>1, <1>2, <1>3, <1>4, <1>6 DEF ServerStep, OthersRequest, OthersRespond, Work, Proceed,
     Vendor, IssueLicense, RevokeLicense, Boot, Stop, serverVars
<1> QED
  BY <1>1, <1>5, <1>6 DEF ClientNext, TimePasses, Tick, clientVars, serverVars

(* Time goes forwards, and the last instant of the license follows it.     *)
LEMMA LastValid ==
  ASSUME IInv, ClientTypeOK, LicenseInv, [ClientNext]_clientVars
  PROVE  /\ lastValid \in Int /\ lastValid' \in Int /\ clock \in Int /\ clock' \in Int
         /\ lastValid <= lastValid' /\ lastValid' <= clock'
         /\ CountsAsValid' => lastValid' = clock'
<1>1. /\ clock \in Int /\ clock' \in Int
      /\ lastValid \in Int /\ lastValid <= clock
  BY ServiceStep, NextTypeOK, MaxClockAssumption DEF IInv, TypeOK, ClientTypeOK, LicenseInv
<1>2. clock <= clock'
  BY <1>1, ServiceStep, ProceedFrame DEF IInv, Next, Receive, IssueLicense, RevokeLicense,
     Tick, Crash, vars
<1>3. CASE Record
  BY <1>1, <1>2, <1>3 DEF Record
<1>4. CASE UNCHANGED clientVars
  BY <1>1, <1>4 DEF clientVars, historyVars, serverVars, CountsAsValid, Issued, LicenseInv
<1> QED
  BY <1>3, <1>4 DEF ClientNext

(* A token about to be answered ends with the license, and was signed      *)
(* while the license counted as valid: its request read it unrevoked.      *)
LEMMA SignedInTerm ==
  ASSUME IInv, ClientTypeOK, LicenseInv, NEW h \in Handlers,
         At(h, "Respond"), calls[h].answer = "token", EnvelopeOf(h) \in Envelopes
  PROVE  InTerm(EnvelopeOf(h)) /\ SignedValid(EnvelopeOf(h))
<1> DEFINE c == calls[h]
           offline == c.op = "offline"
           until == ValidUntil(c.lic.expiresAt, c.at, offline)
<1>1. /\ c # NoCall /\ c \in CallRecords /\ c.key = LicenseKey /\ c.at \in Int
  BY DEF At, IInv, TypeOK, CallRecords, LicenseInv, OneLicense
<1>2. Checked(c)
  BY <1>1 DEF IInv, ReadsComeFirst, ReadFirst
<1>3. /\ Issued(LicenseKey)
      /\ c.lic.expiresAt = licenses[LicenseKey].expiresAt
  BY <1>1, <1>2 DEF IInv, SnapshotAgrees, Checked
<1>4. c.lic.expiresAt \in Int \cup {Never}
  BY <1>3, LimitType, ClientAssumption, ExpiriesAssumption DEF IInv, LicenseRows
<1>5. CountsAsValid
  BY <1>1, <1>2 DEF Checked, StatusOf, Status, CountsAsValid
<1>6. c.at <= lastValid /\ lastValid \in Int
  BY <1>2, <1>5, MaxClockAssumption DEF Checked, LicenseInv, IInv, TypeOK
<1>7. EnvelopeOf(h).validUntil = until /\ EnvelopeOf(h).offline = offline
  BY DEF EnvelopeOf, TokenOf
<1>8. /\ until \in Int
      /\ c.lic.expiresAt # Never => until <= c.lic.expiresAt
      /\ until <= c.at + (IF offline THEN OfflineHorizon ELSE OnlineGracePeriod)
  BY <1>1, <1>4, TokenLife
<1> HIDE DEF until, offline, c
<1>9. InTerm(EnvelopeOf(h))
  BY <1>3, <1>7, <1>8 DEF InTerm
<1>10. ~offline => until <= lastValid + OnlineGracePeriod
  BY <1>1, <1>6, <1>8, DurationsAssumption
<1> QED
  BY <1>7, <1>9, <1>10 DEF SignedValid

(* One step of the composition bounds the life of the license.             *)
LEMMA NextLicenseInv ==
  ASSUME IInv, ClientTypeOK, KeyInv, LicenseInv, [ClientNext]_clientVars
  PROVE  LicenseInv'
<1>1. OneLicense'
  BY NextOneLicense DEF IInv, LicenseInv
<1>2. lastValid' <= clock' /\ (CountsAsValid' => lastValid' = clock')
  BY LastValid
<1>3. ASSUME NEW env \in Envelopes, InTerm(env), SignedValid(env)
      PROVE  InTerm(env)' /\ SignedValid(env)'
  <2>1. env.validUntil \in Int
    BY DEF Envelopes
  <2>2. InTerm(env)'
    BY <1>3, ServiceStep, LicensesKept, ClientAssumption DEF InTerm, IInv
  <2>3. SignedValid(env)'
    BY <1>3, <2>1, LastValid, DurationsAssumption DEF SignedValid
  <2> QED
    BY <2>2, <2>3
<1>4. ASSUME NEW env \in Around'
      PROVE  InTerm(env)' /\ SignedValid(env)'
  <2>1. env \in Envelopes
    BY DEF Around
  <2>2. CASE env \in Around
    BY <1>3, <2>1, <2>2 DEF LicenseInv
  <2>3. CASE \E h \in Handlers : AnsweredWith(h, env)
    BY <1>3, <2>1, <2>3, SignedInTerm DEF AnsweredWith
  <2> QED
    BY <2>2, <2>3, EnvelopeOrigin
<1> QED
  BY <1>1, <1>2, <1>4 DEF LicenseInv

-----------------------------------------------------------------------------
(* The inductive invariant of the composition, and the theorems.         *)

ClientIInv ==
    /\ IInv
    /\ ClientTypeOK
    /\ KeyInv
    /\ WaitInv
    /\ SeatInv
    /\ OutliveInv
    /\ InHandInv
    /\ LicenseInv

(* It holds initially, and every step keeps it.                            *)
LEMMA ClientInitIInv == ClientInit => ClientIInv
<1> SUFFICES ASSUME ClientInit PROVE ClientIInv
  OBVIOUS
<1>1. IInv
  BY InitIInv DEF ClientInit
<1>2. ClientTypeOK
  <2>1. TypeOK
    BY <1>1 DEF IInv
  <2>2. Server!TypeOK
    BY DEF ClientInit, Server!Init, Server!TypeOK, Server!Phases
  <2>3. received \in 0..MaxRequests /\ lastSeat \in 0..MaxClock /\ lastValid \in 0..MaxClock
    BY MaxClockAssumption, ClientAssumption DEF ClientInit
  <2> QED
    BY <2>1, <2>2, <2>3 DEF ClientInit, ClientTypeOK
<1>3. KeyInv
  BY DEF ClientInit, Init, Server!Init, KeyInv, Cached, KeyCached, Running
<1>4. Around = {}
  BY ClientSentinelsAssumption DEF ClientInit, Around
<1>5. WaitInv /\ SeatInv /\ OutliveInv /\ InHandInv /\ LicenseInv
  BY <1>4 DEF ClientInit, Init, WaitInv, SeatInv, OutliveInv, InHandInv, WaitsFor, Running, OnSeat,
     Seated, ActiveDevices, LooksForSeat, LicenseInv, OneLicense
<1> QED
  BY <1>1, <1>2, <1>3, <1>5 DEF ClientIInv

(* The inductive invariant holds of every behaviour.                       *)
LEMMA ClientInvariance == ClientSpec => []ClientIInv
<1>1. ClientIInv /\ [ClientNext]_clientVars => ClientIInv'
  BY ServiceStep, NextIInv, NextClientTypeOK, NextKeyInv, NextWaitInv, NextSeatInv,
     NextOutliveInv, NextInHandInv, NextLicenseInv DEF ClientIInv
<1> QED
  BY <1>1, ClientInitIInv, PTL DEF ClientSpec

(* The types of the composition, for any number of handlers, devices and   *)
(* key pairs: in particular no token is signed before its license is read  *)
(* or by a process without a key.                                          *)
THEOREM ClientTypeCorrect == ClientSpec => []ClientTypeOK
  BY ClientInvariance, PTL DEF ClientIInv

(* Every envelope, in the files, in the mail or in the hands of a command, *)
(* verifies against the key of any process that serves                     *)
(* (loadOrCreateKeypair).                                                  *)
THEOREM KeysForLife == ClientSpec => []KeyForLife
<1>1. ClientIInv => KeyForLife
  BY DEF ClientIInv, KeyInv, KeyForLife, Signed, Cached, Verify
<1> QED
  BY <1>1, ClientInvariance, PTL

(* A readable token and a readable key always belong together, wherever    *)
(* the commands that write the two files were killed (savePubkey,          *)
(* saveState).                                                             *)
THEOREM CachedFilesAlwaysAgree == ClientSpec => []CachedFilesAgree
<1>1. ClientIInv => CachedFilesAgree
  BY DEF ClientIInv, KeyInv, CachedFilesAgree, Signed, Verify
<1> QED
  BY <1>1, ClientInvariance, PTL

(* A machine that has lost its seat runs on an online token for no longer  *)
(* than the grace period after the last instant of the seat, for any       *)
(* period and whatever requests, crashes and failures there were           *)
(* (license.OnlineGracePeriod).                                            *)
THEOREM FreedSeatsEnd == ClientSpec => []FreedSeatEnds
<1>1. ClientIInv => FreedSeatEnds
  <2> SUFFICES ASSUME ClientIInv, Runs, ~tokenFile.offline
               PROVE  clock <= lastSeat + OnlineGracePeriod
    BY DEF FreedSeatEnds
  <2>1. /\ tokenFile \in Around /\ tokenFile.validUntil \in Int
        /\ clock \in Int /\ lastSeat \in Int
    BY MaxClockAssumption
       DEF Runs, Cached, Around, ClientIInv, ClientTypeOK, TypeOK, IInv, Envelopes
  <2>2. tokenFile.validUntil <= lastSeat + OnlineGracePeriod
    BY <2>1 DEF ClientIInv, SeatInv, InGrace
  <2> QED
    BY <2>1, <2>2, DurationsAssumption DEF Runs, Accepts
<1> QED
  BY <1>1, ClientInvariance, PTL

(* A machine whose license is revoked runs on an online token for no       *)
(* longer than the grace period after the last instant at which the        *)
(* license counted as valid (service.Validate, License.Status).            *)
THEOREM RevokedLicensesEnd == ClientSpec => []RevokedLicenseEnds
<1>1. ClientIInv => RevokedLicenseEnds
  <2> SUFFICES ASSUME ClientIInv, Runs, ~tokenFile.offline
               PROVE  clock <= lastValid + OnlineGracePeriod
    BY DEF RevokedLicenseEnds
  <2>1. /\ tokenFile \in Around /\ tokenFile.validUntil \in Int
        /\ clock \in Int /\ lastValid \in Int
    BY MaxClockAssumption
       DEF Runs, Cached, Around, ClientIInv, ClientTypeOK, TypeOK, IInv, Envelopes
  <2>2. tokenFile.validUntil <= lastValid + OnlineGracePeriod
    BY <2>1 DEF ClientIInv, LicenseInv, SignedValid
  <2> QED
    BY <2>1, <2>2, DurationsAssumption DEF Runs, Accepts
<1> QED
  BY <1>1, ClientInvariance, PTL

(* No machine runs past the expiry of its license, whatever token it has   *)
(* saved at whatever time (service.sign, cmdRun).                          *)
THEOREM ExpiredLicensesEnd == ClientSpec => []ExpiredLicenseEnds
<1>1. ClientIInv => ExpiredLicenseEnds
  <2> SUFFICES ASSUME ClientIInv, Runs
               PROVE  Issued(LicenseKey) /\ ~ExpiredAt(licenses[LicenseKey].expiresAt, clock)
    BY DEF ExpiredLicenseEnds
  <2>1. /\ tokenFile \in Around /\ tokenFile.validUntil \in Int /\ clock \in Int
    BY MaxClockAssumption
       DEF Runs, Cached, Around, ClientIInv, ClientTypeOK, TypeOK, IInv, Envelopes
  <2>2. InTerm(tokenFile)
    BY <2>1 DEF ClientIInv, LicenseInv
  <2>3. licenses[LicenseKey].expiresAt \in Int \cup {Never}
    BY <2>2, LimitType, ClientAssumption, ExpiriesAssumption
       DEF InTerm, ClientIInv, IInv, LicenseRows
  <2> QED
    BY <2>1, <2>2, <2>3 DEF InTerm, Runs, Accepts, ExpiredAt
<1> QED
  BY <1>1, ClientInvariance, PTL

(* Around the client, too, the tables of the service implement the ledger  *)
(* of seats, whatever requests, boots and stops come between.              *)
THEOREM LedgerComposed == ClientSpec => ImplementsLedger
  BY ServiceComposed, LedgerImplemented

(* The client loses a readable license file only by removing it after its  *)
(* seat was free while the command ran (cmdDeactivate), or by truncating   *)
(* it with the envelope in hand that comes next, which the cached key      *)
(* verifies (saveState).                                                   *)
THEOREM FilesOutliveSeats == ClientSpec => FileOutlivesSeat
<1> DEFINE Lost == Cached /\ ~Cached'
           A == Lost =>
                  \/ tokenFile' = NoFile /\ unseated
                  \/ /\ tokenFile' = Torn
                     /\ Running("WriteTokenFile")' /\ command'.env \in Envelopes
                     /\ KeyCached => Verify(keyFile, command'.env)
<1>1. ClientIInv /\ [ClientNext]_clientVars => [A]_clientVars
  <2> SUFFICES ASSUME ClientIInv, ClientNext, Lost PROVE A
    OBVIOUS
  <2>1. CASE OpenTokenFile
    <3>1. command # NoCommand /\ command \in Commands /\ command.env \in Envelopes
      BY <2>1, CommandType
         DEF OpenTokenFile, Running, ClientIInv, InHandInv, Saving, CommandSteps
    <3>2. /\ tokenFile' = Torn /\ command' = [command EXCEPT !.pc = "WriteTokenFile"]
      BY <2>1 DEF OpenTokenFile, Continue
    <3>3. command'.env = command.env /\ command'.pc = "WriteTokenFile" /\ command' # NoCommand
      BY <3>1, <3>2, ClientSentinelsAssumption DEF Commands, CommandSteps
    <3>4. command.env # NoFile
      BY <3>1, ClientSentinelsAssumption
    <3>5. KeyCached => Verify(keyFile, command.env)
      BY <3>1, <3>4 DEF ClientIInv, KeyInv, Signed, Verify
    <3> QED
      BY <3>1, <3>2, <3>3, <3>5 DEF Running
  <2>2. CASE WriteTokenFile
    <3>1. tokenFile' \in Envelopes
      BY <2>2 DEF WriteTokenFile, Running, ClientIInv, InHandInv, Saving, CommandSteps
    <3> QED
      BY <3>1, ClientSentinelsAssumption DEF Cached
  <2>3. CASE Remove
    BY <2>3 DEF Remove, ClientIInv, OutliveInv
  <2>4. CASE UNCHANGED tokenFile
    BY <2>4 DEF Cached
  <2> QED
    BY <2>1, <2>2, <2>3, <2>4 DEF ClientNext, CommandStep, ServerStep, SendRequest, ReceiveReply,
       FetchKey, OfflineActivate, OpenKeyFile, WriteKeyFile, Abandon, OthersRequest,
       OthersRespond, Work, Vendor, Boot, Stop, TimePasses, fileVars
<1> QED
  BY <1>1, ClientInvariance, PTL DEF ClientSpec, FileOutlivesSeat
=============================================================================
