------------------------------ MODULE DemoClient ------------------------------
(***************************************************************************)
(* A licensed machine and the server it talks to: the reference client     *)
(* (cmd/democli) with its two files, composed with the statements of the   *)
(* licensing service (Licensing) and with the server's boot (SigningKey).  *)
(*                                                                         *)
(* One command at a time runs on the machine.  It may be killed, and any   *)
(* call or file operation of it may fail, at every step, while the request *)
(* it has sent goes on at the server.  The server stops and is started     *)
(* again; then the connections to it break.  Other requests, of another    *)
(* device and of the vendor at the dashboard, come in between.             *)
(*                                                                         *)
(* An envelope stands for its token and for the key it is signed with; of  *)
(* the token only what a client looks at is kept.                          *)
(***************************************************************************)
EXTENDS Licensing

CONSTANTS
    Keys, NoKey,   \* see SigningKey
    MaxRequests,   \* bound on the commands and the requests of others
    LicenseKey,    \* the license key the machine was given
    Machine,       \* its device id
    NoFile,        \* a file, or an envelope, that is not there
    Torn,          \* a file that was truncated and not written
    NoCommand      \* no command is running

ASSUME ClientAssumption ==
    /\ {"activate", "validate", "deactivate"} \subseteq Ops
    /\ LicenseKey \in Licenses /\ Machine \in Devices
    /\ MaxRequests \in Nat

VARIABLES
    seed, drawn, phase, key,  \* the server process, see SigningKey
    tokenFile,  \* license.json
    keyFile,    \* pubkey.txt
    mailed,     \* the activation file the customer last got from the vendor
    command,    \* the command that is running
    received,   \* commands started and requests of others received
    lastSeat,   \* history: the last instant at which the machine had its seat
    lastValid,  \* history: the last instant at which the license counted as unrevoked
    unseated    \* history: it was without one while the command was running

serverVars == <<clock, licenses, devices, calls>>
processVars == <<seed, drawn, phase, key>>
fileVars == <<tokenFile, keyFile, mailed>>
historyVars == <<lastSeat, lastValid, unseated>>
clientVars == <<serverVars, processVars, fileVars, command, received, historyVars>>

Server == INSTANCE SigningKey

Envelopes == [signer : Keys, validUntil : Int, offline : BOOLEAN]

CommandSteps == {"Reply", "FetchKey", "OpenKeyFile", "WriteKeyFile",
                 "OpenTokenFile", "WriteTokenFile", "Remove"}

Commands == [pc  : CommandSteps,
             op  : {"activate", "validate", "deactivate", "offline"},
             via : Handlers \cup {NoCall},     \* the request it waits for
             env : Envelopes \cup {NoFile},    \* the envelope it is to save
             pub : Keys \cup {NoKey}]          \* the public key it is to save

ASSUME ClientSentinelsAssumption ==
    /\ NoKey \notin Keys
    /\ NoCommand \notin Commands
    /\ {NoFile, Torn} \cap (Envelopes \cup Keys) = {}
    /\ NoFile # Torn

ClientTypeOK ==
    /\ TypeOK
    /\ Server!TypeOK
    /\ tokenFile \in Envelopes \cup {NoFile, Torn}
    /\ keyFile \in Keys \cup {NoFile, Torn}
    /\ mailed \in Envelopes \cup {NoFile}
    /\ command \in Commands \cup {NoCommand}
    /\ received \in 0..MaxRequests
    /\ lastSeat \in 0..MaxClock /\ lastValid \in 0..MaxClock
    /\ unseated \in BOOLEAN

-----------------------------------------------------------------------------
(* Envelopes and files.                                                    *)

(* crypto.Sign of the token that handler h returns.                        *)
EnvelopeOf(h) ==
    [signer |-> key, validUntil |-> TokenOf(h).validUntil, offline |-> TokenOf(h).offline]

(* crypto.Verify: signatures are not forged.                               *)
Verify(pub, env) == env.signer = pub

(* A file that was torn does not parse; an empty key has the wrong length. *)
Cached == tokenFile \notin {NoFile, Torn}
KeyCached == keyFile \notin {NoFile, Torn}

(* cmdRun: what the licensed application decides on every start, from its  *)
(* files and its clock alone.                                              *)
Runs ==
    /\ Cached
    /\ KeyCached
    /\ Verify(keyFile, tokenFile)
    /\ Accepts(tokenFile.validUntil, clock)

Running(pc) == command # NoCommand /\ command.pc = pc

WaitsFor(h) == Running("Reply") /\ command.via = h

Count == received < MaxRequests /\ received' = received + 1

Continue(pc) == command' = [command EXCEPT !.pc = pc]

-----------------------------------------------------------------------------
(* The commands.                                                           *)

(* A command that calls the server sends its request.  Validate and        *)
(* deactivate take the license key and the device from the cached token;   *)
(* without a server to connect to the command ends at once.                *)
SendRequest(h, op) ==
    /\ command = NoCommand
    /\ Count
    /\ op # "activate" => Cached
    /\ phase = "serving"
    /\ Receive(h, op, LicenseKey, Machine)
    /\ command' = [pc |-> "Reply", op |-> op, via |-> h, env |-> NoFile, pub |-> NoKey]
    /\ UNCHANGED <<processVars, fileVars>>

(* The slip of removing the file whatever the server answers.              *)
AfterReplyRemoving(h) ==
    CASE calls[h].answer = "token" ->
            command' = [command EXCEPT !.pc = IF command.op = "activate"
                                              THEN "FetchKey" ELSE "OpenTokenFile",
                                       !.via = NoCall, !.env = EnvelopeOf(h)]
      [] command.op = "deactivate" -> command' = [command EXCEPT !.pc = "Remove", !.via = NoCall]
      [] OTHER                     -> command' = NoCommand

(* A status of 300 or more ends the command and leaves the files alone.    *)
AfterReply(h) ==
    CASE calls[h].answer = "token" ->
            command' = [command EXCEPT !.pc = IF command.op = "activate"
                                              THEN "FetchKey" ELSE "OpenTokenFile",
                                       !.via = NoCall, !.env = EnvelopeOf(h)]
      [] calls[h].answer = "ok"    -> command' = [command EXCEPT !.pc = "Remove", !.via = NoCall]
      [] OTHER                     -> command' = NoCommand

(* The server answers the request of the command.                          *)
ReceiveReply(h) ==
    /\ WaitsFor(h)
    /\ Respond(h)
    /\ AfterReply(h)
    /\ UNCHANGED <<processVars, fileVars, received>>

(* The slip of an unreachable server that counts as an empty answer.       *)
FetchKeyUnanswered ==
    /\ Running("FetchKey")
    /\ command' = [command EXCEPT !.pc = "OpenKeyFile", !.pub = key]
    /\ UNCHANGED <<serverVars, processVars, fileVars, received>>

(* GET /v1/pubkey, after the activation succeeded: a call of its own, that *)
(* another process may answer than the one that signed the token.          *)
FetchKey ==
    /\ Running("FetchKey")
    /\ phase = "serving"
    /\ command' = [command EXCEPT !.pc = "OpenKeyFile", !.pub = key]
    /\ UNCHANGED <<serverVars, processVars, fileVars, received>>

(* The slip of saving an activation file without verifying it.             *)
OfflineActivateUnverified(pub) ==
    /\ command = NoCommand
    /\ Count
    /\ mailed # NoFile
    /\ command' = [pc |-> "OpenKeyFile", op |-> "offline", via |-> NoCall,
                   env |-> mailed, pub |-> pub]
    /\ UNCHANGED <<serverVars, processVars, fileVars>>

(* cmdOfflineActivate with the activation file, verified against the key   *)
(* given on the command line or cached before.                             *)
OfflineActivate(pub) ==
    /\ command = NoCommand
    /\ Count
    /\ mailed # NoFile
    /\ Verify(pub, mailed)
    /\ command' = [pc |-> "OpenKeyFile", op |-> "offline", via |-> NoCall,
                   env |-> mailed, pub |-> pub]
    /\ UNCHANGED <<serverVars, processVars, fileVars>>

(* savePubkey and saveState: os.WriteFile truncates the file and writes it.*)
OpenKeyFile ==
    /\ Running("OpenKeyFile")
    /\ keyFile' = Torn
    /\ Continue("WriteKeyFile")
    /\ UNCHANGED <<serverVars, processVars, tokenFile, mailed, received>>

WriteKeyFile ==
    /\ Running("WriteKeyFile")
    /\ keyFile' = command.pub
    /\ Continue("OpenTokenFile")
    /\ UNCHANGED <<serverVars, processVars, tokenFile, mailed, received>>

OpenTokenFile ==
    /\ Running("OpenTokenFile")
    /\ tokenFile' = Torn
    /\ Continue("WriteTokenFile")
    /\ UNCHANGED <<serverVars, processVars, keyFile, mailed, received>>

WriteTokenFile ==
    /\ Running("WriteTokenFile")
    /\ tokenFile' = command.env
    /\ command' = NoCommand
    /\ UNCHANGED <<serverVars, processVars, keyFile, mailed, received>>

(* cmdDeactivate, once the server has freed the seat.                      *)
Remove ==
    /\ Running("Remove")
    /\ tokenFile' = NoFile
    /\ command' = NoCommand
    /\ UNCHANGED <<serverVars, processVars, keyFile, mailed, received>>

(* The command is killed, or the call or the file operation it is at       *)
(* fails: it ends and leaves behind what it has done.  A failed removal    *)
(* is ignored, which comes to the same.                                    *)
Abandon ==
    /\ command # NoCommand
    /\ command' = NoCommand
    /\ UNCHANGED <<serverVars, processVars, fileVars, received>>

-----------------------------------------------------------------------------
(* The server and its other users.                                         *)

(* A request of the vendor at the dashboard, or of another device.         *)
OthersRequest(h, op, d) ==
    /\ phase = "serving"
    /\ d = Machine => ByDashboard(op)
    /\ Count
    /\ Receive(h, op, LicenseKey, d)
    /\ UNCHANGED <<processVars, fileVars, command>>

(* The answer to any request no command waits for; the vendor may send     *)
(* the activation file it brings to the customer.                          *)
OthersRespond(h) ==
    /\ ~WaitsFor(h)
    /\ \/ UNCHANGED mailed
       \/ /\ At(h, "Respond")
          /\ calls[h].op = "offline" /\ calls[h].device = Machine
          /\ calls[h].answer = "token"
          /\ mailed' = EnvelopeOf(h)
    /\ Respond(h)
    /\ UNCHANGED <<processVars, tokenFile, keyFile, command, received>>

(* The statements of the requests; only a process that serves has any.     *)
Work(h) ==
    /\ ~At(h, "Respond")
    /\ Proceed(h)
    /\ UNCHANGED <<processVars, fileVars, command, received>>

Vendor ==
    /\ phase = "serving"
    /\ \/ \E n \in RequestedSeats, e \in Expiries : IssueLicense(LicenseKey, n, e)
       \/ RevokeLicense(LicenseKey)
    /\ UNCHANGED <<processVars, fileVars, command, received>>

Boot ==
    /\ Server!Boot
    /\ UNCHANGED <<serverVars, fileVars, command, received>>

(* The process stops; the connections of its clients break.                *)
Stop ==
    /\ Server!Stop
    /\ Crash
    /\ command' = IF Running("Reply") THEN NoCommand ELSE command
    /\ UNCHANGED <<fileVars, received>>

TimePasses ==
    /\ Tick
    /\ UNCHANGED <<processVars, fileVars, command, received>>

-----------------------------------------------------------------------------

Seated == Machine \in ActiveDevices(LicenseKey)

(* The license is not revoked, or a request still at work read it so.      *)
CountsAsValid ==
    \/ Issued(LicenseKey) /\ licenses[LicenseKey].revokedAt = Never
    \/ \E h \in Handlers : /\ calls[h] # NoCall /\ calls[h].lic # NoLicense
                           /\ calls[h].lic.revokedAt = Never

ClientInit ==
    /\ Init
    /\ Server!Init
    /\ tokenFile = NoFile
    /\ keyFile = NoFile
    /\ mailed = NoFile
    /\ command = NoCommand
    /\ received = 0
    /\ lastSeat = 0 /\ lastValid = 0
    /\ unseated = FALSE

(* A step of the command.                                                  *)
CommandStep ==
    \/ \E h \in Handlers, op \in {"activate", "validate", "deactivate"} : SendRequest(h, op)
    \/ \E h \in Handlers : ReceiveReply(h)
    \/ FetchKey
    \/ \E pub \in Keys : OfflineActivate(pub)
    \/ OpenKeyFile
    \/ WriteKeyFile
    \/ OpenTokenFile
    \/ WriteTokenFile
    \/ Remove
    \/ Abandon

ServerStep ==
    \/ \E h \in Handlers, op \in Ops, d \in Devices : OthersRequest(h, op, d)
    \/ \E h \in Handlers : OthersRespond(h)
    \/ \E h \in Handlers : Work(h)
    \/ Vendor
    \/ Boot
    \/ Stop

Record ==
    /\ lastSeat' = IF Seated' THEN clock' ELSE lastSeat
    /\ lastValid' = IF CountsAsValid' THEN clock' ELSE lastValid
    /\ unseated' = (command' # NoCommand /\ (~Seated' \/ (command # NoCommand /\ unseated)))

ClientNext ==
    /\ CommandStep \/ ServerStep \/ TimePasses
    /\ Record

ClientSpec == ClientInit /\ [][ClientNext]_clientVars

-----------------------------------------------------------------------------
(* Properties.                                                             *)

(* A machine that has lost its seat, by its own deactivation or by the     *)
(* vendor's, runs on an online token for at most the grace period after    *)
(* the last instant at which it had the seat (license.OnlineGracePeriod):  *)
(* whatever requests were under way, answers lost, commands killed and     *)
(* files torn, nothing refreshes the token of a freed seat.                *)
FreedSeatEnds ==
    Runs /\ ~tokenFile.offline => clock <= lastSeat + OnlineGracePeriod

(* A machine whose license is revoked runs on an online token for at most  *)
(* the grace period after the last instant at which the license stood, or  *)
(* at which a request that had read it before the revocation was still at  *)
(* work: the device keeps its seat, but every refresh is refused           *)
(* (service.Validate).                                                     *)
RevokedLicenseEnds ==
    Runs /\ ~tokenFile.offline => clock <= lastValid + OnlineGracePeriod

(* No token, also of an offline activation, lets the machine run past the  *)
(* license's own expiry, however long the token was under way and whenever *)
(* its file was saved (service.sign).                                      *)
ExpiredLicenseEnds ==
    Runs => Issued(LicenseKey) /\ ~ExpiredAt(licenses[LicenseKey].expiresAt, clock)

(* Everything ever signed stays verifiable against the public key that the *)
(* server hands out, for the life of the database: through stops at any    *)
(* point of boot, restarts and reads that fail (loadOrCreateKeypair).      *)
KeyForLife ==
    phase = "serving" =>
        /\ \A env \in {tokenFile, mailed} \ {NoFile, Torn} : Verify(key, env)
        /\ command # NoCommand /\ command.env # NoFile => Verify(key, command.env)

(* The two files are written one after the other, each in two steps, and   *)
(* commands end anywhere between: still, a token and a key that can be     *)
(* read belong together, so that no start of the application is refused    *)
(* for a bad signature (cmdRun).                                           *)
CachedFilesAgree == Cached /\ KeyCached => Verify(keyFile, tokenFile)

(* A machine loses a license file it can read in two ways only.  Either    *)
(* the file is removed, and then the seat was free while the command ran   *)
(* (cmdDeactivate): no refusal, failure or lost answer costs the machine   *)
(* its file while the seat stays taken.  Or it is truncated to be          *)
(* rewritten (saveState), and then the command has the envelope in hand    *)
(* that comes next, and the key file has been seen to.  A command killed   *)
(* right there leaves the file torn though the seat may be taken: the code *)
(* neither prevents nor repairs that.                                      *)
FileOutlivesSeat ==
    [][ Cached /\ ~Cached' =>
            \/ tokenFile' = NoFile /\ unseated
            \/ /\ tokenFile' = Torn
               /\ Running("WriteTokenFile")' /\ command'.env \in Envelopes
               /\ KeyCached => Verify(keyFile, command'.env)
      ]_clientVars
=============================================================================
