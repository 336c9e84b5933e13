-------------------------- MODULE LicensingHistory --------------------------
(***************************************************************************)
(* Licensing with a history of each request: what was true of its license  *)
(* and its device at some instant while the server was working on it.  An  *)
(* answer that mixes several reads is right if what it says was true at    *)
(* some instant of the request; the history tells which answers of the     *)
(* code are right in that sense, and which are right only read by read.    *)
(***************************************************************************)
EXTENDS Licensing

VARIABLE seen  \* the facts each request has lived through

historyVars == <<vars, seen>>

StatusNames == {"active", "revoked", "expired"}
Facts ==
    StatusNames \cup {"unknown", "seated", "unseated", "lostSeat", "full", "fullWithoutIt"}

Seated(h) == calls[h].device \in ActiveDevices(calls[h].key)

(* What is true now of the license and the device of handler h's request.  *)
FactsNow(h) ==
    LET l == calls[h].key
        full == Issued(l) /\ ActiveDeviceCount(l) >= licenses[l].maxDevices
    IN  {IF Issued(l) THEN StatusOf(licenses[l], clock) ELSE "unknown",
         IF Seated(h) THEN "seated" ELSE "unseated"}
        \cup (IF full THEN {"full"} ELSE {})
        \cup (IF full /\ ~Seated(h) THEN {"fullWithoutIt"} ELSE {})

(* What a step does to the seat that handler h's request is about.         *)
FactsOfStep(h) == IF Seated(h) /\ ~Seated(h)' THEN {"lostSeat"} ELSE {}

Record ==
    seen' = [h \in Handlers |->
                IF calls'[h] = NoCall THEN {}
                ELSE FactsNow(h)' \cup (IF calls[h] = NoCall THEN {}
                                        ELSE seen[h] \cup FactsOfStep(h))]

HistoryInit == Init /\ seen = [h \in Handlers |-> {}]

HistoryNext == Next /\ Record

HistorySpec == HistoryInit /\ [][HistoryNext]_historyVars

HistoryTypeOK == TypeOK /\ seen \in [Handlers -> SUBSET Facts]

-----------------------------------------------------------------------------

Answered(h, answers) == At(h, "Respond") /\ calls[h].answer \in answers

(* A token is given only to a device that held a seat, on a license that   *)
(* was active, during the request: a seat freed before the request came is *)
(* refused, and so is a license revoked or expired before it came.         *)
TokenJustified ==
    \A h \in Handlers :
        Answered(h, {"token"}) => {"seated", "active"} \subseteq seen[h]

(* "Device limit reached" is said only if the license was full at some     *)
(* instant of the request and the device had no seat at some instant of    *)
(* it, "not active" only if it was revoked or expired by then, and "not    *)
(* found" only if the license was unknown or the device without a seat.    *)
RefusalJustified ==
    \A h \in Handlers :
        /\ Answered(h, {"device_limit_reached"}) => {"full", "unseated"} \subseteq seen[h]
        /\ Answered(h, {"license_not_active"}) => {"revoked", "expired"} \cap seen[h] # {}
        /\ Answered(h, {"not_found"}) => {"unknown", "unseated"} \cap seen[h] # {}

(* Whoever is told that a seat is free can rely on it: the device lost a   *)
(* seat it held while the server worked on the request to deactivate it,   *)
(* which a request that comes when the seat is free already cannot claim;  *)
(* or, on the dashboard, had no seat at some instant of the request.       *)
FreeJustified ==
    \A h \in Handlers :
        /\ Answered(h, {"ok"}) => "lostSeat" \in seen[h]
        /\ Answered(h, {"redirected"}) => "unseated" \in seen[h]

(* An activation is refused for want of a seat only if, at one instant of  *)
(* the request, the license was full and the device had no seat of its own:*)
(* re-activating an active device always succeeds (service.Activate).      *)
RefusedForOthersSeats ==
    \A h \in Handlers :
        Answered(h, {"device_limit_reached"}) => "fullWithoutIt" \in seen[h]
=============================================================================
