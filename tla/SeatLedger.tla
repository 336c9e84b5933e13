----------------------------- MODULE SeatLedger -----------------------------
(***************************************************************************)
(* What seatkey promises about seats, without saying how: every license is *)
(* issued once with a number of seats, a device takes a seat only while    *)
(* fewer than that number are taken, a seat may be freed at any time, a    *)
(* revocation is final, and nothing done to one license touches another.   *)
(*                                                                         *)
(* Slack is the number of seats that may be taken beyond the limit.  The   *)
(* promise of the documentation is Slack = 0; Licensing shows what the     *)
(* code keeps.                                                             *)
(***************************************************************************)
EXTENDS Integers, FiniteSets

CONSTANTS Licenses, Devices, SeatLimits, Slack

VARIABLES
    limit,    \* seats of each license, 0 until it is issued
    revoked,  \* the revoked licenses
    seats     \* the devices that hold a seat on each license

vars == <<limit, revoked, seats>>

Init ==
    /\ limit = [l \in Licenses |-> 0]
    /\ revoked = {}
    /\ seats = [l \in Licenses |-> {}]

Issue(l, n) ==
    /\ limit[l] = 0
    /\ limit' = [limit EXCEPT ![l] = n]
    /\ UNCHANGED <<revoked, seats>>

Revoke(l) ==
    /\ limit[l] # 0
    /\ l \notin revoked
    /\ revoked' = revoked \cup {l}
    /\ UNCHANGED <<limit, seats>>

Take(l, d) ==
    /\ limit[l] # 0
    /\ d \notin seats[l]
    /\ Cardinality(seats[l]) < limit[l] + Slack
    /\ seats' = [seats EXCEPT ![l] = @ \cup {d}]
    /\ UNCHANGED <<limit, revoked>>

Free(l, d) ==
    /\ d \in seats[l]
    /\ seats' = [seats EXCEPT ![l] = @ \ {d}]
    /\ UNCHANGED <<limit, revoked>>

Next ==
    \E l \in Licenses :
        \/ \E n \in SeatLimits : Issue(l, n)
        \/ Revoke(l)
        \/ \E d \in Devices : Take(l, d) \/ Free(l, d)

Spec == Init /\ [][Next]_vars
=============================================================================
