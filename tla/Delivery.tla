------------------------------ MODULE Delivery ------------------------------
(***************************************************************************)
(* What a vendor's endpoint can expect of the events it is told, without   *)
(* saying how: an event arrives at most once for each of two attempts, the *)
(* second is made only while no acknowledgement has come back, an event    *)
(* ends in one way and for good, and one dropped for want of a url never   *)
(* arrives.  What arrives late is nothing an end can prevent.              *)
(***************************************************************************)
EXTENDS Naturals

CONSTANT Events

VARIABLES
    outcome,  \* "Quiet" until an event is told, "Pending", then how it ended
    attempt,  \* the attempt an event is at
    arrived,  \* the attempts of an event that have reached the endpoint
    acked     \* the events whose acknowledgement came back

vars == <<outcome, attempt, arrived, acked>>

Init ==
    /\ outcome = [e \in Events |-> "Quiet"]
    /\ attempt = [e \in Events |-> 1]
    /\ arrived = [e \in Events |-> {}]
    /\ acked = {}

Ends(e, how) ==
    /\ outcome[e] = "Pending"
    /\ outcome' = [outcome EXCEPT ![e] = how]

Tell(e) ==
    /\ outcome[e] = "Quiet"
    /\ outcome' = [outcome EXCEPT ![e] = "Pending"]
    /\ UNCHANGED <<attempt, arrived, acked>>

Drop(e) ==
    /\ arrived[e] = {}
    /\ Ends(e, "Dropped")
    /\ UNCHANGED <<attempt, arrived, acked>>

Retry(e) ==
    /\ outcome[e] = "Pending" /\ attempt[e] = 1
    /\ attempt' = [attempt EXCEPT ![e] = 2]
    /\ UNCHANGED <<outcome, arrived, acked>>

GiveUp(e) ==
    /\ attempt[e] = 2
    /\ Ends(e, "GivenUp")
    /\ UNCHANGED <<attempt, arrived, acked>>

(* The acknowledgement, or a refusal of the last attempt, may come back.   *)
Arrive(e, n) ==
    /\ outcome[e] \notin {"Quiet", "Dropped"}
    /\ n <= attempt[e] /\ n \notin arrived[e]
    /\ arrived' = [arrived EXCEPT ![e] = @ \cup {n}]
    /\ \/ UNCHANGED <<outcome, acked>>
       \/ n = attempt[e] /\ Ends(e, "Delivered") /\ acked' = acked \cup {e}
       \/ n = 2 /\ Ends(e, "GivenUp") /\ UNCHANGED acked
    /\ UNCHANGED attempt

(* All that is under way is given up at once.                              *)
Stop ==
    /\ outcome' = [e \in Events |-> IF outcome[e] = "Pending" THEN "Lost" ELSE outcome[e]]
    /\ UNCHANGED <<attempt, arrived, acked>>

Next ==
    \/ \E e \in Events : Tell(e) \/ Drop(e) \/ Retry(e) \/ GiveUp(e)
    \/ \E e \in Events, n \in 1..2 : Arrive(e, n)
    \/ Stop

Spec == Init /\ [][Next]_vars
=============================================================================
