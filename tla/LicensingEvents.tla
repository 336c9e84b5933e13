--------------------------- MODULE LicensingEvents ---------------------------
(***************************************************************************)
(* Licensing with an account of its events: how often a seat was taken and *)
(* freed in the table, how often the notifier was told of it, and how often*)
(* the process stopped between the two.  The service tells the notifier    *)
(* after the statement and outside of any transaction; these are the sums  *)
(* that nevertheless have to come out right.                               *)
(***************************************************************************)
EXTENDS Licensing

CONSTANT MaxCalls  \* bound on the requests received

ASSUME MaxCallsAssumption == MaxCalls \in Nat

VARIABLES
    received,  \* requests received so far
    changed,   \* per event, the changes of the table it speaks of
    told,      \* per event, the calls of Notifier.Notify
    lost       \* per event, the crashes just before that call

eventVars == <<vars, received, changed, told, lost>>

Kinds == {"activation", "deactivation"}
Events == Kinds \X Licenses \X Devices

(* The event the request of handler h tells of once its statement is done. *)
EventOf(h) ==
    <<IF Deactivates(calls[h].op) THEN "deactivation" ELSE "activation",
      calls[h].key, calls[h].device>>

Pending(e) == {h \in Handlers : At(h, "Notify") /\ EventOf(h) = e}

(* The step takes or frees the seat that event e speaks of.                *)
Changes(e) ==
    LET l == e[2]
        d == e[3]
    IN  IF e[1] = "activation"
        THEN d \in ActiveDevices(l)' \ ActiveDevices(l)
        ELSE d \in ActiveDevices(l) \ ActiveDevices(l)'

(* The handlers that leave Pending(e) in this step, having told or not.    *)
Tells(e) == {h \in Pending(e) : calls'[h] # NoCall /\ calls'[h].pc # "Notify"}
Loses(e) == {h \in Pending(e) : calls'[h] = NoCall}

Receives == \E h \in Handlers : calls[h] = NoCall /\ calls'[h] # NoCall

Account ==
    /\ received' = received + (IF Receives THEN 1 ELSE 0)
    /\ received' <= MaxCalls
    /\ changed' = [e \in Events |-> changed[e] + (IF Changes(e) THEN 1 ELSE 0)]
    /\ told' = [e \in Events |-> told[e] + Cardinality(Tells(e))]
    /\ lost' = [e \in Events |-> lost[e] + Cardinality(Loses(e))]

EventsInit ==
    /\ Init
    /\ received = 0
    /\ changed = [e \in Events |-> 0]
    /\ told = [e \in Events |-> 0]
    /\ lost = [e \in Events |-> 0]

EventsNext == Next /\ Account

EventsSpec == EventsInit /\ [][EventsNext]_eventVars

EventsTypeOK ==
    /\ TypeOK
    /\ received \in 0..MaxCalls
    /\ \A count \in {changed, told, lost} : count \in [Events -> Nat]

-----------------------------------------------------------------------------

(* The calls of the notifier made, missed by a crash, or about to be made. *)
Accounted(e) == told[e] + lost[e] + Cardinality(Pending(e))

(* However requests overlap, every seat freed is told exactly once, unless *)
(* the process stops before: two requests that free the same seat are told *)
(* apart by the row their UPDATE changed.                                  *)
DeactivationsTold ==
    \A l \in Licenses, d \in Devices :
        LET e == <<"deactivation", l, d>> IN changed[e] = Accounted(e)

(* However requests overlap, no seat is taken without an event.            *)
ActivationsTold ==
    \A l \in Licenses, d \in Devices :
        LET e == <<"activation", l, d>> IN changed[e] <= Accounted(e)

(* Nor is it told without end: once the seat is taken no other request     *)
(* sets out to take it, so a seat taken once is told at most once by every *)
(* request that was on its way then.                                       *)
ActivationsToldBound ==
    \A l \in Licenses, d \in Devices :
        LET e == <<"activation", l, d>> IN Accounted(e) <= Cardinality(Handlers) * changed[e]

(* A seat taken is told once: re-activating an active device fires no      *)
(* second event (TestWebhookFiresOnActivationAndDeactivation).  The lookup *)
(* and the upsert are two statements, so this holds only while requests    *)
(* come one at a time.                                                     *)
ActivationsToldOnce ==
    \A l \in Licenses, d \in Devices :
        LET e == <<"activation", l, d>> IN changed[e] = Accounted(e)
=============================================================================
