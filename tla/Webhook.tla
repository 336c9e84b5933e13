------------------------------- MODULE Webhook -------------------------------
(***************************************************************************)
(* The delivery of events to the vendor's endpoint (internal/webhook), the *)
(* settings it reads (internal/store/settings.go through the closure in    *)
(* cmd/seatkeyd/main.go), and the form that writes them                    *)
(* (web.handleWebhookSettings).                                            *)
(*                                                                         *)
(* Notify reads the settings in the goroutine of the request and hands the *)
(* event to a goroutine of its own.  A request to the endpoint may be      *)
(* lost, answered late, or processed although the sender stopped waiting.  *)
(***************************************************************************)
EXTENDS Naturals, FiniteSets

CONSTANTS
    Events,    \* the events the service tells of
    URLs,      \* endpoints a vendor may configure
    Secrets,   \* secrets a vendor may configure
    NoURL,     \* the empty url: no deliveries
    NoSecret,  \* the empty secret: deliveries without a signature
    Forms,     \* uses of the settings form the server works on at one time
    MaxSaves   \* bound on the uses of the settings form

ASSUME MaxSavesAssumption == MaxSaves \in Nat

VARIABLES
    url, secret,  \* the rows webhook_url and webhook_secret of table settings
    forms,        \* the uses of the settings form the server works on
    saves,        \* how often the form was used
    senders,      \* per event, how far its notification and delivery are
    wire,         \* requests on their way to the endpoint: event and attempt
    inbox         \* requests the endpoint has processed

vars == <<url, secret, forms, saves, senders, wire, inbox>>

URLValues == URLs \cup {NoURL}
SecretValues == Secrets \cup {NoSecret}

Attempts == 1..2

Ended == {"Delivered", "GivenUp", "Dropped", "Lost"}
SenderSteps == {"Quiet", "GetURL", "GetSecret", "Send", "Waiting", "Sleep"} \cup Ended

Senders == [pc : SenderSteps, attempt : Attempts, url : URLValues, secret : SecretValues]
AnswersOfEndpoint == {"accepted", "refused", "lost"}
Messages == [event : Events, attempt : Attempts, url : URLValues, secret : SecretValues,
             answer : AnswersOfEndpoint]
Saves == [pc : {"Idle", "SetURL", "SetSecret"}, url : URLValues, secret : SecretValues]

TypeOK ==
    /\ url \in URLValues /\ secret \in SecretValues
    /\ forms \in [Forms -> Saves] /\ saves \in 0..MaxSaves
    /\ senders \in [Events -> Senders]
    /\ wire \subseteq Events \X Attempts
    /\ inbox \subseteq Messages

-----------------------------------------------------------------------------
(* The settings form: two statements, the second of which may fail alone.  *)
(* Nothing keeps the statements of two uses of it apart.                   *)

NoSave == [pc |-> "Idle", url |-> NoURL, secret |-> NoSecret]

StartSave(f, u, s) ==
    /\ forms[f].pc = "Idle"
    /\ saves < MaxSaves
    /\ saves' = saves + 1
    /\ forms' = [forms EXCEPT ![f] = [pc |-> "SetURL", url |-> u, secret |-> s]]
    /\ UNCHANGED <<url, secret, senders, wire, inbox>>

SetURL(f) ==
    /\ forms[f].pc = "SetURL"
    /\ url' = forms[f].url
    /\ forms' = [forms EXCEPT ![f].pc = "SetSecret"]
    /\ UNCHANGED <<secret, saves, senders, wire, inbox>>

SetSecret(f) ==
    /\ forms[f].pc = "SetSecret"
    /\ secret' = forms[f].secret
    /\ forms' = [forms EXCEPT ![f] = NoSave]
    /\ UNCHANGED <<url, saves, senders, wire, inbox>>

SaveFails(f) ==
    /\ forms[f].pc # "Idle"
    /\ forms' = [forms EXCEPT ![f] = NoSave]
    /\ UNCHANGED <<url, secret, saves, senders, wire, inbox>>

-----------------------------------------------------------------------------
(* Notify: one row after the other, taking an error for an empty value.    *)

Goto(e, pc) == senders' = [senders EXCEPT ![e].pc = pc]

Notify(e) ==
    /\ senders[e].pc = "Quiet"
    /\ Goto(e, "GetURL")
    /\ UNCHANGED <<url, secret, forms, saves, wire, inbox>>

GetURL(e) ==
    /\ senders[e].pc = "GetURL"
    /\ \E found \in {url, NoURL} :
          senders' = [senders EXCEPT ![e].pc = "GetSecret", ![e].url = found]
    /\ UNCHANGED <<url, secret, forms, saves, wire, inbox>>

GetSecret(e) ==
    /\ senders[e].pc = "GetSecret"
    /\ \E found \in {secret, NoSecret} :
          senders' = [senders EXCEPT ![e].pc = IF senders[e].url = NoURL
                                               THEN "Dropped" ELSE "Send",
                                     ![e].secret = found]
    /\ UNCHANGED <<url, secret, forms, saves, wire, inbox>>

-----------------------------------------------------------------------------
(* deliver: at most two attempts, a second after one another.              *)

Send(e) ==
    /\ senders[e].pc = "Send"
    /\ wire' = wire \cup {<<e, senders[e].attempt>>}
    /\ Goto(e, "Waiting")
    /\ UNCHANGED <<url, secret, forms, saves, inbox>>

(* The slip of counting attempts from one with the loop's bound of zero.   *)
AfterFailureOffByOne(e) == IF senders[e].attempt <= 2 THEN "Sleep" ELSE "GivenUp"

(* The attempt did not bring a status below 300.                           *)
AfterFailure(e) == IF senders[e].attempt < 2 THEN "Sleep" ELSE "GivenUp"

(* The client's timeout, or a connection that failed: the request may be   *)
(* on its way all the same.                                                *)
Fail(e) ==
    /\ senders[e].pc = "Waiting"
    /\ Goto(e, AfterFailure(e))
    /\ UNCHANGED <<url, secret, forms, saves, wire, inbox>>

(* The slip of retrying without counting.                                  *)
WakeUncounted(e) ==
    /\ senders[e].pc = "Sleep"
    /\ Goto(e, "Send")
    /\ UNCHANGED <<url, secret, forms, saves, wire, inbox>>

(* The slip of looking the url up again before the retry, not the secret.  *)
WakeRereadingURL(e) ==
    /\ senders[e].pc = "Sleep"
    /\ senders' = [senders EXCEPT ![e].pc = "Send", ![e].attempt = @ + 1, ![e].url = url]
    /\ UNCHANGED <<url, secret, forms, saves, wire, inbox>>

Wake(e) ==
    /\ senders[e].pc = "Sleep"
    /\ senders' = [senders EXCEPT ![e].pc = "Send", ![e].attempt = @ + 1]
    /\ UNCHANGED <<url, secret, forms, saves, wire, inbox>>

(* The sender of event e still waits for the answer to attempt n.          *)
Waits(e, n) == senders[e].pc = "Waiting" /\ senders[e].attempt = n

(* The slip of a loop that does not return after a success.                *)
AnsweredLoopingOn(e, n, answer) ==
    IF Waits(e, n) /\ answer # "lost" THEN Goto(e, AfterFailure(e)) ELSE UNCHANGED senders

(* What the sender does with the endpoint's answer to attempt n.           *)
Answered(e, n, answer) ==
    IF Waits(e, n) /\ answer # "lost"
    THEN Goto(e, IF answer = "accepted" THEN "Delivered" ELSE AfterFailure(e))
    ELSE UNCHANGED senders

(* The endpoint gets the request with the body and signature as sent; its  *)
(* answer is a success, a status of 300 or more, or does not come through  *)
(* in time.                                                                *)
Process(e, n, answer) ==
    /\ <<e, n>> \in wire
    /\ wire' = wire \ {<<e, n>>}
    /\ inbox' = inbox \cup {[event |-> e, attempt |-> n,
                             url |-> senders[e].url, secret |-> senders[e].secret,
                             answer |-> IF Waits(e, n) THEN answer ELSE "lost"]}
    /\ Answered(e, n, answer)
    /\ UNCHANGED <<url, secret, forms, saves>>

Lose(e, n) ==
    /\ <<e, n>> \in wire
    /\ wire' = wire \ {<<e, n>>}
    /\ UNCHANGED <<url, secret, forms, saves, senders, inbox>>

(* The process stops: what is being notified, delivered or saved is gone.  *)
Crash ==
    /\ senders' = [e \in Events |-> IF senders[e].pc \in Ended \cup {"Quiet"} THEN senders[e]
                                    ELSE [senders[e] EXCEPT !.pc = "Lost"]]
    /\ forms' = [f \in Forms |-> NoSave]
    /\ UNCHANGED <<url, secret, saves, wire, inbox>>

-----------------------------------------------------------------------------

Init ==
    /\ url \in URLValues /\ secret \in SecretValues
    /\ forms = [f \in Forms |-> NoSave]
    /\ saves = 0
    /\ senders = [e \in Events |-> [pc |-> "Quiet", attempt |-> 1,
                                    url |-> NoURL, secret |-> NoSecret]]
    /\ wire = {} /\ inbox = {}

(* The steps of the goroutine that works on event e.                       *)
Advance(e) ==
    \/ GetURL(e)
    \/ GetSecret(e)
    \/ Send(e)
    \/ Fail(e)
    \/ Wake(e)

Next ==
    \/ \E f \in Forms, u \in URLValues, s \in SecretValues : StartSave(f, u, s)
    \/ \E f \in Forms : SetURL(f) \/ SetSecret(f) \/ SaveFails(f)
    \/ \E e \in Events : Notify(e) \/ Advance(e)
    \/ \E e \in Events, n \in Attempts, answer \in AnswersOfEndpoint :
          Process(e, n, answer)
    \/ \E e \in Events, n \in Attempts : Lose(e, n)
    \/ Crash

(* A goroutine that can go on does: the scheduler runs it, a statement     *)
(* ends, the client's timeout of five seconds and the sleep of one second  *)
(* pass.  Nothing is assumed of the network, of the endpoint, or of        *)
(* crashes.                                                                *)
Fairness == \A e \in Events : WF_vars(Advance(e))

Spec == Init /\ [][Next]_vars /\ Fairness

-----------------------------------------------------------------------------

Copies(e) == {m \in inbox : m.event = e}

(* However requests and answers are delayed or lost: an event whose        *)
(* acknowledgement reached the sender is not sent again, an event is given *)
(* up only after a second attempt and only if no acknowledgement reached   *)
(* the sender, and it counts as delivered only if the endpoint has it.     *)
RetryRule ==
    \A e \in Events :
        /\ \A m \in Copies(e) : m.answer = "accepted" =>
               /\ senders[e].pc = "Delivered"
               /\ senders[e].attempt = m.attempt
               /\ \A n \in Attempts : n > m.attempt => <<e, n>> \notin wire
        /\ senders[e].pc = "Delivered" => \E m \in Copies(e) : m.answer = "accepted"
        /\ senders[e].pc = "GivenUp" => senders[e].attempt = 2

(* Every event told of ends in a delivery, in giving up, in being dropped  *)
(* for want of a url, or in a crash: no delivery hangs or retries forever. *)
DeliveriesEnd ==
    \A e \in Events : senders[e].pc = "GetURL" ~> senders[e].pc \in Ended

(* What the vendor can expect of deliveries is kept: every step of a       *)
(* sender, of the endpoint and of the network is one of Delivery or        *)
(* changes nothing in it, so an event arrives at most twice, never again   *)
(* for the same attempt, and never for a second one once it was            *)
(* acknowledged to the sender (Sender.deliver).                            *)
Promise == INSTANCE Delivery WITH
    outcome <- [e \in Events |-> IF senders[e].pc \in Ended \cup {"Quiet"}
                                 THEN senders[e].pc ELSE "Pending"],
    attempt <- [e \in Events |-> senders[e].attempt],
    arrived <- [e \in Events |-> {m.attempt : m \in Copies(e)}],
    acked   <- {e \in Events : \E m \in Copies(e) : m.answer = "accepted"}

ImplementsDelivery == Promise!Spec

(* The url is read on every send, so that a change on the dashboard takes  *)
(* effect at once (webhook.Sender): a retry goes to the url that is        *)
(* configured when it is made.  The code reads the settings once per       *)
(* event, before the first attempt.                                        *)
SentToCurrentURL ==
    [][ \A e \in Events :
            Send(e) /\ senders[e].attempt = 2 /\ (\A f \in Forms : forms[f].pc = "Idle")
                => senders[e].url = url ]_vars
=============================================================================
