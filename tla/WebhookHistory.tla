---------------------------- MODULE WebhookHistory ----------------------------
(***************************************************************************)
(* Webhook with a history of the settings form: the pairs of a url and a   *)
(* secret that one use of it brought, whether the two rows can still be    *)
(* those of different uses, and, for each event, whether that was so while *)
(* Notify read them.  The form writes and Notify reads row by row, both    *)
(* without a transaction, and Notify takes a row it fails to read for an   *)
(* empty one; the history says which pairs this can send to.               *)
(***************************************************************************)
EXTENDS Webhook

VARIABLES
    submitted,  \* the pairs configured together: by one use, or from the start
    lone,       \* the use of the form that has had no company, if there is one
    torn,       \* the rows may be of different uses, whether or not one runs
    amid        \* per event, whether Notify read amid a use, or torn rows

historyVars == <<vars, submitted, lone, torn, amid>>

Pairs == [url : URLValues, secret : SecretValues]
CurrentPair == [url |-> url, secret |-> secret]
PairOf(f) == [url |-> forms[f].url, secret |-> forms[f].secret]

Busy == {f \in Forms : forms[f].pc # "Idle"}

Reading(e) == senders[e].pc \in {"GetURL", "GetSecret"}
Delivering(e) == senders[e].pc \in {"Send", "Waiting", "Sleep"}

(* A use ends after its first write only, by a failure or a crash.         *)
CutShort == \E f \in Busy : f \notin Busy' /\ forms[f].pc = "SetSecret"

(* Uses that overlap, or one that is cut short, leave the rows torn until  *)
(* a use that has no company from its start to its end writes both.        *)
Record ==
    /\ submitted' = submitted \cup {[url |-> forms'[f].url, secret |-> forms'[f].secret] :
                                       f \in Busy' \ Busy}
    /\ lone' = {f \in Forms : Busy' = {f} /\ (f \in Busy => f \in lone)}
    /\ torn' = IF \E f \in lone : SetSecret(f) THEN FALSE
               ELSE torn \/ CutShort \/ ~(Busy' \subseteq lone')
    /\ amid' = [e \in Events |->
                   \/ Reading(e)' /\ (torn' \/ Busy' # {})
                   \/ (Reading(e)' \/ Delivering(e)') /\ amid[e]]

HistoryInit ==
    /\ Init
    /\ submitted = {CurrentPair}
    /\ lone = {} /\ torn = FALSE
    /\ amid = [e \in Events |-> FALSE]

HistoryNext == Next /\ Record

HistorySpec == HistoryInit /\ [][HistoryNext]_historyVars /\ Fairness

HistoryTypeOK ==
    /\ TypeOK
    /\ submitted \subseteq Pairs
    /\ lone \subseteq Forms /\ torn \in BOOLEAN
    /\ amid \in [Events -> BOOLEAN]

-----------------------------------------------------------------------------

(* Every attempt of a delivery goes to a url, and is signed with a secret, *)
(* that one use of the form brought together, or goes unsigned because the *)
(* secret could not be read.  Only if Notify read the rows amid a use, or  *)
(* while overlapping uses or one cut short had left them torn, can the two *)
(* be of different uses; never is one of them made up.                     *)
PairJustified ==
    \A e \in Events :
        Delivering(e) =>
            \E pair, other \in submitted :
                /\ senders[e].url = pair.url
                /\ senders[e].secret \in {other.secret, NoSecret}
                /\ pair = other \/ amid[e]
=============================================================================
