----------------------------- MODULE AdminHistory -----------------------------
(***************************************************************************)
(* Admin with a history of each request: what was true, at some instant    *)
(* while the server worked on it, of the account, of the password it       *)
(* presents and of the session its cookie names; and whether a logout had  *)
(* ended that session before the request came.  The guard, the password    *)
(* check and the write they protect are separate statements; the history   *)
(* says what can still be relied on.                                       *)
(***************************************************************************)
EXTENDS Admin

VARIABLES
    seen,  \* the facts each request has lived through
    ended  \* the sessions whose row was deleted

historyVars == <<vars, seen, ended>>

Facts == {"no_admin", "knew", "live", "ended"}

FactsNow(h) ==
    (IF HasRow THEN {} ELSE {"no_admin"})
    \cup (IF Knows(calls[h].password) THEN {"knew"} ELSE {})
    \cup (IF Live(calls[h].cookie) THEN {"live"} ELSE {})

(* What is known of a request before it comes.                             *)
FactsBefore(h) == IF calls'[h].cookie \in ended THEN {"ended"} ELSE {}

Record ==
    /\ seen' = [h \in Handlers |->
                   IF calls'[h] = NoCall THEN {}
                   ELSE FactsNow(h)' \cup (IF calls[h] = NoCall THEN FactsBefore(h) ELSE seen[h])]
    /\ ended' = ended \cup {t \in Tokens : sessions[t] # NoRow /\ sessions'[t] = NoRow}

HistoryInit ==
    /\ Init
    /\ seen = [h \in Handlers |-> {}]
    /\ ended = {}

HistoryNext == Next /\ Record

HistorySpec == HistoryInit /\ [][HistoryNext]_historyVars

HistoryTypeOK ==
    /\ TypeOK
    /\ seen \in [Handlers -> SUBSET Facts]
    /\ ended \in SUBSET Tokens

-----------------------------------------------------------------------------

Answered(h, ops, answer) ==
    At(h, "Respond") /\ calls[h].op \in ops /\ calls[h].answer = answer

(* A page is served, and the password changed, only for a cookie whose     *)
(* session was live during the request: one that had ended or expired      *)
(* before the request came opens nothing.                                  *)
GuardJustified ==
    \A h \in Handlers :
        Answered(h, {"page"}, "served") \/ Answered(h, {"password"}, "changed")
            => "live" \in seen[h]

(* A session that a logout ended is over for good: whatever else is under  *)
(* way, a cookie that still names it opens nothing to a request that comes *)
(* after the logout.  The row is all there is to a session                 *)
(* (store.DeleteSession).  A logout whose DELETE fails ends none.          *)
LogoutEnds ==
    \A h \in Handlers :
        Answered(h, {"page"}, "served") \/ Answered(h, {"password"}, "changed")
            => "ended" \notin seen[h]

(* A login succeeds, and a password is changed, only with a password that  *)
(* was the password of the account during the request: a password replaced *)
(* before the request came opens nothing.                                  *)
PasswordJustified ==
    \A h \in Handlers :
        Answered(h, {"login"}, "home") \/ Answered(h, {"password"}, "changed")
            => "knew" \in seen[h]

(* Setup succeeds only for a request that came before there was an admin.  *)
SetupJustified ==
    \A h \in Handlers : Answered(h, {"setup"}, "home") => "no_admin" \in seen[h]

(* The password of the account changes hands only by a request to change   *)
(* it that presented, while it was worked on, the password of then: no     *)
(* other request and no crash alters the first row once it is there.       *)
AccountChangesHands ==
    [][ HasRow /\ admins'[1] # admins[1] =>
            \E h \in Handlers : /\ At(h, "SetAdminPassword")
                                /\ {"knew", "live"} \subseteq seen[h] ]_historyVars
=============================================================================
