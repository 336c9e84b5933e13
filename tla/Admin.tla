-------------------------------- MODULE Admin --------------------------------
(***************************************************************************)
(* Who may use the dashboard: first-run setup, login, logout, the change   *)
(* of the password, and the guard in front of every page                   *)
(* (internal/web/auth.go over internal/store/admin.go).                    *)
(*                                                                         *)
(* As in Licensing, requests run side by side, one action is one SQL       *)
(* statement with the computation up to the next, and any of them may      *)
(* fail.  Hashing a password takes bcrypt tens of milliseconds, which      *)
(* widens the gaps between the statements of setup, login and change.      *)
(***************************************************************************)
EXTENDS Integers, Sequences, FiniteSets

CONSTANTS
    Passwords,   \* passwords of a valid form
    Tokens,      \* session tokens, each drawn at most once
    Handlers,    \* requests the server works on at one time
    Ops,         \* the requests considered
    SessionTTL,  \* sessionTTL, thirty days in the program
    MaxClock,    \* bound on the clock
    MaxCalls,    \* bound on the requests received
    NoRow,       \* a session without a row in the table
    NoCookie,    \* a request without a session cookie
    NoCall       \* a handler between two requests

ASSUME AdminHandlersAssumption == IsFiniteSet(Handlers) /\ Handlers # {}
ASSUME SessionTTLAssumption == SessionTTL \in Nat
ASSUME AdminMaxClockAssumption == MaxClock \in Nat
ASSUME AdminMaxCallsAssumption == MaxCalls \in Nat

(* "page" stands for every page and form behind requireAuth, "password"    *)
(* for the one that handleChangePassword serves.                           *)
Operations == {"setup", "login", "logout", "page", "password"}

ASSUME AdminOpsAssumption == Ops \subseteq Operations

Statements == {"HasAdmin", "CreateAdmin", "AdminPasswordHash", "SetAdminPassword",
               "CreateSession", "ValidSession", "DeleteSession"}
Steps == Statements \cup {"StartSession", "Serve", "Respond"}

Answers == {"none", "to_setup", "to_login", "home", "served", "changed",
            "incorrect_password", "error"}

CallRecords ==
    [pc       : Steps,
     op       : Ops,
     password : Passwords,               \* the password presented
     new      : Passwords,               \* the new one, for a change
     cookie   : Tokens \cup {NoCookie},
     expires  : 0..MaxClock + SessionTTL, \* expiry of the session to create
     answer   : Answers]

ASSUME AdminSentinelsAssumption ==
    /\ NoCall \notin CallRecords
    /\ NoCookie \notin Tokens
    /\ NoRow \notin Int

VARIABLES
    clock,     \* time.Now
    admins,    \* table admins in the order of ids: the password of each row
    sessions,  \* table sessions: expires_at of each token's row
    drawn,     \* tokens newSessionToken has returned
    received,  \* requests received
    calls      \* the request each handler is working on

vars == <<clock, admins, sessions, drawn, received, calls>>

TypeOK ==
    /\ clock \in 0..MaxClock
    /\ admins \in Seq(Passwords)
    /\ sessions \in [Tokens -> 0..MaxClock + SessionTTL \cup {NoRow}]
    /\ drawn \in SUBSET Tokens
    /\ received \in 0..MaxCalls
    /\ calls \in [Handlers -> CallRecords \cup {NoCall}]

-----------------------------------------------------------------------------

HasRow == admins # <<>>

(* The hash that logins are checked against is the one of the first row.   *)
Knows(password) == HasRow /\ password = admins[1]

(* ValidSession: a session ends at the very instant it expires.            *)
Live(cookie) ==
    /\ cookie # NoCookie
    /\ sessions[cookie] # NoRow
    /\ clock < sessions[cookie]

At(h, pc) == calls[h] # NoCall /\ calls[h].pc = pc

Goto(h, pc) == calls' = [calls EXCEPT ![h].pc = pc]

Reply(h, answer) ==
    calls' = [calls EXCEPT ![h].pc = "Respond", ![h].answer = answer]

(* A form arrives that is filled in correctly: one whose passwords differ  *)
(* or are too short is answered without a write.  The cookie is one that   *)
(* some response sets, or none.                                            *)
Receive(h, op, password, new, cookie) ==
    /\ calls[h] = NoCall
    /\ received < MaxCalls
    /\ received' = received + 1
    /\ calls' = [calls EXCEPT ![h] =
                    [pc       |-> IF op = "logout" THEN "DeleteSession" ELSE "HasAdmin",
                     op       |-> op,
                     password |-> password,
                     new      |-> new,
                     cookie   |-> cookie,
                     expires  |-> 0,
                     answer   |-> "none"]]
    /\ UNCHANGED <<clock, admins, sessions, drawn>>

(* The slip of a setup form that stays open.                               *)
HasAdminSetupOpen(h) ==
    /\ At(h, "HasAdmin")
    /\ \/ calls[h].op = "setup" /\ Goto(h, "CreateAdmin")
       \/ calls[h].op # "setup" /\ ~HasRow /\ Reply(h, "to_setup")
       \/ calls[h].op = "login" /\ HasRow /\ Goto(h, "AdminPasswordHash")
       \/ /\ calls[h].op \notin {"setup", "login"} /\ HasRow
          /\ IF calls[h].cookie = NoCookie
             THEN Reply(h, "to_login") ELSE Goto(h, "ValidSession")
    /\ UNCHANGED <<clock, admins, sessions, drawn, received>>

(* The first look of setup, of login and of requireAuth.                   *)
HasAdmin(h) ==
    /\ At(h, "HasAdmin")
    /\ \/ calls[h].op = "setup" /\ HasRow /\ Reply(h, "to_login")
       \/ calls[h].op = "setup" /\ ~HasRow /\ Goto(h, "CreateAdmin")
       \/ calls[h].op # "setup" /\ ~HasRow /\ Reply(h, "to_setup")
       \/ calls[h].op = "login" /\ HasRow /\ Goto(h, "AdminPasswordHash")
       \/ /\ calls[h].op \notin {"setup", "login"} /\ HasRow
          /\ IF calls[h].cookie = NoCookie
             THEN Reply(h, "to_login") ELSE Goto(h, "ValidSession")
    /\ UNCHANGED <<clock, admins, sessions, drawn, received>>

(* The slip of a query without "expires_at > ?".                           *)
ValidSessionOfAnyAge(h) ==
    /\ At(h, "ValidSession")
    /\ IF sessions[calls[h].cookie] # NoRow
       THEN Goto(h, IF calls[h].op = "password" THEN "AdminPasswordHash" ELSE "Serve")
       ELSE Reply(h, "to_login")
    /\ UNCHANGED <<clock, admins, sessions, drawn, received>>

(* requireAuth lets the request through to its handler.                    *)
ValidSession(h) ==
    /\ At(h, "ValidSession")
    /\ IF Live(calls[h].cookie)
       THEN Goto(h, IF calls[h].op = "password" THEN "AdminPasswordHash" ELSE "Serve")
       ELSE Reply(h, "to_login")
    /\ UNCHANGED <<clock, admins, sessions, drawn, received>>

Serve(h) ==
    /\ At(h, "Serve")
    /\ Reply(h, "served")
    /\ UNCHANGED <<clock, admins, sessions, drawn, received>>

(* Nothing in the table keeps a second row out.                            *)
CreateAdmin(h) ==
    /\ At(h, "CreateAdmin")
    /\ admins' = Append(admins, calls[h].password)
    /\ Goto(h, "StartSession")
    /\ UNCHANGED <<clock, sessions, drawn, received>>

(* The slip of a query without "LIMIT 1": any row's password will do.      *)
AdminPasswordHashOfAnyRow(h) ==
    /\ At(h, "AdminPasswordHash")
    /\ IF \E i \in DOMAIN admins : admins[i] = calls[h].password
       THEN Goto(h, IF calls[h].op = "login" THEN "StartSession" ELSE "SetAdminPassword")
       ELSE Reply(h, "incorrect_password")
    /\ UNCHANGED <<clock, admins, sessions, drawn, received>>

(* Read and compared: for a login and for the change of the password.      *)
AdminPasswordHash(h) ==
    /\ At(h, "AdminPasswordHash")
    /\ \/ ~HasRow /\ Reply(h, "error")
       \/ HasRow /\ ~Knows(calls[h].password) /\ Reply(h, "incorrect_password")
       \/ /\ Knows(calls[h].password)
          /\ Goto(h, IF calls[h].op = "login" THEN "StartSession" ELSE "SetAdminPassword")
    /\ UNCHANGED <<clock, admins, sessions, drawn, received>>

SetAdminPassword(h) ==
    /\ At(h, "SetAdminPassword")
    /\ admins' = IF HasRow THEN [admins EXCEPT ![1] = calls[h].new] ELSE admins
    /\ Reply(h, "changed")
    /\ UNCHANGED <<clock, sessions, drawn, received>>

(* The slip of adding the lifetime twice, to the row and to the cookie.    *)
StartSessionDoubled(h) ==
    /\ At(h, "StartSession")
    /\ calls' = [calls EXCEPT ![h].pc = "CreateSession", ![h].expires = clock + 2 * SessionTTL]
    /\ UNCHANGED <<clock, admins, sessions, drawn, received>>

(* The expiry is fixed before the request waits for the database.          *)
StartSession(h) ==
    /\ At(h, "StartSession")
    /\ calls' = [calls EXCEPT ![h].pc = "CreateSession", ![h].expires = clock + SessionTTL]
    /\ UNCHANGED <<clock, admins, sessions, drawn, received>>

(* The slip of keeping the token of the cookie that a login comes with.    *)
CreateSessionOfCookie(h, token) ==
    /\ At(h, "CreateSession")
    /\ token \notin drawn
    /\ LET kept == IF calls[h].cookie = NoCookie THEN token ELSE calls[h].cookie IN
       /\ drawn' = drawn \cup {kept}
       /\ sessions' = [sessions EXCEPT ![kept] = calls[h].expires]
       /\ calls' = [calls EXCEPT ![h].pc = "Respond", ![h].answer = "home",
                                 ![h].cookie = kept]
    /\ UNCHANGED <<clock, admins, received>>

(* The cookie of the answer is the new token.                              *)
CreateSession(h, token) ==
    /\ At(h, "CreateSession")
    /\ token \notin drawn
    /\ drawn' = drawn \cup {token}
    /\ sessions' = [sessions EXCEPT ![token] = calls[h].expires]
    /\ calls' = [calls EXCEPT ![h].pc = "Respond", ![h].answer = "home",
                              ![h].cookie = token]
    /\ UNCHANGED <<clock, admins, received>>

(* handleLogout: without a cookie there is no row to delete.               *)
DeleteSession(h) ==
    /\ At(h, "DeleteSession")
    /\ sessions' = IF calls[h].cookie = NoCookie THEN sessions
                   ELSE [sessions EXCEPT ![calls[h].cookie] = NoRow]
    /\ Reply(h, "to_login")
    /\ UNCHANGED <<clock, admins, drawn, received>>

(* A statement fails and changes nothing.  Logout ignores the failure and  *)
(* answers as if the row were gone.                                        *)
StatementFails(h) ==
    /\ \E pc \in Statements : At(h, pc)
    /\ Reply(h, IF calls[h].op = "logout" THEN "to_login" ELSE "error")
    /\ UNCHANGED <<clock, admins, sessions, drawn, received>>

Respond(h) ==
    /\ At(h, "Respond")
    /\ calls' = [calls EXCEPT ![h] = NoCall]
    /\ UNCHANGED <<clock, admins, sessions, drawn, received>>

Tick ==
    /\ clock < MaxClock
    /\ clock' = clock + 1
    /\ UNCHANGED <<admins, sessions, drawn, received, calls>>

Crash ==
    /\ calls' = [h \in Handlers |-> NoCall]
    /\ UNCHANGED <<clock, admins, sessions, drawn, received>>

Init ==
    /\ clock = 0
    /\ admins = <<>>
    /\ sessions = [t \in Tokens |-> NoRow]
    /\ drawn = {}
    /\ received = 0
    /\ calls = [h \in Handlers |-> NoCall]

Proceed(h) ==
    \/ HasAdmin(h)
    \/ ValidSession(h)
    \/ Serve(h)
    \/ CreateAdmin(h)
    \/ AdminPasswordHash(h)
    \/ SetAdminPassword(h)
    \/ StartSession(h)
    \/ \E token \in Tokens : CreateSession(h, token)
    \/ DeleteSession(h)
    \/ StatementFails(h)
    \/ Respond(h)

Next ==
    \/ \E h \in Handlers, op \in Ops, p, q \in Passwords, c \in drawn \cup {NoCookie} :
          Receive(h, op, p, q, c)
    \/ \E h \in Handlers : Proceed(h)
    \/ Tick
    \/ Crash

Spec == Init /\ [][Next]_vars

-----------------------------------------------------------------------------

(* There is one admin account (store.CreateAdmin).  The look for a row and *)
(* the insert are two statements, so this holds only while requests come   *)
(* one at a time.                                                          *)
SingleAdmin == Len(admins) <= 1

(* The setups that found no admin and have not inserted theirs yet.        *)
SettingUp == {h \in Handlers : At(h, "CreateAdmin")}

(* What the code keeps when requests overlap: setup closes for good with   *)
(* the first row, so no more rows appear than the server worked on setups  *)
(* at that time.                                                           *)
AdminRowsBounded == Len(admins) + Cardinality(SettingUp) <= Cardinality(Handlers)
=============================================================================
