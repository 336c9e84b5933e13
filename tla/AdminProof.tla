------------------------------ MODULE AdminProof ------------------------------
(* Theorems about Admin and AdminHistory, for any handlers, passwords and  *)
(* tokens, any lifetime of a session and any number of requests.           *)
EXTENDS AdminHistory, FiniteSetTheorems, TLAPS

-----------------------------------------------------------------------------
(* The inductive invariant.                                                *)

(* Which requests get to which statement.                                  *)
Shape(c) ==
    /\ c.pc = "HasAdmin" => c.op # "logout"
    /\ c.pc = "CreateAdmin" => c.op = "setup"
    /\ c.pc = "ValidSession" => c.op \in {"page", "password"} /\ c.cookie # NoCookie
    /\ c.pc = "AdminPasswordHash" => c.op \in {"login", "password"}
    /\ c.pc = "SetAdminPassword" => c.op = "password"
    /\ c.pc \in {"StartSession", "CreateSession"} => c.op \in {"setup", "login"}
    /\ c.pc = "Serve" => c.op = "page"
    /\ c.pc = "DeleteSession" => c.op = "logout"

(* The request is past the guard; past the check of its password; past the *)
(* look for an admin that found none.                                      *)
PastGuard(c) ==
    \/ c.pc = "Serve"
    \/ c.op = "password" /\ c.pc \in {"AdminPasswordHash", "SetAdminPassword"}
    \/ c.pc = "Respond" /\ c.op = "page" /\ c.answer = "served"
    \/ c.pc = "Respond" /\ c.op = "password" /\ c.answer = "changed"

PastPassword(c) ==
    \/ c.pc = "SetAdminPassword"
    \/ c.op = "login" /\ c.pc \in {"StartSession", "CreateSession"}
    \/ c.pc = "Respond" /\ c.op = "login" /\ c.answer = "home"
    \/ c.pc = "Respond" /\ c.op = "password" /\ c.answer = "changed"

PastSetup(c) ==
    \/ c.pc = "CreateAdmin"
    \/ c.op = "setup" /\ c.pc \in {"StartSession", "CreateSession"}
    \/ c.pc = "Respond" /\ c.op = "setup" /\ c.answer = "home"

(* What a request has passed is in its history.                            *)
Justified(c, facts) ==
    /\ Shape(c)
    /\ PastGuard(c) => "live" \in facts /\ "ended" \notin facts
    /\ PastPassword(c) => "knew" \in facts
    /\ PastSetup(c) => "no_admin" \in facts
    /\ c.pc # "Respond" /\ "ended" \in facts => c.cookie \in ended

RequestsJustified ==
    \A h \in Handlers : calls[h] # NoCall => Justified(calls[h], seen[h])

(* A token is drawn once, so the row of an ended session never comes back. *)
TokensOnce ==
    /\ \A t \in Tokens : sessions[t] # NoRow => t \in drawn
    /\ \A t \in ended : t \in drawn /\ sessions[t] = NoRow
    /\ \A h \in Handlers :
          calls[h] # NoCall /\ calls[h].cookie # NoCookie => calls[h].cookie \in drawn

AdminIInv ==
    /\ HistoryTypeOK
    /\ TokensOnce
    /\ RequestsJustified
    /\ AdminRowsBounded

-----------------------------------------------------------------------------
(* What the steps of a request change.                                     *)

(* A request moves to another step.                                        *)
LEMMA GotoType ==
  ASSUME TypeOK, NEW h \in Handlers, calls[h] # NoCall, NEW pc \in Steps, Goto(h, pc)
  PROVE  /\ calls' \in [Handlers -> CallRecords \cup {NoCall}]
         /\ calls'[h] \in CallRecords
         /\ calls'[h].pc = pc /\ calls'[h].answer = calls[h].answer
         /\ calls'[h].cookie = calls[h].cookie
         /\ calls'[h].op = calls[h].op /\ calls'[h].password = calls[h].password
         /\ calls'[h].new = calls[h].new
         /\ \A g \in Handlers : g # h => calls'[g] = calls[g]
  BY DEF TypeOK, Goto, CallRecords

(* A request is answered.                                                  *)
LEMMA ReplyType ==
  ASSUME TypeOK, NEW h \in Handlers, calls[h] # NoCall, NEW answer \in Answers,
         Reply(h, answer)
  PROVE  /\ calls' \in [Handlers -> CallRecords \cup {NoCall}]
         /\ calls'[h] \in CallRecords
         /\ calls'[h].pc = "Respond" /\ calls'[h].answer = answer
         /\ calls'[h].cookie = calls[h].cookie
         /\ calls'[h].op = calls[h].op /\ calls'[h].password = calls[h].password
         /\ calls'[h].new = calls[h].new
         /\ \A g \in Handlers : g # h => calls'[g] = calls[g]
  BY DEF TypeOK, Reply, CallRecords, Steps

(* The step of a request passes a check only when the check holds.         *)
PassesChecks(h) ==
    /\ calls'[h].op = calls[h].op /\ calls'[h].password = calls[h].password
    /\ Shape(calls'[h])
    /\ PastGuard(calls'[h]) =>
          \/ PastGuard(calls[h])
          \/ /\ calls[h].pc = "ValidSession" /\ Live(calls[h].cookie)
             /\ calls'[h].cookie = calls[h].cookie
             /\ UNCHANGED <<clock, sessions>>
    /\ PastPassword(calls'[h]) =>
          \/ PastPassword(calls[h])
          \/ Knows(calls[h].password) /\ UNCHANGED admins
    /\ PastSetup(calls'[h]) =>
          \/ PastSetup(calls[h])
          \/ ~HasRow /\ UNCHANGED admins
    /\ calls'[h].pc # "Respond" =>
          calls[h].pc # "Respond" /\ calls'[h].cookie = calls[h].cookie

(* A step of one request moves that request alone, and it passes the       *)
(* guard's checks unless it ends.                                          *)
LEMMA ProceedFrame ==
  ASSUME TypeOK, NEW h \in Handlers, calls[h] # NoCall => Shape(calls[h]), Proceed(h)
  PROVE  /\ calls[h] # NoCall /\ calls[h] \in CallRecords
         /\ UNCHANGED <<clock, received>>
         /\ calls' \in [Handlers -> CallRecords \cup {NoCall}]
         /\ \A g \in Handlers : g # h => calls'[g] = calls[g]
         /\ calls'[h] # NoCall => PassesChecks(h)
<1> USE DEF At
<1>1. /\ calls[h] # NoCall /\ calls[h] \in CallRecords /\ Shape(calls[h])
      /\ UNCHANGED <<clock, received>>
  BY DEF Proceed, HasAdmin, ValidSession, Serve, CreateAdmin, AdminPasswordHash,
     SetAdminPassword, StartSession, CreateSession, DeleteSession, StatementFails, Respond,
     TypeOK
<1> USE <1>1
<1>2. CASE HasAdmin(h)
  <2>1. calls[h].op \in Operations
    BY AdminOpsAssumption DEF CallRecords
  <2> QED
    BY <1>2, <2>1, GotoType, ReplyType
       DEF HasAdmin, Operations, Steps, Statements, Answers, Shape, PastGuard, PastPassword,
           PastSetup, PassesChecks
<1>3. CASE ValidSession(h)
  BY <1>3, GotoType, ReplyType
     DEF ValidSession, Steps, Statements, Answers, Shape, PastGuard, PastPassword, PastSetup,
         PassesChecks
<1>4. CASE Serve(h)
  BY <1>4, ReplyType
     DEF Serve, Answers, Shape, PastGuard, PastPassword, PastSetup, PassesChecks
<1>5. CASE CreateAdmin(h)
  BY <1>5, GotoType
     DEF CreateAdmin, Steps, Shape, PastGuard, PastPassword, PastSetup, PassesChecks
<1>6. CASE AdminPasswordHash(h)
  BY <1>6, GotoType, ReplyType
     DEF AdminPasswordHash, Steps, Statements, Answers, Shape, PastGuard, PastPassword,
         PastSetup, PassesChecks
<1>7. CASE SetAdminPassword(h)
  BY <1>7, ReplyType
     DEF SetAdminPassword, Answers, Shape, PastGuard, PastPassword, PastSetup, PassesChecks
<1>8. CASE StartSession(h)
  <2>1. clock + SessionTTL \in 0..MaxClock + SessionTTL
    BY SessionTTLAssumption, AdminMaxClockAssumption DEF TypeOK
  <2>2. /\ calls'[h] \in CallRecords
        /\ calls'[h].pc = "CreateSession" /\ calls'[h].cookie = calls[h].cookie
        /\ calls'[h].op = calls[h].op /\ calls'[h].password = calls[h].password
        /\ \A g \in Handlers : g # h => calls'[g] = calls[g]
    BY <1>8, <2>1 DEF StartSession, TypeOK, CallRecords, Steps, Statements
  <2>3. calls' \in [Handlers -> CallRecords \cup {NoCall}]
    BY <1>8, <2>2 DEF StartSession, TypeOK
  <2> QED
    BY <1>8, <2>2, <2>3
       DEF StartSession, Shape, PastGuard, PastPassword, PastSetup, PassesChecks
<1>9. ASSUME NEW token \in Tokens, CreateSession(h, token)
      PROVE  /\ calls' \in [Handlers -> CallRecords \cup {NoCall}]
             /\ \A g \in Handlers : g # h => calls'[g] = calls[g]
             /\ PassesChecks(h)
  <2>1. /\ calls'[h] \in CallRecords
        /\ calls'[h].pc = "Respond" /\ calls'[h].answer = "home"
        /\ calls'[h].op = calls[h].op /\ calls'[h].password = calls[h].password
        /\ \A g \in Handlers : g # h => calls'[g] = calls[g]
    BY <1>9 DEF CreateSession, TypeOK, CallRecords, Steps, Answers
  <2>2. calls' \in [Handlers -> CallRecords \cup {NoCall}]
    BY <1>9, <2>1 DEF CreateSession, TypeOK
  <2> QED
    BY <1>9, <2>1, <2>2
       DEF CreateSession, Shape, PastGuard, PastPassword, PastSetup, PassesChecks
<1>10. CASE DeleteSession(h)
  BY <1>10, ReplyType
     DEF DeleteSession, Answers, Shape, PastGuard, PastPassword, PastSetup, PassesChecks
<1>11. CASE StatementFails(h)
  BY <1>11, ReplyType
     DEF StatementFails, Answers, Shape, PastGuard, PastPassword, PastSetup, PassesChecks
<1>12. CASE Respond(h)
  BY <1>12 DEF Respond, TypeOK
<1> QED
  BY <1>2, <1>3, <1>4, <1>5, <1>6, <1>7, <1>8, <1>9, <1>10, <1>11, <1>12 DEF Proceed

(* A request arrives.                                                      *)
LEMMA ReceiveFrame ==
  ASSUME TypeOK, NEW h \in Handlers, NEW op \in Ops, NEW p \in Passwords, NEW q \in Passwords,
         NEW c \in drawn \cup {NoCookie}, Receive(h, op, p, q, c)
  PROVE  /\ TypeOK'
         /\ UNCHANGED <<clock, admins, sessions, drawn>>
         /\ calls[h] = NoCall /\ calls'[h] # NoCall
         /\ calls'[h].pc = IF op = "logout" THEN "DeleteSession" ELSE "HasAdmin"
         /\ calls'[h].op = op /\ calls'[h].cookie = c
         /\ \A g \in Handlers : g # h => calls'[g] = calls[g]
<1>1. /\ calls'[h] \in CallRecords
      /\ calls'[h].pc = IF op = "logout" THEN "DeleteSession" ELSE "HasAdmin"
      /\ calls'[h].op = op /\ calls'[h].cookie = c
      /\ \A g \in Handlers : g # h => calls'[g] = calls[g]
      /\ UNCHANGED <<clock, admins, sessions, drawn>>
      /\ calls[h] = NoCall
  <2>1. 0 \in 0..MaxClock + SessionTTL
    BY SessionTTLAssumption, AdminMaxClockAssumption
  <2> QED
    BY <2>1 DEF Receive, TypeOK, CallRecords, Steps, Statements, Answers
<1>2. calls' \in [Handlers -> CallRecords \cup {NoCall}]
  BY <1>1 DEF Receive, TypeOK
<1>3. received' \in 0..MaxCalls
  BY AdminMaxCallsAssumption DEF Receive, TypeOK
<1> QED
  BY <1>1, <1>2, <1>3, AdminSentinelsAssumption DEF TypeOK

(* What the step of a request does to the tables.                          *)
LEMMA ProceedTables ==
  ASSUME TypeOK, NEW h \in Handlers, Proceed(h)
  PROVE  /\ admins' \in Seq(Passwords)
         /\ sessions' \in [Tokens -> 0..MaxClock + SessionTTL \cup {NoRow}]
         /\ drawn' \in SUBSET Tokens
         /\ \/ /\ UNCHANGED <<sessions, drawn>>
               /\ calls'[h] # NoCall => calls'[h].cookie = calls[h].cookie
            \/ \E token \in Tokens \ drawn :
                  /\ drawn' = drawn \cup {token} /\ calls'[h].cookie = token
                  /\ \A t \in Tokens : t # token => sessions'[t] = sessions[t]
            \/ /\ At(h, "DeleteSession") /\ drawn' = drawn
               /\ calls'[h].cookie = calls[h].cookie
               /\ \A t \in Tokens :
                     \/ sessions'[t] = sessions[t]
                     \/ sessions'[t] = NoRow /\ calls[h].cookie = t
<1>1. CASE /\ UNCHANGED <<admins, sessions, drawn>> /\ calls[h] # NoCall
           /\ \E pc \in Steps : Goto(h, pc)
  BY <1>1, GotoType DEF TypeOK
<1>2. CASE /\ UNCHANGED <<admins, sessions, drawn>> /\ calls[h] # NoCall
           /\ \E answer \in Answers : Reply(h, answer)
  BY <1>2, ReplyType DEF TypeOK
<1>3. CASE \/ HasAdmin(h) \/ ValidSession(h) \/ Serve(h) \/ AdminPasswordHash(h)
           \/ StatementFails(h)
  BY <1>1, <1>2, <1>3
     DEF HasAdmin, ValidSession, Serve, AdminPasswordHash, StatementFails, At, Steps, Statements,
         Answers
<1>4. CASE CreateAdmin(h)
  <2>1. calls[h] \in CallRecords /\ calls[h].password \in Passwords
    BY <1>4 DEF CreateAdmin, At, TypeOK, CallRecords
  <2>2. admins' \in Seq(Passwords)
    BY <1>4, <2>1 DEF CreateAdmin, TypeOK
  <2> QED
    BY <1>4, <2>2, GotoType DEF CreateAdmin, At, Steps, TypeOK
<1>5. CASE SetAdminPassword(h)
  <2>1. calls[h] \in CallRecords /\ calls[h].new \in Passwords
    BY <1>5 DEF SetAdminPassword, At, TypeOK, CallRecords
  <2>2. admins' \in Seq(Passwords)
    BY <1>5, <2>1 DEF SetAdminPassword, TypeOK, HasRow
  <2> QED
    BY <1>5, <2>2, ReplyType DEF SetAdminPassword, At, Answers, TypeOK
<1>6. CASE StartSession(h)
  BY <1>6 DEF StartSession, At, TypeOK, CallRecords
<1>7. ASSUME NEW token \in Tokens, CreateSession(h, token)
      PROVE  /\ admins' \in Seq(Passwords)
             /\ sessions' \in [Tokens -> 0..MaxClock + SessionTTL \cup {NoRow}]
             /\ drawn' \in SUBSET Tokens
             /\ token \notin drawn /\ drawn' = drawn \cup {token} /\ calls'[h].cookie = token
             /\ \A t \in Tokens : t # token => sessions'[t] = sessions[t]
  <2>1. calls[h] \in CallRecords /\ calls[h].expires \in 0..MaxClock + SessionTTL
    BY <1>7 DEF CreateSession, At, TypeOK, CallRecords
  <2>2. sessions' \in [Tokens -> 0..MaxClock + SessionTTL \cup {NoRow}]
    BY <1>7, <2>1 DEF CreateSession, TypeOK
  <2> QED
    BY <1>7, <2>1, <2>2 DEF CreateSession, TypeOK, CallRecords
<1>8. CASE DeleteSession(h)
  <2>1. calls[h] # NoCall /\ calls[h] \in CallRecords
    BY <1>8 DEF DeleteSession, At, TypeOK
  <2>2. calls'[h].cookie = calls[h].cookie
    BY <1>8, <2>1, ReplyType DEF DeleteSession, Answers
  <2>3. CASE calls[h].cookie = NoCookie
    BY <1>8, <2>2, <2>3 DEF DeleteSession, TypeOK
  <2>4. CASE calls[h].cookie # NoCookie
    BY <1>8, <2>2, <2>4 DEF DeleteSession, TypeOK
  <2> QED
    BY <2>3, <2>4
<1>9. CASE Respond(h)
  BY <1>9 DEF Respond, TypeOK
<1> QED
  BY <1>3, <1>4, <1>5, <1>6, <1>7, <1>8, <1>9 DEF Proceed

(* Every step keeps the types.                                             *)
LEMMA NextTypeOK ==
  ASSUME TypeOK, RequestsJustified, [Next]_vars
  PROVE  TypeOK'
<1>1. ASSUME NEW h \in Handlers, Proceed(h)
      PROVE  TypeOK'
  <2>1. /\ UNCHANGED <<clock, received>>
        /\ calls' \in [Handlers -> CallRecords \cup {NoCall}]
    BY <1>1, ProceedFrame DEF RequestsJustified, Justified
  <2> QED
    BY <1>1, <2>1, ProceedTables DEF TypeOK
<1>2. CASE Tick
  BY <1>2, AdminMaxClockAssumption DEF Tick, TypeOK
<1>3. CASE Crash
  BY <1>3 DEF Crash, TypeOK
<1>4. CASE UNCHANGED vars
  BY <1>4 DEF vars, TypeOK
<1> QED
  BY <1>1, <1>2, <1>3, <1>4, ReceiveFrame DEF Next

-----------------------------------------------------------------------------
(* The history is justified.                                               *)

(* What the record of a request that goes on says.                         *)
LEMMA RecordedFacts ==
  ASSUME Record, NEW h \in Handlers, calls[h] # NoCall, calls'[h] # NoCall
  PROVE  /\ \A fact \in seen[h] : fact \in seen'[h]
         /\ "ended" \in seen'[h] => "ended" \in seen[h]
         /\ ~HasRow' => "no_admin" \in seen'[h]
         /\ (Knows(calls[h].password))' => "knew" \in seen'[h]
         /\ (Live(calls[h].cookie))' => "live" \in seen'[h]
<1>1. seen'[h] = FactsNow(h)' \cup seen[h]
  BY DEF Record
<1>2. /\ "ended" \notin FactsNow(h)'
      /\ ~HasRow' => "no_admin" \in FactsNow(h)'
      /\ (Knows(calls[h].password))' => "knew" \in FactsNow(h)'
      /\ (Live(calls[h].cookie))' => "live" \in FactsNow(h)'
  BY DEF FactsNow
<1> QED
  BY <1>1, <1>2

(* What a request has lived through stays true of it.                      *)
LEMMA JustifiedKept ==
  ASSUME Record, NEW h \in Handlers, calls[h] # NoCall, calls'[h] = calls[h],
         Justified(calls[h], seen[h])
  PROVE  (Justified(calls[h], seen[h]))'
<1>1. ended \subseteq ended'
  BY DEF Record
<1> QED
  BY <1>1, RecordedFacts DEF Justified

(* A request passes a check only with the fact in its history.             *)
LEMMA JustifiedStep ==
  ASSUME TypeOK, TokensOnce, Record, NEW h \in Handlers, Justified(calls[h], seen[h]),
         calls[h] # NoCall, calls'[h] # NoCall, PassesChecks(h), UNCHANGED clock
  PROVE  (Justified(calls[h], seen[h]))'
<1>1. ended \subseteq ended'
  BY DEF Record
<1>2. /\ \A fact \in seen[h] : fact \in seen'[h]
      /\ "ended" \in seen'[h] => "ended" \in seen[h]
  BY RecordedFacts
<1>3. PastGuard(calls'[h]) => "live" \in seen'[h] /\ "ended" \notin seen'[h]
  <2>1. CASE PastGuard(calls[h])
    BY <1>2, <2>1 DEF Justified
  <2>2. CASE /\ calls[h].pc = "ValidSession" /\ Live(calls[h].cookie)
             /\ calls'[h].cookie = calls[h].cookie
             /\ UNCHANGED <<clock, sessions>>
    <3>1. (Live(calls[h].cookie))'
      BY <2>2 DEF Live
    <3>2. calls[h].cookie \notin ended
      BY <2>2 DEF Live, TokensOnce
    <3> QED
      BY <1>2, <2>2, <3>1, <3>2, RecordedFacts DEF Justified
  <2> QED
    BY <2>1, <2>2 DEF PassesChecks
<1>4. PastPassword(calls'[h]) => "knew" \in seen'[h]
  <2>1. CASE PastPassword(calls[h])
    BY <1>2, <2>1 DEF Justified
  <2>2. CASE Knows(calls[h].password) /\ UNCHANGED admins
    <3>1. (Knows(calls[h].password))'
      BY <2>2 DEF Knows, HasRow, PassesChecks
    <3> QED
      BY <3>1, RecordedFacts
  <2> QED
    BY <2>1, <2>2 DEF PassesChecks
<1>5. PastSetup(calls'[h]) => "no_admin" \in seen'[h]
  <2>1. CASE PastSetup(calls[h])
    BY <1>2, <2>1 DEF Justified
  <2>2. CASE ~HasRow /\ UNCHANGED admins
    BY <2>2, RecordedFacts DEF HasRow
  <2> QED
    BY <2>1, <2>2 DEF PassesChecks
<1>6. calls'[h].pc # "Respond" /\ "ended" \in seen'[h] => calls'[h].cookie \in ended'
  BY <1>1, <1>2 DEF Justified, PassesChecks
<1>7. Shape(calls'[h])
  BY DEF PassesChecks
<1> QED
  BY <1>3, <1>4, <1>5, <1>6, <1>7 DEF Justified

(* Every step keeps the requests justified.                                *)
LEMMA NextRequestsJustified ==
  ASSUME AdminIInv, HistoryNext
  PROVE  RequestsJustified'
<1> SUFFICES ASSUME NEW g \in Handlers, calls'[g] # NoCall
             PROVE  (Justified(calls[g], seen[g]))'
  BY DEF RequestsJustified
<1>1. TypeOK /\ TokensOnce /\ RequestsJustified /\ Next /\ Record
  BY DEF AdminIInv, HistoryTypeOK, HistoryNext
<1>2. CASE calls'[g] = calls[g]
  BY <1>1, <1>2, JustifiedKept DEF RequestsJustified
<1>3. ASSUME NEW h \in Handlers, NEW op \in Ops, NEW p \in Passwords, NEW q \in Passwords,
             NEW c \in drawn \cup {NoCookie}, Receive(h, op, p, q, c), g = h
      PROVE  (Justified(calls[g], seen[g]))'
  <2>1. /\ calls[g] = NoCall
        /\ calls'[g].pc = IF op = "logout" THEN "DeleteSession" ELSE "HasAdmin"
        /\ calls'[g].op = op
    BY <1>1, <1>3, ReceiveFrame
  <2>2. "ended" \in seen'[g] => calls'[g].cookie \in ended
    BY <1>1, <2>1 DEF Record, FactsNow, FactsBefore
  <2>3. ended \subseteq ended'
    BY <1>1 DEF Record
  <2> QED
    BY <2>1, <2>2, <2>3 DEF Justified, Shape, PastGuard, PastPassword, PastSetup
<1>4. ASSUME NEW h \in Handlers, Proceed(h), g = h
      PROVE  (Justified(calls[g], seen[g]))'
  <2>1. calls[g] # NoCall /\ PassesChecks(g) /\ UNCHANGED clock
    BY <1>1, <1>4, ProceedFrame DEF RequestsJustified, Justified
  <2> QED
    BY <1>1, <2>1, JustifiedStep DEF RequestsJustified
<1>5. ASSUME NEW h \in Handlers, g # h,
             \/ Proceed(h)
             \/ \E op \in Ops, p, q \in Passwords, c \in drawn \cup {NoCookie} :
                   Receive(h, op, p, q, c)
      PROVE  calls'[g] = calls[g]
  BY <1>1, <1>5, ProceedFrame, ReceiveFrame DEF RequestsJustified, Justified
<1>6. ~Crash
  BY DEF Crash
<1> QED
  BY <1>1, <1>2, <1>3, <1>4, <1>5, <1>6 DEF Next, Tick

(* Every step keeps the tokens drawn once.                                 *)
LEMMA NextTokensOnce ==
  ASSUME AdminIInv, HistoryNext
  PROVE  TokensOnce'
<1>1. TypeOK /\ TokensOnce /\ RequestsJustified /\ Next /\ Record
  BY DEF AdminIInv, HistoryTypeOK, HistoryNext
<1>2. ended' = ended \cup {t \in Tokens : sessions[t] # NoRow /\ sessions'[t] = NoRow}
  BY <1>1 DEF Record
<1>3. ended \subseteq Tokens /\ drawn \subseteq Tokens /\ NoCookie \notin Tokens
  BY <1>1, AdminSentinelsAssumption DEF AdminIInv, HistoryTypeOK, TypeOK
<1>4. ASSUME UNCHANGED <<sessions, drawn>>,
             \A g \in Handlers : calls'[g] # NoCall /\ calls'[g].cookie # NoCookie
                                   => calls'[g].cookie \in drawn
      PROVE  TokensOnce'
  BY <1>1, <1>2, <1>3, <1>4 DEF TokensOnce
<1>5. ASSUME NEW h \in Handlers, Proceed(h)
      PROVE  TokensOnce'
  <2>1. \A g \in Handlers : g # h => calls'[g] = calls[g]
    BY <1>1, <1>5, ProceedFrame DEF RequestsJustified, Justified
  <2>2. calls[h] # NoCall
    BY <1>1, <1>5, ProceedFrame DEF RequestsJustified, Justified
  <2>3. CASE /\ UNCHANGED <<sessions, drawn>>
             /\ calls'[h] # NoCall => calls'[h].cookie = calls[h].cookie
    BY <1>1, <1>4, <2>1, <2>2, <2>3 DEF TokensOnce
  <2>4. ASSUME NEW token \in Tokens \ drawn,
               drawn' = drawn \cup {token}, calls'[h].cookie = token,
               \A t \in Tokens : t # token => sessions'[t] = sessions[t]
        PROVE  TokensOnce'
    BY <1>1, <1>2, <1>3, <2>1, <2>4 DEF TokensOnce
  <2>5. CASE /\ drawn' = drawn /\ calls'[h].cookie = calls[h].cookie
             /\ \A t \in Tokens :
                   \/ sessions'[t] = sessions[t]
                   \/ sessions'[t] = NoRow /\ calls[h].cookie = t
    BY <1>1, <1>2, <1>3, <2>1, <2>2, <2>5 DEF TokensOnce
  <2> QED
    BY <1>1, <1>5, <2>3, <2>4, <2>5, ProceedTables
<1>6. ASSUME NEW h \in Handlers, NEW op \in Ops, NEW p \in Passwords, NEW q \in Passwords,
             NEW c \in drawn \cup {NoCookie}, Receive(h, op, p, q, c)
      PROVE  TokensOnce'
  <2>1. /\ UNCHANGED <<sessions, drawn>> /\ calls'[h].cookie = c
        /\ \A g \in Handlers : g # h => calls'[g] = calls[g]
    BY <1>1, <1>6, ReceiveFrame
  <2> QED
    BY <1>1, <1>4, <2>1 DEF TokensOnce
<1>7. CASE Tick
  BY <1>1, <1>4, <1>7 DEF Tick, TokensOnce
<1>8. CASE Crash
  BY <1>4, <1>8 DEF Crash
<1> QED
  BY <1>1, <1>5, <1>6, <1>7, <1>8 DEF Next

-----------------------------------------------------------------------------
(* The rows of the table admins.                                           *)

(* No more requests set up the dashboard than there are handlers.          *)
LEMMA SettingUpFinite ==
  /\ IsFiniteSet(SettingUp) /\ Cardinality(SettingUp) \in Nat
  /\ Cardinality(SettingUp) <= Cardinality(Handlers)
  /\ Cardinality(Handlers) \in Nat
<1>1. SettingUp \subseteq Handlers
  BY DEF SettingUp
<1> QED
  BY <1>1, AdminHandlersAssumption, FS_Subset, FS_CardinalityType

(* Every step keeps the bound: a setup begins only while there is no row,  *)
(* and every row takes the setup that inserts it out of the count.         *)
LEMMA NextAdminRowsBounded ==
  ASSUME TypeOK, RequestsJustified, AdminRowsBounded, [Next]_vars
  PROVE  AdminRowsBounded'
<1>1. /\ IsFiniteSet(SettingUp) /\ IsFiniteSet(SettingUp')
      /\ Cardinality(SettingUp) \in Nat /\ Cardinality(SettingUp') \in Nat
      /\ Cardinality(SettingUp') <= Cardinality(Handlers)
      /\ Cardinality(Handlers) \in Nat
  <2>1. SettingUp' \subseteq Handlers
    BY DEF SettingUp
  <2> QED
    BY <2>1, SettingUpFinite, AdminHandlersAssumption, FS_Subset, FS_CardinalityType
<1>2. Len(admins) \in Nat
  BY DEF TypeOK
<1>3. ASSUME Len(admins') = Len(admins), SettingUp' \subseteq SettingUp
      PROVE  AdminRowsBounded'
  <2>1. Cardinality(SettingUp') <= Cardinality(SettingUp)
    BY <1>1, <1>3, FS_Subset
  <2> QED
    BY <1>1, <1>2, <1>3, <2>1 DEF AdminRowsBounded
<1>4. ASSUME NEW h \in Handlers, HasAdmin(h)
      PROVE  AdminRowsBounded'
  <2>1. CASE HasRow
    <3>1. /\ calls'[h] # NoCall => calls'[h].pc # "CreateAdmin"
          /\ \A g \in Handlers : g # h => calls'[g] = calls[g]
      BY <1>4, <2>1, GotoType, ReplyType DEF HasAdmin, At, Steps, Statements, Answers
    <3> QED
      BY <1>3, <1>4, <3>1 DEF HasAdmin, SettingUp, At
  <2>2. CASE ~HasRow
    <3>1. Len(admins') = 0
      BY <1>4, <2>2 DEF HasAdmin, HasRow, TypeOK
    <3> QED
      BY <1>1, <3>1 DEF AdminRowsBounded
  <2> QED
    BY <2>1, <2>2
<1>5. ASSUME NEW h \in Handlers, CreateAdmin(h)
      PROVE  AdminRowsBounded'
  <2>1. /\ calls[h] \in CallRecords /\ h \in SettingUp
        /\ Len(admins') = Len(admins) + 1
    BY <1>5 DEF CreateAdmin, At, SettingUp, TypeOK, CallRecords
  <2>2. /\ calls'[h].pc = "StartSession"
        /\ \A g \in Handlers : g # h => calls'[g] = calls[g]
    BY <1>5, GotoType DEF CreateAdmin, At, Steps
  <2>3. SettingUp' \subseteq SettingUp \ {h}
    BY <2>2 DEF SettingUp, At
  <2>4. /\ IsFiniteSet(SettingUp \ {h})
        /\ Cardinality(SettingUp \ {h}) = Cardinality(SettingUp) - 1
    BY <1>1, <2>1, FS_RemoveElement
  <2>5. Cardinality(SettingUp') <= Cardinality(SettingUp) - 1
    BY <1>1, <2>3, <2>4, FS_Subset
  <2> QED
    BY <1>1, <1>2, <2>1, <2>5 DEF AdminRowsBounded
<1>6. ASSUME NEW h \in Handlers, SetAdminPassword(h)
      PROVE  AdminRowsBounded'
  <2>1. Len(admins') = Len(admins)
    BY <1>6 DEF SetAdminPassword, TypeOK, HasRow
  <2>2. /\ calls'[h].pc = "Respond"
        /\ \A g \in Handlers : g # h => calls'[g] = calls[g]
    BY <1>6, ReplyType DEF SetAdminPassword, At, Answers
  <2> QED
    BY <1>3, <2>1, <2>2 DEF SettingUp, At
<1>7. ASSUME NEW h \in Handlers,
             \/ ValidSession(h) \/ Serve(h) \/ AdminPasswordHash(h) \/ StartSession(h)
             \/ \E token \in Tokens : CreateSession(h, token)
             \/ DeleteSession(h) \/ StatementFails(h) \/ Respond(h)
      PROVE  AdminRowsBounded'
  <2>1. UNCHANGED admins
    BY <1>7 DEF ValidSession, Serve, AdminPasswordHash, StartSession, CreateSession,
       DeleteSession, StatementFails, Respond
  <2>2. /\ calls'[h] # NoCall => calls'[h].pc # "CreateAdmin"
        /\ \A g \in Handlers : g # h => calls'[g] = calls[g]
    <3>1. CASE ValidSession(h) \/ Serve(h) \/ AdminPasswordHash(h)
      BY <3>1, GotoType, ReplyType
         DEF ValidSession, Serve, AdminPasswordHash, At, Steps, Statements, Answers
    <3>2. CASE DeleteSession(h) \/ StatementFails(h)
      BY <3>2, ReplyType DEF DeleteSession, StatementFails, At, Answers
    <3>3. CASE \/ StartSession(h) \/ \E token \in Tokens : CreateSession(h, token)
      BY <3>3 DEF StartSession, CreateSession, At, TypeOK, CallRecords
    <3>4. CASE Respond(h)
      BY <3>4 DEF Respond, TypeOK
    <3> QED
      BY <1>7, <3>1, <3>2, <3>3, <3>4
  <2> QED
    BY <1>3, <2>1, <2>2 DEF SettingUp, At
<1>8. ASSUME NEW h \in Handlers, NEW op \in Ops, NEW p \in Passwords, NEW q \in Passwords,
             NEW c \in drawn \cup {NoCookie}, Receive(h, op, p, q, c)
      PROVE  AdminRowsBounded'
  BY <1>3, <1>8, ReceiveFrame DEF SettingUp, At
<1>9. CASE Tick \/ UNCHANGED vars
  BY <1>3, <1>9 DEF Tick, vars, SettingUp, At
<1>10. CASE Crash
  BY <1>3, <1>10 DEF Crash, SettingUp, At
<1> QED
  BY <1>4, <1>5, <1>6, <1>7, <1>8, <1>9, <1>10 DEF Next, Proceed

-----------------------------------------------------------------------------
(* The invariant holds in every state of every behaviour.                  *)

(* The first boot finds no row and no session.                             *)
LEMMA InitAdminIInv == HistoryInit => AdminIInv
<1> SUFFICES ASSUME HistoryInit PROVE AdminIInv
  OBVIOUS
<1>1. HistoryTypeOK
  <2>1. 0 \in 0..MaxClock /\ 0 \in 0..MaxCalls
    BY AdminMaxClockAssumption, AdminMaxCallsAssumption
  <2> QED
    BY <2>1 DEF HistoryInit, Init, HistoryTypeOK, TypeOK
<1>2. TokensOnce /\ RequestsJustified
  BY DEF HistoryInit, Init, TokensOnce, RequestsJustified
<1>3. AdminRowsBounded
  <2>1. Len(admins) = 0
    BY DEF HistoryInit, Init
  <2> QED
    BY <2>1, SettingUpFinite DEF AdminRowsBounded
<1> QED
  BY <1>1, <1>2, <1>3 DEF AdminIInv

(* Every step keeps the invariant.                                         *)
LEMMA NextAdminIInv == AdminIInv /\ [HistoryNext]_historyVars => AdminIInv'
<1> SUFFICES ASSUME AdminIInv, [HistoryNext]_historyVars PROVE AdminIInv'
  OBVIOUS
<1>1. CASE HistoryNext
  <2>1. TypeOK' /\ AdminRowsBounded'
    BY <1>1, NextTypeOK, NextAdminRowsBounded DEF AdminIInv, HistoryTypeOK, HistoryNext
  <2>2. HistoryTypeOK'
    <3>1. \A h \in Handlers : FactsNow(h)' \subseteq Facts
      BY DEF FactsNow, Facts
    <3>2. \A h \in Handlers : FactsBefore(h) \subseteq Facts
      BY DEF FactsBefore, Facts
    <3>3. seen' \in [Handlers -> SUBSET Facts]
      BY <1>1, <3>1, <3>2 DEF HistoryNext, Record, AdminIInv, HistoryTypeOK
    <3>4. ended' \in SUBSET Tokens
      BY <1>1 DEF HistoryNext, Record, AdminIInv, HistoryTypeOK
    <3> QED
      BY <2>1, <3>3, <3>4 DEF HistoryTypeOK
  <2> QED
    BY <1>1, <2>1, <2>2, NextTokensOnce, NextRequestsJustified DEF AdminIInv
<1>2. CASE UNCHANGED historyVars
  BY <1>2 DEF historyVars, vars, AdminIInv, HistoryTypeOK, TypeOK, TokensOnce,
     RequestsJustified, Justified, AdminRowsBounded, SettingUp, At
<1> QED
  BY <1>1, <1>2

(* The invariant holds in every state.                                     *)
LEMMA AdminInvariance == HistorySpec => []AdminIInv
  BY InitAdminIInv, NextAdminIInv, PTL DEF HistorySpec

-----------------------------------------------------------------------------
(* Theorems.                                                               *)

(* Type correctness: the tables admins and sessions and the requests have  *)
(* the types TypeOK gives them, and the history tells of nothing else.     *)
THEOREM AdminTypeCorrect == HistorySpec => []HistoryTypeOK
  BY AdminInvariance, PTL DEF AdminIInv

(* However many requests for the first-run setup overlap, no more rows of  *)
(* the table admins appear than the server worked on requests at one time  *)
(* (handleSetup, store.HasAdmin, store.CreateAdmin).                       *)
THEOREM SetupBounded == HistorySpec => []AdminRowsBounded
  BY AdminInvariance, PTL DEF AdminIInv

(* While requests come one at a time there is one admin account, as        *)
(* store.CreateAdmin says: the run second_admin shows that two overlapping *)
(* setups take this away (handleSetup).                                    *)
THEOREM SequentialAccount ==
  (\A g, h \in Handlers : g = h) => (HistorySpec => []SingleAdmin)
<1> SUFFICES ASSUME \A g, h \in Handlers : g = h
             PROVE  HistorySpec => []SingleAdmin
  OBVIOUS
<1>1. Cardinality(Handlers) = 1
  <2>1. PICK h \in Handlers : Handlers = {h}
    BY AdminHandlersAssumption
  <2> QED
    BY <2>1, FS_Singleton
<1>2. AdminIInv => SingleAdmin
  BY <1>1, SettingUpFinite DEF AdminIInv, HistoryTypeOK, TypeOK, AdminRowsBounded, SingleAdmin
<1> QED
  BY <1>2, AdminInvariance, PTL

(* The guard lets a request through only for a session that was live while *)
(* the request was worked on (requireAuth, store.ValidSession).            *)
THEOREM GuardHolds == HistorySpec => []GuardJustified
<1>1. AdminIInv => GuardJustified
  BY DEF AdminIInv, RequestsJustified, Justified, PastGuard, GuardJustified, Answered, At
<1> QED
  BY <1>1, AdminInvariance, PTL

(* A session ended by a logout opens nothing to a request that comes after *)
(* it, whatever overlaps (handleLogout, store.DeleteSession).              *)
THEOREM LogoutIsFinal == HistorySpec => []LogoutEnds
<1>1. AdminIInv => LogoutEnds
  BY DEF AdminIInv, RequestsJustified, Justified, PastGuard, LogoutEnds, Answered, At
<1> QED
  BY <1>1, AdminInvariance, PTL

(* A login and a change of the password succeed only with a password that  *)
(* was the account's during the request (handleLogin, handleChangePassword).*)
THEOREM PasswordHolds == HistorySpec => []PasswordJustified
<1>1. AdminIInv => PasswordJustified
  BY DEF AdminIInv, RequestsJustified, Justified, PastPassword, PasswordJustified, Answered, At
<1> QED
  BY <1>1, AdminInvariance, PTL

(* A setup succeeds only if there was no admin at some instant during the  *)
(* request (handleSetup).                                                  *)
THEOREM SetupHolds == HistorySpec => []SetupJustified
<1>1. AdminIInv => SetupJustified
  BY DEF AdminIInv, RequestsJustified, Justified, PastSetup, SetupJustified, Answered, At
<1> QED
  BY <1>1, AdminInvariance, PTL

(* The password of the account is replaced only by the UPDATE of a request *)
(* that was past the guard and knew the password then (store.              *)
(* SetAdminPassword).                                                      *)
THEOREM AccountPassesOn == HistorySpec => AccountChangesHands
<1> DEFINE A == HasRow /\ admins'[1] # admins[1] =>
                   \E h \in Handlers : /\ At(h, "SetAdminPassword")
                                       /\ {"knew", "live"} \subseteq seen[h]
<1>1. AdminIInv /\ [HistoryNext]_historyVars => [A]_historyVars
  <2> SUFFICES ASSUME AdminIInv, Next, HasRow, admins'[1] # admins[1]
               PROVE  \E h \in Handlers : /\ At(h, "SetAdminPassword")
                                          /\ {"knew", "live"} \subseteq seen[h]
    BY DEF HistoryNext
  <2>1. admins \in Seq(Passwords) /\ admins # <<>>
    BY DEF AdminIInv, HistoryTypeOK, TypeOK, HasRow
  <2>2. ASSUME NEW h \in Handlers, CreateAdmin(h)
        PROVE  admins'[1] = admins[1]
    <3>1. calls[h].password \in Passwords
      BY <2>2 DEF CreateAdmin, At, AdminIInv, HistoryTypeOK, TypeOK, CallRecords
    <3> QED
      BY <2>1, <2>2, <3>1 DEF CreateAdmin
  <2>3. PICK h \in Handlers : SetAdminPassword(h)
    BY <2>2 DEF Next, Proceed, Receive, HasAdmin, ValidSession, Serve, AdminPasswordHash,
       StartSession, CreateSession, DeleteSession, StatementFails, Respond, Tick, Crash
  <2>4. At(h, "SetAdminPassword")
    BY <2>3 DEF SetAdminPassword
  <2> QED
    BY <2>4 DEF AdminIInv, RequestsJustified, Justified, Shape, PastGuard, PastPassword, At
<1> QED
  BY <1>1, AdminInvariance, PTL DEF HistorySpec, AccountChangesHands
=============================================================================
