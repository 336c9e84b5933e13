---------------------------- MODULE WebhookProof ----------------------------
(* Theorems about Webhook and WebhookHistory, for any events, urls and     *)
(* secrets and any number of uses of the settings form.                    *)
EXTENDS WebhookHistory, TLAPS

-----------------------------------------------------------------------------
(* Type correctness and the rule of the two attempts.                      *)

(* Only a delivery that has failed once sleeps, and nothing is on the wire *)
(* that was not sent yet.                                                  *)
AttemptsInv ==
    /\ \A e \in Events : senders[e].pc = "Sleep" => senders[e].attempt = 1
    /\ \A e \in Events, n \in Attempts : <<e, n>> \in wire => n <= senders[e].attempt

RetryIInv ==
    /\ TypeOK
    /\ AttemptsInv
    /\ RetryRule

(* It holds initially.                                                     *)
LEMMA InitRetryIInv == Init => RetryIInv
<1> SUFFICES ASSUME Init PROVE RetryIInv
  OBVIOUS
<1>1. TypeOK
  BY MaxSavesAssumption DEF Init, TypeOK, URLValues, SecretValues, Saves, NoSave, Senders,
     SenderSteps, Attempts
<1>2. AttemptsInv /\ RetryRule
  BY DEF Init, AttemptsInv, RetryRule, Copies
<1> QED
  BY <1>1, <1>2 DEF RetryIInv

(* A step of one sender that leaves the form alone keeps the types.        *)
LEMMA SenderType ==
  ASSUME TypeOK, NEW e \in Events, NEW sender \in Senders,
         senders' = [senders EXCEPT ![e] = sender]
  PROVE  senders' \in [Events -> Senders]
  BY DEF TypeOK

(* The sender of an event moves on to another step.                        *)
LEMMA GotoSender ==
  ASSUME TypeOK, NEW e \in Events, NEW pc \in SenderSteps, Goto(e, pc)
  PROVE  /\ senders' \in [Events -> Senders]
         /\ senders'[e].pc = pc
         /\ senders'[e].attempt = senders[e].attempt
         /\ senders'[e].url = senders[e].url
         /\ senders'[e].secret = senders[e].secret
         /\ \A f \in Events : f # e => senders'[f] = senders[f]
  BY DEF TypeOK, Goto, Senders

(* What the goroutine of event e can do to its sender.                     *)
LEMMA AdvanceSender ==
  ASSUME TypeOK, AttemptsInv, NEW e \in Events, Advance(e)
  PROVE  /\ senders' \in [Events -> Senders]
         /\ \A f \in Events : f # e => senders'[f] = senders[f]
         /\ senders[e].pc \in {"GetURL", "GetSecret", "Send", "Waiting", "Sleep"}
         /\ senders'[e].pc # "Delivered"
         /\ senders'[e].attempt >= senders[e].attempt
         /\ senders'[e].pc = "Sleep" => senders'[e].attempt = 1
         /\ senders'[e].pc = "GivenUp" => senders'[e].attempt = 2
         /\ UNCHANGED <<url, secret, forms, saves, inbox>>
         /\ wire' \subseteq wire \cup {<<e, senders'[e].attempt>>}
<1>1. senders[e] \in Senders /\ senders[e].attempt \in {1, 2}
  BY DEF TypeOK, Senders, Attempts
<1> USE DEF SenderSteps, Ended
<1>2. CASE GetURL(e)
  <2>1. PICK found \in URLValues :
          senders' = [senders EXCEPT ![e].pc = "GetSecret", ![e].url = found]
    BY <1>2 DEF GetURL, TypeOK, URLValues
  <2>2. /\ senders'[e] \in Senders
        /\ senders'[e].pc = "GetSecret" /\ senders'[e].attempt = senders[e].attempt
        /\ \A f \in Events : f # e => senders'[f] = senders[f]
    BY <1>1, <2>1 DEF TypeOK, Senders
  <2>3. senders' \in [Events -> Senders]
    BY <2>1, <2>2 DEF TypeOK
  <2> QED
    BY <1>1, <1>2, <2>2, <2>3 DEF GetURL
<1>3. CASE GetSecret(e)
  <2>1. PICK found \in SecretValues :
          senders' = [senders EXCEPT ![e].pc = IF senders[e].url = NoURL
                                               THEN "Dropped" ELSE "Send",
                                     ![e].secret = found]
    BY <1>3 DEF GetSecret, TypeOK, SecretValues
  <2>2. /\ senders'[e] \in Senders
        /\ senders'[e].pc \in {"Dropped", "Send"}
        /\ senders'[e].attempt = senders[e].attempt
        /\ \A f \in Events : f # e => senders'[f] = senders[f]
    BY <1>1, <2>1 DEF TypeOK, Senders
  <2>3. senders' \in [Events -> Senders]
    BY <2>1, <2>2 DEF TypeOK
  <2> QED
    BY <1>1, <1>3, <2>2, <2>3 DEF GetSecret
<1>4. CASE Send(e)
  BY <1>1, <1>4, GotoSender DEF Send
<1>5. CASE Fail(e)
  BY <1>1, <1>5, GotoSender DEF Fail, AfterFailure
<1>6. CASE Wake(e)
  BY <1>1, <1>6 DEF Wake, TypeOK, Senders, Attempts, AttemptsInv
<1> QED
  BY <1>2, <1>3, <1>4, <1>5, <1>6 DEF Advance

(* What the endpoint's answer to an attempt can do to its sender.          *)
LEMMA AnsweredSender ==
  ASSUME TypeOK, NEW e \in Events, NEW n \in Attempts, NEW answer \in AnswersOfEndpoint,
         Answered(e, n, answer)
  PROVE  /\ senders' \in [Events -> Senders]
         /\ \A f \in Events : f # e => senders'[f] = senders[f]
         /\ senders'[e].attempt = senders[e].attempt
         /\ senders'[e].url = senders[e].url /\ senders'[e].secret = senders[e].secret
         /\ \/ senders'[e] = senders[e] /\ (Waits(e, n) => answer = "lost")
            \/ Waits(e, n) /\ answer = "accepted" /\ senders'[e].pc = "Delivered"
            \/ Waits(e, n) /\ answer = "refused" /\ senders'[e].pc = AfterFailure(e)
<1>1. CASE Waits(e, n) /\ answer # "lost"
  BY <1>1, GotoSender
     DEF Answered, AnswersOfEndpoint, AfterFailure, SenderSteps, Ended
<1>2. CASE ~(Waits(e, n) /\ answer # "lost")
  BY <1>2 DEF Answered, TypeOK
<1> QED
  BY <1>1, <1>2

(* One step keeps the types, the count of attempts and the rule.           *)
LEMMA NextRetryIInv ==
  ASSUME RetryIInv, [Next]_vars
  PROVE  RetryIInv'
<1> USE DEF RetryIInv
<1>1. ASSUME UNCHANGED <<senders, inbox>>, wire' \subseteq wire,
             /\ url' \in URLValues /\ secret' \in SecretValues
             /\ forms' \in [Forms -> Saves] /\ saves' \in 0..MaxSaves
      PROVE  RetryIInv'
  BY <1>1 DEF TypeOK, AttemptsInv, RetryRule, Copies
<1>2. CASE \/ \E f \in Forms, u \in URLValues, s \in SecretValues : StartSave(f, u, s)
           \/ \E f \in Forms : SetURL(f) \/ SetSecret(f) \/ SaveFails(f)
  <2>1. /\ url' \in URLValues /\ secret' \in SecretValues
        /\ forms' \in [Forms -> Saves] /\ saves' \in 0..MaxSaves
    BY <1>2, MaxSavesAssumption DEF StartSave, SetURL, SetSecret, SaveFails, NoSave, TypeOK, Saves,
       URLValues, SecretValues
  <2> QED
    BY <1>1, <1>2, <2>1 DEF StartSave, SetURL, SetSecret, SaveFails
<1>3. ASSUME NEW e \in Events, Notify(e)
      PROVE  RetryIInv'
  <2>1. /\ senders[e].pc = "Quiet"
        /\ UNCHANGED <<url, secret, forms, saves, wire, inbox>>
        /\ senders'[e].pc = "GetURL" /\ senders'[e].attempt = senders[e].attempt
        /\ \A f \in Events : f # e => senders'[f] = senders[f]
        /\ senders' \in [Events -> Senders]
    BY <1>3, GotoSender DEF Notify, SenderSteps
  <2> QED
    BY <2>1 DEF TypeOK, AttemptsInv, RetryRule, Copies
<1>4. ASSUME NEW e \in Events, Advance(e)
      PROVE  RetryIInv'
  <2>1. TypeOK'
    <3>1. senders' \in [Events -> Senders] /\ senders'[e].attempt \in Attempts
      BY <1>4, AdvanceSender DEF Senders
    <3>2. wire' \subseteq Events \X Attempts
      BY <1>4, <3>1, AdvanceSender DEF TypeOK
    <3> QED
      BY <1>4, <3>1, <3>2, AdvanceSender DEF TypeOK
  <2>2. AttemptsInv'
    BY <1>4, <2>1, AdvanceSender DEF AttemptsInv, TypeOK, Senders, Attempts
  <2>3. RetryRule'
    BY <1>4, AdvanceSender DEF RetryRule, Copies
  <2> QED
    BY <2>1, <2>2, <2>3
<1>5. ASSUME NEW e \in Events, NEW n \in Attempts, NEW answer \in AnswersOfEndpoint,
             Process(e, n, answer)
      PROVE  RetryIInv'
  <2> DEFINE new == [event |-> e, attempt |-> n,
                     url |-> senders[e].url, secret |-> senders[e].secret,
                     answer |-> IF Waits(e, n) THEN answer ELSE "lost"]
  <2>1. /\ <<e, n>> \in wire /\ wire' = wire \ {<<e, n>>}
        /\ inbox' = inbox \cup {new}
        /\ UNCHANGED <<url, secret, forms, saves>>
    BY <1>5 DEF Process
  <2>2. Answered(e, n, answer)
    BY <1>5 DEF Process
  <2>3. new \in Messages /\ new.event = e /\ new.attempt = n
    BY DEF Messages, TypeOK, Senders, AnswersOfEndpoint
  <2>4. new.answer = IF Waits(e, n) THEN answer ELSE "lost"
    OBVIOUS
  <2> HIDE DEF new
  <2>5. TypeOK'
    BY <2>1, <2>2, <2>3, AnsweredSender DEF TypeOK
  <2>6. senders[e].attempt \in {1, 2}
    BY DEF TypeOK, Senders, Attempts
  <2>7. AttemptsInv'
    BY <2>1, <2>2, <2>6, AnsweredSender DEF AttemptsInv, AfterFailure
  <2>8. RetryRule'
    <3> SUFFICES ASSUME NEW f \in Events
                 PROVE  /\ \A m \in Copies(f)' : m.answer = "accepted" =>
                               /\ senders'[f].pc = "Delivered"
                               /\ senders'[f].attempt = m.attempt
                               /\ \A k \in Attempts : k > m.attempt => <<f, k>> \notin wire'
                        /\ senders'[f].pc = "Delivered" =>
                               \E m \in Copies(f)' : m.answer = "accepted"
                        /\ senders'[f].pc = "GivenUp" => senders'[f].attempt = 2
      BY DEF RetryRule
    <3>1. /\ \A m \in Copies(f) : m.answer = "accepted" =>
                 /\ senders[f].pc = "Delivered"
                 /\ senders[f].attempt = m.attempt
                 /\ \A k \in Attempts : k > m.attempt => <<f, k>> \notin wire
          /\ senders[f].pc = "Delivered" => \E m \in Copies(f) : m.answer = "accepted"
          /\ senders[f].pc = "GivenUp" => senders[f].attempt = 2
          /\ senders[f].attempt \in {1, 2}
      BY DEF RetryRule, TypeOK, Senders, Attempts
    <3>2. CASE f # e
      <4>1. Copies(f)' = Copies(f) /\ senders'[f] = senders[f]
        BY <2>1, <2>2, <2>3, <3>2, AnsweredSender DEF Copies
      <4> QED
        BY <2>1, <3>1, <4>1
    <3>3. CASE f = e
      <4>1. Copies(f)' = Copies(f) \cup {new}
        BY <2>1, <2>3, <3>3 DEF Copies
      <4>2. CASE Waits(e, n) /\ answer = "accepted"
        <5>1. senders'[e].pc = "Delivered" /\ senders'[e].attempt = n
          BY <2>2, <4>2, AnsweredSender DEF Waits, AfterFailure
        <5>2. \A m \in Copies(f) : m.answer # "accepted"
          BY <3>1, <3>3, <4>2 DEF Waits
        <5>3. \A k \in Attempts : k > n => <<e, k>> \notin wire
          <6> SUFFICES ASSUME NEW k \in Attempts, k > n, <<e, k>> \in wire
                       PROVE  FALSE
            OBVIOUS
          <6>1. k <= n
            BY <4>2 DEF AttemptsInv, Waits
          <6> QED
            BY <6>1 DEF Attempts
        <5> QED
          BY <2>1, <2>3, <2>4, <3>3, <4>1, <4>2, <5>1, <5>2, <5>3
      <4>3. CASE ~(Waits(e, n) /\ answer = "accepted")
        <5>1. new.answer # "accepted"
          BY <2>4, <4>3
        <5>2. \/ senders'[e] = senders[e]
              \/ /\ senders[e].pc = "Waiting" /\ senders'[e].pc = AfterFailure(e)
                 /\ senders'[e].attempt = senders[e].attempt
          BY <2>2, <4>3, AnsweredSender DEF Waits
        <5> QED
          BY <2>1, <3>1, <3>3, <4>1, <5>1, <5>2 DEF AfterFailure
      <4> QED
        BY <4>2, <4>3
    <3> QED
      BY <3>2, <3>3
  <2> QED
    BY <2>5, <2>7, <2>8
<1>6. ASSUME NEW e \in Events, NEW n \in Attempts, Lose(e, n)
      PROVE  RetryIInv'
  BY <1>1, <1>6 DEF Lose, TypeOK
<1>7. CASE Crash
  <2>1. \A e \in Events :
          /\ senders'[e] \in Senders
          /\ senders'[e].attempt = senders[e].attempt
          /\ senders'[e].pc \in {senders[e].pc, "Lost"}
          /\ senders[e].pc \in {"Delivered", "GivenUp"} => senders'[e].pc = senders[e].pc
    BY <1>7 DEF Crash, TypeOK, Senders, SenderSteps, Ended
  <2>2. TypeOK'
    BY <1>7, <2>1 DEF Crash, TypeOK, Saves, NoSave, URLValues, SecretValues
  <2> QED
    BY <1>7, <2>1, <2>2 DEF Crash, AttemptsInv, RetryRule, Copies
<1>8. CASE UNCHANGED vars
  BY <1>1, <1>8 DEF vars, TypeOK
<1> QED
  BY <1>2, <1>3, <1>4, <1>5, <1>6, <1>7, <1>8 DEF Next

-----------------------------------------------------------------------------
(* What the history says of the settings a delivery works with.            *)

(* The rows hold what was submitted, and what was submitted together       *)
(* unless they are torn or between the two writes of a use; a use that has *)
(* had no company finds the url it wrote when it writes the secret.        *)
FormsInv ==
    /\ \A f \in lone : Busy = {f}
    /\ \A f \in Busy : PairOf(f) \in submitted
    /\ \E pair, other \in submitted : url = pair.url /\ secret = other.secret
    /\ ~torn => Busy \subseteq lone
    /\ ~torn /\ (\A f \in Forms : forms[f].pc # "SetSecret") => CurrentPair \in submitted
    /\ \A f \in lone : forms[f].pc = "SetSecret" => url = forms[f].url

(* An event that is not read amid a use has no use about, and rows that    *)
(* are not torn; the url already read was submitted, and is still that of  *)
(* the rows, or could not be read.                                         *)
ReadingInv ==
    \A e \in Events :
        /\ Reading(e) /\ ~amid[e] => ~torn /\ Busy = {}
        /\ senders[e].pc = "GetSecret" /\ senders[e].url # NoURL =>
              /\ \E pair \in submitted : pair.url = senders[e].url
              /\ ~amid[e] => senders[e].url = url

PairIInv ==
    /\ RetryIInv
    /\ HistoryTypeOK
    /\ FormsInv
    /\ ReadingInv
    /\ PairJustified

(* It holds initially.                                                     *)
LEMMA InitPairIInv == HistoryInit => PairIInv
<1> SUFFICES ASSUME HistoryInit PROVE PairIInv
  OBVIOUS
<1>1. RetryIInv
  BY InitRetryIInv DEF HistoryInit
<1>2. HistoryTypeOK
  <2>1. TypeOK
    BY <1>1 DEF RetryIInv
  <2>2. CurrentPair \in Pairs
    BY <2>1 DEF TypeOK, CurrentPair, Pairs
  <2>3. amid \in [Events -> BOOLEAN]
    BY DEF HistoryInit
  <2> QED
    BY <2>1, <2>2, <2>3 DEF HistoryInit, HistoryTypeOK
<1>3. FormsInv
  BY DEF HistoryInit, Init, FormsInv, Busy, NoSave, CurrentPair
<1>4. ReadingInv /\ PairJustified
  BY DEF HistoryInit, Init, ReadingInv, PairJustified, Reading, Delivering
<1> QED
  BY <1>1, <1>2, <1>3, <1>4 DEF PairIInv

(* What one step does to the settings form: nothing, start a use, write    *)
(* one of its rows, or end it, or all of them.                             *)
Alike(f) == \A g \in Forms : g # f => forms'[g] = forms[g]

Opens(f) ==
    /\ forms[f].pc = "Idle" /\ forms'[f].pc = "SetURL" /\ Alike(f)
    /\ UNCHANGED <<url, secret>>

WritesURL(f) ==
    /\ forms[f].pc = "SetURL" /\ forms'[f].pc = "SetSecret" /\ Alike(f)
    /\ forms'[f].url = forms[f].url /\ forms'[f].secret = forms[f].secret
    /\ url' = forms[f].url /\ secret' = secret

WritesSecret(f) ==
    /\ SetSecret(f)
    /\ forms[f].pc = "SetSecret" /\ forms'[f].pc = "Idle" /\ Alike(f)
    /\ url' = url /\ secret' = forms[f].secret

Breaks(f) ==
    /\ forms[f].pc # "Idle" /\ forms'[f].pc = "Idle" /\ Alike(f)
    /\ UNCHANGED <<url, secret>>

StopsAll ==
    /\ \A f \in Forms : forms'[f].pc = "Idle"
    /\ UNCHANGED <<url, secret>>

LEMMA FormSteps ==
  ASSUME TypeOK, [Next]_vars
  PROVE  \/ UNCHANGED <<url, secret, forms>>
         \/ StopsAll
         \/ \E f \in Forms : Opens(f) \/ WritesURL(f) \/ WritesSecret(f) \/ Breaks(f)
<1> USE DEF Alike
<1>1. ASSUME NEW f \in Forms, NEW u \in URLValues, NEW s \in SecretValues, StartSave(f, u, s)
      PROVE  Opens(f)
  BY <1>1 DEF StartSave, Opens, TypeOK
<1>2. ASSUME NEW f \in Forms, SetURL(f)
      PROVE  WritesURL(f)
  BY <1>2 DEF SetURL, WritesURL, TypeOK, Saves
<1>3. ASSUME NEW f \in Forms, SetSecret(f)
      PROVE  WritesSecret(f)
  BY <1>3 DEF SetSecret, WritesSecret, TypeOK, NoSave
<1>4. ASSUME NEW f \in Forms, SaveFails(f)
      PROVE  Breaks(f)
  BY <1>4 DEF SaveFails, Breaks, TypeOK, NoSave
<1>5. Crash => StopsAll
  BY DEF Crash, StopsAll, NoSave
<1> QED
  BY <1>1, <1>2, <1>3, <1>4, <1>5
     DEF Next, Notify, Advance, GetURL, GetSecret, Send, Fail, Wake, Process, Lose, vars

(* The step and its record keep what is said of the form.                  *)
LEMMA NextFormsInv ==
  ASSUME TypeOK, TypeOK', HistoryTypeOK, FormsInv, [Next]_vars, Record
  PROVE  FormsInv' /\ submitted \subseteq submitted' /\ submitted' \subseteq Pairs
<1>1. /\ \A f \in Forms : forms[f] \in Saves /\ forms'[f] \in Saves
      /\ submitted \subseteq Pairs
  BY DEF TypeOK, HistoryTypeOK
<1>2. /\ \A f \in Forms : f \in Busy <=> forms[f].pc # "Idle"
      /\ \A f \in Forms : f \in Busy' <=> forms'[f].pc # "Idle"
      /\ Busy \subseteq Forms /\ Busy' \subseteq Forms /\ lone \subseteq Forms
  BY DEF Busy, HistoryTypeOK
<1>3. /\ submitted' = submitted \cup {[url |-> forms'[f].url, secret |-> forms'[f].secret] :
                                          f \in Busy' \ Busy}
      /\ lone' = {f \in Forms : Busy' = {f} /\ (f \in Busy => f \in lone)}
      /\ torn' = IF \E f \in lone : SetSecret(f) THEN FALSE
                 ELSE torn \/ CutShort \/ ~(Busy' \subseteq lone')
  BY DEF Record
<1>4. submitted \subseteq submitted' /\ submitted' \subseteq Pairs
  BY <1>1, <1>2, <1>3 DEF Pairs, Saves
<1>5. \A f \in lone' : Busy' = {f}
  BY <1>3
<1>6. \A f \in Forms : PairOf(f)' = [url |-> forms'[f].url, secret |-> forms'[f].secret]
  BY DEF PairOf
<1>7. \A f \in Busy' : (f \notin Busy \/ PairOf(f)' = PairOf(f)) => PairOf(f)' \in submitted'
  BY <1>2, <1>3, <1>4, <1>6 DEF FormsInv
<1>8. CASE UNCHANGED <<url, secret, forms>>
  <2>1. Busy' = Busy /\ CurrentPair' = CurrentPair /\ (\A f \in Forms : PairOf(f)' = PairOf(f))
    BY <1>8 DEF Busy, CurrentPair, PairOf
  <2>2. lone' = lone /\ ~CutShort
    BY <1>2, <1>3, <2>1 DEF FormsInv, CutShort
  <2>3. \A f \in lone : ~SetSecret(f)
    <3> SUFFICES ASSUME NEW f \in lone, SetSecret(f) PROVE FALSE
      OBVIOUS
    <3>1. f \in Forms /\ forms[f].pc = "SetSecret" /\ forms'[f] = NoSave
      BY <1>2 DEF SetSecret, TypeOK
    <3> QED
      BY <1>8, <3>1 DEF NoSave
  <2> QED
    BY <1>2, <1>3, <1>4, <1>5, <1>7, <1>8, <2>1, <2>2, <2>3 DEF FormsInv
<1>9. ASSUME NEW f \in Forms, Opens(f)
      PROVE  FormsInv'
  <2>1. /\ Busy' = Busy \cup {f} /\ f \notin Busy /\ CurrentPair' = CurrentPair
        /\ \A g \in Busy : PairOf(g)' = PairOf(g)
    BY <1>2, <1>9 DEF Opens, Alike, CurrentPair, PairOf
  <2>2. /\ ~CutShort
        /\ \A g \in lone : ~SetSecret(g)
    BY <1>2, <1>9, <2>1 DEF CutShort, SetSecret, TypeOK, Opens, Alike, NoSave
  <2>3. ~torn' => ~torn /\ Busy' \subseteq lone'
    BY <1>3, <2>2
  <2>4. \A g \in lone' : g = f /\ forms'[g].pc = "SetURL"
    BY <1>3, <1>9, <2>1 DEF Opens
  <2>5. ~torn' => Busy' = {f}
    BY <1>5, <2>1, <2>3
  <2>6. ~torn' => \A g \in Forms : forms[g].pc # "SetSecret"
    BY <1>2, <1>9, <2>1, <2>5 DEF Opens
  <2>7. ~torn' => CurrentPair' \in submitted'
    BY <1>4, <2>1, <2>3, <2>6 DEF FormsInv
  <2>8. \E pair, other \in submitted' : url' = pair.url /\ secret' = other.secret
    BY <1>4, <1>9 DEF FormsInv, Opens
  <2> QED
    BY <1>5, <1>7, <2>1, <2>3, <2>4, <2>7, <2>8 DEF FormsInv
<1>10. ASSUME NEW f \in Forms, WritesURL(f)
       PROVE  FormsInv'
  <2>1. /\ Busy' = Busy /\ f \in Busy
        /\ \A g \in Busy : PairOf(g)' = PairOf(g)
    BY <1>2, <1>10 DEF WritesURL, Alike, PairOf
  <2>2. /\ ~CutShort /\ lone' = lone
        /\ \A g \in lone : ~SetSecret(g)
    BY <1>2, <1>3, <1>10, <2>1 DEF CutShort, SetSecret, TypeOK, WritesURL, Alike, NoSave, FormsInv
  <2>3. ~torn' => ~torn /\ Busy' \subseteq lone'
    BY <1>3, <2>2
  <2>4. \A g \in lone' : g = f /\ url' = forms'[g].url
    BY <1>5, <1>10, <2>1 DEF WritesURL
  <2>5. \E pair, other \in submitted' : url' = pair.url /\ secret' = other.secret
    <3>1. PairOf(f) \in submitted' /\ PairOf(f).url = url'
      BY <1>4, <1>10, <2>1 DEF FormsInv, WritesURL, PairOf
    <3> QED
      BY <1>4, <1>10, <3>1 DEF FormsInv, WritesURL
  <2> QED
    BY <1>5, <1>7, <1>10, <2>1, <2>3, <2>4, <2>5 DEF FormsInv, WritesURL
<1>11. ASSUME NEW f \in Forms, WritesSecret(f)
       PROVE  FormsInv'
  <2>1. /\ Busy' = Busy \ {f} /\ f \in Busy
        /\ \A g \in Busy' : PairOf(g)' = PairOf(g) /\ g \in Busy
    BY <1>2, <1>11 DEF WritesSecret, Alike, PairOf
  <2>2. lone' = {}
    BY <1>2, <1>3, <2>1 DEF FormsInv
  <2>3. /\ PairOf(f) \in submitted'
        /\ PairOf(f).secret = secret' /\ PairOf(f).url = forms[f].url
    BY <1>4, <1>11, <2>1 DEF FormsInv, WritesSecret, PairOf
  <2>4. \E pair, other \in submitted' : url' = pair.url /\ secret' = other.secret
    BY <1>4, <1>11, <2>3 DEF FormsInv, WritesSecret
  <2>5. CASE f \in lone
    <3>1. url' = forms[f].url /\ Busy' = {}
      BY <1>11, <2>1, <2>5 DEF FormsInv, WritesSecret
    <3>2. CurrentPair' = PairOf(f)
      BY <1>11, <3>1 DEF WritesSecret, CurrentPair, PairOf
    <3> QED
      BY <2>2, <2>3, <2>4, <3>1, <3>2 DEF FormsInv
  <2>6. CASE f \notin lone
    <3>1. torn
      BY <2>1, <2>6 DEF FormsInv
    <3>2. \A g \in lone : ~SetSecret(g)
      BY <1>2, <1>11, <2>1, <2>6 DEF FormsInv
    <3>3. torn'
      BY <1>3, <3>1, <3>2
    <3> QED
      BY <1>5, <1>7, <2>1, <2>2, <2>4, <3>3 DEF FormsInv
  <2> QED
    BY <2>5, <2>6
<1>12. ASSUME NEW f \in Forms, Breaks(f), ~WritesSecret(f)
       PROVE  FormsInv'
  <2>1. /\ Busy' = Busy \ {f} /\ f \in Busy /\ CurrentPair' = CurrentPair
        /\ \A g \in Busy' : PairOf(g)' = PairOf(g) /\ g \in Busy
    BY <1>2, <1>12 DEF Breaks, Alike, PairOf, CurrentPair
  <2>2. lone' = {}
    BY <1>2, <1>3, <2>1 DEF FormsInv
  <2>3. \A g \in lone : ~SetSecret(g)
    <3> SUFFICES ASSUME NEW g \in lone, SetSecret(g) PROVE FALSE
      OBVIOUS
    <3>1. g = f
      BY <2>1 DEF FormsInv
    <3> QED
      BY <1>12, <3>1 DEF SetSecret, Breaks, WritesSecret
  <2>4. ~torn' => ~torn /\ ~CutShort
    BY <1>3, <2>3
  <2>5. ~torn' => \A g \in Forms : forms[g].pc # "SetSecret"
    <3> SUFFICES ASSUME ~torn', NEW g \in Forms PROVE forms[g].pc # "SetSecret"
      OBVIOUS
    <3>1. Busy = {f}
      BY <2>1, <2>4 DEF FormsInv
    <3> QED
      BY <1>2, <2>1, <2>4, <3>1 DEF CutShort
  <2>6. ~torn' => CurrentPair' \in submitted'
    BY <1>4, <2>1, <2>4, <2>5 DEF FormsInv
  <2>7. ~torn' => Busy' \subseteq lone'
    BY <1>3, <2>3
  <2>8. \E pair, other \in submitted' : url' = pair.url /\ secret' = other.secret
    BY <1>4, <1>12 DEF FormsInv, Breaks
  <2> QED
    BY <1>5, <1>7, <2>1, <2>2, <2>6, <2>7, <2>8 DEF FormsInv
<1>13. CASE StopsAll
  <2>1. Busy' = {} /\ lone' = {} /\ CurrentPair' = CurrentPair
    BY <1>2, <1>3, <1>13 DEF StopsAll, CurrentPair
  <2>2. \E pair, other \in submitted' : url' = pair.url /\ secret' = other.secret
    BY <1>4, <1>13 DEF FormsInv, StopsAll
  <2>3. ~torn' /\ ~(\E f \in lone : SetSecret(f)) => CurrentPair' \in submitted'
    <3> SUFFICES ASSUME ~torn', ~(\E f \in lone : SetSecret(f))
                 PROVE  CurrentPair' \in submitted'
      OBVIOUS
    <3>1. ~torn /\ ~CutShort
      BY <1>3
    <3>2. \A g \in Forms : forms[g].pc # "SetSecret"
      BY <1>2, <2>1, <3>1 DEF CutShort
    <3> QED
      BY <1>4, <2>1, <3>1, <3>2 DEF FormsInv
  <2>4. ASSUME NEW f \in lone, SetSecret(f)
        PROVE  CurrentPair' \in submitted'
    <3>1. /\ f \in Busy /\ f \in Forms /\ url = forms[f].url
          /\ url' = url /\ secret' = forms[f].secret
      BY <1>2, <1>13, <2>4 DEF FormsInv, SetSecret
    <3>2. CurrentPair' = PairOf(f)
      BY <3>1 DEF CurrentPair, PairOf
    <3> QED
      BY <1>4, <3>1, <3>2 DEF FormsInv
  <2>5. ~torn' => CurrentPair' \in submitted'
    BY <2>3, <2>4
  <2> QED
    BY <1>4, <1>5, <1>7, <2>1, <2>2, <2>5 DEF FormsInv
<1> QED
  BY <1>4, <1>8, <1>9, <1>10, <1>11, <1>12, <1>13, FormSteps

(* What one step does to the sender of an event.                           *)
LEMMA EventStep ==
  ASSUME RetryIInv, [Next]_vars, NEW e \in Events
  PROVE  \/ senders'[e] = senders[e]
         \/ ~Reading(e)' /\ ~Delivering(e)'
         \/ ~Reading(e) /\ ~Delivering(e) /\ senders'[e].pc = "GetURL"
         \/ /\ senders[e].pc = "GetURL" /\ senders'[e].pc = "GetSecret"
            /\ senders'[e].url \in {url, NoURL}
            /\ UNCHANGED <<url, secret, forms>>
         \/ /\ senders[e].pc = "GetSecret" /\ senders'[e].pc = "Send"
            /\ senders[e].url # NoURL /\ senders'[e].url = senders[e].url
            /\ senders'[e].secret \in {secret, NoSecret}
            /\ UNCHANGED <<url, secret, forms>>
         \/ /\ Delivering(e) /\ Delivering(e)' /\ ~Reading(e)'
            /\ senders'[e].url = senders[e].url /\ senders'[e].secret = senders[e].secret
<1> USE DEF Reading, Delivering
<1>1. TypeOK /\ senders[e] \in Senders
  BY DEF RetryIInv, TypeOK
<1>2. CASE senders'[e] = senders[e]
  BY <1>2
<1>3. ASSUME NEW f \in Events, Notify(f)
      PROVE  \/ senders'[e] = senders[e]
             \/ ~Reading(e) /\ ~Delivering(e) /\ senders'[e].pc = "GetURL"
  BY <1>1, <1>3, GotoSender DEF Notify, SenderSteps
<1>4. CASE GetURL(e)
  <2>1. PICK found \in {url, NoURL} :
          senders' = [senders EXCEPT ![e].pc = "GetSecret", ![e].url = found]
    BY <1>4 DEF GetURL
  <2>2. senders'[e].pc = "GetSecret" /\ senders'[e].url = found
    BY <1>1, <2>1 DEF TypeOK, Senders
  <2> QED
    BY <1>4, <2>2 DEF GetURL
<1>5. CASE GetSecret(e)
  <2>1. PICK found \in {secret, NoSecret} :
          senders' = [senders EXCEPT ![e].pc = IF senders[e].url = NoURL
                                               THEN "Dropped" ELSE "Send",
                                     ![e].secret = found]
    BY <1>5 DEF GetSecret
  <2>2. /\ senders'[e].pc = IF senders[e].url = NoURL THEN "Dropped" ELSE "Send"
        /\ senders'[e].secret = found /\ senders'[e].url = senders[e].url
    BY <1>1, <2>1 DEF TypeOK, Senders
  <2> QED
    BY <1>5, <2>2 DEF GetSecret
<1>6. CASE Send(e)
  BY <1>1, <1>6, GotoSender DEF Send, SenderSteps
<1>7. CASE Fail(e)
  BY <1>1, <1>7, GotoSender DEF Fail, AfterFailure, SenderSteps, Ended
<1>8. CASE Wake(e)
  BY <1>1, <1>8 DEF Wake, TypeOK, Senders
<1>9. ASSUME NEW f \in Events, f # e, Advance(f)
      PROVE  senders'[e] = senders[e]
  BY <1>9, AdvanceSender DEF RetryIInv
<1>10. ASSUME NEW f \in Events, NEW n \in Attempts, NEW answer \in AnswersOfEndpoint,
              Process(f, n, answer)
       PROVE  \/ senders'[e] = senders[e]
              \/ ~Reading(e)' /\ ~Delivering(e)'
              \/ /\ Delivering(e) /\ Delivering(e)' /\ ~Reading(e)'
                 /\ senders'[e].url = senders[e].url /\ senders'[e].secret = senders[e].secret
  <2>1. Answered(f, n, answer)
    BY <1>10 DEF Process
  <2> QED
    BY <1>1, <2>1, AnsweredSender DEF Waits, AfterFailure
<1>11. CASE Crash
  BY <1>1, <1>11 DEF Crash, Ended, TypeOK, Senders
<1>12. CASE UNCHANGED senders
  BY <1>12
<1> QED
  BY <1>2, <1>3, <1>4, <1>5, <1>6, <1>7, <1>8, <1>9, <1>10, <1>11, <1>12
     DEF Next, Advance, StartSave, SetURL, SetSecret, SaveFails, Lose, vars

(* A step and its record keep what is said of the history.                 *)
LEMMA NextPairIInv ==
  ASSUME PairIInv, HistoryNext
  PROVE  PairIInv'
<1>1. Next /\ Record /\ RetryIInv /\ TypeOK /\ HistoryTypeOK /\ FormsInv
  BY DEF HistoryNext, PairIInv, RetryIInv
<1>2. RetryIInv'
  BY <1>1, NextRetryIInv
<1>3. FormsInv' /\ submitted \subseteq submitted' /\ submitted' \subseteq Pairs
  BY <1>1, <1>2, NextFormsInv DEF RetryIInv
<1>4. ASSUME NEW e \in Events
      PROVE  amid'[e] = (\/ Reading(e)' /\ (torn' \/ Busy' # {})
                         \/ (Reading(e)' \/ Delivering(e)') /\ amid[e])
  BY <1>1 DEF Record
<1>5. HistoryTypeOK'
  <2>1. amid' \in [Events -> BOOLEAN]
    BY <1>1 DEF Record, HistoryTypeOK
  <2>2. lone' \subseteq Forms /\ torn' \in BOOLEAN
    BY <1>1 DEF Record, HistoryTypeOK
  <2> QED
    BY <1>2, <1>3, <2>1, <2>2 DEF RetryIInv, HistoryTypeOK
<1>6. Busy = {} => UNCHANGED <<url, secret>>
  BY <1>1, FormSteps
     DEF Busy, StopsAll, Opens, WritesURL, WritesSecret, Breaks
<1>7. ASSUME NEW e \in Events
      PROVE  /\ Reading(e)' /\ ~amid'[e] => ~torn' /\ Busy' = {}
             /\ senders'[e].pc = "GetSecret" /\ senders'[e].url # NoURL =>
                   /\ \E pair \in submitted' : pair.url = senders'[e].url
                   /\ ~amid'[e] => senders'[e].url = url'
  <2>1. Reading(e)' /\ ~amid'[e] => ~torn' /\ Busy' = {} /\ ~amid[e]
    BY <1>4
  <2>2. ASSUME senders'[e].pc = "GetSecret", senders'[e].url # NoURL
        PROVE  /\ \E pair \in submitted' : pair.url = senders'[e].url
               /\ ~amid'[e] => senders'[e].url = url'
    <3>1. CASE senders'[e] = senders[e]
      <4>1. ~amid'[e] => Busy = {} /\ ~amid[e]
        BY <2>1, <2>2, <3>1 DEF Reading, PairIInv, ReadingInv
      <4> QED
        BY <1>3, <1>6, <2>2, <3>1, <4>1 DEF PairIInv, ReadingInv
    <3>2. CASE senders'[e].url \in {url, NoURL} /\ UNCHANGED <<url, secret, forms>>
      <4>1. \E pair \in submitted' : pair.url = url
        BY <1>1, <1>3 DEF FormsInv
      <4> QED
        BY <2>2, <3>2, <4>1
    <3> QED
      BY <1>1, <2>2, <3>1, <3>2, EventStep DEF Reading, Delivering
  <2> QED
    BY <2>1, <2>2
<1>8. ASSUME NEW e \in Events, Delivering(e)'
      PROVE  \E pair, other \in submitted' :
                /\ senders'[e].url = pair.url
                /\ senders'[e].secret \in {other.secret, NoSecret}
                /\ pair = other \/ amid'[e]
  <2>1. amid'[e] = amid[e]
    BY <1>4, <1>8 DEF Reading, Delivering, PairIInv, HistoryTypeOK
  <2>2. CASE /\ Delivering(e)
             /\ senders'[e].url = senders[e].url /\ senders'[e].secret = senders[e].secret
    BY <1>3, <2>1, <2>2 DEF PairIInv, PairJustified
  <2>3. CASE /\ senders[e].pc = "GetSecret"
             /\ senders[e].url # NoURL /\ senders'[e].url = senders[e].url
             /\ senders'[e].secret \in {secret, NoSecret}
    <3>1. CASE amid[e]
      <4>1. PICK pair \in submitted : pair.url = senders[e].url
        BY <2>3 DEF PairIInv, ReadingInv
      <4>2. PICK other \in submitted : other.secret = secret
        BY <1>1 DEF FormsInv
      <4> QED
        BY <1>3, <2>1, <2>3, <3>1, <4>1, <4>2
    <3>2. CASE ~amid[e]
      <4>1. ~torn /\ Busy = {} /\ senders[e].url = url
        BY <2>3, <3>2 DEF PairIInv, ReadingInv, Reading
      <4>2. CurrentPair \in submitted
        BY <1>1, <4>1 DEF FormsInv, Busy
      <4>3. CurrentPair.url = url /\ CurrentPair.secret = secret
        BY DEF CurrentPair
      <4> QED
        BY <1>3, <2>3, <4>1, <4>2, <4>3
    <3> QED
      BY <3>1, <3>2
  <2> QED
    BY <1>1, <1>8, <2>2, <2>3, EventStep DEF Reading, Delivering
<1>9. ReadingInv' /\ PairJustified'
  BY <1>7, <1>8 DEF ReadingInv, PairJustified
<1> QED
  BY <1>2, <1>3, <1>5, <1>9 DEF PairIInv

(* What is said of the history holds of every behaviour.                   *)
LEMMA PairInvariance == HistorySpec => []PairIInv
<1>1. PairIInv /\ [HistoryNext]_historyVars => PairIInv'
  <2>1. ASSUME PairIInv, UNCHANGED historyVars
        PROVE  PairIInv'
    <3>1. RetryIInv'
      BY <2>1, NextRetryIInv DEF PairIInv, historyVars
    <3> QED
      BY <2>1, <3>1 DEF PairIInv, HistoryTypeOK, RetryIInv, FormsInv, ReadingInv,
         PairJustified, Reading, Delivering, CurrentPair, PairOf, Busy, historyVars, vars
  <2> QED
    BY <2>1, NextPairIInv
<1> QED
  BY <1>1, InitPairIInv, PTL DEF HistorySpec

-----------------------------------------------------------------------------
(* The deliveries keep the promise to the vendor.                          *)

OnlyFor(e) == \A f \in Events : f # e => senders'[f] = senders[f]

Stays(e) == senders'[e].attempt = senders[e].attempt

(* What a step can do to senders, wire and inbox: nothing but losing       *)
(* requests; stop them all; move one sender on; send; wake up; or let one  *)
(* request arrive, with what the sender makes of the answer.               *)
LEMMA StepKinds ==
  ASSUME TypeOK, AttemptsInv, [Next]_vars
  PROVE  \/ UNCHANGED <<senders, inbox>> /\ wire' \subseteq wire
         \/ Crash
         \/ \E e \in Events :
               /\ OnlyFor(e) /\ Stays(e) /\ UNCHANGED <<wire, inbox>>
               /\ \/ senders[e].pc = "Quiet" /\ senders'[e].pc = "GetURL"
                  \/ senders[e].pc = "GetURL" /\ senders'[e].pc = "GetSecret"
                  \/ senders[e].pc = "GetSecret" /\ senders'[e].pc \in {"Dropped", "Send"}
                  \/ senders[e].pc = "Waiting" /\ senders'[e].pc = AfterFailure(e)
         \/ \E e \in Events :
               /\ OnlyFor(e) /\ Stays(e) /\ UNCHANGED inbox
               /\ wire' = wire \cup {<<e, senders[e].attempt>>}
               /\ senders[e].pc = "Send" /\ senders'[e].pc = "Waiting"
         \/ \E e \in Events :
               /\ OnlyFor(e) /\ UNCHANGED <<wire, inbox>>
               /\ senders[e].pc = "Sleep" /\ senders'[e].pc = "Send"
               /\ senders[e].attempt = 1 /\ senders'[e].attempt = 2
         \/ \E e \in Events, n \in Attempts, m \in Messages :
               /\ <<e, n>> \in wire /\ wire' = wire \ {<<e, n>>}
               /\ inbox' = inbox \cup {m} /\ m.event = e /\ m.attempt = n
               /\ OnlyFor(e) /\ Stays(e)
               /\ \/ senders'[e] = senders[e] /\ m.answer = "lost"
                  \/ /\ Waits(e, n) /\ m.answer = "accepted"
                     /\ senders'[e].pc = "Delivered"
                  \/ /\ Waits(e, n) /\ m.answer = "refused"
                     /\ senders'[e].pc = AfterFailure(e)
<1> USE DEF OnlyFor, Stays
<1>1. CASE \/ \E f \in Forms, u \in URLValues, s \in SecretValues : StartSave(f, u, s)
           \/ \E f \in Forms : SetURL(f) \/ SetSecret(f) \/ SaveFails(f)
           \/ UNCHANGED vars
           \/ \E e \in Events, n \in Attempts : Lose(e, n)
  <2>1. UNCHANGED <<senders, inbox>> /\ wire' \subseteq wire
    BY <1>1 DEF StartSave, SetURL, SetSecret, SaveFails, Lose, vars
  <2> QED
    BY <2>1
<1>2. CASE Crash
  BY <1>2
<1>3. ASSUME NEW e \in Events, Notify(e) \/ Fail(e)
      PROVE  /\ OnlyFor(e) /\ Stays(e) /\ UNCHANGED <<wire, inbox>>
             /\ \/ senders[e].pc = "Quiet" /\ senders'[e].pc = "GetURL"
                \/ senders[e].pc = "Waiting" /\ senders'[e].pc = AfterFailure(e)
  BY <1>3, GotoSender DEF Notify, Fail, AfterFailure, SenderSteps, Ended
<1>4. ASSUME NEW e \in Events, GetURL(e) \/ GetSecret(e)
      PROVE  /\ OnlyFor(e) /\ Stays(e) /\ UNCHANGED <<wire, inbox>>
             /\ \/ senders[e].pc = "GetURL" /\ senders'[e].pc = "GetSecret"
                \/ senders[e].pc = "GetSecret" /\ senders'[e].pc \in {"Dropped", "Send"}
  BY <1>4 DEF GetURL, GetSecret, TypeOK, Senders
<1>5. ASSUME NEW e \in Events, Send(e)
      PROVE  /\ OnlyFor(e) /\ Stays(e) /\ UNCHANGED inbox
             /\ wire' = wire \cup {<<e, senders[e].attempt>>}
             /\ senders[e].pc = "Send" /\ senders'[e].pc = "Waiting"
  BY <1>5, GotoSender DEF Send, SenderSteps
<1>6. ASSUME NEW e \in Events, Wake(e)
      PROVE  /\ OnlyFor(e) /\ UNCHANGED <<wire, inbox>>
             /\ senders[e].pc = "Sleep" /\ senders'[e].pc = "Send"
             /\ senders[e].attempt = 1 /\ senders'[e].attempt = 2
  BY <1>6 DEF Wake, TypeOK, Senders, Attempts, AttemptsInv
<1>7. ASSUME NEW e \in Events, NEW n \in Attempts, NEW answer \in AnswersOfEndpoint,
             Process(e, n, answer)
      PROVE  \E m \in Messages :
               /\ <<e, n>> \in wire /\ wire' = wire \ {<<e, n>>}
               /\ inbox' = inbox \cup {m} /\ m.event = e /\ m.attempt = n
               /\ OnlyFor(e) /\ Stays(e)
               /\ \/ senders'[e] = senders[e] /\ m.answer = "lost"
                  \/ /\ Waits(e, n) /\ m.answer = "accepted"
                     /\ senders'[e].pc = "Delivered"
                  \/ /\ Waits(e, n) /\ m.answer = "refused"
                     /\ senders'[e].pc = AfterFailure(e)
  <2> DEFINE m == [event |-> e, attempt |-> n,
                   url |-> senders[e].url, secret |-> senders[e].secret,
                   answer |-> IF Waits(e, n) THEN answer ELSE "lost"]
  <2>1. m \in Messages /\ m.event = e /\ m.attempt = n
    BY DEF Messages, TypeOK, Senders, AnswersOfEndpoint
  <2>2. m.answer = IF Waits(e, n) THEN answer ELSE "lost"
    OBVIOUS
  <2>3. /\ <<e, n>> \in wire /\ wire' = wire \ {<<e, n>>}
        /\ inbox' = inbox \cup {m} /\ Answered(e, n, answer)
    BY <1>7 DEF Process
  <2> HIDE DEF m
  <2>4. /\ OnlyFor(e) /\ Stays(e)
        /\ \/ senders'[e] = senders[e] /\ m.answer = "lost"
           \/ /\ Waits(e, n) /\ m.answer = "accepted"
              /\ senders'[e].pc = "Delivered"
           \/ /\ Waits(e, n) /\ m.answer = "refused"
              /\ senders'[e].pc = AfterFailure(e)
    BY <2>2, <2>3, AnsweredSender
  <2> QED
    BY <2>1, <2>3, <2>4
<1>8. CASE \E e \in Events : Notify(e) \/ Advance(e)
  <2>1. PICK e \in Events : Notify(e) \/ Advance(e)
    BY <1>8
  <2>2. CASE Notify(e) \/ GetURL(e) \/ GetSecret(e) \/ Fail(e)
    BY <1>3, <1>4, <2>2
  <2>3. CASE Send(e)
    BY <1>5, <2>3
  <2>4. CASE Wake(e)
    BY <1>6, <2>4
  <2> QED
    BY <2>1, <2>2, <2>3, <2>4 DEF Advance
<1>9. CASE \E e \in Events, n \in Attempts, answer \in AnswersOfEndpoint : Process(e, n, answer)
  <2>1. PICK e \in Events, n \in Attempts, answer \in AnswersOfEndpoint : Process(e, n, answer)
    BY <1>9
  <2> QED
    BY <1>7, <2>1
<1> QED
  BY <1>1, <1>2, <1>8, <1>9 DEF Next

(* No attempt of event e is made twice: what has arrived is on the wire no *)
(* more, what is about to be sent has not arrived and is not on it, and    *)
(* before the first attempt there is nothing at all.                       *)
Apart(e) ==
    /\ \A m \in Copies(e) : m.attempt <= senders[e].attempt /\ <<e, m.attempt>> \notin wire
    /\ senders[e].pc = "Send" =>
          /\ <<e, senders[e].attempt>> \notin wire
          /\ \A m \in Copies(e) : m.attempt # senders[e].attempt
    /\ senders[e].pc \in {"Quiet", "GetURL", "GetSecret", "Dropped"} =>
          /\ Copies(e) = {}
          /\ \A n \in Attempts : <<e, n>> \notin wire

DeliveryIInv ==
    /\ RetryIInv
    /\ \A e \in Events : Apart(e)

(* It holds initially.                                                     *)
LEMMA InitDeliveryIInv == Init => DeliveryIInv
  BY InitRetryIInv DEF DeliveryIInv, Init, Apart, Copies

(* One step keeps the attempts apart.                                      *)
LEMMA NextDeliveryIInv ==
  ASSUME DeliveryIInv, [Next]_vars
  PROVE  DeliveryIInv'
<1>1. TypeOK /\ AttemptsInv /\ RetryIInv'
  BY NextRetryIInv DEF DeliveryIInv, RetryIInv
<1> SUFFICES ASSUME NEW f \in Events
             PROVE  Apart(f)'
  BY <1>1 DEF DeliveryIInv
<1>2. /\ Apart(f) /\ senders[f] \in Senders /\ senders[f].attempt \in {1, 2}
      /\ \A m \in Copies(f) : m.attempt \in {1, 2}
      /\ \A n \in Attempts : <<f, n>> \in wire => n <= senders[f].attempt
  BY <1>1 DEF DeliveryIInv, TypeOK, AttemptsInv, Senders, Attempts, Copies, Messages
<1>3. ASSUME senders'[f] = senders[f], Copies(f)' = Copies(f),
             \A n \in Attempts : <<f, n>> \in wire' => <<f, n>> \in wire
      PROVE  Apart(f)'
  BY <1>2, <1>3 DEF Apart, Attempts
<1>4. CASE UNCHANGED <<senders, inbox>> /\ wire' \subseteq wire
  BY <1>3, <1>4 DEF Copies
<1>5. CASE Crash
  <2>1. /\ senders'[f].attempt = senders[f].attempt
        /\ senders'[f].pc = senders[f].pc \/ senders'[f].pc = "Lost"
        /\ Copies(f)' = Copies(f) /\ wire' = wire
    BY <1>1, <1>5 DEF Crash, Copies, TypeOK, Senders
  <2> QED
    BY <1>2, <2>1 DEF Apart
<1>6. ASSUME NEW e \in Events, OnlyFor(e), Stays(e), UNCHANGED <<wire, inbox>>,
             \/ senders[e].pc = "Quiet" /\ senders'[e].pc = "GetURL"
             \/ senders[e].pc = "GetURL" /\ senders'[e].pc = "GetSecret"
             \/ senders[e].pc = "GetSecret" /\ senders'[e].pc \in {"Dropped", "Send"}
             \/ senders[e].pc = "Waiting" /\ senders'[e].pc = AfterFailure(e)
      PROVE  Apart(f)'
  BY <1>2, <1>3, <1>6 DEF OnlyFor, Stays, Apart, Copies, AfterFailure, Attempts
<1>7. ASSUME NEW e \in Events, OnlyFor(e), Stays(e), UNCHANGED inbox,
             wire' = wire \cup {<<e, senders[e].attempt>>},
             senders[e].pc = "Send", senders'[e].pc = "Waiting"
      PROVE  Apart(f)'
  BY <1>2, <1>3, <1>7 DEF OnlyFor, Stays, Apart, Copies
<1>8. ASSUME NEW e \in Events, OnlyFor(e), UNCHANGED <<wire, inbox>>,
             senders[e].pc = "Sleep", senders'[e].pc = "Send",
             senders[e].attempt = 1, senders'[e].attempt = 2
      PROVE  Apart(f)'
  BY <1>2, <1>3, <1>8 DEF OnlyFor, Apart, Copies, Attempts
<1>9. ASSUME NEW e \in Events, NEW n \in Attempts, NEW m \in Messages,
             <<e, n>> \in wire, wire' = wire \ {<<e, n>>},
             inbox' = inbox \cup {m}, m.event = e, m.attempt = n,
             OnlyFor(e), Stays(e),
             \/ senders'[e] = senders[e]
             \/ Waits(e, n) /\ senders'[e].pc \in {"Delivered", AfterFailure(e)}
      PROVE  Apart(f)'
  <2>1. CASE f # e
    BY <1>3, <1>9, <2>1 DEF OnlyFor, Copies
  <2>2. CASE f = e
    <3>1. Copies(f)' = Copies(f) \cup {m}
      BY <1>9, <2>2 DEF Copies
    <3>2. senders'[f].pc \in {senders[f].pc, "Delivered", "Sleep", "GivenUp"}
      BY <1>9, <2>2 DEF AfterFailure
    <3> QED
      BY <1>2, <1>9, <2>2, <3>1, <3>2 DEF Apart, Stays
  <2> QED
    BY <2>1, <2>2
<1> QED
  BY <1>1, <1>4, <1>5, <1>6, <1>7, <1>8, <1>9, StepKinds

(* The expressions that stand for the variables of the promise.            *)
PromisedOutcome == [e \in Events |-> IF senders[e].pc \in Ended \cup {"Quiet"}
                                    THEN senders[e].pc ELSE "Pending"]
PromisedAttempt == [e \in Events |-> senders[e].attempt]
PromisedArrived == [e \in Events |-> {m.attempt : m \in Copies(e)}]
PromisedAcked == {e \in Events : \E m \in Copies(e) : m.answer = "accepted"}

(* Without a new arrival the endpoint's part of the promise stays, and so  *)
(* does the outcome of every event whose sender is still the same or still *)
(* at work.                                                                *)
LEMMA ArrivedStays ==
  ASSUME UNCHANGED inbox
  PROVE  PromisedArrived' = PromisedArrived /\ PromisedAcked' = PromisedAcked
  BY DEF PromisedArrived, PromisedAcked, Copies

(* The outcome, as the promise has it, when one sender moves on.           *)
LEMMA OutcomeMoves ==
  ASSUME NEW e \in Events, OnlyFor(e)
  PROVE  LET end == IF senders'[e].pc \in Ended \cup {"Quiet"}
                    THEN senders'[e].pc ELSE "Pending"
         IN  PromisedOutcome' = [PromisedOutcome EXCEPT ![e] = end]
  BY DEF PromisedOutcome, OnlyFor

(* An event of which only the outcome may change.                          *)
LEMMA AttemptStays ==
  ASSUME NEW e \in Events, OnlyFor(e), Stays(e)
  PROVE  PromisedAttempt' = PromisedAttempt
  BY DEF PromisedAttempt, OnlyFor, Stays

(* Moving one sender on is telling, dropping or giving up one event, or    *)
(* nothing the vendor could notice.                                        *)
LEMMA MovePromised ==
  ASSUME DeliveryIInv, NEW e \in Events, OnlyFor(e), Stays(e), UNCHANGED inbox,
         \/ senders[e].pc = "Quiet" /\ senders'[e].pc = "GetURL"
         \/ senders[e].pc = "GetURL" /\ senders'[e].pc = "GetSecret"
         \/ senders[e].pc = "GetSecret" /\ senders'[e].pc \in {"Dropped", "Send"}
         \/ senders[e].pc = "Waiting" /\ senders'[e].pc = AfterFailure(e)
         \/ senders[e].pc = "Send" /\ senders'[e].pc = "Waiting"
  PROVE  [Promise!Next]_(Promise!vars)
<1>1. /\ PromisedArrived' = PromisedArrived /\ PromisedAcked' = PromisedAcked
      /\ PromisedAttempt' = PromisedAttempt
  BY ArrivedStays, AttemptStays
<1>2. senders[e].attempt \in {1, 2} /\ Apart(e)
  BY DEF DeliveryIInv, RetryIInv, TypeOK, Senders, Attempts
<1> USE DEF PromisedOutcome, PromisedAttempt, PromisedArrived, PromisedAcked
<1>3. CASE senders[e].pc = "Quiet"
  <2>1. PromisedOutcome[e] = "Quiet" /\ PromisedOutcome' = [PromisedOutcome EXCEPT ![e] = "Pending"]
    BY <1>3, OutcomeMoves DEF Ended
  <2>2. Promise!Tell(e)
    BY <1>1, <2>1 DEF Promise!Tell
  <2> QED
    BY <2>2 DEF Promise!Next
<1>4. CASE senders'[e].pc = "Dropped"
  <2>1. /\ PromisedOutcome[e] = "Pending" /\ PromisedArrived[e] = {}
        /\ PromisedOutcome' = [PromisedOutcome EXCEPT ![e] = "Dropped"]
    BY <1>2, <1>4, OutcomeMoves DEF Ended, Apart, AfterFailure
  <2>2. Promise!Drop(e)
    BY <1>1, <2>1 DEF Promise!Drop, Promise!Ends
  <2> QED
    BY <2>2 DEF Promise!Next
<1>5. CASE senders'[e].pc = "GivenUp"
  <2>1. /\ PromisedOutcome[e] = "Pending" /\ PromisedAttempt[e] = 2
        /\ PromisedOutcome' = [PromisedOutcome EXCEPT ![e] = "GivenUp"]
    BY <1>2, <1>5, OutcomeMoves DEF Ended, AfterFailure
  <2>2. Promise!GiveUp(e)
    BY <1>1, <2>1 DEF Promise!GiveUp, Promise!Ends
  <2> QED
    BY <2>2 DEF Promise!Next
<1>6. CASE senders[e].pc # "Quiet" /\ senders'[e].pc \notin {"Dropped", "GivenUp"}
  <2>1. /\ PromisedOutcome[e] = "Pending"
        /\ PromisedOutcome' = [PromisedOutcome EXCEPT ![e] = "Pending"]
    BY <1>6, OutcomeMoves DEF Ended, AfterFailure
  <2>2. PromisedOutcome' = PromisedOutcome
    BY <2>1
  <2> QED
    BY <1>1, <2>2 DEF Promise!vars
<1> QED
  BY <1>3, <1>4, <1>5, <1>6

(* A request that arrives is a new attempt, and its acknowledgement ends   *)
(* the delivery.                                                           *)
LEMMA ArrivalPromised ==
  ASSUME DeliveryIInv, NEW e \in Events, NEW n \in Attempts, NEW m \in Messages,
         <<e, n>> \in wire, inbox' = inbox \cup {m}, m.event = e, m.attempt = n,
         OnlyFor(e), Stays(e),
         \/ senders'[e] = senders[e] /\ m.answer = "lost"
         \/ Waits(e, n) /\ m.answer = "accepted" /\ senders'[e].pc = "Delivered"
         \/ Waits(e, n) /\ m.answer = "refused" /\ senders'[e].pc = AfterFailure(e)
  PROVE  Promise!Arrive(e, n)
<1>0. /\ senders[e] \in Senders
      /\ Apart(e)
      /\ n <= senders[e].attempt
  BY DEF DeliveryIInv, RetryIInv, TypeOK, AttemptsInv
<1>1. /\ senders[e].attempt \in {1, 2} /\ n \in {1, 2} /\ Apart(e) /\ n <= senders[e].attempt
  BY <1>0 DEF Senders, Attempts
<1>2. /\ Copies(e)' = Copies(e) \cup {m}
      /\ \A f \in Events : f # e => Copies(f)' = Copies(f)
  BY DEF Copies
<1> USE DEF PromisedOutcome, PromisedAttempt, PromisedArrived, PromisedAcked
<1>3. /\ PromisedAttempt' = PromisedAttempt
      /\ PromisedAttempt[e] = senders[e].attempt
  BY AttemptStays
<1>4. /\ PromisedOutcome[e] \notin {"Quiet", "Dropped"}
      /\ n \notin PromisedArrived[e]
  BY <1>1 DEF Apart
<1>5. PromisedArrived' = [PromisedArrived EXCEPT ![e] = @ \cup {n}]
  BY <1>2
<1>6. PromisedAcked' = IF m.answer = "accepted" THEN PromisedAcked \cup {e} ELSE PromisedAcked
  BY <1>2
<1>7. \/ PromisedOutcome' = PromisedOutcome /\ PromisedAcked' = PromisedAcked
      \/ /\ n = PromisedAttempt[e] /\ PromisedOutcome[e] = "Pending"
         /\ PromisedOutcome' = [PromisedOutcome EXCEPT ![e] = "Delivered"]
         /\ PromisedAcked' = PromisedAcked \cup {e}
      \/ /\ n = 2 /\ PromisedOutcome[e] = "Pending"
         /\ PromisedOutcome' = [PromisedOutcome EXCEPT ![e] = "GivenUp"]
         /\ PromisedAcked' = PromisedAcked
  <2>1. CASE senders'[e] = senders[e] /\ m.answer = "lost"
    <3>1. \A f \in Events : senders'[f] = senders[f]
      BY <2>1 DEF OnlyFor
    <3>2. PromisedOutcome' = PromisedOutcome
      BY <3>1
    <3> QED
      BY <1>6, <2>1, <3>2
  <2>2. CASE Waits(e, n) /\ m.answer = "accepted" /\ senders'[e].pc = "Delivered"
    BY <1>3, <1>6, <2>2, OutcomeMoves DEF Waits, Ended
  <2>3. CASE Waits(e, n) /\ m.answer = "refused" /\ senders'[e].pc = AfterFailure(e)
    <3>1. PromisedOutcome[e] = "Pending" /\ n = senders[e].attempt
      BY <2>3 DEF Waits, Ended
    <3>2. CASE n < 2
      <4>1. PromisedOutcome' = [PromisedOutcome EXCEPT ![e] = "Pending"]
        BY <2>3, <3>1, <3>2, OutcomeMoves DEF AfterFailure, Ended
      <4>2. PromisedOutcome' = PromisedOutcome
        BY <3>1, <4>1
      <4> QED
        BY <1>6, <2>3, <4>2
    <3>3. CASE n = 2
      <4>1. PromisedOutcome' = [PromisedOutcome EXCEPT ![e] = "GivenUp"]
        BY <2>3, <3>1, <3>3, OutcomeMoves DEF AfterFailure, Ended
      <4> QED
        BY <1>6, <2>3, <3>1, <3>3, <4>1
    <3> QED
      BY <1>1, <3>2, <3>3
  <2> QED
    BY <2>1, <2>2, <2>3
<1> HIDE DEF PromisedOutcome, PromisedAttempt, PromisedArrived, PromisedAcked
<1>8. n <= PromisedAttempt[e]
  BY <1>1, <1>3
<1> QED
  BY <1>3, <1>4, <1>5, <1>7, <1>8
     DEF Promise!Arrive, Promise!Ends, PromisedOutcome, PromisedAttempt, PromisedArrived,
         PromisedAcked

(* Every step of the deliveries is one of the promise or leaves it alone.  *)
LEMMA StepImplementsDelivery ==
  DeliveryIInv /\ [Next]_vars => [Promise!Next]_(Promise!vars)
<1> SUFFICES ASSUME DeliveryIInv, [Next]_vars
             PROVE  [Promise!Next]_(Promise!vars)
  OBVIOUS
<1>1. TypeOK /\ AttemptsInv
  BY DEF DeliveryIInv, RetryIInv
<1> USE DEF PromisedOutcome, PromisedAttempt, PromisedArrived, PromisedAcked
<1>2. CASE UNCHANGED <<senders, inbox>>
  BY <1>2 DEF Promise!vars, Copies
<1>3. CASE Crash
  <2>1. /\ PromisedArrived' = PromisedArrived /\ PromisedAcked' = PromisedAcked
    BY <1>3, ArrivedStays DEF Crash
  <2>2. /\ PromisedAttempt' = PromisedAttempt
        /\ PromisedOutcome' = [e \in Events |-> IF PromisedOutcome[e] = "Pending"
                                                THEN "Lost" ELSE PromisedOutcome[e]]
    BY <1>1, <1>3 DEF Crash, TypeOK, Senders, Ended
  <2>3. Promise!Stop
    BY <2>1, <2>2 DEF Promise!Stop
  <2> QED
    BY <2>3 DEF Promise!Next
<1>4. ASSUME NEW e \in Events, OnlyFor(e), UNCHANGED <<wire, inbox>>,
             senders[e].pc = "Sleep", senders'[e].pc = "Send",
             senders[e].attempt = 1, senders'[e].attempt = 2
      PROVE  Promise!Retry(e)
  <2>1. /\ PromisedOutcome[e] = "Pending" /\ PromisedAttempt[e] = 1
        /\ PromisedOutcome' = [PromisedOutcome EXCEPT ![e] = "Pending"]
        /\ PromisedAttempt' = [PromisedAttempt EXCEPT ![e] = 2]
    BY <1>4, OutcomeMoves DEF Ended, OnlyFor
  <2>2. PromisedOutcome' = PromisedOutcome
    BY <2>1
  <2>3. PromisedArrived' = PromisedArrived /\ PromisedAcked' = PromisedAcked
    BY <1>4, ArrivedStays
  <2> QED
    BY <2>1, <2>2, <2>3 DEF Promise!Retry
<1>5. ASSUME NEW e \in Events, NEW n \in Attempts, NEW m \in Messages,
             <<e, n>> \in wire, inbox' = inbox \cup {m}, m.event = e, m.attempt = n,
             OnlyFor(e), Stays(e),
             \/ senders'[e] = senders[e] /\ m.answer = "lost"
             \/ Waits(e, n) /\ m.answer = "accepted" /\ senders'[e].pc = "Delivered"
             \/ Waits(e, n) /\ m.answer = "refused" /\ senders'[e].pc = AfterFailure(e)
      PROVE  Promise!Next
  BY <1>5, ArrivalPromised DEF Promise!Next, Attempts
<1> HIDE DEF PromisedOutcome, PromisedAttempt, PromisedArrived, PromisedAcked
<1>6. ASSUME NEW e \in Events, Promise!Retry(e)
      PROVE  Promise!Next
  BY <1>6 DEF Promise!Next
<1> QED
  BY <1>1, <1>2, <1>3, <1>4, <1>5, <1>6, MovePromised, StepKinds

(* The history adds nothing to what the deliveries do.                     *)
LEMMA HistoryForgets == HistorySpec => Spec
<1>1. HistoryInit => Init
  BY DEF HistoryInit
<1>2. [HistoryNext]_historyVars => [Next]_vars
  BY DEF HistoryNext, historyVars
<1> QED
  BY <1>1, <1>2, PTL DEF HistorySpec, Spec

-----------------------------------------------------------------------------
(* The theorems.                                                           *)

(* Type correctness of the sender, the form, the wire and the history.     *)
THEOREM WebhookTypeCorrect == HistorySpec => []HistoryTypeOK
  BY PairInvariance, PTL DEF PairIInv

(* For any events and however requests and answers are delayed or lost, no *)
(* acknowledged event is sent again and none is given up before a second   *)
(* attempt (Sender.deliver).                                               *)
THEOREM RetriesFollowTheRule == HistorySpec => []RetryRule
  BY PairInvariance, PTL DEF PairIInv, RetryIInv

(* Every attempt works with a url and a secret that one use of the form    *)
(* brought together, or an unread secret; and with those of two uses only  *)
(* if they were read amid a use, or after overlapping uses or one cut      *)
(* short, until a use without company has written both (the closure in     *)
(* main, handleWebhookSettings, which takes no lock).                      *)
THEOREM PairsAreJustified == HistorySpec => []PairJustified
  BY PairInvariance, PTL DEF PairIInv

(* What a vendor can expect of the deliveries is kept, for any events and  *)
(* any network: an event arrives at most once for each of two attempts, no *)
(* second attempt is made of an acknowledged event, and every event ends   *)
(* in one way (Sender.Notify, Sender.deliver).                             *)
THEOREM DeliveryImplemented == HistorySpec => ImplementsDelivery
<1>1. Init => Promise!Init
  BY DEF Init, Promise!Init, Copies, Ended
<1>2. DeliveryIInv /\ [Next]_vars => DeliveryIInv'
  BY NextDeliveryIInv
<1> QED
  BY <1>1, <1>2, HistoryForgets, InitDeliveryIInv, StepImplementsDelivery, PTL
     DEF Spec, ImplementsDelivery, Promise!Spec
=============================================================================
