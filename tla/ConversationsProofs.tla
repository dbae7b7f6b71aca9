------------------------ MODULE ConversationsProofs ------------------------
(***************************************************************************)
(* Sending, conversations and their members, reactions, subscriptions,     *)
(* receipts and lists keep what they promise for any users, calls, rows    *)
(* and failures: their inductive invariants, on their own and as parts of  *)
(* PartsSpec.                                                              *)
(***************************************************************************)
EXTENDS Sequences, MCConversations, MessageSendingProofs, FiniteSetTheorems, WellFoundedInduction

mcVars == <<part, vars, faults, conversationVars, listVars, receiptVars, reactionVars, subscriptionVars>>

(***************************************************************************)
(* Sending                                                                 *)
(***************************************************************************)
\* A step of the calls when nothing fails.
Counted(a, r) == IncrementUnread(a, r) /\ unread' = [unread EXCEPT ![r] = @ + 1]
CalmStep ==
    \/ \E a \in Attempt :
          \/ FindByClientId(a) \/ Insert(a) \/ InsertConflict(a) \/ TouchConversation(a)
          \/ \E s \in Stage : StageDone(a, s) \/ \E u \in User : SendTo(a, s, u)
          \/ Confirm(a) \/ CountDone(a) \/ PostMessage(a)
          \/ \E r \in Recipient : Counted(a, r)
    \/ Midnight

LEMMA CalmIsCalm == Calm!Next => CalmStep
<1> SUFFICES ASSUME Calm!Next PROVE CalmStep
  OBVIOUS
<1>1. Calm!Stage = Stage /\ Calm!User = User /\ Calm!none = none /\ Calm!Rows = Rows
  BY DEF Calm!Stage, Stage, Calm!User, User, Calm!none, none, Calm!sender, sender, Calm!Rows, Rows
<1>2. Calm!Audience = Audience /\ Calm!After = After /\ Calm!Latest = Latest
  BY <1>1 DEF Calm!Audience, Audience, Calm!ThreadAudience, ThreadAudience, Calm!After, After, Calm!Latest, Latest
<1>3. \A a, x, y, z : Calm!Goto(a, x, y, z) <=> Goto(a, x, y, z)
  BY DEF Calm!Goto, Goto
<1>4. CASE Calm!Midnight
  BY <1>4 DEF Calm!Midnight, Midnight, CalmStep
<1>5. ASSUME NEW a \in Attempt, Calm!Send(a) PROVE CalmStep
  <2>1. Calm!FindByClientId(a) => FindByClientId(a)
    BY <1>1, <1>2, <1>3 DEF Calm!FindByClientId, FindByClientId
  <2>2. Calm!Insert(a) => Insert(a)
    BY <1>3 DEF Calm!Insert, Insert
  <2>3. Calm!InsertConflict(a) => InsertConflict(a)
    BY <1>3 DEF Calm!InsertConflict, InsertConflict
  <2>4. Calm!TouchConversation(a) => TouchConversation(a)
    BY <1>2, <1>3 DEF Calm!TouchConversation, TouchConversation
  <2>5. \A s \in Stage : Calm!StageDone(a, s) => StageDone(a, s)
    BY <1>2, <1>3 DEF Calm!StageDone, StageDone
  <2>6. \A s \in Stage, u \in User : Calm!SendTo(a, s, u) => SendTo(a, s, u)
    BY DEF Calm!SendTo, SendTo
  <2>7. ~Calm!CallFails(a)
    BY DEF Calm!CallFails
  <2>8. (Calm!Confirm(a) => Confirm(a)) /\ (Calm!CountDone(a) => CountDone(a)) /\ (Calm!PostMessage(a) => PostMessage(a))
    BY <1>3 DEF Calm!Confirm, Confirm, Calm!CountDone, CountDone, Calm!PostMessage, PostMessage,
       Calm!CountFirst, CountFirst, Calm!AnswerPost, AnswerPost
  <2>9. \A r \in Recipient : Calm!IncrementUnread(a, r) => Counted(a, r)
    BY DEF Calm!IncrementUnread, IncrementUnread, Counted
  <2> QED BY <1>1, <1>5, <2>1, <2>2, <2>3, <2>4, <2>5, <2>6, <2>7, <2>8, <2>9 DEF Calm!Send, CalmStep
<1> QED BY <1>4, <1>5 DEF Calm!Next

LEMMA CalmIsAStep == CalmStep => Next
BY DEF CalmStep, Counted, Next, Send

\* On one date one row is stored, and it is what every call returns.
OneRowInADay ==
    /\ \A a \in Attempt : rowDay[a] <= today
    /\ today = 1 => /\ \A a, b \in Rows : a = b
                    /\ \A a \in Attempt : {result[a], confirmed[a]} \subseteq Rows \cup {none}

LEMMA OneRowStep == TypeOK /\ OneRowInADay /\ [Next]_vars => OneRowInADay'
<1> SUFFICES ASSUME TypeOK, OneRowInADay, [Next]_vars PROVE OneRowInADay'
  OBVIOUS
<1> USE DEF TypeOK, OneRowInADay, Rows
<1>1. ASSUME UNCHANGED <<today, rowDay>>,
             \A a \in Attempt : {result'[a], confirmed'[a]} \subseteq {result[a], confirmed[a], none} \cup Rows
      PROVE  OneRowInADay'
  BY <1>1
<1>2. ASSUME NEW a \in Attempt, FindByClientId(a) PROVE OneRowInADay'
  BY <1>1, <1>2 DEF FindByClientId, Latest
<1>3. ASSUME NEW a \in Attempt, Insert(a) PROVE OneRowInADay'
  <2>1. /\ rowDay' = [rowDay EXCEPT ![a] = today] /\ result' = [result EXCEPT ![a] = a] /\ UNCHANGED <<today, confirmed>>
        /\ \A b \in Attempt : rowDay[b] # today
    BY <1>3 DEF Insert
  <2>2. ASSUME today = 1 PROVE Rows = {} /\ Rows' = {a}
    <3>1. \A b \in Attempt : rowDay[b] \in Nat /\ rowDay[b] <= 1 /\ rowDay[b] # 1
      BY <2>1, <2>2, DaysAssumption
    <3>2. \A b \in Attempt : rowDay[b] = 0
      BY <3>1
    <3>3. \A b \in Attempt : rowDay'[b] = IF b = a THEN 1 ELSE rowDay[b]
      BY <2>1, <2>2
    <3> QED BY <3>2, <3>3
  <2>3. ASSUME NEW b \in Attempt PROVE rowDay'[b] <= today'
    BY <2>1, DaysAssumption
  <2> QED BY <2>1, <2>2, <2>3
<1>4. ASSUME NEW a \in Attempt, UNCHANGED <<today, rowDay, result, confirmed>> PROVE OneRowInADay'
  BY <1>1, <1>4
<1>5. ASSUME NEW a \in Attempt, Confirm(a) \/ CountDone(a) \/ PostMessage(a) PROVE OneRowInADay'
  BY <1>1, <1>5 DEF Confirm, CountDone, PostMessage, CountFirst, AnswerPost
<1>6. CASE Midnight
  BY <1>6 DEF Midnight
<1>7. CASE UNCHANGED vars
  BY <1>1, <1>7 DEF vars
<1> QED
  BY <1>2, <1>3, <1>4, <1>5, <1>6, <1>7
     DEF Next, Send, InsertConflict, TouchConversation, StageDone, SendTo, CallFails, IncrementUnread

\* What has been done for a row, and for a call that was confirmed, when nothing fails.
CalmInv ==
    /\ \A r \in Rows : result[r] = r /\ pc[r] \in Stage \cup {"touch", "confirm", "count", "done"}
    /\ \A r \in Rows, s \in Stage : \A u \in Audience[s] :
          s \in Ahead(pc[r]) \/ (pc[r] = s /\ u \in todo[r]) \/ sent[<<s, u, r>>] = 1
    /\ \A a \in Attempt : {result[a], confirmed[a]} \subseteq Rows \cup {none}
    /\ \A a \in Attempt : confirmed[a] # none => pc[a] \in {"count", "done"}
    /\ \A a \in Attempt : \A r \in Recipient :
          (pc[a] = "count" /\ r \notin todo[a]) \/ pc[a] = "done" => unread[r] >= 1

LEMMA CalmFacts == TypeOK /\ CalmInv => ConfirmedIsSent /\ ConfirmedIsCounted
<1> SUFFICES ASSUME TypeOK, CalmInv, Settled PROVE ConfirmedIsSent /\ ConfirmedIsCounted
  BY DEF ConfirmedIsSent, ConfirmedIsCounted
<1>1. ConfirmedIsSent
  <2> SUFFICES ASSUME NEW r \in Confirmed, NEW s \in Stage, NEW u \in Audience[s] PROVE sent[<<s, u, r>>] = 1
    BY DEF ConfirmedIsSent
  <2>1. r \in Rows
    BY DEF CalmInv, Confirmed
  <2>2. pc[r] = "done"
    BY <2>1 DEF CalmInv, Settled, Rows, Stage
  <2> QED BY <2>1, <2>2 DEF CalmInv, Ahead, Earlier, Stage
<1>2. ConfirmedIsCounted
  <2> SUFFICES ASSUME NEW a \in Attempt, confirmed[a] # none, NEW r \in Recipient PROVE unread[r] >= 1
    BY DEF ConfirmedIsCounted, Confirmed
  <2> QED BY DEF CalmInv, Settled
<1> QED BY <1>1, <1>2

LEMMA CalmInductive == TypeOK /\ SendInv /\ CalmInv /\ CalmStep => CalmInv'
<1> SUFFICES ASSUME TypeOK, SendInv, CalmInv, CalmStep PROVE CalmInv'
  OBVIOUS
(* A step that takes one call on, of a row to a stage that is still to be   *)
(* done for those it says, and stores and counts nothing.                   *)
<1>1. ASSUME NEW a \in Attempt, NEW to \in PC, NEW users \in SUBSET User,
             pc' = [pc EXCEPT ![a] = to], todo' = [todo EXCEPT ![a] = users],
             UNCHANGED <<rowDay, sent, unread>>,
             result'[a] \in {result[a]} \cup (IF rowDay[a] = 0 THEN Rows ELSE {}),
             confirmed'[a] \in {confirmed[a], result[a]},
             \A b \in Attempt \ {a} : result'[b] = result[b] /\ confirmed'[b] = confirmed[b],
             confirmed'[a] # none => to \in {"count", "done"},
             rowDay[a] # 0 => to \in Stage \cup {"touch", "confirm", "count", "done"},
             rowDay[a] # 0 => \A s \in Stage : \A u \in Audience[s] :
                 (s \in Ahead(pc[a]) \/ (pc[a] = s /\ u \in todo[a])) => (s \in Ahead(to) \/ (to = s /\ u \in users)),
             (to = "count" => users = Recipient),
             (to = "done" => pc[a] = "count" /\ todo[a] = {})
      PROVE  CalmInv'
  <2>0. Rows' = Rows
    BY <1>1 DEF Rows
  <2>1. /\ pc'[a] = to /\ todo'[a] = users
        /\ \A b \in Attempt \ {a} : pc'[b] = pc[b] /\ todo'[b] = todo[b] /\ result'[b] = result[b] /\ confirmed'[b] = confirmed[b]
    BY <1>1 DEF TypeOK
  <2>2. ASSUME NEW r \in Rows PROVE result'[r] = r /\ pc'[r] \in Stage \cup {"touch", "confirm", "count", "done"}
    BY <1>1, <2>1 DEF CalmInv, Rows
  <2>3. ASSUME NEW r \in Rows, NEW s \in Stage, NEW u \in Audience[s]
        PROVE  s \in Ahead(pc'[r]) \/ (pc'[r] = s /\ u \in todo'[r]) \/ sent'[<<s, u, r>>] = 1
    <3>1. s \in Ahead(pc[r]) \/ (pc[r] = s /\ u \in todo[r]) \/ sent[<<s, u, r>>] = 1
      BY DEF CalmInv
    <3>2. sent' = sent
      BY <1>1
    <3>3. CASE r = a
      <4>1. rowDay[a] # 0 /\ pc'[r] = to /\ todo'[r] = users
        BY <2>1, <3>3 DEF Rows
      <4>2. s \in Ahead(pc[a]) \/ (pc[a] = s /\ u \in todo[a]) => s \in Ahead(to) \/ (to = s /\ u \in users)
        BY <1>1, <4>1
      <4> QED BY <3>1, <3>2, <3>3, <4>1, <4>2
    <3>4. CASE r # a
      BY <2>1, <3>1, <3>2, <3>4 DEF Rows
    <3> QED BY <3>3, <3>4
  <2>4. ASSUME NEW b \in Attempt PROVE {result'[b], confirmed'[b]} \subseteq Rows \cup {none}
    BY <1>1, <2>1 DEF CalmInv
  <2>5. ASSUME NEW b \in Attempt, confirmed'[b] # none PROVE pc'[b] \in {"count", "done"}
    BY <1>1, <2>1, <2>5 DEF CalmInv
  <2>6. ASSUME NEW b \in Attempt, NEW r \in Recipient, (pc'[b] = "count" /\ r \notin todo'[b]) \/ pc'[b] = "done"
        PROVE  unread'[r] >= 1
    BY <1>1, <2>1, <2>6 DEF CalmInv
  <2> QED BY <2>0, <2>2, <2>3, <2>4, <2>5, <2>6 DEF CalmInv
<1>2. ASSUME NEW a \in Attempt, FindByClientId(a) PROVE CalmInv'
  <2>0. pc[a] = "find" /\ rowDay[a] = 0 /\ confirmed[a] = none
    BY <1>2 DEF FindByClientId, Goto, CalmInv, Rows, Stage
  <2>1. PICK to \in {"insert", "confirm"} : pc' = [pc EXCEPT ![a] = to] /\ todo' = [todo EXCEPT ![a] = {}]
    BY <1>2 DEF FindByClientId, Goto
  <2>2. /\ UNCHANGED <<rowDay, sent, unread, confirmed>> /\ result'[a] \in {result[a]} \cup Rows
        /\ \A b \in Attempt \ {a} : result'[b] = result[b]
    BY <1>2 DEF FindByClientId, Latest, TypeOK
  <2>3. to \in PC /\ to \notin {"count", "done"}
    BY <2>1 DEF PC
  <2>4. confirmed'[a] \in {confirmed[a], result[a]} /\ confirmed'[a] = none /\ {} \in SUBSET User
    BY <2>0, <2>2
  <2> QED BY <1>1, <2>0, <2>1, <2>2, <2>3, <2>4
(* Those that change neither what a call will return nor its confirmation.  *)
<1>3. ASSUME NEW a \in Attempt, NEW from, NEW to \in PC, NEW users \in SUBSET User, Goto(a, from, to, users),
             UNCHANGED <<rowDay, sent, unread, result>>,
             confirmed' = confirmed \/ (to \in {"count", "done"} /\ confirmed' = [confirmed EXCEPT ![a] = result[a]]),
             confirmed[a] # none => to \in {"count", "done"},
             rowDay[a] # 0 => to \in Stage \cup {"touch", "confirm", "count", "done"},
             rowDay[a] # 0 => \A s \in Stage : \A u \in Audience[s] :
                 (s \in Ahead(from) \/ (from = s /\ u \in todo[a])) => (s \in Ahead(to) \/ (to = s /\ u \in users)),
             (to = "count" => users = Recipient),
             (to = "done" => from = "count" /\ todo[a] = {})
      PROVE  CalmInv'
  <2>1. pc[a] = from /\ pc' = [pc EXCEPT ![a] = to] /\ todo' = [todo EXCEPT ![a] = users]
    BY <1>3 DEF Goto
  <2>2. /\ confirmed'[a] \in {confirmed[a], result[a]} /\ \A b \in Attempt \ {a} : result'[b] = result[b] /\ confirmed'[b] = confirmed[b]
        /\ result'[a] \in {result[a]} \cup (IF rowDay[a] = 0 THEN Rows ELSE {})
        /\ (confirmed'[a] # none => to \in {"count", "done"})
    BY <1>3 DEF TypeOK
  <2> QED BY <1>1, <1>3, <2>1, <2>2
<1>4. ASSUME NEW a \in Attempt, Insert(a) PROVE CalmInv'
  <2>1. /\ pc[a] = "insert" /\ pc' = [pc EXCEPT ![a] = "touch"] /\ todo' = [todo EXCEPT ![a] = {}]
        /\ rowDay' = [rowDay EXCEPT ![a] = today] /\ result' = [result EXCEPT ![a] = a] /\ today # 0
        /\ UNCHANGED <<sent, unread, confirmed>>
    BY <1>4, DaysAssumption DEF Insert, Goto, TypeOK
  <2>2. Rows' = Rows \cup {a} /\ a \notin Rows
    BY <2>1 DEF Rows, TypeOK, CalmInv, Stage
  <2>3. \A b \in Attempt \ {a} : pc'[b] = pc[b] /\ todo'[b] = todo[b] /\ result'[b] = result[b]
    BY <2>1 DEF TypeOK
  <2>4. pc'[a] = "touch" /\ todo'[a] = {} /\ result'[a] = a /\ "touch" \notin Stage /\ Ahead("touch") = Stage
    BY <2>1 DEF TypeOK, Ahead, Earlier, Stage
  <2>5. \A r \in Rows' : result'[r] = r /\ pc'[r] \in Stage \cup {"touch", "confirm", "count", "done"}
    BY <2>2, <2>3, <2>4 DEF CalmInv, Rows
  <2>6. ASSUME NEW r \in Rows', NEW s \in Stage, NEW u \in Audience[s]
        PROVE  s \in Ahead(pc'[r]) \/ (pc'[r] = s /\ u \in todo'[r]) \/ sent'[<<s, u, r>>] = 1
    <3>1. CASE r = a
      BY <2>4, <3>1
    <3>2. CASE r # a
      <4>1. r \in Rows /\ r \in Attempt \ {a}
        BY <2>2, <3>2 DEF Rows
      <4>2. s \in Ahead(pc[r]) \/ (pc[r] = s /\ u \in todo[r]) \/ sent[<<s, u, r>>] = 1
        BY <4>1 DEF CalmInv
      <4> QED BY <2>1, <2>3, <4>1, <4>2
    <3> QED BY <3>1, <3>2
  <2>7. \A b \in Attempt : {result'[b], confirmed'[b]} \subseteq Rows' \cup {none}
    BY <2>1, <2>2, <2>3, <2>4 DEF CalmInv
  <2>8. \A b \in Attempt : confirmed'[b] # none => pc'[b] \in {"count", "done"}
    BY <2>1, <2>3 DEF CalmInv
  <2>9. \A b \in Attempt : \A r \in Recipient : (pc'[b] = "count" /\ r \notin todo'[b]) \/ pc'[b] = "done" => unread'[r] >= 1
    BY <2>1, <2>3, <2>4 DEF CalmInv
  <2> QED BY <2>5, <2>6, <2>7, <2>8, <2>9 DEF CalmInv
<1>5. ASSUME NEW a \in Attempt, InsertConflict(a) PROVE CalmInv'
  <2>1. Goto(a, "insert", "failed", {}) /\ UNCHANGED <<rowDay, sent, unread, result, confirmed>> /\ rowDay[a] = 0 /\ confirmed[a] = none
    BY <1>5 DEF InsertConflict, Goto, CalmInv, Rows, Stage
  <2>2. "failed" \in PC /\ {} \in SUBSET User
    BY DEF PC
  <2> QED BY <1>3, <2>1, <2>2
<1>6. ASSUME NEW a \in Attempt, TouchConversation(a) PROVE CalmInv'
  <2>1. Goto(a, "touch", "message", Audience["message"]) /\ UNCHANGED <<rowDay, sent, unread, result, confirmed>> /\ confirmed[a] = none
    BY <1>6 DEF TouchConversation, Goto, CalmInv
  <2>2. "message" \in PC /\ "message" \in Stage /\ Audience["message"] \in SUBSET User
    BY StageFacts DEF PC, Stage
  <2>3. \A s \in Stage : \A u \in Audience[s] : s \in Ahead("message") \/ ("message" = s /\ u \in Audience["message"])
    BY DEF Ahead, Earlier, Stage
  <2> QED BY <1>3, <2>1, <2>2, <2>3
<1>7. ASSUME NEW a \in Attempt, NEW s \in Stage, StageDone(a, s) PROVE CalmInv'
  <2> DEFINE to == After[s]
             users == IF s = "mention" THEN {} ELSE Audience[After[s]]
  <2>1. Goto(a, s, to, users) /\ todo[a] = {} /\ UNCHANGED <<rowDay, sent, unread, result, confirmed>> /\ confirmed[a] = none
    BY <1>7 DEF StageDone, Goto, CalmInv, Stage
  <2>2. /\ to \in PC /\ to \notin {"count", "done"} /\ users \in SUBSET User
        /\ to \in Stage \cup {"touch", "confirm", "count", "done"}
        /\ \A t \in Stage : \A u \in Audience[t] : t \in Ahead(s) => t \in Ahead(to) \/ (to = t /\ u \in users)
    <3>1. CASE s = "message"
      <4>1. to = "thread" /\ users = Audience["thread"] /\ Audience["thread"] \in SUBSET User
        BY <3>1, StageFacts DEF Stage
      <4> HIDE DEF to, users
      <4> QED BY <3>1, <4>1 DEF PC, Stage, Ahead, Earlier
    <3>2. CASE s = "thread"
      <4>1. to = "mention" /\ users = Audience["mention"] /\ Audience["mention"] \in SUBSET User
        BY <3>2, StageFacts DEF Stage
      <4> HIDE DEF to, users
      <4> QED BY <3>2, <4>1 DEF PC, Stage, Ahead, Earlier
    <3>3. CASE s = "mention"
      <4>1. to = "confirm" /\ users = {}
        BY <3>3, StageFacts
      <4> HIDE DEF to, users
      <4> QED BY <3>3, <4>1 DEF PC, Stage, Ahead, Earlier
    <3> QED BY <3>1, <3>2, <3>3 DEF Stage
  <2> HIDE DEF to, users
  <2>3. \A t \in Stage : \A u \in Audience[t] :
           (t \in Ahead(s) \/ (s = t /\ u \in todo[a])) => (t \in Ahead(to) \/ (to = t /\ u \in users))
    BY <2>1, <2>2
  <2> QED BY <1>3, <2>1, <2>2, <2>3
<1>8. ASSUME NEW a \in Attempt, NEW s \in Stage, NEW u \in User, SendTo(a, s, u) PROVE CalmInv'
  <2>1. /\ pc[a] = s /\ u \in todo[a] /\ UNCHANGED <<rowDay, pc, result, unread, confirmed>>
        /\ todo' = [todo EXCEPT ![a] = @ \ {u}] /\ sent' = [sent EXCEPT ![<<s, u, result[a]>>] = @ + 1]
    BY <1>8 DEF SendTo
  <2>2. result[a] = a /\ sent[<<s, u, a>>] = 0
    BY <2>1 DEF SendInv, OwnRow, Unsent
  <2>3. sent' = [sent EXCEPT ![<<s, u, a>>] = 1]
    BY <2>1, <2>2
  <2>4. ASSUME NEW b \in Attempt, NEW t \in Stage, NEW v \in User
        PROVE  sent'[<<t, v, b>>] = IF t = s /\ v = u /\ b = a THEN 1 ELSE sent[<<t, v, b>>]
    BY <2>3 DEF TypeOK
  <2>5. /\ \A b \in Attempt \ {a} : todo'[b] = todo[b] 
        /\ todo'[a] = todo[a] \ {u} /\ Rows' = Rows /\ s \notin {"count", "done"}
    BY <2>1 DEF TypeOK, Rows, Stage
  <2>6. ASSUME NEW r \in Rows, NEW t \in Stage, NEW v \in Audience[t]
        PROVE  t \in Ahead(pc'[r]) \/ (pc'[r] = t /\ v \in todo'[r]) \/ sent'[<<t, v, r>>] = 1
    <3>1. r \in Attempt /\ v \in User
      BY StageFacts DEF Rows
    <3>2. t \in Ahead(pc[r]) \/ (pc[r] = t /\ v \in todo[r]) \/ sent[<<t, v, r>>] = 1
      BY DEF CalmInv
    <3>3. pc' = pc /\ (sent'[<<t, v, r>>] = IF t = s /\ v = u /\ r = a THEN 1 ELSE sent[<<t, v, r>>])
      BY <2>1, <2>4, <3>1
    <3> QED BY <2>1, <2>5, <3>1, <3>2, <3>3
  <2> QED BY <2>1, <2>5, <2>6 DEF CalmInv
<1>9. ASSUME NEW a \in Attempt, Confirm(a) \/ CountDone(a) \/ PostMessage(a) PROVE CalmInv'
  <2>1. PICK from \in {"confirm", "count"} : pc[a] = from
    BY <1>9 DEF Confirm, CountDone, PostMessage, CountFirst, AnswerPost, Goto
  <2> DEFINE to == IF from = "confirm" THEN "count" ELSE "done"
             users == IF from = "confirm" THEN Recipient ELSE {}
  <2>2. /\ Goto(a, from, to, users) /\ UNCHANGED <<rowDay, sent, unread, result>>
        /\ (confirmed' = confirmed \/ (to \in {"count", "done"} /\ confirmed' = [confirmed EXCEPT ![a] = result[a]]))
        /\ (to = "done" => from = "count" /\ todo[a] = {})
    BY <1>9, <2>1 DEF Confirm, CountDone, PostMessage, CountFirst, AnswerPost, Goto
  <2>3. to \in PC /\ to \in {"count", "done"} /\ users \in SUBSET User /\ (to = "count" => users = Recipient)
    BY StageFacts DEF PC
  <2>4. \A s \in Stage : s \notin Ahead(from) /\ from # s
    BY <2>1 DEF Ahead, Earlier, Stage
  <2> HIDE DEF to, users
  <2> QED BY <1>3, <2>2, <2>3, <2>4
<1>10. ASSUME NEW a \in Attempt, NEW q \in Recipient, Counted(a, q) PROVE CalmInv'
  <2>1. /\ pc[a] = "count" /\ todo' = [todo EXCEPT ![a] = @ \ {q}] /\ unread' = [unread EXCEPT ![q] = @ + 1]
        /\ UNCHANGED <<rowDay, pc, result, sent, confirmed>>
    BY <1>10 DEF Counted, IncrementUnread
  <2>2. /\ Rows' = Rows /\ \A b \in Attempt \ {a} : todo'[b] = todo[b]
        /\ todo'[a] = todo[a] \ {q} /\ unread'[q] >= 1 /\ \A r \in Recipient : unread'[r] >= unread[r]
        /\ \A r \in Recipient : unread[r] \in Nat /\ unread'[r] \in Nat
    BY <2>1 DEF TypeOK, Rows
  <2>3. \A r \in Rows, s \in Stage : \A u \in Audience[s] :
           s \in Ahead(pc'[r]) \/ (pc'[r] = s /\ u \in todo'[r]) \/ sent'[<<s, u, r>>] = 1
    BY <2>1, <2>2 DEF CalmInv, Rows, Stage
  <2>4. ASSUME NEW b \in Attempt, NEW r \in Recipient, (pc'[b] = "count" /\ r \notin todo'[b]) \/ pc'[b] = "done" PROVE unread'[r] >= 1
    <3>1. r = q \/ (pc[b] = "count" /\ r \notin todo[b]) \/ pc[b] = "done"
      BY <2>1, <2>2, <2>4
    <3> QED BY <2>2, <3>1 DEF CalmInv
  <2> QED BY <2>1, <2>2, <2>3, <2>4 DEF CalmInv
<1>11. CASE Midnight
  BY <1>11 DEF Midnight, CalmInv, Rows
<1> QED BY <1>2, <1>4, <1>5, <1>6, <1>7, <1>8, <1>9, <1>10, <1>11 DEF CalmStep

SendingHolds == TypeOK /\ SendInv /\ OneRowInADay /\ (faults = "none" => CalmInv)

LEMMA SendingAlwaysHolds == PartsSpec => []SendingHolds
<1>1. PartsInit => SendingHolds
  <2> SUFFICES ASSUME PartsInit PROVE SendingHolds
    OBVIOUS
  <2>1. Init /\ TypeOK
    BY TypeInit DEF PartsInit
  <2>2. SendInv
    BY <2>1 DEF Init, SendInv, OwnRow, Unsent, Fresh, Stage
  <2>3. OneRowInADay /\ CalmInv
    BY <2>1 DEF Init, OneRowInADay, CalmInv, Rows
  <2> QED BY <2>1, <2>2, <2>3 DEF SendingHolds
<1>2. SendingHolds /\ [PartsNext]_mcVars => SendingHolds'
  <2> SUFFICES ASSUME SendingHolds, [PartsNext]_mcVars PROVE SendingHolds'
    OBVIOUS
  <2>1. (faults' = faults /\ (IF faults = "none" THEN Calm!Next ELSE Next)) \/ UNCHANGED <<vars, faults>>
    BY DEF PartsNext, MCNext, mcVars
  <2>2. CASE UNCHANGED <<vars, faults>>
    <3>1. TypeOK' /\ SendInv' /\ OneRowInADay'
      BY <2>2, TypeStep, SendStep, OneRowStep DEF SendingHolds
    <3>2. CalmInv => CalmInv'
      BY <2>2 DEF vars, CalmInv, Rows
    <3> QED BY <2>2, <3>1, <3>2 DEF SendingHolds
  <2>3. CASE faults' = faults /\ (IF faults = "none" THEN Calm!Next ELSE Next)
    <3>1. Next /\ (faults = "none" => CalmStep)
      BY <2>3, CalmIsCalm, CalmIsAStep
    <3>2. TypeOK' /\ SendInv' /\ OneRowInADay'
      BY <3>1, TypeStep, SendStep, OneRowStep DEF SendingHolds
    <3>3. faults = "none" => CalmInv'
      BY <3>1, CalmInductive DEF SendingHolds
    <3> QED BY <2>3, <3>2, <3>3 DEF SendingHolds
  <2> QED BY <2>1, <2>2, <2>3
<1> QED BY <1>1, <1>2, PTL DEF PartsSpec, mcVars

\* handler.rs: whatever is retried at once and whatever fails, no event is sent to
\* anybody twice; and if nothing fails, a message confirmed to its sender has
\* reached everybody and counts as unread for each recipient.
THEOREM ConfirmedStaysComplete == PartsSpec => [](SentOnce /\ ConfirmedIsCompleteWhenCalm)
<1>1. SendingHolds => SentOnce
  BY DEF SendingHolds, TypeOK, SendInv, Fresh, SentOnce
<1>2. SendingHolds => ConfirmedIsCompleteWhenCalm
  BY CalmFacts DEF SendingHolds, ConfirmedIsCompleteWhenCalm, ConfirmedIsSentWhenCalm, ConfirmedIsCountedWhenCalm
<1> QED BY <1>1, <1>2, SendingAlwaysHolds, PTL

\* storage.rs: the unique index makes all calls of one date name one row to the
\* client, whichever of them fail or find the row of another.
THEOREM OneMessageInADay == PartsSpec => []SameMessageReturnedInADay
<1>1. ASSUME SendingHolds, today = 1 PROVE Cardinality(Confirmed) <= 1
  <2>1. Confirmed \subseteq Rows /\ \A a, b \in Rows : a = b
    BY <1>1 DEF SendingHolds, OneRowInADay, Confirmed
  <2>2. Confirmed = {} \/ \E r \in Rows : Confirmed = {r}
    BY <2>1
  <2>3. Cardinality({}) = 0 /\ \A r : Cardinality({r}) = 1
    BY FS_EmptySet, FS_Singleton
  <2> QED BY <2>2, <2>3
<1>2. SendingHolds => SameMessageReturnedInADay
  BY <1>1 DEF SameMessageReturnedInADay, SameMessageReturned
<1> QED BY <1>2, SendingAlwaysHolds, PTL

(***************************************************************************)
(* Conversations and their members                                         *)
(***************************************************************************)
LEMMA ConversationCardinality == ASSUME NEW S PROVE Conversation!Cardinality(S) = Cardinality(S)
BY DEF Conversation!Cardinality, Cardinality

ConversationRow == [kind : {"direct", "group"}, count : Nat]
MemberRow == [role : {"owner", "member"}, here : BOOLEAN, muted : BOOLEAN]
CreateCall ==
    {[pc |-> "idle"]} \cup
    [pc : {"find", "get", "insert", "register", "commit", "done"}, request : Asked,
     answer : Creates \cup {NoRow}, found : Creates \cup {NoRow}, own : BOOLEAN, unlinked : BOOLEAN,
     known : SUBSET Creates]
ChangeCall ==
    {[pc |-> "idle"]} \cup
    [pc : {"check", "look", "write", "count", "commit", "done"}, op : {"add", "remove", "mute", "unmute"},
     conv : Creates, user : Users, by : Users, count : Nat]

EraseCall ==
    {[pc |-> "idle"]} \cup
    [pc : {"lookups", "commit", "done"}, rows : SUBSET Creates, pairs : SUBSET (SUBSET Users)]

ConversationType ==
    /\ conversations \in [Creates -> ConversationRow \cup {NoRow}]
    /\ participants \in [Creates -> [Users -> MemberRow \cup {NoRow}]]
    /\ lookup \in [SUBSET Users -> Creates \cup {NoRow}]
    /\ create \in [Creates -> CreateCall]
    /\ change \in [Changes -> ChangeCall] /\ erase \in [Erased -> EraseCall]
    /\ raced \in BOOLEAN /\ uncounted \in [Creates -> SUBSET Users]

Exists(c) == conversations[c] # NoRow
Pair(c) == Conversation!All(create[c].request)
Alone(c) == Conversation!IsDirect(create[c].request)

\* A call that has not ended has no conversation yet; as long as the entry of its pair is
\* not deleted, none that knows of a direct conversation of the pair inserts one, and a
\* direct answer is in the lookup.
CallOk(c) ==
    LET x == create[c]
        linked == x.pc # "idle" /\ ~x.unlinked IN
    /\ Exists(c) => x.pc = "done"
    /\ x.pc \in {"find", "get"} => Alone(c)
    /\ x.pc \in {"find", "get", "insert", "register"} => ~x.own
    /\ x.pc = "get" => x.found # NoRow /\ (linked => x.found = lookup[Pair(c)])
    /\ linked /\ x.pc \in {"insert", "register", "commit"} => x.known = {}
    /\ linked /\ x.known # {} => lookup[Pair(c)] # NoRow
    /\ x.pc = "commit" /\ x.own => lookup[Pair(c)] = NoRow
    /\ linked /\ x.pc = "commit" /\ Alone(c) /\ ~x.own => lookup[Pair(c)] # NoRow
    /\ linked /\ x.pc = "done" /\ x.answer # NoRow =>
          /\ Alone(c) => lookup[Pair(c)] # NoRow
          /\ x.known # {} => x.answer = lookup[Pair(c)]

\* The entry of a pair is inserted by one open call.
Registering(c) == create[c].pc = "commit" /\ create[c].own
OneEntry == \A c, d \in Creates : Registering(c) /\ Registering(d) /\ Pair(c) = Pair(d) => c = d

\* A change is of a conversation that exists; a mute is one's own and of a row that is
\* there; what one transaction has counted it will find, unless two are open.
ChangeOk(k) ==
    LET x == change[k] IN
    x.pc # "idle" =>
        /\ Exists(x.conv)
        /\ x.op \in {"mute", "unmute"} => x.user = x.by
        /\ x.pc \in {"count", "commit"} => x.op \in {"add", "remove"}
        /\ x.pc = "write" /\ x.op \in {"mute", "unmute"} => participants[x.conv][x.user] # NoRow
        /\ ~raced /\ x.pc = "commit" => x.count = Cardinality(Conversation!Seen(k))

OneAtATime ==
    ~raced => \A j, k \in Changes :
        Conversation!InTransaction(j) /\ Conversation!InTransaction(k) /\ change[j].conv = change[k].conv => j = k

CountsOk ==
    ~raced => \A c \in Creates : Exists(c) =>
                 conversations[c].count = Cardinality(Conversation!Present(c) \cup uncounted[c])

\* What an erasure changes is locked: the user is there, and nobody else writes the row.
ErasureOk(u) ==
    Conversation!Erasing(u) =>
        /\ \A c \in erase[u].rows : u \in Conversation!Present(c)
        /\ \A k \in Changes : Conversation!InTransaction(k) /\ change[k].user = u => change[k].conv \notin erase[u].rows

NothingYet == \A c \in Creates : ~Exists(c) => Conversation!Present(c) = {} /\ uncounted[c] = {}

ConversationInv ==
    /\ ConversationType /\ Conversation!LookupIsSound
    /\ \A c \in Creates : CallOk(c)
    /\ \A k \in Changes : ChangeOk(k)
    /\ \A u \in Erased : ErasureOk(u)
    /\ OneEntry /\ OneAtATime /\ CountsOk /\ NothingYet

LEMMA RowsAreRows ==
    /\ NoRow \notin Creates /\ NoRow \notin ConversationRow /\ NoRow \notin MemberRow
    /\ \A r \in Asked : Conversation!All(r) \subseteq Users /\ r.by \in Users /\ r.kind \in {"direct", "group"}
BY ConversationAssumption DEF ConversationRow, MemberRow, Conversation!All

LEMMA ConversationInit == Conversation!Init => ConversationInv
<1> SUFFICES ASSUME Conversation!Init PROVE ConversationInv
  OBVIOUS
<1> USE DEF Conversation!Init, Conversation!Idle
<1>1. ConversationType
  BY DEF ConversationType, CreateCall, ChangeCall, EraseCall
<1>2. Conversation!LookupIsSound
  BY DEF Conversation!LookupIsSound
<1>3. (\A c \in Creates : CallOk(c)) /\ OneEntry
  BY DEF CallOk, Exists, OneEntry, Registering
<1>4. (\A k \in Changes : ChangeOk(k)) /\ (\A u \in Erased : ErasureOk(u)) /\ OneAtATime /\ CountsOk
  BY DEF ChangeOk, ErasureOk, OneAtATime, CountsOk, Exists, Conversation!InTransaction, Conversation!Erasing
<1>5. NothingYet
  BY DEF NothingYet, Conversation!Present
<1> QED BY <1>1, <1>2, <1>3, <1>4, <1>5 DEF ConversationInv

LEMMA ConversationFacts == ConversationInv => Conversation!TypeOK /\ Conversation!ConversationsAgree
<1> SUFFICES ASSUME ConversationInv PROVE Conversation!TypeOK /\ Conversation!ConversationsAgree
  OBVIOUS
<1> USE DEF ConversationInv
<1>1. Conversation!TypeOK
  <2>1. /\ DOMAIN conversations = Creates
        /\ \A c \in Creates : conversations[c] # NoRow =>
              conversations[c].kind \in {"direct", "group"} /\ conversations[c].count \in Nat
    BY DEF ConversationType, ConversationRow
  <2>2. \A p \in DOMAIN lookup : p \subseteq Users /\ lookup[p] \in Creates \cup {NoRow}
    BY DEF ConversationType
  <2>3. \A u \in Erased : erase[u].pc # "idle" => erase[u].rows \subseteq Creates /\ erase[u].pairs \subseteq DOMAIN lookup
    BY DEF ConversationType, EraseCall
  <2> QED BY <2>1, <2>2, <2>3 DEF ConversationType, MemberRow, Conversation!TypeOK
<1>2. Conversation!CountIsRightInTurns
  BY ConversationCardinality DEF CountsOk, Exists, Conversation!CountIsRightInTurns
<1>3. Conversation!LaterCallsAgree
  <2> SUFFICES ASSUME NEW c \in Creates, create[c].pc = "done", create[c].answer # NoRow, create[c].known # {}, ~create[c].unlinked
               PROVE  create[c].answer = lookup[Pair(c)]
    BY DEF Conversation!LaterCallsAgree, Conversation!At, Pair
  <2> QED BY DEF CallOk
<1> QED BY <1>1, <1>2, <1>3 DEF Conversation!ConversationsAgree, Conversation!RowsAgree

\* A step that only takes creation c further.
LEMMA CallOnly ==
    ASSUME ConversationInv, NEW c \in Creates, NEW x \in CreateCall, create' = [create EXCEPT ![c] = x],
           UNCHANGED <<conversations, participants, lookup, change, erase, raced, uncounted>>, CallOk(c)',
           x.pc = "commit" /\ x.own => \A d \in Creates \ {c} : Registering(d) => Pair(d) # Conversation!All(x.request)
    PROVE  ConversationInv'
<1>1. ConversationType'
  BY DEF ConversationInv, ConversationType
<1>2. \A d \in Creates \ {c} : create'[d] = create[d]
  BY DEF ConversationInv, ConversationType
<1>3. ASSUME NEW d \in Creates PROVE CallOk(d)'
  <2>1. CASE d = c
    BY <2>1
  <2>2. CASE d # c
    BY <1>2, <2>2 DEF ConversationInv, CallOk, Exists, Pair, Alone
  <2> QED BY <2>1, <2>2
<1>4. Conversation!LookupIsSound'
  BY DEF ConversationInv, Conversation!LookupIsSound
<1>5. \A k \in Changes : ChangeOk(k)'
  BY DEF ConversationInv, ChangeOk, Exists, Conversation!Seen, Conversation!Present
<1>6. OneAtATime' /\ CountsOk'
  BY DEF ConversationInv, OneAtATime, CountsOk, Exists, Conversation!InTransaction, Conversation!Present
<1>7. \A u \in Erased : ErasureOk(u)'
  BY DEF ConversationInv, ErasureOk, Conversation!Erasing, Conversation!InTransaction, Conversation!Present
<1>8. OneEntry'
  <2>1. create'[c] = x
    BY DEF ConversationInv, ConversationType
  <2>2. Pair(c)' = Conversation!All(x.request) /\ (Registering(c)' <=> x.pc = "commit" /\ x.own)
    BY <2>1 DEF Pair, Registering
  <2>3. \A d \in Creates \ {c} : Pair(d)' = Pair(d) /\ (Registering(d)' <=> Registering(d))
    BY <1>2 DEF Pair, Registering
  <2> QED BY <2>2, <2>3 DEF ConversationInv, OneEntry
<1>9. NothingYet'
  BY DEF ConversationInv, NothingYet, Exists, Conversation!Present
<1> QED BY <1>1, <1>3, <1>4, <1>5, <1>6, <1>7, <1>8, <1>9 DEF ConversationInv

CreateAtWork ==
    [pc : {"find", "get", "insert", "register", "commit", "done"}, request : Asked,
     answer : Creates \cup {NoRow}, found : Creates \cup {NoRow}, own : BOOLEAN, unlinked : BOOLEAN,
     known : SUBSET Creates]

\* A creation that commits.
LEMMA CommitStep == ASSUME ConversationInv, NEW c \in Creates, Conversation!Commit(c) PROVE ConversationInv'
<1> DEFINE x == create[c]
           r == x.request
           pair == Pair(c)
           row == [kind |-> r.kind, count |-> Conversation!Cardinality(pair)]
           member == [u \in Users |-> IF u \notin pair THEN NoRow
                        ELSE [role |-> IF u = r.by THEN "owner" ELSE "member", here |-> TRUE, muted |-> FALSE]]
           new == [[x EXCEPT !.pc = "done"] EXCEPT !.answer = c]
<1>0. /\ ConversationType /\ x \in CreateCall /\ CallOk(c) /\ Conversation!LookupIsSound
      /\ UNCHANGED <<change, erase, raced, uncounted>>
  BY DEF ConversationInv, ConversationType, Conversation!Commit
<1>1. /\ x.pc = "commit" /\ conversations' = [conversations EXCEPT ![c] = row]
      /\ participants' = [participants EXCEPT ![c] = member]
      /\ lookup' = IF x.own THEN [lookup EXCEPT ![pair] = c] ELSE lookup
      /\ create' = [create EXCEPT ![c].pc = "done", ![c].answer = c]
  BY DEF Conversation!Commit, Conversation!PairKey, Conversation!At, Conversation!Finish, Pair
<1>2. x \in CreateAtWork
  BY <1>0, <1>1 DEF CreateCall, CreateAtWork
<1>3. /\ r \in Asked /\ pair \in SUBSET Users /\ r.kind \in {"direct", "group"} /\ ~Exists(c)
      /\ lookup[pair] \in Creates \cup {NoRow} /\ (x.own => lookup[pair] = NoRow)
      /\ (~x.unlinked => x.known = {}) /\ x.own \in BOOLEAN
      /\ (Alone(c) /\ ~x.unlinked /\ ~x.own => lookup[pair] # NoRow)
  BY <1>0, <1>1, <1>2, RowsAreRows DEF CallOk, CreateAtWork, ConversationType, Pair
<1>4. Cardinality(pair) \in Nat
  BY <1>3, ConversationAssumption, FS_Subset, FS_CardinalityType
<1>5. row \in ConversationRow /\ row.count = Cardinality(pair)
  BY <1>3, <1>4, ConversationCardinality DEF ConversationRow
<1>6. /\ member \in [Users -> MemberRow \cup {NoRow}]
      /\ \A u \in Users : member[u] # NoRow /\ member[u].here <=> u \in pair
  <2>1. \A u \in Users : u \in pair => /\ member[u] \in MemberRow /\ member[u].here /\ member[u] # NoRow
    <3> SUFFICES ASSUME NEW u \in Users, u \in pair PROVE member[u] \in MemberRow /\ member[u].here /\ member[u] # NoRow
      OBVIOUS
    <3>1. member[u] = [role |-> IF u = r.by THEN "owner" ELSE "member", here |-> TRUE, muted |-> FALSE]
      OBVIOUS
    <3> HIDE DEF member
    <3>2. member[u] \in MemberRow /\ member[u].here
      BY <3>1 DEF MemberRow
    <3> QED BY <3>2, RowsAreRows
  <2>2. \A u \in Users : u \notin pair => member[u] = NoRow
    OBVIOUS
  <2> QED BY <2>1, <2>2
<1>7. /\ new \in CreateCall /\ new.pc = "done" /\ new.request = r /\ new.known = x.known /\ new.answer = c
      /\ new.unlinked = x.unlinked
  <2>1. /\ new \in CreateAtWork /\ new.pc = "done" /\ new.request = r /\ new.known = x.known /\ new.answer = c
        /\ new.unlinked = x.unlinked
    BY <1>2 DEF CreateAtWork
  <2> QED BY <2>1 DEF CreateCall, CreateAtWork
<1>8. create' = [create EXCEPT ![c] = new]
  BY <1>0, <1>1 DEF ConversationType
<1> HIDE DEF new, row, member
<1>9. ConversationType'
  <2>1. lookup' \in [SUBSET Users -> Creates \cup {NoRow}]
    BY <1>0, <1>1, <1>3 DEF ConversationType
  <2>2. conversations' \in [Creates -> ConversationRow \cup {NoRow}]
    BY <1>0, <1>1, <1>5 DEF ConversationType
  <2>3. participants' \in [Creates -> [Users -> MemberRow \cup {NoRow}]]
    BY <1>0, <1>1, <1>6 DEF ConversationType
  <2>4. create' \in [Creates -> CreateCall]
    BY <1>0, <1>7, <1>8 DEF ConversationType
  <2> QED BY <1>0, <2>1, <2>2, <2>3, <2>4 DEF ConversationType
<1>10. /\ create'[c] = new /\ \A d \in Creates \ {c} : create'[d] = create[d]
       /\ conversations'[c] = row /\ \A d \in Creates \ {c} : conversations'[d] = conversations[d]
       /\ participants'[c] = member /\ \A d \in Creates \ {c} : participants'[d] = participants[d]
       /\ conversations'[c] # NoRow
  BY <1>0, <1>1, <1>5, <1>8, RowsAreRows DEF ConversationType
<1>11. /\ \A p \in SUBSET Users : lookup[p] # NoRow => lookup'[p] = lookup[p]
       /\ \A p \in SUBSET Users : lookup'[p] # lookup[p] => p = pair /\ x.own /\ lookup'[p] = c
       /\ Alone(c) /\ ~x.unlinked => lookup'[pair] # NoRow
  BY <1>0, <1>1, <1>3, RowsAreRows DEF ConversationType
<1>12. Conversation!LookupIsSound'
  <2> SUFFICES ASSUME NEW p \in SUBSET Users, lookup'[p] # NoRow
               PROVE  conversations'[lookup'[p]] # NoRow /\ \A u \in p : participants'[lookup'[p]][u] # NoRow
    BY <1>9 DEF ConversationType, Conversation!LookupIsSound
  <2>1. CASE lookup'[p] = lookup[p]
    <3>1. conversations[lookup[p]] # NoRow /\ \A u \in p : participants[lookup[p]][u] # NoRow
      BY <1>0, <2>1 DEF ConversationType, Conversation!LookupIsSound
    <3>2. lookup[p] \in Creates \ {c}
      BY <1>0, <1>3, <2>1, <3>1 DEF ConversationType, Exists
    <3> QED BY <1>10, <2>1, <3>1, <3>2
  <2>2. CASE lookup'[p] # lookup[p]
    <3>1. p = pair /\ lookup'[p] = c
      BY <1>11, <2>2
    <3> HIDE DEF pair
    <3> QED BY <1>6, <1>10, <3>1
  <2> QED BY <2>1, <2>2
<1>13. ASSUME NEW d \in Creates PROVE CallOk(d)'
  <2>1. CASE d = c
    <3>1. Pair(c)' = pair /\ (Alone(c)' <=> Alone(c))
      BY <1>7, <1>10 DEF Pair, Alone
    <3> HIDE DEF pair
    <3> QED BY <1>3, <1>7, <1>10, <1>11, <2>1, <3>1 DEF CallOk, Exists
  <2>2. CASE d # c
    <3>1. create'[d] = create[d] /\ conversations'[d] = conversations[d] /\ CallOk(d) /\ create[d] \in CreateCall
      BY <1>0, <1>10, <2>2 DEF ConversationInv, ConversationType
    <3>2. create[d].pc # "idle" => Pair(d) \in SUBSET Users
      BY <3>1, RowsAreRows DEF CreateCall, Pair
    <3>3. create[d].pc # "idle" /\ lookup[Pair(d)] # NoRow => lookup'[Pair(d)] = lookup[Pair(d)]
      BY <1>11, <3>2
    <3>4. Pair(d)' = Pair(d) /\ (Alone(d)' <=> Alone(d)) /\ (Exists(d)' <=> Exists(d))
      BY <3>1 DEF Pair, Alone, Exists
    <3>5. Registering(d) => lookup'[Pair(d)] = NoRow
      <4> SUFFICES ASSUME Registering(d), lookup'[Pair(d)] # NoRow PROVE FALSE
        OBVIOUS
      <4>1. lookup[Pair(d)] = NoRow /\ Pair(d) \in SUBSET Users
        BY <3>1, <3>2 DEF CallOk, Registering
      <4>2. Pair(d) = Pair(c) /\ x.own
        BY <1>11, <4>1
      <4>3. Registering(c)
        BY <1>1, <4>2 DEF Registering
      <4> QED BY <2>2, <4>2, <4>3 DEF ConversationInv, OneEntry
    <3>6. create[d].pc = "get" /\ ~create[d].unlinked => lookup[Pair(d)] # NoRow
      BY <3>1 DEF CallOk
    <3> QED BY <3>1, <3>3, <3>4, <3>5, <3>6 DEF CallOk, Registering
  <2> QED BY <2>1, <2>2
<1>14. ASSUME NEW k \in Changes, change[k].pc # "idle" PROVE change[k].conv \in Creates \ {c}
  <2>1. change[k].conv \in Creates /\ Exists(change[k].conv)
    BY <1>0, <1>14 DEF ConversationInv, ConversationType, ChangeCall, ChangeOk
  <2> QED BY <1>3, <2>1
<1>15. ASSUME NEW k \in Changes PROVE ChangeOk(k)'
  <2> SUFFICES ASSUME change[k].pc # "idle" PROVE ChangeOk(k)'
    BY <1>0 DEF ChangeOk
  <2>1. /\ conversations'[change[k].conv] = conversations[change[k].conv]
        /\ participants'[change[k].conv] = participants[change[k].conv]
    BY <1>10, <1>14
  <2>2. \A d \in Creates : participants'[d] = participants[d] => Conversation!Present(d)' = Conversation!Present(d)
    BY DEF Conversation!Present
  <2>3. Conversation!Seen(k)' = Conversation!Seen(k)
    BY <1>0, <1>14, <2>1, <2>2 DEF Conversation!Seen
  <2> QED BY <1>0, <2>1, <2>3 DEF ConversationInv, ChangeOk, Exists
\* A conversation that is not stored has no rows and nobody left it.
<1>16. Conversation!Present(c)' = pair /\ \A d \in Creates \ {c} : Conversation!Present(d)' = Conversation!Present(d)
  BY <1>3, <1>6, <1>10 DEF Conversation!Present
<1>17. CountsOk'
  <2> SUFFICES ASSUME ~raced, NEW d \in Creates, conversations'[d] # NoRow
               PROVE  conversations'[d].count = Cardinality(Conversation!Present(d)' \cup uncounted[d])
    BY <1>0 DEF CountsOk, Exists
  <2>1. CASE d = c
    <3>1. uncounted[c] = {}
      BY <1>3 DEF ConversationInv, NothingYet
    <3>2. Conversation!Present(d)' \cup uncounted[d] = pair
      BY <1>16, <2>1, <3>1
    <3> QED BY <1>5, <1>10, <2>1, <3>2
  <2>2. CASE d # c
    BY <1>10, <1>16, <2>2 DEF ConversationInv, CountsOk, Exists
  <2> QED BY <2>1, <2>2
<1>18. OneAtATime'
  BY <1>0 DEF ConversationInv, OneAtATime, Conversation!InTransaction
<1>19. OneEntry'
  <2>1. ~Registering(c)' /\ \A d \in Creates \ {c} : Pair(d)' = Pair(d) /\ (Registering(d)' <=> Registering(d))
    BY <1>7, <1>10 DEF Registering, Pair
  <2> QED BY <2>1 DEF ConversationInv, OneEntry
<1>20. ASSUME NEW u \in Erased PROVE ErasureOk(u)'
  <2> SUFFICES ASSUME Conversation!Erasing(u) PROVE ErasureOk(u)'
    BY <1>0 DEF ErasureOk, Conversation!Erasing
  <2>1. \A d \in erase[u].rows : d \in Creates /\ u \in Conversation!Present(d)
    BY <1>0 DEF ConversationInv, ErasureOk, ConversationType, EraseCall, Conversation!Erasing
  <2>2. Conversation!Present(c) = {}
    BY <1>3 DEF ConversationInv, NothingYet
  <2>3. \A d \in erase[u].rows : u \in Conversation!Present(d)'
    BY <1>16, <2>1, <2>2
  <2> QED BY <1>0, <2>3 DEF ConversationInv, ErasureOk, Conversation!InTransaction
<1>21. NothingYet'
  BY <1>0, <1>10, <1>16 DEF ConversationInv, NothingYet, Exists
<1> QED BY <1>9, <1>12, <1>13, <1>15, <1>17, <1>18, <1>19, <1>20, <1>21 DEF ConversationInv

LEMMA CreationStep == ASSUME ConversationInv, NEW c \in Creates, Conversation!Creation(c) PROVE ConversationInv'
<1> USE DEF Conversation!At, Conversation!Goto, Conversation!Finish, Conversation!OtherRows
<1> DEFINE x == create[c]
<1>0. /\ ConversationType /\ x \in CreateCall /\ CallOk(c) /\ Conversation!LookupIsSound
      /\ UNCHANGED <<change, erase, raced, uncounted>>
  BY DEF ConversationInv, ConversationType, Conversation!Creation, Conversation!Begin, Conversation!FindDirect,
     Conversation!GetExisting, Conversation!InsertRows, Conversation!RegisterDirect, Conversation!Commit, Conversation!CreateFails
<1>w. x.pc # "idle" => x \in CreateAtWork
  BY <1>0 DEF CreateCall, CreateAtWork
<1>s. CreateAtWork \subseteq CreateCall
  BY DEF CreateCall, CreateAtWork
<1>t. x.pc # "idle" => /\ x.request \in Asked /\ Pair(c) \in SUBSET Users /\ lookup[Pair(c)] \in Creates \cup {NoRow}
                       /\ x.answer \in Creates \cup {NoRow} /\ x.found \in Creates \cup {NoRow} /\ x.known \in SUBSET Creates
  BY <1>0, <1>w, RowsAreRows DEF ConversationType, CreateAtWork, Pair
<1>c. x.pc # "idle" => \A a \in Creates \cup {NoRow} :
         /\ [[x EXCEPT !.pc = "done"] EXCEPT !.answer = a] \in CreateCall
         /\ [[x EXCEPT !.pc = "done"] EXCEPT !.answer = a].pc = "done"
         /\ [[x EXCEPT !.pc = "done"] EXCEPT !.answer = a].answer = a
         /\ [[x EXCEPT !.pc = "done"] EXCEPT !.answer = a].request = x.request
         /\ [[x EXCEPT !.pc = "done"] EXCEPT !.answer = a].known = x.known
         /\ [[x EXCEPT !.pc = "done"] EXCEPT !.answer = a].unlinked = x.unlinked
  <2> SUFFICES ASSUME x \in CreateAtWork, NEW a \in Creates \cup {NoRow}
               PROVE  /\ [[x EXCEPT !.pc = "done"] EXCEPT !.answer = a] \in CreateAtWork
                      /\ [[x EXCEPT !.pc = "done"] EXCEPT !.answer = a].pc = "done"
                      /\ [[x EXCEPT !.pc = "done"] EXCEPT !.answer = a].answer = a
                      /\ [[x EXCEPT !.pc = "done"] EXCEPT !.answer = a].request = x.request
                      /\ [[x EXCEPT !.pc = "done"] EXCEPT !.answer = a].known = x.known
                      /\ [[x EXCEPT !.pc = "done"] EXCEPT !.answer = a].unlinked = x.unlinked
    BY <1>w, <1>s
  <2> QED BY DEF CreateAtWork
<1>1. ASSUME NEW r \in Asked, Conversation!Begin(c, r) PROVE ConversationInv'
  <2> DEFINE aware == {d \in Creates : /\ create[d].pc = "done" /\ create[d].answer # NoRow /\ ~create[d].unlinked
                                       /\ Conversation!IsDirect(create[d].request) /\ Conversation!IsDirect(r)
                                       /\ Conversation!All(create[d].request) = Conversation!All(r)}
             at == IF Conversation!TooMany(r) THEN "done" ELSE IF Conversation!IsDirect(r) THEN "find" ELSE "insert"
             new == [pc |-> at, request |-> r, answer |-> NoRow, found |-> NoRow, own |-> FALSE, unlinked |-> FALSE, known |-> aware]
  <2>1. x.pc = "idle" /\ create' = [create EXCEPT ![c] = new] /\ UNCHANGED <<conversations, participants, lookup>>
    BY <1>1 DEF Conversation!Begin
  <2>2. at \in {"done", "find", "insert"} /\ (at = "find" => Conversation!IsDirect(r)) /\ (at = "insert" => aware = {})
    OBVIOUS
  <2>3. aware \subseteq Creates /\ (aware # {} => lookup[Conversation!All(r)] # NoRow)
    BY DEF ConversationInv, CallOk, Pair, Alone
  <2> HIDE DEF aware, at
  <2>4. /\ new \in CreateCall /\ new.pc = at /\ new.request = r /\ new.answer = NoRow /\ new.known = aware
        /\ new.unlinked = FALSE /\ new.own = FALSE
    BY <2>2, <2>3 DEF CreateCall
  <2> HIDE DEF new
  <2>5. create'[c] = new
    BY <1>0, <2>1 DEF ConversationType
  <2>6. CallOk(c)'
    <3>1. ~Exists(c)
      BY <1>0, <2>1 DEF CallOk
    <3> QED BY <2>1, <2>2, <2>3, <2>4, <2>5, <3>1 DEF CallOk, Exists, Pair, Alone
  <2> QED BY <1>0, <2>1, <2>4, <2>6, CallOnly
<1>2. CASE Conversation!FindDirect(c)
  <2> DEFINE id == lookup[Pair(c)]
             at == IF id # NoRow THEN "get" ELSE "insert"
             new == [[x EXCEPT !.pc = at] EXCEPT !.found = id]
  <2>1. /\ x.pc = "find" /\ create' = [create EXCEPT ![c].pc = at, ![c].found = id]
        /\ UNCHANGED <<conversations, participants, lookup>>
    BY <1>2 DEF Conversation!FindDirect, Conversation!PairKey, Pair
  <2>2. create' = [create EXCEPT ![c] = new]
    BY <1>0, <2>1 DEF ConversationType
  <2>3. id \in Creates \cup {NoRow} /\ x \in CreateAtWork /\ at \in {"get", "insert"}
    BY <1>t, <1>w, <2>1
  <2>4. Alone(c) /\ ~x.own /\ (~x.unlinked /\ id = NoRow => x.known = {}) /\ (at = "get" <=> id # NoRow)
    BY <1>0, <2>1 DEF CallOk
  <2> HIDE DEF at, id
  <2>5. /\ new \in CreateAtWork /\ new.pc = at /\ new.found = id /\ new.request = x.request /\ new.known = x.known
        /\ new.unlinked = x.unlinked /\ new.own = x.own
    BY <2>3 DEF CreateAtWork
  <2> HIDE DEF new
  <2>6. create'[c] = new
    BY <1>0, <2>2 DEF ConversationType
  <2>7. CallOk(c)'
    <3>1. Pair(c)' = Pair(c) /\ (Alone(c)' <=> Alone(c)) /\ (Exists(c)' <=> Exists(c)) /\ ~Exists(c) /\ lookup'[Pair(c)] = id
      BY <1>0, <2>1, <2>5, <2>6 DEF Pair, Alone, Exists, CallOk, id
    <3>2. x.known # {} /\ ~x.unlinked => id # NoRow
      BY <2>4
    <3> QED BY <2>3, <2>4, <2>5, <2>6, <3>1, <3>2 DEF CallOk
  <2> QED BY <1>0, <1>s, <2>1, <2>2, <2>3, <2>5, <2>7, CallOnly
<1>3. ASSUME x.pc # "idle", x.pc # "done", NEW a \in Creates \cup {NoRow}, create' = [create EXCEPT ![c].pc = "done", ![c].answer = a],
             UNCHANGED <<conversations, participants, lookup>>,
             a # NoRow /\ ~x.unlinked => a = lookup[Pair(c)]
      PROVE  ConversationInv'
  <2> DEFINE new == [[x EXCEPT !.pc = "done"] EXCEPT !.answer = a]
  <2>1. /\ new \in CreateCall /\ new.pc = "done" /\ new.request = x.request /\ new.known = x.known /\ new.answer = a
        /\ new.unlinked = x.unlinked
    BY <1>3, <1>c
  <2>2. create' = [create EXCEPT ![c] = new]
    BY <1>0, <1>3 DEF ConversationType
  <2> HIDE DEF new
  <2>3. create'[c] = new
    BY <1>0, <2>2 DEF ConversationType
  <2>4. CallOk(c)'
    BY <1>0, <1>3, <2>1, <2>3 DEF CallOk, Exists, Pair, Alone
  <2> QED BY <1>0, <1>3, <2>1, <2>2, <2>4, CallOnly
<1>5. CASE Conversation!GetExisting(c)
  <2> DEFINE a == IF conversations[x.found] = NoRow THEN NoRow ELSE x.found
  <2>1. /\ x.pc = "get" /\ create' = [create EXCEPT ![c].pc = "done", ![c].answer = a]
        /\ UNCHANGED <<conversations, participants, lookup>>
    BY <1>5 DEF Conversation!GetExisting
  <2>2. a \in Creates \cup {NoRow} /\ (a # NoRow /\ ~x.unlinked => a = lookup[Pair(c)])
    BY <1>0, <1>t, <2>1 DEF CallOk
  <2> HIDE DEF a
  <2> QED BY <1>3, <2>1, <2>2
<1>6. CASE Conversation!InsertRows(c)
  <2> DEFINE at == IF Conversation!IsDirect(x.request) THEN "register" ELSE "commit"
             new == [x EXCEPT !.pc = at]
  <2>1. x.pc = "insert" /\ create' = [create EXCEPT ![c] = new] /\ UNCHANGED <<conversations, participants, lookup>>
    BY <1>0, <1>6 DEF Conversation!InsertRows, ConversationType
  <2>2. at \in {"register", "commit"} /\ (Alone(c) => at = "register")
    BY DEF Alone
  <2> HIDE DEF at
  <2>3. /\ new \in CreateAtWork /\ new.pc = at /\ new.request = x.request /\ new.known = x.known
        /\ new.unlinked = x.unlinked /\ new.own = x.own
    BY <1>w, <2>1, <2>2 DEF CreateAtWork
  <2> HIDE DEF new
  <2>4. create'[c] = new
    BY <1>0, <2>1 DEF ConversationType
  <2>5. ~x.own
    BY <1>0, <2>1 DEF CallOk
  <2>6. CallOk(c)'
    <3>1. Pair(c)' = Pair(c) /\ (Alone(c)' <=> Alone(c)) /\ (Exists(c)' <=> Exists(c)) /\ ~Exists(c)
      BY <1>0, <2>1, <2>3, <2>4 DEF Pair, Alone, Exists, CallOk
    <3> QED BY <1>0, <2>1, <2>2, <2>3, <2>4, <2>5, <3>1 DEF CallOk
  <2> QED BY <1>0, <1>s, <2>1, <2>3, <2>5, <2>6, CallOnly
<1>7. CASE Conversation!RegisterDirect(c)
  <2> DEFINE owns == lookup[Pair(c)] = NoRow
             new == [[x EXCEPT !.pc = "commit"] EXCEPT !.own = owns]
  <2>1. /\ x.pc = "register" /\ create' = [create EXCEPT ![c].pc = "commit", ![c].own = owns]
        /\ \A d \in Creates \ {c} : create[d].pc = "commit" /\ create[d].own => ~Conversation!SameKey(c, d)
        /\ UNCHANGED <<conversations, participants, lookup>>
    BY <1>7 DEF Conversation!RegisterDirect, Conversation!PairKey, Pair
  <2>2. create' = [create EXCEPT ![c] = new]
    BY <1>0, <2>1 DEF ConversationType
  <2>3. owns \in BOOLEAN /\ (owns <=> lookup[Pair(c)] = NoRow)
    OBVIOUS
  <2> HIDE DEF owns
  <2>4. /\ new \in CreateAtWork /\ new.pc = "commit" /\ new.own = owns /\ new.request = x.request /\ new.known = x.known
        /\ new.unlinked = x.unlinked
    BY <1>w, <2>1, <2>3 DEF CreateAtWork
  <2> HIDE DEF new
  <2>5. create'[c] = new
    BY <1>0, <2>2 DEF ConversationType
  <2>6. CallOk(c)'
    <3>1. Pair(c)' = Pair(c) /\ (Alone(c)' <=> Alone(c)) /\ (Exists(c)' <=> Exists(c)) /\ ~Exists(c)
      BY <1>0, <2>1, <2>4, <2>5 DEF Pair, Alone, Exists, CallOk
    <3> QED BY <1>0, <2>1, <2>3, <2>4, <2>5, <3>1 DEF CallOk
  <2>7. \A d \in Creates \ {c} : Registering(d) => Pair(d) # Conversation!All(new.request)
    BY <2>1, <2>4 DEF Registering, Conversation!SameKey, Conversation!PairKey, Pair
  <2> QED BY <1>0, <1>s, <2>1, <2>2, <2>4, <2>6, <2>7, CallOnly
<1>8. CASE Conversation!CreateFails(c)
  BY <1>3, <1>8 DEF Conversation!CreateFails
<1>9. CASE Conversation!Commit(c)
  BY <1>9, CommitStep
<1> QED BY <1>1, <1>2, <1>5, <1>6, <1>7, <1>8, <1>9 DEF Conversation!Creation

\* A step that only takes change k further.
LEMMA ChangeOnly ==
    ASSUME ConversationInv, NEW k \in Changes, NEW x \in ChangeCall, change' = [change EXCEPT ![k] = x],
           UNCHANGED <<conversations, participants, lookup, create, erase, uncounted>>,
           raced' \in BOOLEAN, raced => raced', ChangeOk(k)',
           Conversation!InTransaction(k)' => ~Conversation!HeldRow(x.conv, x.user),
           Conversation!InTransaction(k)' /\ ~raced' =>
              \A j \in Changes \ {k} : Conversation!InTransaction(j) => change[j].conv # x.conv
    PROVE  ConversationInv'
<1>1. ConversationType'
  BY DEF ConversationInv, ConversationType
<1>2. change'[k] = x /\ \A j \in Changes \ {k} : change'[j] = change[j]
  BY DEF ConversationInv, ConversationType
<1>3. ASSUME NEW j \in Changes PROVE ChangeOk(j)'
  <2>1. CASE j = k
    BY <2>1
  <2>2. CASE j # k
    <3>1. change'[j] = change[j] /\ ChangeOk(j)
      BY <1>2, <2>2 DEF ConversationInv
    <3>2. Conversation!Seen(j)' = Conversation!Seen(j)
      BY <3>1 DEF Conversation!Seen, Conversation!Present
    <3> QED BY <3>1, <3>2 DEF ChangeOk, Exists
  <2> QED BY <2>1, <2>2
<1>4. Conversation!LookupIsSound' /\ CountsOk'
  BY DEF ConversationInv, CountsOk, Exists, Conversation!LookupIsSound, Conversation!Present
<1>5. (\A c \in Creates : CallOk(c)') /\ OneEntry' /\ NothingYet'
  BY DEF ConversationInv, CallOk, Exists, Pair, Alone, OneEntry, Registering, NothingYet, Conversation!Present
<1>7. ASSUME NEW u \in Erased PROVE ErasureOk(u)'
  BY <1>2 DEF ConversationInv, ErasureOk, Conversation!Erasing, Conversation!HeldRow, Conversation!InTransaction, Conversation!Present
<1>6. OneAtATime'
  <2> SUFFICES ASSUME ~raced', NEW i \in Changes, NEW j \in Changes, Conversation!InTransaction(i)', Conversation!InTransaction(j)',
                      change'[i].conv = change'[j].conv, i # j
               PROVE  FALSE
    BY DEF OneAtATime
  <2>1. \A m \in Changes \ {k} : Conversation!InTransaction(m)' <=> Conversation!InTransaction(m)
    BY <1>2 DEF Conversation!InTransaction
  <2> QED BY <1>2, <2>1 DEF ConversationInv, OneAtATime
<1> QED BY <1>1, <1>3, <1>4, <1>5, <1>6, <1>7 DEF ConversationInv

\* Who is present is read off the rows of the conversation.
LEMMA PresentStays ==
    ASSUME NEW d, participants'[d] = participants[d] PROVE Conversation!Present(d)' = Conversation!Present(d)
BY DEF Conversation!Present

\* A step that rewrites the row of change k's user and ends the change.
LEMMA RowWritten ==
    ASSUME ConversationInv, NEW k \in Changes, change[k].pc # "idle", NEW c \in Creates, c = change[k].conv,
           NEW u \in Users, u = change[k].user, NEW row \in MemberRow \cup {NoRow},
           participants' = [participants EXCEPT ![c][u] = row], participants[c][u] # NoRow => row # NoRow,
           NEW n \in Nat, conversations' = [conversations EXCEPT ![c].count = n],
           change' = [change EXCEPT ![k].pc = "done"], UNCHANGED <<lookup, create, erase, raced>>,
           NEW away \in SUBSET Users, uncounted' = [uncounted EXCEPT ![c] = away],
           ~raced => n = Cardinality(Conversation!Present(c)' \cup away),
           Conversation!Present(c)' = Conversation!Present(c) \/ Conversation!InTransaction(k)
    PROVE  ConversationInv'
<1> DEFINE x == change[k]
<1>0. /\ ConversationType /\ x \in ChangeCall \ {[pc |-> "idle"]} /\ c \in Creates /\ u \in Users /\ Exists(c)
      /\ conversations[c] \in ConversationRow
  BY DEF ConversationInv, ConversationType, ChangeCall, ChangeOk, Exists
<1>1. /\ participants'[c][u] = row
      /\ \A v \in Users : v # u => participants'[c][v] = participants[c][v]
      /\ \A d \in Creates \ {c} : participants'[d] = participants[d]
  BY <1>0 DEF ConversationType
<1>2. /\ conversations'[c] \in ConversationRow /\ conversations'[c].count = n
      /\ \A d \in Creates \ {c} : conversations'[d] = conversations[d]
      /\ \A d \in Creates : Exists(d)' <=> Exists(d)
  <2>1. conversations'[c] = [conversations[c] EXCEPT !.count = n] /\ \A d \in Creates \ {c} : conversations'[d] = conversations[d]
    BY <1>0 DEF ConversationType
  <2>2. conversations'[c] \in ConversationRow /\ conversations'[c].count = n
    BY <1>0, <2>1 DEF ConversationRow
  <2> QED BY <1>0, <2>1, <2>2, RowsAreRows DEF Exists
<1>3. \A d \in Creates, v \in Users : participants[d][v] # NoRow => participants'[d][v] # NoRow
  BY <1>1
<1>4. /\ change'[k].pc = "done" /\ change'[k].op = x.op /\ change'[k].conv = c /\ change'[k].user = u /\ change'[k].by = x.by
      /\ change'[k] \in ChangeCall /\ \A j \in Changes \ {k} : change'[j] = change[j]
  BY <1>0 DEF ConversationType, ChangeCall
<1>5. ConversationType'
  <2>1. conversations' \in [Creates -> ConversationRow \cup {NoRow}]
    <3>1. \A d \in Creates : conversations'[d] \in ConversationRow \cup {NoRow}
      BY <1>0, <1>2 DEF ConversationType
    <3> QED BY <1>0, <3>1 DEF ConversationType
  <2>2. participants' \in [Creates -> [Users -> MemberRow \cup {NoRow}]]
    BY <1>0 DEF ConversationType
  <2>3. change' \in [Changes -> ChangeCall]
    <3>1. \A j \in Changes : change'[j] \in ChangeCall
      BY <1>0, <1>4 DEF ConversationType
    <3> QED BY <1>0, <3>1 DEF ConversationType
  <2>4. uncounted' \in [Creates -> SUBSET Users]
    BY <1>0 DEF ConversationType
  <2> QED BY <1>0, <2>1, <2>2, <2>3, <2>4 DEF ConversationType
<1>6. Conversation!LookupIsSound'
  <2> SUFFICES ASSUME NEW p \in SUBSET Users, lookup[p] # NoRow
               PROVE  conversations'[lookup[p]] # NoRow /\ \A v \in p : participants'[lookup[p]][v] # NoRow
    BY <1>0 DEF ConversationType, Conversation!LookupIsSound
  <2>1. lookup[p] \in Creates /\ conversations[lookup[p]] # NoRow /\ \A v \in p : participants[lookup[p]][v] # NoRow
    BY <1>0 DEF ConversationInv, ConversationType, Conversation!LookupIsSound
  <2> QED BY <1>2, <1>3, <2>1 DEF Exists
<1>7. (\A d \in Creates : CallOk(d)') /\ OneEntry'
  BY <1>2 DEF ConversationInv, CallOk, Pair, Alone, OneEntry, Registering
<1>8. ASSUME NEW j \in Changes PROVE ChangeOk(j)'
  <2>1. CASE j = k
    BY <1>0, <1>2, <1>4, <2>1 DEF ConversationInv, ChangeOk
  <2>2. CASE j # k
    <3> SUFFICES ASSUME change[j].pc # "idle" PROVE ChangeOk(j)'
      BY <1>4, <2>2 DEF ChangeOk
    <3>1. change'[j] = change[j] /\ ChangeOk(j) /\ change[j].conv \in Creates /\ change[j].user \in Users
      BY <1>0, <1>4, <2>2 DEF ConversationInv, ConversationType, ChangeCall
    <3>2. ASSUME ~raced, change[j].pc = "commit" PROVE change[j].count = Cardinality(Conversation!Seen(j)')
      <4>1. change[j].count = Cardinality(Conversation!Seen(j))
        BY <3>1, <3>2 DEF ChangeOk
      <4>2. Conversation!Present(change[j].conv)' = Conversation!Present(change[j].conv)
        <5>1. CASE change[j].conv # c
          <6>1. \A d \in Creates \ {c} : Conversation!Present(d)' = Conversation!Present(d)
            BY <1>1, PresentStays
          <6> QED BY <3>1, <5>1, <6>1
        <5>2. CASE change[j].conv = c
          BY <2>2, <3>2, <5>2 DEF ConversationInv, OneAtATime, Conversation!InTransaction
        <5> QED BY <5>1, <5>2
      <4> QED BY <3>1, <4>1, <4>2 DEF Conversation!Seen
    <3> QED BY <1>2, <1>3, <3>1, <3>2 DEF ChangeOk
  <2> QED BY <2>1, <2>2
<1>9. OneAtATime'
  <2>1. \A j \in Changes : Conversation!InTransaction(j)' => Conversation!InTransaction(j) /\ change'[j].conv = change[j].conv
    BY <1>4 DEF Conversation!InTransaction
  <2> QED BY <2>1 DEF ConversationInv, OneAtATime
<1>10. CountsOk'
  <2> SUFFICES ASSUME ~raced, NEW d \in Creates, Exists(d)
               PROVE  conversations'[d].count = Cardinality(Conversation!Present(d)' \cup uncounted'[d])
    BY <1>2 DEF CountsOk
  <2>1. CASE d = c
    <3>1. uncounted'[c] = away
      BY <1>0 DEF ConversationType
    <3> QED BY <1>2, <2>1, <3>1, Zenon
  <2>2. CASE d # c
    <3>1. conversations'[d] = conversations[d] /\ participants'[d] = participants[d] /\ uncounted'[d] = uncounted[d]
      BY <1>0, <1>1, <1>2, <2>2 DEF ConversationType
    <3>2. conversations[d].count = Cardinality(Conversation!Present(d) \cup uncounted[d])
      BY DEF ConversationInv, CountsOk
    <3>3. Conversation!Present(d)' = Conversation!Present(d)
      BY <3>1, PresentStays
    <3> QED BY <3>1, <3>2, <3>3, Zenon
  <2> QED BY <2>1, <2>2
<1>11. \A j \in Changes : Conversation!InTransaction(j)' => Conversation!InTransaction(j) /\ change'[j] = change[j]
  BY <1>4 DEF Conversation!InTransaction
<1>12. ASSUME NEW v \in Erased PROVE ErasureOk(v)'
  <2> SUFFICES ASSUME Conversation!Erasing(v), NEW d \in erase[v].rows
               PROVE  /\ v \in Conversation!Present(d)'
                      /\ \A j \in Changes : Conversation!InTransaction(j)' /\ change'[j].user = v => change'[j].conv # d
    BY DEF ErasureOk, Conversation!Erasing
  <2>1. /\ d \in Creates /\ v \in Conversation!Present(d)
        /\ \A j \in Changes : Conversation!InTransaction(j) /\ change[j].user = v => change[j].conv # d
    BY <1>0 DEF ConversationInv, ErasureOk, ConversationType, EraseCall, Conversation!Erasing
  <2>2. v \in Conversation!Present(d)'
    <3>1. CASE d # c
      BY <1>1, <2>1, <3>1 DEF Conversation!Present
    <3>2. CASE d = c /\ v # u
      BY <1>1, <2>1, <3>2 DEF Conversation!Present
    <3>3. CASE d = c /\ v = u
      BY <2>1, <3>3
    <3> QED BY <3>1, <3>2, <3>3
  <2> QED BY <1>11, <2>1, <2>2
<1>13. NothingYet'
  <2> SUFFICES ASSUME NEW d \in Creates, ~Exists(d) PROVE Conversation!Present(d)' = {} /\ uncounted'[d] = {}
    BY <1>2 DEF NothingYet
  <2>1. participants'[d] = participants[d] /\ uncounted'[d] = uncounted[d]
    BY <1>0, <1>1 DEF ConversationType
  <2> QED BY <2>1 DEF ConversationInv, NothingYet, Conversation!Present
<1> QED BY <1>5, <1>6, <1>7, <1>8, <1>9, <1>10, <1>12, <1>13 DEF ConversationInv

LEMMA MembershipStep == ASSUME ConversationInv, NEW k \in Changes, Conversation!Membership(k) PROVE ConversationInv'
<1> USE DEF Conversation!Step, Conversation!Doing, Conversation!UnchangedRows
<1> DEFINE x == change[k]
<1>0. ConversationType /\ x \in ChangeCall /\ ChangeOk(k) /\ UNCHANGED <<lookup, create, erase>>
  BY DEF ConversationInv, ConversationType, Conversation!Membership, Conversation!BeginChange, Conversation!CheckAsker,
     Conversation!CheckMember, Conversation!WriteMember, Conversation!CountMembers, Conversation!CommitChange,
     Conversation!Mute, Conversation!Unmute, Conversation!SetMuted, Conversation!ChangeFails
<1>f. \A c \in Creates : IsFiniteSet(Conversation!Present(c)) /\ Conversation!Present(c) \subseteq Users
  BY ConversationAssumption, FS_Subset DEF Conversation!Present
<1>t. x.pc # "idle" => x.conv \in Creates /\ x.user \in Users /\ x.by \in Users /\ x.count \in Nat
  BY <1>0 DEF ChangeCall
<1>1. ASSUME NEW op \in {"add", "remove", "mute", "unmute"}, NEW c \in Creates, NEW u \in Users, NEW by \in Users,
             Conversation!BeginChange(k, op, c, u, by)
      PROVE  ConversationInv'
  <2> DEFINE new == [pc |-> "check", op |-> op, conv |-> c, user |-> u, by |-> by, count |-> 0]
  <2>1. /\ change' = [change EXCEPT ![k] = new] /\ Exists(c) /\ (op \in {"mute", "unmute"} => u = by)
        /\ UNCHANGED <<conversations, participants, lookup, create, erase, raced, uncounted>>
    BY <1>1 DEF Conversation!BeginChange, Exists
  <2>2. new \in ChangeCall /\ new.pc = "check" /\ new.op = op /\ new.conv = c /\ new.user = u /\ new.by = by
    BY DEF ChangeCall
  <2> HIDE DEF new
  <2>3. change'[k] = new
    BY <1>0, <2>1 DEF ConversationType
  <2>4. ChangeOk(k)' /\ ~Conversation!InTransaction(k)'
    BY <2>1, <2>2, <2>3 DEF ChangeOk, Exists, Conversation!InTransaction
  <2>5. raced' \in BOOLEAN
    BY <1>0, <2>1 DEF ConversationType
  <2> QED BY <2>1, <2>2, <2>4, <2>5, ChangeOnly
<1>2. ASSUME x.pc # "idle", NEW at \in {"look", "write", "count", "done"}, change' = [change EXCEPT ![k].pc = at],
             UNCHANGED <<conversations, participants, uncounted>>, raced' \in BOOLEAN, raced => raced',
             at = "count" => ~Conversation!HeldRow(x.conv, x.user),
             at = "write" /\ x.op \in {"mute", "unmute"} => participants[x.conv][x.user] # NoRow,
             at = "count" => x.op \in {"add", "remove"},
             at = "count" /\ ~raced' => (\A j \in Changes \ {k} : Conversation!InTransaction(j) => change[j].conv # x.conv)
      PROVE  ConversationInv'
  <2> DEFINE new == [x EXCEPT !.pc = at]
  <2>1. /\ new \in ChangeCall /\ new.pc = at /\ new.op = x.op /\ new.conv = x.conv /\ new.user = x.user /\ new.by = x.by
        /\ change' = [change EXCEPT ![k] = new]
    BY <1>0, <1>2 DEF ChangeCall
  <2> HIDE DEF new
  <2>2. change'[k] = new
    BY <1>0, <2>1 DEF ConversationType
  <2>3. ChangeOk(k)'
    BY <1>0, <1>2, <2>1, <2>2 DEF ChangeOk, Exists
  <2>4. Conversation!InTransaction(k)' => at = "count"
    BY <1>2, <2>1, <2>2 DEF Conversation!InTransaction
  <2>5. Conversation!InTransaction(k)' /\ ~raced' =>
           \A j \in Changes \ {k} : Conversation!InTransaction(j) => change[j].conv # new.conv
    BY <1>2, <2>1, <2>4
  <2>6. Conversation!InTransaction(k)' => ~Conversation!HeldRow(new.conv, new.user)
    BY <1>2, <2>1, <2>4
  <2> QED BY <1>0, <1>2, <2>1, <2>3, <2>5, <2>6, ChangeOnly
<1>3. CASE Conversation!CheckAsker(k)
  <2>1. PICK at \in {"look", "write", "done"} : /\ change' = [change EXCEPT ![k].pc = at]
                                                /\ at = "write" => x.by \in Conversation!Present(x.conv)
    BY <1>3 DEF Conversation!CheckAsker
  <2>2. x.pc = "check" /\ UNCHANGED <<conversations, participants, raced, uncounted>>
    BY <1>3 DEF Conversation!CheckAsker
  <2>3. at = "write" /\ x.op \in {"mute", "unmute"} => participants[x.conv][x.user] # NoRow
    BY <1>0, <2>1, <2>2 DEF ChangeOk, Conversation!Present
  <2>4. raced' \in BOOLEAN
    BY <1>0, <2>2 DEF ConversationType
  <2> QED BY <1>2, <2>1, <2>2, <2>3, <2>4
<1>4. CASE Conversation!CheckMember(k)
  <2>1. PICK at \in {"write", "done"} : change' = [change EXCEPT ![k].pc = at]
    BY <1>4 DEF Conversation!CheckMember
  <2>2. x.pc = "look" /\ x.op = "add" /\ UNCHANGED <<conversations, participants, raced, uncounted>> /\ raced' \in BOOLEAN
    BY <1>0, <1>4 DEF Conversation!CheckMember, ConversationType
  <2> QED BY <1>2, <2>1, <2>2
<1>5. CASE Conversation!WriteMember(k)
  <2> DEFINE others == {j \in Changes \ {k} : Conversation!InTransaction(j) /\ change[j].conv = x.conv}
  <2>1. /\ x.pc = "write" /\ x.op \in {"add", "remove"} /\ change' = [change EXCEPT ![k].pc = "count"]
        /\ raced' = (raced \/ others # {}) /\ UNCHANGED <<conversations, participants, uncounted>>
        /\ ~Conversation!HeldRow(x.conv, x.user)
    BY <1>5 DEF Conversation!WriteMember
  <2>2. raced' \in BOOLEAN /\ (raced => raced') /\ (~raced' => others = {})
    BY <2>1, Zenon
  <2>3. ~raced' => \A j \in Changes \ {k} : Conversation!InTransaction(j) => change[j].conv # x.conv
    BY <2>2
  <2> QED BY <1>2, <2>1, <2>2, <2>3
<1>6. CASE Conversation!CountMembers(k)
  <2> DEFINE n == Conversation!Cardinality(Conversation!Seen(k))
             new == [[x EXCEPT !.pc = "commit"] EXCEPT !.count = n]
  <2>1. /\ x.pc = "count" /\ change' = [change EXCEPT ![k].pc = "commit", ![k].count = n]
        /\ UNCHANGED <<conversations, participants, raced, uncounted>>
    BY <1>6 DEF Conversation!CountMembers
  <2>2. n = Cardinality(Conversation!Seen(k)) /\ n \in Nat
    <3>1. IsFiniteSet(Conversation!Seen(k))
      BY <1>f, <1>t, <2>1, FS_AddElement, FS_Subset DEF Conversation!Seen
    <3> QED BY <3>1, ConversationCardinality, FS_CardinalityType
  <2> HIDE DEF n
  <2>3. /\ new \in ChangeCall /\ new.pc = "commit" /\ new.op = x.op /\ new.conv = x.conv /\ new.user = x.user /\ new.by = x.by
        /\ new.count = n
    <3> DEFINE Going == [pc : {"check", "look", "write", "count", "commit", "done"}, op : {"add", "remove", "mute", "unmute"},
                         conv : Creates, user : Users, by : Users, count : Nat]
    <3>1. x \in Going
      BY <1>0, <2>1 DEF ChangeCall
    <3>2. new \in Going /\ new.pc = "commit" /\ new.op = x.op /\ new.conv = x.conv /\ new.user = x.user /\ new.by = x.by /\ new.count = n
      BY <2>2, <3>1
    <3> QED BY <3>2 DEF ChangeCall
  <2>4. change' = [change EXCEPT ![k] = new]
    BY <1>0, <2>1 DEF ConversationType
  <2> HIDE DEF new
  <2>5. change'[k] = new
    BY <1>0, <2>4 DEF ConversationType
  <2>6. Conversation!Seen(k)' = Conversation!Seen(k)
    BY <2>1, <2>3, <2>5 DEF Conversation!Seen, Conversation!Present
  <2>7. ChangeOk(k)'
    BY <1>0, <2>1, <2>2, <2>3, <2>5, <2>6 DEF ChangeOk, Exists
  <2>8. ~raced => \A j \in Changes \ {k} : Conversation!InTransaction(j) => change[j].conv # new.conv
    BY <2>1, <2>3 DEF ConversationInv, OneAtATime, Conversation!InTransaction
  <2>9. raced' \in BOOLEAN /\ raced' = raced
    BY <1>0, <2>1 DEF ConversationType
  <2>10. Conversation!InTransaction(k)' /\ ~raced' =>
            \A j \in Changes \ {k} : Conversation!InTransaction(j) => change[j].conv # new.conv
    BY <2>8, <2>9
  <2>11. UNCHANGED <<conversations, participants, lookup, create, erase, uncounted>> /\ raced' \in BOOLEAN /\ (raced => raced')
    BY <1>0, <2>1, <2>9
  <2>12. ~Conversation!HeldRow(new.conv, new.user)
    BY <2>1, <2>3 DEF ConversationInv, ErasureOk, Conversation!HeldRow, Conversation!Erasing, Conversation!InTransaction
  <2> QED BY <2>3, <2>4, <2>7, <2>10, <2>11, <2>12, ChangeOnly
<1>7. CASE Conversation!CommitChange(k)
  <2>0. PICK c \in Creates, u \in Users : c = x.conv /\ u = x.user
    BY <1>t, <1>7 DEF Conversation!CommitChange
  <2> DEFINE old == participants[c][u]
             new == IF old # NoRow THEN [old EXCEPT !.here = (x.op = "add")]
                    ELSE IF x.op = "add" THEN [role |-> "member", here |-> TRUE, muted |-> FALSE] ELSE NoRow
  <2>1. /\ x.pc = "commit" /\ participants' = [participants EXCEPT ![c][u] = new]
        /\ conversations' = [conversations EXCEPT ![c].count = x.count]
        /\ change' = [change EXCEPT ![k].pc = "done"] /\ uncounted' = [uncounted EXCEPT ![c] = {}] /\ UNCHANGED raced
    BY <1>7, <2>0 DEF Conversation!CommitChange
  <2>2. /\ x.count \in Nat /\ x.op \in {"add", "remove"}
        /\ (~raced => x.count = Cardinality(Conversation!Seen(k)))
    BY <1>0, <1>t, <2>1 DEF ChangeOk
  <2>3. old \in MemberRow \cup {NoRow}
    BY <1>0, <2>2 DEF ConversationType
  <2> HIDE DEF old
  <2>4. /\ new \in MemberRow \cup {NoRow} /\ (old # NoRow => new # NoRow)
        /\ ((new # NoRow /\ new.here) <=> x.op = "add")
    <3>1. CASE old # NoRow
      <4>1. old \in MemberRow
        BY <2>3, <3>1
      <4>2. new = [old EXCEPT !.here = (x.op = "add")]
        BY <3>1
      <4> HIDE DEF new
      <4>3. \A flag \in BOOLEAN : [old EXCEPT !.here = flag] \in MemberRow /\ [old EXCEPT !.here = flag].here = flag
        BY <4>1 DEF MemberRow
      <4>4. (x.op = "add") \in BOOLEAN
        OBVIOUS
      <4>5. new \in MemberRow /\ (new.here <=> x.op = "add")
        BY <4>2, <4>3, <4>4, Zenon
      <4> QED BY <4>5, RowsAreRows
    <3>2. CASE old = NoRow /\ x.op = "add"
      <4>1. new = [role |-> "member", here |-> TRUE, muted |-> FALSE]
        BY <3>2
      <4> HIDE DEF new
      <4>2. new \in MemberRow /\ new.here
        BY <4>1 DEF MemberRow
      <4> QED BY <3>2, <4>2, RowsAreRows
    <3>3. CASE old = NoRow /\ x.op = "remove"
      BY <3>3
    <3> QED BY <2>2, <3>1, <3>2, <3>3
  <2> HIDE DEF new
  <2>5. Conversation!Present(c)' = Conversation!Seen(k)
    <3>1. participants'[c][u] = new /\ \A v \in Users : v # u => participants'[c][v] = participants[c][v]
      BY <1>0, <2>1, <2>2 DEF ConversationType
    <3>2. \A v \in Users : v \in Conversation!Present(c)' <=> v \in Conversation!Seen(k)
      BY <2>0, <2>2, <2>4, <3>1 DEF Conversation!Present, Conversation!Seen
    <3>3. Conversation!Present(c)' \subseteq Users /\ Conversation!Seen(k) \subseteq Users
      BY <2>0 DEF Conversation!Present, Conversation!Seen
    <3> QED BY <3>2, <3>3
  <2>6. Conversation!InTransaction(k)
    BY <2>1 DEF Conversation!InTransaction
  <2>8. ~raced => x.count = Cardinality(Conversation!Present(c)' \cup {})
    BY <2>2, <2>5
  <2>9. x.pc # "idle" /\ UNCHANGED <<lookup, create, erase, raced>> /\ {} \in SUBSET Users
    BY <1>0, <2>1
  <2> HIDE DEF x
  <2> QED BY <2>0, <2>1, <2>2, <2>4, <2>6, <2>8, <2>9, RowWritten DEF old, x
<1>8. ASSUME NEW op \in {"mute", "unmute"}, NEW flag \in BOOLEAN, Conversation!SetMuted(k, op, flag) PROVE ConversationInv'
  <2>0. PICK c \in Creates, u \in Users : c = x.conv /\ u = x.user
    BY <1>t, <1>8 DEF Conversation!SetMuted
  <2> DEFINE new == [participants[c][u] EXCEPT !.muted = flag]
  <2>1. /\ x.pc = "write" /\ x.op = op /\ participants' = [participants EXCEPT ![c][u].muted = flag]
        /\ change' = [change EXCEPT ![k].pc = "done"] /\ UNCHANGED <<conversations, raced, uncounted>>
    BY <1>8, <2>0 DEF Conversation!SetMuted
  <2>2. participants[c][u] \in MemberRow /\ conversations[c] \in ConversationRow
    BY <1>0, <2>0, <2>1 DEF ConversationType, ChangeOk, Exists
  <2>3. new \in MemberRow /\ new.here = participants[c][u].here /\ new # NoRow /\ participants[c][u] # NoRow
    BY <2>2, RowsAreRows DEF MemberRow
  <2>4. participants' = [participants EXCEPT ![c][u] = new]
    BY <1>0, <2>1, <2>2 DEF ConversationType
  <2> HIDE DEF new
  <2>5. Conversation!Present(c)' = Conversation!Present(c)
    <3>1. participants'[c][u] = new /\ \A v \in Users : v # u => participants'[c][v] = participants[c][v]
      BY <1>0, <2>2, <2>4 DEF ConversationType
    <3>2. \A v \in Users : (participants'[c][v] # NoRow /\ participants'[c][v].here)
                              <=> (participants[c][v] # NoRow /\ participants[c][v].here)
      BY <2>3, <3>1
    <3> QED BY <3>2 DEF Conversation!Present
  <2>6. PICK n \in Nat : n = conversations[c].count /\ conversations' = [conversations EXCEPT ![c].count = n]
    BY <1>0, <2>1, <2>2 DEF ConversationType, ConversationRow
  <2>11. PICK away \in SUBSET Users : away = uncounted[c] /\ uncounted' = [uncounted EXCEPT ![c] = away]
    BY <1>0, <2>1 DEF ConversationType
  <2>7. ~raced => n = Cardinality(Conversation!Present(c)' \cup away)
    <3>1. Exists(c)
      BY <1>0, <2>0, <2>1 DEF ChangeOk
    <3> QED BY <2>2, <2>5, <2>6, <2>11, <3>1 DEF ConversationInv, CountsOk
  <2>8. x.pc # "idle" /\ change' = [change EXCEPT ![k].pc = "done"] /\ UNCHANGED <<lookup, create, erase, raced>>
    BY <1>0, <2>1
  <2>9. new \in MemberRow \cup {NoRow} /\ (participants[c][u] # NoRow => new # NoRow)
    BY <2>3
  <2>10. conversations' = [conversations EXCEPT ![c].count = n]
    BY <2>6
  <2> QED BY <2>0, <2>4, <2>5, <2>7, <2>8, <2>9, <2>10, <2>11, RowWritten
<1>9. CASE Conversation!ChangeFails(k)
  <2>1. x.pc # "idle" /\ change' = [change EXCEPT ![k].pc = "done"] /\ UNCHANGED <<conversations, participants, raced, uncounted>>
    BY <1>9 DEF Conversation!ChangeFails
  <2>2. raced' \in BOOLEAN
    BY <1>0, <2>1 DEF ConversationType
  <2> QED BY <1>2, <2>1, <2>2
<1> QED BY <1>1, <1>3, <1>4, <1>5, <1>6, <1>7, <1>8, <1>9 DEF Conversation!Membership, Conversation!Mute, Conversation!Unmute

\* An erasure that has not committed.
LEMMA ErasureOnly ==
    ASSUME ConversationInv, NEW u \in Erased, NEW x \in EraseCall, erase' = [erase EXCEPT ![u] = x],
           UNCHANGED <<conversations, participants, lookup, create, change, raced, uncounted>>, ErasureOk(u)'
    PROVE  ConversationInv'
<1>1. ConversationType'
  BY DEF ConversationInv, ConversationType
<1>2. \A v \in Erased \ {u} : erase'[v] = erase[v]
  BY DEF ConversationInv, ConversationType
<1>3. ASSUME NEW v \in Erased PROVE ErasureOk(v)'
  <2>1. CASE v = u
    BY <2>1
  <2>2. CASE v # u
    BY <1>2, <2>2 DEF ConversationInv, ErasureOk, Conversation!Erasing, Conversation!InTransaction, Conversation!Present
  <2> QED BY <2>1, <2>2
<1>4. Conversation!LookupIsSound' /\ CountsOk' /\ NothingYet' /\ OneEntry'
  BY DEF ConversationInv, CountsOk, NothingYet, Exists, OneEntry, Registering, Pair, Conversation!LookupIsSound, Conversation!Present
<1>5. \A c \in Creates : CallOk(c)'
  BY DEF ConversationInv, CallOk, Exists, Pair, Alone
<1>6. (\A k \in Changes : ChangeOk(k)') /\ OneAtATime'
  BY DEF ConversationInv, ChangeOk, OneAtATime, Exists, Conversation!Seen, Conversation!Present, Conversation!InTransaction
<1> QED BY <1>1, <1>3, <1>4, <1>5, <1>6 DEF ConversationInv

\* Who leaves by an erasure that commits was there, and stays in the count.
LEMMA CommitErasureStep == ASSUME ConversationInv, NEW u \in Erased, Conversation!CommitErasure(u) PROVE ConversationInv'
<1> DEFINE x == erase[u]
<1>0. ConversationType /\ u \in Users /\ Conversation!LookupIsSound /\ ErasureOk(u)
  BY ConversationAssumption DEF ConversationInv
<1>1. /\ x.pc = "commit" /\ erase' = [erase EXCEPT ![u].pc = "done"]
      /\ participants' = [c \in Creates |-> IF c \notin x.rows THEN participants[c]
                                            ELSE [participants[c] EXCEPT ![u].here = FALSE]]
      /\ lookup' = [p \in DOMAIN lookup |-> IF p \in x.pairs THEN NoRow ELSE lookup[p]]
      /\ create' = [c \in Creates |-> IF create[c].pc # "idle" /\ Pair(c) \in x.pairs
                                      THEN [create[c] EXCEPT !.unlinked = TRUE] ELSE create[c]]
      /\ raced' = (raced \/ \E k \in Changes : change[k].pc = "commit" /\ change[k].conv \in x.rows)
      /\ uncounted' = [c \in Creates |-> IF c \in x.rows THEN uncounted[c] \cup {u} ELSE uncounted[c]]
      /\ UNCHANGED <<conversations, change>>
  BY DEF Conversation!CommitErasure, Conversation!At, Pair
<1>2. x \in [pc : {"lookups", "commit", "done"}, rows : SUBSET Creates, pairs : SUBSET (SUBSET Users)]
      /\ Conversation!Erasing(u)
  BY <1>0, <1>1 DEF ConversationType, EraseCall, Conversation!Erasing
<1>3. \A c \in x.rows : u \in Conversation!Present(c)
  BY <1>0, <1>2 DEF ErasureOk
\* Rows lose nothing but the user's presence.
<1>4. ASSUME NEW c \in Creates
      PROVE  /\ participants'[c] \in [Users -> MemberRow \cup {NoRow}]
             /\ \A v \in Users : participants[c][v] # NoRow => participants'[c][v] # NoRow
             /\ Conversation!Present(c)' = IF c \in x.rows THEN Conversation!Present(c) \ {u} ELSE Conversation!Present(c)
  <2>1. CASE c \notin x.rows
    BY <1>0, <1>1, <2>1 DEF ConversationType, Conversation!Present
  <2>2. CASE c \in x.rows
    <3>1. participants[c] \in [Users -> MemberRow \cup {NoRow}] /\ participants[c][u] \in MemberRow
      BY <1>0, <1>3, <2>2 DEF ConversationType, Conversation!Present
    <3> DEFINE row == [participants[c][u] EXCEPT !.here = FALSE]
    <3>2. row \in MemberRow /\ ~row.here /\ row # NoRow
      BY <3>1, RowsAreRows DEF MemberRow
    <3>3. participants'[c] = [participants[c] EXCEPT ![u] = row]
      BY <1>1, <2>2, <3>1
    <3> HIDE DEF row
    <3>4. participants'[c][u] = row /\ \A v \in Users \ {u} : participants'[c][v] = participants[c][v]
      BY <1>0, <3>1, <3>3
    <3>5. participants'[c] \in [Users -> MemberRow \cup {NoRow}]
      BY <3>1, <3>2, <3>3
    <3> QED BY <2>2, <3>2, <3>4, <3>5 DEF Conversation!Present
  <2> QED BY <2>1, <2>2
<1>5. \A p \in SUBSET Users : lookup'[p] = IF p \in x.pairs THEN NoRow ELSE lookup[p]
  BY <1>0, <1>1 DEF ConversationType
<1>6. ASSUME NEW c \in Creates
      PROVE  /\ create'[c] \in CreateCall /\ create'[c].pc = create[c].pc
             /\ create[c].pc # "idle" =>
                   /\ create'[c].request = create[c].request /\ create'[c].answer = create[c].answer
                   /\ create'[c].found = create[c].found /\ create'[c].own = create[c].own
                   /\ create'[c].known = create[c].known
                   /\ ~create'[c].unlinked => ~create[c].unlinked /\ Pair(c) \notin x.pairs
  <2>1. CASE create[c].pc # "idle" /\ Pair(c) \in x.pairs
    <3>1. create[c] \in CreateAtWork /\ create'[c] = [create[c] EXCEPT !.unlinked = TRUE]
      BY <1>0, <1>1, <2>1 DEF ConversationType, CreateCall, CreateAtWork
    <3>2. /\ create'[c] \in CreateAtWork /\ create'[c].unlinked /\ create'[c].pc = create[c].pc
          /\ create'[c].request = create[c].request /\ create'[c].answer = create[c].answer
          /\ create'[c].found = create[c].found /\ create'[c].own = create[c].own /\ create'[c].known = create[c].known
      BY <3>1 DEF CreateAtWork
    <3> QED BY <3>2 DEF CreateCall, CreateAtWork
  <2>2. CASE ~(create[c].pc # "idle" /\ Pair(c) \in x.pairs)
    BY <1>0, <1>1, <2>2 DEF ConversationType
  <2> QED BY <2>1, <2>2
<1>7. ConversationType'
  <2>1. participants' \in [Creates -> [Users -> MemberRow \cup {NoRow}]]
    BY <1>1, <1>4
  <2>2. lookup' \in [SUBSET Users -> Creates \cup {NoRow}]
    BY <1>0, <1>1 DEF ConversationType
  <2>3. create' \in [Creates -> CreateCall]
    BY <1>1, <1>6
  <2>4. [x EXCEPT !.pc = "done"] \in EraseCall
    BY <1>2 DEF EraseCall
  <2>5. erase' \in [Erased -> EraseCall]
    BY <1>0, <1>1, <2>4 DEF ConversationType
  <2>6. raced' \in BOOLEAN
    BY <1>0, <1>1 DEF ConversationType
  <2>7. uncounted' \in [Creates -> SUBSET Users]
    BY <1>0, <1>1 DEF ConversationType
  <2> QED BY <1>0, <1>1, <2>1, <2>2, <2>3, <2>5, <2>6, <2>7 DEF ConversationType
<1>8. Conversation!LookupIsSound'
  <2> SUFFICES ASSUME NEW p \in SUBSET Users, lookup'[p] # NoRow
               PROVE  conversations'[lookup'[p]] # NoRow /\ \A v \in p : participants'[lookup'[p]][v] # NoRow
    BY <1>7 DEF ConversationType, Conversation!LookupIsSound
  <2>1. lookup'[p] = lookup[p] /\ lookup[p] \in Creates
    BY <1>0, <1>5 DEF ConversationType
  <2>2. conversations[lookup[p]] # NoRow /\ \A v \in p : participants[lookup[p]][v] # NoRow
    BY <1>0, <2>1 DEF ConversationType, Conversation!LookupIsSound
  <2> QED BY <1>1, <1>4, <2>1, <2>2
<1>9. ASSUME NEW c \in Creates PROVE CallOk(c)'
  <2> SUFFICES ASSUME create[c].pc # "idle" PROVE CallOk(c)'
    BY <1>1, <1>6 DEF ConversationInv, CallOk, Exists
  <2>1. Pair(c)' = Pair(c) /\ (Alone(c)' <=> Alone(c)) /\ (Exists(c)' <=> Exists(c)) /\ Pair(c) \in SUBSET Users
    <3>1. create[c].request \in Asked
      BY <1>0 DEF ConversationType, CreateCall
    <3> QED BY <1>1, <1>6, <3>1, RowsAreRows DEF Pair, Alone, Exists
  <2>2. ~create'[c].unlinked => ~create[c].unlinked /\ lookup'[Pair(c)] = lookup[Pair(c)]
    BY <1>5, <1>6, <2>1
  <2>3. lookup[Pair(c)] = NoRow => lookup'[Pair(c)] = NoRow
    BY <1>5, <2>1
  <2>4. CallOk(c)
    BY DEF ConversationInv
  <2> QED BY <1>6, <2>1, <2>2, <2>3, <2>4 DEF CallOk
<1>10. OneEntry'
  <2>1. \A c \in Creates : Registering(c)' => Registering(c) /\ Pair(c)' = Pair(c)
    BY <1>6 DEF Registering, Pair
  <2> QED BY <2>1 DEF ConversationInv, OneEntry
<1>11. ASSUME NEW k \in Changes PROVE ChangeOk(k)'
  <2> SUFFICES ASSUME change[k].pc # "idle" PROVE ChangeOk(k)'
    BY <1>1 DEF ChangeOk
  <2>1. change[k].conv \in Creates /\ change[k].user \in Users /\ ChangeOk(k)
    BY <1>0 DEF ConversationInv, ConversationType, ChangeCall
  <2>2. ~raced' /\ change[k].pc = "commit" => ~raced /\ change[k].conv \notin x.rows
    BY <1>1
  <2>3. change[k].conv \notin x.rows => Conversation!Seen(k)' = Conversation!Seen(k)
    BY <1>1, <1>4, <2>1 DEF Conversation!Seen
  <2> QED BY <1>1, <1>4, <2>1, <2>2, <2>3 DEF ChangeOk, Exists
<1>12. ASSUME NEW v \in Erased PROVE ErasureOk(v)'
  <2> SUFFICES ASSUME Conversation!Erasing(v)' PROVE ErasureOk(v)'
    BY DEF ErasureOk
  <2>1. v # u
    BY <1>0, <1>1, <1>2 DEF ConversationType, Conversation!Erasing
  <2>2. erase'[v] = erase[v]
    BY <1>0, <1>1, <2>1 DEF ConversationType
  <2>3. Conversation!Erasing(v) /\ ErasureOk(v)
    BY <2>2 DEF ConversationInv, Conversation!Erasing
  <2>4. erase[v].rows \subseteq Creates
    BY <1>0, <2>3 DEF ConversationType, EraseCall, Conversation!Erasing
  <2>5. \A c \in erase[v].rows : v \in Conversation!Present(c)'
    BY <1>4, <2>1, <2>3, <2>4 DEF ErasureOk
  <2> QED BY <1>1, <2>2, <2>3, <2>5 DEF ErasureOk, Conversation!InTransaction
<1>13. OneAtATime'
  BY <1>1 DEF ConversationInv, OneAtATime, Conversation!InTransaction
<1>14. CountsOk'
  <2> SUFFICES ASSUME ~raced', NEW c \in Creates, Exists(c)
               PROVE  conversations[c].count = Cardinality(Conversation!Present(c)' \cup uncounted'[c])
    BY <1>1 DEF CountsOk, Exists
  <2>1. Conversation!Present(c)' \cup uncounted'[c] = Conversation!Present(c) \cup uncounted[c]
    <3>1. CASE c \in x.rows
      <4>1. uncounted'[c] = uncounted[c] \cup {u} /\ Conversation!Present(c)' = Conversation!Present(c) \ {u}
        BY <1>0, <1>1, <1>4, <3>1 DEF ConversationType
      <4>2. u \in Conversation!Present(c)
        BY <1>3, <3>1
      <4> QED BY <4>1, <4>2
    <3>2. CASE c \notin x.rows
      BY <1>0, <1>1, <1>4, <3>2 DEF ConversationType
    <3> QED BY <3>1, <3>2
  <2> QED BY <1>1, <2>1 DEF ConversationInv, CountsOk
<1>15. NothingYet'
  <2> SUFFICES ASSUME NEW c \in Creates, ~Exists(c) PROVE Conversation!Present(c)' = {} /\ uncounted'[c] = {}
    BY <1>1 DEF NothingYet, Exists
  <2>1. Conversation!Present(c) = {} /\ uncounted[c] = {}
    BY DEF ConversationInv, NothingYet
  <2>2. c \notin x.rows
    BY <1>3, <2>1
  <2> QED BY <1>1, <1>4, <2>1, <2>2
<1> QED BY <1>7, <1>8, <1>9, <1>10, <1>11, <1>12, <1>13, <1>14, <1>15 DEF ConversationInv

LEMMA ErasureStep == ASSUME ConversationInv, NEW u \in Erased, Conversation!Erasure(u) PROVE ConversationInv'
<1> USE DEF Conversation!RestStays
<1> DEFINE x == erase[u]
<1>0. ConversationType /\ u \in Users /\ ErasureOk(u) /\ x \in EraseCall
  BY ConversationAssumption DEF ConversationInv, ConversationType
<1>1. CASE Conversation!LeaveAll(u)
  <2> DEFINE rows == {c \in Creates : u \in Conversation!Present(c)}
             new == [pc |-> "lookups", rows |-> rows, pairs |-> {}]
  <2>1. /\ erase' = [erase EXCEPT ![u] = new] /\ UNCHANGED <<conversations, participants, lookup, create, change, raced, uncounted>>
        /\ \A k \in Changes : Conversation!InTransaction(k) /\ change[k].user = u => change[k].conv \notin rows
    BY <1>1 DEF Conversation!LeaveAll
  <2>2. new \in EraseCall /\ new.rows = rows
    BY DEF EraseCall
  <2>3. \A c \in rows : u \in Conversation!Present(c)
    OBVIOUS
  <2> HIDE DEF rows, new
  <2>4. erase'[u] = new
    BY <1>0, <2>1 DEF ConversationType
  <2>5. ErasureOk(u)'
    BY <2>1, <2>2, <2>3, <2>4 DEF ErasureOk, Conversation!InTransaction, Conversation!Present
  <2> QED BY <2>1, <2>2, <2>5, ErasureOnly
<1>2. CASE Conversation!DeleteLookups(u)
  <2>1. PICK pairs \in SUBSET (SUBSET Users) : erase' = [erase EXCEPT ![u].pc = "commit", ![u].pairs = pairs]
    BY <1>0, <1>2 DEF Conversation!DeleteLookups, ConversationType
  <2>2. x.pc = "lookups" /\ UNCHANGED <<conversations, participants, lookup, create, change, raced, uncounted>>
    BY <1>2 DEF Conversation!DeleteLookups
  <2> DEFINE new == [[x EXCEPT !.pc = "commit"] EXCEPT !.pairs = pairs]
  <2>6. x \in [pc : {"lookups", "commit", "done"}, rows : SUBSET Creates, pairs : SUBSET (SUBSET Users)]
    BY <1>0, <2>2 DEF EraseCall
  <2>7. new \in [pc : {"lookups", "commit", "done"}, rows : SUBSET Creates, pairs : SUBSET (SUBSET Users)] /\ new.rows = x.rows
    BY <2>6
  <2>8. erase' = [erase EXCEPT ![u] = new]
    BY <1>0, <2>1 DEF ConversationType
  <2>3. erase' = [erase EXCEPT ![u] = new] /\ new \in EraseCall /\ new.rows = x.rows
    BY <2>7, <2>8 DEF EraseCall
  <2> HIDE DEF new
  <2>4. erase'[u] = new /\ Conversation!Erasing(u)
    BY <1>0, <2>2, <2>3 DEF ConversationType, Conversation!Erasing
  <2>5. ErasureOk(u)'
    BY <1>0, <2>2, <2>3, <2>4 DEF ErasureOk, Conversation!InTransaction, Conversation!Present
  <2> QED BY <2>2, <2>3, <2>5, ErasureOnly
<1>3. CASE Conversation!ErasureFails(u)
  <2> DEFINE new == [x EXCEPT !.pc = "done"]
  <2>1. /\ x.pc \in {"lookups", "commit"} /\ erase' = [erase EXCEPT ![u] = new]
        /\ UNCHANGED <<conversations, participants, lookup, create, change, raced, uncounted>>
    BY <1>0, <1>3 DEF Conversation!ErasureFails, Conversation!Erasing, ConversationType
  <2>2. new \in EraseCall /\ new.pc = "done"
    BY <1>0, <2>1 DEF EraseCall
  <2> HIDE DEF new
  <2>3. erase'[u] = new
    BY <1>0, <2>1 DEF ConversationType
  <2>4. ErasureOk(u)'
    BY <2>2, <2>3 DEF ErasureOk, Conversation!Erasing
  <2> QED BY <2>1, <2>2, <2>4, ErasureOnly
<1> QED BY <1>1, <1>2, <1>3, CommitErasureStep DEF Conversation!Erasure

LEMMA ConversationStutter == ASSUME ConversationInv, UNCHANGED conversationVars PROVE ConversationInv'
<1>1. ConversationType' /\ Conversation!LookupIsSound'
  BY DEF conversationVars, ConversationInv, ConversationType, Conversation!LookupIsSound
<1>2. (\A c \in Creates : CallOk(c)') /\ OneEntry'
  BY DEF conversationVars, ConversationInv, CallOk, Exists, Pair, Alone, OneEntry, Registering
<1>3. (\A k \in Changes : ChangeOk(k)') /\ \A u \in Erased : ErasureOk(u)'
  BY DEF conversationVars, ConversationInv, ChangeOk, ErasureOk, Exists, Conversation!Seen, Conversation!Present,
     Conversation!Erasing, Conversation!InTransaction
<1>4. OneAtATime' /\ CountsOk' /\ NothingYet'
  BY DEF conversationVars, ConversationInv, OneAtATime, CountsOk, NothingYet, Exists, Conversation!InTransaction, Conversation!Present
<1> QED BY <1>1, <1>2, <1>3, <1>4 DEF ConversationInv

\* conversation/service.rs, direct_lookup.rs and gdpr/deletion.rs: whichever creations, changes
\* and erasures race or fail, the lookup names stored conversations with a row of both users, a
\* later call for the pair answers with the one it names until an erasure deletes the entry, and
\* the stored count is the number of those present and of those an erasure has taken out since,
\* unless two changes of a conversation overlap.
THEOREM ConversationsAlwaysAgree == Conversation!Spec => [](Conversation!TypeOK /\ Conversation!ConversationsAgree)
<1>1. ConversationInv /\ [Conversation!Next]_(Conversation!convVars) => ConversationInv'
  BY CreationStep, MembershipStep, ErasureStep, ConversationStutter DEF Conversation!Next, Conversation!convVars, conversationVars
<1> QED BY ConversationInit, <1>1, ConversationFacts, PTL DEF Conversation!Spec

ConversationHolds == part \in {"direct", "members"} => ConversationInv

\* The same where conversations are one part of several.
THEOREM ConversationsStayInAgreement == PartsSpec => []ConversationsAgree
<1>1. PartsInit => ConversationHolds
  BY ConversationInit DEF PartsInit, ConversationHolds
<1>2. ConversationHolds /\ [PartsNext]_mcVars => ConversationHolds'
  <2> SUFFICES ASSUME ConversationHolds, [PartsNext]_mcVars, part' \in {"direct", "members"} PROVE ConversationInv'
    BY DEF ConversationHolds
  <2>0. part \in {"direct", "members"} /\ ConversationInv /\ (ConversationNext \/ UNCHANGED conversationVars)
    BY DEF ConversationHolds, PartsNext, mcVars
  <2>1. CASE ConversationNext
    BY <2>0, <2>1, CreationStep, MembershipStep, ErasureStep, ConversationAssumption DEF ConversationNext
  <2> QED BY <2>0, <2>1, ConversationStutter
<1>3. ConversationHolds => ConversationsAgree
  BY ConversationFacts DEF ConversationHolds, ConversationsAgree
<1> QED BY <1>1, <1>2, <1>3, PTL DEF PartsSpec, mcVars

(***************************************************************************)
(* Reactions                                                               *)
(***************************************************************************)
ToggleCall ==
    {[pc |-> "idle"]} \cup
    [pc : {"has", "write", "participants", "route", "push", "done"}, row : Reaction!Rows,
     action : {"Add", "Remove"}, todo : SUBSET Members]
FetchCall == {[pc |-> "idle"]} \cup [pc : {"answer", "done"}, user : Members, rows : SUBSET Reaction!Rows]

\* Toggles that are past their statement.
Written == {t \in Toggles : toggle[t].pc \in {"participants", "route", "push", "done"}}

ReactionType ==
    /\ reactions \subseteq Reaction!Rows /\ pushed \subseteq Reaction!Rows
    /\ shown \in [Members -> SUBSET Reaction!Rows]
    /\ toggle \in [Toggles -> ToggleCall]
    /\ fetch \in [Fetches -> FetchCall]
    /\ applied \in [Reaction!Rows -> Nat]
    /\ \A r \in Reaction!Rows : applied[r] <= Cardinality(Written)
    /\ overlapped \in BOOLEAN /\ unrouted \in BOOLEAN /\ crossed \subseteq Members

LEMMA ReactionCardinality == ASSUME NEW S PROVE Reaction!Cardinality(S) = Cardinality(S)
BY DEF Reaction!Cardinality, Cardinality

LEMMA WrittenGrows ==
    ASSUME Written \subseteq Written'
    PROVE  Cardinality(Written) <= Cardinality(Written') /\ {Cardinality(Written), Cardinality(Written')} \subseteq Nat
<1>1. IsFiniteSet(Written) /\ IsFiniteSet(Written')
  BY ReactionAssumption, FS_Subset DEF Written
<1>2. \A S, T : IsFiniteSet(T) /\ S \subseteq T => Cardinality(S) <= Cardinality(T)
  BY FS_Subset
<1> QED BY <1>1, <1>2, FS_CardinalityType

\* The user's clients have still to be told of a toggle of the row.
Pending(r, u) ==
    \E t \in Toggles : /\ toggle[t].pc \in {"participants", "route"} /\ toggle[t].row = r
                       /\ toggle[t].pc = "route" => u \in toggle[t].todo

OneOpen == \A s, t \in Toggles : Reaction!Open(s) /\ Reaction!Open(t) /\ toggle[s].row = toggle[t].row => s = t

\* What a toggle is to do, and what it has done, agrees with the row.
ActionsFit ==
    \A t \in Toggles :
        /\ toggle[t].pc = "write" => (toggle[t].action = "Remove" <=> toggle[t].row \in reactions)
        /\ toggle[t].pc \in {"participants", "route"} => (toggle[t].action = "Add" <=> toggle[t].row \in reactions)

ParityFits == \A r \in Reaction!Rows : r \in reactions <=> applied[r] % 2 = 1

\* Clients, and answers on their way, show the rows they have been told of.
ClientsFit == \A u \in Members \ crossed, r \in Reaction!Rows : ~Pending(r, u) => (r \in shown[u] <=> r \in reactions)
AnswersFit ==
    \A f \in Fetches : fetch[f].pc = "answer" /\ fetch[f].user \notin crossed =>
        \A r \in Reaction!Rows : ~Pending(r, fetch[f].user) => (r \in fetch[f].rows <=> r \in reactions)

ReactionInv ==
    /\ ReactionType
    /\ ~overlapped => OneOpen /\ ActionsFit /\ ParityFits /\ (~unrouted => ClientsFit /\ AnswersFit)

LEMMA ReactionInit == Reaction!Init => ReactionInv
<1> SUFFICES ASSUME Reaction!Init PROVE ReactionInv
  OBVIOUS
<1>1. Written = {}
  BY DEF Reaction!Init, Written
<1>2. ReactionType
  <2>1. Cardinality(Written) = 0
    BY <1>1, FS_EmptySet
  <2>2. toggle \in [Toggles -> ToggleCall] /\ fetch \in [Fetches -> FetchCall]
    BY DEF Reaction!Init, ToggleCall, FetchCall
  <2>3. /\ reactions \subseteq Reaction!Rows /\ pushed \subseteq Reaction!Rows /\ shown \in [Members -> SUBSET Reaction!Rows]
        /\ overlapped \in BOOLEAN /\ unrouted \in BOOLEAN /\ crossed \subseteq Members
    BY DEF Reaction!Init
  <2>4. applied \in [Reaction!Rows -> Nat] /\ \A r \in Reaction!Rows : applied[r] = 0
    BY DEF Reaction!Init
  <2> QED BY <2>1, <2>2, <2>3, <2>4 DEF ReactionType
<1> QED
  BY <1>2 DEF Reaction!Init, ReactionInv, OneOpen, ActionsFit, ParityFits, ClientsFit, AnswersFit, Reaction!Open

LEMMA ReactionFacts == ReactionInv => Reaction!TypeOK /\ Reaction!ReactionsConverge
<1> SUFFICES ASSUME ReactionInv PROVE Reaction!TypeOK /\ Reaction!ReactionsConverge
  OBVIOUS
<1>1. Reaction!TypeOK
  <2>1. IsFiniteSet(Written) /\ Cardinality(Written) \in Nat /\ Cardinality(Toggles) \in Nat /\ Cardinality(Written) <= Cardinality(Toggles)
    BY ReactionAssumption, FS_Subset, FS_CardinalityType DEF Written
  <2>2. applied \in [Reaction!Rows -> 0..Cardinality(Toggles)]
    BY <2>1 DEF ReactionInv, ReactionType
  <2>3. \A t \in Toggles : toggle[t].pc # "idle" => toggle[t].row \in Reaction!Rows /\ toggle[t].todo \subseteq Members
    BY DEF ReactionInv, ReactionType, ToggleCall
  <2>4. \A f \in Fetches : fetch[f].pc # "idle" => fetch[f].user \in Members
    BY DEF ReactionInv, ReactionType, FetchCall
  <2> QED BY <2>2, <2>3, <2>4, ReactionCardinality DEF ReactionInv, ReactionType, Reaction!TypeOK
<1>2. ASSUME ~overlapped, Reaction!AtRest, ~unrouted, NEW u \in Members \ crossed PROVE shown[u] = reactions
  <2>1. \A r \in Reaction!Rows : ~Pending(r, u)
    BY <1>2 DEF Reaction!AtRest, Reaction!Open, Pending
  <2>2. \A r \in Reaction!Rows : r \in shown[u] <=> r \in reactions
    BY <1>2, <2>1 DEF ReactionInv, ClientsFit
  <2> QED BY <2>2 DEF ReactionInv, ReactionType
<1> QED BY <1>1, <1>2 DEF ReactionInv, ParityFits, Reaction!ReactionsConverge

\* A step that takes toggle t to x, neither writes nor tells anybody.
LEMMA ToggleOnly ==
    ASSUME ReactionInv, NEW t \in Toggles, NEW x \in ToggleCall, toggle' = [toggle EXCEPT ![t] = x],
           UNCHANGED <<reactions, shown, fetch, applied, crossed>>, pushed' \subseteq Reaction!Rows,
           overlapped' \in BOOLEAN, unrouted' \in BOOLEAN, overlapped => overlapped', unrouted => unrouted',
           x.pc # "idle",
           t \in Written => x.pc \notin {"has", "write"},
           ~overlapped' => \A o \in Toggles \ {t} : Reaction!Open(o) /\ x.pc # "done" => toggle[o].row # x.row,
           x.pc = "write" => (x.action = "Remove" <=> x.row \in reactions),
           x.pc \in {"participants", "route"} => /\ toggle[t].pc \in {"participants", "route"} /\ x.action = toggle[t].action
                                                 /\ x.row = toggle[t].row,
           ~unrouted' /\ toggle[t].pc = "participants" => x.pc = "route" /\ x.todo = Members,
           toggle[t].pc = "route" => FALSE
    PROVE  ReactionInv'
<1>1. toggle'[t] = x /\ \A o \in Toggles \ {t} : toggle'[o] = toggle[o]
  BY DEF ReactionInv, ReactionType
<1>2. ReactionType'
  <2>1. Written \subseteq Written'
    BY <1>1 DEF Written, ToggleCall
  <2>2. \A r \in Reaction!Rows : applied[r] \in Nat /\ applied[r] <= Cardinality(Written)
    BY DEF ReactionInv, ReactionType
  <2>3. \A r \in Reaction!Rows : applied'[r] <= Cardinality(Written')
    BY <2>1, <2>2, WrittenGrows
  <2> QED BY <2>3 DEF ReactionInv, ReactionType
<1> SUFFICES ASSUME ~overlapped' PROVE OneOpen' /\ ActionsFit' /\ ParityFits' /\ (~unrouted' => ClientsFit' /\ AnswersFit')
  BY <1>2 DEF ReactionInv
<1>3. OneOpen /\ ActionsFit /\ ParityFits
  BY DEF ReactionInv
<1>4. OneOpen'
  BY <1>1, <1>3 DEF OneOpen, Reaction!Open
<1>5. ActionsFit'
  BY <1>1, <1>3 DEF ActionsFit
<1>6. ParityFits'
  BY <1>3 DEF ParityFits
<1>7. ASSUME ~unrouted' PROVE ClientsFit' /\ AnswersFit'
  <2>1. ASSUME NEW r \in Reaction!Rows, NEW u \in Members, Pending(r, u) PROVE Pending(r, u)'
    <3>1. PICK o \in Toggles : /\ toggle[o].pc \in {"participants", "route"} /\ toggle[o].row = r
                               /\ toggle[o].pc = "route" => u \in toggle[o].todo
      BY <2>1 DEF Pending
    <3>2. CASE o # t
      BY <1>1, <3>1, <3>2 DEF Pending
    <3>3. CASE o = t
      BY <1>1, <1>7, <3>1, <3>3 DEF Pending
    <3> QED BY <3>2, <3>3
  <2>2. ClientsFit /\ AnswersFit
    BY <1>7 DEF ReactionInv
  <2>3. ClientsFit'
    BY <2>1, <2>2 DEF ClientsFit
  <2>4. \A f \in Fetches : fetch[f].pc = "answer" => fetch[f].user \in Members
    BY DEF ReactionInv, ReactionType, FetchCall
  <2> QED BY <2>1, <2>2, <2>3, <2>4 DEF AnswersFit
<1> QED BY <1>4, <1>5, <1>6, <1>7

\* The statement of toggle t.
LEMMA RowWrittenStep ==
    ASSUME ReactionInv, NEW t \in Toggles, Reaction!AddReaction(t) \/ Reaction!RemoveReaction(t)
    PROVE  ReactionInv'
<1> DEFINE x == toggle[t]
           new == [x EXCEPT !.pc = "participants"]
<1>0. ReactionType /\ x.pc = "write" /\ x \in ToggleCall
  BY DEF ReactionInv, ReactionType, Reaction!AddReaction, Reaction!RemoveReaction
<1>1. PICK row \in Reaction!Rows : x.row = row
  BY <1>0 DEF ToggleCall
<1>2. /\ toggle' = [toggle EXCEPT ![t].pc = "participants"] /\ applied' = [applied EXCEPT ![row] = @ + 1]
      /\ UNCHANGED <<shown, pushed, fetch, overlapped, unrouted, crossed>>
      /\ \/ x.action = "Add" /\ reactions' = reactions \cup {row}
         \/ x.action = "Remove" /\ reactions' = reactions \ {row}
  BY <1>1 DEF Reaction!AddReaction, Reaction!RemoveReaction, Reaction!Applied, Reaction!Goto
<1>3. new \in ToggleCall /\ new.pc = "participants" /\ new.row = row /\ new.action = x.action
  BY <1>0, <1>1 DEF ToggleCall
<1>4. toggle'[t] = new /\ (\A o \in Toggles \ {t} : toggle'[o] = toggle[o]) /\ toggle' \in [Toggles -> ToggleCall]
  BY <1>0, <1>2, <1>3 DEF ReactionType
<1> HIDE DEF new
<1>5. /\ (row \in reactions' <=> x.action = "Add") /\ reactions' \subseteq Reaction!Rows
      /\ \A r \in Reaction!Rows \ {row} : r \in reactions' <=> r \in reactions
  BY <1>0, <1>2 DEF ReactionType
<1>6. /\ applied' \in [Reaction!Rows -> Nat] /\ applied'[row] = applied[row] + 1
      /\ \A r \in Reaction!Rows \ {row} : applied'[r] = applied[r]
      /\ \A r \in Reaction!Rows : applied[r] \in Nat /\ applied'[r] <= applied[r] + 1 /\ applied[r] <= Cardinality(Written)
  BY <1>0, <1>2 DEF ReactionType
<1>7. ReactionType'
  <2>1. Written' = Written \cup {t} /\ t \notin Written
    BY <1>0, <1>3, <1>4 DEF Written
  <2>2. IsFiniteSet(Written)
    BY ReactionAssumption, FS_Subset DEF Written
  <2>3. Cardinality(Written') = Cardinality(Written) + 1 /\ Cardinality(Written) \in Nat
    BY <2>1, <2>2, FS_AddElement, FS_CardinalityType
  <2>4. \A r \in Reaction!Rows : applied'[r] <= Cardinality(Written')
    <3> SUFFICES ASSUME NEW r \in Reaction!Rows PROVE applied'[r] <= Cardinality(Written')
      OBVIOUS
    <3>1. applied[r] \in Nat /\ applied'[r] \in Nat /\ applied'[r] <= applied[r] + 1 /\ applied[r] <= Cardinality(Written)
      BY <1>6
    <3> QED BY <2>3, <3>1
  <2> QED BY <1>0, <1>2, <1>4, <1>5, <1>6, <2>4 DEF ReactionType
<1> SUFFICES ASSUME ~overlapped PROVE OneOpen' /\ ActionsFit' /\ ParityFits' /\ (~unrouted => ClientsFit' /\ AnswersFit')
  BY <1>2, <1>7 DEF ReactionInv
<1>8. OneOpen /\ ActionsFit /\ ParityFits /\ (~unrouted => ClientsFit /\ AnswersFit)
  BY DEF ReactionInv
<1>9. \A o \in Toggles \ {t} : Reaction!Open(o) => toggle[o].row # row
  BY <1>0, <1>1, <1>8 DEF OneOpen, Reaction!Open
<1>10. OneOpen'
  BY <1>3, <1>4, <1>9, <1>8 DEF OneOpen, Reaction!Open
<1>11. ActionsFit'
  <2> SUFFICES ASSUME NEW o \in Toggles
               PROVE  /\ toggle'[o].pc = "write" => (toggle'[o].action = "Remove" <=> toggle'[o].row \in reactions')
                      /\ toggle'[o].pc \in {"participants", "route"} => (toggle'[o].action = "Add" <=> toggle'[o].row \in reactions')
    BY DEF ActionsFit
  <2>1. CASE o = t
    BY <1>3, <1>4, <1>5, <2>1
  <2>2. CASE o # t
    <3>1. toggle'[o] = toggle[o] /\ (toggle[o].pc \in {"write", "participants", "route"} => toggle[o].row \in Reaction!Rows \ {row})
      BY <1>0, <1>4, <1>9, <2>2 DEF ReactionType, ToggleCall, Reaction!Open
    <3> QED BY <1>5, <1>8, <3>1 DEF ActionsFit
  <2> QED BY <2>1, <2>2
<1>12. ParityFits'
  <2>1. applied[row] \in Nat /\ (row \in reactions <=> applied[row] % 2 = 1) /\ (row \in reactions <=> x.action = "Remove")
    BY <1>0, <1>1, <1>6, <1>8 DEF ParityFits, ActionsFit
  <2>2. row \in reactions' <=> applied'[row] % 2 = 1
    <3>1. (applied[row] + 1) % 2 = 1 <=> ~(applied[row] % 2 = 1)
      BY <2>1
    <3> QED BY <1>2, <1>5, <1>6, <2>1, <3>1
  <2>3. \A r \in Reaction!Rows \ {row} : r \in reactions' <=> applied'[r] % 2 = 1
    BY <1>5, <1>6, <1>8 DEF ParityFits
  <2> QED BY <2>2, <2>3 DEF ParityFits
<1>13. ASSUME ~unrouted PROVE ClientsFit' /\ AnswersFit'
  <2>1. \A u \in Members : Pending(row, u)'
    BY <1>3, <1>4 DEF Pending
  <2>2. ASSUME NEW r \in Reaction!Rows \ {row}, NEW u \in Members, Pending(r, u) PROVE Pending(r, u)'
    <3>1. PICK o \in Toggles : /\ toggle[o].pc \in {"participants", "route"} /\ toggle[o].row = r
                               /\ toggle[o].pc = "route" => u \in toggle[o].todo
      BY <2>2 DEF Pending
    <3>2. o # t
      BY <1>1, <3>1
    <3> QED BY <1>4, <3>1, <3>2 DEF Pending
  <2>3. ClientsFit'
    BY <1>2, <1>5, <1>8, <1>13, <2>1, <2>2 DEF ClientsFit
  <2>4. \A f \in Fetches : fetch[f].pc = "answer" => fetch[f].user \in Members
    BY <1>0 DEF ReactionType, FetchCall
  <2> QED BY <1>2, <1>5, <1>8, <1>13, <2>1, <2>2, <2>3, <2>4 DEF AnswersFit
<1> QED BY <1>10, <1>11, <1>12, <1>13

\* A client is told.
LEMMA TellStep ==
    ASSUME ReactionInv, NEW t \in Toggles, NEW v \in Members, Reaction!Tell(t, v)
    PROVE  ReactionInv'
<1> DEFINE x == toggle[t]
           left == x.todo \ {v}
           at == IF left = {} THEN "push" ELSE "route"
           new == [[x EXCEPT !.todo = left] EXCEPT !.pc = at]
           rows == Reaction!After(x.row, x.action, shown[v])
<1>0. ReactionType /\ x.pc = "route" /\ x \in ToggleCall /\ v \in x.todo
  BY DEF ReactionInv, ReactionType, Reaction!Tell
<1>1. PICK row \in Reaction!Rows : x.row = row
  BY <1>0 DEF ToggleCall
<1>2. /\ toggle' = [toggle EXCEPT ![t] = new] /\ shown' = [shown EXCEPT ![v] = rows]
      /\ UNCHANGED <<reactions, pushed, fetch, applied, overlapped, unrouted>>
      /\ crossed' = (IF \E f \in Fetches : fetch[f].pc = "answer" /\ fetch[f].user = v THEN crossed \cup {v} ELSE crossed)
  BY <1>0 DEF Reaction!Tell, ReactionType
<1>3. new \in ToggleCall /\ new.pc \in {"push", "route"} /\ new.row = row /\ new.action = x.action /\ new.todo = x.todo \ {v}
      /\ (left # {} => new.pc = "route")
  <2> DEFINE Going == [pc : {"has", "write", "participants", "route", "push", "done"}, row : Reaction!Rows,
                       action : {"Add", "Remove"}, todo : SUBSET Members]
  <2>1. x \in Going /\ left \in SUBSET Members /\ at \in {"push", "route"}
    BY <1>0 DEF ToggleCall
  <2> HIDE DEF left, at
  <2>2. new \in Going /\ new.pc = at /\ new.row = x.row /\ new.action = x.action /\ new.todo = left
    BY <2>1
  <2> QED BY <1>1, <2>1, <2>2 DEF ToggleCall, left, at
<1> HIDE DEF new
<1>4. toggle'[t] = new /\ (\A o \in Toggles \ {t} : toggle'[o] = toggle[o]) /\ toggle' \in [Toggles -> ToggleCall]
  BY <1>0, <1>2, <1>3 DEF ReactionType
<1>5. /\ rows \subseteq Reaction!Rows /\ (row \in rows <=> x.action = "Add")
      /\ \A r \in Reaction!Rows \ {row} : r \in rows <=> r \in shown[v]
  BY <1>0, <1>1 DEF ReactionType, Reaction!After, ToggleCall
<1> HIDE DEF rows
<1>6. /\ shown' \in [Members -> SUBSET Reaction!Rows] /\ shown'[v] = rows
      /\ \A u \in Members \ {v} : shown'[u] = shown[u]
  BY <1>0, <1>2, <1>5 DEF ReactionType
<1>7. ReactionType'
  <2>1. Written \subseteq Written'
    BY <1>3, <1>4 DEF Written
  <2>2. \A r \in Reaction!Rows : applied[r] \in Nat /\ applied[r] <= Cardinality(Written)
    BY <1>0 DEF ReactionType
  <2>3. \A r \in Reaction!Rows : applied[r] <= Cardinality(Written')
    BY <2>1, <2>2, WrittenGrows
  <2> QED BY <1>0, <1>2, <1>4, <1>6, <2>3 DEF ReactionType
<1> SUFFICES ASSUME ~overlapped PROVE OneOpen' /\ ActionsFit' /\ ParityFits' /\ (~unrouted => ClientsFit' /\ AnswersFit')
  BY <1>2, <1>7 DEF ReactionInv
<1>8. OneOpen /\ ActionsFit /\ ParityFits /\ (~unrouted => ClientsFit /\ AnswersFit)
  BY DEF ReactionInv
<1>9. row \in reactions <=> x.action = "Add"
  BY <1>0, <1>1, <1>8 DEF ActionsFit
<1>10. OneOpen' /\ ParityFits'
  BY <1>0, <1>1, <1>2, <1>3, <1>4, <1>8 DEF OneOpen, ParityFits, Reaction!Open
<1>11. ActionsFit'
  BY <1>2, <1>3, <1>4, <1>8, <1>9 DEF ActionsFit
<1>12. ASSUME ~unrouted PROVE ClientsFit' /\ AnswersFit'
  <2>1. ASSUME NEW r \in Reaction!Rows, NEW u \in Members, ~(r = row /\ u = v), Pending(r, u) PROVE Pending(r, u)'
    <3>1. PICK o \in Toggles : /\ toggle[o].pc \in {"participants", "route"} /\ toggle[o].row = r
                               /\ toggle[o].pc = "route" => u \in toggle[o].todo
      BY <2>1 DEF Pending
    <3>2. CASE o # t
      BY <1>4, <3>1, <3>2 DEF Pending
    <3>3. CASE o = t
      <4>1. u \in left
        BY <1>0, <1>1, <2>1, <3>1, <3>3
      <4> QED BY <1>1, <1>3, <1>4, <3>1, <3>3, <4>1 DEF Pending
    <3> QED BY <3>2, <3>3
  <2>2. ClientsFit'
    <3> SUFFICES ASSUME NEW u \in Members, u \notin crossed, NEW r \in Reaction!Rows, ~Pending(r, u)' PROVE r \in shown'[u] <=> r \in reactions
      BY <1>2 DEF ClientsFit
    <3>1. CASE r = row /\ u = v
      BY <1>5, <1>6, <1>9, <3>1
    <3>2. CASE ~(r = row /\ u = v)
      <4>1. r \in shown[u] <=> r \in reactions
        BY <1>8, <1>12, <2>1, <3>2 DEF ClientsFit
      <4> QED BY <1>5, <1>6, <3>2, <4>1
    <3> QED BY <3>1, <3>2
  <2>3. AnswersFit'
    <3> SUFFICES ASSUME NEW f \in Fetches, fetch[f].pc = "answer", fetch[f].user \notin crossed', NEW r \in Reaction!Rows,
                        ~Pending(r, fetch[f].user)'
                 PROVE  r \in fetch[f].rows <=> r \in reactions
      BY <1>2 DEF AnswersFit
    <3>1. fetch[f].user \in Members /\ fetch[f].user # v /\ fetch[f].user \notin crossed
      BY <1>0, <1>2 DEF ReactionType, FetchCall
    <3>2. fetch' = fetch
      BY <1>2
    <3> QED BY <1>8, <1>12, <2>1, <3>1, <3>2 DEF AnswersFit
  <2> QED BY <2>2, <2>3
<1> QED BY <1>10, <1>11, <1>12

LEMMA ToggleStep == ASSUME ReactionInv, NEW t \in Toggles, Reaction!Toggle(t) PROVE ReactionInv'
<1> DEFINE x == toggle[t]
           Going == [pc : {"has", "write", "participants", "route", "push", "done"}, row : Reaction!Rows,
                     action : {"Add", "Remove"}, todo : SUBSET Members]
<1>0. ReactionType /\ x \in ToggleCall /\ (x.pc # "idle" => x \in Going) /\ Going \subseteq ToggleCall
  BY DEF ReactionInv, ReactionType, ToggleCall
<1>f. pushed \subseteq Reaction!Rows /\ overlapped \in BOOLEAN /\ unrouted \in BOOLEAN
  BY <1>0 DEF ReactionType
<1>o. ~overlapped => \A o \in Toggles \ {t} : Reaction!Open(o) /\ Reaction!Open(t) => toggle[o].row # x.row
  BY DEF ReactionInv, OneOpen
<1>1. ASSUME NEW r \in Reaction!Rows, Reaction!FindMessage(t, r) PROVE ReactionInv'
  <2> DEFINE new == [pc |-> "has", row |-> r, action |-> "Add", todo |-> {}]
             over == \E o \in Toggles : Reaction!Open(o) /\ toggle[o].row = r
  <2>1. /\ x.pc = "idle" /\ toggle' = [toggle EXCEPT ![t] = new] /\ overlapped' = (overlapped \/ over)
        /\ UNCHANGED <<reactions, shown, pushed, fetch, applied, unrouted, crossed>>
    BY <1>1 DEF Reaction!FindMessage
  <2>2. new \in ToggleCall /\ new.pc = "has" /\ new.row = r
    BY DEF ToggleCall
  <2>3. overlapped' \in BOOLEAN /\ (overlapped => overlapped') /\ (~overlapped' => ~over)
    BY <2>1, Zenon
  <2> HIDE DEF new
  <2>4. /\ ~overlapped' => \A o \in Toggles \ {t} : Reaction!Open(o) /\ new.pc # "done" => toggle[o].row # new.row
        /\ t \notin Written /\ unrouted' \in BOOLEAN /\ (unrouted => unrouted') /\ pushed' \subseteq Reaction!Rows
    BY <1>f, <2>1, <2>2, <2>3 DEF Written
  <2> QED BY <2>1, <2>2, <2>3, <2>4, ToggleOnly
(* Every other step takes the call to a later place.                        *)
<1>2. ASSUME x \in Going, NEW at \in {"write", "participants", "route", "push", "done"}, NEW new \in Going,
             toggle' = [toggle EXCEPT ![t] = new], new.pc = at, new.row = x.row,
             UNCHANGED <<reactions, shown, fetch, applied, overlapped, crossed>>, pushed' \subseteq Reaction!Rows,
             unrouted' \in BOOLEAN, unrouted => unrouted',
             x.pc # "done", x.pc # "route",
             at = "write" => x.pc = "has" /\ (new.action = "Remove" <=> new.row \in reactions),
             at \in {"participants", "route"} => x.pc \in {"participants", "route"} /\ new.action = x.action,
             ~unrouted' /\ x.pc = "participants" => at = "route" /\ new.todo = Members
      PROVE  ReactionInv'
  <2>1. ~overlapped' => \A o \in Toggles \ {t} : Reaction!Open(o) /\ new.pc # "done" => toggle[o].row # new.row
    BY <1>2, <1>o DEF Reaction!Open
  <2>2. t \in Written => new.pc \notin {"has", "write"}
    BY <1>2 DEF Written
  <2>3. overlapped' \in BOOLEAN /\ (overlapped => overlapped') /\ new \in ToggleCall /\ new.pc # "idle"
    BY <1>0, <1>2, <1>f
  <2> QED BY <1>2, <2>1, <2>2, <2>3, ToggleOnly
<1>3. CASE Reaction!HasReaction(t)
  <2> DEFINE a == IF x.row \in reactions THEN "Remove" ELSE "Add"
             new == [[x EXCEPT !.pc = "write"] EXCEPT !.action = a]
  <2>1. /\ x.pc = "has" /\ toggle' = [toggle EXCEPT ![t].pc = "write", ![t].action = a]
        /\ UNCHANGED <<reactions, shown, pushed, fetch, applied, overlapped, unrouted, crossed>>
    BY <1>3 DEF Reaction!HasReaction, Reaction!historyVars
  <2>2. x \in Going /\ a \in {"Add", "Remove"} /\ (a = "Remove" <=> x.row \in reactions)
    BY <1>0, <2>1
  <2> HIDE DEF a
  <2>3. new \in Going /\ new.pc = "write" /\ new.row = x.row /\ new.action = a
    BY <2>2
  <2>4. toggle' = [toggle EXCEPT ![t] = new]
    BY <1>0, <2>1 DEF ReactionType
  <2> HIDE DEF new, Going
  <2> QED BY <1>2, <1>f, <2>1, <2>2, <2>3, <2>4
<1>4. ASSUME NEW at \in {"push", "done"}, toggle' = [toggle EXCEPT ![t].pc = at], x.pc \in {"has", "write", "participants", "push"},
             UNCHANGED <<reactions, shown, fetch, applied, overlapped, crossed>>, pushed' \subseteq Reaction!Rows,
             unrouted' \in BOOLEAN, unrouted => unrouted', x.pc = "participants" => unrouted'
      PROVE  ReactionInv'
  <2> DEFINE new == [x EXCEPT !.pc = at]
  <2>1. x \in Going
    BY <1>0, <1>4
  <2>2. new \in Going /\ new.pc = at /\ new.row = x.row /\ toggle' = [toggle EXCEPT ![t] = new]
    BY <1>4, <2>1
  <2> HIDE DEF new, Going
  <2> QED BY <1>2, <1>4, <2>1, <2>2
<1>5. CASE Reaction!ToggleFails(t)
  BY <1>4, <1>5, <1>f DEF Reaction!ToggleFails, Reaction!Goto, Reaction!historyVars
<1>6. CASE Reaction!Push(t)
  <2>1. /\ x.pc = "push" /\ toggle' = [toggle EXCEPT ![t].pc = "done"]
        /\ UNCHANGED <<reactions, shown, fetch, applied, overlapped, unrouted, crossed>>
    BY <1>6 DEF Reaction!Push, Reaction!Goto, Reaction!historyVars
  <2>2. pushed' \subseteq pushed \cup {x.row} /\ x.row \in Reaction!Rows
    BY <1>0, <1>6, <2>1 DEF Reaction!Push
  <2> QED BY <1>4, <1>f, <2>1, <2>2
<1>7. CASE Reaction!GetParticipants(t)
  <2>1. x.pc = "participants" /\ UNCHANGED <<reactions, shown, pushed, fetch, applied, overlapped, crossed>>
    BY <1>7 DEF Reaction!GetParticipants
  <2>2. CASE unrouted' = TRUE /\ toggle' = [toggle EXCEPT ![t].pc = "push"]
    BY <1>4, <1>f, <2>1, <2>2
  <2>3. CASE UNCHANGED unrouted /\ toggle' = [toggle EXCEPT ![t].pc = "route", ![t].todo = Members]
    <3> DEFINE new == [[x EXCEPT !.pc = "route"] EXCEPT !.todo = Members]
    <3>1. x \in Going
      BY <1>0, <2>1
    <3>2. new \in Going /\ new.pc = "route" /\ new.row = x.row /\ new.action = x.action /\ new.todo = Members
      BY <3>1
    <3>3. toggle' = [toggle EXCEPT ![t] = new]
      BY <1>0, <2>3 DEF ReactionType
    <3> HIDE DEF new, Going
    <3> QED BY <1>2, <1>f, <2>1, <2>3, <3>1, <3>2, <3>3
  <2> QED BY <1>7, <2>2, <2>3 DEF Reaction!GetParticipants, Reaction!Goto
<1> QED BY <1>1, <1>3, <1>5, <1>6, <1>7, RowWrittenStep, TellStep DEF Reaction!Toggle

LEMMA FetchStep == ASSUME ReactionInv, NEW f \in Fetches, Reaction!Fetch(f) PROVE ReactionInv'
<1>0. ReactionType
  BY DEF ReactionInv
<1>1. ASSUME NEW u \in Members, Reaction!GetReactions(f, u) PROVE ReactionInv'
  <2> DEFINE new == [pc |-> "answer", user |-> u, rows |-> reactions]
  <2>1. fetch' = [fetch EXCEPT ![f] = new] /\ UNCHANGED <<reactions, shown, pushed, toggle, applied, overlapped, unrouted, crossed>>
    BY <1>1 DEF Reaction!GetReactions, Reaction!historyVars
  <2>2. new \in FetchCall /\ new.user = u /\ new.rows = reactions
    BY <1>0 DEF ReactionType, FetchCall
  <2> HIDE DEF new
  <2>3. fetch'[f] = new /\ (\A g \in Fetches \ {f} : fetch'[g] = fetch[g]) /\ fetch' \in [Fetches -> FetchCall]
    BY <1>0, <2>1, <2>2 DEF ReactionType
  <2>4. ReactionType'
    BY <1>0, <2>1, <2>3 DEF ReactionType, Written
  <2>5. AnswersFit => AnswersFit'
    BY <2>1, <2>2, <2>3 DEF AnswersFit, Pending
  <2>6. (OneOpen => OneOpen') /\ (ActionsFit => ActionsFit') /\ (ParityFits => ParityFits') /\ (ClientsFit => ClientsFit')
    BY <2>1 DEF OneOpen, ActionsFit, ParityFits, ClientsFit, Pending, Reaction!Open
  <2> QED BY <2>1, <2>4, <2>5, <2>6 DEF ReactionInv
<1>2. CASE Reaction!SendReactions(f)
  <2> DEFINE new == [fetch[f] EXCEPT !.pc = "done"]
             rows == fetch[f].rows
  <2>1. /\ fetch[f].pc = "answer" /\ fetch' = [fetch EXCEPT ![f] = new] /\ shown' = [shown EXCEPT ![fetch[f].user] = rows]
        /\ UNCHANGED <<reactions, pushed, toggle, applied, overlapped, unrouted, crossed>>
    BY <1>0, <1>2 DEF Reaction!SendReactions, Reaction!historyVars, ReactionType
  <2>2. PICK u \in Members : u = fetch[f].user /\ rows \subseteq Reaction!Rows
    BY <1>0, <2>1 DEF ReactionType, FetchCall
  <2>3. new \in FetchCall /\ new.pc = "done"
    BY <1>0, <2>1 DEF ReactionType, FetchCall
  <2> HIDE DEF new, rows
  <2>4. fetch'[f] = new /\ (\A g \in Fetches \ {f} : fetch'[g] = fetch[g]) /\ fetch' \in [Fetches -> FetchCall]
    BY <1>0, <2>1, <2>3 DEF ReactionType
  <2>5. shown'[u] = rows /\ (\A v \in Members \ {u} : shown'[v] = shown[v]) /\ shown' \in [Members -> SUBSET Reaction!Rows]
    BY <1>0, <2>1, <2>2 DEF ReactionType
  <2>6. ReactionType'
    BY <1>0, <2>1, <2>4, <2>5 DEF ReactionType, Written
  <2>7. AnswersFit => AnswersFit'
    BY <2>1, <2>3, <2>4 DEF AnswersFit, Pending
  <2>8. (OneOpen => OneOpen') /\ (ActionsFit => ActionsFit') /\ (ParityFits => ParityFits')
    BY <2>1 DEF OneOpen, ActionsFit, ParityFits, Reaction!Open
  <2>9. ASSUME ClientsFit, AnswersFit PROVE ClientsFit'
    <3> SUFFICES ASSUME NEW v \in Members, v \notin crossed, NEW r \in Reaction!Rows, ~Pending(r, v) PROVE r \in shown'[v] <=> r \in reactions
      BY <2>1 DEF ClientsFit, Pending
    <3>1. CASE v = u
      BY <2>1, <2>2, <2>5, <2>9, <3>1 DEF AnswersFit, rows
    <3>2. CASE v # u
      BY <2>5, <2>9, <3>2 DEF ClientsFit
    <3> QED BY <3>1, <3>2
  <2> QED BY <2>1, <2>6, <2>7, <2>8, <2>9 DEF ReactionInv
<1> QED BY <1>1, <1>2 DEF Reaction!Fetch

LEMMA ReactionStutter == ASSUME ReactionInv, UNCHANGED reactionVars PROVE ReactionInv'
<1>1. ReactionType'
  BY DEF reactionVars, ReactionInv, ReactionType, Written
<1>2. (OneOpen => OneOpen') /\ (ActionsFit => ActionsFit') /\ (ParityFits => ParityFits')
  BY DEF reactionVars, OneOpen, ActionsFit, ParityFits, Reaction!Open
<1>3. (ClientsFit => ClientsFit') /\ (AnswersFit => AnswersFit')
  BY DEF reactionVars, ClientsFit, AnswersFit, Pending
<1>4. overlapped' = overlapped /\ unrouted' = unrouted
  BY DEF reactionVars
<1> QED BY <1>1, <1>2, <1>3, <1>4 DEF ReactionInv

\* domain/reaction: a row is there after an odd number of toggles that succeeded, and
\* once nothing is open all clients show the rows, if toggles of a row do not
\* overlap, updates are routed and none overtakes an answer.
THEOREM ReactionsAlwaysConverge == Reaction!Spec => [](Reaction!TypeOK /\ Reaction!ReactionsConverge)
<1>1. ReactionInv /\ [Reaction!Next]_(Reaction!reactionVars) => ReactionInv'
  BY ToggleStep, FetchStep, ReactionStutter DEF Reaction!Next, Reaction!reactionVars, reactionVars
<1> QED BY ReactionInit, <1>1, ReactionFacts, PTL DEF Reaction!Spec

ReactionHolds == part = "reactions" => ReactionInv

\* The same where reactions are one part of several.
THEOREM ReactionsStayConvergent == PartsSpec => []ReactionsConverge
<1>1. PartsInit => ReactionHolds
  BY ReactionInit DEF PartsInit, ReactionHolds
<1>2. ReactionHolds /\ [PartsNext]_mcVars => ReactionHolds'
  <2> SUFFICES ASSUME ReactionHolds, [PartsNext]_mcVars, part' = "reactions" PROVE ReactionInv'
    BY DEF ReactionHolds
  <2>0. ReactionInv /\ (Reaction!Next \/ UNCHANGED reactionVars)
    BY DEF ReactionHolds, PartsNext, ReactionNext, mcVars
  <2> QED BY <2>0, ToggleStep, FetchStep, ReactionStutter DEF Reaction!Next
<1>3. ReactionHolds => ReactionsConverge
  BY ReactionFacts DEF ReactionHolds, ReactionsConverge
<1> QED BY <1>1, <1>2, <1>3, PTL DEF PartsSpec, mcVars

(***************************************************************************)
(* Subscriptions                                                           *)
(***************************************************************************)
AskCall ==
    [pc : {"idle", "check", "mode", "add", "remove", "answer"}, kind : {"none", "subscribe", "unsubscribe", "auto"},
     ids : Seq(Topics), valid : Seq(Topics), done : SUBSET Topics]

SubscriptionType ==
    /\ registered \subseteq Sockets /\ explicit \subseteq Sockets /\ silenced \subseteq Sockets
    /\ subscribed \in [Sockets -> SUBSET Topics] /\ known \in [Sockets -> SUBSET Topics] /\ withheld \in [Sockets -> SUBSET Topics]
    /\ ask \in [Sockets -> AskCall]
    /\ asks \in [Sockets -> 0..MaxAsks]

\* The place a request is at fits its kind.
AskOk(c) ==
    LET r == ask[c] IN
    /\ r.kind = "none" <=> r.pc = "idle"
    /\ r.pc \in {"check", "mode", "add"} => r.kind # "unsubscribe"
    /\ r.pc = "remove" => r.kind = "unsubscribe"

\* What the only client has been told, and is about to be told, is what is subscribed.
ToldOk(c) ==
    LET r == ask[c] IN
    c \in registered =>
        /\ r.kind = "unsubscribe" => known[c] \ r.done \subseteq subscribed[c]
        /\ r.kind # "unsubscribe" => known[c] \subseteq subscribed[c] /\ r.done \subseteq subscribed[c]

OneSocket == Cardinality(Sockets) = 1
LimitOk(c) == IsFiniteSet(subscribed[c]) /\ Cardinality(subscribed[c]) <= MaxSubs

SubscriptionInv ==
    /\ SubscriptionType
    /\ \A c \in Sockets : AskOk(c) /\ LimitOk(c)
    /\ OneSocket => \A c \in Sockets : ToldOk(c) /\ withheld[c] = {}

LEMMA SubscriptionCardinality == ASSUME NEW S PROVE Subscription!Cardinality(S) = Cardinality(S)
BY DEF Subscription!Cardinality, Cardinality

LEMMA QuietIsACall ==
    LET q == Subscription!Quiet IN q \in AskCall /\ q.pc = "idle" /\ q.kind = "none" /\ q.done = {}
<1>1. <<>> \in Seq(Topics)
  OBVIOUS
<1> QED BY <1>1 DEF Subscription!Quiet, AskCall

LEMMA SubscriptionInit == Subscription!Init => SubscriptionInv
<1> SUFFICES ASSUME Subscription!Init PROVE SubscriptionInv
  OBVIOUS
<1>2. SubscriptionType
  BY QuietIsACall, SubscriptionAssumption DEF Subscription!Init, SubscriptionType
<1>3. \A c \in Sockets : LimitOk(c)
  BY SubscriptionAssumption, FS_EmptySet DEF Subscription!Init, LimitOk
<1>4. \A c \in Sockets : AskOk(c) /\ ToldOk(c) /\ withheld[c] = {}
  BY QuietIsACall DEF Subscription!Init, AskOk, ToldOk
<1> QED BY <1>2, <1>3, <1>4 DEF SubscriptionInv

LEMMA SubscriptionFacts == SubscriptionInv => Subscription!TypeOK /\ Subscription!ConfirmedIsDelivered
<1> SUFFICES ASSUME SubscriptionInv PROVE Subscription!TypeOK /\ Subscription!ConfirmedIsDelivered
  OBVIOUS
<1>1. Subscription!TypeOK
  BY DEF SubscriptionInv, SubscriptionType, AskCall, Subscription!TypeOK
<1>2. Subscription!ConfirmedIsDelivered
  BY SubscriptionCardinality DEF SubscriptionInv, LimitOk, OneSocket, ToldOk, Subscription!ConfirmedIsDelivered
<1> QED BY <1>1, <1>2

\* A step of the request of c, which may change what c has subscribed.
LEMMA AskOnly ==
    ASSUME SubscriptionInv, NEW c \in Sockets, NEW x \in AskCall, NEW s \in SUBSET Topics,
           ask' = [ask EXCEPT ![c] = x], subscribed' = [subscribed EXCEPT ![c] = s],
           explicit' \subseteq Sockets, asks' \in [Sockets -> 0..MaxAsks], UNCHANGED <<registered, known, withheld, silenced>>,
           x.kind = "none" <=> x.pc = "idle",
           x.pc \in {"check", "mode", "add"} => x.kind # "unsubscribe",
           x.pc = "remove" => x.kind = "unsubscribe",
           IsFiniteSet(s) /\ Cardinality(s) <= MaxSubs,
           OneSocket /\ c \in registered =>
              /\ x.kind = "unsubscribe" => known[c] \ x.done \subseteq s
              /\ x.kind # "unsubscribe" => known[c] \subseteq s /\ x.done \subseteq s
    PROVE  SubscriptionInv'
<1>1. /\ ask'[c] = x /\ subscribed'[c] = s
      /\ \A d \in Sockets \ {c} : ask'[d] = ask[d] /\ subscribed'[d] = subscribed[d]
  BY DEF SubscriptionInv, SubscriptionType
<1>2. SubscriptionType'
  BY DEF SubscriptionInv, SubscriptionType
<1>3. ASSUME NEW d \in Sockets PROVE AskOk(d)' /\ LimitOk(d)' /\ (OneSocket => ToldOk(d)' /\ withheld'[d] = {})
  <2>1. CASE d = c
    BY <1>1, <2>1 DEF SubscriptionInv, AskOk, LimitOk, ToldOk
  <2>2. CASE d # c
    BY <1>1, <2>2 DEF SubscriptionInv, AskOk, LimitOk, ToldOk
  <2> QED BY <2>1, <2>2
<1> QED BY <1>2, <1>3 DEF SubscriptionInv, OneSocket

LEMMA AskStep ==
    ASSUME SubscriptionInv, NEW c \in Sockets,
           \/ \E kind \in {"subscribe", "unsubscribe", "auto"}, ids \in Seq(Topics) : Subscription!BeginAsk(c, kind, ids)
           \/ Subscription!CheckParticipation(c) \/ Subscription!SetExplicit(c) \/ Subscription!Add(c)
           \/ Subscription!Remove(c) \/ Subscription!AnswerAsk(c)
    PROVE  SubscriptionInv'
<1> DEFINE x == ask[c]
           mine == subscribed[c]
<1>0. /\ SubscriptionType /\ x \in AskCall /\ AskOk(c) /\ LimitOk(c) /\ mine \in SUBSET Topics
      /\ (OneSocket => ToldOk(c)) /\ subscribed = [subscribed EXCEPT ![c] = mine]
      /\ asks \in [Sockets -> 0..MaxAsks] /\ explicit \subseteq Sockets
  BY DEF SubscriptionInv, SubscriptionType
<1>t. /\ x.ids \in Seq(Topics) /\ x.valid \in Seq(Topics) /\ x.done \in SUBSET Topics
      /\ x.pc \in {"idle", "check", "mode", "add", "remove", "answer"} /\ x.kind \in {"none", "subscribe", "unsubscribe", "auto"}
  BY <1>0 DEF AskCall
<1>1. ASSUME NEW kind \in {"subscribe", "unsubscribe", "auto"}, NEW ids \in Seq(Topics), Subscription!BeginAsk(c, kind, ids)
      PROVE  SubscriptionInv'
  <2> DEFINE at == CASE kind = "subscribe" -> "check" [] kind = "unsubscribe" -> "remove" [] kind = "auto" -> "mode"
             new == [[[Subscription!Quiet EXCEPT !.kind = kind] EXCEPT !.ids = ids] EXCEPT !.pc = at]
  <2>1. /\ x.pc = "idle" /\ asks[c] < MaxAsks /\ asks' = [asks EXCEPT ![c] = @ + 1] /\ ask' = [ask EXCEPT ![c] = new]
        /\ UNCHANGED <<registered, explicit, subscribed, known, withheld, silenced>>
    BY <1>1 DEF Subscription!BeginAsk, Subscription!seenVars
  <2>2. asks' \in [Sockets -> 0..MaxAsks]
    BY <1>0, <2>1, SubscriptionAssumption
  <2>3. /\ at \in {"check", "remove", "mode"} /\ (at = "remove" <=> kind = "unsubscribe")
    OBVIOUS
  <2> HIDE DEF at
  <2>4. Subscription!Quiet \in AskCall /\ Subscription!Quiet.done = {}
    BY QuietIsACall
  <2>5. new \in AskCall /\ new.pc = at /\ new.kind = kind /\ new.done = {}
    BY <2>3, <2>4 DEF AskCall
  <2> HIDE DEF new
  <2>6. x.kind = "none"
    BY <1>0, <2>1 DEF AskOk
  <2> QED BY <1>0, <2>1, <2>2, <2>3, <2>5, <2>6, AskOnly DEF LimitOk, ToldOk
(* A step that leaves what is subscribed and the request's kind and list.   *)
<1>2. ASSUME NEW new \in AskCall, ask' = [ask EXCEPT ![c] = new], explicit' \subseteq Sockets,
             UNCHANGED <<registered, subscribed, asks, known, withheld, silenced>>,
             x.pc # "idle", new.kind = x.kind, new.done = x.done,
             new.pc \in {"check", "mode", "add", "answer"},
             new.pc \in {"check", "mode", "add"} => x.kind # "unsubscribe"
      PROVE  SubscriptionInv'
  <2>1. subscribed' = [subscribed EXCEPT ![c] = mine] /\ asks' \in [Sockets -> 0..MaxAsks]
    BY <1>0, <1>2
  <2>2. (new.kind = "none" <=> new.pc = "idle")
    BY <1>0, <1>2 DEF AskOk
  <2>3. OneSocket /\ c \in registered =>
              /\ new.kind = "unsubscribe" => known[c] \ new.done \subseteq mine
              /\ new.kind # "unsubscribe" => known[c] \subseteq mine /\ new.done \subseteq mine
    BY <1>0, <1>2 DEF ToldOk
  <2> QED BY <1>0, <1>2, <2>1, <2>2, <2>3, AskOnly DEF LimitOk
<1>3. CASE Subscription!CheckParticipation(c)
  <2>1. x.pc = "check" /\ UNCHANGED <<registered, explicit, subscribed, asks, known, withheld, silenced>> /\ x.kind # "unsubscribe"
    BY <1>0, <1>3 DEF Subscription!CheckParticipation, Subscription!seenVars, AskOk
  <2>2. CASE x.ids = <<>>
    <3> DEFINE at == IF x.valid = <<>> THEN "answer" ELSE "mode"
               new == [[x EXCEPT !.ids = x.valid] EXCEPT !.pc = at]
    <3>1. ask' = [ask EXCEPT ![c] = new]
      BY <1>0, <1>3, <2>2 DEF Subscription!CheckParticipation, SubscriptionType
    <3>2. at \in {"answer", "mode"}
      OBVIOUS
    <3> HIDE DEF at
    <3>3. new \in AskCall /\ new.kind = x.kind /\ new.done = x.done /\ new.pc = at
      BY <1>0, <1>t, <3>2 DEF AskCall
    <3> HIDE DEF new
    <3> QED BY <1>0, <1>2, <2>1, <3>1, <3>2, <3>3
  <2>3. CASE x.ids # <<>>
    <3>1. PICK failed \in BOOLEAN :
             ask' = [ask EXCEPT ![c].ids = Tail(x.ids),
                         ![c].valid = IF Head(x.ids) \in Joined /\ ~failed THEN Append(@, Head(x.ids)) ELSE @]
      BY <1>3, <2>3 DEF Subscription!CheckParticipation
    <3> DEFINE valid == IF Head(x.ids) \in Joined /\ ~failed THEN Append(x.valid, Head(x.ids)) ELSE x.valid
               new == [[x EXCEPT !.ids = Tail(x.ids)] EXCEPT !.valid = valid]
    <3>2. ask' = [ask EXCEPT ![c] = new]
      BY <1>0, <3>1 DEF SubscriptionType, AskCall
    <3>3. valid \in Seq(Topics) /\ Tail(x.ids) \in Seq(Topics)
      BY <1>t, <2>3
    <3> HIDE DEF valid
    <3>4. new \in AskCall /\ new.kind = x.kind /\ new.done = x.done /\ new.pc = x.pc
      BY <1>0, <3>3 DEF AskCall
    <3> HIDE DEF new
    <3> QED BY <1>0, <1>2, <2>1, <3>2, <3>4
  <2> QED BY <2>2, <2>3
<1>4. ASSUME NEW at \in {"add", "answer"}, ask' = [ask EXCEPT ![c].pc = at], explicit' \subseteq Sockets,
             UNCHANGED <<registered, subscribed, asks, known, withheld, silenced>>, x.pc # "idle",
             at = "add" => x.kind # "unsubscribe"
      PROVE  SubscriptionInv'
  <2> DEFINE new == [x EXCEPT !.pc = at]
  <2>1. new \in AskCall /\ new.kind = x.kind /\ new.done = x.done /\ new.pc = at /\ ask' = [ask EXCEPT ![c] = new]
    BY <1>0, <1>4 DEF AskCall
  <2> HIDE DEF new
  <2> QED BY <1>2, <1>4, <2>1
<1>5. CASE Subscription!SetExplicit(c)
  BY <1>0, <1>4, <1>5 DEF Subscription!SetExplicit, Subscription!To, Subscription!seenVars, AskOk
<1>6. CASE Subscription!Add(c)
  <2>1. x.pc = "add" /\ UNCHANGED <<registered, explicit, asks, known, withheld, silenced>> /\ x.kind \in {"subscribe", "auto"}
    BY <1>0, <1>t, <1>6 DEF Subscription!Add, Subscription!seenVars, AskOk
  <2>2. CASE x.ids = <<>> \/ Cardinality(mine) >= MaxSubs
    BY <1>0, <1>4, <1>6, <2>1, <2>2, SubscriptionCardinality DEF Subscription!Add, Subscription!To
  <2>3. CASE ~(x.ids = <<>> \/ Cardinality(mine) >= MaxSubs)
    <3> DEFINE k == Head(x.ids)
               done == x.done \cup ({k} \ mine)
               new == [[x EXCEPT !.ids = Tail(x.ids)] EXCEPT !.done = done]
    <3>1. subscribed' = [subscribed EXCEPT ![c] = mine \cup {k}] /\ ask' = [ask EXCEPT ![c] = new]
      BY <1>0, <1>6, <2>3, SubscriptionCardinality DEF Subscription!Add, SubscriptionType, AskCall
    <3>2. k \in Topics /\ Tail(x.ids) \in Seq(Topics) /\ done \in SUBSET Topics
      BY <1>t, <2>3
    <3>3. OneSocket /\ c \in registered => known[c] \subseteq mine \cup {k} /\ done \subseteq mine \cup {k}
      BY <1>0, <2>1 DEF ToldOk
    <3>4. IsFiniteSet(mine \cup {k}) /\ Cardinality(mine \cup {k}) <= MaxSubs
      <4>1. IsFiniteSet(mine) /\ Cardinality(mine) \in Nat /\ Cardinality(mine) < MaxSubs /\ MaxSubs \in Nat
        BY <1>0, <2>3, FS_CardinalityType, SubscriptionAssumption DEF LimitOk
      <4> HIDE DEF mine, k
      <4>2. IsFiniteSet(mine \cup {k}) /\ Cardinality(mine \cup {k}) \in {Cardinality(mine), Cardinality(mine) + 1}
        BY <4>1, FS_AddElement
      <4> QED BY <4>1, <4>2
    <3> HIDE DEF k, done
    <3>5. new \in AskCall /\ new.kind = x.kind /\ new.done = done /\ new.pc = x.pc
      BY <1>0, <3>2 DEF AskCall
    <3> HIDE DEF new
    <3>6. mine \cup {k} \in SUBSET Topics
      BY <1>0, <3>2
    <3> QED BY <1>0, <2>1, <3>1, <3>3, <3>4, <3>5, <3>6, AskOnly
  <2> QED BY <2>2, <2>3
<1>7. CASE Subscription!Remove(c)
  <2>1. x.pc = "remove" /\ UNCHANGED <<registered, explicit, asks, known, withheld, silenced>> /\ x.kind = "unsubscribe"
    BY <1>0, <1>t, <1>7 DEF Subscription!Remove, Subscription!seenVars, AskOk
  <2>2. CASE x.ids = <<>>
    BY <1>0, <1>4, <1>7, <2>1, <2>2 DEF Subscription!Remove, Subscription!To
  <2>3. CASE x.ids # <<>>
    <3> DEFINE k == Head(x.ids)
               done == x.done \cup ({k} \cap mine)
               new == [[x EXCEPT !.ids = Tail(x.ids)] EXCEPT !.done = done]
    <3>1. subscribed' = [subscribed EXCEPT ![c] = mine \ {k}] /\ ask' = [ask EXCEPT ![c] = new]
      BY <1>0, <1>7, <2>3 DEF Subscription!Remove, SubscriptionType, AskCall
    <3>2. k \in Topics /\ Tail(x.ids) \in Seq(Topics) /\ done \in SUBSET Topics
      BY <1>t, <2>3
    <3>3. OneSocket /\ c \in registered => known[c] \ done \subseteq mine \ {k}
      BY <1>0, <2>1 DEF ToldOk
    <3>4. IsFiniteSet(mine \ {k}) /\ Cardinality(mine \ {k}) <= MaxSubs
      <4>1. IsFiniteSet(mine) /\ Cardinality(mine) \in Nat /\ Cardinality(mine) <= MaxSubs /\ MaxSubs \in Nat
        BY <1>0, FS_CardinalityType, SubscriptionAssumption DEF LimitOk
      <4> HIDE DEF mine, k
      <4>2. IsFiniteSet(mine \ {k}) /\ Cardinality(mine \ {k}) \in {Cardinality(mine), Cardinality(mine) - 1}
        BY <4>1, FS_RemoveElement
      <4> QED BY <4>1, <4>2
    <3> HIDE DEF k, done
    <3>5. new \in AskCall /\ new.kind = x.kind /\ new.done = done /\ new.pc = x.pc
      BY <1>0, <3>2 DEF AskCall
    <3> HIDE DEF new
    <3>6. mine \ {k} \in SUBSET Topics
      BY <1>0
    <3> QED BY <1>0, <2>1, <3>1, <3>3, <3>4, <3>5, <3>6, AskOnly
  <2> QED BY <2>2, <2>3
<1>8. CASE Subscription!AnswerAsk(c)
  <2>1. /\ x.pc = "answer" /\ ask' = [ask EXCEPT ![c] = Subscription!Quiet] /\ UNCHANGED <<registered, explicit, subscribed, asks, withheld, silenced>>
        /\ known' = [d \in Sockets |->
              CASE d \notin registered \/ x.kind = "auto" -> known[d]
                [] x.kind = "subscribe" -> known[d] \cup x.done
                [] x.kind = "unsubscribe" -> known[d] \ x.done]
    BY <1>8 DEF Subscription!AnswerAsk, Subscription!seenVars
  <2>2. Subscription!Quiet \in AskCall /\ Subscription!Quiet.pc = "idle" /\ Subscription!Quiet.kind = "none" /\ Subscription!Quiet.done = {}
    BY QuietIsACall
  <2>3. /\ ask'[c] = Subscription!Quiet /\ (\A d \in Sockets \ {c} : ask'[d] = ask[d]) /\ ask' \in [Sockets -> AskCall]
    BY <1>0, <2>1, <2>2 DEF SubscriptionType
  <2>4. x.kind \in {"subscribe", "unsubscribe", "auto"}
    BY <1>0, <1>t, <2>1 DEF AskOk
  <2>5. \A d \in Sockets : known'[d] \in SUBSET Topics
    BY <1>0, <1>t, <2>1, <2>4 DEF SubscriptionType
  <2>6. SubscriptionType'
    BY <1>0, <2>1, <2>3, <2>5 DEF SubscriptionType
  <2>7. \A d \in Sockets : AskOk(d)' /\ LimitOk(d)'
    BY <2>1, <2>2, <2>3 DEF SubscriptionInv, AskOk, LimitOk
  <2>8. ASSUME OneSocket, NEW d \in Sockets PROVE ToldOk(d)' /\ withheld'[d] = {}
    <3>1. d = c
      BY <2>8, SubscriptionAssumption, FS_Singleton DEF OneSocket
    <3>2. c \in registered => known'[c] \subseteq mine
      BY <1>0, <1>t, <2>1, <2>4, <2>8 DEF ToldOk
    <3> QED BY <2>1, <2>2, <2>3, <2>8, <3>1, <3>2 DEF SubscriptionInv, ToldOk
  <2> QED BY <2>6, <2>7, <2>8 DEF SubscriptionInv, OneSocket
<1> QED BY <1>1, <1>3, <1>5, <1>6, <1>7, <1>8

LEMMA SubscriptionStep == ASSUME SubscriptionInv, Subscription!Next PROVE SubscriptionInv'
<1>1. ASSUME NEW c \in Sockets, Subscription!Unregister(c) PROVE SubscriptionInv'
  <2>1. registered' = registered \ {c} /\ UNCHANGED <<explicit, subscribed, ask, asks, known, withheld, silenced>>
    BY <1>1 DEF Subscription!Unregister, Subscription!seenVars
  <2> QED BY <2>1 DEF SubscriptionInv, SubscriptionType, AskOk, LimitOk, ToldOk, OneSocket
<1>2. ASSUME NEW k \in Topics, NEW system \in BOOLEAN, Subscription!RouteEvent(k, system) PROVE SubscriptionInv'
  <2> DEFINE left == {c \in registered : ~Subscription!ShouldReceive(c, k, system)}
  <2>1. /\ withheld' = [c \in Sockets |-> IF c \in left /\ k \in known[c] /\ ask[c].kind # "unsubscribe"
                                           THEN withheld[c] \cup {k} ELSE withheld[c]]
        /\ silenced' = silenced \cup {c \in left : known[c] = {} /\ ask[c].kind # "subscribe"}
        /\ UNCHANGED <<registered, explicit, subscribed, ask, asks, known>>
    BY <1>2 DEF Subscription!RouteEvent
  <2>2. \A c \in left : c \in registered /\ k \notin subscribed[c]
    BY DEF Subscription!ShouldReceive
  <2> HIDE DEF left
  <2>3. SubscriptionType'
    <3>1. left \subseteq registered
      BY <2>2
    <3> QED BY <2>1, <3>1 DEF SubscriptionInv, SubscriptionType
  <2>4. \A c \in Sockets : AskOk(c)' /\ LimitOk(c)'
    BY <2>1 DEF SubscriptionInv, AskOk, LimitOk
  <2>5. ASSUME OneSocket, NEW c \in Sockets PROVE ToldOk(c)' /\ withheld'[c] = {}
    <3>1. ToldOk(c) /\ withheld[c] = {}
      BY <2>5 DEF SubscriptionInv
    <3>2. ToldOk(c)'
      BY <2>1, <3>1 DEF ToldOk
    <3>3. ~(c \in left /\ k \in known[c] /\ ask[c].kind # "unsubscribe")
      BY <2>2, <3>1 DEF ToldOk
    <3> QED BY <2>1, <3>1, <3>2, <3>3
  <2> QED BY <2>3, <2>4, <2>5 DEF SubscriptionInv, OneSocket
<1>3. /\ \A k \in Topics : <<k>> \in Seq(Topics)
      /\ \A j, k \in Topics : <<j, k>> \in Seq(Topics)
  OBVIOUS
<1>4. ASSUME NEW c \in Sockets, NEW kind \in {"subscribe", "unsubscribe", "auto"}, NEW ids \in Seq(Topics), Subscription!BeginAsk(c, kind, ids)
      PROVE  SubscriptionInv'
  BY <1>4, AskStep
<1>5. ASSUME NEW c \in Sockets,
             \/ Subscription!CheckParticipation(c) \/ Subscription!SetExplicit(c) \/ Subscription!Add(c)
             \/ Subscription!Remove(c) \/ Subscription!AnswerAsk(c)
      PROVE  SubscriptionInv'
  BY <1>5, AskStep
<1>6. ASSUME NEW c \in Sockets, NEW kind \in {"subscribe", "unsubscribe"},
             NEW ids \in {<<k>> : k \in Topics} \cup {<<j, k>> : j, k \in Topics}, Subscription!BeginAsk(c, kind, ids)
      PROVE  SubscriptionInv'
  <2>1. CASE ids \in {<<k>> : k \in Topics}
    <3>1. PICK k \in Topics : ids = <<k>>
      BY <2>1
    <3>2. ids \in Seq(Topics)
      BY <3>1
    <3> QED BY <1>4, <1>6, <3>2
  <2>2. CASE ids \in {<<j, k>> : j, k \in Topics}
    <3>1. PICK j \in Topics, k \in Topics : ids = <<j, k>>
      BY <2>2
    <3>2. ids \in Seq(Topics)
      BY <3>1
    <3> QED BY <1>4, <1>6, <3>2
  <2> QED BY <2>1, <2>2
<1>7. ASSUME NEW c \in Sockets, NEW k \in Topics, Subscription!BeginAsk(c, "auto", <<k>>) PROVE SubscriptionInv'
  BY <1>3, <1>4, <1>7
<1>8. CASE \E k \in Topics, system \in BOOLEAN : Subscription!RouteEvent(k, system)
  BY <1>2, <1>8
<1>9. CASE \E c \in Sockets :
              \/ \E kind \in {"subscribe", "unsubscribe"}, ids \in {<<k>> : k \in Topics} \cup {<<j, k>> : j, k \in Topics} :
                    Subscription!BeginAsk(c, kind, ids)
              \/ \E k \in Topics : Subscription!BeginAsk(c, "auto", <<k>>)
              \/ Subscription!CheckParticipation(c) \/ Subscription!SetExplicit(c) \/ Subscription!Add(c)
              \/ Subscription!Remove(c) \/ Subscription!AnswerAsk(c)
              \/ Subscription!Unregister(c)
  <2>0. PICK c \in Sockets :
              \/ \E kind \in {"subscribe", "unsubscribe"}, ids \in {<<k>> : k \in Topics} \cup {<<j, k>> : j, k \in Topics} :
                    Subscription!BeginAsk(c, kind, ids)
              \/ \E k \in Topics : Subscription!BeginAsk(c, "auto", <<k>>)
              \/ Subscription!CheckParticipation(c) \/ Subscription!SetExplicit(c) \/ Subscription!Add(c)
              \/ Subscription!Remove(c) \/ Subscription!AnswerAsk(c)
              \/ Subscription!Unregister(c)
    BY <1>9
  <2>1. CASE \E kind \in {"subscribe", "unsubscribe"}, ids \in {<<k>> : k \in Topics} \cup {<<j, k>> : j, k \in Topics} :
                Subscription!BeginAsk(c, kind, ids)
    BY <1>6, <2>1
  <2>2. CASE \E k \in Topics : Subscription!BeginAsk(c, "auto", <<k>>)
    BY <1>7, <2>2
  <2>3. CASE \/ Subscription!CheckParticipation(c) \/ Subscription!SetExplicit(c) \/ Subscription!Add(c)
             \/ Subscription!Remove(c) \/ Subscription!AnswerAsk(c)
    BY <1>5, <2>3
  <2>4. CASE Subscription!Unregister(c)
    BY <1>1, <2>4
  <2> QED BY <2>0, <2>1, <2>2, <2>3, <2>4
<1> QED BY <1>8, <1>9 DEF Subscription!Next

LEMMA SubscriptionStutter == ASSUME SubscriptionInv, UNCHANGED subscriptionVars PROVE SubscriptionInv'
BY DEF subscriptionVars, SubscriptionInv, SubscriptionType, AskOk, LimitOk, ToldOk, OneSocket

\* subscription.rs, websocket.rs: a connection never has more subscriptions than
\* the limit, and of one alone every event is delivered of the conversations
\* its client was told it is subscribed to.
THEOREM ConfirmedIsAlwaysDelivered == Subscription!Spec => [](Subscription!TypeOK /\ Subscription!ConfirmedIsDelivered)
<1>1. SubscriptionInv /\ [Subscription!Next]_(Subscription!subVars) => SubscriptionInv'
  BY SubscriptionStep, SubscriptionStutter DEF Subscription!subVars, subscriptionVars
<1> QED BY SubscriptionInit, <1>1, SubscriptionFacts, PTL DEF Subscription!Spec

SubscriptionHolds == part = "subscriptions" => SubscriptionInv

\* The same where subscriptions are one part of several.
THEOREM ConfirmedStaysDelivered == PartsSpec => []ConfirmedIsDelivered
<1>1. PartsInit => SubscriptionHolds
  BY SubscriptionInit DEF PartsInit, SubscriptionHolds
<1>2. SubscriptionHolds /\ [PartsNext]_mcVars => SubscriptionHolds'
  <2> SUFFICES ASSUME SubscriptionHolds, [PartsNext]_mcVars, part' = "subscriptions" PROVE SubscriptionInv'
    BY DEF SubscriptionHolds
  <2>0. SubscriptionInv /\ (Subscription!Next \/ UNCHANGED subscriptionVars)
    BY DEF SubscriptionHolds, PartsNext, mcVars
  <2> QED BY <2>0, SubscriptionStep, SubscriptionStutter
<1>3. SubscriptionHolds => ConfirmedIsDelivered
  BY SubscriptionFacts DEF SubscriptionHolds, ConfirmedIsDelivered
<1> QED BY <1>1, <1>2, <1>3, PTL DEF PartsSpec, mcVars

(***************************************************************************)
(* Receipts and unread counters                                            *)
(***************************************************************************)
ReadPC == {"upsert", "update", "get", "delete", "send", "done", "failed"}
ReadCall == [pc : {"idle"}] \cup [pc : ReadPC, chat : Chats, read_at : Nat, seen : Nat]
SyncCall ==
    [pc : {"idle", "total", "scan", "mget", "done", "failed"}, total : Nat, keys : SUBSET Chats,
     counts : UNION {[S -> Nat] : S \in SUBSET Chats}, had : [Chats -> SUBSET Nat]]

\* Messages counted as unread, numbered in their conversations.
Messages(f) == UNION {{k} \X (1..f[k]) : k \in Chats}

Arrivals == [pc : {"idle", "done"}] \cup [pc : {"counted"}, chat : Chats]
Expiries == [count : [Chats -> Nat], total : Nat, made : Nat]
CountersType ==
    /\ count \in [Chats -> Nat] /\ total \in Int
    /\ arriving \in [Incoming -> Arrivals] /\ ttl \in Expiries
    /\ doubled \in BOOLEAN /\ slipped \in BOOLEAN /\ lapsed \in BOOLEAN /\ curtailed \in BOOLEAN
    /\ IsFiniteSet(Messages(count))
MarksType ==
    /\ clock \in Nat
    /\ receipt \in [Chats -> 0..clock] /\ participant \in [Chats -> 0..clock]
    /\ announced \in [Chats -> SUBSET (1..clock)]
    /\ mark \in [Marks -> ReadCall]
    /\ \A c \in Marks : mark[c].pc # "idle" => mark[c].read_at \in 1..clock

\* The receipt leads what was announced, written beside it and marked.
Leads ==
    /\ \A k \in Chats : participant[k] <= receipt[k] /\ \A t \in announced[k] : t <= receipt[k]
    /\ \A c \in Marks : mark[c].pc \in {"update", "get", "delete", "send", "done"} =>
          mark[c].read_at <= receipt[mark[c].chat]

\* A reset is alone, and the total covers, with what is counted, what the
\* resets that are open will take from it: their counter may be gone by then.
ResetsFit ==
    /\ \A c, d \in Marks : mark[c].pc = "delete" /\ mark[d].pc = "delete" /\ mark[c].chat = mark[d].chat => c = d
    /\ \A c \in Marks : mark[c].pc = "delete" /\ ~slipped /\ ~lapsed => mark[c].seen = count[mark[c].chat]
Covers(w) ==
    /\ \A k \in Chats : count[k] <= w[k]
    /\ \A c \in Marks : mark[c].pc = "delete" => mark[c].seen <= w[mark[c].chat]
    /\ IsFiniteSet(Messages(w)) /\ total >= Cardinality(Messages(w))
TotalFits ==
    /\ \E w \in [Chats -> Nat] : Covers(w)
    /\ ~slipped /\ ~lapsed => total = Cardinality(Messages(count))

\* A sync knows the counts there are.
Knows ==
    /\ sync.pc \in {"scan", "mget"} => \A k \in Chats : count[k] \in sync.had[k]
    /\ sync.pc = "mget" => \A k \in Chats \ sync.keys : 0 \in sync.had[k]
    /\ Receipts!SyncIsFresh

RowsInv == CountersType /\ MarksType /\ Leads /\ (~doubled /\ ~curtailed => ResetsFit /\ TotalFits)
ReadingInv == RowsInv /\ sync \in SyncCall /\ Knows

LEMMA ReadCardinality == ASSUME NEW S PROVE Receipts!Cardinality(S) = Cardinality(S)
BY DEF Receipts!Cardinality, Cardinality

LEMMA MaxOfTwo == ASSUME NEW x \in Int, NEW y \in Int PROVE Receipts!Max({x, y}) = IF x >= y THEN x ELSE y
BY DEF Receipts!Max

LEMMA MessagesAre ==
  ASSUME NEW f, NEW m
  PROVE  m \in Messages(f) <=> \E k \in Chats : \E n \in 1..f[k] : m = <<k, n>>
BY DEF Messages

LEMMA OneMessageMore ==
  ASSUME NEW f \in [Chats -> Nat], IsFiniteSet(Messages(f)), NEW k \in Chats
  PROVE  /\ IsFiniteSet(Messages([f EXCEPT ![k] = @ + 1]))
         /\ Cardinality(Messages([f EXCEPT ![k] = @ + 1])) = Cardinality(Messages(f)) + 1
<1> DEFINE g == [f EXCEPT ![k] = @ + 1]
<1>1. Messages(g) = Messages(f) \cup {<<k, f[k] + 1>>}
  <2>1. \A l \in Chats : \A n : n \in 1..g[l] <=> n \in 1..f[l] \/ (l = k /\ n = f[k] + 1)
    OBVIOUS
  <2>2. \A m : m \in Messages(g) <=> m \in Messages(f) \/ m = <<k, f[k] + 1>>
    <3> HIDE DEF g
    <3>1. ASSUME NEW m, m \in Messages(g) PROVE m \in Messages(f) \/ m = <<k, f[k] + 1>>
      <4>1. PICK l \in Chats : \E n \in 1..g[l] : m = <<l, n>>
        BY <3>1, MessagesAre
      <4> QED BY <4>1, <2>1, MessagesAre
    <3>2. ASSUME NEW m, m \in Messages(f) PROVE m \in Messages(g)
      <4>1. PICK l \in Chats : \E n \in 1..f[l] : m = <<l, n>>
        BY <3>2, MessagesAre
      <4> QED BY <4>1, <2>1, MessagesAre
    <3>3. <<k, f[k] + 1>> \in Messages(g)
      BY <2>1, MessagesAre
    <3> QED BY <3>1, <3>2, <3>3
  <2> QED BY <2>2
<1>2. <<k, f[k] + 1>> \notin Messages(f)
  BY DEF Messages
<1> HIDE DEF g
<1>3. IsFiniteSet(Messages(g)) /\ Cardinality(Messages(g)) = Cardinality(Messages(f)) + 1
  BY <1>1, <1>2, FS_AddElement
<1> QED BY <1>3 DEF g

LEMMA MessagesGone ==
  ASSUME NEW f \in [Chats -> Nat], IsFiniteSet(Messages(f)), NEW k \in Chats
  PROVE  /\ IsFiniteSet(Messages([f EXCEPT ![k] = 0]))
         /\ Cardinality(Messages([f EXCEPT ![k] = 0])) = Cardinality(Messages(f)) - f[k]
         /\ Cardinality(Messages([f EXCEPT ![k] = 0])) \in Nat
<1> DEFINE g == [f EXCEPT ![k] = 0]
           S == {k} \X (1..f[k])
<1>1. Messages(f) = Messages(g) \cup S /\ Messages(g) \cap S = {}
  <2>1. \A l \in Chats : 1..g[l] = IF l = k THEN {} ELSE 1..f[l]
    OBVIOUS
  <2> QED BY <2>1 DEF Messages
<1>2. IsFiniteSet(S) /\ Cardinality(S) = f[k]
  <2>1. IsFiniteSet({k}) /\ Cardinality({k}) = 1
    BY FS_Singleton
  <2>2. IsFiniteSet(1..f[k]) /\ Cardinality(1..f[k]) = f[k]
    BY FS_Interval
  <2>3. IsFiniteSet(S) /\ Cardinality(S) = Cardinality({k}) * Cardinality(1..f[k])
    BY <2>1, <2>2, FS_Product
  <2> QED BY <2>1, <2>2, <2>3
<1> HIDE DEF g, S
<1>3. Messages(g) \in SUBSET Messages(f)
  BY <1>1
<1>4. IsFiniteSet(Messages(g))
  BY <1>3, FS_Subset
<1>5. Cardinality(Messages(g)) \in Nat
  BY <1>4, FS_CardinalityType
<1>6. Cardinality(Messages(f)) = Cardinality(Messages(g)) + Cardinality(S) - Cardinality({})
  BY <1>1, <1>2, <1>4, FS_Union
<1>7. Cardinality(Messages(f)) = Cardinality(Messages(g)) + f[k]
  BY <1>2, <1>5, <1>6, FS_EmptySet
<1> QED BY <1>4, <1>5, <1>7 DEF g

LEMMA NoMessages ==
  ASSUME NEW f \in [Chats -> Nat], \A k \in Chats : f[k] = 0
  PROVE  IsFiniteSet(Messages(f)) /\ Cardinality(Messages(f)) = 0
<1>1. Messages(f) = {}
  BY DEF Messages
<1> QED BY <1>1, FS_EmptySet

LEMMA FewerMessages ==
  ASSUME NEW f \in [Chats -> Nat], NEW g \in [Chats -> Nat], \A k \in Chats : f[k] <= g[k], IsFiniteSet(Messages(g))
  PROVE  IsFiniteSet(Messages(f)) /\ Cardinality(Messages(f)) <= Cardinality(Messages(g))
<1>1. \A k \in Chats : 1..f[k] \subseteq 1..g[k]
  OBVIOUS
<1>2. Messages(f) \in SUBSET Messages(g)
  BY <1>1 DEF Messages
<1> QED BY <1>2, FS_Subset

LEMMA UnreadIs == count \in [Chats -> Nat] => Receipts!Unread = Messages(count)
<1> SUFFICES ASSUME count \in [Chats -> Nat] PROVE Receipts!Unread = Messages(count)
  OBVIOUS
<1>1. DOMAIN Receipts!GetAllCounts = {k \in Chats : count[k] > 0}
      /\ \A k \in Chats : count[k] > 0 => Receipts!GetAllCounts[k] = count[k]
  BY DEF Receipts!GetAllCounts
<1>2. \A k \in Chats : ~(count[k] > 0) => 1..count[k] = {}
  OBVIOUS
<1>3. \A m : m \in Receipts!Unread <=> m \in Messages(count)
  BY <1>1, <1>2 DEF Messages, Receipts!Unread
<1> QED BY <1>3

LEMMA ReadingInit == Receipts!Init => ReadingInv
<1> SUFFICES ASSUME Receipts!Init PROVE ReadingInv
  OBVIOUS
<1>1. CountersType /\ MarksType /\ sync \in SyncCall
  <2>1. [k \in {} |-> 0] \in UNION {[S -> Nat] : S \in SUBSET Chats}
    OBVIOUS
  <2>2. sync \in SyncCall
    BY <2>1 DEF Receipts!Init, SyncCall
  <2>3. count \in [Chats -> Nat] /\ \A k \in Chats : count[k] = 0
    BY DEF Receipts!Init
  <2>5. IsFiniteSet(Messages(count))
    BY <2>3, NoMessages
  <2>7. total \in Int /\ arriving \in [Incoming -> Arrivals] /\ ttl \in Expiries
    BY <2>3 DEF Receipts!Init, Arrivals, Expiries
  <2>8. doubled \in BOOLEAN /\ slipped \in BOOLEAN /\ lapsed \in BOOLEAN /\ curtailed \in BOOLEAN
    BY DEF Receipts!Init
  <2>6. CountersType
    BY <2>3, <2>5, <2>7, <2>8 DEF CountersType
  <2>4. MarksType
    BY DEF Receipts!Init, MarksType, ReadCall
  <2> QED BY <2>2, <2>4, <2>6 
<1>2. Leads
  BY DEF Receipts!Init, Leads
<1>3. ResetsFit
  BY DEF Receipts!Init, ResetsFit
<1>4. TotalFits
  <2>1. count \in [Chats -> Nat] /\ total = 0 /\ (\A k \in Chats : count[k] = 0) /\ \A c \in Marks : mark[c].pc # "delete"
    BY DEF Receipts!Init
  <2>2. Covers(count) /\ Cardinality(Messages(count)) = 0
    BY <2>1, NoMessages DEF Covers
  <2> QED BY <2>1, <2>2 DEF TotalFits
<1>5. Knows
  BY DEF Receipts!Init, Knows, Receipts!SyncIsFresh
<1> QED BY <1>1, <1>2, <1>3, <1>4, <1>5 DEF RowsInv, ReadingInv

LEMMA ReadingFacts == ReadingInv => Receipts!TypeOK /\ Receipts!ReadingAddsUp
<1> SUFFICES ASSUME ReadingInv PROVE Receipts!TypeOK /\ Receipts!ReadingAddsUp
  OBVIOUS
<1>1. Receipts!TypeOK
  <2>1. \A c \in Marks : mark[c].pc # "idle" => mark[c].chat \in Chats /\ mark[c].read_at \in 1..clock /\ mark[c].seen \in Nat
    BY DEF ReadingInv, RowsInv, MarksType, ReadCall
  <2>2. sync.pc \in {"idle", "total", "scan", "mget", "done", "failed"} /\ sync.total \in Nat /\ sync.keys \subseteq Chats
        /\ sync.had \in [Chats -> SUBSET Nat]
    BY DEF ReadingInv, RowsInv, SyncCall
  <2> QED BY <2>1, <2>2 DEF Receipts!TypeOK, ReadingInv, RowsInv, CountersType, MarksType, Arrivals, Expiries
<1>2. Receipts!ReceiptLeads
  BY DEF Receipts!ReceiptLeads, ReadingInv, RowsInv, Leads
<1>3. Receipts!UnreadAddsUp
  <2> SUFFICES ASSUME ~doubled, ~curtailed
      PROVE /\ Receipts!GetTotal >= Cardinality(Messages(count))
            /\ ~slipped /\ ~lapsed => Receipts!GetTotal = Cardinality(Messages(count))
    BY UnreadIs, ReadCardinality DEF Receipts!UnreadAddsUp, ReadingInv, RowsInv, CountersType
  <2>1. total \in Int /\ Cardinality(Messages(count)) \in Nat /\ TotalFits
    BY FS_CardinalityType DEF ReadingInv, RowsInv, CountersType
  <2>2. PICK w \in [Chats -> Nat] : Covers(w)
    BY <2>1 DEF TotalFits
  <2>3. Cardinality(Messages(w)) \in Nat /\ Cardinality(Messages(count)) <= Cardinality(Messages(w))
    BY <2>2, FewerMessages, FS_CardinalityType DEF Covers, ReadingInv, RowsInv, CountersType
  <2>4. total >= Cardinality(Messages(count))
    BY <2>1, <2>2, <2>3 DEF Covers
  <2>5. Receipts!GetTotal = total
    BY <2>1, <2>4, MaxOfTwo DEF Receipts!GetTotal
  <2> QED BY <2>1, <2>4, <2>5 DEF TotalFits
<1> QED BY <1>1, <1>2, <1>3 DEF Receipts!ReadingAddsUp, ReadingInv, Knows

\* What a call's move to s leaves of it.
LEMMA MarkOnly ==
  ASSUME MarksType, NEW c \in Marks, mark[c].pc # "idle", NEW s \in ReadPC, Receipts!To(c, s)
  PROVE  /\ mark' \in [Marks -> ReadCall]
         /\ mark[c].chat \in Chats /\ mark[c].read_at \in 1..clock /\ mark[c].seen \in Nat
         /\ mark'[c].pc = s /\ mark'[c].chat = mark[c].chat
         /\ mark'[c].read_at = mark[c].read_at /\ mark'[c].seen = mark[c].seen
         /\ \A d \in Marks \ {c} : mark'[d] = mark[d]
<1>1. mark[c] \in [pc : ReadPC, chat : Chats, read_at : Nat, seen : Nat]
  BY DEF MarksType, ReadCall
<1>2. [mark[c] EXCEPT !.pc = s] \in [pc : ReadPC, chat : Chats, read_at : Nat, seen : Nat]
  BY <1>1
<1>3. mark' = [mark EXCEPT ![c] = [mark[c] EXCEPT !.pc = s]]
  BY DEF Receipts!To
<1>4. mark \in [Marks -> ReadCall]
  BY DEF MarksType
<1>5. [mark[c] EXCEPT !.pc = s] \in ReadCall
  BY <1>2 DEF ReadCall
<1>6. mark' \in [Marks -> ReadCall]
  BY <1>3, <1>4, <1>5
<1>7. mark'[c] = [mark[c] EXCEPT !.pc = s] /\ \A d \in Marks \ {c} : mark'[d] = mark[d]
  BY <1>3, <1>4
<1>8. mark'[c].pc = s /\ mark'[c].chat = mark[c].chat /\ mark'[c].read_at = mark[c].read_at /\ mark'[c].seen = mark[c].seen
  BY <1>1, <1>7
<1> QED BY <1>1, <1>6, <1>7, <1>8 DEF MarksType

\* A message that comes in.
LEMMA IncrementStep == ASSUME RowsInv, NEW i \in Incoming, NEW k \in Chats, Receipts!Increment(i, k) PROVE RowsInv'
<1>1. count' = [count EXCEPT ![k] = @ + 1] /\ total' = total + 1
      /\ UNCHANGED <<mark, ttl, doubled, lapsed, curtailed, clock, receipt, participant, announced>>
      /\ slipped' = (slipped \/ Receipts!Resetting(k) # {})
  BY DEF Receipts!Increment, Receipts!rowVars
<1>2. IsFiniteSet(Messages(count')) /\ Cardinality(Messages(count')) = Cardinality(Messages(count)) + 1
  BY <1>1, OneMessageMore DEF RowsInv, CountersType
<1>3. CountersType'
  <2>1. arriving' = [arriving EXCEPT ![i] = [pc |-> "counted", chat |-> k]]
    BY DEF Receipts!Increment
  <2>2. arriving' \in [Incoming -> Arrivals]
    BY <2>1 DEF RowsInv, CountersType, Arrivals
  <2> QED BY <1>1, <1>2, <2>2 DEF RowsInv, CountersType
<1>4. MarksType' /\ Leads'
  BY <1>1 DEF RowsInv, MarksType, Leads
<1>5. ~slipped' => ~slipped /\ \A c \in Marks : mark[c].pc = "delete" => mark[c].chat # k
  BY <1>1 DEF Receipts!Resetting
<1>6. \A c \in Marks : mark[c].pc = "delete" => mark[c].chat \in Chats /\ mark[c].seen \in Nat
  BY DEF RowsInv, MarksType, ReadCall
<1>7. count \in [Chats -> Nat] /\ Cardinality(Messages(count)) \in Nat /\ total \in Int
  BY FS_CardinalityType DEF RowsInv, CountersType
<1>8. ASSUME ~doubled', ~curtailed' PROVE ResetsFit' /\ TotalFits'
  <2>1. ResetsFit /\ TotalFits
    BY <1>1, <1>8 DEF RowsInv
  <2>2. ResetsFit'
    BY <1>1, <1>5, <1>6, <1>7, <2>1 DEF ResetsFit
  <2>3. PICK w \in [Chats -> Nat] : Covers(w)
    BY <2>1 DEF TotalFits
  <2> DEFINE more == [w EXCEPT ![k] = @ + 1]
  <2>4. more \in [Chats -> Nat] /\ \A l \in Chats : more[l] = IF l = k THEN w[l] + 1 ELSE w[l]
    OBVIOUS
  <2>5. IsFiniteSet(Messages(more)) /\ Cardinality(Messages(more)) = Cardinality(Messages(w)) + 1
    BY <2>3, OneMessageMore DEF Covers
  <2>6. Cardinality(Messages(w)) \in Nat
    BY <2>3, FS_CardinalityType DEF Covers
  <2> HIDE DEF more
  <2>7. \A l \in Chats : count'[l] <= more[l]
    BY <1>1, <1>7, <2>3, <2>4 DEF Covers
  <2>8. \A c \in Marks : mark'[c].pc = "delete" => mark'[c].seen <= more[mark'[c].chat]
    BY <1>1, <1>6, <2>3, <2>4 DEF Covers
  <2>9. total' >= Cardinality(Messages(more))
    BY <1>1, <1>7, <2>3, <2>5, <2>6 DEF Covers
  <2>10. Covers(more)'
    BY <2>5, <2>7, <2>8, <2>9 DEF Covers
  <2> QED BY <1>1, <1>2, <1>5, <1>7, <2>1, <2>2, <2>4, <2>10 DEF TotalFits
<1> QED BY <1>3, <1>4, <1>8 DEF RowsInv

\* A counter that expires leaves the total what it was; a total that expires
\* leaves nothing uncovered, or is curtailed.
LEMMA ExpiryStep == ASSUME RowsInv, Receipts!TotalExpires \/ \E k \in Chats : Receipts!CountExpires(k) PROVE RowsInv'
<1>1. UNCHANGED <<mark, clock, receipt, participant, announced, arriving>>
  BY DEF Receipts!TotalExpires, Receipts!CountExpires, Receipts!rowVars
<1>2. MarksType' /\ Leads'
  BY <1>1 DEF RowsInv, MarksType, Leads
<1>4. Cardinality(Messages(count)) \in Nat /\ total \in Int /\ count \in [Chats -> Nat] /\ ttl \in Expiries
  BY FS_CardinalityType DEF RowsInv, CountersType
<1>5. ASSUME NEW k \in Chats, Receipts!CountExpires(k)
      PROVE CountersType' /\ (~doubled' /\ ~curtailed' => ResetsFit' /\ TotalFits')
  <2>1. count' = [count EXCEPT ![k] = 0] /\ lapsed' = TRUE /\ ttl' = [ttl EXCEPT !.count[k] = 0]
        /\ UNCHANGED <<total, doubled, slipped, curtailed>>
    BY <1>5 DEF Receipts!CountExpires
  <2>2. IsFiniteSet(Messages(count'))
    BY <2>1, MessagesGone DEF RowsInv, CountersType
  <2>3. ttl' \in Expiries /\ count' \in [Chats -> Nat] /\ \A l \in Chats : count'[l] <= count[l]
    BY <1>4, <2>1 DEF Expiries
  <2>4. CountersType'
    BY <1>1, <2>1, <2>2, <2>3 DEF RowsInv, CountersType
  <2>5. ASSUME ~doubled', ~curtailed' PROVE ResetsFit' /\ TotalFits'
    <3>1. ResetsFit /\ TotalFits
      BY <2>1, <2>5 DEF RowsInv
    <3>2. PICK w \in [Chats -> Nat] : Covers(w)
      BY <3>1 DEF TotalFits
    <3>3. \A l \in Chats : count'[l] <= w[l]
      BY <1>4, <2>3, <3>2 DEF Covers
    <3>4. Covers(w)'
      BY <1>1, <2>1, <3>2, <3>3 DEF Covers
    <3> QED BY <1>1, <2>1, <3>1, <3>4 DEF ResetsFit, TotalFits
  <2> QED BY <2>4, <2>5
<1>6. ASSUME Receipts!TotalExpires PROVE CountersType' /\ (~doubled' /\ ~curtailed' => ResetsFit' /\ TotalFits')
  <2> DEFINE clean == \A k \in Chats : count[k] = 0 /\ Receipts!Resetting(k) = {}
  <2>1. count' = count /\ total' = 0 /\ ttl' = [ttl EXCEPT !.total = 0] /\ curtailed' = ~clean
        /\ doubled' = (doubled /\ ~clean) /\ slipped' = (slipped /\ ~clean) /\ lapsed' = (lapsed /\ ~clean)
    BY <1>6 DEF Receipts!TotalExpires
  <2>2. ttl' \in Expiries
    BY <1>4, <2>1 DEF Expiries
  <2>3. doubled' \in BOOLEAN /\ slipped' \in BOOLEAN /\ lapsed' \in BOOLEAN /\ curtailed' \in BOOLEAN
    BY <2>1
  <2>4. CountersType'
    BY <1>1, <2>1, <2>2, <2>3 DEF RowsInv, CountersType
  <2>5. ASSUME clean PROVE ResetsFit' /\ TotalFits'
    <3>1. \A c \in Marks : mark[c].pc # "delete"
      BY <2>5 DEF Receipts!Resetting, RowsInv, MarksType, ReadCall
    <3>2. IsFiniteSet(Messages(count)) /\ Cardinality(Messages(count)) = 0
      BY <1>4, <2>5, NoMessages
    <3>3. Covers(count)'
      BY <1>1, <1>4, <2>1, <3>1, <3>2 DEF Covers
    <3>4. TotalFits'
      BY <1>4, <2>1, <3>2, <3>3 DEF TotalFits
    <3> QED BY <1>1, <3>1, <3>4 DEF ResetsFit
  <2> QED BY <2>1, <2>4, <2>5
<1> QED BY <1>2, <1>5, <1>6 DEF RowsInv

\* The statements of a mark.
LEMMA StatementStep ==
  ASSUME RowsInv, NEW c \in Marks,
         \/ \E k \in Chats : Receipts!Begin(c, k)
         \/ Receipts!UpsertReceipt(c) \/ Receipts!UpdateParticipant(c) \/ Receipts!StatementFails(c)
  PROVE  RowsInv'
<1>1. UNCHANGED <<count, total, ttl, arriving, doubled, slipped, lapsed, curtailed>>
  BY DEF Receipts!Begin, Receipts!UpsertReceipt, Receipts!UpdateParticipant, Receipts!StatementFails, Receipts!redisVars
<1>2. CountersType'
  BY <1>1 DEF RowsInv, CountersType
<1>3. ASSUME NEW k \in Chats, Receipts!Begin(c, k) PROVE MarksType' /\ Leads' /\ mark'[c].pc # "delete" /\ \A d \in Marks \ {c} : mark'[d] = mark[d]
  <2> DEFINE new == [pc |-> "upsert", chat |-> k, read_at |-> clock + 1, seen |-> 0]
  <2>1. clock' = clock + 1 /\ mark' = [mark EXCEPT ![c] = new] /\ UNCHANGED <<receipt, participant, announced>>
    BY <1>3 DEF Receipts!Begin
  <2>2. clock \in Nat /\ mark \in [Marks -> ReadCall]
    BY DEF RowsInv, MarksType
  <2>3. new \in ReadCall
    BY <2>2 DEF ReadCall, ReadPC
  <2>4. mark' \in [Marks -> ReadCall] /\ mark'[c] = new /\ \A d \in Marks \ {c} : mark'[d] = mark[d]
    BY <2>1, <2>2, <2>3
  <2>5. 0..clock \subseteq 0..clock' /\ 1..clock \subseteq 1..clock' /\ clock' \in Nat /\ clock + 1 \in 1..clock'
    BY <2>1, <2>2
  <2>6. receipt' \in [Chats -> 0..clock'] /\ participant' \in [Chats -> 0..clock'] /\ announced' \in [Chats -> SUBSET (1..clock')]
    BY <2>1, <2>5 DEF RowsInv, MarksType
  <2>7. \A d \in Marks : mark'[d].pc # "idle" => mark'[d].read_at \in 1..clock'
    BY <2>4, <2>5 DEF RowsInv, MarksType
  <2>8. MarksType'
    BY <2>4, <2>5, <2>6, <2>7 DEF MarksType
  <2>9. Leads'
    BY <2>1, <2>4 DEF RowsInv, Leads
  <2> QED BY <2>4, <2>8, <2>9
<1>4. ASSUME Receipts!UpsertReceipt(c) PROVE MarksType' /\ Leads' /\ mark'[c].pc # "delete" /\ \A d \in Marks \ {c} : mark'[d] = mark[d]
  <2>1. mark[c].pc = "upsert" /\ Receipts!To(c, "update") /\ UNCHANGED <<participant, announced, clock>>
        /\ receipt' = [receipt EXCEPT ![mark[c].chat] = Receipts!Max({@, mark[c].read_at})]
    BY <1>4 DEF Receipts!UpsertReceipt
  <2>2. MarksType
    BY DEF RowsInv
  <2>3. PICK k \in Chats : k = mark[c].chat
    BY <2>1, <2>2, MarkOnly DEF ReadPC
  <2>4. PICK t \in 1..clock : t = mark[c].read_at
    BY <2>1, <2>2, MarkOnly DEF ReadPC
  <2>5. mark' \in [Marks -> ReadCall] /\ mark'[c].pc = "update" /\ mark'[c].chat = k /\ mark'[c].read_at = t
        /\ \A d \in Marks \ {c} : mark'[d] = mark[d]
    BY <2>1, <2>2, <2>3, <2>4, MarkOnly DEF ReadPC
  <2>6. clock \in Nat /\ receipt \in [Chats -> 0..clock]
    BY <2>2 DEF MarksType
  <2>7. Receipts!Max({receipt[k], t}) = IF receipt[k] >= t THEN receipt[k] ELSE t
    BY <2>6, MaxOfTwo
  <2>8. receipt' \in [Chats -> 0..clock'] /\ receipt'[k] >= t /\ \A l \in Chats : receipt'[l] >= receipt[l]
    BY <2>1, <2>3, <2>4, <2>6, <2>7
  <2>9. \A d \in Marks : mark'[d].pc # "idle" => mark'[d].read_at \in 1..clock'
    BY <2>1, <2>2, <2>4, <2>5 DEF MarksType
  <2>10. MarksType'
    BY <2>1, <2>2, <2>5, <2>8, <2>9 DEF MarksType
  <2>11. \A l \in Chats : receipt'[l] \in Nat /\ receipt[l] \in Nat /\ participant[l] \in Nat /\ announced[l] \subseteq Nat
    BY <2>2, <2>10 DEF MarksType
  <2>12. \A d \in Marks : mark[d].pc # "idle" => mark[d].read_at \in Nat /\ mark[d].chat \in Chats
    BY <2>2 DEF MarksType, ReadCall
  <2>13. ASSUME NEW l \in Chats PROVE participant'[l] <= receipt'[l] /\ \A s \in announced'[l] : s <= receipt'[l]
    <3>1. participant[l] <= receipt[l] /\ \A s \in announced[l] : s <= receipt[l]
      BY DEF RowsInv, Leads
    <3>2. receipt'[l] >= receipt[l] /\ announced'[l] \subseteq Nat
      BY <2>1, <2>8, <2>11
    <3>0. participant'[l] = participant[l]
      BY <2>1
    <3>3. participant'[l] <= receipt'[l]
      BY <2>11, <3>0, <3>1, <3>2
    <3>4. ASSUME NEW s \in announced[l] PROVE s <= receipt'[l]
      BY <2>11, <3>1, <3>2, <3>4
    <3>5. announced'[l] = announced[l]
      BY <2>1
    <3> QED BY <3>3, <3>4, <3>5
  <2>14. ASSUME NEW d \in Marks, d # c, mark[d].pc \in {"update", "get", "delete", "send", "done"}
         PROVE  mark[d].read_at <= receipt'[mark[d].chat]
    BY <2>8, <2>11, <2>12, <2>14 DEF RowsInv, Leads
  <2>15. \A d \in Marks : mark'[d].pc \in {"update", "get", "delete", "send", "done"} => mark'[d].read_at <= receipt'[mark'[d].chat]
    BY <2>4, <2>5, <2>8, <2>14
  <2>16. Leads'
    BY <2>13, <2>15 DEF Leads
  <2> QED BY <2>5, <2>10, <2>16
<1>5. ASSUME Receipts!UpdateParticipant(c) PROVE MarksType' /\ Leads' /\ mark'[c].pc # "delete" /\ \A d \in Marks \ {c} : mark'[d] = mark[d]
  <2>1. mark[c].pc = "update" /\ Receipts!To(c, "get") /\ UNCHANGED <<receipt, announced, clock>>
        /\ participant' = [participant EXCEPT ![mark[c].chat] = mark[c].read_at]
    BY <1>5 DEF Receipts!UpdateParticipant
  <2>2. MarksType
    BY DEF RowsInv
  <2>3. PICK k \in Chats : k = mark[c].chat
    BY <2>1, <2>2, MarkOnly DEF ReadPC
  <2>4. PICK t \in 1..clock : t = mark[c].read_at
    BY <2>1, <2>2, MarkOnly DEF ReadPC
  <2>5. mark' \in [Marks -> ReadCall] /\ mark'[c].pc = "get" /\ mark'[c].chat = k /\ mark'[c].read_at = t
        /\ \A d \in Marks \ {c} : mark'[d] = mark[d]
    BY <2>1, <2>2, <2>3, <2>4, MarkOnly DEF ReadPC
  <2>6. participant' \in [Chats -> 0..clock'] /\ \A l \in Chats : participant'[l] = IF l = k THEN t ELSE participant[l]
    BY <2>1, <2>2, <2>3, <2>4 DEF MarksType
  <2>7. \A d \in Marks : mark'[d].pc # "idle" => mark'[d].read_at \in 1..clock'
    BY <2>1, <2>2, <2>4, <2>5 DEF MarksType
  <2>8. MarksType'
    BY <2>1, <2>2, <2>5, <2>6, <2>7 DEF MarksType
  <2>9. t <= receipt[k]
    BY <2>1, <2>3, <2>4 DEF RowsInv, Leads
  <2>10. Leads'
    BY <2>1, <2>5, <2>6, <2>9 DEF RowsInv, Leads
  <2> QED BY <2>5, <2>8, <2>10
<1>6. ASSUME Receipts!StatementFails(c) PROVE MarksType' /\ Leads' /\ mark'[c].pc # "delete" /\ \A d \in Marks \ {c} : mark'[d] = mark[d]
  <2>1. mark[c].pc \in {"upsert", "update"} /\ Receipts!To(c, "failed") /\ UNCHANGED <<receipt, participant, announced, clock>>
    BY <1>6 DEF Receipts!StatementFails, Receipts!rowVars
  <2>2. MarksType
    BY DEF RowsInv
  <2>3. mark' \in [Marks -> ReadCall] /\ mark'[c].pc = "failed" /\ mark'[c].read_at \in 1..clock
        /\ \A d \in Marks \ {c} : mark'[d] = mark[d]
    BY <2>1, <2>2, MarkOnly DEF ReadPC
  <2>4. MarksType'
    BY <2>1, <2>2, <2>3 DEF MarksType
  <2>5. Leads'
    BY <2>1, <2>3 DEF RowsInv, Leads
  <2> QED BY <2>3, <2>4, <2>5
<1>7. MarksType' /\ Leads' /\ mark'[c].pc # "delete" /\ \A d \in Marks \ {c} : mark'[d] = mark[d]
  BY <1>3, <1>4, <1>5, <1>6
<1>8. ResetsFit => ResetsFit'
  BY <1>1, <1>7 DEF ResetsFit
<1>9. \A w : Covers(w) => Covers(w)'
  BY <1>1, <1>7 DEF Covers
<1>10. TotalFits => TotalFits'
  BY <1>1, <1>9 DEF TotalFits
<1> QED BY <1>1, <1>2, <1>7, <1>8, <1>10 DEF RowsInv

\* The Redis commands of a reset, and the announcement.
LEMMA ResetStep ==
  ASSUME RowsInv, NEW c \in Marks,
         Receipts!GetCount(c) \/ Receipts!DeleteCount(c) \/ Receipts!DeleteFails(c) \/ Receipts!Announce(c)
  PROVE  RowsInv'
<1>1. MarksType /\ CountersType
  BY DEF RowsInv
<1>2. mark[c].pc \in {"get", "delete", "send"} /\ UNCHANGED <<clock, receipt, participant, arriving, slipped, lapsed, curtailed>>
  BY DEF Receipts!GetCount, Receipts!DeleteCount, Receipts!DeleteFails, Receipts!Announce, Receipts!rowVars, Receipts!redisVars
<1>3. mark[c] \in [pc : ReadPC, chat : Chats, read_at : Nat, seen : Nat] /\ mark \in [Marks -> ReadCall]
  BY <1>1, <1>2 DEF MarksType, ReadCall
<1>4. PICK k \in Chats : k = mark[c].chat
  BY <1>3
<1>5. count \in [Chats -> Nat] /\ Cardinality(Messages(count)) \in Nat /\ total \in Int
  BY <1>1, FS_CardinalityType DEF CountersType
<1>6. mark[c].read_at <= receipt[k] /\ mark[c].read_at \in 1..clock
  BY <1>1, <1>2, <1>4 DEF RowsInv, Leads, MarksType
\* Whatever its kind, the step moves the call on and keeps its row and time.
<1>7. ASSUME mark' \in [Marks -> ReadCall], mark'[c].pc \in {"delete", "send", "done"}, mark'[c].chat = k,
             mark'[c].read_at = mark[c].read_at, \A d \in Marks \ {c} : mark'[d] = mark[d],
             announced' \in {announced, [announced EXCEPT ![k] = @ \cup {mark[c].read_at}]}
      PROVE  MarksType' /\ Leads'
  <2>1. \A d \in Marks : mark'[d].pc # "idle" => mark'[d].read_at \in 1..clock'
    BY <1>1, <1>2, <1>6, <1>7 DEF MarksType
  <2>2. announced' \in [Chats -> SUBSET (1..clock')] /\ \A l \in Chats : \A t \in announced'[l] : t \in announced[l] \/ (l = k /\ t = mark[c].read_at)
    BY <1>1, <1>2, <1>6, <1>7 DEF MarksType
  <2>3. MarksType'
    BY <1>1, <1>2, <1>7, <2>1, <2>2 DEF MarksType
  <2>4. \A l \in Chats : participant'[l] <= receipt'[l] /\ \A t \in announced'[l] : t <= receipt'[l]
    BY <1>2, <1>6, <2>2 DEF RowsInv, Leads
  <2>5. \A d \in Marks : mark'[d].pc \in {"update", "get", "delete", "send", "done"} => mark'[d].read_at <= receipt'[mark'[d].chat]
    BY <1>2, <1>6, <1>7 DEF RowsInv, Leads
  <2> QED BY <2>3, <2>4, <2>5 DEF Leads
<1>8. CASE Receipts!GetCount(c)
  <2>1. PICK n \in Nat : /\ n \in {count[k], 0}
                         /\ mark' = [mark EXCEPT ![c].seen = n, ![c].pc = IF n > 0 THEN "delete" ELSE "send"]
    BY <1>4, <1>5, <1>8 DEF Receipts!GetCount
  <2>2. UNCHANGED <<count, total, ttl, announced>> /\ doubled' = (doubled \/ (count[k] > 0 /\ Receipts!Resetting(k) # {}))
    BY <1>4, <1>8 DEF Receipts!GetCount, Receipts!rowVars
  <2>3. [mark[c] EXCEPT !.seen = n] \in [pc : ReadPC, chat : Chats, read_at : Nat, seen : Nat]
    BY <1>3, <2>1
  <2>4. PICK to \in {"delete", "send"} : to = IF n > 0 THEN "delete" ELSE "send"
    OBVIOUS
  <2>5. [[mark[c] EXCEPT !.seen = n] EXCEPT !.pc = to] \in [pc : ReadPC, chat : Chats, read_at : Nat, seen : Nat]
    BY <2>3, <2>4 DEF ReadPC
  <2>6. mark' = [mark EXCEPT ![c] = [[mark[c] EXCEPT !.seen = n] EXCEPT !.pc = to]]
    BY <1>3, <2>1, <2>4
  <2>7. mark' \in [Marks -> ReadCall] /\ \A d \in Marks \ {c} : mark'[d] = mark[d]
    BY <1>3, <2>5, <2>6 DEF ReadCall
  <2>8. mark'[c] = [[mark[c] EXCEPT !.seen = n] EXCEPT !.pc = to]
    BY <1>3, <2>6
  <2>9. mark'[c].pc = to /\ mark'[c].seen = n /\ mark'[c].chat = k /\ mark'[c].read_at = mark[c].read_at
    BY <1>3, <1>4, <2>3, <2>5, <2>8
  <2>10. MarksType' /\ Leads'
    BY <1>7, <2>2, <2>4, <2>7, <2>9
  <2>11. CountersType'
    BY <1>1, <1>2, <2>2 DEF CountersType
  <2>12. ASSUME ~doubled', ~curtailed' PROVE ResetsFit' /\ TotalFits'
    <3>1. ResetsFit /\ TotalFits
      BY <1>2, <2>2, <2>12 DEF RowsInv
    <3>0. PICK w \in [Chats -> Nat] : Covers(w)
      BY <3>1 DEF TotalFits
    <3>4. n <= w[k]
      BY <1>5, <2>1, <3>0 DEF Covers
    <3>5. Covers(w)'
      BY <2>2, <2>7, <2>9, <3>0, <3>4 DEF Covers
    <3>6. TotalFits'
      BY <1>2, <2>2, <3>1, <3>5 DEF TotalFits
    <3>2. CASE n = 0
      <4>1. mark'[c].pc # "delete"
        BY <2>4, <2>9, <3>2
      <4> QED BY <1>2, <2>2, <2>7, <3>1, <3>6, <4>1 DEF ResetsFit
    <3>3. CASE n # 0
      <4>1. n = count[k] /\ \A d \in Marks : mark[d].pc = "delete" => mark[d].chat # k
        <5>1. n = count[k] /\ count[k] > 0
          BY <1>5, <2>1, <3>3
        <5>2. Receipts!Resetting(k) = {}
          BY <2>2, <2>12, <5>1, Zenon
        <5> QED BY <5>1, <5>2 DEF Receipts!Resetting
      <4>2. \A d \in Marks \ {c} : mark'[d].pc = "delete" => mark'[d].chat # k
        BY <2>7, <4>1
      <4>3. mark'[c].seen = count'[mark'[c].chat]
        BY <1>5, <2>2, <2>9, <4>1
      <4>4. \A d, e \in Marks : mark'[d].pc = "delete" /\ mark'[e].pc = "delete" /\ mark'[d].chat = mark'[e].chat => d = e
        BY <2>7, <2>9, <3>1, <4>2 DEF ResetsFit
      <4>5. \A d \in Marks \ {c} : mark'[d].pc = "delete" /\ ~slipped' /\ ~lapsed' => mark'[d].seen = count'[mark'[d].chat]
        BY <1>2, <2>2, <2>7, <3>1 DEF ResetsFit
      <4> QED BY <3>6, <4>3, <4>4, <4>5 DEF ResetsFit
    <3> QED BY <3>2, <3>3
  <2> QED BY <2>2, <2>10, <2>11, <2>12 DEF RowsInv
<1>9. CASE Receipts!DeleteCount(c)
  <2>1. mark[c].pc = "delete" /\ count' = [count EXCEPT ![k] = 0] /\ total' = total - mark[c].seen
        /\ ttl' = [ttl EXCEPT !.count[k] = 0] /\ Receipts!To(c, "send") /\ UNCHANGED <<doubled, announced>>
    BY <1>4, <1>9 DEF Receipts!DeleteCount, Receipts!rowVars
  <2>2. mark' \in [Marks -> ReadCall] /\ mark'[c].pc = "send" /\ mark'[c].chat = k /\ mark'[c].read_at = mark[c].read_at
        /\ \A d \in Marks \ {c} : mark'[d] = mark[d]
    BY <1>1, <1>4, <2>1, MarkOnly DEF ReadPC
  <2>3. MarksType' /\ Leads'
    BY <1>7, <2>1, <2>2
  <2>4. IsFiniteSet(Messages(count')) /\ Cardinality(Messages(count')) = Cardinality(Messages(count)) - count[k]
    BY <1>1, <2>1, MessagesGone DEF CountersType
  <2>5. mark[c].seen \in Nat
    BY <1>3
  <2>8. ttl' \in Expiries
    BY <1>1, <2>1 DEF CountersType, Expiries
  <2>6. CountersType'
    BY <1>1, <1>2, <1>5, <2>1, <2>4, <2>5, <2>8 DEF CountersType
  <2>7. ASSUME ~doubled', ~curtailed' PROVE ResetsFit' /\ TotalFits'
    <3>1. ResetsFit /\ TotalFits
      BY <1>2, <2>1, <2>7 DEF RowsInv
    <3>2. \A d \in Marks \ {c} : mark[d].pc = "delete" => mark[d].chat # k
      BY <1>4, <2>1, <3>1 DEF ResetsFit
    <3>3. \A d \in Marks : mark[d].pc = "delete" => mark[d].chat \in Chats
      BY <1>1 DEF MarksType, ReadCall
    <3>4. \A l \in Chats : l # k => count'[l] = count[l]
      BY <1>5, <2>1
    <3>5. ResetsFit'
      BY <1>2, <2>2, <3>1, <3>2, <3>3, <3>4 DEF ResetsFit
    <3>6. ~slipped /\ ~lapsed => mark[c].seen = count[k]
      BY <1>4, <2>1, <3>1 DEF ResetsFit
    <3>7. PICK w \in [Chats -> Nat] : Covers(w)
      BY <3>1 DEF TotalFits
    <3> DEFINE less == [w EXCEPT ![k] = 0]
    <3>8. less \in [Chats -> Nat] /\ \A l \in Chats : less[l] = IF l = k THEN 0 ELSE w[l]
      OBVIOUS
    <3>9. IsFiniteSet(Messages(less)) /\ Cardinality(Messages(less)) = Cardinality(Messages(w)) - w[k]
          /\ Cardinality(Messages(less)) \in Nat
      BY <3>7, MessagesGone DEF Covers
    <3>10. Cardinality(Messages(w)) \in Nat /\ mark[c].seen <= w[k] /\ total >= Cardinality(Messages(w)) /\ w[k] \in Nat
      BY <1>4, <2>1, <3>7, FS_CardinalityType DEF Covers
    <3> HIDE DEF less
    <3>11. total' >= Cardinality(Messages(less))
      BY <1>5, <2>1, <2>5, <3>9, <3>10
    <3>12. \A l \in Chats : count'[l] <= less[l]
      BY <1>5, <2>1, <3>7, <3>8 DEF Covers
    <3>13. \A d \in Marks : mark'[d].pc = "delete" => mark'[d].seen <= less[mark'[d].chat]
      BY <2>2, <3>2, <3>3, <3>7, <3>8 DEF Covers
    <3>14. Covers(less)'
      BY <3>9, <3>11, <3>12, <3>13 DEF Covers
    <3>15. ~slipped' /\ ~lapsed' => total' = Cardinality(Messages(count'))
      BY <1>2, <1>5, <2>1, <2>4, <2>5, <3>1, <3>6 DEF TotalFits
    <3> QED BY <3>5, <3>8, <3>14, <3>15 DEF TotalFits
  <2> QED BY <2>3, <2>6, <2>7 DEF RowsInv
<1>10. CASE Receipts!DeleteFails(c) \/ Receipts!Announce(c)
  <2>1. PICK to \in {"send", "done"} : Receipts!To(c, to)
    BY <1>10 DEF Receipts!DeleteFails, Receipts!Announce
  <2>2. UNCHANGED <<count, total, ttl, doubled>> /\ announced' \in {announced, [announced EXCEPT ![k] = @ \cup {mark[c].read_at}]}
    BY <1>4, <1>10 DEF Receipts!DeleteFails, Receipts!Announce, Receipts!rowVars, Receipts!redisVars
  <2>3. mark' \in [Marks -> ReadCall] /\ mark'[c].pc = to /\ mark'[c].chat = k /\ mark'[c].read_at = mark[c].read_at
        /\ \A d \in Marks \ {c} : mark'[d] = mark[d]
    BY <1>1, <1>2, <1>4, <2>1, MarkOnly DEF ReadPC
  <2>4. MarksType' /\ Leads'
    BY <1>7, <2>2, <2>3
  <2>5. CountersType'
    BY <1>1, <1>2, <2>2 DEF CountersType
  <2>6. ResetsFit => ResetsFit'
    BY <1>2, <2>2, <2>3 DEF ResetsFit
  <2>7. \A w : Covers(w) => Covers(w)'
    BY <2>2, <2>3 DEF Covers
  <2>8. TotalFits => TotalFits'
    BY <1>2, <2>2, <2>7 DEF TotalFits
  <2> QED BY <1>2, <2>2, <2>4, <2>5, <2>6, <2>8 DEF RowsInv
<1> QED BY <1>8, <1>9, <1>10

LEMMA RowsStutter ==
  ASSUME RowsInv, UNCHANGED <<count, total, doubled, slipped, lapsed, curtailed, receipt, participant, announced, clock, mark>>,
         arriving' \in [Incoming -> Arrivals], ttl' \in Expiries
  PROVE  RowsInv'
<1>1. CountersType' /\ MarksType'
  BY DEF RowsInv, CountersType, MarksType
<1>3. \A w : Covers(w) => Covers(w)'
  BY DEF Covers
<1>2. Leads' /\ (ResetsFit => ResetsFit') /\ (TotalFits => TotalFits')
  BY <1>3 DEF RowsInv, Leads, ResetsFit, TotalFits
<1> QED BY <1>1, <1>2 DEF RowsInv

\* Messages, marks and expiries between the commands of a sync.
LEMMA ReadingStep == ASSUME ReadingInv, NEW M \in SUBSET Marks, Receipts!Reading(M) PROVE ReadingInv'
<1>1. RowsInv'
  <2>1. ASSUME NEW i \in Incoming, Receipts!ExtendExpiry(i) PROVE RowsInv'
    <3> DEFINE k == arriving[i].chat
               n == ttl.made + 1
    <3>1. UNCHANGED <<count, total, doubled, slipped, lapsed, curtailed, receipt, participant, announced, clock, mark>>
          /\ arriving' = [arriving EXCEPT ![i] = [pc |-> "done"]] /\ arriving[i].pc = "counted"
      BY <2>1 DEF Receipts!ExtendExpiry, Receipts!rowVars
    <3>2. arriving' \in [Incoming -> Arrivals] /\ k \in Chats
      BY <3>1 DEF ReadingInv, RowsInv, CountersType, Arrivals
    <3>3. ttl.count \in [Chats -> Nat] /\ ttl.total \in Nat /\ n \in Nat
      BY DEF ReadingInv, RowsInv, CountersType, Expiries
    <3>4. [ttl.count EXCEPT ![k] = n] \in [Chats -> Nat]
      BY <3>2, <3>3
    <3>5. PICK reached : ttl' = [count |-> IF "count" \in reached /\ count[k] > 0 THEN [ttl.count EXCEPT ![k] = n] ELSE ttl.count,
                                 total |-> IF "total" \in reached /\ total # 0 THEN n ELSE ttl.total,
                                 made  |-> n]
      BY <2>1 DEF Receipts!ExtendExpiry
    <3> HIDE DEF n, k
    <3>6. ttl' \in Expiries
      BY <3>3, <3>4, <3>5 DEF Expiries
    <3> QED BY <3>1, <3>2, <3>6, RowsStutter DEF ReadingInv
  <2> QED BY <2>1, IncrementStep, ExpiryStep, StatementStep, ResetStep
          DEF ReadingInv, Receipts!Reading, Receipts!Arrival, Receipts!MarkRead
<1>2. sync' = IF sync.pc \in {"scan", "mget"}
              THEN [sync EXCEPT !.had = [k \in Chats |-> @[k] \cup {count'[k]}]] ELSE sync
  BY DEF Receipts!Reading, Receipts!Watched
<1>3. sync \in SyncCall /\ Knows
  BY DEF ReadingInv
<1>4. \A k \in Chats : count'[k] \in Nat
  BY <1>1 DEF RowsInv, CountersType
<1>5. CASE sync.pc \notin {"scan", "mget"}
  <2>1. sync' = sync
    BY <1>2, <1>5
  <2> QED BY <1>1, <1>3, <1>5, <2>1 DEF ReadingInv, Knows, Receipts!SyncIsFresh
<1>6. CASE sync.pc \in {"scan", "mget"}
  <2>1. [k \in Chats |-> sync.had[k] \cup {count'[k]}] \in [Chats -> SUBSET Nat]
    BY <1>3, <1>4 DEF SyncCall
  <2>2. sync' \in SyncCall /\ sync'.pc = sync.pc /\ sync'.keys = sync.keys
        /\ \A k \in Chats : sync'.had[k] = sync.had[k] \cup {count'[k]}
    BY <1>2, <1>3, <1>6, <2>1 DEF SyncCall
  <2>3. Knows'
    BY <1>3, <1>6, <2>2 DEF Knows, Receipts!SyncIsFresh
  <2> QED BY <1>1, <2>2, <2>3 DEF ReadingInv
<1> QED BY <1>5, <1>6

\* The commands of a sync.
LEMMA SyncStep == ASSUME ReadingInv, Receipts!SyncUnread PROVE ReadingInv'
<1>1. RowsInv' /\ count' = count
  BY RowsStutter DEF Receipts!SyncUnread, Receipts!redisVars, Receipts!rowVars, ReadingInv, RowsInv, CountersType
<1>2. sync \in SyncCall /\ Knows /\ count \in [Chats -> Nat] /\ total \in Int
  BY DEF ReadingInv, RowsInv, CountersType
<1>3. ASSUME Receipts!ReadTotal PROVE sync' \in SyncCall /\ Knows'
  <2>1. Receipts!GetTotal \in Nat
    BY <1>2, MaxOfTwo DEF Receipts!GetTotal
  <2>2. PICK n \in Nat : sync' = [sync EXCEPT !.pc = "total", !.total = n]
    BY <1>3, <2>1 DEF Receipts!ReadTotal
  <2>3. sync' \in SyncCall /\ sync'.pc = "total"
    BY <1>2, <2>2 DEF SyncCall
  <2> QED BY <2>3 DEF Knows, Receipts!SyncIsFresh
<1>4. ASSUME Receipts!BeginScan PROVE sync' \in SyncCall /\ Knows'
  <2>1. sync' = [sync EXCEPT !.pc = "scan", !.had = [k \in Chats |-> {count[k]}]]
    BY <1>4 DEF Receipts!BeginScan
  <2>2. [k \in Chats |-> {count[k]}] \in [Chats -> SUBSET Nat]
    BY <1>2
  <2>3. sync' \in SyncCall /\ sync'.pc = "scan" /\ sync'.had = [k \in Chats |-> {count[k]}]
    BY <1>2, <2>1, <2>2 DEF SyncCall
  <2> QED BY <1>1, <2>3 DEF Knows, Receipts!SyncIsFresh
<1>5. ASSUME Receipts!EndScan PROVE sync' \in SyncCall /\ Knows'
  <2>1. PICK keys \in SUBSET Chats : /\ {k \in Chats : 0 \notin sync.had[k]} \subseteq keys
                                     /\ sync' = [sync EXCEPT !.pc = "mget", !.keys = keys]
    BY <1>5 DEF Receipts!EndScan
  <2>2. sync' \in SyncCall /\ sync'.pc = "mget" /\ sync'.keys = keys /\ sync'.had = sync.had /\ sync.pc = "scan"
    BY <1>2, <1>5, <2>1 DEF SyncCall, Receipts!EndScan
  <2> QED BY <1>1, <1>2, <2>1, <2>2 DEF Knows, Receipts!SyncIsFresh
<1>6. ASSUME Receipts!ReadCounts PROVE sync' \in SyncCall /\ Knows'
  <2> DEFINE S == {k \in sync.keys : count[k] > 0}
             f == [k \in S |-> count[k]]
  <2>1. sync.pc = "mget" /\ sync' = [sync EXCEPT !.pc = "done", !.counts = f]
    BY <1>6 DEF Receipts!ReadCounts
  <2>2. S \in SUBSET Chats /\ sync.keys \subseteq Chats /\ \A k \in S : f[k] = count[k]
    BY <1>2 DEF SyncCall
  <2>3. f \in [S -> Nat]
    BY <1>2, <2>2
  <2>4. f \in UNION {[T -> Nat] : T \in SUBSET Chats} /\ DOMAIN f = S
    BY <2>2, <2>3
  <2>5. ASSUME NEW k \in Chats PROVE (IF k \in S THEN f[k] ELSE 0) \in sync.had[k]
    <3>1. count[k] \in sync.had[k] /\ (k \notin sync.keys => 0 \in sync.had[k])
      BY <1>2, <2>1 DEF Knows
    <3>2. k \in sync.keys /\ k \notin S => count[k] = 0
      BY <1>2
    <3> QED BY <2>2, <3>1, <3>2
  <2> HIDE DEF f
  <2>6. sync' \in SyncCall /\ sync'.pc = "done" /\ sync'.counts = f /\ sync'.had = sync.had
    BY <1>2, <2>1, <2>4 DEF SyncCall
  <2>7. Receipts!SyncIsFresh'
    BY <2>4, <2>5, <2>6 DEF Receipts!SyncIsFresh
  <2> QED BY <2>6, <2>7 DEF Knows
<1>7. ASSUME Receipts!SyncFails PROVE sync' \in SyncCall /\ Knows'
  <2>1. sync' = [sync EXCEPT !.pc = "failed"]
    BY <1>7 DEF Receipts!SyncFails
  <2>2. sync' \in SyncCall /\ sync'.pc = "failed"
    BY <1>2, <2>1 DEF SyncCall
  <2> QED BY <2>2 DEF Knows, Receipts!SyncIsFresh
<1> QED BY <1>1, <1>3, <1>4, <1>5, <1>6, <1>7 DEF Receipts!SyncUnread, ReadingInv

LEMMA ReadingStutter == ASSUME ReadingInv, UNCHANGED receiptVars PROVE ReadingInv'
<1>1. RowsInv' /\ sync' = sync /\ count' = count
  BY RowsStutter DEF receiptVars, ReadingInv, RowsInv, CountersType
<1> QED BY <1>1 DEF ReadingInv, Knows, Receipts!SyncIsFresh

\* tracker.rs, cache.rs: the receipt leads, the total covers the counts unless
\* resets overlap, and a sync answers counts there were since its scan began.
THEOREM ReadingAlwaysAddsUp == Receipts!Spec => [](Receipts!TypeOK /\ Receipts!ReadingAddsUp)
<1>1. ReadingInv /\ [Receipts!Next]_(Receipts!readVars) => ReadingInv'
  <2>1. Receipts!Next => (\E M \in SUBSET Marks : Receipts!Reading(M)) \/ Receipts!SyncUnread
    BY DEF Receipts!Next
  <2> QED BY <2>1, ReadingStep, SyncStep, ReadingStutter DEF Receipts!readVars, receiptVars
<1> QED BY ReadingInit, <1>1, ReadingFacts, PTL DEF Receipts!Spec

ReadingHolds == part \in {"receipts", "sync"} => ReadingInv

\* The same where they are one part of several, with a sync or without.
THEOREM ReadingKeepsAddingUp == PartsSpec => []ReadingAddsUp
<1>1. PartsInit => ReadingHolds
  BY ReadingInit DEF PartsInit, ReadingHolds
<1>2. ReadingHolds /\ [PartsNext]_mcVars => ReadingHolds'
  <2> SUFFICES ASSUME ReadingHolds, [PartsNext]_mcVars, part' \in {"receipts", "sync"} PROVE ReadingInv'
    BY DEF ReadingHolds
  <2>1. ReadingInv /\ (ReadingNext \/ UNCHANGED receiptVars)
    BY DEF ReadingHolds, PartsNext, mcVars
  <2>2. ReadingNext => (\E M \in SUBSET Marks : Receipts!Reading(M)) \/ Receipts!SyncUnread
    BY ReceiptAssumption DEF ReadingNext
  <2> QED BY <2>1, <2>2, ReadingStep, SyncStep, ReadingStutter
<1>3. ReadingHolds => ReadingAddsUp
  BY ReadingFacts DEF ReadingHolds, ReadingAddsUp
<1> QED BY <1>1, <1>2, <1>3, PTL DEF PartsSpec, mcVars

(***************************************************************************)
(* Lists                                                                   *)
(***************************************************************************)
PassType ==
    [kind : Lists, pc : {"count", "read", "end"}, cursor : 0..MaxTime \cup {NoRow}, offset : Nat,
     shown : SUBSET Listed, again : SUBSET Listed, total : Nat]
ListType ==
    /\ key \in [Listed -> 0..MaxTime \cup {NoRow}]
    /\ recalled \subseteq Listed /\ now \in 0..MaxTime
    /\ pass \in PassType /\ pass.again \subseteq pass.shown
    /\ touched \subseteq Listed /\ written \in 0..MaxChanges
    /\ came \subseteq Listed /\ went \subseteq Listed

\* What is shown exactly once and what is left, told by F.
Divides(F) ==
    /\ pass.pc \in {"read", "end"}
    /\ \A r \in List!Standing : r \in pass.shown <=> r \in F
    /\ pass.again \cap List!Standing = {}
    /\ pass.pc = "end" => List!Standing \subseteq pass.shown

\* With a cursor: the rows from the cursor upwards.
Above == {r \in List!Stored : pass.cursor # NoRow /\ key[r] >= pass.cursor}
CursorFits == pass.kind \in {"history", "conversations"} => Divides(Above)

\* With an offset: what is shown has fewer rows before it, as long as none comes there;
\* and the other way round if none goes either, which the count covers.
Before(r) == {q \in List!Stored : key[q] < key[r]}
Rank(r) == Cardinality(Before(r))
RankFits(r) ==
    /\ r \notin came =>
          /\ r \in pass.shown => Rank(r) < pass.offset
          /\ r \notin pass.again
    /\ r \notin came \cup went =>
          /\ Rank(r) < pass.offset => r \in pass.shown
          /\ pass.pc = "read" => Rank(r) < pass.total
          /\ pass.pc = "end" => r \in pass.shown
OffsetFits == pass.kind = "participants" => \A r \in List!Standing : RankFits(r)

\* What is counted.
Visible == List!Stored \ recalled
CountFits ==
    /\ pass.kind = "thread" =>
          /\ pass.pc = "count" => pass.total = 0
          /\ pass.pc # "count" /\ touched = {} => pass.total = Cardinality(Visible)
    /\ pass.kind \in {"search", "searchAll"} =>
          /\ pass.pc = "read" => pass.shown = {}
          /\ pass.pc # "read" /\ touched = {} => Cardinality(pass.shown) = List!Least(Limit, Cardinality(Visible))
          /\ pass.pc = "end" /\ touched = {} => pass.total = Cardinality(Visible)

ListInv == ListType /\ CursorFits /\ OffsetFits /\ CountFits

LEMMA ListCardinality == ASSUME NEW S PROVE List!Cardinality(S) = Cardinality(S)
BY DEF List!Cardinality, Cardinality

LEMMA RowSets ==
  ASSUME ListType
  PROVE  /\ List!Stored \in SUBSET Listed /\ \A S \in SUBSET Listed : IsFiniteSet(S) /\ Cardinality(S) \in Nat
         /\ Visible \in SUBSET Listed /\ \A r \in List!Stored : key[r] \in 0..MaxTime /\ key[r] # NoRow
<1>1. \A S \in SUBSET Listed : IsFiniteSet(S) /\ Cardinality(S) \in Nat
  BY ListAssumption, FS_Subset, FS_CardinalityType
<1>2. List!Stored \in SUBSET Listed
  BY DEF List!Stored
<1>3. \A r \in List!Stored : key[r] \in 0..MaxTime /\ key[r] # NoRow
  BY DEF List!Stored, ListType
<1> QED BY <1>1, <1>2, <1>3 DEF Visible

\* The smallest of the lower parts of a set of times is its least element's.
LEMMA LeastTime == ASSUME NEW T \in SUBSET (0..MaxTime), T # {} PROVE \E t \in T : \A u \in T : t <= u
<1> DEFINE Lower(x) == {y \in T : y <= x}
           Lowers == {Lower(x) : x \in T}
<1>1. T \subseteq Nat /\ IsFiniteSet(T)
  <2>1. MaxTime \in Int
    BY ListAssumption
  <2>2. IsFiniteSet(0..MaxTime)
    BY <2>1, FS_Interval
  <2>3. IsFiniteSet(T)
    BY <2>2, FS_Subset
  <2> QED BY <2>1, <2>3
<1>2. Lowers \subseteq FiniteSubsetsOf(T) /\ Lowers # {}
  <2>1. FiniteSubsetsOf(T) = SUBSET T
    BY <1>1, FS_FiniteSubsetsOfFinite
  <2>2. \A x \in T : Lower(x) \in SUBSET T
    OBVIOUS
  <2>3. PICK z \in T : TRUE
    OBVIOUS
  <2>4. Lower(z) \in Lowers
    OBVIOUS
  <2> HIDE DEF Lower
  <2>5. Lowers \subseteq SUBSET T
    BY <2>2
  <2> QED BY <2>1, <2>4, <2>5
<1>3. PICK U \in Lowers : \A V \in Lowers : <<V, U>> \notin StrictSubsetOrdering(T)
  BY <1>1, <1>2, FS_StrictSubsetOrderingWellFounded, WFMin
<1>4. PICK x \in T : U = Lower(x)
  BY <1>3
<1>5. ASSUME NEW y \in T PROVE x <= y
  <2> SUFFICES ASSUME ~(x <= y) PROVE FALSE
    OBVIOUS
  <2>0. x \in Nat /\ y \in Nat /\ x <= x /\ \A z \in T : z \in Nat /\ (z <= y => z <= x)
    BY <1>1
  <2>1. Lower(y) \subseteq Lower(x) /\ x \in Lower(x) /\ x \notin Lower(y)
    BY <2>0
  <2>2. <<Lower(y), U>> \in StrictSubsetOrdering(T)
    BY <1>4, <2>1 DEF StrictSubsetOrdering
  <2> QED BY <1>3, <2>2
<1> QED BY <1>5

LEMMA LastOfPage ==
  ASSUME ListType, NEW P \in SUBSET List!Stored, P # {}
  PROVE  LET last == CHOOSE t \in {key[r] : r \in P} : \A r \in P : t <= key[r]
         IN  last \in 0..MaxTime /\ (\E r \in P : last = key[r]) /\ \A r \in P : last <= key[r]
<1> DEFINE T == {key[r] : r \in P}
           last == CHOOSE t \in T : \A r \in P : t <= key[r]
<1>1. T \in SUBSET (0..MaxTime) /\ T # {} /\ \A r \in P : key[r] \in T
  BY RowSets
<1>2. \E t \in T : \A u \in T : t <= u
  BY <1>1, LeastTime
<1>3. \E t \in T : \A r \in P : t <= key[r]
  BY <1>1, <1>2
<1>4. last \in T /\ \A r \in P : last <= key[r]
  BY <1>3
<1> QED BY <1>1, <1>4

\* Milliseconds, and what of a time they lose.
LEMMA MilliFacts ==
  ASSUME NEW t \in Nat, NEW u \in Nat
  PROVE  /\ List!Millis(t) \in Nat /\ List!Millis(t) * MicrosPerMilli \in Nat /\ List!Millis(t) * MicrosPerMilli <= t
         /\ t <= u /\ List!Millis(t) # List!Millis(u) => t < List!Millis(u) * MicrosPerMilli
BY ListAssumption DEF List!Millis

LEMMA ListInitOk == List!Init => ListInv
<1> SUFFICES ASSUME List!Init PROVE ListInv
  OBVIOUS
<1>1. ListType
  <2>1. PICK k \in Lists : pass = [kind |-> k, pc |-> IF k \in {"participants", "thread"} THEN "count" ELSE "read",
                  cursor |-> NoRow, offset |-> 0, shown |-> {}, again |-> {}, total |-> 0]
    BY DEF List!Init
  <2>2. pass \in PassType /\ pass.again \subseteq pass.shown
    BY <2>1 DEF PassType
  <2>3. now \in 0..MaxTime /\ 0..now \subseteq 0..MaxTime
    BY ListAssumption DEF List!Init
  <2>4. key \in [Listed -> 0..MaxTime \cup {NoRow}]
    BY <2>3 DEF List!Init
  <2>5. recalled \subseteq Listed
    BY DEF List!Init, List!Stored
  <2> QED BY <2>2, <2>3, <2>4, <2>5, ListAssumption DEF List!Init, ListType
<1>2. /\ pass.shown = {} /\ pass.again = {} /\ pass.cursor = NoRow /\ pass.offset = 0 /\ pass.total = 0
      /\ pass.kind \in {"participants", "thread"} => pass.pc = "count"
      /\ pass.kind \notin {"participants", "thread"} => pass.pc = "read"
  BY DEF List!Init
<1>3. \A r \in List!Stored : Cardinality(Before(r)) \in Nat
  BY <1>1, RowSets DEF Before
<1>4. OffsetFits
  BY <1>2, <1>3 DEF OffsetFits, RankFits, Rank, List!Standing
<1>5. CursorFits /\ CountFits
  BY <1>2 DEF CursorFits, CountFits, Divides, Above
<1> QED BY <1>1, <1>4, <1>5 DEF ListInv

LEMMA ListFacts == ListInv => List!TypeOK /\ List!ListsAreFaithful
<1> SUFFICES ASSUME ListInv PROVE List!TypeOK /\ List!ListsAreFaithful
  OBVIOUS
<1>1. ListType
  BY DEF ListInv
<1>2. List!TypeOK
  BY <1>1 DEF ListType, PassType, List!TypeOK, List!Times
<1>3. List!PagesAreComplete
  <2>1. CASE pass.kind \in {"history", "conversations"}
    BY <2>1 DEF ListInv, CursorFits, Divides, List!PagesAreComplete
  <2>2. CASE pass.kind = "participants"
    BY <2>2 DEF ListInv, OffsetFits, RankFits, List!PagesAreComplete
  <2> QED BY <2>1, <2>2 DEF List!PagesAreComplete, List!ReadOn
<1>4. List!TotalAgrees
  <2> SUFFICES ASSUME ~List!ReadOn, pass.pc = "end", touched = {}
      PROVE  /\ pass.total = Cardinality(Visible)
             /\ pass.kind # "thread" => Cardinality(pass.shown) = List!Least(Limit, pass.total)
    BY ListCardinality DEF List!TotalAgrees, Visible
  <2>1. pass.kind \in {"thread", "search", "searchAll"}
    BY <1>1 DEF ListType, PassType, Lists, List!ReadOn
  <2> QED BY <2>1 DEF ListInv, CountFits
<1> QED BY <1>2, <1>3, <1>4 DEF List!ListsAreFaithful

\* What is written changes the place of no row that stands still and alone.
LEMMA StandingStays ==
  ASSUME ListType, NEW r \in Listed, \A q \in Listed \ {r} : key'[q] = key[q],
         touched' = touched \cup {r} \cup List!Sharing(r), pass' = pass, key' \in [Listed -> 0..MaxTime \cup {NoRow}]
  PROVE  \A q \in List!Standing' : q \in List!Standing /\ key'[q] = key[q] /\ q # r
<1> SUFFICES ASSUME NEW q \in List!Standing' PROVE q \in List!Standing /\ key'[q] = key[q] /\ q # r
  OBVIOUS
<1>1. q \in Listed /\ key'[q] # NoRow /\ q \notin touched' /\ List!Sharing(q)' = {}
  BY DEF List!Standing, List!Stored
<1>2. q # r /\ q \notin touched /\ q \notin List!Sharing(r) /\ key'[q] = key[q]
  BY <1>1
<1>3. q \in List!Stored
  BY <1>1, <1>2 DEF List!Stored
<1>4. \A p \in Listed : key'[p] = key[p] => List!Place(p)' = List!Place(p)
  BY DEF List!Place
<1>5. ASSUME NEW p \in List!Sharing(q) PROVE FALSE
  <2>1. p \in Listed /\ p # q /\ key[p] # NoRow /\ List!Place(p) = List!Place(q)
    BY <1>5 DEF List!Sharing, List!Stored
  <2>2. CASE p = r
    <3>1. q \in List!Sharing(r)
      BY <1>2, <1>3, <2>1, <2>2 DEF List!Sharing
    <3> QED BY <1>2, <3>1
  <2>3. CASE p # r
    <3>1. key'[p] = key[p]
      BY <2>1, <2>3
    <3>2. p \in List!Sharing(q)'
      BY <1>1, <1>2, <1>4, <2>1, <3>1 DEF List!Sharing, List!Stored
    <3> QED BY <1>1, <3>2
  <2> QED BY <2>2, <2>3
<1> QED BY <1>2, <1>3, <1>5 DEF List!Standing

LEMMA WriteStep ==
  ASSUME ListInv, NEW r \in Listed,
         List!Store(r) \/ List!Remove(r) \/ List!UpdateLastMessage(r) \/ List!Recall(r)
  PROVE  ListInv'
<1>1. ListType
  BY DEF ListInv
<1>2. /\ pass' = pass /\ now' = now
      /\ touched' = touched \cup {r} \cup List!Sharing(r) /\ written' = written + 1 /\ written < MaxChanges
  BY DEF List!Store, List!Remove, List!UpdateLastMessage, List!Recall, List!Writes
<1>3. key' \in [Listed -> 0..MaxTime \cup {NoRow}] /\ \A q \in Listed \ {r} : key'[q] = key[q]
  <2>1. 0 \in 0..MaxTime
    BY ListAssumption
  <2> QED BY <1>1, <2>1 DEF ListType, List!Store, List!Remove, List!UpdateLastMessage, List!Recall, List!Stamps, List!Times
<1>4. ListType'
  <2>1. recalled' \subseteq Listed
    BY <1>1 DEF ListType, List!Store, List!Remove, List!UpdateLastMessage, List!Recall
  <2>2. touched' \subseteq Listed
    BY <1>1, <1>2 DEF ListType, List!Sharing, List!Stored
  <2>3. written' \in 0..MaxChanges
    BY <1>1, <1>2, ListAssumption DEF ListType
  <2>4. came' \subseteq Listed /\ went' \subseteq Listed
    BY <1>1 DEF ListType, List!Store, List!Remove, List!UpdateLastMessage, List!Recall, List!Behind, List!Stored
  <2> QED BY <1>1, <1>2, <1>3, <2>1, <2>2, <2>3, <2>4 DEF ListType
<1>5. \A q \in List!Standing' : q \in List!Standing /\ key'[q] = key[q] /\ q # r
  BY <1>1, <1>2, <1>3, StandingStays
<1>6. CursorFits'
  <2> SUFFICES ASSUME pass.kind \in {"history", "conversations"} PROVE Divides(Above)'
    BY <1>2 DEF CursorFits
  <2>1. Divides(Above)
    BY DEF ListInv, CursorFits
  <2>2. \A q \in List!Standing' : q \in Above' <=> q \in Above
    BY <1>2, <1>5 DEF Above, List!Standing, List!Stored
  <2> QED BY <1>2, <1>5, <2>1, <2>2 DEF Divides
<1>7. OffsetFits'
  <2> SUFFICES ASSUME pass.kind = "participants", NEW q \in List!Standing' PROVE RankFits(q)'
    BY <1>2 DEF OffsetFits
  <2>1. q \in List!Standing /\ q \in List!Stored /\ key'[q] = key[q] /\ q # r /\ RankFits(q)
    BY <1>5 DEF ListInv, OffsetFits, List!Standing
  <2>2. came \subseteq came' /\ went \subseteq went'
    BY DEF List!Store, List!Remove, List!UpdateLastMessage, List!Recall
  <2>3. ASSUME q \notin came' PROVE Before(q)' \subseteq Before(q)
    <3> SUFFICES ASSUME NEW p \in Before(q)', p \notin Before(q) PROVE FALSE
      OBVIOUS
    <3>1. p = r /\ key'[r] # NoRow /\ key'[r] < key[q]
      BY <1>3, <2>1 DEF Before, List!Stored
    <3>2. key'[r] # key[r]
      BY <3>1 DEF Before, List!Stored
    <3>3. PICK t : key' = [key EXCEPT ![r] = t] /\ came' = came \cup List!Behind(t)
      BY <3>1, <3>2, <1>1 DEF ListType, List!Store, List!Remove, List!UpdateLastMessage, List!Recall
    <3>4. t = key'[r]
      BY <1>1, <3>3 DEF ListType
    <3>5. q \in List!Behind(t)
      <4>1. key'[r] \in Nat /\ key[q] \in Nat
        BY <1>1, <1>3, <2>1, <3>1, RowSets
      <4> QED BY <2>1, <3>1, <3>4, <4>1 DEF List!Behind
    <3> QED BY <2>3, <3>3, <3>5
  <2>4. ASSUME q \notin went' PROVE Before(q) \subseteq Before(q)'
    <3> SUFFICES ASSUME NEW p \in Before(q), p \notin Before(q)' PROVE FALSE
      OBVIOUS
    <3>1. p = r /\ key[r] # NoRow /\ key[r] < key[q] /\ key'[r] # key[r]
      BY <1>3, <2>1 DEF Before, List!Stored
    <3>2. went' = went \cup List!Behind(key[r])
      BY <3>1 DEF List!Store, List!Remove, List!UpdateLastMessage, List!Recall
    <3>3. q \in List!Behind(key[r])
      <4>1. key[r] \in Nat /\ key[q] \in Nat
        BY <1>1, <2>1, <3>1, RowSets DEF List!Stored
      <4> QED BY <2>1, <3>1, <4>1 DEF List!Behind
    <3> QED BY <2>4, <3>2, <3>3
  <2>5. Before(q) \in SUBSET Listed /\ Before(q)' \in SUBSET Listed
    BY DEF Before, List!Stored
  <2>6. IsFiniteSet(Before(q)) /\ Rank(q) \in Nat /\ Rank(q)' \in Nat /\ pass.offset \in Nat
    BY <1>1, <2>5, RowSets DEF Rank, ListType, PassType
  <2>7. q \notin came' => Rank(q)' <= Rank(q)
    BY <2>3, <2>6, FS_Subset DEF Rank
  <2>8. ASSUME q \notin came' \cup went' PROVE Rank(q)' = Rank(q)
    <3>1. Before(q)' = Before(q)
      BY <2>3, <2>4, <2>8
    <3> QED BY <3>1 DEF Rank
  <2> QED BY <1>2, <2>1, <2>2, <2>6, <2>7, <2>8 DEF RankFits
<1>8. CountFits'
  <2>1. touched' # {}
    BY <1>2
  <2> QED BY <1>2, <2>1 DEF ListInv, CountFits
<1> QED BY <1>4, <1>6, <1>7, <1>8 DEF ListInv

\* The sizes of a part of the rows and of a page after it.
LEMMA LeastIs == ASSUME NEW a \in Nat, NEW b \in Nat PROVE List!Least(a, b) = IF a < b THEN a ELSE b
BY DEF List!Least

LEMMA PageFacts ==
  ASSUME ListType, NEW P, P \in List!Pages
  PROVE  \E Q \in List!Firsts(List!Skipped, List!Matching) : P \in List!Firsts(Limit, List!Matching \ Q)
BY DEF List!Pages

LEMMA FirstsFacts ==
  ASSUME ListType, NEW n \in Nat, NEW S \in SUBSET List!Stored, NEW P \in List!Firsts(n, S)
  PROVE  /\ P \subseteq S /\ IsFiniteSet(P) /\ Cardinality(P) \in Nat /\ Cardinality(S) \in Nat
         /\ Cardinality(P) = IF n < Cardinality(S) THEN n ELSE Cardinality(S)
         /\ \A p \in P, q \in S \ P : ~List!Earlier(q, p)
         /\ Cardinality(S) <= n => P = S
<1>1. S \in SUBSET Listed /\ P \in SUBSET Listed /\ P \subseteq S
  BY RowSets DEF List!Firsts
<1>2. IsFiniteSet(P) /\ IsFiniteSet(S) /\ Cardinality(P) \in Nat /\ Cardinality(S) \in Nat
  BY <1>1, RowSets
<1>3. Cardinality(P) = List!Least(n, Cardinality(S)) /\ \A p \in P, q \in S \ P : ~List!Earlier(q, p)
  BY ListCardinality DEF List!Firsts
<1>4. Cardinality(P) = IF n < Cardinality(S) THEN n ELSE Cardinality(S)
  BY <1>2, <1>3, LeastIs
<1>5. Cardinality(P) = Cardinality(S) => P = S
  BY <1>1, <1>2, FS_Subset
<1>6. Cardinality(S) <= n => P = S
  BY <1>2, <1>4, <1>5
<1> QED BY <1>1, <1>2, <1>3, <1>4, <1>6

LEMMA MatchingIs ==
  ASSUME ListType
  PROVE  /\ pass.kind = "history" => List!Matching = List!History
         /\ pass.kind = "conversations" => List!Matching = List!UserConversations
         /\ pass.kind = "participants" => List!Matching = List!Participants
         /\ pass.kind = "thread" => List!Matching = List!Replies
         /\ pass.kind \in {"search", "searchAll"} => List!Matching = List!Found
         /\ List!Matching \in SUBSET List!Stored
         /\ List!Skipped = (IF pass.kind = "participants" THEN pass.offset ELSE 0) /\ List!Skipped \in Nat
<1>1. pass.kind \in Lists /\ pass.offset \in Nat
  BY DEF ListType, PassType
<1>2. /\ pass.kind = "history" => List!Matching = List!History
      /\ pass.kind = "conversations" => List!Matching = List!UserConversations
      /\ pass.kind = "participants" => List!Matching = List!Participants
      /\ pass.kind = "thread" => List!Matching = List!Replies
      /\ pass.kind \in {"search", "searchAll"} => List!Matching = List!Found
  BY <1>1 DEF List!Matching
<1>3. List!Matching \in SUBSET List!Stored
  BY <1>1, <1>2 DEF Lists, List!History, List!UserConversations, List!Participants, List!Replies, List!Found
<1> QED BY <1>1, <1>2, <1>3 DEF List!Skipped

\* A page and what the step leaves in pass.
LEMMA FetchFacts ==
  ASSUME ListType, pass.pc = "read", NEW P \in List!Pages, NEW then \in {"read", "count", "end"}, List!Fetch(P, then)
  PROVE  /\ P \in List!Pages /\ P \in SUBSET List!Matching /\ ListType'
         /\ pass.pc = "read" /\ pass'.pc = then /\ pass'.kind = pass.kind /\ pass'.total = pass.total
         /\ pass'.shown = pass.shown \cup P /\ pass'.again = pass.again \cup (pass.shown \cap P)
         /\ pass'.cursor = List!NextCursor(P) /\ pass'.offset = List!Skipped + Limit
         /\ UNCHANGED <<key, recalled, now, touched, came, went, written>>
         /\ List!Standing' = List!Standing /\ List!Stored' = List!Stored
<1>1. P \in List!Pages
  OBVIOUS
<1>2. PICK Q \in List!Firsts(List!Skipped, List!Matching) : P \in List!Firsts(Limit, List!Matching \ Q)
  BY <1>1, PageFacts
<1>3. P \in SUBSET List!Matching
  BY <1>2 DEF List!Firsts
<1>4. P \in SUBSET Listed /\ List!Skipped + Limit \in Nat
  BY <1>3, MatchingIs, RowSets, ListAssumption
<1>6. List!NextCursor(P) \in 0..MaxTime \cup {NoRow}
  <2>1. CASE P = {}
    BY <2>1 DEF List!NextCursor, ListType, PassType
  <2>2. CASE P # {}
    <3> DEFINE last == CHOOSE t \in {key[r] : r \in P} : \A r \in P : t <= key[r]
    <3>1. last \in 0..MaxTime
      BY <1>3, <2>2, MatchingIs, LastOfPage
    <3> HIDE DEF last
    <3>2. List!NextCursor(P) = IF pass.kind = "conversations" THEN List!Millis(last) * MicrosPerMilli ELSE last
      BY <2>2 DEF List!NextCursor, last
    <3>3. List!Millis(last) * MicrosPerMilli \in 0..MaxTime
      BY <3>1, MilliFacts, ListAssumption
    <3> QED BY <3>1, <3>2, <3>3
  <2> QED BY <2>1, <2>2
<1> DEFINE cursor == List!NextCursor(P)
           offset == List!Skipped + Limit
<1>7. /\ pass' = [pass EXCEPT !.shown = pass.shown \cup P, !.again = pass.again \cup (pass.shown \cap P),
                     !.cursor = cursor, !.offset = offset, !.pc = then]
      /\ pass.pc = "read" /\ UNCHANGED <<key, recalled, now, touched, came, went, written>>
  BY DEF List!Fetch
<1>8. pass \in PassType /\ pass.again \subseteq pass.shown
  BY DEF ListType
<1> HIDE DEF cursor, offset
<1>9. pass' \in PassType
  BY <1>4, <1>6, <1>7, <1>8 DEF PassType, cursor, offset
<1>10. /\ pass'.pc = then /\ pass'.kind = pass.kind /\ pass'.total = pass.total /\ pass'.cursor = cursor /\ pass'.offset = offset
       /\ pass'.shown = pass.shown \cup P /\ pass'.again = pass.again \cup (pass.shown \cap P)
  BY <1>7, <1>8 DEF PassType
<1>11. ListType'
  BY <1>7, <1>8, <1>9, <1>10 DEF ListType
<1>12. List!Stored' = List!Stored
  BY <1>7 DEF List!Stored
<1>13. \A r : List!Place(r)' = List!Place(r)
  BY <1>7, <1>10 DEF List!Place
<1>14. \A r : List!Sharing(r)' = List!Sharing(r)
  BY <1>7, <1>12, <1>13 DEF List!Sharing
<1>15. List!Standing' = List!Standing
  BY <1>7, <1>12, <1>14 DEF List!Standing
<1> QED BY <1>1, <1>3, <1>7, <1>10, <1>11, <1>12, <1>15 DEF cursor, offset

\* A page below the cursor.
LEMMA CursorStep ==
  ASSUME ListInv, pass.kind \in {"history", "conversations"}, pass.pc = "read", NEW P \in List!Pages,
         List!Fetch(P, IF List!HasMore THEN "read" ELSE "end")
  PROVE  ListInv'
<1>1. ListType /\ Divides(Above)
  BY DEF ListInv, CursorFits
<1>2. PICK then \in {"read", "count", "end"} : then = IF List!HasMore THEN "read" ELSE "end"
  OBVIOUS
<1>3. List!Fetch(P, then)
  BY <1>2
<1>4. /\ P \in List!Pages /\ P \in SUBSET List!Matching /\ ListType'
      /\ pass.pc = "read" /\ pass'.pc = then /\ pass'.kind = pass.kind
      /\ pass'.shown = pass.shown \cup P /\ pass'.again = pass.again \cup (pass.shown \cap P)
      /\ pass'.cursor = List!NextCursor(P)
      /\ key' = key /\ List!Standing' = List!Standing /\ List!Stored' = List!Stored
  BY <1>1, <1>3, FetchFacts
<1>5. List!Matching = {r \in List!Stored : List!Below(r)} /\ List!Skipped = 0 /\ List!Matching \in SUBSET List!Stored
  BY <1>1, MatchingIs DEF List!History, List!UserConversations
<1>6. P \in List!Firsts(Limit, List!Matching)
  <2>1. PICK Q \in List!Firsts(List!Skipped, List!Matching) : P \in List!Firsts(Limit, List!Matching \ Q)
    BY <1>1, <1>4, PageFacts
  <2>2. Cardinality(Q) = 0 /\ IsFiniteSet(Q)
    BY <1>1, <1>5, <2>1, FirstsFacts
  <2>3. Q = {}
    BY <2>2, FS_EmptySet
  <2> QED BY <2>1, <2>3
<1>7. \A p \in P, q \in List!Matching \ P : ~List!Earlier(q, p)
  BY <1>1, <1>5, <1>6, ListAssumption, FirstsFacts
<1>8. /\ \A r \in List!Standing : r \in List!Stored /\ (r \in pass.shown <=> r \in Above)
      /\ \A r \in List!Stored : r \in List!Matching <=> r \notin Above
  <2>1. pass.cursor \in 0..MaxTime \cup {NoRow}
    BY <1>1 DEF ListType, PassType
  <2>2. \A r \in List!Stored : List!Below(r) <=> r \notin Above
    BY <1>1, <2>1, RowSets DEF List!Below, Above
  <2> QED BY <1>1, <1>5, <2>2 DEF Divides, List!Standing
<1>9. \A r \in List!Standing : r \in pass'.shown <=> r \in Above'
  <2>1. CASE P = {}
    <3>1. pass'.cursor = pass.cursor
      BY <1>4, <2>1 DEF List!NextCursor
    <3> QED BY <1>4, <1>8, <2>1, <3>1 DEF Above
  <2>2. CASE P # {}
    <3> DEFINE last == CHOOSE t \in {key[r] : r \in P} : \A r \in P : t <= key[r]
    <3>1. last \in 0..MaxTime /\ (\E r \in P : last = key[r]) /\ \A r \in P : last <= key[r]
      BY <1>1, <1>4, <1>5, <2>2, LastOfPage
    <3>2. pass'.cursor = IF pass.kind = "conversations" THEN List!Millis(last) * MicrosPerMilli ELSE last
      BY <1>4, <2>2 DEF List!NextCursor
    <3> HIDE DEF last
    <3>3. pass'.cursor \in Nat /\ pass'.cursor <= last
      BY <3>1, <3>2, MilliFacts
    <3>4. pass'.cursor # NoRow
      BY <3>1, <3>3, ListAssumption
    <3>5. PICK p \in P : last = key[p]
      BY <3>1
    <3>6. \A r \in List!Stored : r \in Above' <=> key[r] >= pass'.cursor
      BY <1>4, <3>4 DEF Above
    <3>7. p \in List!Stored /\ p \in List!Matching /\ key[p] \in 0..MaxTime
      BY <1>1, <1>4, <1>5, RowSets
    <3>8. ASSUME NEW r \in List!Standing, r \in P PROVE r \in Above'
      BY <1>1, <1>8, <3>1, <3>3, <3>6, <3>8, RowSets
    <3>9. ASSUME NEW r \in List!Standing, r \in pass.shown PROVE r \in Above'
      <4>1. r \in Above /\ p \notin Above /\ r \in List!Stored
        BY <1>8, <3>7, <3>9
      <4>2. key[p] <= key[r]
        <5>1. pass.cursor \in 0..MaxTime \cup {NoRow} /\ key[r] \in 0..MaxTime
          BY <1>1, <4>1, RowSets DEF ListType, PassType
        <5> QED BY <3>7, <4>1, <5>1, ListAssumption DEF Above
      <4> QED BY <1>1, <3>1, <3>3, <3>5, <3>6, <4>1, <4>2, RowSets
    <3>10. ASSUME NEW r \in List!Standing, r \notin P, r \notin pass.shown PROVE r \notin Above'
      <4>1. r \in List!Matching \ P /\ r \in List!Stored /\ key[r] \in 0..MaxTime /\ r # p
        BY <1>1, <1>8, <3>10, RowSets
      <4>2. key[r] <= key[p]
        BY <1>1, <1>7, <3>7, <4>1 DEF List!Earlier
      <4>3. List!Place(p) # List!Place(r)
        BY <3>7, <4>1, RowSets, <1>1 DEF List!Standing, List!Sharing
      <4>4. key[r] < pass'.cursor
        <5>1. CASE pass.kind = "history"
          BY <3>2, <3>5, <3>7, <4>1, <4>2, <4>3, <5>1 DEF List!Place
        <5>2. CASE pass.kind = "conversations"
          <6>1. List!Millis(key[p]) # List!Millis(key[r])
            BY <4>3, <5>2 DEF List!Place
          <6>2. key[r] \in Nat /\ key[p] \in Nat
            BY <3>7, <4>1
          <6>3. key[r] < List!Millis(key[p]) * MicrosPerMilli
            BY <4>2, <6>1, <6>2, MilliFacts
          <6> QED BY <3>2, <3>5, <5>2, <6>3
        <5> QED BY <5>1, <5>2
      <4> QED BY <3>3, <3>6, <4>1, <4>4
    <3> QED BY <1>4, <3>8, <3>9, <3>10
  <2> QED BY <2>1, <2>2
<1>10. pass'.again \cap List!Standing = {}
  BY <1>1, <1>4, <1>8 DEF Divides
<1>11. ASSUME then = "end" PROVE List!Standing \subseteq pass'.shown
  <2>1. ~List!HasMore
    BY <1>2, <1>11
  <2>2. ~(Cardinality(List!Matching) > Limit)
    BY <2>1, ListCardinality DEF List!HasMore
  <2>3. P = List!Matching
    BY <1>1, <1>5, <1>6, <2>2, ListAssumption, FirstsFacts
  <2> QED BY <1>4, <1>8, <2>3
<1>12. CursorFits'
  BY <1>2, <1>4, <1>9, <1>10, <1>11 DEF CursorFits, Divides
<1> QED BY <1>4, <1>12 DEF ListInv, OffsetFits, CountFits

\* A row that is told from all others by its place is among the first n exactly
\* if fewer than n are before it.
LEMMA RankOf ==
  ASSUME NEW S, IsFiniteSet(S), NEW Q \in SUBSET S, NEW n \in Nat, NEW B \in SUBSET S, NEW r \in S, r \notin B,
         Cardinality(Q) = IF n < Cardinality(S) THEN n ELSE Cardinality(S),
         r \in Q => B \subseteq Q, r \notin Q => Q \subseteq B
  PROVE  r \in Q <=> Cardinality(B) < n
<1>1. IsFiniteSet(Q) /\ IsFiniteSet(B) /\ Cardinality(Q) \in Nat /\ Cardinality(B) \in Nat /\ Cardinality(S) \in Nat
  BY FS_Subset, FS_CardinalityType
<1>2. ASSUME r \in Q PROVE Cardinality(B) < n
  <2>1. Cardinality(B) <= Cardinality(Q) /\ (Cardinality(B) = Cardinality(Q) => Q = B)
    BY <1>1, <1>2, FS_Subset
  <2> QED BY <1>1, <1>2, <2>1
<1>3. ASSUME r \notin Q PROVE n <= Cardinality(B)
  <2>1. Cardinality(Q) <= Cardinality(B)
    BY <1>1, <1>3, FS_Subset
  <2>2. Cardinality(Q) # Cardinality(S)
    BY <1>3, FS_Subset
  <2> QED BY <1>1, <2>1, <2>2
<1> QED BY <1>1, <1>2, <1>3

\* A page after the offset.
LEMMA OffsetStep ==
  ASSUME ListInv, pass.kind = "participants", pass.pc = "read", NEW P \in List!Pages,
         List!Fetch(P, IF List!HasMore THEN "count" ELSE "end")
  PROVE  ListInv'
<1>1. ListType /\ pass.offset \in Nat /\ pass.total \in Nat /\ \A r \in List!Standing : RankFits(r)
  BY DEF ListInv, OffsetFits, ListType, PassType
<1>2. PICK then \in {"read", "count", "end"} : then = IF List!HasMore THEN "count" ELSE "end"
  OBVIOUS
<1>3. List!Fetch(P, then)
  BY <1>2
<1>4. /\ P \in List!Pages /\ ListType'
      /\ pass.pc = "read" /\ pass'.pc = then /\ pass'.kind = pass.kind
      /\ pass'.shown = pass.shown \cup P /\ pass'.again = pass.again \cup (pass.shown \cap P)
      /\ pass'.offset = List!Skipped + Limit /\ pass'.total = pass.total
      /\ UNCHANGED <<key, came, went>> /\ List!Standing' = List!Standing /\ List!Stored' = List!Stored
  BY <1>1, <1>3, FetchFacts
<1>5. List!Matching = List!Stored /\ List!Skipped = pass.offset /\ Limit \in Nat
  BY <1>1, MatchingIs, ListAssumption DEF List!Participants
<1>6. PICK Q \in List!Firsts(pass.offset, List!Stored) : P \in List!Firsts(Limit, List!Stored \ Q)
  BY <1>1, <1>4, <1>5, PageFacts
<1> DEFINE S == List!Stored
<1>7. /\ Q \subseteq S /\ IsFiniteSet(Q) /\ Cardinality(Q) \in Nat /\ Cardinality(S) \in Nat
      /\ Cardinality(Q) = IF pass.offset < Cardinality(S) THEN pass.offset ELSE Cardinality(S)
      /\ \A p \in Q, q \in S \ Q : ~List!Earlier(q, p)
  BY <1>1, FirstsFacts
<1>8. /\ P \subseteq S \ Q /\ IsFiniteSet(P) /\ Cardinality(P) \in Nat /\ Cardinality(S \ Q) \in Nat
      /\ Cardinality(P) = IF Limit < Cardinality(S \ Q) THEN Limit ELSE Cardinality(S \ Q)
      /\ \A p \in P, q \in (S \ Q) \ P : ~List!Earlier(q, p)
  <2>1. S \ Q \in SUBSET S
    OBVIOUS
  <2> QED BY <1>1, <1>5, <1>6, <2>1, FirstsFacts
<1>9. IsFiniteSet(S) /\ S \in SUBSET Listed /\ \A r \in S : key[r] \in 0..MaxTime /\ key[r] # NoRow
  BY <1>1, RowSets
<1>10. Cardinality(S \ Q) = Cardinality(S) - Cardinality(Q)
  <2>1. S \cap Q = Q
    BY <1>7
  <2>2. \A T : IsFiniteSet(T) => \A U : Cardinality(T \ U) = Cardinality(T) - Cardinality(T \cap U)
    BY FS_Difference
  <2>3. Cardinality(S \ Q) = Cardinality(S) - Cardinality(S \cap Q)
    BY <1>9, <2>2
  <2> QED BY <2>1, <2>3
<1>11. Cardinality(Q \cup P) = Cardinality(Q) + Cardinality(P)
  <2>1. Q \cap P = {}
    BY <1>8
  <2>2. Cardinality(Q \cup P) = Cardinality(Q) + Cardinality(P) - Cardinality({})
    BY <1>7, <1>8, <2>1, FS_Union
  <2> QED BY <1>7, <1>8, <2>2, FS_EmptySet
<1>12. pass.offset + Limit \in Nat
       /\ Cardinality(Q \cup P) = IF pass.offset + Limit < Cardinality(S) THEN pass.offset + Limit ELSE Cardinality(S)
  BY <1>1, <1>5, <1>7, <1>8, <1>10, <1>11
<1>13. \A p, q : List!Earlier(p, q) <=> key[p] < key[q]
  BY DEF List!Earlier
<1>14. ASSUME NEW r \in List!Standing
       PROVE  /\ r \in S /\ (r \in Q <=> Cardinality(Before(r)) < pass.offset)
              /\ r \in Q \cup P <=> Cardinality(Before(r)) < pass.offset + Limit
  <2>1. r \in S /\ \A q \in S \ {r} : key[q] # key[r]
    BY <1>9 DEF List!Standing, List!Sharing, List!Place
  <2>2. Before(r) \in SUBSET S /\ r \notin Before(r) /\ \A q \in S \ {r} : q \in Before(r) \/ key[r] < key[q]
    BY <1>9, <2>1 DEF Before
  <2>3. \A q \in Before(r) : q \in S /\ List!Earlier(q, r)
    BY <1>13 DEF Before
  <2>4. (r \in Q => Before(r) \subseteq Q) /\ (r \notin Q => Q \subseteq Before(r))
    BY <1>7, <1>13, <2>1, <2>2, <2>3
  <2>5. (r \in Q \cup P => Before(r) \subseteq Q \cup P) /\ (r \notin Q \cup P => Q \cup P \subseteq Before(r))
    BY <1>7, <1>8, <1>13, <2>1, <2>2, <2>3
  <2>6. r \in Q <=> Cardinality(Before(r)) < pass.offset
    BY <1>1, <1>7, <1>9, <2>1, <2>2, <2>4, RankOf
  <2>7. Q \cup P \in SUBSET S
    BY <1>7, <1>8
  <2>8. r \in Q \cup P <=> Cardinality(Before(r)) < pass.offset + Limit
    BY <1>9, <1>12, <2>1, <2>2, <2>5, <2>7, RankOf
  <2> QED BY <2>1, <2>6, <2>8
<1>15. ASSUME NEW r \in List!Standing PROVE RankFits(r)'
  <2>1. Before(r)' = Before(r) /\ Rank(r)' = Rank(r)
    BY <1>4 DEF Before, Rank
  <2>2. RankFits(r) /\ Rank(r) \in Nat /\ pass'.offset = pass.offset + Limit
    <3>1. Before(r) \in SUBSET Listed
      BY <1>9 DEF Before
    <3> QED BY <1>1, <1>4, <1>5, <3>1, RowSets DEF Rank
  <2>3. r \in Q <=> Rank(r) < pass.offset
    BY <1>14 DEF Rank
  <2>4. r \in Q \cup P <=> Rank(r) < pass.offset + Limit
    BY <1>14 DEF Rank
  <2>5. r \in P => r \notin Q
    BY <1>8
  <2>6. then = "end" => pass.total <= pass.offset + Limit
    BY <1>1, <1>2, <1>5, <1>12 DEF List!HasMore
  <2> HIDE DEF S
  <2> QED BY <1>1, <1>2, <1>4, <1>12, <2>1, <2>2, <2>3, <2>4, <2>5, <2>6 DEF RankFits
<1>20. OffsetFits'
  BY <1>4, <1>15 DEF OffsetFits
<1> QED BY <1>4, <1>20 DEF ListInv, CursorFits, CountFits

\* The page of a thread and the one of a search.
LEMMA OnePageStep ==
  ASSUME ListInv, pass.pc = "read", NEW P \in List!Pages, List!GetThread(P) \/ List!SearchMessages(P)
  PROVE  ListInv'
<1>1. ListType
  BY DEF ListInv
<1>2. PICK then \in {"read", "count", "end"} :
        /\ List!Fetch(P, then)
        /\ \/ pass.kind = "thread" /\ then = "end"
           \/ pass.kind \in {"search", "searchAll"} /\ then = "count"
  BY DEF List!GetThread, List!SearchMessages
<1>3. /\ P \in List!Pages /\ ListType' /\ pass.pc = "read" /\ pass'.pc = then /\ pass'.kind = pass.kind
      /\ pass'.total = pass.total /\ pass'.shown = pass.shown \cup P
      /\ UNCHANGED <<key, recalled, touched>> /\ List!Stored' = List!Stored
  BY <1>1, <1>2, FetchFacts
<1>4. Visible' = Visible
  BY <1>3 DEF Visible
<1>5. ASSUME pass.kind \in {"search", "searchAll"} PROVE Cardinality(P) = List!Least(Limit, Cardinality(Visible))
  <2>1. List!Matching = Visible /\ List!Skipped = 0 /\ Visible \in SUBSET List!Stored
    BY <1>1, <1>5, MatchingIs DEF List!Found, Visible
  <2>2. PICK Q \in List!Firsts(List!Skipped, List!Matching) : P \in List!Firsts(Limit, List!Matching \ Q)
    BY <1>1, <1>3, PageFacts
  <2>3. Cardinality(Q) = 0 /\ IsFiniteSet(Q)
    BY <1>1, <2>1, <2>2, FirstsFacts
  <2>4. Q = {}
    BY <2>3, FS_EmptySet
  <2> QED BY <2>1, <2>2, <2>4, ListCardinality DEF List!Firsts
<1>6. CountFits'
  BY <1>2, <1>3, <1>4, <1>5 DEF ListInv, CountFits
<1> QED BY <1>2, <1>3, <1>6 DEF ListInv, CursorFits, OffsetFits

\* COUNT(*), and its failure.
LEMMA CountStep == ASSUME ListInv, List!CountRows \/ List!CountFails PROVE ListInv'
<1>1. ListType /\ IsFiniteSet(Visible) /\ Cardinality(Visible) \in Nat /\ Cardinality(List!Stored) \in Nat
  BY RowSets DEF ListInv
<1>2. pass.pc = "count" /\ UNCHANGED <<key, recalled, now, came, went, written>> /\ pass \in PassType /\ pass.again \subseteq pass.shown
  BY <1>1 DEF List!CountRows, List!CountFails, ListType
<1>3. pass.kind \in {"participants", "thread", "search", "searchAll"}
  BY <1>2 DEF ListInv, CursorFits, Divides, PassType, Lists
<1>4. List!Stored' = List!Stored /\ Visible' = Visible
  BY <1>2 DEF List!Stored, Visible
<1>5. CASE List!CountRows
  <2>1. PICK n \in Nat : n = Cardinality(IF pass.kind = "participants" THEN List!Stored ELSE Visible)
    BY <1>1
  <2>2. PICK then \in {"read", "end"} : then = IF pass.kind \in {"participants", "thread"} THEN "read" ELSE "end"
    OBVIOUS
  <2>3. pass' = [pass EXCEPT !.total = n, !.pc = then] /\ touched' = touched
    BY <1>5, <2>1, <2>2, ListCardinality DEF List!CountRows, Visible
  <2>4. /\ pass' \in PassType /\ pass'.total = n /\ pass'.pc = then /\ pass'.kind = pass.kind
        /\ pass'.shown = pass.shown /\ pass'.again = pass.again /\ pass'.offset = pass.offset
    BY <1>2, <2>3 DEF PassType
  <2>5. ListType'
    BY <1>1, <1>2, <2>3, <2>4 DEF ListType
  <2>6. CountFits'
    BY <1>2, <1>4, <2>1, <2>2, <2>3, <2>4 DEF ListInv, CountFits
  <2>7. OffsetFits'
    <3> SUFFICES ASSUME pass.kind = "participants", NEW r \in List!Standing' PROVE RankFits(r)'
      BY <2>4 DEF OffsetFits
    <3>1. then = "read" /\ n = Cardinality(List!Stored)
      BY <2>1, <2>2
    <3>2. \A q : List!Place(q)' = List!Place(q) /\ Before(q)' = Before(q)
      BY <1>2, <1>4, <2>4 DEF List!Place, Before
    <3>3. \A q : List!Sharing(q)' = List!Sharing(q)
      BY <1>2, <1>4, <3>2 DEF List!Sharing
    <3>4. List!Standing' = List!Standing
      BY <1>4, <2>3, <3>3 DEF List!Standing
    <3>5. r \in List!Stored /\ RankFits(r) /\ Rank(r)' = Rank(r)
      BY <3>2, <3>4 DEF ListInv, OffsetFits, List!Standing, Rank
    <3>6. Rank(r) < n
      <4>1. key[r] \in Nat
        BY <1>1, <3>5, RowSets
      <4>2. Before(r) \subseteq List!Stored /\ r \notin Before(r)
        BY <4>1 DEF Before
      <4>3. IsFiniteSet(List!Stored) /\ IsFiniteSet(Before(r)) /\ Cardinality(Before(r)) \in Nat
        BY <1>1, <4>2, RowSets
      <4>4. Cardinality(Before(r)) <= Cardinality(List!Stored) /\ Cardinality(Before(r)) # Cardinality(List!Stored)
        BY <3>5, <4>2, <4>3, FS_Subset
      <4> QED BY <1>1, <3>1, <4>3, <4>4 DEF Rank
    <3> QED BY <1>2, <2>4, <3>1, <3>5, <3>6 DEF RankFits
  <2> QED BY <1>3, <2>4, <2>5, <2>6, <2>7 DEF ListInv, CursorFits
<1>6. CASE List!CountFails
  <2>1. pass' = [pass EXCEPT !.pc = "read"] /\ touched' = Listed /\ pass.kind = "thread"
    BY <1>6 DEF List!CountFails
  <2>2. /\ pass' \in PassType /\ pass'.total = pass.total /\ pass'.pc = "read" /\ pass'.kind = "thread"
        /\ pass'.shown = pass.shown /\ pass'.again = pass.again
    BY <1>2, <2>1 DEF PassType
  <2>3. ListType'
    BY <1>1, <1>2, <2>1, <2>2 DEF ListType
  <2>4. touched' = {} => Visible = {}
    BY <1>1, <2>1, RowSets
  <2>5. CountFits'
    BY <1>2, <1>4, <2>1, <2>2, <2>4, FS_EmptySet DEF ListInv, CountFits
  <2> QED BY <2>2, <2>3, <2>5 DEF ListInv, CursorFits, OffsetFits
<1> QED BY <1>5, <1>6

LEMMA ListStutter ==
  ASSUME ListInv, UNCHANGED <<key, recalled, pass, touched, came, went, written>>, now' \in 0..MaxTime
  PROVE  ListInv'
<1>1. ListType'
  BY DEF ListInv, ListType
<1>2. CursorFits'
  BY DEF ListInv, CursorFits, Divides, Above, List!Standing, List!Stored, List!Sharing, List!Place
<1>3. OffsetFits'
  BY DEF ListInv, OffsetFits, RankFits, Rank, Before, List!Standing, List!Stored, List!Sharing, List!Place
<1>4. CountFits'
  BY DEF ListInv, CountFits, Visible, List!Stored
<1> QED BY <1>1, <1>2, <1>3, <1>4 DEF ListInv

LEMMA ListStep == ASSUME ListInv, [List!Next]_listVars PROVE ListInv'
<1>1. ASSUME List!Tick PROVE ListInv'
  <2>1. now' \in 0..MaxTime /\ UNCHANGED <<key, recalled, pass, touched, came, went, written>>
    BY <1>1, ListAssumption DEF List!Tick, ListInv, ListType
  <2> QED BY <2>1, ListStutter
<1>2. ASSUME pass.pc = "read", NEW P \in List!Pages, List!FetchHistory(P) \/ List!FetchConversations(P) PROVE ListInv'
  BY <1>2, CursorStep DEF List!FetchHistory, List!FetchConversations
<1>3. ASSUME pass.pc = "read", NEW P \in List!Pages, List!FetchParticipants(P) PROVE ListInv'
  BY <1>3, OffsetStep DEF List!FetchParticipants
<1>4. ASSUME UNCHANGED listVars PROVE ListInv'
  BY <1>4, ListStutter DEF listVars, ListInv, ListType
<1> QED BY <1>1, <1>2, <1>3, <1>4, WriteStep, OnePageStep, CountStep DEF List!Next

\* storage.rs, service.rs, rest.rs: a pass to the end shows every row that stands
\* still and alone exactly once, with an offset unless rows come or go in front of
\* it, and totals agree when nothing is written.
THEOREM ListsAreAlwaysFaithful == List!Spec => [](List!TypeOK /\ List!ListsAreFaithful)
<1>1. ListInv /\ [List!Next]_(List!listVars) => ListInv'
  BY ListStep DEF List!listVars, listVars
<1> QED BY ListInitOk, <1>1, ListFacts, PTL DEF List!Spec

ListHolds == part = "lists" => ListInv

\* The same where lists are one part of several.
THEOREM ListsStayFaithful == PartsSpec => []ListsAreFaithful
<1>1. PartsInit => ListHolds
  BY ListInitOk DEF PartsInit, ListInit, ListHolds
<1>2. ListHolds /\ [PartsNext]_mcVars => ListHolds'
  <2> SUFFICES ASSUME ListHolds, [PartsNext]_mcVars, part' = "lists" PROVE ListInv'
    BY DEF ListHolds
  <2>1. ListInv /\ [List!Next]_listVars
    BY DEF ListHolds, PartsNext, ListNext, mcVars
  <2> QED BY <2>1, ListStep
<1>3. ListHolds => ListsAreFaithful
  BY ListFacts DEF ListHolds, ListsAreFaithful
<1> QED BY <1>1, <1>2, <1>3, PTL DEF PartsSpec, mcVars
=============================================================================
