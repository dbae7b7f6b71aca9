------------------------ MODULE MessageSendingProofs ------------------------
(***************************************************************************)
(* Nobody is sent an event about a message twice, for any calls, audience, *)
(* dates and failures.                                                     *)
(***************************************************************************)
EXTENDS MessageSending, TLAPS

LEMMA StageFacts ==
    /\ Audience \in [Stage -> SUBSET User]
    /\ After \in [Stage -> {"thread", "mention", "confirm"}]
    /\ After["message"] = "thread" /\ After["thread"] = "mention" /\ After["mention"] = "confirm"
    /\ Recipient \subseteq User
BY MentionedAssumption DEF Audience, ThreadAudience, After, Stage, User

LEMMA TypeInit == Init => TypeOK
BY DaysAssumption DEF Init, TypeOK, PC, Stage

LEMMA TypeStep == TypeOK /\ [Next]_vars => TypeOK'
<1> SUFFICES ASSUME TypeOK, [Next]_vars PROVE TypeOK'
  OBVIOUS
<1> USE DEF TypeOK
<1>1. ASSUME NEW a \in Attempt, NEW from, NEW to \in PC, NEW users \in SUBSET User,
             Goto(a, from, to, users),
             users # {} => to \in Stage \cup {"count"},
             to = "count" => users \subseteq Recipient
      PROVE  /\ pc' \in [Attempt -> PC] /\ todo' \in [Attempt -> SUBSET User]
             /\ \A b \in Attempt : /\ todo'[b] # {} => pc'[b] \in Stage \cup {"count"}
                                   /\ pc'[b] = "count" => todo'[b] \subseteq Recipient
  BY <1>1 DEF Goto
<1>2. ASSUME NEW a \in Attempt, FindByClientId(a) PROVE TypeOK'
  BY <1>2 DEF FindByClientId, Goto, PC, Stage, Latest, Rows
<1>3. ASSUME NEW a \in Attempt, Insert(a) PROVE TypeOK'
  BY <1>3, DaysAssumption DEF Insert, Goto, PC, Stage
<1>4. ASSUME NEW a \in Attempt, InsertConflict(a) PROVE TypeOK'
  BY <1>4 DEF InsertConflict, Goto, PC, Stage
<1>5. ASSUME NEW a \in Attempt, TouchConversation(a) PROVE TypeOK'
  <2>1. "message" \in Stage /\ "message" \in PC /\ Audience["message"] \in SUBSET User
    BY StageFacts DEF Stage, PC
  <2> QED BY <1>1, <1>5, <2>1 DEF TouchConversation
<1>6. ASSUME NEW a \in Attempt, NEW s \in Stage, StageDone(a, s) PROVE TypeOK'
  <2> DEFINE users == IF s = "mention" THEN {} ELSE Audience[After[s]]
  <2>1. /\ After[s] \in PC /\ After[s] # "count"
        /\ users \in SUBSET User
        /\ users # {} => After[s] \in Stage \cup {"count"}
    <3>1. CASE s = "mention"
      BY <3>1, StageFacts DEF PC
    <3>2. CASE s = "message"
      <4>1. After[s] = "thread" /\ "thread" \in Stage /\ users = Audience["thread"]
        BY <3>2, StageFacts DEF Stage
      <4>2. Audience["thread"] \in SUBSET User
        BY <4>1, StageFacts
      <4> QED BY ONLY <4>1, <4>2 DEF PC, Stage
    <3>3. CASE s = "thread"
      <4>1. After[s] = "mention" /\ "mention" \in Stage /\ users = Audience["mention"]
        BY <3>3, StageFacts DEF Stage
      <4>2. Audience["mention"] \in SUBSET User
        BY <4>1, StageFacts
      <4> QED BY ONLY <4>1, <4>2 DEF PC, Stage
    <3> QED BY <3>1, <3>2, <3>3 DEF Stage
  <2>2. Goto(a, s, After[s], users) /\ UNCHANGED <<today, rowDay, result, sent, unread, confirmed>>
    BY <1>6 DEF StageDone
  <2> HIDE DEF users
  <2> QED BY <1>1, <2>1, <2>2
<1>7. ASSUME NEW a \in Attempt, NEW s \in Stage, NEW u \in User, SendTo(a, s, u) PROVE TypeOK'
  <2>1. sent' \in [Stage \X User \X Attempt -> Nat]
    <3> DEFINE e == <<s, u, result[a]>>
    <3>1. sent' = [sent EXCEPT ![e] = sent[e] + 1]
      BY <1>7 DEF SendTo
    <3>2. e \in Stage \X User \X Attempt => sent[e] + 1 \in Nat
      <4> HIDE DEF e
      <4> QED OBVIOUS
    <3> HIDE DEF e
    <3> QED BY <3>1, <3>2
  <2> QED BY <1>7, <2>1 DEF SendTo
<1>8. ASSUME NEW a \in Attempt, CallFails(a) PROVE TypeOK'
  BY <1>8 DEF CallFails, Goto, PC, Stage
<1>9. ASSUME NEW a \in Attempt, Confirm(a) PROVE TypeOK'
  <2>1. Recipient \in SUBSET User /\ "count" \in PC
    BY StageFacts DEF PC
  <2>2. confirmed' \in [Attempt -> Attempt \cup {none}]
    BY <1>9 DEF Confirm
  <2> QED BY <1>1, <1>9, <2>1, <2>2 DEF Confirm
<1>10. ASSUME NEW a \in Attempt, CountDone(a) PROVE TypeOK'
  BY <1>10 DEF CountDone, Goto, PC, Stage
<1>11. ASSUME NEW a \in Attempt, NEW r \in Recipient, IncrementUnread(a, r) PROVE TypeOK'
  BY <1>11 DEF IncrementUnread
<1>12. ASSUME NEW a \in Attempt, PostMessage(a) PROVE TypeOK'
  <2>1. CASE CountFirst(a)
    <3>1. Recipient \in SUBSET User /\ "count" \in PC
      BY StageFacts DEF PC
    <3> QED BY <1>1, <2>1, <3>1 DEF CountFirst
  <2>2. CASE AnswerPost(a)
    <3>1. confirmed' \in [Attempt -> Attempt \cup {none}]
      BY <2>2 DEF AnswerPost
    <3> QED BY <1>1, <2>2, <3>1 DEF AnswerPost, PC
  <2> QED BY <1>12, <2>1, <2>2 DEF PostMessage
<1>13. CASE Midnight
  BY <1>13, DaysAssumption DEF Midnight
<1>14. CASE UNCHANGED vars
  BY <1>14 DEF vars
<1> QED
  BY <1>2, <1>3, <1>4, <1>5, <1>6, <1>7, <1>8, <1>9, <1>10, <1>11, <1>12, <1>13, <1>14
     DEF Next, Send

(* Every variable keeps its type; the sender's own counter is not touched. *)
THEOREM TypeCorrect == Spec => []TypeOK
BY TypeInit, TypeStep, PTL DEF Spec

-----------------------------------------------------------------------------
(* The inductive invariant: a call that sends is about the row it inserted *)
(* itself, and what it has still to send has not been sent.                *)

Earlier == {"find", "insert", "touch"}

\* The stages after the one a call is in.
Ahead(p) ==
    CASE p \in Earlier   -> Stage
      [] p = "message"   -> {"thread", "mention"}
      [] p = "thread"    -> {"mention"}
      [] OTHER           -> {}

OwnRow == \A a \in Attempt : pc[a] \in Stage \cup {"touch"} => result[a] = a

Unsent ==
    \A a \in Attempt : \A s \in Stage : \A u \in User :
        (s \in Ahead(pc[a]) \/ (pc[a] = s /\ u \in todo[a])) => sent[<<s, u, a>>] = 0

Fresh == \A a \in Attempt : \A s \in Stage : \A u \in User : sent[<<s, u, a>>] <= 1

SendInv == OwnRow /\ Unsent /\ Fresh

LEMMA SendStep == TypeOK /\ SendInv /\ [Next]_vars => SendInv'
<1> SUFFICES ASSUME TypeOK, SendInv, [Next]_vars PROVE SendInv'
  OBVIOUS
<1> USE DEF TypeOK, SendInv, OwnRow, Unsent, Fresh
(* A step that sends nothing and only moves on or gives up.                *)
<1>1. ASSUME NEW a \in Attempt, sent' = sent,
             \A b \in Attempt \ {a} : pc'[b] = pc[b] /\ todo'[b] = todo[b] /\ result'[b] = result[b],
             pc'[a] \in Stage \cup {"touch"} => result'[a] = a,
             \A s \in Stage : \A u \in User :
                 (s \in Ahead(pc'[a]) \/ (pc'[a] = s /\ u \in todo'[a]))
                     => (s \in Ahead(pc[a]) \/ (pc[a] = s /\ u \in todo[a]))
      PROVE  SendInv'
  BY <1>1
<1>2. ASSUME NEW a \in Attempt, FindByClientId(a) PROVE SendInv'
  BY <1>1, <1>2 DEF FindByClientId, Goto, Ahead, Earlier, Stage
<1>3. ASSUME NEW a \in Attempt, Insert(a) PROVE SendInv'
  BY <1>1, <1>3 DEF Insert, Goto, Ahead, Earlier, Stage
<1>4. ASSUME NEW a \in Attempt, InsertConflict(a) PROVE SendInv'
  BY <1>1, <1>4 DEF InsertConflict, Goto, Ahead, Earlier, Stage
<1>5. ASSUME NEW a \in Attempt, TouchConversation(a) PROVE SendInv'
  BY <1>1, <1>5 DEF TouchConversation, Goto, Ahead, Earlier, Stage
<1>6. ASSUME NEW a \in Attempt, NEW s \in Stage, StageDone(a, s) PROVE SendInv'
  <2>1. s = "message" \/ s = "thread" \/ s = "mention"
    BY DEF Stage
  <2>2. /\ pc[a] = s /\ pc' = [pc EXCEPT ![a] = After[s]]
        /\ todo' = [todo EXCEPT ![a] = IF s = "mention" THEN {} ELSE Audience[After[s]]]
        /\ sent' = sent /\ result' = result
    BY <1>6 DEF StageDone, Goto
  <2>3. pc'[a] = After[s] /\ After[s] \notin {"touch", "message"}
    BY <2>2, StageFacts
  <2>4. CASE s = "message"
    <3>1. After[s] = "thread"
      BY <2>4, StageFacts
    <3> QED BY <1>1, <2>2, <2>3, <2>4, <3>1 DEF Ahead, Earlier, Stage
  <2>5. CASE s = "thread"
    <3>1. After[s] = "mention"
      BY <2>5, StageFacts
    <3> QED BY <1>1, <2>2, <2>3, <2>5, <3>1 DEF Ahead, Earlier, Stage
  <2>6. CASE s = "mention"
    <3>1. After[s] = "confirm"
      BY <2>6, StageFacts
    <3> QED BY <1>1, <2>2, <2>3, <2>6, <3>1 DEF Ahead, Earlier, Stage
  <2> QED BY <2>1, <2>4, <2>5, <2>6
<1>7. ASSUME NEW a \in Attempt, NEW s \in Stage, NEW u \in User, SendTo(a, s, u) PROVE SendInv'
  <2>0. pc[a] = s /\ result[a] = a /\ u \in todo[a]
    BY <1>7 DEF SendTo
  <2>1. /\ pc[a] = s /\ result[a] = a /\ u \in todo[a] /\ sent[<<s, u, a>>] = 0
        /\ pc' = pc /\ result' = result /\ todo' = [todo EXCEPT ![a] = @ \ {u}]
        /\ sent' = [sent EXCEPT ![<<s, u, a>>] = 1]
    <3>1. sent[<<s, u, a>>] = 0
      BY <2>0
    <3>2. /\ pc' = pc /\ result' = result /\ todo' = [todo EXCEPT ![a] = @ \ {u}]
          /\ sent' = [sent EXCEPT ![<<s, u, a>>] = sent[<<s, u, a>>] + 1]
      BY ONLY <1>7, <2>0 DEF SendTo
    <3> QED BY <2>0, <3>1, <3>2
  <2>2. s \notin Ahead(s)
    BY DEF Ahead, Earlier, Stage
  <2>3. ASSUME NEW b \in Attempt, NEW t \in Stage, NEW v \in User
        PROVE  sent'[<<t, v, b>>] = IF t = s /\ v = u /\ b = a THEN 1 ELSE sent[<<t, v, b>>]
    BY <2>1
  <2> QED BY <2>1, <2>2, <2>3
<1>8. ASSUME NEW a \in Attempt, CallFails(a) PROVE SendInv'
  BY <1>1, <1>8 DEF CallFails, Goto, Ahead, Earlier, Stage
<1>9. ASSUME NEW a \in Attempt, Confirm(a) PROVE SendInv'
  BY <1>1, <1>9 DEF Confirm, Goto, Ahead, Earlier, Stage
<1>10. ASSUME NEW a \in Attempt, CountDone(a) PROVE SendInv'
  BY <1>1, <1>10 DEF CountDone, Goto, Ahead, Earlier, Stage
<1>11. ASSUME NEW a \in Attempt, NEW r \in Recipient, IncrementUnread(a, r) PROVE SendInv'
  BY <1>1, <1>11 DEF IncrementUnread, Ahead, Earlier, Stage
<1>12. ASSUME NEW a \in Attempt, PostMessage(a) PROVE SendInv'
  BY <1>1, <1>12 DEF PostMessage, CountFirst, AnswerPost, Goto, Ahead, Earlier, Stage
<1>13. CASE Midnight
  BY <1>13 DEF Midnight
<1>14. CASE UNCHANGED vars
  BY <1>14 DEF vars
<1> QED
  BY <1>2, <1>3, <1>4, <1>5, <1>6, <1>7, <1>8, <1>9, <1>10, <1>11, <1>12, <1>13, <1>14
     DEF Next, Send

(* No event about a stored message is sent to a user twice.                *)
THEOREM NobodyIsSentTwice == Spec => []SentOnce
<1>1. Init => SendInv
  BY DEF Init, SendInv, OwnRow, Unsent, Fresh, Stage
<1>2. TypeOK /\ SendInv => SentOnce
  BY DEF TypeOK, SendInv, Fresh, SentOnce
<1> QED BY <1>1, <1>2, TypeInit, TypeStep, SendStep, PTL DEF Spec
=============================================================================
