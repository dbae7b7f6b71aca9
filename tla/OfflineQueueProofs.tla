------------------------- MODULE OfflineQueueProofs -------------------------
(***************************************************************************)
(* The offline queue is well-typed, bounded, ordered and expiring for any  *)
(* finite set of messages, any drains and any positive limit, and what a   *)
(* drain has returned is never read again.                                 *)
(***************************************************************************)
EXTENDS OfflineQueue, FiniteSetTheorems, SequenceTheorems, TLAPS

(* The newest n elements of a sequence, for a positive n.                  *)
LEMMA LatestProperties ==
    ASSUME NEW S, NEW s \in Seq(S), NEW n \in Nat \ {0}
    PROVE  /\ Latest(s, n) \in Seq(S)
           /\ Len(Latest(s, n)) = IF Len(s) <= n THEN Len(s) ELSE n
           /\ \A i \in 1..Len(Latest(s, n)) :
                 Latest(s, n)[i] = s[Len(s) - Len(Latest(s, n)) + i]
           /\ RangeOf(Latest(s, n)) \subseteq RangeOf(s)
<1>1. CASE Len(s) <= n
  BY <1>1 DEF Latest, RangeOf
<1>2. CASE ~(Len(s) <= n)
  <2> DEFINE t == SubSeq(s, Len(s) - n + 1, Len(s))
  <2>1. Latest(s, n) = t
    BY <1>2 DEF Latest
  <2>2. Len(s) \in Nat /\ Len(s) > n /\ Len(s) - n + 1 \in 1..Len(s)
    BY <1>2
  <2>3. t \in Seq(S) /\ Len(t) = n
    BY <2>2
  <2>4. \A i \in 1..n : t[i] = s[Len(s) - n + i] /\ Len(s) - n + i \in 1..Len(s)
    BY <2>2
  <2>5. RangeOf(t) \subseteq RangeOf(s)
    BY <2>3, <2>4 DEF RangeOf
  <2> QED BY <1>2, <2>1, <2>3, <2>4, <2>5
<1> QED BY <1>1, <1>2

-----------------------------------------------------------------------------

LEMMA TypeInit == Init => TypeOK
BY DEF Init, TypeOK, ProducerPC

LEMMA TypeStep == TypeOK /\ [Next]_vars => TypeOK'
<1> SUFFICES ASSUME TypeOK, [Next]_vars PROVE TypeOK'
  OBVIOUS
<1> USE MaxAssumption DEF TypeOK
<1>1. ASSUME NEW m \in Msg, RPush(m) PROVE TypeOK'
  <2>1. /\ queue' \in Seq(Msg) /\ queue' # <<>>
        /\ pushed' \in Seq(Msg)
    BY <1>1, AppendProperties DEF RPush
  <2> QED BY <1>1, <2>1 DEF RPush, Step, ProducerPC, drainVars
<1>2. ASSUME NEW m \in Msg, LTrim(m) PROVE TypeOK'
  <2>1. queue' \in Seq(Msg) /\ (queue # <<>> => queue' # <<>>)
    BY <1>2, LatestProperties DEF LTrim
  <2> QED BY <1>2, <2>1 DEF LTrim, Step, ProducerPC, drainVars
<1>3. ASSUME NEW m \in Msg, Expire(m) PROVE TypeOK'
  BY <1>3 DEF Expire, Step, ProducerPC, drainVars
<1>4. ASSUME NEW m \in Msg, CommandFails(m) PROVE TypeOK'
  BY <1>4 DEF CommandFails, Step, ProducerPC, drainVars
<1>5. ASSUME NEW d \in Drainer, LRange(d) PROVE TypeOK'
  BY <1>5 DEF LRange
<1>6. ASSUME NEW d \in Drainer, Del(d) PROVE TypeOK'
  BY <1>6 DEF Del
<1>7. ASSUME NEW d \in Drainer, DelFails(d) PROVE TypeOK'
  BY <1>7 DEF DelFails
<1>8. CASE KeyExpires
  BY <1>8 DEF KeyExpires, RangeOf, drainVars
<1>9. CASE UNCHANGED vars
  BY <1>9 DEF vars
<1> QED
  BY <1>1, <1>2, <1>3, <1>4, <1>5, <1>6, <1>7, <1>8, <1>9
     DEF Next, QueueMessage, DrainMessages

(* An element of the appended sequence is the new one or an old one.       *)
LEMMA RangeOfAppend ==
    ASSUME NEW S, NEW s \in Seq(S), NEW e \in S
    PROVE  RangeOf(Append(s, e)) = RangeOf(s) \cup {e}
<1>1. /\ Append(s, e) \in Seq(S) /\ Len(Append(s, e)) = Len(s) + 1
      /\ \A i \in 1..Len(s) : Append(s, e)[i] = s[i]
      /\ Append(s, e)[Len(s) + 1] = e
  BY AppendProperties
<1>2. DOMAIN s = 1..Len(s) /\ DOMAIN Append(s, e) = 1..(Len(s) + 1) /\ Len(s) \in Nat
  BY <1>1
<1> QED BY <1>1, <1>2 DEF RangeOf

(* Every variable keeps its type, and an expiry belongs to an existing key. *)
THEOREM TypeCorrect == Spec => []TypeOK
BY TypeInit, TypeStep, PTL DEF Spec

-----------------------------------------------------------------------------
(* Only a full list is trimmed, whatever calls interleave: queue_message   *)
(* takes nothing away when fewer than max_messages_per_user are left.      *)
THEOREM TrimsOnlyWhenFull == Spec => TrimmedOnlyWhenFull
<1>1. ASSUME TypeOK, [Next]_vars, queue' # <<>>, ~(RangeOf(queue) \subseteq RangeOf(queue'))
      PROVE  Len(queue') >= Max
  <2>1. ASSUME NEW m \in Msg, RPush(m) PROVE FALSE
    BY <1>1, <2>1, RangeOfAppend DEF RPush, TypeOK
  <2>2. ASSUME NEW m \in Msg, LTrim(m) PROVE Len(queue') >= Max
    <3>1. queue \in Seq(Msg) /\ queue' = Latest(queue, Max)
      BY <1>1, <2>2 DEF LTrim, TypeOK
    <3>2. ~(Len(queue) <= Max)
      BY <1>1, <3>1, MaxAssumption DEF Latest
    <3> QED BY <3>1, <3>2, LatestProperties, MaxAssumption
  <2>3. ASSUME \/ \E m \in Msg : Expire(m) \/ CommandFails(m)
               \/ \E d \in Drainer : LRange(d) \/ DelFails(d)
               \/ UNCHANGED vars
        PROVE  FALSE
    BY <1>1, <2>3 DEF Expire, CommandFails, LRange, DelFails, vars
  <2>4. ASSUME KeyExpires \/ \E d \in Drainer : Del(d) PROVE FALSE
    BY <1>1, <2>4 DEF KeyExpires, Del
  <2> QED BY <1>1, <2>1, <2>2, <2>3, <2>4 DEF Next, QueueMessage, DrainMessages
<1>2. TypeOK /\ [Next]_vars
      => [queue' # <<>> /\ ~(RangeOf(queue) \subseteq RangeOf(queue')) => Len(queue') >= Max]_vars
  BY <1>1
<1> QED BY <1>2, TypeCorrect, PTL DEF Spec, TrimmedOnlyWhenFull

-----------------------------------------------------------------------------
(* A list without expiry is waited for.                                    *)

LEMMA UnexpiringStep ==
    TypeOK /\ UnexpiringIsUnfinished /\ [Next]_vars => UnexpiringIsUnfinished'
<1> SUFFICES ASSUME TypeOK, UnexpiringIsUnfinished, [Next]_vars
             PROVE  UnexpiringIsUnfinished'
  OBVIOUS
<1> USE MaxAssumption DEF TypeOK, UnexpiringIsUnfinished
<1>1. ASSUME NEW m \in Msg, RPush(m) PROVE UnexpiringIsUnfinished'
  <2>1. RangeOf(queue') \subseteq RangeOf(queue) \cup {m}
    BY <1>1, RangeOfAppend DEF RPush
  <2> QED BY <1>1, <2>1 DEF RPush, Step
<1>2. ASSUME NEW m \in Msg, LTrim(m) PROVE UnexpiringIsUnfinished'
  <2>1. RangeOf(queue') \subseteq RangeOf(queue)
    BY <1>2, LatestProperties DEF LTrim
  <2> QED BY <1>2, <2>1 DEF LTrim, Step
<1>3. ASSUME NEW m \in Msg, Expire(m) PROVE UnexpiringIsUnfinished'
  BY <1>3 DEF Expire, RangeOf
<1>4. ASSUME NEW m \in Msg, CommandFails(m) PROVE UnexpiringIsUnfinished'
  <2>1. RangeOf(queue) \subseteq Msg
    BY DEF RangeOf
  <2>2. /\ queue' = queue /\ ttl' = ttl
        /\ \A x \in Msg : ppc[x] # "done" => ppc'[x] # "done"
    BY <1>4 DEF CommandFails, Step
  <2> QED BY <2>1, <2>2
<1>5. ASSUME NEW d \in Drainer, LRange(d) PROVE UnexpiringIsUnfinished'
  BY <1>5 DEF LRange
<1>6. ASSUME NEW d \in Drainer, Del(d) PROVE UnexpiringIsUnfinished'
  BY <1>6 DEF Del, RangeOf
<1>7. ASSUME NEW d \in Drainer, DelFails(d) PROVE UnexpiringIsUnfinished'
  BY <1>7 DEF DelFails
<1>8. CASE KeyExpires
  BY <1>8 DEF KeyExpires, RangeOf
<1>9. CASE UNCHANGED vars
  BY <1>9 DEF vars
<1> QED
  BY <1>1, <1>2, <1>3, <1>4, <1>5, <1>6, <1>7, <1>8, <1>9
     DEF Next, QueueMessage, DrainMessages

(* A queue without expiry holds no message whose queue_message succeeded.  *)
THEOREM AbandonedQueueExpires == Spec => []UnexpiringIsUnfinished
<1>1. Init => UnexpiringIsUnfinished
  BY DEF Init, UnexpiringIsUnfinished, RangeOf
<1> QED BY <1>1, TypeInit, TypeStep, UnexpiringStep, PTL DEF Spec

-----------------------------------------------------------------------------
(* The bound, up to messages that are pushed and not trimmed.              *)

LEMMA UntrimmedFinite == IsFiniteSet(Untrimmed) /\ Cardinality(Untrimmed) \in Nat
BY MsgAssumption, FS_Subset, FS_CardinalityType DEF Untrimmed

LEMMA BoundedStep == TypeOK /\ Bounded /\ [Next]_vars => Bounded'
<1> SUFFICES ASSUME TypeOK, Bounded, [Next]_vars PROVE Bounded'
  OBVIOUS
<1>0. /\ IsFiniteSet(Untrimmed) /\ Cardinality(Untrimmed) \in Nat
      /\ IsFiniteSet(Untrimmed') /\ Cardinality(Untrimmed') \in Nat
  <2>1. IsFiniteSet(Untrimmed') /\ Cardinality(Untrimmed') \in Nat
    BY MsgAssumption, FS_Subset, FS_CardinalityType DEF Untrimmed
  <2> QED BY <2>1, UntrimmedFinite
<1> USE MaxAssumption DEF TypeOK, Bounded
<1>1. ASSUME NEW m \in Msg, RPush(m) PROVE Bounded'
  <2>1. m \notin Untrimmed /\ Untrimmed' = Untrimmed \cup {m}
    BY <1>1 DEF RPush, Step, Untrimmed
  <2>2. Cardinality(Untrimmed') = Cardinality(Untrimmed) + 1
    BY <1>0, <2>1, FS_AddElement
  <2>3. Len(queue') = Len(queue) + 1 /\ Len(queue) \in Nat
    BY <1>1, AppendProperties DEF RPush
  <2> QED BY <1>0, <2>2, <2>3
<1>2. ASSUME NEW m \in Msg, LTrim(m) PROVE Bounded'
  <2>1. Len(queue') <= Max
    BY <1>2, LatestProperties DEF LTrim
  <2>2. queue' \in Seq(Msg)
    BY <1>2, LatestProperties DEF LTrim
  <2> QED BY <1>0, <2>1, <2>2
<1>3. ASSUME NEW m \in Msg, Expire(m) PROVE Bounded'
  <2>1. Untrimmed' = Untrimmed
    BY <1>3 DEF Expire, Step, Untrimmed
  <2> QED BY <1>3, <2>1 DEF Expire
<1>4. ASSUME NEW m \in Msg, CommandFails(m) PROVE Bounded'
  <2>1. Untrimmed' = Untrimmed
    BY <1>4 DEF CommandFails, Step, Untrimmed
  <2> QED BY <1>4, <2>1 DEF CommandFails
<1>5. ASSUME NEW d \in Drainer, LRange(d) PROVE Bounded'
  BY <1>5 DEF LRange, Untrimmed
<1>6. ASSUME NEW d \in Drainer, Del(d) PROVE Bounded'
  BY <1>6, <1>0 DEF Del
<1>7. ASSUME NEW d \in Drainer, DelFails(d) PROVE Bounded'
  BY <1>7 DEF DelFails, Untrimmed
<1>8. CASE KeyExpires
  BY <1>8, <1>0 DEF KeyExpires
<1>9. CASE UNCHANGED vars
  BY <1>9 DEF vars, Untrimmed
<1> QED
  BY <1>1, <1>2, <1>3, <1>4, <1>5, <1>6, <1>7, <1>8, <1>9
     DEF Next, QueueMessage, DrainMessages

(* The list never exceeds the limit by more than the calls that have not   *)
(* (successfully) trimmed it.                                              *)
THEOREM QueueIsBounded == Spec => []Bounded
<1>1. Init => Bounded
  BY UntrimmedFinite, MaxAssumption DEF Init, Bounded
<1> QED BY <1>1, TypeInit, TypeStep, BoundedStep, PTL DEF Spec

-----------------------------------------------------------------------------
(* What a drain has returned is out of the list for good: the messages of  *)
(* the list, of the drains and of the history have all been pushed, and    *)
(* none that was handed out is in the list.                                *)

Pushed == {m \in Msg : ppc[m] # "new"}

Taken ==
    /\ RangeOf(queue) \subseteq Pushed
    /\ RangeOf(handed) \subseteq Pushed
    /\ \A d \in Drainer : RangeOf(batch[d]) \subseteq Pushed
    /\ RangeOf(queue) \cap RangeOf(handed) = {}

LEMMA RangeOfEmpty == RangeOf(<<>>) = {}
BY DEF RangeOf

LEMMA RangeOfConcat ==
    ASSUME NEW S, NEW s \in Seq(S), NEW t \in Seq(S)
    PROVE  RangeOf(s \o t) \subseteq RangeOf(s) \cup RangeOf(t)
<1>1. /\ s \o t \in Seq(S) /\ Len(s \o t) = Len(s) + Len(t)
      /\ \A i \in 1..(Len(s) + Len(t)) :
            (s \o t)[i] = IF i <= Len(s) THEN s[i] ELSE t[i - Len(s)]
  BY ConcatProperties
<1>2. /\ Len(s) \in Nat /\ Len(t) \in Nat
      /\ DOMAIN s = 1..Len(s) /\ DOMAIN t = 1..Len(t)
      /\ DOMAIN (s \o t) = 1..(Len(s) + Len(t))
  BY <1>1, LenProperties
<1>3. ASSUME NEW i \in 1..(Len(s) + Len(t))
      PROVE  (s \o t)[i] \in RangeOf(s) \cup RangeOf(t)
  <2>1. CASE i <= Len(s)
    BY <1>1, <1>2, <2>1 DEF RangeOf
  <2>2. CASE ~(i <= Len(s))
    <3>1. i - Len(s) \in DOMAIN t /\ (s \o t)[i] = t[i - Len(s)]
      BY <1>1, <1>2, <2>2
    <3> QED BY <3>1 DEF RangeOf
  <2> QED BY <2>1, <2>2
<1> QED BY <1>2, <1>3 DEF RangeOf

LEMMA TakenStep == TypeOK /\ Taken /\ [Next]_vars => Taken' /\ (ReadsUnhanded \/ UNCHANGED vars)
<1> SUFFICES ASSUME TypeOK, Taken, [Next]_vars
             PROVE  Taken' /\ (ReadsUnhanded \/ UNCHANGED vars)
  OBVIOUS
<1> USE MaxAssumption DEF TypeOK, Taken
<1>1. ASSUME NEW m \in Msg, RPush(m) PROVE Taken' /\ ReadsUnhanded
  <2>1. RangeOf(queue') = RangeOf(queue) \cup {m}
    BY <1>1, RangeOfAppend DEF RPush
  <2>2. m \notin Pushed /\ Pushed' = Pushed \cup {m}
    BY <1>1 DEF RPush, Step, Pushed
  <2> QED BY <1>1, <2>1, <2>2 DEF RPush, drainVars, ReadsUnhanded
<1>2. ASSUME NEW m \in Msg, LTrim(m) PROVE Taken' /\ ReadsUnhanded
  <2>1. RangeOf(queue') \subseteq RangeOf(queue)
    BY <1>2, LatestProperties DEF LTrim
  <2>2. Pushed' = Pushed
    BY <1>2 DEF LTrim, Step, Pushed
  <2> QED BY <1>2, <2>1, <2>2 DEF LTrim, drainVars, ReadsUnhanded
<1>3. ASSUME NEW m \in Msg, Expire(m) PROVE Taken' /\ ReadsUnhanded
  <2>1. Pushed' = Pushed
    BY <1>3 DEF Expire, Step, Pushed
  <2> QED BY <1>3, <2>1 DEF Expire, drainVars, ReadsUnhanded
<1>4. ASSUME NEW m \in Msg, CommandFails(m) PROVE Taken' /\ ReadsUnhanded
  <2>1. Pushed \subseteq Pushed'
    BY <1>4 DEF CommandFails, Step, Pushed
  <2> QED BY <1>4, <2>1 DEF CommandFails, drainVars, ReadsUnhanded
<1>5. ASSUME NEW d \in Drainer, LRange(d) PROVE Taken' /\ ReadsUnhanded
  BY <1>5 DEF LRange, Pushed, ReadsUnhanded
<1>6. ASSUME NEW d \in Drainer, Del(d) PROVE Taken' /\ ReadsUnhanded
  <2>1. RangeOf(handed') \subseteq RangeOf(handed) \cup RangeOf(batch[d])
    BY <1>6, RangeOfConcat DEF Del
  <2>2. RangeOf(queue') = {} /\ Pushed' = Pushed
    BY <1>6, RangeOfEmpty DEF Del, Pushed
  <2>3. \A e \in Drainer : RangeOf(batch'[e]) \subseteq RangeOf(batch[e])
    BY <1>6, RangeOfEmpty DEF Del
  <2>4. \A e \in Drainer : dpc[e] = "idle" => dpc'[e] = "idle"
    BY <1>6 DEF Del
  <2> QED BY <2>1, <2>2, <2>3, <2>4 DEF ReadsUnhanded
<1>7. ASSUME NEW d \in Drainer, DelFails(d) PROVE Taken' /\ ReadsUnhanded
  <2>1. \A e \in Drainer : RangeOf(batch'[e]) \subseteq RangeOf(batch[e])
    BY <1>7, RangeOfEmpty DEF DelFails
  <2>2. \A e \in Drainer : dpc[e] = "idle" => dpc'[e] = "idle"
    BY <1>7 DEF DelFails
  <2> QED BY <1>7, <2>1, <2>2 DEF DelFails, Pushed, ReadsUnhanded
<1>8. ASSUME KeyExpires PROVE Taken' /\ ReadsUnhanded
  <2>1. RangeOf(queue') = {}
    BY <1>8, RangeOfEmpty DEF KeyExpires
  <2> QED BY <1>8, <2>1 DEF KeyExpires, drainVars, Pushed, ReadsUnhanded
<1>9. ASSUME UNCHANGED vars PROVE Taken'
  BY <1>9 DEF vars, Pushed
<1> QED
  BY <1>1, <1>2, <1>3, <1>4, <1>5, <1>6, <1>7, <1>8, <1>9
     DEF Next, QueueMessage, DrainMessages

(* No drain reads a message that an earlier one has returned.              *)
THEOREM NothingIsReadAgain == Spec => NeverReadAgain
<1>1. Init => Taken
  BY RangeOfEmpty DEF Init, Taken
<1>2. TypeOK /\ Taken /\ [Next]_vars => Taken' /\ [ReadsUnhanded]_vars
  BY TakenStep
<1> QED BY <1>1, <1>2, TypeInit, TypeStep, PTL DEF Spec, NeverReadAgain

-----------------------------------------------------------------------------
(* The list is the newest part of what was pushed, element by element.     *)

Newest ==
    /\ Len(queue) <= Len(pushed)
    /\ \A i \in 1..Len(queue) : queue[i] = pushed[Len(pushed) - Len(queue) + i]

LEMMA NewestIsLatest == TypeOK /\ Bounded /\ Newest => QueueIsNewest
<1> SUFFICES ASSUME TypeOK, Newest PROVE queue = Latest(pushed, Len(queue))
  BY DEF QueueIsNewest
<1> USE DEF TypeOK, Newest
<1>1. Len(queue) \in Nat /\ Len(pushed) \in Nat
  OBVIOUS
<1>2. CASE Len(queue) = 0
  <2>1. queue = <<>>
    BY <1>2, EmptySeq
  <2>2. CASE Len(pushed) = 0
    BY <2>1, <2>2, <1>2, EmptySeq DEF Latest
  <2>3. CASE Len(pushed) # 0
    <3>1. Latest(pushed, 0) = SubSeq(pushed, Len(pushed) + 1, Len(pushed))
      BY <1>1, <2>3 DEF Latest
    <3>2. SubSeq(pushed, Len(pushed) + 1, Len(pushed)) = <<>>
      BY <1>1, SubSeqEmpty
    <3> QED BY <1>2, <2>1, <3>1, <3>2
  <2> QED BY <2>2, <2>3
<1>3. CASE Len(queue) # 0
  <2> DEFINE t == Latest(pushed, Len(queue))
  <2>1. /\ t \in Seq(Msg) /\ Len(t) = Len(queue)
        /\ \A i \in 1..Len(t) : t[i] = pushed[Len(pushed) - Len(t) + i]
    <3>1. pushed \in Seq(Msg) /\ Len(queue) \in Nat \ {0}
      BY <1>1, <1>3
    <3>2. Len(t) = IF Len(pushed) <= Len(queue) THEN Len(pushed) ELSE Len(queue)
      BY <3>1, LatestProperties
    <3>3. /\ t \in Seq(Msg)
          /\ \A i \in 1..Len(t) : t[i] = pushed[Len(pushed) - Len(t) + i]
      BY <3>1, LatestProperties
    <3> HIDE DEF t
    <3>4. Len(t) = Len(queue)
      BY <1>1, <3>2
    <3> QED BY <3>3, <3>4
  <2>2. \A i \in 1..Len(queue) : queue[i] = t[i]
    BY <2>1
  <2> QED BY <2>1, <2>2, SeqEqual
<1> QED BY <1>2, <1>3

LEMMA NewestStep == TypeOK /\ Newest /\ [Next]_vars => Newest'
<1> SUFFICES ASSUME TypeOK, Newest, [Next]_vars PROVE Newest'
  OBVIOUS
<1> USE MaxAssumption DEF TypeOK, Newest
<1>0. Len(queue) \in Nat /\ Len(pushed) \in Nat
  OBVIOUS
<1>1. ASSUME NEW m \in Msg, RPush(m) PROVE Newest'
  <2>1. /\ Len(queue') = Len(queue) + 1 /\ Len(pushed') = Len(pushed) + 1
        /\ \A i \in 1..Len(queue) : queue'[i] = queue[i]
        /\ \A i \in 1..Len(pushed) : pushed'[i] = pushed[i]
        /\ queue'[Len(queue) + 1] = m /\ pushed'[Len(pushed) + 1] = m
    BY <1>1, AppendProperties DEF RPush
  <2>2. ASSUME NEW i \in 1..Len(queue')
        PROVE  queue'[i] = pushed'[Len(pushed') - Len(queue') + i]
    <3>1. CASE i = Len(queue) + 1
      BY <1>0, <2>1, <3>1
    <3>2. CASE i \in 1..Len(queue)
      <4>1. Len(pushed') - Len(queue') + i = Len(pushed) - Len(queue) + i
        BY <1>0, <2>1
      <4>2. Len(pushed) - Len(queue) + i \in 1..Len(pushed)
        BY <1>0, <3>2
      <4> QED BY <2>1, <3>2, <4>1, <4>2
    <3> QED BY <1>0, <2>1, <3>1, <3>2
  <2> QED BY <1>0, <2>1, <2>2
<1>2. ASSUME NEW m \in Msg, LTrim(m) PROVE Newest'
  <2>1. /\ queue' \in Seq(Msg) /\ Len(queue') <= Len(queue)
        /\ \A i \in 1..Len(queue') : queue'[i] = queue[Len(queue) - Len(queue') + i]
    <3>1. queue' = Latest(queue, Max)
      BY <1>2 DEF LTrim
    <3>2. /\ queue' \in Seq(Msg)
          /\ \A i \in 1..Len(queue') : queue'[i] = queue[Len(queue) - Len(queue') + i]
      BY <3>1, LatestProperties
    <3>3. Len(queue') = IF Len(queue) <= Max THEN Len(queue) ELSE Max
      BY <3>1, LatestProperties
    <3>4. Len(queue') <= Len(queue)
      BY <1>0, <3>3
    <3> QED BY ONLY <3>2, <3>4
  <2>2. pushed' = pushed /\ Len(queue') \in Nat
    BY <1>2, <2>1 DEF LTrim
  <2>3. ASSUME NEW i \in 1..Len(queue')
        PROVE  queue'[i] = pushed'[Len(pushed') - Len(queue') + i]
    <3>1. Len(queue) - Len(queue') + i \in 1..Len(queue)
      BY <1>0, <2>1, <2>2
    <3>2. Len(pushed) - Len(queue) + (Len(queue) - Len(queue') + i)
            = Len(pushed) - Len(queue') + i
      BY <1>0, <2>2
    <3> QED BY <2>1, <2>2, <3>1, <3>2
  <2> QED BY <1>0, <2>1, <2>2, <2>3
<1>3. ASSUME NEW m \in Msg, Expire(m) PROVE Newest'
  BY <1>3 DEF Expire
<1>4. ASSUME NEW m \in Msg, CommandFails(m) PROVE Newest'
  BY <1>4 DEF CommandFails
<1>5. ASSUME NEW d \in Drainer, LRange(d) PROVE Newest'
  BY <1>5 DEF LRange
<1>6. ASSUME NEW d \in Drainer, Del(d) PROVE Newest'
  BY <1>0, <1>6 DEF Del
<1>7. ASSUME NEW d \in Drainer, DelFails(d) PROVE Newest'
  BY <1>7 DEF DelFails
<1>8. CASE KeyExpires
  BY <1>0, <1>8 DEF KeyExpires
<1>9. CASE UNCHANGED vars
  BY <1>9 DEF vars
<1> QED
  BY <1>1, <1>2, <1>3, <1>4, <1>5, <1>6, <1>7, <1>8, <1>9
     DEF Next, QueueMessage, DrainMessages

(* Messages leave the list, which is bounded, from its old end only.       *)
THEOREM OldestLeaveFirst == Spec => []QueueIsNewest
<1>1. Init => Newest
  BY DEF Init, Newest
<1> QED BY <1>1, QueueIsBounded, TypeInit, TypeStep, NewestStep, NewestIsLatest, PTL DEF Spec

-----------------------------------------------------------------------------
(* One drain at a time makes the queue a mailbox: what the list holds is   *)
(* the newest part of what the drain has read, followed by what it has not.*)

Split(s, seen, n) ==
    /\ n \in 0..Len(s) /\ n <= Len(seen)
    /\ \A i \in 1..n : s[i] = seen[Len(seen) - n + i]
    /\ \A i \in (n + 1)..Len(s) : s[i] \notin RangeOf(seen)

BoxInv == OneReads /\ \E n \in Nat : Split(queue, read, n)

LEMMA FreshProperties ==
    ASSUME NEW S, NEW s \in Seq(S), NEW seen \in Seq(S), NEW n \in Nat, Split(s, seen, n)
    PROVE  /\ Fresh(s, seen) \in Seq(S)
           /\ Len(Fresh(s, seen)) = Len(s) - n
           /\ \A i \in 1..(Len(s) - n) : Fresh(s, seen)[i] = s[n + i]
<1> DEFINE T == {i \in DOMAIN s : s[i] \notin RangeOf(seen)}
<1>1. Len(s) \in Nat /\ Len(seen) \in Nat /\ DOMAIN s = 1..Len(s) /\ DOMAIN seen = 1..Len(seen)
  OBVIOUS
<1>0. n <= Len(s) /\ n <= Len(seen) /\ n + 1 \in Int /\ Len(s) \in Int
  BY <1>1 DEF Split
<1>2. ASSUME NEW i \in 1..n PROVE s[i] \in RangeOf(seen)
  <2>1. Len(seen) - n + i \in DOMAIN seen /\ s[i] = seen[Len(seen) - n + i]
    BY <1>1 DEF Split
  <2> QED BY <2>1 DEF RangeOf
<1>3. T = (n + 1)..Len(s)
  BY <1>1, <1>2 DEF Split
<1>4. Cardinality(T) = Len(s) - n
  <2>1. Cardinality((n + 1)..Len(s)) = IF n + 1 > Len(s) THEN 0 ELSE Len(s) - (n + 1) + 1
    BY <1>0, FS_Interval
  <2>2. (IF n + 1 > Len(s) THEN 0 ELSE Len(s) - (n + 1) + 1) = Len(s) - n
    BY <1>0
  <2> HIDE DEF T
  <2> QED BY <1>3, <2>1, <2>2
<1>5. Fresh(s, seen) = Latest(s, Len(s) - n)
  BY <1>4 DEF Fresh
<1>6. CASE n = Len(s)
  <2>1. Fresh(s, seen) = <<>>
    <3>1. CASE s = <<>>
      BY <1>5, <1>6, <3>1 DEF Latest
    <3>2. CASE s # <<>>
      <4>1. Len(s) > 0
        BY <1>1, <3>2, EmptySeq
      <4>2. Fresh(s, seen) = SubSeq(s, Len(s) + 1, Len(s))
        BY <1>1, <1>5, <1>6, <4>1 DEF Latest
      <4> QED BY <1>1, <4>2, SubSeqEmpty
    <3> QED BY <3>1, <3>2
  <2> QED BY <1>1, <1>6, <2>1
<1>7. CASE n # Len(s)
  <2> DEFINE k == Len(s) - n
  <2>1. k \in Nat \ {0} /\ k <= Len(s)
    BY <1>0, <1>7
  <2>2. Fresh(s, seen) = Latest(s, k)
    BY <1>5
  <2>3. /\ Latest(s, k) \in Seq(S) /\ Len(Latest(s, k)) = (IF Len(s) <= k THEN Len(s) ELSE k)
        /\ \A i \in 1..Len(Latest(s, k)) : Latest(s, k)[i] = s[Len(s) - Len(Latest(s, k)) + i]
    BY <2>1, LatestProperties
  <2> HIDE DEF k
  <2>4. Len(Latest(s, k)) = k
    BY <1>0, <2>1, <2>3
  <2>5. ASSUME NEW i \in 1..k PROVE Latest(s, k)[i] = s[n + i]
    <3>1. Len(s) - k + i = n + i
      BY <1>0, <1>1 DEF k
    <3> QED BY <2>3, <2>4, <3>1
  <2> QED BY <2>2, <2>3, <2>4, <2>5 DEF k
<1> QED BY <1>6, <1>7

(* The mailbox as one sequence.                                            *)
EndsWith(w, s, cut) == \A i \in 1..Len(s) : w[cut + i] = s[i]

LEMMA PendingProperties ==
    ASSUME NEW S, NEW s \in Seq(S), NEW seen \in Seq(S), NEW n \in Nat, Split(s, seen, n)
    PROVE  /\ seen \o Fresh(s, seen) \in Seq(S)
           /\ Len(seen \o Fresh(s, seen)) = Len(seen) + Len(s) - n
           /\ \A i \in 1..Len(seen) : (seen \o Fresh(s, seen))[i] = seen[i]
           /\ EndsWith(seen \o Fresh(s, seen), s, Len(seen) - n)
<1> DEFINE u == Fresh(s, seen)
<1>1. /\ u \in Seq(S) /\ Len(u) = Len(s) - n
      /\ \A i \in 1..(Len(s) - n) : u[i] = s[n + i]
  BY FreshProperties
<1> HIDE DEF u
<1>2. Len(s) \in Nat /\ Len(seen) \in Nat /\ n <= Len(s) /\ n <= Len(seen)
  BY DEF Split
<1>3. /\ seen \o u \in Seq(S) /\ Len(seen \o u) = Len(seen) + Len(u)
      /\ \A i \in 1..(Len(seen) + Len(u)) :
            (seen \o u)[i] = IF i <= Len(seen) THEN seen[i] ELSE u[i - Len(seen)]
  BY <1>1, ConcatProperties
<1>4. Len(seen \o u) = Len(seen) + Len(s) - n
  BY <1>1, <1>2, <1>3
<1>5. ASSUME NEW i \in 1..Len(seen) PROVE (seen \o u)[i] = seen[i]
  BY <1>1, <1>2, <1>3
<1>6. ASSUME NEW i \in (n + 1)..Len(s) PROVE (seen \o u)[Len(seen) - n + i] = s[i]
  <2> DEFINE j == Len(seen) - n + i
  <2>1. j \in 1..(Len(seen) + Len(u)) /\ ~(j <= Len(seen)) /\ j - Len(seen) = i - n
    BY <1>1, <1>2
  <2>2. i - n \in 1..(Len(s) - n) /\ n + (i - n) = i
    BY <1>2
  <2>3. u[i - n] = s[i]
    BY <1>1, <2>2
  <2> QED BY <1>3, <2>1, <2>3
<1>7. ASSUME NEW i \in 1..n PROVE (seen \o u)[Len(seen) - n + i] = s[i]
  <2>1. Len(seen) - n + i \in 1..Len(seen)
    BY <1>2
  <2> QED BY <1>5, <2>1 DEF Split
<1>8. ASSUME NEW i \in 1..Len(s) PROVE (seen \o u)[Len(seen) - n + i] = s[i]
  <2>1. i \in 1..n \/ i \in (n + 1)..Len(s)
    BY <1>2
  <2> QED BY <1>6, <1>7, <2>1
<1>9. EndsWith(seen \o u, s, Len(seen) - n)
  BY <1>8 DEF EndsWith
<1> QED BY <1>3, <1>4, <1>5, <1>9 DEF u

LEMMA SplitNone == ASSUME NEW S, NEW s \in Seq(S) PROVE Split(s, <<>>, 0) /\ <<>> \in Seq(S)
BY RangeOfEmpty DEF Split

LEMMA PendingNone ==
    ASSUME NEW S, NEW s \in Seq(S), NEW seen \in Seq(S), seen = <<>>
    PROVE  Split(s, seen, 0) /\ seen \o Fresh(s, seen) = s
<1> DEFINE w == seen \o Fresh(s, seen)
<1>1. Split(s, seen, 0)
  BY SplitNone
<1> PICK n \in Nat : n = 0 /\ Split(s, seen, n)
  BY <1>1
<1>2. /\ w \in Seq(S) /\ Len(w) = Len(seen) + Len(s) - n
      /\ EndsWith(w, s, Len(seen) - n)
  BY PendingProperties
<1>3. Len(seen) = 0 /\ Len(s) \in Nat
  OBVIOUS
<1> HIDE DEF w
<1>4. Len(w) = Len(s) /\ \A i \in 1..Len(w) : w[i] = s[i]
  BY <1>2, <1>3 DEF EndsWith
<1>5. w = s
  BY <1>2, <1>4, SeqEqual
<1> QED BY <1>1, <1>5 DEF w

LEMMA SplitAll == ASSUME NEW S, NEW s \in Seq(S) PROVE Split(s, s, Len(s))
BY DEF Split

LEMMA ReadType == TypeOK => read \in Seq(Msg) /\ RangeOf(read) \subseteq UNION {RangeOf(batch[d]) : d \in Drainer}
<1> SUFFICES ASSUME TypeOK PROVE read \in Seq(Msg) /\ RangeOf(read) \subseteq UNION {RangeOf(batch[d]) : d \in Drainer}
  OBVIOUS
<1>1. CASE Reading = {}
  BY <1>1, RangeOfEmpty DEF read
<1>2. CASE Reading # {}
  <2>1. PICK d \in Drainer : read = batch[d]
    BY <1>2 DEF read, Reading
  <2> QED BY <2>1 DEF TypeOK
<1> QED BY <1>1, <1>2

(* Each step of the queue is one of the mailbox or none.                   *)
UnmovedBox == UNCHANGED <<read \o unread, handed>>
BoxStep == Box!Next \/ UnmovedBox

LEMMA PushBox ==
    ASSUME TypeOK, TypeOK', Taken, BoxInv, NEW m \in Msg, RPush(m) PROVE BoxInv' /\ BoxStep
<1> DEFINE pend == read \o unread
<1>1. read' = read /\ Reading' = Reading /\ handed' = handed /\ queue' = Append(queue, m)
  BY DEF RPush, drainVars, read, Reading
<1>2. PICK n \in Nat : Split(queue, read, n)
  BY DEF BoxInv
<1>3. read \in Seq(Msg) /\ queue \in Seq(Msg) /\ queue' \in Seq(Msg) /\ handed \in Seq(Msg) /\ Len(queue) \in Nat /\ Len(read) \in Nat
  BY ReadType DEF TypeOK
<1>4. /\ m \notin RangeOf(read) /\ m \notin RangeOf(queue) /\ m \notin RangeOf(handed)
  BY ReadType DEF RPush, Step, Taken, Pushed
<1>5. /\ Len(queue') = Len(queue) + 1 /\ queue'[Len(queue) + 1] = m
      /\ \A i \in 1..Len(queue) : queue'[i] = queue[i]
  BY <1>1, <1>3, AppendProperties
<1>6. Split(queue', read', n)
  <2>1. \A i \in (n + 1)..Len(queue') : queue'[i] \notin RangeOf(read')
    <3> SUFFICES ASSUME NEW i \in (n + 1)..Len(queue') PROVE queue'[i] \notin RangeOf(read)
      BY <1>1
    <3>1. CASE i = Len(queue) + 1
      BY <1>4, <1>5, <3>1
    <3>2. CASE i # Len(queue) + 1
      <4>1. i \in (n + 1)..Len(queue) /\ i \in 1..Len(queue)
        BY <1>3, <1>5, <3>2
      <4> QED BY <1>2, <1>5, <4>1 DEF Split
    <3> QED BY <3>1, <3>2
  <2> QED BY <1>1, <1>2, <1>3, <1>5, <2>1 DEF Split
<1>7. /\ pend \in Seq(Msg) /\ Len(pend) = Len(read) + Len(queue) - n
      /\ \A i \in 1..Len(read) : pend[i] = read[i]
      /\ EndsWith(pend, queue, Len(read) - n)
  BY <1>2, <1>3, PendingProperties DEF unread
<1>8. /\ pend' \in Seq(Msg) /\ Len(pend') = Len(read) + Len(queue) + 1 - n
      /\ \A i \in 1..Len(read) : pend'[i] = read[i]
      /\ EndsWith(pend', queue', Len(read) - n)
  <2>1. /\ pend' \in Seq(Msg) /\ Len(pend') = Len(read') + Len(queue') - n
        /\ \A i \in 1..Len(read') : pend'[i] = read'[i]
        /\ EndsWith(pend', queue', Len(read') - n)
    <3>1. Split(queue', read', n) /\ queue' \in Seq(Msg) /\ read' \in Seq(Msg)
      BY <1>1, <1>3, <1>6
    <3>2. pend' = read' \o Fresh(queue', read')
      BY DEF unread
    <3> QED BY <3>1, <3>2, PendingProperties
  <2> QED BY <1>1, <1>3, <1>5, <2>1
<1>9. n <= Len(queue) /\ n <= Len(read)
  BY <1>2, <1>3 DEF Split
<1> HIDE DEF pend
<1>10. pend' = Append(pend, m)
  <2>1. Len(pend') = Len(pend) + 1
    BY <1>3, <1>7, <1>8, <1>9
  <2>2. ASSUME NEW i \in 1..Len(pend) PROVE pend'[i] = pend[i]
    <3>1. CASE i <= Len(read)
      BY <1>3, <1>7, <1>8, <3>1
    <3>2. CASE ~(i <= Len(read))
      <4> DEFINE j == i - Len(read) + n
      <4>1. j \in 1..Len(queue) /\ j \in 1..(Len(queue) + 1) /\ Len(read) - n + j = i
        BY <1>3, <1>7, <1>9, <3>2
      <4> HIDE DEF j
      <4> QED BY <1>5, <1>7, <1>8, <4>1 DEF EndsWith
    <3> QED BY <3>1, <3>2
  <2>3. pend'[Len(pend) + 1] = m
    <3>1. Len(queue) + 1 \in 1..(Len(queue) + 1) /\ Len(read) - n + (Len(queue) + 1) = Len(pend) + 1
      BY <1>3, <1>7, <1>9
    <3>2. pend'[Len(read) - n + (Len(queue) + 1)] = queue'[Len(queue) + 1]
      BY <1>5, <1>8, <3>1 DEF EndsWith
    <3> QED BY <1>5, <3>1, <3>2
  <2>4. /\ Append(pend, m) \in Seq(Msg) /\ Len(Append(pend, m)) = Len(pend) + 1
        /\ \A i \in 1..Len(pend) : Append(pend, m)[i] = pend[i]
        /\ Append(pend, m)[Len(pend) + 1] = m
    BY <1>7, AppendProperties
  <2>5. ASSUME NEW i \in 1..Len(pend') PROVE pend'[i] = Append(pend, m)[i]
    <3>1. i \in 1..Len(pend) \/ i = Len(pend) + 1
      BY <1>7, <2>1
    <3> QED BY <2>2, <2>3, <2>4, <3>1
  <2> QED BY <1>8, <2>1, <2>4, <2>5, SeqEqual
<1>11. ~Box!InSeq(m, pend)
  <2> SUFFICES ASSUME NEW i \in 1..Len(pend) PROVE pend[i] # m
    BY <1>7 DEF Box!InSeq
  <2>1. CASE i <= Len(read)
    <3>1. i \in DOMAIN read /\ pend[i] = read[i]
      BY <1>3, <1>7, <2>1
    <3> QED BY <1>4, <3>1 DEF RangeOf
  <2>2. CASE ~(i <= Len(read))
    <3> DEFINE j == i - Len(read) + n
    <3>1. j \in 1..Len(queue) /\ j \in DOMAIN queue /\ Len(read) - n + j = i
      BY <1>3, <1>7, <1>9, <2>2
    <3> HIDE DEF j
    <3> QED BY <1>4, <1>7, <3>1 DEF RangeOf, EndsWith
  <2> QED BY <2>1, <2>2
<1>12. ~Box!InSeq(m, handed)
  BY <1>3, <1>4 DEF Box!InSeq, RangeOf
<1>13. Box!Put(m)
  BY <1>1, <1>10, <1>11, <1>12 DEF Box!Put, pend
<1> QED BY <1>1, <1>6, <1>13 DEF BoxInv, BoxStep, Box!Next, OneReads

(* A step that keeps a part of the pending messages is a loss.             *)
LEMMA LossBox ==
    ASSUME UNCHANGED handed, Box!PartOf((read \o unread)', read \o unread) PROVE BoxStep
BY DEF BoxStep, Box!Next, Box!Lose

LEMMA TrimBox ==
    ASSUME TypeOK, TypeOK', BoxInv, NEW m \in Msg, LTrim(m) PROVE BoxInv' /\ BoxStep
<1> DEFINE pend == read \o unread
           k == Len(queue) - Len(queue')
<1>1. read' = read /\ Reading' = Reading /\ handed' = handed
  BY DEF LTrim, drainVars, read, Reading
<1>2. PICK n \in Nat : Split(queue, read, n)
  BY DEF BoxInv
<1>3. /\ read \in Seq(Msg) /\ queue \in Seq(Msg) /\ queue' \in Seq(Msg)
      /\ Len(queue) \in Nat /\ Len(read) \in Nat /\ Len(queue') \in Nat
      /\ n <= Len(queue) /\ n <= Len(read)
  BY <1>2, ReadType DEF TypeOK, Split
<1>4. Len(queue') <= Len(queue) /\ \A i \in 1..Len(queue') : queue'[i] = queue[k + i]
  <2>1. queue' = Latest(queue, Max)
    BY DEF LTrim
  <2>2. Len(queue') = IF Len(queue) <= Max THEN Len(queue) ELSE Max
    BY <1>3, <2>1, LatestProperties, MaxAssumption
  <2>3. \A i \in 1..Len(queue') : queue'[i] = queue[Len(queue) - Len(queue') + i]
    BY <1>3, <2>1, LatestProperties, MaxAssumption
  <2>4. Len(queue') <= Len(queue)
    BY <1>3, <2>2, MaxAssumption
  <2> QED BY <2>3, <2>4
<1>5. k \in Nat /\ Len(queue) = k + Len(queue')
  BY <1>3, <1>4
<1> HIDE DEF k
<1> DEFINE l == IF n > k THEN n - k ELSE 0
<1>6. l \in Nat /\ l <= n /\ l <= Len(queue') /\ (n > k => l = n - k) /\ (~(n > k) => l = 0)
  BY <1>3, <1>5
<1> HIDE DEF l
<1>7. Split(queue', read', l)
  <2>1. ASSUME NEW i \in 1..l PROVE queue'[i] = read[Len(read) - l + i]
    <3>1. n > k /\ l = n - k /\ i \in 1..Len(queue') /\ k + i \in 1..n /\ Len(read) - n + (k + i) = Len(read) - l + i
      BY <1>3, <1>5, <1>6
    <3>2. queue'[i] = queue[k + i]
      BY <1>4, <3>1
    <3> QED BY <1>2, <3>1, <3>2 DEF Split
  <2>2. ASSUME NEW i \in (l + 1)..Len(queue') PROVE queue'[i] \notin RangeOf(read)
    <3>1. k + i \in (n + 1)..Len(queue) /\ i \in 1..Len(queue')
      BY <1>3, <1>5, <1>6
    <3> QED BY <1>2, <1>4, <3>1 DEF Split
  <2> QED BY <1>1, <1>3, <1>6, <2>1, <2>2 DEF Split
<1>8. /\ pend \in Seq(Msg) /\ Len(pend) = Len(read) + Len(queue) - n
      /\ \A i \in 1..Len(read) : pend[i] = read[i]
      /\ EndsWith(pend, queue, Len(read) - n)
  BY <1>2, <1>3, PendingProperties DEF unread
<1>9. /\ pend' \in Seq(Msg) /\ Len(pend') = Len(read) + Len(queue') - l
      /\ \A i \in 1..Len(read) : pend'[i] = read[i]
      /\ EndsWith(pend', queue', Len(read) - l)
  <2>1. /\ pend' \in Seq(Msg) /\ Len(pend') = Len(read') + Len(queue') - l
        /\ \A i \in 1..Len(read') : pend'[i] = read'[i]
        /\ EndsWith(pend', queue', Len(read') - l)
    <3>1. Split(queue', read', l) /\ queue' \in Seq(Msg) /\ read' \in Seq(Msg)
      BY <1>1, <1>3, <1>7
    <3>2. pend' = read' \o Fresh(queue', read')
      BY DEF unread
    <3> QED BY <1>6, <3>1, <3>2, PendingProperties
  <2> QED BY <1>1, <2>1
<1> HIDE DEF pend
<1>10. Box!PartOf(pend', pend)
  <2> DEFINE cut == Len(pend) - Len(pend')
             at == [i \in DOMAIN pend' |-> IF i <= Len(read) THEN i ELSE i + cut]
  <2>1. DOMAIN pend = 1..Len(pend) /\ DOMAIN pend' = 1..Len(pend') /\ Len(pend) \in Nat /\ Len(pend') \in Nat
    BY <1>8, <1>9
  <2>2. cut \in Nat /\ Len(pend) = Len(pend') + cut /\ cut = k - (n - l)
    BY <1>3, <1>5, <1>6, <1>8, <1>9
  <2> HIDE DEF cut
  <2>3. at \in [DOMAIN pend' -> DOMAIN pend]
    BY <1>3, <2>1, <2>2
  <2>4. \A i, j \in DOMAIN pend' : i < j => at[i] < at[j]
    BY <1>3, <2>1, <2>2
  <2>5. ASSUME NEW i \in DOMAIN pend' PROVE pend'[i] = pend[at[i]]
    <3>1. CASE i <= Len(read)
      BY <1>3, <1>8, <1>9, <2>1, <3>1
    <3>2. CASE ~(i <= Len(read))
      <4> DEFINE j == i - Len(read) + l
      <4>1. j \in 1..Len(queue') /\ j > l /\ Len(read) - l + j = i
        BY <1>3, <1>6, <1>9, <2>1, <3>2
      <4>2. at[i] = i + cut
        BY <3>2
      <4> HIDE DEF j, at
      <4>3. k + l >= n /\ j \in Nat /\ i \in Nat
        BY <1>3, <1>5, <1>6, <2>1, <4>1
      <4>4. k + j \in 1..Len(queue)
        BY <1>3, <1>5, <1>6, <4>1, <4>3
      <4>5. Len(read) - n + (k + j) = i + cut
        BY <1>3, <1>5, <1>6, <2>2, <4>1, <4>3
      <4>6. pend[Len(read) - n + (k + j)] = queue[k + j] /\ pend'[Len(read) - l + j] = queue'[j]
        BY <1>8, <1>9, <4>1, <4>4 DEF EndsWith
      <4> QED BY <1>4, <4>1, <4>2, <4>5, <4>6
    <3> QED BY <3>1, <3>2
  <2> HIDE DEF at
  <2> QED BY <2>3, <2>4, <2>5 DEF Box!PartOf
<1> QED BY <1>1, <1>6, <1>7, <1>10, LossBox DEF BoxInv, OneReads, pend


LEMMA ReadOfReading == ASSUME OneReads, NEW d \in Reading PROVE read = batch[d] /\ Reading = {d}
<1>1. Reading = {d}
  BY DEF OneReads
<1>2. (CHOOSE e \in Reading : TRUE) = d
  BY <1>1
<1> QED BY <1>1, <1>2 DEF read

LEMMA RangeBox ==
    ASSUME TypeOK, BoxInv, OneReads', NEW d \in Drainer, LRange(d) PROVE BoxInv' /\ BoxStep
<1>1. Reading' = Reading \cup {d} /\ d \notin Reading /\ batch'[d] = queue
  BY DEF LRange, Reading, TypeOK
<1>2. Reading = {} /\ Reading' = {d}
  BY <1>1 DEF OneReads
<1>3. read = <<>>
  BY <1>2 DEF read
<1>4. read' = queue
  <2>1. (CHOOSE e \in Reading' : TRUE) = d
    BY <1>2
  <2>2. read' = batch'[CHOOSE e \in Reading' : TRUE]
    BY <1>2 DEF read
  <2> QED BY <1>1, <2>1, <2>2
<1>5. queue \in Seq(Msg) /\ queue' = queue /\ handed' = handed /\ Len(queue) \in Nat
  BY DEF LRange, TypeOK
<1>6. Split(queue, queue, Len(queue)) /\ read \in Seq(Msg)
  BY <1>3, <1>5, SplitAll
<1>7. read \o Fresh(queue, read) = queue
  BY <1>3, <1>5, <1>6, PendingNone
<1>8. queue \o Fresh(queue, queue) = queue
  <2> DEFINE w == queue \o Fresh(queue, queue)
  <2>1. /\ w \in Seq(Msg) /\ Len(w) = Len(queue) + Len(queue) - Len(queue)
        /\ \A i \in 1..Len(queue) : w[i] = queue[i]
    BY <1>5, <1>6, PendingProperties
  <2> HIDE DEF w
  <2>2. Len(w) = Len(queue) /\ \A i \in 1..Len(w) : w[i] = queue[i]
    BY <1>5, <2>1
  <2> QED BY <1>5, <2>1, <2>2, SeqEqual DEF w
<1>9. (read \o unread)' = read \o unread
  <2>1. (read \o unread)' = queue \o Fresh(queue, queue)
    BY <1>4, <1>5 DEF unread
  <2>2. read \o unread = read \o Fresh(queue, read)
    BY DEF unread
  <2> QED BY <1>7, <1>8, <2>1, <2>2
<1> QED BY <1>4, <1>5, <1>6, <1>9 DEF BoxInv, BoxStep, UnmovedBox

(* After a drain and after the expiry the list and its reader are apart.   *)
LEMMA UnreadBox ==
    ASSUME TypeOK, TypeOK', Reading' = {}
    PROVE  /\ BoxInv' /\ read' = <<>> /\ (read \o unread)' = queue'
<1>1. read' = <<>> /\ OneReads' /\ queue' \in Seq(Msg)
  BY DEF read, OneReads, TypeOK
<1>2. Split(queue', read', 0) /\ read' \o Fresh(queue', read') = queue'
  <2>1. read' \in Seq(Msg)
    BY <1>1
  <2> QED BY <1>1, <2>1, PendingNone
<1>3. (read \o unread)' = read' \o Fresh(queue', read')
  BY DEF unread
<1> QED BY <1>1, <1>2, <1>3 DEF BoxInv

LEMMA EmptiedBox == ASSUME queue' = <<>>, (read \o unread)' = queue' PROVE Box!PartOf((read \o unread)', read \o unread)
<1> DEFINE pend == read \o unread
           at == [i \in DOMAIN pend' |-> 1]
<1>1. pend' = <<>> /\ DOMAIN pend' = {}
  OBVIOUS
<1> HIDE DEF pend
<1>2. at \in [DOMAIN pend' -> DOMAIN pend] /\ \A i \in DOMAIN pend' : pend'[i] = pend[at[i]]
  BY <1>1
<1> QED BY <1>1, <1>2 DEF Box!PartOf, pend

LEMMA TakeBox ==
    ASSUME TypeOK, TypeOK', BoxInv, NEW d \in Drainer, Del(d) PROVE BoxInv' /\ BoxStep
<1> DEFINE pend == read \o unread
<1>1. d \in Reading /\ Reading' = Reading \ {d}
  BY DEF Del, Reading, TypeOK
<1>2. read = batch[d] /\ Reading' = {}
  BY <1>1, ReadOfReading DEF BoxInv
<1>3. BoxInv' /\ pend' = <<>>
  BY <1>2, UnreadBox DEF Del
<1>4. PICK n \in Nat : Split(queue, read, n)
  BY DEF BoxInv
<1>5. read \in Seq(Msg) /\ queue \in Seq(Msg) /\ Len(queue) \in Nat /\ Len(read) \in Nat /\ n <= Len(queue) /\ n <= Len(read)
  BY <1>4, ReadType DEF TypeOK, Split
<1>6. /\ pend \in Seq(Msg) /\ Len(pend) = Len(read) + Len(queue) - n
      /\ \A i \in 1..Len(read) : pend[i] = read[i]
  <2>1. pend = read \o Fresh(queue, read)
    BY DEF unread
  <2> HIDE DEF pend
  <2> QED BY <1>4, <1>5, <2>1, PendingProperties
<1> HIDE DEF pend
<1>7. Len(read) \in 0..Len(pend) /\ Len(pend) \in Nat
  BY <1>5, <1>6
<1>8. SubSeq(pend, 1, Len(read)) = read
  <2>1. /\ SubSeq(pend, 1, Len(read)) \in Seq(Msg) /\ Len(SubSeq(pend, 1, Len(read))) = Len(read)
        /\ \A i \in 1..Len(read) : SubSeq(pend, 1, Len(read))[i] = pend[i]
    BY <1>6, <1>7
  <2> QED BY <1>5, <1>6, <2>1, SeqEqual
<1>9. Box!Take(Len(read))
  BY <1>2, <1>3, <1>8 DEF Box!Take, Del, pend
<1> QED BY <1>3, <1>7, <1>9 DEF BoxStep, Box!Next, pend

LEMMA FailedBox ==
    ASSUME TypeOK, TypeOK', BoxInv, NEW d \in Drainer, DelFails(d) PROVE BoxInv' /\ BoxStep
<1> DEFINE pend == read \o unread
<1>1. d \in Reading /\ Reading' = Reading \ {d}
  BY DEF DelFails, Reading, TypeOK
<1>2. Reading' = {}
  BY <1>1, ReadOfReading DEF BoxInv
<1>3. BoxInv' /\ pend' = queue /\ handed' = handed
  BY <1>2, UnreadBox DEF DelFails
<1>4. PICK n \in Nat : Split(queue, read, n)
  BY DEF BoxInv
<1>5. read \in Seq(Msg) /\ queue \in Seq(Msg) /\ Len(queue) \in Nat /\ Len(read) \in Nat /\ n <= Len(queue) /\ n <= Len(read)
  BY <1>4, ReadType DEF TypeOK, Split
<1>6. /\ pend \in Seq(Msg) /\ Len(pend) = Len(read) + Len(queue) - n
      /\ EndsWith(pend, queue, Len(read) - n)
  BY <1>4, <1>5, PendingProperties DEF unread
<1> HIDE DEF pend
<1>7. Box!PartOf(pend', pend)
  <2> DEFINE at == [i \in DOMAIN pend' |-> Len(read) - n + i]
  <2>1. DOMAIN pend' = 1..Len(queue) /\ DOMAIN pend = 1..Len(pend)
    BY <1>3, <1>5, <1>6
  <2>2. at \in [DOMAIN pend' -> DOMAIN pend]
    BY <1>5, <1>6, <2>1
  <2>3. \A i, j \in DOMAIN pend' : i < j => at[i] < at[j]
    BY <1>5, <2>1
  <2>4. \A i \in DOMAIN pend' : pend'[i] = pend[at[i]]
    BY <1>3, <1>6, <2>1 DEF EndsWith
  <2> HIDE DEF at
  <2> QED BY <2>2, <2>3, <2>4 DEF Box!PartOf
<1> QED BY <1>3, <1>7, LossBox DEF pend

LEMMA ExpiryBox == ASSUME TypeOK, TypeOK', BoxInv, KeyExpires PROVE BoxInv' /\ BoxStep
<1>1. Reading' = {} /\ queue' = <<>> /\ handed' = handed
  BY DEF KeyExpires, drainVars, Reading
<1>2. BoxInv' /\ (read \o unread)' = queue'
  BY <1>1, UnreadBox
<1> QED BY <1>1, <1>2, EmptiedBox, LossBox

LEMMA StillBox == ASSUME BoxInv, UNCHANGED <<queue, dpc, batch, handed>> PROVE BoxInv' /\ UnmovedBox
<1>1. UNCHANGED <<read, Reading, queue, handed>>
  BY DEF read, Reading
<1> QED BY <1>1 DEF BoxInv, OneReads, UnmovedBox, unread

LEMMA BoxInit == Init => BoxInv /\ Box!Init
<1> SUFFICES ASSUME Init PROVE BoxInv /\ Box!Init
  OBVIOUS
<1>1. read = <<>> /\ OneReads /\ queue = <<>> /\ handed = <<>>
  BY DEF Init, read, Reading, OneReads
<1>2. read \in Seq(Msg) /\ queue \in Seq(Msg)
  BY <1>1
<1>3. Split(queue, read, 0) /\ read \o Fresh(queue, read) = queue
  BY <1>1, <1>2, PendingNone
<1> QED BY <1>1, <1>3 DEF BoxInv, unread, Box!Init

\* With one drain at a time, each step of the queue is a step of the mailbox.
LEMMA TurnsStep ==
    ASSUME TypeOK, TypeOK', Taken, BoxInv, OneReads', Next PROVE BoxInv' /\ BoxStep
<1>1. ASSUME NEW m \in Msg, QueueMessage(m) PROVE BoxInv' /\ BoxStep
  <2>1. CASE Expire(m) \/ CommandFails(m)
    BY <2>1, StillBox DEF Expire, CommandFails, drainVars, BoxStep
  <2> QED BY <1>1, <2>1, PushBox, TrimBox DEF QueueMessage
<1>2. ASSUME NEW d \in Drainer, DrainMessages(d) PROVE BoxInv' /\ BoxStep
  BY <1>2, RangeBox, TakeBox, FailedBox DEF DrainMessages
<1> QED BY <1>1, <1>2, ExpiryBox DEF Next

=============================================================================
