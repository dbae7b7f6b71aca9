---------------------------- MODULE UsersProofs ----------------------------
(***************************************************************************)
(* What belongs to users stays sound for any people, connections, rows,    *)
(* requests and emoji, whatever fails meanwhile: a user who is gone is     *)
(* known to be, blocks keep apart, erasures and exports are honoured,      *)
(* emoji stay in their tenant, and the rows of attachments and their files *)
(* agree.  Each part has an inductive                                      *)
(* invariant, made of what its calls have seen and not yet done, one lemma *)
(* per call, the theorem for the part alone and the one for PartsSpec,     *)
(* where the parts take turns.                                             *)
(***************************************************************************)
EXTENDS MCUsers, FiniteSetTheorems, TLAPS

(***************************************************************************)
(* Presence                                                                *)
(***************************************************************************)
\* What TypeOK says of the pushes.
PushOK ==
    /\ push \in [Conn \X Proc -> Push]
    /\ \A p \in Conn \X Proc : push[p].step # "idle" => push[p].status \in Shown

\* What TypeOK says of the rest.
RestOK ==
    /\ row \in Row
    /\ conn \in [Conn -> {"off", "on"}]
    /\ subs \subseteq Watcher
    /\ joining \in [Watcher -> {"no", "read"} \cup Shown]
    /\ shown \in [Watcher -> Shown]
    /\ opened \in 0..Opens
    /\ updated \in 0..Updates
    /\ lost \in Nat
    /\ unpushed \subseteq Watcher \ Subscribing

LEMMA TypeParts == TypeOK <=> PushOK /\ RestOK
BY DEF TypeOK, PushOK, RestOK

LEMMA Names ==
    /\ Absent \in Row /\ Idle \in Push /\ Idle.step = "idle"
    /\ Shown \subseteq Status /\ {"online", "away", "offline"} \subseteq Shown
    /\ "idle" \notin Step
    /\ \A c \in Conn : <<c, "task">> \in Conn \X Proc /\ <<c, "cleanup">> \in Conn \X Proc
BY DEF Absent, Row, Idle, Push, Status, Shown, Step, Proc

LEMMA TypeInit == Init => TypeOK
<1> SUFFICES ASSUME Init PROVE PushOK /\ RestOK
  BY TypeParts
<1>1. PushOK
  BY Names DEF Init, PushOK
<1>2. RestOK
  BY Names, OpensAssumption DEF Init, RestOK
<1> QED BY <1>1, <1>2

(* A process goes to another step of its push, or ends it.                 *)
LEMMA PushGoto ==
    ASSUME PushOK, NEW p \in Conn \X Proc, NEW step \in Step, NEW status \in Shown,
           Goto(p, step, status)
    PROVE  PushOK'
<1>1. [Idle EXCEPT !.step = step, !.status = status] \in Push
  BY Names DEF Push, Idle
<1>2. [Idle EXCEPT !.step = step, !.status = status].status \in Shown
  BY DEF Idle
<1> HIDE DEF Push, Idle
<1> QED BY <1>1, <1>2 DEF PushOK, Goto

LEMMA PushIdle ==
    ASSUME PushOK, NEW S \in SUBSET (Conn \X Proc),
           push' = [p \in Conn \X Proc |-> IF p \in S THEN Idle ELSE push[p]]
    PROVE  PushOK'
BY Names DEF PushOK

LEMMA PushSend ==
    ASSUME PushOK, NEW p \in Conn \X Proc, push[p].step # "idle",
           NEW todo \in SUBSET Watcher,
           \/ push' = [push EXCEPT ![p].todo = todo]
           \/ push' = [push EXCEPT ![p].step = "send", ![p].todo = todo]
    PROVE  PushOK'
<1>1. PICK q \in Push : push' = [push EXCEPT ![p] = q] /\ q.status = push[p].status
  BY DEF PushOK, Push, Step
<1> QED BY <1>1 DEF PushOK

-----------------------------------------------------------------------------
LEMMA PushStep == TypeOK /\ [Next]_vars => PushOK'
<1> SUFFICES ASSUME TypeOK, [Next]_vars PROVE PushOK'
  OBVIOUS
<1>1. PushOK /\ RestOK
  BY TypeParts
<1>2. ASSUME UNCHANGED push PROVE PushOK'
  BY <1>1, <1>2 DEF PushOK
<1>3. {"update", "zero", "subscribers", "send"} \subseteq Step /\ "offline" \in Shown
  BY DEF Step, Shown
<1>4. ASSUME NEW p \in Conn \X Proc, push' = [push EXCEPT ![p] = Idle] PROVE PushOK'
  <2>1. push' = [q \in Conn \X Proc |-> IF q \in {p} THEN Idle ELSE push[q]]
    BY <1>1, <1>4 DEF PushOK
  <2> QED BY <1>1, <2>1, PushIdle
<1>5. ASSUME NEW c \in Conn, NEW s \in {"online", "away"}, UpdateRequest(c, s) PROVE PushOK'
  BY <1>1, <1>3, <1>5, PushGoto, Names DEF UpdateRequest
<1>6. ASSUME NEW c \in Conn, UpdatePresence(c) PROVE PushOK'
  <2>1. push[<<c, "task">>].status \in Shown
    BY <1>1, <1>6, Names DEF UpdatePresence, PushOK
  <2> QED BY <1>1, <1>3, <1>6, <2>1, PushGoto, Names DEF UpdatePresence
<1>7. ASSUME NEW c \in Conn, UpdateFails(c) PROVE PushOK'
  BY <1>4, <1>7, Names DEF UpdateFails
<1>8. ASSUME NEW c \in Conn, Decrement(c) \/ DecrementFails(c) \/ Zero(c) PROVE PushOK'
  <2>1. UNCHANGED push \/ \E step \in Step : Goto(<<c, "cleanup">>, step, "offline")
    BY <1>3, <1>8 DEF Decrement, DecrementFails, Zero
  <2> QED BY <1>1, <1>2, <1>3, <2>1, PushGoto, Names
<1>9. ASSUME NEW c \in Conn, Crash(c) PROVE PushOK'
  <2>1. push' = [p \in Conn \X Proc |-> IF p \in {q \in Conn \X Proc : q[1] = c} THEN Idle ELSE push[p]]
    BY <1>9 DEF Crash
  <2> QED BY <1>1, <2>1, PushIdle
<1>10. ASSUME NEW p \in Conn \X Proc, GetSubscribers(p) PROVE PushOK'
  <2>1. CASE push' = [push EXCEPT ![p] = Idle]
    BY <1>4, <2>1
  <2>2. CASE push' = [push EXCEPT ![p].step = "send", ![p].todo = subs]
    BY <1>1, <1>10, <2>2, PushSend DEF GetSubscribers, RestOK
  <2> QED BY <1>10, <2>1, <2>2 DEF GetSubscribers
<1>11. ASSUME NEW p \in Conn \X Proc, PushDone(p) PROVE PushOK'
  BY <1>4, <1>11 DEF PushDone
<1>12. ASSUME NEW p \in Conn \X Proc, NEW w \in Watcher, PushTo(p, w) PROVE PushOK'
  <2>1. push[p].todo \ {w} \in SUBSET Watcher
    BY <1>1 DEF PushOK, Push
  <2> QED BY <1>1, <1>12, <2>1, PushSend DEF PushTo
<1>13. ASSUME NEW c \in Conn, MarkOnline(c) PROVE PushOK'
  BY <1>2, <1>13 DEF MarkOnline
<1>14. ASSUME (\E w \in Watcher : Watch(w)) \/ Expire \/ UNCHANGED vars PROVE PushOK'
  BY <1>2, <1>14 DEF Watch, Subscribe, ReadInitial, SendInitial, Unsubscribe, Expire, vars
<1> QED
  BY <1>5, <1>6, <1>7, <1>8, <1>9, <1>10, <1>11, <1>12, <1>13, <1>14 DEF Next, Session, Broadcast

LEMMA RestStep == TypeOK /\ [Next]_vars => RestOK'
<1> SUFFICES ASSUME TypeOK, [Next]_vars PROVE RestOK'
  OBVIOUS
<1>1. PushOK /\ RestOK
  BY TypeParts
<1> USE <1>1, OpensAssumption DEF RestOK
<1>2. ASSUME NEW c \in Conn, MarkOnline(c) PROVE RestOK'
  <2>1. row' \in Row
    <3>1. UNCHANGED row \/ row' = [exists |-> "yes", status |-> "online", count |-> row.count + 1, ttl |-> "set"]
      BY <1>2 DEF MarkOnline
    <3>2. row.count \in Int /\ "online" \in Status
      BY DEF Row, Status, Shown
    <3> QED BY <3>1, <3>2 DEF Row
  <2> QED BY <1>2, <2>1 DEF MarkOnline
<1>3. ASSUME NEW c \in Conn, NEW s \in {"online", "away"}, UpdateRequest(c, s) PROVE RestOK'
  BY <1>3 DEF UpdateRequest
<1>4. ASSUME NEW c \in Conn, UpdatePresence(c) PROVE RestOK'
  <2>1. push[<<c, "task">>].status \in Status
    BY <1>4, Names DEF UpdatePresence, PushOK
  <2>2. row' \in Row
    BY <1>4, <2>1 DEF UpdatePresence, Row
  <2> QED BY <1>4, <2>2 DEF UpdatePresence
<1>5. ASSUME NEW c \in Conn, UpdateFails(c) PROVE RestOK'
  BY <1>5 DEF UpdateFails
<1>6. ASSUME NEW c \in Conn, Decrement(c) \/ DecrementFails(c) PROVE RestOK'
  <2>1. row' \in Row
    <3> DEFINE less == row.count - 1
    <3>1. row \in Row /\ less \in Int
      BY DEF Row
    <3>2. UNCHANGED row \/ row' = [row EXCEPT !.exists = "yes", !.count = less]
      BY <1>6 DEF Decrement, DecrementFails
    <3> HIDE DEF less
    <3> QED BY ONLY <3>1, <3>2 DEF Row
  <2> QED BY <1>6, <2>1 DEF Decrement, DecrementFails, Ends
<1>7. ASSUME NEW c \in Conn, Zero(c) PROVE RestOK'
  <2>1. row' \in Row
    BY <1>7, Names DEF Zero, Row
  <2> QED BY <1>7, <2>1 DEF Zero
<1>8. ASSUME NEW c \in Conn, Crash(c) PROVE RestOK'
  BY <1>8 DEF Crash
<1>9. ASSUME NEW p \in Conn \X Proc, GetSubscribers(p) \/ PushDone(p) PROVE RestOK'
  BY <1>9 DEF GetSubscribers, PushDone, Missed
<1>10. ASSUME NEW p \in Conn \X Proc, NEW w \in Watcher, PushTo(p, w) PROVE RestOK'
  <2>1. push[p].status \in Shown
    BY <1>10 DEF PushTo, PushOK
  <2>2. unpushed' \subseteq Watcher \ Subscribing
    BY <1>10 DEF PushTo, Missed
  <2> QED BY <1>10, <2>1, <2>2 DEF PushTo
<1>11. ASSUME NEW w \in Watcher, Watch(w) PROVE RestOK'
  <2>1. Read \in Shown
    BY DEF Read, Row, Status, Shown
  <2> QED BY <1>11, <2>1, SubscribingAssumption DEF Watch, Subscribe, ReadInitial, SendInitial, Unsubscribe
<1>12. CASE Expire
  BY <1>12, Names DEF Expire
<1>13. CASE UNCHANGED vars
  BY <1>13 DEF vars
<1> QED
  BY <1>2, <1>3, <1>4, <1>5, <1>6, <1>7, <1>8, <1>9, <1>10, <1>11, <1>12, <1>13
     DEF Next, Session, Broadcast

(* Every variable keeps its type; nothing but a status is ever pushed or   *)
(* sent, although the hash may lack one.                                   *)
THEOREM PresenceTypeCorrect == Spec => []TypeOK
<1>1. TypeOK /\ [Next]_vars => TypeOK'
  <2> SUFFICES ASSUME TypeOK, [Next]_vars PROVE PushOK' /\ RestOK'
    BY DEF TypeOK, PushOK, RestOK
  <2> QED BY PushStep, RestStep
<1> QED BY <1>1, TypeInit, PTL DEF Spec

-----------------------------------------------------------------------------
\* A connection that opens adds one to the open ones, one that ends takes one.
LEMMA LiveCount ==
    ASSUME TypeOK
    PROVE  /\ IsFiniteSet(Live) /\ Cardinality(Live) \in Nat
           /\ \A c \in Conn : conn[c] = "off" /\ conn' = [conn EXCEPT ![c] = "on"]
                 => Cardinality(Live') = Cardinality(Live) + 1
           /\ \A c \in Conn : conn[c] = "on" /\ conn' = [conn EXCEPT ![c] = "off"]
                 => Cardinality(Live') = Cardinality(Live) - 1
<1>1. IsFiniteSet(Live)
  BY ConnAssumption, FS_Subset DEF Live
<1>2. ASSUME NEW c \in Conn, conn[c] = "off", conn' = [conn EXCEPT ![c] = "on"]
      PROVE  Cardinality(Live') = Cardinality(Live) + 1
  <2>1. Live' = Live \cup {c} /\ c \notin Live
    BY <1>2 DEF Live, TypeOK
  <2> QED BY <1>1, <2>1, FS_AddElement
<1>3. ASSUME NEW c \in Conn, conn[c] = "on", conn' = [conn EXCEPT ![c] = "off"]
      PROVE  Cardinality(Live') = Cardinality(Live) - 1
  <2>1. Live' = Live \ {c} /\ c \in Live
    BY <1>3 DEF Live, TypeOK
  <2> QED BY <1>1, <2>1, FS_RemoveElement
<1> QED BY <1>1, <1>2, <1>3, FS_CardinalityType

LEMMA CountInit == Init => NeverOvercounted
<1> SUFFICES ASSUME Init PROVE NeverOvercounted
  OBVIOUS
<1>1. Cardinality(Live) \in Nat /\ row.count = 0 /\ lost = 0
  BY TypeInit, LiveCount DEF Init, Absent
<1> QED BY <1>1 DEF NeverOvercounted

LEMMA CountStep == TypeOK /\ NeverOvercounted /\ [Next]_vars => NeverOvercounted'
<1> SUFFICES ASSUME TypeOK, NeverOvercounted, [Next]_vars PROVE NeverOvercounted'
  OBVIOUS
<1>1. /\ row.count \in Int /\ Cardinality(Live) \in Nat /\ lost \in Nat
      /\ row.count <= Cardinality(Live) + lost
  BY LiveCount DEF TypeOK, Row, NeverOvercounted
<1>2. ASSUME conn' = conn, lost' = lost, row'.count \in {row.count, 0} PROVE NeverOvercounted'
  <2>1. Live' = Live
    BY <1>2 DEF Live
  <2> QED BY <1>1, <1>2, <2>1 DEF NeverOvercounted
<1>3. ASSUME NEW c \in Conn, MarkOnline(c) PROVE NeverOvercounted'
  <2>1. Cardinality(Live') = Cardinality(Live) + 1 /\ lost' = lost
    BY <1>3, LiveCount DEF MarkOnline
  <2>2. row'.count \in {row.count, row.count + 1}
    BY <1>3 DEF MarkOnline
  <2> QED BY <1>1, <2>1, <2>2 DEF NeverOvercounted
<1>4. ASSUME NEW c \in Conn, Decrement(c) PROVE NeverOvercounted'
  <2>1. Cardinality(Live') = Cardinality(Live) - 1 /\ lost' = lost
    BY <1>4, LiveCount DEF Decrement, Ends
  <2>2. row'.count = row.count - 1
    BY <1>4 DEF Decrement, TypeOK, Row
  <2> QED BY <1>1, <2>1, <2>2 DEF NeverOvercounted
\* A connection that ends without a decrement is counted as lost.
<1>5. ASSUME NEW c \in Conn, DecrementFails(c) \/ Crash(c) PROVE NeverOvercounted'
  <2>1. row' = row
    BY <1>5 DEF DecrementFails, Crash
  <2>2. CASE conn[c] = "on"
    <3>1. Cardinality(Live') = Cardinality(Live) - 1 /\ lost' = lost + 1
      BY <1>5, <2>2, LiveCount DEF DecrementFails, Crash, Ends
    <3> QED BY <1>1, <2>1, <3>1 DEF NeverOvercounted
  <2>3. CASE conn[c] # "on"
    <3>1. conn' = conn /\ lost' = lost
      BY <1>5, <2>3 DEF DecrementFails, Crash, Ends, TypeOK
    <3> QED BY <1>2, <2>1, <3>1
  <2> QED BY <2>2, <2>3
<1>6. ASSUME NEW c \in Conn, NEW s \in {"online", "away"},
             UpdateRequest(c, s) \/ UpdatePresence(c) \/ UpdateFails(c) \/ Zero(c)
      PROVE  NeverOvercounted'
  <2>1. conn' = conn /\ lost' = lost
    BY <1>6 DEF UpdateRequest, UpdatePresence, UpdateFails, Zero
  <2>2. row'.count \in {row.count, 0}
    <3>1. CASE UpdatePresence(c)
      <4>1. row' = [row EXCEPT !.exists = "yes", !.status = push[<<c, "task">>].status, !.ttl = "set"]
        BY <3>1 DEF UpdatePresence
      <4>2. row \in Row
        BY DEF TypeOK
      <4> QED BY ONLY <4>1, <4>2 DEF Row
    <3>2. CASE UpdateRequest(c, s) \/ UpdateFails(c) \/ Zero(c)
      BY <3>2 DEF UpdateRequest, UpdateFails, Zero
    <3> QED BY <1>6, <3>1, <3>2
  <2> QED BY <1>2, <2>1, <2>2
<1>7. ASSUME NEW p \in Conn \X Proc, Broadcast(p) PROVE NeverOvercounted'
  BY <1>2, <1>7 DEF Broadcast, GetSubscribers, PushDone, PushTo
<1>8. ASSUME (\E w \in Watcher : Watch(w)) \/ Expire \/ UNCHANGED vars PROVE NeverOvercounted'
  BY <1>2, <1>8 DEF Watch, Subscribe, ReadInitial, SendInitial, Unsubscribe, Expire, Absent, vars
<1> QED
  BY <1>3, <1>4, <1>5, <1>6, <1>7, <1>8 DEF Next, Session

(* The count in Redis exceeds the open connections at most by those that   *)
(* ended without a decrement, whatever races, expires or fails.            *)
THEOREM CountIsBounded == Spec => []NeverOvercounted
<1>1. TypeOK /\ [Next]_vars => TypeOK'
  BY PushStep, RestStep DEF TypeOK, PushOK, RestOK
<1> QED BY <1>1, TypeInit, CountInit, CountStep, PTL DEF Spec

-----------------------------------------------------------------------------
(* In usual weather no server crashes, mark_offline does not fail and no   *)
(* receive task outlives its socket.                                       *)
UsualSession(c) ==
    \/ MarkOnline(c)
    \/ \E s \in {"online", "away"} : UpdateRequest(c, s)
    \/ UpdatePresence(c)
    \/ UpdateFails(c)
    \/ Decrement(c) /\ push[<<c, "task">>].step = "idle"
    \/ Zero(c) /\ row'.status = "offline"

LEMMA UsualSteps ==
    Usual!Next =>
       \/ \E c \in Conn : UsualSession(c)
       \/ \E p \in Conn \X Proc : Broadcast(p)
       \/ \E w \in Watcher : Watch(w)
       \/ Expire
<1> SUFFICES ASSUME Usual!Next PROVE
       \/ \E c \in Conn : UsualSession(c)
       \/ \E p \in Conn \X Proc : Broadcast(p)
       \/ \E w \in Watcher : Watch(w)
       \/ Expire
  OBVIOUS
<1>1. ASSUME NEW c \in Conn, Usual!Session(c) PROVE UsualSession(c)
  <2>1. Usual!MarkOnline(c) => MarkOnline(c)
    BY DEF Usual!MarkOnline, MarkOnline, Usual!Proc, Proc
  <2>2. ASSUME NEW s \in {"online", "away"}, Usual!UpdateRequest(c, s) PROVE UpdateRequest(c, s)
    BY <2>2 DEF Usual!UpdateRequest, UpdateRequest, Usual!Goto, Goto, Usual!Idle, Idle
  <2>3. Usual!UpdatePresence(c) => UpdatePresence(c)
    BY DEF Usual!UpdatePresence, UpdatePresence, Usual!Goto, Goto, Usual!Idle, Idle
  <2>4. Usual!UpdateFails(c) => UpdateFails(c)
    BY DEF Usual!UpdateFails, UpdateFails, Usual!Idle, Idle
  <2>5. Usual!Decrement(c) => Decrement(c) /\ push[<<c, "task">>].step = "idle"
    BY DEF Usual!Decrement, Decrement, Usual!Ends, Ends, Usual!Goto, Goto, Usual!Idle, Idle
  <2>6. Usual!Zero(c) => Zero(c) /\ row'.status = "offline"
    BY DEF Usual!Zero, Zero, Usual!Goto, Goto, Usual!Idle, Idle
  <2>7. ~Usual!DecrementFails(c) /\ ~Usual!Crash(c)
    BY DEF Usual!DecrementFails, Usual!Crash
  <2> QED BY <1>1, <2>1, <2>2, <2>3, <2>4, <2>5, <2>6, <2>7 DEF Usual!Session, UsualSession
<1>2. ASSUME NEW p \in Conn \X Proc, Usual!Broadcast(p) PROVE Broadcast(p)
  BY <1>2 DEF Usual!Broadcast, Broadcast, Usual!GetSubscribers, GetSubscribers, Usual!PushDone, PushDone,
     Usual!PushTo, PushTo, Usual!Idle, Idle, Usual!Missed, Missed
<1>3. ASSUME NEW w \in Watcher, Usual!Watch(w) PROVE Watch(w)
  BY <1>3 DEF Usual!Watch, Watch, Usual!Subscribe, Subscribe, Usual!ReadInitial, ReadInitial, Usual!Read, Read,
     Usual!SendInitial, SendInitial, Usual!Shown, Shown, Usual!Unsubscribe, Unsubscribe
<1>4. Usual!Expire => Expire
  BY DEF Usual!Expire, Expire, Usual!Absent, Absent
<1> QED BY <1>1, <1>2, <1>3, <1>4 DEF Usual!Next, Usual!Proc, Proc

LEMMA UsualIsNext == Usual!Next => Next
<1>1. ASSUME NEW c \in Conn, UsualSession(c) PROVE Session(c)
  BY <1>1 DEF UsualSession, Session
<1> QED BY <1>1, UsualSteps DEF Next

\* A cleanup that has still to tell w that the user is offline.
Telling(c, w) ==
    \/ push[<<c, "cleanup">>].step \in {"zero", "subscribers"}
    \/ push[<<c, "cleanup">>].step = "send" /\ w \in push[<<c, "cleanup">>].todo

\* A task works only while its connection is open, a cleanup only when it is closed
\* and for nothing but offline; standing watchers stay and ask for nothing.
InTurn ==
    /\ lost = 0
    /\ \A c \in Conn : conn[c] = "off" => push[<<c, "task">>].step = "idle"
    /\ \A c \in Conn : conn[c] = "on" => push[<<c, "cleanup">>].step = "idle"
    /\ \A c \in Conn : push[<<c, "cleanup">>].step # "idle" => push[<<c, "cleanup">>].status = "offline"
    /\ \A w \in Watcher \ Subscribing : w \in subs /\ joining[w] = "no"

\* While a user without a connection is not yet offline, or a standing watcher does not
\* know, a cleanup is on its way to change that, or has failed to.
OnItsWay ==
    Gone => /\ Read # "offline" => \E c \in Conn : push[<<c, "cleanup">>].step = "zero"
            /\ \A w \in Watcher \ Subscribing :
                  shown[w] # "offline" => w \in unpushed \/ \E c \in Conn : Telling(c, w)

UsualInv == TypeOK /\ NeverOvercounted /\ InTurn /\ OnItsWay

LEMMA UsualInit == Init => UsualInv
<1> SUFFICES ASSUME Init PROVE UsualInv
  OBVIOUS
<1>1. NeverOvercounted
  BY CountInit
<1>2. InTurn
  BY Names DEF Init, InTurn
<1>3. OnItsWay
  BY DEF Init, OnItsWay, Read, Absent
<1> QED BY <1>1, <1>2, <1>3, TypeInit DEF UsualInv

LEMMA ActorStep ==
    ASSUME UsualInv, Usual!Next, NEW c \in Conn, UsualSession(c)
    PROVE  InTurn' /\ OnItsWay'
<1>1. /\ conn \in [Conn -> {"off", "on"}] /\ push \in [Conn \X Proc -> Push]
      /\ <<c, "task">> \in Conn \X Proc /\ <<c, "cleanup">> \in Conn \X Proc
      /\ row.count \in Int /\ InTurn /\ OnItsWay
  BY Names DEF UsualInv, TypeOK, Row
<1>2. /\ \A d \in Conn : <<d, "task">> \in Conn \X Proc /\ <<d, "cleanup">> \in Conn \X Proc
      /\ Idle.step = "idle"
  BY Names
<1>3. ASSUME conn'[c] = "on" PROVE OnItsWay'
  BY <1>3 DEF OnItsWay, Gone, Live
<1>4. CASE MarkOnline(c)
  <2>1. push' = push /\ conn' = [conn EXCEPT ![c] = "on"] /\ push[<<c, "cleanup">>].step = "idle"
        /\ UNCHANGED <<subs, joining, lost>>
    BY <1>4 DEF MarkOnline, Proc
  <2>2. InTurn'
    BY <1>1, <2>1 DEF InTurn
  <2> QED BY <1>1, <1>3, <2>1, <2>2
<1>5. CASE (\E s \in {"online", "away"} : UpdateRequest(c, s)) \/ UpdatePresence(c) \/ UpdateFails(c)
  <2>1. PICK q : push' = [push EXCEPT ![<<c, "task">>] = q]
    BY <1>5 DEF UpdateRequest, UpdatePresence, UpdateFails, Goto
  <2>2. conn[c] = "on"
    <3>1. conn[c] # "off" \/ push[<<c, "task">>].step = "idle"
      BY <1>1 DEF InTurn
    <3>2. conn[c] = "on" \/ push[<<c, "task">>].step = "update"
      BY <1>5 DEF UpdateRequest, UpdatePresence, UpdateFails
    <3> QED BY <1>1, <3>1, <3>2
  <2>3. UNCHANGED <<conn, subs, joining, lost>>
    BY <1>5 DEF UpdateRequest, UpdatePresence, UpdateFails
  <2>4. \A d \in Conn : /\ push'[<<d, "cleanup">>] = push[<<d, "cleanup">>]
                        /\ d # c => push'[<<d, "task">>] = push[<<d, "task">>]
    BY <1>1, <1>2, <2>1
  <2>5. InTurn'
    BY <1>1, <2>2, <2>3, <2>4 DEF InTurn
  <2> QED BY <1>3, <2>2, <2>3, <2>5
<1>6. CASE Decrement(c) /\ push[<<c, "task">>].step = "idle"
  <2>1. /\ conn[c] = "on" /\ conn' = [conn EXCEPT ![c] = "off"]
        /\ UNCHANGED <<subs, joining, lost>>
    BY <1>6 DEF Decrement, Ends
  <2>2. \/ push' = push
        \/ push' = [push EXCEPT ![<<c, "cleanup">>] = [Idle EXCEPT !.step = "zero", !.status = "offline"]]
    BY <1>6 DEF Decrement, Goto
  <2>3. \A d \in Conn : /\ push'[<<d, "task">>] = push[<<d, "task">>]
                        /\ d # c => push'[<<d, "cleanup">>] = push[<<d, "cleanup">>]
    BY <1>1, <1>2, <2>2
  <2>4. \/ push'[<<c, "cleanup">>] = push[<<c, "cleanup">>]
        \/ push'[<<c, "cleanup">>].status = "offline" /\ push'[<<c, "cleanup">>].step = "zero"
    BY <1>1, <2>2 DEF Idle
  <2>5. InTurn'
    <3>1. \A d \in Conn : /\ conn'[d] = "off" => push'[<<d, "task">>].step = "idle"
                          /\ conn'[d] = "on" => push'[<<d, "cleanup">>].step = "idle"
      <4> TAKE d \in Conn
      <4>1. conn[d] = "off" => push[<<d, "task">>].step = "idle"
        BY <1>1 DEF InTurn
      <4>2. conn[d] = "on" => push[<<d, "cleanup">>].step = "idle"
        BY <1>1 DEF InTurn
      <4>3. CASE d = c
        BY <1>1, <1>6, <2>1, <2>3, <4>3
      <4>4. CASE d # c
        <5>1. conn'[d] = conn[d]
          BY <1>1, <2>1, <4>4
        <5> QED BY <2>3, <4>1, <4>2, <4>4, <5>1
      <4> QED BY <4>3, <4>4
    <3>2. \A d \in Conn : push'[<<d, "cleanup">>].step # "idle" => push'[<<d, "cleanup">>].status = "offline"
      <4> TAKE d \in Conn
      <4>1. push[<<d, "cleanup">>].step # "idle" => push[<<d, "cleanup">>].status = "offline"
        BY <1>1 DEF InTurn
      <4> QED BY <2>3, <2>4, <4>1
    <3> QED BY <1>1, <2>1, <3>1, <3>2 DEF InTurn
  <2>6. ASSUME Gone' PROVE push'[<<c, "cleanup">>].step = "zero"
    <3>1. row'.count <= 0
      <4>1. NeverOvercounted'
        BY CountStep, UsualIsNext DEF UsualInv
      <4>2. Cardinality(Live') = 0
        BY <2>6, FS_EmptySet DEF Gone
      <4>3. lost' = 0
        BY <2>5 DEF InTurn
      <4>4. row'.count \in Int
        <5>1. TypeOK'
          BY PushStep, RestStep, UsualIsNext DEF UsualInv, TypeOK, PushOK, RestOK
        <5> QED BY <5>1 DEF TypeOK, Row
      <4> QED BY <4>1, <4>2, <4>3, <4>4 DEF NeverOvercounted
    <3>2. push' = [push EXCEPT ![<<c, "cleanup">>] = [Idle EXCEPT !.step = "zero", !.status = "offline"]]
      BY <1>6, <3>1 DEF Decrement, Goto
    <3> QED BY <1>1, <3>2 DEF Idle
  <2>7. OnItsWay'
    BY <2>6 DEF OnItsWay, Telling
  <2> QED BY <2>5, <2>7
<1>7. CASE Zero(c) /\ row'.status = "offline"
  <2>1. /\ push[<<c, "cleanup">>].step = "zero"
        /\ push' = [push EXCEPT ![<<c, "cleanup">>] = [Idle EXCEPT !.step = "subscribers", !.status = "offline"]]
        /\ UNCHANGED <<conn, subs, joining, lost>>
    BY <1>7 DEF Zero, Goto
  <2>2. \A d \in Conn : /\ push'[<<d, "task">>] = push[<<d, "task">>]
                        /\ d # c => push'[<<d, "cleanup">>] = push[<<d, "cleanup">>]
    BY <1>1, <1>2, <2>1
  <2>3. push'[<<c, "cleanup">>].status = "offline" /\ push'[<<c, "cleanup">>].step = "subscribers"
    BY <1>1, <2>1 DEF Idle
  <2>4. InTurn'
    BY <1>1, <2>1, <2>2, <2>3 DEF InTurn
  <2>5. Read' = "offline" /\ unpushed' = unpushed
    BY <1>7 DEF Read, Zero
  <2>6. OnItsWay'
    BY <2>3, <2>5 DEF OnItsWay, Telling
  <2> QED BY <2>4, <2>6
<1> QED BY <1>4, <1>5, <1>6, <1>7 DEF UsualSession

LEMMA BroadcastStep ==
    ASSUME UsualInv, NEW c \in Conn, NEW x \in Proc, Broadcast(<<c, x>>)
    PROVE  InTurn' /\ OnItsWay'
<1>1. /\ push \in [Conn \X Proc -> Push] /\ InTurn /\ OnItsWay /\ shown \in [Watcher -> Shown]
      /\ \A d \in Conn : <<d, "task">> \in Conn \X Proc /\ <<d, "cleanup">> \in Conn \X Proc
  BY Names DEF UsualInv, TypeOK
<1>2. UNCHANGED <<row, conn, subs, joining, lost>>
  BY DEF Broadcast, GetSubscribers, PushDone, PushTo
<1>3. PICK q : push' = [push EXCEPT ![<<c, x>>] = q]
  BY DEF Broadcast, GetSubscribers, PushDone, PushTo
<1>4. push[<<c, x>>].step \in {"subscribers", "send"} /\ push[<<c, x>>] \in Push
  BY <1>1 DEF Broadcast, GetSubscribers, PushDone, PushTo
<1>5. q.step = "idle" \/ q.status = push[<<c, x>>].status
  <2>1. push'[<<c, x>>] = q
    BY <1>1, <1>3
  <2>2. CASE PushDone(<<c, x>>)
    BY <1>1, <2>1, <2>2 DEF PushDone, Idle
  <2>3. CASE GetSubscribers(<<c, x>>)
    <3>1. CASE push' = [push EXCEPT ![<<c, x>>] = Idle]
      BY <1>1, <2>1, <3>1, Names
    <3>2. CASE push' = [push EXCEPT ![<<c, x>>].step = "send", ![<<c, x>>].todo = subs]
      BY <1>1, <1>4, <2>1, <3>2 DEF Push
    <3> QED BY <2>3, <3>1, <3>2 DEF GetSubscribers
  <2>4. ASSUME NEW w \in Watcher, PushTo(<<c, x>>, w) PROVE q.status = push[<<c, x>>].status
    BY <1>1, <1>4, <2>1, <2>4 DEF PushTo, Push
  <2> QED BY <2>2, <2>3, <2>4 DEF Broadcast
<1>6. InTurn'
  <2>1. \A d \in Conn : \A y \in Proc : <<d, y>> # <<c, x>> => push'[<<d, y>>] = push[<<d, y>>]
    BY <1>1, <1>3
  <2>2. push'[<<c, x>>] = q
    BY <1>1, <1>3
  <2>3. {"task", "cleanup"} = Proc
    BY DEF Proc
  <2>4. \A d \in Conn : conn'[d] = "off" => push'[<<d, "task">>].step = "idle"
    BY <1>1, <1>2, <1>4, <2>1, <2>3 DEF InTurn
  <2>5. \A d \in Conn : conn'[d] = "on" => push'[<<d, "cleanup">>].step = "idle"
    BY <1>1, <1>2, <1>4, <2>1, <2>3 DEF InTurn
  <2>6. \A d \in Conn : push'[<<d, "cleanup">>].step # "idle" => push'[<<d, "cleanup">>].status = "offline"
    BY <1>1, <1>4, <1>5, <2>1, <2>2, <2>3 DEF InTurn
  <2> QED BY <1>1, <1>2, <2>4, <2>5, <2>6 DEF InTurn
<1>7. ASSUME Gone' PROVE /\ Read' # "offline" => \E d \in Conn : push'[<<d, "cleanup">>].step = "zero"
                         /\ \A w \in Watcher \ Subscribing :
                               shown'[w] # "offline" => w \in unpushed' \/ \E d \in Conn : Telling(d, w)'
  <2>1. Gone /\ Read' = Read
    BY <1>2, <1>7 DEF Gone, Live, Read
  <2>2. x = "cleanup"
    <3>1. conn[c] = "off"
      BY <2>1 DEF Gone, Live, UsualInv, TypeOK
    <3> QED BY <1>1, <1>4, <3>1 DEF InTurn, Proc
  <2>3. push[<<c, "cleanup">>].status = "offline"
    BY <1>1, <1>4, <2>2 DEF InTurn
  <2>4. \A d \in Conn : d # c => push'[<<d, "cleanup">>] = push[<<d, "cleanup">>]
    BY <1>1, <1>3
  <2>5. Read' # "offline" => \E d \in Conn : push'[<<d, "cleanup">>].step = "zero"
    BY <1>1, <1>4, <2>1, <2>2, <2>4 DEF OnItsWay
  <2>6. ASSUME NEW w \in Watcher \ Subscribing, shown'[w] # "offline", w \notin unpushed'
        PROVE  \E d \in Conn : Telling(d, w)'
    <3>1. shown[w] # "offline"
      BY <1>1, <2>2, <2>3, <2>6 DEF Broadcast, GetSubscribers, PushDone, PushTo
    <3>2. w \notin unpushed
      <4>1. ASSUME NEW v \in Watcher, PushTo(<<c, x>>, v), w \in unpushed PROVE FALSE
        <5>1. v = w /\ shown' = [shown EXCEPT ![w] = "offline"]
          BY <2>2, <2>3, <2>6, <4>1 DEF PushTo, Missed
        <5> QED BY <1>1, <2>6, <5>1
      <4> QED BY <2>6, <4>1 DEF Broadcast, GetSubscribers, PushDone, Missed
    <3>3. PICK d \in Conn : Telling(d, w)
      BY <1>1, <2>1, <3>1, <3>2 DEF OnItsWay
    <3>4. d = c => Telling(c, w)'
      <4> SUFFICES ASSUME d = c PROVE Telling(c, w)'
        OBVIOUS
      <4>1. CASE GetSubscribers(<<c, x>>)
        <5>1. w \in subs
          BY <1>1 DEF InTurn
        <5>2. push' = [push EXCEPT ![<<c, "cleanup">>].step = "send", ![<<c, "cleanup">>].todo = subs]
          BY <2>2, <2>3, <2>6, <4>1, <5>1 DEF GetSubscribers, Missed
        <5>3. push'[<<c, "cleanup">>].step = "send" /\ push'[<<c, "cleanup">>].todo = subs
          BY <1>1, <5>2 DEF Push
        <5> QED BY <5>1, <5>3 DEF Telling
      <4>2. CASE PushDone(<<c, x>>)
        BY <2>2, <3>3, <4>2 DEF PushDone, Telling
      <4>3. ASSUME NEW v \in Watcher, PushTo(<<c, x>>, v) PROVE Telling(c, w)'
        <5>1. push' = [push EXCEPT ![<<c, "cleanup">>].todo = @ \ {v}] /\ push[<<c, "cleanup">>].step = "send"
          BY <2>2, <4>3 DEF PushTo
        <5>2. v # w
          BY <1>1, <2>2, <2>3, <2>6, <4>3 DEF PushTo, Missed
        <5>3. push'[<<c, "cleanup">>].step = "send" /\ push'[<<c, "cleanup">>].todo = push[<<c, "cleanup">>].todo \ {v}
          BY <1>1, <5>1 DEF Push
        <5> QED BY <3>3, <5>1, <5>2, <5>3 DEF Telling
      <4> QED BY <4>1, <4>2, <4>3 DEF Broadcast
    <3>5. d # c => Telling(d, w)'
      BY <2>4, <3>3 DEF Telling
    <3> QED BY <3>4, <3>5
  <2> QED BY <2>5, <2>6
<1> QED BY <1>6, <1>7 DEF OnItsWay

LEMMA WatcherStep ==
    ASSUME UsualInv, (\E w \in Watcher : Watch(w)) \/ Expire \/ UNCHANGED vars
    PROVE  InTurn' /\ OnItsWay'
<1>1. InTurn /\ OnItsWay /\ joining \in [Watcher -> {"no", "read"} \cup Shown] /\ shown \in [Watcher -> Shown]
  BY DEF UsualInv, TypeOK
<1>2. UNCHANGED <<conn, push, lost, unpushed>>
  BY DEF Watch, Subscribe, ReadInitial, SendInitial, Unsubscribe, Expire, vars
<1>3. row' = row \/ row' = Absent
  BY DEF Watch, Subscribe, ReadInitial, SendInitial, Unsubscribe, Expire, vars
<1>4. Gone' = Gone /\ (Read' = Read \/ Read' = "offline")
  BY <1>2, <1>3 DEF Gone, Live, Read, Absent
<1>5. \A w \in Watcher \ Subscribing : (w \in subs)' = (w \in subs) /\ joining'[w] = joining[w] /\ shown'[w] = shown[w]
  <2>1. ASSUME NEW v \in Watcher, Watch(v)
        PROVE  \A w \in Watcher \ Subscribing : (w \in subs)' = (w \in subs) /\ joining'[w] = joining[w] /\ shown'[w] = shown[w]
    <3>1. v \in Subscribing
      <4>1. v \notin Subscribing => joining[v] = "no"
        BY <1>1 DEF InTurn
      <4> QED BY <2>1, <4>1 DEF Watch, Subscribe, ReadInitial, SendInitial, Unsubscribe, Shown
    <3> QED BY <1>1, <2>1, <3>1 DEF Watch, Subscribe, ReadInitial, SendInitial, Unsubscribe
  <2> QED BY <2>1 DEF Expire, vars
<1>6. InTurn'
  BY <1>1, <1>2, <1>5 DEF InTurn
<1>7. OnItsWay'
  BY <1>1, <1>2, <1>4, <1>5 DEF OnItsWay, Telling
<1> QED BY <1>6, <1>7

\* tracker.rs, broadcast.rs, websocket.rs: when no server crashes, mark_offline does not
\* fail and no task outlives its socket, then whatever else fails or expires, and in any
\* order of the steps of any number of connections and watchers, a user whose last handler
\* is done is stored as offline, and that is what every standing watcher was sent last,
\* but for those whom a push of it failed to reach since the user was last there.
THEOREM GoneStaysKnown == PartsSpec => []GoneIsKnownUsually
<1> DEFINE Inv == TypeOK /\ NeverOvercounted /\ (weather = "usual" => InTurn /\ OnItsWay)
<1>1. PartsInit => Inv
  BY UsualInit DEF PartsInit, UsualInv
<1>2. Inv /\ [PartsNext]_partsVars => Inv'
  <2> SUFFICES ASSUME Inv, [PartsNext]_partsVars PROVE Inv'
    OBVIOUS
  <2>1. MCNext \/ UNCHANGED MCvars
    BY DEF PartsNext, partsVars
  <2>2. [Next]_vars /\ weather' = weather
    BY <2>1, UsualIsNext DEF MCNext, MCvars
  <2>3. TypeOK' /\ NeverOvercounted'
    BY <2>2, PushStep, RestStep, CountStep DEF TypeOK, PushOK, RestOK
  <2>4. ASSUME weather = "usual" PROVE InTurn' /\ OnItsWay'
    <3>1. UsualInv
      BY <2>4 DEF UsualInv
    <3>2. Usual!Next \/ UNCHANGED vars
      BY <2>1, <2>4 DEF MCNext, MCvars
    <3>3. ASSUME NEW p \in Conn \X Proc, Broadcast(p) PROVE InTurn' /\ OnItsWay'
      <4>1. PICK c \in Conn, x \in Proc : p = <<c, x>>
        OBVIOUS
      <4> QED BY <3>1, <3>3, <4>1, BroadcastStep
    <3>4. CASE Usual!Next
      BY <3>1, <3>3, <3>4, UsualSteps, ActorStep, WatcherStep
    <3> QED BY <3>1, <3>2, <3>4, WatcherStep
  <2> QED BY <2>2, <2>3, <2>4
<1>3. Inv => GoneIsKnownUsually
  <2> SUFFICES ASSUME Inv, weather = "usual", Settled, Gone
      PROVE  Read = "offline" /\ \A w \in subs \ (Subscribing \cup unpushed) : shown[w] = "offline"
    BY DEF GoneIsKnownUsually, OfflineWhenGoneUsually, OfflineIsPushedUsually, OfflineWhenGone, OfflineIsPushed
  <2>1. \A c \in Conn : push[<<c, "cleanup">>].step = "idle"
    BY Names DEF Settled
  <2>2. subs \subseteq Watcher
    BY DEF TypeOK
  <2> QED BY <2>1, <2>2 DEF OnItsWay, Telling
<1> QED BY <1>1, <1>2, <1>3, PTL DEF PartsSpec

(***************************************************************************)
(* Blocking                                                                *)
(***************************************************************************)
BlockCall == {[pc |-> "idle"]} \cup [pc : {"mine", "theirs", "done"}, pair : Blocked!Pairs, ok : BOOLEAN]
SendCall ==
    {[pc |-> "idle"]} \cup
    [pc : {"check", "blocked", "route", "refused", "done"}, sender : People, to : SUBSET People, got : SUBSET People]
ClearCall == {[pc |-> "idle"]} \cup [pc : {"delete", "done"}, user : People, targets : SUBSET People]

\* The types, with those of the calls on their way.
BlockType ==
    /\ blocks \subseteq Blocked!Pairs
    /\ subscribers \in [People -> SUBSET People] /\ subscriptions \in [People -> SUBSET People]
    /\ block \in [Blocks -> BlockCall] /\ send \in [Sends -> SendCall] /\ clearing \in [Clears -> ClearCall]
    /\ unblocks \in 0..MaxUnblocks
    /\ open \in [Sends -> SUBSET People] /\ apart \subseteq {Blocked!Ends(p) : p \in Blocked!Pairs}
    /\ mixed \in BOOLEAN

\* Who is not blocked now is in the history of the message, and so is everybody
\* it is routed to once the blocks have been looked at.
SendInv ==
    \A m \in Sends : send[m].pc # "idle" =>
       /\ \A v \in People : ~Blocked!IsMutuallyBlocked(send[m].sender, v) => v \in open[m]
       /\ send[m].got \subseteq open[m]
       /\ send[m].pc = "route" => send[m].to \subseteq open[m]

\* Nobody follows himself; between its two unsubscribes an undisturbed block has
\* already taken the blocker off the other's list.
ApartInv ==
    /\ \A u \in People : u \notin subscribers[u]
    /\ \A c \in Blocks : block[c].pc = "theirs" /\ block[c].ok => block[c].pair[1] \notin subscribers[block[c].pair[2]]
    /\ \A pair \in apart : \A u, t \in pair : u \notin subscribers[t]

\* A clearing knows every subscription its user has now, unless it was mixed up.
ClearInv ==
    ~mixed => \A c \in Clears : clearing[c].pc = "delete" => subscriptions[clearing[c].user] \subseteq clearing[c].targets

BlockInv == BlockType /\ SendInv /\ ApartInv /\ ClearInv /\ Blocked!SubscriptionsAgree

LEMMA BlockInit == Blocked!Init => BlockInv
<1> SUFFICES ASSUME Blocked!Init PROVE BlockInv
  OBVIOUS
<1> USE DEF Blocked!Init
<1>1. BlockType
  <2>1. [pc |-> "idle"] \in BlockCall /\ [pc |-> "idle"] \in SendCall /\ [pc |-> "idle"] \in ClearCall
    BY DEF BlockCall, SendCall, ClearCall
  <2>2. 0 \in 0..MaxUnblocks
    BY PeopleAssumption
  <2> QED BY <2>1, <2>2 DEF BlockType
<1>2. SendInv /\ ApartInv /\ ClearInv /\ Blocked!SubscriptionsAgree
  BY DEF SendInv, ApartInv, ClearInv, Blocked!SubscriptionsAgree
<1> QED BY <1>1, <1>2 DEF BlockInv

LEMMA BlockFacts == BlockInv => Blocked!TypeOK /\ Blocked!BlockHolds
BY DEF BlockInv, BlockType, SendInv, ApartInv, Blocked!TypeOK, Blocked!BlockHolds, Blocked!BlockSeparates,
       BlockCall, SendCall, ClearCall

(* What a removed and an added subscription leave, in either direction.    *)
LEMMA KeysRemoved ==
    ASSUME BlockType, NEW u \in People, NEW t \in People, Blocked!UnsubscribeKeys(u, t)
    PROVE  /\ subscribers' \in [People -> SUBSET People] /\ subscriptions' \in [People -> SUBSET People]
           /\ \A v, w \in People : /\ v \in subscribers'[w] <=> v \in subscribers[w] /\ <<v, w>> # <<u, t>>
                                   /\ w \in subscriptions'[v] <=> w \in subscriptions[v] /\ <<v, w>> # <<u, t>>
BY DEF BlockType, Blocked!UnsubscribeKeys

LEMMA KeysAdded ==
    ASSUME BlockType, NEW u \in People, NEW t \in People, Blocked!Subscribe(u, t)
    PROVE  /\ subscribers' \in [People -> SUBSET People] /\ subscriptions' \in [People -> SUBSET People]
           /\ \A v, w \in People : /\ v \in subscribers'[w] <=> v \in subscribers[w] \/ <<v, w>> = <<u, t>>
                                   /\ w \in subscriptions'[v] <=> w \in subscriptions[v] \/ <<v, w>> = <<u, t>>
BY DEF BlockType, Blocked!Subscribe

\* Two different people, the ends of the pair.
LEMMA PairFacts ==
    ASSUME NEW p \in Blocked!Pairs
    PROVE  p[1] \in People /\ p[2] \in People /\ p[1] # p[2] /\ Blocked!Ends(p) = {p[1], p[2]}
BY DEF Blocked!Pairs, Blocked!Ends

\* Fewer subscriptions keep apart who is apart.
LEMMA FewerApart ==
    ASSUME BlockType, ApartInv, subscribers' \in [People -> SUBSET People],
           \A w \in People : subscribers'[w] \subseteq subscribers[w],
           \A c \in Blocks : block[c].pc # "idle" => block[c].pair \in Blocked!Pairs
    PROVE  /\ \A u \in People : u \notin subscribers'[u]
           /\ \A c \in Blocks : block[c].pc = "theirs" /\ block[c].ok => block[c].pair[1] \notin subscribers'[block[c].pair[2]]
           /\ \A pair \in apart : \A u, t \in pair : u \notin subscribers'[t]
<1>1. \A pair \in apart : pair \subseteq People
  BY PairFacts DEF BlockType
<1> QED BY <1>1, PairFacts DEF ApartInv

-----------------------------------------------------------------------------
(* Blocks: one call, then an unblock                                       *)
LEMMA BlockCallStep ==
    ASSUME BlockInv, NEW c \in Blocks,
           \/ \E p \in Blocked!Pairs : Blocked!BlockUser(c, p)
           \/ Blocked!UnsubscribeMine(c)
           \/ Blocked!UnsubscribeTheirs(c)
    PROVE  BlockInv'
<1> USE DEF BlockInv
<1>1. ASSUME NEW p \in Blocked!Pairs, Blocked!BlockUser(c, p) PROVE BlockInv'
  <2> USE <1>1 DEF Blocked!BlockUser, Blocked!keyVars
  <2>1. BlockType'
    BY DEF BlockType, BlockCall
  <2>2. SendInv'
    BY DEF SendInv, Blocked!IsMutuallyBlocked
  <2>3. ApartInv'
    BY DEF ApartInv, BlockType
  <2>4. ClearInv' /\ Blocked!SubscriptionsAgree'
    BY DEF ClearInv, Blocked!SubscriptionsAgree
  <2> QED BY <2>1, <2>2, <2>3, <2>4
<1>2. ASSUME block[c].pc \in {"mine", "theirs"} PROVE block[c].pair \in Blocked!Pairs /\ block[c].ok \in BOOLEAN
  BY <1>2 DEF BlockType, BlockCall
<1> DEFINE p == block[c].pair
<1>3. ASSUME NEW u \in People, NEW t \in People, Blocked!UnsubscribeKeys(u, t),
             UNCHANGED <<mixed, clearing>>
      PROVE  ClearInv' /\ Blocked!SubscriptionsAgree'
  BY <1>3, KeysRemoved DEF ClearInv, Blocked!SubscriptionsAgree, BlockType, ClearCall
<1>4. ASSUME UNCHANGED <<subscribers, subscriptions, mixed, clearing>> PROVE ClearInv' /\ Blocked!SubscriptionsAgree'
  BY <1>4 DEF ClearInv, Blocked!SubscriptionsAgree
<1>5. \A b \in Blocks : block[b].pc # "idle" => block[b].pair \in Blocked!Pairs
  BY DEF BlockType, BlockCall
<1>6. ASSUME Blocked!UnsubscribeMine(c) PROVE BlockInv'
  <2> USE <1>6 DEF Blocked!UnsubscribeMine
  <2>1. /\ p \in Blocked!Pairs /\ block[c].pc = "mine" /\ block'[c].pair = p /\ block'[c].pc = "theirs"
        /\ \A b \in Blocks \ {c} : block'[b] = block[b]
        /\ block' \in [Blocks -> BlockCall]
    BY <1>2 DEF BlockType, BlockCall
  <2>2. \/ Blocked!UnsubscribeKeys(p[1], p[2])
        \/ ~block'[c].ok /\ UNCHANGED <<subscribers, subscriptions>>
    BY <1>2 DEF BlockType, BlockCall
  <2>3. p[1] \in People /\ p[2] \in People
    BY <2>1, PairFacts
  <2>4. BlockType'
    BY <2>1, <2>2, <2>3, KeysRemoved DEF BlockType
  <2>5. SendInv'
    BY DEF SendInv, Blocked!IsMutuallyBlocked
  <2>6. ApartInv'
    <3>1. CASE UNCHANGED <<subscribers, subscriptions>> /\ ~block'[c].ok
      BY <2>1, <3>1 DEF ApartInv
    <3>2. CASE Blocked!UnsubscribeKeys(p[1], p[2])
      <4>1. /\ subscribers' \in [People -> SUBSET People] /\ \A w \in People : subscribers'[w] \subseteq subscribers[w]
            /\ p[1] \notin subscribers'[p[2]]
        BY <2>3, <3>2, KeysRemoved
      <4> QED BY <1>5, <2>1, <4>1, FewerApart DEF ApartInv
    <3> QED BY <2>2, <3>1, <3>2
  <2>7. ClearInv' /\ Blocked!SubscriptionsAgree'
    BY <1>3, <1>4, <2>2, <2>3
  <2> QED BY <2>4, <2>5, <2>6, <2>7
<1>7. ASSUME Blocked!UnsubscribeTheirs(c) PROVE BlockInv'
  <2> USE <1>7 DEF Blocked!UnsubscribeTheirs
  <2>1. /\ p \in Blocked!Pairs /\ block[c].pc = "theirs" /\ block'[c].pc = "done"
        /\ \A b \in Blocks \ {c} : block'[b] = block[b]
        /\ block' \in [Blocks -> BlockCall]
    BY <1>2 DEF BlockType, BlockCall
  <2>2. \/ Blocked!UnsubscribeKeys(p[2], p[1]) /\ apart' = IF block[c].ok THEN apart \cup {Blocked!Ends(p)} ELSE apart
        \/ UNCHANGED <<subscribers, subscriptions, apart>>
    OBVIOUS
  <2>3. p[1] \in People /\ p[2] \in People /\ p[1] # p[2] /\ Blocked!Ends(p) = {p[1], p[2]}
    BY <2>1, PairFacts
  <2>4. BlockType'
    <3>1. apart' \subseteq apart \cup {Blocked!Ends(p)}
      BY <2>2
    <3>2. apart' \subseteq {Blocked!Ends(q) : q \in Blocked!Pairs}
      BY <2>1, <3>1 DEF BlockType
    <3>3. subscribers' \in [People -> SUBSET People] /\ subscriptions' \in [People -> SUBSET People]
      BY <2>2, <2>3, KeysRemoved DEF BlockType
    <3> QED BY <2>1, <3>2, <3>3 DEF BlockType
  <2>5. SendInv'
    BY DEF SendInv, Blocked!IsMutuallyBlocked
  <2>6. ApartInv'
    <3>1. CASE UNCHANGED <<subscribers, subscriptions, apart>>
      BY <2>1, <3>1 DEF ApartInv
    <3>2. CASE Blocked!UnsubscribeKeys(p[2], p[1]) /\ apart' = IF block[c].ok THEN apart \cup {Blocked!Ends(p)} ELSE apart
      <4>1. /\ subscribers' \in [People -> SUBSET People] /\ \A w \in People : subscribers'[w] \subseteq subscribers[w]
            /\ p[2] \notin subscribers'[p[1]]
        BY <2>3, <3>2, KeysRemoved
      <4>2. block[c].ok => \A u, t \in Blocked!Ends(p) : u \notin subscribers'[t]
        BY <1>5, <2>1, <2>3, <4>1, FewerApart
      <4> QED BY <1>5, <2>1, <3>2, <4>1, <4>2, FewerApart DEF ApartInv
    <3> QED BY <2>2, <3>1, <3>2
  <2>7. ClearInv' /\ Blocked!SubscriptionsAgree'
    BY <1>3, <1>4, <2>2, <2>3
  <2> QED BY <2>4, <2>5, <2>6, <2>7
<1> QED BY <1>1, <1>6, <1>7

LEMMA UnblockStep == ASSUME BlockInv, NEW p \in Blocked!Pairs, Blocked!UnblockUser(p) PROVE BlockInv'
<1> USE DEF BlockInv, Blocked!UnblockUser, Blocked!keyVars
<1>1. BlockType'
  BY PeopleAssumption DEF BlockType
<1>2. SendInv'
  BY DEF SendInv, Blocked!IsMutuallyBlocked, BlockType
<1>3. ApartInv' /\ ClearInv' /\ Blocked!SubscriptionsAgree'
  BY DEF ApartInv, ClearInv, Blocked!SubscriptionsAgree
<1> QED BY <1>1, <1>2, <1>3

-----------------------------------------------------------------------------
(* A message only moves its own record and its history.                    *)
LEMMA SendStep == ASSUME BlockInv, NEW m \in Sends, Blocked!Send(m) PROVE BlockInv'
<1> USE DEF BlockInv
<1>1. UNCHANGED <<blocks, subscribers, subscriptions, mixed, block, clearing, unblocks, apart>>
  BY DEF Blocked!Send, Blocked!BeginSend, Blocked!DeliverTo, Blocked!CheckDmBlock, Blocked!ReadBlocked, Blocked!keyVars
<1>2. ApartInv' /\ ClearInv' /\ Blocked!SubscriptionsAgree'
  BY <1>1 DEF ApartInv, ClearInv, Blocked!SubscriptionsAgree
<1>3. ASSUME NEW u \in People, Blocked!BeginSend(m, u) PROVE BlockType' /\ SendInv'
  BY <1>1, <1>3 DEF Blocked!BeginSend, BlockType, SendCall, SendInv, Blocked!IsMutuallyBlocked, Blocked!GetAllBlockedUserIds
<1>4. ASSUME NEW u \in People, Blocked!DeliverTo(m, u) PROVE BlockType' /\ SendInv'
  <2> USE <1>1, <1>4 DEF Blocked!DeliverTo
  <2>1. BlockType'
    <3> DEFINE others == send[m].to \ {u}
    <3>1. send[m] \in [pc : {"check", "blocked", "route", "refused", "done"}, sender : People, to : SUBSET People, got : SUBSET People]
      BY DEF BlockType, SendCall
    <3>2. send' = [send EXCEPT ![m] = [send[m] EXCEPT !.to = others, !.got = send[m].got \cup {u},
                                                      !.pc = IF others = {} THEN "done" ELSE "route"]]
      OBVIOUS
    <3>3. [send[m] EXCEPT !.to = others, !.got = send[m].got \cup {u}, !.pc = IF others = {} THEN "done" ELSE "route"] \in SendCall
      BY <3>1 DEF SendCall
    <3>4. PICK r \in SendCall : send' = [send EXCEPT ![m] = r]
      BY <3>2, <3>3
    <3>5. send' \in [Sends -> SendCall]
      BY <3>4 DEF BlockType
    <3> QED BY <3>5 DEF BlockType
  <2>2. SendInv'
    BY DEF BlockType, SendCall, SendInv, Blocked!IsMutuallyBlocked
  <2> QED BY <2>1, <2>2
<1>5. ASSUME Blocked!CheckDmBlock(m) PROVE BlockType' /\ SendInv'
  <2> USE <1>1, <1>5 DEF Blocked!CheckDmBlock
  <2>1. BlockType'
    <3>1. send[m] \in [pc : {"check", "blocked", "route", "refused", "done"}, sender : People, to : SUBSET People, got : SUBSET People]
      BY DEF BlockType, SendCall
    <3>2. PICK pc \in {"refused", "blocked"} : send' = [send EXCEPT ![m].pc = pc]
      OBVIOUS
    <3>3. [send[m] EXCEPT !.pc = pc] \in SendCall
      BY <3>1 DEF SendCall
    <3> QED BY <3>2, <3>3 DEF BlockType
  <2>2. /\ send'[m].pc \in {"refused", "blocked"} /\ send'[m].sender = send[m].sender /\ send'[m].got = send[m].got
        /\ open[m] \subseteq open'[m] /\ send[m].pc = "check"
        /\ \A n \in Sends \ {m} : send'[n] = send[n] /\ open'[n] = open[n]
    BY DEF BlockType, SendCall
  <2>3. SendInv'
    BY <2>2 DEF SendInv, Blocked!IsMutuallyBlocked
  <2> QED BY <2>1, <2>3
<1>6. ASSUME Blocked!ReadBlocked(m) PROVE BlockType' /\ SendInv'
  BY <1>1, <1>6 DEF Blocked!ReadBlocked, BlockType, SendCall, SendInv, Blocked!IsMutuallyBlocked, Blocked!GetAllBlockedUserIds
<1> QED BY <1>2, <1>3, <1>4, <1>5, <1>6 DEF Blocked!Send

-----------------------------------------------------------------------------
(* The subscriptions, and the calls that clear them                        *)
LEMMA SubscribeStep == ASSUME BlockInv, NEW u \in People, NEW t \in People, Blocked!Subscribe(u, t) PROVE BlockInv'
<1> USE DEF BlockInv
<1>1. /\ block' \in [Blocks -> BlockCall]
      /\ \A c \in Blocks : /\ block'[c].pc = block[c].pc
                           /\ block[c].pc # "idle" => block[c].pair \in Blocked!Pairs /\ block'[c].pair = block[c].pair
                           /\ block[c].pc # "idle" /\ Blocked!Ends(block[c].pair) = {u, t} => block'[c].ok = FALSE
                           /\ Blocked!Ends(block[c].pair) # {u, t} => block'[c] = block[c]
  <2> DEFINE Touched(c) == block[c].pc # "idle" /\ Blocked!Ends(block[c].pair) = {u, t}
  <2>1. block' = [c \in Blocks |-> IF Touched(c) THEN [block[c] EXCEPT !.ok = FALSE] ELSE block[c]]
    BY DEF Blocked!Subscribe
  <2> SUFFICES ASSUME NEW c \in Blocks
               PROVE  /\ block'[c] \in BlockCall /\ block'[c].pc = block[c].pc
                      /\ block[c].pc # "idle" => block[c].pair \in Blocked!Pairs /\ block'[c].pair = block[c].pair
                      /\ Touched(c) => block'[c].ok = FALSE
                      /\ ~Touched(c) => block'[c] = block[c]
    BY <2>1
  <2>2. block[c] \in BlockCall
    BY DEF BlockType
  <2>3. CASE Touched(c)
    <3>1. block'[c] = [block[c] EXCEPT !.ok = FALSE]
      BY <2>1, <2>3
    <3>2. block[c].pc # "idle"
      BY <2>3
    <3>3. block[c] \in [pc : {"mine", "theirs", "done"}, pair : Blocked!Pairs, ok : BOOLEAN]
      BY <2>2, <3>2 DEF BlockCall
    <3> HIDE DEF Touched
    <3> QED BY <2>3, <3>1, <3>2, <3>3 DEF BlockCall
  <2>4. CASE ~Touched(c)
    <3>1. block'[c] = block[c]
      BY <2>1, <2>4
    <3> HIDE DEF Touched
    <3> QED BY <2>2, <2>4, <3>1 DEF BlockCall
  <2> QED BY <2>3, <2>4
<1>2. BlockType'
  BY <1>1, KeysAdded DEF BlockType, Blocked!Subscribe
<1>3. SendInv'
  BY DEF SendInv, Blocked!IsMutuallyBlocked, Blocked!Subscribe
<1>4. ApartInv'
  <2>1. \A v \in People : v \notin subscribers'[v]
    BY KeysAdded DEF ApartInv, Blocked!Subscribe
  <2>2. ASSUME NEW c \in Blocks, block'[c].pc = "theirs", block'[c].ok
        PROVE  block'[c].pair[1] \notin subscribers'[block'[c].pair[2]]
    <3> DEFINE p == block[c].pair
    <3>0. block[c].pc = "theirs" /\ block[c].pc # "idle"
      BY <1>1, <2>2
    <3>1. block[c].ok /\ block'[c].pair = p /\ p \in Blocked!Pairs /\ Blocked!Ends(p) # {u, t}
      <4>1. p \in Blocked!Pairs /\ block'[c].pair = p
        BY <1>1, <3>0
      <4>2. Blocked!Ends(p) # {u, t}
        BY <1>1, <2>2, <3>0
      <4>3. block'[c] = block[c]
        BY <1>1, <4>2
      <4> QED BY <2>2, <4>1, <4>2, <4>3
    <3>2. p[1] \in People /\ p[2] \in People /\ <<p[1], p[2]>> # <<u, t>>
      BY <3>1, PairFacts
    <3>3. p[1] \notin subscribers[p[2]]
      BY <3>0, <3>1 DEF ApartInv
    <3> QED BY <3>1, <3>2, <3>3, KeysAdded
  <2>3. ASSUME NEW pair \in apart', NEW v \in pair, NEW w \in pair PROVE v \notin subscribers'[w]
    <3>1. PICK p \in Blocked!Pairs : pair = Blocked!Ends(p)
      BY DEF BlockType, Blocked!Subscribe
    <3>2. v \in People /\ w \in People /\ (v # w => pair = {v, w})
      BY <3>1, PairFacts
    <3> QED BY <2>1, <3>2, KeysAdded DEF ApartInv, Blocked!Subscribe
  <2> QED BY <2>1, <2>2, <2>3 DEF ApartInv
<1>5. ClearInv'
  <2> SUFFICES ASSUME ~mixed', NEW c \in Clears, clearing[c].pc = "delete"
               PROVE  subscriptions'[clearing[c].user] \subseteq clearing[c].targets
    BY DEF ClearInv, Blocked!Subscribe
  <2>1. clearing[c].user # u /\ ~mixed
    BY DEF BlockType, Blocked!Subscribe
  <2>3. clearing[c].user \in People
    BY DEF BlockType, ClearCall
  <2>2. subscriptions'[clearing[c].user] = subscriptions[clearing[c].user]
    BY <2>1, <2>3 DEF BlockType, Blocked!Subscribe
  <2> QED BY <2>1, <2>2 DEF ClearInv
<1>6. Blocked!SubscriptionsAgree'
  BY KeysAdded DEF Blocked!SubscriptionsAgree, BlockType, Blocked!Subscribe
<1> QED BY <1>6, <1>2, <1>3, <1>4, <1>5

LEMMA UnsubscribeStep ==
    ASSUME BlockInv, NEW u \in People, NEW t \in People, Blocked!Unsubscribe(u, t) PROVE BlockInv'
<1> USE DEF BlockInv, Blocked!Unsubscribe, Blocked!UnsubscribeKeys
<1>1. BlockType'
  BY DEF BlockType
<1>2. SendInv'
  BY DEF SendInv, Blocked!IsMutuallyBlocked
<1>3. ApartInv'
  BY DEF ApartInv, BlockType
<1>4. ClearInv' /\ Blocked!SubscriptionsAgree'
  BY DEF ClearInv, Blocked!SubscriptionsAgree, BlockType
<1> QED BY <1>1, <1>2, <1>3, <1>4

LEMMA ClearStep == ASSUME BlockInv, NEW c \in Clears, Blocked!Clear(c) PROVE BlockInv'
<1> USE DEF BlockInv
<1>1. UNCHANGED <<blocks, block, send, unblocks, open, apart, mixed>>
  BY DEF Blocked!Clear, Blocked!ReadSubscriptions, Blocked!DeleteSubscriptions, Blocked!ClearFails, Blocked!keyVars
<1>2. SendInv'
  BY <1>1 DEF SendInv, Blocked!IsMutuallyBlocked
<1>3. ASSUME NEW u \in People, Blocked!ReadSubscriptions(c, u) PROVE BlockInv'
  <2> USE <1>1, <1>3 DEF Blocked!ReadSubscriptions, Blocked!keyVars
  <2>1. BlockType'
    BY DEF BlockType, ClearCall
  <2>2. ApartInv' /\ ClearInv' /\ Blocked!SubscriptionsAgree'
    BY DEF ApartInv, ClearInv, Blocked!SubscriptionsAgree, BlockType
  <2> QED BY <1>2, <2>1, <2>2
<1>4. ASSUME Blocked!DeleteSubscriptions(c) PROVE BlockInv'
  <2> USE <1>1, <1>4 DEF Blocked!DeleteSubscriptions
  <2> DEFINE u == clearing[c].user
  <2>1. u \in People /\ clearing[c].pc = "delete" /\ clearing'[c].pc = "done" /\ \A d \in Clears \ {c} : clearing'[d] = clearing[d]
    BY DEF BlockType, ClearCall
  <2>2. BlockType'
    BY <2>1 DEF BlockType, ClearCall
  <2>3. ApartInv'
    BY <2>1 DEF ApartInv, BlockType, BlockCall, Blocked!Pairs, Blocked!Ends
  <2>4. ClearInv'
    BY <2>1 DEF ClearInv, BlockType
  <2>5. Blocked!SubscriptionsAgree'
    BY <2>1 DEF ClearInv, Blocked!SubscriptionsAgree, BlockType
  <2> QED BY <1>2, <2>2, <2>3, <2>4, <2>5
<1>5. ASSUME Blocked!ClearFails(c) PROVE BlockInv'
  <2> USE <1>1, <1>5 DEF Blocked!ClearFails, Blocked!keyVars
  <2>1. BlockType'
    BY DEF BlockType, ClearCall
  <2>2. ApartInv' /\ ClearInv' /\ Blocked!SubscriptionsAgree'
    BY DEF ApartInv, ClearInv, Blocked!SubscriptionsAgree, BlockType
  <2> QED BY <1>2, <2>1, <2>2
<1> QED BY <1>3, <1>4, <1>5 DEF Blocked!Clear

LEMMA KeyStep == ASSUME BlockInv, NEW u \in People, Blocked!KeyExpires(u) PROVE BlockInv'
<1> USE DEF BlockInv, Blocked!KeyExpires
<1>1. BlockType'
  BY DEF BlockType
<1>2. SendInv'
  BY DEF SendInv, Blocked!IsMutuallyBlocked
<1>3. ApartInv'
  BY DEF ApartInv, BlockType, BlockCall, Blocked!Pairs, Blocked!Ends
<1>4. ClearInv' /\ Blocked!SubscriptionsAgree'
  BY DEF ClearInv, Blocked!SubscriptionsAgree
<1> QED BY <1>1, <1>2, <1>3, <1>4

LEMMA BlockStutter == BlockInv /\ UNCHANGED blockVars => BlockInv'
BY DEF BlockInv, BlockType, SendInv, ApartInv, ClearInv, Blocked!SubscriptionsAgree, Blocked!IsMutuallyBlocked, blockVars

\* blocking/service.rs, presence/tracker.rs: in any order of the steps of blocks,
\* unblocks, sends, subscriptions and clearings, whoever got a message was not blocked at
\* some moment of the call unless the rows could not be read; a block whose unsubscribes
\* worked ends the presence of each for the other until one subscribes again; and the two
\* sides of the subscriptions agree unless a key expired or one was made during a clearing.
THEOREM BlockAlwaysHolds == Blocked!Spec => [](Blocked!TypeOK /\ Blocked!BlockHolds)
<1>1. BlockInv /\ [Blocked!Next]_Blocked!blockVars => BlockInv'
  BY BlockCallStep, UnblockStep, SendStep, SubscribeStep, UnsubscribeStep, ClearStep, KeyStep, BlockStutter
     DEF Blocked!Next, Blocked!blockVars, blockVars
<1> QED BY BlockInit, <1>1, BlockFacts, PTL DEF Blocked!Spec

\* The same where messages, subscriptions and blocks run one at a time.
THEOREM BlocksKeepApart == PartsSpec => []BlockHolds
<1> DEFINE Inv == part \in BlockingParts => BlockInv
<1>1. PartsInit => Inv
  BY BlockInit DEF PartsInit
<1>2. Inv /\ [PartsNext]_partsVars => Inv'
  <2> SUFFICES ASSUME Inv, [PartsNext]_partsVars, part' \in BlockingParts PROVE BlockInv'
    OBVIOUS
  <2>1. part \in BlockingParts /\ (BlockingNext \/ UNCHANGED blockVars)
    BY DEF PartsNext, partsVars
  <2>2. BlockInv
    BY <2>1
  <2>3. ASSUME BlockingNext PROVE BlockInv'
    BY <2>2, <2>3, BlockCallStep, UnblockStep, SendStep, SubscribeStep, UnsubscribeStep, ClearStep, KeyStep, PeopleAssumption
       DEF BlockingNext
  <2> QED BY <2>1, <2>2, <2>3, BlockStutter
<1>3. Inv => BlockHolds
  BY BlockFacts DEF BlockHolds
<1> QED BY <1>1, <1>2, <1>3, PTL DEF PartsSpec

(***************************************************************************)
(* Erasure and export                                                      *)
(***************************************************************************)
Talks == {Things[t].conversation : t \in DOMAIN Things}
DemandState ==
    [pc : {"idle", "log", "erase", "commit", "profile", "conversations", "messages", "attachments",
           "completed", "failed", "over"},
     step : 1..8, found : SUBSET DOMAIN Things, count : {0} \cup {Account!Cardinality(S) : S \in SUBSET DOMAIN Things},
     todo : SUBSET Talks, present : SUBSET DOMAIN Things, undisturbed : BOOLEAN, cut : BOOLEAN]

AccountType ==
    /\ data \subseteq written /\ gone \subseteq written /\ written \subseteq DOMAIN Things
    /\ recalled \subseteq Account!OfKind("message") /\ left \subseteq Account!OfKind("membership")
    /\ drafting \subseteq DOMAIN Things
    /\ demand \in [DOMAIN Demands -> DemandState]
    /\ auditLog \in [DOMAIN Demands -> {"none", "processing", "completed", "failed"}]
    /\ hitches \in 0..MaxHitches

ErasePcs == {"erase", "commit"}
ExportPcs == {"profile", "conversations", "messages", "attachments"}

\* What a request has not reached yet is as it was at first; its kind decides where
\* it goes; a log entry is written and closed at its places.
DemandOk(r) ==
       /\ demand[r].pc \in {"idle", "log"} => demand[r].step = 1 /\ demand[r].found = {} /\ auditLog[r] = "none"
       /\ demand[r].pc \in ErasePcs => Demands[r] = "erase"
       /\ demand[r].pc \in ExportPcs => Demands[r] # "erase"
       /\ demand[r].pc \in {"profile", "conversations"} => demand[r].found = {}
       /\ demand[r].pc = "erase" => demand[r].step \in 1..7
       /\ demand[r].pc = "commit" => demand[r].step = 8
       /\ auditLog[r] = "completed" => demand[r].pc = "over"
       /\ demand[r].present \subseteq written /\ demand[r].found \subseteq written

\* What an erasure found there at its beginning and has neither collected nor
\* left to a later statement was recalled meanwhile, or is no longer there.
EraseOk(r) ==
    Demands[r] = "erase" =>
       /\ demand[r].pc \in ErasePcs =>
             \A t \in demand[r].present \cap data : t \notin recalled =>
                t \in demand[r].found \/ \E i \in demand[r].step..7 : Things[t].kind = Account!Kinds[i]
       /\ demand[r].pc = "completed" \/ auditLog[r] = "completed" => demand[r].present \cap data \subseteq recalled

\* A message is there, or on its way, only where the user is or was a member.
MemberInv ==
    /\ \A t \in drafting : Things[t].kind \in {"message", "attachment"}
    /\ \A t \in data \cup drafting : Things[t].kind = "message" =>
          \E m \in written : Things[m].kind = "membership" /\ Things[m].conversation = Things[t].conversation

\* An export that nothing disturbed has counted what is there, and has collected
\* what belongs to the conversations it has been through.
ExportOk(r) ==
    Demands[r] # "erase" /\ demand[r].undisturbed =>
       /\ demand[r].pc \in {"conversations", "messages", "attachments", "completed"} =>
             demand[r].count = Account!Cardinality(Account!Sent)
       /\ demand[r].pc = "messages" =>
             demand[r].found = {t \in Account!Sent : Things[t].conversation \notin demand[r].todo}
       /\ demand[r].pc \in {"attachments", "completed"} => demand[r].found \cap Account!OfKind("message") = Account!Sent

DemandInv == \A r \in DOMAIN Demands : DemandOk(r)
EraseInv == \A r \in DOMAIN Demands : EraseOk(r)
ExportInv == \A r \in DOMAIN Demands : ExportOk(r)

\* Nothing is lost but by leaving or a committed erasure.
KeptInv == written \ data \subseteq gone \cup left

AccountInv == AccountType /\ DemandInv /\ EraseInv /\ MemberInv /\ ExportInv /\ KeptInv /\ Account!LogIsClosed

LEMMA AccountInit == Account!Init => AccountInv
<1> SUFFICES ASSUME Account!Init PROVE AccountInv
  OBVIOUS
<1> USE ThingsAssumption, DemandsAssumption DEF Account!Init, Account!Requests
<1>1. Account!NoDemand \in DemandState /\ Account!NoDemand.pc = "idle" /\ Account!NoDemand.step = 1
      /\ Account!NoDemand.found = {} /\ Account!NoDemand.present = {}
  BY DEF Account!NoDemand, DemandState
<1>2. AccountType
  BY <1>1 DEF AccountType
<1>3. DemandInv /\ EraseInv /\ MemberInv /\ ExportInv
  BY <1>1 DEF DemandInv, DemandOk, EraseInv, EraseOk, MemberInv, ExportInv, ExportOk, ErasePcs, ExportPcs
<1>4. KeptInv /\ Account!LogIsClosed
  BY <1>1 DEF KeptInv, Account!LogIsClosed
<1> QED BY <1>2, <1>3, <1>4 DEF AccountInv

LEMMA AccountFacts == AccountInv => Account!TypeOK /\ Account!RequestsAreHonoured
<1> SUFFICES ASSUME AccountInv PROVE Account!TypeOK /\ Account!RequestsAreHonoured
  OBVIOUS
<1> USE DEF AccountInv
<1>1. Account!TypeOK
  BY DEF AccountType, Account!TypeOK, Account!Requests
<1>2. Account!ErasedOrKept
  BY DEF Account!ErasedOrKept, KeptInv, EraseInv, EraseOk, Account!Requests
<1>3. Account!ExportIsComplete
  <2> SUFFICES ASSUME NEW r \in DOMAIN Demands, Demands[r] = "export", demand[r].pc \in {"attachments", "completed"},
                      demand[r].undisturbed
               PROVE  Account!Cardinality(demand[r].found \cap Account!OfKind("message")) = demand[r].count
    BY DEF Account!ExportIsComplete, Account!Requests
  <2>1. Demands[r] # "erase"
    OBVIOUS
  <2>2. demand[r].found \cap Account!OfKind("message") = Account!Sent /\ demand[r].count = Account!Cardinality(Account!Sent)
    BY <2>1 DEF ExportInv, ExportOk
  <2> QED BY <2>2
<1> QED BY <1>1, <1>2, <1>3 DEF Account!RequestsAreHonoured

-----------------------------------------------------------------------------
(* The other calls                                                         *)

\* The requests are told that something changed, and keep the rest.
LEMMA DisturbedFacts ==
    ASSUME AccountType, demand' = Account!Disturbed
    PROVE  /\ demand' \in [DOMAIN Demands -> DemandState]
           /\ \A r \in DOMAIN Demands :
                 /\ demand'[r].pc = demand[r].pc /\ demand'[r].step = demand[r].step /\ demand'[r].found = demand[r].found
                 /\ demand'[r].present = demand[r].present /\ demand'[r].cut = demand[r].cut
                 /\ demand'[r].undisturbed = FALSE
<1> SUFFICES ASSUME NEW r \in DOMAIN Demands
             PROVE  /\ demand'[r] \in DemandState
                    /\ demand'[r].pc = demand[r].pc /\ demand'[r].step = demand[r].step /\ demand'[r].found = demand[r].found
                    /\ demand'[r].present = demand[r].present /\ demand'[r].cut = demand[r].cut
                    /\ demand'[r].undisturbed = FALSE
  BY DEF Account!Disturbed, Account!Requests
<1>1. demand[r] \in DemandState /\ demand'[r] = [demand[r] EXCEPT !.undisturbed = FALSE]
  BY DEF AccountType, Account!Disturbed, Account!Requests
<1> QED BY <1>1 DEF DemandState

LEMMA UseStep == ASSUME AccountInv, NEW t \in DOMAIN Things, Account!Use(t) PROVE AccountInv'
<1> USE DEF AccountInv
<1>1. ASSUME Account!Draft(t) PROVE AccountInv'
  <2> USE <1>1 DEF Account!Draft
  <2>1. AccountType'
    BY DEF AccountType
  <2>2. DemandInv' /\ EraseInv' /\ ExportInv'
    <3>1. DemandInv' /\ EraseInv'
      BY DEF DemandInv, DemandOk, EraseInv, EraseOk
    <3>2. Account!Sent' = Account!Sent
      BY DEF Account!Sent
    <3>3. ExportInv'
      BY <3>2 DEF ExportInv, ExportOk
    <3> QED BY <3>1, <3>3
  <2>3. MemberInv'
    BY DEF MemberInv, Account!MemberOf, Account!OfKind, AccountType
  <2>4. KeptInv' /\ Account!LogIsClosed'
    BY DEF KeptInv, Account!LogIsClosed, Account!Going, Account!Requests
  <2> QED BY <2>1, <2>2, <2>3, <2>4
<1>2. ASSUME Account!Write(t) \/ Account!Recall(t) \/ Account!Leave(t) PROVE AccountInv'
  <2>1. demand' = Account!Disturbed /\ UNCHANGED <<auditLog, gone, hitches>>
    BY <1>2 DEF Account!Write, Account!Recall, Account!Leave
  <2>2. /\ written \subseteq written' /\ recalled \subseteq recalled' /\ left \subseteq left'
        /\ data' \ data \subseteq {t} \ written /\ drafting' \subseteq drafting
        /\ data' \subseteq written' /\ written' \subseteq DOMAIN Things
        /\ recalled' \subseteq Account!OfKind("message") /\ left' \subseteq Account!OfKind("membership")
        /\ written' \ data' \subseteq (written \ data) \cup left'
        /\ data' \ data \subseteq drafting \cup {u \in {t} : Things[t].kind \notin {"message", "attachment"}}
    BY <1>2 DEF Account!Write, Account!Recall, Account!Leave, AccountType
  <2>3. AccountType'
    BY <2>1, <2>2, DisturbedFacts DEF AccountType
  <2>4. DemandInv'
    <3>1. UNCHANGED auditLog /\ \A q \in DOMAIN Demands : demand'[q].pc = demand[q].pc /\ demand'[q].step = demand[q].step
             /\ demand'[q].found = demand[q].found /\ demand'[q].present = demand[q].present
      BY <2>1, DisturbedFacts
    <3> QED BY <2>2, <3>1 DEF DemandInv, DemandOk
  <2>5. EraseInv'
    <3> SUFFICES ASSUME NEW r \in DOMAIN Demands, Demands[r] = "erase"
                 PROVE  /\ demand[r].pc \in ErasePcs =>
                             \A u \in demand[r].present \cap data' : u \notin recalled' =>
                                u \in demand[r].found \/ \E i \in demand[r].step..7 : Things[u].kind = Account!Kinds[i]
                        /\ demand[r].pc = "completed" \/ auditLog[r] = "completed" => demand[r].present \cap data' \subseteq recalled'
      <4>1. UNCHANGED auditLog /\ \A q \in DOMAIN Demands : demand'[q].pc = demand[q].pc /\ demand'[q].step = demand[q].step
               /\ demand'[q].found = demand[q].found /\ demand'[q].present = demand[q].present
        BY <2>1, DisturbedFacts
      <4> QED BY <4>1 DEF EraseInv, EraseOk
    <3>1. demand[r].present \cap data' \subseteq demand[r].present \cap data
      BY <2>2 DEF DemandInv, DemandOk
    <3> QED BY <2>2, <3>1 DEF EraseInv, EraseOk
  <2>6. MemberInv'
    BY <2>2 DEF MemberInv
  <2>7. ExportInv'
    BY <2>1, DisturbedFacts DEF ExportInv, ExportOk
  <2>8. KeptInv'
    BY <2>1, <2>2 DEF KeptInv
  <2>9. Account!LogIsClosed'
    BY <2>1, DisturbedFacts DEF Account!LogIsClosed, Account!Going, Account!Requests
  <2> QED BY <2>3, <2>4, <2>5, <2>6, <2>7, <2>8, <2>9
<1> QED BY <1>1, <1>2 DEF Account!Use

-----------------------------------------------------------------------------
(* A request that changes only its own record, its log entry and the count *)
(* of hitches.                                                             *)
OnlyRequest(r) ==
    /\ UNCHANGED <<data, written, recalled, left, drafting, gone>>
    /\ demand' \in [DOMAIN Demands -> DemandState] /\ \A q \in DOMAIN Demands \ {r} : demand'[q] = demand[q]
    /\ auditLog' \in [DOMAIN Demands -> {"none", "processing", "completed", "failed"}]
    /\ \A q \in DOMAIN Demands \ {r} : auditLog'[q] = auditLog[q]
    /\ hitches' \in 0..MaxHitches

ClosedOk(r) == auditLog[r] = "processing" => Account!Going(r) \/ demand[r].cut

LEMMA RequestStep ==
    ASSUME AccountInv, NEW r \in DOMAIN Demands, OnlyRequest(r), DemandOk(r)', EraseOk(r)', ExportOk(r)', ClosedOk(r)'
    PROVE  AccountInv'
<1> USE DEF AccountInv, OnlyRequest
<1>1. AccountType'
  BY DEF AccountType
<1>2. DemandInv'
  BY DEF DemandInv, DemandOk
<1>3. EraseInv'
  BY DEF EraseInv, EraseOk
<1>4. Account!Sent' = Account!Sent
  BY DEF Account!Sent
<1>5. ExportInv'
  BY <1>4 DEF ExportInv, ExportOk
<1>6. MemberInv' /\ KeptInv'
  BY DEF MemberInv, KeptInv
<1>7. Account!LogIsClosed'
  BY DEF Account!LogIsClosed, ClosedOk, Account!Going, Account!Requests
<1> QED BY <1>1, <1>2, <1>3, <1>5, <1>6, <1>7

LEMMA KindsFacts ==
    /\ Account!Kinds \in [1..7 -> {"message", "reaction", "receipt", "attachment", "membership", "lookup", "mention"}]
    /\ Account!Len(Account!Kinds) = 7
    /\ \A t \in DOMAIN Things : \E i \in 1..7 : Things[t].kind = Account!Kinds[i]
<1>1. Account!Kinds = <<"message", "reaction", "receipt", "attachment", "membership", "lookup", "mention">>
  BY DEF Account!Kinds
<1>2. Account!Len(Account!Kinds) = 7 /\ DOMAIN Account!Kinds = 1..7
  BY <1>1
<1>3. /\ Account!Kinds[1] = "message" /\ Account!Kinds[2] = "reaction" /\ Account!Kinds[3] = "receipt"
      /\ Account!Kinds[4] = "attachment" /\ Account!Kinds[5] = "membership" /\ Account!Kinds[6] = "lookup"
      /\ Account!Kinds[7] = "mention"
  BY <1>1
<1>4. \A t \in DOMAIN Things : \E i \in 1..7 : Things[t].kind = Account!Kinds[i]
  BY <1>3, ThingsAssumption
<1>5. \A i \in 1..7 : Account!Kinds[i] \in {"message", "reaction", "receipt", "attachment", "membership", "lookup", "mention"}
  BY <1>3
<1> QED BY <1>1, <1>2, <1>4, <1>5

LEMMA LogSteps ==
    ASSUME AccountInv, NEW r \in DOMAIN Demands, Account!Logged(r)
    PROVE  AccountInv'
<1> USE DEF AccountInv, Account!otherCalls
<1> DEFINE d == demand[r]
<1>0. /\ d \in DemandState /\ hitches \in 0..MaxHitches /\ DemandOk(r) /\ EraseOk(r) /\ ExportOk(r) /\ ClosedOk(r)
      /\ demand \in [DOMAIN Demands -> DemandState]
      /\ auditLog \in [DOMAIN Demands -> {"none", "processing", "completed", "failed"}]
  BY DEF AccountType, DemandInv, EraseInv, ExportInv, Account!LogIsClosed, ClosedOk, Account!Requests
<1>1. ASSUME Account!HasPendingRequest(r) PROVE AccountInv'
  <2>1. PICK pc \in {"over", "log"} : demand' = [demand EXCEPT ![r] = [d EXCEPT !.pc = pc]]
    BY <1>1 DEF Account!HasPendingRequest
  <2>2. d.pc = "idle" /\ [d EXCEPT !.pc = pc] \in DemandState
    BY <1>0, <1>1 DEF Account!HasPendingRequest, DemandState
  <2>3. OnlyRequest(r)
    BY <1>0, <1>1, <2>1, <2>2 DEF OnlyRequest, Account!HasPendingRequest
  <2>4. demand'[r] = [d EXCEPT !.pc = pc] /\ auditLog' = auditLog /\ data' = data /\ recalled' = recalled /\ written' = written
    BY <1>0, <1>1, <2>1 DEF Account!HasPendingRequest
  <2>5. DemandOk(r)' /\ EraseOk(r)' /\ ExportOk(r)' /\ ClosedOk(r)'
    BY <1>0, <2>2, <2>4 DEF DemandOk, EraseOk, ExportOk, ClosedOk, ErasePcs, ExportPcs, Account!Going, DemandState
  <2> QED BY <2>3, <2>5, RequestStep
<1>2. ASSUME Account!LogStart(r) PROVE AccountInv'
  <2> DEFINE e == [d EXCEPT !.pc = IF Demands[r] = "erase" THEN "erase" ELSE "profile", !.present = data \ recalled,
                            !.undisturbed = TRUE]
  <2>1. /\ d.pc = "log" /\ demand' = [demand EXCEPT ![r] = e] /\ auditLog' = [auditLog EXCEPT ![r] = "processing"]
        /\ UNCHANGED <<data, written, recalled, left, drafting, gone, hitches>>
    BY <1>2 DEF Account!LogStart
  <2>2. data \subseteq written /\ written \subseteq DOMAIN Things
    BY DEF AccountType
  <2>3. e \in DemandState
    BY <1>0, <2>2 DEF DemandState
  <2>4. OnlyRequest(r)
    BY <1>0, <2>1, <2>3 DEF OnlyRequest
  <2>5. /\ demand'[r].pc = IF Demands[r] = "erase" THEN "erase" ELSE "profile"
        /\ demand'[r].present = data \ recalled /\ demand'[r].step = 1 /\ demand'[r].found = {} /\ auditLog'[r] = "processing"
    BY <1>0, <2>1 DEF DemandState, DemandOk
  <2>6. DemandOk(r)' /\ ExportOk(r)' /\ ClosedOk(r)'
    BY <2>1, <2>2, <2>5 DEF DemandOk, ExportOk, ClosedOk, ErasePcs, ExportPcs, Account!Going
  <2>7. EraseOk(r)'
    BY <2>1, <2>2, <2>5, KindsFacts DEF EraseOk, ErasePcs
  <2> QED BY <2>4, <2>6, <2>7, RequestStep
<1>3. ASSUME Account!LogCompleted(r) \/ Account!LogFailed(r) PROVE AccountInv'
  <2>1. /\ d.pc \in {"completed", "failed"} /\ demand' = [demand EXCEPT ![r] = [d EXCEPT !.pc = "over"]]
        /\ auditLog' = [auditLog EXCEPT ![r] = d.pc]
        /\ UNCHANGED <<data, written, recalled, left, drafting, gone, hitches>>
    BY <1>3 DEF Account!LogCompleted, Account!LogFailed
  <2>2. [d EXCEPT !.pc = "over"] \in DemandState
    BY <1>0 DEF DemandState
  <2>3. OnlyRequest(r)
    BY <1>0, <2>1, <2>2 DEF OnlyRequest
  <2>4. demand'[r] = [d EXCEPT !.pc = "over"] /\ auditLog'[r] = d.pc
    BY <1>0, <2>1
  <2>5. DemandOk(r)' /\ EraseOk(r)' /\ ExportOk(r)' /\ ClosedOk(r)'
    BY <1>0, <2>1, <2>4 DEF DemandOk, EraseOk, ExportOk, ClosedOk, ErasePcs, ExportPcs, Account!Going, DemandState
  <2> QED BY <2>3, <2>5, RequestStep
<1>4. ASSUME Account!Fails(r) \/ Account!ServerDies(r) PROVE AccountInv'
  <2>1. PICK pc \in {"over", "failed"}, cut \in BOOLEAN :
           /\ demand' = [demand EXCEPT ![r] = [d EXCEPT !.pc = pc, !.found = {}, !.cut = cut]]
           /\ pc = "over" => cut \/ d.pc = "log"
    <3>1. ASSUME Account!ServerDies(r) PROVE demand' = [demand EXCEPT ![r] = [d EXCEPT !.pc = "over", !.found = {}, !.cut = TRUE]]
      BY <3>1 DEF Account!ServerDies
    <3>2. ASSUME Account!Fails(r)
          PROVE  demand' = [demand EXCEPT ![r] = [d EXCEPT !.pc = IF d.pc \in {"log", "completed", "failed"} THEN "over" ELSE "failed",
                                !.found = {}, !.cut = d.cut \/ d.pc \in {"completed", "failed"}]]
      BY <3>2 DEF Account!Fails
    <3>3. d.cut \in BOOLEAN
      BY <1>0 DEF DemandState
    <3>4. CASE Account!ServerDies(r)
      BY <3>1, <3>4
    <3>5. CASE Account!Fails(r) /\ d.pc \in {"completed", "failed"}
      BY <3>2, <3>5, <3>3
    <3>6. CASE Account!Fails(r) /\ d.pc = "log"
      BY <3>2, <3>6, <3>3
    <3>7. CASE Account!Fails(r) /\ d.pc \notin {"log", "completed", "failed"}
      BY <3>2, <3>7, <3>3
    <3> QED BY <1>4, <3>4, <3>5, <3>6, <3>7
  <2>2. d.pc \notin {"idle", "over"} /\ UNCHANGED <<data, written, recalled, left, drafting, gone, auditLog>> /\ hitches' \in 0..MaxHitches
    BY <1>0, <1>4, DemandsAssumption DEF Account!Fails, Account!ServerDies, Account!Going, Account!Hitch
  <2>3. [d EXCEPT !.pc = pc, !.found = {}, !.cut = cut] \in DemandState
    BY <1>0 DEF DemandState
  <2>4. OnlyRequest(r)
    BY <1>0, <2>1, <2>2, <2>3 DEF OnlyRequest
  <2>5. /\ demand'[r].pc = pc /\ demand'[r].cut = cut /\ demand'[r].present = d.present
    BY <1>0, <2>1 DEF DemandState
  <2>6. DemandOk(r)' /\ EraseOk(r)' /\ ExportOk(r)' /\ ClosedOk(r)'
    BY <1>0, <2>1, <2>2, <2>5 DEF DemandOk, EraseOk, ExportOk, ClosedOk, ErasePcs, ExportPcs, Account!Going
  <2> QED BY <2>4, <2>6, RequestStep
<1> QED BY <1>1, <1>2, <1>3, <1>4 DEF Account!Logged

-----------------------------------------------------------------------------
(* perform_deletion                                                        *)

LEMMA EraseKindStep ==
    ASSUME AccountInv, NEW r \in DOMAIN Demands, Account!EraseKind(r)
    PROVE  AccountInv'
<1> USE DEF AccountInv, Account!otherCalls
<1> DEFINE d == demand[r]
           kind == Account!Kinds[d.step]
           rows == (data \cap Account!OfKind(kind)) \ recalled
           e == [d EXCEPT !.found = d.found \cup rows, !.step = d.step + 1,
                          !.pc = IF d.step = 7 THEN "commit" ELSE "erase"]
<1>1. /\ d \in DemandState /\ DemandOk(r) /\ EraseOk(r) /\ demand \in [DOMAIN Demands -> DemandState]
      /\ auditLog \in [DOMAIN Demands -> {"none", "processing", "completed", "failed"}] /\ hitches \in 0..MaxHitches
      /\ data \subseteq written /\ written \subseteq DOMAIN Things
  BY DEF AccountType, DemandInv, EraseInv
<1>2. /\ Demands[r] = "erase" /\ d.pc = "erase" /\ demand' = [demand EXCEPT ![r] = e]
      /\ UNCHANGED <<data, written, recalled, left, drafting, auditLog, gone, hitches>>
  BY KindsFacts DEF Account!EraseKind
<1>3. d.step \in 1..7 /\ rows \subseteq data /\ \A t \in data \ recalled : Things[t].kind = kind => t \in rows
  BY <1>1, <1>2 DEF DemandOk, Account!OfKind
<1>4. e \in DemandState
  <2>1. d.step + 1 \in 1..8 /\ d.found \cup rows \in SUBSET DOMAIN Things
    BY <1>1, <1>3 DEF DemandState
  <2> HIDE DEF rows
  <2> QED BY <1>1, <2>1 DEF DemandState
<1>5. OnlyRequest(r) /\ demand'[r] = e
  BY <1>1, <1>2, <1>4 DEF OnlyRequest
<1>6. /\ demand'[r].pc = IF d.step = 7 THEN "commit" ELSE "erase"
      /\ demand'[r].step = d.step + 1 /\ demand'[r].found = d.found \cup rows
      /\ demand'[r].present = d.present /\ demand'[r].cut = d.cut
  BY <1>1, <1>5 DEF DemandState
<1>7. DemandOk(r)' /\ ExportOk(r)' /\ ClosedOk(r)'
  BY <1>1, <1>2, <1>3, <1>6 DEF DemandOk, ExportOk, ClosedOk, ErasePcs, ExportPcs, Account!Going
<1>8. EraseOk(r)'
  <2> SUFFICES ASSUME NEW t \in d.present \cap data, t \notin recalled
               PROVE  t \in d.found \cup rows \/ \E i \in (d.step + 1)..7 : Things[t].kind = Account!Kinds[i]
    BY <1>1, <1>2, <1>6 DEF EraseOk, DemandOk
  <2>1. CASE t \in d.found
    BY <2>1
  <2>2. CASE \E i \in d.step..7 : Things[t].kind = Account!Kinds[i]
    <3>1. PICK i \in d.step..7 : Things[t].kind = Account!Kinds[i]
      BY <2>2
    <3>2. CASE i = d.step
      BY <3>1, <3>2, <1>3
    <3>3. CASE i # d.step
      BY <3>1, <3>3, <1>3
    <3> QED BY <3>2, <3>3
  <2> QED BY <1>1, <1>2, <2>1, <2>2 DEF EraseOk, ErasePcs
<1> QED BY <1>5, <1>7, <1>8, RequestStep

LEMMA CommitStep ==
    ASSUME AccountInv, NEW r \in DOMAIN Demands, Account!Commit(r)
    PROVE  AccountInv'
<1> USE DEF AccountInv, Account!otherCalls
<1> DEFINE d == demand[r]
<1>1. /\ DemandOk(r) /\ EraseOk(r) /\ demand \in [DOMAIN Demands -> DemandState]
      /\ data \subseteq written /\ written \subseteq DOMAIN Things /\ gone \subseteq written
  BY DEF AccountType, DemandInv, EraseInv
<1>2. /\ d.pc = "commit" /\ d.step = 8 /\ Demands[r] = "erase" /\ d.found \subseteq written
      /\ data' = data \ d.found /\ gone' = gone \cup d.found
      /\ UNCHANGED <<written, recalled, left, drafting, auditLog, hitches>>
  BY <1>1 DEF Account!Commit, DemandOk, ErasePcs
<1>3. /\ demand'[r] = [d EXCEPT !.pc = "completed", !.found = {}] /\ DOMAIN demand' = DOMAIN Demands
      /\ demand' = [q \in DOMAIN Demands |-> demand'[q]]
      /\ \A q \in DOMAIN Demands \ {r} : demand'[q] = [demand[q] EXCEPT !.undisturbed = FALSE]
  BY DEF Account!Commit, Account!Requests
<1>4. /\ demand'[r] \in DemandState
      /\ demand'[r].pc = "completed" /\ demand'[r].step = 8 /\ demand'[r].found = {} /\ demand'[r].present = d.present
  BY <1>1, <1>2, <1>3 DEF DemandState
<1>5. ASSUME NEW q \in DOMAIN Demands \ {r}
      PROVE  /\ demand'[q] \in DemandState
             /\ demand'[q].pc = demand[q].pc /\ demand'[q].step = demand[q].step /\ demand'[q].found = demand[q].found
             /\ demand'[q].present = demand[q].present /\ demand'[q].cut = demand[q].cut
             /\ demand'[q].undisturbed = FALSE
  <2>1. demand[q] \in DemandState /\ demand'[q] = [demand[q] EXCEPT !.undisturbed = FALSE]
    BY <1>1, <1>3
  <2> QED BY <2>1 DEF DemandState
<1>6. AccountType'
  <2>1. demand' \in [DOMAIN Demands -> DemandState]
    BY <1>3, <1>4, <1>5
  <2> QED BY <1>1, <1>2, <2>1 DEF AccountType
<1>7. DemandInv'
  <2>1. DemandOk(r)'
    BY <1>1, <1>2, <1>4 DEF DemandOk, ErasePcs, ExportPcs
  <2>2. ASSUME NEW q \in DOMAIN Demands \ {r} PROVE DemandOk(q)'
    <3>1. UNCHANGED <<written, auditLog>> /\ DemandOk(q)
      BY <1>2 DEF DemandInv
    <3>2. /\ demand'[q].pc = demand[q].pc /\ demand'[q].step = demand[q].step /\ demand'[q].found = demand[q].found
          /\ demand'[q].present = demand[q].present
      BY <1>5
    <3> QED BY <3>1, <3>2 DEF DemandOk
  <2> QED BY <2>1, <2>2 DEF DemandInv
<1>8. EraseInv'
  <2>1. EraseOk(r)'
    <3>1. \A t \in d.present \cap data : t \notin recalled => t \in d.found
      BY <1>1, <1>2 DEF EraseOk, ErasePcs
    <3> QED BY <1>2, <1>4, <3>1 DEF EraseOk, ErasePcs
  <2>2. ASSUME NEW q \in DOMAIN Demands \ {r} PROVE EraseOk(q)'
    <3>1. data' \subseteq data /\ UNCHANGED <<recalled, auditLog>> /\ EraseOk(q)
      BY <1>2 DEF EraseInv
    <3>2. /\ demand'[q].pc = demand[q].pc /\ demand'[q].step = demand[q].step /\ demand'[q].found = demand[q].found
          /\ demand'[q].present = demand[q].present
      BY <1>5
    <3> QED BY <3>1, <3>2 DEF EraseOk
  <2> QED BY <2>1, <2>2 DEF EraseInv
<1>9. MemberInv' /\ KeptInv'
  BY <1>1, <1>2 DEF MemberInv, KeptInv
<1>10. ExportInv'
  BY <1>2, <1>5 DEF ExportInv, ExportOk
<1>11. Account!LogIsClosed'
  BY <1>2, <1>4, <1>5 DEF Account!LogIsClosed, Account!Going, Account!Requests
<1> QED BY <1>6, <1>7, <1>8, <1>9, <1>10, <1>11

-----------------------------------------------------------------------------
(* perform_export                                                          *)

\* A message that was sent is in a conversation the user is or was in.
LEMMA SentFacts ==
    ASSUME AccountType, MemberInv
    PROVE  /\ Account!Sent \subseteq DOMAIN Things
           /\ \A t \in Account!Sent :
                 Things[t].conversation \in {Things[m].conversation : m \in Account!OfKind("membership") \cap written}
<1>1. Account!Sent \subseteq data /\ data \subseteq DOMAIN Things
  BY DEF AccountType, Account!Sent
<1>2. ASSUME NEW t \in Account!Sent
      PROVE  Things[t].conversation \in {Things[m].conversation : m \in Account!OfKind("membership") \cap written}
  <2>1. t \in data /\ Things[t].kind = "message"
    BY DEF Account!Sent, Account!OfKind
  <2>2. PICK m \in written : Things[m].kind = "membership" /\ Things[m].conversation = Things[t].conversation
    BY <2>1 DEF MemberInv
  <2>3. m \in Account!OfKind("membership") \cap written
    BY <2>2 DEF Account!OfKind, AccountType
  <2> QED BY <2>2, <2>3
<1> QED BY <1>1, <1>2

LEMMA ExportStep ==
    ASSUME AccountInv, NEW r \in DOMAIN Demands, Demands[r] = "export",
           Account!GetProfile(r) \/ Account!GetConversations(r) \/ Account!GetMessages(r) \/ Account!GetAttachments(r)
    PROVE  AccountInv'
<1> USE DEF AccountInv, Account!otherCalls
<1> DEFINE d == demand[r]
           sent == Account!Sent
<1>1. /\ d \in DemandState /\ DemandOk(r) /\ ExportOk(r) /\ demand \in [DOMAIN Demands -> DemandState]
      /\ auditLog \in [DOMAIN Demands -> {"none", "processing", "completed", "failed"}] /\ hitches \in 0..MaxHitches
      /\ data \subseteq written /\ written \subseteq DOMAIN Things
  BY DEF AccountType, DemandInv, ExportInv
<1>2. UNCHANGED <<data, written, recalled, left, drafting, auditLog, gone, hitches>> /\ Demands[r] # "erase"
  BY DEF Account!GetProfile, Account!GetConversations, Account!GetMessages, Account!GetAttachments
<1>3. sent' = sent /\ sent \subseteq data /\ sent \subseteq written /\ sent \subseteq DOMAIN Things
      /\ sent \subseteq Account!OfKind("message")
  BY <1>1, <1>2 DEF Account!Sent
<1>4. d.pc \in ExportPcs /\ auditLog[r] # "completed" /\ EraseOk(r)'
  BY <1>1, <1>2 DEF Account!GetProfile, Account!GetConversations, Account!GetMessages, Account!GetAttachments, ExportPcs,
                  DemandOk, EraseOk
\* What is left to show of a step that goes on to e.
<1>5. ASSUME NEW e \in DemandState, demand' = [demand EXCEPT ![r] = e], e.present = d.present, e.found \subseteq written,
             e.pc \in {"conversations", "messages", "attachments", "completed"},
             e.pc = "conversations" => e.found = {},
             e.undisturbed =>
                /\ e.count = Account!Cardinality(sent)
                /\ e.pc = "messages" => e.found = {t \in sent : Things[t].conversation \notin e.todo}
                /\ e.pc \in {"attachments", "completed"} => e.found \cap Account!OfKind("message") = sent
      PROVE  AccountInv'
  <2>1. OnlyRequest(r) /\ demand'[r] = e
    BY <1>1, <1>2, <1>5 DEF OnlyRequest
  <2>2. DemandOk(r)' /\ ClosedOk(r)'
    BY <1>1, <1>2, <1>4, <1>5, <2>1 DEF DemandOk, ClosedOk, ErasePcs, ExportPcs, Account!Going
  <2>3. ExportOk(r)'
    <3>1. demand'[r] = e /\ Account!Sent' = sent /\ (Account!OfKind("message"))' = Account!OfKind("message")
      BY <2>1, <1>3 DEF Account!OfKind
    <3> QED BY <1>5, <3>1 DEF ExportOk
  <2> QED BY <1>4, <2>1, <2>2, <2>3, RequestStep
<1>6. CASE Account!GetProfile(r)
  <2> DEFINE e == [d EXCEPT !.pc = "conversations", !.count = Account!Cardinality(sent)]
  <2>1. d.pc = "profile" /\ demand' = [demand EXCEPT ![r] = e]
    BY <1>6 DEF Account!GetProfile
  <2>2. e \in DemandState /\ e.present = d.present /\ e.found = {} /\ e.count = Account!Cardinality(sent) /\ e.pc = "conversations"
    BY <1>1, <1>3, <2>1 DEF DemandState, DemandOk
  <2> HIDE DEF e
  <2> QED BY <2>1, <2>2, <1>5
<1>7. CASE Account!GetConversations(r)
  <2> DEFINE todo == {Things[t].conversation : t \in Account!OfKind("membership") \cap written}
             e == [d EXCEPT !.pc = "messages", !.todo = todo]
  <2>1. d.pc = "conversations" /\ demand' = [demand EXCEPT ![r] = e]
    BY <1>7 DEF Account!GetConversations
  <2>2. todo \in SUBSET Talks
    BY <1>1 DEF Talks
  <2>3. /\ e \in DemandState /\ e.present = d.present /\ e.found = {} /\ e.count = d.count /\ e.pc = "messages"
        /\ e.todo = todo /\ e.undisturbed = d.undisturbed
    BY <1>1, <2>1, <2>2 DEF DemandState, DemandOk
  <2>4. {t \in sent : Things[t].conversation \notin todo} = {}
    BY SentFacts
  <2>5. e.undisturbed => e.count = Account!Cardinality(sent)
    BY <1>1, <1>2, <2>1, <2>3 DEF ExportOk
  <2> HIDE DEF e, todo
  <2> QED BY <2>1, <2>3, <2>4, <2>5, <1>5
<1>8. CASE Account!GetMessages(r)
  <2>1. d.pc = "messages"
    BY <1>8 DEF Account!GetMessages
  <2>2. d.undisturbed => /\ d.count = Account!Cardinality(sent)
                         /\ d.found = {t \in sent : Things[t].conversation \notin d.todo}
    BY <1>1, <1>2, <2>1 DEF ExportOk
  <2>3. CASE d.todo = {}
    <3> DEFINE e == [d EXCEPT !.pc = "attachments"]
    <3>1. demand' = [demand EXCEPT ![r] = e]
      BY <1>8, <2>3 DEF Account!GetMessages
    <3>2. /\ e \in DemandState /\ e.present = d.present /\ e.found = d.found /\ e.count = d.count /\ e.pc = "attachments"
          /\ e.undisturbed = d.undisturbed /\ d.found \subseteq written
      BY <1>1 DEF DemandState, DemandOk
    <3>3. d.undisturbed => d.found \cap Account!OfKind("message") = sent
      BY <2>2, <2>3, <1>3
    <3> HIDE DEF e
    <3> QED BY <2>2, <3>1, <3>2, <3>3, <1>5
  <2>4. CASE d.todo # {}
    <3>1. PICK c \in d.todo :
             demand' = [demand EXCEPT ![r] = [d EXCEPT !.found = d.found \cup {t \in sent : Things[t].conversation = c},
                                                       !.todo = d.todo \ {c}]]
      BY <1>8, <2>4 DEF Account!GetMessages
    <3> DEFINE e == [d EXCEPT !.found = d.found \cup {t \in sent : Things[t].conversation = c}, !.todo = d.todo \ {c}]
    <3>2. /\ e \in DemandState /\ e.present = d.present /\ e.count = d.count /\ e.pc = "messages"
          /\ e.found = d.found \cup {t \in sent : Things[t].conversation = c} /\ e.todo = d.todo \ {c}
          /\ e.undisturbed = d.undisturbed /\ d.found \subseteq written
      BY <1>1, <1>3, <2>1 DEF DemandState, DemandOk
    <3>3. d.undisturbed => e.found = {t \in sent : Things[t].conversation \notin e.todo}
      BY <2>2, <3>2
    <3>4. e.found \subseteq written
      BY <3>2, <1>3
    <3>5. demand' = [demand EXCEPT ![r] = e]
      BY <3>1
    <3> HIDE DEF e
    <3> QED BY <2>2, <3>5, <3>2, <3>3, <3>4, <1>5
  <2> QED BY <2>3, <2>4
<1>9. CASE Account!GetAttachments(r)
  <2> DEFINE e == [d EXCEPT !.pc = "completed", !.found = d.found \cup (data \cap Account!OfKind("attachment"))]
  <2>1. d.pc = "attachments" /\ demand' = [demand EXCEPT ![r] = e]
    BY <1>9 DEF Account!GetAttachments
  <2>2. /\ e \in DemandState /\ e.present = d.present /\ e.count = d.count /\ e.pc = "completed"
        /\ e.found = d.found \cup (data \cap Account!OfKind("attachment"))
        /\ e.undisturbed = d.undisturbed /\ e.found \subseteq written
    BY <1>1 DEF DemandState, DemandOk
  <2>3. Account!OfKind("attachment") \cap Account!OfKind("message") = {}
    BY DEF Account!OfKind
  <2>4. d.undisturbed => d.count = Account!Cardinality(sent) /\ d.found \cap Account!OfKind("message") = sent
    BY <1>1, <1>2, <2>1 DEF ExportOk
  <2>5. d.undisturbed => e.found \cap Account!OfKind("message") = sent
    BY <2>2, <2>3, <2>4
  <2> HIDE DEF e
  <2> QED BY <2>1, <2>2, <2>4, <2>5, <1>5
<1> QED BY <1>6, <1>7, <1>8, <1>9

-----------------------------------------------------------------------------
LEMMA ServeStep == ASSUME AccountInv, NEW r \in DOMAIN Demands, Account!Serve(r) PROVE AccountInv'
BY LogSteps, EraseKindStep, CommitStep, ExportStep DEF Account!Serve, Account!RequestDeletion, Account!RequestExport

LEMMA AccountStutters == AccountInv /\ UNCHANGED accountVars => AccountInv'
<1> SUFFICES ASSUME AccountInv, UNCHANGED accountVars PROVE AccountInv'
  OBVIOUS
<1> USE DEF AccountInv, accountVars
<1>1. Account!Sent' = Account!Sent
  BY DEF Account!Sent
<1> QED BY <1>1 DEF AccountType, DemandInv, DemandOk, EraseInv, EraseOk, MemberInv, ExportInv, ExportOk, KeptInv,
              Account!LogIsClosed, Account!Going, Account!Requests

\* gdpr/: whatever fails, and whatever else the user and others do meanwhile, no
\* row is lost but by the user's leaving or a committed erasure, a completed erasure
\* leaves only what was recalled, an undisturbed export has all it counts, and a
\* log entry is closed unless its request was cut short.
THEOREM RequestsAlwaysHonoured == Account!Spec => [](Account!TypeOK /\ Account!RequestsAreHonoured)
<1>1. Account!Init => AccountInv
  BY AccountInit
<1>2. AccountInv /\ [Account!Next]_(Account!accountVars) => AccountInv'
  <2> SUFFICES ASSUME AccountInv, [Account!Next]_(Account!accountVars) PROVE AccountInv'
    OBVIOUS
  <2>1. CASE \E t \in DOMAIN Things : Account!Use(t)
    BY <2>1, UseStep
  <2>2. CASE \E r \in Account!Requests : Account!Serve(r)
    BY <2>2, ServeStep DEF Account!Requests
  <2>3. CASE UNCHANGED Account!accountVars
    BY <2>3, AccountStutters DEF Account!accountVars, accountVars
  <2> QED BY <2>1, <2>2, <2>3 DEF Account!Next
<1>3. AccountInv => Account!TypeOK /\ Account!RequestsAreHonoured
  BY AccountFacts
<1> QED BY <1>1, <1>2, <1>3, PTL DEF Account!Spec

\* The same where the parts of a user's data run one at a time.
THEOREM RequestsStayHonoured == PartsSpec => []RequestsAreHonoured
<1> DEFINE Inv == part \in AccountParts => AccountInv
<1>1. PartsInit => Inv
  BY AccountInit DEF PartsInit
<1>2. Inv /\ [PartsNext]_partsVars => Inv'
  <2> SUFFICES ASSUME Inv, [PartsNext]_partsVars, part' \in AccountParts PROVE AccountInv'
    OBVIOUS
  <2>1. part = part'
    BY DEF PartsNext, partsVars
  <2>2. CASE UNCHANGED accountVars
    BY <2>1, <2>2, AccountStutters
  <2>3. CASE AccountNext
    <3>1. CASE \E t \in DOMAIN Things : Account!Use(t)
      BY <2>1, <3>1, UseStep
    <3>2. CASE \E r \in DOMAIN Demands : Account!Serve(r)
      BY <2>1, <3>2, ServeStep
    <3> QED BY <2>3, <3>1, <3>2, ThingsAssumption, DemandsAssumption DEF AccountNext
  <2> QED BY <2>1, <2>2, <2>3 DEF PartsNext, partsVars
<1>3. Inv => RequestsAreHonoured
  BY AccountFacts DEF RequestsAreHonoured
<1> QED BY <1>1, <1>2, <1>3, PTL DEF PartsSpec

(***************************************************************************)
(* Custom emoji                                                            *)
(***************************************************************************)
ArtistTenant == {Artists[u] : u \in DOMAIN Artists}
EmojiRow ==
    [tenant : ArtistTenant, creator : DOMAIN Artists, shortcode : Shortcodes, pack : Packs \cup {NoPack}, hash : Pictures]
PackRow == [tenant : ArtistTenant, creator : DOMAIN Artists, name : PackNames]

SketchCall ==
    [pc : {"shortcode", "pack", "hash", "store", "insert", "answered", "refused", "failed"}, user : DOMAIN Artists,
     shortcode : Shortcodes, pack : Packs \cup {NoPack}, picture : Pictures, answer : EmojiUploads]
RubbingCall == [pc : {"disk", "row", "done", "failed"}, row : EmojiUploads]
PackMaking == [pc : {"insert", "done", "refused", "failed"}, user : DOMAIN Artists, name : PackNames]
PackEdit == [pc : {"update", "delete", "done", "failed"}, pack : Packs, row : PackRow]
Refused == [pc |-> "refused"]

EmojiType ==
    /\ Picture!EmojiIds \subseteq EmojiUploads /\ emojis \in [Picture!EmojiIds -> EmojiRow]
    /\ Picture!PackIds \subseteq Packs /\ packs \in [Picture!PackIds -> PackRow]
    /\ pictures \subseteq EmojiUploads /\ littered \subseteq EmojiUploads /\ condemned \subseteq EmojiUploads
    /\ sketch \in [EmojiUploads -> {Picture!Unset} \cup SketchCall]
    /\ rubbing \in [EmojiDeletes -> {Picture!Unset, Refused} \cup RubbingCall]
    /\ packing \in [Packs \cup PackEdits -> {Picture!Unset, Refused} \cup PackMaking \cup PackEdit]

\* A row, and one being deleted, is of an upload that was answered; one on its way
\* answers with itself, and has stored its picture before it inserts.
SketchInv ==
    /\ \A u \in Picture!EmojiIds \cup condemned : sketch[u].pc = "answered"
    /\ \A u \in EmojiUploads :
          /\ sketch[u].pc \in {"shortcode", "pack", "hash", "store", "insert"} => sketch[u].answer = u
          /\ sketch[u].pc = "answered" => sketch[sketch[u].answer].pc = "answered"
          /\ sketch[u].pc = "insert" => u \in pictures

\* A pack is made once, so the pack an upload has looked at does not come back
\* as another tenant's.
PackInv ==
    /\ \A k \in Picture!PackIds : packing[k].pc = "done"
    /\ \A u \in EmojiUploads :
          sketch[u].pc \in {"hash", "store", "insert"} /\ sketch[u].pack # NoPack =>
             /\ packing[sketch[u].pack].pc = "done"
             /\ sketch[u].pack \in Picture!PackIds => packs[sketch[u].pack].tenant = Picture!TenantOf(u)

\* What a deletion has passed is gone.
RubbingInv ==
    \A d \in EmojiDeletes :
       /\ rubbing[d].pc \in {"disk", "row"} => rubbing[d].row \in condemned
       /\ rubbing[d].pc = "row" => rubbing[d].row \notin pictures

EmojiInv == EmojiType /\ SketchInv /\ PackInv /\ RubbingInv /\ Picture!EmojisAreSound

LEMMA EmojiInit == Picture!Init => EmojiInv
BY DEF Picture!Init, EmojiInv, EmojiType, SketchInv, PackInv, RubbingInv, Picture!EmojisAreSound,
       Picture!EmojiIds, Picture!PackIds, Picture!Unset

LEMMA EmojiFacts == EmojiInv => Picture!TypeOK /\ Picture!EmojisAreSound
BY DEF EmojiInv, EmojiType, EmojiRow, Picture!TypeOK

-----------------------------------------------------------------------------
(* An upload goes to another step and keeps its request; so do the others. *)
LEMMA SketchGoesOn ==
    ASSUME EmojiType, NEW u \in EmojiUploads, sketch[u].pc # "idle",
           NEW pc \in {"shortcode", "pack", "hash", "store", "insert", "answered", "refused", "failed"},
           Picture!SketchGoes(u, pc)
    PROVE  /\ sketch' \in [EmojiUploads -> {Picture!Unset} \cup SketchCall]
           /\ sketch[u] \in SketchCall /\ sketch'[u].pc = pc /\ sketch'[u].answer = sketch[u].answer
           /\ sketch'[u].user = sketch[u].user /\ sketch'[u].pack = sketch[u].pack
           /\ sketch'[u].picture = sketch[u].picture
           /\ \A v \in EmojiUploads \ {u} : sketch'[v] = sketch[v]
BY DEF EmojiType, SketchCall, Picture!SketchGoes, Picture!Unset

LEMMA PackingGoesOn ==
    ASSUME EmojiType, NEW k \in Packs \cup PackEdits, packing[k].pc \in {"insert", "update", "delete"},
           NEW pc \in {"done", "failed"}, Picture!PackingGoes(k, pc)
    PROVE  /\ packing' \in [Packs \cup PackEdits -> {Picture!Unset, Refused} \cup PackMaking \cup PackEdit]
           /\ packing'[k].pc = pc
           /\ \A x \in (Packs \cup PackEdits) \ {k} : packing'[x] = packing[x]
<1>1. packing[k] \in PackMaking \cup PackEdit
  BY DEF EmojiType, PackMaking, PackEdit, Refused, Picture!Unset
<1>2. [packing[k] EXCEPT !.pc = pc] \in PackMaking \cup PackEdit
  BY <1>1 DEF PackMaking, PackEdit
<1>3. packing' = [packing EXCEPT ![k] = [packing[k] EXCEPT !.pc = pc]] /\ [packing[k] EXCEPT !.pc = pc].pc = pc
  BY <1>1 DEF Picture!PackingGoes, PackMaking, PackEdit
<1> QED BY <1>2, <1>3 DEF EmojiType

\* The tenant of an upload is the tenant of one of the users.
LEMMA TenantOfArtist ==
    ASSUME EmojiType, NEW u \in EmojiUploads, sketch[u].pc # "idle"
    PROVE  sketch[u] \in SketchCall /\ Picture!TenantOf(u) \in ArtistTenant
BY DEF EmojiType, SketchCall, ArtistTenant, Picture!TenantOf, Picture!Unset

\* A step that moves one upload on, and at most stores its picture.
LooksOn(u) ==
    /\ UNCHANGED <<emojis, packs, packing, rubbing, condemned, littered>>
    /\ sketch' \in [EmojiUploads -> {Picture!Unset} \cup SketchCall]
    /\ \A v \in EmojiUploads \ {u} : sketch'[v] = sketch[v]
    /\ sketch[u].pc \notin {"answered", "insert"}
    /\ pictures' = pictures \/ (sketch'[u].pc = "insert" /\ pictures' = pictures \cup {u})
    /\ sketch'[u].pc = "insert" => u \in pictures'
    /\ sketch'[u].pc \in {"shortcode", "pack", "hash", "store", "insert"} => sketch'[u].answer = u
    /\ sketch'[u].pc = "answered" =>
          /\ sketch'[u].answer \in Picture!EmojiIds
          /\ emojis[sketch'[u].answer].tenant = Artists[sketch'[u].user]
          /\ emojis[sketch'[u].answer].hash = sketch'[u].picture
    /\ sketch'[u].pc \in {"hash", "store", "insert"} /\ sketch'[u].pack # NoPack =>
          /\ packing[sketch'[u].pack].pc = "done"
          /\ sketch'[u].pack \in Picture!PackIds => packs[sketch'[u].pack].tenant = Artists[sketch'[u].user]

LEMMA LooksOnStep == ASSUME EmojiInv, NEW u \in EmojiUploads, LooksOn(u) PROVE EmojiInv'
<1> USE DEF LooksOn
<1> USE DEF EmojiInv
<1>1. u \notin Picture!EmojiIds /\ u \notin condemned
  BY DEF SketchInv
<1>2. Picture!EmojiIds \subseteq EmojiUploads /\ condemned \subseteq EmojiUploads
  BY DEF EmojiType
<1>3. EmojiType'
  BY DEF EmojiType, Picture!EmojiIds, Picture!PackIds
<1>4. SketchInv'
  <2>1. \A v \in Picture!EmojiIds \cup condemned : v # u /\ sketch'[v].pc = "answered"
    BY <1>1, <1>2 DEF SketchInv
  <2>2. ASSUME NEW v \in EmojiUploads, v # u, sketch[v].pc = "answered" PROVE sketch'[sketch[v].answer].pc = "answered"
    <3>1. sketch[v].answer \in EmojiUploads /\ sketch[v].answer # u
      BY <2>2 DEF SketchInv, EmojiType, SketchCall, Picture!Unset
    <3> QED BY <2>2, <3>1 DEF SketchInv
  <2>3. sketch'[u].pc = "answered" => sketch'[sketch'[u].answer].pc = "answered"
    BY <2>1
  <2> QED BY <1>2, <2>1, <2>2, <2>3 DEF SketchInv, Picture!EmojiIds
<1>5. PackInv'
  BY DEF PackInv, Picture!PackIds, Picture!TenantOf
<1>6. RubbingInv'
  BY <1>1 DEF RubbingInv
<1>7. Picture!EmojisAreSound'
  <2>1. \A e \in Picture!EmojiIds : e \in pictures' \cup condemned
    BY DEF Picture!EmojisAreSound
  <2>2. \A v \in EmojiUploads : sketch'[v].pc = "answered" /\ sketch'[v].answer \in Picture!EmojiIds =>
           /\ emojis[sketch'[v].answer].tenant = Artists[sketch'[v].user]
           /\ emojis[sketch'[v].answer].hash = sketch'[v].picture
    BY DEF Picture!EmojisAreSound, Picture!TenantOf
  <2>3. \A v \in pictures' \ littered : v \in Picture!EmojiIds \/ sketch'[v].pc = "insert"
    <3> SUFFICES ASSUME NEW v \in pictures' \ littered, v \notin Picture!EmojiIds PROVE sketch'[v].pc = "insert"
      OBVIOUS
    <3>1. CASE v = u
      BY <3>1 DEF Picture!EmojisAreSound
    <3>2. CASE v # u
      BY <3>2 DEF Picture!EmojisAreSound, EmojiType
    <3> QED BY <3>1, <3>2
  <2> QED BY <2>1, <2>2, <2>3 DEF Picture!EmojisAreSound, Picture!EmojiIds, Picture!PackIds, Picture!TenantOf
<1> QED BY <1>3, <1>4, <1>5, <1>6, <1>7

LEMMA SketchStep ==
    ASSUME EmojiInv, NEW u \in EmojiUploads,
           \/ \E user \in DOMAIN Artists, s \in Shortcodes, k \in Packs \cup {NoPack}, p \in Pictures :
                Picture!BeginSketch(u, user, s, k, p)
           \/ Picture!ShortcodeExists(u) \/ Picture!PackExists(u) \/ Picture!FindPicture(u) \/ Picture!StorePicture(u)
    PROVE  EmojiInv'
<1> SUFFICES LooksOn(u)
  BY LooksOnStep
<1> USE DEF EmojiInv
<1>1. ASSUME NEW user \in DOMAIN Artists, NEW s \in Shortcodes, NEW k \in Packs \cup {NoPack}, NEW p \in Pictures,
             Picture!BeginSketch(u, user, s, k, p)
      PROVE  LooksOn(u)
  <2>1. /\ sketch' \in [EmojiUploads -> {Picture!Unset} \cup SketchCall]
        /\ sketch[u].pc = "idle" /\ sketch'[u].pc = "shortcode" /\ sketch'[u].answer = u
        /\ \A v \in EmojiUploads \ {u} : sketch'[v] = sketch[v]
    BY <1>1 DEF Picture!BeginSketch, EmojiType, SketchCall
  <2>2. UNCHANGED <<emojis, packs, packing, rubbing, condemned, littered, pictures>>
    BY <1>1 DEF Picture!BeginSketch, Picture!rowVars
  <2>3. sketch'[u].pc \notin {"hash", "store", "insert", "answered"} /\ sketch[u].pc \notin {"answered", "insert"}
    BY <2>1
  <2> QED BY <2>1, <2>2, <2>3 DEF LooksOn
<1>2. ASSUME Picture!ShortcodeExists(u) PROVE LooksOn(u)
  <2>1. PICK pc \in {"refused", "hash", "pack"} :
           Picture!SketchGoes(u, pc) /\ (pc = "hash" => sketch[u].pack = NoPack)
    BY <1>2 DEF Picture!ShortcodeExists
  <2>2. sketch[u].pc = "shortcode" /\ sketch[u].answer = u
    BY <1>2 DEF Picture!ShortcodeExists, SketchInv
  <2> QED BY <1>2, <2>1, <2>2, SketchGoesOn DEF LooksOn, Picture!ShortcodeExists, Picture!rowVars
<1>3. ASSUME Picture!PackExists(u) PROVE LooksOn(u)
  <2>1. PICK pc \in {"refused", "hash"} :
           /\ Picture!SketchGoes(u, pc)
           /\ pc = "hash" => sketch[u].pack \in Picture!PackIds /\ packs[sketch[u].pack].tenant = Picture!TenantOf(u)
    BY <1>3 DEF Picture!PackExists
  <2>2. sketch[u].pc = "pack" /\ sketch[u].answer = u
    BY <1>3 DEF Picture!PackExists, SketchInv
  <2>3. pc = "hash" => packing[sketch[u].pack].pc = "done"
    BY <2>1 DEF PackInv
  <2> QED BY <1>3, <2>1, <2>2, <2>3, SketchGoesOn DEF LooksOn, Picture!PackExists, Picture!rowVars, Picture!TenantOf
<1>4. ASSUME Picture!FindPicture(u) PROVE LooksOn(u)
  <2> DEFINE same == {e \in Picture!EmojiIds : emojis[e].tenant = Picture!TenantOf(u) /\ emojis[e].hash = sketch[u].picture}
  <2>1. sketch[u].pc = "hash" /\ sketch[u].answer = u
    BY <1>4 DEF Picture!FindPicture, SketchInv
  <2>2. CASE Picture!SketchGoes(u, "store")
    BY <1>4, <2>1, <2>2, SketchGoesOn DEF LooksOn, Picture!FindPicture, Picture!rowVars, PackInv, Picture!TenantOf
  <2>3. ASSUME NEW e \in same, sketch' = [sketch EXCEPT ![u].pc = "answered", ![u].answer = e] PROVE LooksOn(u)
    <3>1. sketch[u] \in SketchCall /\ e \in EmojiUploads
      BY <2>1, TenantOfArtist DEF EmojiType
    <3>2. /\ sketch' \in [EmojiUploads -> {Picture!Unset} \cup SketchCall]
          /\ sketch'[u].pc = "answered" /\ sketch'[u].answer = e
          /\ sketch'[u].user = sketch[u].user /\ sketch'[u].picture = sketch[u].picture
          /\ \A v \in EmojiUploads \ {u} : sketch'[v] = sketch[v]
      BY <2>3, <3>1 DEF EmojiType, SketchCall
    <3> QED BY <1>4, <2>1, <3>2 DEF LooksOn, Picture!FindPicture, Picture!rowVars, Picture!TenantOf
  <2> QED BY <1>4, <2>2, <2>3 DEF Picture!FindPicture
<1>5. ASSUME Picture!StorePicture(u) PROVE LooksOn(u)
  <2>1. sketch[u].pc = "store" /\ sketch[u].answer = u
    BY <1>5 DEF Picture!StorePicture, SketchInv
  <2>2. CASE Picture!SketchGoes(u, "insert") /\ pictures' = pictures \cup {u}
    BY <1>5, <2>1, <2>2, SketchGoesOn DEF LooksOn, Picture!StorePicture, Picture!rowVars, PackInv, Picture!TenantOf
  <2>3. CASE Picture!SketchGoes(u, "failed") /\ pictures' = pictures
    BY <1>5, <2>1, <2>3, SketchGoesOn DEF LooksOn, Picture!StorePicture, Picture!rowVars
  <2> QED BY <1>5, <2>2, <2>3 DEF Picture!StorePicture
<1> QED BY <1>1, <1>2, <1>3, <1>4, <1>5

LEMMA InsertStep == ASSUME EmojiInv, NEW u \in EmojiUploads, Picture!InsertEmoji(u) PROVE EmojiInv'
<1> USE DEF EmojiInv
<1>1. /\ sketch[u].pc = "insert" /\ sketch[u].answer = u /\ u \in pictures
      /\ u \notin Picture!EmojiIds /\ u \notin condemned
      /\ \A v \in EmojiUploads : v # u /\ sketch[v].pc = "answered" => sketch[v].answer # u
  BY DEF Picture!InsertEmoji, SketchInv
<1>2. UNCHANGED <<packs, packing, pictures, rubbing, condemned>>
  BY DEF Picture!InsertEmoji, Picture!packVars
<1>3. sketch[u] \in SketchCall /\ Picture!TenantOf(u) \in ArtistTenant
  BY <1>1, TenantOfArtist
<1>4. RubbingInv'
  BY <1>2 DEF RubbingInv
<1>5. CASE /\ Picture!SketchGoes(u, "answered") /\ littered' = littered
           /\ sketch[u].pack \in Picture!PackIds \cup {NoPack}
           /\ emojis' = Picture!With(emojis, u,
                 [tenant |-> Picture!TenantOf(u), creator |-> sketch[u].user, shortcode |-> sketch[u].shortcode,
                  pack |-> sketch[u].pack, hash |-> sketch[u].picture])
  <2>1. /\ sketch' \in [EmojiUploads -> {Picture!Unset} \cup SketchCall]
        /\ sketch'[u].pc = "answered" /\ sketch'[u].answer = u
        /\ sketch'[u].user = sketch[u].user /\ sketch'[u].picture = sketch[u].picture
        /\ \A v \in EmojiUploads \ {u} : sketch'[v] = sketch[v]
    BY <1>1, <1>5, SketchGoesOn
  <2>2. /\ Picture!EmojiIds' = Picture!EmojiIds \cup {u}
        /\ emojis' \in [Picture!EmojiIds' -> EmojiRow]
        /\ emojis'[u].tenant = Picture!TenantOf(u) /\ emojis'[u].hash = sketch[u].picture /\ emojis'[u].pack = sketch[u].pack
        /\ \A e \in Picture!EmojiIds : emojis'[e] = emojis[e]
    BY <1>1, <1>3, <1>5 DEF Picture!With, Picture!EmojiIds, EmojiType, EmojiRow, SketchCall
  <2>3. EmojiType'
    BY <1>2, <1>5, <2>1, <2>2 DEF EmojiType, Picture!PackIds
  <2>4. SketchInv'
    <3>1. \A v \in Picture!EmojiIds' \cup condemned' : sketch'[v].pc = "answered"
      BY <1>1, <1>2, <2>1, <2>2 DEF SketchInv, EmojiType
    <3>2. ASSUME NEW v \in EmojiUploads, v # u, sketch[v].pc = "answered" PROVE sketch'[sketch[v].answer].pc = "answered"
      <4>1. sketch[v].answer \in EmojiUploads /\ sketch[v].answer # u
        BY <1>1, <3>2 DEF EmojiType, SketchCall, Picture!Unset
      <4> QED BY <2>1, <3>2, <4>1 DEF SketchInv
    <3> QED BY <1>2, <2>1, <3>1, <3>2 DEF SketchInv
  <2>5. PackInv'
    BY <1>2, <2>1 DEF PackInv, Picture!PackIds, Picture!TenantOf
  <2>6. Picture!EmojisAreSound'
    <3>1. ASSUME NEW e \in Picture!EmojiIds'
          PROVE  /\ emojis'[e].pack = NoPack \/ (emojis'[e].pack \in Picture!PackIds /\ packs[emojis'[e].pack].tenant = emojis'[e].tenant)
                 /\ e \in pictures \cup condemned
      <4>1. CASE e = u
        BY <1>1, <1>5, <2>2, <4>1 DEF PackInv
      <4>2. CASE e # u
        BY <2>2, <4>2 DEF Picture!EmojisAreSound
      <4> QED BY <4>1, <4>2
    <3>2. ASSUME NEW v \in EmojiUploads, sketch'[v].pc = "answered", sketch'[v].answer \in Picture!EmojiIds'
          PROVE  /\ emojis'[sketch'[v].answer].tenant = Artists[sketch'[v].user]
                 /\ emojis'[sketch'[v].answer].hash = sketch'[v].picture
      <4>1. CASE v = u
        BY <2>1, <2>2, <4>1 DEF Picture!TenantOf
      <4>2. CASE v # u
        BY <1>1, <2>1, <2>2, <3>2, <4>2 DEF Picture!EmojisAreSound, Picture!TenantOf
      <4> QED BY <4>1, <4>2
    <3>3. \A v \in pictures \ littered : v \in Picture!EmojiIds' \/ sketch'[v].pc = "insert"
      BY <1>1, <2>1, <2>2 DEF Picture!EmojisAreSound, EmojiType
    <3> QED BY <1>2, <1>5, <3>1, <3>2, <3>3 DEF Picture!EmojisAreSound, Picture!PackIds, Picture!TenantOf
  <2> QED BY <1>4, <2>3, <2>4, <2>5, <2>6
<1>6. CASE Picture!SketchGoes(u, "failed") /\ littered' = littered \cup {u} /\ emojis' = emojis
  <2>1. /\ sketch' \in [EmojiUploads -> {Picture!Unset} \cup SketchCall]
        /\ sketch'[u].pc = "failed"
        /\ \A v \in EmojiUploads \ {u} : sketch'[v] = sketch[v]
    BY <1>1, <1>6, SketchGoesOn
  <2>2. EmojiType'
    BY <1>2, <1>6, <2>1 DEF EmojiType, Picture!PackIds, Picture!EmojiIds
  <2>3. SketchInv'
    <3>1. ASSUME NEW v \in EmojiUploads, v # u, sketch[v].pc = "answered" PROVE sketch'[sketch[v].answer].pc = "answered"
      <4>1. sketch[v].answer \in EmojiUploads /\ sketch[v].answer # u
        BY <1>1, <3>1 DEF EmojiType, SketchCall, Picture!Unset
      <4> QED BY <2>1, <3>1, <4>1 DEF SketchInv
    <3> QED BY <1>1, <1>2, <1>6, <2>1, <3>1 DEF SketchInv, Picture!EmojiIds, EmojiType
  <2>4. PackInv'
    BY <1>2, <2>1 DEF PackInv, Picture!PackIds, Picture!TenantOf
  <2>5. Picture!EmojisAreSound'
    BY <1>1, <1>2, <1>6, <2>1 DEF Picture!EmojisAreSound, Picture!PackIds, Picture!EmojiIds, Picture!TenantOf, EmojiType
  <2> QED BY <1>4, <2>2, <2>3, <2>4, <2>5
<1> QED BY <1>5, <1>6 DEF Picture!InsertEmoji

-----------------------------------------------------------------------------
LEMMA RubbingStep ==
    ASSUME EmojiInv, NEW d \in EmojiDeletes,
           \/ \E user \in DOMAIN Artists, e \in EmojiUploads : Picture!BeginRubbing(d, user, e)
           \/ Picture!DeletePicture(d) \/ Picture!DeleteEmojiRow(d)
    PROVE  EmojiInv'
<1> USE DEF EmojiInv
<1> DEFINE r == rubbing[d].row
<1>1. ASSUME rubbing[d].pc \in {"disk", "row"}
      PROVE  r \in EmojiUploads /\ r \in condemned /\ sketch[r].pc = "answered" /\ rubbing[d] \in RubbingCall
  BY <1>1 DEF EmojiType, RubbingCall, Refused, Picture!Unset, RubbingInv, SketchInv
<1>2. UNCHANGED <<packs, packing, sketch, littered>>
  BY DEF Picture!BeginRubbing, Picture!DeletePicture, Picture!DeleteEmojiRow, Picture!packVars
<1>3. ASSUME rubbing[d].pc \in {"disk", "row"}, NEW pc \in {"row", "done", "failed"}, rubbing' = [rubbing EXCEPT ![d].pc = pc]
      PROVE  /\ rubbing' \in [EmojiDeletes -> {Picture!Unset, Refused} \cup RubbingCall]
             /\ rubbing'[d].pc = pc /\ rubbing'[d].row = r
             /\ \A x \in EmojiDeletes \ {d} : rubbing'[x] = rubbing[x]
  BY <1>1, <1>3 DEF EmojiType, RubbingCall
<1>4. ASSUME NEW user \in DOMAIN Artists, NEW e \in EmojiUploads, Picture!BeginRubbing(d, user, e) PROVE EmojiInv'
  <2>1. UNCHANGED <<emojis, pictures>> /\ condemned \subseteq condemned' /\ condemned' \ condemned \subseteq Picture!EmojiIds
    BY <1>4 DEF Picture!BeginRubbing
  <2>2. /\ rubbing' \in [EmojiDeletes -> {Picture!Unset, Refused} \cup RubbingCall]
        /\ \A x \in EmojiDeletes \ {d} : rubbing'[x] = rubbing[x]
        /\ rubbing'[d].pc = "refused" \/ (rubbing'[d].pc = "disk" /\ rubbing'[d].row \in condemned')
    BY <1>4 DEF Picture!BeginRubbing, EmojiType, RubbingCall, Refused, Picture!Unset
  <2>3. EmojiType'
    BY <1>2, <2>1, <2>2 DEF EmojiType, Picture!EmojiIds, Picture!PackIds
  <2>4. SketchInv' /\ PackInv' /\ RubbingInv' /\ Picture!EmojisAreSound'
    BY <1>2, <2>1, <2>2 DEF SketchInv, PackInv, RubbingInv, Picture!EmojisAreSound, Picture!EmojiIds, Picture!PackIds, Picture!TenantOf
  <2> QED BY <2>3, <2>4
<1>5. ASSUME Picture!DeletePicture(d) PROVE EmojiInv'
  <2>1. /\ rubbing[d].pc = "disk" /\ UNCHANGED <<emojis, condemned>>
        /\ rubbing' \in [EmojiDeletes -> {Picture!Unset, Refused} \cup RubbingCall]
        /\ \A x \in EmojiDeletes \ {d} : rubbing'[x] = rubbing[x]
        /\ rubbing'[d].row = r
        /\ \/ pictures' = pictures \ {r} /\ rubbing'[d].pc = "row"
           \/ pictures' = pictures /\ rubbing'[d].pc = "failed"
    BY <1>3, <1>5 DEF Picture!DeletePicture
  <2>2. r \in condemned /\ sketch[r].pc = "answered"
    BY <1>1, <2>1
  <2>3. EmojiType'
    BY <1>2, <2>1 DEF EmojiType, Picture!EmojiIds, Picture!PackIds
  <2>4. SketchInv' /\ PackInv' /\ RubbingInv'
    BY <1>2, <2>1, <2>2 DEF SketchInv, PackInv, RubbingInv, Picture!EmojiIds, Picture!PackIds, Picture!TenantOf
  <2>5. Picture!EmojisAreSound'
    BY <1>2, <2>1, <2>2 DEF Picture!EmojisAreSound, Picture!EmojiIds, Picture!PackIds, Picture!TenantOf
  <2> QED BY <2>3, <2>4, <2>5
<1>6. ASSUME Picture!DeleteEmojiRow(d) PROVE EmojiInv'
  <2>1. /\ rubbing[d].pc = "row" /\ UNCHANGED <<pictures, condemned>>
        /\ rubbing' \in [EmojiDeletes -> {Picture!Unset, Refused} \cup RubbingCall]
        /\ \A x \in EmojiDeletes \ {d} : rubbing'[x] = rubbing[x]
        /\ rubbing'[d].row = r /\ rubbing'[d].pc \in {"done", "failed"}
        /\ emojis' = Picture!Without(emojis, r) \/ emojis' = emojis
    BY <1>3, <1>6 DEF Picture!DeleteEmojiRow
  <2>2. r \notin pictures
    BY <2>1 DEF RubbingInv
  <2>3. /\ Picture!EmojiIds' \in {Picture!EmojiIds, Picture!EmojiIds \ {r}}
        /\ emojis' \in [Picture!EmojiIds' -> EmojiRow]
        /\ \A e \in Picture!EmojiIds' : emojis'[e] = emojis[e]
    BY <2>1 DEF Picture!Without, Picture!EmojiIds, EmojiType
  <2>4. EmojiType'
    BY <1>2, <2>1, <2>3 DEF EmojiType, Picture!PackIds
  <2>5. SketchInv' /\ PackInv' /\ RubbingInv'
    BY <1>2, <2>1, <2>3 DEF SketchInv, PackInv, RubbingInv, Picture!PackIds, Picture!TenantOf
  <2>6. Picture!EmojisAreSound'
    BY <1>2, <2>1, <2>2, <2>3 DEF Picture!EmojisAreSound, Picture!PackIds, Picture!TenantOf
  <2> QED BY <2>4, <2>5, <2>6
<1> QED BY <1>4, <1>5, <1>6

-----------------------------------------------------------------------------
\* Whatever a request about packs does, it moves one record that was not done
\* and leaves the uploads alone.
PackStepOf(x) ==
    /\ x \in Packs \cup PackEdits /\ packing[x].pc # "done"
    /\ packing' \in [Packs \cup PackEdits -> {Picture!Unset, Refused} \cup PackMaking \cup PackEdit]
    /\ \A y \in (Packs \cup PackEdits) \ {x} : packing'[y] = packing[y]
    /\ UNCHANGED <<pictures, sketch, rubbing, littered, condemned>>

LEMMA PackStepRest == ASSUME EmojiInv, NEW x, PackStepOf(x), Picture!EmojiIds' = Picture!EmojiIds PROVE SketchInv' /\ RubbingInv'
BY DEF EmojiInv, PackStepOf, SketchInv, RubbingInv

\* The rows of emojis stand still, those of packs keep their tenants.
LEMMA PacksKept ==
    ASSUME EmojiInv, NEW x, PackStepOf(x), emojis' = emojis,
           Picture!PackIds' \subseteq Packs, packs' \in [Picture!PackIds' -> PackRow],
           Picture!PackIds \subseteq Picture!PackIds', \A k \in Picture!PackIds : packs'[k].tenant = packs[k].tenant,
           Picture!PackIds' \subseteq Picture!PackIds \cup {x}, x \in Picture!PackIds' => packing'[x].pc = "done"
    PROVE  EmojiInv'
<1> USE DEF EmojiInv, PackStepOf
<1>0. Picture!EmojiIds' = Picture!EmojiIds
  BY DEF Picture!EmojiIds
<1>1. EmojiType'
  BY <1>0 DEF EmojiType
<1>2. PackInv'
  <2>1. \A k \in Picture!PackIds' : packing'[k].pc = "done"
    BY DEF PackInv, EmojiType
  <2>2. ASSUME NEW u \in EmojiUploads, sketch[u].pc \in {"hash", "store", "insert"}, sketch[u].pack # NoPack
        PROVE  /\ packing'[sketch[u].pack].pc = "done"
               /\ sketch[u].pack \in Picture!PackIds' => packs'[sketch[u].pack].tenant = Picture!TenantOf(u)
    <3>1. sketch[u].pack \in Packs /\ packing[sketch[u].pack].pc = "done"
      BY <2>2, TenantOfArtist DEF PackInv, SketchCall
    <3> QED BY <2>2, <3>1 DEF PackInv
  <2> QED BY <2>1, <2>2 DEF PackInv, Picture!TenantOf
<1>3. Picture!EmojisAreSound'
  BY <1>0 DEF Picture!EmojisAreSound, Picture!TenantOf
<1> QED BY <1>0, <1>1, <1>2, <1>3, PackStepRest

LEMMA PackStep ==
    ASSUME EmojiInv,
           \/ \E k \in Packs : Picture!CreatePack(k) \/ \E user \in DOMAIN Artists, n \in PackNames : Picture!PackNameExists(k, user, n)
           \/ \E x \in PackEdits :
                 \/ \E user \in DOMAIN Artists, k \in Packs, w \in {"update", "delete"} : Picture!GetPack(x, user, k, w)
                 \/ \E n \in PackNames : Picture!UpdatePack(x, n)
                 \/ Picture!DeletePack(x)
    PROVE  EmojiInv'
<1> USE DEF EmojiInv
<1>1. ASSUME NEW k \in Packs, NEW user \in DOMAIN Artists, NEW n \in PackNames, Picture!PackNameExists(k, user, n) PROVE EmojiInv'
  <2>1. PackStepOf(k) /\ UNCHANGED <<emojis, packs>>
    BY <1>1 DEF Picture!PackNameExists, Picture!emojiSide, PackStepOf, EmojiType, PackMaking
  <2>2. k \notin Picture!PackIds
    BY <1>1 DEF Picture!PackNameExists, PackInv
  <2> QED BY <2>1, <2>2, PacksKept DEF Picture!PackIds, EmojiType
<1>2. ASSUME NEW x \in PackEdits, NEW user \in DOMAIN Artists, NEW k \in Packs, NEW w \in {"update", "delete"},
             Picture!GetPack(x, user, k, w)
      PROVE  EmojiInv'
  <2>1. k \in Picture!PackIds => packs[k] \in PackRow
    BY DEF EmojiType
  <2>2. PackStepOf(x) /\ UNCHANGED <<emojis, packs>>
    BY <1>2, <2>1 DEF Picture!GetPack, Picture!emojiSide, PackStepOf, EmojiType, PackEdit, Refused
  <2>3. x \notin Picture!PackIds
    BY <1>2 DEF Picture!GetPack, PackInv
  <2> QED BY <2>2, <2>3, PacksKept DEF Picture!PackIds, EmojiType
<1>3. ASSUME NEW k \in Packs, Picture!CreatePack(k) PROVE EmojiInv'
  <2>1. packing[k].pc = "insert" /\ packing[k] \in PackMaking
    BY <1>3 DEF Picture!CreatePack, EmojiType, PackMaking, PackEdit, Refused, Picture!Unset
  <2>2. k \notin Picture!PackIds
    BY <2>1 DEF PackInv
  <2>3. CASE Picture!PackingGoes(k, "failed") /\ packs' = packs
    <3>1. PackStepOf(k) /\ emojis' = emojis
      BY <1>3, <2>1, <2>3, PackingGoesOn DEF PackStepOf, Picture!CreatePack, Picture!emojiSide
    <3> QED BY <2>2, <2>3, <3>1, PacksKept DEF Picture!PackIds, EmojiType
  <2>4. CASE /\ Picture!PackingGoes(k, "done")
             /\ packs' = Picture!With(packs, k, [tenant |-> Artists[packing[k].user], creator |-> packing[k].user,
                                                 name |-> packing[k].name])
    <3>1. PackStepOf(k) /\ emojis' = emojis /\ packing'[k].pc = "done"
      BY <1>3, <2>1, <2>4, PackingGoesOn DEF PackStepOf, Picture!CreatePack, Picture!emojiSide
    <3>2. [tenant |-> Artists[packing[k].user], creator |-> packing[k].user, name |-> packing[k].name] \in PackRow
      BY <2>1 DEF PackMaking, PackRow, ArtistTenant
    <3>3. /\ Picture!PackIds' = Picture!PackIds \cup {k} /\ packs' \in [Picture!PackIds' -> PackRow]
          /\ \A y \in Picture!PackIds : packs'[y] = packs[y]
      BY <2>2, <2>4, <3>2 DEF Picture!With, Picture!PackIds, EmojiType
    <3> QED BY <3>1, <3>3, PacksKept DEF EmojiType
  <2> QED BY <1>3, <2>3, <2>4 DEF Picture!CreatePack
<1>4. ASSUME NEW x \in PackEdits, packing[x].pc \in {"update", "delete"}
      PROVE  packing[x] \in PackEdit /\ packing[x].pack \in Packs /\ x \notin Picture!PackIds
  BY <1>4 DEF EmojiType, PackMaking, PackEdit, Refused, Picture!Unset, PackInv
<1>5. ASSUME NEW x \in PackEdits, NEW n \in PackNames, Picture!UpdatePack(x, n) PROVE EmojiInv'
  <2> DEFINE k == packing[x].pack
  <2>1. packing[x].pc = "update" /\ k \in Packs /\ x \notin Picture!PackIds
    BY <1>4, <1>5 DEF Picture!UpdatePack
  <2>2. PackStepOf(x) /\ emojis' = emojis
    BY <1>5, <2>1, PackingGoesOn DEF PackStepOf, Picture!UpdatePack, Picture!emojiSide
  <2>3. packs' = packs \/ (k \in Picture!PackIds /\ packs' = [packs EXCEPT ![k].name = n])
    BY <1>5 DEF Picture!UpdatePack
  <2>4. /\ Picture!PackIds' = Picture!PackIds /\ packs' \in [Picture!PackIds' -> PackRow]
        /\ \A y \in Picture!PackIds : packs'[y].tenant = packs[y].tenant
    BY <2>3 DEF EmojiType, PackRow, Picture!PackIds
  <2> QED BY <2>1, <2>2, <2>4, PacksKept DEF EmojiType
<1>6. ASSUME NEW x \in PackEdits, Picture!DeletePack(x) PROVE EmojiInv'
  <2> DEFINE k == packing[x].pack
  <2>1. packing[x].pc = "delete" /\ k \in Packs /\ x \notin Picture!PackIds
    BY <1>4, <1>6 DEF Picture!DeletePack
  <2>2. PackStepOf(x)
    BY <1>6, <2>1, PackingGoesOn DEF PackStepOf, Picture!DeletePack, Picture!emojiSide
  <2>3. /\ Picture!PackIds' = Picture!PackIds \ {k} /\ packs' \in [Picture!PackIds' -> PackRow]
        /\ \A y \in Picture!PackIds' : packs'[y] = packs[y]
    BY <1>6 DEF Picture!DeletePack, Picture!Without, Picture!PackIds, EmojiType
  <2>4. emojis' = [e \in Picture!EmojiIds |-> IF emojis[e].pack = k THEN [emojis[e] EXCEPT !.pack = NoPack] ELSE emojis[e]]
    BY <1>6 DEF Picture!DeletePack
  <2>5. Picture!EmojiIds' = Picture!EmojiIds
    BY <2>4 DEF Picture!EmojiIds
  <2>6. \A e \in Picture!EmojiIds :
           /\ emojis'[e] \in EmojiRow /\ emojis'[e].tenant = emojis[e].tenant /\ emojis'[e].hash = emojis[e].hash
           /\ emojis'[e].pack = NoPack \/ (emojis'[e].pack = emojis[e].pack /\ emojis[e].pack # k)
    <3> SUFFICES ASSUME NEW e \in Picture!EmojiIds
                 PROVE  /\ emojis'[e] \in EmojiRow /\ emojis'[e].tenant = emojis[e].tenant /\ emojis'[e].hash = emojis[e].hash
                        /\ emojis'[e].pack = NoPack \/ (emojis'[e].pack = emojis[e].pack /\ emojis[e].pack # k)
      OBVIOUS
    <3>1. emojis[e] \in EmojiRow
      BY DEF EmojiType
    <3>2. emojis'[e] = IF emojis[e].pack = k THEN [emojis[e] EXCEPT !.pack = NoPack] ELSE emojis[e]
      BY <2>4
    <3> HIDE DEF k
    <3> QED BY <3>1, <3>2 DEF EmojiRow
  <2>7. EmojiType'
    BY <2>2, <2>3, <2>4, <2>5, <2>6 DEF EmojiType, PackStepOf
  <2>8. PackInv'
    <3>1. \A y \in Picture!PackIds' : packing'[y].pc = "done"
      BY <2>1, <2>2, <2>3 DEF PackInv, PackStepOf, EmojiType
    <3>2. ASSUME NEW u \in EmojiUploads, sketch[u].pc \in {"hash", "store", "insert"}, sketch[u].pack # NoPack
          PROVE  /\ packing'[sketch[u].pack].pc = "done"
                 /\ sketch[u].pack \in Picture!PackIds' => packs'[sketch[u].pack].tenant = Picture!TenantOf(u)
      <4>1. sketch[u].pack \in Packs /\ packing[sketch[u].pack].pc = "done"
        BY <3>2, TenantOfArtist DEF PackInv, SketchCall
      <4> QED BY <2>2, <2>3, <3>2, <4>1 DEF PackInv, PackStepOf
    <3> QED BY <2>2, <3>1, <3>2 DEF PackInv, Picture!TenantOf, PackStepOf
  <2>9. Picture!EmojisAreSound'
    BY <2>2, <2>3, <2>5, <2>6 DEF Picture!EmojisAreSound, Picture!TenantOf, PackStepOf
  <2> QED BY <2>2, <2>5, <2>7, <2>8, <2>9, PackStepRest
<1> QED BY <1>1, <1>2, <1>3, <1>5, <1>6

LEMMA EmojiStep == EmojiInv /\ [Picture!Next]_emojiVars => EmojiInv'
<1>1. EmojiInv /\ UNCHANGED emojiVars => EmojiInv'
  BY DEF EmojiInv, EmojiType, SketchInv, PackInv, RubbingInv, Picture!EmojisAreSound, Picture!EmojiIds, Picture!PackIds,
         Picture!TenantOf, emojiVars
<1> QED BY <1>1, SketchStep, InsertStep, RubbingStep, PackStep DEF Picture!Next

\* emoji/service.rs: although every call looks first and writes later, an emoji is in no
\* pack or in one of its tenant that exists, has its picture until a deletion of it
\* began, and an answered upload gets an emoji of its own tenant with its picture.
THEOREM EmojisStaySound == Picture!Spec => [](Picture!TypeOK /\ Picture!EmojisAreSound)
<1>1. EmojiInv /\ [Picture!Next]_Picture!emojiVars => EmojiInv'
  BY EmojiStep DEF Picture!emojiVars, emojiVars
<1> QED BY EmojiInit, <1>1, EmojiFacts, PTL DEF Picture!Spec

\* The same where emoji and packs run one at a time.
THEOREM EmojisStayInTheirTenant == PartsSpec => []EmojisAreSound
<1> DEFINE Inv == part \in EmojiParts => EmojiInv
<1>1. PartsInit => Inv
  BY EmojiInit DEF PartsInit
<1>2. Inv /\ [PartsNext]_partsVars => Inv'
  <2> SUFFICES ASSUME Inv, [PartsNext]_partsVars, part' \in EmojiParts PROVE EmojiInv'
    OBVIOUS
  <2>1. part \in EmojiParts /\ [Picture!Next]_emojiVars
    BY DEF PartsNext, partsVars, EmojiNext
  <2> QED BY <2>1, EmojiStep
<1>3. Inv => EmojisAreSound
  BY EmojiFacts DEF EmojisAreSound
<1> QED BY <1>1, <1>2, <1>3, PTL DEF PartsSpec

(***************************************************************************)
(* Attachments                                                             *)
(***************************************************************************)
UploadState ==
    {File!NoUpload} \cup
    [pc : {"find", "refused", "answered", "store", "thumbnail", "insert", "failed"},
     user : Uploaders, bytes : Bytes, thumb : BOOLEAN, row : Uploads]

RemovalState ==
    {File!NoUpload, [pc |-> "refused"]} \cup
    [pc : {"file", "thumbnail", "row", "failed", "done"}, row : Uploads, thumb : BOOLEAN]

AttachmentRow == [uploader : Uploaders, hash : Bytes, thumb : BOOLEAN]

\* The types, with those of the calls on their way.
FileType ==
    /\ File!Rows \subseteq Uploads /\ attachments \in [File!Rows -> AttachmentRow]
    /\ files \subseteq Uploads \X {"main", "thumb"} /\ orphaned \subseteq Uploads \X {"main", "thumb"}
    /\ upload \in [Uploads -> UploadState] /\ removal \in [Deletes -> RemovalState]
    /\ participants \subseteq Uploaders /\ doomed \subseteq Uploads

Storing == {u \in Uploads : upload[u].pc \in {"thumbnail", "insert"}}

\* A row is only of an upload that was answered, a doomed one too; one on its
\* way has stored its file, and its thumbnail if and only if it says so.
UploadsInv ==
    /\ \A u \in Uploads : upload[u].pc \in {"find", "store"} => ~upload[u].thumb
    /\ \A u \in File!Rows \cup doomed : upload[u].pc = "answered"
    /\ \A u \in Storing : 
          /\ <<u, "main">> \in files
          /\ upload[u].thumb => <<u, "thumb">> \in files
          /\ <<u, "thumb">> \in files \ orphaned => upload[u].thumb

\* What a deletion has passed is gone, or known to be left behind.
RemovalsInv ==
    \A d \in Deletes :
       /\ removal[d].pc \in {"file", "thumbnail", "row"} => removal[d].row \in doomed
       /\ removal[d].pc \in {"thumbnail", "row"} => <<removal[d].row, "main">> \notin files
       /\ removal[d].pc = "row" => <<removal[d].row, "thumb">> \notin files \ orphaned

FileInv == FileType /\ UploadsInv /\ RemovalsInv /\ File!RowsAndFilesAgree

LEMMA FileInit == File!Init => FileInv
BY DEF File!Init, FileInv, FileType, UploadsInv, RemovalsInv, File!RowsAndFilesAgree, File!Rows, File!NoUpload,
       UploadState, RemovalState, Storing, File!FilesOf

LEMMA FileTypeStep == FileType /\ [File!Next]_attachmentVars => FileType'
<1> SUFFICES ASSUME FileType, [File!Next]_attachmentVars PROVE FileType'
  OBVIOUS
<1> USE DEF FileType, File!Rows
<1>1. ASSUME NEW u \in Uploads, File!Upload(u) PROVE FileType'
  <2> USE DEF File!UploadGoes, UploadState
  <2>1. ASSUME NEW user \in Uploaders, NEW bytes \in Bytes, File!BeginUpload(u, user, bytes) PROVE FileType'
    BY <2>1 DEF File!BeginUpload
  <2>2. ASSUME File!FindByHash(u) PROVE FileType'
    BY <2>2 DEF File!FindByHash, File!NoUpload
  <2>3. ASSUME File!StoreFile(u) PROVE FileType'
    BY <2>3 DEF File!StoreFile, File!NoUpload
  <2>4. ASSUME File!StoreThumbnail(u) PROVE FileType'
    BY <2>4 DEF File!StoreThumbnail, File!NoUpload
  <2>5. ASSUME File!InsertAttachment(u) PROVE FileType'
    BY <2>5 DEF File!InsertAttachment, File!NoUpload, AttachmentRow, File!FilesOf
  <2>6. ASSUME File!UploadDies(u) PROVE FileType'
    BY <2>6 DEF File!UploadDies, File!NoUpload, File!FilesOf
  <2> QED BY <1>1, <2>1, <2>2, <2>3, <2>4, <2>5, <2>6 DEF File!Upload
<1>2. ASSUME NEW d \in Deletes, File!Delete(d) PROVE FileType'
  <2> USE DEF File!RemovalGoes, RemovalState, File!NoUpload
  <2>1. ASSUME NEW user \in Uploaders, NEW a \in Uploads, File!BeginDelete(d, user, a) PROVE FileType'
    BY <2>1 DEF File!BeginDelete, AttachmentRow
  <2>2. ASSUME File!DeleteFile(d) PROVE FileType'
    BY <2>2 DEF File!DeleteFile
  <2>3. ASSUME File!DeleteThumbnail(d) PROVE FileType'
    BY <2>3 DEF File!DeleteThumbnail
  <2>4. ASSUME File!DeleteRow(d) PROVE FileType'
    BY <2>4 DEF File!DeleteRow
  <2> QED BY <1>2, <2>1, <2>2, <2>3, <2>4 DEF File!Delete
<1>3. ASSUME NEW user \in Uploaders, File!Depart(user) \/ File!DeleteAttachmentRecords(user) PROVE FileType'
  BY <1>3 DEF File!Depart, File!DeleteAttachmentRecords, File!FilesOf
<1>4. ASSUME UNCHANGED attachmentVars PROVE FileType'
  BY <1>4 DEF attachmentVars
<1> QED BY <1>1, <1>2, <1>3, <1>4 DEF File!Next

(* A call goes to another step and keeps the rest of what it knows.        *)
LEMMA UploadGoesOn ==
    ASSUME FileType, NEW u \in Uploads, upload[u].pc # "idle", NEW pc, File!UploadGoes(u, pc)
    PROVE  /\ upload'[u].pc = pc /\ upload'[u].thumb = upload[u].thumb
           /\ \A v \in Uploads \ {u} : upload'[v] = upload[v]
BY DEF FileType, UploadState, File!UploadGoes, File!NoUpload

LEMMA RemovalGoesOn ==
    ASSUME FileType, NEW d \in Deletes, removal[d].pc \notin {"idle", "refused"}, NEW pc, File!RemovalGoes(d, pc)
    PROVE  /\ removal'[d].pc = pc /\ removal'[d].row = removal[d].row /\ removal[d].row \in Uploads
           /\ \A e \in Deletes \ {d} : removal'[e] = removal[e]
BY DEF FileType, RemovalState, File!RemovalGoes, File!NoUpload

LEMMA FileNames == ASSUME FileType, NEW f \in files PROVE f \in {<<f[1], "main">>, <<f[1], "thumb">>}
BY DEF FileType

LEMMA UploadStep ==
    ASSUME FileInv, FileType', NEW u \in Uploads, File!Upload(u)
    PROVE  UploadsInv' /\ RemovalsInv' /\ File!RowsAndFilesAgree'
<1> USE DEF FileInv
<1> DEFINE Goal == UploadsInv' /\ RemovalsInv' /\ File!RowsAndFilesAgree'
<1>1. ASSUME NEW user \in Uploaders, NEW bytes \in Bytes, File!BeginUpload(u, user, bytes) PROVE Goal
  <2>1. /\ upload'[u].pc \in {"find", "refused"} /\ ~upload'[u].thumb /\ upload[u].pc = "idle"
        /\ \A v \in Uploads \ {u} : upload'[v] = upload[v]
    BY <1>1 DEF File!BeginUpload, FileType
  <2> QED BY <1>1, <2>1 DEF File!BeginUpload, UploadsInv, Storing, RemovalsInv, File!RowsAndFilesAgree, File!Rows, FileType
<1>2. ASSUME File!FindByHash(u) PROVE Goal
  <2>1. /\ upload'[u].pc \in {"store", "answered"} /\ upload[u].pc = "find" /\ upload'[u].thumb = upload[u].thumb
        /\ \A v \in Uploads \ {u} : upload'[v] = upload[v]
    BY <1>2 DEF File!FindByHash, File!UploadGoes, FileType, UploadState, File!NoUpload
  <2> QED BY <1>2, <2>1 DEF File!FindByHash, UploadsInv, Storing, RemovalsInv, File!RowsAndFilesAgree, File!Rows, FileType
<1>3. ASSUME File!StoreFile(u) PROVE Goal
  <2>1. /\ upload[u].pc = "store" /\ upload'[u].thumb = upload[u].thumb
        /\ \A v \in Uploads \ {u} : upload'[v] = upload[v]
        /\ \/ upload'[u].pc = "thumbnail" /\ files' = files \cup {<<u, "main">>} /\ orphaned' = orphaned
           \/ upload'[u].pc = "failed" /\ files' = files /\ orphaned' = orphaned
           \/ upload'[u].pc = "failed" /\ files' = files \cup {<<u, "main">>} /\ orphaned' = orphaned \cup {<<u, "main">>}
    BY <1>3, UploadGoesOn DEF File!StoreFile
  <2>2. u \notin File!Rows \cup doomed
    BY <2>1 DEF UploadsInv
  <2>6. <<u, "thumb">> \notin files \ orphaned
    <3>1. <<u, "thumb">>[1] = u
      OBVIOUS
    <3> QED BY <2>1, <2>2, <3>1 DEF File!RowsAndFilesAgree
  <2>3. UploadsInv'
    BY <1>3, <2>1, <2>2, <2>6 DEF File!StoreFile, UploadsInv, Storing, File!Rows, FileType
  <2>4. RemovalsInv'
    BY <1>3, <2>1, <2>2 DEF File!StoreFile, RemovalsInv
  <2>5. File!RowsAndFilesAgree'
    BY <1>3, <2>1, <2>2 DEF File!StoreFile, File!RowsAndFilesAgree, File!Rows, FileType
  <2> QED BY <2>3, <2>4, <2>5
<1>4. ASSUME File!StoreThumbnail(u) PROVE Goal
  <2>1. /\ upload[u].pc = "thumbnail" /\ upload'[u].pc = "insert"
        /\ \A v \in Uploads \ {u} : upload'[v] = upload[v]
        /\ \/ upload'[u].thumb = TRUE /\ files' = files \cup {<<u, "thumb">>}
           \/ upload'[u].thumb = upload[u].thumb /\ files' = files
    BY <1>4, UploadGoesOn DEF File!StoreThumbnail, FileType, UploadState, File!NoUpload
  <2>2. u \notin File!Rows \cup doomed
    BY <2>1 DEF UploadsInv
  <2>3. UploadsInv'
    BY <1>4, <2>1, <2>2 DEF File!StoreThumbnail, UploadsInv, Storing, File!Rows, FileType
  <2>4. RemovalsInv'
    BY <1>4, <2>1, <2>2 DEF File!StoreThumbnail, RemovalsInv
  <2>5. File!RowsAndFilesAgree'
    BY <1>4, <2>1, <2>2 DEF File!StoreThumbnail, File!RowsAndFilesAgree, File!Rows, FileType
  <2> QED BY <2>3, <2>4, <2>5
<1>5. ASSUME u \in Storing, upload'[u].pc = "failed",
             \A v \in Uploads \ {u} : upload'[v] = upload[v],
             orphaned' = orphaned \cup File!FilesOf(u, upload[u].thumb),
             UNCHANGED <<attachments, files, removal, doomed>>
      PROVE  Goal
  <2>1. u \notin File!Rows \cup doomed
    BY <1>5 DEF UploadsInv, Storing
  <2>2. UploadsInv'
    BY <1>5, <2>1 DEF UploadsInv, Storing, File!Rows, FileType
  <2>3. RemovalsInv'
    BY <1>5 DEF RemovalsInv
  <2>4. \A f \in files \ orphaned' : f \in files \ orphaned /\ f[1] # u
    BY <1>5, FileNames DEF File!FilesOf, UploadsInv
  <2>5. File!RowsAndFilesAgree'
    BY <1>5, <2>1, <2>4 DEF File!RowsAndFilesAgree, File!Rows, FileType
  <2> QED BY <2>2, <2>3, <2>5
<1>6. ASSUME File!InsertAttachment(u) PROVE Goal
  <2>1. /\ upload[u].pc = "insert" /\ upload'[u].pc \in {"answered", "failed"}
        /\ \A v \in Uploads \ {u} : upload'[v] = upload[v]
    BY <1>6, UploadGoesOn DEF File!InsertAttachment
  <2>2. u \in Storing /\ u \notin File!Rows \cup doomed
    BY <2>1 DEF UploadsInv, Storing
  <2>3. CASE File!UploadGoes(u, "failed")
    <3>1. upload'[u].pc = "failed"
      BY <2>1, <2>3, UploadGoesOn
    <3>2. attachments' = attachments /\ orphaned' = orphaned \cup File!FilesOf(u, upload[u].thumb)
      BY <1>6, <2>1, <3>1, UploadGoesOn DEF File!InsertAttachment
    <3> QED BY <1>5, <1>6, <2>1, <2>2, <3>1, <3>2 DEF File!InsertAttachment
  <2>4. CASE File!UploadGoes(u, "answered")
    <3>1. upload'[u].pc = "answered"
      BY <2>1, <2>4, UploadGoesOn
    <3>2. /\ attachments' = [r \in File!Rows \cup {u} |->
                 IF r = u THEN [uploader |-> upload[u].user, hash |-> upload[u].bytes, thumb |-> upload[u].thumb]
                 ELSE attachments[r]]
          /\ orphaned' = orphaned
      BY <1>6, <2>1, <3>1, UploadGoesOn DEF File!InsertAttachment
    <3>3. /\ File!Rows' = File!Rows \cup {u} /\ attachments'[u].thumb = upload[u].thumb
          /\ \A r \in File!Rows : attachments'[r] = attachments[r]
      BY <2>2, <3>2 DEF File!Rows
    <3>4. UploadsInv'
      BY <1>6, <2>1, <2>2, <3>1, <3>2, <3>3 DEF File!InsertAttachment, UploadsInv, Storing, FileType
    <3>5. RemovalsInv'
      BY <1>6, <3>2 DEF File!InsertAttachment, RemovalsInv
    <3>6. \A f \in files \ orphaned : f[1] = u => f \in File!FilesOf(u, upload[u].thumb)
      BY <2>2, FileNames DEF File!FilesOf, UploadsInv
    <3>7. File!FilesOf(u, upload[u].thumb) \subseteq files
      BY <2>2 DEF File!FilesOf, UploadsInv
    <3>8. File!RowsAndFilesAgree'
      BY <1>6, <2>1, <2>2, <3>1, <3>2, <3>3, <3>6, <3>7 DEF File!InsertAttachment, File!RowsAndFilesAgree, FileType
    <3> QED BY <3>4, <3>5, <3>8
  <2> QED BY <1>6, <2>3, <2>4 DEF File!InsertAttachment
<1>7. ASSUME File!UploadDies(u) PROVE Goal
  BY <1>5, <1>7, UploadGoesOn DEF File!UploadDies, Storing
<1> QED BY <1>1, <1>2, <1>3, <1>4, <1>6, <1>7 DEF File!Upload

LEMMA RemovalStep ==
    ASSUME FileInv, FileType', NEW d \in Deletes, File!Delete(d)
    PROVE  UploadsInv' /\ RemovalsInv' /\ File!RowsAndFilesAgree'
<1> USE DEF FileInv
<1> DEFINE Goal == UploadsInv' /\ RemovalsInv' /\ File!RowsAndFilesAgree'
<1>1. ASSUME NEW user \in Uploaders, NEW a \in Uploads, File!BeginDelete(d, user, a) PROVE Goal
  BY <1>1 DEF File!BeginDelete, File!RemovalGoes, UploadsInv, Storing, RemovalsInv, File!RowsAndFilesAgree,
              File!Rows, FileType, RemovalState, File!NoUpload
<1> DEFINE r == removal[d].row
<1>2. ASSUME removal[d].pc \in {"file", "thumbnail", "row"} PROVE r \in doomed /\ r \notin Storing /\ r \in Uploads
  BY <1>2 DEF RemovalsInv, UploadsInv, Storing, FileType
<1>3. ASSUME File!DeleteFile(d) PROVE Goal
  <2>1. /\ removal[d].pc = "file" /\ removal'[d].row = r /\ removal'[d].pc \in {"thumbnail", "failed"}
        /\ \A e \in Deletes \ {d} : removal'[e] = removal[e]
        /\ \/ files' = files \ {<<r, "main">>} 
           \/ files' = files /\ removal'[d].pc = "failed"
    <3>1. CASE File!RemovalGoes(d, "thumbnail") /\ files' = files \ {<<r, "main">>}
      BY <1>3, <3>1, RemovalGoesOn DEF File!DeleteFile
    <3>2. CASE File!RemovalGoes(d, "failed") /\ files' = files
      BY <1>3, <3>2, RemovalGoesOn DEF File!DeleteFile
    <3> QED BY <1>3, <3>1, <3>2 DEF File!DeleteFile
  <2>2. UploadsInv'
    BY <1>2, <1>3, <2>1 DEF File!DeleteFile, UploadsInv, Storing, File!Rows
  <2>3. RemovalsInv'
    BY <1>2, <1>3, <2>1 DEF File!DeleteFile, RemovalsInv
  <2>4. File!RowsAndFilesAgree'
    BY <1>2, <1>3, <2>1 DEF File!DeleteFile, File!RowsAndFilesAgree, File!FilesOf, File!Rows, UploadsInv
  <2> QED BY <2>2, <2>3, <2>4
<1>4. ASSUME File!DeleteThumbnail(d) PROVE Goal
  <2>1. /\ removal[d].pc = "thumbnail" /\ removal'[d].row = r /\ removal'[d].pc = "row"
        /\ \A e \in Deletes \ {d} : removal'[e] = removal[e]
        /\ \/ files' = files \ {<<r, "thumb">>} /\ orphaned' = orphaned
           \/ files' = files /\ orphaned' = orphaned \cup {<<r, "thumb">>}
    BY <1>4, RemovalGoesOn DEF File!DeleteThumbnail
  <2>2. UploadsInv'
    BY <1>2, <1>4, <2>1 DEF File!DeleteThumbnail, UploadsInv, Storing, File!Rows
  <2>3. RemovalsInv'
    BY <1>2, <1>4, <2>1 DEF File!DeleteThumbnail, RemovalsInv
  <2>4. File!RowsAndFilesAgree'
    BY <1>2, <1>4, <2>1 DEF File!DeleteThumbnail, File!RowsAndFilesAgree, File!FilesOf, File!Rows, UploadsInv
  <2> QED BY <2>2, <2>3, <2>4
<1>5. ASSUME File!DeleteRow(d) PROVE Goal
  <2>1. /\ removal[d].pc = "row" /\ removal'[d].row = r /\ removal'[d].pc \in {"done", "failed"}
        /\ \A e \in Deletes \ {d} : removal'[e] = removal[e]
        /\ \/ attachments' = [s \in File!Rows \ {r} |-> attachments[s]]
           \/ attachments' = attachments
    BY <1>5, RemovalGoesOn DEF File!DeleteRow
  <2>2. /\ File!Rows' \in {File!Rows, File!Rows \ {r}}
        /\ \A s \in File!Rows' : attachments'[s] = attachments[s]
    BY <2>1 DEF File!Rows
  <2>3. UploadsInv'
    BY <1>5, <2>2 DEF File!DeleteRow, UploadsInv, Storing
  <2>4. RemovalsInv'
    BY <1>2, <1>5, <2>1 DEF File!DeleteRow, RemovalsInv
  <2>5. \A f \in files \ orphaned : f[1] # r
    BY <1>2, <2>1, FileNames DEF RemovalsInv
  <2>6. File!RowsAndFilesAgree'
    BY <1>2, <1>5, <2>2, <2>5 DEF File!DeleteRow, File!RowsAndFilesAgree, File!FilesOf
  <2> QED BY <2>3, <2>4, <2>6
<1> QED BY <1>1, <1>3, <1>4, <1>5 DEF File!Delete

LEMMA FileStep == FileInv /\ [File!Next]_attachmentVars => FileInv'
<1> SUFFICES ASSUME FileInv, [File!Next]_attachmentVars PROVE UploadsInv' /\ RemovalsInv' /\ File!RowsAndFilesAgree'
  BY FileTypeStep DEF FileInv
<1>1. FileType'
  BY FileTypeStep DEF FileInv
<1>2. ASSUME NEW user \in Uploaders, File!Depart(user) PROVE UploadsInv' /\ RemovalsInv' /\ File!RowsAndFilesAgree'
  BY <1>2 DEF File!Depart, FileInv, UploadsInv, Storing, RemovalsInv, File!RowsAndFilesAgree, File!Rows
<1>3. ASSUME NEW user \in Uploaders, File!DeleteAttachmentRecords(user)
      PROVE  UploadsInv' /\ RemovalsInv' /\ File!RowsAndFilesAgree'
  <2> DEFINE theirs == {r \in File!Rows : attachments[r].uploader = user}
  <2>1. /\ File!Rows' = File!Rows \ theirs /\ \A r \in File!Rows' : attachments'[r] = attachments[r]
        /\ \A r \in theirs : File!FilesOf(r, attachments[r].thumb) \subseteq orphaned'
        /\ orphaned \subseteq orphaned'
    BY <1>3 DEF File!DeleteAttachmentRecords, File!Rows
  <2>2. UploadsInv'
    BY <1>3, <2>1 DEF File!DeleteAttachmentRecords, FileInv, UploadsInv, Storing
  <2>3. RemovalsInv'
    BY <1>3, <2>1 DEF File!DeleteAttachmentRecords, FileInv, RemovalsInv
  <2>4. File!RowsAndFilesAgree'
    BY <1>3, <2>1 DEF File!DeleteAttachmentRecords, FileInv, File!RowsAndFilesAgree
  <2> QED BY <2>2, <2>3, <2>4
<1>4. ASSUME UNCHANGED attachmentVars PROVE UploadsInv' /\ RemovalsInv' /\ File!RowsAndFilesAgree'
  BY <1>4 DEF attachmentVars, FileInv, UploadsInv, Storing, RemovalsInv, File!RowsAndFilesAgree, File!Rows
<1> QED BY <1>1, <1>2, <1>3, <1>4, UploadStep, RemovalStep DEF File!Next

LEMMA FileFacts == FileInv => File!TypeOK /\ File!RowsAndFilesAgree
BY DEF FileInv, FileType, File!TypeOK, AttachmentRow

\* attachment/service.rs: wherever the disk, the thumbnail, a statement or the server
\* fails, a row has its files until a deletion of it began, and a file is of a row, of
\* a call on its way, or one that a failure or an erased account left behind.
THEOREM FileAgrees == File!Spec => [](File!TypeOK /\ File!RowsAndFilesAgree)
<1>1. FileInv /\ [File!Next]_File!attachmentVars => FileInv'
  BY FileStep DEF File!attachmentVars, attachmentVars
<1> QED BY FileInit, <1>1, FileFacts, PTL DEF File!Spec

\* The same where the attachments are one part of several.
THEOREM RowsAndFilesStayTogether == PartsSpec => []RowsAndFilesAgree
<1> DEFINE Inv == part = "attachments" => FileInv
<1>1. PartsInit => Inv
  BY FileInit DEF PartsInit
<1>2. Inv /\ [PartsNext]_partsVars => Inv'
  <2> SUFFICES ASSUME Inv, [PartsNext]_partsVars, part' = "attachments" PROVE FileInv'
    OBVIOUS
  <2>1. part = "attachments" /\ [File!Next]_attachmentVars
    BY DEF PartsNext, partsVars
  <2> QED BY <2>1, FileStep
<1>3. Inv => RowsAndFilesAgree
  BY FileFacts DEF RowsAndFilesAgree
<1> QED BY <1>1, <1>2, <1>3, PTL DEF PartsSpec
=============================================================================
