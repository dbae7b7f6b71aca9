--------------------------- MODULE DeliveryProofs ---------------------------
(***************************************************************************)
(* What is promised to a recipient, for any servers, connections,          *)
(* messages, users and rows.  Cluster delivery: nothing reaches a          *)
(* connection twice, and while nothing fails a routed message is kept and  *)
(* reaches a connection that stays.  Push: everybody is served once.       *)
(* Email: a notice is in a row, a row is sent once and within the limit.   *)
(* Each part has an inductive invariant and one lemma per call; a part     *)
(* that stands still keeps its own.                                        *)
(***************************************************************************)
EXTENDS MCDelivery, OfflineQueueProofs, FiniteSetTheorems, WellFoundedInduction

(***************************************************************************)
(* Cluster delivery                                                        *)
(***************************************************************************)
ClusterType ==
    /\ up \in SUBSET Server
    /\ cpc \in [Conn -> Cluster!ConnPC]
    /\ sessions \in SUBSET Server /\ serverHas \in SUBSET Server
    /\ subscribed \in SUBSET up
    /\ chan \in [Server -> SUBSET Mail]
    /\ kept \in Seq(Mail)
    /\ taken \in [Conn -> Seq(Mail)]
    /\ rpc \in [Mail -> Cluster!RoutePC]
    /\ targets \in [Mail -> SUBSET Server]
    /\ \A m \in Mail : targets[m] # {} => rpc[m] = "publish"
    /\ received \in [Conn -> Seq(Mail)]
    /\ undisturbed \in [Mail -> BOOLEAN]

LEMMA ClusterTypeInit == Cluster!Init => ClusterType
BY ClusterAssumption DEF Cluster!Init, ClusterType, Cluster!ConnPC, Cluster!Registered, Cluster!Settled, Cluster!RoutePC

LEMMA ClusterTypeFacts == ClusterType => Cluster!TypeOK
BY ClusterAssumption DEF ClusterType, Cluster!TypeOK

(* The steps, as they are used below.                                      *)
LEMMA SocketType == ASSUME ClusterType, NEW c \in Conn, Cluster!HandleSocket(c) PROVE ClusterType'
<1> USE ClusterAssumption DEF ClusterType, Cluster!ConnStep, Cluster!Disturb, Cluster!routeVars, Cluster!ConnPC, Cluster!Registered, Cluster!Settled
<1>1. ASSUME Cluster!Register(c) \/ Cluster!RegisterSession(c) \/ Cluster!Unregister(c) \/ Cluster!UnregisterSession(c) PROVE ClusterType'
  BY <1>1 DEF Cluster!Register, Cluster!RegisterSession, Cluster!Unregister, Cluster!UnregisterSession
<1>2. ASSUME Cluster!DrainRange(c) PROVE ClusterType'
  BY <1>2 DEF Cluster!DrainRange
<1>5. ASSUME Cluster!DrainDel(c) PROVE ClusterType'
  BY <1>5 DEF Cluster!DrainDel
<1>3. ASSUME Cluster!DeliverBatch(c) PROVE ClusterType'
  BY <1>3 DEF Cluster!DeliverBatch, Cluster!SendLocally
<1>4. ASSUME Cluster!RedisCallFails(c) PROVE ClusterType'
  <2>1. <<>> \in Seq(Mail) /\ taken' = [taken EXCEPT ![c] = <<>>] /\ DOMAIN taken = Conn
    BY <1>4 DEF Cluster!RedisCallFails
  <2>2. taken' \in [Conn -> Seq(Mail)]
    BY <2>1
  <2>3. cpc' \in [Conn -> Cluster!ConnPC] /\ undisturbed' \in [Mail -> BOOLEAN]
    BY <1>4 DEF Cluster!RedisCallFails
  <2> QED BY <1>4, <2>2, <2>3 DEF Cluster!RedisCallFails
<1> QED BY <1>1, <1>2, <1>3, <1>4, <1>5 DEF Cluster!HandleSocket

LEMMA RouteType == ASSUME ClusterType, NEW m \in Mail, Cluster!Route(m) PROVE ClusterType'
<1> USE ClusterAssumption DEF ClusterType, Cluster!RouteStep, Cluster!connVars, Cluster!RoutePC
<1>1. ASSUME Cluster!CheckLocal(m) PROVE ClusterType'
  BY <1>1 DEF Cluster!CheckLocal
<1>2. ASSUME Cluster!LocalSend(m) PROVE ClusterType'
  BY <1>2 DEF Cluster!LocalSend, Cluster!SendLocally
<1>3. ASSUME Cluster!FindServers(m) PROVE ClusterType'
  BY <1>3 DEF Cluster!FindServers
<1>4. ASSUME NEW t \in Server, Cluster!Publish(m, t) PROVE ClusterType'
  <2>1. /\ rpc' \in [Mail -> Cluster!RoutePC] /\ targets' \in [Mail -> SUBSET Server]
        /\ \A n \in Mail : targets'[n] # {} => rpc'[n] = "publish"
        /\ UNCHANGED <<up, cpc, sessions, serverHas, taken, subscribed, kept, undisturbed>>
    BY <1>4 DEF Cluster!Publish
  <2>2. chan' \in [Server -> SUBSET Mail] /\ received' \in [Conn -> Seq(Mail)]
    <3>1. chan' = chan \/ chan' = [chan EXCEPT ![t] = chan[t] \cup {m}]
      BY <1>4 DEF Cluster!Publish
    <3>2. received' = received \/ received' = [d \in Conn |-> IF d \in Cluster!Live(t) THEN received[d] \o <<m>> ELSE received[d]]
      BY <1>4 DEF Cluster!Publish, Cluster!SendLocally
    <3>3. chan' \in [Server -> SUBSET Mail]
      BY <3>1
    <3>4. <<m>> \in Seq(Mail) /\ \A d \in Conn : received[d] \in Seq(Mail) /\ received[d] \o <<m>> \in Seq(Mail)
      OBVIOUS
    <3>5. received' \in [Conn -> Seq(Mail)]
      BY <3>2, <3>4
    <3> QED BY <3>3, <3>5
  <2> QED BY <2>1, <2>2
<1>5. ASSUME Cluster!QueueOffline(m) PROVE ClusterType'
  BY <1>5 DEF Cluster!QueueOffline
<1>6. ASSUME Cluster!RouteFails(m) PROVE ClusterType'
  BY <1>6 DEF Cluster!RouteFails
<1> QED BY <1>1, <1>2, <1>3, <1>4, <1>5, <1>6 DEF Cluster!Route

LEMMA EnvironmentType == ASSUME ClusterType, Cluster!Environment PROVE ClusterType'
<1> USE ClusterAssumption DEF ClusterType, Cluster!connVars, Cluster!routeVars
<1>1. ASSUME NEW s \in Server, NEW m \in Mail, Cluster!HandleRouted(s, m) PROVE ClusterType'
  BY <1>1 DEF Cluster!HandleRouted, Cluster!SendLocally
<1>2. ASSUME NEW s \in Server, Cluster!StreamEnds(s) \/ Cluster!Resubscribe(s) PROVE ClusterType'
  BY <1>2 DEF Cluster!StreamEnds, Cluster!Resubscribe
<1>3. ASSUME NEW s \in Server, Cluster!Crash(s) PROVE ClusterType'
  BY <1>3 DEF Cluster!Crash, Cluster!Disturb, Cluster!ConnPC, Cluster!Registered, Cluster!Settled, Cluster!RoutePC
<1>4. ASSUME Cluster!SessionExpires \/ Cluster!SessionsLost PROVE ClusterType'
  BY <1>4 DEF Cluster!SessionExpires, Cluster!SessionsLost
<1> QED BY <1>1, <1>2, <1>3, <1>4 DEF Cluster!Environment

-----------------------------------------------------------------------------
(* At most once                                                            *)
Elements(s) == Cluster!RangeOf(s)
NoRepeats(s) == \A i, j \in DOMAIN s : s[i] = s[j] => i = j

LEMMA ElementsFacts ==
    /\ Elements(<<>>) = {} /\ NoRepeats(<<>>)
    /\ \A s \in Seq(Mail), m \in Mail :
          /\ Elements(Append(s, m)) = Elements(s) \cup {m}
          /\ NoRepeats(s) /\ m \notin Elements(s) => NoRepeats(Append(s, m))
    /\ \A s, t \in Seq(Mail) :
          /\ Elements(s \o t) = Elements(s) \cup Elements(t)
          /\ NoRepeats(s) /\ NoRepeats(t) /\ Elements(s) \cap Elements(t) = {} => NoRepeats(s \o t)
    /\ \A m \in Mail : <<m>> \in Seq(Mail) /\ Elements(<<m>>) = {m} /\ NoRepeats(<<m>>)
<1> USE DEF Elements, Cluster!RangeOf, NoRepeats
<1>1. Elements(<<>>) = {} /\ NoRepeats(<<>>)
  OBVIOUS
<1>2. ASSUME NEW s \in Seq(Mail), NEW m \in Mail
      PROVE  /\ Elements(Append(s, m)) = Elements(s) \cup {m}
             /\ NoRepeats(s) /\ m \notin Elements(s) => NoRepeats(Append(s, m))
  <2>1. /\ DOMAIN Append(s, m) = 1..(Len(s) + 1) /\ DOMAIN s = 1..Len(s) /\ Len(s) \in Nat
        /\ \A i \in 1..Len(s) : Append(s, m)[i] = s[i]
        /\ Append(s, m)[Len(s) + 1] = m
    OBVIOUS
  <2> QED BY <2>1
<1>3. ASSUME NEW s \in Seq(Mail), NEW t \in Seq(Mail)
      PROVE  /\ Elements(s \o t) = Elements(s) \cup Elements(t)
             /\ NoRepeats(s) /\ NoRepeats(t) /\ Elements(s) \cap Elements(t) = {} => NoRepeats(s \o t)
  <2>1. /\ DOMAIN (s \o t) = 1..(Len(s) + Len(t)) /\ DOMAIN s = 1..Len(s) /\ DOMAIN t = 1..Len(t)
        /\ Len(s) \in Nat /\ Len(t) \in Nat
        /\ \A i \in 1..(Len(s) + Len(t)) : (s \o t)[i] = IF i <= Len(s) THEN s[i] ELSE t[i - Len(s)]
    OBVIOUS
  <2>2. ASSUME NEW i \in 1..(Len(s) + Len(t))
        PROVE  (i \in DOMAIN s /\ (s \o t)[i] = s[i]) \/ (i > Len(s) /\ i - Len(s) \in DOMAIN t /\ (s \o t)[i] = t[i - Len(s)])
    BY <2>1
  <2>3. ASSUME NEW i \in DOMAIN s PROVE i \in DOMAIN (s \o t) /\ (s \o t)[i] = s[i]
    BY <2>1
  <2>4. ASSUME NEW i \in DOMAIN t PROVE Len(s) + i \in DOMAIN (s \o t) /\ (s \o t)[Len(s) + i] = t[i]
    <3>1. Len(s) + i \in 1..(Len(s) + Len(t)) /\ ~(Len(s) + i <= Len(s)) /\ (Len(s) + i) - Len(s) = i
      BY <2>1
    <3> QED BY <2>1, <3>1
  <2>5. Elements(s \o t) = Elements(s) \cup Elements(t)
    <3>1. Elements(s \o t) \subseteq Elements(s) \cup Elements(t)
      BY <2>1, <2>2
    <3>2. Elements(s) \subseteq Elements(s \o t) /\ Elements(t) \subseteq Elements(s \o t)
      BY <2>3, <2>4
    <3> QED BY <3>1, <3>2
  <2>6. ASSUME NoRepeats(s), NoRepeats(t), Elements(s) \cap Elements(t) = {} PROVE NoRepeats(s \o t)
    <3> SUFFICES ASSUME NEW i \in 1..(Len(s) + Len(t)), NEW j \in 1..(Len(s) + Len(t)), (s \o t)[i] = (s \o t)[j]
                 PROVE  i = j
      BY <2>1
    <3>1. CASE i \in DOMAIN s /\ j \in DOMAIN s
      BY <2>3, <2>6, <3>1
    <3>2. CASE i > Len(s) /\ j > Len(s)
      <4>1. i - Len(s) = j - Len(s)
        BY <2>1, <2>2, <2>6, <3>2
      <4> QED BY <2>1, <4>1
    <3>3. CASE i \in DOMAIN s /\ j > Len(s)
      BY <2>1, <2>2, <2>6, <3>3
    <3>4. CASE i > Len(s) /\ j \in DOMAIN s
      <4>1. (s \o t)[i] \in Elements(t) /\ (s \o t)[j] \in Elements(s)
        BY <2>1, <2>2, <2>3, <3>4
      <4> QED BY <2>6, <4>1
    <3> QED BY <2>2, <3>1, <3>2, <3>3, <3>4
  <2> QED BY <2>5, <2>6
<1>4. ASSUME NEW m \in Mail PROVE <<m>> \in Seq(Mail) /\ Elements(<<m>>) = {m} /\ NoRepeats(<<m>>)
  OBVIOUS
<1> QED BY <1>1, <1>2, <1>3, <1>4

Before == {"new", "session", "range", "del", "deliver"}
Early == {"new", "local", "lookup", "push"}
Got(c) == Elements(received[c])
Queued == Elements(kept) \cup UNION {Elements(taken[c]) : c \in Conn}

\* A message takes one way: what is still to be routed is nowhere, what is published
\* is not queued, and a server that is still to be sent it, or is about to hand it
\* out, has not.
OneWay(m) ==
    /\ rpc[m] \in Early => (\A c \in Conn : m \notin Got(c)) /\ (\A s \in Server : m \notin chan[s])
    /\ rpc[m] \in Early \cup {"publish"} \/ (\E s \in Server : m \in chan[s]) => m \notin Queued
    /\ \A c \in Conn : HomeOf[c] \in targets[m] => m \notin chan[HomeOf[c]] /\ m \notin Got(c)
    /\ \A c \in Conn : m \in chan[HomeOf[c]] => m \notin Got(c)

\* A connection has none of the queued messages before its drain hands them out,
\* and no further drain.
HandsOut(c) ==
    /\ cpc[c] \in Before => Got(c) \cap (Elements(kept) \cup Elements(taken[c])) = {}
    /\ taken[c] # <<>> => cpc[c] \in {"del", "deliver"}
    /\ NoRepeats(taken[c]) /\ NoRepeats(received[c])

OnceInv == (\A m \in Mail : OneWay(m)) /\ (\A c \in Conn : HandsOut(c)) /\ NoRepeats(kept)

LEMMA OnceInit == Cluster!Init => OnceInv
BY ElementsFacts, ClusterAssumption DEF Cluster!Init, OnceInv, OneWay, HandsOut, Got, Queued, Early

LEMMA OnceFacts == OnceInv => Cluster!AtMostOnce
BY DEF OnceInv, HandsOut, Cluster!AtMostOnce, NoRepeats

\* A step that sends and queues nothing.
LEMMA NothingSent ==
    ASSUME ClusterType, ClusterType', OnceInv, received' = received, kept' \in {kept, <<>>},
           \A c \in Conn : \/ taken'[c] = taken[c] /\ (taken[c] # <<>> => cpc'[c] \in {"del", "deliver"})
                           \/ taken'[c] = <<>>
                           \/ (taken'[c] = kept /\ cpc[c] \in Before /\ cpc'[c] = "del"),
           \A c \in Conn : cpc'[c] \in Before => cpc[c] \in Before,
           \A m \in Mail : /\ rpc'[m] \in Early => rpc[m] \in Early
                           /\ rpc'[m] = "publish" => rpc[m] \in Early \cup {"publish"}
                           /\ targets'[m] \subseteq targets[m] \/ rpc[m] \in Early,
           \A s \in Server : chan'[s] \subseteq chan[s]
    PROVE  OnceInv'
<1> USE DEF OnceInv, Got
<1>1. Elements(kept') \subseteq Elements(kept) /\ NoRepeats(kept')
  BY ElementsFacts
<1>2. ASSUME NEW c \in Conn
      PROVE  /\ Elements(taken'[c]) \subseteq Elements(kept) \cup Elements(taken[c]) /\ NoRepeats(taken'[c])
  BY ElementsFacts DEF HandsOut
<1>3. Queued' \subseteq Queued
  BY <1>1, <1>2 DEF Queued
<1>4. ASSUME NEW m \in Mail PROVE OneWay(m)'
  <2>1. OneWay(m) /\ \A c \in Conn : HomeOf[c] \in Server /\ Elements(received'[c]) = Elements(received[c])
    BY ClusterAssumption
  <2>2. rpc'[m] \in Early => rpc[m] \in Early /\ (\A c \in Conn : m \notin Elements(received[c])) /\ (\A s \in Server : m \notin chan[s])
    BY <2>1 DEF OneWay
  <2>3. rpc'[m] \in Early \cup {"publish"} \/ (\E s \in Server : m \in chan'[s]) => m \notin Queued'
    BY <1>3, <2>1 DEF OneWay
  <2>4. ASSUME NEW c \in Conn, HomeOf[c] \in targets'[m] PROVE m \notin chan'[HomeOf[c]] /\ m \notin Elements(received[c])
    BY <2>1, <2>4 DEF OneWay
  <2>5. ASSUME NEW c \in Conn, m \in chan'[HomeOf[c]] PROVE m \notin Elements(received[c])
    BY <2>1, <2>5 DEF OneWay
  <2> QED BY <2>2, <2>3, <2>4, <2>5 DEF OneWay
<1>5. ASSUME NEW c \in Conn PROVE HandsOut(c)'
  BY <1>1, <1>2, ElementsFacts DEF HandsOut
<1> QED BY <1>1, <1>4, <1>5

\* A message goes out on one server, to connections that do not have it.
LEMMA MessageSent ==
    ASSUME ClusterType, ClusterType', OnceInv, NEW s \in Server, NEW m \in Mail,
           received' = [c \in Conn |-> IF c \in Cluster!Live(s) THEN received[c] \o <<m>> ELSE received[c]],
           m \notin Queued, \A c \in Conn : HomeOf[c] = s => m \notin Got(c),
           UNCHANGED <<kept, taken, cpc>>,
           rpc'[m] \notin Early, targets'[m] \subseteq targets[m] \ {s}, m \notin chan'[s],
           \A n \in Mail \ {m} : rpc'[n] = rpc[n] /\ targets'[n] = targets[n],
           \A t \in Server : chan'[t] \subseteq chan[t]
    PROVE  OnceInv'
<1> USE DEF OnceInv, Got
<1>1. ASSUME NEW c \in Conn
      PROVE  /\ Elements(received'[c]) \subseteq Elements(received[c]) \cup {m} /\ NoRepeats(received'[c])
             /\ HomeOf[c] # s => received'[c] = received[c]
  <2>1. CASE c \in Cluster!Live(s)
    <3>1. received'[c] = received[c] \o <<m>> /\ HomeOf[c] = s /\ received[c] \in Seq(Mail) /\ NoRepeats(received[c])
      BY <2>1 DEF Cluster!Live, ClusterType, HandsOut
    <3>2. <<m>> \in Seq(Mail) /\ Elements(<<m>>) = {m} /\ NoRepeats(<<m>>) /\ m \notin Elements(received[c])
      BY <3>1, ElementsFacts
    <3>3. Elements(received[c]) \cap Elements(<<m>>) = {}
      BY <3>2
    <3>4. /\ Elements(received[c] \o <<m>>) = Elements(received[c]) \cup Elements(<<m>>)
          /\ NoRepeats(received[c] \o <<m>>)
      BY <3>1, <3>2, <3>3, ElementsFacts
    <3> QED BY <3>1, <3>2, <3>4
  <2>2. CASE c \notin Cluster!Live(s)
    BY <2>2 DEF HandsOut
  <2> QED BY <2>1, <2>2
<1>2. Queued' = Queued
  BY DEF Queued
<1>3. ASSUME NEW n \in Mail PROVE OneWay(n)'
  <2>1. OneWay(n) /\ \A c \in Conn : HomeOf[c] \in Server
    BY ClusterAssumption
  <2>2. CASE n = m
    <3>1. ASSUME NEW c \in Conn, HomeOf[c] \in targets'[m] PROVE m \notin chan'[HomeOf[c]] /\ m \notin Elements(received'[c])
      BY <1>1, <2>1, <2>2, <3>1 DEF OneWay
    <3>2. ASSUME NEW c \in Conn, m \in chan'[HomeOf[c]] PROVE m \notin Elements(received'[c])
      BY <1>1, <2>1, <2>2, <3>2 DEF OneWay
    <3> QED BY <1>2, <2>2, <3>1, <3>2 DEF OneWay
  <2>3. CASE n # m
    <3>1. \A c \in Conn : n \in Elements(received'[c]) => n \in Elements(received[c])
      BY <1>1, <2>3
    <3>2. rpc'[n] = rpc[n] /\ targets'[n] = targets[n]
      BY <2>3
    <3> QED BY <1>2, <2>1, <3>1, <3>2 DEF OneWay
  <2> QED BY <2>2, <2>3
<1>4. ASSUME NEW c \in Conn PROVE HandsOut(c)'
  <2>1. m \notin Elements(kept) \cup Elements(taken[c])
    BY DEF Queued
  <2>2. HandsOut(c) /\ taken'[c] = taken[c] /\ kept' = kept /\ cpc'[c] = cpc[c]
    OBVIOUS
  <2>3. Elements(received'[c]) \subseteq Elements(received[c]) \cup {m} /\ NoRepeats(received'[c])
    BY <1>1
  <2> QED BY <2>1, <2>2, <2>3 DEF HandsOut
<1> QED BY <1>3, <1>4

LEMMA SocketOnce == ASSUME ClusterType, ClusterType', OnceInv, NEW c \in Conn, Cluster!HandleSocket(c) PROVE OnceInv'
<1> USE DEF Cluster!ConnStep, Cluster!routeVars
<1>1. CASE Cluster!Register(c) \/ Cluster!RegisterSession(c) \/ Cluster!Unregister(c) \/ Cluster!UnregisterSession(c)
  <2>1. /\ UNCHANGED <<received, kept, taken, rpc, targets, chan>>
        /\ \A d \in Conn : /\ taken[d] # <<>> => cpc'[d] \in {"del", "deliver"}
                           /\ cpc'[d] \in Before => cpc[d] \in Before
    BY <1>1 DEF Cluster!Register, Cluster!RegisterSession, Cluster!Unregister, Cluster!UnregisterSession, OnceInv, HandsOut, Before,
                ClusterType
  <2> QED BY <2>1, NothingSent
<1>2. CASE Cluster!DrainRange(c) \/ Cluster!DrainDel(c)
  <2>1. /\ UNCHANGED <<received, rpc, targets, chan>> /\ kept' \in {kept, <<>>}
        /\ \A d \in Conn : \/ taken'[d] = taken[d] /\ (taken[d] # <<>> => cpc'[d] \in {"del", "deliver"})
                           \/ (taken'[d] = kept /\ cpc[d] \in Before /\ cpc'[d] = "del")
        /\ \A d \in Conn : cpc'[d] \in Before => cpc[d] \in Before
    BY <1>2 DEF Cluster!DrainRange, Cluster!DrainDel, OnceInv, HandsOut, Before, ClusterType
  <2> QED BY <2>1, NothingSent
<1>3. CASE Cluster!RedisCallFails(c)
  <2>1. /\ UNCHANGED <<received, kept, rpc, targets, chan>>
        /\ \A d \in Conn : \/ taken'[d] = taken[d] /\ (taken[d] # <<>> => cpc'[d] \in {"del", "deliver"})
                           \/ taken'[d] = <<>>
        /\ \A d \in Conn : cpc'[d] \in Before => cpc[d] \in Before
    BY <1>3 DEF Cluster!RedisCallFails, OnceInv, HandsOut, Before, ClusterType
  <2> QED BY <2>1, NothingSent
<1>4. CASE Cluster!DeliverBatch(c)
  <2> USE DEF OnceInv, Got
  <2>1. /\ cpc[c] = "deliver" /\ cpc' = [cpc EXCEPT ![c] = "open"] /\ taken' = [taken EXCEPT ![c] = <<>>]
        /\ UNCHANGED <<kept, rpc, targets, chan>>
        /\ received' = [d \in Conn |-> IF d \in Cluster!Live(HomeOf[c]) THEN received[d] \o taken[c] ELSE received[d]]
    BY <1>4 DEF Cluster!DeliverBatch, Cluster!SendLocally
  <2>2. Cluster!Live(HomeOf[c]) = {c}
    BY <2>1, ClusterAssumption DEF Cluster!Live, Cluster!Registered
  <2>3. /\ received'[c] = received[c] \o taken[c] /\ cpc'[c] = "open" /\ taken'[c] = <<>>
        /\ \A d \in Conn \ {c} : received'[d] = received[d] /\ cpc'[d] = cpc[d] /\ taken'[d] = taken[d]
    BY <2>1, <2>2 DEF ClusterType
  <2>4. Elements(received'[c]) = Got(c) \cup Elements(taken[c]) /\ NoRepeats(received'[c])
    <3>1. Got(c) \cap Elements(taken[c]) = {}
      BY <2>1 DEF HandsOut, Before
    <3> QED BY <2>3, <3>1, ElementsFacts DEF HandsOut, ClusterType
  <2>5. Queued' \subseteq Queued /\ Elements(taken[c]) \subseteq Queued
    BY <2>1, <2>3, ElementsFacts DEF Queued
  <2>6. ASSUME NEW m \in Mail PROVE OneWay(m)'
    <3>1. OneWay(m) /\ rpc[m] \in Cluster!RoutePC /\ (targets[m] # {} => rpc[m] = "publish") /\ \A d \in Conn : HomeOf[d] \in Server
      BY ClusterAssumption DEF ClusterType
    <3>2. m \in Elements(taken[c]) => rpc[m] \notin Early \cup {"publish"} /\ targets[m] = {} /\ \A t \in Server : m \notin chan[t]
      BY <2>5, <3>1 DEF OneWay
    <3>3. \A d \in Conn : m \in Elements(received'[d]) => m \in Got(d) \/ m \in Elements(taken[c])
      BY <2>3, <2>4
    <3> QED BY <2>1, <2>5, <3>1, <3>2, <3>3 DEF OneWay
  <2>7. ASSUME NEW d \in Conn PROVE HandsOut(d)'
    BY <2>1, <2>3, <2>4, ElementsFacts DEF HandsOut, Before
  <2> QED BY <2>1, <2>6, <2>7
<1> QED BY <1>1, <1>2, <1>3, <1>4 DEF Cluster!HandleSocket

LEMMA RouteOnce == ASSUME ClusterType, ClusterType', OnceInv, NEW m \in Mail, Cluster!Route(m) PROVE OnceInv'
<1> USE DEF Cluster!RouteStep, Cluster!connVars
<1>0. /\ rpc \in [Mail -> Cluster!RoutePC] /\ targets \in [Mail -> SUBSET Server] /\ chan \in [Server -> SUBSET Mail]
      /\ OneWay(m) /\ EntryOf[m] \in Server /\ (targets[m] # {} => rpc[m] = "publish")
      /\ \A c \in Conn : taken[c] # <<>> => cpc[c] \in {"del", "deliver"}
  BY ClusterAssumption DEF ClusterType, OnceInv, HandsOut
<1>1. CASE Cluster!CheckLocal(m) \/ Cluster!FindServers(m) \/ Cluster!RouteFails(m)
  <2>1. /\ UNCHANGED <<received, kept, taken, cpc, chan>>
        /\ \A n \in Mail : /\ rpc'[n] \in Early => rpc[n] \in Early
                           /\ rpc'[n] = "publish" => rpc[n] \in Early \cup {"publish"}
                           /\ targets'[n] \subseteq targets[n] \/ rpc[n] \in Early
    BY <1>0, <1>1 DEF Cluster!CheckLocal, Cluster!FindServers, Cluster!RouteFails, Early
  <2> QED BY <1>0, <2>1, NothingSent
<1>2. CASE Cluster!LocalSend(m)
  <2>1. /\ rpc[m] = "local" /\ rpc' = [rpc EXCEPT ![m] = "done"] /\ UNCHANGED <<kept, taken, cpc, chan, targets>>
        /\ received' = [c \in Conn |-> IF c \in Cluster!Live(EntryOf[m]) THEN received[c] \o <<m>> ELSE received[c]]
    BY <1>2 DEF Cluster!LocalSend, Cluster!SendLocally
  <2>2. m \notin Queued /\ targets[m] = {} /\ m \notin chan[EntryOf[m]] /\ \A c \in Conn : m \notin Got(c)
    BY <1>0, <2>1 DEF OneWay, Early
  <2>3. rpc'[m] \notin Early /\ \A n \in Mail \ {m} : rpc'[n] = rpc[n]
    BY <1>0, <2>1 DEF Early
  <2> QED BY <1>0, <2>1, <2>2, <2>3, MessageSent
<1>3. ASSUME NEW t \in Server, Cluster!Publish(m, t) PROVE OnceInv'
  <2>1. /\ t \in targets[m] /\ rpc[m] = "publish" /\ UNCHANGED <<kept, taken, cpc>>
        /\ targets' = [targets EXCEPT ![m] = targets[m] \ {t}]
        /\ rpc' = [rpc EXCEPT ![m] = IF targets[m] = {t} THEN "done" ELSE "publish"]
    BY <1>3 DEF Cluster!Publish
  <2>2. m \notin Queued /\ \A c \in Conn : HomeOf[c] \in targets[m] => m \notin chan[HomeOf[c]] /\ m \notin Got(c)
    BY <1>0, <2>1 DEF OneWay
  <2>3. /\ rpc'[m] \in {"done", "publish"} /\ rpc'[m] \notin Early /\ targets'[m] = targets[m] \ {t}
        /\ \A n \in Mail \ {m} : rpc'[n] = rpc[n] /\ targets'[n] = targets[n]
    BY <1>0, <2>1 DEF Early
  <2>4. CASE t = EntryOf[m] /\ Cluster!SendLocally(t, <<m>>) /\ chan' = chan
    <3>1. received' = [c \in Conn |-> IF c \in Cluster!Live(t) THEN received[c] \o <<m>> ELSE received[c]]
      BY <2>4 DEF Cluster!SendLocally
    <3>2. CASE m \notin chan[t]
      BY <2>1, <2>2, <2>3, <2>4, <3>1, <3>2, MessageSent
    <3>3. CASE m \in chan[t]
      <4>1. \A c \in Conn : HomeOf[c] # t
        BY <2>1, <2>2, <3>3
      <4>2. received' = received
        BY <3>1, <4>1 DEF Cluster!Live, ClusterType
      <4>3. \A n \in Mail : /\ rpc'[n] \in Early => rpc[n] \in Early
                            /\ rpc'[n] = "publish" => rpc[n] \in Early \cup {"publish"}
                            /\ targets'[n] \subseteq targets[n] \/ rpc[n] \in Early
        BY <2>1, <2>3
      <4>4. /\ kept' \in {kept, <<>>} /\ \A s \in Server : chan'[s] \subseteq chan[s]
            /\ \A c \in Conn : \/ taken'[c] = taken[c] /\ (taken[c] # <<>> => cpc'[c] \in {"del", "deliver"})
                               \/ taken'[c] = <<>>
                               \/ (taken'[c] = kept /\ cpc[c] \in Before /\ cpc'[c] = "del")
            /\ \A c \in Conn : cpc'[c] \in Before => cpc[c] \in Before
        BY <1>0, <2>1, <2>4
      <4> QED BY <4>2, <4>3, <4>4, NothingSent
    <3> QED BY <3>2, <3>3
  <2>5. CASE received' = received /\ chan' = IF t \in subscribed THEN [chan EXCEPT ![t] = chan[t] \cup {m}] ELSE chan
    <3> USE DEF OnceInv, Got
    <3>1. /\ \A n \in Mail \ {m}, s \in Server : n \in chan'[s] <=> n \in chan[s]
          /\ \A s \in Server : m \in chan'[s] => m \in chan[s] \/ s = t
      BY <1>0, <2>5
    <3>2. Queued' = Queued
      BY <2>1 DEF Queued
    <3>3. ASSUME NEW n \in Mail \ {m} PROVE OneWay(n)'
      <4>1. OneWay(n) /\ \A c \in Conn : HomeOf[c] \in Server
        BY ClusterAssumption
      <4> QED BY <2>3, <2>5, <3>1, <3>2, <4>1 DEF OneWay
    <3>4. OneWay(m)'
      <4>1. OneWay(m) /\ \A c \in Conn : HomeOf[c] \in Server
        BY <1>0, ClusterAssumption
      <4>2. ASSUME NEW c \in Conn, HomeOf[c] \in targets'[m] PROVE m \notin chan'[HomeOf[c]] /\ m \notin Elements(received'[c])
        BY <2>2, <2>3, <2>5, <3>1, <4>1, <4>2
      <4>3. ASSUME NEW c \in Conn, m \in chan'[HomeOf[c]] PROVE m \notin Elements(received'[c])
        BY <2>1, <2>2, <2>5, <3>1, <4>1, <4>3 DEF OneWay
      <4> QED BY <2>2, <2>3, <3>2, <4>2, <4>3 DEF OneWay
    <3>5. ASSUME NEW c \in Conn PROVE HandsOut(c)'
      BY <2>1, <2>5 DEF HandsOut
    <3> QED BY <2>1, <3>3, <3>4, <3>5
  <2> QED BY <1>3, <2>4, <2>5 DEF Cluster!Publish
<1>4. CASE Cluster!QueueOffline(m)
  <2> USE DEF OnceInv, Got
  <2>1. /\ rpc[m] = "push" /\ rpc' = [rpc EXCEPT ![m] = "done"] /\ kept' = Append(kept, m)
        /\ UNCHANGED <<received, taken, cpc, chan, targets>>
    BY <1>4 DEF Cluster!QueueOffline
  <2>2. /\ m \notin Queued /\ targets[m] = {} /\ (\A s \in Server : m \notin chan[s]) /\ \A c \in Conn : m \notin Elements(received[c])
    BY <1>0, <2>1 DEF OneWay, Early
  <2>3. Elements(kept') = Elements(kept) \cup {m} /\ NoRepeats(kept') /\ Queued' = Queued \cup {m}
    <3>1. m \notin Elements(kept)
      BY <2>2 DEF Queued
    <3>2. Elements(kept') = Elements(kept) \cup {m} /\ NoRepeats(kept')
      BY <2>1, <3>1, ElementsFacts DEF ClusterType
    <3> QED BY <2>1, <3>2 DEF Queued
  <2>4. ASSUME NEW n \in Mail PROVE OneWay(n)'
    <3>1. OneWay(n) /\ \A c \in Conn : HomeOf[c] \in Server
      BY ClusterAssumption
    <3>2. CASE n = m
      <4>1. rpc'[m] = "done"
        BY <1>0, <2>1
      <4> QED BY <2>1, <2>2, <3>1, <3>2, <4>1 DEF OneWay, Early
    <3>3. CASE n # m
      BY <1>0, <2>1, <2>3, <3>1, <3>3 DEF OneWay
    <3> QED BY <3>2, <3>3
  <2>5. ASSUME NEW c \in Conn PROVE HandsOut(c)'
    <3>1. HandsOut(c) /\ m \notin Elements(received[c])
      BY <2>2
    <3> QED BY <2>1, <2>3, <3>1 DEF HandsOut
  <2> QED BY <2>3, <2>4, <2>5
<1> QED BY <1>1, <1>2, <1>3, <1>4 DEF Cluster!Route

LEMMA EnvironmentOnce == ASSUME ClusterType, ClusterType', OnceInv, Cluster!Environment PROVE OnceInv'
<1> USE DEF Cluster!connVars, Cluster!routeVars
<1>0. \A c \in Conn : taken[c] # <<>> => cpc[c] \in {"del", "deliver"}
  BY DEF OnceInv, HandsOut
<1>1. ASSUME NEW s \in Server, NEW m \in Mail, Cluster!HandleRouted(s, m) PROVE OnceInv'
  <2>1. /\ m \in chan[s] /\ chan' = [chan EXCEPT ![s] = chan[s] \ {m}] /\ UNCHANGED <<kept, taken, cpc, rpc, targets>>
        /\ received' = [c \in Conn |-> IF c \in Cluster!Live(s) THEN received[c] \o <<m>> ELSE received[c]]
    BY <1>1 DEF Cluster!HandleRouted, Cluster!SendLocally
  <2>2. OneWay(m) /\ chan \in [Server -> SUBSET Mail]
    BY DEF OnceInv, ClusterType
  <2>3. m \notin Queued /\ rpc[m] \notin Early /\ \A c \in Conn : HomeOf[c] = s => m \notin Got(c) /\ s \notin targets[m]
    BY <2>1, <2>2 DEF OneWay
  <2>4. m \notin chan'[s] /\ \A t \in Server : chan'[t] \subseteq chan[t]
    BY <2>1, <2>2
  <2>5. CASE s \notin targets[m]
    BY <2>1, <2>3, <2>4, <2>5, MessageSent
  <2>6. CASE s \in targets[m]
    <3>1. \A c \in Conn : HomeOf[c] # s
      BY <2>3, <2>6
    <3>2. received' = received
      BY <2>1, <3>1 DEF Cluster!Live, ClusterType
    <3> QED BY <1>0, <2>1, <2>4, <3>2, NothingSent
  <2> QED BY <2>5, <2>6
<1>2. ASSUME NEW s \in Server, Cluster!StreamEnds(s) \/ Cluster!Resubscribe(s) PROVE OnceInv'
  <2>1. UNCHANGED <<received, kept, taken, cpc, rpc, targets>> /\ \A t \in Server : chan'[t] \subseteq chan[t]
    BY <1>2 DEF Cluster!StreamEnds, Cluster!Resubscribe, ClusterType
  <2> QED BY <1>0, <2>1, NothingSent
<1>3. ASSUME NEW s \in Server, Cluster!Crash(s) PROVE OnceInv'
  <2>1. /\ UNCHANGED <<received, kept>> /\ \A t \in Server : chan'[t] \subseteq chan[t]
        /\ \A c \in Conn : IF HomeOf[c] = s THEN taken'[c] = <<>> /\ cpc'[c] \notin Before
                           ELSE taken'[c] = taken[c] /\ cpc'[c] = cpc[c]
        /\ \A n \in Mail : (rpc'[n] = rpc[n] \/ rpc'[n] = "failed") /\ targets'[n] \subseteq targets[n]
    BY <1>3 DEF Cluster!Crash, ClusterType, Before
  <2>2. \A n \in Mail : /\ rpc'[n] \in Early => rpc[n] \in Early
                        /\ rpc'[n] = "publish" => rpc[n] \in Early \cup {"publish"}
    BY <2>1 DEF Early
  <2>3. /\ \A c \in Conn : \/ taken'[c] = taken[c] /\ (taken[c] # <<>> => cpc'[c] \in {"del", "deliver"})
                           \/ taken'[c] = <<>>
                           \/ (taken'[c] = kept /\ cpc[c] \in Before /\ cpc'[c] = "del")
        /\ \A c \in Conn : cpc'[c] \in Before => cpc[c] \in Before
    BY <1>0, <2>1
  <2>4. /\ kept' \in {kept, <<>>} /\ received' = received /\ \A t \in Server : chan'[t] \subseteq chan[t]
        /\ \A n \in Mail : /\ rpc'[n] \in Early => rpc[n] \in Early
                           /\ rpc'[n] = "publish" => rpc[n] \in Early \cup {"publish"}
                           /\ targets'[n] \subseteq targets[n] \/ rpc[n] \in Early
    BY <2>1, <2>2
  <2> QED BY <2>3, <2>4, NothingSent
<1>4. CASE Cluster!SessionExpires \/ Cluster!SessionsLost
  <2>1. UNCHANGED <<received, kept, taken, cpc, rpc, targets, chan>>
    BY <1>4 DEF Cluster!SessionExpires, Cluster!SessionsLost
  <2> QED BY <1>0, <2>1, NothingSent
<1> QED BY <1>1, <1>2, <1>3, <1>4 DEF Cluster!Environment

\* The steps in which nothing fails.
CalmlyHandles(c) ==
    \/ Cluster!Register(c) \/ Cluster!RegisterSession(c) \/ Cluster!DrainRange(c) \/ Cluster!DrainDel(c)
    \/ Cluster!DeliverBatch(c) \/ Cluster!Unregister(c) \/ Cluster!UnregisterSession(c)
CalmlyRoutes(m) ==
    \/ Cluster!CheckLocal(m) \/ Cluster!LocalSend(m) \/ Cluster!FindServers(m)
    \/ \E t \in Server : Cluster!Publish(m, t)
    \/ Cluster!QueueOffline(m)

LEMMA CalmSocket == ASSUME NEW c \in Conn, Cluster!Calm!HandleSocket(c) PROVE CalmlyHandles(c)
BY DEF Cluster!Calm!HandleSocket, CalmlyHandles, Cluster!Calm!Register, Cluster!Register,
       Cluster!Calm!RegisterSession, Cluster!RegisterSession, Cluster!Calm!RedisCallFails,
       Cluster!Calm!DrainRange, Cluster!DrainRange, Cluster!Calm!DrainDel, Cluster!DrainDel,
       Cluster!Calm!DeliverBatch, Cluster!DeliverBatch, Cluster!Calm!Unregister, Cluster!Unregister,
       Cluster!Calm!UnregisterSession, Cluster!UnregisterSession,
       Cluster!Calm!ConnStep, Cluster!ConnStep, Cluster!Calm!Disturb, Cluster!Disturb, Cluster!Calm!InFlight, Cluster!InFlight,
       Cluster!Calm!SendLocally, Cluster!SendLocally, Cluster!Calm!Live, Cluster!Live, Cluster!Calm!Registered, Cluster!Registered,
       Cluster!Calm!routeVars, Cluster!routeVars

LEMMA CalmRoute == ASSUME NEW m \in Mail, Cluster!Calm!Route(m) PROVE CalmlyRoutes(m)
BY DEF Cluster!Calm!Route, CalmlyRoutes, Cluster!Calm!CheckLocal, Cluster!CheckLocal, Cluster!Calm!LocalSend, Cluster!LocalSend,
       Cluster!Calm!FindServers, Cluster!FindServers, Cluster!Calm!Publish, Cluster!Publish,
       Cluster!Calm!QueueOffline, Cluster!QueueOffline, Cluster!Calm!RouteFails,
       Cluster!Calm!RouteStep, Cluster!RouteStep, Cluster!Calm!connVars, Cluster!connVars,
       Cluster!Calm!SendLocally, Cluster!SendLocally, Cluster!Calm!Live, Cluster!Live, 
       Cluster!Calm!Registered, Cluster!Registered, Cluster!Calm!Settled, Cluster!Settled

LEMMA CalmEnvironment ==
    ASSUME Cluster!Calm!Environment
    PROVE  \/ \E s \in Server, m \in Mail : Cluster!HandleRouted(s, m)
           \/ \E s \in Server : Cluster!Resubscribe(s)
           \/ Cluster!SessionExpires
BY DEF Cluster!Calm!Environment, Cluster!Calm!HandleRouted, Cluster!HandleRouted, Cluster!Calm!StreamEnds, Cluster!Calm!Crash,
       Cluster!Calm!SessionsLost, Cluster!Calm!Resubscribe, Cluster!Resubscribe, Cluster!Calm!SessionExpires, Cluster!SessionExpires,
       Cluster!Calm!SendLocally, Cluster!SendLocally, Cluster!Calm!Live, Cluster!Live, Cluster!Calm!Registered, Cluster!Registered,
       Cluster!Calm!routeVars, Cluster!routeVars, Cluster!Calm!connVars, Cluster!connVars

LEMMA CrashingSocket == ASSUME NEW c \in Conn, Cluster!Crashing!HandleSocket(c) PROVE Cluster!HandleSocket(c)
BY DEF Cluster!Crashing!HandleSocket, Cluster!HandleSocket, Cluster!Crashing!Register, Cluster!Register,
       Cluster!Crashing!RegisterSession, Cluster!RegisterSession, Cluster!Crashing!RedisCallFails,
       Cluster!Crashing!DrainRange, Cluster!DrainRange, Cluster!Crashing!DrainDel, Cluster!DrainDel,
       Cluster!Crashing!DeliverBatch, Cluster!DeliverBatch, Cluster!Crashing!Unregister, Cluster!Unregister,
       Cluster!Crashing!UnregisterSession, Cluster!UnregisterSession,
       Cluster!Crashing!ConnStep, Cluster!ConnStep, Cluster!Crashing!Disturb, Cluster!Disturb, Cluster!Crashing!InFlight, Cluster!InFlight,
       Cluster!Crashing!SendLocally, Cluster!SendLocally, Cluster!Crashing!Live, Cluster!Live, Cluster!Crashing!Registered, Cluster!Registered,
       Cluster!Crashing!routeVars, Cluster!routeVars

LEMMA CrashingRoute == ASSUME NEW m \in Mail, Cluster!Crashing!Route(m) PROVE Cluster!Route(m)
BY DEF Cluster!Crashing!Route, Cluster!Route, Cluster!Crashing!CheckLocal, Cluster!CheckLocal, Cluster!Crashing!LocalSend, Cluster!LocalSend,
       Cluster!Crashing!FindServers, Cluster!FindServers, Cluster!Crashing!Publish, Cluster!Publish,
       Cluster!Crashing!QueueOffline, Cluster!QueueOffline, Cluster!Crashing!RouteFails,
       Cluster!Crashing!RouteStep, Cluster!RouteStep, Cluster!Crashing!connVars, Cluster!connVars,
       Cluster!Crashing!SendLocally, Cluster!SendLocally, Cluster!Crashing!Live, Cluster!Live, 
       Cluster!Crashing!Registered, Cluster!Registered, Cluster!Crashing!Settled, Cluster!Settled

LEMMA CrashingEnvironment ==
    ASSUME Cluster!Crashing!Environment
    PROVE  \/ \E s \in Server, m \in Mail : Cluster!HandleRouted(s, m)
           \/ \E s \in Server : Cluster!Resubscribe(s) \/ Cluster!Crash(s)
           \/ Cluster!SessionExpires
BY ClusterAssumption DEF Cluster!Crashing!Environment, Cluster!Crashing!HandleRouted, Cluster!HandleRouted, Cluster!Crashing!StreamEnds, Cluster!Crashing!Crash, Cluster!Crash, Cluster!Crashing!Disturb, Cluster!Disturb, Cluster!Crashing!InFlight, Cluster!InFlight,
       Cluster!Crashing!SessionsLost, Cluster!Crashing!Resubscribe, Cluster!Resubscribe, Cluster!Crashing!SessionExpires, Cluster!SessionExpires,
       Cluster!Crashing!SendLocally, Cluster!SendLocally, Cluster!Crashing!Live, Cluster!Live, Cluster!Crashing!Registered, Cluster!Registered,
       Cluster!Crashing!routeVars, Cluster!routeVars, Cluster!Crashing!connVars, Cluster!connVars
LEMMA ClusterStep == Cluster!MCNext => Cluster!Next
<1>1. Cluster!Calm!Next => Cluster!Next
  BY CalmSocket, CalmRoute, CalmEnvironment
  DEF Cluster!Calm!Next, Cluster!Next, Cluster!Environment, CalmlyHandles, CalmlyRoutes, Cluster!HandleSocket, Cluster!Route
<1>2. Cluster!Crashing!Next => Cluster!Next
  BY CrashingSocket, CrashingRoute, CrashingEnvironment DEF Cluster!Crashing!Next, Cluster!Next, Cluster!Environment
<1> QED BY <1>1, <1>2 DEF Cluster!MCNext

LEMMA ClusterInvStep == ASSUME ClusterType, OnceInv, PartsNext PROVE ClusterType' /\ OnceInv'
<1>1. CASE Cluster!Next
  BY <1>1, SocketType, RouteType, EnvironmentType, SocketOnce, RouteOnce, EnvironmentOnce DEF Cluster!Next
<1>2. CASE UNCHANGED clusterVars
  BY <1>2 DEF clusterVars, ClusterType, OnceInv, OneWay, HandsOut, Got, Queued
<1> QED BY <1>1, <1>2, ClusterStep DEF PartsNext

LEMMA ClusterInvStutter == ASSUME ClusterType, OnceInv, UNCHANGED partsVars PROVE ClusterType' /\ OnceInv'
BY DEF partsVars, clusterVars, ClusterType, OnceInv, OneWay, HandsOut, Got, Queued

\* websocket.rs and cluster_router.rs: whatever fails, a message goes one of three ways,
\* to the connections of the server, to the servers of the others or to the queue,
\* and on each to a connection at most once.
THEOREM NothingReachesTwice == PartsSpec => []AtMostOnce
<1>1. PartsInit => ClusterType /\ OnceInv
  BY ClusterTypeInit, OnceInit DEF PartsInit, Cluster!MCInit
<1>2. ClusterType /\ OnceInv /\ [PartsNext]_partsVars => ClusterType' /\ OnceInv'
  BY ClusterInvStep, ClusterInvStutter
<1>3. ClusterType /\ OnceInv => AtMostOnce
  BY OnceFacts DEF AtMostOnce
<1> QED BY <1>1, <1>2, <1>3, PTL DEF PartsSpec

-----------------------------------------------------------------------------
(* While nothing fails                                                     *)

\* Once it is routed a message is in the queue, in a drain's hands, with a
\* connection, or on its way to one.
Somewhere(m) ==
    \/ m \in Elements(kept)
    \/ \E c \in Conn : m \in Elements(received[c]) \/ m \in Elements(taken[c])
    \/ \E c \in Conn : cpc[c] = "open" /\ (HomeOf[c] \in targets[m] \/ m \in chan[HomeOf[c]])

\* A message that no connection's step disturbed was in flight only while all
\* connections were settled, and no drain that is about to delete the queue has
\* missed it.
KeepOk(m) ==
    undisturbed[m] =>
        /\ Cluster!InFlight(m) => \A c \in Conn : cpc[c] \in Cluster!Settled
        /\ rpc[m] = "local" => \E c \in Conn : cpc[c] = "open" /\ HomeOf[c] = EntryOf[m]
        /\ rpc[m] \in {"publish", "done"} => Somewhere(m)
        /\ m \in Elements(kept) => \A c \in Conn : cpc[c] = "del" => m \in Elements(taken[c])

InSession == {"range", "del", "deliver", "open", "unsession"}

\* The session store names the homes of the connections between their two calls.
SessionsOk ==
    /\ up = Server /\ subscribed = Server /\ serverHas = sessions
    /\ \A s \in sessions : \E c \in Conn : HomeOf[c] = s
    /\ \A c \in Conn : HomeOf[c] \in sessions <=> cpc[c] \in InSession

CalmInv == SessionsOk /\ \A m \in Mail : KeepOk(m)

LEMMA CalmInit == Cluster!Init => CalmInv
BY ElementsFacts, ClusterAssumption
DEF Cluster!Init, CalmInv, SessionsOk, InSession, KeepOk, Cluster!InFlight

LEMMA CalmFacts == ASSUME ClusterType, CalmInv PROVE Cluster!UndisturbedIsKept /\ Cluster!SessionsMatchConnections
<1>1. Cluster!UndisturbedIsKept
  <2> SUFFICES ASSUME NEW m \in Mail, Cluster!Routed(m), undisturbed[m]
               PROVE  m \in Elements(kept) \/ \E c \in Conn : m \in Elements(received[c]) \/ m \in Elements(taken[c])
    BY DEF Cluster!UndisturbedIsKept, Elements
  <2>1. rpc[m] = "done" /\ targets[m] = {} /\ (\A s \in Server : m \notin chan[s]) /\ KeepOk(m)
    BY DEF Cluster!Routed, Cluster!InFlight, ClusterType, CalmInv
  <2> QED BY <2>1, ClusterAssumption DEF KeepOk, Somewhere
<1>2. Cluster!SessionsMatchConnections
  <2> SUFFICES ASSUME \A c \in Conn : cpc[c] \in Cluster!Settled
               PROVE  sessions = {HomeOf[c] : c \in Cluster!Open}
    BY DEF Cluster!SessionsMatchConnections
  <2>1. \A c \in Conn : HomeOf[c] \in sessions <=> cpc[c] = "open"
    BY DEF CalmInv, SessionsOk, InSession, Cluster!Settled
  <2> QED BY <2>1 DEF CalmInv, SessionsOk, Cluster!Open
<1> QED BY <1>1, <1>2

LEMMA Growing ==
    ASSUME ClusterType, NEW s \in Server, NEW ms \in Seq(Mail), Cluster!SendLocally(s, ms)
    PROVE  /\ \A c \in Conn : Elements(received[c]) \subseteq Elements(received'[c])
           /\ \A c \in Cluster!Live(s) : Elements(ms) \subseteq Elements(received'[c])
BY ElementsFacts DEF Cluster!SendLocally, ClusterType, Cluster!Live

\* A step that leaves the routing of a message alone and loses it nowhere.
LEMMA KeepFrame ==
    ASSUME ClusterType, NEW n \in Mail, KeepOk(n), UNCHANGED <<cpc, taken>>,
           rpc'[n] = rpc[n], targets'[n] = targets[n], undisturbed'[n] = undisturbed[n],
           \A s \in Server : n \in chan'[s] <=> n \in chan[s],
           \A c \in Conn : Elements(received[c]) \subseteq Elements(received'[c]),
           n \in Elements(kept') <=> n \in Elements(kept)
    PROVE  KeepOk(n)'
<1>1. Cluster!InFlight(n)' => Cluster!InFlight(n)
  BY DEF Cluster!InFlight
<1>2. Somewhere(n) => Somewhere(n)'
  BY ClusterAssumption DEF Somewhere
<1> QED BY <1>1, <1>2 DEF KeepOk

\* A step of a connection does not lose what is not in flight.
LEMMA SocketKeep ==
    ASSUME ClusterType, ClusterType', OnceInv, CalmInv, NEW c \in Conn, CalmlyHandles(c)
    PROVE  \A m \in Mail : KeepOk(m)'
<1> SUFFICES ASSUME NEW m \in Mail, undisturbed'[m] PROVE KeepOk(m)'
  BY DEF KeepOk
<1> USE DEF Cluster!ConnStep, Cluster!routeVars
<1>1. /\ UNCHANGED <<rpc, targets, chan>> /\ Cluster!Disturb
      /\ \A d \in Conn \ {c} : cpc'[d] = cpc[d]
  BY DEF CalmlyHandles, Cluster!Register, Cluster!RegisterSession, Cluster!DrainRange, Cluster!DrainDel,
         Cluster!DeliverBatch, Cluster!Unregister, Cluster!UnregisterSession, ClusterType
<1>2. undisturbed[m] /\ ~Cluster!InFlight(m) /\ ~Cluster!InFlight(m)' /\ KeepOk(m)
  BY <1>1 DEF Cluster!Disturb, Cluster!InFlight, CalmInv, ClusterType
<1>3. /\ rpc'[m] # "local" /\ rpc'[m] # "publish" /\ rpc'[m] = rpc[m] /\ targets[m] = {}
      /\ \A s \in Server : m \notin chan[s]
  BY <1>1, <1>2 DEF Cluster!InFlight, ClusterType
<1>4. rpc[m] = "done" => m \in Elements(kept) \/ \E d \in Conn : m \in Elements(received[d]) \/ m \in Elements(taken[d])
  BY <1>2, <1>3, ClusterAssumption DEF KeepOk, Somewhere
<1>5. m \in Elements(kept) => \A d \in Conn : cpc[d] = "del" => m \in Elements(taken[d])
  BY <1>2 DEF KeepOk
<1> SUFFICES /\ rpc[m] = "done" => Somewhere(m)'
             /\ m \in Elements(kept') => \A d \in Conn : cpc'[d] = "del" => m \in Elements(taken'[d])
  BY <1>2, <1>3 DEF KeepOk
<1>6. CASE Cluster!Register(c) \/ Cluster!RegisterSession(c) \/ Cluster!Unregister(c) \/ Cluster!UnregisterSession(c)
  <2>1. UNCHANGED <<kept, taken, received>> /\ cpc'[c] # "del"
    BY <1>6 DEF Cluster!Register, Cluster!RegisterSession, Cluster!Unregister, Cluster!UnregisterSession, ClusterType
  <2> QED BY <1>1, <1>4, <1>5, <2>1 DEF Somewhere
<1>7. CASE Cluster!DrainRange(c)
  <2>1. /\ UNCHANGED <<kept, received>> /\ cpc[c] = "range" /\ taken'[c] = kept
        /\ \A d \in Conn \ {c} : taken'[d] = taken[d]
    BY <1>7 DEF Cluster!DrainRange, ClusterType
  <2>2. taken[c] = <<>> /\ Elements(taken[c]) = {}
    BY <2>1, ElementsFacts DEF OnceInv, HandsOut
  <2> QED BY <1>1, <1>4, <1>5, <2>1, <2>2 DEF Somewhere
<1>8. CASE Cluster!DrainDel(c)
  <2>1. UNCHANGED <<taken, received>> /\ cpc[c] = "del" /\ Elements(kept') = {}
    BY <1>8, ElementsFacts DEF Cluster!DrainDel
  <2> QED BY <1>4, <1>5, <2>1 DEF Somewhere
<1>9. CASE Cluster!DeliverBatch(c)
  <2>1. /\ UNCHANGED kept /\ cpc[c] = "deliver" /\ cpc'[c] = "open" /\ Cluster!SendLocally(HomeOf[c], taken[c])
        /\ \A d \in Conn \ {c} : taken'[d] = taken[d]
    BY <1>9 DEF Cluster!DeliverBatch, ClusterType
  <2>2. /\ \A d \in Conn : Elements(received[d]) \subseteq Elements(received'[d])
        /\ Elements(taken[c]) \subseteq Elements(received'[c])
    <3>1. c \in Cluster!Live(HomeOf[c]) /\ HomeOf[c] \in Server /\ taken[c] \in Seq(Mail)
      BY <2>1, ClusterAssumption DEF Cluster!Live, Cluster!Registered, ClusterType
    <3> QED BY <2>1, <3>1, Growing
  <2> QED BY <1>1, <1>4, <1>5, <2>1, <2>2 DEF Somewhere
<1> QED BY <1>6, <1>7, <1>8, <1>9 DEF CalmlyHandles

LEMMA SocketSessions ==
    ASSUME ClusterType, SessionsOk, NEW c \in Conn, CalmlyHandles(c)
    PROVE  SessionsOk'
<1> USE DEF Cluster!ConnStep, Cluster!routeVars, ClusterType, SessionsOk, InSession
<1>0. \A d \in Conn : HomeOf[d] = HomeOf[c] => d = c
  BY ClusterAssumption
<1>1. CASE Cluster!Register(c) \/ Cluster!Unregister(c) \/ Cluster!DrainRange(c) \/ Cluster!DrainDel(c) \/ Cluster!DeliverBatch(c)
  <2>1. UNCHANGED <<up, subscribed, sessions, serverHas>>
    BY <1>1 DEF Cluster!Register, Cluster!Unregister, Cluster!DrainRange, Cluster!DrainDel, Cluster!DeliverBatch
  <2>2. \A d \in Conn : cpc'[d] \in InSession <=> cpc[d] \in InSession
    BY <1>1 DEF Cluster!Register, Cluster!Unregister, Cluster!DrainRange, Cluster!DrainDel, Cluster!DeliverBatch
  <2> QED BY <2>1, <2>2
<1>2. CASE Cluster!RegisterSession(c)
  BY <1>0, <1>2 DEF Cluster!RegisterSession
<1>3. CASE Cluster!UnregisterSession(c)
  BY <1>0, <1>3 DEF Cluster!UnregisterSession
<1> QED BY <1>1, <1>2, <1>3 DEF CalmlyHandles

LEMMA RouteKeep ==
    ASSUME ClusterType, ClusterType', OnceInv, CalmInv, NEW m \in Mail, CalmlyRoutes(m)
    PROVE  CalmInv'
<1> USE DEF Cluster!RouteStep, Cluster!connVars
<1>0. /\ UNCHANGED <<up, subscribed, sessions, serverHas, cpc, taken>>
      /\ \A n \in Mail \ {m} : rpc'[n] = rpc[n] /\ targets'[n] = targets[n] /\ undisturbed'[n] = undisturbed[n]
  BY DEF CalmlyRoutes, Cluster!CheckLocal, Cluster!LocalSend, Cluster!FindServers, Cluster!Publish, Cluster!QueueOffline, ClusterType
<1>1. SessionsOk'
  BY <1>0 DEF CalmInv, SessionsOk
<1>2. /\ \A c \in Conn : Elements(received[c]) \subseteq Elements(received'[c])
      /\ Elements(kept) \subseteq Elements(kept') /\ Elements(kept') \subseteq Elements(kept) \cup {m}
      /\ \A n \in Mail \ {m}, s \in Server : n \in chan'[s] <=> n \in chan[s]
  <2>1. CASE Cluster!CheckLocal(m) \/ Cluster!FindServers(m)
    BY <2>1 DEF Cluster!CheckLocal, Cluster!FindServers
  <2>2. CASE Cluster!LocalSend(m)
    BY <2>2, Growing, ElementsFacts, ClusterAssumption DEF Cluster!LocalSend
  <2>3. ASSUME NEW t \in Server, Cluster!Publish(m, t)
        PROVE  /\ \A c \in Conn : Elements(received[c]) \subseteq Elements(received'[c])
               /\ kept' = kept /\ \A n \in Mail \ {m}, s \in Server : n \in chan'[s] <=> n \in chan[s]
    <3>1. <<m>> \in Seq(Mail)
      OBVIOUS
    <3>2. \A c \in Conn : Elements(received[c]) \subseteq Elements(received'[c])
      BY <2>3, <3>1, Growing DEF Cluster!Publish
    <3>3. chan' = chan \/ chan' = [chan EXCEPT ![t] = chan[t] \cup {m}]
      BY <2>3 DEF Cluster!Publish
    <3>4. kept' = kept /\ chan \in [Server -> SUBSET Mail]
      BY <2>3 DEF Cluster!Publish, ClusterType
    <3> QED BY <3>2, <3>3, <3>4
  <2>4. CASE Cluster!QueueOffline(m)
    BY <2>4, ElementsFacts DEF Cluster!QueueOffline, ClusterType
  <2> QED BY <2>1, <2>2, <2>3, <2>4 DEF CalmlyRoutes
<1>3. ASSUME NEW n \in Mail \ {m} PROVE KeepOk(n)'
  <2>1. KeepOk(n) /\ rpc'[n] = rpc[n] /\ targets'[n] = targets[n] /\ undisturbed'[n] = undisturbed[n]
    BY <1>0 DEF CalmInv
  <2>2. (\A s \in Server : n \in chan'[s] <=> n \in chan[s]) /\ (n \in Elements(kept') <=> n \in Elements(kept))
    BY <1>2
  <2> QED BY <1>0, <1>2, <2>1, <2>2, KeepFrame
<1>4. KeepOk(m)'
  <2> SUFFICES ASSUME undisturbed'[m] PROVE KeepOk(m)'
    BY DEF KeepOk
  <2>0. /\ KeepOk(m) /\ EntryOf[m] \in Server
        /\ rpc[m] \in Early \cup {"publish"} => m \notin Elements(kept)
    BY ClusterAssumption DEF CalmInv, OnceInv, OneWay, Queued
  <2>1. CASE Cluster!CheckLocal(m)
    <3>1. /\ \A c \in Conn : cpc[c] \in Cluster!Settled
          /\ rpc[m] = "new" /\ rpc'[m] = IF Cluster!Live(EntryOf[m]) # {} THEN "local" ELSE "lookup"
          /\ kept' = kept
      BY <2>1 DEF Cluster!CheckLocal, ClusterType
    <3>2. rpc'[m] = "local" => \E c \in Conn : cpc[c] = "open" /\ HomeOf[c] = EntryOf[m]
      BY <3>1 DEF Cluster!Live, Cluster!Registered, Cluster!Settled
    <3>3. rpc'[m] \in {"local", "lookup"} /\ m \notin Elements(kept)
      BY <2>0, <3>1 DEF Early
    <3> QED BY <1>0, <3>1, <3>2, <3>3 DEF KeepOk
  <2>2. ASSUME ~Cluster!CheckLocal(m)
        PROVE  /\ undisturbed[m] /\ \A c \in Conn : cpc[c] \in Cluster!Settled
               /\ Cluster!InFlight(m)
    <3>1. undisturbed' = undisturbed /\ rpc[m] \in {"local", "lookup", "publish", "push"}
      BY <2>2 DEF CalmlyRoutes, Cluster!LocalSend, Cluster!FindServers, Cluster!Publish, Cluster!QueueOffline
    <3>2. Cluster!InFlight(m)
      BY <3>1 DEF Cluster!InFlight
    <3> QED BY <2>0, <3>1, <3>2 DEF KeepOk
  <2>3. CASE Cluster!LocalSend(m)
    <3>1. rpc[m] = "local" /\ rpc'[m] = "done" /\ kept' = kept /\ Cluster!SendLocally(EntryOf[m], <<m>>)
      BY <2>3 DEF Cluster!LocalSend, ClusterType
    <3>2. PICK c \in Conn : cpc[c] = "open" /\ HomeOf[c] = EntryOf[m]
      BY <2>0, <2>2, <3>1 DEF KeepOk, Cluster!CheckLocal
    <3>3. m \in Elements(received'[c])
      <4>1. c \in Cluster!Live(EntryOf[m])
        BY <3>2 DEF Cluster!Live, Cluster!Registered
      <4>2. <<m>> \in Seq(Mail) /\ m \in Elements(<<m>>)
        BY ElementsFacts
      <4>3. Elements(<<m>>) \subseteq Elements(received'[c])
        BY <1>0, <2>0, <3>1, <4>1, <4>2, Growing
      <4> QED BY <4>2, <4>3
    <3>4. (\A d \in Conn : cpc[d] \in Cluster!Settled) /\ m \notin Elements(kept)
      BY <2>0, <2>2, <3>1 DEF Cluster!CheckLocal, Early
    <3> QED BY <1>0, <3>1, <3>3, <3>4 DEF KeepOk, Somewhere
  <2>4. CASE Cluster!FindServers(m)
    <3>1. /\ rpc[m] = "lookup" /\ rpc'[m] = IF sessions = {} THEN "push" ELSE "publish"
          /\ targets'[m] = sessions /\ kept' = kept
      BY <2>4 DEF Cluster!FindServers, ClusterType
    <3>2. (\A d \in Conn : cpc[d] \in Cluster!Settled) /\ m \notin Elements(kept)
      BY <2>0, <2>2, <3>1 DEF Cluster!CheckLocal, Early
    <3>3. ASSUME NEW s \in sessions PROVE \E c \in Conn : cpc[c] = "open" /\ HomeOf[c] = s
      BY <3>2 DEF CalmInv, SessionsOk, InSession, Cluster!Settled
    <3> QED BY <1>0, <3>1, <3>2, <3>3 DEF KeepOk, Somewhere
  <2>5. ASSUME NEW t \in Server, Cluster!Publish(m, t) PROVE KeepOk(m)'
    <3>1. /\ rpc[m] = "publish" /\ rpc'[m] \in {"publish", "done"} /\ targets'[m] = targets[m] \ {t} /\ kept' = kept
          /\ \A s \in Server : m \in chan[s] => m \in chan'[s]
      <4>1. chan' = chan \/ chan' = [chan EXCEPT ![t] = chan[t] \cup {m}]
        BY <2>5 DEF Cluster!Publish
      <4>2. \A s \in Server : m \in chan[s] => m \in chan'[s]
        BY <4>1 DEF ClusterType
      <4> QED BY <2>5, <4>2 DEF Cluster!Publish, ClusterType
    <3>2. (\A d \in Conn : cpc[d] \in Cluster!Settled) /\ m \notin Elements(kept) /\ Somewhere(m)
      BY <2>0, <2>2, <3>1 DEF Cluster!CheckLocal, KeepOk
    <3>3. ASSUME NEW c \in Conn, cpc[c] = "open", HomeOf[c] = t PROVE m \in Elements(received'[c]) \/ m \in chan'[t]
      <4>1. CASE t = EntryOf[m] /\ Cluster!SendLocally(t, <<m>>)
        BY <3>3, <4>1, Growing, ElementsFacts DEF Cluster!Live, Cluster!Registered
      <4>2. CASE chan' = IF t \in subscribed THEN [chan EXCEPT ![t] = chan[t] \cup {m}] ELSE chan
        BY <4>2 DEF CalmInv, SessionsOk, ClusterType
      <4> QED BY <2>5, <4>1, <4>2 DEF Cluster!Publish
    <3>4. Somewhere(m)'
      <4>1. CASE \E c \in Conn : m \in Elements(received[c]) \/ m \in Elements(taken[c])
        BY <1>0, <1>2, <4>1 DEF Somewhere
      <4>2. ASSUME NEW c \in Conn, cpc[c] = "open", HomeOf[c] \in targets[m] \/ m \in chan[HomeOf[c]] PROVE Somewhere(m)'
        BY <1>0, <3>1, <3>3, <4>2, ClusterAssumption DEF Somewhere
      <4> QED BY <3>2, <4>1, <4>2 DEF Somewhere
    <3> QED BY <1>0, <3>1, <3>2, <3>4 DEF KeepOk
  <2>6. CASE Cluster!QueueOffline(m)
    <3>1. rpc[m] = "push" /\ rpc'[m] = "done" /\ m \in Elements(kept')
      BY <2>6, ElementsFacts DEF Cluster!QueueOffline, ClusterType
    <3>2. \A d \in Conn : cpc[d] \in Cluster!Settled /\ cpc[d] # "del"
      BY <2>2, <3>1 DEF Cluster!CheckLocal, Cluster!Settled
    <3> QED BY <1>0, <3>1, <3>2 DEF KeepOk, Somewhere
  <2> QED BY <2>1, <2>3, <2>4, <2>5, <2>6 DEF CalmlyRoutes
<1> QED BY <1>1, <1>3, <1>4 DEF CalmInv

LEMMA HandleRoutedKeep ==
    ASSUME ClusterType, OnceInv, CalmInv, NEW s \in Server, NEW m \in Mail, Cluster!HandleRouted(s, m)
    PROVE  CalmInv'
<1>0. /\ m \in chan[s] /\ chan' = [chan EXCEPT ![s] = chan[s] \ {m}]
      /\ UNCHANGED <<up, cpc, sessions, serverHas, taken, subscribed, kept, rpc, targets, undisturbed>>
      /\ Cluster!SendLocally(s, <<m>>) /\ <<m>> \in Seq(Mail) /\ chan \in [Server -> SUBSET Mail]
  BY DEF Cluster!HandleRouted, Cluster!connVars, Cluster!routeVars, ClusterType
<1>1. SessionsOk'
  BY <1>0 DEF CalmInv, SessionsOk
<1>2. \A c \in Conn : Elements(received[c]) \subseteq Elements(received'[c])
  BY <1>0, Growing
<1>3. ASSUME NEW n \in Mail \ {m} PROVE KeepOk(n)'
  <2>1. KeepOk(n) /\ \A t \in Server : n \in chan'[t] <=> n \in chan[t]
    BY <1>0 DEF CalmInv
  <2> QED BY <1>0, <1>2, <2>1, KeepFrame
<1>4. KeepOk(m)'
  <2>1. KeepOk(m) /\ Cluster!InFlight(m) /\ m \notin Elements(kept)
    BY <1>0 DEF CalmInv, Cluster!InFlight, OnceInv, OneWay, Queued
  <2>2. Somewhere(m) => Somewhere(m)'
    <3>1. CASE \E c \in Conn : m \in Elements(received[c]) \/ m \in Elements(taken[c])
      BY <1>0, <1>2, <3>1 DEF Somewhere
    <3>2. ASSUME NEW c \in Conn, cpc[c] = "open", HomeOf[c] \in targets[m] PROVE Somewhere(m)'
      BY <1>0, <3>2 DEF Somewhere
    <3>3. ASSUME NEW c \in Conn, cpc[c] = "open", m \in chan[HomeOf[c]] PROVE Somewhere(m)'
      <4>1. CASE HomeOf[c] = s
        <5>1. m \in Elements(received'[c])
          <6>1. c \in Cluster!Live(s) /\ Elements(<<m>>) = {m}
            BY <3>3, <4>1, ElementsFacts DEF Cluster!Live, Cluster!Registered
          <6> QED BY <1>0, <6>1, Growing
        <5> QED BY <5>1 DEF Somewhere
      <4>2. CASE HomeOf[c] # s
        BY <1>0, <3>3, <4>2, ClusterAssumption DEF Somewhere
      <4> QED BY <4>1, <4>2
    <3> QED BY <2>1, <3>1, <3>2, <3>3 DEF Somewhere
  <2> QED BY <1>0, <2>1, <2>2 DEF KeepOk
<1> QED BY <1>1, <1>3, <1>4 DEF CalmInv

LEMMA CalmStep == ASSUME ClusterType, ClusterType', OnceInv, CalmInv, Cluster!Calm!Next PROVE CalmInv'
<1>1. ASSUME NEW c \in Conn, CalmlyHandles(c) PROVE CalmInv'
  BY <1>1, SocketKeep, SocketSessions DEF CalmInv
<1>2. ASSUME Cluster!Calm!Environment PROVE CalmInv'
  <2>1. ASSUME NEW s \in Server PROVE ~Cluster!Resubscribe(s)
    BY DEF Cluster!Resubscribe, CalmInv, SessionsOk
  <2>2. ~Cluster!SessionExpires
    BY DEF Cluster!SessionExpires, CalmInv, SessionsOk, ClusterType
  <2> QED BY <1>2, <2>1, <2>2, CalmEnvironment, HandleRoutedKeep
<1> QED BY <1>1, <1>2, CalmSocket, CalmRoute, RouteKeep DEF Cluster!Calm!Next

CalmWhenCalm == faults = "none" => CalmInv
CalmlyInv == TypeOK /\ ClusterType /\ OnceInv /\ CalmWhenCalm

LEMMA CalmlyStep == CalmlyInv /\ [PartsNext]_partsVars => CalmlyInv'
<1> SUFFICES ASSUME CalmlyInv, [PartsNext]_partsVars PROVE CalmlyInv'
  OBVIOUS
<1> USE DEF CalmlyInv
<1>1. ClusterType' /\ OnceInv'
  BY ClusterInvStep, ClusterInvStutter
<1>2. TypeOK'
  <2>1. [Next]_vars
    BY DEF PartsNext, QueueNext, partsVars
  <2> QED BY <2>1, TypeStep
<1>3. CalmWhenCalm'
  <2>1. CASE UNCHANGED clusterVars
    BY <2>1
    DEF clusterVars, CalmWhenCalm, CalmInv, SessionsOk, KeepOk, Somewhere, Cluster!InFlight
  <2>2. CASE Cluster!MCNext
    <3> SUFFICES ASSUME faults' = "none" PROVE CalmInv'
      BY DEF CalmWhenCalm
    <3>1. faults = "none" /\ Cluster!Calm!Next /\ CalmInv
      BY <2>2 DEF Cluster!MCNext, CalmWhenCalm
    <3> QED BY <1>1, <3>1, CalmStep
  <2> QED BY <2>1, <2>2 DEF PartsNext, partsVars
<1> QED BY <1>1, <1>2, <1>3

\* cluster_router.rs and session_store.rs: while nothing fails the session store agrees with the
\* connections between two calls, and a message during whose routing they stay has
\* reached one, is queued, or is in the hands of a drain.
THEOREM NothingIsLostInCalm == PartsSpec => []KeptAndMatchedWhenCalm
<1>1. PartsInit => CalmlyInv
  BY TypeInit, ClusterTypeInit, OnceInit, CalmInit DEF PartsInit, Cluster!MCInit, CalmlyInv, CalmWhenCalm
<1>2. CalmlyInv => KeptAndMatchedWhenCalm
  BY ClusterTypeFacts, CalmFacts
  DEF CalmlyInv, CalmWhenCalm, KeptAndMatchedWhenCalm, Cluster!UndisturbedIsKeptWhenCalm, Cluster!SessionsMatchWhenCalm
<1> QED BY <1>1, <1>2, CalmlyStep, PTL DEF PartsSpec

-----------------------------------------------------------------------------
(* Every connection is reached                                             *)

Near(m) == {c \in Cluster!Open : HomeOf[c] = EntryOf[m]}

\* What an undisturbed message in flight owes the connections it is to reach.
Owes(m) ==
    /\ rpc[m] = "local" => Near(m) # {}
    /\ rpc[m] \in {"lookup", "push", "publish"} => Near(m) = {}
    /\ rpc[m] = "push" => Cluster!Open = {}
    /\ rpc[m] \in {"publish", "done"} =>
           \A c \in Cluster!Reach(m) : HomeOf[c] \in targets[m] \/ m \in chan[HomeOf[c]] \/ m \in Elements(received[c])
OwesWhileFlying(m) == undisturbed[m] /\ Cluster!InFlight(m) => Owes(m)

\* What it owes to no more connections than before is still owed, or done.
LEMMA OwesFrame ==
    ASSUME ClusterType, NEW m \in Mail, Owes(m), cpc' = cpc, rpc'[m] = rpc[m] \/ (rpc'[m] = "done" /\ rpc[m] = "publish"),
           \A c \in Conn : \/ HomeOf[c] \in targets[m] => HomeOf[c] \in targets'[m]
                           \/ m \in chan'[HomeOf[c]] \/ m \in Elements(received'[c])
                           \/ c \notin Cluster!Reach(m),
           \A c \in Conn : \/ m \in chan[HomeOf[c]] => m \in chan'[HomeOf[c]]
                           \/ m \in Elements(received'[c])
                           \/ c \notin Cluster!Open,
           \A c \in Conn : m \in Elements(received[c]) => m \in Elements(received'[c])
    PROVE  Owes(m)'
<1>1. Cluster!Open' = Cluster!Open /\ Near(m)' = Near(m) /\ Cluster!Reach(m)' = Cluster!Reach(m)
  BY DEF Cluster!Open, Near, Cluster!Reach
<1>2. Cluster!Reach(m) \subseteq Conn /\ Cluster!Reach(m) \subseteq Cluster!Open
  BY DEF Cluster!Open, Cluster!Reach
<1> QED BY <1>1, <1>2 DEF Owes

LEMMA RouteOwes ==
    ASSUME ClusterType, ClusterType', OnceInv, CalmInv, NEW m \in Mail, CalmlyRoutes(m), NEW n \in Mail,
           OwesWhileFlying(n), undisturbed'[n], Cluster!InFlight(n) \/ n = m
    PROVE  Owes(n)'
<1> USE DEF Cluster!RouteStep, Cluster!connVars
<1>0. /\ UNCHANGED <<cpc, sessions, subscribed>> /\ EntryOf[m] \in Server /\ chan \in [Server -> SUBSET Mail]
      /\ \A c \in Conn : HomeOf[c] \in Server
  BY ClusterAssumption DEF CalmlyRoutes, Cluster!CheckLocal, Cluster!LocalSend, Cluster!FindServers, Cluster!Publish,
     Cluster!QueueOffline, ClusterType
<1>1. \A c \in Conn : Elements(received[c]) \subseteq Elements(received'[c])
  <2>1. <<m>> \in Seq(Mail)
    OBVIOUS
  <2>2. received' = received \/ \E s \in Server : Cluster!SendLocally(s, <<m>>)
    BY <1>0 DEF CalmlyRoutes, Cluster!CheckLocal, Cluster!LocalSend, Cluster!FindServers, Cluster!Publish, Cluster!QueueOffline
  <2> QED BY <2>1, <2>2, Growing
<1>2. CASE n # m
  <2>1. /\ rpc'[n] = rpc[n] /\ targets'[n] = targets[n] /\ undisturbed'[n] = undisturbed[n]
        /\ \A s \in Server : n \in chan[s] => n \in chan'[s]
    <3>1. chan' = chan \/ \E t \in Server : chan' = [chan EXCEPT ![t] = chan[t] \cup {m}]
      BY DEF CalmlyRoutes, Cluster!CheckLocal, Cluster!LocalSend, Cluster!FindServers, Cluster!Publish, Cluster!QueueOffline
    <3>2. \A s \in Server : n \in chan[s] => n \in chan'[s]
      BY <1>0, <3>1
    <3> QED BY <1>2, <3>2 DEF CalmlyRoutes, Cluster!CheckLocal, Cluster!LocalSend, Cluster!FindServers, Cluster!Publish,
                         Cluster!QueueOffline, ClusterType
  <2>2. Owes(n)
    BY <1>2, <2>1 DEF OwesWhileFlying
  <2> QED BY <1>0, <1>1, <2>1, <2>2, OwesFrame
<1>3. CASE n = m
  <2>1. CASE Cluster!CheckLocal(m)
    <3>1. /\ \A c \in Conn : cpc[c] \in Cluster!Settled
          /\ rpc'[m] = IF Cluster!Live(EntryOf[m]) # {} THEN "local" ELSE "lookup"
      BY <1>3, <2>1 DEF Cluster!CheckLocal, ClusterType
    <3>2. Cluster!Live(EntryOf[m]) = Near(m)'
      BY <1>0, <3>1 DEF Cluster!Live, Cluster!Registered, Cluster!Settled, Near, Cluster!Open
    <3> QED BY <1>3, <3>1, <3>2 DEF Owes
  <2>2. ASSUME ~Cluster!CheckLocal(m) PROVE Owes(m) /\ undisturbed[m] /\ (\A c \in Conn : cpc[c] \in Cluster!Settled)
    <3>1. undisturbed' = undisturbed /\ rpc[m] \in {"local", "lookup", "publish", "push"}
      BY <2>2 DEF CalmlyRoutes, Cluster!LocalSend, Cluster!FindServers, Cluster!Publish, Cluster!QueueOffline
    <3> QED BY <1>3, <3>1 DEF OwesWhileFlying, Cluster!InFlight, CalmInv, KeepOk
  <2>3. CASE Cluster!LocalSend(m)
    <3>1. rpc[m] = "local" /\ rpc'[m] = "done" /\ Cluster!SendLocally(EntryOf[m], <<m>>)
      BY <2>3 DEF Cluster!LocalSend, ClusterType
    <3>2. Near(m) # {} /\ Cluster!Reach(m)' = Near(m)
      BY <1>0, <2>2, <3>1 DEF Cluster!CheckLocal, Owes, Near, Cluster!Reach, Cluster!Open
    <3>3. \A c \in Near(m) : m \in Elements(received'[c])
      <4>1. Near(m) \subseteq Cluster!Live(EntryOf[m]) /\ Elements(<<m>>) = {m} /\ <<m>> \in Seq(Mail)
        BY ElementsFacts DEF Near, Cluster!Open, Cluster!Live, Cluster!Registered
      <4> QED BY <1>0, <3>1, <4>1, Growing
    <3> QED BY <1>3, <3>1, <3>2, <3>3 DEF Owes
  <2>4. CASE Cluster!FindServers(m)
    <3>1. rpc[m] = "lookup" /\ rpc'[m] = (IF sessions = {} THEN "push" ELSE "publish") /\ targets'[m] = sessions
      BY <2>4 DEF Cluster!FindServers, ClusterType
    <3>2. Near(m) = {} /\ Cluster!Open' = Cluster!Open /\ Near(m)' = Near(m) /\ Cluster!Reach(m)' = Cluster!Open
      BY <1>0, <2>2, <3>1 DEF Cluster!CheckLocal, Owes, Near, Cluster!Reach, Cluster!Open
    <3>3. \A c \in Cluster!Open : HomeOf[c] \in sessions
      BY DEF CalmInv, SessionsOk, InSession, Cluster!Open
    <3> QED BY <1>3, <3>1, <3>2, <3>3 DEF Owes
  <2>5. ASSUME NEW t \in Server, Cluster!Publish(m, t) PROVE Owes(m)'
    <3>1. /\ rpc[m] = "publish" /\ rpc'[m] \in {"publish", "done"} /\ targets'[m] = targets[m] \ {t}
          /\ Owes(m) /\ (chan' = chan \/ chan' = [chan EXCEPT ![t] = chan[t] \cup {m}])
      BY <2>2, <2>5 DEF Cluster!Publish, Cluster!CheckLocal, ClusterType
    <3>2. \A s \in Server : m \in chan[s] => m \in chan'[s]
      BY <1>0, <3>1
    <3>3. Owes(m) /\ Near(m) = {}
      BY <2>2, <3>1 DEF Cluster!CheckLocal, Owes
    <3>4. ASSUME NEW c \in Conn, HomeOf[c] = t, c \in Cluster!Reach(m) PROVE m \in chan'[HomeOf[c]]
      <4>1. t # EntryOf[m] /\ t \in subscribed
        BY <3>3, <3>4 DEF Near, Cluster!Reach, CalmInv, SessionsOk
      <4>2. chan' = [chan EXCEPT ![t] = chan[t] \cup {m}]
        BY <2>5, <4>1 DEF Cluster!Publish
      <4> QED BY <1>0, <3>4, <4>2
    <3>5. \A c \in Conn : \/ HomeOf[c] \in targets[m] => HomeOf[c] \in targets'[m]
                          \/ m \in chan'[HomeOf[c]] \/ m \in Elements(received'[c])
                          \/ c \notin Cluster!Reach(m)
      BY <3>1, <3>4
    <3>6. rpc'[m] = rpc[m] \/ (rpc'[m] = "done" /\ rpc[m] = "publish")
      BY <3>1
    <3> QED BY <1>0, <1>1, <1>3, <3>2, <3>3, <3>5, <3>6, OwesFrame
  <2>6. CASE Cluster!QueueOffline(m)
    <3>1. rpc[m] = "push" /\ rpc'[m] = "done" /\ Cluster!Open = {} /\ Cluster!Open' = Cluster!Open
      BY <1>0, <2>2, <2>6 DEF Cluster!QueueOffline, Cluster!CheckLocal, Owes, ClusterType, Cluster!Open
    <3> QED BY <1>3, <3>1 DEF Owes, Cluster!Reach
  <2> QED BY <1>3, <2>1, <2>3, <2>4, <2>5, <2>6 DEF CalmlyRoutes
<1> QED BY <1>2, <1>3

LEMMA HandleRoutedOwes ==
    ASSUME ClusterType, CalmInv, NEW s \in Server, NEW m \in Mail, Cluster!HandleRouted(s, m), NEW n \in Mail, Owes(n)
    PROVE  Owes(n)'
<1>0. /\ chan' = [chan EXCEPT ![s] = chan[s] \ {m}] /\ UNCHANGED <<cpc, rpc, targets>>
      /\ Cluster!SendLocally(s, <<m>>) /\ <<m>> \in Seq(Mail) /\ chan \in [Server -> SUBSET Mail]
      /\ \A c \in Conn : HomeOf[c] \in Server
  BY ClusterAssumption DEF Cluster!HandleRouted, Cluster!connVars, Cluster!routeVars, ClusterType
<1>1. \A c \in Conn : Elements(received[c]) \subseteq Elements(received'[c])
  BY <1>0, Growing
<1>2. ASSUME NEW c \in Cluster!Open, HomeOf[c] = s PROVE m \in Elements(received'[c])
  <2>1. c \in Cluster!Live(s) /\ Elements(<<m>>) = {m}
    BY <1>2, ElementsFacts DEF Cluster!Open, Cluster!Live, Cluster!Registered
  <2> QED BY <1>0, <2>1, Growing
<1>3. \A c \in Conn : (n \in chan[HomeOf[c]] => n \in chan'[HomeOf[c]]) \/ n \in Elements(received'[c]) \/ c \notin Cluster!Open
  BY <1>0, <1>2
<1> QED BY <1>0, <1>1, <1>3, OwesFrame

\* A calm step keeps what is owed, and what lands owes nothing.
LEMMA CalmOwes ==
    ASSUME ClusterType, ClusterType', OnceInv, CalmInv, Cluster!Calm!Next, NEW n \in Mail, OwesWhileFlying(n)
    PROVE  undisturbed'[n] /\ (Cluster!InFlight(n) \/ Cluster!InFlight(n)') => Owes(n)'
<1> SUFFICES ASSUME undisturbed'[n], Cluster!InFlight(n) \/ Cluster!InFlight(n)' PROVE Owes(n)'
  OBVIOUS
<1>1. ASSUME NEW c \in Conn, CalmlyHandles(c) PROVE FALSE
  <2>1. Cluster!Disturb /\ UNCHANGED <<rpc, chan>>
    BY <1>1 DEF CalmlyHandles, Cluster!Register, Cluster!RegisterSession, Cluster!DrainRange, Cluster!DrainDel,
       Cluster!DeliverBatch, Cluster!Unregister, Cluster!UnregisterSession, Cluster!ConnStep, Cluster!routeVars
  <2> QED BY <2>1 DEF Cluster!Disturb, Cluster!InFlight, ClusterType
<1>2. ASSUME NEW m \in Mail, CalmlyRoutes(m) PROVE Owes(n)'
  <2>1. n # m => Cluster!InFlight(n)
    <3> SUFFICES ASSUME n # m, Cluster!InFlight(n)' PROVE Cluster!InFlight(n)
      OBVIOUS
    <3>1. chan' = chan \/ \E t \in Server : chan' = [chan EXCEPT ![t] = chan[t] \cup {m}]
      BY <1>2 DEF CalmlyRoutes, Cluster!CheckLocal, Cluster!LocalSend, Cluster!FindServers, Cluster!Publish, Cluster!QueueOffline
    <3>2. \A s \in Server : n \in chan'[s] => n \in chan[s]
      <4>1. chan \in [Server -> SUBSET Mail]
        BY DEF ClusterType
      <4> QED BY <3>1, <4>1
    <3>3. rpc'[n] = rpc[n]
      BY <1>2 DEF CalmlyRoutes, Cluster!CheckLocal, Cluster!LocalSend, Cluster!FindServers, Cluster!Publish,
                  Cluster!QueueOffline, Cluster!RouteStep, ClusterType
    <3> QED BY <3>2, <3>3 DEF Cluster!InFlight
  <2> QED BY <1>2, <2>1, RouteOwes
<1>3. ASSUME Cluster!Calm!Environment PROVE Owes(n)'
  <2>1. ASSUME NEW s \in Server PROVE ~Cluster!Resubscribe(s)
    BY DEF Cluster!Resubscribe, CalmInv, SessionsOk
  <2>2. ~Cluster!SessionExpires
    BY DEF Cluster!SessionExpires, CalmInv, SessionsOk, ClusterType
  <2>3. PICK s \in Server, m \in Mail : Cluster!HandleRouted(s, m)
    BY <1>3, <2>1, <2>2, CalmEnvironment
  <2>4. undisturbed' = undisturbed /\ (Cluster!InFlight(n)' => Cluster!InFlight(n))
    BY <2>3 DEF Cluster!HandleRouted, Cluster!InFlight, Cluster!routeVars, ClusterType
  <2> QED BY <2>3, <2>4, HandleRoutedOwes DEF OwesWhileFlying
<1> QED BY <1>1, <1>2, <1>3, CalmSocket, CalmRoute DEF Cluster!Calm!Next

OwedInv == CalmlyInv /\ (faults = "none" => \A m \in Mail : OwesWhileFlying(m))

LEMMA OwedStep == OwedInv /\ [PartsNext]_partsVars => OwedInv' /\ [faults = "none" => Cluster!ReachesStable]_(Cluster!vars)
<1> SUFFICES ASSUME OwedInv, [PartsNext]_partsVars
             PROVE  OwedInv' /\ [faults = "none" => Cluster!ReachesStable]_(Cluster!vars)
  OBVIOUS
<1>1. CalmlyInv /\ CalmlyInv'
  BY CalmlyStep DEF OwedInv
<1>2. CASE UNCHANGED clusterVars
  BY <1>1, <1>2
  DEF clusterVars, Cluster!vars, Cluster!routeVars, OwedInv, OwesWhileFlying, Owes, Cluster!InFlight, Near, Cluster!Reach, Cluster!Open
<1>3. CASE Cluster!MCNext
  <2>1. CASE faults # "none"
    BY <1>1, <1>3, <2>1 DEF Cluster!MCNext, OwedInv
  <2>2. CASE faults = "none"
    <3>1. /\ ClusterType /\ ClusterType' /\ OnceInv /\ CalmInv /\ Cluster!Calm!Next /\ faults' = faults
          /\ \A m \in Mail : OwesWhileFlying(m)
      BY <1>1, <1>3, <2>2 DEF Cluster!MCNext, OwedInv, CalmlyInv, CalmWhenCalm
    <3>2. \A m \in Mail : undisturbed'[m] /\ (Cluster!InFlight(m) \/ Cluster!InFlight(m)') => Owes(m)'
      BY <3>1, CalmOwes
    <3>3. Cluster!ReachesStable
      <4> SUFFICES ASSUME NEW m \in Mail, Cluster!InFlight(m), Cluster!Routed(m)', undisturbed'[m],
                          NEW c \in Cluster!Reach(m)'
                   PROVE  m \in Elements(received'[c])
        BY DEF Cluster!ReachesStable, Elements
      <4>1. Owes(m)' /\ rpc'[m] = "done" /\ targets'[m] = {} /\ (\A s \in Server : m \notin chan'[s]) /\ c \in Conn
        BY <3>1, <3>2 DEF Cluster!Routed, Cluster!InFlight, ClusterType, Cluster!Reach, Cluster!Open
      <4> QED BY <4>1, ClusterAssumption DEF Owes
    <3> QED BY <1>1, <3>1, <3>2, <3>3 DEF OwedInv, OwesWhileFlying
  <2> QED BY <2>1, <2>2
<1> QED BY <1>2, <1>3 DEF PartsNext, partsVars

\* cluster_router.rs, route_to_user: the step that ends an undisturbed routing leaves the
\* message with every connection it was to reach: the server's own, else everyone's.
THEOREM EveryConnectionIsReachedInCalm == PartsSpec => StableRecipientIsReachedWhenCalm
<1>1. PartsInit => OwedInv
  <2>1. PartsInit => CalmlyInv
    BY TypeInit, ClusterTypeInit, OnceInit, CalmInit DEF PartsInit, Cluster!MCInit, CalmlyInv, CalmWhenCalm
  <2>2. PartsInit => \A m \in Mail : OwesWhileFlying(m)
    BY DEF PartsInit, Cluster!MCInit, Cluster!Init, OwesWhileFlying, Owes
  <2> QED BY <2>1, <2>2 DEF OwedInv
<1> QED BY <1>1, OwedStep, PTL DEF PartsSpec, StableRecipientIsReachedWhenCalm, Cluster!StableRecipientIsReachedWhenCalm

(***************************************************************************)
(* Push notifications                                                      *)
(***************************************************************************)

LEMMA FolkFacts ==
    /\ Elements(<<>>) = {} /\ NoRepeats(<<>>)
    /\ \A s \in Seq(Folk) : \A u \in Folk :
          /\ Append(s, u) \in Seq(Folk) /\ Elements(Append(s, u)) = Elements(s) \cup {u}
          /\ NoRepeats(s) /\ u \notin Elements(s) => NoRepeats(Append(s, u))
    /\ \A s \in Seq(Folk) : s # <<>> =>
          /\ Head(s) \in Elements(s) /\ Tail(s) \in Seq(Folk) /\ Elements(s) \subseteq Folk
          /\ NoRepeats(s) => NoRepeats(Tail(s)) /\ Elements(Tail(s)) = Elements(s) \ {Head(s)}
<1> USE DEF Elements, Cluster!RangeOf, NoRepeats
<1>1. Elements(<<>>) = {} /\ NoRepeats(<<>>)
  OBVIOUS
<1>2. ASSUME NEW s \in Seq(Folk), NEW u \in Folk
      PROVE  /\ Append(s, u) \in Seq(Folk) /\ Elements(Append(s, u)) = Elements(s) \cup {u}
             /\ NoRepeats(s) /\ u \notin Elements(s) => NoRepeats(Append(s, u))
  <2>1. /\ DOMAIN Append(s, u) = 1..(Len(s) + 1) /\ DOMAIN s = 1..Len(s) /\ Len(s) \in Nat
        /\ \A i \in 1..Len(s) : Append(s, u)[i] = s[i]
        /\ Append(s, u)[Len(s) + 1] = u /\ Append(s, u) \in Seq(Folk)
    OBVIOUS
  <2> QED BY <2>1
<1>3. ASSUME NEW s \in Seq(Folk), s # <<>>
      PROVE  /\ Head(s) \in Elements(s) /\ Tail(s) \in Seq(Folk) /\ Elements(s) \subseteq Folk
             /\ NoRepeats(s) => NoRepeats(Tail(s)) /\ Elements(Tail(s)) = Elements(s) \ {Head(s)}
  <2>1. /\ DOMAIN s = 1..Len(s) /\ Len(s) \in Nat /\ Len(s) > 0 /\ Head(s) = s[1]
        /\ Tail(s) \in Seq(Folk) /\ DOMAIN Tail(s) = 1..(Len(s) - 1)
        /\ \A i \in 1..(Len(s) - 1) : Tail(s)[i] = s[i + 1]
    BY <1>3
  <2>2. \A i \in 1..Len(s) : i = 1 \/ (i - 1 \in 1..(Len(s) - 1) /\ Tail(s)[i - 1] = s[i])
    BY <2>1
  <2>3. 1 \in DOMAIN s /\ \A i \in 1..(Len(s) - 1) : i + 1 \in DOMAIN s /\ i + 1 # 1
    BY <2>1
  <2>4. NoRepeats(s) => NoRepeats(Tail(s))
    <3> SUFFICES ASSUME NoRepeats(s), NEW i \in DOMAIN Tail(s), NEW j \in DOMAIN Tail(s), Tail(s)[i] = Tail(s)[j] PROVE i = j
      OBVIOUS
    <3>1. i + 1 = j + 1
      BY <2>1, <2>3
    <3> QED BY <2>1, <3>1
  <2>5. ASSUME NoRepeats(s) PROVE Elements(Tail(s)) = Elements(s) \ {Head(s)}
    <3>1. \A i \in DOMAIN Tail(s) : Tail(s)[i] \in Elements(s) /\ Tail(s)[i] # s[1]
      BY <2>1, <2>3, <2>5
    <3>2. \A i \in DOMAIN s : s[i] # s[1] => \E j \in DOMAIN Tail(s) : Tail(s)[j] = s[i]
      BY <2>1, <2>2
    <3> QED BY <2>1, <3>1, <3>2
  <2>6. Elements(s) \subseteq Folk /\ Head(s) \in Elements(s)
    BY <2>1, <2>3
  <2> QED BY <2>1, <2>4, <2>5, <2>6
<1> QED BY <1>1, <1>2, <1>3

\* A participant list has everybody once.
LEMMA OrdersFacts ==
    ASSUME NEW s \in Push!Orders
    PROVE  s \in Seq(Folk) /\ NoRepeats(s) /\ Elements(s) = Folk
<1>1. Push!Cardinality(Folk) = Cardinality(Folk)
  BY DEF Push!Cardinality, Cardinality
<1>2. Cardinality(Folk) \in Nat
  BY FS_CardinalityType, PushAssumption
<1>3. s \in [1..Cardinality(Folk) -> Folk] /\ \A i, j \in DOMAIN s : s[i] = s[j] => i = j
  BY <1>1 DEF Push!Orders
<1>4. s \in Injection(1..Cardinality(Folk), Folk)
  BY <1>3 DEF Injection, IsInjective
<1>6. Cardinality(1..Cardinality(Folk)) = Cardinality(Folk)
  BY <1>2, FS_Interval
<1>5. s \in Surjection(1..Cardinality(Folk), Folk)
  BY <1>4, <1>6, PushAssumption, FS_Injection
<1> QED BY <1>2, <1>3, <1>5 DEF Surjection, NoRepeats, Elements, Cluster!RangeOf

\* The time since a failure, computed with a wrapped subtraction, is never short.
LEMMA NeverRecent == ASSUME lastFailure \in FirstTime..LastTime PROVE ~(Push!Elapsed < Backoff)
<1>1. Push!Elapsed = Wrap - lastFailure
  BY PushAssumption DEF Push!Elapsed
<1> QED BY <1>1, PushAssumption

Untouched(m) == sent[m] = {} /\ notified[m] = {} /\ refused[m] = {}

\* Those already dealt with have a copy or a notification or a reason, those on
\* the lists have nothing yet.
Served(m) ==
    LET r == route[m] IN
    /\ NoRepeats(r.left) /\ NoRepeats(r.offline) /\ Elements(r.left) \cap Elements(r.offline) = {}
    /\ (Elements(r.left) \cup Elements(r.offline)) \cap (sent[m] \cup notified[m]) = {}
    /\ Routes[m] \notin Elements(r.offline) /\ Elements(r.offline) \cap r.blocked = {}
    /\ \A u \in sent[m] \cup notified[m] : u # Routes[m] /\ u \notin r.blocked
    /\ sent[m] \cap notified[m] = {}
    /\ \A u \in Folk \ (Elements(r.left) \cup Elements(r.offline)) :
          u = Routes[m] \/ u \in r.blocked \cup sent[m] \cup notified[m] \cup refused[m] \cup r.muted \cup missed[m]

LoopRoute == [pc : {"loop", "send", "publish"}, left : Seq(Folk), muted : SUBSET Folk, blocked : SUBSET Folk, offline : Seq(Folk)]

RouteOk(m) ==
    \/ route[m].pc = "idle" /\ Untouched(m)
    \/ route[m].pc = "muted" /\ route[m].left \in Push!Orders /\ Untouched(m)
    \/ route[m].pc = "blocked" /\ route[m].left \in Push!Orders /\ route[m].muted \in SUBSET Folk /\ Untouched(m)
    \/ /\ route[m] \in LoopRoute /\ Served(m)
       /\ route[m].pc = "publish" => route[m].left = <<>> /\ route[m].offline # <<>>
       /\ route[m].pc = "send" => /\ route[m].left # <<>>
                                  /\ Head(route[m].left) # Routes[m] /\ Head(route[m].left) \notin route[m].blocked
                                  /\ Head(route[m].left) \in here \cup missed[m]

RoutesType ==
    /\ route = [m \in Push!Messages |-> route[m]]
    /\ refused \in [Push!Messages -> SUBSET Folk]
    /\ degraded => lastFailure # 0

PushInv == Push!TypeOK /\ RoutesType /\ \A m \in Push!Messages : RouteOk(m)

LEMMA PushInit == Push!Init => PushInv
<1> SUFFICES ASSUME Push!Init PROVE PushInv
  OBVIOUS
<1>1. Push!TypeOK
  <2>1. FirstTime \in FirstTime..LastTime
    BY PushAssumption
  <2>2. here \cup muted \cup blocked \subseteq Folk
    BY DEF Push!Init
  <2>3. /\ sent \in [Push!Messages -> SUBSET Folk] /\ notified \in [Push!Messages -> SUBSET Folk]
        /\ missed \in [Push!Messages -> SUBSET Folk]
    BY DEF Push!Init
  <2> QED BY <2>1, <2>2, <2>3 DEF Push!Init, Push!TypeOK
<1>2. RoutesType /\ \A m \in Push!Messages : RouteOk(m)
  BY DEF Push!Init, RoutesType, RouteOk, Untouched
<1> QED BY <1>1, <1>2 DEF PushInv

LEMMA PushFacts == PushInv => Push!TypeOK /\ Push!EveryoneIsServedOnce
<1> SUFFICES ASSUME PushInv, NEW m \in Push!Messages, Push!Routed(m), NEW u \in Folk
             PROVE  IF u = Routes[m] \/ u \in route[m].blocked THEN u \notin sent[m] \cup notified[m]
                    ELSE /\ ~(u \in sent[m] /\ u \in notified[m])
                         /\ u \in sent[m] \cup notified[m] \cup refused[m] \cup route[m].muted \cup missed[m]
  BY DEF PushInv, Push!EveryoneIsServedOnce
<1>1. Served(m) /\ Elements(route[m].left) = {} /\ Elements(route[m].offline) = {}
  BY FolkFacts DEF PushInv, RouteOk, Push!Routed
<1> QED BY <1>1 DEF Served

\* A message whose route and results stay is as well off as before.
LEMMA RouteFrame ==
    ASSUME NEW m \in Push!Messages, RouteOk(m), route'[m] = route[m],
           sent'[m] = sent[m], notified'[m] = notified[m], refused'[m] = refused[m], missed[m] \subseteq missed'[m],
           Push!Sending(m) /\ Head(route[m].left) \in here \cup missed[m] => Head(route[m].left) \in here' \cup missed'[m]
    PROVE  RouteOk(m)'
BY DEF RouteOk, Untouched, Served, Push!Sending

LEMMA WorldOk == ASSUME PushInv, Push!World PROVE PushInv'
<1>1. UNCHANGED <<route, sent, notified, refused, degraded, lastFailure, triedAt>>
  BY DEF Push!World, Push!Come, Push!Go, Push!Mute, Push!Unmute, Push!Block, Push!Unblock, Push!RedisFlips, Push!TimePasses,
         Push!Flips, Push!fallback
<1>2. Push!TypeOK'
  <2>1. time' \in FirstTime..LastTime
    BY PushAssumption DEF Push!World, Push!Come, Push!Go, Push!Mute, Push!Unmute, Push!Block, Push!Unblock, Push!RedisFlips,
           Push!TimePasses, Push!Flips, Push!Others, PushInv, Push!TypeOK
  <2>2. here' \cup muted' \cup blocked' \subseteq Folk
    BY DEF Push!World, Push!Come, Push!Go, Push!Mute, Push!Unmute, Push!Block, Push!Unblock, Push!RedisFlips,
           Push!TimePasses, Push!Flips, Push!Others, PushInv, Push!TypeOK
  <2>3. missed' \in [Push!Messages -> SUBSET Folk]
    <3>1. CASE \E u \in Folk : Push!Go(u)
      BY <3>1 DEF Push!Go, PushInv, Push!TypeOK
    <3>2. CASE ~\E u \in Folk : Push!Go(u)
      BY <3>2 DEF Push!World, Push!Come, Push!Mute, Push!Unmute, Push!Block, Push!Unblock, Push!RedisFlips,
             Push!TimePasses, Push!Others, PushInv, Push!TypeOK
    <3> QED BY <3>1, <3>2
  <2> QED BY <1>1, <2>1, <2>2, <2>3 DEF PushInv, Push!TypeOK
<1>3. RoutesType'
  BY <1>1 DEF PushInv, RoutesType
<1>4. ASSUME NEW m \in Push!Messages PROVE RouteOk(m)'
  <2>1. CASE \E u \in Folk : Push!Go(u)
    <3>1. PICK u \in Folk : Push!Go(u)
      BY <2>1
    <3>2. /\ here' = here \ {u}
          /\ missed'[m] = IF Push!Sending(m) /\ Head(route[m].left) = u THEN missed[m] \cup {u} ELSE missed[m]
      BY <3>1 DEF Push!Go
    <3> QED BY <1>1, <3>2, RouteFrame DEF PushInv
  <2>2. CASE ~\E u \in Folk : Push!Go(u)
    <3>1. missed' = missed /\ here \subseteq here'
      BY <2>2 DEF Push!World, Push!Come, Push!Mute, Push!Unmute, Push!Block, Push!Unblock, Push!RedisFlips,
             Push!TimePasses, Push!Flips, Push!Others
    <3> QED BY <1>1, <3>1, RouteFrame DEF PushInv
  <2> QED BY <2>1, <2>2
<1> QED BY <1>2, <1>3, <1>4 DEF PushInv

LEMMA RouteStepOk == ASSUME PushInv, NEW m \in Push!Messages, Push!Route(m) PROVE PushInv'
<1> USE DEF Push!world, Push!fallback
<1>0. /\ RouteOk(m) /\ route = [n \in Push!Messages |-> route[n]] /\ UNCHANGED <<here, muted, blocked, time, missed>>
      /\ \A n \in Push!Messages \ {m} : RouteOk(n)
      /\ sent \in [Push!Messages -> SUBSET Folk] /\ notified \in [Push!Messages -> SUBSET Folk]
      /\ refused \in [Push!Messages -> SUBSET Folk] /\ (degraded => lastFailure # 0)
      /\ muted \in SUBSET Folk /\ blocked \in SUBSET Folk
  BY DEF PushInv, RoutesType, Push!TypeOK, Push!Route, Push!ReadParticipants, Push!ReadMuted, Push!ReadBlocked, Push!RouteNext,
     Push!SendToUser, Push!IsAvailable, Push!Publish
<1> DEFINE Frame == /\ \E r : route' = [route EXCEPT ![m] = r]
                    /\ \A n \in Push!Messages \ {m} : sent'[n] = sent[n] /\ notified'[n] = notified[n] /\ refused'[n] = refused[n]
                    /\ sent' \in [Push!Messages -> SUBSET Folk] /\ notified' \in [Push!Messages -> SUBSET Folk]
                    /\ refused' \in [Push!Messages -> SUBSET Folk]
                    /\ degraded' \in BOOLEAN /\ triedAt' \in BOOLEAN /\ lastFailure' \in {0} \cup FirstTime..LastTime
                    /\ degraded' => lastFailure' # 0
<1>1. ASSUME Frame, RouteOk(m)' PROVE PushInv'
  <2>1. \A n \in Push!Messages \ {m} : RouteOk(n)'
    BY <1>0, <1>1, RouteFrame
  <2>2. Push!TypeOK' /\ RoutesType'
    BY <1>0, <1>1 DEF PushInv, Push!TypeOK, RoutesType
  <2> QED BY <1>1, <2>1, <2>2 DEF PushInv
<1>2. CASE Push!ReadParticipants(m)
  <2>1. PICK order \in Push!Orders : route' = [route EXCEPT ![m] = [pc |-> "muted", left |-> order]]
    BY <1>2 DEF Push!ReadParticipants
  <2>2. UNCHANGED <<sent, notified, refused, degraded, triedAt, lastFailure>> /\ Untouched(m)
    BY <1>0, <1>2 DEF Push!ReadParticipants, RouteOk, LoopRoute
  <2>3. RouteOk(m)'
    BY <1>0, <2>1, <2>2 DEF RouteOk, Untouched
  <2>4. Frame
    BY <1>0, <2>1, <2>2 DEF PushInv, Push!TypeOK
  <2> QED BY <1>1, <2>3, <2>4
<1>3. CASE Push!ReadMuted(m)
  <2>1. /\ route' = [route EXCEPT ![m] = [pc |-> "blocked", left |-> route[m].left, muted |-> muted]]
        /\ UNCHANGED <<sent, notified, refused, degraded, triedAt, lastFailure>> /\ Untouched(m) /\ route[m].left \in Push!Orders
    BY <1>0, <1>3 DEF Push!ReadMuted, RouteOk, LoopRoute
  <2>2. RouteOk(m)'
    BY <1>0, <2>1 DEF RouteOk, Untouched
  <2>3. Frame
    BY <1>0, <2>1 DEF PushInv, Push!TypeOK
  <2> QED BY <1>1, <2>2, <2>3
<1>4. CASE Push!ReadBlocked(m)
  <2> DEFINE r == [pc |-> "loop", left |-> route[m].left, muted |-> route[m].muted, blocked |-> blocked, offline |-> <<>>]
  <2>1. /\ route' = [route EXCEPT ![m] = r]
        /\ UNCHANGED <<sent, notified, refused, degraded, triedAt, lastFailure>> /\ Untouched(m)
        /\ route[m].left \in Push!Orders /\ route[m].muted \in SUBSET Folk
    BY <1>0, <1>4 DEF Push!ReadBlocked, RouteOk, LoopRoute
  <2>2. /\ r.left \in Seq(Folk) /\ NoRepeats(r.left) /\ Elements(r.left) = Folk
        /\ r.pc = "loop" /\ r.offline = <<>> /\ r.blocked = blocked /\ r.muted = route[m].muted
        /\ r \in LoopRoute
    BY <1>0, <2>1, OrdersFacts DEF LoopRoute
  <2>3. RouteOk(m)'
    <3>1. route'[m] = r
      BY <1>0, <2>1
    <3> HIDE DEF r
    <3> QED BY <2>1, <2>2, <3>1, FolkFacts DEF RouteOk, Untouched, Served
  <2>4. Frame
    BY <1>0, <2>1 DEF PushInv, Push!TypeOK
  <2> QED BY <1>1, <2>3, <2>4
<1>5. CASE Push!RouteNext(m)
  <2> DEFINE r == route[m]
             u == Head(r.left)
             rest == [r EXCEPT !.left = Tail(r.left)]
             later == [rest EXCEPT !.offline = Append(r.offline, u)]
             found == [r EXCEPT !.pc = "send"]
  <2>1. /\ r \in LoopRoute /\ Served(m) /\ r.pc = "loop" /\ r.left # <<>>
        /\ UNCHANGED <<sent, notified, refused, degraded, triedAt, lastFailure>>
    BY <1>0, <1>5 DEF Push!RouteNext, RouteOk
  <2>2. /\ r.left \in Seq(Folk) /\ r.offline \in Seq(Folk) /\ u \in Elements(r.left) /\ u \in Folk
        /\ Tail(r.left) \in Seq(Folk) /\ NoRepeats(Tail(r.left)) /\ Elements(Tail(r.left)) = Elements(r.left) \ {u}
    BY <2>1, FolkFacts DEF LoopRoute, Served
  <2>3. /\ rest \in LoopRoute /\ rest.pc = "loop" /\ rest.left = Tail(r.left) /\ rest.offline = r.offline
        /\ rest.muted = r.muted /\ rest.blocked = r.blocked
    BY <2>1, <2>2 DEF LoopRoute
  <2>4. /\ later \in LoopRoute /\ later.pc = "loop" /\ later.left = Tail(r.left) /\ later.offline = Append(r.offline, u)
        /\ later.muted = r.muted /\ later.blocked = r.blocked
    BY <2>1, <2>2, FolkFacts DEF LoopRoute
  <2>5. \/ (u = Routes[m] \/ u \in r.blocked \/ u \in r.muted) /\ route' = [route EXCEPT ![m] = rest]
        \/ u # Routes[m] /\ u \notin r.blocked /\ u \in here /\ route' = [route EXCEPT ![m] = found]
        \/ u # Routes[m] /\ u \notin r.blocked /\ route' = [route EXCEPT ![m] = later]
    BY <1>5 DEF Push!RouteNext
  <2>6. Frame
    BY <1>0, <2>1, <2>5 DEF PushInv, Push!TypeOK
  <2>7. /\ NoRepeats(r.left) /\ NoRepeats(r.offline) /\ Elements(r.left) \cap Elements(r.offline) = {}
        /\ Elements(Append(r.offline, u)) = Elements(r.offline) \cup {u} /\ NoRepeats(Append(r.offline, u))
    BY <2>1, <2>2, FolkFacts DEF Served
  <2>8. RouteOk(m)'
    <3>1. CASE route' = [route EXCEPT ![m] = rest] /\ (u = Routes[m] \/ u \in r.blocked \/ u \in r.muted)
      <4>1. route'[m] = rest
        BY <1>0, <3>1
      <4> HIDE DEF rest, u
      <4> QED BY <1>0, <2>1, <2>2, <2>3, <2>7, <3>1, <4>1 DEF RouteOk, Served
    <3>2. CASE u # Routes[m] /\ u \notin r.blocked /\ u \in here /\ route' = [route EXCEPT ![m] = found]
      <4>1. route'[m] = found
        BY <1>0, <3>2
      <4>2. /\ route'[m] \in LoopRoute /\ route'[m].pc = "send" /\ route'[m].left = r.left /\ route'[m].offline = r.offline
            /\ route'[m].muted = r.muted /\ route'[m].blocked = r.blocked
        BY <2>1, <4>1 DEF LoopRoute
      <4> QED BY <1>0, <2>1, <3>2, <4>2 DEF RouteOk, Served
    <3>3. CASE u # Routes[m] /\ u \notin r.blocked /\ route' = [route EXCEPT ![m] = later]
      <4>1. route'[m] = later
        BY <1>0, <3>3
      <4> HIDE DEF rest, u, later
      <4>2. /\ UNCHANGED <<sent, notified, refused, missed>> /\ u \notin sent[m] \cup notified[m]
            /\ Elements(route'[m].left) = Elements(r.left) \ {u} /\ NoRepeats(route'[m].left)
            /\ Elements(route'[m].offline) = Elements(r.offline) \cup {u} /\ NoRepeats(route'[m].offline)
            /\ route'[m].blocked = r.blocked /\ route'[m].muted = r.muted
        BY <1>0, <2>1, <2>2, <2>4, <2>7, <3>3, <4>1 DEF Served
      <4>3. Served(m)'
        BY <2>1, <2>7, <3>3, <4>2 DEF Served
      <4> QED BY <2>4, <4>1, <4>3 DEF RouteOk
    <3> HIDE DEF rest, u, later, found, r
    <3> QED BY <2>5, <3>1, <3>2, <3>3
  <2> QED BY <1>1, <2>6, <2>8
<1>8. CASE Push!SendToUser(m)
  <2> DEFINE r == route[m]
             u == Head(r.left)
             rest == [r EXCEPT !.pc = "loop", !.left = Tail(r.left)]
  <2>1. /\ r \in LoopRoute /\ Served(m) /\ r.pc = "send" /\ r.left # <<>>
        /\ u # Routes[m] /\ u \notin r.blocked /\ u \in here \cup missed[m]
        /\ UNCHANGED <<notified, refused, degraded, triedAt, lastFailure>>
    BY <1>0, <1>8 DEF Push!SendToUser, Push!Sending, RouteOk
  <2>2. /\ r.left \in Seq(Folk) /\ u \in Elements(r.left) /\ u \in Folk
        /\ Tail(r.left) \in Seq(Folk) /\ NoRepeats(Tail(r.left)) /\ Elements(Tail(r.left)) = Elements(r.left) \ {u}
    BY <2>1, FolkFacts DEF LoopRoute, Served
  <2>3. /\ rest \in LoopRoute /\ rest.pc = "loop" /\ rest.left = Tail(r.left) /\ rest.offline = r.offline
        /\ rest.muted = r.muted /\ rest.blocked = r.blocked
    BY <2>1, <2>2 DEF LoopRoute
  <2>4. /\ route' = [route EXCEPT ![m] = rest]
        /\ sent' = [sent EXCEPT ![m] = IF u \in here THEN sent[m] \cup {u} ELSE sent[m]]
    BY <1>8 DEF Push!SendToUser
  <2>5. Frame
    <3>1. sent' \in [Push!Messages -> SUBSET Folk] /\ \A n \in Push!Messages \ {m} : sent'[n] = sent[n]
      BY <1>0, <2>2, <2>4
    <3> QED BY <1>0, <2>1, <2>4, <3>1 DEF PushInv, Push!TypeOK
  <2>6. RouteOk(m)'
    <3>1. route'[m] = rest /\ missed' = missed
      BY <1>0, <2>4
    <3>2. sent'[m] = sent[m] \cup {u} \/ (sent'[m] = sent[m] /\ u \in missed[m])
      BY <1>0, <2>1, <2>4
    <3> HIDE DEF rest, u
    <3> QED BY <2>1, <2>2, <2>3, <3>1, <3>2 DEF RouteOk, Served
  <2> QED BY <1>1, <2>5, <2>6
<1>6. CASE Push!IsAvailable(m)
  <2> DEFINE r == route[m]
  <2>1. /\ r \in LoopRoute /\ Served(m) /\ r.pc = "loop" /\ r.left = <<>> /\ r.offline # <<>>
        /\ UNCHANGED <<sent, notified, refused, lastFailure>>
    BY <1>0, <1>6 DEF Push!IsAvailable, RouteOk
  <2>2. ~(degraded /\ Push!Elapsed < Backoff)
    BY <1>0, NeverRecent DEF PushInv, Push!TypeOK
  <2>3. /\ route' = [route EXCEPT ![m].pc = "publish"] /\ degraded' = FALSE
        /\ triedAt' = (triedAt \/ (lastFailure # 0 /\ degraded /\ time - lastFailure < Backoff))
    BY <1>6, <2>2 DEF Push!IsAvailable
  <2>4. /\ route'[m] \in LoopRoute /\ route'[m].pc = "publish" /\ route'[m].left = r.left /\ route'[m].offline = r.offline
        /\ route'[m].muted = r.muted /\ route'[m].blocked = r.blocked /\ \E x : route' = [route EXCEPT ![m] = x]
    BY <1>0, <2>1, <2>3 DEF LoopRoute
  <2>5. RouteOk(m)'
    BY <1>0, <2>1, <2>4 DEF RouteOk, Served
  <2>6. Frame
    BY <1>0, <2>1, <2>3, <2>4 DEF PushInv, Push!TypeOK
  <2> QED BY <1>1, <2>5, <2>6
<1>7. CASE Push!Publish(m)
  <2> DEFINE r == route[m]
             u == Head(r.offline)
  <2>1. /\ r \in LoopRoute /\ Served(m) /\ r.pc = "publish" /\ r.left = <<>> /\ r.offline # <<>>
        /\ UNCHANGED <<sent, triedAt>>
        /\ route' = [route EXCEPT ![m].pc = "loop", ![m].offline = Tail(r.offline)]
    BY <1>0, <1>7 DEF Push!Publish, RouteOk
  <2>2. /\ r.offline \in Seq(Folk) /\ u \in Elements(r.offline) /\ u \in Folk
        /\ Tail(r.offline) \in Seq(Folk) /\ NoRepeats(Tail(r.offline)) /\ Elements(Tail(r.offline)) = Elements(r.offline) \ {u}
    BY <2>1, FolkFacts DEF LoopRoute, Served
  <2>3. \/ /\ notified' = [notified EXCEPT ![m] = notified[m] \cup {u}] /\ refused' = refused
           /\ degraded' = FALSE /\ lastFailure' = lastFailure
        \/ /\ refused' = [refused EXCEPT ![m] = refused[m] \cup {u}] /\ notified' = notified
           /\ degraded' = TRUE /\ lastFailure' = time
    BY <1>7 DEF Push!Publish
  <2>4. /\ route'[m] \in LoopRoute /\ route'[m].pc = "loop" /\ route'[m].left = r.left /\ route'[m].offline = Tail(r.offline)
        /\ route'[m].muted = r.muted /\ route'[m].blocked = r.blocked /\ \E x : route' = [route EXCEPT ![m] = x]
    BY <1>0, <2>1, <2>2 DEF LoopRoute
  <2>5. Frame
    <3> HIDE DEF u
    <3>1. /\ notified' \in [Push!Messages -> SUBSET Folk] /\ refused' \in [Push!Messages -> SUBSET Folk]
          /\ \A n \in Push!Messages \ {m} : notified'[n] = notified[n] /\ refused'[n] = refused[n]
      BY <1>0, <2>2, <2>3
    <3>2. /\ degraded' \in BOOLEAN /\ lastFailure' \in {0} \cup FirstTime..LastTime
          /\ degraded' => lastFailure' # 0
      <4>1. time \in FirstTime..LastTime /\ time # 0 /\ lastFailure \in {0} \cup FirstTime..LastTime /\ (degraded => lastFailure # 0)
        BY PushAssumption DEF PushInv, Push!TypeOK, RoutesType
      <4> QED BY <2>3, <4>1
    <3> QED BY <1>0, <2>1, <2>4, <3>1, <3>2 DEF PushInv, Push!TypeOK
  <2>6. RouteOk(m)'
    <3>1. \/ notified'[m] = notified[m] \cup {u} /\ refused'[m] = refused[m]
          \/ refused'[m] = refused[m] \cup {u} /\ notified'[m] = notified[m]
      BY <1>0, <2>3
    <3> HIDE DEF u, r
    <3>2. sent'[m] = sent[m]
      BY <2>1
    <3>3. Served(m)'
      BY <1>0, <2>1, <2>2, <2>4, <3>1, <3>2 DEF Served, r
    <3> QED BY <2>1, <2>4, <3>3 DEF RouteOk
  <2> QED BY <1>1, <2>5, <2>6
<1> QED BY <1>2, <1>3, <1>4, <1>5, <1>6, <1>7, <1>8 DEF Push!Route

PushHolds == part = "push" => PushInv

LEMMA PushStutter == ASSUME PushInv, UNCHANGED pushVars PROVE PushInv'
<1>1. Push!TypeOK' /\ RoutesType'
  BY DEF pushVars, PushInv, Push!TypeOK, RoutesType
<1>2. \A m \in Push!Messages : RouteOk(m)'
  BY RouteFrame DEF pushVars, PushInv
<1> QED BY <1>1, <1>2 DEF PushInv

LEMMA PushHoldsStep == PushHolds /\ [PartsNext]_partsVars => PushHolds'
<1> SUFFICES ASSUME PushHolds, [PartsNext]_partsVars, part' = "push" PROVE PushInv'
  BY DEF PushHolds
<1>0. part = "push" /\ PushInv
  BY DEF PushHolds, PartsNext, partsVars
<1>1. CASE Push!Next
  BY <1>0, <1>1, WorldOk, RouteStepOk DEF Push!Next
<1>2. CASE UNCHANGED pushVars
  BY <1>0, <1>2, PushStutter
<1> QED BY <1>0, <1>1, <1>2 DEF PartsNext, partsVars

\* router.rs and notification/service.rs: whoever comes, goes, mutes, blocks or fails during the loop
\* over the participants, each of them gets a copy or a notification and never both,
\* or was withheld it for a reason that was read.
THEOREM NobodyIsEverForgotten == Push!Spec => [](Push!TypeOK /\ Push!EveryoneIsServedOnce)
<1>1. PushInv /\ [Push!Next]_(Push!pushVars) => PushInv'
  <2>1. PushInv /\ Push!Next => PushInv'
    BY WorldOk, RouteStepOk DEF Push!Next
  <2>2. PushInv /\ UNCHANGED Push!pushVars => PushInv'
    BY PushStutter DEF Push!pushVars, pushVars
  <2> QED BY <2>1, <2>2
<1> QED BY PushInit, <1>1, PushFacts, PTL DEF Push!Spec

\* The same where push notifications are one part of several.
THEOREM NobodyIsForgotten == PartsSpec => []EveryoneIsServedOnce
<1>1. PartsInit => PushHolds
  BY PushInit DEF PartsInit, PushHolds
<1>2. PushHolds => EveryoneIsServedOnce
  BY PushFacts DEF PushHolds, EveryoneIsServedOnce
<1> QED BY <1>1, <1>2, PushHoldsStep, PTL DEF PartsSpec

(***************************************************************************)
(* Emails                                                                  *)
(***************************************************************************)

LEMMA EmailCardinality == ASSUME NEW S PROVE Email!Cardinality(S) = Cardinality(S)
BY DEF Email!Cardinality, Cardinality

\* A non-empty set of row numbers has a greatest: the smallest of its upper parts
\* is that element's own.
LEMMA GreatestRow == ASSUME NEW T \in SUBSET Email!RowIds, T # {} PROVE Email!Max(T) \in T
<1> DEFINE Upper(x) == {y \in T : y >= x}
           Uppers == {Upper(x) : x \in T}
<1>1. T \subseteq Nat /\ IsFiniteSet(T)
  <2>1. Email!RowIds \subseteq Nat /\ IsFiniteSet(Email!RowIds)
    BY EmailAssumption, FS_Interval DEF Email!RowIds
  <2> QED BY <2>1, FS_Subset
<1>2. Uppers \subseteq FiniteSubsetsOf(T) /\ Uppers # {}
  <2>1. FiniteSubsetsOf(T) = SUBSET T
    BY <1>1, FS_FiniteSubsetsOfFinite
  <2>2. \A x \in T : Upper(x) \in SUBSET T
    OBVIOUS
  <2>3. PICK z \in T : TRUE
    OBVIOUS
  <2>4. Upper(z) \in Uppers
    OBVIOUS
  <2> HIDE DEF Upper
  <2>5. Uppers \subseteq SUBSET T
    BY <2>2
  <2> QED BY <2>1, <2>4, <2>5
<1>3. PICK U \in Uppers : \A V \in Uppers : <<V, U>> \notin StrictSubsetOrdering(T)
  BY <1>2, FS_StrictSubsetOrderingWellFounded, WFMin
<1>4. PICK x \in T : U = Upper(x)
  BY <1>3
<1>5. ASSUME NEW y \in T PROVE x >= y
  <2> SUFFICES ASSUME ~(x >= y) PROVE FALSE
    OBVIOUS
  <2>0. x \in Nat /\ y \in Nat /\ x >= x /\ \A z \in T : z \in Nat /\ (z >= y => z >= x)
    BY <1>1
  <2>1. Upper(y) \subseteq Upper(x) /\ x \in Upper(x) /\ x \notin Upper(y)
    BY <2>0
  <2>2. <<Upper(y), U>> \in StrictSubsetOrdering(T)
    BY <1>4, <2>1 DEF StrictSubsetOrdering
  <2> QED BY <1>3, <2>2
<1> QED BY <1>5 DEF Email!Max

RowType == [status : Email!Statuses, messages : SUBSET Notices, retries : Nat]
NoticeType == [pc : {"idle", "find", "join", "insert", "queued", "refused"}, row : Email!RowIds \cup {0}, messages : SUBSET Notices]
Task == [row : Email!RowIds, messages : SUBSET Notices]
AtWork == {"limit", "send", "sent", "count", "failed"}
ProcessorType == [pc : {"idle", "next"} \cup AtWork, todo : SUBSET Task, row : Email!RowIds \cup {0}]
PrefType == [enabled : BOOLEAN, address : BOOLEAN]

RowsType ==
    /\ emails \in [Email!RowIds -> RowType]
    /\ fresh \subseteq Email!RowIds /\ due \subseteq Email!RowIds
    /\ notice \in [Notices -> NoticeType]
    /\ collided \in BOOLEAN
PrefsType ==
    /\ prefs \in PrefType
    /\ edit \in [Edits -> [pc : {"idle", "done"}] \cup [pc : {"write"}, row : PrefType]]
WorkType ==
    /\ processor \in [Servers -> ProcessorType]
    /\ hour \in 0..MaxHour /\ counted \in [0..MaxHour -> Nat]
    /\ IsFiniteSet(delivered) /\ \A d \in delivered : d.row \in Email!RowIds /\ d.at \in 0..hour
    /\ botched \in BOOLEAN
EmailType == RowsType /\ PrefsType /\ WorkType

InUse(r) == emails[r].status # "free"

\* Rows are used one after the other; a row is within its size, and so is what a
\* notice that joins it has read; while nobody collides an accepted notice is in one.
RowsOk ==
    /\ \E k \in 0..MaxRows : \A r \in Email!RowIds : InUse(r) <=> r <= k
    /\ \A r \in Email!RowIds : (~InUse(r) => emails[r].messages = {}) /\ Cardinality(emails[r].messages) <= MaxBatch
    /\ \A n \in Notices : notice[n].pc = "join" =>
          /\ notice[n].row \in Email!RowIds /\ InUse(notice[n].row)
          /\ Cardinality(notice[n].messages) < MaxBatch
    /\ ~collided => \A n \in Notices : notice[n].pc = "queued" => \E r \in Email!RowIds : n \in emails[r].messages

\* A processor's tasks are rows as they are, while nobody collides; what it marks as
\* sent it has sent.
TasksOk ==
    /\ \A s \in Servers :
          /\ \A x \in processor[s].todo : InUse(x.row) /\ (~collided => x.messages = emails[x.row].messages)
          /\ \A x, y \in processor[s].todo : x.row = y.row => x = y
          /\ processor[s].pc \in AtWork => \E x \in processor[s].todo : x.row = processor[s].row
          /\ processor[s].pc = "idle" => processor[s].todo = {}
          /\ processor[s].pc = "sent" => \E d \in delivered : d.row = processor[s].row /\ d.messages = Email!AtHand(s).messages
    /\ ~collided => \A r \in Email!RowIds : emails[r].status = "sent" =>
                       \E d \in delivered : d.row = r /\ d.messages = emails[r].messages

InHour(h) == Cardinality({d \in delivered : d.at = h})

\* With one server whose marks succeed, a delivered row is marked or about to be, and
\* is no longer a task; an hour's deliveries are counted but for the one at hand.
OneOk(s) ==
    LET p == processor[s] IN
    /\ \A d, e \in delivered : d.row = e.row => d = e
    /\ \A d \in delivered : emails[d.row].status = "sent" \/ (p.pc = "sent" /\ p.row = d.row)
    /\ \A d \in delivered, x \in p.todo : d.row = x.row => x.row = p.row /\ p.pc \in {"sent", "count"}
    /\ \A h \in 0..hour : InHour(h) <= MaxPerHour
    /\ InHour(hour) <= counted[hour] + IF p.pc \in {"sent", "count"} THEN 1 ELSE 0
    /\ p.pc = "send" => InHour(hour) < MaxPerHour
LimitOk == ~botched => \A s \in Servers : Servers = {s} => OneOk(s)

EmailInv == EmailType /\ RowsOk /\ TasksOk /\ LimitOk

LEMMA EmailInit == Email!Init => EmailInv
<1> SUFFICES ASSUME Email!Init PROVE EmailInv
  OBVIOUS
<1> USE EmailAssumption DEF Email!Init
<1>1. EmailType
  <2>1. RowsType
    BY DEF RowsType, RowType, NoticeType, Email!NoEmail, Email!Statuses
  <2>2. PrefsType
    BY DEF PrefsType, PrefType
  <2>3. WorkType
    <3>1. 0 \in 0..MaxHour /\ 0 \in Nat /\ delivered = {}
      OBVIOUS
    <3>2. processor \in [Servers -> ProcessorType]
      BY DEF ProcessorType
    <3>3. counted \in [0..MaxHour -> Nat]
      OBVIOUS
    <3> QED BY <3>1, <3>2, <3>3, FS_EmptySet DEF WorkType
  <2> QED BY <2>1, <2>2, <2>3 DEF EmailType
<1>2. RowsOk
  <2>1. 0 \in 0..MaxRows /\ \A r \in Email!RowIds : ~InUse(r) /\ ~(r <= 0) /\ emails[r].messages = {}
    BY DEF InUse, Email!NoEmail, Email!RowIds
  <2>2. Cardinality({}) <= MaxBatch
    BY FS_EmptySet
  <2> QED BY <2>1, <2>2 DEF RowsOk
<1>3. TasksOk
  BY DEF TasksOk, InUse, Email!NoEmail, AtWork
<1>4. LimitOk
  <2>1. \A h : {d \in delivered : d.at = h} = {}
    OBVIOUS
  <2> QED BY <2>1, FS_EmptySet DEF LimitOk, OneOk, InHour
<1> QED BY <1>1, <1>2, <1>3, <1>4 DEF EmailInv

LEMMA EmailFacts == EmailInv => Email!TypeOK /\ Email!EmailsAreSound
<1> SUFFICES ASSUME EmailInv PROVE Email!TypeOK /\ Email!EmailsAreSound
  OBVIOUS
<1>1. Email!TypeOK
  BY DEF EmailInv, EmailType, RowsType, PrefsType, WorkType, RowType, PrefType, Email!TypeOK
<1>2. Email!NoticesAreKept
  BY EmailCardinality DEF EmailInv, RowsOk, TasksOk, Email!NoticesAreKept
<1>3. Email!SentOnceWithinLimit
  <2> SUFFICES ASSUME Email!Cardinality(Servers) = 1, ~botched
               PROVE  /\ \A d, e \in delivered : d.row = e.row => d = e
                      /\ \A h \in 0..hour : Email!Cardinality({d \in delivered : d.at = h}) <= MaxPerHour
    BY DEF Email!SentOnceWithinLimit
  <2>1. PICK s : Servers = {s}
    BY EmailCardinality, FS_Singleton, EmailAssumption
  <2>2. OneOk(s)
    BY <2>1 DEF EmailInv, LimitOk
  <2> QED BY <2>2, EmailCardinality DEF OneOk, InHour
<1> QED BY <1>1, <1>2, <1>3 DEF Email!EmailsAreSound

\* The task at hand.
LEMMA AtHandFacts ==
    ASSUME EmailInv, NEW s \in Servers, processor[s].pc \in AtWork
    PROVE  /\ Email!AtHand(s) \in processor[s].todo /\ Email!AtHand(s).row = processor[s].row
           /\ processor[s].row \in Email!RowIds /\ InUse(processor[s].row)
           /\ \A x \in Email!Drop(s) : x \in processor[s].todo /\ x.row # processor[s].row
<1>1. PICK x \in processor[s].todo : x.row = processor[s].row
  BY DEF EmailInv, TasksOk
<1>2. Email!AtHand(s) \in processor[s].todo /\ Email!AtHand(s).row = processor[s].row
  BY <1>1 DEF Email!AtHand
<1>3. x \in Task /\ InUse(x.row)
  BY <1>1 DEF EmailInv, EmailType, WorkType, ProcessorType, TasksOk
<1>4. \A y, z \in processor[s].todo : y.row = z.row => y = z
  BY DEF EmailInv, TasksOk
<1> QED BY <1>1, <1>2, <1>3, <1>4 DEF Email!Drop, Task

\* What the notices and the other statements leave alone, and what they may do to rows.
LEMMA ProcessorsFrame ==
    ASSUME EmailInv, UNCHANGED <<processor, hour, counted, delivered, botched, prefs, edit>>, RowsType', RowsOk',
           ~collided' => ~collided,
           \A r \in Email!RowIds : InUse(r) => InUse(r)' /\ (emails'[r].status = "sent" <=> emails[r].status = "sent"),
           \A r \in Email!RowIds : ~InUse(r) => emails'[r].status # "sent",
           ~collided' => \A s \in Servers : \A x \in processor[s].todo : emails'[x.row].messages = emails[x.row].messages,
           ~collided' => \A r \in Email!RowIds : emails[r].status = "sent" => emails'[r].messages = emails[r].messages
    PROVE  EmailInv'
<1>1. EmailType'
  BY DEF EmailInv, EmailType, PrefsType, WorkType
<1>2. TasksOk'
  <2>1. \A s \in Servers : \A x \in processor[s].todo : x.row \in Email!RowIds
    BY DEF EmailInv, EmailType, WorkType, ProcessorType, Task
  <2>2. \A s \in Servers : Email!AtHand(s)' = Email!AtHand(s)
    BY DEF Email!AtHand
  <2>3. ASSUME NEW s \in Servers, NEW x \in processor[s].todo
        PROVE  InUse(x.row)' /\ (~collided' => x.messages = emails'[x.row].messages)
    <3>1. InUse(x.row) /\ (~collided => x.messages = emails[x.row].messages)
      BY DEF EmailInv, TasksOk
    <3> QED BY <2>1, <3>1
  <2>4. ASSUME ~collided', NEW r \in Email!RowIds, emails'[r].status = "sent"
        PROVE  \E d \in delivered : d.row = r /\ d.messages = emails'[r].messages
    <3>1. emails[r].status = "sent" /\ emails'[r].messages = emails[r].messages
      BY <2>4
    <3> QED BY <2>4, <3>1 DEF EmailInv, TasksOk
  <2> QED BY <2>2, <2>3, <2>4 DEF EmailInv, TasksOk
<1>3. LimitOk'
  <2>1. \A d \in delivered : emails[d.row].status = "sent" => emails'[d.row].status = "sent"
    BY DEF EmailInv, EmailType, WorkType, InUse
  <2> QED BY <2>1 DEF EmailInv, LimitOk, OneOk, InHour
<1> QED BY <1>1, <1>2, <1>3 DEF EmailInv

\* A step that only takes notice n further.
LEMMA NoticeOnly ==
    ASSUME EmailInv, NEW n \in Notices, NEW x \in NoticeType, notice' = [notice EXCEPT ![n] = x],
           UNCHANGED <<emails, fresh, due, collided, processor, hour, counted, delivered, botched, prefs, edit>>,
           x.pc # "queued",
           x.pc = "join" => x.row \in Email!RowIds /\ InUse(x.row) /\ Cardinality(x.messages) < MaxBatch
    PROVE  EmailInv'
<1>0. notice \in [Notices -> NoticeType]
  BY DEF EmailInv, EmailType, RowsType
<1>1. RowsType'
  BY <1>0 DEF EmailInv, EmailType, RowsType
<1>2. notice'[n] = x /\ \A k \in Notices \ {n} : notice'[k] = notice[k]
  BY <1>0
<1>3. RowsOk'
  BY <1>2 DEF EmailInv, RowsOk, InUse
<1> QED BY <1>1, <1>3, ProcessorsFrame DEF InUse

LEMMA NoticeStep == ASSUME EmailInv, NEW n \in Notices, Email!Notify(n) PROVE EmailInv'
<1> USE DEF Email!otherThanRows
<1>0. /\ emails \in [Email!RowIds -> RowType] /\ notice \in [Notices -> NoticeType] /\ notice[n] \in NoticeType
      /\ fresh \subseteq Email!RowIds /\ due \subseteq Email!RowIds /\ collided \in BOOLEAN
  BY DEF EmailInv, EmailType, RowsType
<1>1. ASSUME Email!BeginNotice(n) \/ Email!NoticeFails(n) PROVE EmailInv'
  <2>1. PICK pc \in {"find", "refused"} : notice' = [notice EXCEPT ![n].pc = pc]
    BY <1>1 DEF Email!BeginNotice, Email!NoticeFails
  <2>2. notice' = [notice EXCEPT ![n] = [notice[n] EXCEPT !.pc = pc]]
    BY <2>1
  <2>3. [notice[n] EXCEPT !.pc = pc] \in NoticeType /\ [notice[n] EXCEPT !.pc = pc].pc = pc
    BY <1>0 DEF NoticeType
  <2>4. UNCHANGED <<emails, fresh, due, collided, processor, hour, counted, delivered, botched, prefs, edit>>
    BY <1>1 DEF Email!BeginNotice, Email!NoticeFails
  <2> QED BY <2>2, <2>3, <2>4, NoticeOnly
<1>2. ASSUME Email!FindBatch(n) PROVE EmailInv'
  <2> DEFINE free == {r \in fresh : emails[r].status = "pending"}
             r == Email!Max(free)
             joining == [pc |-> "join", row |-> r, messages |-> emails[r].messages]
  <2>1. UNCHANGED <<emails, fresh, due, collided, processor, hour, counted, delivered, botched, prefs, edit>>
    BY <1>2 DEF Email!FindBatch
  <2>2. CASE notice' = [notice EXCEPT ![n].pc = "insert"]
    <3>1. notice' = [notice EXCEPT ![n] = [notice[n] EXCEPT !.pc = "insert"]]
      BY <2>2
    <3>2. [notice[n] EXCEPT !.pc = "insert"] \in NoticeType /\ [notice[n] EXCEPT !.pc = "insert"].pc = "insert"
      BY <1>0 DEF NoticeType
    <3> QED BY <2>1, <3>1, <3>2, NoticeOnly
  <2>3. CASE free # {} /\ Cardinality(emails[r].messages) < MaxBatch /\ notice' = [notice EXCEPT ![n] = joining]
    <3>1. free \in SUBSET Email!RowIds
      BY <1>0
    <3>2. r \in free
      BY <2>3, <3>1, GreatestRow
    <3>3. r \in Email!RowIds /\ InUse(r) /\ emails[r].messages \in SUBSET Notices
      BY <1>0, <3>1, <3>2 DEF InUse, RowType
    <3> HIDE DEF r
    <3>4. joining \in NoticeType /\ joining.pc = "join" /\ joining.row = r /\ joining.messages = emails[r].messages
      BY <3>3 DEF NoticeType
    <3> QED BY <2>1, <2>3, <3>3, <3>4, NoticeOnly
  <2> QED BY <1>2, <2>2, <2>3, EmailCardinality DEF Email!FindBatch
<1>3. ASSUME Email!JoinBatch(n) PROVE EmailInv'
  <2> DEFINE r == notice[n].row
             joined == notice[n].messages \cup {n}
  <2>1. /\ notice[n].pc = "join" /\ emails' = [emails EXCEPT ![r].messages = joined] /\ due' = due \ {r}
        /\ collided' = (collided \/ Email!Claimed(r) \/ emails[r].messages # notice[n].messages)
        /\ notice' = [notice EXCEPT ![n].pc = "queued"]
        /\ UNCHANGED <<fresh, processor, hour, counted, delivered, botched, prefs, edit>>
    BY <1>3 DEF Email!JoinBatch
  <2>2. r \in Email!RowIds /\ InUse(r) /\ Cardinality(notice[n].messages) < MaxBatch /\ notice[n].messages \subseteq Notices
    BY <1>0, <2>1 DEF EmailInv, RowsOk, NoticeType
  <2>3. joined \in SUBSET Notices /\ Cardinality(joined) <= MaxBatch
    <3>1. IsFiniteSet(notice[n].messages)
      BY <2>2, EmailAssumption, FS_Subset
    <3>2. Cardinality(notice[n].messages) \in Nat /\ Cardinality(joined) <= Cardinality(notice[n].messages) + 1
      <4>1. Cardinality(notice[n].messages) \in Nat
        BY <3>1, FS_CardinalityType
      <4>2. Cardinality(joined) = IF n \in notice[n].messages THEN Cardinality(notice[n].messages)
                                  ELSE Cardinality(notice[n].messages) + 1
        BY <3>1, FS_AddElement
      <4> QED BY <4>1, <4>2
    <3>3. Cardinality(joined) \in Nat
      BY <3>1, FS_AddElement, FS_CardinalityType
    <3> QED BY <2>2, <3>2, <3>3, EmailAssumption
  <2> HIDE DEF r, joined
  <2>4. /\ emails' \in [Email!RowIds -> RowType] /\ notice' \in [Notices -> NoticeType] /\ collided' \in BOOLEAN
        /\ \A q \in Email!RowIds : emails'[q].status = emails[q].status
        /\ \A q \in Email!RowIds \ {r} : emails'[q] = emails[q]
        /\ emails'[r].messages = joined
    <3>1. emails' \in [Email!RowIds -> RowType]
      BY <1>0, <2>1, <2>2, <2>3 DEF RowType
    <3>2. notice' \in [Notices -> NoticeType]
      BY <1>0, <2>1 DEF NoticeType
    <3>3. \A q \in Email!RowIds \ {r} : emails'[q] = emails[q]
      BY <1>0, <2>1
    <3>4. emails'[r].status = emails[r].status /\ emails'[r].messages = joined
      BY <1>0, <2>1, <2>2 DEF RowType
    <3>5. collided' \in BOOLEAN
      BY <1>0, <2>1, Zenon
    <3> QED BY <3>1, <3>2, <3>3, <3>4, <3>5
  <2>5. \A q \in Email!RowIds : InUse(q)' <=> InUse(q)
    BY <2>4 DEF InUse
  <2>6. ~collided' => ~collided /\ ~Email!Claimed(r) /\ emails[r].messages = notice[n].messages
    BY <2>1
  <2>7. RowsType'
    BY <1>0, <2>1, <2>4 DEF RowsType
  <2>8. RowsOk'
    <3>1. ASSUME NEW k \in Notices, notice'[k].pc = "join"
          PROVE  /\ notice'[k].row \in Email!RowIds /\ emails'[notice'[k].row].status # "free"
                 /\ Cardinality(notice'[k].messages) < MaxBatch
      <4>1. notice'[k] = notice[k]
        BY <1>0, <2>1, <3>1 DEF NoticeType
      <4> QED BY <2>5, <3>1, <4>1 DEF EmailInv, RowsOk, InUse
    <3>2. ASSUME ~collided', NEW k \in Notices, notice'[k].pc = "queued"
          PROVE  \E q \in Email!RowIds : k \in emails'[q].messages
      <4>1. CASE k = n
        BY <2>2, <2>4, <4>1 DEF joined
      <4>2. CASE k # n
        <5>1. notice'[k] = notice[k]
          BY <1>0, <2>1, <4>2
        <5>2. PICK q \in Email!RowIds : k \in emails[q].messages
          BY <2>6, <3>2, <5>1 DEF EmailInv, RowsOk
        <5>3. k \in emails'[q].messages
          BY <2>4, <2>6, <3>2, <5>2 DEF joined
        <5> QED BY <5>3
      <4> QED BY <4>1, <4>2
    <3>3. \A q \in Email!RowIds : (~InUse(q)' => emails'[q].messages = {}) /\ Cardinality(emails'[q].messages) <= MaxBatch
      BY <2>2, <2>3, <2>4, <2>5 DEF EmailInv, RowsOk
    <3>4. \E k \in 0..MaxRows : \A q \in Email!RowIds : InUse(q)' <=> q <= k
      BY <2>5 DEF EmailInv, RowsOk
    <3> QED BY <3>1, <3>2, <3>3, <3>4 DEF RowsOk, InUse
  <2>9. ~collided' => \A s \in Servers : \A x \in processor[s].todo : emails'[x.row].messages = emails[x.row].messages
    <3>1. \A s \in Servers : \A x \in processor[s].todo : x.row \in Email!RowIds
      BY DEF EmailInv, EmailType, WorkType, ProcessorType, Task
    <3> QED BY <2>4, <2>6, <3>1 DEF Email!Claimed
  <2>10. ~collided' => \A q \in Email!RowIds : emails[q].status = "sent" => emails'[q].messages = emails[q].messages
    BY <2>4, <2>6 DEF Email!Claimed
  <2>11. \A q \in Email!RowIds : ~InUse(q) => emails'[q].status # "sent"
    BY <2>4 DEF InUse
  <2> QED BY <2>1, <2>4, <2>5, <2>6, <2>7, <2>8, <2>9, <2>10, <2>11, ProcessorsFrame
<1>4. ASSUME Email!InsertRow(n) PROVE EmailInv'
  <2> DEFINE r == Email!Cardinality(Email!Used) + 1
             row == [status |-> "pending", messages |-> {n}, retries |-> 0]
  <2>1. /\ notice[n].pc = "insert" /\ r \in Email!RowIds /\ emails' = [emails EXCEPT ![r] = row]
        /\ fresh' = fresh \cup {r} /\ notice' = [notice EXCEPT ![n].pc = "queued"]
        /\ UNCHANGED <<due, collided, processor, hour, counted, delivered, botched, prefs, edit>>
    BY <1>4 DEF Email!InsertRow
  <2>2. PICK k \in 0..MaxRows : \A q \in Email!RowIds : InUse(q) <=> q <= k
    BY DEF EmailInv, RowsOk
  <2>3. r = k + 1
    <3>1. Email!Used = 1..k
      BY <2>2, EmailAssumption DEF Email!Used, InUse, Email!RowIds
    <3>2. Cardinality(1..k) = k
      BY FS_Interval, EmailAssumption
    <3> QED BY <3>1, <3>2, EmailCardinality
  <2>4. ~InUse(r) /\ k + 1 \in 0..MaxRows /\ \A q \in Email!RowIds : q <= k + 1 <=> (q <= k \/ q = r)
    BY <2>1, <2>2, <2>3, EmailAssumption DEF Email!RowIds
  <2>5. row \in RowType /\ row.status = "pending" /\ row.messages = {n}
    BY DEF RowType, Email!Statuses
  <2> HIDE DEF r, row
  <2>6. /\ emails' \in [Email!RowIds -> RowType] /\ emails'[r] = row /\ \A q \in Email!RowIds \ {r} : emails'[q] = emails[q]
    BY <1>0, <2>1, <2>5
  <2>7. \A q \in Email!RowIds : (InUse(q)' <=> InUse(q) \/ q = r) /\ (InUse(q) => q # r)
    BY <2>4, <2>5, <2>6 DEF InUse
  <2>8. RowsType'
    <3>1. notice' \in [Notices -> NoticeType]
      BY <1>0, <2>1 DEF NoticeType
    <3> QED BY <1>0, <2>1, <2>6, <3>1 DEF RowsType
  <2>9. RowsOk'
    <3>1. ASSUME NEW j \in Notices, notice'[j].pc = "join"
          PROVE  /\ notice'[j].row \in Email!RowIds /\ emails'[notice'[j].row].status # "free"
                 /\ Cardinality(notice'[j].messages) < MaxBatch
      <4>1. notice'[j] = notice[j]
        BY <1>0, <2>1, <3>1 DEF NoticeType
      <4> QED BY <2>7, <3>1, <4>1 DEF EmailInv, RowsOk, InUse
    <3>2. ASSUME ~collided', NEW j \in Notices, notice'[j].pc = "queued"
          PROVE  \E q \in Email!RowIds : j \in emails'[q].messages
      <4>1. CASE j = n
        BY <2>1, <2>5, <2>6, <4>1
      <4>2. CASE j # n
        <5>1. notice'[j] = notice[j]
          BY <1>0, <2>1, <4>2
        <5>2. PICK q \in Email!RowIds : j \in emails[q].messages
          BY <2>1, <3>2, <5>1 DEF EmailInv, RowsOk
        <5>3. InUse(q)
          BY <5>2 DEF EmailInv, RowsOk
        <5> QED BY <2>6, <2>7, <5>2, <5>3
      <4> QED BY <4>1, <4>2
    <3>3. \A q \in Email!RowIds : (~InUse(q)' => emails'[q].messages = {}) /\ Cardinality(emails'[q].messages) <= MaxBatch
      <4>1. Cardinality({n}) <= MaxBatch
        <5>1. Cardinality({n}) = 1
          BY FS_Singleton
        <5> QED BY <5>1, EmailAssumption
      <4> QED BY <2>5, <2>6, <2>7, <4>1 DEF EmailInv, RowsOk
    <3>4. \A q \in Email!RowIds : InUse(q)' <=> q <= k + 1
      BY <2>2, <2>4, <2>7
    <3> QED BY <2>4, <3>1, <3>2, <3>3, <3>4 DEF RowsOk, InUse
  <2>10. \A s \in Servers : \A x \in processor[s].todo : emails'[x.row].messages = emails[x.row].messages
    <3>1. \A s \in Servers : \A x \in processor[s].todo : x.row \in Email!RowIds /\ InUse(x.row)
      BY DEF EmailInv, EmailType, WorkType, ProcessorType, Task, TasksOk
    <3> QED BY <2>6, <2>7, <3>1
  <2>11. \A q \in Email!RowIds : /\ InUse(q) => emails'[q] = emails[q]
                                 /\ emails[q].status = "sent" => emails'[q] = emails[q]
                                 /\ ~InUse(q) => emails'[q].status # "sent"
    BY <2>5, <2>6, <2>7 DEF InUse
  <2> QED BY <2>1, <2>7, <2>8, <2>9, <2>10, <2>11, ProcessorsFrame
<1> QED BY <1>1, <1>2, <1>3, <1>4 DEF Email!Notify

\* Statements that change the status of rows that are neither sent nor free.
LEMMA StatusOnly ==
    ASSUME EmailInv, RowsType', UNCHANGED <<notice, collided, processor, hour, counted, delivered, botched, prefs, edit>>,
           \A r \in Email!RowIds : /\ emails'[r].messages = emails[r].messages
                                   /\ InUse(r)' <=> InUse(r)
                                   /\ emails'[r].status = "sent" <=> emails[r].status = "sent"
    PROVE  EmailInv'
<1>1. RowsOk'
  <2>1. \E k \in 0..MaxRows : \A r \in Email!RowIds : InUse(r)' <=> r <= k
    BY DEF EmailInv, RowsOk
  <2> QED BY <2>1 DEF EmailInv, RowsOk
<1>2. \A s \in Servers : \A x \in processor[s].todo : x.row \in Email!RowIds
  BY DEF EmailInv, EmailType, WorkType, ProcessorType, Task
<1> QED BY <1>1, <1>2, ProcessorsFrame DEF InUse

LEMMA StatementStep ==
    ASSUME EmailInv,
           Email!CancelPending \/ Email!RequeueFailed \/ \E r \in Email!RowIds : Email!BecomesDue(r) \/ Email!WindowEnds(r)
    PROVE  EmailInv'
<1> USE DEF Email!otherThanRows
<1>0. /\ emails \in [Email!RowIds -> RowType] /\ notice \in [Notices -> NoticeType]
      /\ fresh \subseteq Email!RowIds /\ due \subseteq Email!RowIds /\ collided \in BOOLEAN
      /\ UNCHANGED <<notice, collided, processor, hour, counted, delivered, botched, prefs, edit>>
  BY DEF EmailInv, EmailType, RowsType, Email!CancelPending, Email!RequeueFailed, Email!BecomesDue, Email!WindowEnds
<1>1. CASE Email!CancelPending
  <2>1. emails' \in [Email!RowIds -> RowType] /\ fresh' = fresh /\ due' = due
    BY <1>0, <1>1 DEF Email!CancelPending, RowType, Email!Statuses
  <2>2. \A r \in Email!RowIds : /\ emails'[r].messages = emails[r].messages
                                /\ InUse(r)' <=> InUse(r)
                                /\ emails'[r].status = "sent" <=> emails[r].status = "sent"
    BY <1>0, <1>1 DEF Email!CancelPending, RowType, InUse
  <2>3. RowsType'
    BY <1>0, <2>1 DEF RowsType
  <2> QED BY <1>0, <2>2, <2>3, StatusOnly
<1>2. CASE Email!RequeueFailed
  <2>1. emails' \in [Email!RowIds -> RowType] /\ fresh' = fresh /\ due' \subseteq due
    BY <1>0, <1>2 DEF Email!RequeueFailed, RowType, Email!Statuses
  <2>2. \A r \in Email!RowIds : /\ emails'[r].messages = emails[r].messages
                                /\ InUse(r)' <=> InUse(r)
                                /\ emails'[r].status = "sent" <=> emails[r].status = "sent"
    BY <1>0, <1>2 DEF Email!RequeueFailed, RowType, InUse
  <2>3. RowsType'
    BY <1>0, <2>1 DEF RowsType
  <2> QED BY <1>0, <2>2, <2>3, StatusOnly
<1>3. CASE \E r \in Email!RowIds : Email!BecomesDue(r) \/ Email!WindowEnds(r)
  <2>1. emails' = emails /\ RowsType'
    BY <1>0, <1>3 DEF Email!BecomesDue, Email!WindowEnds, RowsType
  <2> QED BY <1>0, <2>1, StatusOnly DEF InUse
<1> QED BY <1>1, <1>2, <1>3

\* The rows and notices stay.
LEMMA RowsFrame == ASSUME EmailInv, UNCHANGED <<emails, fresh, due, notice, collided>> PROVE RowsType' /\ RowsOk'
BY DEF EmailInv, EmailType, RowsType, RowsOk, InUse

LEMMA HourStep == ASSUME EmailInv, Email!HourPasses PROVE EmailInv'
<1>0. /\ hour' = hour + 1 /\ hour < MaxHour /\ hour \in 0..MaxHour /\ counted \in [0..MaxHour -> Nat]
      /\ UNCHANGED <<emails, fresh, due, notice, processor, counted, prefs, edit, delivered, collided, botched>>
  BY DEF Email!HourPasses, EmailInv, EmailType, WorkType
<1>1. RowsType' /\ RowsOk'
  BY <1>0, RowsFrame
<1>2. hour' \in 0..MaxHour /\ \A h \in 0..hour' : h \in 0..hour \/ h = hour'
  BY <1>0, EmailAssumption
<1>3. WorkType' /\ PrefsType'
  <2>1. 0..hour \subseteq 0..hour'
    BY <1>0
  <2> QED BY <1>0, <1>2, <2>1 DEF EmailInv, EmailType, WorkType, PrefsType
<1>4. TasksOk'
  BY <1>0 DEF EmailInv, TasksOk, InUse, Email!AtHand
<1>5. LimitOk'
  <2>1. InHour(hour)' = 0
    <3>1. {d \in delivered : d.at = hour'} = {}
      BY <1>0 DEF EmailInv, EmailType, WorkType
    <3> QED BY <1>0, <3>1, FS_EmptySet DEF InHour
  <2>2. \A h \in 0..hour : Cardinality({d \in delivered' : d.at = h}) = InHour(h)
    BY <1>0 DEF InHour
  <2>3. counted[hour'] \in Nat
    BY <1>0, <1>2
  <2> SUFFICES ASSUME NEW s \in Servers, ~botched, OneOk(s) PROVE OneOk(s)'
    BY <1>0 DEF EmailInv, LimitOk
  <2>4. \A h \in 0..hour' : Cardinality({d \in delivered' : d.at = h}) <= MaxPerHour
    <3>1. \A h \in 0..hour : Cardinality({d \in delivered' : d.at = h}) <= MaxPerHour
      BY <2>2 DEF OneOk
    <3>2. Cardinality({d \in delivered' : d.at = hour'}) <= MaxPerHour
      <4>1. Cardinality({d \in delivered' : d.at = hour'}) = 0
        BY <2>1 DEF InHour
      <4> QED BY <4>1, EmailAssumption
    <3> QED BY <1>2, <3>1, <3>2
  <2>5. processor[s].pc = "send" => 0 < MaxPerHour
    <3>1. InHour(hour) \in Nat
      <4>1. IsFiniteSet({d \in delivered : d.at = hour})
        BY FS_Subset DEF EmailInv, EmailType, WorkType
      <4> QED BY <4>1, FS_CardinalityType DEF InHour
    <3> QED BY <3>1, EmailAssumption DEF OneOk
  <2> QED BY <1>0, <2>1, <2>3, <2>4, <2>5 DEF OneOk, InHour
<1> QED BY <1>1, <1>3, <1>4, <1>5 DEF EmailInv, EmailType

LEMMA EditStep == ASSUME EmailInv, NEW e \in Edits, Email!UpdatePreferences(e) PROVE EmailInv'
<1>0. /\ UNCHANGED <<emails, fresh, due, notice, processor, hour, counted, delivered, collided, botched>>
      /\ prefs \in PrefType /\ edit \in [Edits -> [pc : {"idle", "done"}] \cup [pc : {"write"}, row : PrefType]]
  BY DEF Email!UpdatePreferences, Email!ReadPreferences, Email!WritePreferences, EmailInv, EmailType, PrefsType
<1>1. PrefsType'
  <2>1. CASE Email!WritePreferences(e)
    BY <1>0, <2>1 DEF Email!WritePreferences, PrefsType
  <2>2. ASSUME NEW f \in {"address", "on", "off"}, Email!ReadPreferences(e, f) PROVE PrefsType'
    <3>1. /\ [prefs EXCEPT !.address = TRUE] \in PrefType /\ [prefs EXCEPT !.enabled = (f = "on")] \in PrefType
      BY <1>0 DEF PrefType
    <3>2. PICK q \in PrefType : edit' = [edit EXCEPT ![e] = [pc |-> "write", row |-> q]]
      BY <2>2, <3>1 DEF Email!ReadPreferences
    <3>3. prefs' = prefs /\ [pc |-> "write", row |-> q] \in [pc : {"write"}, row : PrefType]
      BY <2>2 DEF Email!ReadPreferences
    <3> QED BY <1>0, <3>2, <3>3 DEF PrefsType
  <2> QED BY <2>1, <2>2 DEF Email!UpdatePreferences
<1>2. RowsType' /\ RowsOk'
  BY <1>0, RowsFrame
<1>3. WorkType' /\ TasksOk' /\ LimitOk'
  <2>1. WorkType'
    BY <1>0 DEF EmailInv, EmailType, WorkType
  <2>2. TasksOk'
    BY <1>0 DEF EmailInv, TasksOk, InUse, Email!AtHand
  <2>3. LimitOk'
    BY <1>0 DEF EmailInv, LimitOk, OneOk, InHour
  <2> QED BY <2>1, <2>2, <2>3
<1> QED BY <1>1, <1>2, <1>3 DEF EmailInv, EmailType

\* A step of processor s, which may mark rows and adds to what is delivered.
LEMMA ProcessorMoves ==
    ASSUME EmailInv, NEW s \in Servers, NEW p \in ProcessorType, processor' = [processor EXCEPT ![s] = p],
           UNCHANGED <<fresh, due, notice, hour, prefs, edit, collided>>,
           emails' \in [Email!RowIds -> RowType], counted' \in [0..MaxHour -> Nat], botched' \in BOOLEAN,
           delivered \subseteq delivered', IsFiniteSet(delivered'),
           \A d \in delivered' : d.row \in Email!RowIds /\ d.at \in 0..hour,
           \A r \in Email!RowIds : emails'[r].messages = emails[r].messages /\ (InUse(r)' <=> InUse(r)),
           \A x \in p.todo : InUse(x.row) /\ (~collided => x.messages = emails[x.row].messages),
           \A x, y \in p.todo : x.row = y.row => x = y,
           p.pc \in AtWork => \E x \in p.todo : x.row = p.row,
           p.pc = "idle" => p.todo = {},
           p.pc = "sent" => \E d \in delivered' : d.row = p.row /\ \A x \in p.todo : x.row = p.row => d.messages = x.messages,
           \A r \in Email!RowIds : emails'[r].status = "sent" =>
              emails[r].status = "sent" \/ \E d \in delivered' : d.row = r /\ (~collided => d.messages = emails[r].messages),
           Servers = {s} /\ ~botched' => OneOk(s)'
    PROVE  EmailInv'
<1>0. /\ processor \in [Servers -> ProcessorType] /\ emails \in [Email!RowIds -> RowType]
      /\ processor'[s] = p /\ \A q \in Servers \ {s} : processor'[q] = processor[q]
  BY DEF EmailInv, EmailType, WorkType, RowsType
<1>1. RowsType' /\ PrefsType'
  BY DEF EmailInv, EmailType, RowsType, PrefsType
<1>2. WorkType'
  BY <1>0 DEF EmailInv, EmailType, WorkType
<1>3. RowsOk'
  <2>1. \E k \in 0..MaxRows : \A r \in Email!RowIds : InUse(r)' <=> r <= k
    BY DEF EmailInv, RowsOk
  <2>2. \A n \in Notices : notice[n].pc = "join" =>
            notice[n].row \in Email!RowIds /\ InUse(notice[n].row)' /\ Cardinality(notice[n].messages) < MaxBatch
    BY DEF EmailInv, RowsOk, InUse
  <2>3. \A r \in Email!RowIds : (~InUse(r)' => emails'[r].messages = {}) /\ Cardinality(emails'[r].messages) <= MaxBatch
    BY DEF EmailInv, RowsOk
  <2>4. ~collided => \A n \in Notices : notice[n].pc = "queued" => \E r \in Email!RowIds : n \in emails'[r].messages
    BY DEF EmailInv, RowsOk
  <2> QED BY <2>1, <2>2, <2>3, <2>4 DEF RowsOk, InUse
<1>4. TasksOk'
  <2>0. \A q \in Servers : \A x \in processor'[q].todo : x.row \in Email!RowIds
    BY <1>2 DEF WorkType, ProcessorType, Task
  <2>1. ASSUME NEW q \in Servers
        PROVE  /\ \A x \in processor'[q].todo : InUse(x.row) /\ (~collided => x.messages = emails[x.row].messages)
               /\ \A x, y \in processor'[q].todo : x.row = y.row => x = y
               /\ processor'[q].pc \in AtWork => \E x \in processor'[q].todo : x.row = processor'[q].row
               /\ processor'[q].pc = "idle" => processor'[q].todo = {}
    BY <1>0 DEF EmailInv, TasksOk
  <2>2. ASSUME NEW q \in Servers, processor'[q].pc = "sent"
        PROVE  \E d \in delivered' : d.row = processor'[q].row /\ d.messages = (CHOOSE x \in processor'[q].todo : x.row = processor'[q].row).messages
    <3>1. CASE q = s
      <4> DEFINE hand == CHOOSE x \in p.todo : x.row = p.row
      <4>1. hand \in p.todo /\ hand.row = p.row
        BY <1>0, <2>2, <3>1 DEF AtWork
      <4> QED BY <1>0, <2>2, <3>1, <4>1
    <3>2. CASE q # s
      <4>1. processor'[q] = processor[q]
        BY <1>0, <3>2
      <4>2. PICK d \in delivered : d.row = processor[q].row /\ d.messages = Email!AtHand(q).messages
        BY <2>2, <4>1 DEF EmailInv, TasksOk
      <4>3. d \in delivered'
        BY <4>2
      <4>4. Email!AtHand(q) = CHOOSE x \in processor'[q].todo : x.row = processor'[q].row
        <5> DEFINE Hand(y) == CHOOSE x \in y.todo : x.row = y.row
        <5>1. Email!AtHand(q) = Hand(processor[q])
          BY DEF Email!AtHand
        <5>2. Hand(processor'[q]) = CHOOSE x \in processor'[q].todo : x.row = processor'[q].row
          OBVIOUS
        <5> HIDE DEF Hand
        <5> QED BY <4>1, <5>1, <5>2
      <4>5. d.row = processor'[q].row /\ d.messages = (CHOOSE x \in processor'[q].todo : x.row = processor'[q].row).messages
        BY <4>1, <4>2, <4>4, Zenon
      <4> QED BY <4>3, <4>5, Zenon
    <3> QED BY <3>1, <3>2
  <2>3. ASSUME ~collided, NEW r \in Email!RowIds, emails'[r].status = "sent"
        PROVE  \E d \in delivered' : d.row = r /\ d.messages = emails'[r].messages
    BY <2>3 DEF EmailInv, TasksOk
  <2>4. \A q \in Servers : \A x \in processor'[q].todo : InUse(x.row)' /\ (~collided => x.messages = emails'[x.row].messages)
    BY <2>0, <2>1
  <2> QED BY <2>1, <2>2, <2>3, <2>4 DEF TasksOk, Email!AtHand, InUse
<1>5. LimitOk'
  BY DEF LimitOk
<1> QED BY <1>1, <1>2, <1>3, <1>4, <1>5 DEF EmailInv, EmailType

\* A step that hands over nothing and takes up no new row.
LEMMA ProcessorGoesOn ==
    ASSUME EmailInv, NEW s \in Servers, NEW p \in ProcessorType, processor' = [processor EXCEPT ![s] = p],
           UNCHANGED <<fresh, due, notice, hour, prefs, edit, collided>>, delivered' = delivered,
           emails' \in [Email!RowIds -> RowType], counted' \in [0..MaxHour -> Nat], botched' \in BOOLEAN,
           \A r \in Email!RowIds : emails'[r].messages = emails[r].messages /\ (InUse(r)' <=> InUse(r)),
           p.todo \subseteq processor[s].todo, p.pc # "sent",
           p.pc \in AtWork => \E x \in p.todo : x.row = p.row,
           p.pc = "idle" => p.todo = {},
           \A r \in Email!RowIds : emails'[r].status = "sent" =>
              emails[r].status = "sent" \/ \E d \in delivered : d.row = r /\ (~collided => d.messages = emails[r].messages),
           Servers = {s} /\ ~botched' => OneOk(s)'
    PROVE  EmailInv'
<1>1. /\ delivered \subseteq delivered' /\ IsFiniteSet(delivered')
      /\ \A d \in delivered' : d.row \in Email!RowIds /\ d.at \in 0..hour
  BY DEF EmailInv, EmailType, WorkType
<1>2. /\ \A x \in p.todo : InUse(x.row) /\ (~collided => x.messages = emails[x.row].messages)
      /\ \A x, y \in p.todo : x.row = y.row => x = y
  BY DEF EmailInv, TasksOk
<1>3. \A r \in Email!RowIds : emails'[r].status = "sent" =>
         emails[r].status = "sent" \/ \E d \in delivered' : d.row = r /\ (~collided => d.messages = emails[r].messages)
  OBVIOUS
<1>4. p.pc = "sent" => \E d \in delivered' : d.row = p.row /\ \A x \in p.todo : x.row = p.row => d.messages = x.messages
  OBVIOUS
<1> QED BY <1>1, <1>2, <1>3, <1>4, ProcessorMoves

LEMMA ProcessStep == ASSUME EmailInv, NEW s \in Servers, Email!Process(s) PROVE EmailInv'
<1> USE DEF Email!queueVars, Email!Go
<1> DEFINE p == processor[s]
           r == p.row
<1>0. /\ processor \in [Servers -> ProcessorType] /\ emails \in [Email!RowIds -> RowType] /\ p \in ProcessorType
      /\ counted \in [0..MaxHour -> Nat] /\ botched \in BOOLEAN /\ hour \in 0..MaxHour
      /\ IsFiniteSet(delivered) /\ \A d \in delivered : d.row \in Email!RowIds /\ d.at \in 0..hour
      /\ due \subseteq Email!RowIds /\ UNCHANGED <<fresh, due, notice, hour, prefs, edit, collided>>
  BY DEF EmailInv, EmailType, WorkType, RowsType, Email!Process, Email!GetReadyEmails, Email!MarkProcessing, Email!CheckRateLimit,
     Email!SendEmail, Email!MarkSent, Email!IncrementRateLimit, Email!MarkFailed, Email!RoundEnds
<1>t. /\ \A x \in p.todo : x.row \in Email!RowIds /\ InUse(x.row) /\ (~collided => x.messages = emails[x.row].messages)
      /\ \A x, y \in p.todo : x.row = y.row => x = y
      /\ p.pc = "idle" => p.todo = {}
  BY <1>0 DEF EmailInv, TasksOk, ProcessorType, Task
<1>h. p.pc \in AtWork =>
         /\ Email!AtHand(s) \in p.todo /\ Email!AtHand(s).row = r /\ r \in Email!RowIds /\ InUse(r)
         /\ \A x \in Email!Drop(s) : x \in p.todo /\ x.row # r
  BY AtHandFacts
<1>o. Servers = {s} /\ ~botched => OneOk(s)
  BY DEF EmailInv, LimitOk
<1>e. emails' = emails => /\ emails' \in [Email!RowIds -> RowType]
                          /\ \A q \in Email!RowIds : /\ emails'[q].messages = emails[q].messages /\ (InUse(q)' <=> InUse(q))
                                                     /\ emails'[q].status = "sent" => emails[q].status = "sent"
  BY <1>0 DEF InUse
<1> HIDE DEF r
<1>1. CASE Email!GetReadyEmails(s)
  <2> DEFINE ready == {q \in due : emails[q].status = "pending"}
             todo == {[row |-> q, messages |-> emails[q].messages] : q \in ready}
             new == [pc |-> "next", todo |-> todo, row |-> 0]
  <2>1. p.pc = "idle" /\ processor' = [processor EXCEPT ![s] = new] /\ UNCHANGED <<emails, counted, delivered, botched>>
    BY <1>1 DEF Email!GetReadyEmails
  <2>2. \A x \in todo : x \in Task /\ emails[x.row].status = "pending" /\ x.messages = emails[x.row].messages
    BY <1>0 DEF Task, RowType
  <2>3. \A x, y \in todo : x.row = y.row => x = y
    OBVIOUS
  <2>4. new \in ProcessorType /\ new.pc = "next" /\ new.todo = todo /\ new.row = 0
    BY <2>2 DEF ProcessorType
  <2> HIDE DEF todo, new
  <2>5. processor'[s] = new
    BY <1>0, <2>1
  <2>6. Servers = {s} /\ ~botched => OneOk(s)'
    <3> SUFFICES ASSUME OneOk(s) PROVE OneOk(s)'
      BY <1>o
    <3>1. \A d \in delivered : emails[d.row].status = "sent"
      BY <2>1 DEF OneOk
    <3>2. \A d \in delivered, x \in todo : d.row # x.row
      BY <2>2, <3>1
    <3>3. p.pc \notin {"sent", "count"} /\ new.pc \notin {"sent", "count"} /\ new.pc # "send"
      BY <2>1, <2>4
    <3> QED BY <1>0, <2>1, <2>4, <2>5, <3>1, <3>2, <3>3 DEF OneOk, InHour
  <2>7. \A x \in new.todo : InUse(x.row) /\ (~collided => x.messages = emails[x.row].messages)
    BY <2>2, <2>4 DEF InUse
  <2>8. delivered \subseteq delivered' /\ IsFiniteSet(delivered') /\ \A d \in delivered' : d.row \in Email!RowIds /\ d.at \in 0..hour
    BY <1>0, <2>1
  <2>9. counted' \in [0..MaxHour -> Nat] /\ botched' \in BOOLEAN
    BY <1>0, <2>1
  <2>10. new.pc \notin AtWork /\ new.pc # "sent" /\ new.pc # "idle"
    BY <2>4 DEF AtWork
  <2>11. \A x, y \in new.todo : x.row = y.row => x = y
    BY <2>3, <2>4
  <2>12. Servers = {s} /\ ~botched' => OneOk(s)'
    BY <2>1, <2>6
  <2> QED BY <1>0, <1>e, <2>1, <2>4, <2>7, <2>8, <2>9, <2>10, <2>11, <2>12, ProcessorMoves
<1>2. CASE Email!MarkProcessing(s)
  <2>0. p.pc = "next" /\ UNCHANGED <<counted, delivered, botched>>
    BY <1>2 DEF Email!MarkProcessing
  <2>1. ASSUME p.todo = {}, processor' = [processor EXCEPT ![s].pc = "idle"], emails' = emails PROVE EmailInv'
    <3> DEFINE new == [p EXCEPT !.pc = "idle"]
    <3>1. new \in ProcessorType /\ new.pc = "idle" /\ new.todo = {} /\ new.row = r
      BY <1>0, <2>1 DEF ProcessorType, r
    <3>2. processor' = [processor EXCEPT ![s] = new]
      BY <2>1
    <3> HIDE DEF new
    <3>3. processor'[s] = new
      BY <1>0, <3>2
    <3>4. Servers = {s} /\ ~botched => OneOk(s)'
      BY <1>0, <1>o, <2>0, <2>1, <3>1, <3>3 DEF OneOk, InHour
    <3>5. new.todo \subseteq p.todo /\ new.pc # "sent" /\ new.pc \notin AtWork
      BY <3>1 DEF AtWork
    <3>6. counted' \in [0..MaxHour -> Nat] /\ botched' \in BOOLEAN /\ delivered' = delivered
      BY <1>0, <2>0
    <3>7. Servers = {s} /\ ~botched' => OneOk(s)'
      BY <2>0, <3>4
    <3> QED BY <1>0, <1>e, <2>1, <3>1, <3>2, <3>5, <3>6, <3>7, ProcessorGoesOn
  <2>2. ASSUME NEW x \in p.todo, emails' = [emails EXCEPT ![x.row].status = "processing"],
               processor' = [processor EXCEPT ![s].pc = "limit", ![s].row = x.row]
        PROVE  EmailInv'
    <3> DEFINE new == [[p EXCEPT !.pc = "limit"] EXCEPT !.row = x.row]
    <3>1. new \in ProcessorType /\ new.pc = "limit" /\ new.todo = p.todo /\ new.row = x.row
      BY <1>0, <1>t DEF ProcessorType, AtWork
    <3>2. processor' = [processor EXCEPT ![s] = new]
      BY <1>0, <2>2
    <3> HIDE DEF new
    <3>3. processor'[s] = new
      BY <1>0, <3>2
    <3>4. /\ emails' \in [Email!RowIds -> RowType]
          /\ \A q \in Email!RowIds : /\ emails'[q].messages = emails[q].messages
                                     /\ emails'[q].status = IF q = x.row THEN "processing" ELSE emails[q].status
      BY <1>0, <1>t, <2>2 DEF RowType, Email!Statuses
    <3>5. \A q \in Email!RowIds : (InUse(q)' <=> InUse(q)) /\ (emails'[q].status = "sent" => emails[q].status = "sent")
      BY <1>t, <3>4 DEF InUse
    <3>6. Servers = {s} /\ ~botched => OneOk(s)'
      <4> SUFFICES ASSUME OneOk(s) PROVE OneOk(s)'
        BY <1>o
      <4>1. \A d \in delivered, y \in p.todo : d.row # y.row
        BY <2>0 DEF OneOk
      <4>2. \A d \in delivered : emails'[d.row].status = "sent"
        BY <1>0, <2>0, <3>4, <4>1 DEF OneOk
      <4> QED BY <1>0, <2>0, <3>1, <3>3, <4>1, <4>2 DEF OneOk, InHour
    <3>7. new.todo \subseteq p.todo /\ new.pc # "sent" /\ new.pc # "idle" /\ \E y \in new.todo : y.row = new.row
      BY <3>1
    <3>8. counted' \in [0..MaxHour -> Nat] /\ botched' \in BOOLEAN /\ delivered' = delivered
      BY <1>0, <2>0
    <3>9. Servers = {s} /\ ~botched' => OneOk(s)'
      BY <2>0, <3>6
    <3> QED BY <1>0, <3>1, <3>2, <3>4, <3>5, <3>7, <3>8, <3>9, ProcessorGoesOn
  <2>3. ASSUME NEW x \in p.todo, processor' = [processor EXCEPT ![s].todo = p.todo \ {x}], emails' = emails PROVE EmailInv'
    <3> DEFINE new == [p EXCEPT !.todo = p.todo \ {x}]
    <3>1. new \in ProcessorType /\ new.pc = "next" /\ new.todo = p.todo \ {x} /\ new.row = r
      BY <1>0, <2>0 DEF ProcessorType, r
    <3>2. processor' = [processor EXCEPT ![s] = new]
      BY <2>3
    <3> HIDE DEF new
    <3>3. processor'[s] = new
      BY <1>0, <3>2
    <3>4. Servers = {s} /\ ~botched => OneOk(s)'
      BY <1>0, <1>o, <2>0, <2>3, <3>1, <3>3 DEF OneOk, InHour, r
    <3>5. new.todo \subseteq p.todo /\ new.pc # "sent" /\ new.pc # "idle" /\ new.pc \notin AtWork
      BY <3>1 DEF AtWork
    <3>6. counted' \in [0..MaxHour -> Nat] /\ botched' \in BOOLEAN /\ delivered' = delivered
      BY <1>0, <2>0
    <3>7. Servers = {s} /\ ~botched' => OneOk(s)'
      BY <2>0, <3>4
    <3> QED BY <1>0, <1>e, <2>3, <3>1, <3>2, <3>5, <3>6, <3>7, ProcessorGoesOn
  <2> QED BY <1>2, <2>1, <2>2, <2>3 DEF Email!MarkProcessing
<1>3. CASE Email!CheckRateLimit(s)
  <2>1. PICK pc \in {"send", "failed"} : /\ processor' = [processor EXCEPT ![s].pc = pc]
                                         /\ pc = "send" => counted[hour] < MaxPerHour
    BY <1>3 DEF Email!CheckRateLimit
  <2>2. p.pc = "limit" /\ UNCHANGED <<emails, counted, delivered, botched>>
    BY <1>3 DEF Email!CheckRateLimit
  <2> DEFINE new == [p EXCEPT !.pc = pc]
  <2>3. new \in ProcessorType /\ new.pc = pc /\ new.todo = p.todo /\ new.row = r
    BY <1>0 DEF ProcessorType, AtWork, r
  <2>4. processor' = [processor EXCEPT ![s] = new]
    BY <2>1
  <2> HIDE DEF new
  <2>5. processor'[s] = new
    BY <1>0, <2>4
  <2>6. Servers = {s} /\ ~botched => OneOk(s)'
    <3> SUFFICES ASSUME OneOk(s) PROVE OneOk(s)'
      BY <1>o
    <3>1. /\ InHour(hour) <= counted[hour] + 0
          /\ \A d \in delivered : emails[d.row].status = "sent"
          /\ \A d \in delivered, y \in p.todo : d.row # y.row
      BY <2>2 DEF OneOk
    <3>2. InHour(hour) \in Nat /\ counted[hour] \in Nat
      <4>1. IsFiniteSet({d \in delivered : d.at = hour})
        BY <1>0, FS_Subset
      <4> QED BY <1>0, <4>1, FS_CardinalityType DEF InHour
    <3>3. (pc = "send" => InHour(hour) < MaxPerHour) /\ InHour(hour) <= counted[hour]
      BY <2>1, <3>1, <3>2, EmailAssumption
    <3> QED BY <1>0, <2>1, <2>2, <2>3, <2>5, <3>1, <3>2, <3>3 DEF OneOk, InHour
  <2>7. \E x \in p.todo : x.row = r
    BY <1>h, <2>2 DEF AtWork
  <2>8. new.todo \subseteq p.todo /\ new.pc # "sent" /\ new.pc # "idle" /\ \E x \in new.todo : x.row = new.row
    BY <2>3, <2>7
  <2>9. counted' \in [0..MaxHour -> Nat] /\ botched' \in BOOLEAN /\ delivered' = delivered
    BY <1>0, <2>2
  <2>10. Servers = {s} /\ ~botched' => OneOk(s)'
    BY <2>2, <2>6
  <2> QED BY <1>0, <1>e, <2>2, <2>3, <2>4, <2>8, <2>9, <2>10, ProcessorGoesOn
<1>4. CASE Email!SendEmail(s)
  <2> DEFINE mail == [row |-> r, messages |-> Email!AtHand(s).messages, at |-> hour, number |-> Email!Cardinality(delivered)]
  <2>0. p.pc = "send" /\ UNCHANGED <<emails, counted>>
    BY <1>4 DEF Email!SendEmail
  <2>1. \/ delivered' = delivered \cup {mail} /\ processor' = [processor EXCEPT ![s].pc = "sent"] /\ botched' = botched
        \/ delivered' = delivered /\ processor' = [processor EXCEPT ![s].pc = "failed"] /\ botched' = botched
        \/ delivered' = delivered \cup {mail} /\ processor' = [processor EXCEPT ![s].pc = "failed"] /\ botched' = TRUE
    BY <1>4 DEF Email!SendEmail, r
  <2>2. mail.row = r /\ mail.messages = Email!AtHand(s).messages /\ mail.at = hour
    OBVIOUS
  <2> HIDE DEF mail
  <2>3. PICK pc \in {"sent", "failed"} : /\ processor' = [processor EXCEPT ![s].pc = pc]
                                         /\ pc = "sent" => delivered' = delivered \cup {mail}
                                         /\ pc = "failed" /\ ~botched' => delivered' = delivered
    BY <2>1
  <2> DEFINE new == [p EXCEPT !.pc = pc]
  <2>4. new \in ProcessorType /\ new.pc = pc /\ new.todo = p.todo /\ new.row = r
    BY <1>0 DEF ProcessorType, AtWork, r
  <2>5. processor' = [processor EXCEPT ![s] = new]
    BY <2>3
  <2> HIDE DEF new
  <2>6. processor'[s] = new
    BY <1>0, <2>5
  <2>7. r \in Email!RowIds /\ Email!AtHand(s) \in p.todo /\ Email!AtHand(s).row = r
    BY <1>h, <2>0 DEF AtWork
  <2>8. /\ delivered \subseteq delivered' /\ IsFiniteSet(delivered') /\ botched' \in BOOLEAN /\ (~botched' => ~botched)
        /\ \A d \in delivered' : d \in delivered \/ d = mail
        /\ \A d \in delivered' : d.row \in Email!RowIds /\ d.at \in 0..hour
    <3>1. IsFiniteSet(delivered \cup {mail})
      BY <1>0, FS_AddElement
    <3>2. IsFiniteSet(delivered') /\ delivered \subseteq delivered' /\ \A d \in delivered' : d \in delivered \/ d = mail
      BY <1>0, <2>1, <3>1
    <3>3. hour \in 0..hour
      BY <1>0
    <3> QED BY <1>0, <2>1, <2>2, <2>7, <3>2, <3>3
  <2>9. Servers = {s} /\ ~botched' => OneOk(s)'
    <3> SUFFICES ASSUME OneOk(s), ~botched' PROVE OneOk(s)'
      BY <1>o, <2>8
    <3>1. /\ \A d \in delivered : emails[d.row].status = "sent"
          /\ \A d \in delivered, y \in p.todo : d.row # y.row
          /\ InHour(hour) <= counted[hour] + 0 /\ InHour(hour) < MaxPerHour
      BY <2>0 DEF OneOk
    <3>2. CASE pc = "failed"
      <4>1. delivered' = delivered
        BY <2>3, <3>2
      <4> QED BY <1>0, <2>0, <2>4, <2>6, <3>1, <3>2, <4>1 DEF OneOk, InHour
    <3>3. CASE pc = "sent"
      <4>1. delivered' = delivered \cup {mail} /\ \A d \in delivered : d.row # r
        BY <2>3, <2>7, <3>1, <3>3
      <4>2. IsFiniteSet({d \in delivered : d.at = hour}) /\ counted[hour] \in Nat
        BY <1>0, FS_Subset
      <4>3. InHour(hour) \in Nat
        BY <4>2, FS_CardinalityType DEF InHour
      <4>4. {d \in delivered' : d.at = hour} = {d \in delivered : d.at = hour} \cup {mail}
        BY <2>2, <4>1
      <4>5. Cardinality({d \in delivered' : d.at = hour}) <= InHour(hour) + 1
        <5>1. Cardinality({d \in delivered : d.at = hour} \cup {mail}) =
                 IF mail \in {d \in delivered : d.at = hour} THEN Cardinality({d \in delivered : d.at = hour})
                 ELSE Cardinality({d \in delivered : d.at = hour}) + 1
          BY <4>2, FS_AddElement
        <5> DEFINE before == {d \in delivered : d.at = hour}
        <5>2. Cardinality({d \in delivered' : d.at = hour}) = Cardinality(before \cup {mail}) /\ InHour(hour) = Cardinality(before)
          BY <4>4 DEF InHour
        <5> HIDE DEF before
        <5>3. Cardinality({d \in delivered' : d.at = hour}) = InHour(hour) \/ Cardinality({d \in delivered' : d.at = hour}) = InHour(hour) + 1
          BY <5>1, <5>2 DEF before
        <5> QED BY <4>3, <5>3
      <4>6. Cardinality({d \in delivered' : d.at = hour}) \in Nat
        BY <4>2, <4>4, FS_AddElement, FS_CardinalityType
      <4>7. /\ Cardinality({d \in delivered' : d.at = hour}) <= counted[hour] + 1
            /\ Cardinality({d \in delivered' : d.at = hour}) <= MaxPerHour
        BY <3>1, <4>2, <4>3, <4>5, <4>6, EmailAssumption
      <4>8. \A h \in 0..hour : Cardinality({d \in delivered' : d.at = h}) <= MaxPerHour
        <5>1. ASSUME NEW h \in 0..hour, h # hour PROVE Cardinality({d \in delivered' : d.at = h}) <= MaxPerHour
          <6>1. {d \in delivered' : d.at = h} = {d \in delivered : d.at = h}
            BY <2>2, <4>1, <5>1
          <6> QED BY <6>1 DEF OneOk, InHour
        <5> QED BY <4>7, <5>1
      <4>9. \A d, e \in delivered' : d.row = e.row => d = e
        BY <2>2, <4>1 DEF OneOk
      <4>10. \A d \in delivered' : emails'[d.row].status = "sent" \/ (processor'[s].pc = "sent" /\ processor'[s].row = d.row)
        BY <2>0, <2>2, <2>4, <2>6, <3>1, <3>3, <4>1
      <4>11. \A d \in delivered', x \in processor'[s].todo :
                d.row = x.row => x.row = processor'[s].row /\ processor'[s].pc \in {"sent", "count"}
        BY <2>2, <2>4, <2>6, <3>1, <3>3, <4>1
      <4>12. processor'[s].pc = "sent" /\ counted' = counted /\ hour' = hour
        BY <1>0, <2>0, <2>4, <2>6, <3>3
      <4> QED BY <4>7, <4>8, <4>9, <4>10, <4>11, <4>12 DEF OneOk, InHour
    <3> QED BY <3>2, <3>3
  <2>10. pc = "sent" => \E d \in delivered' : d.row = r /\ \A x \in p.todo : x.row = r => d.messages = x.messages
    BY <1>t, <2>2, <2>3, <2>7
  <2>11. \A x \in new.todo : InUse(x.row) /\ (~collided => x.messages = emails[x.row].messages)
    BY <1>t, <2>4
  <2>12. \A x, y \in new.todo : x.row = y.row => x = y
    BY <1>t, <2>4
  <2>13. new.pc # "idle" /\ \E x \in new.todo : x.row = new.row
    BY <2>4, <2>7
  <2>14. new.pc = "sent" => \E d \in delivered' : d.row = new.row /\ \A x \in new.todo : x.row = new.row => d.messages = x.messages
    BY <2>4, <2>10
  <2>15. counted' \in [0..MaxHour -> Nat] /\ emails' = emails
    BY <1>0, <2>0
  <2> QED BY <1>0, <1>e, <2>4, <2>5, <2>8, <2>9, <2>11, <2>12, <2>13, <2>14, <2>15, ProcessorMoves
<1>5. CASE Email!MarkSent(s)
  <2>1. /\ p.pc = "sent" /\ emails' = [emails EXCEPT ![r].status = "sent"] /\ processor' = [processor EXCEPT ![s].pc = "count"]
        /\ UNCHANGED <<counted, delivered, botched>>
    BY <1>5 DEF Email!MarkSent, r
  <2> DEFINE new == [p EXCEPT !.pc = "count"]
  <2>2. new \in ProcessorType /\ new.pc = "count" /\ new.todo = p.todo /\ new.row = r
    BY <1>0 DEF ProcessorType, AtWork, r
  <2>3. processor' = [processor EXCEPT ![s] = new]
    BY <2>1
  <2> HIDE DEF new
  <2>4. processor'[s] = new
    BY <1>0, <2>3
  <2>5. Email!AtHand(s) \in p.todo /\ Email!AtHand(s).row = r /\ r \in Email!RowIds /\ InUse(r)
    BY <1>h, <2>1 DEF AtWork
  <2>6. /\ emails' \in [Email!RowIds -> RowType]
        /\ \A q \in Email!RowIds : /\ emails'[q].messages = emails[q].messages
                                   /\ emails'[q].status = IF q = r THEN "sent" ELSE emails[q].status
    BY <1>0, <2>1, <2>5 DEF RowType, Email!Statuses
  <2>7. \E d \in delivered : d.row = r /\ (~collided => d.messages = emails[r].messages)
    <3>1. PICK d \in delivered : d.row = r /\ d.messages = Email!AtHand(s).messages
      BY <2>1 DEF EmailInv, TasksOk, r
    <3> QED BY <1>t, <2>5, <3>1
  <2>8. \A q \in Email!RowIds : /\ InUse(q)' <=> InUse(q)
                                /\ emails'[q].status = "sent" => emails[q].status = "sent" \/ q = r
    BY <2>5, <2>6 DEF InUse
  <2>9. Servers = {s} /\ ~botched => OneOk(s)'
    <3> SUFFICES ASSUME OneOk(s) PROVE OneOk(s)'
      BY <1>o
    <3>1. \A d \in delivered : emails'[d.row].status = "sent"
      BY <1>0, <2>1, <2>6 DEF OneOk, r
    <3>2. \A d \in delivered, x \in p.todo : d.row = x.row => x.row = r
      BY DEF OneOk, r
    <3> QED BY <1>0, <2>1, <2>2, <2>4, <3>1, <3>2 DEF OneOk, InHour
  <2>10. new.todo \subseteq p.todo /\ new.pc # "sent" /\ new.pc # "idle" /\ \E x \in new.todo : x.row = new.row
    BY <2>2, <2>5
  <2>11. counted' \in [0..MaxHour -> Nat] /\ botched' \in BOOLEAN /\ delivered' = delivered
    BY <1>0, <2>1
  <2>12. \A q \in Email!RowIds : emails'[q].status = "sent" =>
             emails[q].status = "sent" \/ \E d \in delivered : d.row = q /\ (~collided => d.messages = emails[q].messages)
    BY <2>7, <2>8
  <2>13. Servers = {s} /\ ~botched' => OneOk(s)'
    BY <2>1, <2>9
  <2> QED BY <1>0, <2>2, <2>3, <2>6, <2>8, <2>10, <2>11, <2>12, <2>13, ProcessorGoesOn
<1>6. CASE Email!IncrementRateLimit(s)
  <2>1. /\ p.pc = "count" /\ counted' = [counted EXCEPT ![hour] = counted[hour] + 1]
        /\ processor' = [processor EXCEPT ![s].pc = "next", ![s].todo = Email!Drop(s)]
        /\ UNCHANGED <<emails, delivered, botched>>
    BY <1>6 DEF Email!IncrementRateLimit
  <2> DEFINE new == [[p EXCEPT !.pc = "next"] EXCEPT !.todo = Email!Drop(s)]
  <2>2. \A x \in Email!Drop(s) : x \in p.todo /\ x.row # r
    BY <1>h, <2>1 DEF AtWork
  <2>3. new \in ProcessorType /\ new.pc = "next" /\ new.todo = Email!Drop(s) /\ new.row = r
    BY <1>0, <2>2 DEF ProcessorType, AtWork, r
  <2>4. processor' = [processor EXCEPT ![s] = new]
    BY <1>0, <2>1
  <2> HIDE DEF new
  <2>5. processor'[s] = new
    BY <1>0, <2>4
  <2>6. counted' \in [0..MaxHour -> Nat] /\ counted'[hour] = counted[hour] + 1
    BY <1>0, <2>1
  <2>7. Servers = {s} /\ ~botched => OneOk(s)'
    <3> SUFFICES ASSUME OneOk(s) PROVE OneOk(s)'
      BY <1>o
    <3>1. \A d \in delivered : emails[d.row].status = "sent"
      BY <2>1 DEF OneOk
    <3>2. \A d \in delivered, x \in Email!Drop(s) : d.row # x.row
      BY <2>2 DEF OneOk, r
    <3>3. InHour(hour) <= counted[hour] + 1
      BY <2>1 DEF OneOk
    <3>4. InHour(hour) <= counted'[hour] + 0
      <4>1. IsFiniteSet({d \in delivered : d.at = hour}) /\ counted[hour] \in Nat
        BY <1>0, FS_Subset
      <4>2. InHour(hour) \in Nat
        BY <4>1, FS_CardinalityType DEF InHour
      <4> QED BY <2>6, <3>3, <4>1, <4>2
    <3> QED BY <1>0, <2>1, <2>3, <2>5, <3>1, <3>2, <3>4 DEF OneOk, InHour
  <2>8. new.todo \subseteq p.todo /\ new.pc # "sent" /\ new.pc # "idle" /\ new.pc \notin AtWork
    BY <2>2, <2>3 DEF AtWork
  <2>9. botched' \in BOOLEAN /\ delivered' = delivered /\ emails' = emails
    BY <1>0, <2>1
  <2>10. Servers = {s} /\ ~botched' => OneOk(s)'
    BY <2>1, <2>7
  <2> QED BY <1>0, <1>e, <2>3, <2>4, <2>6, <2>8, <2>9, <2>10, ProcessorGoesOn
<1>7. CASE Email!MarkFailed(s)
  <2>1. /\ p.pc = "failed"
        /\ emails' = [emails EXCEPT ![r].status = "failed", ![r].retries = emails[r].retries + 1]
        /\ processor' = [processor EXCEPT ![s].pc = "next", ![s].todo = Email!Drop(s)]
        /\ UNCHANGED <<counted, delivered, botched>>
    BY <1>7 DEF Email!MarkFailed, r
  <2> DEFINE new == [[p EXCEPT !.pc = "next"] EXCEPT !.todo = Email!Drop(s)]
  <2>2. Email!AtHand(s) \in p.todo /\ Email!AtHand(s).row = r /\ r \in Email!RowIds /\ InUse(r)
        /\ \A x \in Email!Drop(s) : x \in p.todo /\ x.row # r
    BY <1>h, <2>1 DEF AtWork
  <2>3. new \in ProcessorType /\ new.pc = "next" /\ new.todo = Email!Drop(s) /\ new.row = r
    BY <1>0, <2>2 DEF ProcessorType, AtWork, r
  <2>4. processor' = [processor EXCEPT ![s] = new]
    BY <1>0, <2>1
  <2> HIDE DEF new
  <2>5. processor'[s] = new
    BY <1>0, <2>4
  <2>6. /\ emails' \in [Email!RowIds -> RowType]
        /\ \A q \in Email!RowIds : /\ emails'[q].messages = emails[q].messages
                                   /\ emails'[q].status = IF q = r THEN "failed" ELSE emails[q].status
    BY <1>0, <2>1, <2>2 DEF RowType, Email!Statuses
  <2>7. \A q \in Email!RowIds : (InUse(q)' <=> InUse(q)) /\ (emails'[q].status = "sent" => emails[q].status = "sent")
    BY <2>2, <2>6 DEF InUse
  <2>8. Servers = {s} /\ ~botched => OneOk(s)'
    <3> SUFFICES ASSUME OneOk(s) PROVE OneOk(s)'
      BY <1>o
    <3>1. \A d \in delivered, x \in p.todo : d.row # x.row
      BY <2>1 DEF OneOk
    <3>2. \A d \in delivered : emails'[d.row].status = "sent"
      BY <1>0, <2>1, <2>2, <2>6, <3>1 DEF OneOk
    <3>3. \A d \in delivered, x \in new.todo : d.row # x.row
      BY <2>2, <2>3, <3>1
    <3>4. p.pc \notin {"sent", "count"} /\ new.pc \notin {"sent", "count"} /\ new.pc # "send"
      BY <2>1, <2>3
    <3> QED BY <1>0, <2>1, <2>5, <3>2, <3>3, <3>4 DEF OneOk, InHour
  <2>9. new.todo \subseteq p.todo /\ new.pc # "sent" /\ new.pc # "idle" /\ new.pc \notin AtWork
    BY <2>2, <2>3 DEF AtWork
  <2>10. counted' \in [0..MaxHour -> Nat] /\ botched' \in BOOLEAN /\ delivered' = delivered
    BY <1>0, <2>1
  <2>11. Servers = {s} /\ ~botched' => OneOk(s)'
    BY <2>1, <2>8
  <2> QED BY <1>0, <2>3, <2>4, <2>6, <2>7, <2>9, <2>10, <2>11, ProcessorGoesOn
<1>8. CASE Email!RoundEnds(s)
  <2> DEFINE new == [pc |-> "idle", todo |-> {}, row |-> 0]
  <2>1. /\ processor' = [processor EXCEPT ![s] = new] /\ UNCHANGED <<emails, counted, delivered>>
        /\ botched' = (botched \/ p.pc \in {"sent", "count"})
    BY <1>8 DEF Email!RoundEnds
  <2>2. new \in ProcessorType /\ new.pc = "idle" /\ new.todo = {}
    BY DEF ProcessorType
  <2> HIDE DEF new
  <2>3. processor'[s] = new
    BY <1>0, <2>1
  <2>4. Servers = {s} /\ ~botched' => OneOk(s)'
    <3> SUFFICES ASSUME OneOk(s), p.pc \notin {"sent", "count"} PROVE OneOk(s)'
      BY <1>o, <2>1
    <3> QED BY <1>0, <2>1, <2>2, <2>3 DEF OneOk, InHour
  <2>5. botched' \in BOOLEAN
    BY <2>1, Zenon
  <2>6. new.todo \subseteq p.todo /\ new.pc # "sent" /\ new.pc \notin AtWork
    BY <2>2 DEF AtWork
  <2>7. counted' \in [0..MaxHour -> Nat] /\ delivered' = delivered /\ emails' = emails
    BY <1>0, <2>1
  <2> QED BY <1>0, <1>e, <2>1, <2>2, <2>4, <2>5, <2>6, <2>7, ProcessorGoesOn
<1> QED BY <1>1, <1>2, <1>3, <1>4, <1>5, <1>6, <1>7, <1>8 DEF Email!Process

EmailHolds == part \in EmailParts => EmailInv

LEMMA EmailStutter == ASSUME EmailInv, UNCHANGED emailVars PROVE EmailInv'
<1>1. EmailType'
  BY DEF emailVars, EmailInv, EmailType, RowsType, PrefsType, WorkType
<1>2. RowsOk' /\ TasksOk'
  BY DEF emailVars, EmailInv, RowsOk, TasksOk, InUse, Email!AtHand
<1>3. LimitOk'
  BY DEF emailVars, EmailInv, LimitOk, OneOk, InHour
<1> QED BY <1>1, <1>2, <1>3 DEF EmailInv

LEMMA EmailHoldsStep == EmailHolds /\ [PartsNext]_partsVars => EmailHolds'
<1> SUFFICES ASSUME EmailHolds, [PartsNext]_partsVars, part' \in EmailParts PROVE EmailInv'
  BY DEF EmailHolds
<1>0. part \in EmailParts /\ EmailInv
  BY DEF EmailHolds, PartsNext, partsVars
<1>1. CASE EmailNext
  <2>1. CASE Email!CancelPending \/ Email!RequeueFailed \/ \E r \in Email!RowIds : Email!BecomesDue(r) \/ Email!WindowEnds(r)
    BY <1>0, <2>1, StatementStep
  <2>2. CASE Email!HourPasses
    BY <1>0, <2>2, HourStep
  <2>3. ASSUME NEW n \in Notices, Email!Notify(n) PROVE EmailInv'
    BY <1>0, <2>3, NoticeStep
  <2>4. ASSUME NEW s \in Servers, Email!Process(s) PROVE EmailInv'
    BY <1>0, <2>4, ProcessStep
  <2>5. ASSUME NEW e \in Edits,
               Email!WritePreferences(e) \/ \E f \in {"address", "on", "off"} : Email!ReadPreferences(e, f)
        PROVE  EmailInv'
    BY <1>0, <2>5, EditStep DEF Email!UpdatePreferences
  <2> QED BY <1>1, <2>1, <2>2, <2>3, <2>4, <2>5 DEF EmailNext
<1>2. CASE UNCHANGED emailVars
  BY <1>0, <1>2, EmailStutter
<1> QED BY <1>0, <1>1, <1>2 DEF PartsNext, partsVars

\* email/queue.rs and email/service.rs: although no two statements are one transaction, an accepted notice is in
\* a row of at most max_batch_size and what was sent had all of it, unless two met at
\* one row; and one server whose marks succeed sends a row once and no more than
\* max_emails_per_hour.
THEOREM EmailsAlwaysSound == Email!Spec => [](Email!TypeOK /\ Email!EmailsAreSound)
<1>1. EmailInv /\ [Email!Next]_(Email!emailVars) => EmailInv'
  <2> SUFFICES ASSUME EmailInv, [Email!Next]_(Email!emailVars) PROVE EmailInv'
    OBVIOUS
  <2>1. CASE Email!CancelPending \/ Email!RequeueFailed \/ \E r \in Email!RowIds : Email!BecomesDue(r) \/ Email!WindowEnds(r)
    BY <2>1, StatementStep
  <2>2. CASE Email!HourPasses
    BY <2>2, HourStep
  <2>3. CASE UNCHANGED Email!emailVars
    BY <2>3, EmailStutter DEF Email!emailVars, emailVars
  <2> QED BY <2>1, <2>2, <2>3, NoticeStep, ProcessStep, EditStep DEF Email!Next
<1> QED BY EmailInit, <1>1, EmailFacts, PTL DEF Email!Spec

\* The same where notices, the processors and the preferences take turns.
THEOREM EmailsStaySound == PartsSpec => []EmailsAreSound
<1>1. PartsInit => EmailHolds
  BY EmailInit DEF PartsInit, EmailHolds
<1>2. EmailHolds => EmailsAreSound
  BY EmailFacts DEF EmailHolds, EmailsAreSound
<1> QED BY <1>1, <1>2, EmailHoldsStep, PTL DEF PartsSpec

-----------------------------------------------------------------------------
(* The queue as a mailbox                                                  *)

MailboxInv == TypeOK /\ Taken /\ (part = "turns" => BoxInv)

LEMMA MailboxKeeps == MailboxInv /\ [PartsNext]_partsVars => MailboxInv' /\ [MailboxStep]_vars
<1> SUFFICES ASSUME MailboxInv, [PartsNext]_partsVars PROVE MailboxInv' /\ [MailboxStep]_vars
  OBVIOUS
<1> USE DEF MailboxInv
<1>1. part' = part
  BY DEF PartsNext, partsVars
<1>2. CASE UNCHANGED vars
  <2>1. TypeOK' /\ Taken'
    BY <1>2, TypeStep, TakenStep
  <2>2. part = "turns" => BoxInv'
    BY <1>2, StillBox DEF vars
  <2> QED BY <1>1, <1>2, <2>1, <2>2
<1>3. CASE part \in QueueParts /\ QueueNext
  <2>1. Next /\ (part = "turns" => OneReads')
    BY <1>3 DEF QueueNext
  <2>2. TypeOK' /\ Taken'
    BY <2>1, TypeStep, TakenStep
  <2>3. part = "turns" => BoxInv' /\ BoxStep
    BY <2>1, <2>2, TurnsStep
  <2> QED BY <1>1, <2>2, <2>3 DEF MailboxStep, BoxStep, UnmovedBox
<1> QED BY <1>2, <1>3 DEF PartsNext, partsVars

\* offline_queue.rs: when drains take turns, the list, its trimming, its expiry and calls
\* that fail half-way are a mailbox that never reorders, repeats or invents a message.
THEOREM QueueIsAMailbox == PartsSpec => IsMailboxInTurns
<1>1. PartsInit => MailboxInv /\ (part = "turns" => Box!Init)
  <2>1. Init => Taken
    BY RangeOfEmpty DEF Init, Taken
  <2> QED BY <2>1, TypeInit, BoxInit DEF PartsInit, MailboxInv
<1> QED BY <1>1, MailboxKeeps, PTL DEF PartsSpec, IsMailboxInTurns

=============================================================================
