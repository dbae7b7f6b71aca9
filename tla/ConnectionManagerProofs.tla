----------------------- MODULE ConnectionManagerProofs -----------------------
(***************************************************************************)
(* Safety of ConnectionManager for any number of connections and users and *)
(* any limits.  The inductive invariant adds to the checked properties     *)
(* what each program counter says about the registry: a connection is in   *)
(* `connections` only between its insert and its removal, and the entry a  *)
(* task is in the middle of unregistering has already been removed, by     *)
(* that task alone.                                                        *)
(***************************************************************************)
EXTENDS ConnectionManager, FiniteSetTheorems, TLAPS

\* What the task that owns a connection knows of the registry.
HandlerInv ==
    \A c \in Conn :
        /\ pc[c] \in {"new", "check_user", "insert", "rejected", "closed"}
             => c \notin connections
        /\ pc[c] \in {"new", "check_user", "insert", "rejected"} \cup Registering
             => c \notin dropped
        /\ c \in InRegistration => c \in connections
        /\ ustep[c] # "idle" => pc[c] = "cleanup"

\* What a task inside unregister knows of its target.
RemovalInv ==
    /\ stale \subseteq dropped
    /\ \A a \in Removing :
        /\ Target(a) \notin connections
        /\ pc[Target(a)] \in {"open", "cleanup", "closed"}
    /\ ustep[Sweeper] # "idle" => sweep = "purge" /\ sweepConn \in stale

IInv ==
    /\ TypeOK
    /\ HandlerInv
    /\ RemovalInv
    /\ NoGhostMapping
    /\ EmptyEntryIsTransient
    /\ CounterAccounting

-----------------------------------------------------------------------------
LEMMA TargetInConn == TypeOK => \A a \in Actor : Target(a) \in Conn
BY SweeperAssumption DEF TypeOK, Actor, Target

\* The sets the accounting counts are finite.
LEMMA CountedSetsFinite ==
    ASSUME TypeOK
    PROVE  /\ IsFiniteSet(connections) /\ Cardinality(connections) \in Nat
           /\ IsFiniteSet(InRegistration) /\ Cardinality(InRegistration) \in Nat
           /\ IsFiniteSet(Removing) /\ Cardinality(Removing) \in Nat
<1>1. IsFiniteSet(connections) /\ IsFiniteSet(InRegistration)
  BY ConnAssumption, FS_Subset DEF TypeOK, InRegistration
<1>2. IsFiniteSet(Actor)
  BY ConnAssumption, FS_AddElement DEF Actor
<1>3. IsFiniteSet(Removing)
  BY <1>2, FS_Subset DEF Removing
<1>. QED  BY <1>1, <1>3, FS_CardinalityType

LEMMA InitIInv == Init => IInv
<1>. SUFFICES ASSUME Init PROVE IInv
  OBVIOUS
<1>1. TypeOK
  BY ConnAssumption DEF Init, TypeOK, HandlerPC, UnregisterStep, NoneYet
<1>2. InRegistration = {} /\ Removing = {}
  BY DEF Init, InRegistration, Registering, Removing
<1>3. CounterAccounting
  BY <1>2, FS_EmptySet DEF Init, CounterAccounting
<1>4. HandlerInv
  BY <1>2 DEF Init, HandlerInv, Registering, Actor
<1>5. RemovalInv
  BY <1>2 DEF Init, RemovalInv, Actor
<1>6. NoGhostMapping /\ EmptyEntryIsTransient
  BY DEF Init, NoGhostMapping, EmptyEntryIsTransient
<1>. QED  BY <1>1, <1>3, <1>4, <1>5, <1>6 DEF IInv

-----------------------------------------------------------------------------
(* Type correctness.  Only the decrement needs an argument: the counter    *)
(* counts at least the entry being uncounted.                              *)

LEMMA UncountPositive ==
    ASSUME IInv, NEW a \in Actor, ustep[a] = "uncount"
    PROVE  total \in Nat \ {0}
<1>1. InRegistration \subseteq connections
  BY DEF IInv, HandlerInv, InRegistration
<1>2. Cardinality(InRegistration) <= Cardinality(connections)
  BY <1>1, CountedSetsFinite, FS_Subset DEF IInv
<1>3. a \in Removing
  BY DEF Removing
<1>4. Cardinality(Removing) # 0
  BY <1>3, CountedSetsFinite, FS_EmptySet DEF IInv
<1>. QED
  BY <1>2, <1>4, CountedSetsFinite DEF IInv, CounterAccounting, TypeOK

LEMMA TypeStep == IInv /\ [Next]_vars => TypeOK'
<1>. SUFFICES ASSUME IInv, [Next]_vars PROVE TypeOK'
  OBVIOUS
<1>. USE DEF IInv, TypeOK, HandlerPC, UnregisterStep, Registering, Goto,
             registry, sweepVars
<1>0. TypeOK  OBVIOUS
<1>1. ASSUME NEW c \in Conn, Register(c) PROVE TypeOK'
  <2>1. CASE CheckTotal(c)
    <3>1. pc' \in [Conn -> HandlerPC]
      BY <2>1 DEF CheckTotal
    <3>2. Cardinality(Admitted') \in Nat
      BY ConnAssumption, FS_Subset, FS_CardinalityType DEF Admitted
    <3>3. racing' \in Nat
      BY <2>1, <3>2 DEF CheckTotal, CountRaces
    <3>. QED  BY <2>1, <3>1, <3>3 DEF CheckTotal
  <2>. QED
    BY <1>1, <2>1, UserOfAssumption
       DEF Register, CheckUser, InsertConnection, PushMapping, CountConnection
<1>2. ASSUME NEW c \in Conn, SendTaskEnds(c) \/ SelectReturns(c) PROVE TypeOK'
  BY <1>2 DEF SendTaskEnds, SelectReturns
<1>3. ASSUME NEW a \in Actor, RetainOthers(a) \/ DropUserKey(a) PROVE TypeOK'
  BY <1>3, TargetInConn, UserOfAssumption DEF RetainOthers, DropUserKey
<1>4. ASSUME NEW a \in Actor, Uncount(a) PROVE total' \in Nat
  BY <1>4, UncountPositive DEF Uncount
<1>5. ASSUME NEW c \in Conn, OwnerUnregister(c) PROVE TypeOK'
  BY <1>5 DEF OwnerUnregister, RemoveConnection, Actor
<1>6. ASSUME NEW c \in Conn, OwnerUncount(c) PROVE TypeOK'
  BY <1>6, <1>4 DEF OwnerUncount, Uncount, Actor
<1>7. ASSUME NEW c \in Conn, SweepVisit(c) \/ SweepUnregister(c) PROVE TypeOK'
  BY <1>7 DEF SweepVisit, SweepUnregister, RemoveConnection, Actor
<1>8. CASE SweepUncount
  BY <1>8, <1>4, ConnAssumption DEF SweepUncount, Uncount, Actor, NoneYet
<1>9. CASE SweepStart \/ SweepEnd
  BY <1>9 DEF SweepStart, SweepEnd
<1>10. CASE UNCHANGED vars
  BY <1>10 DEF vars
<1>. QED
  BY <1>1, <1>2, <1>3, <1>5, <1>6, <1>7, <1>8, <1>9, <1>10
     DEF Next, Handler, Cleanup, SweepTask, Actor

-----------------------------------------------------------------------------
(* The steps that leave every part but the typing of IInv alone are        *)
(* grouped; each remaining lemma has one step per action that can disturb  *)
(* its conclusion.                                                         *)

LEMMA HandlerStep == IInv /\ [Next]_vars => HandlerInv'
<1>. SUFFICES ASSUME IInv, [Next]_vars PROVE HandlerInv'
  OBVIOUS
<1>. USE DEF IInv, TypeOK, HandlerInv, InRegistration, Registering, Goto,
             registry, sweepVars, Actor
<1>1. ASSUME NEW c \in Conn, Register(c) PROVE HandlerInv'
  BY <1>1 DEF Register, CheckTotal, CheckUser, InsertConnection, PushMapping, CountConnection
<1>2. ASSUME NEW c \in Conn, SendTaskEnds(c) \/ SelectReturns(c) PROVE HandlerInv'
  BY <1>2 DEF SendTaskEnds, SelectReturns
<1>3. ASSUME NEW a \in Actor, RetainOthers(a) \/ DropUserKey(a) PROVE HandlerInv'
  BY <1>3 DEF RetainOthers, DropUserKey
<1>4. ASSUME NEW c \in Conn, OwnerUnregister(c) PROVE HandlerInv'
  BY <1>4 DEF OwnerUnregister, RemoveConnection
<1>5. ASSUME NEW c \in Conn, OwnerUncount(c) PROVE HandlerInv'
  <2>1. c \notin connections
    BY <1>5, SweeperAssumption DEF OwnerUncount, Uncount, RemovalInv, Removing, Target
  <2>. QED  BY <1>5, <2>1 DEF OwnerUncount, Uncount
<1>6. ASSUME NEW c \in Conn, SweepVisit(c) PROVE HandlerInv'
  BY <1>6 DEF SweepVisit
<1>7. ASSUME NEW c \in Conn, SweepUnregister(c) PROVE HandlerInv'
  <2>1. c \notin InRegistration
    BY <1>7 DEF SweepUnregister, RemovalInv
  <2>. QED  BY <1>7, <2>1, SweeperAssumption DEF SweepUnregister, RemoveConnection
<1>8. CASE SweepStart \/ SweepUncount \/ SweepEnd
  BY <1>8, SweeperAssumption DEF SweepStart, SweepUncount, Uncount, SweepEnd
<1>9. CASE UNCHANGED vars
  BY <1>9 DEF vars
<1>. QED
  BY <1>1, <1>2, <1>3, <1>4, <1>5, <1>6, <1>7, <1>8, <1>9
     DEF Next, Handler, Cleanup, SweepTask

LEMMA RemovalStep == IInv /\ [Next]_vars => RemovalInv'
<1>. SUFFICES ASSUME IInv, [Next]_vars PROVE RemovalInv'
  OBVIOUS
<1>. USE DEF IInv, TypeOK, RemovalInv, Removing, Registering, Goto,
             registry, sweepVars, Actor, Target
<1>1. ASSUME NEW c \in Conn, Register(c) PROVE RemovalInv'
  BY <1>1, TargetInConn
     DEF Register, CheckTotal, CheckUser, InsertConnection, PushMapping, CountConnection
<1>2. ASSUME NEW c \in Conn, SendTaskEnds(c) \/ SelectReturns(c) PROVE RemovalInv'
  BY <1>2, TargetInConn DEF SendTaskEnds, SelectReturns
<1>3. ASSUME NEW a \in Actor, RetainOthers(a) \/ DropUserKey(a) PROVE RemovalInv'
  BY <1>3 DEF RetainOthers, DropUserKey
<1>4. ASSUME NEW c \in Conn, OwnerUnregister(c) PROVE RemovalInv'
  BY <1>4, SweeperAssumption, TargetInConn DEF OwnerUnregister, RemoveConnection
<1>5. ASSUME NEW c \in Conn, OwnerUncount(c) PROVE RemovalInv'
  BY <1>5, SweeperAssumption, TargetInConn DEF OwnerUncount, Uncount
<1>6. ASSUME NEW c \in Conn, SweepVisit(c) PROVE RemovalInv'
  BY <1>6 DEF SweepVisit, IsStale
<1>7. ASSUME NEW c \in Conn, SweepUnregister(c) PROVE RemovalInv'
  <2>1. pc[c] \in {"open", "cleanup", "closed"}
    BY <1>7 DEF SweepUnregister, HandlerInv, HandlerPC
  <2>. QED  BY <1>7, <2>1, SweeperAssumption DEF SweepUnregister, RemoveConnection
<1>8. CASE SweepStart
  BY <1>8 DEF SweepStart
<1>9. CASE SweepUncount
  BY <1>9, SweeperAssumption DEF SweepUncount, Uncount
<1>10. CASE SweepEnd
  BY <1>10 DEF SweepEnd
<1>11. CASE UNCHANGED vars
  BY <1>11 DEF vars
<1>. QED
  BY <1>1, <1>2, <1>3, <1>4, <1>5, <1>6, <1>7, <1>8, <1>9, <1>10, <1>11
     DEF Next, Handler, Cleanup, SweepTask

LEMMA GhostStep == IInv /\ [Next]_vars => NoGhostMapping'
<1>. SUFFICES ASSUME IInv, [Next]_vars PROVE NoGhostMapping'
  OBVIOUS
<1>. USE DEF IInv, TypeOK, NoGhostMapping, Registering, Goto, registry,
             sweepVars, Actor, Target
<1>1. ASSUME NEW c \in Conn, Register(c) PROVE NoGhostMapping'
  <2>1. CASE PushMapping(c)
    BY <1>1, <2>1, UserOfAssumption DEF PushMapping, HandlerInv, InRegistration
  <2>. QED
    BY <1>1, <2>1 DEF Register, CheckTotal, CheckUser, InsertConnection, CountConnection
<1>2. ASSUME NEW c \in Conn, SendTaskEnds(c) \/ SelectReturns(c) PROVE NoGhostMapping'
  BY <1>2 DEF SendTaskEnds, SelectReturns
<1>3. ASSUME NEW a \in Actor, RetainOthers(a) PROVE NoGhostMapping'
  <2>. SUFFICES ASSUME NEW u \in User, NEW c \in userConns'[u]
                PROVE  /\ UserOf[c] = u
                       /\ \/ c \in connections
                          \/ \E b \in Actor : ustep'[b] = "retain" /\ Target(b) = c
    BY <1>3 DEF RetainOthers
  <2>1. c \in userConns[u] /\ ~(u = UserOf[Target(a)] /\ c = Target(a))
    BY <1>3, TargetInConn, UserOfAssumption DEF RetainOthers
  <2>2. UserOf[c] = u /\ c # Target(a)
    BY <2>1
  <2>. QED  BY <1>3, <2>1, <2>2 DEF RetainOthers
<1>4. ASSUME NEW a \in Actor, DropUserKey(a) PROVE NoGhostMapping'
  BY <1>4, TargetInConn, UserOfAssumption DEF DropUserKey
<1>5. ASSUME NEW c \in Conn, OwnerUnregister(c) PROVE NoGhostMapping'
  BY <1>5, SweeperAssumption DEF OwnerUnregister, RemoveConnection
<1>6. ASSUME NEW c \in Conn, OwnerUncount(c) PROVE NoGhostMapping'
  BY <1>6 DEF OwnerUncount, Uncount
<1>7. ASSUME NEW c \in Conn, SweepVisit(c) PROVE NoGhostMapping'
  BY <1>7 DEF SweepVisit
<1>8. ASSUME NEW c \in Conn, SweepUnregister(c) PROVE NoGhostMapping'
  BY <1>8, SweeperAssumption DEF SweepUnregister, RemoveConnection
<1>9. CASE SweepStart \/ SweepUncount \/ SweepEnd
  BY <1>9 DEF SweepStart, SweepUncount, Uncount, SweepEnd
<1>10. CASE UNCHANGED vars
  BY <1>10 DEF vars
<1>. QED
  BY <1>1, <1>2, <1>3, <1>4, <1>5, <1>6, <1>7, <1>8, <1>9, <1>10
     DEF Next, Handler, Cleanup, SweepTask

LEMMA EmptyEntryStep == IInv /\ [Next]_vars => EmptyEntryIsTransient'
<1>. SUFFICES ASSUME IInv, [Next]_vars PROVE EmptyEntryIsTransient'
  OBVIOUS
<1>. USE DEF IInv, TypeOK, EmptyEntryIsTransient, Registering, Goto, registry,
             sweepVars, Actor, Target
<1>1. ASSUME NEW c \in Conn, Register(c) PROVE EmptyEntryIsTransient'
  <2>1. CASE PushMapping(c)
    <3>. SUFFICES ASSUME NEW u \in userKeys', userConns'[u] = {}
                  PROVE  \E a \in Actor : ustep[a] = "drop_key" /\ UserOf[Target(a)] = u
      BY <2>1 DEF PushMapping
    <3>1. u # UserOf[c]
      <4>1. UserOf[c] \in User
        BY UserOfAssumption
      <4>2. c \in userConns'[UserOf[c]]
        BY <2>1, <4>1 DEF PushMapping
      <4>. QED  BY <4>2
    <3>2. u \in userKeys /\ userConns[u] = {}
      BY <2>1, <3>1, UserOfAssumption DEF PushMapping
    <3>. QED  BY <3>2
  <2>. QED
    BY <1>1, <2>1 DEF Register, CheckTotal, CheckUser, InsertConnection, CountConnection
<1>2. ASSUME NEW c \in Conn, SendTaskEnds(c) \/ SelectReturns(c) PROVE EmptyEntryIsTransient'
  BY <1>2 DEF SendTaskEnds, SelectReturns
<1>3. ASSUME NEW a \in Actor, RetainOthers(a) PROVE EmptyEntryIsTransient'
  BY <1>3, TargetInConn, UserOfAssumption DEF RetainOthers
<1>4. ASSUME NEW a \in Actor, DropUserKey(a) PROVE EmptyEntryIsTransient'
  BY <1>4, TargetInConn, UserOfAssumption DEF DropUserKey
<1>5. ASSUME NEW c \in Conn, OwnerUnregister(c) PROVE EmptyEntryIsTransient'
  BY <1>5, SweeperAssumption DEF OwnerUnregister, RemoveConnection
<1>6. ASSUME NEW c \in Conn, OwnerUncount(c) PROVE EmptyEntryIsTransient'
  BY <1>6 DEF OwnerUncount, Uncount
<1>7. ASSUME NEW c \in Conn, SweepVisit(c) PROVE EmptyEntryIsTransient'
  BY <1>7 DEF SweepVisit
<1>8. ASSUME NEW c \in Conn, SweepUnregister(c) PROVE EmptyEntryIsTransient'
  BY <1>8, SweeperAssumption DEF SweepUnregister, RemoveConnection
<1>9. CASE SweepStart \/ SweepUncount \/ SweepEnd
  BY <1>9 DEF SweepStart, SweepUncount, Uncount, SweepEnd
<1>10. CASE UNCHANGED vars
  BY <1>10 DEF vars
<1>. QED
  BY <1>1, <1>2, <1>3, <1>4, <1>5, <1>6, <1>7, <1>8, <1>9, <1>10
     DEF Next, Handler, Cleanup, SweepTask

-----------------------------------------------------------------------------
(* Accounting: each action moves at most one element between the counted   *)
(* sets.                                                                   *)

LEMMA AccountingStep == IInv /\ [Next]_vars => CounterAccounting'
<1>. SUFFICES ASSUME IInv, [Next]_vars PROVE CounterAccounting'
  OBVIOUS
<1>. USE DEF IInv, TypeOK, CounterAccounting, registry, sweepVars
<1>0. TypeOK
  OBVIOUS
<1>a. ASSUME connections' = connections, InRegistration' = InRegistration,
             Removing' = Removing, total' = total
      PROVE  CounterAccounting'
  BY <1>a
<1>b. ASSUME NEW a \in Actor, ustep[a] = "idle", NEW c \in connections,
             RemoveConnection(a, c), InRegistration' = InRegistration
      PROVE  CounterAccounting'
  <2>1. Removing' = Removing \cup {a} /\ a \notin Removing
    BY <1>b DEF RemoveConnection, Removing
  <2>2. Cardinality(Removing') = Cardinality(Removing) + 1
    BY <1>0, <2>1, CountedSetsFinite, FS_AddElement
  <2>3. Cardinality(connections') = Cardinality(connections) - 1
    BY <1>0, <1>b, CountedSetsFinite, FS_RemoveElement DEF RemoveConnection
  <2>. QED
    BY <1>0, <1>b, <2>2, <2>3, CountedSetsFinite DEF RemoveConnection
<1>c. ASSUME NEW a \in Actor, Uncount(a), InRegistration' = InRegistration
      PROVE  CounterAccounting'
  <2>1. Removing' = Removing \ {a} /\ a \in Removing
    BY <1>c DEF Uncount, Removing
  <2>2. Cardinality(Removing') = Cardinality(Removing) - 1
    BY <1>0, <2>1, CountedSetsFinite, FS_RemoveElement
  <2>. QED
    BY <1>0, <1>c, <2>2, CountedSetsFinite DEF Uncount
<1>1. ASSUME NEW c \in Conn, Register(c) PROVE CounterAccounting'
  <2>1. CASE CheckTotal(c) \/ CheckUser(c) \/ PushMapping(c)
    BY <2>1, <1>a
       DEF CheckTotal, CheckUser, PushMapping, Goto, InRegistration, Registering, Removing
  <2>2. CASE InsertConnection(c)
    <3>1. c \notin connections /\ c \notin InRegistration
      BY <2>2 DEF InsertConnection, HandlerInv, InRegistration, Registering
    <3>2. InRegistration' = InRegistration \cup {c} /\ connections' = connections \cup {c}
      BY <2>2 DEF InsertConnection, InRegistration, Registering, Goto
    <3>3. Removing' = Removing /\ total' = total
      BY <2>2 DEF InsertConnection, Removing
    <3>4. /\ Cardinality(InRegistration') = Cardinality(InRegistration) + 1
          /\ Cardinality(connections') = Cardinality(connections) + 1
      BY <1>0, <3>1, <3>2, CountedSetsFinite, FS_AddElement
    <3>. QED  BY <1>0, <3>3, <3>4, CountedSetsFinite
  <2>3. CASE CountConnection(c)
    <3>1. InRegistration' = InRegistration \ {c} /\ c \in InRegistration
      BY <2>3 DEF CountConnection, InRegistration, Registering, Goto
    <3>2. connections' = connections /\ Removing' = Removing /\ total' = total + 1
      BY <2>3 DEF CountConnection, Removing
    <3>3. Cardinality(InRegistration') = Cardinality(InRegistration) - 1
      BY <1>0, <3>1, CountedSetsFinite, FS_RemoveElement
    <3>. QED  BY <1>0, <3>2, <3>3, CountedSetsFinite
  <2>. QED  BY <1>1, <2>1, <2>2, <2>3 DEF Register
<1>2. ASSUME NEW c \in Conn, SendTaskEnds(c) \/ SelectReturns(c) PROVE CounterAccounting'
  BY <1>2, <1>a DEF SendTaskEnds, SelectReturns, Goto, InRegistration, Registering, Removing
<1>3. ASSUME NEW a \in Actor, RetainOthers(a) \/ DropUserKey(a) PROVE CounterAccounting'
  BY <1>3, <1>a DEF RetainOthers, DropUserKey, InRegistration, Removing
<1>4. ASSUME NEW c \in Conn, OwnerUnregister(c) PROVE CounterAccounting'
  <2>1. CASE c \in connections
    BY <1>4, <2>1, <1>b DEF OwnerUnregister, InRegistration, Actor
  <2>2. CASE c \notin connections
    BY <1>4, <2>2, <1>a
       DEF OwnerUnregister, InRegistration, Registering, Removing, Goto
  <2>. QED  BY <2>1, <2>2
<1>5. ASSUME NEW c \in Conn, OwnerUncount(c) PROVE CounterAccounting'
  <2>1. pc[c] = "cleanup"
    BY <1>5 DEF OwnerUncount, Uncount, HandlerInv
  <2>2. InRegistration' = InRegistration
    BY <1>5, <2>1 DEF OwnerUncount, InRegistration, Registering, Goto
  <2>. QED  BY <1>5, <2>2, <1>c DEF OwnerUncount, Actor
<1>6. ASSUME NEW c \in Conn, SweepVisit(c) PROVE CounterAccounting'
  BY <1>6, <1>a DEF SweepVisit, InRegistration, Removing
<1>7. ASSUME NEW c \in Conn, SweepUnregister(c) PROVE CounterAccounting'
  <2>1. CASE c \in connections
    BY <1>7, <2>1, <1>b DEF SweepUnregister, InRegistration, Actor
  <2>2. CASE c \notin connections
    BY <1>7, <2>2, <1>a DEF SweepUnregister, InRegistration, Removing
  <2>. QED  BY <2>1, <2>2
<1>8. CASE SweepUncount
  BY <1>8, <1>c DEF SweepUncount, InRegistration, Actor
<1>9. CASE SweepStart \/ SweepEnd
  BY <1>9, <1>a DEF SweepStart, SweepEnd, InRegistration, Removing
<1>10. CASE UNCHANGED vars
  BY <1>10, <1>a DEF vars, InRegistration, Removing
<1>. QED
  BY <1>1, <1>2, <1>3, <1>4, <1>5, <1>6, <1>7, <1>8, <1>9, <1>10
     DEF Next, Handler, Cleanup, SweepTask, Actor

-----------------------------------------------------------------------------
(* The limits: a registration that has passed a check counts as if it were *)
(* already in, so only those that passed it together exceed the limit.     *)

Entering(u) == {c \in Conn : UserOf[c] = u /\ pc[c] \in {"insert", "push"}}
RaceInv ==
    /\ Cardinality(Admitted) <= racing
    /\ total + Cardinality(Admitted) <= Reachable(MaxConnections)
    /\ \A u \in User :
          /\ u \notin userKeys => userConns[u] = {}
          /\ Cardinality(userConns[u]) + Cardinality(Entering(u)) <= Reachable(UserLimit)

RacingSetsFinite ==
    /\ IsFiniteSet(Admitted) /\ Cardinality(Admitted) \in Nat
    /\ \A u \in User : /\ IsFiniteSet(Entering(u)) /\ Cardinality(Entering(u)) \in Nat
                       /\ IsFiniteSet(userConns[u]) /\ Cardinality(userConns[u]) \in Nat
                       /\ Cardinality(Entering(u)) <= Cardinality(Admitted)

LEMMA RacingSetsAreFinite == TypeOK => RacingSetsFinite
<1>. SUFFICES ASSUME TypeOK PROVE RacingSetsFinite
  OBVIOUS
<1>1. IsFiniteSet(Admitted)
  BY ConnAssumption, FS_Subset DEF Admitted
<1>2. ASSUME NEW u \in User
      PROVE  IsFiniteSet(Entering(u)) /\ IsFiniteSet(userConns[u]) /\ Entering(u) \subseteq Admitted
  <2>1. Entering(u) \subseteq Conn /\ userConns[u] \subseteq Conn /\ Entering(u) \subseteq Admitted
    BY DEF Entering, Admitted, Registering, TypeOK
  <2>. QED  BY <2>1, ConnAssumption, FS_Subset
<1>3. \A u \in User : Cardinality(Entering(u)) <= Cardinality(Admitted)
  BY <1>1, <1>2, FS_Subset
<1>. QED  BY <1>1, <1>2, <1>3, FS_CardinalityType DEF RacingSetsFinite

LEMMA InitRaceInv == Init => RaceInv
<1>. SUFFICES ASSUME Init PROVE RaceInv
  OBVIOUS
<1>1. Admitted = {} /\ \A u \in User : Entering(u) = {} /\ userConns[u] = {}
  BY DEF Init, Admitted, Entering, Registering
<1>. QED  BY <1>1, FS_EmptySet DEF Init, RaceInv, Reachable

\* A step that admits nobody: the lists and the counter do not grow.
LEMMA NobodyAdmitted ==
    ASSUME TypeOK, TypeOK', RaceInv, racing' = racing, total' <= total, Admitted' \subseteq Admitted,
           \A u \in User : /\ Entering(u)' \subseteq Entering(u) /\ userConns'[u] \subseteq userConns[u]
                           /\ u \notin userKeys' => userConns'[u] = {}
    PROVE  RaceInv'
<1>0. RacingSetsFinite /\ RacingSetsFinite'
  BY RacingSetsAreFinite, PTL
<1>1. Cardinality(Admitted') <= Cardinality(Admitted)
  BY <1>0, FS_Subset DEF RacingSetsFinite
<1>2. ASSUME NEW u \in User
      PROVE  /\ Cardinality(Entering(u)') <= Cardinality(Entering(u))
             /\ Cardinality(userConns'[u]) <= Cardinality(userConns[u])
  <2>1. IsFiniteSet(Entering(u)) /\ IsFiniteSet(userConns[u])
    BY <1>0 DEF RacingSetsFinite
  <2>2. Entering(u)' \subseteq Entering(u) /\ userConns'[u] \subseteq userConns[u]
    OBVIOUS
  <2>. QED  BY <2>1, <2>2, FS_Subset
<1>3. /\ Cardinality(Admitted) \in Nat /\ Cardinality(Admitted') \in Nat
      /\ \A u \in User : /\ Cardinality(Entering(u)) \in Nat /\ Cardinality(Entering(u)') \in Nat
                         /\ Cardinality(userConns[u]) \in Nat /\ Cardinality(userConns'[u]) \in Nat
  BY <1>0 DEF RacingSetsFinite
<1>4. /\ Reachable(MaxConnections)' = Reachable(MaxConnections) /\ Reachable(UserLimit)' = Reachable(UserLimit)
      /\ Reachable(MaxConnections) \in Int /\ Reachable(UserLimit) \in Int
      /\ total \in Nat /\ total' \in Nat /\ racing \in Nat
  BY LimitsAssumption DEF Reachable, UserLimit, TypeOK
<1>5. Cardinality(Admitted') <= racing /\ total' + Cardinality(Admitted') <= Reachable(MaxConnections)
  BY <1>1, <1>3, <1>4 DEF RaceInv
<1>6. ASSUME NEW u \in User
      PROVE  Cardinality(userConns'[u]) + Cardinality(Entering(u)') <= Reachable(UserLimit)
  BY <1>2, <1>3, <1>4 DEF RaceInv
<1>7. \A u \in User : u \notin userKeys' => userConns'[u] = {}
  OBVIOUS
<1>. QED
  BY <1>4, <1>5, <1>6, <1>7 DEF RaceInv

LEMMA RaceStep == IInv /\ IInv' /\ RaceInv /\ [Next]_vars => RaceInv'
<1>. SUFFICES ASSUME IInv, IInv', RaceInv, [Next]_vars PROVE RaceInv'
  OBVIOUS
<1>. USE DEF IInv
<1>t. TypeOK /\ TypeOK'
  OBVIOUS
<1>n. /\ Cardinality(Admitted) \in Nat /\ Cardinality(Admitted') \in Nat
      /\ \A u \in User : /\ Cardinality(Entering(u)) \in Nat /\ Cardinality(Entering(u)') \in Nat
                         /\ Cardinality(userConns[u]) \in Nat /\ Cardinality(userConns'[u]) \in Nat
                         /\ Cardinality(Entering(u)) <= Cardinality(Admitted)
                         /\ Cardinality(Entering(u)') <= Cardinality(Admitted')
      /\ IsFiniteSet(Admitted) /\ IsFiniteSet(Admitted')
  <2>1. RacingSetsFinite /\ RacingSetsFinite'
    BY <1>t, RacingSetsAreFinite, PTL
  <2>. QED  BY <2>1 DEF RacingSetsFinite
<1>l. total \in Nat /\ racing \in Nat /\ MaxConnections \in Nat /\ MaxPerUser \in Nat
  BY LimitsAssumption DEF TypeOK
<1>1. ASSUME NEW c \in Conn, CheckTotal(c) PROVE RaceInv'
  <2>1. /\ total' = total /\ userKeys' = userKeys /\ userConns' = userConns
        /\ pc[c] = "new" /\ \A d \in Conn : d # c => pc'[d] = pc[d]
    BY <1>1, <1>t DEF CheckTotal, registry, Goto, TypeOK
  <2>2. \A u \in User : Entering(u)' = Entering(u)
    BY <1>1, <1>t, <2>1 DEF CheckTotal, Goto, TypeOK, Entering
  <2>3. CASE total >= MaxConnections
    <3>1. Admitted' = Admitted
      BY <1>1, <1>t, <2>1, <2>3 DEF CheckTotal, Goto, TypeOK, Admitted, Registering
    <3>2. racing' = racing
      BY <1>1, <1>l, <1>n, <3>1 DEF CheckTotal, CountRaces, RaceInv
    <3>. QED  BY <1>t, <2>1, <2>2, <3>1, <3>2, <1>l, NobodyAdmitted DEF RaceInv
  <2>4. CASE ~(total >= MaxConnections)
    <3>1. c \notin Admitted /\ Admitted' = Admitted \cup {c}
      BY <1>1, <1>t, <2>1, <2>4 DEF CheckTotal, Goto, TypeOK, Admitted, Registering
    <3>2. Cardinality(Admitted') = Cardinality(Admitted) + 1
      BY <1>n, <3>1, FS_AddElement
    <3>3. racing' \in Nat /\ racing' >= Cardinality(Admitted') /\ racing' >= racing /\ racing' > 0
      BY <1>1, <1>l, <1>n, <3>2 DEF CheckTotal, CountRaces
    <3>4. total' + Cardinality(Admitted') <= Reachable(MaxConnections)'
      BY <1>l, <1>n, <2>1, <2>4, <3>3 DEF Reachable
    <3>5. \A u \in User :
             /\ u \notin userKeys' => userConns'[u] = {}
             /\ Cardinality(userConns'[u]) + Cardinality(Entering(u)') <= Reachable(UserLimit)'
      BY <1>l, <1>n, <2>1, <2>2, <3>3 DEF RaceInv, Reachable, UserLimit
    <3>. QED  BY <3>3, <3>4, <3>5 DEF RaceInv
  <2>. QED  BY <2>3, <2>4
<1>2. ASSUME NEW c \in Conn, CheckUser(c) PROVE RaceInv'
  <2>1. /\ total' = total /\ userKeys' = userKeys /\ userConns' = userConns /\ racing' = racing
        /\ pc[c] = "check_user" /\ \A d \in Conn : d # c => pc'[d] = pc[d]
    BY <1>2, <1>t DEF CheckUser, registry, Goto, TypeOK
  <2>2. CASE UserOf[c] \in userKeys /\ Cardinality(userConns[UserOf[c]]) >= MaxPerUser
    <3>1. pc'[c] = "rejected"
      BY <1>2, <1>t, <2>2 DEF CheckUser, Goto, TypeOK
    <3>2. Admitted' \subseteq Admitted /\ \A u \in User : Entering(u)' \subseteq Entering(u)
      BY <2>1, <3>1 DEF Admitted, Entering, Registering
    <3>. QED  BY <1>l, <1>t, <2>1, <3>2, NobodyAdmitted DEF RaceInv
  <2>3. CASE ~(UserOf[c] \in userKeys /\ Cardinality(userConns[UserOf[c]]) >= MaxPerUser)
    <3>1. pc'[c] = "insert"
      BY <1>2, <1>t, <2>3 DEF CheckUser, Goto, TypeOK
    <3>2. Admitted' = Admitted /\ \A u \in User : u # UserOf[c] => Entering(u)' = Entering(u)
      BY <2>1, <3>1 DEF Admitted, Entering, Registering
    <3>3. racing > 0 /\ Cardinality(Admitted) <= racing
      <4>1. Cardinality(Admitted) # 0
        BY <1>n, <2>1, FS_EmptySet DEF Admitted
      <4>. QED  BY <1>l, <1>n, <4>1 DEF RaceInv
    <3>4. UserOf[c] \in User /\ Cardinality(userConns[UserOf[c]]) <= UserLimit - 1
      <4>1. UserOf[c] \in User
        BY UserOfAssumption
      <4>2. UserOf[c] \notin userKeys => Cardinality(userConns[UserOf[c]]) = 0
        BY <4>1, FS_EmptySet DEF RaceInv
      <4>. QED  BY <1>l, <1>n, <2>3, <4>1, <4>2 DEF UserLimit
    <3>5. Cardinality(userConns'[UserOf[c]]) + Cardinality(Entering(UserOf[c])') <= Reachable(UserLimit)'
      BY <1>l, <1>n, <2>1, <3>2, <3>3, <3>4 DEF Reachable, UserLimit
    <3>6. Reachable(MaxConnections)' = Reachable(MaxConnections) /\ Reachable(UserLimit)' = Reachable(UserLimit)
      BY <2>1 DEF Reachable, UserLimit
    <3>. QED  BY <2>1, <3>2, <3>4, <3>5, <3>6 DEF RaceInv
  <2>. QED  BY <2>2, <2>3
<1>3. ASSUME NEW c \in Conn, InsertConnection(c) PROVE RaceInv'
  <2>1. Admitted' = Admitted /\ \A u \in User : Entering(u)' = Entering(u)
    BY <1>3, <1>t DEF InsertConnection, Goto, TypeOK, Admitted, Entering, Registering
  <2>. QED  BY <1>3, <1>l, <1>t, <2>1, NobodyAdmitted DEF InsertConnection, RaceInv
<1>4. ASSUME NEW c \in Conn, PushMapping(c) PROVE RaceInv'
  <2>1. Admitted' = Admitted /\ total' = total /\ racing' = racing /\ UserOf[c] \in User
    BY <1>4, <1>t, UserOfAssumption DEF PushMapping, Goto, TypeOK, Admitted, Registering
  <2>2. /\ \A u \in User : u # UserOf[c] => Entering(u)' = Entering(u) /\ userConns'[u] = userConns[u]
        /\ userKeys' = userKeys \cup {UserOf[c]}
    BY <1>4, <1>t DEF PushMapping, Goto, TypeOK, Entering
  <2>3. c \in Entering(UserOf[c]) /\ Entering(UserOf[c])' = Entering(UserOf[c]) \ {c}
    BY <1>4, <1>t DEF PushMapping, Goto, TypeOK, Entering
  <2>4. Cardinality(Entering(UserOf[c])') = Cardinality(Entering(UserOf[c])) - 1
    <3>1. IsFiniteSet(Entering(UserOf[c]))
      BY <1>t, <2>1, RacingSetsAreFinite DEF RacingSetsFinite
    <3>. QED  BY <2>3, <3>1, FS_RemoveElement
  <2>5. Cardinality(userConns'[UserOf[c]]) <= Cardinality(userConns[UserOf[c]]) + 1
    <3>1. userConns'[UserOf[c]] = userConns[UserOf[c]] \cup {c}
      BY <1>4, <1>t, <2>1 DEF PushMapping, TypeOK
    <3>2. IsFiniteSet(userConns[UserOf[c]]) /\ Cardinality(userConns[UserOf[c]]) \in Nat
      BY <1>t, <2>1, RacingSetsAreFinite DEF RacingSetsFinite
    <3>. QED  BY <3>1, <3>2, FS_AddElement
  <2>6. Reachable(MaxConnections)' = Reachable(MaxConnections) /\ Reachable(UserLimit)' = Reachable(UserLimit)
        /\ Reachable(UserLimit) \in Int
    BY <1>l, <2>1 DEF Reachable, UserLimit
  <2>7. ASSUME NEW u \in User
        PROVE  /\ u \notin userKeys' => userConns'[u] = {}
               /\ Cardinality(userConns'[u]) + Cardinality(Entering(u)') <= Reachable(UserLimit)'
    <3>1. CASE u = UserOf[c]
      BY <1>n, <2>2, <2>4, <2>5, <2>6, <3>1 DEF RaceInv
    <3>2. CASE u # UserOf[c]
      BY <2>2, <2>6, <3>2 DEF RaceInv
    <3>. QED  BY <3>1, <3>2
  <2>. QED  BY <2>1, <2>6, <2>7 DEF RaceInv
<1>5. ASSUME NEW c \in Conn, CountConnection(c) PROVE RaceInv'
  <2>1. c \in Admitted /\ Admitted' = Admitted \ {c} /\ \A u \in User : Entering(u)' = Entering(u)
    BY <1>5, <1>t DEF CountConnection, Goto, TypeOK, Admitted, Entering, Registering
  <2>2. Cardinality(Admitted') = Cardinality(Admitted) - 1
    BY <1>n, <2>1, FS_RemoveElement
  <2>3. total' = total + 1 /\ racing' = racing /\ userKeys' = userKeys /\ userConns' = userConns
    BY <1>5 DEF CountConnection
  <2>4. Reachable(MaxConnections)' = Reachable(MaxConnections) /\ Reachable(UserLimit)' = Reachable(UserLimit)
    BY <2>3 DEF Reachable, UserLimit
  <2>. QED  BY <1>l, <1>n, <2>1, <2>2, <2>3, <2>4 DEF RaceInv
<1>6. ASSUME racing' = racing, total' <= total, pc' = pc,
             \A u \in User : userConns'[u] \subseteq userConns[u] /\ (u \notin userKeys' => userConns'[u] = {})
      PROVE  RaceInv'
  <2>1. Admitted' = Admitted /\ \A u \in User : Entering(u)' = Entering(u)
    BY <1>6 DEF Admitted, Entering
  <2>. QED  BY <1>6, <1>t, <2>1, NobodyAdmitted
<1>7. ASSUME NEW c \in Conn, pc[c] \in {"open", "cleanup"}, NEW to \in {"cleanup", "closed"}, Goto(c, to),
             racing' = racing, total' <= total, userKeys' = userKeys, userConns' = userConns
      PROVE  RaceInv'
  <2>1. Admitted' = Admitted /\ \A u \in User : Entering(u)' = Entering(u)
    BY <1>7, <1>t DEF Goto, TypeOK, Admitted, Entering, Registering
  <2>. QED  BY <1>7, <1>t, <2>1, NobodyAdmitted DEF RaceInv
<1>8. ASSUME NEW a \in Actor, RetainOthers(a) \/ DropUserKey(a) PROVE RaceInv'
  <2>1. racing' = racing /\ total' = total /\ pc' = pc
    BY <1>8 DEF RetainOthers, DropUserKey
  <2>2. UserOf[Target(a)] \in User
    BY <1>8, <1>t, TargetInConn, UserOfAssumption
  <2>3. \A u \in User : userConns'[u] \subseteq userConns[u] /\ (u \notin userKeys' => userConns'[u] = {})
    BY <1>8, <1>t, <2>2 DEF RetainOthers, DropUserKey, RaceInv, TypeOK
  <2>. QED  BY <1>6, <1>l, <2>1, <2>3
<1>9. ASSUME NEW c \in Conn, SendTaskEnds(c) \/ SelectReturns(c) \/ OwnerUnregister(c) \/ OwnerUncount(c)
      PROVE  RaceInv'
  <2>1. racing' = racing /\ userKeys' = userKeys /\ userConns' = userConns
    BY <1>9 DEF SendTaskEnds, SelectReturns, OwnerUnregister, OwnerUncount, RemoveConnection, Uncount, registry
  <2>2. total' <= total
    BY <1>9, <1>l DEF SendTaskEnds, SelectReturns, OwnerUnregister, OwnerUncount, RemoveConnection, Uncount, registry
  <2>3. \/ pc' = pc
        \/ pc[c] \in {"open", "cleanup"} /\ \E to \in {"cleanup", "closed"} : Goto(c, to)
    BY <1>9 DEF SendTaskEnds, SelectReturns, OwnerUnregister, OwnerUncount, Uncount, HandlerInv, Actor
  <2>. QED  BY <1>6, <1>7, <2>1, <2>2, <2>3 DEF RaceInv
<1>10. ASSUME SweepStart \/ SweepUncount \/ SweepEnd \/ UNCHANGED vars \/ \E c \in Conn : SweepVisit(c) \/ SweepUnregister(c)
       PROVE  RaceInv'
  <2>1. racing' = racing /\ userKeys' = userKeys /\ userConns' = userConns /\ pc' = pc /\ total' <= total
    BY <1>10, <1>l DEF SweepStart, SweepVisit, SweepUnregister, SweepUncount, SweepEnd, RemoveConnection, Uncount,
                       registry, sweepVars, vars
  <2>. QED  BY <1>6, <2>1 DEF RaceInv
<1>. QED
  BY <1>1, <1>2, <1>3, <1>4, <1>5, <1>8, <1>9, <1>10
     DEF Next, Handler, Register, Cleanup, SweepTask, Actor

-----------------------------------------------------------------------------
LEMMA Inductive == Spec => []IInv
<1>1. IInv /\ [Next]_vars => IInv'
  BY TypeStep, HandlerStep, RemovalStep, GhostStep, EmptyEntryStep, AccountingStep DEF IInv
<1>. QED  BY <1>1, InitIInv, PTL DEF Spec

\* Every variable keeps its type; in particular the connection counter never
\* goes below zero, whatever the interleaving of the owners' and the sweep's
\* unregister calls.
THEOREM TypeCorrect == Spec => []TypeOK
<1>1. IInv => TypeOK
  BY DEF IInv
<1>. QED  BY <1>1, Inductive, PTL

\* The counter equals the number of entries, up to the calls in progress, and both
\* limits are exceeded by no more than the registrations that raced.
THEOREM LimitsKept == Spec => []LimitsAreKept
<1>1. RaceInv /\ IInv => LimitsAreKept
  <2>. SUFFICES ASSUME RaceInv, IInv PROVE LimitsAreKept
    OBVIOUS
  <2>1. TypeOK /\ CounterAccounting
    BY DEF IInv
  <2>2. InRegistration \subseteq Admitted
    BY DEF InRegistration, Admitted
  <2>3. Cardinality(InRegistration) <= Cardinality(Admitted)
    BY <2>1, <2>2, RacingSetsAreFinite, FS_Subset DEF RacingSetsFinite
  <2>4. total \in Nat /\ Reachable(MaxConnections) \in Int /\ Reachable(UserLimit) \in Int
    BY <2>1, LimitsAssumption DEF TypeOK, Reachable, UserLimit
  <2>5. Cardinality(connections) <= Reachable(MaxConnections)
    BY <2>1, <2>3, <2>4, CountedSetsFinite, RacingSetsAreFinite DEF RacingSetsFinite, RaceInv, CounterAccounting
  <2>6. \A u \in User : Cardinality(userConns[u]) <= Reachable(UserLimit)
    BY <2>1, <2>4, RacingSetsAreFinite DEF RacingSetsFinite, RaceInv
  <2>. QED  BY <2>1, <2>5, <2>6 DEF LimitsAreKept, ExcessIsRacing
<1>2. RaceInv /\ IInv /\ IInv' /\ [Next]_vars => RaceInv'
  BY RaceStep
<1>. QED  BY <1>1, <1>2, InitRaceInv, Inductive, PTL DEF Spec

\* A user's list never keeps a connection that has left the registry, and a
\* user without connections never stays a key.
THEOREM MappingSound == Spec => [](NoGhostMapping /\ EmptyEntryIsTransient)
<1>1. IInv => NoGhostMapping /\ EmptyEntryIsTransient
  BY DEF IInv
<1>. QED  BY <1>1, Inductive, PTL

\* When every socket is finished and the sweep rests, nothing is left behind.
THEOREM NoLeak == Spec => []NoLeakWhenDrained
<1>1. IInv => NoLeakWhenDrained
  <2>. SUFFICES ASSUME IInv, Drained
                PROVE  connections = {} /\ userKeys = {} /\ total = 0
    BY DEF NoLeakWhenDrained
  <2>. USE DEF IInv, TypeOK, Drained
  <2>1. connections = {}
    BY DEF HandlerInv
  <2>2. Removing = {}
    BY DEF HandlerInv, RemovalInv, Removing, Actor
  <2>3. userKeys = {}
    BY <2>1, <2>2 DEF NoGhostMapping, EmptyEntryIsTransient, Removing
  <2>4. InRegistration = {}
    BY DEF InRegistration, Registering
  <2>5. total = 0
    BY <2>1, <2>2, <2>4, FS_EmptySet DEF CounterAccounting
  <2>. QED  BY <2>1, <2>3, <2>5
<1>. QED  BY <1>1, Inductive, PTL

\* A registration is refused for the per-user limit only when the user has, or
\* is just giving up, that many connections: dead ids never count against it.
THEOREM RefusalJustified == Spec => RefusalIsJustified
<1>. DEFINE held(c) == {d \in Conn : /\ UserOf[d] = UserOf[c]
                                     /\ d \in connections \/ \E a \in Removing : Target(a) = d}
            justified == \A c \in Conn :
                           pc[c] = "check_user" /\ pc'[c] = "rejected"
                             => Cardinality(held(c)) >= MaxPerUser
<1>1. ASSUME IInv, [Next]_vars PROVE justified
  <2>. SUFFICES ASSUME NEW c \in Conn, pc[c] = "check_user", pc'[c] = "rejected"
                PROVE  Cardinality(held(c)) >= MaxPerUser
    OBVIOUS
  <2>. USE <1>1 DEF IInv, TypeOK
  <2>1. CheckUser(c)
    <3>1. ASSUME NEW d \in Conn, Handler(d) PROVE d = c
      BY <3>1 DEF Handler, Register, Cleanup, CheckTotal, CheckUser, InsertConnection,
                  PushMapping, CountConnection, SendTaskEnds, SelectReturns, OwnerUnregister,
                  OwnerUncount, RetainOthers, DropUserKey, Goto
    <3>2. ~SweepTask /\ ~UNCHANGED vars
      BY DEF SweepTask, SweepStart, SweepVisit, SweepUnregister, SweepUncount, SweepEnd,
             RetainOthers, DropUserKey, vars
    <3>3. Handler(c)
      BY <3>1, <3>2 DEF Next
    <3>. QED
      BY <3>3 DEF Handler, Register, Cleanup, CheckTotal, InsertConnection,
                  PushMapping, CountConnection, SendTaskEnds, SelectReturns, OwnerUnregister,
                  OwnerUncount, RetainOthers, DropUserKey, Goto
  <2>2. Cardinality(userConns[UserOf[c]]) >= MaxPerUser
    BY <2>1 DEF CheckUser, Goto
  <2>3. userConns[UserOf[c]] \subseteq held(c)
    BY UserOfAssumption DEF NoGhostMapping, Removing
  <2>4. IsFiniteSet(held(c)) /\ IsFiniteSet(userConns[UserOf[c]])
    BY ConnAssumption, FS_Subset, UserOfAssumption
  <2>5. Cardinality(userConns[UserOf[c]]) <= Cardinality(held(c))
    BY <2>3, <2>4, FS_Subset
  <2>. QED
    BY <2>2, <2>4, <2>5, LimitsAssumption, FS_CardinalityType
<1>2. IInv /\ [Next]_vars => [justified]_vars
  BY <1>1
<1>. QED  BY <1>2, Inductive, PTL DEF RefusalIsJustified, Spec
=============================================================================
