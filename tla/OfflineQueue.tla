---------------------------- MODULE OfflineQueue ----------------------------
(***************************************************************************)
(* One user's offline queue, a Redis list (domain/message/offline_queue.rs)*)
(* Each Redis command is one step: queue_message is RPUSH, LTRIM, EXPIRE,  *)
(* drain_messages is LRANGE, DEL, and commands of several tasks, on any    *)
(* server, interleave.  Any command may fail, which ends the call.         *)
(***************************************************************************)
EXTENDS Naturals, Sequences, FiniteSets

CONSTANTS
    Msg,      \* messages; each is queued by one call of queue_message
    Drainer,  \* tasks that drain the queue, one per connecting socket
    Max       \* max_messages_per_user

ASSUME MaxAssumption == Max \in Nat \ {0}
ASSUME MsgAssumption == IsFiniteSet(Msg)

VARIABLES
    queue,    \* the Redis list; the key does not exist when it is empty
    ttl,      \* whether the key has an expiry
    ppc,      \* where queue_message of a message is
    dpc,      \* where drain_messages of a task is
    batch,    \* what LRANGE returned to it
    pushed,   \* history: the messages in the order of their RPUSH
    handed,   \* history: the messages returned by drain_messages, in order
    expired   \* history: the messages dropped by the expiry of the key

vars == <<queue, ttl, ppc, dpc, batch, pushed, handed, expired>>

RangeOf(s) == {s[i] : i \in DOMAIN s}

ProducerPC == {"new", "trim", "expire", "done", "push_failed", "trim_failed", "expire_failed"}

TypeOK ==
    /\ queue \in Seq(Msg)
    /\ ttl \in {"none", "set"}
    /\ ppc \in [Msg -> ProducerPC]
    /\ dpc \in [Drainer -> {"idle", "del"}]
    /\ batch \in [Drainer -> Seq(Msg)]
    /\ pushed \in Seq(Msg)
    /\ handed \in Seq(Msg)
    /\ expired \in SUBSET Msg
    /\ ttl = "set" => queue # <<>>    \* a key that does not exist has no expiry

Init ==
    /\ queue = <<>>
    /\ ttl = "none"
    /\ ppc = [m \in Msg |-> "new"]
    /\ dpc = [d \in Drainer |-> "idle"]
    /\ batch = [d \in Drainer |-> <<>>]
    /\ pushed = <<>>
    /\ handed = <<>>
    /\ expired = {}

Step(m, from, to) == ppc[m] = from /\ ppc' = [ppc EXCEPT ![m] = to]
drainVars == <<dpc, batch, handed>>

-----------------------------------------------------------------------------
(* queue_message.                                                          *)

\* Mutant: LPUSH, the other end of the list.
RPush_AtHead(m) ==
    /\ Step(m, "new", "trim")
    /\ queue' = <<m>> \o queue
    /\ pushed' = Append(pushed, m)
    /\ UNCHANGED <<ttl, expired, drainVars>>

RPush(m) ==
    /\ Step(m, "new", "trim")
    /\ queue' = Append(queue, m)
    /\ pushed' = Append(pushed, m)
    /\ UNCHANGED <<ttl, expired, drainVars>>

\* LTRIM key -n -1: the newest n elements.
Latest(s, n) == IF Len(s) <= n THEN s ELSE SubSeq(s, Len(s) - n + 1, Len(s))

\* Mutant: -(n+1) as the start index.
LTrim_OneTooMany(m) ==
    /\ Step(m, "trim", "expire")
    /\ queue' = Latest(queue, Max + 1)
    /\ UNCHANGED <<ttl, pushed, expired, drainVars>>

LTrim(m) ==
    /\ Step(m, "trim", "expire")
    /\ queue' = Latest(queue, Max)
    /\ UNCHANGED <<ttl, pushed, expired, drainVars>>

\* Mutants: EXPIRE on a key that is gone; the TTL is set only by the message that opens the queue.
Expire_Always(m) ==
    /\ Step(m, "expire", "done")
    /\ ttl' = "set"
    /\ UNCHANGED <<queue, pushed, expired, drainVars>>

Expire_FirstOnly(m) ==
    /\ Step(m, "expire", "done")
    /\ ttl' = IF queue # <<>> /\ Head(queue) = m THEN "set" ELSE ttl
    /\ UNCHANGED <<queue, pushed, expired, drainVars>>

Expire(m) ==
    /\ Step(m, "expire", "done")
    /\ ttl' = IF queue = <<>> THEN "none" ELSE "set"
    /\ UNCHANGED <<queue, pushed, expired, drainVars>>

CommandFails(m) ==
    /\ \/ Step(m, "new", "push_failed")
       \/ Step(m, "trim", "trim_failed")
       \/ Step(m, "expire", "expire_failed")
    /\ UNCHANGED <<queue, ttl, pushed, expired, drainVars>>

-----------------------------------------------------------------------------
(* drain_messages.                                                         *)

LRange(d) ==
    /\ dpc[d] = "idle"
    /\ batch' = [batch EXCEPT ![d] = queue]
    /\ dpc' = [dpc EXCEPT ![d] = "del"]
    /\ UNCHANGED <<queue, ttl, ppc, pushed, handed, expired>>

\* Mutant: the DEL is forgotten.
Del_Forgotten(d) ==
    /\ dpc[d] = "del"
    /\ handed' = handed \o batch[d]
    /\ batch' = [batch EXCEPT ![d] = <<>>]
    /\ dpc' = [dpc EXCEPT ![d] = "idle"]
    /\ UNCHANGED <<queue, ttl, ppc, pushed, expired>>

Del(d) ==
    /\ dpc[d] = "del"
    /\ queue' = <<>>
    /\ ttl' = "none"
    /\ handed' = handed \o batch[d]
    /\ batch' = [batch EXCEPT ![d] = <<>>]
    /\ dpc' = [dpc EXCEPT ![d] = "idle"]
    /\ UNCHANGED <<ppc, pushed, expired>>

\* Mutant: the error of DEL is ignored and the messages are returned.
DelFails_ReturnsAnyway(d) ==
    /\ dpc[d] = "del"
    /\ handed' = handed \o batch[d]
    /\ batch' = [batch EXCEPT ![d] = <<>>]
    /\ dpc' = [dpc EXCEPT ![d] = "idle"]
    /\ UNCHANGED <<queue, ttl, ppc, pushed, expired>>

DelFails(d) ==
    /\ dpc[d] = "del"
    /\ batch' = [batch EXCEPT ![d] = <<>>]
    /\ dpc' = [dpc EXCEPT ![d] = "idle"]
    /\ UNCHANGED <<queue, ttl, ppc, pushed, handed, expired>>

-----------------------------------------------------------------------------
\* Redis drops the key message_ttl (7 days) after the last EXPIRE; no call is
\* in progress that long.
KeyExpires ==
    /\ ttl = "set"
    /\ \A m \in Msg : ppc[m] \notin {"trim", "expire"}
    /\ \A d \in Drainer : dpc[d] = "idle"
    /\ expired' = expired \cup RangeOf(queue)
    /\ queue' = <<>>
    /\ ttl' = "none"
    /\ UNCHANGED <<ppc, pushed, drainVars>>

QueueMessage(m) == RPush(m) \/ LTrim(m) \/ Expire(m) \/ CommandFails(m)
DrainMessages(d) == LRange(d) \/ Del(d) \/ DelFails(d)

Next ==
    \/ \E m \in Msg : QueueMessage(m)
    \/ \E d \in Drainer : DrainMessages(d)
    \/ KeyExpires

Spec == Init /\ [][Next]_vars

-----------------------------------------------------------------------------
(* Properties.                                                             *)

Untrimmed == {m \in Msg : ppc[m] \in {"trim", "trim_failed"}}

\* The list holds at most Max messages more than the calls that have pushed
\* and not (or not successfully) trimmed: concurrent producers do not let it
\* grow without bound.
Bounded == Len(queue) <= Max + Cardinality(Untrimmed)

\* The list is always the newest part of what was pushed, in order, within its
\* bound: trimming, draining and expiry take messages from its old end only.
QueueIsNewest == Bounded /\ queue = Latest(pushed, Len(queue))

\* A message leaves the list unread, other than by a drain or the expiry of
\* the key, only when Max newer ones are in it.
TrimmedOnlyWhenFull ==
    [][ queue' # <<>> /\ ~(RangeOf(queue) \subseteq RangeOf(queue')) => Len(queue') >= Max ]_vars

\* A list without expiry holds only messages whose queue_message is still
\* running or has failed: an abandoned queue does not stay in Redis for ever
\* unless a command failed.
UnexpiringIsUnfinished ==
    ttl = "none" => \A m \in RangeOf(queue) : ppc[m] # "done"

\* Once a drain has returned a message, no drain that starts later reads it.
ReadsUnhanded ==
    \A d \in Drainer :
        dpc[d] = "idle" /\ dpc'[d] = "del" => RangeOf(batch'[d]) \cap RangeOf(handed) = {}
NeverReadAgain == [][ReadsUnhanded]_vars

\* With one drain at a time the queue is a lossy first-in first-out mailbox.
\* During a drain the messages it has read are still waiting: they are lost or
\* handed out when it ends.  What the list holds besides them is its newest part.
Reading == {d \in Drainer : dpc[d] = "del"}
OneReads == \A d, e \in Reading : d = e
read == IF Reading = {} THEN <<>> ELSE batch[CHOOSE d \in Reading : TRUE]
Fresh(s, seen) == Latest(s, Cardinality({i \in DOMAIN s : s[i] \notin RangeOf(seen)}))
unread == Fresh(queue, read)
Box == INSTANCE Mailbox WITH pending <- read \o unread, handed <- handed
IsMailbox == Box!Spec

(* What the documentation promises and the interleaving of commands breaks.*)

\* "Get and remove all pending messages for a user" (drain_messages): nothing
\* that was queued disappears without having been handed out.
NothingLost ==
    Len(pushed) <= Max =>
        RangeOf(pushed) \subseteq RangeOf(queue) \cup RangeOf(handed) \cup expired
                                    \cup UNION {RangeOf(batch[d]) : d \in Drainer}

\* "Get and remove": a message that one drain has returned is not returned by
\* another.
HandedOutOnce == \A i, j \in DOMAIN handed : handed[i] = handed[j] => i = j
=============================================================================
