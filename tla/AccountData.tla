---------------------------- MODULE AccountData ----------------------------
(***************************************************************************)
(* Export and erasure of one user's data, among the user's own writes and  *)
(* those of others.  The erasure is one transaction of several statements, *)
(* each of which sees what is committed when it runs; the audit log is     *)
(* written outside of it.                                                  *)
(***************************************************************************)
EXTENDS Naturals, FiniteSets, Sequences

CONSTANTS
    Things,         \* rows that may be written: [thing -> kind and conversation]
    Demands,        \* [requests -> "export" or "erase"]
    MaxHitches,     \* bound: statements that fail and servers that die
    FirstThings     \* rows there at the start

VARIABLES
    data,       \* rows there, as others see them
    written,    \* rows ever there
    recalled,   \* messages with deleted_at set by their sender
    left,       \* memberships with left_at set by their owner
    drafting,   \* messages and uploads whose membership check has passed
    demand,     \* [requests -> pc, what it has read, what it is about to erase]
    auditLog,   \* [requests -> status of the row of gdpr_audit_logs]
    gone,       \* history: rows erased by a committed transaction
    hitches

accountVars == <<data, written, recalled, left, drafting, demand, auditLog, gone, hitches>>

Kinds == <<"message", "reaction", "receipt", "attachment", "membership", "lookup", "mention">>
OfKind(k) == {t \in DOMAIN Things : Things[t].kind = k}
Requests == DOMAIN Demands
NoDemand == [pc |-> "idle", step |-> 1, found |-> {}, count |-> 0, todo |-> {}, present |-> {}, undisturbed |-> TRUE, cut |-> FALSE]

TypeOK ==
    /\ data \subseteq written /\ gone \subseteq written /\ written \subseteq DOMAIN Things
    /\ recalled \subseteq OfKind("message") /\ left \subseteq OfKind("membership")
    /\ drafting \subseteq DOMAIN Things
    /\ auditLog \in [Requests -> {"none", "processing", "completed", "failed"}]
    /\ hitches \in 0..MaxHitches

Init ==
    /\ data = FirstThings /\ written = FirstThings
    /\ recalled = {} /\ left = {} /\ drafting = {} /\ gone = {}
    /\ demand = [r \in Requests |-> NoDemand]
    /\ auditLog = [r \in Requests |-> "none"]
    /\ hitches = 0

MemberOf(conversation) == \E t \in OfKind("membership") \cap data : Things[t].conversation = conversation
Hitch == hitches < MaxHitches /\ hitches' = hitches + 1
Going(r) == demand[r].pc \notin {"idle", "over"}

\* Rows a transaction has changed are locked until it ends.
Locked == UNION {demand[r].found : r \in {q \in Requests : Demands[q] = "erase" /\ demand[q].pc \in {"erase", "commit"}}}
Disturbed == [r \in Requests |-> [demand[r] EXCEPT !.undisturbed = FALSE]]

--------------------------------------------------------------------------
(* The other calls *)

\* Sending and uploading look at the membership first and insert later.
Draft(t) ==
    /\ t \in (OfKind("message") \cup OfKind("attachment")) \ (written \cup drafting)
    /\ MemberOf(Things[t].conversation)
    /\ drafting' = drafting \cup {t}
    /\ UNCHANGED <<data, written, recalled, left, demand, auditLog, gone, hitches>>

\* Reactions and receipts need no membership; mentions, lookups and memberships
\* come from other users.
Write(t) ==
    /\ t \notin written
    /\ t \in drafting \/ Things[t].kind \notin {"message", "attachment"}
    /\ data' = data \cup {t} /\ written' = written \cup {t} /\ drafting' = drafting \ {t}
    /\ demand' = Disturbed
    /\ UNCHANGED <<recalled, left, auditLog, gone, hitches>>

Recall(t) ==
    /\ t \in OfKind("message") \cap data /\ t \notin recalled \cup Locked
    /\ recalled' = recalled \cup {t}
    /\ demand' = Disturbed
    /\ UNCHANGED <<data, written, left, drafting, auditLog, gone, hitches>>

Leave(t) ==
    /\ t \in OfKind("membership") \cap data /\ t \notin Locked
    /\ data' = data \ {t} /\ left' = left \cup {t}
    /\ demand' = Disturbed
    /\ UNCHANGED <<written, recalled, drafting, auditLog, gone, hitches>>

otherCalls == <<written, recalled, left, drafting>>

--------------------------------------------------------------------------
(* Both requests: the check for another one, and the log *)

\* Counted and inserted apart.  A row that was never closed refuses the kind for ever.
HasPendingRequest(r) ==
    /\ demand[r].pc = "idle"
    /\ demand' = [demand EXCEPT ![r].pc =
          IF \E q \in Requests : Demands[q] = Demands[r] /\ auditLog[q] = "processing" THEN "over" ELSE "log"]
    /\ UNCHANGED <<otherCalls, data, auditLog, gone, hitches>>

LogStart(r) ==
    /\ demand[r].pc = "log"
    /\ auditLog' = [auditLog EXCEPT ![r] = "processing"]
    /\ demand' = [demand EXCEPT ![r].pc = IF Demands[r] = "erase" THEN "erase" ELSE "profile",
                                ![r].present = data \ recalled, ![r].undisturbed = TRUE]
    /\ UNCHANGED <<otherCalls, data, gone, hitches>>

LogCompleted(r) ==
    /\ demand[r].pc = "completed"
    /\ auditLog' = [auditLog EXCEPT ![r] = "completed"]
    /\ demand' = [demand EXCEPT ![r].pc = "over"]
    /\ UNCHANGED <<otherCalls, data, gone, hitches>>

\* Mutant: the error is returned before the log is written.
LogFailed_Returns(r) ==
    /\ demand[r].pc = "failed"
    /\ demand' = [demand EXCEPT ![r].pc = "over"]
    /\ UNCHANGED <<otherCalls, data, auditLog, gone, hitches>>
LogFailed(r) ==
    /\ demand[r].pc = "failed"
    /\ auditLog' = [auditLog EXCEPT ![r] = "failed"]
    /\ demand' = [demand EXCEPT ![r].pc = "over"]
    /\ UNCHANGED <<otherCalls, data, gone, hitches>>

\* A statement fails: of the transaction or the export, which goes on to the log,
\* or of the log, which ends the request.  The server may also die: a transaction
\* that was not committed is rolled back.
Fails(r) ==
    /\ Going(r) /\ Hitch
    /\ LET pc == demand[r].pc IN
       demand' = [demand EXCEPT ![r].pc = IF pc \in {"log", "completed", "failed"} THEN "over" ELSE "failed",
                                ![r].found = {}, ![r].cut = @ \/ pc \in {"completed", "failed"}]
    /\ UNCHANGED <<otherCalls, data, auditLog, gone>>

ServerDies(r) ==
    /\ Going(r) /\ Hitch
    /\ demand' = [demand EXCEPT ![r] = [@ EXCEPT !.pc = "over", !.found = {}, !.cut = TRUE]]
    /\ UNCHANGED <<otherCalls, data, auditLog, gone>>

--------------------------------------------------------------------------
(* perform_deletion *)

\* One statement per kind; recalled messages are not looked at.  A statement waits
\* for the rows that another transaction has changed.
\* Mutant: the reactions are deleted outside of the transaction.
EraseKind_Outside(r) ==
    LET kind == Kinds[demand[r].step]
        rows == (data \cap OfKind(kind)) \ recalled
    IN
    /\ Demands[r] = "erase" /\ demand[r].pc = "erase"
    /\ rows \cap UNION {demand[q].found : q \in Requests \ {r}} = {}
    /\ data' = IF kind = "reaction" THEN data \ rows ELSE data
    /\ demand' = [demand EXCEPT ![r].found = @ \cup rows, ![r].step = @ + 1,
                                ![r].pc = IF demand[r].step = Len(Kinds) THEN "commit" ELSE "erase"]
    /\ UNCHANGED <<otherCalls, auditLog, gone, hitches>>
EraseKind(r) ==
    LET kind == Kinds[demand[r].step]
        rows == (data \cap OfKind(kind)) \ recalled
    IN
    /\ Demands[r] = "erase" /\ demand[r].pc = "erase"
    /\ rows \cap UNION {demand[q].found : q \in Requests \ {r}} = {}
    /\ demand' = [demand EXCEPT ![r].found = @ \cup rows, ![r].step = @ + 1,
                                ![r].pc = IF demand[r].step = Len(Kinds) THEN "commit" ELSE "erase"]
    /\ UNCHANGED <<otherCalls, data, auditLog, gone, hitches>>

\* The files of the attachments stay.
Commit(r) ==
    /\ demand[r].pc = "commit"
    /\ data' = data \ demand[r].found /\ gone' = gone \cup demand[r].found
    /\ demand' = [q \in Requests |-> IF q = r THEN [demand[r] EXCEPT !.pc = "completed", !.found = {}]
                                     ELSE [demand[q] EXCEPT !.undisturbed = FALSE]]
    /\ UNCHANGED <<otherCalls, auditLog, hitches>>

--------------------------------------------------------------------------
(* perform_export *)

Sent == (data \cap OfKind("message")) \ recalled
Conversations == {Things[t].conversation : t \in OfKind("membership")}

GetProfile(r) ==
    /\ demand[r].pc = "profile"
    /\ demand' = [demand EXCEPT ![r].pc = "conversations", ![r].count = Cardinality(Sent)]
    /\ UNCHANGED <<otherCalls, data, auditLog, gone, hitches>>

\* Also those the user has left.
\* Mutant: only those the user is in.
GetConversations_Current(r) ==
    /\ demand[r].pc = "conversations"
    /\ demand' = [demand EXCEPT ![r].pc = "messages", ![r].todo = {c \in Conversations : MemberOf(c)}]
    /\ UNCHANGED <<otherCalls, data, auditLog, gone, hitches>>
GetConversations(r) ==
    /\ demand[r].pc = "conversations"
    /\ demand' = [demand EXCEPT ![r].pc = "messages",
                                ![r].todo = {Things[t].conversation : t \in OfKind("membership") \cap written}]
    /\ UNCHANGED <<otherCalls, data, auditLog, gone, hitches>>

GetMessages(r) ==
    /\ demand[r].pc = "messages"
    /\ IF demand[r].todo = {} THEN demand' = [demand EXCEPT ![r].pc = "attachments"]
       ELSE \E c \in demand[r].todo :
               demand' = [demand EXCEPT ![r].found = @ \cup {t \in Sent : Things[t].conversation = c}, ![r].todo = @ \ {c}]
    /\ UNCHANGED <<otherCalls, data, auditLog, gone, hitches>>

GetAttachments(r) ==
    /\ demand[r].pc = "attachments"
    /\ demand' = [demand EXCEPT ![r].pc = "completed", ![r].found = @ \cup (data \cap OfKind("attachment"))]
    /\ UNCHANGED <<otherCalls, data, auditLog, gone, hitches>>

--------------------------------------------------------------------------
Use(t) == Draft(t) \/ Write(t) \/ Recall(t) \/ Leave(t)
Logged(r) ==
    HasPendingRequest(r) \/ LogStart(r) \/ LogCompleted(r) \/ LogFailed(r) \/ Fails(r) \/ ServerDies(r)
RequestDeletion(r) == Demands[r] = "erase" /\ (Logged(r) \/ EraseKind(r) \/ Commit(r))
RequestExport(r) ==
    /\ Demands[r] = "export"
    /\ Logged(r) \/ GetProfile(r) \/ GetConversations(r) \/ GetMessages(r) \/ GetAttachments(r)
Serve(r) == RequestDeletion(r) \/ RequestExport(r)

Next == (\E t \in DOMAIN Things : Use(t)) \/ (\E r \in Requests : Serve(r))

Spec == Init /\ [][Next]_accountVars

--------------------------------------------------------------------------
\* deletion.rs: nothing is lost but by the user's leaving or a committed erasure,
\* so one that failed half-way has taken nothing; and once one is logged as
\* completed, all that was there when it began is gone, except a message the user
\* recalled and a membership the user left meanwhile, whose rows are not touched.
ErasedOrKept ==
    /\ written \ data \subseteq gone \cup left
    /\ \A r \in Requests : Demands[r] = "erase" /\ auditLog[r] = "completed" =>
          demand[r].present \cap data \subseteq recalled

\* export.rs: an export during which nothing changed has every message its own
\* profile counts, those of conversations left long ago included.
ExportIsComplete ==
    \A r \in Requests :
        Demands[r] = "export" /\ demand[r].pc \in {"attachments", "completed"} /\ demand[r].undisturbed =>
            Cardinality(demand[r].found \cap OfKind("message")) = demand[r].count

\* audit.rs: the log of a request that is over is closed, unless the server died or
\* the closing statement failed, after which the user's requests are refused.
LogIsClosed ==
    \A r \in Requests : auditLog[r] = "processing" => Going(r) \/ demand[r].cut

\* gdpr/: nothing is lost, kept or left open that should not be.
RequestsAreHonoured == ErasedOrKept /\ ExportIsComplete /\ LogIsClosed

\* Refuted: what was sent or uploaded before the membership ended is inserted after the erasure.
NothingAfterErasure ==
    [][(\E r \in Requests : Demands[r] = "erase" /\ auditLog[r] = "completed")
          => (data' \ data) \cap (OfKind("message") \cup OfKind("attachment")) = {}]_accountVars
\* Refuted: two requests count before either inserts.
OneErasureAtATime == Cardinality({r \in Requests : Demands[r] = "erase" /\ demand[r].pc = "erase"}) <= 1
=============================================================================
