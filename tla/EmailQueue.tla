----------------------------- MODULE EmailQueue -----------------------------
(***************************************************************************)
(* Notification emails to one user about one conversation: notices are     *)
(* batched into rows of email_queue, and the processors of the servers     *)
(* claim, send and mark the rows.  Every SQL statement and every call of   *)
(* the mail backend is a step; nothing is a transaction.                   *)
(***************************************************************************)
EXTENDS Integers, FiniteSets, FiniteSetsExt

CONSTANTS
    Notices,        \* queue_notification calls, each for one message
    Servers,        \* those running the email processor
    Edits,          \* update_preferences calls
    MaxRows,        \* bound: rows ever inserted
    MaxBatch,       \* max_batch_size
    MaxPerHour,     \* max_emails_per_hour
    MaxRetries,     \* of requeue_failed
    MaxHour,        \* bound: hours that pass
    HoursPerDay, QuietFrom, QuietTo,
    Woes            \* what may go wrong: "sql", "backend", "crash"

VARIABLES
    emails,     \* [1..MaxRows -> a row: status, messages, retries]
    fresh,      \* rows created within the batch window
    due,        \* rows whose send_after has passed
    notice,     \* [Notices -> pc, the row to join, its messages as read]
    processor,  \* [Servers -> pc, rows still to send, the one at hand]
    hour,       \* of the clock
    counted,    \* [0..MaxHour -> email_count of email_rate_limits]
    prefs,      \* row of email_preferences: email_enabled, email_address is set
    edit,       \* [Edits -> pc, the fields it sets, the row as read]
    delivered,  \* history: <<row, messages, hour>> of the emails the backend sent, in order of number
    collided,   \* history: two notices wrote the same row, or one wrote a row already claimed
    botched     \* history: a statement after a delivery failed, or the server died there

emailVars == <<emails, fresh, due, notice, processor, hour, counted, prefs, edit, delivered, collided, botched>>

RowIds == 1..MaxRows
NoEmail == [status |-> "free", messages |-> {}, retries |-> 0]
Statuses == {"free", "pending", "processing", "sent", "failed", "cancelled"}
Used == {r \in RowIds : emails[r].status # "free"}

TypeOK ==
    /\ \A r \in RowIds : emails[r].status \in Statuses /\ emails[r].messages \subseteq Notices
    /\ fresh \cup due \subseteq RowIds
    /\ hour \in 0..MaxHour /\ counted \in [0..MaxHour -> Nat]
    /\ prefs \in [enabled : BOOLEAN, address : BOOLEAN]
    /\ {collided, botched} \subseteq BOOLEAN

Init ==
    /\ emails = [r \in RowIds |-> NoEmail] /\ fresh = {} /\ due = {}
    /\ notice = [n \in Notices |-> [pc |-> "idle", row |-> 0, messages |-> {}]]
    /\ processor = [s \in Servers |-> [pc |-> "idle", todo |-> {}, row |-> 0]]
    /\ hour = 0 /\ counted = [h \in 0..MaxHour |-> 0]
    /\ prefs = [enabled |-> TRUE, address |-> TRUE]
    /\ edit = [e \in Edits |-> [pc |-> "idle"]]
    /\ delivered = {} /\ collided = FALSE /\ botched = FALSE

otherThanRows == <<processor, hour, counted, prefs, edit, delivered, botched>>

--------------------------------------------------------------------------
(* queue_notification *)

IsQuietHours(h) ==
    IF QuietFrom <= QuietTo THEN h >= QuietFrom /\ h < QuietTo
                            ELSE h >= QuietFrom \/ h < QuietTo

\* Preferences and quiet hours are looked at now, not when the email is sent.
BeginNotice(n) ==
    /\ notice[n].pc = "idle"
    /\ notice' = [notice EXCEPT ![n].pc =
          IF prefs.enabled /\ prefs.address /\ ~IsQuietHours(hour % HoursPerDay) THEN "find" ELSE "refused"]
    /\ UNCHANGED <<emails, fresh, due, collided, otherThanRows>>

\* The latest pending row of the window, if it has room.
\* Mutant: room for one more.
FindBatch_OneMore(n) ==
    LET open == {r \in fresh : emails[r].status = "pending"} IN
    /\ notice[n].pc = "find"
    /\ IF open # {} /\ Cardinality(emails[Max(open)].messages) <= MaxBatch
       THEN notice' = [notice EXCEPT ![n] = [pc |-> "join", row |-> Max(open), messages |-> emails[Max(open)].messages]]
       ELSE notice' = [notice EXCEPT ![n].pc = "insert"]
    /\ UNCHANGED <<emails, fresh, due, collided, otherThanRows>>
FindBatch(n) ==
    LET open == {r \in fresh : emails[r].status = "pending"} IN
    /\ notice[n].pc = "find"
    /\ IF open # {} /\ Cardinality(emails[Max(open)].messages) < MaxBatch
       THEN notice' = [notice EXCEPT ![n] = [pc |-> "join", row |-> Max(open), messages |-> emails[Max(open)].messages]]
       ELSE notice' = [notice EXCEPT ![n].pc = "insert"]
    /\ UNCHANGED <<emails, fresh, due, collided, otherThanRows>>

Claimed(r) == emails[r].status # "pending" \/ \E s \in Servers : \E x \in processor[s].todo : x.row = r

\* The row is written as it was read plus one message, whatever it is by now.
JoinBatch(n) ==
    LET r == notice[n].row IN
    /\ notice[n].pc = "join"
    /\ emails' = [emails EXCEPT ![r].messages = notice[n].messages \cup {n}]
    /\ due' = due \ {r}
    /\ collided' = (collided \/ Claimed(r) \/ emails[r].messages # notice[n].messages)
    /\ notice' = [notice EXCEPT ![n].pc = "queued"]
    /\ UNCHANGED <<fresh, otherThanRows>>

InsertRow(n) ==
    LET r == Cardinality(Used) + 1 IN
    /\ notice[n].pc = "insert" /\ r \in RowIds
    /\ emails' = [emails EXCEPT ![r] = [status |-> "pending", messages |-> {n}, retries |-> 0]]
    /\ fresh' = fresh \cup {r}
    /\ notice' = [notice EXCEPT ![n].pc = "queued"]
    /\ UNCHANGED <<due, collided, otherThanRows>>

NoticeFails(n) ==
    /\ "sql" \in Woes /\ notice[n].pc \in {"find", "join", "insert"}
    /\ notice' = [notice EXCEPT ![n].pc = "refused"]
    /\ UNCHANGED <<emails, fresh, due, collided, otherThanRows>>

--------------------------------------------------------------------------
(* The other statements on the queue, and time *)

\* cancel_pending
CancelPending ==
    /\ \E r \in RowIds : emails[r].status = "pending"
    /\ emails' = [r \in RowIds |-> IF emails[r].status = "pending" THEN [emails[r] EXCEPT !.status = "cancelled"]
                                   ELSE emails[r]]
    /\ UNCHANGED <<fresh, due, notice, collided, otherThanRows>>

\* requeue_failed
RequeueFailed ==
    LET again == {r \in RowIds : emails[r].status = "failed" /\ emails[r].retries < MaxRetries} IN
    /\ again # {}
    /\ emails' = [r \in RowIds |-> IF r \in again THEN [emails[r] EXCEPT !.status = "pending"] ELSE emails[r]]
    /\ due' = due \ again
    /\ UNCHANGED <<fresh, notice, collided, otherThanRows>>

BecomesDue(r) ==
    /\ emails[r].status = "pending" /\ r \notin due
    /\ due' = due \cup {r}
    /\ UNCHANGED <<emails, fresh, notice, collided, otherThanRows>>

WindowEnds(r) ==
    /\ r \in fresh
    /\ fresh' = fresh \ {r}
    /\ UNCHANGED <<emails, due, notice, collided, otherThanRows>>

HourPasses ==
    /\ hour < MaxHour
    /\ hour' = hour + 1
    /\ UNCHANGED <<emails, fresh, due, notice, processor, counted, prefs, edit, delivered, collided, botched>>

--------------------------------------------------------------------------
(* process_pending *)

queueVars == <<fresh, due, notice, hour, prefs, edit, collided>>
Go(s, pc) == processor' = [processor EXCEPT ![s].pc = pc]

\* FOR UPDATE SKIP LOCKED holds its locks for this statement only.
GetReadyEmails(s) ==
    LET ready == {r \in due : emails[r].status = "pending"} IN
    /\ processor[s].pc = "idle" /\ ready # {}
    /\ processor' = [processor EXCEPT ![s] =
          [pc |-> "next", todo |-> {[row |-> r, messages |-> emails[r].messages] : r \in ready}, row |-> 0]]
    /\ UNCHANGED <<queueVars, emails, counted, delivered, botched>>

AtHand(s) == CHOOSE x \in processor[s].todo : x.row = processor[s].row
Drop(s) == processor[s].todo \ {AtHand(s)}

\* Not only a pending row.  A row that cannot be marked is skipped.
MarkProcessing(s) ==
    /\ processor[s].pc = "next"
    /\ IF processor[s].todo = {}
       THEN Go(s, "idle") /\ UNCHANGED emails
       ELSE \E x \in processor[s].todo :
               \/ /\ emails' = [emails EXCEPT ![x.row].status = "processing"]
                  /\ processor' = [processor EXCEPT ![s].pc = "limit", ![s].row = x.row]
               \/ /\ "sql" \in Woes
                  /\ processor' = [processor EXCEPT ![s].todo = @ \ {x}]
                  /\ UNCHANGED emails
    /\ UNCHANGED <<queueVars, counted, delivered, botched>>

\* Mutant: one more.
CheckRateLimit_Inclusive(s) ==
    /\ processor[s].pc = "limit"
    /\ Go(s, IF counted[hour] <= MaxPerHour /\ prefs.address THEN "send" ELSE "failed")
    /\ UNCHANGED <<queueVars, emails, counted, delivered, botched>>
CheckRateLimit(s) ==
    /\ processor[s].pc = "limit"
    /\ Go(s, IF counted[hour] < MaxPerHour /\ prefs.address THEN "send" ELSE "failed")
    /\ UNCHANGED <<queueVars, emails, counted, delivered, botched>>

\* The email has what was read when the rows were fetched.  The backend may
\* fail, with or without having sent it.
SendEmail(s) ==
    LET sent == delivered \cup {[row |-> processor[s].row, messages |-> AtHand(s).messages, at |-> hour,
                                 number |-> Cardinality(delivered)]} IN
    /\ processor[s].pc = "send"
    /\ \/ delivered' = sent /\ Go(s, "sent") /\ UNCHANGED botched
       \/ "backend" \in Woes /\ delivered' = delivered /\ Go(s, "failed") /\ UNCHANGED botched
       \/ "backend" \in Woes /\ delivered' = sent /\ Go(s, "failed") /\ botched' = TRUE
    /\ UNCHANGED <<queueVars, emails, counted>>

\* Mutant: the row is pending again.
MarkSent_Pending(s) ==
    /\ processor[s].pc = "sent"
    /\ emails' = [emails EXCEPT ![processor[s].row].status = "pending"]
    /\ Go(s, "count")
    /\ UNCHANGED <<queueVars, counted, delivered, botched>>
MarkSent(s) ==
    /\ processor[s].pc = "sent"
    /\ emails' = [emails EXCEPT ![processor[s].row].status = "sent"]
    /\ Go(s, "count")
    /\ UNCHANGED <<queueVars, counted, delivered, botched>>

IncrementRateLimit(s) ==
    /\ processor[s].pc = "count"
    /\ counted' = [counted EXCEPT ![hour] = @ + 1]
    /\ processor' = [processor EXCEPT ![s].pc = "next", ![s].todo = Drop(s)]
    /\ UNCHANGED <<queueVars, emails, delivered, botched>>

MarkFailed(s) ==
    /\ processor[s].pc = "failed"
    /\ emails' = [emails EXCEPT ![processor[s].row].status = "failed", ![processor[s].row].retries = @ + 1]
    /\ processor' = [processor EXCEPT ![s].pc = "next", ![s].todo = Drop(s)]
    /\ UNCHANGED <<queueVars, counted, delivered, botched>>

\* A failed statement ends the round, and the server may die: either way the
\* row at hand stays as it is, for ever if it is being processed.
RoundEnds(s) ==
    /\ \/ "sql" \in Woes /\ processor[s].pc \in {"sent", "count", "failed"}
       \/ "crash" \in Woes /\ processor[s].pc # "idle"
    /\ botched' = (botched \/ processor[s].pc \in {"sent", "count"})
    /\ processor' = [processor EXCEPT ![s] = [pc |-> "idle", todo |-> {}, row |-> 0]]
    /\ UNCHANGED <<queueVars, emails, counted, delivered>>

Process(s) ==
    \/ GetReadyEmails(s) \/ MarkProcessing(s) \/ CheckRateLimit(s) \/ SendEmail(s)
    \/ MarkSent(s) \/ IncrementRateLimit(s) \/ MarkFailed(s) \/ RoundEnds(s)

--------------------------------------------------------------------------
(* update_preferences: the row is read, then all of it is written; an      *)
(* address can be replaced but not taken away.                             *)

ReadPreferences(e, field) ==
    /\ edit[e].pc = "idle"
    /\ edit' = [edit EXCEPT ![e] = [pc |-> "write", row |-> IF field = "address" THEN [prefs EXCEPT !.address = TRUE]
                                                            ELSE [prefs EXCEPT !.enabled = (field = "on")]]]
    /\ UNCHANGED <<emails, fresh, due, notice, processor, hour, counted, prefs, delivered, collided, botched>>

WritePreferences(e) ==
    /\ edit[e].pc = "write"
    /\ prefs' = edit[e].row
    /\ edit' = [edit EXCEPT ![e] = [pc |-> "done"]]
    /\ UNCHANGED <<emails, fresh, due, notice, processor, hour, counted, delivered, collided, botched>>

UpdatePreferences(e) == (\E f \in {"address", "on", "off"} : ReadPreferences(e, f)) \/ WritePreferences(e)

--------------------------------------------------------------------------
Notify(n) == BeginNotice(n) \/ FindBatch(n) \/ JoinBatch(n) \/ InsertRow(n) \/ NoticeFails(n)
Next ==
    \/ \E n \in Notices : Notify(n)
    \/ CancelPending \/ RequeueFailed \/ HourPasses
    \/ \E r \in RowIds : BecomesDue(r) \/ WindowEnds(r)
    \/ \E s \in Servers : Process(s)
    \/ \E e \in Edits : UpdatePreferences(e)

Spec == Init /\ [][Next]_emailVars

--------------------------------------------------------------------------
\* queue.rs: a notice that was accepted is in a row, no row has more than
\* max_batch_size messages, and an email that was sent had all messages of its
\* row, as long as no two notices and no notice and a processor met at one row.
NoticesAreKept ==
    /\ \A r \in RowIds : Cardinality(emails[r].messages) <= MaxBatch
    /\ ~collided =>
          /\ \A n \in Notices : notice[n].pc = "queued" => \E r \in RowIds : n \in emails[r].messages
          /\ \A r \in RowIds : emails[r].status = "sent" =>
                \E d \in delivered : d.row = r /\ d.messages = emails[r].messages

\* service.rs: with one server, as long as no statement fails and no server dies
\* between the delivery and its marks, a row is sent at most once and the user
\* gets at most max_emails_per_hour.
SentOnceWithinLimit ==
    Cardinality(Servers) = 1 /\ ~botched =>
        /\ \A d, e \in delivered : d.row = e.row => d = e
        /\ \A h \in 0..hour : Cardinality({d \in delivered : d.at = h}) <= MaxPerHour

\* email/: what is queued arrives once and within the limits.
EmailsAreSound == NoticesAreKept /\ SentOnceWithinLimit

\* Refuted with two servers: both fetch a row before either has marked it.
SentOnce == ~botched => \A d, e \in delivered : d.row = e.row => d = e
\* Refuted: a cancelled row that was fetched before is sent all the same.
CancelledStays == [][\A r \in RowIds : emails[r].status = "cancelled" => emails'[r].status = "cancelled"]_emailVars
\* Refuted: who has opted out still gets what was queued before.
OptedOutGetsNone == [][delivered' # delivered => prefs.enabled]_emailVars
=============================================================================
