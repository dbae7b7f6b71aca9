---------------------------- MODULE Attachments ----------------------------
(***************************************************************************)
(* Files uploaded to one conversation: the upload, the deletion by the     *)
(* uploader, and the erasure of an account's rows.  The files are on a     *)
(* disk, the rows in PostgreSQL, and each call of either is a step.        *)
(***************************************************************************)
EXTENDS FiniteSets, Naturals

CONSTANTS
    Uploads,        \* upload requests, also the identities of the rows
    Deletes,        \* delete requests
    Uploaders,      \* users; each of them a participant at first
    Bytes,          \* contents, told apart by their hash
    Acceptable,     \* contents whose size and type the settings accept
    Images,         \* contents with a thumbnail
    Storable,       \* contents whose size satisfies the table's constraint
    Breakdowns      \* what may fail: "disk", "thumbnail", "sql", "death"

VARIABLES
    attachments,    \* rows: [upload -> uploader, hash, whether it has a thumbnail]
    files,          \* <<upload, "main" or "thumb">> on the disk
    upload,         \* [Uploads -> pc, user, content, thumbnail written, row answered]
    removal,        \* [Deletes -> pc, user, the row as read]
    participants,
    orphaned,       \* history: files left behind by a failure, a death or an erasure
    doomed          \* history: rows whose main file a deletion has set out to remove

attachmentVars == <<attachments, files, upload, removal, participants, orphaned, doomed>>

Rows == DOMAIN attachments
FilesOf(u, thumb) == {<<u, "main">>} \cup (IF thumb THEN {<<u, "thumb">>} ELSE {})
NoUpload == [pc |-> "idle"]

TypeOK ==
    /\ Rows \subseteq Uploads /\ \A r \in Rows : attachments[r].uploader \in Uploaders /\ attachments[r].hash \in Bytes
    /\ files \cup orphaned \subseteq Uploads \X {"main", "thumb"}
    /\ participants \subseteq Uploaders /\ doomed \subseteq Uploads

Init ==
    /\ attachments = [r \in {} |-> NoUpload] /\ files = {}
    /\ upload = [u \in Uploads |-> NoUpload]
    /\ removal = [d \in Deletes |-> NoUpload]
    /\ participants = Uploaders /\ orphaned = {} /\ doomed = {}

--------------------------------------------------------------------------
(* upload *)

UploadGoes(u, pc) == upload' = [upload EXCEPT ![u].pc = pc]

\* Size, type and membership, then the hash.
BeginUpload(u, user, bytes) ==
    /\ upload[u].pc = "idle"
    /\ upload' = [upload EXCEPT ![u] =
          [pc |-> IF bytes \in Acceptable /\ user \in participants THEN "find" ELSE "refused",
           user |-> user, bytes |-> bytes, thumb |-> FALSE, row |-> u]]
    /\ UNCHANGED <<attachments, files, removal, participants, orphaned, doomed>>

\* A row of the conversation with the same hash is the answer, whoever uploaded it.
FindByHash(u) ==
    LET same == {r \in Rows : attachments[r].hash = upload[u].bytes} IN
    /\ upload[u].pc = "find"
    /\ IF same = {} THEN UploadGoes(u, "store")
       ELSE \E r \in same : upload' = [upload EXCEPT ![u].pc = "answered", ![u].row = r]
    /\ UNCHANGED <<attachments, files, removal, participants, orphaned, doomed>>

\* The file may be on the disk although writing it failed.
\* Mutant: a failure goes unnoticed.
StoreFile_Anyway(u) ==
    /\ upload[u].pc = "store"
    /\ \/ UploadGoes(u, "thumbnail") /\ files' = files \cup {<<u, "main">>} /\ UNCHANGED orphaned
       \/ "disk" \in Breakdowns /\ UploadGoes(u, "thumbnail") /\ UNCHANGED <<files, orphaned>>
    /\ UNCHANGED <<attachments, removal, participants, doomed>>
StoreFile(u) ==
    /\ upload[u].pc = "store"
    /\ \/ UploadGoes(u, "thumbnail") /\ files' = files \cup {<<u, "main">>} /\ UNCHANGED orphaned
       \/ "disk" \in Breakdowns /\ UploadGoes(u, "failed") /\ UNCHANGED <<files, orphaned>>
       \/ /\ "disk" \in Breakdowns /\ UploadGoes(u, "failed")
          /\ files' = files \cup {<<u, "main">>} /\ orphaned' = orphaned \cup {<<u, "main">>}
    /\ UNCHANGED <<attachments, removal, participants, doomed>>

\* Without a thumbnail the upload goes on.
StoreThumbnail(u) ==
    /\ upload[u].pc = "thumbnail"
    /\ \/ /\ upload[u].bytes \in Images
          /\ files' = files \cup {<<u, "thumb">>}
          /\ upload' = [upload EXCEPT ![u].pc = "insert", ![u].thumb = TRUE]
       \/ /\ upload[u].bytes \notin Images \/ "thumbnail" \in Breakdowns
          /\ UploadGoes(u, "insert") /\ UNCHANGED files
    /\ UNCHANGED <<attachments, removal, participants, orphaned, doomed>>

\* A row that cannot be inserted, for one because the table's constraint on the
\* size is not that of the settings, leaves the files behind.
InsertAttachment(u) ==
    /\ upload[u].pc = "insert"
    /\ \/ /\ upload[u].bytes \in Storable
          /\ attachments' = [r \in Rows \cup {u} |-> IF r = u THEN [uploader |-> upload[u].user, hash |-> upload[u].bytes,
                                                                    thumb |-> upload[u].thumb]
                                                     ELSE attachments[r]]
          /\ UploadGoes(u, "answered") /\ UNCHANGED orphaned
       \/ /\ upload[u].bytes \notin Storable \/ "sql" \in Breakdowns
          /\ orphaned' = orphaned \cup FilesOf(u, upload[u].thumb)
          /\ UploadGoes(u, "failed") /\ UNCHANGED attachments
    /\ UNCHANGED <<files, removal, participants, doomed>>

UploadDies(u) ==
    /\ "death" \in Breakdowns /\ upload[u].pc \in {"thumbnail", "insert"}
    /\ orphaned' = orphaned \cup FilesOf(u, upload[u].thumb)
    /\ UploadGoes(u, "failed")
    /\ UNCHANGED <<attachments, files, removal, participants, doomed>>

--------------------------------------------------------------------------
(* delete *)

RemovalGoes(d, pc) == removal' = [removal EXCEPT ![d].pc = pc]

\* Only the uploader; the participants are not looked at.
BeginDelete(d, user, row) ==
    /\ removal[d].pc = "idle"
    /\ IF row \in Rows /\ attachments[row].uploader = user
       THEN /\ removal' = [removal EXCEPT ![d] = [pc |-> "file", row |-> row, thumb |-> attachments[row].thumb]]
            /\ doomed' = doomed \cup {row}
       ELSE RemovalGoes(d, "refused") /\ UNCHANGED doomed
    /\ UNCHANGED <<attachments, files, upload, participants, orphaned>>

\* A file that is not there counts as deleted; one that cannot be deleted ends the
\* deletion with the row still there.
DeleteFile(d) ==
    /\ removal[d].pc = "file"
    /\ \/ files' = files \ {<<removal[d].row, "main">>} /\ RemovalGoes(d, "thumbnail")
       \/ /\ "disk" \in Breakdowns /\ <<removal[d].row, "main">> \in files
          /\ RemovalGoes(d, "failed") /\ UNCHANGED files
    /\ UNCHANGED <<attachments, upload, participants, orphaned, doomed>>

\* Mutant: the thumbnail is forgotten.
DeleteThumbnail_Forgets(d) ==
    /\ removal[d].pc = "thumbnail"
    /\ RemovalGoes(d, "row")
    /\ UNCHANGED <<attachments, files, upload, participants, orphaned, doomed>>
DeleteThumbnail(d) ==
    LET thumb == <<removal[d].row, "thumb">> IN
    /\ removal[d].pc = "thumbnail"
    /\ RemovalGoes(d, "row")
    /\ \/ files' = files \ {thumb} /\ UNCHANGED orphaned
       \/ "disk" \in Breakdowns /\ thumb \in files /\ orphaned' = orphaned \cup {thumb} /\ UNCHANGED files
    /\ UNCHANGED <<attachments, upload, participants, doomed>>

DeleteRow(d) ==
    /\ removal[d].pc = "row"
    /\ \/ attachments' = [r \in Rows \ {removal[d].row} |-> attachments[r]] /\ RemovalGoes(d, "done")
       \/ "sql" \in Breakdowns /\ RemovalGoes(d, "failed") /\ UNCHANGED attachments
    /\ UNCHANGED <<files, upload, participants, orphaned, doomed>>

--------------------------------------------------------------------------
(* Leaving, and the erasure of an account, which deletes rows and no files *)

Depart(user) ==
    /\ user \in participants
    /\ participants' = participants \ {user}
    /\ UNCHANGED <<attachments, files, upload, removal, orphaned, doomed>>

DeleteAttachmentRecords(user) ==
    LET theirs == {r \in Rows : attachments[r].uploader = user} IN
    /\ theirs # {}
    /\ attachments' = [r \in Rows \ theirs |-> attachments[r]]
    /\ orphaned' = orphaned \cup UNION {FilesOf(r, attachments[r].thumb) : r \in theirs}
    /\ UNCHANGED <<files, upload, removal, participants, doomed>>

--------------------------------------------------------------------------
Upload(u) ==
    \/ \E user \in Uploaders, bytes \in Bytes : BeginUpload(u, user, bytes)
    \/ FindByHash(u) \/ StoreFile(u) \/ StoreThumbnail(u) \/ InsertAttachment(u) \/ UploadDies(u)
Delete(d) ==
    \/ \E user \in Uploaders, row \in Uploads : BeginDelete(d, user, row)
    \/ DeleteFile(d) \/ DeleteThumbnail(d) \/ DeleteRow(d)

Next ==
    \/ \E u \in Uploads : Upload(u)
    \/ \E d \in Deletes : Delete(d)
    \/ \E user \in Uploaders : Depart(user) \/ DeleteAttachmentRecords(user)

Spec == Init /\ [][Next]_attachmentVars

--------------------------------------------------------------------------
\* service.rs: disk and table agree although nothing spans both: a row has its
\* file, and its thumbnail if it names one, until a deletion of that row began;
\* a file is of a row, of an upload or a deletion on its way, or was left behind
\* by a failure, a death or an erasure of its account.
RowsAndFilesAgree ==
    /\ \A r \in Rows \ doomed : FilesOf(r, attachments[r].thumb) \subseteq files
    /\ \A f \in files \ orphaned :
          \/ f[1] \in Rows /\ f \in FilesOf(f[1], attachments[f[1]].thumb)
          \/ upload[f[1]].pc \in {"thumbnail", "insert"}

\* Refuted: what a user was answered with is another's row, who deletes it.
AnsweredStays ==
    \A u \in Uploads : upload[u].pc = "answered" /\ doomed \cap {u} = {} /\ orphaned = {} => upload[u].row \in Rows
\* Refuted: two uploads of the same content look for its hash before either inserts.
OneRowPerContent == \A r, s \in Rows : attachments[r].hash = attachments[s].hash => r = s
=============================================================================
