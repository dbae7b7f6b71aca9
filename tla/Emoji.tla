------------------------------- MODULE Emoji -------------------------------
(***************************************************************************)
(* Custom emojis and their packs: rows with unique shortcodes and names in *)
(* PostgreSQL, pictures on a disk, and requests that look before they      *)
(* write.  Every statement and every access to the disk is a step.         *)
(***************************************************************************)
EXTENDS FiniteSets, Naturals

CONSTANTS
    Artists,        \* [users -> their tenant]
    EmojiUploads,   \* upload requests, also the identities of the rows
    EmojiDeletes,   \* delete requests
    Packs,          \* requests to create a pack, also the identities of the rows
    PackEdits,      \* requests to update or delete a pack
    Shortcodes, Pictures, PackNames,
    NoPack,
    Accidents       \* what may fail: "disk", "sql"

VARIABLES
    emojis,     \* custom_emojis: [upload -> tenant, creator, shortcode, pack, hash]
    packs,      \* emoji_packs: [pack -> tenant, creator, name]
    pictures,   \* uploads whose picture is on the disk
    sketch,     \* [EmojiUploads -> pc, and the request]
    rubbing,    \* [EmojiDeletes -> pc, row]
    packing,    \* [Packs \cup PackEdits -> pc, and the request or the row as read]
    littered,   \* history: pictures left behind by an insert that failed
    condemned   \* history: emojis whose picture a deletion has set out to remove

emojiVars == <<emojis, packs, pictures, sketch, rubbing, packing, littered, condemned>>

EmojiIds == DOMAIN emojis
PackIds == DOMAIN packs
Unset == [pc |-> "idle"]
With(f, k, v) == [x \in DOMAIN f \cup {k} |-> IF x = k THEN v ELSE f[x]]
Without(f, k) == [x \in DOMAIN f \ {k} |-> f[x]]

TypeOK ==
    /\ EmojiIds \subseteq EmojiUploads /\ PackIds \subseteq Packs
    /\ \A e \in EmojiIds : emojis[e].shortcode \in Shortcodes /\ emojis[e].pack \in Packs \cup {NoPack}
    /\ pictures \cup littered \cup condemned \subseteq EmojiUploads

Init ==
    /\ emojis = [e \in {} |-> Unset] /\ packs = [k \in {} |-> Unset]
    /\ pictures = {} /\ littered = {} /\ condemned = {}
    /\ sketch = [u \in EmojiUploads |-> Unset]
    /\ rubbing = [d \in EmojiDeletes |-> Unset]
    /\ packing = [k \in Packs \cup PackEdits |-> Unset]

packVars == <<packs, packing>>
rowVars == <<emojis, packs, packing, rubbing, condemned>>
SketchGoes(u, pc) == sketch' = [sketch EXCEPT ![u].pc = pc]
TenantOf(u) == Artists[sketch[u].user]

--------------------------------------------------------------------------
(* upload_emoji *)

\* The size, the type and the form of the shortcode are in order.
BeginSketch(u, user, shortcode, pack, picture) ==
    /\ sketch[u].pc = "idle"
    /\ sketch' = [sketch EXCEPT ![u] = [pc |-> "shortcode", user |-> user, shortcode |-> shortcode, pack |-> pack,
                                        picture |-> picture, answer |-> u]]
    /\ UNCHANGED <<rowVars, pictures, littered>>

ShortcodeExists(u) ==
    /\ sketch[u].pc = "shortcode"
    /\ SketchGoes(u, IF \E e \in EmojiIds : emojis[e].tenant = TenantOf(u) /\ emojis[e].shortcode = sketch[u].shortcode
                     THEN "refused" ELSE IF sketch[u].pack = NoPack THEN "hash" ELSE "pack")
    /\ UNCHANGED <<rowVars, pictures, littered>>

\* Mutant: a pack of whatever tenant.
PackExists_OfAnybody(u) ==
    /\ sketch[u].pc = "pack"
    /\ SketchGoes(u, IF sketch[u].pack \in PackIds THEN "hash" ELSE "refused")
    /\ UNCHANGED <<rowVars, pictures, littered>>
PackExists(u) ==
    /\ sketch[u].pc = "pack"
    /\ SketchGoes(u, IF sketch[u].pack \in PackIds /\ packs[sketch[u].pack].tenant = TenantOf(u) THEN "hash" ELSE "refused")
    /\ UNCHANGED <<rowVars, pictures, littered>>

\* The same picture is answered with the row there is, under another shortcode.
\* Mutant: of whatever tenant.
FindPicture_OfAnybody(u) ==
    LET same == {e \in EmojiIds : emojis[e].hash = sketch[u].picture} IN
    /\ sketch[u].pc = "hash"
    /\ IF same = {} THEN SketchGoes(u, "store")
       ELSE \E e \in same : sketch' = [sketch EXCEPT ![u].pc = "answered", ![u].answer = e]
    /\ UNCHANGED <<rowVars, pictures, littered>>
FindPicture(u) ==
    LET same == {e \in EmojiIds : emojis[e].tenant = TenantOf(u) /\ emojis[e].hash = sketch[u].picture} IN
    /\ sketch[u].pc = "hash"
    /\ IF same = {} THEN SketchGoes(u, "store")
       ELSE \E e \in same : sketch' = [sketch EXCEPT ![u].pc = "answered", ![u].answer = e]
    /\ UNCHANGED <<rowVars, pictures, littered>>

\* Decoded and resized first; the thumbnail does not matter.
StorePicture(u) ==
    /\ sketch[u].pc = "store"
    /\ \/ SketchGoes(u, "insert") /\ pictures' = pictures \cup {u}
       \/ "disk" \in Accidents /\ SketchGoes(u, "failed") /\ UNCHANGED pictures
    /\ UNCHANGED <<rowVars, littered>>

\* A shortcode taken or a pack deleted meanwhile fails the statement, and the
\* picture stays on the disk.
InsertEmoji(u) ==
    LET taken == \E e \in EmojiIds : emojis[e].tenant = TenantOf(u) /\ emojis[e].shortcode = sketch[u].shortcode
        sound == ~taken /\ sketch[u].pack \in PackIds \cup {NoPack}
    IN
    /\ sketch[u].pc = "insert"
    /\ \/ /\ sound
          /\ emojis' = With(emojis, u, [tenant |-> TenantOf(u), creator |-> sketch[u].user, shortcode |-> sketch[u].shortcode,
                                        pack |-> sketch[u].pack, hash |-> sketch[u].picture])
          /\ SketchGoes(u, "answered") /\ UNCHANGED littered
       \/ /\ ~sound \/ "sql" \in Accidents
          /\ littered' = littered \cup {u}
          /\ SketchGoes(u, "failed") /\ UNCHANGED emojis
    /\ UNCHANGED <<packVars, pictures, rubbing, condemned>>

--------------------------------------------------------------------------
(* delete_emoji *)

\* Only the creator.
BeginRubbing(d, user, e) ==
    /\ rubbing[d].pc = "idle"
    /\ IF e \in EmojiIds /\ emojis[e].creator = user
       THEN rubbing' = [rubbing EXCEPT ![d] = [pc |-> "disk", row |-> e]] /\ condemned' = condemned \cup {e}
       ELSE rubbing' = [rubbing EXCEPT ![d].pc = "refused"] /\ UNCHANGED condemned
    /\ UNCHANGED <<emojis, packVars, pictures, sketch, littered>>

DeletePicture(d) ==
    /\ rubbing[d].pc = "disk"
    /\ \/ pictures' = pictures \ {rubbing[d].row} /\ rubbing' = [rubbing EXCEPT ![d].pc = "row"]
       \/ "disk" \in Accidents /\ rubbing' = [rubbing EXCEPT ![d].pc = "failed"] /\ UNCHANGED pictures
    /\ UNCHANGED <<emojis, packVars, sketch, littered, condemned>>

DeleteEmojiRow(d) ==
    /\ rubbing[d].pc = "row"
    /\ \/ emojis' = Without(emojis, rubbing[d].row) /\ rubbing' = [rubbing EXCEPT ![d].pc = "done"]
       \/ "sql" \in Accidents /\ rubbing' = [rubbing EXCEPT ![d].pc = "failed"] /\ UNCHANGED emojis
    /\ UNCHANGED <<packVars, pictures, sketch, littered, condemned>>

--------------------------------------------------------------------------
(* Packs *)

emojiSide == <<pictures, sketch, rubbing, littered, condemned>>
PackingGoes(k, pc) == packing' = [packing EXCEPT ![k].pc = pc]
NameTaken(k, tenant, name) == \E x \in PackIds \ {k} : packs[x].tenant = tenant /\ packs[x].name = name

PackNameExists(k, user, name) ==
    /\ packing[k].pc = "idle"
    /\ packing' = [packing EXCEPT ![k] =
          [pc |-> IF NameTaken(k, Artists[user], name) THEN "refused" ELSE "insert", user |-> user, name |-> name]]
    /\ UNCHANGED <<emojis, packs, emojiSide>>

\* The name may be taken by now: the constraint refuses it.
CreatePack(k) ==
    LET tenant == Artists[packing[k].user] IN
    /\ packing[k].pc = "insert"
    /\ IF NameTaken(k, tenant, packing[k].name) THEN PackingGoes(k, "failed") /\ UNCHANGED packs
       ELSE /\ packs' = With(packs, k, [tenant |-> tenant, creator |-> packing[k].user, name |-> packing[k].name])
            /\ PackingGoes(k, "done")
    /\ UNCHANGED <<emojis, emojiSide>>

\* Only the creator; what is not given is written as it was read.
GetPack(x, user, k, what) ==
    /\ packing[x].pc = "idle"
    /\ packing' = [packing EXCEPT ![x] =
          IF k \in PackIds /\ packs[k].creator = user THEN [pc |-> what, pack |-> k, row |-> packs[k]] ELSE [pc |-> "refused"]]
    /\ UNCHANGED <<emojis, packs, emojiSide>>

UpdatePack(x, name) ==
    LET k == packing[x].pack IN
    /\ packing[x].pc = "update"
    /\ IF k \notin PackIds \/ NameTaken(k, packing[x].row.tenant, name) THEN PackingGoes(x, "failed") /\ UNCHANGED packs
       ELSE packs' = [packs EXCEPT ![k].name = name] /\ PackingGoes(x, "done")
    /\ UNCHANGED <<emojis, emojiSide>>

\* ON DELETE SET NULL.
\* Mutant: the emojis keep the reference.
DeletePack_Dangling(x) ==
    /\ packing[x].pc = "delete"
    /\ packs' = Without(packs, packing[x].pack)
    /\ PackingGoes(x, "done")
    /\ UNCHANGED <<emojis, emojiSide>>
DeletePack(x) ==
    LET k == packing[x].pack IN
    /\ packing[x].pc = "delete"
    /\ packs' = Without(packs, k)
    /\ emojis' = [e \in EmojiIds |-> IF emojis[e].pack = k THEN [emojis[e] EXCEPT !.pack = NoPack] ELSE emojis[e]]
    /\ PackingGoes(x, "done")
    /\ UNCHANGED emojiSide

--------------------------------------------------------------------------
Next ==
    \/ \E u \in EmojiUploads :
          \/ \E user \in DOMAIN Artists, s \in Shortcodes, k \in Packs \cup {NoPack}, p \in Pictures :
                BeginSketch(u, user, s, k, p)
          \/ ShortcodeExists(u) \/ PackExists(u) \/ FindPicture(u) \/ StorePicture(u) \/ InsertEmoji(u)
    \/ \E d \in EmojiDeletes :
          \/ \E user \in DOMAIN Artists, e \in EmojiUploads : BeginRubbing(d, user, e)
          \/ DeletePicture(d) \/ DeleteEmojiRow(d)
    \/ \E k \in Packs : CreatePack(k) \/ \E user \in DOMAIN Artists, n \in PackNames : PackNameExists(k, user, n)
    \/ \E x \in PackEdits :
          \/ \E user \in DOMAIN Artists, k \in Packs, w \in {"update", "delete"} : GetPack(x, user, k, w)
          \/ \E n \in PackNames : UpdatePack(x, n)
          \/ DeletePack(x)

Spec == Init /\ [][Next]_emojiVars

--------------------------------------------------------------------------
\* service.rs: the tenants stay apart and rows agree with the disk: an emoji is in
\* no pack or in one of its tenant that exists, has its picture until a deletion
\* of it began, and an upload that is answered gets an emoji of its own tenant
\* with the picture it sent.
EmojisAreSound ==
    /\ \A e \in EmojiIds :
          /\ emojis[e].pack = NoPack \/ (emojis[e].pack \in PackIds /\ packs[emojis[e].pack].tenant = emojis[e].tenant)
          /\ e \in pictures \cup condemned
    /\ \A u \in EmojiUploads : sketch[u].pc = "answered" /\ sketch[u].answer \in EmojiIds =>
          /\ emojis[sketch[u].answer].tenant = TenantOf(u)
          /\ emojis[sketch[u].answer].hash = sketch[u].picture
    /\ \A u \in pictures \ littered : u \in EmojiIds \/ sketch[u].pc = "insert"

\* Refuted: a picture that is there already is answered under its old shortcode.
AnsweredAsAsked ==
    \A u \in EmojiUploads : sketch[u].pc = "answered" /\ sketch[u].answer \in EmojiIds =>
        emojis[sketch[u].answer].shortcode = sketch[u].shortcode
=============================================================================
