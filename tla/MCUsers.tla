------------------------------ MODULE MCUsers ------------------------------
(***************************************************************************)
(* What belongs to users: presence (MCPresence), blocking and presence     *)
(* subscriptions, erasure and export of their data, attachments and custom *)
(* emoji.  Each behaviour runs one part, the others stand still; blocking, *)
(* data and emoji are split so that each question is small.                *)
(***************************************************************************)
EXTENDS MCPresence

CONSTANTS
    People, Blocks, Sends, Forwards, Clears, MaxUnblocks, Upsets,
    Things, Demands, MaxHitches, FirstThings,
    Artists, EmojiUploads, EmojiDeletes, Packs, PackEdits, Shortcodes, Pictures, PackNames, NoPack, Accidents,
    Uploads, Deletes, Uploaders, Bytes, Acceptable, Images, Storable, Breakdowns

(* The people, rows and requests that the runs name.                       *)
ASSUME PeopleAssumption == {"a", "b", "c"} \subseteq People /\ MaxUnblocks \in Nat
ASSUME DemandsAssumption == {"r1", "r2", "r3"} \subseteq DOMAIN Demands /\ MaxHitches \in Nat
ASSUME ThingsAssumption ==
    /\ {"f", "j1", "m2"} \subseteq DOMAIN Things /\ FirstThings \subseteq DOMAIN Things
    /\ \A t \in DOMAIN Things :
          Things[t].kind \in {"message", "reaction", "receipt", "attachment", "membership", "lookup", "mention"}
    /\ \A t \in FirstThings : Things[t].kind = "message" =>
          \E m \in FirstThings : Things[m].kind = "membership" /\ Things[m].conversation = Things[t].conversation

VARIABLES
    part,
    blocks, subscribers, subscriptions, block, send, clearing, unblocks, open, apart, mixed,
    data, written, recalled, left, drafting, demand, auditLog, gone, hitches,
    emojis, packs, pictures, sketch, rubbing, packing, littered, condemned,
    attachments, files, upload, removal, participants, orphaned, doomed

blockVars == <<blocks, subscribers, subscriptions, block, send, clearing, unblocks, open, apart, mixed>>
accountVars == <<data, written, recalled, left, drafting, demand, auditLog, gone, hitches>>
emojiVars == <<emojis, packs, pictures, sketch, rubbing, packing, littered, condemned>>
attachmentVars == <<attachments, files, upload, removal, participants, orphaned, doomed>>

(* Rows of two conversations; two erasures, or an erasure and an export.   *)
Thing(k, c) == [kind |-> k, conversation |-> c]
MCThings == [t \in {"j1", "j2", "m1", "m2", "x", "rr", "f", "d", "n"} |->
    CASE t = "j1" -> Thing("membership", 1) [] t = "j2" -> Thing("membership", 2)
      [] t = "m1" -> Thing("message", 1)    [] t = "m2" -> Thing("message", 2)
      [] t = "x" -> Thing("reaction", 1)    [] t = "rr" -> Thing("receipt", 1)
      [] t = "f" -> Thing("attachment", 1)  [] t = "d" -> Thing("lookup", 1)
      [] t = "n" -> Thing("mention", 1)]
MCFirstThings == {"j1", "j2", "m1", "x", "d", "rr"}
MCDemands == [r \in {"r1", "r2", "r3"} |-> IF r = "r3" THEN "export" ELSE "erase"]

(* Users of two tenants.                                                   *)
MCArtists == [u \in {"a", "b"} |-> IF u = "a" THEN "t1" ELSE "t2"]

Blocked == INSTANCE Blocking
Account == INSTANCE AccountData
Picture == INSTANCE Emoji
File == INSTANCE Attachments

EmojiParts == {"emoji", "packs"}
BlockingParts == {"messages", "subscriptions", "blocks"}
AccountParts == {"erase", "export"}
Parts == {"presence", "emoji", "packs", "attachments"} \cup BlockingParts \cup AccountParts

\* The variables of a part that stands still are 0.
PartsInit ==
    /\ part \in Parts
    /\ Init /\ weather \in (IF part = "presence" THEN {"usual", "harsh"} ELSE {"usual"})
    /\ IF part \in BlockingParts THEN Blocked!Init
       ELSE blocks = 0 /\ subscribers = 0 /\ subscriptions = 0 /\ block = 0 /\ send = 0 /\ clearing = 0
            /\ unblocks = 0 /\ open = 0 /\ apart = 0 /\ mixed = 0
    /\ IF part \in AccountParts THEN Account!Init
       ELSE data = 0 /\ written = 0 /\ recalled = 0 /\ left = 0 /\ drafting = 0 /\ demand = 0
            /\ auditLog = 0 /\ gone = 0 /\ hitches = 0
    /\ IF part \in EmojiParts THEN Picture!Init
       ELSE emojis = 0 /\ packs = 0 /\ pictures = 0 /\ sketch = 0 /\ rubbing = 0 /\ packing = 0
            /\ littered = 0 /\ condemned = 0
    /\ IF part = "attachments" THEN File!Init
       ELSE attachments = 0 /\ files = 0 /\ upload = 0 /\ removal = 0 /\ participants = 0
            /\ orphaned = 0 /\ doomed = 0

BlockingNext ==
    \/ /\ part = "messages"
       /\ \/ \E c \in Blocks, p \in Blocked!Pairs : Blocked!BlockUser(c, p)
          \/ \E p \in Blocked!Pairs : Blocked!UnblockUser(p)
          \/ \E m \in Sends : Blocked!Send(m)
    \/ /\ part = "subscriptions"
       /\ \/ \E u \in {"a", "b"}, t \in {"b", "c"} : Blocked!Subscribe(u, t) \/ Blocked!Unsubscribe(u, t)
          \/ \E c \in Clears : Blocked!Clear(c)
          \/ \E u \in People : Blocked!KeyExpires(u)
    \/ /\ part = "blocks"
       /\ \/ \E c \in Blocks, p \in Blocked!Pairs : Blocked!BlockUser(c, p)
          \/ \E c \in Blocks : Blocked!UnsubscribeMine(c) \/ Blocked!UnsubscribeTheirs(c)
          \/ \E u, t \in {"a", "b"} : Blocked!Subscribe(u, t)

AccountNext ==
    \/ \E t \in (IF part = "erase" THEN {"f", "j1"} ELSE {"j1", "m2"}) :
          Account!Use(t)
    \/ \E r \in (IF part = "erase" THEN {"r1", "r2"} ELSE {"r1", "r3"}) : Account!Serve(r)

EmojiNext ==
    /\ Picture!Next
    /\ part = "emoji" => packing'["k2"] = Picture!Unset
    /\ part = "packs" => sketch'["u2"] = Picture!Unset

PartsNext ==
    /\ UNCHANGED part
    /\ IF part = "presence" THEN MCNext ELSE UNCHANGED MCvars
    /\ IF part \in BlockingParts THEN BlockingNext ELSE UNCHANGED blockVars
    /\ IF part \in AccountParts THEN AccountNext ELSE UNCHANGED accountVars
    /\ IF part \in EmojiParts THEN EmojiNext ELSE UNCHANGED emojiVars
    /\ IF part = "attachments" THEN File!Next ELSE UNCHANGED attachmentVars

partsVars == <<part, MCvars, blockVars, accountVars, emojiVars, attachmentVars>>

\* Redis removes an expired key.
PartsSpec ==
    /\ PartsInit /\ [][PartsNext]_partsVars
    /\ WF_partsVars(part = "presence" /\ Expire /\ UNCHANGED <<part, weather, blockVars, accountVars, emojiVars, attachmentVars>>)

-----------------------------------------------------------------------------
\* Usually a user without a connection is reported offline, and that is the
\* last status a standing subscriber was pushed, but for a push that failed.
GoneIsKnownUsually == OfflineWhenGoneUsually /\ OfflineIsPushedUsually

(* The invariants of the parts, each where it runs, with its types.        *)

\* A block keeps messages and presence apart; both sides of a subscription agree.
BlockHolds == part \in BlockingParts => Blocked!TypeOK /\ Blocked!BlockHolds

\* Erasures, exports and their log lose, keep or leave open nothing.
RequestsAreHonoured == part \in AccountParts => Account!TypeOK /\ Account!RequestsAreHonoured

\* Emoji stay in their tenant and with their picture.
EmojisAreSound == part \in EmojiParts => Picture!TypeOK /\ Picture!EmojisAreSound

\* Rows of attachments and files on the disk agree.
RowsAndFilesAgree == part = "attachments" => File!TypeOK /\ File!RowsAndFilesAgree
=============================================================================
