-------------------------- MODULE MCMessageEditing --------------------------
(***************************************************************************)
(* The sender with two connections and an admin.  Either each makes one    *)
(* request and anything or only the database fails, or the sender uses one *)
(* connection and nothing fails.                                           *)
(***************************************************************************)
EXTENDS MessageEditing

CONSTANTS u, s1, a1

Mentions == {{}, {u}}

Calm == INSTANCE MessageEditing WITH Failing <- {}
StoreFails == INSTANCE MessageEditing WITH Failing <- Failing \cap {"store"}

VARIABLE scenario

MCInit == Init /\ scenario \in {"any", "store", "one"}
Once == \A k \in Conn : made'[k] <= 1
OneConnection ==
    /\ \A k \in SenderConn \ {s1} : made'[k] = 0
    /\ \A k \in AdminConn \ {a1} : made'[k] = 0
MCNext ==
    /\ UNCHANGED scenario
    /\ \/ scenario = "any" /\ Next /\ Once
       \/ scenario = "store" /\ StoreFails!Next /\ Once
       \/ scenario = "one" /\ Calm!Next /\ OneConnection
MCSpec == MCInit /\ [][MCNext]_<<vars, scenario>>

\* Unless routing fails, a recall answered with success by
\* handle_recall_message has been announced to every member.
RecallReachesMembersOnceRouted == scenario # "any" => RecallReachesMembers

\* If the sender uses one connection and nothing fails, members who apply the
\* routed events end up showing the stored message and its pins.
EventsConvergeOnOneConnection == scenario = "one" => EventsConverge

\* If the sender uses one connection and nothing fails, handle_edit_message
\* notifies a mention only to a member the stored version did not mention.
MentionIsNewsOnOneConnection == scenario = "one" => MentionIsNews

\* A recall is announced once, to everybody unless its routing fails (and every
\* variable keeps its type).
RecallReachesMembersOnce == TypeOK /\ RecallAnnouncedOnce /\ RecallReachesMembersOnceRouted

\* With one connection and no failure clients show what is stored, and mentions
\* are notified when they are new.
EventsAreRightOnOneConnection == EventsConvergeOnOneConnection /\ MentionIsNewsOnOneConnection
=============================================================================
