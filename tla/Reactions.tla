------------------------------ MODULE Reactions ------------------------------
(***************************************************************************)
(* The reactions to one message: the rows a toggle reads and writes in two *)
(* statements, the ReactionUpdate events it routes to the participants one *)
(* by one afterwards, and the snapshots clients ask for meanwhile.         *)
(***************************************************************************)
EXTENDS Integers, FiniteSets

CONSTANTS
    Members,    \* participants of the conversation
    Author,     \* who sent the message
    Emojis,
    Toggles,    \* toggle_reaction requests
    Fetches,    \* get_reactions requests
    Faults      \* what may fail: "toggle", "participants", "message"

VARIABLES
    reactions,  \* rows <<user, emoji>> of message_reactions
    shown,      \* [Members -> rows the user's clients show]
    pushed,     \* rows the author got a push notification for
    toggle,     \* [Toggles -> pc, row, action, members still to be told]
    fetch,      \* [Fetches -> pc, user, rows that were read]
    applied,    \* history: [Members \X Emojis -> number of toggles that succeeded]
    overlapped, \* history: two toggles of one row were open together
    unrouted,   \* history: the participants of an update could not be read
    crossed     \* history: users who got an update between read and answer of a fetch

reactionVars == <<reactions, shown, pushed, toggle, fetch, applied, overlapped, unrouted, crossed>>
historyVars == <<applied, overlapped, unrouted, crossed>>

Rows == Members \X Emojis

TypeOK ==
    /\ reactions \subseteq Rows /\ pushed \subseteq Rows
    /\ shown \in [Members -> SUBSET Rows]
    /\ \A t \in Toggles : toggle[t].pc # "idle" =>
          toggle[t].row \in Rows /\ toggle[t].todo \subseteq Members
    /\ \A f \in Fetches : fetch[f].pc # "idle" => fetch[f].user \in Members
    /\ applied \in [Rows -> 0..Cardinality(Toggles)]
    /\ {overlapped, unrouted} \subseteq BOOLEAN /\ crossed \subseteq Members

Init ==
    /\ reactions = {} /\ pushed = {}
    /\ shown = [u \in Members |-> {}]
    /\ toggle = [t \in Toggles |-> [pc |-> "idle"]]
    /\ fetch = [f \in Fetches |-> [pc |-> "idle"]]
    /\ applied = [r \in Rows |-> 0]
    /\ overlapped = FALSE /\ unrouted = FALSE /\ crossed = {}

--------------------------------------------------------------------------
(* toggle_reaction and its handler *)

Open(t) == toggle[t].pc \notin {"idle", "done"}
Goto(t, s) == toggle' = [toggle EXCEPT ![t].pc = s]

\* The message is looked up for its partition; none, or no statement, ends it.
FindMessage(t, r) ==
    /\ toggle[t].pc = "idle"
    /\ toggle' = [toggle EXCEPT ![t] = [pc |-> "has", row |-> r, action |-> "Add", todo |-> {}]]
    /\ overlapped' = (overlapped \/ \E o \in Toggles : Open(o) /\ toggle[o].row = r)
    /\ UNCHANGED <<reactions, shown, pushed, fetch, applied, unrouted, crossed>>

HasReaction(t) ==
    /\ toggle[t].pc = "has"
    /\ toggle' = [toggle EXCEPT
          ![t].pc = "write", ![t].action = IF toggle[t].row \in reactions THEN "Remove" ELSE "Add"]
    /\ UNCHANGED <<reactions, shown, pushed, fetch, historyVars>>

Applied(t) ==
    /\ applied' = [applied EXCEPT ![toggle[t].row] = @ + 1]
    /\ Goto(t, "participants")
    /\ UNCHANGED <<shown, pushed, fetch, overlapped, unrouted, crossed>>

\* INSERT ... ON CONFLICT DO NOTHING
AddReaction(t) ==
    /\ toggle[t].pc = "write" /\ toggle[t].action = "Add"
    /\ reactions' = reactions \cup {toggle[t].row}
    /\ Applied(t)

\* Mutant: the user is missing in the WHERE clause.
RemoveReaction_OfAnybody(t) ==
    /\ toggle[t].pc = "write" /\ toggle[t].action = "Remove"
    /\ reactions' = {r \in reactions : r[2] # toggle[t].row[2]}
    /\ Applied(t)
RemoveReaction(t) ==
    /\ toggle[t].pc = "write" /\ toggle[t].action = "Remove"
    /\ reactions' = reactions \ {toggle[t].row}
    /\ Applied(t)

\* The user is sent an error instead.
ToggleFails(t) ==
    /\ "toggle" \in Faults /\ toggle[t].pc \in {"has", "write"}
    /\ Goto(t, "done")
    /\ UNCHANGED <<reactions, shown, pushed, fetch, historyVars>>

\* Everybody is told, the user who reacted too.
GetParticipants(t) ==
    /\ toggle[t].pc = "participants"
    /\ \/ /\ toggle' = [toggle EXCEPT ![t].pc = "route", ![t].todo = Members]
          /\ UNCHANGED unrouted
       \/ /\ "participants" \in Faults
          /\ unrouted' = TRUE
          /\ Goto(t, "push")
    /\ UNCHANGED <<reactions, shown, pushed, fetch, applied, overlapped, crossed>>

After(row, action, s) == IF action = "Add" THEN s \cup {row} ELSE s \ {row}

Tell(t, u) ==
    /\ toggle[t].pc = "route" /\ u \in toggle[t].todo
    /\ shown' = [shown EXCEPT ![u] = After(toggle[t].row, toggle[t].action, @)]
    /\ crossed' = IF \E f \in Fetches : fetch[f].pc = "answer" /\ fetch[f].user = u
                  THEN crossed \cup {u} ELSE crossed
    /\ LET left == toggle[t].todo \ {u} IN
          toggle' = [toggle EXCEPT ![t].todo = left, ![t].pc = IF left = {} THEN "push" ELSE @]
    /\ UNCHANGED <<reactions, pushed, fetch, applied, overlapped, unrouted>>

\* Only an addition by somebody else is pushed to the author.
Push(t) ==
    /\ toggle[t].pc = "push"
    /\ IF toggle[t].action = "Add" /\ toggle[t].row[1] # Author
       THEN pushed' \in {pushed \cup {toggle[t].row}} \cup (IF "message" \in Faults THEN {pushed} ELSE {})
       ELSE UNCHANGED pushed
    /\ Goto(t, "done")
    /\ UNCHANGED <<reactions, shown, fetch, historyVars>>

Toggle(t) ==
    \/ \E r \in Rows : FindMessage(t, r)
    \/ HasReaction(t) \/ AddReaction(t) \/ RemoveReaction(t) \/ ToggleFails(t)
    \/ GetParticipants(t) \/ (\E u \in Members : Tell(t, u)) \/ Push(t)

--------------------------------------------------------------------------
(* get_reactions *)

GetReactions(f, u) ==
    /\ fetch[f].pc = "idle"
    /\ fetch' = [fetch EXCEPT ![f] = [pc |-> "answer", user |-> u, rows |-> reactions]]
    /\ UNCHANGED <<reactions, shown, pushed, toggle, historyVars>>

\* The answer replaces what the user's clients show.
SendReactions(f) ==
    /\ fetch[f].pc = "answer"
    /\ shown' = [shown EXCEPT ![fetch[f].user] = fetch[f].rows]
    /\ fetch' = [fetch EXCEPT ![f].pc = "done"]
    /\ UNCHANGED <<reactions, pushed, toggle, historyVars>>

Fetch(f) == (\E u \in Members : GetReactions(f, u)) \/ SendReactions(f)

Next == (\E t \in Toggles : Toggle(t)) \/ (\E f \in Fetches : Fetch(f))

Spec == Init /\ [][Next]_reactionVars

--------------------------------------------------------------------------
AtRest ==
    /\ \A t \in Toggles : ~Open(t)
    /\ \A f \in Fetches : fetch[f].pc # "answer"

\* service.rs: while the toggles of one row do not overlap, a row is there after
\* an odd number of successful toggles and gone after an even one, and every
\* client ends up showing the rows, unless an update was never routed or an
\* update overtook the answer the client had asked for.
ReactionsConverge ==
    ~overlapped =>
        /\ \A r \in Rows : r \in reactions <=> applied[r] % 2 = 1
        /\ AtRest /\ ~unrouted => \A u \in Members \ crossed : shown[u] = reactions

\* Refuted: the same of toggles from two devices.
ClientsConverge == AtRest /\ ~unrouted /\ crossed = {} => \A u \in Members : shown[u] = reactions
\* Refuted: the same of a client whose answer was overtaken.
SnapshotsAreFresh == AtRest /\ ~overlapped /\ ~unrouted => \A u \in Members : shown[u] = reactions
=============================================================================
