-------------------------- MODULE MCMessageSending --------------------------
(***************************************************************************)
(* Three calls with one client_message_id, a reply that mentions r1, on    *)
(* two dates.  In half of the behaviours nothing fails.                    *)
(***************************************************************************)
EXTENDS MessageSending, TLC

CONSTANTS a1, a2, a3, r1, r2

Calm == INSTANCE MessageSending WITH Failing <- {}

VARIABLE faults

MCInit == Init /\ faults \in {"none", "any"}
MCNext == UNCHANGED faults /\ IF faults = "none" THEN Calm!Next ELSE Next
MCSpec == MCInit /\ [][MCNext]_<<vars, faults>>

\* Calls of handle_send_message with one client_message_id on one date are
\* confirmed with one message id, whatever fails.
SameMessageReturnedInADay == today = 1 => SameMessageReturned

\* If nothing fails, a confirmed message has been routed to everybody.
ConfirmedIsSentWhenCalm == faults = "none" => ConfirmedIsSent

\* If nothing fails, a confirmed message counts as unread for each recipient.
ConfirmedIsCountedWhenCalm == faults = "none" => ConfirmedIsCounted

(* The calls are alike; r1 is mentioned and r2 is not.                     *)
Symm == Permutations(Attempt)
=============================================================================
