------------------------------ MODULE Mailbox ------------------------------
(***************************************************************************)
(* What the offline queue promises a user who is away: a first-in          *)
(* first-out mailbox that may lose messages but never reorders, repeats or *)
(* invents one.                                                            *)
(***************************************************************************)
EXTENDS Sequences, Naturals

CONSTANT Msg

VARIABLES
    pending,   \* messages waiting, oldest first
    handed     \* messages handed to the user so far, in that order

vars == <<pending, handed>>

Init == pending = <<>> /\ handed = <<>>

InSeq(m, s) == \E i \in DOMAIN s : s[i] = m

Put(m) ==
    /\ ~InSeq(m, pending) /\ ~InSeq(m, handed)
    /\ pending' = Append(pending, m)
    /\ UNCHANGED handed

\* What is kept of t, in its order.
PartOf(s, t) ==
    \E at \in [DOMAIN s -> DOMAIN t] :
        /\ \A i, j \in DOMAIN s : i < j => at[i] < at[j]
        /\ \A i \in DOMAIN s : s[i] = t[at[i]]

\* Give up some of the waiting messages.
Lose ==
    /\ PartOf(pending', pending)
    /\ UNCHANGED handed

\* Hand out the oldest k messages and forget the others.
Take(k) ==
    /\ handed' = handed \o SubSeq(pending, 1, k)
    /\ pending' = <<>>

Next == (\E m \in Msg : Put(m)) \/ Lose \/ (\E k \in 0..Len(pending) : Take(k))

Spec == Init /\ [][Next]_vars
=============================================================================
