---------------------------- MODULE Partitions ----------------------------
(***************************************************************************)
(* The daily partitions of messages (and, alike, of message_reactions).    *)
(* Migration 017 removes the default partition and makes the first ones; a *)
(* background task makes the next ones, only in the hour from two o'clock. *)
(* A message without a partition for its day is refused.                   *)
(***************************************************************************)
EXTENDS Integers

CONSTANTS
    Premade,    \* days ahead that the migration makes (7)
    Ahead,      \* days the task makes, the current one included (7)
    MaxDay,     \* bound on the days
    Setbacks    \* of "down" (the process or its tasks), "sql" (a statement fails)

VARIABLES
    day, hour,
    up,         \* whether the task runs
    done,       \* whether it has run in this hour
    partitions, \* days that have one
    missed,     \* history: two o'clocks since one at which every statement succeeded
    failed      \* history: whether a statement failed in this hour

dayVars == <<day, hour, up, done, partitions, missed, failed>>

TypeOK ==
    /\ day \in 0..MaxDay /\ hour \in {"early", "two", "late"}
    /\ up \in BOOLEAN /\ done \in BOOLEAN /\ failed \in BOOLEAN
    /\ partitions \subseteq 0..MaxDay + Premade + Ahead /\ missed \in Nat

Init ==
    /\ day = 0 /\ hour = "early" /\ up = TRUE /\ done = FALSE
    /\ partitions = 0..Premade /\ missed = 0 /\ failed = FALSE

\* Mutant: the current day only.
Manage_TodayOnly ==
    /\ up /\ hour = "two" /\ ~done
    /\ done' = TRUE
    /\ partitions' = partitions \cup {day}
    /\ UNCHANGED <<day, hour, up, missed, failed>>

\* CREATE TABLE IF NOT EXISTS for each day; one that fails is logged.
Manage ==
    LET wanted == day..day + Ahead - 1 IN
    /\ up /\ hour = "two" /\ ~done
    /\ done' = TRUE
    /\ \E made \in SUBSET wanted :
          /\ made = wanted \/ "sql" \in Setbacks
          /\ partitions' = partitions \cup made
          /\ failed' = (made # wanted)
    /\ UNCHANGED <<day, hour, up, missed>>

\* The ticker fires at once, and then every hour.
Restart ==
    /\ ~up /\ up' = TRUE /\ done' = FALSE
    /\ UNCHANGED <<day, hour, partitions, missed, failed>>

GoDown ==
    /\ "down" \in Setbacks /\ up /\ up' = FALSE
    /\ UNCHANGED <<day, hour, done, partitions, missed, failed>>

\* While it is up the task does not let the hour pass.
HourPasses ==
    /\ hour = "two" => done \/ ~up
    /\ CASE hour = "early" -> hour' = "two" /\ done' = FALSE /\ failed' = FALSE /\ UNCHANGED <<day, missed>>
         [] hour = "two" -> hour' = "late" /\ missed' = (IF done /\ ~failed THEN 0 ELSE missed + 1) /\ UNCHANGED <<day, done, failed>>
         [] hour = "late" -> hour' = "early" /\ day < MaxDay /\ day' = day + 1 /\ UNCHANGED <<done, missed, failed>>
    /\ UNCHANGED <<up, partitions>>

Next == Manage \/ Restart \/ GoDown \/ HourPasses
Spec == Init /\ [][Next]_dayVars

--------------------------------------------------------------------------
\* tasks.rs, run_partition_management: every day has its partition before its first
\* message, and still has after the task has missed its hour on all but one of the
\* days it works ahead.
MessagesHaveAPartition == missed < Ahead - 1 => day \in partitions

\* Refuted: one day more.
OneDayMore == missed < Ahead => day \in partitions
=============================================================================
