---------------------------- MODULE ScheduleStore ----------------------------
(***************************************************************************)
(* What SQLiteScheduleRepository promises to those who page through it: a  *)
(* list of schedules that only grows, one batch at a time, until it is     *)
(* cleared as a whole.                                                     *)
(***************************************************************************)
EXTENDS Naturals

CONSTANT Schedules

VARIABLES
    size,      \* how many schedules the list holds
    list       \* maps the indexes 0 .. size - 1 to schedules

vars == <<size, list>>

Empty == [g \in {} |-> g]

Init == size = 0 /\ list = Empty

\* What is in the list keeps its index.
Append ==
    /\ size' \in Nat /\ size <= size'
    /\ list' \in [0 .. size' - 1 -> Schedules]
    /\ \A g \in 0 .. size - 1 : list'[g] = list[g]

Clear == size' = 0 /\ list' = Empty

Next == Append \/ Clear

Spec == Init /\ [][Next]_vars
=============================================================================
