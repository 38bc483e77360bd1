------------------------- MODULE ScheduleEnumeration -------------------------
(***************************************************************************)
(* What a search promises its user: every schedule it shows is one of the  *)
(* wanted ones, none is shown twice, and when it ends by itself every      *)
(* wanted schedule has been shown.                                         *)
(***************************************************************************)
EXTENDS Naturals, Sequences, Functions

VARIABLES
    wanted,       \* the schedules that meet the rules; never changes
    shown,        \* the schedules shown, in order
    interrupted,  \* the user cancelled, or the limit was reached
    ended

vars == <<wanted, shown, interrupted, ended>>

Init ==
    /\ shown = <<>>
    /\ interrupted = FALSE
    /\ ended = FALSE

Show ==
    /\ ~ended
    /\ \E f \in wanted \ Range(shown) : shown' = Append(shown, f)
    /\ interrupted' \in {interrupted, TRUE}
    /\ UNCHANGED <<wanted, ended>>

Interrupt ==
    /\ interrupted' = TRUE
    /\ UNCHANGED <<wanted, shown, ended>>

End ==
    /\ ~ended
    /\ interrupted \/ Range(shown) = wanted
    /\ ended' = TRUE
    /\ UNCHANGED <<wanted, shown, interrupted>>

Next == Show \/ Interrupt \/ End

Spec == Init /\ [][Next]_vars /\ <>ended
=============================================================================
