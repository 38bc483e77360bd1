---------------------------- MODULE ExclusionModel ----------------------------
(***************************************************************************)
(* The calendar editor of the input screen: ExclusionModel and what its    *)
(* widget does to it.  An editor holds one view model per exam period and  *)
(* a working copy of the dates of the period that is on display; the copy  *)
(* is written back when the user moves to another period and when the      *)
(* editor is asked for its periods.                                        *)
(***************************************************************************)
EXTENDS Naturals, Sequences, SequencesExt

Period(start, end, excluded) == [start |-> start, end |-> end, excluded |-> excluded]

\* What ExamPeriod accepts, and what the editor calls a valid range.
IsExamPeriod(period) == period.start < period.end
is_range_valid(editor) == editor.shown.start <= editor.shown.end

-----------------------------------------------------------------------------
\* The view model at a position becomes the working copy.
ShowPeriod(view_models, index) ==
    [view_models |-> view_models, index |-> index, shown |-> view_models[index].period]

\* One view model per period, in the order of the loaded periods.
to_period_edit_vms(periods) ==
    LET keys == SetToSeq(DOMAIN periods)
    IN [i \in DOMAIN keys |-> [key |-> keys[i], period |-> periods[keys[i]]]]

NewEditor(periods) == ShowPeriod(to_period_edit_vms(periods), 1)

save_current_period(editor) ==
    [editor EXCEPT !.view_models[editor.index].period = editor.shown]

\* Mutant: the working copy is not written back.
Move_Forgets(editor, index) == ShowPeriod(editor.view_models, index)

\* Moving on or back writes the working copy back first.
Move(editor, index) == ShowPeriod(save_current_period(editor).view_models, index)

CanMoveTo(editor, index) ==
    /\ index \in DOMAIN editor.view_models
    /\ index \in {editor.index - 1, editor.index + 1}

set_date_range(editor, start, end) ==
    [editor EXCEPT !.shown.start = start, !.shown.end = end]

\* A click on a day excludes it, a second click takes it back.
Toggled(dates, day) == IF day \in dates THEN dates \ {day} ELSE dates \cup {day}
toggle(editor, day) == [editor EXCEPT !.shown.excluded = Toggled(@, day)]

\* The days the calendar grid offers to click.
date_list(editor) == editor.shown.start .. editor.shown.end

\* What the editor hands out: its view models, the working copy written back.
apply(editor) == save_current_period(editor).view_models

ShownKey(editor) == editor.view_models[editor.index].key
EditsByKey(view_models) ==
    [key \in {vm.key : vm \in Range(view_models)} |->
        (CHOOSE vm \in Range(view_models) : vm.key = key).period]
=============================================================================
