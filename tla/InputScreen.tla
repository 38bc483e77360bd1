----------------------------- MODULE InputScreen -----------------------------
(***************************************************************************)
(* The input screen over the import of InputImport: the load buttons, the  *)
(* calendar editor, the choice of programs, the settings and the Generate  *)
(* button with its gate and its "dirty" flag (InputScreen, its presenters  *)
(* and widgets, InputDataState).  Everything here runs on the GUI thread:  *)
(* while a load is under way, no other click is handled.  Of a run only    *)
(* its start and its end matter here; ResultBrowsing models the rest.      *)
(***************************************************************************)
EXTENDS InputImport, ExclusionModel

CONSTANTS
    ProgramOf,     \* the program of every version of a course
    MaxPrograms,   \* MAX_PROGRAMS
    Rules, Ks,     \* the optional rules, and the values their spin boxes offer
    Days,          \* the days the date boxes are set to
    MaxClicks      \* bound: clicks, the loads and restarts before them counted

ASSUME ScreenAssumption ==
    /\ UNION {Range(content) : content \in CourseContents} \subseteq DOMAIN ProgramOf
    /\ Days \subseteq Nat /\ Ks \subseteq Nat
    /\ MaxPrograms \in Nat \ {0} /\ MaxClicks \in Nat

VARIABLES
    editor,       \* the calendar editor, or NoEditor
    programs,     \* the programs the selector offers
    selected,     \* the programs selected
    config,       \* the value of each rule that is turned on
    dirty,        \* InputScreen._inputs_dirty
    enabled,      \* whether the Generate button is enabled
    view,         \* "input", or "output" while the results are on screen
    running,      \* whether the screen is in running mode
    results,      \* whether the View Results button is visible
    loading,      \* whether a load button's handler is under way
    wanted,       \* history: the periods as loaded, with what the user did to them since
    lastRun,      \* history: the inputs of the last run, with wanted
    clicks        \* counter for the bound

screenVars == <<editor, programs, selected, config, dirty, enabled, view, running, results,
                loading, wanted, lastRun, clicks>>
allVars == <<vars, screenVars>>
runVars == <<view, running, results, lastRun>>

NoEditor == [view_models |-> <<>>]
NoRun == [programs |-> {}]

Configs == UNION {[on -> Ks] : on \in SUBSET Rules}
ProgramsIn(cs) == {ProgramOf[version] : version \in Range(cs)}

\* The user at the input screen, no dialog open; a click besides the loads.
AtScreen == pc = "idle" /\ ~loading /\ view = "input"
Click == AtScreen /\ "edits" \in faults /\ loads + restarts + clicks < MaxClicks /\ clicks' = clicks + 1

-----------------------------------------------------------------------------
(***************************************************************************)
(* The gate of the Generate button, worked out where the code refreshes it *)
(* and kept until it does so again.                                        *)
(***************************************************************************)
is_period_range_valid(e) == e = NoEditor \/ is_range_valid(e)
refresh_generate_button(e, d) ==
    enabled' = (shown = {"courses", "periods"} /\ is_period_range_valid(e) /\ d)

\* Mutant: only what the run is given is marked, not what the user chose.
mark_inputs_dirty_OnlyRefreshes(e) == dirty' = dirty /\ refresh_generate_button(e, dirty)

mark_inputs_dirty(e) == dirty' = TRUE /\ refresh_generate_button(e, TRUE)

\* The edits of the editor reach the periods of their key.  An edited period
\* that is not an exam period raises an exception: nothing is applied.
Edited == IF editor = NoEditor THEN Nothing ELSE EditsByKey(apply(editor))
Usable == \A key \in DOMAIN Edited \cap DOMAIN periods : IsExamPeriod(Edited[key])
ApplyEdits ==
    /\ editor' = IF editor = NoEditor THEN NoEditor ELSE save_current_period(editor)
    /\ IF Usable THEN apply_period_edits(Edited) ELSE UNCHANGED periods

-----------------------------------------------------------------------------
(***************************************************************************)
(* Loading.  The buttons are disabled in running mode.  The edits are      *)
(* applied before the file dialog opens, whether a file is chosen or not.  *)
(***************************************************************************)
ClickLoad ==
    /\ AtScreen /\ ~running
    /\ Usable /\ ApplyEdits
    /\ \E path \in Paths, mode \in Modes : BeginLoad(path, mode)
    /\ loading' = TRUE
    /\ refresh_generate_button(editor, dirty)
    /\ UNCHANGED <<courses, programs, selected, config, dirty, runVars, wanted, clicks>>

\* No file is chosen, or the edits raise and the dialog does not open.
LoadNothing ==
    /\ Click /\ ~running
    /\ ApplyEdits
    /\ IF Usable THEN refresh_generate_button(editor, dirty) /\ outcome' = NoOutcome
                 ELSE UNCHANGED <<enabled, outcome>>
    /\ UNCHANGED <<file, courses, loadedPaths, cache, shown, pc, request, seen, counters,
                   programs, selected, config, dirty, runVars, loading, wanted>>

LoadStep == loading /\ LoadSteps /\ UNCHANGED screenVars

\* Mutant: what is not in the new file stays selected.
StillOffered_All(offered) == selected

StillOffered(offered) == selected \cap offered

\* The rest of the handler, once load_file has returned.  A success may come
\* without data, from a cache written after a load that failed.
ShowCourses ==
    /\ programs' = ProgramsIn(courses)
    /\ selected' = StillOffered(programs')
    /\ UNCHANGED <<editor, wanted>>
ShowPeriods ==
    /\ editor' = NewEditor(periods)
    /\ wanted' = periods
    /\ UNCHANGED <<programs, selected>>
LoadReturns ==
    /\ loading /\ pc = "idle"
    /\ loading' = FALSE
    /\ IF outcome.status = "success"
       THEN /\ mark_inputs_dirty(editor)
            /\ \/ LoadedType = "courses" /\ courses # Nothing /\ ShowCourses
               \/ LoadedType = "periods" /\ periods # Nothing /\ ShowPeriods
               \/ /\ (IF LoadedType = "courses" THEN courses ELSE periods) = Nothing
                  /\ UNCHANGED <<editor, programs, selected, wanted>>
       ELSE UNCHANGED <<editor, programs, selected, dirty, enabled, wanted>>
    /\ UNCHANGED <<vars, config, runVars, clicks>>

-----------------------------------------------------------------------------
(***************************************************************************)
(* The calendar editor.  A change of dates or of an excluded day marks the *)
(* inputs; moving between periods does not, nor does it refresh the gate.  *)
(***************************************************************************)
ChangeShown(e, period) ==
    /\ editor' = e
    /\ wanted' = [wanted EXCEPT ![ShownKey(editor)] = period]
    /\ mark_inputs_dirty(e)
    /\ UNCHANGED <<vars, programs, selected, config, runVars, loading>>

EditDates ==
    /\ Click /\ editor # NoEditor
    /\ LET was == wanted[ShownKey(editor)]
       IN \E day \in Days :
             \/ /\ day # editor.shown.start
                /\ ChangeShown(set_date_range(editor, day, editor.shown.end),
                               [was EXCEPT !.start = day])
             \/ /\ day # editor.shown.end
                /\ ChangeShown(set_date_range(editor, editor.shown.start, day),
                               [was EXCEPT !.end = day])

ToggleDay ==
    /\ Click /\ editor # NoEditor
    /\ \E day \in date_list(editor) \cap Days :
          ChangeShown(toggle(editor, day),
                      [wanted[ShownKey(editor)] EXCEPT !.excluded = Toggled(@, day)])

MoveToPeriod ==
    /\ Click /\ editor # NoEditor
    /\ \E index \in DOMAIN editor.view_models :
          CanMoveTo(editor, index) /\ editor' = Move(editor, index)
    /\ UNCHANGED <<vars, programs, selected, config, dirty, enabled, runVars, loading, wanted>>

(***************************************************************************)
(* Programs and settings.  The program card works in running mode too, the *)
(* settings button does not.                                               *)
(***************************************************************************)
\* What the dialog can be left with: it has a card per program, and a click
\* takes a program away or, below the limit, adds it.
Selections ==
    {chosen \cup (selected \ programs) : chosen \in SUBSET programs}
WithinLimit == {choice \in Selections : Cardinality(choice) <= MaxPrograms}

SelectPrograms ==
    /\ Click /\ programs # {}
    /\ selected' \in WithinLimit
    /\ mark_inputs_dirty(editor)
    /\ UNCHANGED <<vars, editor, programs, config, runVars, loading, wanted>>

ApplySettings ==
    /\ Click /\ ~running
    /\ config' \in Configs
    /\ mark_inputs_dirty(editor)
    /\ UNCHANGED <<vars, editor, programs, selected, runVars, loading, wanted>>

-----------------------------------------------------------------------------
(***************************************************************************)
(* Generate.  The edits are applied and the flag is reset before the       *)
(* selection is looked at; an exception of the edits comes before both.    *)
(***************************************************************************)
StartRun ==
    IF selected = {} THEN UNCHANGED <<running, lastRun>>
    ELSE /\ running' = TRUE
         /\ lastRun' = [programs |-> selected, courses |-> courses, periods |-> periods',
                        config |-> config, wanted |-> wanted]

ClickGenerate ==
    /\ Click /\ enabled /\ ~running
    /\ ApplyEdits
    /\ IF Usable
       THEN /\ refresh_generate_button(editor, dirty)
            /\ dirty' = FALSE /\ results' = FALSE /\ outcome' = NoOutcome
            /\ StartRun
       ELSE UNCHANGED <<dirty, enabled, results, outcome, running, lastRun>>
    /\ UNCHANGED <<file, courses, loadedPaths, cache, shown, pc, request, seen, counters,
                   programs, selected, config, view, loading, wanted>>

ClickCancel ==
    /\ Click /\ running
    /\ running' = FALSE
    /\ mark_inputs_dirty(editor)
    /\ UNCHANGED <<vars, editor, programs, selected, config, view, results, loading, wanted,
                   lastRun>>

\* The first results of a run bring up the output screen, once a run.
NavigateToOutput ==
    /\ running /\ ~results /\ ~loading
    /\ results' = TRUE /\ view' = "output"
    /\ running' \in BOOLEAN
    /\ UNCHANGED <<vars, editor, programs, selected, config, dirty, enabled, loading, wanted,
                   lastRun, clicks>>

\* The run ends without results, with an error, or after they were shown.
RunEnds ==
    /\ running /\ running' = FALSE
    /\ UNCHANGED <<vars, editor, programs, selected, config, dirty, enabled, view, results,
                   loading, wanted, lastRun, clicks>>

ViewResults ==
    /\ Click /\ results
    /\ view' = "output"
    /\ UNCHANGED <<vars, editor, programs, selected, config, dirty, enabled, running, results,
                   loading, wanted, lastRun>>

\* on_enter of the input screen.
Back ==
    /\ view = "output" /\ view' = "input"
    /\ refresh_generate_button(editor, dirty)
    /\ UNCHANGED <<vars, editor, programs, selected, config, dirty, running, results, loading,
                   wanted, lastRun, clicks>>

-----------------------------------------------------------------------------
InitScreen ==
    /\ editor = NoEditor /\ programs = {} /\ selected = {}
    /\ config = Nothing
    /\ dirty = TRUE /\ enabled = FALSE
    /\ view = "input" /\ running = FALSE /\ results = FALSE /\ loading = FALSE
    /\ wanted = Nothing /\ lastRun = NoRun /\ clicks = 0

RestartScreen ==
    /\ Restart
    /\ editor' = NoEditor /\ programs' = {} /\ selected' = {}
    /\ config' = Nothing
    /\ dirty' = TRUE /\ enabled' = FALSE
    /\ view' = "input" /\ running' = FALSE /\ results' = FALSE /\ loading' = FALSE
    /\ wanted' = Nothing /\ lastRun' = NoRun
    /\ UNCHANGED clicks

ScreenInit == Init /\ InitScreen
Loads == ClickLoad \/ LoadNothing \/ LoadStep \/ LoadReturns
Edit == EditDates \/ ToggleDay \/ MoveToPeriod \/ SelectPrograms \/ ApplySettings
Runs == ClickGenerate \/ ClickCancel \/ NavigateToOutput \/ RunEnds \/ ViewResults \/ Back
ScreenNext ==
    \/ Loads \/ Edit \/ Runs \/ RestartScreen
    \/ (ChangeFile \/ LoseCache) /\ UNCHANGED screenVars

ScreenSpec == ScreenInit /\ [][ScreenNext]_allVars

-----------------------------------------------------------------------------
(***************************************************************************)
(* Properties.                                                             *)
(***************************************************************************)
\* The import is in its types, no run is given a period that is no exam period
\* or more programs than MAX_PROGRAMS, and every rule has a value its box offers.
ScreenTypeOK ==
    /\ TypeOK
    /\ editor # NoEditor =>
          /\ editor.index \in DOMAIN editor.view_models
          /\ DOMAIN EditsByKey(editor.view_models) = DOMAIN wanted
    /\ config \in Configs
    /\ {dirty, enabled, running, results, loading} \subseteq BOOLEAN
    /\ running => lastRun # NoRun
    /\ lastRun # NoRun =>
          /\ Cardinality(lastRun.programs) \in 1 .. MaxPrograms
          /\ \A period \in Range(lastRun.periods) : IsExamPeriod(period)

\* A blank file takes the loaded data of its type, and neither the programs on
\* offer nor the periods in the editor.
Emptied(data) == data = Nothing /\ "blank_file" \in faults

\* A run is given the periods as the user left them: every edit since they were
\* loaded, in any period of the editor, whatever was moved, loaded, cancelled or
\* refused in between, and no period that the editor does not have; or none, of
\* a blank file.  Where the cache is not written after every merge, an older one
\* may answer for courses and bring back periods the editor does not have.
RunGetsWhatIsWanted ==
    Without({"write", "missing_file"}) /\ lastRun # NoRun =>
        lastRun.periods = lastRun.wanted \/ Emptied(lastRun.periods)

\* The screen offers what is loaded: the programs of the loaded courses and the
\* loaded periods, and selects nothing else.  That holds while every load writes
\* the cache, for the data a blank file has not taken.
ScreenShowsState ==
    Without({"write", "missing_file"}) /\ ~loading =>
        /\ "courses" \in shown => programs = ProgramsIn(courses) \/ Emptied(courses)
        /\ "periods" \in shown =>
               DOMAIN EditsByKey(editor.view_models) = DOMAIN periods \/ Emptied(periods)
        /\ selected \subseteq programs

\* "No new changes to generate": while the flag is down and programs are
\* selected, every input is that of the last run.
NothingNewMeansSame ==
    ~dirty /\ ~loading /\ selected # {} =>
        /\ lastRun # NoRun
        /\ lastRun.programs = selected /\ lastRun.config = config
        /\ lastRun.courses = courses /\ lastRun.wanted = wanted
=============================================================================
