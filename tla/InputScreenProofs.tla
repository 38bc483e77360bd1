-------------------------- MODULE InputScreenProofs --------------------------
(***************************************************************************)
(* What the input screen does to what is loaded, for any files, contents,  *)
(* faults and number of clicks.                                            *)
(*                                                                         *)
(* The argument has four layers.  The editor hands out, for every period,  *)
(* the period as loaded with what the user did to it since (EditorInv), so *)
(* the history variable wanted can stand for it.  What is in the session   *)
(* and in the cache is made of the files: of the file just loaded, by a    *)
(* REPLACE of it alone (FreshInv); of every file remembered, while every   *)
(* file parses and nothing is edited (HeldInv).  What is offered follows   *)
(* what is loaded: a cache written after every merge is the session, so a  *)
(* cache that answers a load of one type changes nothing of the other,     *)
(* which the handler does not show again (OfferInv, SyncInv; PlainInv for  *)
(* the dates of the periods, where nothing is edited).  And what the last  *)
(* run was given is what there is, until a handler raises the flag         *)
(* (SameInv).                                                              *)
(***************************************************************************)
EXTENDS InputScreen, FiniteSetTheorems, FunctionTheorems, TLAPS

\* No data and a file without records are the empty function.
USE DEF Nothing, Blank

-----------------------------------------------------------------------------
(* The calendar editor *)

\* An editor: one view model for each of its keys, one of them on display.
IsEditor(e) ==
    /\ e = [view_models |-> e.view_models, index |-> e.index, shown |-> e.shown]
    /\ e.view_models = [i \in DOMAIN e.view_models |->
                           [key |-> e.view_models[i].key, period |-> e.view_models[i].period]]
    /\ e.index \in DOMAIN e.view_models /\ e.shown \in Dates
    /\ \A i \in DOMAIN e.view_models : e.view_models[i].period \in Dates
    /\ \A i, j \in DOMAIN e.view_models :
          e.view_models[i].key = e.view_models[j].key => i = j

\* The period an editor hands out at a position.
HandedOut(e, i) == IF i = e.index THEN e.shown ELSE e.view_models[i].period

\* An editor hands out the given periods.
HandsOut(e, given) ==
    /\ given = [key \in DOMAIN given |-> given[key]]
    /\ DOMAIN given = {e.view_models[i].key : i \in DOMAIN e.view_models}
    /\ \A i \in DOMAIN e.view_models : given[e.view_models[i].key] = HandedOut(e, i)

\* The loaded periods: what was parsed, merged or edited.
IsPeriodMap(map) ==
    /\ map \in [DOMAIN map -> Dates] /\ IsFiniteSet(DOMAIN map)
    /\ \A key \in DOMAIN map : IsExamPeriod(map[key])

\* Every key has a position in the sequence of the keys, and only one.
LEMMA SeqOfSet ==
    ASSUME NEW S, IsFiniteSet(S)
    PROVE /\ SetToSeq(S) \in [1 .. Cardinality(S) -> S] /\ Cardinality(S) \in Nat
          /\ \A i, j \in 1 .. Cardinality(S) : SetToSeq(S)[i] = SetToSeq(S)[j] => i = j
          /\ \A x \in S : \E i \in 1 .. Cardinality(S) : SetToSeq(S)[i] = x
<1> DEFINE n == Cardinality(S)
<1>1. n \in Nat /\ ExistsBijection(1 .. n, S)
  BY FS_CardinalityType
<1>2. PICK f \in [1 .. n -> S] : IsInjective(f)
  BY <1>1 DEF ExistsBijection, Bijection, Injection
<1>3. SetToSeq(S) \in [1 .. n -> S] /\ IsInjective(SetToSeq(S))
  BY <1>2 DEF SetToSeq
<1>4. SetToSeq(S) \in Surjection(1 .. n, S)
  <2>1. SetToSeq(S) \in Injection(1 .. n, S)
    BY <1>3 DEF Injection
  <2>2. Cardinality(1 .. n) = n
    BY <1>1, FS_Interval
  <2> QED
    BY <2>1, <2>2, FS_Injection
<1> QED
  BY <1>1, <1>3, <1>4 DEF IsInjective, Surjection

\* What apply returns: every view model with the period the editor hands out.
LEMMA ApplyHandsOut ==
    ASSUME NEW e, IsEditor(e)
    PROVE /\ apply(e) = [i \in DOMAIN e.view_models |->
                            [key |-> e.view_models[i].key, period |-> HandedOut(e, i)]]
          /\ save_current_period(e) =
                [view_models |-> apply(e), index |-> e.index, shown |-> e.shown]
  BY DEF IsEditor, apply, save_current_period, HandedOut

\* View models with distinct keys are the edits of their keys.
LEMMA EditsAreKeyed ==
    ASSUME NEW e, IsEditor(e), NEW given, HandsOut(e, given)
    PROVE EditsByKey(apply(e)) = given
<1> DEFINE vms == apply(e)
<1>1. /\ DOMAIN vms = DOMAIN e.view_models
      /\ \A i \in DOMAIN vms : /\ vms[i].key = e.view_models[i].key
                               /\ vms[i].period = HandedOut(e, i)
  BY ApplyHandsOut
<1> HIDE DEF vms
<1>2. {vm.key : vm \in Range(vms)} = DOMAIN given
  BY <1>1 DEF Range, HandsOut
<1>3. ASSUME NEW key \in DOMAIN given
      PROVE (CHOOSE vm \in Range(vms) : vm.key = key).period = given[key]
  <2>1. PICK i \in DOMAIN vms : vms[i].key = key
    BY <1>1 DEF HandsOut
  <2>2. \A vm \in Range(vms) : vm.key = key => vm = vms[i]
    BY <1>1, <2>1 DEF Range, IsEditor
  <2>3. vms[i] \in Range(vms)
    BY DEF Range
  <2>4. (CHOOSE vm \in Range(vms) : vm.key = key) = vms[i]
    BY <2>1, <2>2, <2>3
  <2> QED
    BY <1>1, <2>1, <2>4 DEF HandsOut
<1> QED
  BY <1>2, <1>3 DEF EditsByKey, HandsOut, vms

\* The keys of the view models, whichever period is on display.
LEMMA KeysOfEditor ==
    ASSUME NEW e, IsEditor(e)
    PROVE DOMAIN EditsByKey(e.view_models) = {e.view_models[i].key : i \in DOMAIN e.view_models}
  BY DEF EditsByKey, Range

-----------------------------------------------------------------------------
(* What the user does to the editor *)

\* Writing the working copy back changes nothing that is handed out.
LEMMA SaveKeeps ==
    ASSUME NEW e, IsEditor(e), NEW given, HandsOut(e, given)
    PROVE IsEditor(save_current_period(e)) /\ HandsOut(save_current_period(e), given)
<1> DEFINE s == save_current_period(e)
<1>1. /\ DOMAIN s.view_models = DOMAIN e.view_models
      /\ s = [view_models |-> s.view_models, index |-> s.index, shown |-> s.shown]
      /\ s.index = e.index /\ s.shown = e.shown
      /\ s.view_models = [i \in DOMAIN e.view_models |->
                             [key |-> e.view_models[i].key, period |-> HandedOut(e, i)]]
  BY ApplyHandsOut
<1> HIDE DEF s
<1>2. IsEditor(s)
  BY <1>1 DEF IsEditor, HandedOut
<1>3. HandsOut(s, given)
  <2>1. /\ DOMAIN s.view_models = DOMAIN e.view_models
        /\ \A i \in DOMAIN e.view_models :
              s.view_models[i].key = e.view_models[i].key /\ HandedOut(s, i) = HandedOut(e, i)
    BY <1>1 DEF HandedOut
  <2> QED
    BY <2>1 DEF HandsOut
<1> QED
  BY <1>2, <1>3 DEF s

\* Nor does moving to another period.
LEMMA MoveKeeps ==
    ASSUME NEW e, IsEditor(e), NEW given, HandsOut(e, given), NEW i \in DOMAIN e.view_models
    PROVE IsEditor(Move(e, i)) /\ HandsOut(Move(e, i), given)
<1> DEFINE s == save_current_period(e)
<1>1. /\ DOMAIN s.view_models = DOMAIN e.view_models
      /\ s.index = e.index /\ s.shown = e.shown
      /\ s.view_models = [j \in DOMAIN e.view_models |->
                             [key |-> e.view_models[j].key, period |-> HandedOut(e, j)]]
  BY ApplyHandsOut
<1>2. Move(e, i) = [view_models |-> s.view_models, index |-> i,
                    shown |-> s.view_models[i].period]
  BY DEF Move, ShowPeriod
<1> DEFINE m == Move(e, i)
<1> HIDE DEF s, m
<1>3. m = [view_models |-> s.view_models, index |-> i, shown |-> s.view_models[i].period]
  BY <1>2 DEF m
<1>4. IsEditor(m)
  BY <1>1, <1>3 DEF IsEditor, HandedOut
<1>5. HandsOut(m, given)
  <2>1. /\ DOMAIN m.view_models = DOMAIN e.view_models
        /\ \A j \in DOMAIN e.view_models :
              m.view_models[j].key = e.view_models[j].key /\ HandedOut(m, j) = HandedOut(e, j)
    BY <1>1, <1>3 DEF HandedOut
  <2> QED
    BY <2>1 DEF HandsOut
<1> QED
  BY <1>4, <1>5 DEF m

\* A new working copy is handed out under the key on display.
LEMMA ChangeIsHandedOut ==
    ASSUME NEW e, IsEditor(e), NEW given, HandsOut(e, given), NEW period \in Dates,
           NEW c, c = [e EXCEPT !.shown = period]
    PROVE IsEditor(c) /\ HandsOut(c, [given EXCEPT ![ShownKey(e)] = period])
<1>1. c = [view_models |-> e.view_models, index |-> e.index, shown |-> period]
  BY DEF IsEditor
<1>2. IsEditor(c)
  BY <1>1 DEF IsEditor
<1> DEFINE new == [given EXCEPT ![ShownKey(e)] = period]
<1>3. HandsOut(c, new)
  <2>1. /\ c.view_models = e.view_models /\ c.index = e.index
        /\ \A i \in DOMAIN e.view_models :
              HandedOut(c, i) = IF i = e.index THEN period ELSE HandedOut(e, i)
    BY <1>1 DEF HandedOut
  <2>2. ShownKey(e) \in DOMAIN given
    BY DEF ShownKey, IsEditor, HandsOut
  <2>3. /\ DOMAIN new = DOMAIN given /\ new = [key \in DOMAIN new |-> new[key]]
        /\ new[ShownKey(e)] = period
        /\ \A key \in DOMAIN given \ {ShownKey(e)} : new[key] = given[key]
    BY <2>2 DEF HandsOut
  <2>4. ASSUME NEW i \in DOMAIN e.view_models
        PROVE new[e.view_models[i].key] = HandedOut(c, i)
    <3>1. CASE i = e.index
      BY <2>1, <2>3, <3>1 DEF ShownKey
    <3>2. CASE i # e.index
      <4>1. e.view_models[i].key \in DOMAIN given \ {ShownKey(e)}
        BY <3>2 DEF ShownKey, IsEditor, HandsOut
      <4> QED
        BY <2>1, <2>3, <3>2, <4>1 DEF HandsOut
    <3> QED
      BY <3>1, <3>2
  <2> QED
    BY <2>1, <2>3, <2>4 DEF HandsOut
<1> QED
  BY <1>2, <1>3 DEF new

\* A new editor hands out the periods it was made of.
LEMMA NewEditorHandsOut ==
    ASSUME NEW map, IsPeriodMap(map), map # Nothing
    PROVE IsEditor(NewEditor(map)) /\ HandsOut(NewEditor(map), map)
<1> DEFINE keys == SetToSeq(DOMAIN map)
           n == Cardinality(DOMAIN map)
           e == NewEditor(map)
<1>1. /\ n \in Nat /\ keys \in [1 .. n -> DOMAIN map]
      /\ \A i, j \in 1 .. n : keys[i] = keys[j] => i = j
      /\ \A key \in DOMAIN map : \E i \in 1 .. n : keys[i] = key
  BY SeqOfSet DEF IsPeriodMap
<1>2. e = [view_models |-> [i \in DOMAIN keys |-> [key |-> keys[i], period |-> map[keys[i]]]],
           index |-> 1, shown |-> map[keys[1]]]
  <2>1. 1 \in 1 .. n
    <3>1. DOMAIN map # {}
      BY DEF IsPeriodMap
    <3> QED
      BY <1>1, <3>1
  <2> QED
    BY <1>1, <2>1 DEF NewEditor, ShowPeriod, to_period_edit_vms
<1>3. 1 \in 1 .. n
  <2>1. DOMAIN map # {}
    BY DEF IsPeriodMap
  <2> QED
    BY <1>1, <2>1
<1>4. DOMAIN keys = 1 .. n
  BY <1>1
<1> HIDE DEF keys, n, e
<1>5. IsEditor(e)
  BY <1>1, <1>2, <1>3, <1>4 DEF IsEditor, IsPeriodMap
<1>6. HandsOut(e, map)
  <2>1. /\ DOMAIN e.view_models = 1 .. n
        /\ \A i \in 1 .. n : e.view_models[i].key = keys[i] /\ HandedOut(e, i) = map[keys[i]]
    BY <1>2, <1>4 DEF HandedOut
  <2>2. {e.view_models[i].key : i \in 1 .. n} = DOMAIN map
    <3>1. \A i \in 1 .. n : keys[i] \in DOMAIN map
      BY <1>1
    <3>2. \A key \in DOMAIN map : \E i \in 1 .. n : keys[i] = key
      BY <1>1
    <3>3. {e.view_models[i].key : i \in 1 .. n} \subseteq DOMAIN map
      BY <2>1, <3>1
    <3>4. ASSUME NEW key \in DOMAIN map PROVE key \in {e.view_models[i].key : i \in 1 .. n}
      <4>1. PICK i \in 1 .. n : keys[i] = key
        BY <3>2
      <4>2. e.view_models[i].key = key
        BY <2>1, <4>1
      <4> QED
        BY <4>2
    <3> QED
      BY <3>3, <3>4
  <2> QED
    BY <1>1, <2>1, <2>2 DEF HandsOut, IsPeriodMap
<1> QED
  BY <1>5, <1>6 DEF e

-----------------------------------------------------------------------------
(* The editor hands out what the user wants *)

\* The editor hands out the periods as loaded with what the user did to them
\* since, which is why its history variable can stand for it everywhere else.
EditorInv ==
    IF editor = NoEditor THEN wanted = Nothing
    ELSE IsEditor(editor) /\ HandsOut(editor, wanted)

\* What the editor hands out is what the history variable says.
LEMMA EditedIsWanted == EditorInv => Edited = wanted
<1> SUFFICES ASSUME EditorInv PROVE Edited = wanted
  OBVIOUS
<1>1. CASE editor = NoEditor
  BY <1>1 DEF EditorInv, Edited
<1>2. CASE editor # NoEditor
  BY <1>2, EditsAreKeyed DEF EditorInv, Edited
<1> QED
  BY <1>1, <1>2

\* An editor is not the absence of one.
LEMMA EditorIsThere == ASSUME NEW e, IsEditor(e) PROVE e # NoEditor
  BY DEF IsEditor, NoEditor

\* The periods of the editor have dates.
LEMMA WantedAreDates ==
    ASSUME EditorInv, NEW key \in DOMAIN wanted
    PROVE wanted[key] \in Dates
<1>1. editor # NoEditor
  BY DEF EditorInv
<1>2. PICK i \in DOMAIN editor.view_models : editor.view_models[i].key = key
  BY <1>1 DEF EditorInv, HandsOut
<1>3. wanted[key] = HandedOut(editor, i)
  BY <1>1, <1>2 DEF EditorInv, HandsOut
<1> QED
  BY <1>1, <1>3 DEF EditorInv, HandedOut, IsEditor

\* Applying the edits leaves what the editor hands out, and periods.
LEMMA EditsApplied ==
    ASSUME EditorInv, IsPeriodMap(periods), ApplyEdits, wanted' = wanted
    PROVE /\ EditorInv'
          /\ IsPeriodMap(periods') /\ DOMAIN periods' = DOMAIN periods
          /\ Usable => \A key \in DOMAIN periods :
                periods'[key] = IF key \in DOMAIN wanted THEN wanted[key] ELSE periods[key]
          /\ ~Usable => periods' = periods
<1>1. EditorInv'
  <2>1. CASE editor = NoEditor
    BY <2>1 DEF ApplyEdits, EditorInv
  <2>2. CASE editor # NoEditor
    BY <2>2, SaveKeeps, EditorIsThere DEF ApplyEdits, EditorInv
  <2> QED
    BY <2>1, <2>2
<1>2. CASE Usable
  <2>1. periods' = [key \in DOMAIN periods |->
                       IF key \in DOMAIN wanted THEN wanted[key] ELSE periods[key]]
    BY <1>2, EditedIsWanted DEF ApplyEdits, apply_period_edits
  <2>2. \A key \in DOMAIN wanted \cap DOMAIN periods : IsExamPeriod(wanted[key])
    BY <1>2, EditedIsWanted DEF Usable
  <2>3. \A key \in DOMAIN periods : periods'[key] \in Dates /\ IsExamPeriod(periods'[key])
    BY <2>1, <2>2, WantedAreDates DEF IsPeriodMap
  <2> QED
    BY <1>1, <1>2, <2>1, <2>3 DEF IsPeriodMap
<1>3. CASE ~Usable
  BY <1>1, <1>3 DEF ApplyEdits
<1> QED
  BY <1>2, <1>3

\* What the user does to the editor, the history variable follows.
LEMMA EditorStep ==
    ASSUME EditorInv, IsPeriodMap(periods), [ScreenNext]_allVars
    PROVE EditorInv'
<1> USE DEF runVars
<1>1. CASE ClickLoad
  BY <1>1, EditsApplied DEF ClickLoad
<1>2. CASE LoadNothing
  BY <1>2, EditsApplied DEF LoadNothing
<1>3. CASE ClickGenerate
  BY <1>3, EditsApplied DEF ClickGenerate
<1>4. CASE LoadReturns
  <2>1. CASE UNCHANGED <<editor, wanted>>
    BY <2>1 DEF EditorInv
  <2>2. CASE periods # Nothing /\ ShowPeriods
    BY <2>2, NewEditorHandsOut, EditorIsThere DEF EditorInv, ShowPeriods
  <2> QED
    BY <1>4, <2>1, <2>2 DEF LoadReturns, ShowCourses
<1>5. ASSUME NEW period \in Dates, NEW c, editor # NoEditor,
             c = [editor EXCEPT !.shown = period], ChangeShown(c, period)
      PROVE EditorInv'
  BY <1>5, ChangeIsHandedOut, EditorIsThere DEF EditorInv, ChangeShown
<1>6. editor # NoEditor => /\ wanted[ShownKey(editor)] = editor.shown /\ editor.shown \in Dates
                           /\ editor = [view_models |-> editor.view_models,
                                        index |-> editor.index, shown |-> editor.shown]
  BY DEF EditorInv, IsEditor, HandsOut, HandedOut, ShownKey
<1>7. CASE EditDates
  <2>1. editor # NoEditor
    BY <1>7 DEF EditDates
  <2>2. PICK day \in Days :
          \/ ChangeShown(set_date_range(editor, day, editor.shown.end),
                         [editor.shown EXCEPT !.start = day])
          \/ ChangeShown(set_date_range(editor, editor.shown.start, day),
                         [editor.shown EXCEPT !.end = day])
    BY <1>6, <1>7 DEF EditDates
  <2>3. day \in Nat
    BY ScreenAssumption
  <2>4. /\ [editor.shown EXCEPT !.start = day] \in Dates
        /\ [editor.shown EXCEPT !.end = day] \in Dates
    BY <1>6, <2>1, <2>3 DEF Dates
  <2>5. /\ set_date_range(editor, day, editor.shown.end) =
              [editor EXCEPT !.shown = [editor.shown EXCEPT !.start = day]]
        /\ set_date_range(editor, editor.shown.start, day) =
              [editor EXCEPT !.shown = [editor.shown EXCEPT !.end = day]]
    BY <1>6, <2>1 DEF set_date_range, Dates
  <2> QED
    BY <1>5, <2>1, <2>2, <2>4, <2>5
<1>8. CASE ToggleDay
  <2>1. editor # NoEditor
    BY <1>8 DEF ToggleDay
  <2>2. PICK day \in Days :
          ChangeShown(toggle(editor, day), [editor.shown EXCEPT !.excluded = Toggled(@, day)])
    BY <1>6, <1>8 DEF ToggleDay
  <2>3. day \in Nat
    BY ScreenAssumption
  <2>4. [editor.shown EXCEPT !.excluded = Toggled(@, day)] \in Dates
    BY <1>6, <2>1, <2>3 DEF Dates, Toggled
  <2>5. toggle(editor, day) =
              [editor EXCEPT !.shown = [editor.shown EXCEPT !.excluded = Toggled(@, day)]]
    BY <1>6, <2>1 DEF toggle
  <2> QED
    BY <1>5, <2>1, <2>2, <2>4, <2>5
<1>9. CASE MoveToPeriod
  <2>1. PICK i \in DOMAIN editor.view_models : editor' = Move(editor, i)
    BY <1>9 DEF MoveToPeriod
  <2> QED
    BY <1>9, <2>1, MoveKeeps, EditorIsThere DEF MoveToPeriod, EditorInv
<1>10. CASE RestartScreen
  BY <1>10 DEF RestartScreen, EditorInv
<1>11. CASE \/ LoadStep \/ SelectPrograms \/ ApplySettings \/ ClickCancel \/ NavigateToOutput
            \/ RunEnds \/ ViewResults \/ Back \/ UNCHANGED screenVars
  <2>1. UNCHANGED <<editor, wanted>>
    BY <1>11 DEF LoadStep, SelectPrograms, ApplySettings, ClickCancel, NavigateToOutput,
                 RunEnds, ViewResults, Back, screenVars
  <2> QED
    BY <2>1 DEF EditorInv
<1> QED
  BY <1>1, <1>2, <1>3, <1>4, <1>7, <1>8, <1>9, <1>10, <1>11
    DEF ScreenNext, Loads, Edit, Runs, allVars

-----------------------------------------------------------------------------
(* The types of the import *)

IsCourseMap(map) == map \in CourseMaps /\ IsFiniteSet(DOMAIN map)

FileTypes ==
    file = [p \in Paths |-> file[p]] /\ \A p \in Paths : file[p] \in ContentsOf(p)
DataTypes ==
    /\ IsCourseMap(courses) /\ IsCourseMap(cache.courses)
    /\ IsPeriodMap(periods) /\ IsPeriodMap(cache.periods)
PathTypes ==
    /\ DOMAIN loadedPaths \subseteq Types
    /\ \A t \in DOMAIN loadedPaths : loadedPaths[t] \in Paths /\ TypeOf(loadedPaths[t]) = t
    /\ DOMAIN cache.hashes \subseteq Paths
    /\ \A p, q \in DOMAIN cache.hashes : p # q => TypeOf(p) # TypeOf(q)
    /\ shown \subseteq Types
LoadTypes ==
    /\ pc \in {"idle", "cache", "parse", "persist"}
    /\ pc # "idle" => /\ request \in {Load(p, m) : p \in Paths, m \in Modes}
                      /\ TypeOf(request.path) \in DOMAIN loadedPaths
                      /\ loadedPaths[TypeOf(request.path)] = request.path
                      /\ outcome = NoOutcome
    /\ pc = "idle" => request = NoLoad
    /\ outcome.status = "success" => outcome.load \in {Load(p, m) : p \in Paths, m \in Modes}
ImportTypes == FileTypes /\ DataTypes /\ PathTypes /\ LoadTypes

\* The clicks that apply the edits and load nothing.
EditsOnly ==
    /\ Click /\ ApplyEdits /\ wanted' = wanted
    /\ IF Usable THEN outcome' = NoOutcome ELSE outcome' = outcome
    /\ UNCHANGED <<file, courses, loadedPaths, cache, shown, pc, request, seen, faults, loading,
                   programs>>

\* The click that applies the edits and begins a load.
EditsAndLoad ==
    /\ AtScreen /\ Usable /\ ApplyEdits
    /\ \E path \in Paths, mode \in Modes : BeginLoad(path, mode)
    /\ loading' = TRUE
    /\ UNCHANGED <<courses, wanted, programs>>

\* The rest of what the user does, and of what happens to a run.
OtherClick ==
    /\ UNCHANGED <<loading, programs>> /\ DOMAIN wanted' = DOMAIN wanted
    /\ Click \/ UNCHANGED <<editor, wanted>>

\* What a step of the screen is to the import.
LEMMA ImportStep ==
    ASSUME [ScreenNext]_allVars
    PROVE \/ UNCHANGED vars /\ (LoadReturns \/ OtherClick)
          \/ EditsOnly \/ EditsAndLoad
          \/ loading /\ LoadSteps /\ UNCHANGED screenVars
          \/ RestartScreen
          \/ (ChangeFile \/ LoseCache) /\ UNCHANGED screenVars
<1>1. CASE LoadNothing \/ ClickGenerate
  BY <1>1 DEF LoadNothing, ClickGenerate, EditsOnly, counters, runVars
<1>2. CASE ClickLoad
  BY <1>2 DEF ClickLoad, EditsAndLoad
<1>3. CASE LoadStep
  BY <1>3 DEF LoadStep
<1>4. CASE Edit \/ ClickCancel \/ NavigateToOutput \/ RunEnds \/ ViewResults \/ Back
  BY <1>4 DEF Edit, EditDates, ToggleDay, MoveToPeriod, SelectPrograms, ApplySettings, ChangeShown,
              ClickCancel, NavigateToOutput, RunEnds, ViewResults, Back, OtherClick
<1>5. CASE LoadReturns
  BY <1>5 DEF LoadReturns
<1>6. CASE UNCHANGED allVars
  BY <1>6 DEF allVars, screenVars, OtherClick
<1> QED
  BY <1>1, <1>2, <1>3, <1>4, <1>5, <1>6 DEF ScreenNext, Loads, Runs

\* No data is data.
LEMMA NothingTypes == IsCourseMap(<<>>) /\ IsPeriodMap(<<>>)
<1> DEFINE ids == UNION {DOMAIN c : c \in CourseContents}
           versions == UNION {Range(c) : c \in CourseContents}
<1>1. IsFiniteSet({}) /\ DOMAIN <<>> = {}
  BY FS_EmptySet
<1>2. <<>> \in [{} -> versions] /\ {} \in SUBSET ids
  BY <1>1
<1> HIDE DEF ids, versions
<1>3. <<>> \in UNION {[some -> versions] : some \in SUBSET ids}
  BY <1>2
<1>4. <<>> \in CourseMaps
  BY <1>3 DEF CourseMaps, ids, versions
<1> QED
  BY <1>1, <1>4 DEF IsCourseMap, IsPeriodMap

\* What a file that parses holds.
LEMMA ParsedTypes ==
    ASSUME NEW path \in Paths, file[path] \in ContentsOf(path), file[path] \notin {Broken, Missing}
    PROVE /\ TypeOf(path) = "courses" => IsCourseMap(file[path])
          /\ TypeOf(path) # "courses" => IsPeriodMap(file[path])
<1>1. file[path] = <<>> => IsCourseMap(file[path]) /\ IsPeriodMap(file[path])
  BY NothingTypes
<1>2. CASE path \in CourseFiles /\ file[path] # <<>>
  <2>1. file[path] \in CourseContents
    BY <1>2 DEF ContentsOf
  <2>2. /\ IsFiniteSet(DOMAIN file[path]) /\ file[path] \in [DOMAIN file[path] -> Range(file[path])]
        /\ DOMAIN file[path] \subseteq UNION {DOMAIN c : c \in CourseContents}
        /\ Range(file[path]) \subseteq UNION {Range(c) : c \in CourseContents}
    BY <2>1, ImportAssumption
  <2> QED
    BY <1>2, <2>2 DEF IsCourseMap, CourseMaps, TypeOf
<1>3. CASE path \notin CourseFiles /\ file[path] # <<>>
  <2>1. file[path] \in PeriodContents
    BY <1>3 DEF ContentsOf
  <2> QED
    BY <1>3, <2>1, ImportAssumption DEF IsPeriodMap, IsExamPeriod, TypeOf
<1> QED
  BY <1>1, <1>2, <1>3

\* Merged courses are courses.
LEMMA MergedCourses ==
    ASSUME NEW old, IsCourseMap(old), NEW new, IsCourseMap(new)
    PROVE IsCourseMap(MergeCourses(old, new))
<1> DEFINE ids == UNION {DOMAIN c : c \in CourseContents}
           versions == UNION {Range(c) : c \in CourseContents}
           merged == MergeCourses(old, new)
<1>1. /\ DOMAIN old \subseteq ids /\ \A id \in DOMAIN old : old[id] \in versions
      /\ DOMAIN new \subseteq ids /\ \A id \in DOMAIN new : new[id] \in versions
  BY DEF IsCourseMap, CourseMaps
<1> HIDE DEF ids, versions
<1>2. DOMAIN merged \subseteq ids /\ merged \in [DOMAIN merged -> versions]
  BY <1>1 DEF MergeCourses
<1>3. IsFiniteSet(DOMAIN merged)
  BY FS_Union DEF IsCourseMap, MergeCourses
<1> QED
  BY <1>2, <1>3 DEF IsCourseMap, CourseMaps, ids, versions

\* Merged periods are periods: an incoming period has the dates of its file.
LEMMA MergedPeriods ==
    ASSUME NEW old, IsPeriodMap(old), NEW new, IsPeriodMap(new)
    PROVE IsPeriodMap(MergePeriods(old, new))
<1> DEFINE merged == MergePeriods(old, new)
<1>1. DOMAIN merged = DOMAIN old \cup DOMAIN new /\ merged = [key \in DOMAIN merged |-> merged[key]]
  BY DEF MergePeriods
<1>2. IsFiniteSet(DOMAIN merged)
  BY FS_Union DEF IsPeriodMap, MergePeriods
<1>3. ASSUME NEW key \in DOMAIN merged
      PROVE merged[key] \in Dates /\ IsExamPeriod(merged[key])
  <2>1. CASE key \notin DOMAIN new
    BY <1>1, <2>1 DEF MergePeriods, IsPeriodMap
  <2>2. CASE key \in DOMAIN new /\ key \notin DOMAIN old
    BY <1>1, <2>2 DEF MergePeriods, IsPeriodMap
  <2>3. CASE key \in DOMAIN new /\ key \in DOMAIN old
    <3>1. merged[key] = MergePeriod(old[key], new[key])
      BY <1>1, <2>3 DEF MergePeriods
    <3>2. old[key] \in Dates /\ new[key] \in Dates /\ IsExamPeriod(new[key])
      BY <2>3 DEF IsPeriodMap
    <3> QED
      BY <3>1, <3>2 DEF MergePeriod, Dates, IsExamPeriod
  <2> QED
    BY <2>1, <2>2, <2>3
<1> HIDE DEF merged
<1> QED
  BY <1>1, <1>2, <1>3 DEF IsPeriodMap, merged

\* The import starts in its types.
LEMMA ImportTypesInit == Init => ImportTypes
<1> SUFFICES ASSUME Init PROVE ImportTypes
  OBVIOUS
<1>1. FileTypes
  BY DEF Init, FileTypes
<1>2. DataTypes
  BY NothingTypes DEF Init, DataTypes, NoCache
<1>3. PathTypes
  BY DEF Init, PathTypes, NoCache
<1>4. LoadTypes
  BY DEF Init, LoadTypes, NoOutcome, Outcome
<1> QED
  BY <1>1, <1>2, <1>3, <1>4 DEF ImportTypes

\* Types depend on their variables only.
LEMMA TypesStay ==
    /\ FileTypes /\ UNCHANGED <<file, faults>> => FileTypes'
    /\ DataTypes /\ UNCHANGED <<courses, periods, cache>> => DataTypes'
    /\ PathTypes /\ UNCHANGED <<loadedPaths, cache, shown>> => PathTypes'
    /\ LoadTypes /\ UNCHANGED <<pc, request, outcome, loadedPaths>> => LoadTypes'
<1>1. FileTypes /\ UNCHANGED <<file, faults>> => FileTypes'
  BY DEF FileTypes, ContentsOf
<1>2. DataTypes /\ UNCHANGED <<courses, periods, cache>> => DataTypes'
  BY DEF DataTypes
<1>3. PathTypes /\ UNCHANGED <<loadedPaths, cache, shown>> => PathTypes'
  BY DEF PathTypes
<1>4. LoadTypes /\ UNCHANGED <<pc, request, outcome, loadedPaths>> => LoadTypes'
  BY DEF LoadTypes
<1> QED
  BY <1>1, <1>2, <1>3, <1>4

\* Every step of the screen keeps the types of the import.
LEMMA ImportTypesStep ==
    ASSUME ImportTypes, EditorInv, [ScreenNext]_allVars
    PROVE ImportTypes'
<1> USE DEF counters, state
<1>1. CASE UNCHANGED vars
  BY <1>1, TypesStay DEF vars, ImportTypes
<1>2. CASE EditsOnly
  <2>1. DataTypes'
    BY <1>2, EditsApplied DEF EditsOnly, ImportTypes, DataTypes
  <2>2. LoadTypes'
    <3>1. pc = "idle" /\ (outcome' = NoOutcome \/ outcome' = outcome)
      BY <1>2 DEF EditsOnly, Click, AtScreen
    <3> QED
      BY <1>2, <3>1 DEF EditsOnly, ImportTypes, LoadTypes, NoOutcome, Outcome
  <2> QED
    BY <1>2, <2>1, <2>2, TypesStay DEF EditsOnly, ImportTypes
<1>3. CASE EditsAndLoad
  <2>1. PICK path \in Paths, mode \in Modes : BeginLoad(path, mode)
    BY <1>3 DEF EditsAndLoad
  <2>2. DataTypes'
    BY <1>3, <2>1, EditsApplied DEF EditsAndLoad, BeginLoad, ImportTypes, DataTypes
  <2>3. FileTypes'
    BY <2>1, TypesStay DEF BeginLoad, ImportTypes
  <2>4. CASE file[path] = Missing
    <3>1. PathTypes'
      BY <2>1, <2>4, TypesStay DEF BeginLoad, ImportTypes
    <3>2. LoadTypes'
      BY <1>3, <2>1, <2>4 DEF EditsAndLoad, AtScreen, BeginLoad, ImportTypes, LoadTypes, Outcome
    <3> QED
      BY <2>2, <2>3, <3>1, <3>2 DEF ImportTypes
  <2>5. CASE file[path] # Missing
    <3>1. TypeOf(path) \in Types /\ FirstStep(mode) \in {"cache", "parse"}
      BY DEF TypeOf, Types, FirstStep
    <3>2. /\ loadedPaths' = Remember(path) /\ pc' = FirstStep(mode)
          /\ request' = Load(path, mode) /\ outcome' = NoOutcome
          /\ UNCHANGED <<cache, shown>>
      BY <2>1, <2>5 DEF BeginLoad
    <3>3. /\ DOMAIN loadedPaths' \subseteq Types
          /\ \A t \in DOMAIN loadedPaths' : loadedPaths'[t] \in Paths /\ TypeOf(loadedPaths'[t]) = t
          /\ TypeOf(path) \in DOMAIN loadedPaths' /\ loadedPaths'[TypeOf(path)] = path
      BY <3>1, <3>2 DEF ImportTypes, PathTypes, Remember
    <3>4. PathTypes'
      BY <3>2, <3>3 DEF ImportTypes, PathTypes
    <3>5. LoadTypes'
      BY <3>1, <3>2, <3>3 DEF LoadTypes, Load, NoOutcome, Outcome
    <3> QED
      BY <2>2, <2>3, <3>4, <3>5 DEF ImportTypes
  <2> QED
    BY <2>4, <2>5
<1>4. ASSUME LoadSteps PROVE ImportTypes'
  <2>1. CASE MissCache
    <3>1. LoadTypes'
      BY <2>1 DEF MissCache, ImportTypes, LoadTypes
    <3> QED
      BY <2>1, <3>1, TypesStay DEF MissCache, ImportTypes
  <2>2. ASSUME NEW status, Return(status), pc # "idle", UNCHANGED <<file, loadedPaths, faults>>,
               DataTypes', cache'.hashes = cache.hashes \/ cache'.hashes = Current(Range(loadedPaths))
        PROVE ImportTypes'
    <3>1. TypeOf(request.path) \in Types
      BY DEF TypeOf, Types
    <3>2. /\ DOMAIN cache'.hashes \subseteq Paths
          /\ \A p, q \in DOMAIN cache'.hashes : p # q => TypeOf(p) # TypeOf(q)
      BY <2>2 DEF ImportTypes, PathTypes, Current, Range
    <3>3. PathTypes'
      BY <2>2, <3>1, <3>2 DEF ImportTypes, PathTypes, Return, Flag
    <3>4. LoadTypes'
      BY <2>2 DEF ImportTypes, LoadTypes, Return, Outcome
    <3> QED
      BY <2>2, <3>3, <3>4, TypesStay DEF ImportTypes
  <2>3. CASE LoadCache
    <3>1. DataTypes'
      BY <2>3 DEF LoadCache, ImportTypes, DataTypes
    <3> QED
      BY <2>2, <2>3, <3>1 DEF LoadCache
  <2>4. CASE ParseFails
    <3>1. DataTypes'
      BY <2>4, TypesStay DEF ParseFails, ImportTypes
    <3> QED
      BY <2>2, <2>4, <3>1 DEF ParseFails
  <2>5. CASE Persist
    <3>1. DataTypes'
      BY <2>5 DEF Persist, CacheOf, ImportTypes, DataTypes
    <3>2. cache'.hashes = Current(Range(loadedPaths))
      BY <2>5 DEF Persist, CacheOf
    <3> QED
      BY <2>2, <2>5, <3>1, <3>2 DEF Persist
  <2>6. CASE PersistFails
    <3>1. DataTypes'
      BY <2>6, TypesStay DEF PersistFails, ImportTypes
    <3> QED
      BY <2>2, <2>6, <3>1 DEF PersistFails
  <2>7. CASE ParseAndMerge
    <3>1. request.path \in Paths /\ file[request.path] \in ContentsOf(request.path)
      BY <2>7 DEF ParseAndMerge, ImportTypes, FileTypes, LoadTypes, Load
    <3>2. /\ TypeOf(request.path) = "courses" => IsCourseMap(file[request.path])
          /\ TypeOf(request.path) # "courses" => IsPeriodMap(file[request.path])
      BY <2>7, <3>1, ParsedTypes DEF ParseAndMerge
    <3>3. IsCourseMap(courses) /\ IsPeriodMap(periods)
      BY DEF ImportTypes, DataTypes
    <3>4. IsCourseMap(courses') /\ IsPeriodMap(periods')
      BY <2>7, <3>2, <3>3, MergedCourses, MergedPeriods DEF ParseAndMerge, Merge
    <3>5. DataTypes'
      BY <2>7, <3>4 DEF ParseAndMerge, ImportTypes, DataTypes
    <3>6. LoadTypes'
      BY <2>7 DEF ParseAndMerge, ImportTypes, LoadTypes
    <3> QED
      BY <2>7, <3>5, <3>6, TypesStay DEF ParseAndMerge, ImportTypes
  <2> QED
    BY <1>4, <2>1, <2>3, <2>4, <2>5, <2>6, <2>7 DEF LoadSteps
<1>5. CASE RestartScreen
  <2>1. Restart
    BY <1>5 DEF RestartScreen
  <2>2. DataTypes'
    BY <2>1, NothingTypes DEF Restart, ImportTypes, DataTypes
  <2>3. PathTypes'
    BY <2>1 DEF Restart, ImportTypes, PathTypes
  <2>4. LoadTypes'
    BY <2>1 DEF Restart, LoadTypes, NoOutcome, Outcome
  <2> QED
    BY <2>1, <2>2, <2>3, <2>4, TypesStay DEF Restart, ImportTypes
<1>6. CASE ChangeFile
  <2>1. PICK path \in Paths : \E content \in ContentsOf(path) : file' = [file EXCEPT ![path] = content]
    BY <1>6 DEF ChangeFile
  <2>2. FileTypes'
    <3>1. file' = [p \in Paths |-> file'[p]] /\ \A p \in Paths : file'[p] \in ContentsOf(p)
      BY <2>1 DEF ImportTypes, FileTypes
    <3>2. faults' = faults
      BY <1>6 DEF ChangeFile
    <3> QED
      BY <3>1, <3>2 DEF FileTypes, ContentsOf
  <2> QED
    BY <1>6, <2>2, TypesStay DEF ChangeFile, ImportTypes
<1>7. CASE LoseCache
  <2>1. DataTypes'
    BY <1>7, NothingTypes DEF LoseCache, NoCache, ImportTypes, DataTypes
  <2>2. PathTypes'
    BY <1>7 DEF LoseCache, NoCache, ImportTypes, PathTypes
  <2> QED
    BY <1>7, <2>1, <2>2, TypesStay DEF LoseCache, ImportTypes
<1> QED
  BY <1>1, <1>2, <1>3, <1>4, <1>5, <1>6, <1>7, ImportStep

-----------------------------------------------------------------------------
(* A REPLACE is fresh *)

\* A load that replaces is never answered by the cache, and what it has merged
\* its file has held since it began.
FreshInv ==
    /\ pc # "idle" => loading /\ file[request.path] \in seen
    /\ pc # "idle" /\ request.mode = "replace" => pc \in {"parse", "persist"}
    /\ pc = "persist" /\ request.mode = "replace" =>
          (IF TypeOf(request.path) = "courses" THEN courses ELSE periods) \in seen
    /\ ReplaceIsFresh

\* A file that changes under a load has held both contents; every other step
\* of a load leaves its file, or ends it.
LEMMA FreshStep ==
    ASSUME ImportTypes, FreshInv, [ScreenNext]_allVars
    PROVE FreshInv'
<1> USE DEF Succeeded, LoadedType, counters, state, screenVars, FreshInv, ReplaceIsFresh
<1>1. CASE UNCHANGED vars /\ (LoadReturns \/ OtherClick)
  BY <1>1 DEF vars, LoadReturns, OtherClick
<1>2. CASE EditsOnly
  BY <1>2 DEF EditsOnly, Click, AtScreen, ApplyEdits, NoOutcome, Outcome
<1>3. CASE EditsAndLoad
  <2>1. PICK path \in Paths, mode \in Modes : BeginLoad(path, mode)
    BY <1>3 DEF EditsAndLoad
  <2>2. pc = "idle" /\ loading' = TRUE
    BY <1>3 DEF EditsAndLoad, AtScreen
  <2>3. CASE file[path] = Missing
    BY <2>1, <2>2, <2>3 DEF BeginLoad, Outcome
  <2>4. CASE file[path] # Missing
    BY <2>1, <2>2, <2>4 DEF BeginLoad, FirstStep, Load, Outcome, NoOutcome
  <2> QED
    BY <2>3, <2>4
<1>4. CASE loading /\ LoadSteps /\ UNCHANGED screenVars
  <2>1. pc # "idle" => outcome.status # "success" /\ request.path \in Paths
    BY DEF ImportTypes, LoadTypes, NoOutcome, Outcome, Load
  <2>2. CASE LoadCache \/ MissCache \/ ParseFails \/ Persist \/ PersistFails
    BY <1>4, <2>1, <2>2 DEF LoadCache, MissCache, ParseFails, Persist, PersistFails, Return, Outcome
  <2>3. CASE ParseAndMerge
    BY <1>4, <2>1, <2>3 DEF ParseAndMerge, Merge
  <2> QED
    BY <1>4, <2>2, <2>3 DEF LoadSteps
<1>5. CASE RestartScreen
  BY <1>5 DEF RestartScreen, Restart, NoOutcome, Outcome
<1>6. CASE ChangeFile /\ UNCHANGED screenVars
  <2>1. PICK path \in Paths : \E content \in ContentsOf(path) \ {file[path]} :
            /\ file' = [file EXCEPT ![path] = content]
            /\ seen' = IF path = request.path THEN seen \cup {content} ELSE seen
    BY <1>6 DEF ChangeFile
  <2>2. seen \subseteq seen'
    BY <2>1
  <2>3. pc # "idle" => file'[request.path] \in seen'
    BY <2>1 DEF ImportTypes, FileTypes
  <2> QED
    BY <1>6, <2>2, <2>3 DEF ChangeFile
<1>7. CASE LoseCache /\ UNCHANGED screenVars
  BY <1>7 DEF LoseCache
<1> QED
  BY <1>1, <1>2, <1>3, <1>4, <1>5, <1>6, <1>7, ImportStep

-----------------------------------------------------------------------------
(* Nothing new to generate *)

\* A load under way, or just returned, that brings the screen new data.
BringsNews == loading /\ (pc = "persist" \/ (pc = "idle" /\ outcome.status = "success"))

\* While the flag is down every input but the courses a load is bringing is that
\* of the last run.
SameInv ==
    ~dirty /\ selected # {} =>
        /\ lastRun # NoRun
        /\ lastRun.programs = selected /\ lastRun.config = config
        /\ lastRun.courses = courses \/ BringsNews
        /\ lastRun.wanted = wanted

\* Every handler that changes an input raises the flag; Generate puts it down
\* and starts a run of what there is.
LEMMA SameStep ==
    ASSUME ImportTypes, FreshInv, SameInv, [ScreenNext]_allVars
    PROVE SameInv'
<1> USE DEF counters, state, screenVars, runVars, SameInv, BringsNews
<1>1. CASE ClickGenerate
  <2>1. CASE Usable /\ selected # {}
    <3>1. lastRun' = [programs |-> selected, courses |-> courses, periods |-> periods',
                      config |-> config, wanted |-> wanted]
      BY <1>1, <2>1 DEF ClickGenerate, StartRun
    <3>2. lastRun'.programs # NoRun.programs
      BY <2>1, <3>1 DEF NoRun
    <3> QED
      BY <1>1, <3>1, <3>2 DEF ClickGenerate
  <2>2. CASE ~(Usable /\ selected # {})
    BY <1>1, <2>2 DEF ClickGenerate, StartRun, Click, AtScreen
  <2> QED
    BY <2>1, <2>2
<1>2. CASE LoadStep
  <2>1. CASE LoadCache \/ Persist \/ PersistFails \/ ParseAndMerge
    <3>1. loading /\ UNCHANGED screenVars
      BY <1>2 DEF LoadStep
    <3>2. CASE ParseAndMerge
      <4>1. pc' = "persist"
        BY <3>2 DEF ParseAndMerge
      <4>2. loading'
        BY <3>1
      <4>3. BringsNews'
        BY <4>1, <4>2 DEF BringsNews
      <4> QED
        BY <3>1, <4>3
    <3>3. CASE LoadCache \/ Persist \/ PersistFails
      <4>1. pc' = "idle" /\ outcome' = Outcome(request, "success")
        BY <3>3 DEF LoadCache, Persist, PersistFails, Return
      <4>2. BringsNews'
        BY <3>1, <4>1 DEF Outcome
      <4> QED
        BY <3>1, <4>2
    <3> QED
      BY <2>1, <3>2, <3>3
  <2>2. CASE MissCache \/ ParseFails
    BY <1>2, <2>2 DEF LoadStep, MissCache, ParseFails, Return
  <2> QED
    BY <1>2, <2>1, <2>2 DEF LoadStep, LoadSteps
<1>3. CASE LoadReturns
  BY <1>3 DEF LoadReturns, mark_inputs_dirty, ShowCourses, ShowPeriods, vars
<1>4. CASE ClickLoad \/ LoadNothing
  BY <1>4 DEF ClickLoad, LoadNothing, Click, AtScreen, ApplyEdits, BeginLoad
<1>5. CASE EditDates \/ ToggleDay \/ SelectPrograms \/ ApplySettings \/ ClickCancel
  BY <1>5 DEF EditDates, ToggleDay, SelectPrograms, ApplySettings, ClickCancel, ChangeShown,
              mark_inputs_dirty
<1>6. CASE MoveToPeriod \/ NavigateToOutput \/ RunEnds \/ ViewResults \/ Back
  BY <1>6 DEF MoveToPeriod, NavigateToOutput, RunEnds, ViewResults, Back, vars
<1>7. CASE RestartScreen
  BY <1>7 DEF RestartScreen
<1>8. CASE (ChangeFile \/ LoseCache) /\ UNCHANGED screenVars
  BY <1>8 DEF ChangeFile, LoseCache
<1>9. CASE UNCHANGED allVars
  BY <1>9 DEF allVars, vars
<1> QED
  BY <1>1, <1>2, <1>3, <1>4, <1>5, <1>6, <1>7, <1>8, <1>9 DEF ScreenNext, Loads, Edit, Runs

-----------------------------------------------------------------------------
(* The loaded files are held *)

\* Every file parses, changes between sessions only and nothing is edited.
Quiet == Without({"broken_file", "change_in_session", "edits"})

\* The screen has not shown yet the periods of a load.
PeriodsComing ==
    loading /\ ((pc # "idle" /\ TypeOf(request.path) = "periods")
                \/ (pc = "idle" /\ outcome.status = "success" /\ LoadedType = "periods"))

\* A period holds another: its range and the excluded dates in it.
HoldsPeriod(p, q) == p.start = q.start /\ p.end = q.end /\ InRange(q) \subseteq p.excluded

\* What the remembered paths say is in the data, but for the file a load has not
\* merged yet; and no edit takes it out again.
FilesHeld ==
    \A p \in Range(loadedPaths) :
        /\ file[p] \notin {Broken, Missing}
        /\ \/ pc \in {"cache", "parse"} /\ p = request.path
           \/ Holds(courses, periods, TypeOf(p), file[p])
WantedHeld ==
    \A p \in Range(loadedPaths) : TypeOf(p) = "periods" /\ ~PeriodsComing =>
        \A key \in DOMAIN file[p] \cap DOMAIN wanted : HoldsPeriod(wanted[key], file[p][key])
HeldInv ==
    Quiet => FilesHeld /\ WantedHeld /\ CacheHoldsItsFiles /\ SuccessMeansLoaded

\* To hold periods is to hold each of them.
LEMMA HoldsPeriodsMeans ==
    ASSUME NEW data, NEW content
    PROVE HoldsPeriods(data, content) <=>
             \A key \in DOMAIN content : key \in DOMAIN data /\ HoldsPeriod(data[key], content[key])
  BY DEF HoldsPeriods, HoldsPeriod

\* Two remembered paths of a type are one path.
LEMMA OnePathPerType ==
    ASSUME ImportTypes, NEW p \in Range(loadedPaths), NEW q \in Range(loadedPaths),
           TypeOf(p) = TypeOf(q)
    PROVE p = q
  BY DEF ImportTypes, PathTypes, Range

\* Paths are of two types.
LEMMA TwoTypes == \A p : TypeOf(p) \in Types
  BY DEF TypeOf, Types

\* A merge puts a content in the data of its type.
LEMMA MergedIsHeld ==
    ASSUME Merge(file[request.path]), file[request.path] \notin {Broken, Missing},
           TypeOf(request.path) = "courses" => IsCourseMap(file[request.path]),
           TypeOf(request.path) # "courses" => IsPeriodMap(file[request.path]) /\ IsPeriodMap(periods)
    PROVE Holds(courses', periods', TypeOf(request.path), file[request.path])
<1> DEFINE data == file[request.path]
<1>1. CASE TypeOf(request.path) = "courses"
  <2>1. courses' = data \/ courses' = MergeCourses(courses, data)
    BY <1>1 DEF Merge
  <2>2. HoldsCourses(courses', data)
    BY <2>1 DEF MergeCourses, HoldsCourses
  <2> QED
    BY <1>1, <2>2 DEF Holds
<1>2. CASE TypeOf(request.path) # "courses"
  <2>1. periods' = data \/ periods' = MergePeriods(periods, data)
    BY <1>2 DEF Merge
  <2>2. ASSUME NEW key \in DOMAIN data
        PROVE key \in DOMAIN periods' /\ HoldsPeriod(periods'[key], data[key])
    <3>1. data[key] \in Dates
      BY <1>2 DEF IsPeriodMap
    <3>2. CASE periods' = data
      BY <3>1, <3>2 DEF HoldsPeriod, InRange, Dates
    <3>3. CASE periods' = MergePeriods(periods, data) /\ key \notin DOMAIN periods
      BY <3>1, <3>3 DEF HoldsPeriod, InRange, Dates, MergePeriods
    <3>4. CASE periods' = MergePeriods(periods, data) /\ key \in DOMAIN periods
      <4>1. periods'[key] = MergePeriod(periods[key], data[key]) /\ key \in DOMAIN periods'
        BY <3>4 DEF MergePeriods
      <4>2. periods[key] \in Dates
        BY <1>2, <3>4 DEF IsPeriodMap
      <4> QED
        BY <3>1, <4>1, <4>2 DEF HoldsPeriod, InRange, Dates, MergePeriod
    <3> QED
      BY <2>1, <3>2, <3>3, <3>4
  <2>3. HoldsPeriods(periods', data)
    BY <2>2, HoldsPeriodsMeans
  <2> QED
    BY <1>2, <2>3 DEF Holds
<1> QED
  BY <1>1, <1>2

\* Applying the edits takes nothing out that the periods of the editor hold.
LEMMA EditsHold ==
    ASSUME ImportTypes, EditorInv, FilesHeld, WantedHeld, AtScreen, ApplyEdits, wanted' = wanted,
           UNCHANGED <<file, courses>>, NEW p \in Range(loadedPaths)
    PROVE Holds(courses', periods', TypeOf(p), file'[p])
<1>1. Holds(courses, periods, TypeOf(p), file[p])
  BY DEF FilesHeld, AtScreen
<1>2. CASE TypeOf(p) = "courses"
  BY <1>1, <1>2 DEF Holds
<1>3. CASE TypeOf(p) = "periods"
  <2>1. \A key \in DOMAIN file[p] : key \in DOMAIN periods /\ HoldsPeriod(periods[key], file[p][key])
    BY <1>1, <1>3, HoldsPeriodsMeans DEF Holds
  <2>2. \A key \in DOMAIN file[p] \cap DOMAIN wanted : HoldsPeriod(wanted[key], file[p][key])
    BY <1>3 DEF WantedHeld, PeriodsComing, AtScreen
  <2>3. /\ DOMAIN periods' = DOMAIN periods
        /\ \A key \in DOMAIN periods :
              \/ periods'[key] = periods[key]
              \/ key \in DOMAIN wanted /\ periods'[key] = wanted[key]
    BY EditsApplied DEF ImportTypes, DataTypes
  <2>4. \A key \in DOMAIN file[p] : key \in DOMAIN periods' /\ HoldsPeriod(periods'[key], file[p][key])
    BY <2>1, <2>2, <2>3
  <2>5. HoldsPeriods(periods', file[p])
    BY <2>4, HoldsPeriodsMeans
  <2> QED
    BY <1>1, <1>3, <2>5 DEF Holds
<1> QED
  BY <1>2, <1>3, TwoTypes DEF Types

\* A merge adds its file and takes out none of another type, and a cache that
\* answers has the hashes of the files as they are.
LEMMA HeldStep ==
    ASSUME ImportTypes, EditorInv, FreshInv, HeldInv, ImportTypes', [ScreenNext]_allVars
    PROVE HeldInv'
<1> USE DEF counters, state
<1> SUFFICES ASSUME Quiet' PROVE (FilesHeld /\ WantedHeld /\ CacheHoldsItsFiles /\ SuccessMeansLoaded)'
  BY DEF HeldInv
<1>1. CASE RestartScreen
  <2>1. Restart /\ loadedPaths' = <<>> /\ Quiet
    BY <1>1 DEF RestartScreen, Restart, Quiet, Without
  <2>3. Range(loadedPaths') = {}
    BY <2>1 DEF Range
  <2>2. CacheHoldsItsFiles'
    BY <2>1 DEF Restart, HeldInv, CacheHoldsItsFiles, Without
  <2> QED
    BY <2>1, <2>2, <2>3 DEF Restart, FilesHeld, WantedHeld, SuccessMeansLoaded, SuccessIsCurrent, Succeeded,
                      NoOutcome, Outcome
<1>2. SUFFICES ASSUME ~RestartScreen PROVE (FilesHeld /\ WantedHeld /\ CacheHoldsItsFiles /\ SuccessMeansLoaded)'
  BY <1>1
<1>3. faults' = faults
  BY <1>2, ImportStep DEF vars, EditsOnly, EditsAndLoad, BeginLoad, LoadSteps, LoadCache, MissCache, ParseFails,
     ParseAndMerge, Persist, PersistFails, ChangeFile, LoseCache
<1>4. Quiet /\ FilesHeld /\ WantedHeld /\ CacheHoldsItsFiles /\ SuccessMeansLoaded /\ ~Click
  BY <1>3 DEF HeldInv, Quiet, Without, Click
<1>5. \A p \in Paths : file[p] # Missing => file[p] \notin {Broken, Missing}
  <2>1. \A p \in Paths : file[p] \in ContentsOf(p) /\ "broken_file" \notin faults
    BY <1>4 DEF ImportTypes, FileTypes, Quiet, Without
  <2> QED
    BY <2>1, ImportAssumption DEF ContentsOf
<1>6. CASE UNCHANGED vars /\ OtherClick
  BY <1>4, <1>6 DEF vars, OtherClick, FilesHeld, WantedHeld, PeriodsComing, LoadedType, CacheHoldsItsFiles,
     SuccessMeansLoaded, SuccessIsCurrent, Succeeded, Without
<1>7. CASE UNCHANGED vars /\ LoadReturns
  <2>1. (FilesHeld /\ CacheHoldsItsFiles /\ SuccessMeansLoaded)'
    BY <1>4, <1>7 DEF vars, FilesHeld, CacheHoldsItsFiles, SuccessMeansLoaded, SuccessIsCurrent,
       Succeeded, LoadedType, Without
  <2>2. WantedHeld'
    <3> SUFFICES ASSUME NEW p \in Range(loadedPaths), TypeOf(p) = "periods", NEW key \in DOMAIN file[p] \cap DOMAIN wanted'
                 PROVE HoldsPeriod(wanted'[key], file[p][key])
      BY <1>7 DEF WantedHeld, vars
    <3>1. CASE ~PeriodsComing
      <4>1. wanted' = wanted
        BY <1>7, <3>1 DEF LoadReturns, PeriodsComing, ShowCourses
      <4> QED
        BY <1>4, <3>1, <4>1 DEF WantedHeld
    <3>2. CASE PeriodsComing
      <4>1. Holds(courses, periods, "periods", file[p])
        BY <1>4, <1>7 DEF FilesHeld, LoadReturns
      <4>2. \A k \in DOMAIN file[p] : k \in DOMAIN periods /\ HoldsPeriod(periods[k], file[p][k])
        BY <4>1, HoldsPeriodsMeans DEF Holds
      <4>3. periods # <<>>
        BY <4>2
      <4>4. wanted' = periods
        BY <1>7, <3>2, <4>3 DEF LoadReturns, PeriodsComing, ShowPeriods
      <4> QED
        BY <4>2, <4>4
    <3> QED
      BY <3>1, <3>2
  <2> QED
    BY <2>1, <2>2
<1>8. CASE EditsAndLoad
  <2>1. PICK path \in Paths, mode \in Modes : BeginLoad(path, mode)
    BY <1>8 DEF EditsAndLoad
  <2>2. \A p \in Range(loadedPaths) : Holds(courses', periods', TypeOf(p), file'[p])
    BY <1>4, <1>8, <2>1, EditsHold DEF EditsAndLoad, BeginLoad
  <2>3. (CacheHoldsItsFiles /\ SuccessMeansLoaded)'
    <3>1. cache' = cache /\ outcome'.status # "success"
      BY <2>1 DEF BeginLoad, NoOutcome, Outcome
    <3> QED
      BY <1>3, <1>4, <3>1 DEF CacheHoldsItsFiles, SuccessMeansLoaded, SuccessIsCurrent, Succeeded, Without
  <2>4. CASE file[path] = Missing
    <3>1. UNCHANGED <<loadedPaths, file, pc, request, wanted>> /\ outcome'.status = "failed"
      BY <1>8, <2>1, <2>4 DEF EditsAndLoad, BeginLoad, Outcome
    <3>2. FilesHeld'
      BY <1>4, <2>2, <3>1 DEF FilesHeld
    <3>3. WantedHeld'
      <4>1. ~PeriodsComing
        BY <1>8 DEF EditsAndLoad, AtScreen, PeriodsComing
      <4> QED
        BY <1>4, <3>1, <4>1 DEF WantedHeld
    <3> QED
      BY <2>3, <3>2, <3>3
  <2>5. CASE file[path] # Missing
    <3>1. /\ loadedPaths' = Remember(path) /\ pc' = FirstStep(mode) /\ request' = Load(path, mode)
          /\ UNCHANGED <<file, wanted>> /\ loading'
      BY <1>8, <2>1, <2>5 DEF EditsAndLoad, BeginLoad
    <3>2. pc' \in {"cache", "parse"} /\ request'.path = path
      BY <3>1 DEF FirstStep, Load
    <3>3. \A p \in Range(loadedPaths') : p = path \/ p \in Range(loadedPaths)
      BY <3>1 DEF Remember, Range
    <3>4. FilesHeld'
      BY <1>4, <1>5, <2>2, <2>5, <3>1, <3>2, <3>3 DEF FilesHeld
    <3>5. WantedHeld'
      <4>1. path \in Range(loadedPaths') /\ request'.path \in Range(loadedPaths')
        BY <3>1, <3>2 DEF Remember, Range
      <4> SUFFICES ASSUME NEW p \in Range(loadedPaths'), TypeOf(p) = "periods", ~PeriodsComing'
                   PROVE \A key \in DOMAIN file[p] \cap DOMAIN wanted : HoldsPeriod(wanted[key], file[p][key])
        BY <3>1 DEF WantedHeld
      <4>2. p # path
        BY <3>1, <3>2 DEF PeriodsComing
      <4>3. p \in Range(loadedPaths) /\ ~PeriodsComing
        BY <1>8, <3>3, <4>2 DEF EditsAndLoad, AtScreen, PeriodsComing
      <4> QED
        BY <1>4, <4>3 DEF WantedHeld
    <3> QED
      BY <2>3, <3>4, <3>5
  <2> QED
    BY <2>4, <2>5
<1>9. CASE ChangeFile /\ UNCHANGED screenVars
  <2>1. loadedPaths = <<>>
    BY <1>4, <1>9 DEF ChangeFile, Quiet, Without
  <2>2. Range(loadedPaths) = {} /\ Range(loadedPaths') = {} /\ pc = "idle"
    BY <1>9, <2>1 DEF ChangeFile, Range, ImportTypes, LoadTypes
  <2>3. CacheHoldsItsFiles'
    BY <1>4, <1>9 DEF ChangeFile, CacheHoldsItsFiles, Without
  <2>4. SuccessMeansLoaded'
    <3>1. seen \subseteq seen'
      BY <1>9 DEF ChangeFile
    <3> QED
      BY <1>4, <1>9, <3>1 DEF ChangeFile, SuccessMeansLoaded, SuccessIsCurrent, Succeeded, LoadedType, Without
  <2> QED
    BY <2>2, <2>3, <2>4 DEF FilesHeld, WantedHeld
<1>10. CASE LoseCache /\ UNCHANGED screenVars
  <2>1. CacheHoldsItsFiles'
    <3>1. DOMAIN cache'.hashes = {}
      BY <1>10 DEF LoseCache, NoCache
    <3> QED
      BY <3>1 DEF CacheHoldsItsFiles
  <2> QED
    BY <1>4, <1>10, <2>1 DEF LoseCache, FilesHeld, WantedHeld, PeriodsComing, LoadedType,
       SuccessMeansLoaded, SuccessIsCurrent, Succeeded, Without, screenVars
<1>11. CASE loading /\ LoadSteps /\ UNCHANGED screenVars
  <2>1. /\ loading /\ loading' /\ wanted' = wanted /\ UNCHANGED <<file, loadedPaths>> /\ pc # "idle"
    BY <1>11 DEF screenVars, LoadSteps, LoadCache, MissCache, ParseFails, ParseAndMerge, Persist, PersistFails
  <2>2. request.path \in Range(loadedPaths) /\ request.path \in Paths
    BY <2>1 DEF ImportTypes, LoadTypes, PathTypes, Range
  <2>3. file[request.path] \notin {Broken, Missing} /\ file[request.path] \in seen
    BY <1>4, <2>1, <2>2 DEF FilesHeld, FreshInv
  <2>4. ~ParseFails
    BY <2>3 DEF ParseFails
  <2>5. WantedHeld'
    <3>1. PeriodsComing <=> TypeOf(request.path) = "periods"
      BY <2>1 DEF PeriodsComing
    <3>2. TypeOf(request.path) = "periods" => PeriodsComing'
      <4>1. \/ pc' # "idle" /\ request' = request
            \/ pc' = "idle" /\ outcome' = Outcome(request, "success")
        BY <1>11, <2>1, <2>4 DEF LoadSteps, LoadCache, MissCache, ParseAndMerge, Persist, PersistFails, Return
      <4> QED
        BY <2>1, <4>1 DEF PeriodsComing, LoadedType, Outcome
    <3> QED
      BY <1>4, <2>1, <3>1, <3>2 DEF WantedHeld
  <2>6. CASE LoadCache
    <3>1. /\ DOMAIN cache.hashes = Range(loadedPaths)
          /\ \A p \in Range(loadedPaths) : cache.hashes[p] = file[p]
      BY <2>6 DEF LoadCache, try_load, has_changed, Current
    <3>2. /\ courses' = cache.courses /\ periods' = cache.periods /\ cache' = cache /\ seen' = seen
          /\ outcome' = Outcome(request, "success")
      BY <2>6 DEF LoadCache, Return
    <3>3. \A p \in Range(loadedPaths) : Holds(courses', periods', TypeOf(p), file[p])
      BY <1>4, <3>1, <3>2 DEF CacheHoldsItsFiles, Quiet
    <3>4. FilesHeld'
      BY <1>4, <2>1, <3>3 DEF FilesHeld
    <3>5. SuccessMeansLoaded'
      BY <2>2, <2>3, <3>2, <3>3 DEF SuccessMeansLoaded, SuccessIsCurrent, LoadedType, Outcome
    <3>6. CacheHoldsItsFiles'
      BY <1>3, <1>4, <3>2 DEF CacheHoldsItsFiles, Without
    <3> QED
      BY <2>5, <3>4, <3>5, <3>6
  <2>7. CASE MissCache
    <3>1. pc' = "parse" /\ pc = "cache" /\ UNCHANGED <<courses, periods, cache, request, outcome, seen>>
      BY <2>7 DEF MissCache
    <3> QED
      BY <1>3, <1>4, <2>1, <2>5, <3>1 DEF FilesHeld, CacheHoldsItsFiles, SuccessMeansLoaded,
         SuccessIsCurrent, Succeeded, LoadedType, Without
  <2>8. CASE ParseAndMerge
    <3>1. /\ pc' = "persist" /\ pc = "parse" /\ UNCHANGED <<cache, request, outcome, seen>>
          /\ Merge(file[request.path]) /\ outcome = NoOutcome
      BY <2>8 DEF ParseAndMerge, ImportTypes, LoadTypes
    <3>2. Holds(courses', periods', TypeOf(request.path), file[request.path])
      <4>1. file[request.path] \in ContentsOf(request.path)
        BY <2>2 DEF ImportTypes, FileTypes
      <4>2. IsPeriodMap(periods)
        BY DEF ImportTypes, DataTypes
      <4> QED
        BY <2>2, <2>3, <3>1, <4>1, <4>2, ParsedTypes, MergedIsHeld
    <3>3. ASSUME NEW p \in Range(loadedPaths), p # request.path
          PROVE Holds(courses', periods', TypeOf(p), file[p])
      <4>1. Holds(courses, periods, TypeOf(p), file[p])
        BY <1>4, <3>3 DEF FilesHeld
      <4>2. TypeOf(p) # TypeOf(request.path)
        BY <2>2, <3>3, OnePathPerType
      <4>3. TypeOf(p) \in Types /\ TypeOf(request.path) \in Types
        BY TwoTypes
      <4> QED
        BY <3>1, <4>1, <4>2, <4>3 DEF Merge, Holds, Types
    <3>4. FilesHeld'
      BY <1>4, <2>1, <3>2, <3>3 DEF FilesHeld
    <3> QED
      BY <1>3, <1>4, <2>5, <3>1, <3>4 DEF CacheHoldsItsFiles, SuccessMeansLoaded, SuccessIsCurrent, Succeeded,
         NoOutcome, Outcome, Without
  <2>9. CASE Persist \/ PersistFails
    <3>1. /\ pc = "persist" /\ UNCHANGED <<courses, periods, seen>>
          /\ outcome' = Outcome(request, "success")
          /\ cache' = cache \/ cache' = CacheOf(Range(loadedPaths))
      BY <2>9 DEF Persist, PersistFails, Return
    <3>2. \A p \in Range(loadedPaths) : Holds(courses, periods, TypeOf(p), file[p])
      BY <1>4, <3>1 DEF FilesHeld
    <3>3. FilesHeld'
      BY <1>4, <2>1, <3>1, <3>2 DEF FilesHeld
    <3>4. SuccessMeansLoaded'
      BY <2>2, <2>3, <3>1, <3>2 DEF SuccessMeansLoaded, SuccessIsCurrent, LoadedType, Outcome
    <3>5. CacheHoldsItsFiles'
      <4>1. CASE cache' = cache
        BY <1>3, <1>4, <4>1 DEF CacheHoldsItsFiles, Without
      <4>2. CASE cache' = CacheOf(Range(loadedPaths))
        BY <3>2, <4>2 DEF CacheHoldsItsFiles, CacheOf, Current
      <4> QED
        BY <3>1, <4>1, <4>2
    <3> QED
      BY <2>5, <3>3, <3>4, <3>5
  <2> QED
    BY <1>11, <2>4, <2>6, <2>7, <2>8, <2>9 DEF LoadSteps
<1> QED
  BY <1>2, <1>4, <1>6, <1>7, <1>8, <1>9, <1>10, <1>11, ImportStep DEF EditsOnly

-----------------------------------------------------------------------------
(* What the screen offers *)

\* What was never loaded is not offered, what is not offered is not selected, and
\* Generate waits for both types.
OfferInv ==
    /\ outcome.status = "success" => LoadedType \in shown
    /\ "courses" \notin shown => programs = {}
    /\ "periods" \notin shown => wanted = <<>>
    /\ enabled => shown = {"courses", "periods"}
    /\ selected \subseteq programs

\* A flag goes up with the first data of its type and not before.
LEMMA OfferStep ==
    ASSUME ImportTypes, EditorInv, OfferInv, [ScreenNext]_allVars
    PROVE OfferInv'
<1> USE DEF OfferInv, LoadedType, counters, state, runVars, mark_inputs_dirty, refresh_generate_button
<1>1. CASE ClickLoad
  <2>1. outcome'.status # "success" /\ UNCHANGED <<shown, programs, selected, wanted>>
    BY <1>1 DEF ClickLoad, BeginLoad, NoOutcome, Outcome
  <2> QED
    BY <1>1, <2>1 DEF ClickLoad
<1>2. CASE LoadNothing \/ ClickGenerate
  <2>1. /\ UNCHANGED <<shown, programs, selected, wanted>>
        /\ outcome' = outcome \/ outcome' = NoOutcome
        /\ (enabled' = enabled) \/ (enabled' => shown = {"courses", "periods"})
    BY <1>2 DEF LoadNothing, ClickGenerate
  <2>2. outcome'.status = "success" => outcome' = outcome
    BY <2>1 DEF NoOutcome, Outcome
  <2> QED
    BY <2>1, <2>2
<1>3. CASE LoadStep
  <2>1. UNCHANGED <<programs, selected, wanted, enabled>> /\ pc # "idle"
    BY <1>3 DEF LoadStep, screenVars, LoadSteps, LoadCache, MissCache, ParseFails, ParseAndMerge, Persist,
                PersistFails
  <2>2. CASE MissCache \/ ParseAndMerge
    BY <2>1, <2>2 DEF MissCache, ParseAndMerge
  <2>3. ASSUME NEW status, Return(status) PROVE OfferInv'
    <3>1. TypeOf(request.path) \in Types /\ shown \subseteq Types
      BY TwoTypes DEF ImportTypes, PathTypes
    <3> QED
      BY <2>1, <2>3, <3>1 DEF Return, Flag, Outcome, Types
  <2> QED
    BY <1>3, <2>2, <2>3 DEF LoadStep, LoadSteps, LoadCache, ParseFails, Persist, PersistFails
<1>4. CASE LoadReturns
  <2>1. UNCHANGED <<outcome, shown>>
    BY <1>4 DEF LoadReturns, vars
  <2> QED
    BY <1>4, <2>1 DEF LoadReturns, ShowCourses, ShowPeriods, StillOffered
<1>5. CASE EditDates \/ ToggleDay
  <2>1. "periods" \in shown
    <3>1. editor # NoEditor
      BY <1>5 DEF EditDates, ToggleDay
    <3>2. editor.view_models[editor.index].key \in DOMAIN wanted
      BY <3>1 DEF EditorInv, HandsOut, IsEditor
    <3> QED
      BY <3>2
  <2> QED
    BY <1>5, <2>1 DEF EditDates, ToggleDay, ChangeShown, vars
<1>6. CASE SelectPrograms
  BY <1>6 DEF SelectPrograms, WithinLimit, Selections, vars
<1>7. CASE ApplySettings \/ ClickCancel \/ Back
  BY <1>7 DEF ApplySettings, ClickCancel, Back, vars
<1>8. CASE MoveToPeriod \/ NavigateToOutput \/ RunEnds \/ ViewResults
  BY <1>8 DEF MoveToPeriod, NavigateToOutput, RunEnds, ViewResults, vars
<1>9. CASE RestartScreen
  BY <1>9 DEF RestartScreen, Restart, NoOutcome, Outcome
<1>10. CASE (ChangeFile \/ LoseCache) /\ UNCHANGED screenVars
  BY <1>10 DEF ChangeFile, LoseCache, screenVars
<1>11. CASE UNCHANGED allVars
  BY <1>11 DEF allVars, vars, screenVars
<1> QED
  BY <1>1, <1>2, <1>3, <1>4, <1>5, <1>6, <1>7, <1>8, <1>9, <1>10, <1>11 DEF ScreenNext, Loads, Edit, Runs

-----------------------------------------------------------------------------
(* What is offered is what is loaded *)

\* Every merge is written to the cache.
Saved == Without({"write", "missing_file"})
MayBeBlank == "blank_file" \in faults

\* New data of a type that the screen does not show yet.
NewData(type) ==
    loading /\ ((pc = "persist" /\ TypeOf(request.path) = type)
                \/ (pc = "idle" /\ outcome.status = "success" /\ LoadedType = type))

\* Once something was loaded, the cache is that of the session.
CacheIsOurs ==
    pc # "persist" =>
        IF shown = {} THEN courses = <<>> /\ periods = <<>>
        ELSE cache = NoCache
             \/ (cache.courses = courses /\ DOMAIN cache.periods = DOMAIN periods)
PeriodsInSync ==
    /\ "periods" \in shown /\ ~NewData("periods") =>
          DOMAIN wanted = DOMAIN periods \/ (DOMAIN periods = {} /\ MayBeBlank)
    /\ NewData("periods") /\ DOMAIN periods = {} => DOMAIN wanted = {} \/ MayBeBlank
CoursesInSync ==
    /\ "courses" \in shown /\ ~NewData("courses") =>
          programs = ProgramsIn(courses) \/ (courses = <<>> /\ MayBeBlank)
    /\ NewData("courses") /\ courses = <<>> => programs = {} \/ MayBeBlank
SyncInv == Saved => CacheIsOurs /\ PeriodsInSync /\ CoursesInSync

\* Periods without a key are no periods.
LEMMA NoPeriods == ASSUME NEW map, IsPeriodMap(map), DOMAIN map = {} PROVE map = <<>>
  BY DEF IsPeriodMap

\* No courses have no programs.
LEMMA NoCoursesNoPrograms == ProgramsIn(<<>>) = {}
  BY DEF ProgramsIn, Range

\* A function without arguments is the empty one.
LEMMA NoArguments ==
    ASSUME NEW f, NEW R, f \in [DOMAIN f -> R], DOMAIN f = {} PROVE f = <<>>
  OBVIOUS

\* What a file holds that parses and is not blank.
LEMMA ParsedContents ==
    ASSUME NEW path, NEW data, data \in ContentsOf(path), data \notin {Broken, Missing}, ~MayBeBlank
    PROVE /\ path \in CourseFiles => data \in CourseContents
          /\ path \notin CourseFiles => data \in PeriodContents
  BY DEF ContentsOf, MayBeBlank

\* A merge leaves no data of its type only if the file was blank.
LEMMA EmptyMergeIsBlank ==
    ASSUME ImportTypes, request.path \in Paths, Merge(file[request.path]),
           file[request.path] \notin {Broken, Missing}, ~MayBeBlank
    PROVE /\ TypeOf(request.path) = "courses" => courses' # <<>>
          /\ TypeOf(request.path) = "periods" => DOMAIN periods' # {}
<1> DEFINE data == file[request.path]
<1>1. /\ request.path \in CourseFiles => data \in CourseContents
      /\ request.path \notin CourseFiles => data \in PeriodContents
  BY ParsedContents DEF ImportTypes, FileTypes
<1>2. CASE request.path \in CourseFiles
  <2>1. data \in [DOMAIN data -> Range(data)] /\ data # <<>>
    BY <1>1, <1>2, ImportAssumption
  <2>2. DOMAIN data # {}
    BY <2>1, NoArguments
  <2>3. DOMAIN data \subseteq DOMAIN courses'
    BY <1>2 DEF Merge, MergeCourses, TypeOf
  <2> QED
    BY <1>2, <2>2, <2>3 DEF TypeOf
<1>3. CASE request.path \notin CourseFiles
  <2>1. data \in [DOMAIN data -> Dates] /\ data # <<>>
    BY <1>1, <1>3, ImportAssumption
  <2>2. DOMAIN data # {}
    BY <2>1, NoArguments
  <2>3. DOMAIN data \subseteq DOMAIN periods'
    BY <1>3 DEF Merge, MergePeriods, TypeOf
  <2> QED
    BY <1>3, <2>2, <2>3 DEF TypeOf
<1> QED
  BY <1>2, <1>3


\* The faults of a behaviour do not change.
LEMMA FaultsStay == [ScreenNext]_allVars => faults' = faults
<1> SUFFICES ASSUME [ScreenNext]_allVars PROVE faults' = faults
  OBVIOUS
<1>1. LoadSteps => faults' = faults
  BY DEF LoadSteps, LoadCache, MissCache, ParseFails, ParseAndMerge, Persist, PersistFails, counters
<1>2. RestartScreen \/ ChangeFile \/ LoseCache => faults' = faults
  BY DEF RestartScreen, Restart, ChangeFile, LoseCache
<1> QED
  BY <1>1, <1>2, ImportStep DEF vars, EditsOnly, EditsAndLoad, BeginLoad

\* Every merge is written where writing does not fail and no file goes missing.
LEMMA MergesAreSaved == ASSUME ImportTypes, Saved PROVE ~PersistFails
<1>1. ASSUME NEW p \in Range(loadedPaths) PROVE file[p] # Missing
  <2>1. file[p] \in ContentsOf(p)
    BY DEF ImportTypes, FileTypes, PathTypes, Range
  <2> QED
    BY <2>1, ImportAssumption DEF ContentsOf, Saved, Without
<1> QED
  BY <1>1 DEF PersistFails, Readable, Saved, Without

\* The clicks that apply the edits leave the keys of the periods as they are.
LEMMA EditsKeepKeys ==
    ASSUME ImportTypes, EditorInv, EditsOnly \/ EditsAndLoad
    PROVE /\ DOMAIN periods' = DOMAIN periods /\ IsPeriodMap(periods')
          /\ periods = <<>> => periods' = <<>>
          /\ UNCHANGED <<file, courses, cache, shown, wanted, programs>>
          /\ pc = "idle" /\ ~loading
<1>1. DOMAIN periods' = DOMAIN periods /\ IsPeriodMap(periods')
  BY EditsApplied DEF EditsOnly, EditsAndLoad, ImportTypes, DataTypes
<1>2. periods = <<>> => periods' = <<>>
  BY <1>1, NoPeriods
<1> QED
  BY <1>1, <1>2 DEF EditsOnly, EditsAndLoad, BeginLoad, Click, AtScreen

\* A cache that is written after every merge follows the session.
LEMMA CacheStep ==
    ASSUME ImportTypes, EditorInv, Saved, CacheIsOurs, [ScreenNext]_allVars
    PROVE CacheIsOurs'
<1> USE DEF counters, state
<1>1. CASE UNCHANGED vars
  BY <1>1 DEF vars, CacheIsOurs
<1>2. CASE EditsOnly \/ EditsAndLoad
  BY <1>2, EditsKeepKeys DEF CacheIsOurs
<1>3. CASE LoadSteps
  <2>1. CASE LoadCache
    <3>1. shown' # {} /\ cache' = cache /\ courses' = cache.courses /\ periods' = cache.periods
      BY <2>1 DEF LoadCache, Return, Flag
    <3> QED
      BY <3>1 DEF CacheIsOurs
  <2>2. CASE MissCache \/ ParseFails
    <3>1. UNCHANGED <<courses, periods, cache, shown>> /\ pc # "persist"
      BY <2>2 DEF MissCache, ParseFails, Return
    <3> QED
      BY <3>1 DEF CacheIsOurs
  <2>3. CASE ParseAndMerge
    BY <2>3 DEF ParseAndMerge, CacheIsOurs
  <2>4. CASE Persist
    <3>1. /\ shown' # {} /\ UNCHANGED <<courses, periods>>
          /\ cache'.courses = courses /\ cache'.periods = periods
      BY <2>4 DEF Persist, CacheOf, Return, Flag
    <3> QED
      BY <3>1 DEF CacheIsOurs
  <2> QED
    BY <1>3, <2>1, <2>2, <2>3, <2>4, MergesAreSaved DEF LoadSteps
<1>4. CASE RestartScreen
  BY <1>4 DEF RestartScreen, Restart, CacheIsOurs
<1>5. CASE ChangeFile \/ LoseCache
  BY <1>5 DEF ChangeFile, LoseCache, CacheIsOurs
<1> QED
  BY <1>1, <1>2, <1>3, <1>4, <1>5, ImportStep

\* The editor follows the loaded periods, whichever load brings them.
LEMMA PeriodsStep ==
    ASSUME ImportTypes, EditorInv, FreshInv, OfferInv, Saved, CacheIsOurs, PeriodsInSync,
           [ScreenNext]_allVars
    PROVE PeriodsInSync'
<1> USE DEF counters, state, PeriodsInSync, MayBeBlank
<1>1. faults' = faults
  BY FaultsStay
<1>2. CASE UNCHANGED vars /\ OtherClick
  <2>1. NewData("periods")' <=> NewData("periods")
    BY <1>2 DEF vars, OtherClick, NewData, LoadedType
  <2> QED
    BY <1>1, <1>2, <2>1 DEF vars, OtherClick
<1>3. CASE UNCHANGED vars /\ LoadReturns
  <2>1. ~NewData("periods")' /\ UNCHANGED <<periods, shown>>
    BY <1>3 DEF LoadReturns, NewData, vars
  <2>2. CASE NewData("periods")
    <3>1. \/ periods # <<>> /\ wanted' = periods
          \/ periods = <<>> /\ wanted' = wanted
      BY <1>3, <2>2 DEF LoadReturns, NewData, ShowPeriods
    <3> QED
      BY <1>1, <2>1, <2>2, <3>1
  <2>3. CASE ~NewData("periods")
    <3>1. wanted' = wanted
      BY <1>3, <2>3 DEF LoadReturns, NewData, ShowCourses
    <3> QED
      BY <1>1, <2>1, <2>3, <3>1
  <2> QED
    BY <2>2, <2>3
<1>4. CASE EditsOnly \/ EditsAndLoad
  <2>1. ~NewData("periods")
    BY <1>4, EditsKeepKeys DEF NewData
  <2>2. ~NewData("periods")'
    <3>1. CASE EditsOnly
      BY <1>4, <3>1, EditsKeepKeys DEF EditsOnly, NewData
    <3>2. CASE EditsAndLoad
      <4>1. pc' # "persist" /\ (pc' = "idle" => outcome'.status # "success")
        BY <3>2 DEF EditsAndLoad, AtScreen, BeginLoad, FirstStep, Outcome
      <4> QED
        BY <4>1 DEF NewData
    <3> QED
      BY <1>4, <3>1, <3>2
  <2> QED
    BY <1>1, <1>4, <2>1, <2>2, EditsKeepKeys
<1>5. CASE loading /\ LoadSteps /\ UNCHANGED screenVars
  <2>1. UNCHANGED <<loading, wanted>> /\ loading
    BY <1>5 DEF screenVars
  <2>2. request.path \in Paths \/ pc = "idle"
    BY DEF ImportTypes, LoadTypes, Load
  <2>3. CASE LoadCache
    <3>1. /\ pc = "cache" /\ shown' = shown \cup {TypeOf(request.path)} /\ periods' = cache.periods
          /\ cache # NoCache /\ pc' = "idle" /\ outcome' = Outcome(request, "success")
      BY <2>3 DEF LoadCache, try_load, Return, Flag
    <3>2. ~NewData("periods") /\ (NewData("periods")' <=> TypeOf(request.path) = "periods")
      BY <2>1, <3>1 DEF NewData, LoadedType, Outcome
    <3>3. shown # {} => DOMAIN periods' = DOMAIN periods
      BY <3>1 DEF CacheIsOurs
    <3>4. "periods" \notin shown => DOMAIN wanted = {}
      BY DEF OfferInv
    <3>5. "periods" \in shown => DOMAIN periods' = DOMAIN periods
      BY <3>3
    <3>6. "periods" \in shown' => "periods" \in shown \/ TypeOf(request.path) = "periods"
      BY <3>1
    <3>7. wanted' = wanted /\ (MayBeBlank' <=> MayBeBlank)
      BY <1>1, <2>1
    <3> QED
      BY <3>2, <3>4, <3>5, <3>6, <3>7
  <2>4. CASE MissCache \/ ParseFails
    <3>1. UNCHANGED <<periods, shown>> /\ pc \notin {"idle", "persist"}
      BY <2>4 DEF MissCache, ParseFails, Return
    <3>2. ~NewData("periods") /\ ~NewData("periods")'
      BY <2>4, <3>1 DEF MissCache, ParseFails, Return, NewData, Outcome
    <3> QED
      BY <1>1, <2>1, <3>1, <3>2
  <2>5. CASE ParseAndMerge
    <3>1. /\ pc = "parse" /\ pc' = "persist" /\ UNCHANGED <<shown, request>>
          /\ Merge(file[request.path]) /\ file[request.path] \notin {Broken, Missing}
      BY <2>5 DEF ParseAndMerge
    <3>2. ~NewData("periods") /\ (NewData("periods")' <=> TypeOf(request.path) = "periods")
      BY <2>1, <3>1 DEF NewData
    <3>3. CASE TypeOf(request.path) = "periods"
      <4>1. ~MayBeBlank => DOMAIN periods' # {}
        BY <2>2, <3>1, <3>3, EmptyMergeIsBlank
      <4> QED
        BY <1>1, <3>2, <3>3, <4>1
    <3>4. CASE TypeOf(request.path) # "periods"
      <4>1. periods' = periods
        BY <3>1, <3>4, TwoTypes DEF Merge, Types
      <4> QED
        BY <1>1, <2>1, <3>1, <3>2, <3>4, <4>1
    <3> QED
      BY <3>3, <3>4
  <2>6. CASE Persist
    <3>1. /\ pc = "persist" /\ pc' = "idle" /\ outcome' = Outcome(request, "success")
          /\ periods' = periods /\ shown' = shown \cup {TypeOf(request.path)}
      BY <2>6 DEF Persist, Return, Flag
    <3>2. /\ NewData("periods") <=> TypeOf(request.path) = "periods"
          /\ NewData("periods")' <=> TypeOf(request.path) = "periods"
      BY <2>1, <3>1 DEF NewData, LoadedType, Outcome
    <3> QED
      BY <1>1, <2>1, <3>1, <3>2
  <2> QED
    BY <1>5, <2>3, <2>4, <2>5, <2>6, MergesAreSaved DEF LoadSteps
<1>6. CASE RestartScreen
  BY <1>6 DEF RestartScreen, Restart, NewData
<1>7. CASE (ChangeFile \/ LoseCache) /\ UNCHANGED screenVars
  <2>1. UNCHANGED <<periods, shown, wanted, loading, pc, request, outcome>>
    BY <1>7 DEF ChangeFile, LoseCache, screenVars
  <2>2. NewData("periods")' <=> NewData("periods")
    BY <2>1 DEF NewData, LoadedType
  <2> QED
    BY <1>1, <2>1, <2>2
<1> QED
  BY <1>2, <1>3, <1>4, <1>5, <1>6, <1>7, ImportStep

\* So do the programs on offer the loaded courses.
LEMMA CoursesStep ==
    ASSUME ImportTypes, EditorInv, FreshInv, OfferInv, Saved, CacheIsOurs, CoursesInSync,
           [ScreenNext]_allVars
    PROVE CoursesInSync'
<1> USE DEF counters, state, CoursesInSync, MayBeBlank
<1>1. faults' = faults
  BY FaultsStay
<1>2. CASE UNCHANGED vars /\ OtherClick
  <2>1. NewData("courses")' <=> NewData("courses")
    BY <1>2 DEF vars, OtherClick, NewData, LoadedType
  <2> QED
    BY <1>1, <1>2, <2>1 DEF vars, OtherClick, ProgramsIn
<1>3. CASE UNCHANGED vars /\ LoadReturns
  <2>1. ~NewData("courses")' /\ UNCHANGED <<courses, shown>>
    BY <1>3 DEF LoadReturns, NewData, vars
  <2>2. CASE NewData("courses")
    <3>1. \/ courses # <<>> /\ programs' = ProgramsIn(courses)
          \/ courses = <<>> /\ programs' = programs
      BY <1>3, <2>2 DEF LoadReturns, NewData, ShowCourses
    <3> QED
      BY <1>1, <2>1, <2>2, <3>1, NoCoursesNoPrograms DEF ProgramsIn
  <2>3. CASE ~NewData("courses")
    <3>1. programs' = programs
      BY <1>3, <2>3 DEF LoadReturns, NewData, ShowPeriods
    <3> QED
      BY <1>1, <2>1, <2>3, <3>1 DEF ProgramsIn
  <2> QED
    BY <2>2, <2>3
<1>4. CASE EditsOnly \/ EditsAndLoad
  <2>1. ~NewData("courses")
    BY <1>4, EditsKeepKeys DEF NewData
  <2>2. ~NewData("courses")'
    <3>1. CASE EditsOnly
      BY <1>4, <3>1, EditsKeepKeys DEF EditsOnly, NewData
    <3>2. CASE EditsAndLoad
      <4>1. pc' # "persist" /\ (pc' = "idle" => outcome'.status # "success")
        BY <3>2 DEF EditsAndLoad, AtScreen, BeginLoad, FirstStep, Outcome
      <4> QED
        BY <4>1 DEF NewData
    <3> QED
      BY <1>4, <3>1, <3>2
  <2> QED
    BY <1>1, <1>4, <2>1, <2>2, EditsKeepKeys DEF ProgramsIn
<1>5. CASE loading /\ LoadSteps /\ UNCHANGED screenVars
  <2>1. UNCHANGED <<loading, programs>> /\ loading
    BY <1>5 DEF screenVars
  <2>2. request.path \in Paths \/ pc = "idle"
    BY DEF ImportTypes, LoadTypes, Load
  <2>3. CASE LoadCache
    <3>1. /\ pc = "cache" /\ shown' = shown \cup {TypeOf(request.path)} /\ courses' = cache.courses
          /\ cache # NoCache /\ pc' = "idle" /\ outcome' = Outcome(request, "success")
      BY <2>3 DEF LoadCache, try_load, Return, Flag
    <3>2. ~NewData("courses") /\ (NewData("courses")' <=> TypeOf(request.path) = "courses")
      BY <2>1, <3>1 DEF NewData, LoadedType, Outcome
    <3>3. "courses" \in shown => courses' = courses
      BY <3>1 DEF CacheIsOurs
    <3>4. "courses" \notin shown => programs = {}
      BY DEF OfferInv
    <3>5. "courses" \in shown' => "courses" \in shown \/ TypeOf(request.path) = "courses"
      BY <3>1
    <3>6. programs' = programs /\ (MayBeBlank' <=> MayBeBlank)
      BY <1>1, <2>1
    <3> QED
      BY <3>2, <3>3, <3>4, <3>5, <3>6, NoCoursesNoPrograms DEF ProgramsIn
  <2>4. CASE MissCache \/ ParseFails
    <3>1. UNCHANGED <<courses, shown>> /\ pc \notin {"idle", "persist"}
      BY <2>4 DEF MissCache, ParseFails, Return
    <3>2. ~NewData("courses") /\ ~NewData("courses")'
      BY <2>4, <3>1 DEF MissCache, ParseFails, Return, NewData, Outcome
    <3> QED
      BY <1>1, <2>1, <3>1, <3>2 DEF ProgramsIn
  <2>5. CASE ParseAndMerge
    <3>1. /\ pc = "parse" /\ pc' = "persist" /\ UNCHANGED <<shown, request>>
          /\ Merge(file[request.path]) /\ file[request.path] \notin {Broken, Missing}
      BY <2>5 DEF ParseAndMerge
    <3>2. ~NewData("courses") /\ (NewData("courses")' <=> TypeOf(request.path) = "courses")
      BY <2>1, <3>1 DEF NewData
    <3>3. CASE TypeOf(request.path) = "courses"
      <4>1. ~MayBeBlank => courses' # <<>>
        BY <2>2, <3>1, <3>3, EmptyMergeIsBlank
      <4> QED
        BY <1>1, <3>2, <3>3, <4>1
    <3>4. CASE TypeOf(request.path) # "courses"
      <4>1. courses' = courses
        BY <3>1, <3>4 DEF Merge
      <4> QED
        BY <1>1, <2>1, <3>1, <3>2, <3>4, <4>1 DEF ProgramsIn
    <3> QED
      BY <3>3, <3>4
  <2>6. CASE Persist
    <3>1. /\ pc = "persist" /\ pc' = "idle" /\ outcome' = Outcome(request, "success")
          /\ courses' = courses /\ shown' = shown \cup {TypeOf(request.path)}
      BY <2>6 DEF Persist, Return, Flag
    <3>2. /\ NewData("courses") <=> TypeOf(request.path) = "courses"
          /\ NewData("courses")' <=> TypeOf(request.path) = "courses"
      BY <2>1, <3>1 DEF NewData, LoadedType, Outcome
    <3> QED
      BY <1>1, <2>1, <3>1, <3>2 DEF ProgramsIn
  <2> QED
    BY <1>5, <2>3, <2>4, <2>5, <2>6, MergesAreSaved DEF LoadSteps
<1>6. CASE RestartScreen
  BY <1>6 DEF RestartScreen, Restart, NewData
<1>7. CASE (ChangeFile \/ LoseCache) /\ UNCHANGED screenVars
  <2>1. UNCHANGED <<courses, shown, programs, loading, pc, request, outcome>>
    BY <1>7 DEF ChangeFile, LoseCache, screenVars, state
  <2>2. NewData("courses")' <=> NewData("courses")
    BY <2>1 DEF NewData, LoadedType
  <2> QED
    BY <1>1, <2>1, <2>2 DEF ProgramsIn
<1> QED
  BY <1>2, <1>3, <1>4, <1>5, <1>6, <1>7, ImportStep

\* Both, and the cache that may answer for either.
LEMMA SyncStep ==
    ASSUME ImportTypes, EditorInv, FreshInv, OfferInv, SyncInv, [ScreenNext]_allVars
    PROVE SyncInv'
<1> SUFFICES ASSUME Saved' PROVE (CacheIsOurs /\ PeriodsInSync /\ CoursesInSync)'
  BY DEF SyncInv
<1>1. Saved
  BY FaultsStay DEF Saved, Without
<1> QED
  BY <1>1, CacheStep, PeriodsStep, CoursesStep DEF SyncInv

-----------------------------------------------------------------------------
(* A run is given what the user wants *)

\* The only step that starts a run finds the editor and the periods in step.
LEMMA RunStep ==
    ASSUME ImportTypes, EditorInv, OfferInv, SyncInv, RunGetsWhatIsWanted, [ScreenNext]_allVars
    PROVE RunGetsWhatIsWanted'
<1> USE DEF RunGetsWhatIsWanted
<1>1. faults' = faults
  BY FaultsStay
<1>2. CASE lastRun' = lastRun
  BY <1>1, <1>2 DEF Without, Emptied
<1>3. CASE lastRun' = NoRun
  BY <1>3
<1>4. CASE ClickGenerate /\ lastRun' # lastRun
  <2> SUFFICES ASSUME Saved PROVE lastRun'.periods = lastRun'.wanted \/ Emptied(lastRun'.periods)
    BY <1>1 DEF Saved, Without, Emptied
  <2>1. /\ lastRun'.periods = periods' /\ lastRun'.wanted = wanted /\ Usable /\ ApplyEdits
        /\ enabled /\ ~loading /\ wanted' = wanted
    <3>1. /\ enabled /\ ~loading /\ wanted' = wanted /\ ApplyEdits
          /\ IF Usable THEN StartRun ELSE lastRun' = lastRun
      BY <1>4 DEF ClickGenerate, Click, AtScreen
    <3>2. Usable /\ StartRun /\ lastRun' # lastRun
      BY <1>4, <3>1
    <3>3. lastRun' = [programs |-> selected, courses |-> courses, periods |-> periods',
                      config |-> config, wanted |-> wanted]
      BY <3>2 DEF StartRun
    <3> QED
      BY <3>1, <3>2, <3>3
  <2>2. DOMAIN wanted = DOMAIN periods \/ (DOMAIN periods = {} /\ MayBeBlank)
    <3>1. "periods" \in shown /\ ~NewData("periods")
      BY <2>1 DEF OfferInv, NewData
    <3> QED
      BY <3>1 DEF SyncInv, PeriodsInSync
  <2>3. /\ IsPeriodMap(periods') /\ DOMAIN periods' = DOMAIN periods
        /\ \A key \in DOMAIN periods :
              periods'[key] = IF key \in DOMAIN wanted THEN wanted[key] ELSE periods[key]
    BY <2>1, EditsApplied DEF ImportTypes, DataTypes
  <2>4. wanted = [key \in DOMAIN wanted |-> wanted[key]]
    <3>1. <<>> = [key \in DOMAIN <<>> |-> <<>>[key]]
      BY NothingTypes DEF IsPeriodMap
    <3> QED
      BY <3>1 DEF EditorInv, HandsOut
  <2>5. periods' = [key \in DOMAIN periods' |-> periods'[key]]
    BY <2>3 DEF IsPeriodMap
  <2>6. CASE DOMAIN wanted = DOMAIN periods
    <3>1. periods' = wanted
      BY <2>3, <2>4, <2>5, <2>6
    <3> QED
      BY <2>1, <3>1
  <2>7. CASE DOMAIN periods = {} /\ MayBeBlank
    <3>1. periods' = <<>>
      BY <2>3, <2>7, NoPeriods
    <3> QED
      BY <2>1, <2>7, <3>1 DEF Emptied, MayBeBlank
  <2> QED
    BY <2>2, <2>6, <2>7
<1>5. \/ lastRun' = lastRun \/ lastRun' = NoRun \/ ClickGenerate
  BY DEF ScreenNext, Loads, Edit, Runs, ClickLoad, LoadNothing, LoadStep, LoadReturns, EditDates,
         ToggleDay, MoveToPeriod, SelectPrograms, ApplySettings, ChangeShown, ClickCancel,
         NavigateToOutput, RunEnds, ViewResults, Back, RestartScreen, allVars, screenVars, runVars
<1> QED
  BY <1>2, <1>3, <1>4, <1>5

\* What is in step is what the property asks for.
LEMMA InSyncIsShown ==
    ASSUME ImportTypes, EditorInv, OfferInv, SyncInv
    PROVE ScreenShowsState
<1> SUFFICES ASSUME Saved, ~loading
             PROVE /\ "courses" \in shown => programs = ProgramsIn(courses) \/ Emptied(courses)
                   /\ "periods" \in shown =>
                         DOMAIN EditsByKey(editor.view_models) = DOMAIN periods \/ Emptied(periods)
                   /\ selected \subseteq programs
  BY DEF ScreenShowsState, Saved
<1>1. ~NewData("courses") /\ ~NewData("periods")
  BY DEF NewData
<1>2. "courses" \in shown => programs = ProgramsIn(courses) \/ Emptied(courses)
  BY <1>1 DEF SyncInv, CoursesInSync, Emptied, MayBeBlank
<1>3. DOMAIN EditsByKey(editor.view_models) = DOMAIN wanted
  <2>1. CASE editor = NoEditor
    <3>1. Range(<<>>) = {}
      BY DEF Range
    <3>2. DOMAIN EditsByKey(<<>>) = {}
      BY <3>1 DEF EditsByKey
    <3> QED
      BY <2>1, <3>2 DEF EditorInv, NoEditor
  <2>2. CASE editor # NoEditor
    BY <2>2, KeysOfEditor DEF EditorInv, HandsOut
  <2> QED
    BY <2>1, <2>2
<1>4. DOMAIN periods = {} => periods = <<>>
  BY NoPeriods DEF ImportTypes, DataTypes
<1>5. "periods" \in shown => DOMAIN wanted = DOMAIN periods \/ Emptied(periods)
  BY <1>1, <1>4 DEF SyncInv, PeriodsInSync, Emptied, MayBeBlank
<1> QED
  BY <1>2, <1>3, <1>5 DEF OfferInv

-----------------------------------------------------------------------------
(* An UPDATE merges *)

\* The faults under which an UPDATE may do more than merge.
Plain == Without({"write", "missing_file", "broken_file", "edits"})

\* The cache agrees with the session in every date, as do the periods on display
\* and those in the session; a remembered path has been loaded, or is being.
CacheAgrees == pc # "persist" /\ shown # {} => cache = NoCache \/ cache.periods = periods
WantedAgrees ==
    ~NewData("periods") =>
        \A key \in DOMAIN wanted \cap DOMAIN periods : wanted[key] = periods[key]
PathsShown ==
    DOMAIN loadedPaths \subseteq shown \cup (IF pc = "idle" THEN {} ELSE {TypeOf(request.path)})
PlainInv == Plain => CacheAgrees /\ WantedAgrees /\ PathsShown

\* Data comes from a file that is remembered, or was when it was written.
DataHasPaths ==
    /\ courses # <<>> => "courses" \in DOMAIN loadedPaths
    /\ periods # <<>> => "periods" \in DOMAIN loadedPaths
    /\ cache.courses # <<>> => \E p \in DOMAIN cache.hashes : TypeOf(p) = "courses"
    /\ cache.periods # <<>> => \E p \in DOMAIN cache.hashes : TypeOf(p) = "periods"

\* A type with a remembered path is a type remembered.
LEMMA TypesOfPaths ==
    ASSUME ImportTypes, NEW type
    PROVE (\E p \in Range(loadedPaths) : TypeOf(p) = type) <=> type \in DOMAIN loadedPaths
  BY DEF ImportTypes, PathTypes, Range

\* Data and the paths it comes from enter the session and the cache together.
LEMMA DataStep ==
    ASSUME ImportTypes, EditorInv, DataHasPaths, [ScreenNext]_allVars
    PROVE DataHasPaths'
<1> USE DEF counters, state, DataHasPaths
<1>1. CASE UNCHANGED vars
  BY <1>1 DEF vars
<1>2. CASE EditsOnly \/ EditsAndLoad
  <2>1. DOMAIN loadedPaths \subseteq DOMAIN loadedPaths'
    BY <1>2 DEF EditsOnly, EditsAndLoad, BeginLoad, Remember
  <2> QED
    BY <1>2, <2>1, EditsKeepKeys
<1>3. CASE LoadCache
  <2>1. /\ courses' = cache.courses /\ periods' = cache.periods /\ UNCHANGED <<loadedPaths, cache>>
        /\ DOMAIN cache.hashes = Range(loadedPaths)
    BY <1>3 DEF LoadCache, try_load
  <2> QED
    BY <2>1, TypesOfPaths
<1>4. CASE ParseAndMerge
  <2>1. /\ TypeOf(request.path) \in DOMAIN loadedPaths /\ UNCHANGED <<loadedPaths, cache>>
        /\ TypeOf(request.path) = "courses" => periods' = periods
        /\ TypeOf(request.path) # "courses" => courses' = courses
    BY <1>4 DEF ParseAndMerge, Merge, ImportTypes, LoadTypes
  <2>2. TypeOf(request.path) \in {"courses", "periods"}
    BY TwoTypes DEF Types
  <2> QED
    BY <2>1, <2>2
<1>5. CASE Persist
  <2>1. /\ UNCHANGED <<courses, periods, loadedPaths>> /\ cache'.courses = courses
        /\ cache'.periods = periods /\ DOMAIN cache'.hashes = Range(loadedPaths)
    BY <1>5 DEF Persist, CacheOf, Current
  <2> QED
    BY <2>1, TypesOfPaths
<1>6. CASE MissCache \/ ParseFails \/ PersistFails
  BY <1>6 DEF MissCache, ParseFails, PersistFails
<1>7. CASE RestartScreen
  BY <1>7 DEF RestartScreen, Restart
<1>8. CASE ChangeFile \/ LoseCache
  BY <1>8 DEF ChangeFile, LoseCache, NoCache
<1> QED
  BY <1>1, <1>2, <1>3, <1>4, <1>5, <1>6, <1>7, <1>8, ImportStep DEF LoadSteps

\* Where nothing is edited, applying the edits changes nothing.
LEMMA NothingEdited ==
    ASSUME ImportTypes, EditorInv, WantedAgrees, AtScreen, ApplyEdits, wanted' = wanted
    PROVE periods' = periods
<1>1. ~NewData("periods")
  BY DEF AtScreen, NewData
<1>2. /\ IsPeriodMap(periods) /\ IsPeriodMap(periods') /\ DOMAIN periods' = DOMAIN periods
      /\ \A key \in DOMAIN periods : periods'[key] = periods[key]
  BY <1>1, EditsApplied DEF ImportTypes, DataTypes, WantedAgrees
<1>3. /\ periods = [key \in DOMAIN periods |-> periods[key]]
      /\ periods' = [key \in DOMAIN periods' |-> periods'[key]]
  BY <1>2 DEF IsPeriodMap
<1> QED
  BY <1>2, <1>3

\* No load fails.
LEMMA EveryFileLoads ==
    ASSUME ImportTypes, Plain, NEW p \in Paths PROVE file[p] \notin {Broken, Missing}
<1>1. file[p] \in ContentsOf(p)
  BY DEF ImportTypes, FileTypes
<1> QED
  BY <1>1, ImportAssumption DEF ContentsOf, Plain, Without

\* Without edits, and with every load written, the cache is the session.
LEMMA PlainStep ==
    ASSUME ImportTypes, EditorInv, OfferInv, SyncInv, PlainInv, [ScreenNext]_allVars
    PROVE PlainInv'
<1> USE DEF counters, state
<1> SUFFICES ASSUME Plain' PROVE (CacheAgrees /\ WantedAgrees /\ PathsShown)'
  BY DEF PlainInv
<1>1. /\ Plain /\ Saved /\ ~Click /\ CacheAgrees /\ WantedAgrees /\ PathsShown /\ CacheIsOurs
  BY FaultsStay DEF Plain, Saved, Without, Click, PlainInv, SyncInv
<1>2. CASE UNCHANGED vars /\ OtherClick
  <2>1. UNCHANGED <<loading, wanted>>
    BY <1>1, <1>2 DEF OtherClick
  <2> QED
    BY <1>1, <1>2, <2>1 DEF vars, CacheAgrees, WantedAgrees, PathsShown, NewData, LoadedType
<1>3. CASE UNCHANGED vars /\ LoadReturns
  <2>1. CASE NewData("periods")
    <3>1. wanted' = periods \/ periods = <<>>
      BY <1>3, <2>1 DEF LoadReturns, NewData, ShowPeriods
    <3>2. WantedAgrees'
      BY <1>3, <3>1 DEF vars, WantedAgrees
    <3> QED
      BY <1>1, <1>3, <3>2 DEF vars, CacheAgrees, PathsShown
  <2>2. CASE ~NewData("periods")
    <3>1. wanted' = wanted
      BY <1>3, <2>2 DEF LoadReturns, NewData, ShowCourses
    <3>2. WantedAgrees'
      BY <1>1, <1>3, <2>2, <3>1 DEF vars, WantedAgrees
    <3> QED
      BY <1>1, <1>3, <3>2 DEF vars, CacheAgrees, PathsShown
  <2> QED
    BY <2>1, <2>2
<1>4. CASE EditsAndLoad
  <2>1. PICK path \in Paths, mode \in Modes : BeginLoad(path, mode)
    BY <1>4 DEF EditsAndLoad
  <2>2. /\ loadedPaths' = Remember(path) /\ pc' = FirstStep(mode) /\ request' = Load(path, mode)
        /\ outcome' = NoOutcome /\ UNCHANGED <<cache, shown, wanted>> /\ pc = "idle" /\ ~loading
    BY <1>1, <1>4, <2>1, EveryFileLoads DEF BeginLoad, EditsAndLoad, AtScreen
  <2>3. periods' = periods
    BY <1>1, <1>4, NothingEdited DEF EditsAndLoad
  <2>4. CacheAgrees'
    BY <1>1, <2>2, <2>3 DEF CacheAgrees
  <2>5. WantedAgrees'
    BY <1>1, <2>2, <2>3 DEF WantedAgrees, NewData
  <2>6. PathsShown'
    <3>1. pc' # "idle" /\ request'.path = path
      BY <2>2 DEF FirstStep, Load
    <3> QED
      BY <1>1, <2>2, <3>1 DEF PathsShown, Remember
  <2> QED
    BY <2>4, <2>5, <2>6
<1>5. CASE loading /\ LoadSteps /\ UNCHANGED screenVars
  <2>1. UNCHANGED <<loading, wanted>> /\ loading
    BY <1>5 DEF screenVars
  <2>2. ~ParseFails /\ ~PersistFails
    BY <1>1, EveryFileLoads, MergesAreSaved DEF ParseFails, ImportTypes, LoadTypes, Load
  <2>3. CASE LoadCache
    <3>1. /\ pc = "cache" /\ shown' = shown \cup {TypeOf(request.path)} /\ periods' = cache.periods
          /\ UNCHANGED <<cache, loadedPaths>>
          /\ cache # NoCache /\ pc' = "idle" /\ outcome' = Outcome(request, "success")
      BY <2>3 DEF LoadCache, try_load, Return, Flag
    <3>2. ~NewData("periods") /\ (NewData("periods")' <=> TypeOf(request.path) = "periods")
      BY <2>1, <3>1 DEF NewData, LoadedType, Outcome
    <3>3. shown # {} => periods' = periods
      BY <1>1, <3>1 DEF CacheAgrees
    <3>4. shown = {} => DOMAIN wanted = {}
      BY DEF OfferInv
    <3>5. CacheAgrees'
      BY <3>1 DEF CacheAgrees
    <3>6. WantedAgrees'
      BY <1>1, <2>1, <3>2, <3>3, <3>4 DEF WantedAgrees
    <3>7. PathsShown'
      BY <1>1, <3>1 DEF PathsShown
    <3> QED
      BY <3>5, <3>6, <3>7
  <2>4. CASE MissCache
    <3>1. /\ pc = "cache" /\ pc' = "parse"
          /\ UNCHANGED <<periods, cache, shown, loadedPaths, request, outcome>>
      BY <2>4 DEF MissCache
    <3> QED
      BY <1>1, <2>1, <3>1 DEF CacheAgrees, WantedAgrees, PathsShown, NewData
  <2>5. CASE ParseAndMerge
    <3>1. /\ pc = "parse" /\ pc' = "persist" /\ UNCHANGED <<shown, request, loadedPaths>>
          /\ Merge(file[request.path])
      BY <2>5 DEF ParseAndMerge
    <3>2. ~NewData("periods") /\ (NewData("periods")' <=> TypeOf(request.path) = "periods")
      BY <2>1, <3>1 DEF NewData
    <3>3. TypeOf(request.path) # "periods" => periods' = periods
      BY <3>1, TwoTypes DEF Merge, Types
    <3>4. WantedAgrees'
      BY <1>1, <2>1, <3>2, <3>3 DEF WantedAgrees
    <3> QED
      BY <1>1, <3>1, <3>4 DEF CacheAgrees, PathsShown
  <2>6. CASE Persist
    <3>1. /\ pc = "persist" /\ pc' = "idle" /\ outcome' = Outcome(request, "success")
          /\ UNCHANGED <<periods, loadedPaths>> /\ cache'.periods = periods
          /\ shown' = shown \cup {TypeOf(request.path)}
      BY <2>6 DEF Persist, CacheOf, Return, Flag
    <3>2. NewData("periods")' <=> NewData("periods")
      BY <2>1, <3>1 DEF NewData, LoadedType, Outcome
    <3> QED
      BY <1>1, <2>1, <3>1, <3>2 DEF CacheAgrees, WantedAgrees, PathsShown
  <2> QED
    BY <1>5, <2>2, <2>3, <2>4, <2>5, <2>6 DEF LoadSteps
<1>6. CASE RestartScreen
  BY <1>6 DEF RestartScreen, Restart, CacheAgrees, WantedAgrees, PathsShown
<1>7. CASE (ChangeFile \/ LoseCache) /\ UNCHANGED screenVars
  <2>1. /\ UNCHANGED <<periods, shown, wanted, loading, pc, request, outcome, loadedPaths>>
        /\ cache' = cache \/ cache' = NoCache
    BY <1>7 DEF ChangeFile, LoseCache, screenVars
  <2>2. NewData("periods")' <=> NewData("periods")
    BY <2>1 DEF NewData, LoadedType
  <2> QED
    BY <1>1, <2>1, <2>2 DEF CacheAgrees, WantedAgrees, PathsShown
<1>8. ~EditsOnly
  BY <1>1 DEF EditsOnly
<1> QED
  BY <1>2, <1>3, <1>4, <1>5, <1>6, <1>7, <1>8, ImportStep

\* A merge drops nothing, and the cache that answers an UPDATE holds the session.
LEMMA MergeStep ==
    ASSUME ImportTypes, EditorInv, OfferInv, SyncInv, PlainInv, DataHasPaths,
           Plain, LoadCache \/ ParseAndMerge, request.mode = "update"
    PROVE Merges
<1>1. Saved /\ CacheIsOurs /\ CacheAgrees /\ PathsShown
  BY DEF Plain, Saved, Without, SyncInv, PlainInv
<1>2. IsPeriodMap(periods) /\ IsPeriodMap(cache.periods) /\ TypeOf(request.path) \in {"courses", "periods"}
  BY TwoTypes DEF ImportTypes, DataTypes, Types
<1>3. CASE LoadCache
  <2>1. /\ courses' = cache.courses /\ periods' = cache.periods /\ pc = "cache" /\ cache # NoCache
        /\ DOMAIN cache.hashes = Range(loadedPaths)
    BY <1>3 DEF LoadCache, try_load
  <2>2. CASE shown # {}
    <3>1. courses' = courses /\ periods' = periods
      BY <1>1, <2>1, <2>2 DEF CacheIsOurs, CacheAgrees
    <3> QED
      BY <3>1 DEF Merges, KeepsCourses, KeepsPeriods
  <2>3. CASE shown = {}
    <3>1. courses = <<>> /\ periods = <<>>
      BY <1>1, <2>1, <2>3 DEF CacheIsOurs
    <3>2. DOMAIN loadedPaths \subseteq {TypeOf(request.path)}
      BY <1>1, <2>1, <2>3 DEF PathsShown
    <3>3. \A p \in DOMAIN cache.hashes : TypeOf(p) = TypeOf(request.path)
      BY <2>1, <3>2, TypesOfPaths
    <3>4. /\ TypeOf(request.path) = "courses" => cache.periods = <<>>
          /\ TypeOf(request.path) = "periods" => cache.courses = <<>>
      BY <3>3 DEF DataHasPaths
    <3> QED
      BY <1>2, <2>1, <3>1, <3>4 DEF Merges, KeepsCourses, KeepsPeriods
  <2> QED
    BY <2>2, <2>3
<1>4. CASE ParseAndMerge
  <2>1. Merge(file[request.path])
    BY <1>4 DEF ParseAndMerge
  <2>2. CASE TypeOf(request.path) = "courses"
    BY <2>1, <2>2 DEF Merge, Merges, MergeCourses, KeepsCourses
  <2>3. CASE TypeOf(request.path) # "courses"
    <3> DEFINE data == file[request.path]
    <3>1. periods' = MergePeriods(periods, data) /\ courses' = courses
      BY <2>1, <2>3 DEF Merge
    <3>2. IsPeriodMap(data)
      <4>1. request.path \in Paths /\ data \in ContentsOf(request.path) /\ data \notin {Broken, Missing}
        BY <1>4 DEF ParseAndMerge, ImportTypes, FileTypes, LoadTypes, Load
      <4> QED
        BY <2>3, <4>1, ParsedTypes
    <3> HIDE DEF data
    <3>3. ASSUME NEW key \in DOMAIN periods
          PROVE /\ key \in DOMAIN periods'
                /\ {d \in periods[key].excluded : periods'[key].start <= d /\ d <= periods'[key].end}
                      \subseteq periods'[key].excluded
      <4>1. key \in DOMAIN periods'
        BY <3>1 DEF MergePeriods
      <4>2. CASE key \notin DOMAIN data
        <5>1. periods'[key] = periods[key]
          BY <3>1, <4>2 DEF MergePeriods
        <5> QED
          BY <4>1, <5>1
      <4>3. CASE key \in DOMAIN data
        <5>1. periods'[key] = MergePeriod(periods[key], data[key])
          BY <3>1, <4>3 DEF MergePeriods
        <5>2. data[key] \in Dates
          BY <3>2, <4>3 DEF IsPeriodMap
        <5>3. /\ periods'[key].start = data[key].start /\ periods'[key].end = data[key].end
              /\ periods'[key].excluded = {d \in periods[key].excluded \cup data[key].excluded :
                                              data[key].start <= d /\ d <= data[key].end}
          BY <5>1, <5>2 DEF MergePeriod, Dates
        <5> QED
          BY <4>1, <5>3
      <4> QED
        BY <4>2, <4>3
    <3> QED
      BY <2>3, <3>1, <3>3 DEF Merges, KeepsPeriods
  <2> QED
    BY <2>2, <2>3
<1> QED
  BY <1>3, <1>4

-----------------------------------------------------------------------------
(* The types of the screen *)

Flags == {dirty, enabled, running, results, loading} \subseteq BOOLEAN
UserChoices ==
    /\ config \in Configs
    /\ IsFiniteSet(programs) /\ Cardinality(selected) <= MaxPrograms
RunTypes ==
    /\ running => lastRun # NoRun
    /\ lastRun # NoRun =>
          /\ Cardinality(lastRun.programs) \in 1 .. MaxPrograms
          /\ \A period \in Range(lastRun.periods) : IsExamPeriod(period)
UserInv == Flags /\ UserChoices /\ RunTypes

\* Finitely many courses have finitely many programs.
LEMMA FewPrograms ==
    ASSUME NEW map, IsFiniteSet(DOMAIN map) PROVE IsFiniteSet(ProgramsIn(map))
<1> DEFINE program == [id \in DOMAIN map |-> ProgramOf[map[id]]]
<1>1. program \in Surjection(DOMAIN map, ProgramsIn(map))
  BY DEF Surjection, ProgramsIn, Range
<1> QED
  BY <1>1, FS_Surjection

\* Exam periods are what a run is given.
LEMMA PeriodsOfRun ==
    ASSUME NEW map, IsPeriodMap(map) PROVE \A period \in Range(map) : IsExamPeriod(period)
  BY DEF IsPeriodMap, Range

\* The flags stay flags.
LEMMA FlagsStep == ASSUME Flags, [ScreenNext]_allVars PROVE Flags'
<1> USE DEF Flags, runVars
<1>1. CASE ClickLoad \/ LoadNothing
  BY <1>1 DEF ClickLoad, LoadNothing, refresh_generate_button
<1>2. CASE LoadReturns
  <2>1. loading' = FALSE /\ UNCHANGED <<running, results>>
    BY <1>2 DEF LoadReturns
  <2>2. CASE outcome.status = "success"
    BY <1>2, <2>1, <2>2 DEF LoadReturns, mark_inputs_dirty, refresh_generate_button
  <2>3. CASE outcome.status # "success"
    BY <1>2, <2>1, <2>3 DEF LoadReturns
  <2> QED
    BY <2>2, <2>3
<1>3. CASE EditDates \/ ToggleDay \/ SelectPrograms \/ ApplySettings \/ ClickCancel
  BY <1>3 DEF EditDates, ToggleDay, SelectPrograms, ApplySettings, ClickCancel, ChangeShown,
              mark_inputs_dirty, refresh_generate_button
<1>4. CASE ClickGenerate
  BY <1>4 DEF ClickGenerate, StartRun, refresh_generate_button
<1>5. CASE NavigateToOutput \/ RunEnds \/ ViewResults \/ Back \/ MoveToPeriod
  BY <1>5 DEF NavigateToOutput, RunEnds, ViewResults, Back, MoveToPeriod, refresh_generate_button
<1>6. CASE RestartScreen
  BY <1>6 DEF RestartScreen
<1>7. CASE UNCHANGED screenVars
  BY <1>7 DEF screenVars
<1> QED
  BY <1>1, <1>2, <1>3, <1>4, <1>5, <1>6, <1>7 DEF ScreenNext, Loads, Edit, Runs, LoadStep, allVars

\* A file that is loaded takes programs away from the selection and adds none.
LEMMA ChoicesStep ==
    ASSUME ImportTypes, OfferInv, UserChoices, [ScreenNext]_allVars PROVE UserChoices'
<1> USE DEF UserChoices, runVars
<1>1. IsFiniteSet(programs) /\ IsFiniteSet(selected)
  BY FS_Subset DEF OfferInv
<1>2. CASE LoadReturns
  <2>1. CASE UNCHANGED <<programs, selected>>
    BY <1>2, <2>1 DEF LoadReturns
  <2>2. CASE ShowCourses
    <3>1. IsFiniteSet(programs')
      BY <2>2, FewPrograms DEF ShowCourses, ImportTypes, DataTypes, IsCourseMap
    <3>2. selected' \subseteq selected
      BY <2>2 DEF ShowCourses, StillOffered
    <3>3. Cardinality(selected') <= Cardinality(selected) /\ Cardinality(selected) \in Nat
          /\ Cardinality(selected') \in Nat
      BY <1>1, <3>2, FS_Subset, FS_CardinalityType
    <3>4. Cardinality(selected') <= MaxPrograms
      BY <3>3, ScreenAssumption
    <3> QED
      BY <1>2, <3>1, <3>4 DEF LoadReturns
  <2> QED
    BY <1>2, <2>1, <2>2 DEF LoadReturns, ShowPeriods
<1>3. CASE SelectPrograms
  BY <1>3 DEF SelectPrograms, WithinLimit
<1>4. CASE ApplySettings
  BY <1>4 DEF ApplySettings
<1>5. CASE RestartScreen
  <2>1. programs' = {} /\ selected' = {} /\ config' = <<>>
    BY <1>5 DEF RestartScreen
  <2>2. IsFiniteSet({}) /\ Cardinality({}) <= MaxPrograms
    BY FS_EmptySet, ScreenAssumption
  <2>3. <<>> \in Configs
    <3>1. <<>> \in [{} -> Ks] /\ {} \in SUBSET Rules
      OBVIOUS
    <3> QED
      BY <3>1 DEF Configs
  <2> QED
    BY <2>1, <2>2, <2>3
<1>6. CASE UNCHANGED <<programs, selected, config>>
  BY <1>6
<1>7. \/ LoadReturns \/ SelectPrograms \/ ApplySettings \/ RestartScreen
      \/ UNCHANGED <<programs, selected, config>>
  BY DEF ScreenNext, Loads, Edit, Runs, ClickLoad, LoadNothing, LoadStep, EditDates, ToggleDay,
         MoveToPeriod, ChangeShown, ClickGenerate, ClickCancel, NavigateToOutput, RunEnds,
         ViewResults, Back, allVars, screenVars
<1> QED
  BY <1>2, <1>3, <1>4, <1>5, <1>6, <1>7

\* A run starts with programs selected and with periods.
LEMMA RunTypesStep ==
    ASSUME ImportTypes, EditorInv, OfferInv, UserChoices, RunTypes, [ScreenNext]_allVars
    PROVE RunTypes'
<1> USE DEF RunTypes, runVars
<1>1. CASE ClickGenerate
  <2>1. CASE UNCHANGED <<running, lastRun>>
    BY <2>1
  <2>2. CASE ~UNCHANGED <<running, lastRun>>
    <3>1. Usable /\ StartRun /\ selected # {} /\ ApplyEdits /\ wanted' = wanted
      BY <1>1, <2>2 DEF ClickGenerate, StartRun
    <3>2. lastRun' = [programs |-> selected, courses |-> courses, periods |-> periods',
                      config |-> config, wanted |-> wanted]
      BY <3>1 DEF StartRun
    <3>3. IsFiniteSet(selected)
      BY FS_Subset DEF OfferInv, UserChoices
    <3>4. Cardinality(selected) \in 1 .. MaxPrograms
      <4>1. Cardinality(selected) \in Nat /\ Cardinality(selected) # 0
        BY <3>1, <3>3, FS_CardinalityType, FS_EmptySet
      <4> QED
        BY <4>1, ScreenAssumption DEF UserChoices
    <3>5. \A period \in Range(periods') : IsExamPeriod(period)
      <4>1. IsPeriodMap(periods')
        BY <3>1, EditsApplied DEF ImportTypes, DataTypes
      <4> QED
        BY <4>1, PeriodsOfRun
    <3>6. lastRun' # NoRun
      BY <3>1, <3>2 DEF NoRun
    <3>7. lastRun'.programs = selected /\ lastRun'.periods = periods'
      BY <3>2
    <3> QED
      BY <3>4, <3>5, <3>6, <3>7
  <2> QED
    BY <2>1, <2>2
<1>2. CASE RestartScreen
  BY <1>2 DEF RestartScreen
<1>3. CASE lastRun' = lastRun /\ (running' => running)
  BY <1>3
<1>4. ClickGenerate \/ RestartScreen \/ (lastRun' = lastRun /\ (running' => running))
  BY DEF ScreenNext, Loads, Edit, Runs, ClickLoad, LoadNothing, LoadStep, LoadReturns, EditDates,
         ToggleDay, MoveToPeriod, SelectPrograms, ApplySettings, ChangeShown, ClickCancel,
         NavigateToOutput, RunEnds, ViewResults, Back, allVars, screenVars
<1> QED
  BY <1>1, <1>2, <1>3, <1>4

-----------------------------------------------------------------------------
(* The theorems *)

\* Everything above together, which is inductive.
ScreenInv ==
    /\ ImportTypes /\ EditorInv /\ UserInv
    /\ FreshInv /\ SameInv /\ HeldInv
    /\ OfferInv /\ SyncInv /\ RunGetsWhatIsWanted
    /\ PlainInv /\ DataHasPaths

\* The screen starts with nothing loaded.
LEMMA ScreenStarts == ScreenInit => ScreenInv
<1> SUFFICES ASSUME ScreenInit PROVE ScreenInv
  OBVIOUS
<1> USE DEF ScreenInit, Init, InitScreen, NoOutcome, Outcome
<1>1. ImportTypes /\ EditorInv
  BY ImportTypesInit DEF EditorInv
<1>2. FreshInv /\ SameInv
  BY DEF FreshInv, ReplaceIsFresh, Succeeded, SameInv
<1>3. HeldInv
  <2>1. Range(loadedPaths) = {} /\ DOMAIN cache.hashes = {}
    BY DEF Range, NoCache
  <2> QED
    BY <2>1 DEF HeldInv, FilesHeld, WantedHeld, CacheHoldsItsFiles, SuccessMeansLoaded,
                SuccessIsCurrent, Succeeded
<1>4. OfferInv /\ SyncInv
  BY DEF OfferInv, SyncInv, CacheIsOurs, PeriodsInSync, CoursesInSync, NewData
<1>5. RunGetsWhatIsWanted /\ PlainInv /\ DataHasPaths
  BY DEF RunGetsWhatIsWanted, PlainInv, CacheAgrees, WantedAgrees, PathsShown, DataHasPaths, NoCache
<1>6. UserInv
  <2>1. config \in Configs
    <3>1. <<>> \in [{} -> Ks] /\ {} \in SUBSET Rules
      OBVIOUS
    <3> QED
      BY <3>1 DEF Configs
  <2>2. IsFiniteSet(programs) /\ Cardinality(selected) <= MaxPrograms
    BY FS_EmptySet, ScreenAssumption
  <2> QED
    BY <2>1, <2>2 DEF UserInv, Flags, UserChoices, RunTypes
<1> QED
  BY <1>1, <1>2, <1>3, <1>4, <1>5, <1>6 DEF ScreenInv

\* Every step keeps every part, most of them with the help of the types.
LEMMA ScreenStep == ScreenInv /\ [ScreenNext]_allVars => ScreenInv'
<1> SUFFICES ASSUME ScreenInv, [ScreenNext]_allVars PROVE ScreenInv'
  OBVIOUS
<1>1. ImportTypes' /\ EditorInv'
  BY ImportTypesStep, EditorStep DEF ScreenInv, ImportTypes, DataTypes
<1>2. FreshInv' /\ SameInv'
  BY FreshStep, SameStep DEF ScreenInv
<1>3. HeldInv'
  BY <1>1, HeldStep DEF ScreenInv
<1>4. OfferInv' /\ SyncInv'
  BY OfferStep, SyncStep DEF ScreenInv
<1>5. RunGetsWhatIsWanted' /\ PlainInv' /\ DataHasPaths'
  BY RunStep, PlainStep, DataStep DEF ScreenInv
<1>6. UserInv'
  BY FlagsStep, ChoicesStep, RunTypesStep DEF ScreenInv, UserInv
<1> QED
  BY <1>1, <1>2, <1>3, <1>4, <1>5, <1>6 DEF ScreenInv

\* What the theorems below say holds in every state of the input screen, for
\* any files, contents, faults and number of clicks.
THEOREM ScreenInvariant == ScreenSpec => []ScreenInv
<1> QED
  BY ScreenStarts, ScreenStep, PTL DEF ScreenSpec

\* Every variable has its type, no run is given a period that is no exam period
\* or more programs than MAX_PROGRAMS, and the editor has the keys it hands out.
THEOREM ScreenTypes == ScreenSpec => []ScreenTypeOK
<1>1. ScreenInv => ScreenTypeOK
  <2> SUFFICES ASSUME ScreenInv PROVE ScreenTypeOK
    OBVIOUS
  <2>1. TypeOK
    <3>1. \A p \in Paths : file[p] \in ContentsOf(p)
      BY DEF ScreenInv, ImportTypes, FileTypes
    <3>2. courses \in CourseMaps /\ cache.courses \in CourseMaps
      BY DEF ScreenInv, ImportTypes, DataTypes, IsCourseMap
    <3>3. \A p \in Range(periods) \cup Range(cache.periods) : p.start < p.end
      BY PeriodsOfRun DEF ScreenInv, ImportTypes, DataTypes, IsExamPeriod
    <3> QED
      BY <3>1, <3>2, <3>3 DEF TypeOK, ScreenInv, ImportTypes, PathTypes, LoadTypes
  <2>2. ASSUME editor # NoEditor
        PROVE /\ editor.index \in DOMAIN editor.view_models
              /\ DOMAIN EditsByKey(editor.view_models) = DOMAIN wanted
    BY <2>2, KeysOfEditor DEF ScreenInv, EditorInv, IsEditor, HandsOut
  <2> QED
    BY <2>1, <2>2 DEF ScreenTypeOK, ScreenInv, UserInv, Flags, UserChoices, RunTypes
<1> QED
  BY <1>1, ScreenInvariant, PTL

\* A REPLACE leaves what its file held during the load and nothing else: "REPLACE
\* must always parse fresh".
THEOREM ReplacesAreFresh == ScreenSpec => []ReplaceIsFresh
<1>1. ScreenInv => ReplaceIsFresh
  BY DEF ScreenInv, FreshInv
<1> QED
  BY <1>1, ScreenInvariant, PTL

\* A load that reports success has left in the session what its file holds,
\* also when the cache answered for it.
THEOREM SuccessesAreLoaded == ScreenSpec => []SuccessMeansLoaded
<1>1. ScreenInv => SuccessMeansLoaded
  BY DEF ScreenInv, HeldInv, Quiet, SuccessMeansLoaded
<1> QED
  BY <1>1, ScreenInvariant, PTL

\* The cache holds the data of every file whose hash it carries.
THEOREM CachesHold == ScreenSpec => []CacheHoldsItsFiles
<1>1. ScreenInv => CacheHoldsItsFiles
  BY DEF ScreenInv, HeldInv, Quiet, CacheHoldsItsFiles
<1> QED
  BY <1>1, ScreenInvariant, PTL

\* While Generate says that nothing is new, a run would be given what the last
\* one was.
THEOREM NothingNewIsSame == ScreenSpec => []NothingNewMeansSame
<1>1. ScreenInv => NothingNewMeansSame
  BY DEF ScreenInv, SameInv, BringsNews, NothingNewMeansSame
<1> QED
  BY <1>1, ScreenInvariant, PTL

\* A run is given the periods as the user left them.
THEOREM RunsGetWhatIsWanted == ScreenSpec => []RunGetsWhatIsWanted
<1>1. ScreenInv => RunGetsWhatIsWanted
  BY DEF ScreenInv
<1> QED
  BY <1>1, ScreenInvariant, PTL

\* The screen offers the programs and the periods that are loaded.
THEOREM ScreenIsInStep == ScreenSpec => []ScreenShowsState
<1>1. ScreenInv => ScreenShowsState
  BY InSyncIsShown DEF ScreenInv
<1> QED
  BY <1>1, ScreenInvariant, PTL

\* An UPDATE touches the data of its own type only and drops none of it.
THEOREM UpdatesMerge == ScreenSpec => UpdateMerges
<1>1. ScreenInv =>
        [Without({"write", "missing_file", "broken_file", "edits"}) =>
            ((LoadCache \/ ParseAndMerge) /\ request.mode = "update" => Merges)]_vars
  BY MergeStep DEF ScreenInv, Plain
<1> QED
  BY <1>1, ScreenInvariant, PTL DEF UpdateMerges

=============================================================================
