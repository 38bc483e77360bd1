---------------------------- MODULE ScheduleScorer ----------------------------
(***************************************************************************)
(* The scores a schedule is sorted by (src/logic/comparators): the metrics *)
(* of a list of assignments, and the state that a search keeps of them,    *)
(* changed with every date it places and changed back with every one it    *)
(* takes away.  What is better when it is less is negated.                 *)
(***************************************************************************)
EXTENDS ExamRules, SequencesExt

NoPair == 10000    \* the score of a schedule without two exams to be close
None == <<0, 0, 0>>

Sum(s) == FoldLeft(LAMBDA x, y : x + y, 0, s)
Largest(S) == Max(S \cup {0})

-----------------------------------------------------------------------------
(***************************************************************************)
(* The groups whose exams a metric compares.                               *)
(***************************************************************************)
AnyCohorts(c) == CohortsOf(c)
Cohorts == UNION {CohortsOf(c) : c \in Courses}

\* build_span_index: the moed is added by the metric.
SpanCohorts(c) ==
    {<<g[1], g[2], g[3]>> : g \in UNION {SpanGroup(i) : i \in {j \in DOMAIN Slots : Slots[j].course = c}}}
SpanKeys(a) == {<<g, Moed(a)>> : g \in SpanCohorts(Course(a))}
AllSpanKeys == UNION {{<<g, Slots[i].moed>> : g \in SpanCohorts(Slots[i].course)} : i \in DOMAIN Slots}

\* Mutant: an obligatory exam counts as well.
build_elective_program_index_AnyRequirement(c) == {cohort[1] : cohort \in CohortsOf(c)}

\* It drops the year.
build_elective_program_index(c) == ElectivePrograms(c)

-----------------------------------------------------------------------------
(***************************************************************************)
(* The metrics of a sequence of assignments.                               *)
(***************************************************************************)
DatesOf(assignments) == [i \in DOMAIN assignments |-> assignments[i].date]

\* The days between neighbours.
Gaps(dates) ==
    LET ordered == SortSeq(dates, <) IN [i \in 1 .. Len(ordered) - 1 |-> ordered[i + 1] - ordered[i]]

min_mandatory_gap(assignments) ==
    Min({NoPair} \cup UNION {Range(Gaps(DatesOf(SelectSeq(assignments, LAMBDA a : g \in ObligatoryCohorts(Course(a)))))) :
                                g \in Cohorts})

\* A fraction.
avg_all_courses_gap(assignments) ==
    LET gaps(g) == Gaps(DatesOf(SelectSeq(assignments, LAMBDA a : g \in AnyCohorts(Course(a)))))
    IN  <<MapThenSumSet(LAMBDA g : Sum(gaps(g)), Cohorts), MapThenSumSet(LAMBDA g : Len(gaps(g)), Cohorts)>>

elective_conflicts(assignments) ==
    Largest({MapThenSumSet(LAMBDA d : Pairs(Len(DatesOf(SelectSeq(assignments,
                 LAMBDA a : p \in build_elective_program_index(Course(a)) /\ a.date = d)))), Dates) : p \in Programs})

mandatory_span(assignments) ==
    LET of(key) == Range(DatesOf(SelectSeq(assignments, LAMBDA a : key \in SpanKeys(a))))
    IN  Largest({Max(of(key)) - Min(of(key)) : key \in {k \in AllSpanKeys : of(k) # {}}})

max_exams_per_day(assignments) ==
    Largest({Len(DatesOf(SelectSeq(assignments, LAMBDA a : a.date = d))) : d \in Dates})

score_schedule(assignments) ==
    [minMandatoryGap |-> min_mandatory_gap(assignments),
     avgAllCoursesGap |-> avg_all_courses_gap(assignments),
     electiveConflicts |-> -elective_conflicts(assignments),
     mandatorySpan |-> mandatory_span(assignments),
     maxExamsPerDay |-> -max_exams_per_day(assignments)]

-----------------------------------------------------------------------------
(***************************************************************************)
(* _GapTracker: the dates of every group in order, the sum, number and     *)
(* least of their gaps.  _touched is the groups with a date.               *)
(***************************************************************************)
NewTracker == [g \in Cohorts |-> [dates |-> <<>>, sum |-> 0, count |-> 0, min |-> NoPair]]

bisect_left(dates, day) == Cardinality({i \in DOMAIN dates : dates[i] < day})

tracker_add(group, day) ==
    LET index == bisect_left(group.dates, day)
        before == IF index > 0 THEN day - group.dates[index] ELSE 0
        after == IF index < Len(group.dates) THEN group.dates[index + 1] - day ELSE 0
        closed == IF index > 0 /\ index < Len(group.dates)
                  THEN group.dates[index + 1] - group.dates[index] ELSE 0
        dates == InsertAt(group.dates, index + 1, day)
    IN  [dates |-> dates, sum |-> group.sum - closed + before + after, count |-> Len(dates) - 1,
         min |-> Min({NoPair} \cup {dates[i + 1] - dates[i] : i \in 1 .. Len(dates) - 1})]

\* Mutant: the latest date is taken away, as if they were placed in order.
tracker_pop_Latest(group, undo) ==
    [dates |-> Front(group.dates), sum |-> undo.sum, count |-> undo.count, min |-> undo.min]
tracker_pop(group, undo) ==
    [dates |-> RemoveAt(group.dates, undo.index + 1), sum |-> undo.sum, count |-> undo.count, min |-> undo.min]

AddTo(tracker, groups, day) ==
    [g \in groups |-> tracker_add(tracker[g], day)] @@ tracker
UndoOf(tracker, groups, day) ==
    [g \in groups |-> [index |-> bisect_left(tracker[g].dates, day), sum |-> tracker[g].sum,
                       count |-> tracker[g].count, min |-> tracker[g].min]]
PopFrom(tracker, undo) ==
    [g \in DOMAIN undo |-> tracker_pop(tracker[g], undo[g])] @@ tracker

(***************************************************************************)
(* _IncrementalScoreState.  A key that is not in a dictionary has the      *)
(* value 0, or None.                                                       *)
(***************************************************************************)
create_state ==
    [mandatory |-> NewTracker, any |-> NewTracker, span |-> [key \in AllSpanKeys |-> None],
     elective |-> [p \in Programs |-> [d \in Dates |-> 0]], pairs |-> [p \in Programs |-> 0],
     perDay |-> [d \in Dates |-> 0], most |-> 0, stack |-> <<>>]

Widen(bounds, day) ==
    IF bounds = None THEN <<day, day, 1>>
    ELSE <<Min({bounds[1], day}), Max({bounds[2], day}), bounds[3] + 1>>

add_assignment(st, a) ==
    LET programs == build_elective_program_index(Course(a))
        undo == [date |-> a.date, perDay |-> st.perDay[a.date], most |-> st.most,
                 mandatory |-> UndoOf(st.mandatory, ObligatoryCohorts(Course(a)), a.date),
                 any |-> UndoOf(st.any, AnyCohorts(Course(a)), a.date),
                 span |-> [key \in SpanKeys(a) |-> st.span[key]],
                 elective |-> [p \in programs |-> st.elective[p][a.date]], pairs |-> [p \in programs |-> st.pairs[p]]]
    IN  [mandatory |-> AddTo(st.mandatory, ObligatoryCohorts(Course(a)), a.date),
         any |-> AddTo(st.any, AnyCohorts(Course(a)), a.date),
         span |-> [key \in SpanKeys(a) |-> Widen(st.span[key], a.date)] @@ st.span,
         elective |-> [p \in programs |-> [st.elective[p] EXCEPT ![a.date] = @ + 1]] @@ st.elective,
         pairs |-> [p \in programs |-> st.pairs[p] + st.elective[p][a.date]] @@ st.pairs,
         perDay |-> [st.perDay EXCEPT ![a.date] = @ + 1],
         most |-> Max({st.most, st.perDay[a.date] + 1}),
         stack |-> Append(st.stack, undo)]

pop_assignment(st) ==
    LET undo == Last(st.stack)
    IN  [mandatory |-> PopFrom(st.mandatory, undo.mandatory), any |-> PopFrom(st.any, undo.any),
         span |-> undo.span @@ st.span,
         elective |-> [p \in DOMAIN undo.elective |->
                          [st.elective[p] EXCEPT ![undo.date] = undo.elective[p]]] @@ st.elective,
         pairs |-> undo.pairs @@ st.pairs,
         perDay |-> [st.perDay EXCEPT ![undo.date] = undo.perDay], most |-> undo.most,
         stack |-> Front(st.stack)]

score(st) ==
    [minMandatoryGap |-> Min({st.mandatory[g].min : g \in Cohorts} \cup {NoPair}),
     avgAllCoursesGap |-> <<MapThenSumSet(LAMBDA g : st.any[g].sum, Cohorts),
                            MapThenSumSet(LAMBDA g : st.any[g].count, Cohorts)>>,
     electiveConflicts |-> -Largest(Range(st.pairs)),
     mandatorySpan |-> Largest({st.span[key][2] - st.span[key][1] : key \in {k \in AllSpanKeys : st.span[k][3] >= 2}}),
     maxExamsPerDay |-> -st.most]
=============================================================================
