--------------------------- MODULE MCRequestedFamilies ---------------------------
(***************************************************************************)
(* Two runs; the first finds four schedules, of which three make a sample. *)
(* Two programs share two of four courses; the features of the schedules   *)
(* differ in both directions.  The second run has other periods.           *)
(***************************************************************************)
EXTENDS RequestedFamilies

\* A week ends between the fourth and the fifth day of the period.
OfWeek(d) == d + 2
Exam(course, moed, day, dept, instructor, programs) ==
    [course |-> course, semester |-> "FALL", moed |-> moed, day |-> OfWeek(day), dept |-> dept, instructor |-> instructor, programs |-> programs]

\* The days of the first exams of the courses, and of the second ones of the first two.
OnDays(d1, d2, d3, d4, e1, e2) ==
    <<Exam("c1", "ALEPH", d1, "cs", "x", "P" :> "OBLIGATORY"), Exam("c2", "ALEPH", d2, "cs", "y", "Q" :> "OBLIGATORY"),
      Exam("c3", "ALEPH", d3, "ma", "x", "Q" :> "ELECTIVE"),
      Exam("c4", "ALEPH", d4, "ma", "", "P" :> "OBLIGATORY" @@ "Q" :> "ELECTIVE"),
      Exam("c1", "BET", e1, "cs", "x", "P" :> "OBLIGATORY"), Exam("c2", "BET", e2, "cs", "y", "Q" :> "OBLIGATORY")>>

Schedules ==
    [a |-> OnDays(1, 1, 4, 4, 15, 16), b |-> OnDays(1, 3, 2, 5, 15, 15), c |-> OnDays(4, 2, 4, 1, 16, 15),
     d |-> OnDays(2, 5, 3, 3, 16, 16), e |-> OnDays(3, 1, 2, 6, 18, 15)]

\* The order of placing is another one in each branch of the search.
Placed == [s \in DOMAIN Schedules |-> IF s \in {"a", "d"} THEN Schedules[s] ELSE Reverse(Schedules[s])]

\* The days of the periods of each run.
SlotsOn(first, second) ==
    MapSeq(OnDays(0, 0, 0, 0, 0, 0), LAMBDA x :
        [course |-> x.course, semester |-> x.semester, moed |-> x.moed, dept |-> x.dept, instructor |-> x.instructor,
         programs |-> x.programs, dates |-> MapSeq(IF x.moed = "ALEPH" THEN first ELSE second, OfWeek)])
RunSlots == <<SlotsOn(<<1, 2, 3, 4, 5>>, <<15, 16>>), SlotsOn(<<1, 2, 3, 6>>, <<15, 18>>)>>

\* What ScheduleScorer counts, of one year and one semester.
Obligatory(s, p) == DaysOf(s, LAMBDA x : p \in DOMAIN x.programs /\ x.programs[p] = "OBLIGATORY")
InMoed(s, p, m) == DaysOf(s, LAMBDA x : p \in DOMAIN x.programs /\ x.programs[p] = "OBLIGATORY" /\ x.moed = m)
ElectivePairs(s, p) ==
    {x \in (DOMAIN s) \X (DOMAIN s) : x[1] < x[2] /\ s[x[1]].day = s[x[2]].day
        /\ \A i \in {x[1], x[2]} : p \in DOMAIN s[i].programs /\ s[i].programs[p] = "ELECTIVE"}
MetricsOf(s) ==
    [MIN_MANDATORY_GAP |-> Scale * Min(UNION {Range(Gaps(Obligatory(s, p))) : p \in ProgramsOf(s)}),
     AVG_ALL_COURSES_GAP |->
        MeanOf(FlattenSeq(MapSeq(Listed(ProgramsOf(s)), LAMBDA p : Gaps(DaysOf(s, LAMBDA x : p \in DOMAIN x.programs))))),
     ELECTIVE_CONFLICTS |-> Scale * Max({Cardinality(ElectivePairs(s, p)) : p \in ProgramsOf(s)}),
     MANDATORY_SPAN |->
        Scale * Max({Last(InMoed(s, p, m)) - Head(InMoed(s, p, m)) : p \in ProgramsOf(s), m \in {"ALEPH", "BET"}}),
     MAX_EXAMS_PER_DAY |-> Scale * Max({Cardinality(ExamsOn(s, d)) : d \in dates_set(s)})]
Metrics == Unweighted @@ [s \in DOMAIN Schedules |-> MetricsOf(Schedules[s])]

Runs == <<<<<<"a", "b", "c">>, <<"d">>>>, <<<<"e">>>>>>
Draws == <<<<0>>, <<0, 1>>, <<0, 1, 2>>, <<0, 2, 3>>>>

Keywords ==
    [lighter |-> [mentions |-> {"MAX_EXAMS_PER_DAY", "DOUBLE_EXAM_DAYS"}, stress |-> TRUE, digits |-> 25, word |-> 0],
     graded |-> [mentions |-> {"INSTRUCTOR_EXAM_GAP"}, stress |-> FALSE, digits |-> 3, word |-> 5]]

Reply(topics, thresholds, confidence, span, k) ==
    [topics |-> topics, thresholds |-> thresholds, confidence |-> confidence, span |-> span, k |-> k]
Answers ==
    [lighter |-> {Reply(<<"comfort">>, "rest" :> 3, Unweighted, "", 0)},
     graded |-> {Reply(<<"weekly_load", "faculty", "balanced">>, "grading" :> 7, "weekly_load" :> 9 @@ "balance" :> 0,
                       "compact", 30)}]
=============================================================================
