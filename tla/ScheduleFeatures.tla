---------------------------- MODULE ScheduleFeatures ----------------------------
(***************************************************************************)
(* The extended features of a schedule, as ExtendedFeatureComputer derives *)
(* them for clustering, and what they mean.                                *)
(*                                                                         *)
(* A schedule is the sequence of its assignments in the order of the       *)
(* slots: [course, moed, day, dept, instructor, programs], where programs  *)
(* maps each program of the course to the requirement it has there, and an *)
(* instructor may be "".  A feature is counted in units of 1 / Scale, and  *)
(* so is the deviation of the gaps, whose root is rounded down.            *)
(***************************************************************************)
EXTENDS ClusterRequests

CONSTANTS
    Scale,      \* a multiple of the numbers of gaps that averages are taken of
    DaysPerWeek

ASSUME FeatureAssumption == Scale \in Nat \ {0} /\ DaysPerWeek \in Nat \ {0}

SumOf(seq) == FoldLeft(+, 0, seq)
MeanOf(seq) == IF seq = <<>> THEN 0 ELSE (Scale * SumOf(seq)) \div Len(seq)
MapSeq(seq, Op(_)) == [i \in DOMAIN seq |-> Op(seq[i])]
Gaps(days) == [i \in 1 .. Len(days) - 1 |-> days[i + 1] - days[i]]
\* In some order: SetToSeq looks for one among all functions.
Listed(S) == FoldSet(LAMBDA x, seq : Append(seq, x), <<>>, S)
Sorted(S) == SortSeq(Listed(S), <)
MostOf(S, Count(_)) == Max({Count(x) : x \in S})

\* _build_context.
dates_set(s) == {s[i].day : i \in DOMAIN s}
sorted_dates(s) == Sorted(dates_set(s))
IsMandatory(a) == "OBLIGATORY" \in Range(a.programs)
mandatory_dates(s) == {s[i].day : i \in {j \in DOMAIN s : IsMandatory(s[j])}}
date_counts(s) == [d \in dates_set(s) |-> Cardinality({i \in DOMAIN s : s[i].day = d})]
Week(d) == d \div DaysPerWeek

\* A course that is examined in two semesters counts with its last exams.
MoedDate(s, course, moed) == s[Max({i \in DOMAIN s : s[i].course = course /\ s[i].moed = moed})].day
BothMoeds(s) ==
    {s[i].course : i \in {j \in DOMAIN s : s[j].moed = "ALEPH"}} \cap
    {s[i].course : i \in {j \in DOMAIN s : s[j].moed = "BET"}}
MoedGap(s, course) ==
    LET gap == MoedDate(s, course, "BET") - MoedDate(s, course, "ALEPH") IN IF gap < 0 THEN -gap ELSE gap

_moed_gaps(s) == MapSeq(Listed(BothMoeds(s)), LAMBDA c : MoedGap(s, c))
_min_moed_gap(s) == IF _moed_gaps(s) = <<>> THEN 0 ELSE Scale * Min(Range(_moed_gaps(s)))

\* _lower_is_better_score.
Penalty(value) == -value

\* The square root of a number below 2^30, rounded down: its binary digits, the highest first.
Root(x) ==
    FoldLeft(LAMBDA r, digit : IF (r + digit) * (r + digit) <= x THEN r + digit ELSE r,
             0, [i \in 1 .. 15 |-> 2^(15 - i)])

\* _spacing_scores.
_gap_std_dev(s) ==
    LET gaps == Gaps(sorted_dates(s))
        n == Len(gaps)
    IN IF n = 0 THEN 0
       ELSE Penalty(Root((Scale * Scale * (n * SumOf(MapSeq(gaps, LAMBDA g : g * g)) - SumOf(gaps) * SumOf(gaps)))
                            \div (n * n)))

_max_rest_days(s) ==
    LET gaps == Gaps(sorted_dates(s)) IN IF gaps = <<>> THEN 0 ELSE Penalty(Scale * Max(Range(gaps)))

_avg_prep_days(s) ==
    LET days == sorted_dates(s)
        prepared == {i \in 2 .. Len(days) : days[i] \in mandatory_dates(s)}
    IN MeanOf(MapSeq(Listed(prepared), LAMBDA i : days[i] - days[i - 1]))

_double_exam_days(s) == Penalty(Scale * Cardinality({d \in dates_set(s) : date_counts(s)[d] >= 2}))

_busiest_week_count(s) ==
    LET exams(w) == Cardinality({i \in DOMAIN s : Week(s[i].day) = w})
    IN Penalty(Scale * MostOf({Week(d) : d \in dates_set(s)}, exams))

_mandatory_consecutive_days(s) ==
    Penalty(Scale * Len(SelectSeq(Gaps(Sorted(mandatory_dates(s))), LAMBDA g : g = 1)))

\* The days of some assignments, sorted; a day may come twice.
DaysOf(s, Test(_)) == SortSeq(MapSeq(SelectSeq(s, Test), LAMBDA a : a.day), <)

_b2b_exam_incidence(s) ==
    LET programs == UNION {DOMAIN s[i].programs : i \in DOMAIN s}
        gaps == FlattenSeq(MapSeq(Listed(programs), LAMBDA p : Gaps(DaysOf(s, LAMBDA a : p \in DOMAIN a.programs))))
    IN Penalty(MeanOf(MapSeq(gaps, LAMBDA g : IF g = 1 THEN 1 ELSE 0)))

_dept_exam_concurrency(s) ==
    LET exams(x) == Cardinality({i \in DOMAIN s : s[i].dept = x[1] /\ s[i].day = x[2]})
    IN Penalty(Scale * MostOf({<<s[i].dept, s[i].day>> : i \in DOMAIN s}, exams))

\* 21 days where nobody has two exams.
_instructor_exam_gap(s) ==
    LET people == {s[i].instructor : i \in DOMAIN s} \ {""}
        gaps == UNION {Range(Gaps(DaysOf(s, LAMBDA a : a.instructor = who))) : who \in people}
    IN Scale * (IF gaps = {} THEN 21 ELSE Min(gaps))

\* compute; every schedule has an assignment.
compute(s) ==
    [AVG_MOED_GAP |-> MeanOf(_moed_gaps(s)), MIN_MOED_GAP |-> _min_moed_gap(s),
     GAP_STD_DEV |-> _gap_std_dev(s), MAX_REST_DAYS |-> _max_rest_days(s),
     AVG_PREP_DAYS |-> _avg_prep_days(s), DOUBLE_EXAM_DAYS |-> _double_exam_days(s),
     BUSIEST_WEEK_COUNT |-> _busiest_week_count(s),
     MANDATORY_CONSEC |-> _mandatory_consecutive_days(s),
     B2B_EXAM_INCIDENCE |-> _b2b_exam_incidence(s),
     DEPT_EXAM_CONCURRENCY |-> _dept_exam_concurrency(s),
     INSTRUCTOR_EXAM_GAP |-> _instructor_exam_gap(s)]

\* The stored value of a feature nobody has computed yet.
NotComputed == [c \in Range(ALL_EXTENDED_FEATURES) |-> 0]

-----------------------------------------------------------------------------
(***************************************************************************)
(* What the features count, defined of the exams themselves: a reference   *)
(* for compute, not the words of CRITERION_SUMMARIES.  These speak of a    *)
(* student's consecutive mandatory days and days of preparation, where the *)
(* program puts the days of all programs together, and of the share of all *)
(* exams that are back to back, where it takes the steps in each program.  *)
(***************************************************************************)
Before(s, d) == {e \in dates_set(s) : e < d}
Wait(s, d) == d - Max(Before(s, d))
Waits(s, S) == {d \in S : Before(s, d) # {}}
AverageOver(S, f(_)) == IF S = {} THEN 0 ELSE (Scale * MapThenSumSet(f, S)) \div Cardinality(S)
ExamsOn(s, d) == {i \in DOMAIN s : s[i].day = d}
ProgramDays(s, p) == {s[i].day : i \in {j \in DOMAIN s : p \in DOMAIN s[j].programs}}
ProgramExams(s, p) == {i \in DOMAIN s : p \in DOMAIN s[i].programs}
ProgramsOf(s) == UNION {DOMAIN s[i].programs : i \in DOMAIN s}

Natural(s) ==
    [AVG_MOED_GAP |-> AverageOver(BothMoeds(s), LAMBDA c : MoedGap(s, c)),
     MIN_MOED_GAP |-> IF BothMoeds(s) = {} THEN 0 ELSE Scale * Min({MoedGap(s, c) : c \in BothMoeds(s)}),
     \* The mean square of the difference of two gaps is twice their variance.
     GAP_STD_DEV |->
        LET ends == Waits(s, dates_set(s))
            pairs == ends \X ends
        IN IF ends = {} THEN 0
           ELSE Root((Scale * Scale
                        * MapThenSumSet(LAMBDA x : (Wait(s, x[1]) - Wait(s, x[2])) * (Wait(s, x[1]) - Wait(s, x[2])), pairs))
                    \div (2 * Cardinality(pairs))),
     MAX_REST_DAYS |->
        LET ends == Waits(s, dates_set(s)) IN IF ends = {} THEN 0 ELSE Scale * Max({Wait(s, d) : d \in ends}),
     AVG_PREP_DAYS |-> AverageOver(Waits(s, mandatory_dates(s)), LAMBDA d : Wait(s, d)),
     DOUBLE_EXAM_DAYS |-> Scale * Cardinality({d \in dates_set(s) : Cardinality(ExamsOn(s, d)) > 1}),
     BUSIEST_WEEK_COUNT |->
        Scale * Max({Cardinality(UNION {ExamsOn(s, e) : e \in {x \in dates_set(s) : Week(x) = Week(d)}}) : d \in dates_set(s)}),
     MANDATORY_CONSEC |-> Scale * Cardinality({d \in mandatory_dates(s) : d + 1 \in mandatory_dates(s)}),
     \* Of a program's exams in their order, the share that comes a day after the one before.
     B2B_EXAM_INCIDENCE |->
        LET steps == MapThenSumSet(LAMBDA p : Cardinality(ProgramExams(s, p)) - 1, ProgramsOf(s))
            short == MapThenSumSet(LAMBDA p : Cardinality({d \in ProgramDays(s, p) : d + 1 \in ProgramDays(s, p)}), ProgramsOf(s))
        IN IF steps = 0 THEN 0 ELSE (Scale * short) \div steps,
     DEPT_EXAM_CONCURRENCY |->
        Scale * Max({Cardinality({j \in ExamsOn(s, s[i].day) : s[j].dept = s[i].dept}) : i \in DOMAIN s}),
     INSTRUCTOR_EXAM_GAP |->
        LET apart == {s[x[1]].day - s[x[2]].day :
                        x \in {y \in (DOMAIN s) \X (DOMAIN s) :
                                 /\ y[1] # y[2] /\ s[y[1]].day >= s[y[2]].day
                                 /\ s[y[1]].instructor = s[y[2]].instructor /\ s[y[1]].instructor # ""}}
        IN Scale * (IF apart = {} THEN 21 ELSE Min(apart))]
=============================================================================
