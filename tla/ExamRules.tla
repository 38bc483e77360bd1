------------------------------ MODULE ExamRules ------------------------------
(***************************************************************************)
(* The conflict checkers (src/logic/checkers) as operators, and the rules  *)
(* they stand for as predicates on complete schedules.                     *)
(*                                                                         *)
(* A checker answers one question during the search: may this slot take    *)
(* this date, given what is already placed.  It reads the indexes that     *)
(* ExamSchedule keeps, never the whole schedule.  A rule is what a user    *)
(* asks for: it reads a complete schedule and knows nothing of an order    *)
(* of placing.  That the two agree is what ExamSearch checks.              *)
(*                                                                         *)
(* A date is its ordinal, a moed its rank, an assignment a slot number     *)
(* with a date.                                                            *)
(***************************************************************************)
EXTENDS Integers, Sequences, FiniteSets, Functions, FiniteSetsExt

CONSTANTS
    Slots,     \* what SlotBuilder built: course, semester, moed, dates
    Entries,   \* SelectedProgramIndex: the selected entries of each course; the
               \* parser lets a course have one entry per program and year
    Config     \* ConstraintsConfig: one number per optional rule

Disabled == -1     \* a field of ConstraintsConfig that is None

Dates == UNION {Range(Slots[i].dates) : i \in DOMAIN Slots}
Courses == DOMAIN Entries
Programs == {e.program : e \in UNION Range(Entries)}

Course(a) == Slots[a.slot].course
Moed(a) == Slots[a.slot].moed
Semester(a) == Slots[a.slot].semester

(***************************************************************************)
(* What the checkers prepare.                                              *)
(***************************************************************************)
CohortsOf(c) == {<<e.program, e.year>> : e \in Entries[c]}
CohortsWith(c, requirement) ==
    {<<e.program, e.year>> : e \in {x \in Entries[c] : x.requirement = requirement}}

ObligatoryCohorts(c) == CohortsWith(c, "obligatory")
ElectivePrograms(c) == {cohort[1] : cohort \in CohortsWith(c, "elective")}

\* MinDaysBetweenExamsChecker._eligible_masks for a GapScope.
Eligible(scope) ==
    [c \in Courses |-> IF scope = "ANY" THEN CohortsOf(c) ELSE ObligatoryCohorts(c)]

Conflicting(c, d) ==
    /\ c # d
    /\ \/ CohortsOf(c) \cap ObligatoryCohorts(d) # {}
       \/ CohortsOf(d) \cap ObligatoryCohorts(c) # {}

\* The slots whose course is obligatory for the program and year in the
\* semester of the slot, per group.
SpanGroup(i) ==
    {<<e.program, e.year, Slots[i].semester, Slots[i].moed>> :
        e \in {x \in Entries[Slots[i].course] :
                  x.requirement = "obligatory" /\ x.semester = Slots[i].semester}}
SpanMembers(g) == {Slots[i].course : i \in {j \in DOMAIN Slots : g \in SpanGroup(j)}}

(***************************************************************************)
(* The checkers.  sched holds the indexes of ExamSchedule: assignments,    *)
(* onDate (courses per date) and ofCourse (assignments per course).        *)
(* counts is what the elective checker serves from its cache.              *)
(***************************************************************************)
ProgramYearConflict(a, sched) ==
    \E c \in sched.onDate[a.date] : Conflicting(Course(a), c)

\* Mutant: two moedim of a course may share a date.
MoedOrder_SameDay(a, sched) ==
    \E b \in Range(sched.ofCourse[Course(a)]) :
        \/ Moed(b) = Moed(a)
        \/ Moed(b) < Moed(a) /\ b.date > a.date
        \/ Moed(b) > Moed(a) /\ b.date < a.date
MoedOrder(a, sched) ==
    \E b \in Range(sched.ofCourse[Course(a)]) :
        \/ Moed(b) = Moed(a)
        \/ Moed(b) < Moed(a) /\ b.date >= a.date
        \/ Moed(b) > Moed(a) /\ b.date <= a.date

MinDaysBetween(a, sched, k, cohorts) ==
    /\ k > 0
    /\ \E d \in ((a.date - k + 1) .. (a.date + k - 1)) \cap Dates :
          \E c \in sched.onDate[d] : cohorts[Course(a)] \cap cohorts[c] # {}

Pairs(n) == (n * (n - 1)) \div 2

ElectiveCounts(sched) ==
    [p \in Programs |-> [d \in Dates |->
        Cardinality({i \in DOMAIN sched.assignments :
            /\ p \in ElectivePrograms(Course(sched.assignments[i]))
            /\ sched.assignments[i].date = d})]]

ElectiveConflictCap(a, counts) ==
    \E p \in ElectivePrograms(Course(a)) :
        MapThenSumSet(LAMBDA d : Pairs(counts[p][d]), Dates) + counts[p][a.date]
            > Config.electiveConflictCap

ExamSpan(a, sched) ==
    \E g \in SpanGroup(a.slot) :
        LET others == UNION {{b \in Range(sched.ofCourse[c]) :
                                 Moed(b) = Moed(a) /\ Semester(b) = Semester(a)} :
                             c \in SpanMembers(g) \ {Course(a)}}
            placed == {a.date} \cup {b.date : b \in others}
        IN  /\ Cardinality(SpanMembers(g)) >= 2
            /\ 1 + Cardinality(others) >= Cardinality(SpanMembers(g))
            /\ Max(placed) - Min(placed) < Config.examSpan

\* Mutant: the new exam is not counted.
MaxExamsPerDay_OffByOne(a, sched) ==
    /\ Config.maxExamsPerDay > 0
    /\ Cardinality(sched.onDate[a.date]) > Config.maxExamsPerDay
MaxExamsPerDay(a, sched) ==
    /\ Config.maxExamsPerDay > 0
    /\ Cardinality(sched.onDate[a.date]) + 1 > Config.maxExamsPerDay

(***************************************************************************)
(* The checkers of a run in the order build_checkers makes them: the two   *)
(* base rules, then the optional ones the configuration enables.           *)
(***************************************************************************)
RejectsBeforeElective(a, sched) ==
    \/ ProgramYearConflict(a, sched)
    \/ MoedOrder(a, sched)
    \/ MinDaysBetween(a, sched, Config.minGapObligatory, Eligible("OBLIGATORY_ONLY"))
    \/ MinDaysBetween(a, sched, Config.minGapAny, Eligible("ANY"))

\* This probe makes the elective checker look at its counts.
AsksElective(a, sched) ==
    /\ Config.electiveConflictCap # Disabled
    /\ ElectivePrograms(Course(a)) # {}
    /\ ~RejectsBeforeElective(a, sched)

Rejects(a, sched, counts) ==
    \/ RejectsBeforeElective(a, sched)
    \/ AsksElective(a, sched) /\ ElectiveConflictCap(a, counts)
    \/ Config.examSpan # Disabled /\ ExamSpan(a, sched)
    \/ MaxExamsPerDay(a, sched)

-----------------------------------------------------------------------------
(***************************************************************************)
(* The rules, on a complete schedule f: a date for every slot.             *)
(***************************************************************************)
SameDay(f, i, j) == f[i] = f[j]

\* Two exams of one program and year, one of them obligatory, are on
\* different days.
CohortsDoNotClash(f) ==
    \A i, j \in DOMAIN Slots :
        Conflicting(Slots[i].course, Slots[j].course) => ~SameDay(f, i, j)

\* A course has each moed once, and its moedim in order.
MoedimInOrder(f) ==
    \A i, j \in DOMAIN Slots :
        i # j /\ Slots[i].course = Slots[j].course =>
            /\ Slots[i].moed # Slots[j].moed
            /\ Slots[i].moed < Slots[j].moed => f[i] < f[j]

\* Exams of courses that share a cohort are at least k days apart.
Apart(f, k, cohorts) ==
    \A i, j \in DOMAIN Slots :
        i < j /\ cohorts[Slots[i].course] \cap cohorts[Slots[j].course] # {} =>
            (IF f[i] < f[j] THEN f[j] - f[i] ELSE f[i] - f[j]) >= k

\* A program has at most k pairs of elective exams on one day.
ElectiveClashesBounded(f, k) ==
    \A p \in Programs :
        Cardinality({ij \in (DOMAIN Slots) \X (DOMAIN Slots) :
            /\ ij[1] < ij[2]
            /\ SameDay(f, ij[1], ij[2])
            /\ \A i \in {ij[1], ij[2]} : p \in ElectivePrograms(Slots[i].course)}) <= k

\* The obligatory exams of a program, year, semester and moed stretch over
\* at least k days.
SpanReached(f, k) ==
    \A g \in UNION {SpanGroup(i) : i \in DOMAIN Slots} :
        LET members == {i \in DOMAIN Slots : g \in SpanGroup(i)}
        IN  Cardinality(members) >= 2 =>
                \E i, j \in members : f[j] - f[i] >= k

DaysNotCrowded(f, k) ==
    \A d \in Dates : Cardinality({i \in DOMAIN Slots : f[i] = d}) <= k

ObeysRules(f) ==
    /\ CohortsDoNotClash(f)
    /\ MoedimInOrder(f)
    /\ Config.minGapObligatory > 0 => Apart(f, Config.minGapObligatory, Eligible("OBLIGATORY_ONLY"))
    /\ Config.minGapAny > 0 => Apart(f, Config.minGapAny, Eligible("ANY"))
    /\ Config.electiveConflictCap # Disabled =>
          ElectiveClashesBounded(f, Config.electiveConflictCap)
    /\ Config.examSpan # Disabled => SpanReached(f, Config.examSpan)
    /\ Config.maxExamsPerDay > 0 => DaysNotCrowded(f, Config.maxExamsPerDay)

\* Every schedule a user may be shown.
ValidSchedules ==
    {f \in [DOMAIN Slots -> Dates] :
        /\ \A i \in DOMAIN Slots : f[i] \in Range(Slots[i].dates)
        /\ ObeysRules(f)}
=============================================================================
