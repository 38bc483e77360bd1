----------------------------- MODULE MCExamSearch -----------------------------
(***************************************************************************)
(* Small requests for ExamSearch.                                          *)
(***************************************************************************)
EXTENDS ExamSearch, TLC

Entry(p, y, s, r) == [program |-> p, year |-> y, semester |-> s, requirement |-> r]
Ob(p, y, s) == Entry(p, y, s, "obligatory")
El(p, y, s) == Entry(p, y, s, "elective")
CourseOf(id, programEntries) == [id |-> id, exam |-> TRUE, entries |-> programEntries]

NoRules == [minGapObligatory |-> -1, minGapAny |-> -1, electiveConflictCap |-> -1,
            examSpan |-> -1, maxExamsPerDay |-> -1]
Each(field, ks) == {[NoRules EXCEPT ![field] = k] : k \in ks}
Together == [minGapObligatory |-> 2, minGapAny |-> 1, electiveConflictCap |-> 1,
             examSpan |-> 3, maxExamsPerDay |-> 2]
Configs ==
    {NoRules, Together}
    \cup Each("minGapObligatory", {2, 3}) \cup Each("minGapAny", {2, 3})
    \cup Each("electiveConflictCap", {0, 1}) \cup Each("examSpan", {2, 3, 4})
    \cup Each("maxExamsPerDay", {1, 2})
    \cup {[NoRules EXCEPT !.examSpan = 3, !.minGapObligatory = 2]}

Aleph(n) == <<"fall", 1>> :> [i \in 1 .. n |-> i]
AlephBet(a, bet) == <<"fall", 1>> :> a @@ <<"fall", 2>> :> bet

\* Two courses with two moedim, whose periods may overlap.
TwoMoedim ==
    {[courses |-> <<CourseOf("a", {Entry("p", 1, "fall", r)}), CourseOf("b", {El("p", y, "fall")})>>,
      periods |-> AlephBet(aleph, bet), selected |-> {}, semesters |-> <<"fall">>] :
        r \in {"obligatory", "elective"}, y \in {1, 2},
        aleph \in {<<1, 3>>, <<1, 2, 3>>}, bet \in {<<2, 4>>, <<1, 3, 4>>}}

\* Three electives, one of them obligatory elsewhere, and a course without exam.
Electives ==
    [courses |-> <<CourseOf("a", {El("p", 1, "fall"), Ob("q", 2, "fall")}),
                   CourseOf("b", {El("p", 2, "fall"), Ob("q", 2, "fall")}),
                   CourseOf("c", {El("p", 1, "fall"), El("q", 1, "fall")}),
                   [id |-> "d", exam |-> FALSE, entries |-> {Ob("p", 1, "fall")}]>>,
     periods |-> Aleph(4), selected |-> {}, semesters |-> <<"fall">>]

\* Three obligatory exams of one cohort.
Cohort ==
    [courses |-> <<CourseOf("a", {Ob("p", 1, "fall")}), CourseOf("b", {Ob("p", 1, "fall")}),
                   CourseOf("c", {Ob("p", 1, "fall"), El("q", 1, "fall")})>>,
     periods |-> Aleph(4), selected |-> {}, semesters |-> <<"fall">>]

\* Two semesters; the selection leaves out a program.
TwoSemesters ==
    [courses |-> <<CourseOf("a", {Ob("p", 1, "fall"), Ob("q", 1, "fall")}),
                   CourseOf("b", {Ob("p", 1, "spring"), El("p", 2, "spring")}),
                   CourseOf("c", {Ob("p", 1, "fall"), Ob("q", 2, "spring")})>>,
     periods |-> <<"fall", 1>> :> <<1, 2, 4>> @@ <<"spring", 1>> :> <<4, 5>>,
     selected |-> {"p"}, semesters |-> <<"spring", "fall">>]

\* Two obligatory courses with two moedim, a day or two apart.
Cramped ==
    {[courses |-> <<CourseOf("a", {Ob("p", 1, "fall")}), CourseOf("b", {Ob("p", 1, "fall")})>>,
      periods |-> AlephBet(<<1, 4>>, bet), selected |-> {}, semesters |-> <<"fall">>] :
        bet \in {<<5, 8>>, <<6, 9>>}}

\* The second moed has no date left, or ends before the first begins.
Hopeless ==
    {[courses |-> <<CourseOf("a", {Ob("p", 1, "fall")}), CourseOf("b", {El("p", 2, "fall")})>>,
      periods |-> AlephBet(<<3, 4>>, bet), selected |-> {}, semesters |-> <<"fall">>] :
        bet \in {<<>>, <<1, 2>>}}

\* Requests that generate_async turns down: a semester without a period, a rule with k = 0.
NoPeriod == [TwoSemesters EXCEPT !.periods = <<"fall", 1>> :> <<1, 2, 4>>]
NoDays == [NoRules EXCEPT !.minGapAny = 0]

With(request, config, limits) ==
    [courses |-> request.courses, periods |-> request.periods, selected |-> request.selected,
     semesters |-> request.semesters, config |-> config, limits |-> limits]

\* The search runs to its end, or is stopped: by a limit, or by the user at any step.  There
\* one request of each kind is enough.
Unstopped == [desiredUnits |-> 5, maxDepth |-> 2, maxResults |-> 1000, cancel |-> FALSE]
Stopped == [desiredUnits |-> 1, maxDepth |-> 4, maxResults |-> 3, cancel |-> TRUE]

MCInputs ==
    {With(r, c, Unstopped) : r \in TwoMoedim \cup {Electives, Cohort, TwoSemesters} \cup Cramped, c \in Configs}
    \cup {With(r, NoRules, Unstopped) : r \in Hopeless}
    \cup {With(NoPeriod, NoRules, Unstopped), With(Cohort, NoDays, Unstopped)}
    \cup {With(r, c, Stopped) : c \in {NoRules, Together},
              r \in {Electives, CHOOSE t \in TwoMoedim : Cardinality(DOMAIN t.periods) = 2}}
=============================================================================
