------------------------------ MODULE Feasibility ------------------------------
(***************************************************************************)
(* The checks of a request before it is searched: ScheduleFeasibility-     *)
(* Validator with its structural rules (src/logic/feasibility) and the     *)
(* bound of every checker of the run.  Each looks at the domains only, and *)
(* may say "impossible" when the search would only have found nothing.     *)
(***************************************************************************)
EXTENDS ExamRules, SequencesExt

\* ConstraintsConfig.validate: a rule that is on has a k from its min_k.
ConfigIsValid ==
    \A field \in DOMAIN Config :
        Config[field] # Disabled => Config[field] >= (IF field = "electiveConflictCap" THEN 0 ELSE 1)

-----------------------------------------------------------------------------
(***************************************************************************)
(* helpers.py.                                                             *)
(***************************************************************************)
Domain(i) == Range(Slots[i].dates)
all_dates(S) == UNION {Domain(i) : i \in S}
slots_by_domain(S, domain) == {i \in S : Domain(i) = domain}

NoDate == -1
first_after(candidates, previous) ==
    IF \E d \in candidates : d > previous THEN Min({d \in candidates : d > previous}) ELSE NoDate

\* Mutant: k days between two exams are taken for k free days.
max_spaced_count_FreeDays(candidates, k) ==
    LET count[day \in Nat] == LET later == {d \in candidates : d >= day}
                             IN  IF later = {} THEN 0 ELSE 1 + count[Min(later) + k + 1]
    IN  count[0]

\* The greedy count: the earliest date, and on from k days after it.
max_spaced_count(candidates, k) ==
    LET count[day \in Nat] == LET later == {d \in candidates : d >= day}
                             IN  IF later = {} THEN 0 ELSE 1 + count[Min(later) + k]
    IN  count[0]

\* The windows are cut at every start of a slot that is k days or more after all dates of the
\* slots that start before it.
partition_slots_by_window(S, k) ==
    LET ranged == {i \in S : Domain(i) # {}}
        start(i) == Min(Domain(i))
        cuts == {c \in {start(i) : i \in ranged} :
                    \A j \in ranged : start(j) < c => c - Max(Domain(j)) >= k}
    IN  {{i \in ranged : c = Max({x \in cuts : x <= start(i)})} : c \in cuts}

\* n exams spread as evenly as d dates allow.
min_pair_conflicts(n, d) ==
    IF d = 0 THEN 0
    ELSE (n % d) * Pairs((n \div d) + 1) + (d - (n % d)) * Pairs(n \div d)

-----------------------------------------------------------------------------
(***************************************************************************)
(* SelectedProgramIndex: the slots of a group, by the entries of a course  *)
(* or, per semester and moed, by those that match the slot (SpanGroup).    *)
(***************************************************************************)
slots_by_program(p) == {i \in DOMAIN Slots : p \in ElectivePrograms(Slots[i].course)}
slots_by_program_year(cohort, scope) == {i \in DOMAIN Slots : cohort \in Eligible(scope)[Slots[i].course]}
SpanGroups == UNION {SpanGroup(i) : i \in DOMAIN Slots}
slots_by_program_year_semester_moed(g) == {i \in DOMAIN Slots : g \in SpanGroup(i)}
Cohorts == UNION {CohortsOf(c) : c \in Courses}

-----------------------------------------------------------------------------
(***************************************************************************)
(* The structural rules.                                                   *)
(***************************************************************************)
NonEmptyDomainRule == \E i \in DOMAIN Slots : Domain(i) = {}

MoedOrderDomainRule ==
    \E c \in Courses :
        LET mine == {i \in DOMAIN Slots : Slots[i].course = c}
            inOrder == SetToSortSeq(mine, LAMBDA i, j : Slots[i].moed < Slots[j].moed)
            advance(previous, i) == IF previous = NoDate THEN NoDate ELSE first_after(Domain(i), previous)
        IN  /\ \A i \in mine : Domain(i) # {}
            /\ \/ \E i, j \in mine : i # j /\ Slots[i].moed = Slots[j].moed
               \/ FoldLeft(advance, 0, inOrder) = NoDate

mandatory_gap_value == Max({Config.minGapObligatory, Config.minGapAny})

\* The dates that can be first, and those that can be last, in a group that reaches its span.
possible_min_dates(S) ==
    UNION {{d \in Domain(i) : Max(all_dates(S \ {i})) - d >= Config.examSpan} : i \in S}
possible_max_dates(S) ==
    UNION {{d \in Domain(i) : d - Min(all_dates(S \ {i})) >= Config.examSpan} : i \in S}

every_pair_is_too_close(left, right) ==
    \A l \in left, r \in right : (IF l < r THEN r - l ELSE l - r) < mandatory_gap_value

MandatorySpanGapRule ==
    LET slotsOf(g) == slots_by_program_year_semester_moed(g)
        groups == {g \in SpanGroups :
                      /\ Cardinality(slotsOf(g)) >= 2 /\ \A i \in slotsOf(g) : Domain(i) # {}
                      /\ possible_min_dates(slotsOf(g)) # {} /\ possible_max_dates(slotsOf(g)) # {}}
        extremes(g) == {possible_min_dates(slotsOf(g)), possible_max_dates(slotsOf(g))}
    IN  /\ Config.examSpan > 0 /\ mandatory_gap_value > 0
        /\ \E g, h \in groups :
              /\ g # h /\ g[1] = h[1] /\ g[2] = h[2]
              /\ \E left \in extremes(g), right \in extremes(h) : every_pair_is_too_close(left, right)

-----------------------------------------------------------------------------
(***************************************************************************)
(* feasibility_bound of the checkers; the base checkers have none.         *)
(***************************************************************************)
MinDaysBetweenBound(k, scope) ==
    \E cohort \in Cohorts :
        \E window \in partition_slots_by_window(slots_by_program_year(cohort, scope), k) :
            /\ Cardinality(window) >= 2
            /\ Cardinality(window) > max_spaced_count(all_dates(window), k)

ElectiveConflictCapBound ==
    \E p \in Programs :
        LET mine == slots_by_program(p)
            Forced(S, dates) == min_pair_conflicts(Cardinality(S), Cardinality(dates)) > Config.electiveConflictCap
        IN  \/ Forced(mine, all_dates(mine))
            \/ \E i \in mine : Forced(slots_by_domain(mine, Domain(i)), Domain(i))

ExamSpanBound ==
    \E g \in SpanGroups :
        LET members == slots_by_program_year_semester_moed(g)
        IN  /\ Cardinality(members) >= 2 /\ all_dates(members) # {}
            /\ Max(all_dates(members)) - Min(all_dates(members)) < Config.examSpan

MaxExamsPerDayBound ==
    LET Crowded(S, dates) == dates # {} /\ Cardinality(S) > Config.maxExamsPerDay * Cardinality(dates)
    IN  \/ Crowded(DOMAIN Slots, Dates)
        \/ \E i \in DOMAIN Slots : Crowded(slots_by_domain(DOMAIN Slots, Domain(i)), Domain(i))

\* ScheduleFeasibilityValidator.validate returns at least one error.
Infeasible ==
    \/ NonEmptyDomainRule \/ MoedOrderDomainRule \/ MandatorySpanGapRule
    \/ Config.minGapObligatory # Disabled /\ MinDaysBetweenBound(Config.minGapObligatory, "OBLIGATORY_ONLY")
    \/ Config.minGapAny # Disabled /\ MinDaysBetweenBound(Config.minGapAny, "ANY")
    \/ Config.electiveConflictCap # Disabled /\ ElectiveConflictCapBound
    \/ Config.examSpan # Disabled /\ ExamSpanBound
    \/ Config.maxExamsPerDay # Disabled /\ MaxExamsPerDayBound
=============================================================================
