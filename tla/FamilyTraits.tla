------------------------------ MODULE FamilyTraits ------------------------------
(***************************************************************************)
(* What the screens say of the families: the traits of each, the values of *)
(* its criteria, and the ratings of two that are compared.                 *)
(*                                                                         *)
(* A family is a set of positions of the sample, and vectors[i] maps the   *)
(* criteria to the stored scores of the schedule at position i.            *)
(***************************************************************************)
EXTENDS ScheduleFeatures

CONSTANT FamilyScale    \* a multiple of the size of every family

ASSUME TraitAssumption == FamilyScale \in Nat \ {0}

-----------------------------------------------------------------------------
(***************************************************************************)
(* CriterionMetadata.  The higher a stored score, the better.              *)
(***************************************************************************)
LOWER_IS_BETTER_CRITERIA ==
    {"ELECTIVE_CONFLICTS", "MAX_EXAMS_PER_DAY", "DOUBLE_EXAM_DAYS", "BUSIEST_WEEK_COUNT", "MANDATORY_CONSEC",
     "GAP_STD_DEV", "MAX_REST_DAYS", "B2B_EXAM_INCIDENCE", "DEPT_EXAM_CONCURRENCY"}

is_lower_better(c) == c \in LOWER_IS_BETTER_CRITERIA

\* What the comparison shows of a score.
display_value(c, raw) == IF is_lower_better(c) THEN -raw ELSE raw

\* The length of a bar, 0 to 100, for the display value of a family's mean, in units of
\* 1 / (Scale * FamilyScale): a full bar for so much, one for nothing at all that shrinks as it
\* grows, one for up to so much, and a percentage.  The strings in between round to a tenth.
FullAt == [MIN_MANDATORY_GAP |-> 4, AVG_ALL_COURSES_GAP |-> 6, MANDATORY_SPAN |-> 28, AVG_MOED_GAP |-> 14,
           MIN_MOED_GAP |-> 10, AVG_PREP_DAYS |-> 4, INSTRUCTOR_EXAM_GAP |-> 7]
FullUpTo == [MAX_EXAMS_PER_DAY |-> 1, BUSIEST_WEEK_COUNT |-> 2, MAX_REST_DAYS |-> 5, DEPT_EXAM_CONCURRENCY |-> 1]
display_bar_score(c, value) ==
    LET one == Scale * FamilyScale
        score == CASE c \in DOMAIN FullAt -> (100 * value) \div (FullAt[c] * one)
                   [] c \in DOMAIN FullUpTo ->
                        IF value <= FullUpTo[c] * one THEN 100 ELSE (100 * FullUpTo[c] * one) \div value
                   [] c = "B2B_EXAM_INCIDENCE" -> (100 * (one - value)) \div one
                   [] OTHER -> (100 * one) \div (one + value)
    IN Min({100, Max({0, score})})

\* Mutant: the phrases of exams of a department on a day stand in the wrong order.
standout_phrases_HighFirst(c) ==
    IF c \in {"ELECTIVE_CONFLICTS", "MAX_EXAMS_PER_DAY", "GAP_STD_DEV", "DOUBLE_EXAM_DAYS", "B2B_EXAM_INCIDENCE",
              "BUSIEST_WEEK_COUNT", "MAX_REST_DAYS", "MANDATORY_CONSEC"}
    THEN <<"less", "more">> ELSE <<"more", "less">>

\* CLUSTER_STANDOUT_PHRASES: of a high score, and of a low one.  A phrase is what it says of
\* the thing that is counted; an even spacing is one that deviates less.
standout_phrases(c) ==
    IF c \in {"ELECTIVE_CONFLICTS", "MAX_EXAMS_PER_DAY", "GAP_STD_DEV", "DOUBLE_EXAM_DAYS", "B2B_EXAM_INCIDENCE",
              "BUSIEST_WEEK_COUNT", "DEPT_EXAM_CONCURRENCY", "MAX_REST_DAYS", "MANDATORY_CONSEC"}
    THEN <<"less", "more">> ELSE <<"more", "less">>

-----------------------------------------------------------------------------
(***************************************************************************)
(* ClusterSummarizer, which counts in float64.  Here a mean is the exact   *)
(* one.  Rounding is no match for families that differ; between families   *)
(* that do not it is all there is, and depends on their number, their      *)
(* sizes and the order of what is added.                                   *)
(***************************************************************************)
\* A float holds a fraction if its denominator is a power of two, and few roots.
OddPart(n) == Max({k \in 1 .. n : k % 2 = 1 /\ n % k = 0})
IsHeld(c, score) == score % OddPart(Scale) = 0 /\ (c = "GAP_STD_DEV" => score = 0)

\* The mean scores of a family, in units of 1 / FamilyScale.
_summarize(vectors, members) ==
    [c \in DOMAIN vectors[1] |->
        (FamilyScale * MapThenSumSet(LAMBDA i : vectors[i][c], members)) \div Cardinality(members)]

\* The float mean of a family is the nearest to the exact one for sure: sums of what floats hold
\* are exact, and so is half of the double.
SummaryIsExact(vectors, members, c) ==
    LET scores == {vectors[i][c] : i \in members}
    IN (\A x \in scores : IsHeld(c, x)) \/ (Cardinality(members) <= 2 /\ Cardinality(scores) = 1)

\* _population_stats: values[f] is the mean score of family f in a criterion.  The float mean
\* of equal values is that value for sure, and their deviation 0.
Differ(values) == Cardinality(Range(values)) > 1
MeanIsExact(c, values) ==
    Len(values) <= 2 \/ (values[1] % FamilyScale = 0 /\ IsHeld(c, values[1] \div FamilyScale))

\* How far each value is from the mean of all, times their number.
Deviations(values) ==
    LET all == SumOf(values) IN [f \in DOMAIN values |-> Len(values) * values[f] - all]

\* _describe: what may be said of family f in a criterion: something if it is at least 0.6
\* standard deviations from the mean, otherwise ""; two of these make its description.  The
\* deviation is compared with 0, although it is that of rounded means.
said(c, values, exact, f) ==
    LET deviations == Deviations(values)
        squares == SumOf(MapSeq(deviations, LAMBDA d : d * d))
    IN IF ~Differ(values) THEN IF exact THEN {""} ELSE {""} \cup Range(standout_phrases(c))
       ELSE IF 25 * Len(values) * deviations[f] * deviations[f] < 9 * squares THEN {""}
       ELSE {standout_phrases(c)[IF deviations[f] > 0 THEN 1 ELSE 2]}

-----------------------------------------------------------------------------
(***************************************************************************)
(* The ratings of a comparison, of the representatives' scores.            *)
(***************************************************************************)
\* COMPOSITE_LABEL_RECIPES: criteria and their shares, in tenths.
COMPOSITE_LABEL_RECIPES ==
    [student_comfort |-> ("MIN_MANDATORY_GAP" :> 5 @@ "B2B_EXAM_INCIDENCE" :> 3 @@ "AVG_PREP_DAYS" :> 2),
     admin_load |-> ("ELECTIVE_CONFLICTS" :> 6 @@ "DOUBLE_EXAM_DAYS" :> 4),
     faculty_impact |-> ("DEPT_EXAM_CONCURRENCY" :> 5 @@ "INSTRUCTOR_EXAM_GAP" :> 5),
     schedule_spread |-> ("MANDATORY_SPAN" :> 6 @@ "MAX_REST_DAYS" :> 4)]

\* quality_label and spread_label, from "Critical" and "Compressed", 0, to "Excellent" and "Wide", 4.
Label(score) == Cardinality({bound \in {25, 45, 65, 85} : score >= bound})

\* _get_relative_score: the place of a value between the least and the greatest of all families.
_get_relative_score(representatives, c, value) ==
    LET all == {r[c] : r \in Range(representatives)}
    IN IF Max(all) = Min(all) THEN 100
       ELSE ((IF is_lower_better(c) THEN Max(all) - value ELSE value - Min(all)) * 100) \div (Max(all) - Min(all))

\* representatives[f] is the scores of the representative of family f.
_compute_composite_labels(representatives, f) ==
    [name \in DOMAIN COMPOSITE_LABEL_RECIPES |->
        LET recipe == COMPOSITE_LABEL_RECIPES[name]
            known == DOMAIN recipe \cap DOMAIN representatives[f]
            scores == MapThenSumSet(LAMBDA c : recipe[c] * _get_relative_score(representatives, c, representatives[f][c]), known)
        IN IF known = {} THEN Label(50) ELSE Label(scores \div MapThenSumSet(LAMBDA c : recipe[c], known))]

\* Which of two compared families is marked as the better one, by criterion.
better_by_criterion(a, b) ==
    [c \in DOMAIN a |-> CASE a[c] = b[c] -> "" [] a[c] > b[c] -> "left" [] OTHER -> "right"]
=============================================================================
