----------------------------- MODULE ClusterRequests -----------------------------
(***************************************************************************)
(* What a text in the user's words asks of the clustering engine: the      *)
(* criteria, their weights and the number of families.                     *)
(*                                                                         *)
(* A text is what its words say to the keyword parser.  A reply of the     *)
(* language model is the JSON object it sends, or "prose" where there is   *)
(* none.  Weights are counted in thousandths, confidence in tenths; k is 0 *)
(* where the number of families is left to the engine.                     *)
(***************************************************************************)
EXTENDS Integers, FiniteSets, SequencesExt, FiniteSetsExt, Functions

ALL_CRITERIA == <<"MIN_MANDATORY_GAP", "AVG_ALL_COURSES_GAP", "ELECTIVE_CONFLICTS",
                  "MANDATORY_SPAN", "MAX_EXAMS_PER_DAY">>

ALL_EXTENDED_FEATURES ==
    <<"GAP_STD_DEV", "AVG_PREP_DAYS", "MAX_REST_DAYS", "B2B_EXAM_INCIDENCE", "DEPT_EXAM_CONCURRENCY",
      "INSTRUCTOR_EXAM_GAP", "AVG_MOED_GAP", "MIN_MOED_GAP", "DOUBLE_EXAM_DAYS", "BUSIEST_WEEK_COUNT",
      "MANDATORY_CONSEC">>

Criteria == Range(ALL_CRITERIA) \cup Range(ALL_EXTENDED_FEATURES)

-----------------------------------------------------------------------------
(***************************************************************************)
(* ClusterConfig.                                                          *)
(***************************************************************************)
Unweighted == [c \in {} |-> 0]

\* The two defaults: of a configuration with no criteria of its own, and of the screen.
RawConfig == [criteria |-> ALL_CRITERIA, weights |-> Unweighted, k |-> 0]
default ==
    [criteria |-> ALL_CRITERIA, k |-> 4,
     weights |-> ("ELECTIVE_CONFLICTS" :> 1500 @@ "MAX_EXAMS_PER_DAY" :> 1500 @@ "MANDATORY_SPAN" :> 1000
                  @@ "AVG_ALL_COURSES_GAP" :> 800 @@ "MIN_MANDATORY_GAP" :> 800)]

Valid(config) ==
    /\ config.criteria # <<>> /\ Range(config.criteria) \subseteq Criteria
    /\ IsInjective(config.criteria)
    /\ DOMAIN config.weights \subseteq Criteria
    /\ \A c \in DOMAIN config.weights : config.weights[c] >= 0
    /\ config.k >= 0

WeightOf(weights, c) == IF c \in DOMAIN weights THEN weights[c] ELSE 1000
weight_vector(config) == [i \in DOMAIN config.criteria |-> WeightOf(config.weights, config.criteria[i])]

\* The metric and the strategy that are built from the weights refuse nothing but zeros.
CanCluster(config) == \E w \in Range(weight_vector(config)) : w > 0

-----------------------------------------------------------------------------
(***************************************************************************)
(* HeuristicRequestParser.  A text: the criteria that its words mention,   *)
(* whether it stresses something, a number of groups in digits and one in  *)
(* words; 0 for none.                                                      *)
(***************************************************************************)
\* The order of _CRITERION_KEYWORDS.
KeywordOrder ==
    ALL_CRITERIA \o <<"GAP_STD_DEV", "AVG_PREP_DAYS", "MAX_REST_DAYS", "B2B_EXAM_INCIDENCE",
                      "DEPT_EXAM_CONCURRENCY", "INSTRUCTOR_EXAM_GAP", "AVG_MOED_GAP", "MIN_MOED_GAP",
                      "DOUBLE_EXAM_DAYS", "BUSIEST_WEEK_COUNT", "MANDATORY_CONSEC">>

_match_criteria(text) == SelectSeq(KeywordOrder, LAMBDA c : c \in text.mentions)

\* The emphasis goes to the first criterion of the table, wherever it stands in the text.
Emphasised(text) == IF text.stress /\ text.mentions # {} THEN {Head(_match_criteria(text))} ELSE {}

\* Digits outside 2..20 are no number of groups; number words go from one to ten.
_match_k(text) == IF text.digits \in 2 .. 20 THEN text.digits ELSE text.word

parse(text) ==
    [criteria |-> IF text.mentions = {} THEN RawConfig.criteria ELSE _match_criteria(text),
     weights |-> [c \in Emphasised(text) |-> 3000], k |-> _match_k(text)]

-----------------------------------------------------------------------------
(***************************************************************************)
(* ClusterRequestTranslator: what a reply of the model comes to.  A reply: *)
(* topics, thresholds and confidence by topic, span, and k, 0 unless       *)
(* k_mode is "fixed" and a k is there.                                     *)
(***************************************************************************)
\* TOPIC_CRITERIA: the criteria of a topic, and the weights of some of them.
TOPIC_CRITERIA ==
    [retake_time |-> <<<<"AVG_MOED_GAP", "MIN_MOED_GAP">>, "AVG_MOED_GAP" :> 2000>>,
     study_prep |-> <<<<"AVG_PREP_DAYS", "MIN_MANDATORY_GAP">>, "AVG_PREP_DAYS" :> 3000>>,
     daily_load |-> <<<<"MAX_EXAMS_PER_DAY", "DOUBLE_EXAM_DAYS", "BUSIEST_WEEK_COUNT", "DEPT_EXAM_CONCURRENCY">>,
                      "MAX_EXAMS_PER_DAY" :> 2000 @@ "DEPT_EXAM_CONCURRENCY" :> 1200>>,
     weekly_load |-> <<<<"BUSIEST_WEEK_COUNT", "MAX_EXAMS_PER_DAY">>, "BUSIEST_WEEK_COUNT" :> 2000>>,
     rest |-> <<<<"MIN_MANDATORY_GAP", "AVG_ALL_COURSES_GAP", "MAX_REST_DAYS">>, Unweighted>>,
     consistency |-> <<<<"GAP_STD_DEV", "AVG_ALL_COURSES_GAP">>, "GAP_STD_DEV" :> 2000>>,
     consecutive |-> <<<<"B2B_EXAM_INCIDENCE", "MANDATORY_CONSEC", "MIN_MANDATORY_GAP">>,
                       "MANDATORY_CONSEC" :> 3000 @@ "B2B_EXAM_INCIDENCE" :> 3000>>,
     span |-> <<<<"MANDATORY_SPAN", "AVG_ALL_COURSES_GAP">>, Unweighted>>,
     conflicts |-> <<<<"ELECTIVE_CONFLICTS", "MAX_EXAMS_PER_DAY">>, Unweighted>>,
     balance |-> <<<<"BUSIEST_WEEK_COUNT", "GAP_STD_DEV", "AVG_ALL_COURSES_GAP">>,
                   "BUSIEST_WEEK_COUNT" :> 1500 @@ "GAP_STD_DEV" :> 1500>>,
     faculty_load |-> <<<<"INSTRUCTOR_EXAM_GAP", "DEPT_EXAM_CONCURRENCY">>, "INSTRUCTOR_EXAM_GAP" :> 2000>>,
     general |-> <<ALL_CRITERIA \o ALL_EXTENDED_FEATURES, Unweighted>>]

Topics == DOMAIN TOPIC_CRITERIA
CriteriaOf(topic) == TOPIC_CRITERIA[topic][1]
BaseWeights(topic) == TOPIC_CRITERIA[topic][2]

\* FUZZY_TOPIC_MAP, the names in English.
Aliases ==
    [daily_load |-> {"load", "daily", "cramming", "cramped"},
     weekly_load |-> {"weekly", "heavy", "light"},
     retake_time |-> {"retake", "retake_gap", "moed"},
     study_prep |-> {"prep", "preparation", "study", "revision"},
     rest |-> {"gap", "gaps", "rest_time"},
     consistency |-> {"spacing"},
     span |-> {"spread", "compact", "concentrated"},
     balance |-> {"distribution", "even", "balanced", "uniform"},
     consecutive |-> {"back_to_back", "backtoback", "back2back", "consecutive_days"},
     faculty_load |-> {"faculty", "instructor", "instructor_time", "grading", "dept_load", "department"}]

Normalized(name) ==
    IF \E t \in DOMAIN Aliases : name \in Aliases[t] THEN CHOOSE t \in DOMAIN Aliases : name \in Aliases[t] ELSE name

\* A reply without topics is taken for "general"; names that are no topic are dropped.
_normalized_topics(reply) ==
    LET names == IF reply.topics = <<>> THEN <<"general">> ELSE reply.topics
    IN SelectSeq([i \in DOMAIN names |-> Normalized(names[i])], LAMBDA t : t \in Topics)

\* The criteria of all topics, in the order in which they are met.
MergedCriteria(topics) ==
    FoldLeft(LAMBDA merged, c : IF c \in Range(merged) THEN merged ELSE Append(merged, c),
             <<>>, FlattenSeq([i \in DOMAIN topics |-> CriteriaOf(topics[i])]))

\* The rank of a topic and the model's confidence weaken it; in tenths, each.
Decay(rank) == <<10, 8, 6>>[IF rank < 3 THEN rank ELSE 3]
Confidence(reply, topic) ==
    LET said == IF topic \in DOMAIN reply.confidence THEN reply.confidence[topic] ELSE 10
    IN IF said < 1 THEN 1 ELSE IF said > 10 THEN 10 ELSE said

Scaled(reply, topics, i, c) == (BaseWeights(topics[i])[c] * Decay(i) * Confidence(reply, topics[i])) \div 100

\* The weights of all topics; a criterion of several has the largest.
MergedWeights(reply, topics) ==
    [c \in UNION {DOMAIN BaseWeights(topics[i]) : i \in DOMAIN topics} |->
        Max({Scaled(reply, topics, i, c) : i \in {j \in DOMAIN topics : c \in DOMAIN BaseWeights(topics[j])}})]

\* _apply_threshold_weight_boosts: a bound of N makes a weight (1 + N/5) times as large, up to 5.
Boosted(weights, reply) ==
    FoldLeft(LAMBDA ws, name :
                LET boosted == IF Normalized(name) \in Topics THEN Range(CriteriaOf(Normalized(name))) ELSE {}
                    weight(c) == (WeightOf(ws, c) * (5 + reply.thresholds[name])) \div 5
                IN [c \in boosted |-> IF weight(c) < 5000 THEN weight(c) ELSE 5000] @@ ws,
             weights, SetToSeq(DOMAIN reply.thresholds))

_apply_span_direction(weights, reply) ==
    CASE reply.span = "compact" -> "MANDATORY_SPAN" :> 500 @@ weights
      [] reply.span = "spread" -> "MANDATORY_SPAN" :> 2000 @@ weights
      [] OTHER -> weights

\* 0: no suggestion.
SMART_K ==
    [retake_time |-> 2, daily_load |-> 4, weekly_load |-> 3, rest |-> 4, study_prep |-> 3, consistency |-> 0,
     consecutive |-> 2, span |-> 0, conflicts |-> 3, balance |-> 4, faculty_load |-> 3, general |-> 0]

Clamped(k) == IF k < 2 THEN 2 ELSE IF k > 20 THEN 20 ELSE k

\* _k_kwargs and _apply_smart_k.
ChosenK(reply, topics) ==
    IF reply.k # 0 THEN Clamped(reply.k)
    ELSE IF topics # <<>> THEN SMART_K[Head(topics)] ELSE 0

_config_from_llm(reply) ==
    LET topics == _normalized_topics(reply)
    IN [criteria |-> IF topics = <<>> THEN ALL_CRITERIA \o ALL_EXTENDED_FEATURES ELSE MergedCriteria(topics),
        weights |-> _apply_span_direction(Boosted(MergedWeights(reply, topics), reply), reply),
        k |-> ChosenK(reply, topics)]
=============================================================================
