---------------------------- MODULE RequestedFamilies ----------------------------
(***************************************************************************)
(* How the threads that cluster get their configuration and their vectors: *)
(* a request in the user's words goes through the cache, the language      *)
(* model or the keyword parser, the extended features of a sample are      *)
(* computed and stored, and the vectors are read, while other threads do   *)
(* the same and the search inserts schedules or a new run clears them.     *)
(*                                                                         *)
(* What becomes of the families on the screens, and the reuse of prepared  *)
(* coordinators, is the subject of ClusterSession.                         *)
(***************************************************************************)
EXTENDS FamilyTraits, PackedScheduleCodec

CONSTANTS
    Slots,          \* of each run: assignments without a day, with "dates"
    Exams,          \* of each schedule: its assignments in the order of placing
    CoreMetrics,    \* what ScheduleScorer counts in each schedule, without its signs
    Batches,        \* the batches of schedules of each run, in the order in which they are found
    Sampled,        \* what the seeded sampler draws of so many schedules
    Words,          \* what each text says to the keyword parser
    Replies,        \* what the model may reply to each text
    CacheLimit,     \* 20
    NumWorkers,     \* bound: threads alive at a time
    MaxRequests     \* bound: requests, first visits and schedules opened

Found(run) == FlattenSeq(Batches[run])
Texts == DOMAIN Words
\* What is stored of each schedule, what there is to count, and what a reply comes to.
\* Tables: TLC keeps the values of a function that is combined with another.
\* ScheduleScorer negates what is better when it is less.
CoreScores == Unweighted @@ [s \in DOMAIN Exams |-> [c \in Range(ALL_CRITERIA) |->
    IF c \in {"ELECTIVE_CONFLICTS", "MAX_EXAMS_PER_DAY"} THEN -CoreMetrics[s][c] ELSE CoreMetrics[s][c]]]
Packed(run, batch) == pack_rows(MapSeq(batch, LAMBDA s : encode_schedule(Exams[s], Slots[run])), Len(Slots[run]))
Counted == Unweighted @@ [s \in DOMAIN Exams |-> CoreMetrics[s] @@ Natural(Exams[s])]
Translation == Unweighted @@ [reply \in UNION Range(Replies) |-> _config_from_llm(reply)]
FirstVisit == ""    \* the families of a first visit need no text

ASSUME RequestAssumption ==
    /\ DOMAIN CoreMetrics = DOMAIN Exams /\ \A run \in DOMAIN Batches : Range(Found(run)) \subseteq DOMAIN Exams
    /\ DOMAIN Slots = DOMAIN Batches
    /\ \A r \in DOMAIN Batches : \A b \in Range(Batches[r]) :
          Fits(MapSeq(b, LAMBDA s : encode_schedule(Exams[s], Slots[r])), Len(Slots[r]))
    /\ FirstVisit \notin Texts /\ DOMAIN Replies = Texts
    /\ CacheLimit \in Nat \ {0} /\ NumWorkers \in Nat \ {0} /\ MaxRequests \in Nat

Workers == 1 .. NumWorkers

VARIABLES
    configured,     \* the model's key is set
    run,            \* the number of the run, 0 before the first
    batches,        \* schedule_batches: the packed schedules and the id of the first
    rows,           \* schedule_scores, with the schedule that was scored
    stray,          \* history: scores of another run's schedules were written over this one's
    cache,          \* the translator's answers, oldest first: [text, config]
    workers,
    requests        \* how many requests, visits and openings there were

vars == <<configured, run, batches, rows, stray, cache, workers, requests>>

NoWorker ==
    [pc |-> "none", text |-> FirstVisit, config |-> default, why |-> "", attempt |-> 0, victim |-> FirstVisit,
     run |-> 0, ids |-> <<>>, next |-> 1, found |-> Unweighted, vectors |-> <<>>, torn |-> FALSE]

Init ==
    /\ configured \in BOOLEAN
    /\ run = 0 /\ batches = <<>> /\ rows = <<>> /\ stray = FALSE /\ cache = <<>> /\ requests = 0
    /\ workers = [w \in Workers |-> NoWorker]

-----------------------------------------------------------------------------
(***************************************************************************)
(* The store.  Ids are counted from 0.                                     *)
(***************************************************************************)
count_scores == Len(rows)
HasRow(id) == id < Len(rows)

\* Mutant: the scores are written from the first row on.
update_extended_scores_FromFirst(ids, score_rows) ==
    [i \in DOMAIN rows |-> IF i <= Len(score_rows) THEN [rows[i] EXCEPT !.ext = score_rows[i]] ELSE rows[i]]

\* The ids and the score rows are zipped; an id without a row changes nothing.
update_extended_scores(ids, score_rows) ==
    [i \in DOMAIN rows |->
        LET written == {j \in DOMAIN ids \cap DOMAIN score_rows : ids[j] = i - 1}
        IN IF written = {} THEN rows[i] ELSE [rows[i] EXCEPT !.ext = score_rows[Max(written)]]]

read_score_vectors(criteria, ids) ==
    LET there == SelectSeq(ids, HasRow)
        scores(id) == CoreScores[rows[id + 1].schedule] @@ rows[id + 1].ext
    IN [i \in DOMAIN there |-> [c \in Range(criteria) |-> scores(there[i])[c]]]

\* The next batch that a worker found, packed and sent.
InsertBatch ==
    /\ run > 0 /\ Len(batches) < Len(Batches[run])
    /\ LET batch == Batches[run][Len(batches) + 1]
       IN /\ batches' = Append(batches, [first_offset |-> Len(rows), data |-> Packed(run, batch)])
          /\ rows' = rows \o MapSeq(batch, LAMBDA s : [schedule |-> s, ext |-> NotComputed])
    /\ UNCHANGED <<configured, run, stray, cache, workers, requests>>

\* Mutant: the scores outlive their schedules.
ClearForNewRun_KeepsScores ==
    /\ run < Len(Batches) /\ run' = run + 1 /\ stray' = FALSE
    /\ batches' = <<>>
    /\ UNCHANGED <<configured, rows, cache, workers, requests>>

ClearForNewRun ==
    /\ run < Len(Batches) /\ run' = run + 1 /\ batches' = <<>> /\ rows' = <<>> /\ stray' = FALSE
    /\ UNCHANGED <<configured, cache, workers, requests>>

-----------------------------------------------------------------------------
(***************************************************************************)
(* A thread begins and ends.                                               *)
(***************************************************************************)
Idle == {w \in Workers : workers[w].pc = "none"}
Goes(w, pc) == workers' = [workers EXCEPT ![w].pc = pc]
Becomes(w, new) == workers' = [workers EXCEPT ![w] = new]
Fails(w, why) == Becomes(w, [NoWorker EXCEPT !.pc = "failed", !.why = why])
Stays == <<configured, run, batches, requests>>
StoreStays == <<Stays, cache, rows, stray>>

\* ClusterRequestWorker with a text, ClusterWorker without; there is a way to the screen once
\* a run has begun.
Ask(text) ==
    /\ run > 0 /\ requests < MaxRequests /\ requests' = requests + 1 /\ Idle # {}
    /\ Becomes(Min(Idle), [NoWorker EXCEPT !.text = text, !.pc = IF text = FirstVisit THEN "count" ELSE "lookup"])
    /\ UNCHANGED <<configured, run, batches, rows, stray, cache>>

Release(w) ==
    /\ workers[w].pc \in {"done", "failed"} /\ Becomes(w, NoWorker)
    /\ UNCHANGED StoreStays

-----------------------------------------------------------------------------
(***************************************************************************)
(* translate.                                                              *)
(***************************************************************************)
Cached(text) == {i \in DOMAIN cache : cache[i].text = text}

Lookup(w) ==
    LET text == workers[w].text
    IN /\ workers[w].pc = "lookup"
       /\ CASE Cached(text) # {} -> Goes(w, "take")
            [] Cached(text) = {} /\ configured -> Goes(w, "model")
            [] OTHER -> Becomes(w, [workers[w] EXCEPT !.pc = "count", !.config = parse(Words[text])])
       /\ UNCHANGED StoreStays

\* The entry may be gone that was there a moment ago.
Take(w) ==
    LET entries == Cached(workers[w].text)
    IN /\ workers[w].pc = "take"
       /\ IF entries = {} THEN Fails(w, "evicted")
          ELSE Becomes(w, [workers[w] EXCEPT !.pc = "count", !.config = cache[Min(entries)].config])
       /\ UNCHANGED StoreStays

\* complete: status 429 is tried once more.
Throttled(w) ==
    /\ workers[w].pc = "model"
    /\ IF workers[w].attempt = 0 THEN Becomes(w, [workers[w] EXCEPT !.attempt = 1]) ELSE Fails(w, "model")
    /\ UNCHANGED StoreStays

\* Mutant: the keywords are a way out.
ModelFails_Parses(w) ==
    /\ workers[w].pc = "model"
    /\ Becomes(w, [workers[w] EXCEPT !.pc = "count", !.config = parse(Words[workers[w].text])])
    /\ UNCHANGED StoreStays

\* No reply in time, another status, or a reply without a JSON object in it.
ModelFails(w) ==
    /\ workers[w].pc = "model" /\ Fails(w, "model")
    /\ UNCHANGED StoreStays

ModelAnswers(w, text, reply) ==
    LET config == Translation[reply]
    IN /\ workers[w].pc = "model" /\ workers[w].text = text
       /\ IF Valid(config) THEN Becomes(w, [workers[w] EXCEPT !.pc = "evict", !.config = config, !.attempt = 0])
                           ELSE Fails(w, "config")
       /\ UNCHANGED StoreStays

Evict(w) ==
    /\ workers[w].pc = "evict"
    /\ IF Len(cache) >= CacheLimit THEN Becomes(w, [workers[w] EXCEPT !.pc = "pop", !.victim = Head(cache).text])
                                   ELSE Goes(w, "remember")
    /\ UNCHANGED StoreStays

\* Another thread may have taken the same victim.
Pop(w) ==
    LET victims == Cached(workers[w].victim)
    IN /\ workers[w].pc = "pop"
       /\ IF victims = {} THEN Fails(w, "evicted") /\ UNCHANGED cache
          ELSE /\ Becomes(w, [workers[w] EXCEPT !.pc = "remember", !.victim = FirstVisit])
               /\ cache' = RemoveAt(cache, Min(victims))
       /\ UNCHANGED <<Stays, rows, stray>>

\* A text that is there already keeps its place.
Remember(w) ==
    LET entry == [text |-> workers[w].text, config |-> workers[w].config]
    IN /\ workers[w].pc = "remember" /\ Goes(w, "count")
       /\ cache' = IF Cached(entry.text) = {} THEN Append(cache, entry)
                   ELSE [cache EXCEPT ![Min(Cached(entry.text))] = entry]
       /\ UNCHANGED <<Stays, rows, stray>>

-----------------------------------------------------------------------------
(***************************************************************************)
(* prepare.                                                                *)
(***************************************************************************)
Extended(config) == Range(config.criteria) \cap Range(ALL_EXTENDED_FEATURES) # {}

Sample(w) ==
    /\ workers[w].pc = "count"
    /\ IF count_scores = 0 THEN Fails(w, "empty")
       ELSE Becomes(w, [workers[w] EXCEPT !.pc = IF Extended(workers[w].config) THEN "fetch" ELSE "read",
                                          !.run = run, !.ids = Sampled[count_scores]])
    /\ UNCHANGED StoreStays

Holds(b, id) == id - batches[b].first_offset \in 0 .. batches[b].data.row_count - 1

\* _decode_batch: the wanted schedules of a batch, by their ids.
_decode_batch(b, wanted_ids) ==
    LET first == batches[b].first_offset
        rows_by_offset == unpack_rows_at(batches[b].data, {id - first : id \in wanted_ids})
    IN [id \in wanted_ids |-> row_to_dto(rows_by_offset[id - first], Slots[run])]

\* get_schedules_by_ids: the lock is taken for every batch.
Fetch(w) ==
    LET me == workers[w]
        held == {b \in DOMAIN batches : Holds(b, me.ids[me.next])}
        found == IF held = {} THEN me.found
                 ELSE _decode_batch(Min(held), {g \in Range(me.ids) : Holds(Min(held), g)}) @@ me.found
        missing == {i \in DOMAIN me.ids : i > me.next /\ me.ids[i] \notin DOMAIN found}
    IN /\ me.pc = "fetch"
       /\ Becomes(w, [me EXCEPT !.found = found, !.next = IF missing = {} THEN 1 ELSE Min(missing),
                                 !.pc = IF missing # {} THEN "fetch" ELSE IF found = Unweighted THEN "read" ELSE "update"])
       /\ UNCHANGED StoreStays

\* The schedules that were found, in the order of the ids, give the rows of scores.
Update(w) ==
    LET me == workers[w]
        schedules == SelectSeq(me.ids, LAMBDA id : id \in DOMAIN me.found)
    IN /\ me.pc = "update" /\ Becomes(w, [me EXCEPT !.pc = "read", !.found = Unweighted])
       /\ rows' = update_extended_scores(me.ids, [i \in DOMAIN schedules |-> compute(me.found[schedules[i]])])
       /\ stray' = (stray \/ (me.run # run /\ rows # <<>>))
       /\ UNCHANGED <<Stays, cache>>

\* The vectors are read and the engine is built, which refuses weights that are all 0.
Read(w) ==
    LET me == workers[w]
        vectors == read_score_vectors(me.config.criteria, me.ids)
    IN /\ me.pc = "read"
       /\ CASE vectors = <<>> -> Fails(w, "empty")
            [] vectors # <<>> /\ ~CanCluster(me.config) -> Fails(w, "config")
            [] OTHER -> Becomes(w, [me EXCEPT !.pc = "done", !.vectors = vectors,
                                              !.torn = stray \/ me.run # run])
       /\ UNCHANGED StoreStays

-----------------------------------------------------------------------------
(***************************************************************************)
(* get_cluster_schedule_scores: the user opens a schedule of a family and  *)
(* its features are computed and stored on the way, one run at a time.     *)
(***************************************************************************)
ShowMetrics(w, id) ==
    /\ workers[w].pc = "done" /\ workers[w].run = run /\ id \in Range(workers[w].ids) /\ HasRow(id)
    /\ requests < MaxRequests /\ requests' = requests + 1
    /\ LET dto == _decode_batch(Min({b \in DOMAIN batches : Holds(b, id)}), {id})[id]
       IN rows' = update_extended_scores(<<id>>, <<compute(dto)>>)
    /\ UNCHANGED <<configured, run, batches, stray, cache, workers>>

-----------------------------------------------------------------------------
Work(w) ==
    \/ Lookup(w) \/ Take(w)
    \/ Throttled(w) \/ ModelFails(w) \/ \E text \in Texts : \E reply \in Replies[text] : ModelAnswers(w, text, reply)
    \/ Evict(w) \/ Pop(w) \/ Remember(w)
    \/ Sample(w) \/ Fetch(w) \/ Update(w) \/ Read(w)

Next ==
    \/ InsertBatch \/ ClearForNewRun
    \/ \E text \in Texts \cup {FirstVisit} : Ask(text)
    \/ \E w \in Workers : Work(w) \/ Release(w) \/ \E id \in Range(workers[w].ids) : ShowMetrics(w, id)

Spec == Init /\ [][Next]_vars

-----------------------------------------------------------------------------
(***************************************************************************)
(* Properties.                                                             *)
(***************************************************************************)
PCs == {"none", "lookup", "take", "model", "evict", "pop", "remember", "count", "fetch", "update", "read", "done", "failed"}

\* The values of the variables: the scores are those of the run's schedules in their order, and
\* the cache has one answer to a text.
TypeOK ==
    /\ configured \in BOOLEAN /\ run \in 0 .. Len(Batches) /\ requests \in 0 .. MaxRequests
    /\ run = 0 => batches = <<>> /\ rows = <<>>
    /\ Len(rows) = FoldLeft(LAMBDA n, batch : n + batch.data.row_count, 0, batches)
    /\ \A i \in DOMAIN rows : rows[i].schedule = Found(run)[i] /\ DOMAIN rows[i].ext = Range(ALL_EXTENDED_FEATURES)
    /\ \A i, j \in DOMAIN cache : cache[i].text = cache[j].text => i = j
    /\ \A w \in Workers : workers[w].pc \in PCs

\* What a request asks for is what the engine is told: of the model's reply every topic that is
\* known, the weights of the first one as the model trusts it, and a number of families that is
\* given outright; of keywords every criterion and the number.  With the model at hand the
\* answer is never made of keywords, whatever fails, and a reply is never another text's.
\* Topics that share criteria, bounds and directions merge to what the engine takes.
AnswerIsForItsText ==
    LET hears(config, reply) ==
            LET topics == _normalized_topics(reply)
            IN /\ \A t \in Range(topics) : Range(CriteriaOf(t)) \subseteq Range(config.criteria)
               /\ topics # <<>> =>
                    \A c \in DOMAIN BaseWeights(Head(topics)) :
                        10 * WeightOf(config.weights, c) >= BaseWeights(Head(topics))[c] * Confidence(reply, Head(topics))
               /\ reply.k # 0 => config.k = Clamped(reply.k)
        reads(config, words) ==
            /\ words.mentions \subseteq Range(config.criteria)
            /\ words.digits \in 2 .. 20 => config.k = words.digits
    IN \A w \in Workers :
          LET me == workers[w]
          IN /\ me.why # "config"
             /\ me.pc = "done" =>
                   IF me.text = FirstVisit THEN me.config = default
                   ELSE IF configured THEN \E reply \in Replies[me.text] : hears(me.config, reply)
                   ELSE reads(me.config, Words[me.text])

\* The vectors that are clustered are what the schedules of the sample have, each feature as
\* Natural counts it and with the sign with which it is shown, although the features are
\* computed by one thread and overwritten by others; a thread that a new run overtook is let
\* off, and so are those whose rows it wrote over.
VectorsBelongToRows ==
    \A w \in Workers :
        LET me == workers[w]
        IN me.pc = "done" /\ ~me.torn =>
              /\ Len(me.vectors) = Len(me.ids)
              /\ \A i \in DOMAIN me.vectors :
                    LET s == Found(me.run)[me.ids[i] + 1]
                    IN \A c \in Range(me.config.criteria) :
                          display_value(c, me.vectors[i][c]) = Counted[s][c]

\* The ways to divide n positions among families.
Divisions == Unweighted @@ [n \in 1 .. Max({Len(ids) : ids \in Range(Sampled)}) |->
    {d \in SUBSET (SUBSET (1 .. n) \ {{}}) : UNION d = 1 .. n /\ \A x, y \in d : x # y => x \cap y = {}}]

\* What a card says of a family is true, however the sample is divided: a family that is said
\* to have more of something has more of it, as the exams are, than the families have on
\* average, and of two families the one that is better in something has no shorter bar for
\* it.  Of families that are equal nothing is said; those are let off whose equal means are
\* rounded, of which ClusterSummarizer may say anything (see the README).
CardsAreTrue ==
    \A w \in Workers :
        LET me == workers[w]
            value(i, c) == Counted[Found(me.run)[me.ids[i] + 1]][c]
        IN me.pc = "done" /\ ~me.torn =>
              \A division \in Divisions[Len(me.vectors)] :
                  LET families == Listed(division)
                      summaries == [f \in DOMAIN families |-> _summarize(me.vectors, families[f])]
                  IN \A c \in Range(me.config.criteria) :
                        LET scores == [f \in DOMAIN families |-> summaries[f][c]]
                            counts == [f \in DOMAIN families |->
                                (FamilyScale * MapThenSumSet(LAMBDA i : value(i, c), families[f])) \div Cardinality(families[f])]
                            truly == Deviations(counts)
                            exact == (\A f \in DOMAIN families : SummaryIsExact(me.vectors, families[f], c)) /\ MeanIsExact(c, scores)
                            bar(f) == display_bar_score(c, display_value(c, scores[f]))
                        IN Differ(scores) \/ exact =>
                              \A f \in DOMAIN families :
                                  /\ \A word \in said(c, scores, exact, f) :
                                        (word = "more" => truly[f] > 0) /\ (word = "less" => truly[f] < 0)
                                  /\ \A g \in DOMAIN families : scores[f] > scores[g] => bar(f) >= bar(g)

\* A family that is at least as good as another in everything that a rating is made of is
\* rated no worse.
RatingsFollowScores ==
    \A w \in Workers :
        LET me == workers[w]
        IN me.pc = "done" =>
              \A S \in SUBSET DOMAIN me.vectors \ {{}} :
                  LET representatives == MapSeq(Listed(S), LAMBDA i : me.vectors[i])
                      rating(f) == _compute_composite_labels(representatives, f)
                  IN \A f, g \in DOMAIN representatives :
                        \A name \in {"student_comfort", "admin_load", "faculty_impact"} :
                            (\A c \in DOMAIN COMPOSITE_LABEL_RECIPES[name] \cap DOMAIN representatives[f] :
                                better_by_criterion(representatives[f], representatives[g])[c] # "right")
                            => rating(f)[name] >= rating(g)[name]

=============================================================================
