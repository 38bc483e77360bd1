----------------------------- MODULE ClusterSession -----------------------------
(***************************************************************************)
(* The families of the results: the session that ClusterSessionController  *)
(* keeps on the GUI thread, the worker threads that sample and cluster,    *)
(* the overview with its cards, and the screens that show one family or    *)
(* compare two, while the run that finds the results may still be going    *)
(* on.                                                                     *)
(*                                                                         *)
(* Of the results only their number matters here, and the run they are of: *)
(* schedule <<run, i>> is the one with index i.  How they arrive is the    *)
(* subject of ResultBrowsing.  As there, what is posted to the GUI thread  *)
(* is delivered before the next click.                                     *)
(***************************************************************************)
EXTENDS Clustering, ScreenRouter

CONSTANTS
    Counts,             \* bound: for each run, the numbers of results that it announces
    Sampled,            \* what the seeded generator draws of so many results
    MaxClicks,          \* bound: clicks on the screens of the families, and workers that fail
    Score,              \* the score of the schedule with index i is Score[i + 1]
    DefaultConfig,      \* ClusterConfig.default(), with its criteria and its k
    Requests,           \* the configurations that a text may be translated to
    Ks,                 \* the numbers of families the user asks for
    NumWorkers          \* bound: threads alive at a time

NumRuns == Len(Counts)
MaxCount == Max(UNION Range(Counts))

ASSUME SessionAssumption ==
    /\ Screens = {"input", "output", "clusters", "detail", "compare", "overlay"}
    /\ Home = "input"
    /\ MaxCount \in Nat /\ Counts \in Seq(SUBSET (1 .. MaxCount))
    /\ NumWorkers \in Nat /\ MaxClicks \in Nat /\ Ks \subseteq Nat \ {0}
    /\ \A n \in 1 .. MaxCount : Sampled[n] \in sample_indices(n)
    /\ Score \in [1 .. MaxCount -> Int]
    \* k is 0 when the number of families is left to the engine.
    /\ \A config \in Requests \cup {DefaultConfig} :
          config = [criteria |-> config.criteria, k |-> config.k] /\ config.k \in Nat

AskedKs == {0} \cup Ks \cup {config.k : config \in Requests \cup {DefaultConfig}} \cup 1 .. MaxCount
Workers == 1 .. NumWorkers
\* One for the session, one for each worker, and one to take next.
Coordinators == 1 .. NumWorkers + 2

VARIABLES
    results,    \* [run, count, going]; going: "no", "yes", or "cancelled" and not yet ended
    visible,    \* the way to the output screen is open
    session,    \* ClusterSessionController: [coordinator, run]
    coordinators,
    workers,    \* ClusterWorker and ClusterRequestWorker threads
    overview,   \* ClusterOverviewPresenter and what its view shows
    detail,     \* ClusterDetailPresenter and what its view shows
    pair,       \* what ClusterComparePresenter was given
    compared,   \* what the compare and overlay screens have rendered last
    clicks,     \* how many there were
    late,       \* history: this run ended while families were being computed
    eager       \* history: cards were checked while new ones were being computed

sessionVars == <<session, coordinators, workers>>
viewVars == <<overview, detail, pair, compared>>
vars == <<results, visible, sessionVars, viewVars, late, eager, clicks, routerVars>>

NoRun == [run |-> 0, sample |-> <<>>, population |-> 0, asked |-> 0, families |-> <<>>]
NewCoordinator == [prepared |-> FALSE, config |-> DefaultConfig, run |-> 0, sample |-> <<>>, population |-> 0]
NoWorker == [pc |-> "none", request |-> FALSE, coordinator |-> 0, k |-> 0,
             config |-> DefaultConfig, out |-> NoRun]
Nothing == <<0, 0>>
\* The screens of one family and of two keep what they last showed; they are given something
\* new before they are entered again, and here they forget it as soon as the overview is back.
NoFamily == [family |-> 1, index |-> 0, size |-> 0, shown |-> Nothing]
NoPair == <<1, 1>>
NotCompared == <<Nothing, Nothing>>

Init ==
    /\ results = [run |-> 0, count |-> 0, going |-> "no"] /\ visible = FALSE
    /\ session = [coordinator |-> 0, run |-> NoRun]
    /\ coordinators = [c \in Coordinators |-> NewCoordinator]
    /\ workers = [w \in Workers |-> NoWorker]
    /\ overview = [worker |-> 0, busy |-> FALSE, cards |-> 0, checked |-> {}, selection |-> <<>>,
                   enabled |-> FALSE, since |-> FALSE]
    /\ detail = NoFamily /\ pair = NoPair /\ compared = NotCompared
    /\ clicks = 0 /\ late = FALSE /\ eager = FALSE
    /\ InitRouter

Posted(w) == workers[w].pc \in {"done", "failed"}
Spends == clicks < MaxClicks /\ clicks' = clicks + 1
Quiet == \A w \in Workers : ~Posted(w)
Clicks ==
    /\ Quiet
    /\ Spends

-----------------------------------------------------------------------------
(***************************************************************************)
(* The session.                                                            *)
(***************************************************************************)
Unused == Min({c \in Coordinators : c # session.coordinator /\ \A w \in Workers : workers[w].coordinator # c})

has_clusters(s) == s.run # NoRun
get_active_k(s) == Len(s.run.families)

\* invalidate_clustering.  The last k is kept, but nobody asks for it without a run.
Invalidated(s) == [s EXCEPT !.coordinator = 0, !.run = NoRun]

\* get_cluster_coordinator: the one of the session if it can be used, or a new one.
Valid(s) == s.coordinator # 0 /\ coordinators[s.coordinator].prepared /\ has_clusters(s)
CoordinatorFor(s) == IF Valid(s) THEN s.coordinator ELSE Unused
WithCoordinator(s) == [s EXCEPT !.coordinator = CoordinatorFor(s)]

\* What nobody refers to any more is gone.
Kept(cs) ==
    [c \in Coordinators |->
        IF c = session'.coordinator \/ \E w \in Workers : workers'[w].coordinator = c
        THEN cs[c] ELSE NewCoordinator]

\* gidx_at of the session's coordinator, and the schedule that the store has under that
\* index: of the last run that was started.
CanRead(position) ==
    /\ session.coordinator # 0
    /\ position \in DOMAIN coordinators[session.coordinator].sample
    /\ coordinators[session.coordinator].sample[position] < results.count
Read(position) == <<results.run, coordinators[session.coordinator].sample[position]>>

get_cluster(f) == session.run.families[f]
HasCluster(f) == f \in DOMAIN session.run.families

-----------------------------------------------------------------------------
(***************************************************************************)
(* Workers.                                                                *)
(***************************************************************************)
WorkerStays == <<results, visible, session, viewVars, late, eager, clicks, routerVars>>

Prepared(config) ==
    [prepared |-> TRUE, config |-> config, run |-> results.run,
     sample |-> Sampled[results.count], population |-> results.count]

\* Mutant: the vectors of a prepared coordinator serve every configuration.
Reusable_Always(c, config) == c # 0 /\ coordinators[c].prepared

\* _prepare_compatible; k does not matter for it.
Reusable(c, config) ==
    c # 0 /\ coordinators[c].prepared /\ coordinators[c].config.criteria = config.criteria

\* build_request_run, from the translation to the look at the session's coordinator.
Translate(w) ==
    /\ workers[w].pc = "translate"
    /\ workers' = [workers EXCEPT ![w].pc = "compute",
           ![w].coordinator = IF Reusable(session.coordinator, workers[w].config) THEN session.coordinator ELSE Unused,
           ![w].k = IF Reusable(session.coordinator, workers[w].config) THEN workers[w].config.k ELSE 0]
    /\ UNCHANGED <<coordinators, WorkerStays>>

\* ClusteringCoordinator.cluster: what can become of a sample of a population, when k families
\* are asked for and the configuration says configured.
Outcomes ==
    [population \in 1 .. MaxCount |->
        [k \in AskedKs |-> [configured \in AskedKs |->
            Clusters([i \in DOMAIN Sampled[population] |-> Score[Sampled[population][i] + 1]],
                     k, configured, population)]]]
OutcomesOf(c, k) == Outcomes[c.population][k][c.config.k]

\* ClusteringCoordinator.prepare, unless it was done before, and cluster, which reads only
\* what prepare left in the coordinator.
Compute(w) ==
    LET c == workers[w].coordinator
        fitted == IF coordinators[c].prepared THEN coordinators[c] ELSE Prepared(workers[w].config)
        \* The generators are seeded: the same question has the same answer.
        out == CHOOSE o \in OutcomesOf(fitted, workers[w].k) : TRUE
    IN /\ workers[w].pc = "compute"
       /\ results.count > 0 \/ coordinators[c].prepared
       /\ coordinators' = [coordinators EXCEPT ![c] = fitted]
       /\ workers' = [workers EXCEPT ![w].pc = "done",
                          ![w].out = [run |-> fitted.run, sample |-> fitted.sample,
                                      population |-> fitted.population,
                                      asked |-> out.asked, families |-> out.families]]
       /\ UNCHANGED WorkerStays

\* The translator, the database or the engine raises.
Fail(w) ==
    /\ workers[w].pc \in {"translate", "compute"} /\ Spends
    /\ workers' = [workers EXCEPT ![w].pc = "failed"]
    /\ UNCHANGED <<coordinators, results, visible, session, viewVars, late, eager, routerVars>>

Work(w) == Translate(w) \/ Compute(w) \/ Fail(w)

-----------------------------------------------------------------------------
(***************************************************************************)
(* The overview.                                                           *)
(***************************************************************************)
CanStart == \E w \in Workers : workers[w].pc = "none"
Free == Min({w \in Workers : workers[w].pc = "none"})

\* _kick_off from the session s, on an overview o: a worker that is replaced runs on, unheard.
KickOff(s, k, o) ==
    /\ CanStart
    /\ session' = WithCoordinator(s)
    /\ workers' = [workers EXCEPT ![Free] = [NoWorker EXCEPT !.pc = "compute", !.k = k,
                                                 !.coordinator = CoordinatorFor(s)]]
    /\ coordinators' = Kept(coordinators)
    /\ overview' = [o EXCEPT !.worker = Free, !.selection = <<>>, !.busy = o.busy \/ ~Valid(s)]
    /\ eager' = FALSE

\* on_leave and on_enter.
Left(o) == [o EXCEPT !.worker = 0, !.busy = FALSE]
EnterOverview ==
    /\ KickOff(session, get_active_k(session), [Left(overview) EXCEPT !.since = (results.going = "no")])
    /\ detail' = NoFamily /\ pair' = NoPair /\ compared' = NotCompared

Stale(w) == current # "clusters" \/ overview.worker # w

\* on_apply_k: the button works while families are being computed.
ApplyK(k) ==
    /\ Clicks /\ current = "clusters" /\ k \in Ks
    /\ KickOff(session, k, overview)
    /\ UNCHANGED <<results, visible, detail, pair, compared, late, routerVars>>

\* on_apply_request with a text: the button does not.
ApplyRequest(config) ==
    /\ Clicks /\ current = "clusters" /\ ~overview.busy /\ overview.worker = 0 /\ CanStart
    /\ workers' = [workers EXCEPT ![Free] = [NoWorker EXCEPT !.pc = "translate", !.request = TRUE,
                                                 !.config = config]]
    /\ overview' = [overview EXCEPT !.worker = Free, !.selection = <<>>, !.busy = TRUE]
    /\ eager' = FALSE
    /\ UNCHANGED <<results, visible, session, coordinators, detail, pair, compared, late, routerVars>>

\* ... and without one.
ApplyNoRequest ==
    /\ Clicks /\ current = "clusters" /\ ~overview.busy /\ overview.worker = 0
    /\ KickOff(Invalidated(session), 0, overview)
    /\ UNCHANGED <<results, visible, detail, pair, compared, late, routerVars>>

\* Mutant: no card has to make way.
Toggle_NoLimit(f) ==
    /\ Clicks /\ current = "clusters" /\ f \in 1 .. overview.cards
    /\ LET on == f \notin overview.checked
       IN overview' = [overview EXCEPT
              !.selection = IF on THEN Append(@, f) ELSE RemoveFirst(@, f),
              !.checked = IF on THEN @ \cup {f} ELSE @ \ {f}]
    /\ eager' = (eager \/ overview.worker # 0)
    /\ UNCHANGED <<results, visible, sessionVars, detail, pair, compared, late, routerVars>>

\* on_compare_toggled: two at most, the oldest makes way.
Toggle(f) ==
    /\ Clicks /\ current = "clusters" /\ f \in 1 .. overview.cards
    /\ LET picked == IF f \in overview.checked THEN RemoveFirst(overview.selection, f)
                                             ELSE Append(overview.selection, f)
           third == Len(picked) > 2
           checked == IF f \in overview.checked THEN overview.checked \ {f} ELSE overview.checked \cup {f}
       IN overview' = [overview EXCEPT
              !.selection = IF third THEN Tail(picked) ELSE picked,
              !.checked = IF third THEN checked \ {Head(picked)} ELSE checked,
              !.enabled = (Len(picked) >= 2)]
    /\ eager' = (eager \/ overview.worker # 0)
    /\ UNCHANGED <<results, visible, sessionVars, detail, pair, compared, late, routerVars>>

(***************************************************************************)
(* What the workers post.                                                  *)
(***************************************************************************)
\* Mutant: a request leaves the session its coordinator.
Committed_RunOnly(w) ==
    [coordinator |-> session.coordinator, run |-> workers[w].out]

\* cards_from_run, or commit_request_run with its coordinator.
Committed(w) ==
    [coordinator |-> IF workers[w].request THEN workers[w].coordinator ELSE session.coordinator,
     run |-> workers[w].out]

Done(w) == workers' = [workers EXCEPT ![w] = NoWorker]

\* The cards of the new families; the last look at the session may create a coordinator.
Render(w) ==
    /\ workers[w].pc = "done" /\ ~Stale(w)
    /\ Done(w)
    /\ session' = WithCoordinator(Committed(w))
    /\ coordinators' = Kept(coordinators)
    /\ overview' = [overview EXCEPT !.worker = 0, !.busy = FALSE, !.checked = {}, !.enabled = FALSE,
                                    !.cards = Len(workers[w].out.families)]
    /\ UNCHANGED <<results, visible, detail, pair, compared, late, eager, routerVars, clicks>>

\* Mutant: the failure is shown, and the spinner stays.
ShowFailure_StaysBusy(w) ==
    /\ workers[w].pc = "failed" /\ ~Stale(w)
    /\ Done(w)
    /\ UNCHANGED session /\ coordinators' = Kept(coordinators)
    /\ overview' = [overview EXCEPT !.worker = 0, !.checked = {}, !.cards = 0]
    /\ UNCHANGED <<results, visible, detail, pair, compared, late, eager, routerVars, clicks>>

\* _on_worker_failed.
ShowFailure(w) ==
    /\ workers[w].pc = "failed" /\ ~Stale(w)
    /\ Done(w)
    /\ UNCHANGED session /\ coordinators' = Kept(coordinators)
    /\ overview' = [overview EXCEPT !.worker = 0, !.busy = FALSE, !.checked = {}, !.cards = 0]
    /\ UNCHANGED <<results, visible, detail, pair, compared, late, eager, routerVars, clicks>>

\* The screen was left, or another worker took over.
Ignore(w) ==
    /\ Posted(w) /\ Stale(w)
    /\ Done(w)
    /\ UNCHANGED session /\ coordinators' = Kept(coordinators)
    /\ UNCHANGED <<results, visible, viewVars, late, eager, routerVars, clicks>>

Deliver(w) == Render(w) \/ ShowFailure(w) \/ Ignore(w)

-----------------------------------------------------------------------------
(***************************************************************************)
(* One family, and two.                                                    *)
(***************************************************************************)
\* get_cluster_schedule_view.
Member(f, index) == session.run.families[f].members[index + 1]
CanView(f, index) == HasCluster(f) /\ CanRead(Member(f, index))

EnterStays == <<results, visible, pair, compared, late>>

\* on_open_cluster and on_enter of the detail screen.
OpenFamily(f) ==
    /\ Clicks /\ current = "clusters" /\ f \in 1 .. overview.cards
    /\ Show("detail") /\ overview' = Left(overview)
    /\ \/ /\ ~has_clusters(session)
          /\ detail' = [NoFamily EXCEPT !.family = f]
       \/ /\ has_clusters(session) /\ CanView(f, 0)
          /\ detail' = [family |-> f, index |-> 0, size |-> Len(get_cluster(f).members),
                        shown |-> Read(Member(f, 0))]
    /\ UNCHANGED <<EnterStays, sessionVars, eager>>

\* The family cannot be read: a message, and back to the overview.
OpenFails(f) ==
    /\ Clicks /\ current = "clusters" /\ f \in 1 .. overview.cards
    /\ has_clusters(session) /\ ~CanView(f, 0)
    /\ EnterOverview
    /\ UNCHANGED <<results, visible, late, routerVars>>

\* on_next and on_prev.  Without a session the view is cleared and frozen.
Turn(index) ==
    /\ Clicks /\ current = "detail" /\ index \in {detail.index - 1, detail.index + 1}
    /\ 0 <= index /\ index < detail.size /\ (detail.shown # Nothing)
    /\ ~has_clusters(session) \/ CanView(detail.family, index)
    /\ detail' = [detail EXCEPT !.index = index,
                                !.shown = IF has_clusters(session) THEN Read(Member(detail.family, index))
                                                                   ELSE Nothing]
    /\ UNCHANGED <<EnterStays, overview, sessionVars, eager, routerVars>>

\* A schedule that cannot be read, or metrics and exports of a family whose session is gone:
\* a message, and back.
ReadFails ==
    /\ Clicks /\ current = "detail" /\ detail.size > 0
    /\ ~has_clusters(session) \/ ~CanView(detail.family, detail.index)
    /\ Back /\ EnterOverview
    /\ UNCHANGED <<results, visible, late>>

\* get_cluster_comparison: the schedules that stand for the two families.
CanCompare(p) ==
    \A i \in 1 .. 2 : HasCluster(p[i]) /\ CanRead(get_cluster(p[i]).representative)
Comparison(p) ==
    IF CanCompare(p) THEN [i \in 1 .. 2 |-> Read(get_cluster(p[i]).representative)] ELSE NotCompared

\* on_compare.  When the families cannot be compared there is a message instead.
Compare ==
    /\ Clicks /\ current = "clusters" /\ overview.enabled /\ Len(overview.selection) = 2
    /\ pair' = <<overview.selection[1], overview.selection[2]>>
    /\ Show("compare") /\ overview' = Left(overview)
    /\ compared' = Comparison(pair')
    /\ UNCHANGED <<results, visible, sessionVars, detail, late, eager>>

\* on_view_calendar: the same pair, read again.
ViewOverlay ==
    /\ Clicks /\ current = "compare" /\ Show("overlay")
    /\ compared' = Comparison(pair)
    /\ UNCHANGED <<results, visible, sessionVars, overview, detail, pair, late, eager>>

-----------------------------------------------------------------------------
(***************************************************************************)
(* The other screens, and the run.                                         *)
(***************************************************************************)
\* A screen that is not the overview is entered.
GoOn(name) ==
    /\ Show(name)
    /\ UNCHANGED <<sessionVars, viewVars, eager>>

OpenClusters ==
    /\ Clicks /\ current = "output" /\ Show("clusters") /\ EnterOverview
    /\ UNCHANGED <<results, visible, late>>

GoBack ==
    /\ Clicks /\ current # "input" /\ Back
    /\ IF current' = "clusters" THEN EnterOverview
       ELSE /\ overview' = Left(overview)
            /\ compared' = IF current' = "compare" THEN Comparison(pair) ELSE compared
            /\ UNCHANGED <<sessionVars, detail, pair, eager>>
    /\ UNCHANGED <<results, visible, late>>

ViewResults ==
    /\ Quiet /\ current = "input" /\ visible /\ GoOn("output")
    /\ UNCHANGED <<results, visible, late, clicks>>

\* generate_schedules: schedule_results_changed once the old results are gone.
Generate ==
    /\ Quiet /\ current = "input" /\ results.going # "yes" /\ results.run < NumRuns
    /\ results' = [run |-> results.run + 1, count |-> 0, going |-> "yes"]
    /\ visible' = FALSE /\ late' = FALSE
    /\ session' = Invalidated(session)
    /\ UNCHANGED workers /\ coordinators' = Kept(coordinators)
    /\ UNCHANGED <<viewVars, eager, routerVars, clicks>>

\* The first results, and the end of a run, open the output screen.
Arrive(shows) ==
    /\ visible' = (visible \/ shows)
    /\ IF shows /\ ~visible THEN Show("output") ELSE UNCHANGED routerVars

FindResult ==
    /\ results.going = "yes"
    /\ LET more == {n \in Counts[results.run] : n > results.count}
       IN more # {} /\ results' = [results EXCEPT !.count = Min(more)]
    /\ Arrive(TRUE)
    /\ UNCHANGED <<sessionVars, viewVars, late, eager, clicks>>

Cancel ==
    /\ Quiet /\ current = "input" /\ results.going = "yes"
    /\ results' = [results EXCEPT !.going = "cancelled"]
    /\ Arrive(results.count > 0)
    /\ UNCHANGED <<sessionVars, viewVars, late, eager, clicks>>

\* Mutant: only the start of a run invalidates the session.
Finish_Keeps ==
    /\ results.going # "no"
    /\ results' = [results EXCEPT !.going = "no"]
    /\ Arrive(results.count > 0)
    /\ UNCHANGED <<sessionVars, viewVars, late, eager, clicks>>

\* _handle_search_finished: schedule_results_changed, then search_finished.
Finish ==
    /\ results.going # "no"
    /\ results' = [results EXCEPT !.going = "no"]
    /\ session' = Invalidated(session)
    /\ UNCHANGED workers /\ coordinators' = Kept(coordinators)
    /\ late' = (late \/ overview.worker # 0)
    /\ Arrive(results.count > 0)
    /\ UNCHANGED <<viewVars, eager, clicks>>

-----------------------------------------------------------------------------
Next ==
    \/ \E w \in Workers : Work(w) \/ Deliver(w)
    \/ \E k \in Ks : ApplyK(k)
    \/ \E config \in Requests : ApplyRequest(config)
    \/ ApplyNoRequest
    \/ \E f \in 1 .. MaxCount : Toggle(f) \/ OpenFamily(f) \/ OpenFails(f)
    \/ \E index \in 0 .. MaxCount : Turn(index)
    \/ ReadFails \/ Compare \/ ViewOverlay
    \/ OpenClusters \/ GoBack \/ ViewResults
    \/ Generate \/ FindResult \/ Cancel \/ Finish

Spec == Init /\ [][Next]_vars

\* Threads run, and the GUI thread delivers what they post.
FairSpec ==
    /\ Spec
    /\ \A w \in Workers : WF_vars(Work(w)) /\ WF_vars(Deliver(w))

-----------------------------------------------------------------------------
TypeOK ==
    /\ results \in [run : 0 .. NumRuns, count : 0 .. MaxCount, going : {"no", "yes", "cancelled"}]
    /\ session.coordinator \in {0} \cup Coordinators
    /\ \A w \in Workers : workers[w].coordinator \in {0} \cup Coordinators
    /\ overview.worker \in {0} \cup Workers /\ overview.busy \in BOOLEAN
    /\ overview.checked \subseteq 1 .. overview.cards /\ Len(overview.selection) <= 2
    /\ detail.index \in 0 .. MaxCount /\ detail.size \in 0 .. MaxCount
    /\ current \in Screens /\ history \in Seq(Screens)

\* Whatever the generators draw, there is an answer and its families divide the sample: no
\* schedule is in two or in none, nor listed twice, no family is empty, one of its members
\* stands for it, and there are not more of them than were asked for.
DividesSample(out, positions) ==
    LET fs == out.families
    IN /\ fs \in Seq([members : Seq(positions), representative : positions, estimate : Nat])
       /\ \A i \in positions :
            \E f \in DOMAIN fs :
                /\ i \in Range(fs[f].members)
                /\ \A g \in DOMAIN fs \ {f} : i \notin Range(fs[g].members)
       /\ \A f \in DOMAIN fs :
            /\ fs[f].members # <<>> /\ IsInjective(fs[f].members)
            /\ fs[f].representative \in Range(fs[f].members)
       /\ Len(fs) <= out.asked

\* So it is for every number of results and every number of families that may be asked for.
EngineDivides ==
    \A population \in 1 .. MaxCount : \A k, configured \in AskedKs :
        /\ Outcomes[population][k][configured] # {}
        /\ \A out \in Outcomes[population][k][configured] : DividesSample(out, DOMAIN Sampled[population])

\* As soon as there is something to divide, the engine can be relied on.
FamiliesDivideSample == results.count > 0 => EngineDivides

\* A request is answered with families by the criteria it asks for, and as many of them as it
\* asks for, unless the sample is too small or too uniform.
AnswersItsRequest ==
    \A w \in Workers : workers[w].pc = "done" /\ workers[w].request =>
        /\ coordinators[workers[w].coordinator].config.criteria = workers[w].config.criteria
        /\ workers[w].config.k # 0 => workers[w].out.asked = workers[w].config.k

\* What the screens of the families show is what the overview's cards promise: the member
\* or the two representatives that were asked for, of the results that were clustered.  Two
\* exceptions: a run that ends while families are computed, and cards that are checked while
\* others are computed.
ShownBelongsToFamily ==
    has_clusters(session) /\ ~late =>
        LET schedule(position) == <<session.run.run, session.run.sample[position]>>
        IN /\ current = "detail" /\ detail.shown # Nothing =>
                /\ HasCluster(detail.family) /\ detail.index < Len(get_cluster(detail.family).members)
                /\ detail.shown = schedule(Member(detail.family, detail.index))
           /\ current \in {"compare", "overlay"} /\ ~eager => \A i \in 1 .. 2 :
                HasCluster(pair[i]) /\ compared[i] = schedule(get_cluster(pair[i]).representative)

\* The first look at the families after a run has ended is at the families of all its
\* results, and so is every later one.
VisitIsComplete ==
    current = "clusters" /\ overview.since /\ overview.worker = 0 /\ has_clusters(session) =>
        session.run.run = results.run /\ session.run.population = results.count

\* ... unless the run ended while families were being computed.
VisitIsCompleteUnlessLate == late \/ VisitIsComplete

\* The overview is not busy forever.
BusyEnds == overview.busy ~> ~overview.busy
=============================================================================
