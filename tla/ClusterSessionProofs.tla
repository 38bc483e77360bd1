------------------------- MODULE ClusterSessionProofs -------------------------
(***************************************************************************)
(* The families of schedules for any number of runs, results, workers and  *)
(* clicks.  EngineDivides is the hypothesis of the theorems: what K-means  *)
(* computes for every input is a matter of induction over its loops.  TLC  *)
(* checks it of every number of results of an instance and every number of *)
(* families (FamiliesDivideSample).                                        *)
(*                                                                         *)
(* The argument: a coordinator is prepared by one worker only (SoleInv)    *)
(* and never changes while somebody refers to it, so the vectors that a    *)
(* request takes over have its criteria (RequestInv).  The end of a run    *)
(* and the start of the next take the session's coordinator away; unless   *)
(* families were being computed then, session, coordinator and awaited     *)
(* worker speak of one sample (InTimeInv), the whole one (WholeInv).  The  *)
(* screens read it only by way of the overview (RouteInv, VisitInv), and   *)
(* what is selected there has a card (OverviewInv).                        *)
(***************************************************************************)
EXTENDS ClusterSession, FiniteSetTheorems, NaturalsInduction, WellFoundedInduction, TLAPS

\* The least member of a set of numbers is one of them.
LEMMA LeastIsMember ==
    ASSUME NEW S, S \subseteq Nat, S # {}
    PROVE Min(S) \in S /\ \A x \in S : Min(S) <= x
<1> DEFINE R == OpToRel(<, Nat)
<1>1. IsWellFoundedOn(R, Nat)
  BY NatLessThanWellFounded
<1>2. PICK m \in S : \A y \in S : ~(<<y, m>> \in R)
  <2> HIDE DEF R
  <2> QED
    BY <1>1, WFMin
<1>3. \A y \in S : m <= y
  <2> SUFFICES ASSUME NEW y \in S
               PROVE m <= y
    OBVIOUS
  <2>1. ~(<<y, m>> \in R)
    BY <1>2
  <2>2. y \in Nat /\ m \in Nat
    OBVIOUS
  <2>3. y < m => <<y, m>> \in R
    BY <2>2 DEF OpToRel
  <2>4. ~(y < m)
    BY <2>1, <2>3
  <2> QED
    BY <2>2, <2>4
<1> QED
  BY <1>2, <1>3 DEF Min

\* What the engine may answer, without the table.
LEMMA OutcomesAre ==
    ASSUME NEW population \in 1 .. MaxCount, NEW k \in AskedKs, NEW configured \in AskedKs
    PROVE Outcomes[population][k][configured]
            = Clusters([i \in DOMAIN Sampled[population] |-> Score[Sampled[population][i] + 1]],
                     k, configured, population)
BY DEF Outcomes

\* A fixed number of families is asked for as it is.
LEMMA ClustersAsk ==
    ASSUME NEW points, NEW k, NEW configured, NEW population,
           NEW out \in Clusters(points, k, configured, population)
    PROVE /\ k # 0 => out.asked = k
          /\ k = 0 /\ configured # 0 => out.asked = configured
<1>1. PICK asked \in _resolve_k(points, k, configured) :
          out \in {[asked |-> asked, families |-> families(points, o, population)] : o \in kmeans(points, asked)}
  BY DEF Clusters
<1>2. out.asked = asked
  BY <1>1
<1> QED
  BY <1>1, <1>2 DEF _resolve_k

\* A number in the request goes first, the configured one comes next.
LEMMA AsksOutright ==
    ASSUME NEW population \in 1 .. MaxCount, NEW k \in AskedKs, NEW configured \in AskedKs,
           NEW out \in Outcomes[population][k][configured]
    PROVE /\ k # 0 => out.asked = k
          /\ k = 0 /\ configured # 0 => out.asked = configured
<1> DEFINE points == [i \in DOMAIN Sampled[population] |-> Score[Sampled[population][i] + 1]]
<1>1. out \in Clusters(points, k, configured, population)
  BY OutcomesAre
<1> HIDE DEF points
<1> QED
  BY <1>1, ClustersAsk

-----------------------------------------------------------------------------
(* The invariant *)

Configs == Requests \cup {DefaultConfig}

\* A coordinator that was prepared, of this run or of an earlier one.
IsFitted(c, rs) ==
    /\ c = [prepared |-> TRUE, config |-> c.config, run |-> c.run,
            sample |-> Sampled[c.population], population |-> c.population]
    /\ c.config \in Configs /\ c.population \in 1 .. MaxCount
    /\ c.run \in 0 .. rs.run
    /\ c.run = rs.run => c.population <= rs.count

\* The families of a sample.
IsRun(r) ==
    /\ r = [run |-> r.run, sample |-> Sampled[r.population], population |-> r.population,
            asked |-> r.asked, families |-> r.families]
    /\ r.population \in 1 .. MaxCount
    /\ r.families \in Seq([members : Seq(DOMAIN Sampled[r.population]),
                           representative : DOMAIN Sampled[r.population], estimate : Nat])
    /\ Len(r.families) <= MaxCount
    /\ \A f \in DOMAIN r.families :
          r.families[f].members # <<>> /\ Len(r.families[f].members) <= MaxCount

IsWorker(me) ==
    /\ me = [pc |-> me.pc, request |-> me.request, coordinator |-> me.coordinator, k |-> me.k,
             config |-> me.config, out |-> me.out]
    /\ me.pc \in {"none", "translate", "compute", "done", "failed"}
    /\ me.request \in BOOLEAN /\ me.k \in AskedKs
    /\ me.coordinator \in {0} \cup Coordinators
    /\ me.request => me.config \in Requests
    /\ ~me.request => me.config = DefaultConfig
    /\ me.pc = "none" => me = NoWorker
    /\ me.pc = "translate" => me.request /\ me.coordinator = 0
    /\ me.pc \in {"compute", "done"} => me.coordinator # 0

\* The coordinator c was prepared.
Fitted(cs, c) == c # 0 /\ cs[c].prepared
Refers(c) == session.coordinator = c \/ \E w \in Workers : workers[w].coordinator = c

ResultsInv ==
    /\ results \in [run : 0 .. NumRuns, count : 0 .. MaxCount, going : {"no", "yes", "cancelled"}]
    /\ results.going # "no" => results.run # 0

\* A coordinator nobody refers to is as new.
CoordinatorInv ==
    /\ coordinators = [c \in Coordinators |-> coordinators[c]]
    /\ \A c \in Coordinators : coordinators[c] = NewCoordinator \/ IsFitted(coordinators[c], results)
    /\ \A c \in Coordinators : ~Refers(c) => coordinators[c] = NewCoordinator

\* A worker that is done has families of the sample of its coordinator.
WorkerInv ==
    /\ workers = [w \in Workers |-> workers[w]]
    /\ \A w \in Workers : IsWorker(workers[w])
    /\ \A w \in Workers : workers[w].pc = "done" =>
          /\ Fitted(coordinators, workers[w].coordinator) /\ IsRun(workers[w].out)
          /\ workers[w].out.run = coordinators[workers[w].coordinator].run
          /\ workers[w].out.population = coordinators[workers[w].coordinator].population

\* Only one worker will prepare a coordinator.
SoleInv ==
    \A v, w \in Workers :
        workers[v].coordinator = workers[w].coordinator /\ workers[v].coordinator # 0
        /\ ~Fitted(coordinators, workers[v].coordinator) => v = w

\* A request is computed with a coordinator that has its criteria, or will have them.
RequestInv ==
    \A w \in Workers : workers[w].request =>
        /\ workers[w].pc = "compute" =>
              workers[w].k = (IF Fitted(coordinators, workers[w].coordinator) THEN workers[w].config.k ELSE 0)
        /\ workers[w].pc \in {"compute", "done"} /\ Fitted(coordinators, workers[w].coordinator) =>
              coordinators[workers[w].coordinator].config.criteria = workers[w].config.criteria
        /\ workers[w].pc = "done" /\ workers[w].config.k # 0 =>
              workers[w].out.asked = workers[w].config.k

\* The session's coordinator and the one of the worker that is waited for are of this run.
SessionInv ==
    /\ session = [coordinator |-> session.coordinator, run |-> session.run]
    /\ session.coordinator \in {0} \cup Coordinators
    /\ has_clusters(session) => IsRun(session.run)
    /\ Fitted(coordinators, session.coordinator) => coordinators[session.coordinator].run = results.run

HeardInv ==
    overview.worker # 0 =>
        /\ overview.worker \in Workers /\ workers[overview.worker].pc # "none"
        /\ Fitted(coordinators, workers[overview.worker].coordinator) =>
               coordinators[workers[overview.worker].coordinator].run = results.run

\* Unless the run ended while families were computed, the families are those of the sample of the
\* session's coordinator, and the worker that is waited for has that coordinator.
InTimeInv ==
    ~late =>
        /\ has_clusters(session) =>
              /\ Fitted(coordinators, session.coordinator)
              /\ session.run.run = coordinators[session.coordinator].run
              /\ session.run.population = coordinators[session.coordinator].population
        /\ overview.worker # 0 /\ ~workers[overview.worker].request =>
              session.coordinator = workers[overview.worker].coordinator

\* Nor is anything of the sample missing then once the run is over.
WholeInv ==
    ~late /\ results.going = "no" =>
        /\ Fitted(coordinators, session.coordinator) =>
              coordinators[session.coordinator].population = results.count
        /\ overview.worker # 0 /\ Fitted(coordinators, workers[overview.worker].coordinator) =>
              coordinators[workers[overview.worker].coordinator].population = results.count

EngineInv ==
    /\ ResultsInv /\ CoordinatorInv /\ WorkerInv /\ SoleInv /\ RequestInv
    /\ SessionInv /\ HeardInv /\ InTimeInv /\ WholeInv

\* The way that leads back from each screen.
RouteInv ==
    /\ current \in Screens /\ history \in Seq(Screens)
    /\ Len(history) >= 1 => history[1] = "input"
    /\ Len(history) >= 2 => history[2] = "output"
    /\ Len(history) >= 3 => history[3] = "clusters"
    /\ Len(history) >= 4 => history[4] = "compare"
    /\ current = "input" => Len(history) = 0
    /\ current = "output" => Len(history) = 1
    /\ current = "clusters" => Len(history) = 2
    /\ current \in {"detail", "compare"} => Len(history) = 3
    /\ current = "overlay" => Len(history) = 4

\* Only the overview waits for a worker; a run that is over stays so while the overview is open.
VisitInv ==
    /\ overview.worker # 0 => current = "clusters"
    /\ ~visible => current = "input"
    /\ current = "clusters" /\ overview.since => results.going = "no"

IsOverview(o) ==
    /\ o = [worker |-> o.worker, busy |-> o.busy, cards |-> o.cards, checked |-> o.checked,
            selection |-> o.selection, enabled |-> o.enabled, since |-> o.since]
    /\ o.busy \in BOOLEAN /\ o.cards \in Nat /\ o.checked \subseteq 1 .. o.cards
    /\ o.selection \in Seq(Nat) /\ Len(o.selection) <= 2

\* What is selected has a card, unless cards were checked while others were computed.
OverviewInv ==
    /\ IsOverview(overview)
    /\ ~eager => /\ Range(overview.selection) \subseteq 1 .. overview.cards
                 /\ overview.worker # 0 => overview.selection = <<>>
    /\ has_clusters(session) => overview.cards <= Len(session.run.families)

\* The schedule at a position of the sample that was clustered.
Schedule(position) == <<session.run.run, session.run.sample[position]>>

DetailInv ==
    /\ detail = [family |-> detail.family, index |-> detail.index, size |-> detail.size, shown |-> detail.shown]
    /\ detail.index \in 0 .. MaxCount /\ detail.size \in 0 .. MaxCount
    /\ has_clusters(session) /\ ~late /\ current = "detail" /\ detail.shown # Nothing =>
          /\ HasCluster(detail.family) /\ detail.size = Len(get_cluster(detail.family).members)
          /\ detail.index < detail.size
          /\ detail.shown = Schedule(Member(detail.family, detail.index))

CompareInv ==
    has_clusters(session) /\ ~late /\ ~eager /\ current \in {"compare", "overlay"} =>
        \A i \in 1 .. 2 :
            HasCluster(pair[i]) /\ compared[i] = Schedule(get_cluster(pair[i]).representative)

ViewInv == RouteInv /\ VisitInv /\ OverviewInv /\ DetailInv /\ CompareInv

-----------------------------------------------------------------------------
(* Coordinators *)

\* There is always a coordinator left that nobody refers to.
LEMMA UnusedIsFree == Unused \in Coordinators /\ ~Refers(Unused)
<1> DEFINE used == {session.coordinator} \cup {workers[w].coordinator : w \in Workers}
           who == 0 .. NumWorkers
           f == [i \in who |-> IF i = 0 THEN session.coordinator ELSE workers[i].coordinator]
<1>1. NumWorkers \in Nat
  BY SessionAssumption
<1>2. IsFiniteSet(who) /\ Cardinality(who) = NumWorkers + 1
  BY <1>1, FS_Interval
<1>3. f \in Surjection(who, used)
  <2>1. f \in [who -> used]
    BY <1>1 DEF Workers
  <2>2. \A u \in used : \E i \in who : f[i] = u
    <3> SUFFICES ASSUME NEW u \in used
                 PROVE \E i \in who : f[i] = u
      OBVIOUS
    <3>1. CASE u = session.coordinator
      <4>1. 0 \in who /\ f[0] = u
        BY <1>1, <3>1
      <4> QED
        BY <4>1
    <3>2. CASE \E w \in Workers : u = workers[w].coordinator
      <4>1. PICK w \in Workers : u = workers[w].coordinator
        BY <3>2
      <4>2. w \in who /\ f[w] = u
        BY <1>1, <4>1 DEF Workers
      <4> QED
        BY <4>2
    <3> QED
      BY <3>1, <3>2
  <2> QED
    BY <2>1, <2>2 DEF Surjection
<1>4. IsFiniteSet(used) /\ Cardinality(used) <= NumWorkers + 1
  <2> HIDE DEF used, who, f
  <2>1. IsFiniteSet(used) /\ Cardinality(used) <= Cardinality(who)
    BY <1>2, <1>3, FS_Surjection
  <2> QED
    BY <1>2, <2>1
<1>5. IsFiniteSet(Coordinators) /\ Cardinality(Coordinators) = NumWorkers + 2
  BY <1>1, FS_Interval DEF Coordinators
<1>6. ~(Coordinators \subseteq used)
  <2> SUFFICES ASSUME Coordinators \subseteq used
               PROVE FALSE
    OBVIOUS
  <2>1. Cardinality(Coordinators) <= Cardinality(used)
    <3> HIDE DEF used
    <3> QED
      BY <1>4, FS_Subset
  <2>2. Cardinality(used) \in Nat
    <3> HIDE DEF used
    <3> QED
      BY <1>4, FS_CardinalityType
  <2> HIDE DEF used
  <2> QED
    BY <1>1, <1>4, <1>5, <2>1, <2>2
<1> DEFINE unused == {c \in Coordinators : c # session.coordinator /\ \A w \in Workers : workers[w].coordinator # c}
<1>7. unused # {}
  BY <1>6
<1>8. unused \subseteq Nat
  BY <1>1 DEF Coordinators
<1>9. Min(unused) \in unused
  <2> HIDE DEF unused
  <2> QED
    BY <1>7, <1>8, LeastIsMember
<1> QED
  BY <1>9 DEF Unused, Refers

-----------------------------------------------------------------------------
(* Samples and families *)

\* A sample has an index below the population at each of its positions, and no more
\* positions than there are results.
LEMMA SamplesFit ==
    ASSUME NEW n \in 1 .. MaxCount
    PROVE \E m \in 1 .. MaxCount :
              /\ DOMAIN Sampled[n] = 1 .. m
              /\ \A i \in 1 .. m : Sampled[n][i] \in 0 .. n - 1
<1>1. n \in Nat /\ MaxCount \in Nat /\ n <= MaxCount /\ MaxSample \in Nat \ {0}
      /\ Sampled[n] \in sample_indices(n)
  BY SessionAssumption, ClusteringAssumption
<1>2. CASE n <= MaxSample
  <2>1. Sampled[n] = [i \in 1 .. n |-> i - 1]
    BY <1>1, <1>2 DEF sample_indices
  <2>2. DOMAIN Sampled[n] = 1 .. n /\ \A i \in 1 .. n : Sampled[n][i] \in 0 .. n - 1
    BY <1>1, <2>1
  <2> QED
    BY <2>2
<1>3. CASE ~(n <= MaxSample)
  <2>1. Sampled[n] \in [1 .. MaxSample -> 0 .. n - 1]
    BY <1>1, <1>3 DEF sample_indices
  <2>2. MaxSample \in 1 .. MaxCount
    BY <1>1, <1>3
  <2>3. DOMAIN Sampled[n] = 1 .. MaxSample /\ \A i \in 1 .. MaxSample : Sampled[n][i] \in 0 .. n - 1
    BY <2>1
  <2> QED
    BY <2>2, <2>3
<1> QED
  BY <1>2, <1>3

\* A sequence that lists nothing twice is no longer than what it lists.
LEMMA ListedOnce ==
    ASSUME NEW m \in Nat, NEW s \in Seq(1 .. m), IsInjective(s)
    PROVE Len(s) <= m
<1>1. s \in [1 .. Len(s) -> 1 .. m] /\ Len(s) \in Nat /\ DOMAIN s = 1 .. Len(s)
  OBVIOUS
<1>2. s \in Injection(1 .. Len(s), 1 .. m)
  BY <1>1 DEF Injection, IsInjective
<1>3. IsFiniteSet(1 .. m) /\ Cardinality(1 .. m) = m /\ Cardinality(1 .. Len(s)) = Len(s)
  <2>1. \A n \in Nat : IsFiniteSet(1 .. n) /\ Cardinality(1 .. n) = n
    <3> SUFFICES ASSUME NEW n \in Nat
                 PROVE IsFiniteSet(1 .. n) /\ Cardinality(1 .. n) = n
      OBVIOUS
    <3>1. IsFiniteSet(1 .. n) /\ Cardinality(1 .. n) = IF 1 > n THEN 0 ELSE n - 1 + 1
      BY FS_Interval
    <3> QED
      BY <3>1
  <2> QED
    BY <1>1, <2>1
<1>4. Cardinality(1 .. Len(s)) <= Cardinality(1 .. m)
  BY <1>2, <1>3, FS_Injection
<1> QED
  BY <1>3, <1>4

\* What the engine answers is a division of the sample into families.
Answer(population, k, configured) == CHOOSE o \in Outcomes[population][k][configured] : TRUE

\* What a worker fixes is a run of the session, in the number asked for.
LEMMA OutcomeIsRun ==
    ASSUME EngineDivides, NEW population \in 1 .. MaxCount, NEW k \in AskedKs, NEW configured \in AskedKs,
           NEW out, out = Answer(population, k, configured), NEW number
    PROVE /\ IsRun([run |-> number, sample |-> Sampled[population], population |-> population,
                    asked |-> out.asked, families |-> out.families])
          /\ k # 0 => out.asked = k
          /\ k = 0 /\ configured # 0 => out.asked = configured
<1>1. out \in Outcomes[population][k][configured]
  BY DEF EngineDivides, Answer
<1>2. (k # 0 => out.asked = k) /\ (k = 0 /\ configured # 0 => out.asked = configured)
  BY <1>1, AsksOutright
<1> DEFINE fs == out.families
           P == DOMAIN Sampled[population]
<1>3. /\ fs \in Seq([members : Seq(P), representative : P, estimate : Nat])
      /\ \A f \in DOMAIN fs : fs[f].members # <<>> /\ IsInjective(fs[f].members)
      /\ \A i \in P : \E f \in DOMAIN fs :
             /\ i \in Range(fs[f].members)
             /\ \A g \in DOMAIN fs \ {f} : i \notin Range(fs[g].members)
  <2>1. DividesSample(out, P)
    BY <1>1 DEF EngineDivides
  <2> HIDE DEF P
  <2> QED
    BY <2>1 DEF DividesSample
<1>4. PICK m \in 1 .. MaxCount : P = 1 .. m
  BY SamplesFit
<1>5. MaxCount \in Nat /\ m \in Nat /\ m <= MaxCount
  BY SessionAssumption
<1> HIDE DEF fs, P
<1>6. Len(fs) \in Nat /\ DOMAIN fs = 1 .. Len(fs)
  BY <1>3
<1>7. \A f \in DOMAIN fs : /\ fs[f].members \in Seq(1 .. m) /\ fs[f].members # <<>> /\ IsInjective(fs[f].members)
                           /\ fs[f].members[1] \in Range(fs[f].members) /\ fs[f].members[1] \in 1 .. m
  <2> SUFFICES ASSUME NEW f \in DOMAIN fs
               PROVE /\ fs[f].members \in Seq(1 .. m) /\ fs[f].members # <<>> /\ IsInjective(fs[f].members)
                     /\ fs[f].members[1] \in Range(fs[f].members) /\ fs[f].members[1] \in 1 .. m
    OBVIOUS
  <2>1. fs[f].members \in Seq(1 .. m) /\ fs[f].members # <<>> /\ IsInjective(fs[f].members)
    <3> DEFINE T == [members : Seq(P), representative : P, estimate : Nat]
    <3>1. fs[f] \in T
      <4>1. fs \in Seq(T)
        BY <1>3
      <4> HIDE DEF T
      <4> QED
        BY <1>6, <4>1
    <3> QED
      BY <1>3, <1>4, <3>1
  <2>2. 1 \in DOMAIN fs[f].members
    BY <2>1
  <2> QED
    BY <2>1, <2>2 DEF Range
<1>8. \A f \in DOMAIN fs : Len(fs[f].members) <= MaxCount
  <2> SUFFICES ASSUME NEW f \in DOMAIN fs
               PROVE Len(fs[f].members) <= MaxCount
    OBVIOUS
  <2>1. Len(fs[f].members) <= m /\ Len(fs[f].members) \in Nat
    BY <1>5, <1>7, ListedOnce
  <2> QED
    BY <1>5, <2>1
<1>9. Len(fs) <= MaxCount
  <2> DEFINE first == [f \in 1 .. Len(fs) |-> fs[f].members[1]]
  <2>1. first \in Seq(1 .. m) /\ Len(first) = Len(fs)
    BY <1>6, <1>7
  <2>2. IsInjective(first)
    <3> SUFFICES ASSUME NEW f \in 1 .. Len(fs), NEW g \in 1 .. Len(fs), first[f] = first[g]
                 PROVE f = g
      BY DEF IsInjective
    <3>1. fs[f].members[1] = fs[g].members[1]
      OBVIOUS
    <3>2. fs[f].members[1] \in P /\ fs[f].members[1] \in Range(fs[f].members)
          /\ fs[f].members[1] \in Range(fs[g].members)
      BY <1>4, <1>6, <1>7, <3>1
    <3> QED
      BY <1>3, <1>6, <3>2
  <2>3. Len(first) <= m
    <3> HIDE DEF first
    <3> QED
      BY <1>5, <2>1, <2>2, ListedOnce
  <2> QED
    BY <1>5, <1>6, <2>1, <2>3
<1> DEFINE r == [run |-> number, sample |-> Sampled[population], population |-> population,
                 asked |-> out.asked, families |-> fs]
<1>10. /\ r = [run |-> r.run, sample |-> Sampled[r.population], population |-> r.population,
               asked |-> r.asked, families |-> r.families]
       /\ r.population = population /\ r.families = fs
  OBVIOUS
<1> HIDE DEF r
<1>11. IsRun(r)
  BY <1>3, <1>7, <1>8, <1>9, <1>10 DEF IsRun, P
<1> QED
  BY <1>2, <1>11 DEF r, fs

-----------------------------------------------------------------------------
(* What happens on the screens *)

\* The screens change nothing of the session, its coordinators and its workers.
LEMMA ScreensKeepEngine ==
    ASSUME EngineInv, UNCHANGED <<results, sessionVars, late>>,
           overview'.worker \in {0, overview.worker}
    PROVE EngineInv'
<1>1. /\ results' = results /\ session' = session /\ coordinators' = coordinators
      /\ workers' = workers /\ late' = late
  BY DEF sessionVars
<1>2. ResultsInv' /\ CoordinatorInv' /\ SessionInv'
  BY <1>1 DEF EngineInv, ResultsInv, CoordinatorInv, SessionInv, Refers, Fitted, IsFitted
<1>3. WorkerInv'
  BY <1>1 DEF EngineInv, WorkerInv, Fitted
<1>4. SoleInv' /\ RequestInv'
  BY <1>1 DEF EngineInv, SoleInv, RequestInv, Fitted
<1>5. HeardInv' /\ InTimeInv' /\ WholeInv'
  BY <1>1 DEF EngineInv, HeardInv, InTimeInv, WholeInv, Fitted
<1> QED
  BY <1>2, <1>3, <1>4, <1>5 DEF EngineInv

-----------------------------------------------------------------------------
(* Workers *)

\* A coordinator is new or was prepared.
LEMMA NewOrFitted ==
    ASSUME CoordinatorInv, NEW c \in Coordinators
    PROVE /\ c # 0
          /\ Fitted(coordinators, c) => IsFitted(coordinators[c], results)
          /\ ~Fitted(coordinators, c) => coordinators[c] = NewCoordinator
          /\ ~Refers(c) => ~Fitted(coordinators, c)
<1>1. c # 0
  BY SessionAssumption DEF Coordinators
<1>2. NewCoordinator.prepared = FALSE
  BY DEF NewCoordinator
<1>3. IsFitted(coordinators[c], results) => coordinators[c].prepared
  BY DEF IsFitted
<1> QED
  BY <1>1, <1>2, <1>3 DEF CoordinatorInv, Fitted

\* The configurations and what they ask for.
LEMMA ConfigsAsk ==
    ASSUME NEW config \in Configs
    PROVE config.k \in AskedKs /\ config.k \in Nat /\ 0 \in AskedKs
BY SessionAssumption DEF Configs, AskedKs

\* Workers that change a few of their fields.
Translated(me, c, k) == [me EXCEPT !.pc = "compute", !.coordinator = c, !.k = k]

\* The fields of a worker that was told its coordinator.
LEMMA WorkerTranslated ==
    ASSUME NEW me, IsWorker(me), NEW c, NEW k
    PROVE Translated(me, c, k) = [pc |-> "compute", request |-> me.request, coordinator |-> c, k |-> k,
                 config |-> me.config, out |-> me.out]
<1>1. PICK a, b, d, e, f, g : me = [pc |-> a, request |-> b, coordinator |-> d, k |-> e, config |-> f, out |-> g]
  BY DEF IsWorker
<1>2. me.request = b /\ me.config = f /\ me.out = g
  BY <1>1
<1>3. PICK x : x = [me EXCEPT !.pc = "compute"]
  OBVIOUS
<1>4. x = [pc |-> "compute", request |-> b, coordinator |-> d, k |-> e, config |-> f, out |-> g]
  BY <1>1, <1>3
<1>5. PICK y : y = [x EXCEPT !.coordinator = c]
  OBVIOUS
<1>6. y = [pc |-> "compute", request |-> b, coordinator |-> c, k |-> e, config |-> f, out |-> g]
  BY <1>4, <1>5
<1>7. [y EXCEPT !.k = k] = [pc |-> "compute", request |-> b, coordinator |-> c, k |-> k, config |-> f, out |-> g]
  BY <1>6
<1>8. Translated(me, c, k) = [y EXCEPT !.k = k]
  BY <1>3, <1>5 DEF Translated
<1> QED
  BY <1>2, <1>7, <1>8

\* Taking over the session's coordinator, or a fresh one, keeps the sole worker that prepares it.
LEMMA TranslateKeeps ==
    ASSUME EngineInv, NEW w \in Workers, Translate(w)
    PROVE EngineInv'
<1> DEFINE c == IF Reusable(session.coordinator, workers[w].config) THEN session.coordinator ELSE Unused
           kk == IF Reusable(session.coordinator, workers[w].config) THEN workers[w].config.k ELSE 0
<1>1. /\ CoordinatorInv /\ WorkerInv /\ SoleInv /\ RequestInv /\ SessionInv /\ HeardInv /\ InTimeInv /\ WholeInv
      /\ ResultsInv
  BY DEF EngineInv
<1>2. /\ results' = results /\ session' = session /\ coordinators' = coordinators
      /\ overview' = overview /\ late' = late /\ workers[w].pc = "translate"
  BY DEF Translate, WorkerStays, viewVars
<1>3. IsWorker(workers[w]) /\ workers[w].request /\ workers[w].coordinator = 0 /\ workers[w].config \in Requests
  BY <1>1, <1>2 DEF WorkerInv, IsWorker
<1>4. /\ workers' = [v \in Workers |-> workers'[v]]
      /\ \A v \in Workers \ {w} : workers'[v] = workers[v]
      /\ workers'[w] = [pc |-> "compute", request |-> workers[w].request, coordinator |-> c, k |-> kk,
                        config |-> workers[w].config, out |-> workers[w].out]
  <2>1. workers' = [workers EXCEPT ![w] = Translated(workers[w], c, kk)]
    BY DEF Translate, Translated
  <2> HIDE DEF c, kk
  <2> QED
    BY <1>1, <1>3, <2>1, WorkerTranslated DEF WorkerInv
<1>5. c \in Coordinators /\ c # 0
  BY <1>1, UnusedIsFree, NewOrFitted DEF Reusable, SessionInv
<1>6. \/ /\ c = session.coordinator /\ kk = workers[w].config.k /\ Fitted(coordinators, c)
         /\ coordinators[c].config.criteria = workers[w].config.criteria
      \/ c = Unused /\ kk = 0 /\ ~Refers(c) /\ ~Fitted(coordinators, c)
  <2>1. CASE Reusable(session.coordinator, workers[w].config)
    BY <2>1 DEF Reusable, Fitted
  <2>2. CASE ~Reusable(session.coordinator, workers[w].config)
    BY <1>1, <2>2, UnusedIsFree, NewOrFitted
  <2> QED
    BY <2>1, <2>2
<1>7. kk \in AskedKs
  BY <1>3, ConfigsAsk DEF Configs
<1> HIDE DEF c, kk
<1>8. \A x \in Coordinators : Refers(x) => Refers(x)'
  BY <1>1, <1>2, <1>3, <1>4, NewOrFitted DEF Refers
<1>9. ResultsInv' /\ SessionInv'
  BY <1>1, <1>2 DEF ResultsInv, SessionInv, Fitted
<1>10. CoordinatorInv'
  BY <1>1, <1>2, <1>8 DEF CoordinatorInv
<1>11. WorkerInv'
  <2>1. IsWorker(workers'[w]) /\ workers'[w].pc = "compute"
    BY <1>3, <1>4, <1>5, <1>7 DEF IsWorker
  <2> QED
    BY <1>1, <1>2, <1>4, <1>8, <2>1 DEF WorkerInv
<1>12. SoleInv'
  <2> SUFFICES ASSUME NEW u \in Workers, NEW v \in Workers,
                      workers'[u].coordinator = workers'[v].coordinator, workers'[u].coordinator # 0,
                      ~Fitted(coordinators, workers'[u].coordinator)
               PROVE u = v
    BY <1>2 DEF SoleInv
  <2>1. CASE u # w /\ v # w
    BY <1>1, <1>4, <2>1 DEF SoleInv
  <2>2. CASE u = w \/ v = w
    BY <1>4, <1>6, <2>2 DEF Refers
  <2> QED
    BY <2>1, <2>2
<1>13. RequestInv'
  <2> SUFFICES ASSUME NEW v \in Workers, workers'[v].request
               PROVE /\ workers'[v].pc = "compute" =>
                           workers'[v].k = (IF Fitted(coordinators, workers'[v].coordinator) THEN workers'[v].config.k ELSE 0)
                     /\ workers'[v].pc \in {"compute", "done"} /\ Fitted(coordinators, workers'[v].coordinator) =>
                           coordinators[workers'[v].coordinator].config.criteria = workers'[v].config.criteria
                     /\ workers'[v].pc = "done" /\ workers'[v].config.k # 0 =>
                           workers'[v].out.asked = workers'[v].config.k
    BY <1>2, <1>8 DEF RequestInv
  <2>1. CASE v # w
    BY <1>1, <1>4, <2>1 DEF RequestInv
  <2>2. CASE v = w
    BY <1>4, <1>6, <2>2
  <2> QED
    BY <2>1, <2>2
<1>14. HeardInv' /\ InTimeInv' /\ WholeInv'
  <2>1. CASE overview.worker # w
    BY <1>1, <1>2, <1>4, <1>8, <2>1 DEF HeardInv, InTimeInv, WholeInv
  <2>2. CASE overview.worker = w
    <3>1. HeardInv'
      BY <1>1, <1>2, <1>4, <1>6, <1>8, <2>2 DEF HeardInv, SessionInv
    <3>2. InTimeInv'
      BY <1>1, <1>2, <1>3, <1>4, <1>8, <2>2 DEF InTimeInv
    <3>3. WholeInv'
      BY <1>1, <1>2, <1>4, <1>6, <1>8, <2>2 DEF WholeInv
    <3> QED
      BY <3>1, <3>2, <3>3
  <2> QED
    BY <2>1, <2>2
<1> QED
  BY <1>9, <1>10, <1>11, <1>12, <1>13, <1>14 DEF EngineInv

Answered(me, out) == [me EXCEPT !.pc = "done", !.out = out]

\* The fields of a worker that is done.
LEMMA WorkerAnswered ==
    ASSUME NEW me, IsWorker(me), NEW out
    PROVE Answered(me, out) = [pc |-> "done", request |-> me.request, coordinator |-> me.coordinator, k |-> me.k,
                               config |-> me.config, out |-> out]
<1>1. PICK a, b, d, e, f, g : me = [pc |-> a, request |-> b, coordinator |-> d, k |-> e, config |-> f, out |-> g]
  BY DEF IsWorker
<1>2. me.request = b /\ me.coordinator = d /\ me.k = e /\ me.config = f
  BY <1>1
<1>3. PICK x : x = [me EXCEPT !.pc = "done"]
  OBVIOUS
<1>4. x = [pc |-> "done", request |-> b, coordinator |-> d, k |-> e, config |-> f, out |-> g]
  BY <1>1, <1>3
<1>5. [x EXCEPT !.out = out] = [pc |-> "done", request |-> b, coordinator |-> d, k |-> e, config |-> f, out |-> out]
  BY <1>4
<1>6. Answered(me, out) = [x EXCEPT !.out = out]
  BY <1>3 DEF Answered
<1> QED
  BY <1>2, <1>5, <1>6

\* Computing prepares the coordinator at most once and fixes families of its sample.
LEMMA ComputeKeeps ==
    ASSUME EngineDivides, EngineInv, NEW w \in Workers, Compute(w)
    PROVE EngineInv'
<1> DEFINE me == workers[w]
           c == workers[w].coordinator
           fitted == IF coordinators[c].prepared THEN coordinators[c] ELSE Prepared(workers[w].config)
           out == CHOOSE o \in OutcomesOf(fitted, workers[w].k) : TRUE
           run == [run |-> fitted.run, sample |-> fitted.sample, population |-> fitted.population,
                   asked |-> out.asked, families |-> out.families]
<1>1. /\ CoordinatorInv /\ WorkerInv /\ SoleInv /\ RequestInv /\ SessionInv /\ HeardInv /\ InTimeInv /\ WholeInv
      /\ ResultsInv
  BY DEF EngineInv
<1>2. /\ results' = results /\ session' = session /\ overview' = overview /\ late' = late
      /\ workers[w].pc = "compute" /\ (results.count > 0 \/ coordinators[c].prepared)
      /\ coordinators' = [coordinators EXCEPT ![c] = fitted]
  BY DEF Compute, WorkerStays, viewVars
<1>3. workers' = [workers EXCEPT ![w] = Answered(workers[w], run)]
  BY DEF Compute, Answered
<1>4. IsWorker(me) /\ c # 0 /\ c \in Coordinators /\ me.k \in AskedKs /\ me.config \in Configs
      /\ me.request \in BOOLEAN
  BY <1>1, <1>2 DEF WorkerInv, IsWorker, Configs
<1>5. Fitted(coordinators, c) <=> coordinators[c].prepared
  BY <1>4 DEF Fitted
<1>6. /\ IsFitted(fitted, results)
      /\ Fitted(coordinators, c) => fitted = coordinators[c]
      /\ ~Fitted(coordinators, c) => /\ fitted.config = me.config /\ fitted.run = results.run
                       /\ fitted.population = results.count
  <2>1. CASE Fitted(coordinators, c)
    BY <1>1, <1>4, <1>5, <2>1, NewOrFitted
  <2>2. CASE ~Fitted(coordinators, c)
    <3>1. fitted = [prepared |-> TRUE, config |-> me.config, run |-> results.run,
                    sample |-> Sampled[results.count], population |-> results.count]
      BY <1>5, <2>2 DEF Prepared
    <3>2. results.count \in 1 .. MaxCount /\ results.run \in Nat
      BY <1>1, <1>2, <1>5, <2>2, SessionAssumption DEF ResultsInv
    <3> HIDE DEF fitted
    <3> QED
      BY <1>4, <2>2, <3>1, <3>2 DEF IsFitted
  <2> QED
    BY <2>1, <2>2
<1> HIDE DEF fitted
<1>7. /\ fitted.population \in 1 .. MaxCount /\ fitted.config \in Configs
      /\ fitted.sample = Sampled[fitted.population] /\ fitted.prepared
      /\ fitted.config.k \in AskedKs
  <2>1. fitted.config \in Configs
    BY <1>6 DEF IsFitted
  <2> QED
    BY <1>6, <2>1, ConfigsAsk DEF IsFitted
<1>8. /\ IsRun(run)
      /\ me.k # 0 => out.asked = me.k
      /\ me.k = 0 /\ fitted.config.k # 0 => out.asked = fitted.config.k
  <2>1. out = Answer(fitted.population, me.k, fitted.config.k)
    BY DEF OutcomesOf, Answer
  <2> HIDE DEF out, me
  <2>2. /\ IsRun([run |-> fitted.run, sample |-> Sampled[fitted.population], population |-> fitted.population,
                   asked |-> out.asked, families |-> out.families])
        /\ me.k # 0 => out.asked = me.k
        /\ me.k = 0 /\ fitted.config.k # 0 => out.asked = fitted.config.k
    BY <1>4, <1>7, <2>1, OutcomeIsRun DEF me
  <2> QED
    BY <1>7, <2>2
<1>9. run.run = fitted.run /\ run.population = fitted.population /\ run.asked = out.asked
  OBVIOUS
<1> HIDE DEF out, run
<1>10. /\ workers' = [v \in Workers |-> workers'[v]]
       /\ \A v \in Workers \ {w} : workers'[v] = workers[v]
       /\ workers'[w] = [pc |-> "done", request |-> workers[w].request, coordinator |-> c, k |-> workers[w].k,
                         config |-> workers[w].config, out |-> run]
  BY <1>1, <1>3, <1>4, WorkerAnswered DEF WorkerInv
<1>11. /\ coordinators' = [x \in Coordinators |-> coordinators'[x]]
       /\ coordinators'[c] = fitted
       /\ \A x \in Coordinators : x = c \/ coordinators'[x] = coordinators[x]
  BY <1>1, <1>2, <1>4 DEF CoordinatorInv
<1>12. /\ \A x \in Coordinators : x # c => (Fitted(coordinators', x) <=> Fitted(coordinators, x))
       /\ Fitted(coordinators', c)
       /\ \A x \in Coordinators : Fitted(coordinators, x) => coordinators'[x] = coordinators[x]
       /\ \A x : Refers(x)' <=> Refers(x)
  BY <1>2, <1>4, <1>6, <1>7, <1>10, <1>11 DEF Fitted, IsFitted, Refers
<1>13. \A v \in Workers : workers[v].coordinator \in {0} \cup Coordinators
  BY <1>1 DEF WorkerInv, IsWorker
<1>14. \A v \in Workers : workers[v].coordinator = c /\ ~Fitted(coordinators, c) => v = w
  BY <1>1, <1>4 DEF SoleInv
<1>15. ResultsInv' /\ CoordinatorInv'
  <2>1. Refers(c)
    BY DEF Refers
  <2>2. \A x \in Coordinators : ~Refers(x)' => coordinators'[x] = NewCoordinator
    BY <1>1, <1>11, <1>12, <2>1 DEF CoordinatorInv
  <2>3. \A x \in Coordinators : coordinators'[x] = NewCoordinator \/ IsFitted(coordinators'[x], results')
    BY <1>1, <1>2, <1>6, <1>11 DEF CoordinatorInv
  <2> QED
    BY <1>1, <1>2, <1>11, <2>2, <2>3 DEF ResultsInv, CoordinatorInv
<1>16. WorkerInv'
  <2>1. IsWorker(workers'[w])
    BY <1>4, <1>10 DEF IsWorker, WorkerInv
  <2>2. \A v \in Workers : IsWorker(workers'[v])
    BY <1>1, <1>10, <2>1 DEF WorkerInv
  <2>4. ASSUME NEW v \in Workers, workers'[v].pc = "done"
        PROVE  /\ Fitted(coordinators', workers'[v].coordinator) /\ IsRun(workers'[v].out)
               /\ workers'[v].out.run = coordinators'[workers'[v].coordinator].run
               /\ workers'[v].out.population = coordinators'[workers'[v].coordinator].population
    <3>1. CASE v = w
      BY <1>8, <1>9, <1>10, <1>11, <1>12, <3>1
    <3>2. CASE v # w
      <4>1. /\ Fitted(coordinators, workers[v].coordinator) /\ IsRun(workers[v].out) /\ workers[v].coordinator \in Coordinators
            /\ workers[v].out.run = coordinators[workers[v].coordinator].run
            /\ workers[v].out.population = coordinators[workers[v].coordinator].population
        BY <1>1, <1>10, <1>13, <2>4, <3>2 DEF WorkerInv, Fitted
      <4> QED
        BY <1>10, <1>12, <3>2, <4>1 DEF Fitted
    <3> QED
      BY <3>1, <3>2
  <2> QED
    BY <1>10, <2>2, <2>4 DEF WorkerInv
<1>17. SoleInv'
  <2> SUFFICES ASSUME NEW u \in Workers, NEW v \in Workers,
                      workers[u].coordinator = workers[v].coordinator, workers[u].coordinator # 0,
                      ~Fitted(coordinators', workers[u].coordinator)
               PROVE u = v
    BY <1>10 DEF SoleInv
  <2>1. workers[u].coordinator \in Coordinators
    BY <1>13
  <2>2. ~Fitted(coordinators, workers[u].coordinator)
    BY <1>12, <2>1
  <2> QED
    BY <1>1, <2>2 DEF SoleInv
<1>18. RequestInv'
  <2> SUFFICES ASSUME NEW v \in Workers, workers'[v].request
               PROVE /\ workers'[v].pc = "compute" =>
                           workers'[v].k = (IF Fitted(coordinators', workers'[v].coordinator) THEN workers'[v].config.k ELSE 0)
                     /\ workers'[v].pc \in {"compute", "done"} /\ Fitted(coordinators', workers'[v].coordinator) =>
                           coordinators'[workers'[v].coordinator].config.criteria = workers'[v].config.criteria
                     /\ workers'[v].pc = "done" /\ workers'[v].config.k # 0 =>
                           workers'[v].out.asked = workers'[v].config.k
    BY DEF RequestInv
  <2>1. CASE v = w
    <3>1. CASE Fitted(coordinators, c)
      BY <1>1, <1>2, <1>6, <1>8, <1>9, <1>10, <1>11, <2>1, <3>1 DEF RequestInv
    <3>2. CASE ~Fitted(coordinators, c)
      BY <1>1, <1>2, <1>6, <1>8, <1>9, <1>10, <1>11, <2>1, <3>2 DEF RequestInv
    <3> QED
      BY <3>1, <3>2
  <2>2. CASE v # w
    <3>1. workers'[v] = workers[v] /\ workers[v].coordinator \in {0} \cup Coordinators
      BY <1>10, <1>13, <2>2
    <3>2. Fitted(coordinators', workers[v].coordinator) <=> Fitted(coordinators, workers[v].coordinator)
      BY <1>12, <1>14, <2>2, <3>1 DEF Fitted
    <3>3. Fitted(coordinators, workers[v].coordinator)
              => coordinators'[workers[v].coordinator] = coordinators[workers[v].coordinator]
      BY <1>12, <3>1 DEF Fitted
    <3> QED
      BY <1>1, <3>1, <3>2, <3>3 DEF RequestInv
  <2> QED
    BY <2>1, <2>2
<1>19. \A x \in {0} \cup Coordinators :
          /\ Fitted(coordinators, x) => Fitted(coordinators', x) /\ coordinators'[x] = coordinators[x]
          /\ Fitted(coordinators', x) /\ ~Fitted(coordinators, x) =>
                coordinators'[x].run = results.run /\ coordinators'[x].population = results.count
  BY <1>4, <1>6, <1>11, <1>12 DEF Fitted
<1>20. SessionInv' /\ session.coordinator \in {0} \cup Coordinators
  BY <1>1, <1>2, <1>19 DEF SessionInv
<1>21. \A v \in Workers : workers'[v].coordinator = workers[v].coordinator /\ workers'[v].request = workers[v].request
  BY <1>10
<1>22. HeardInv'
  <2> SUFFICES ASSUME overview.worker # 0
               PROVE  /\ overview.worker \in Workers /\ workers'[overview.worker].pc # "none"
                      /\ Fitted(coordinators', workers'[overview.worker].coordinator) =>
                            coordinators'[workers'[overview.worker].coordinator].run = results.run
    BY <1>2 DEF HeardInv
  <2>1. /\ overview.worker \in Workers /\ workers[overview.worker].pc # "none"
        /\ Fitted(coordinators, workers[overview.worker].coordinator) =>
               coordinators[workers[overview.worker].coordinator].run = results.run
    BY <1>1 DEF HeardInv
  <2>2. workers'[overview.worker].pc # "none" /\ workers[overview.worker].coordinator \in {0} \cup Coordinators
    BY <1>10, <1>13, <2>1
  <2> QED
    BY <1>19, <1>21, <2>1, <2>2
<1>23. InTimeInv'
  BY <1>1, <1>2, <1>19, <1>20, <1>21 DEF InTimeInv, HeardInv
<1>24. WholeInv'
  <2> SUFFICES ASSUME ~late, results.going = "no"
               PROVE  /\ Fitted(coordinators', session.coordinator) =>
                            coordinators'[session.coordinator].population = results.count
                      /\ overview.worker # 0 /\ Fitted(coordinators', workers'[overview.worker].coordinator) =>
                            coordinators'[workers'[overview.worker].coordinator].population = results.count
    BY <1>2 DEF WholeInv
  <2>1. Fitted(coordinators', session.coordinator) =>
            coordinators'[session.coordinator].population = results.count
    BY <1>1, <1>19, <1>20 DEF WholeInv
  <2>2. ASSUME overview.worker # 0
        PROVE Fitted(coordinators', workers'[overview.worker].coordinator) =>
                  coordinators'[workers'[overview.worker].coordinator].population = results.count
    <3>1. /\ overview.worker \in Workers
          /\ Fitted(coordinators, workers[overview.worker].coordinator) =>
                  coordinators[workers[overview.worker].coordinator].population = results.count
      BY <1>1, <2>2 DEF HeardInv, WholeInv
    <3>2. workers[overview.worker].coordinator \in {0} \cup Coordinators
      BY <1>13, <3>1
    <3> QED
      BY <1>19, <1>21, <3>1, <3>2
  <2> QED
    BY <2>1, <2>2
<1> QED
  BY <1>15, <1>16, <1>17, <1>18, <1>20, <1>22, <1>23, <1>24 DEF EngineInv

-----------------------------------------------------------------------------
(* What is referred to is kept *)

KeptInv ==
    coordinators' = [x \in Coordinators |-> IF Refers(x)' THEN coordinators[x] ELSE NewCoordinator]

\* Letting go of coordinators leaves those that are referred to.
LEMMA KeptIs ==
    ASSUME coordinators' = Kept(coordinators)
    PROVE KeptInv
BY DEF Kept, KeptInv, Refers

\* What is referred to stays as it was, and so do the workers, or they fail or start.
LEMMA WorkersKept ==
    ASSUME EngineInv, KeptInv,
           \A c : IsFitted(c, results) => IsFitted(c, results'),
           workers' = [v \in Workers |-> workers'[v]],
           \A v \in Workers : workers'[v] = workers[v] \/
              /\ IsWorker(workers'[v]) /\ workers'[v].pc # "done"
              /\ workers'[v].request => workers'[v].pc # "compute"
              /\ workers'[v].coordinator # 0 /\ ~Fitted(coordinators, workers'[v].coordinator) =>
                    \A u \in Workers \ {v} : workers'[u].coordinator # workers'[v].coordinator
    PROVE /\ CoordinatorInv' /\ WorkerInv' /\ SoleInv' /\ RequestInv'
          /\ \A x \in Coordinators : Refers(x)' => coordinators'[x] = coordinators[x]
<1>1. CoordinatorInv /\ WorkerInv /\ SoleInv /\ RequestInv
  BY DEF EngineInv
<1>2. \A x \in Coordinators : /\ Refers(x)' => coordinators'[x] = coordinators[x]
                              /\ ~Refers(x)' => coordinators'[x] = NewCoordinator
  BY DEF KeptInv
<1>3. CoordinatorInv'
  BY <1>1, <1>2 DEF CoordinatorInv, KeptInv
<1>4. \A v \in Workers : IsWorker(workers'[v])
  BY <1>1 DEF WorkerInv
<1>5. \A v \in Workers : /\ workers'[v].coordinator \in {0} \cup Coordinators
                         /\ workers'[v].coordinator # 0 =>
                               /\ workers'[v].coordinator \in Coordinators
                               /\ coordinators'[workers'[v].coordinator] = coordinators[workers'[v].coordinator]
  <2> SUFFICES ASSUME NEW v \in Workers
               PROVE /\ workers'[v].coordinator \in {0} \cup Coordinators
                     /\ workers'[v].coordinator # 0 =>
                           /\ workers'[v].coordinator \in Coordinators
                           /\ coordinators'[workers'[v].coordinator] = coordinators[workers'[v].coordinator]
    OBVIOUS
  <2>1. workers'[v].coordinator \in {0} \cup Coordinators
    BY <1>4 DEF IsWorker
  <2>2. PICK x : x = workers'[v].coordinator
    OBVIOUS
  <2>3. Refers(x)'
    BY <2>2 DEF Refers
  <2> QED
    BY <1>2, <2>1, <2>2, <2>3
<1>6. \A v \in Workers : Fitted(coordinators', workers'[v].coordinator) <=> Fitted(coordinators, workers'[v].coordinator)
  BY <1>5 DEF Fitted
<1>7. WorkerInv'
  <2>1. ASSUME NEW v \in Workers, workers'[v].pc = "done"
        PROVE  /\ Fitted(coordinators', workers'[v].coordinator) /\ IsRun(workers'[v].out)
               /\ workers'[v].out.run = coordinators'[workers'[v].coordinator].run
               /\ workers'[v].out.population = coordinators'[workers'[v].coordinator].population
    <3>1. workers'[v] = workers[v]
      BY <2>1
    <3>2. workers'[v].coordinator # 0
      BY <1>4, <2>1 DEF IsWorker
    <3>3. /\ Fitted(coordinators, workers[v].coordinator) /\ IsRun(workers[v].out)
          /\ workers[v].out.run = coordinators[workers[v].coordinator].run
          /\ workers[v].out.population = coordinators[workers[v].coordinator].population
      BY <1>1, <2>1, <3>1 DEF WorkerInv
    <3> QED
      BY <1>5, <1>6, <3>1, <3>2, <3>3
  <2> QED
    BY <1>4, <2>1 DEF WorkerInv
<1>8. SoleInv'
  <2> SUFFICES ASSUME NEW u \in Workers, NEW v \in Workers,
                      workers'[u].coordinator = workers'[v].coordinator, workers'[u].coordinator # 0,
                      ~Fitted(coordinators, workers'[u].coordinator)
               PROVE u = v
    BY <1>6 DEF SoleInv
  <2>1. CASE workers'[u] = workers[u] /\ workers'[v] = workers[v]
    BY <1>1, <2>1 DEF SoleInv
  <2>2. CASE workers'[u] # workers[u]
    BY <2>2
  <2>3. CASE workers'[v] # workers[v]
    BY <2>3
  <2> QED
    BY <2>1, <2>2, <2>3
<1>9. RequestInv'
  <2> SUFFICES ASSUME NEW v \in Workers, workers'[v].request
               PROVE /\ workers'[v].pc = "compute" =>
                           workers'[v].k = (IF Fitted(coordinators', workers'[v].coordinator) THEN workers'[v].config.k ELSE 0)
                     /\ workers'[v].pc \in {"compute", "done"} /\ Fitted(coordinators', workers'[v].coordinator) =>
                           coordinators'[workers'[v].coordinator].config.criteria = workers'[v].config.criteria
                     /\ workers'[v].pc = "done" /\ workers'[v].config.k # 0 =>
                           workers'[v].out.asked = workers'[v].config.k
    BY DEF RequestInv
  <2>1. CASE workers'[v] = workers[v]
    <3>1. Fitted(coordinators, workers[v].coordinator) =>
              coordinators'[workers[v].coordinator] = coordinators[workers[v].coordinator]
      BY <1>5, <2>1 DEF Fitted
    <3>2. Fitted(coordinators', workers[v].coordinator) <=> Fitted(coordinators, workers[v].coordinator)
      BY <1>6, <2>1
    <3> QED
      BY <1>1, <2>1, <3>1, <3>2 DEF RequestInv
  <2>2. CASE workers'[v] # workers[v]
    BY <2>2
  <2> QED
    BY <2>1, <2>2
<1> QED
  BY <1>2, <1>3, <1>7, <1>8, <1>9

\* Nobody is forgotten when nothing is let go of.
LEMMA AllKept ==
    ASSUME CoordinatorInv, coordinators' = coordinators, \A x \in Coordinators : Refers(x) => Refers(x)'
    PROVE KeptInv
BY DEF KeptInv, CoordinatorInv

Failed(me) == [me EXCEPT !.pc = "failed"]

\* The fields of a worker that failed.
LEMMA WorkerFailed ==
    ASSUME NEW me, IsWorker(me)
    PROVE Failed(me) = [pc |-> "failed", request |-> me.request, coordinator |-> me.coordinator, k |-> me.k,
                        config |-> me.config, out |-> me.out]
<1>1. PICK a, b, d, e, f, g : me = [pc |-> a, request |-> b, coordinator |-> d, k |-> e, config |-> f, out |-> g]
  BY DEF IsWorker
<1>2. me.request = b /\ me.coordinator = d /\ me.k = e /\ me.config = f /\ me.out = g
  BY <1>1
<1>3. Failed(me) = [pc |-> "failed", request |-> b, coordinator |-> d, k |-> e, config |-> f, out |-> g]
  BY <1>1 DEF Failed
<1> QED
  BY <1>2, <1>3

\* A worker that failed has nothing to be committed.
LEMMA FailKeeps ==
    ASSUME EngineInv, NEW w \in Workers, Fail(w)
    PROVE EngineInv'
<1>1. CoordinatorInv /\ WorkerInv /\ SoleInv /\ SessionInv /\ HeardInv /\ InTimeInv /\ WholeInv /\ ResultsInv
  BY DEF EngineInv
<1>2. /\ results' = results /\ session' = session /\ coordinators' = coordinators
      /\ overview' = overview /\ late' = late /\ workers' = [workers EXCEPT ![w] = Failed(workers[w])]
      /\ workers[w].pc # "none"
  BY DEF Fail, viewVars, Failed
<1>3. IsWorker(workers[w])
  BY <1>1 DEF WorkerInv
<1>4. /\ workers' = [v \in Workers |-> workers'[v]]
      /\ \A v \in Workers \ {w} : workers'[v] = workers[v]
      /\ workers'[w] = [pc |-> "failed", request |-> workers[w].request, coordinator |-> workers[w].coordinator,
                        k |-> workers[w].k, config |-> workers[w].config, out |-> workers[w].out]
  BY <1>1, <1>2, <1>3, WorkerFailed DEF WorkerInv
<1>5. IsWorker(workers'[w]) /\ workers'[w].pc = "failed"
  BY <1>2, <1>3, <1>4 DEF IsWorker
<1>6. \A v \in Workers : /\ workers'[v].coordinator = workers[v].coordinator
                         /\ workers'[v].request = workers[v].request
                         /\ workers[v].pc # "none" => workers'[v].pc # "none"
  BY <1>4
<1>7. KeptInv
  BY <1>1, <1>2, <1>6, AllKept DEF Refers
<1>8. workers'[w].coordinator # 0 /\ ~Fitted(coordinators, workers'[w].coordinator) =>
          \A u \in Workers \ {w} : workers'[u].coordinator # workers'[w].coordinator
  BY <1>1, <1>6 DEF SoleInv
<1>9. CoordinatorInv' /\ WorkerInv' /\ SoleInv' /\ RequestInv'
  BY <1>2, <1>4, <1>5, <1>7, <1>8, WorkersKept
<1>10. ResultsInv' /\ SessionInv'
  BY <1>1, <1>2 DEF ResultsInv, SessionInv
<1>11. HeardInv' /\ InTimeInv' /\ WholeInv'
  BY <1>1, <1>2, <1>6 DEF HeardInv, InTimeInv, WholeInv
<1> QED
  BY <1>9, <1>10, <1>11 DEF EngineInv

\* The thread that is started next.
LEMMA FreeIsFree ==
    ASSUME WorkerInv, CanStart
    PROVE Free \in Workers /\ workers[Free] = NoWorker
<1> DEFINE none == {w \in Workers : workers[w].pc = "none"}
<1>1. none \subseteq Nat /\ none # {}
  BY SessionAssumption DEF CanStart, Workers
<1>2. Min(none) \in none
  <2> HIDE DEF none
  <2> QED
    BY <1>1, LeastIsMember
<1>3. Free \in Workers /\ workers[Free].pc = "none"
  BY <1>2 DEF Free
<1> QED
  BY <1>3 DEF WorkerInv, IsWorker

\* A request starts a worker of its own.
LEMMA ApplyRequestKeeps ==
    ASSUME EngineInv, NEW config \in Requests, ApplyRequest(config)
    PROVE EngineInv'
<1>1. CoordinatorInv /\ WorkerInv /\ SoleInv /\ SessionInv /\ HeardInv /\ InTimeInv /\ WholeInv /\ ResultsInv
  BY DEF EngineInv
<1>2. /\ results' = results /\ session' = session /\ coordinators' = coordinators
      /\ overview'.worker = Free /\ late' = late
      /\ workers' = [workers EXCEPT ![Free] = [NoWorker EXCEPT !.pc = "translate", !.request = TRUE, !.config = config]]
      /\ CanStart
  BY DEF ApplyRequest
<1>3. Free \in Workers /\ workers[Free] = NoWorker
  BY <1>1, <1>2, FreeIsFree
<1> DEFINE f == Free
<1>4. /\ workers' = [v \in Workers |-> workers'[v]]
      /\ \A v \in Workers \ {f} : workers'[v] = workers[v]
      /\ workers'[f] = [pc |-> "translate", request |-> TRUE, coordinator |-> 0, k |-> 0, config |-> config, out |-> NoRun]
  BY <1>1, <1>2, <1>3 DEF WorkerInv, NoWorker
<1>5. f \in Workers /\ overview'.worker = f /\ workers[f].coordinator = 0
  BY <1>2, <1>3 DEF NoWorker
<1> HIDE DEF f
<1>6. IsWorker(workers'[f]) /\ workers'[f].pc = "translate" /\ workers'[f].coordinator = 0 /\ workers'[f].request
  BY <1>4, ConfigsAsk DEF IsWorker, Configs
<1>7. KeptInv
  BY <1>1, <1>2, <1>4, <1>5, <1>6, AllKept DEF Refers
<1>8. CoordinatorInv' /\ WorkerInv' /\ SoleInv' /\ RequestInv'
  BY <1>2, <1>4, <1>6, <1>7, WorkersKept
<1>9. ResultsInv' /\ SessionInv'
  BY <1>1, <1>2 DEF ResultsInv, SessionInv
<1>10. HeardInv'
  <2>1. ~Fitted(coordinators', workers'[f].coordinator) /\ workers'[f].pc # "none"
    BY <1>6 DEF Fitted
  <2>2. overview'.worker \in Workers /\ workers'[overview'.worker].pc # "none"
        /\ ~Fitted(coordinators', workers'[overview'.worker].coordinator)
    BY <1>5, <2>1
  <2> QED
    BY <2>2 DEF HeardInv
<1>11. InTimeInv' /\ WholeInv'
  <2>1. workers'[overview'.worker].request /\ ~Fitted(coordinators', workers'[overview'.worker].coordinator)
    BY <1>5, <1>6 DEF Fitted
  <2> QED
    BY <1>1, <1>2, <2>1 DEF InTimeInv, WholeInv
<1> QED
  BY <1>8, <1>9, <1>10, <1>11 DEF EngineInv

-----------------------------------------------------------------------------
(* The coordinator that the session is given *)

\* Committed families are not the absence of families.
LEMMA NoRunIsNoRun ==
    ASSUME NEW r, IsRun(r)
    PROVE r # NoRun
<1>1. r.population # 0
  BY SessionAssumption DEF IsRun
<1> QED
  BY <1>1 DEF NoRun

\* The session keeps its coordinator, or gets one that nobody has.
LEMMA CoordinatorIs ==
    ASSUME CoordinatorInv, NEW s, s.coordinator \in {0} \cup Coordinators
    PROVE /\ Valid(s) => CoordinatorFor(s) = s.coordinator /\ Fitted(coordinators, s.coordinator)
          /\ ~Valid(s) => /\ CoordinatorFor(s) = Unused /\ ~Refers(CoordinatorFor(s))
                          /\ ~Fitted(coordinators, CoordinatorFor(s))
          /\ CoordinatorFor(s) \in Coordinators /\ CoordinatorFor(s) # 0
<1>1. CASE Valid(s)
  <2>1. CoordinatorFor(s) = s.coordinator /\ Fitted(coordinators, s.coordinator) /\ s.coordinator # 0
    BY <1>1 DEF Valid, CoordinatorFor, Fitted
  <2> QED
    BY <1>1, <2>1
<1>2. CASE ~Valid(s)
  <2>1. CoordinatorFor(s) = Unused
    BY <1>2 DEF CoordinatorFor
  <2> QED
    BY <1>2, <2>1, UnusedIsFree, NewOrFitted
<1> QED
  BY <1>1, <1>2

\* An invalidated session has neither coordinator nor families.
LEMMA InvalidatedIs ==
    ASSUME NEW s, s = [coordinator |-> s.coordinator, run |-> s.run]
    PROVE Invalidated(s) = [coordinator |-> 0, run |-> NoRun]
<1>1. PICK a, b : s = [coordinator |-> a, run |-> b]
  OBVIOUS
<1>2. PICK none : none = NoRun
  OBVIOUS
<1>3. PICK x : x = [s EXCEPT !.coordinator = 0]
  OBVIOUS
<1>4. x = [coordinator |-> 0, run |-> b]
  BY <1>1, <1>3
<1>5. [x EXCEPT !.run = none] = [coordinator |-> 0, run |-> none]
  BY <1>4
<1>6. Invalidated(s) = [x EXCEPT !.run = none]
  BY <1>2, <1>3 DEF Invalidated
<1> QED
  BY <1>2, <1>5, <1>6

\* A visit may start a worker on the session's coordinator, prepared or not.
LEMMA KickOffKeeps ==
    ASSUME EngineInv, NEW s, s = session \/ s = Invalidated(session), NEW k \in AskedKs, NEW o,
           KickOff(s, k, o), results' = results, late' = late, overview'.worker = Free
    PROVE /\ EngineInv'
          /\ has_clusters(session)' => has_clusters(session) /\ session'.run = session.run
<1>1. CoordinatorInv /\ WorkerInv /\ SoleInv /\ SessionInv /\ HeardInv /\ InTimeInv /\ WholeInv /\ ResultsInv
  BY DEF EngineInv
<1>0. PICK c, f : c = CoordinatorFor(s) /\ f = Free
  OBVIOUS
<1>2. /\ session' = [s EXCEPT !.coordinator = c]
      /\ workers' = [workers EXCEPT ![f] = [NoWorker EXCEPT !.pc = "compute", !.k = k, !.coordinator = c]]
      /\ coordinators' = Kept(coordinators) /\ CanStart
  BY <1>0 DEF KickOff, WithCoordinator
<1>3. f \in Workers /\ workers[f] = NoWorker
  BY <1>0, <1>1, <1>2, FreeIsFree
<1>4. /\ workers' = [v \in Workers |-> workers'[v]]
      /\ \A v \in Workers \ {f} : workers'[v] = workers[v]
      /\ workers'[f] = [pc |-> "compute", request |-> FALSE, coordinator |-> c, k |-> k, config |-> DefaultConfig, out |-> NoRun]
  BY <1>1, <1>2, <1>3 DEF WorkerInv, NoWorker
<1>5. \/ s = [coordinator |-> session.coordinator, run |-> session.run]
      \/ s = [coordinator |-> 0, run |-> NoRun]
  <2>1. CASE s = session
    BY <1>1, <2>1 DEF SessionInv
  <2>2. CASE s = Invalidated(session)
    <3>1. session = [coordinator |-> session.coordinator, run |-> session.run]
      BY <1>1 DEF SessionInv
    <3> QED
      BY <2>2, <3>1, InvalidatedIs
  <2> QED
    BY <2>1, <2>2
<1>6. s.coordinator \in {0} \cup Coordinators
  BY <1>1, <1>5 DEF SessionInv
<1>7. session' = [coordinator |-> c, run |-> s.run]
  BY <1>2, <1>5
<1>8. /\ Valid(s) => c = s.coordinator /\ Fitted(coordinators, s.coordinator)
      /\ ~Valid(s) => ~Refers(c) /\ ~Fitted(coordinators, c)
      /\ c \in Coordinators /\ c # 0
  BY <1>0, <1>1, <1>6, CoordinatorIs
<1>9. Fitted(coordinators, c) => c = session.coordinator
  BY <1>5, <1>8 DEF Fitted, Valid
<1>10. f \in Workers /\ overview'.worker = f
  BY <1>0, <1>3
<1>11. IsWorker(workers'[f])
  BY <1>4, <1>8 DEF IsWorker
<1>12. KeptInv
  BY <1>2, KeptIs
<1>13. CoordinatorInv' /\ WorkerInv' /\ SoleInv' /\ RequestInv'
       /\ \A x \in Coordinators : Refers(x)' => coordinators'[x] = coordinators[x]
  <2>1. ~Fitted(coordinators, c) => \A u \in Workers \ {f} : workers'[u].coordinator # c
    BY <1>4, <1>8, <1>9 DEF Refers
  <2>2. workers'[f].pc = "compute" /\ ~workers'[f].request /\ workers'[f].coordinator = c
    BY <1>4
  <2> QED
    BY <1>4, <1>11, <1>12, <2>1, <2>2, WorkersKept
<1>14. /\ coordinators'[c] = coordinators[c] /\ (Fitted(coordinators', c) <=> Fitted(coordinators, c))
       /\ session'.coordinator = c /\ session'.run = s.run
  <2>1. Refers(c)'
    BY <1>7 DEF Refers
  <2>2. coordinators'[c] = coordinators[c]
    BY <1>8, <1>13, <2>1
  <2> QED
    BY <1>7, <2>2 DEF Fitted
<1>15. has_clusters(session)' => s = session /\ has_clusters(session)
  BY <1>5, <1>14, <1>1 DEF has_clusters, SessionInv
<1>16. ResultsInv' /\ SessionInv'
  BY <1>1, <1>7, <1>8, <1>9, <1>14, <1>15 DEF ResultsInv, SessionInv
<1>17. workers'[f].coordinator = c /\ workers'[f].pc # "none"
  BY <1>4
<1>18. HeardInv'
  BY <1>1, <1>9, <1>10, <1>14, <1>17 DEF HeardInv, SessionInv
<1>19. InTimeInv'
  <2> SUFFICES ASSUME ~late
               PROVE /\ has_clusters(session)' =>
                          /\ Fitted(coordinators', c)
                          /\ session'.run.run = coordinators'[c].run
                          /\ session'.run.population = coordinators'[c].population
                     /\ session'.coordinator = workers'[f].coordinator
    BY <1>10, <1>14 DEF InTimeInv
  <2>1. ASSUME has_clusters(session)'
        PROVE  /\ Fitted(coordinators', c)
               /\ session'.run.run = coordinators'[c].run
               /\ session'.run.population = coordinators'[c].population
    <3>1. s = session /\ Fitted(coordinators, session.coordinator) /\ has_clusters(s)
          /\ session.run.run = coordinators[session.coordinator].run
          /\ session.run.population = coordinators[session.coordinator].population
      BY <1>1, <1>15, <2>1 DEF InTimeInv
    <3>2. Valid(s)
      BY <3>1 DEF Valid, Fitted
    <3> QED
      BY <1>8, <1>14, <3>1, <3>2
  <2> QED
    BY <1>14, <1>17, <2>1
<1>20. WholeInv'
  BY <1>1, <1>9, <1>10, <1>14, <1>17 DEF WholeInv
<1> QED
  BY <1>13, <1>14, <1>15, <1>16, <1>18, <1>19, <1>20 DEF EngineInv

\* Committing what the awaited worker found keeps the session and its coordinator together.
LEMMA RenderKeeps ==
    ASSUME EngineInv, NEW w \in Workers, Render(w)
    PROVE /\ EngineInv'
          /\ session'.run = workers[w].out /\ has_clusters(session)'
<1>1. CoordinatorInv /\ WorkerInv /\ SoleInv /\ SessionInv /\ HeardInv /\ InTimeInv /\ WholeInv /\ ResultsInv
  BY DEF EngineInv
<1>0. PICK s, c, a, r : s = Committed(w) /\ c = CoordinatorFor(s) /\ r = workers[w].out
                        /\ a = IF workers[w].request THEN workers[w].coordinator ELSE session.coordinator
  OBVIOUS
<1>2. /\ session' = [s EXCEPT !.coordinator = c] /\ s = [coordinator |-> a, run |-> r]
      /\ workers' = [workers EXCEPT ![w] = NoWorker] /\ coordinators' = Kept(coordinators)
      /\ overview'.worker = 0 /\ results' = results /\ late' = late
      /\ overview.worker = w /\ workers[w].pc = "done"
  BY <1>0 DEF Render, Done, Stale, WithCoordinator, Committed
<1>3. session' = [coordinator |-> c, run |-> r]
  BY <1>2
<1>4. /\ IsRun(r) /\ Fitted(coordinators, workers[w].coordinator) /\ workers[w].coordinator \in {0} \cup Coordinators /\ w # 0
      /\ r.run = coordinators[workers[w].coordinator].run
      /\ r.population = coordinators[workers[w].coordinator].population
      /\ coordinators[workers[w].coordinator].run = results.run
  <2>1. w # 0
    BY SessionAssumption DEF Workers
  <2>2. IsRun(r) /\ Fitted(coordinators, workers[w].coordinator)
        /\ r.run = coordinators[workers[w].coordinator].run
        /\ r.population = coordinators[workers[w].coordinator].population
    BY <1>0, <1>1, <1>2 DEF WorkerInv
  <2>3. workers[w].coordinator \in {0} \cup Coordinators
    BY <1>1 DEF WorkerInv, IsWorker
  <2>4. coordinators[workers[w].coordinator].run = results.run
    BY <1>1, <1>2, <2>1, <2>2 DEF HeardInv
  <2> QED
    BY <2>1, <2>2, <2>3, <2>4
<1>5. r # NoRun /\ has_clusters(s) /\ a \in {0} \cup Coordinators
  BY <1>0, <1>1, <1>2, <1>4, NoRunIsNoRun DEF has_clusters, SessionInv
<1>6. /\ Valid(s) => c = a /\ Fitted(coordinators, a)
      /\ ~Valid(s) => ~Refers(c) /\ ~Fitted(coordinators, c)
      /\ c \in Coordinators /\ c # 0
  BY <1>0, <1>1, <1>2, <1>5, CoordinatorIs
<1>7. Fitted(coordinators, c) => c = a
  BY <1>6
<1>8. ~late => a = workers[w].coordinator
  BY <1>0, <1>1, <1>2, <1>4 DEF InTimeInv, Fitted
<1>9. ~late => c = workers[w].coordinator
  BY <1>2, <1>4, <1>5, <1>6, <1>8 DEF Valid, Fitted
<1>10. /\ workers' = [v \in Workers |-> workers'[v]]
       /\ \A v \in Workers \ {w} : workers'[v] = workers[v]
       /\ workers'[w] = NoWorker
  BY <1>1, <1>2 DEF WorkerInv
<1>11. IsWorker(workers'[w]) /\ workers'[w].pc = "none" /\ ~workers'[w].request /\ workers'[w].coordinator = 0
  BY <1>10, ConfigsAsk DEF IsWorker, NoWorker, Configs
<1>12. KeptInv
  BY <1>2, KeptIs
<1>13. CoordinatorInv' /\ WorkerInv' /\ SoleInv' /\ RequestInv'
       /\ \A x \in Coordinators : Refers(x)' => coordinators'[x] = coordinators[x]
  BY <1>2, <1>10, <1>11, <1>12, WorkersKept
<1>14. /\ coordinators'[c] = coordinators[c] /\ (Fitted(coordinators', c) <=> Fitted(coordinators, c))
       /\ session'.coordinator = c /\ session'.run = r
  <2>1. Refers(c)'
    BY <1>3 DEF Refers
  <2>2. coordinators'[c] = coordinators[c]
    BY <1>6, <1>13, <2>1
  <2> QED
    BY <1>3, <2>2 DEF Fitted
<1>15. Fitted(coordinators, c) => coordinators[c].run = results.run
  BY <1>0, <1>1, <1>4, <1>7 DEF SessionInv
<1>16. ResultsInv' /\ SessionInv' /\ has_clusters(session)'
  BY <1>1, <1>2, <1>3, <1>4, <1>5, <1>6, <1>14, <1>15 DEF ResultsInv, SessionInv, has_clusters
<1>17. HeardInv' /\ InTimeInv'
  BY <1>2, <1>4, <1>9, <1>14 DEF HeardInv, InTimeInv
<1>18. WholeInv'
  <2>1. ~late /\ results.going = "no" => coordinators[workers[w].coordinator].population = results.count
    BY <1>1, <1>2, <1>4 DEF WholeInv, Fitted
  <2> QED
    BY <1>2, <1>9, <1>14, <2>1 DEF WholeInv
<1> QED
  BY <1>0, <1>13, <1>14, <1>16, <1>17, <1>18 DEF EngineInv

\* What the session and the worker that is waited for refer to stays as it was.
LEMMA RestKept ==
    ASSUME WorkerInv, SessionInv, HeardInv, InTimeInv, WholeInv, WorkerInv',
           results' = results, late' = late, session' = session,
           \A x \in Coordinators : Refers(x)' => coordinators'[x] = coordinators[x],
           \/ overview'.worker = 0
           \/ overview'.worker = overview.worker /\ workers'[overview.worker] = workers[overview.worker]
    PROVE SessionInv' /\ HeardInv' /\ InTimeInv' /\ WholeInv'
<1>0. PICK c : c = session.coordinator
  OBVIOUS
<1>1. c \in {0} \cup Coordinators /\ session'.coordinator = c
  BY <1>0 DEF SessionInv
<1>2. c # 0 => coordinators'[c] = coordinators[c]
  <2>1. Refers(c)'
    BY <1>1 DEF Refers
  <2> QED
    BY <1>1, <2>1
<1>3. Fitted(coordinators', c) <=> Fitted(coordinators, c)
  BY <1>2 DEF Fitted
<1>4. Fitted(coordinators, c) => coordinators'[c] = coordinators[c]
  BY <1>2 DEF Fitted
<1>5. SessionInv'
  BY <1>0, <1>1, <1>3, <1>4 DEF SessionInv, has_clusters
<1>6. CASE overview'.worker = 0
  <2>1. HeardInv'
    BY <1>6 DEF HeardInv
  <2>2. InTimeInv' /\ WholeInv'
    BY <1>0, <1>3, <1>4, <1>6 DEF InTimeInv, WholeInv, has_clusters
  <2> QED
    BY <1>5, <2>1, <2>2
<1>7. CASE overview'.worker # 0
  <2>0. PICK h, d : h = overview.worker /\ d = workers[h].coordinator
    OBVIOUS
  <2>1. h \in Workers /\ workers'[h] = workers[h] /\ overview'.worker = h /\ h # 0
    BY <1>7, <2>0 DEF HeardInv
  <2>2. d \in {0} \cup Coordinators
    BY <2>0, <2>1 DEF WorkerInv, IsWorker
  <2>3. d # 0 => coordinators'[d] = coordinators[d]
    <3>1. Refers(d)'
      BY <2>0, <2>1 DEF Refers
    <3> QED
      BY <2>2, <3>1
  <2>4. (Fitted(coordinators', d) <=> Fitted(coordinators, d)) /\ (Fitted(coordinators, d) => coordinators'[d] = coordinators[d])
    BY <2>3 DEF Fitted
  <2>5. HeardInv'
    BY <2>0, <2>1, <2>4 DEF HeardInv
  <2>6. InTimeInv'
    BY <1>0, <1>3, <1>4, <2>0, <2>1 DEF InTimeInv, has_clusters
  <2>7. WholeInv'
    BY <1>0, <1>3, <1>4, <2>0, <2>1, <2>4 DEF WholeInv
  <2> QED
    BY <1>5, <2>5, <2>6, <2>7
<1> QED
  BY <1>6, <1>7

\* A worker that nobody waits for is let go of, or the one that failed.
LEMMA DoneKeeps ==
    ASSUME EngineInv, NEW w \in Workers, Done(w), results' = results, late' = late, session' = session,
           coordinators' = Kept(coordinators),
           overview'.worker = 0 \/ (overview'.worker = overview.worker /\ overview.worker # w)
    PROVE EngineInv'
<1>1. CoordinatorInv /\ WorkerInv /\ SoleInv /\ SessionInv /\ HeardInv /\ InTimeInv /\ WholeInv /\ ResultsInv
  BY DEF EngineInv
<1>2. /\ workers' = [v \in Workers |-> workers'[v]]
      /\ \A v \in Workers \ {w} : workers'[v] = workers[v]
      /\ workers'[w] = NoWorker
  BY <1>1 DEF WorkerInv, Done
<1>3. IsWorker(workers'[w]) /\ workers'[w].pc = "none" /\ ~workers'[w].request /\ workers'[w].coordinator = 0
  BY <1>2, ConfigsAsk DEF IsWorker, NoWorker, Configs
<1>4. KeptInv
  BY KeptIs
<1>5. CoordinatorInv' /\ WorkerInv' /\ SoleInv' /\ RequestInv'
      /\ \A x \in Coordinators : Refers(x)' => coordinators'[x] = coordinators[x]
  BY <1>2, <1>3, <1>4, WorkersKept
<1> QED
  <2>1. \/ overview'.worker = 0
        \/ overview'.worker = overview.worker /\ workers'[overview.worker] = workers[overview.worker]
    BY <1>1, <1>2 DEF HeardInv
  <2>2. SessionInv' /\ HeardInv' /\ InTimeInv' /\ WholeInv' /\ ResultsInv'
    BY <1>1, <1>5, <2>1, RestKept DEF ResultsInv
  <2> QED
    BY <1>5, <2>2 DEF EngineInv

-----------------------------------------------------------------------------
(* The run *)

\* A new run invalidates whatever was clustered.
LEMMA GenerateKeeps ==
    ASSUME EngineInv, Generate, overview.worker = 0
    PROVE EngineInv'
<1>1. CoordinatorInv /\ WorkerInv /\ SessionInv /\ ResultsInv
  BY DEF EngineInv
<1>2. /\ results' = [run |-> results.run + 1, count |-> 0, going |-> "yes"] /\ ~late'
      /\ session' = Invalidated(session) /\ workers' = workers /\ coordinators' = Kept(coordinators)
      /\ overview' = overview /\ results.run < NumRuns
  BY DEF Generate, viewVars
<1>3. NumRuns \in Nat /\ MaxCount \in Nat
  BY SessionAssumption DEF NumRuns
<1>4. ResultsInv'
  BY <1>1, <1>2, <1>3 DEF ResultsInv
<1>5. \A c : IsFitted(c, results) => IsFitted(c, results')
  BY <1>1, <1>2, <1>3 DEF IsFitted, ResultsInv
<1>6. session' = [coordinator |-> 0, run |-> NoRun]
  BY <1>1, <1>2, InvalidatedIs DEF SessionInv
<1>7. KeptInv
  BY <1>2, KeptIs
<1>8. CoordinatorInv' /\ WorkerInv' /\ SoleInv' /\ RequestInv'
  BY <1>1, <1>2, <1>5, <1>7, WorkersKept DEF WorkerInv
<1>9. ~Fitted(coordinators', session'.coordinator) /\ ~has_clusters(session)' /\ session'.coordinator = 0
  BY <1>6 DEF Fitted, has_clusters
<1>10. SessionInv' /\ HeardInv' /\ InTimeInv' /\ WholeInv'
  BY <1>2, <1>6, <1>9 DEF SessionInv, HeardInv, InTimeInv, WholeInv
<1> QED
  BY <1>4, <1>8, <1>10 DEF EngineInv

\* The end of a run invalidates too; who is computing then is late.
LEMMA FinishKeeps ==
    ASSUME EngineInv, Finish
    PROVE EngineInv'
<1>1. CoordinatorInv /\ WorkerInv /\ SessionInv /\ HeardInv /\ ResultsInv
  BY DEF EngineInv
<1>2. /\ results' = [results EXCEPT !.going = "no"] /\ late' = (late \/ overview.worker # 0)
      /\ session' = Invalidated(session) /\ workers' = workers /\ coordinators' = Kept(coordinators)
      /\ overview' = overview
  BY DEF Finish, viewVars
<1>3. ResultsInv' /\ results'.run = results.run /\ results'.count = results.count
  BY <1>1, <1>2 DEF ResultsInv
<1>4. \A c : IsFitted(c, results) => IsFitted(c, results')
  BY <1>3 DEF IsFitted
<1>5. session' = [coordinator |-> 0, run |-> NoRun]
  BY <1>1, <1>2, InvalidatedIs DEF SessionInv
<1>6. KeptInv
  BY <1>2, KeptIs
<1>7. CoordinatorInv' /\ WorkerInv' /\ SoleInv' /\ RequestInv'
      /\ \A x \in Coordinators : Refers(x)' => coordinators'[x] = coordinators[x]
  BY <1>1, <1>2, <1>4, <1>6, WorkersKept DEF WorkerInv
<1>8. ~Fitted(coordinators', session'.coordinator) /\ ~has_clusters(session)' /\ session'.coordinator = 0
  BY <1>5 DEF Fitted, has_clusters
<1>9. SessionInv'
  BY <1>5, <1>8 DEF SessionInv
<1>10. HeardInv'
  <2>1. CASE overview.worker = 0
    BY <1>2, <2>1 DEF HeardInv
  <2>2. CASE overview.worker # 0
    <3>0. PICK h, d : h = overview.worker /\ d = workers[h].coordinator
      OBVIOUS
    <3>1. h \in Workers /\ workers[h].pc # "none" /\ (Fitted(coordinators, d) => coordinators[d].run = results.run)
      BY <1>1, <2>2, <3>0 DEF HeardInv
    <3>2. d \in {0} \cup Coordinators
      BY <1>1, <3>0, <3>1 DEF WorkerInv, IsWorker
    <3>3. d # 0 => coordinators'[d] = coordinators[d]
      <4>1. Refers(d)'
        BY <1>2, <3>0, <3>1 DEF Refers
      <4> QED
        BY <1>7, <3>2, <4>1
    <3> QED
      BY <1>2, <1>3, <3>0, <3>1, <3>3 DEF HeardInv, Fitted
  <2> QED
    BY <2>1, <2>2
<1>11. InTimeInv' /\ WholeInv'
  BY <1>2, <1>8 DEF InTimeInv, WholeInv
<1> QED
  BY <1>3, <1>7, <1>9, <1>10, <1>11 DEF EngineInv

\* The run goes on: there are more results, or it was cancelled.
LEMMA GoesOnKeeps ==
    ASSUME EngineInv, ResultsInv', results'.run = results.run, results'.count >= results.count,
           results'.going # "no", UNCHANGED <<sessionVars, late, overview>>
    PROVE EngineInv'
<1>1. CoordinatorInv /\ WorkerInv /\ SoleInv /\ RequestInv /\ SessionInv /\ HeardInv /\ InTimeInv /\ ResultsInv
  BY DEF EngineInv
<1>2. session' = session /\ workers' = workers /\ coordinators' = coordinators /\ late' = late /\ overview' = overview
  BY DEF sessionVars
<1>3. \A c : IsFitted(c, results) => IsFitted(c, results')
  <2> SUFFICES ASSUME NEW c, IsFitted(c, results)
               PROVE IsFitted(c, results')
    OBVIOUS
  <2>1. c.population \in Nat /\ results.count \in Nat /\ results'.count \in Nat
    BY <1>1, SessionAssumption DEF IsFitted, ResultsInv
  <2> QED
    BY <2>1 DEF IsFitted
<1>4. CoordinatorInv'
  BY <1>1, <1>2, <1>3 DEF CoordinatorInv, Refers
<1>5. WorkerInv' /\ SoleInv' /\ RequestInv'
  BY <1>1, <1>2 DEF WorkerInv, SoleInv, RequestInv
<1>6. SessionInv' /\ HeardInv' /\ InTimeInv' /\ WholeInv'
  BY <1>1, <1>2 DEF SessionInv, HeardInv, InTimeInv, WholeInv, has_clusters
<1> QED
  BY <1>4, <1>5, <1>6 DEF EngineInv

\* More results make no sample wrong, only incomplete.
LEMMA FindResultKeeps ==
    ASSUME EngineInv, FindResult
    PROVE EngineInv'
<1>1. ResultsInv
  BY DEF EngineInv
<1> DEFINE more == {n \in Counts[results.run] : n > results.count}
<1>2. more # {} /\ results' = [results EXCEPT !.count = Min(more)] /\ results.going = "yes"
      /\ UNCHANGED <<sessionVars, late, overview>>
  BY DEF FindResult, viewVars
<1>3. results.run \in 1 .. Len(Counts) /\ Len(Counts) \in Nat /\ MaxCount \in Nat
  BY <1>1, <1>2, SessionAssumption DEF ResultsInv, NumRuns
<1>4. Counts[results.run] \subseteq 1 .. MaxCount
  BY <1>3, SessionAssumption
<1>5. more \subseteq 1 .. MaxCount /\ more \subseteq Nat /\ \A n \in more : n > results.count
  BY <1>3, <1>4
<1>6. Min(more) \in more
  <2> HIDE DEF more
  <2> QED
    BY <1>2, <1>5, LeastIsMember
<1> HIDE DEF more
<1>7. PICK n \in 1 .. MaxCount : n = Min(more) /\ n > results.count
  BY <1>5, <1>6
<1>8. results' = [results EXCEPT !.count = n]
  BY <1>2, <1>7
<1>9. ResultsInv' /\ results'.run = results.run /\ results'.count >= results.count /\ results'.going = "yes"
  BY <1>1, <1>2, <1>3, <1>7, <1>8 DEF ResultsInv
<1> QED
  BY <1>2, <1>9, GoesOnKeeps

\* A cancelled run is still heard of until it ends.
LEMMA CancelKeeps ==
    ASSUME EngineInv, Cancel
    PROVE EngineInv'
<1>1. ResultsInv /\ results' = [results EXCEPT !.going = "cancelled"] /\ results.going = "yes"
      /\ UNCHANGED <<sessionVars, late, overview>>
  BY DEF EngineInv, Cancel, viewVars
<1>2. ResultsInv' /\ results'.run = results.run /\ results'.count >= results.count /\ results'.going = "cancelled"
  BY <1>1, SessionAssumption DEF ResultsInv
<1> QED
  BY <1>1, <1>2, GoesOnKeeps

-----------------------------------------------------------------------------
(* The way back *)

Leads(name, next) ==
    \/ name = "input" /\ next = "output"
    \/ name = "output" /\ next = "clusters"
    \/ name = "clusters" /\ next \in {"detail", "compare"}
    \/ name = "compare" /\ next = "overlay"

\* Going to a screen that the current one leads to.
LEMMA ShowKeepsRoute ==
    ASSUME RouteInv, NEW name, Show(name), Leads(current, name)
    PROVE RouteInv' /\ current' = name
<1>1. Screens = {"input", "output", "clusters", "detail", "compare", "overlay"}
  BY SessionAssumption
<1>2. current' = name /\ current # name /\ history' = Pushed(history, current)
  BY DEF Show, Leads
<1>3. history \in Seq(Screens) /\ current \in Screens /\ name \in Screens /\ Len(history) \in Nat
  BY <1>1 DEF RouteInv, Leads
<1>4. history' = Append(history, current)
  BY <1>2, <1>3 DEF RouteInv, Pushed, Leads
<1>5. /\ history' \in Seq(Screens) /\ Len(history') = Len(history) + 1
      /\ \A i \in 1 .. Len(history) : history'[i] = history[i]
      /\ history'[Len(history) + 1] = current
  BY <1>3, <1>4
<1>6. CASE current = "input"
  BY <1>2, <1>3, <1>5, <1>6 DEF RouteInv, Leads
<1>7. CASE current = "output"
  <2>1. Len(history) = 1 /\ history[1] = "input"
    <3>1. Len(history) = 1
      BY <1>7 DEF RouteInv
    <3> QED
      BY <3>1 DEF RouteInv
  <2>2. Len(history') = 2 /\ history'[1] = "input" /\ history'[2] = "output"
    BY <1>5, <1>7, <2>1
  <2>3. name = "clusters"
    BY <1>7 DEF Leads
  <2> QED
    BY <1>1, <1>2, <1>3, <1>5, <2>1, <2>2, <2>3 DEF RouteInv
<1>8. CASE current = "clusters"
  <2>1. Len(history) = 2 /\ history[1] = "input" /\ history[2] = "output"
    <3>1. Len(history) = 2
      BY <1>8 DEF RouteInv
    <3> QED
      BY <3>1 DEF RouteInv
  <2>2. Len(history') = 3 /\ history'[1] = "input" /\ history'[2] = "output" /\ history'[3] = "clusters"
    BY <1>5, <1>8, <2>1
  <2>3. name \in {"detail", "compare"}
    BY <1>8 DEF Leads
  <2> QED
    BY <1>1, <1>2, <1>3, <1>5, <2>1, <2>2, <2>3 DEF RouteInv
<1>9. CASE current = "compare"
  <2>1. Len(history) = 3 /\ history[1] = "input" /\ history[2] = "output" /\ history[3] = "clusters"
    <3>1. Len(history) = 3
      BY <1>9 DEF RouteInv
    <3> QED
      BY <3>1 DEF RouteInv
  <2>2. Len(history') = 4 /\ history'[1] = "input" /\ history'[2] = "output" /\ history'[3] = "clusters" /\ history'[4] = "compare"
    BY <1>5, <1>9, <2>1
  <2>3. name = "overlay"
    BY <1>9 DEF Leads
  <2> QED
    BY <1>1, <1>2, <1>3, <1>5, <2>1, <2>2, <2>3 DEF RouteInv
<1> QED
  BY <1>6, <1>7, <1>8, <1>9 DEF Leads

\* Going back leads where the user came from.
LEMMA BackKeepsRoute ==
    ASSUME RouteInv, Back
    PROVE /\ RouteInv' /\ current # "input"
          /\ current = "output" => current' = "input"
          /\ current = "clusters" => current' = "output"
          /\ current \in {"detail", "compare"} => current' = "clusters"
          /\ current = "overlay" => current' = "compare"
<1>1. /\ Screens = {"input", "output", "clusters", "detail", "compare", "overlay"}
      /\ current \in Screens /\ history \in Seq(Screens) /\ Len(history) \in Nat
  BY SessionAssumption DEF RouteInv
<1>2. history # <<>> /\ current' = history[Len(history)] /\ history' = SubSeq(history, 1, Len(history) - 1)
  BY DEF Back, CanGoBack
<1>3. /\ Len(history) >= 1 /\ history' \in Seq(Screens) /\ Len(history') = Len(history) - 1
      /\ \A i \in 1 .. Len(history) - 1 : history'[i] = history[i]
  <2>1. PICK n \in Nat : n = Len(history) - 1 /\ n + 1 = Len(history)
    BY <1>1, <1>2
  <2>2. history' = SubSeq(history, 1, n)
    BY <1>2, <2>1
  <2>3. history' \in Seq(Screens) /\ Len(history') = n /\ \A i \in 1 .. n : history'[i] = history[i]
    BY <1>1, <2>1, <2>2
  <2> QED
    BY <2>1, <2>3
<1>4. current # "input"
  BY <1>1, <1>3 DEF RouteInv
<1>5. CASE current = "output"
  BY <1>1, <1>2, <1>3, <1>5 DEF RouteInv
<1>6. CASE current = "clusters"
  <2>1. Len(history) = 2 /\ history[1] = "input" /\ history[2] = "output"
    BY <1>1, <1>3, <1>6 DEF RouteInv
  <2>2. Len(history') = 1 /\ history'[1] = "input" /\ current' = "output"
    BY <1>2, <1>3, <2>1
  <2> QED
    BY <1>1, <1>3, <1>6, <2>2 DEF RouteInv
<1>7. CASE current \in {"detail", "compare"}
  <2>1. Len(history) = 3 /\ history[1] = "input" /\ history[2] = "output" /\ history[3] = "clusters"
    <3>1. Len(history) = 3
      BY <1>7 DEF RouteInv
    <3> QED
      BY <3>1 DEF RouteInv
  <2>2. Len(history') = 2 /\ history'[1] = "input" /\ history'[2] = "output" /\ current' = "clusters"
    BY <1>2, <1>3, <2>1
  <2> QED
    BY <1>1, <1>3, <1>7, <2>2 DEF RouteInv
<1>8. CASE current = "overlay"
  <2>1. Len(history) = 4 /\ history[1] = "input" /\ history[2] = "output" /\ history[3] = "clusters" /\ history[4] = "compare"
    <3>1. Len(history) = 4
      BY <1>8 DEF RouteInv
    <3> QED
      BY <3>1 DEF RouteInv
  <2>2. Len(history') = 3 /\ history'[1] = "input" /\ history'[2] = "output" /\ history'[3] = "clusters" /\ current' = "compare"
    BY <1>2, <1>3, <2>1
  <2> QED
    BY <1>1, <1>3, <1>8, <2>2 DEF RouteInv
<1> QED
  BY <1>1, <1>4, <1>5, <1>6, <1>7, <1>8

-----------------------------------------------------------------------------
(* The overview *)

\* What is left of a selection without one of its families.
LEMMA RemovedIs ==
    ASSUME NEW s \in Seq(Nat), NEW f \in Nat
    PROVE /\ RemoveFirst(s, f) \in Seq(Nat) /\ Len(RemoveFirst(s, f)) <= Len(s)
          /\ Range(RemoveFirst(s, f)) \subseteq Range(s)
<1> DEFINE I == {i \in 1 .. Len(s) : s[i] = f}
           at == Min(I)
<1>1. CASE ~\E i \in 1 .. Len(s) : s[i] = f
  <2>1. RemoveFirst(s, f) = s
    BY <1>1 DEF RemoveFirst
  <2> QED
    BY <2>1
<1>2. CASE \E i \in 1 .. Len(s) : s[i] = f
  <2>1. at \in 1 .. Len(s)
    <3>1. I \subseteq Nat /\ I # {} /\ I \subseteq 1 .. Len(s)
      BY <1>2
    <3> HIDE DEF I
    <3> QED
      BY <3>1, LeastIsMember
  <2>2. RemoveFirst(s, f) = SubSeq(s, 1, at - 1) \o SubSeq(s, at + 1, Len(s))
    BY <1>2 DEF RemoveFirst, RemoveAt, SelectInSeq
  <2> HIDE DEF at, I
  <2>3. PICK a, b : a = SubSeq(s, 1, at - 1) /\ b = SubSeq(s, at + 1, Len(s))
    OBVIOUS
  <2>4. /\ a \in Seq(Nat) /\ Len(a) = at - 1 /\ \A i \in 1 .. Len(a) : a[i] = s[i]
        /\ b \in Seq(Nat) /\ Len(b) = Len(s) - at /\ \A i \in 1 .. Len(b) : b[i] = s[at + i]
    BY <2>1, <2>3
  <2>5. PICK c : c = a \o b
    OBVIOUS
  <2>6. /\ c \in Seq(Nat) /\ Len(c) = Len(s) - 1
        /\ \A i \in 1 .. Len(c) : c[i] = IF i <= Len(a) THEN a[i] ELSE b[i - Len(a)]
    BY <2>1, <2>4, <2>5
  <2>7. \A i \in 1 .. Len(c) : \E j \in 1 .. Len(s) : c[i] = s[j]
    <3> SUFFICES ASSUME NEW i \in 1 .. Len(c)
                 PROVE \E j \in 1 .. Len(s) : c[i] = s[j]
      OBVIOUS
    <3>1. CASE i <= Len(a)
      <4>1. i \in 1 .. Len(a) /\ i \in 1 .. Len(s)
        BY <2>1, <2>4, <2>6, <3>1
      <4>2. c[i] = s[i]
        BY <2>4, <2>6, <3>1, <4>1
      <4> QED
        BY <4>1, <4>2
    <3>2. CASE ~(i <= Len(a))
      <4>1. i - Len(a) \in 1 .. Len(b) /\ at + (i - Len(a)) \in 1 .. Len(s)
        BY <2>1, <2>4, <2>6, <3>2
      <4>2. c[i] = s[at + (i - Len(a))]
        BY <2>4, <2>6, <3>2, <4>1
      <4> QED
        BY <4>1, <4>2
    <3> QED
      BY <3>1, <3>2
  <2>8. Range(c) \subseteq Range(s)
    <3>1. DOMAIN c = 1 .. Len(c) /\ DOMAIN s = 1 .. Len(s)
      BY <2>6
    <3> QED
      BY <2>7, <3>1, Zenon DEF Range
  <2> QED
    BY <2>2, <2>3, <2>5, <2>6, <2>8
<1> QED
  BY <1>1, <1>2

\* What is selected and what is checked once the card f was clicked, before the oldest makes way.
Picked(s, checked, f) == IF f \in checked THEN RemoveFirst(s, f) ELSE Append(s, f)
Marked(checked, f) == IF f \in checked THEN checked \ {f} ELSE checked \cup {f}

\* Two at most are selected, each with a card.
LEMMA PickedIs ==
    ASSUME NEW s \in Seq(Nat), Len(s) <= 2, NEW cards \in Nat, NEW checked, checked \subseteq 1 .. cards,
           NEW f \in 1 .. cards
    PROVE /\ Marked(checked, f) \subseteq 1 .. cards
          /\ Picked(s, checked, f) \in Seq(Nat) /\ Len(Picked(s, checked, f)) <= 3
          /\ Range(s) \subseteq 1 .. cards => Range(Picked(s, checked, f)) \subseteq 1 .. cards
<1>1. Marked(checked, f) \subseteq 1 .. cards
  BY DEF Marked
<1>2. f \in Nat
  OBVIOUS
<1>3. CASE f \in checked
  <2>1. Picked(s, checked, f) = RemoveFirst(s, f)
    BY <1>3 DEF Picked
  <2> QED
    BY <1>1, <1>2, <2>1, RemovedIs
<1>4. CASE f \notin checked
  <2>1. PICK picked : picked = Append(s, f)
    OBVIOUS
  <2>2. picked \in Seq(Nat) /\ Len(picked) = Len(s) + 1
        /\ \A i \in DOMAIN picked : picked[i] = f \/ (i \in DOMAIN s /\ picked[i] = s[i])
    BY <1>2, <2>1
  <2>3. Range(s) \subseteq 1 .. cards => Range(picked) \subseteq 1 .. cards
    BY <2>2 DEF Range
  <2>4. Picked(s, checked, f) = picked
    BY <1>4, <2>1 DEF Picked
  <2> QED
    BY <1>1, <2>2, <2>3, <2>4
<1> QED
  BY <1>3, <1>4

\* The oldest of three makes way.
LEMMA TailIs ==
    ASSUME NEW s \in Seq(Nat), Len(s) <= 3, Len(s) > 2
    PROVE Tail(s) \in Seq(Nat) /\ Len(Tail(s)) <= 2 /\ Range(Tail(s)) \subseteq Range(s)
<1>1. Tail(s) \in Seq(Nat) /\ Len(Tail(s)) = Len(s) - 1
      /\ \A i \in DOMAIN Tail(s) : i + 1 \in DOMAIN s /\ Tail(s)[i] = s[i + 1]
  OBVIOUS
<1> QED
  BY <1>1 DEF Range

\* What the overview becomes.
LEMMA LeftIs ==
    ASSUME NEW o, IsOverview(o)
    PROVE Left(o) =
             [worker |-> 0, busy |-> FALSE, cards |-> o.cards, checked |-> o.checked,
              selection |-> o.selection, enabled |-> o.enabled, since |-> o.since]
<1>1. PICK a, b, c, d, e, f, g :
          o = [worker |-> a, busy |-> b, cards |-> c, checked |-> d,
              selection |-> e, enabled |-> f, since |-> g]
  BY DEF IsOverview
<1>2. o.worker = a /\ o.busy = b /\ o.cards = c /\ o.checked = d /\ o.selection = e /\ o.enabled = f /\ o.since = g
  BY <1>1
<1>3. PICK u : u = [o EXCEPT !.worker = 0]
  OBVIOUS
<1>4. u = [worker |-> 0, busy |-> b, cards |-> c, checked |-> d,
              selection |-> e, enabled |-> f, since |-> g]
  BY <1>1, <1>3
<1>5. PICK v : v = [u EXCEPT !.busy = FALSE]
  OBVIOUS
<1>6. v = [worker |-> 0, busy |-> FALSE, cards |-> c, checked |-> d,
              selection |-> e, enabled |-> f, since |-> g]
  BY <1>4, <1>5
<1>7. Left(o) = v
  BY <1>3, <1>5 DEF Left
<1> QED
  BY <1>2, <1>6, <1>7

KickedOff(o, h, spins) == [o EXCEPT !.worker = h, !.selection = <<>>, !.busy = spins]

\* The fields of the overview that waits for a worker.
LEMMA KickedOffIs ==
    ASSUME NEW o, IsOverview(o), NEW h, NEW spins
    PROVE KickedOff(o, h, spins) =
             [worker |-> h, busy |-> spins, cards |-> o.cards, checked |-> o.checked,
              selection |-> <<>>, enabled |-> o.enabled, since |-> o.since]
<1>1. PICK a, b, c, d, e, f, g :
          o = [worker |-> a, busy |-> b, cards |-> c, checked |-> d,
              selection |-> e, enabled |-> f, since |-> g]
  BY DEF IsOverview
<1>2. o.worker = a /\ o.busy = b /\ o.cards = c /\ o.checked = d /\ o.selection = e /\ o.enabled = f /\ o.since = g
  BY <1>1
<1>3. PICK u : u = [o EXCEPT !.worker = h]
  OBVIOUS
<1>4. u = [worker |-> h, busy |-> b, cards |-> c, checked |-> d,
              selection |-> e, enabled |-> f, since |-> g]
  BY <1>1, <1>3
<1>5. PICK v : v = [u EXCEPT !.selection = <<>>]
  OBVIOUS
<1>6. v = [worker |-> h, busy |-> b, cards |-> c, checked |-> d,
              selection |-> <<>>, enabled |-> f, since |-> g]
  BY <1>4, <1>5
<1>7. PICK w : w = [v EXCEPT !.busy = spins]
  OBVIOUS
<1>8. w = [worker |-> h, busy |-> spins, cards |-> c, checked |-> d,
              selection |-> <<>>, enabled |-> f, since |-> g]
  BY <1>6, <1>7
<1>9. KickedOff(o, h, spins) = w
  BY <1>3, <1>5, <1>7 DEF KickedOff
<1> QED
  BY <1>2, <1>8, <1>9

Toggled(o, sel, chk, on) == [o EXCEPT !.selection = sel, !.checked = chk, !.enabled = on]

\* The fields of the overview after a click on a card.
LEMMA ToggledIs ==
    ASSUME NEW o, IsOverview(o), NEW sel, NEW chk, NEW on
    PROVE Toggled(o, sel, chk, on) =
             [worker |-> o.worker, busy |-> o.busy, cards |-> o.cards, checked |-> chk,
              selection |-> sel, enabled |-> on, since |-> o.since]
<1>1. PICK a, b, c, d, e, f, g :
          o = [worker |-> a, busy |-> b, cards |-> c, checked |-> d,
              selection |-> e, enabled |-> f, since |-> g]
  BY DEF IsOverview
<1>2. o.worker = a /\ o.busy = b /\ o.cards = c /\ o.checked = d /\ o.selection = e /\ o.enabled = f /\ o.since = g
  BY <1>1
<1>3. PICK u : u = [o EXCEPT !.selection = sel]
  OBVIOUS
<1>4. u = [worker |-> a, busy |-> b, cards |-> c, checked |-> d,
              selection |-> sel, enabled |-> f, since |-> g]
  BY <1>1, <1>3
<1>5. PICK v : v = [u EXCEPT !.checked = chk]
  OBVIOUS
<1>6. v = [worker |-> a, busy |-> b, cards |-> c, checked |-> chk,
              selection |-> sel, enabled |-> f, since |-> g]
  BY <1>4, <1>5
<1>7. PICK w : w = [v EXCEPT !.enabled = on]
  OBVIOUS
<1>8. w = [worker |-> a, busy |-> b, cards |-> c, checked |-> chk,
              selection |-> sel, enabled |-> on, since |-> g]
  BY <1>6, <1>7
<1>9. Toggled(o, sel, chk, on) = w
  BY <1>3, <1>5, <1>7 DEF Toggled
<1> QED
  BY <1>2, <1>8, <1>9

Rendered(o, n) == [o EXCEPT !.worker = 0, !.busy = FALSE, !.checked = {}, !.enabled = FALSE, !.cards = n]

\* The fields of the overview with new cards.
LEMMA RenderedIs ==
    ASSUME NEW o, IsOverview(o), NEW n
    PROVE Rendered(o, n) =
             [worker |-> 0, busy |-> FALSE, cards |-> n, checked |-> {},
              selection |-> o.selection, enabled |-> FALSE, since |-> o.since]
<1>1. PICK a, b, c, d, e, f, g :
          o = [worker |-> a, busy |-> b, cards |-> c, checked |-> d,
              selection |-> e, enabled |-> f, since |-> g]
  BY DEF IsOverview
<1>2. o.worker = a /\ o.busy = b /\ o.cards = c /\ o.checked = d /\ o.selection = e /\ o.enabled = f /\ o.since = g
  BY <1>1
<1>3. PICK u : u = [o EXCEPT !.worker = 0]
  OBVIOUS
<1>4. u = [worker |-> 0, busy |-> b, cards |-> c, checked |-> d,
              selection |-> e, enabled |-> f, since |-> g]
  BY <1>1, <1>3
<1>5. PICK v : v = [u EXCEPT !.busy = FALSE]
  OBVIOUS
<1>6. v = [worker |-> 0, busy |-> FALSE, cards |-> c, checked |-> d,
              selection |-> e, enabled |-> f, since |-> g]
  BY <1>4, <1>5
<1>7. PICK w : w = [v EXCEPT !.checked = {}]
  OBVIOUS
<1>8. w = [worker |-> 0, busy |-> FALSE, cards |-> c, checked |-> {},
              selection |-> e, enabled |-> f, since |-> g]
  BY <1>6, <1>7
<1>9. PICK x : x = [w EXCEPT !.enabled = FALSE]
  OBVIOUS
<1>10. x = [worker |-> 0, busy |-> FALSE, cards |-> c, checked |-> {},
              selection |-> e, enabled |-> FALSE, since |-> g]
  BY <1>8, <1>9
<1>11. PICK y : y = [x EXCEPT !.cards = n]
  OBVIOUS
<1>12. y = [worker |-> 0, busy |-> FALSE, cards |-> n, checked |-> {},
              selection |-> e, enabled |-> FALSE, since |-> g]
  BY <1>10, <1>11
<1>13. Rendered(o, n) = y
  BY <1>3, <1>5, <1>7, <1>9, <1>11 DEF Rendered
<1> QED
  BY <1>2, <1>12, <1>13

Cleared(o) == [o EXCEPT !.worker = 0, !.busy = FALSE, !.checked = {}, !.cards = 0]

\* The fields of the overview without cards.
LEMMA ClearedIs ==
    ASSUME NEW o, IsOverview(o)
    PROVE Cleared(o) =
             [worker |-> 0, busy |-> FALSE, cards |-> 0, checked |-> {},
              selection |-> o.selection, enabled |-> o.enabled, since |-> o.since]
<1>1. PICK a, b, c, d, e, f, g :
          o = [worker |-> a, busy |-> b, cards |-> c, checked |-> d,
              selection |-> e, enabled |-> f, since |-> g]
  BY DEF IsOverview
<1>2. o.worker = a /\ o.busy = b /\ o.cards = c /\ o.checked = d /\ o.selection = e /\ o.enabled = f /\ o.since = g
  BY <1>1
<1>3. PICK u : u = [o EXCEPT !.worker = 0]
  OBVIOUS
<1>4. u = [worker |-> 0, busy |-> b, cards |-> c, checked |-> d,
              selection |-> e, enabled |-> f, since |-> g]
  BY <1>1, <1>3
<1>5. PICK v : v = [u EXCEPT !.busy = FALSE]
  OBVIOUS
<1>6. v = [worker |-> 0, busy |-> FALSE, cards |-> c, checked |-> d,
              selection |-> e, enabled |-> f, since |-> g]
  BY <1>4, <1>5
<1>7. PICK w : w = [v EXCEPT !.checked = {}]
  OBVIOUS
<1>8. w = [worker |-> 0, busy |-> FALSE, cards |-> c, checked |-> {},
              selection |-> e, enabled |-> f, since |-> g]
  BY <1>6, <1>7
<1>9. PICK x : x = [w EXCEPT !.cards = 0]
  OBVIOUS
<1>10. x = [worker |-> 0, busy |-> FALSE, cards |-> 0, checked |-> {},
              selection |-> e, enabled |-> f, since |-> g]
  BY <1>8, <1>9
<1>11. Cleared(o) = x
  BY <1>3, <1>5, <1>7, <1>9 DEF Cleared
<1> QED
  BY <1>2, <1>10, <1>11

Seen(o, done) == [o EXCEPT !.since = done]

\* The fields of the overview that is entered.
LEMMA SeenIs ==
    ASSUME NEW o, IsOverview(o), NEW done
    PROVE Seen(o, done) =
             [worker |-> o.worker, busy |-> o.busy, cards |-> o.cards, checked |-> o.checked,
              selection |-> o.selection, enabled |-> o.enabled, since |-> done]
<1>1. PICK a, b, c, d, e, f, g :
          o = [worker |-> a, busy |-> b, cards |-> c, checked |-> d,
              selection |-> e, enabled |-> f, since |-> g]
  BY DEF IsOverview
<1>2. o.worker = a /\ o.busy = b /\ o.cards = c /\ o.checked = d /\ o.selection = e /\ o.enabled = f /\ o.since = g
  BY <1>1
<1>3. PICK u : u = [o EXCEPT !.since = done]
  OBVIOUS
<1>4. u = [worker |-> a, busy |-> b, cards |-> c, checked |-> d,
              selection |-> e, enabled |-> f, since |-> done]
  BY <1>1, <1>3
<1>5. Seen(o, done) = u
  BY <1>3 DEF Seen
<1> QED
  BY <1>2, <1>4, <1>5

-----------------------------------------------------------------------------
(* The steps on the screens *)

\* The number of families that are shown is one that can be asked for.
LEMMA ActiveIsAsked ==
    ASSUME SessionInv
    PROVE get_active_k(session) \in AskedKs
<1>1. CASE has_clusters(session)
  <2>1. /\ session.run.families \in Seq([members : Seq(DOMAIN Sampled[session.run.population]),
                                         representative : DOMAIN Sampled[session.run.population], estimate : Nat])
        /\ Len(session.run.families) <= MaxCount
    BY <1>1 DEF SessionInv, IsRun
  <2>2. Len(session.run.families) \in Nat
    BY <2>1
  <2>3. Len(session.run.families) = 0 \/ Len(session.run.families) \in 1 .. MaxCount
    BY <2>1, <2>2, SessionAssumption
  <2> QED
    BY <2>3 DEF get_active_k, AskedKs
<1>2. CASE ~has_clusters(session)
  <2>1. session.run.families = <<>>
    BY <1>2 DEF has_clusters, NoRun
  <2>2. get_active_k(session) = 0
    BY <2>1 DEF get_active_k
  <2> QED
    BY <2>2 DEF AskedKs
<1> QED
  BY <1>1, <1>2

\* A worker that is started for the overview.
LEMMA KickOffViews ==
    ASSUME EngineInv, RouteInv', VisitInv, NEW s, s = session \/ s = Invalidated(session), NEW k \in AskedKs,
           NEW o, IsOverview(o), o.cards = overview.cards, has_clusters(session) => o.cards <= Len(session.run.families),
           o.since => results.going = "no",
           KickOff(s, k, o), results' = results, late' = late, visible' = visible, visible \/ current = "input",
           current' = "clusters", current # "input",
           \/ detail' = NoFamily
           \/ DetailInv /\ detail' = detail
    PROVE EngineInv' /\ ViewInv'
<1>1. overview' = KickedOff(o, Free, o.busy \/ ~Valid(s)) /\ ~eager'
  BY DEF KickOff, KickedOff
<1>2. PICK f, b : f = Free /\ b = (o.busy \/ ~Valid(s)) /\ b \in BOOLEAN
  OBVIOUS
<1>3. overview' = [worker |-> f, busy |-> b, cards |-> o.cards, checked |-> o.checked, selection |-> <<>>,
                   enabled |-> o.enabled, since |-> o.since]
  BY <1>1, <1>2, KickedOffIs
<1>4. overview'.worker = Free
  BY <1>2, <1>3
<1>5. EngineInv' /\ (has_clusters(session)' => has_clusters(session) /\ session'.run = session.run)
  BY <1>4, KickOffKeeps
<1>6. IsOverview(overview')
  BY <1>2, <1>3 DEF IsOverview
<1>7. Range(overview'.selection) \subseteq 1 .. overview'.cards
  BY <1>3 DEF Range
<1>8. OverviewInv'
  BY <1>3, <1>5, <1>6, <1>7 DEF OverviewInv
<1>9. VisitInv'
  BY <1>3 DEF VisitInv
<1>10. CompareInv'
  BY DEF CompareInv
<1>11. DetailInv'
  <2>1. CASE detail' = NoFamily
    BY <2>1, SessionAssumption DEF DetailInv, NoFamily
  <2>2. CASE DetailInv /\ detail' = detail
    BY <2>2 DEF DetailInv
  <2> QED
    BY <2>1, <2>2
<1> QED
  BY <1>5, <1>8, <1>9, <1>10, <1>11 DEF ViewInv

\* Entering the overview, from the output or back from a family.
LEMMA EnterOverviewKeeps ==
    ASSUME EngineInv, RouteInv', VisitInv, OverviewInv, EnterOverview, results' = results, late' = late,
           visible' = visible, current' = "clusters", current # "input"
    PROVE EngineInv' /\ ViewInv'
<1>1. PICK l, o : l = Left(overview) /\ o = Seen(l, results.going = "no")
  OBVIOUS
<1>2. IsOverview(overview) /\ (has_clusters(session) => overview.cards <= Len(session.run.families))
  BY DEF OverviewInv
<1>3. l = [worker |-> 0, busy |-> FALSE, cards |-> overview.cards, checked |-> overview.checked,
           selection |-> overview.selection, enabled |-> overview.enabled, since |-> overview.since]
  BY <1>1, <1>2, LeftIs
<1>4. IsOverview(l) /\ l.cards = overview.cards
  BY <1>2, <1>3 DEF IsOverview
<1>5. o = [worker |-> l.worker, busy |-> l.busy, cards |-> l.cards, checked |-> l.checked,
           selection |-> l.selection, enabled |-> l.enabled, since |-> (results.going = "no")]
  BY <1>1, <1>4, SeenIs
<1>6. IsOverview(o) /\ o.cards = overview.cards /\ (o.since => results.going = "no")
  BY <1>4, <1>5 DEF IsOverview
<1>7. KickOff(session, get_active_k(session), o) /\ detail' = NoFamily
  BY <1>1 DEF EnterOverview, Seen
<1>8. get_active_k(session) \in AskedKs
  BY ActiveIsAsked DEF EngineInv
<1>9. visible \/ current = "input"
  BY DEF VisitInv
<1> QED
  BY <1>2, <1>6, <1>7, <1>8, <1>9, KickOffViews

\* Whoever does not navigate leaves the way back alone.
LEMMA RouteStays ==
    ASSUME RouteInv, routerVars' = routerVars
    PROVE RouteInv' /\ current' = current
<1>1. current' = current /\ history' = history
  BY DEF routerVars
<1> QED
  BY <1>1 DEF RouteInv

\* Workers do nothing on the screens.
LEMMA ViewStays ==
    ASSUME ViewInv, UNCHANGED <<viewVars, routerVars, visible, late, eager, results, session>>
    PROVE ViewInv'
<1>1. /\ overview' = overview /\ detail' = detail /\ pair' = pair /\ compared' = compared /\ current' = current
      /\ visible' = visible /\ late' = late /\ eager' = eager /\ results' = results /\ session' = session
  BY DEF viewVars, routerVars
<1>2. RouteInv' /\ VisitInv' /\ OverviewInv'
  BY <1>1, RouteStays DEF ViewInv, VisitInv, OverviewInv, has_clusters
<1>3. DetailInv' /\ CompareInv'
  BY <1>1 DEF ViewInv, DetailInv, CompareInv, has_clusters, Schedule, HasCluster, get_cluster, Member
<1> QED
  BY <1>2, <1>3 DEF ViewInv

\* A worker's step.
LEMMA WorkKeeps ==
    ASSUME EngineDivides, EngineInv, ViewInv, NEW w \in Workers, Work(w)
    PROVE EngineInv' /\ ViewInv'
<1>1. CASE Translate(w)
  BY <1>1, TranslateKeeps, ViewStays DEF Translate, WorkerStays
<1>2. CASE Compute(w)
  BY <1>2, ComputeKeeps, ViewStays DEF Compute, WorkerStays
<1>3. CASE Fail(w)
  BY <1>3, FailKeeps, ViewStays DEF Fail
<1> QED
  BY <1>1, <1>2, <1>3 DEF Work

\* A number of families is applied.
LEMMA ApplyKKeeps ==
    ASSUME EngineInv, ViewInv, NEW k \in Ks, ApplyK(k)
    PROVE EngineInv' /\ ViewInv'
<1>1. /\ current = "clusters" /\ KickOff(session, k, overview) /\ results' = results /\ visible' = visible
      /\ detail' = detail /\ late' = late /\ routerVars' = routerVars
  BY DEF ApplyK
<1>2. RouteInv' /\ current' = current
  BY <1>1, RouteStays DEF ViewInv
<1>3. k \in AskedKs
  BY DEF AskedKs
<1>4. /\ IsOverview(overview) /\ (has_clusters(session) => overview.cards <= Len(session.run.families))
      /\ (overview.since => results.going = "no") /\ (visible \/ current = "input") /\ VisitInv /\ DetailInv
  BY <1>1 DEF ViewInv, OverviewInv, VisitInv
<1> QED
  BY <1>1, <1>2, <1>3, <1>4, KickOffViews

\* An empty request: the families of a visit are computed anew.
LEMMA ApplyNoRequestKeeps ==
    ASSUME EngineInv, ViewInv, ApplyNoRequest
    PROVE EngineInv' /\ ViewInv'
<1>1. /\ current = "clusters" /\ KickOff(Invalidated(session), 0, overview) /\ results' = results /\ visible' = visible
      /\ detail' = detail /\ late' = late /\ routerVars' = routerVars
  BY DEF ApplyNoRequest
<1>2. RouteInv' /\ current' = current
  BY <1>1, RouteStays DEF ViewInv
<1>3. 0 \in AskedKs
  BY DEF AskedKs
<1>4. /\ IsOverview(overview) /\ (has_clusters(session) => overview.cards <= Len(session.run.families))
      /\ (overview.since => results.going = "no") /\ (visible \/ current = "input") /\ VisitInv /\ DetailInv
  BY <1>1 DEF ViewInv, OverviewInv, VisitInv
<1> QED
  BY <1>1, <1>2, <1>3, <1>4, KickOffViews

\* A request leaves the cards where they are.
LEMMA ApplyRequestViews ==
    ASSUME EngineInv, ViewInv, NEW config \in Requests, ApplyRequest(config)
    PROVE EngineInv' /\ ViewInv'
<1>1. /\ current = "clusters" /\ results' = results /\ visible' = visible /\ session' = session
      /\ detail' = detail /\ late' = late /\ routerVars' = routerVars /\ ~eager'
  BY DEF ApplyRequest
<1>2. RouteInv' /\ current' = current
  BY <1>1, RouteStays DEF ViewInv
<1>3. IsOverview(overview)
  BY DEF ViewInv, OverviewInv
<1>4. PICK f, spins : f = Free /\ spins = TRUE
  OBVIOUS
<1>9. overview' = KickedOff(overview, f, spins)
  BY <1>4 DEF ApplyRequest, KickedOff
<1>5. overview' = [worker |-> f, busy |-> spins, cards |-> overview.cards, checked |-> overview.checked, selection |-> <<>>,
                   enabled |-> overview.enabled, since |-> overview.since]
  BY <1>3, <1>9, KickedOffIs
<1>6. IsOverview(overview') /\ overview'.selection = <<>> /\ Range(overview'.selection) \subseteq 1 .. overview'.cards
  BY <1>3, <1>4, <1>5 DEF IsOverview, Range
<1>7. OverviewInv'
  BY <1>1, <1>5, <1>6 DEF ViewInv, OverviewInv, has_clusters
<1>0. VisitInv'
  BY <1>1, <1>2, <1>5 DEF ViewInv, VisitInv
<1>8. DetailInv' /\ CompareInv'
  BY <1>1, <1>2 DEF ViewInv, DetailInv, CompareInv
<1> QED
  BY <1>0, <1>2, <1>7, <1>8, ApplyRequestKeeps DEF ViewInv

\* A card is checked or unchecked.
LEMMA ToggleKeeps ==
    ASSUME EngineInv, ViewInv, NEW f \in 1 .. MaxCount, Toggle(f)
    PROVE EngineInv' /\ ViewInv'
<1>1. PICK picked, next : /\ picked = Picked(overview.selection, overview.checked, f)
                          /\ next = Marked(overview.checked, f)
  OBVIOUS
<1>2. PICK sel, chk, on : /\ sel = (IF Len(picked) > 2 THEN Tail(picked) ELSE picked)
                          /\ chk = IF Len(picked) > 2 THEN next \ {Head(picked)} ELSE next
                          /\ on = (Len(picked) >= 2)
  OBVIOUS
<1>3. /\ overview' = Toggled(overview, sel, chk, on) /\ current = "clusters" /\ f \in 1 .. overview.cards
      /\ eager' = (eager \/ overview.worker # 0) /\ UNCHANGED <<results, visible, sessionVars, detail, late, routerVars>>
  BY <1>1, <1>2 DEF Toggle, Toggled, Picked, Marked
<1>4. IsOverview(overview)
  BY DEF ViewInv, OverviewInv
<1>5. /\ next \subseteq 1 .. overview.cards /\ picked \in Seq(Nat) /\ Len(picked) <= 3
      /\ Range(overview.selection) \subseteq 1 .. overview.cards => Range(picked) \subseteq 1 .. overview.cards
  <2>1. /\ overview.selection \in Seq(Nat) /\ Len(overview.selection) <= 2 /\ overview.cards \in Nat
        /\ overview.checked \subseteq 1 .. overview.cards
    BY <1>4 DEF IsOverview
  <2> QED
    BY <1>1, <1>3, <2>1, PickedIs
<1>6. /\ chk \subseteq 1 .. overview.cards /\ sel \in Seq(Nat) /\ Len(sel) <= 2
      /\ Range(overview.selection) \subseteq 1 .. overview.cards => Range(sel) \subseteq 1 .. overview.cards
  <2>1. CASE Len(picked) > 2
    <3>1. Tail(picked) \in Seq(Nat) /\ Len(Tail(picked)) <= 2 /\ Range(Tail(picked)) \subseteq Range(picked)
      BY <1>5, <2>1, TailIs
    <3>2. sel = Tail(picked) /\ chk = next \ {Head(picked)}
      BY <1>2, <2>1
    <3> QED
      BY <1>5, <3>1, <3>2
  <2>2. CASE ~(Len(picked) > 2)
    <3>1. sel = picked /\ chk = next /\ Len(picked) \in Nat
      BY <1>2, <1>5, <2>2
    <3> QED
      BY <1>5, <2>2, <3>1
  <2> QED
    BY <2>1, <2>2
<1>7. overview' = [worker |-> overview.worker, busy |-> overview.busy, cards |-> overview.cards, checked |-> chk,
                   selection |-> sel, enabled |-> on, since |-> overview.since]
  BY <1>3, <1>4, ToggledIs
<1>8. IsOverview(overview')
  BY <1>4, <1>6, <1>7 DEF IsOverview
<1>9. RouteInv' /\ current' = current /\ session' = session /\ results' = results /\ visible' = visible
      /\ detail' = detail /\ late' = late
  BY <1>3, RouteStays DEF ViewInv, sessionVars
<1>10. OverviewInv'
  <2>1. ~eager' => ~eager /\ overview.worker = 0
    BY <1>3
  <2>2. ~eager' => Range(overview'.selection) \subseteq 1 .. overview'.cards /\ overview'.worker = 0
    BY <1>6, <1>7, <2>1 DEF ViewInv, OverviewInv
  <2>3. has_clusters(session)' => overview'.cards <= Len(session'.run.families)
    BY <1>7, <1>9 DEF ViewInv, OverviewInv, has_clusters
  <2> QED
    BY <1>8, <2>2, <2>3 DEF OverviewInv
<1>0. VisitInv'
  BY <1>3, <1>7, <1>9 DEF ViewInv, VisitInv
<1>11. DetailInv' /\ CompareInv'
  BY <1>3, <1>9 DEF ViewInv, DetailInv, CompareInv
<1>12. EngineInv'
  BY <1>3, <1>7, ScreensKeepEngine
<1> QED
  BY <1>0, <1>9, <1>10, <1>11, <1>12 DEF ViewInv

-----------------------------------------------------------------------------
(* One family, and two *)

\* A family has members, at positions of the sample.
LEMMA FamilyIs ==
    ASSUME SessionInv, has_clusters(session), NEW f, HasCluster(f)
    PROVE /\ session.run.population \in 1 .. MaxCount
          /\ get_cluster(f).members \in Seq(DOMAIN Sampled[session.run.population])
          /\ Len(get_cluster(f).members) \in 1 .. MaxCount
          /\ get_cluster(f).representative \in DOMAIN Sampled[session.run.population]
<1> DEFINE P == DOMAIN Sampled[session.run.population]
           T == [members : Seq(P), representative : P, estimate : Nat]
           fs == session.run.families
<1>1. /\ session.run.population \in 1 .. MaxCount /\ fs \in Seq(T) /\ f \in DOMAIN fs
      /\ \A g \in DOMAIN fs : fs[g].members # <<>> /\ Len(fs[g].members) <= MaxCount
  BY DEF SessionInv, IsRun, HasCluster
<1>2. fs[f] \in T
  <2> HIDE DEF T, fs
  <2> QED
    BY <1>1
<1> HIDE DEF fs, P
<1>3. fs[f].members \in Seq(P) /\ fs[f].representative \in P
  BY <1>2
<1>4. Len(fs[f].members) \in Nat /\ Len(fs[f].members) # 0 /\ Len(fs[f].members) <= MaxCount
  BY <1>1, <1>3
<1>5. Len(fs[f].members) \in 1 .. MaxCount
  BY <1>4, SessionAssumption
<1> QED
  BY <1>1, <1>3, <1>5 DEF get_cluster, fs, P

\* In time, what the session's coordinator reads is what was clustered, and it can read all of it.
LEMMA ReadIs ==
    ASSUME EngineInv, has_clusters(session), ~late, NEW position
    PROVE /\ Read(position) = Schedule(position)
          /\ position \in DOMAIN Sampled[session.run.population] => CanRead(position)
<1>1. PICK c, r : c = coordinators[session.coordinator] /\ r = session.run
  OBVIOUS
<1>2. /\ IsRun(r) /\ Fitted(coordinators, session.coordinator) /\ session.coordinator \in {0} \cup Coordinators
      /\ c.run = results.run /\ r.run = c.run /\ r.population = c.population
  BY <1>1 DEF EngineInv, SessionInv, InTimeInv
<1>3. IsFitted(c, results) /\ session.coordinator # 0
  BY <1>1, <1>2, NewOrFitted DEF EngineInv, Fitted
<1>4. /\ r.sample = Sampled[r.population] /\ r.population \in 1 .. MaxCount
      /\ c.sample = Sampled[r.population] /\ r.population <= results.count
  BY <1>2, <1>3 DEF IsRun, IsFitted
<1>5. Read(position) = Schedule(position)
  BY <1>1, <1>2, <1>4 DEF Read, Schedule
<1>6. ASSUME position \in DOMAIN Sampled[r.population]
      PROVE  CanRead(position)
  <2>1. PICK m \in 1 .. MaxCount : /\ DOMAIN Sampled[r.population] = 1 .. m
                                   /\ \A i \in 1 .. m : Sampled[r.population][i] \in 0 .. r.population - 1
    BY <1>4, SamplesFit
  <2>2. c.sample[position] \in 0 .. r.population - 1
    BY <1>4, <1>6, <2>1
  <2>3. results.count \in Nat /\ r.population \in Nat
    BY <1>4, SessionAssumption DEF EngineInv, ResultsInv
  <2>4. c.sample[position] < results.count
    BY <1>4, <2>2, <2>3
  <2> QED
    BY <1>1, <1>3, <1>4, <1>6, <2>4 DEF CanRead
<1> QED
  BY <1>1, <1>5, <1>6

\* Two families that there are can be compared.
LEMMA ComparisonIs ==
    ASSUME EngineInv, has_clusters(session), ~late, NEW p, \A i \in 1 .. 2 : HasCluster(p[i])
    PROVE \A i \in 1 .. 2 : Comparison(p)[i] = Schedule(get_cluster(p[i]).representative)
<1>1. \A i \in 1 .. 2 : get_cluster(p[i]).representative \in DOMAIN Sampled[session.run.population]
  BY FamilyIs DEF EngineInv
<1>2. \A i \in 1 .. 2 : CanRead(get_cluster(p[i]).representative)
  BY <1>1, ReadIs
<1>3. Comparison(p) = [i \in 1 .. 2 |-> Read(get_cluster(p[i]).representative)]
  BY <1>2 DEF Comparison, CanCompare
<1>4. \A i \in 1 .. 2 : Comparison(p)[i] = Read(get_cluster(p[i]).representative)
  BY <1>3
<1> QED
  BY <1>4, ReadIs

\* The overview is left.
LEMMA LeftViews ==
    ASSUME OverviewInv, overview' = Left(overview), session' = session, eager' = eager
    PROVE OverviewInv' /\ overview'.worker = 0
<1>1. IsOverview(overview)
  BY DEF OverviewInv
<1>2. PICK spins \in BOOLEAN : spins = FALSE
  OBVIOUS
<1>3. overview' = [worker |-> 0, busy |-> spins, cards |-> overview.cards, checked |-> overview.checked,
                   selection |-> overview.selection, enabled |-> overview.enabled, since |-> overview.since]
  BY <1>1, <1>2, LeftIs
<1>4. IsOverview(overview')
  BY <1>1, <1>3 DEF IsOverview
<1> QED
  BY <1>3, <1>4 DEF OverviewInv, has_clusters

\* The screen of one family is entered.
LEMMA OpenFamilyKeeps ==
    ASSUME EngineInv, ViewInv, NEW f \in 1 .. MaxCount, OpenFamily(f)
    PROVE EngineInv' /\ ViewInv'
<1>1. /\ current = "clusters" /\ Show("detail") /\ overview' = Left(overview)
      /\ results' = results /\ visible' = visible /\ late' = late /\ UNCHANGED sessionVars /\ eager' = eager
  BY DEF OpenFamily, EnterStays
<1>2. RouteInv' /\ current' = "detail"
  <2>1. Leads(current, "detail")
    BY <1>1 DEF Leads
  <2> QED
    BY <1>1, <2>1, ShowKeepsRoute DEF ViewInv
<1>3. session' = session
  BY <1>1 DEF sessionVars
<1>4. OverviewInv' /\ overview'.worker = 0
  BY <1>1, <1>3, LeftViews DEF ViewInv
<1>5. VisitInv' /\ CompareInv'
  BY <1>1, <1>2, <1>4 DEF ViewInv, VisitInv, CompareInv
<1>6. DetailInv'
  <2>1. CASE ~has_clusters(session)
    <3>1. detail' = [NoFamily EXCEPT !.family = f]
      BY <2>1 DEF OpenFamily
    <3>2. detail' = [family |-> f, index |-> 0, size |-> 0, shown |-> Nothing]
      BY <3>1 DEF NoFamily
    <3> QED
      BY <1>3, <2>1, <3>2, SessionAssumption DEF DetailInv, has_clusters
  <2>2. CASE has_clusters(session)
    <3>1. HasCluster(f) /\ detail' = [family |-> f, index |-> 0, size |-> Len(get_cluster(f).members),
                                      shown |-> Read(Member(f, 0))]
      BY <2>2 DEF OpenFamily, CanView
    <3>2. Len(get_cluster(f).members) \in 1 .. MaxCount
      BY <2>2, <3>1, FamilyIs DEF EngineInv
    <3>3. ~late => Read(Member(f, 0)) = Schedule(Member(f, 0))
      BY <2>2, ReadIs
    <3> QED
      BY <1>1, <1>3, <3>1, <3>2, <3>3, SessionAssumption DEF DetailInv, HasCluster, get_cluster, Schedule, Member
  <2> QED
    BY <2>1, <2>2
<1>7. EngineInv'
  BY <1>1, <1>4, ScreensKeepEngine
<1> QED
  BY <1>2, <1>4, <1>5, <1>6, <1>7 DEF ViewInv

\* Back to the overview, or on to it.
LEMMA OpenFailsKeeps ==
    ASSUME EngineInv, ViewInv, NEW f \in 1 .. MaxCount, OpenFails(f)
    PROVE EngineInv' /\ ViewInv'
<1>1. /\ current = "clusters" /\ EnterOverview /\ results' = results /\ visible' = visible /\ late' = late
      /\ routerVars' = routerVars
  BY DEF OpenFails
<1>2. RouteInv' /\ current' = "clusters" /\ current # "input"
  BY <1>1, RouteStays DEF ViewInv
<1> QED
  BY <1>1, <1>2, EnterOverviewKeeps DEF ViewInv

\* A schedule of the family cannot be read.
LEMMA ReadFailsKeeps ==
    ASSUME EngineInv, ViewInv, ReadFails
    PROVE EngineInv' /\ ViewInv'
<1>1. /\ current = "detail" /\ EnterOverview /\ results' = results /\ visible' = visible /\ late' = late /\ Back
  BY DEF ReadFails
<1>2. RouteInv' /\ current' = "clusters" /\ current # "input"
  BY <1>1, BackKeepsRoute DEF ViewInv
<1> QED
  BY <1>1, <1>2, EnterOverviewKeeps DEF ViewInv

\* The overview is entered from the output.
LEMMA OpenClustersKeeps ==
    ASSUME EngineInv, ViewInv, OpenClusters
    PROVE EngineInv' /\ ViewInv'
<1>1. /\ current = "output" /\ EnterOverview /\ results' = results /\ visible' = visible /\ late' = late
      /\ Show("clusters")
  BY DEF OpenClusters
<1>2. RouteInv' /\ current' = "clusters" /\ current # "input"
  BY <1>1, ShowKeepsRoute DEF ViewInv, Leads
<1> QED
  BY <1>1, <1>2, EnterOverviewKeeps DEF ViewInv

\* The next schedule of the family, or the one before.
LEMMA TurnKeeps ==
    ASSUME EngineInv, ViewInv, NEW index \in 0 .. MaxCount, Turn(index)
    PROVE EngineInv' /\ ViewInv'
<1>1. /\ current = "detail" /\ detail.shown # Nothing /\ 0 <= index /\ index < detail.size
      /\ has_clusters(session) => CanView(detail.family, index)
      /\ results' = results /\ visible' = visible /\ late' = late /\ UNCHANGED sessionVars /\ eager' = eager
      /\ overview' = overview /\ routerVars' = routerVars /\ pair' = pair /\ compared' = compared
  BY DEF Turn, EnterStays
<1>2. RouteInv' /\ current' = current /\ session' = session
  BY <1>1, RouteStays DEF ViewInv, sessionVars
<1>3. OverviewInv' /\ VisitInv' /\ CompareInv'
  BY <1>1, <1>2 DEF ViewInv, OverviewInv, VisitInv, CompareInv, has_clusters
<1>4. PICK shown : shown = IF has_clusters(session) THEN Read(Member(detail.family, index)) ELSE Nothing
  OBVIOUS
<1>5. detail' = [family |-> detail.family, index |-> index, size |-> detail.size, shown |-> shown]
  <2>1. PICK a, b, c, d : detail = [family |-> a, index |-> b, size |-> c, shown |-> d]
    BY DEF ViewInv, DetailInv
  <2>2. PICK x : x = [detail EXCEPT !.index = index]
    OBVIOUS
  <2>3. x = [family |-> a, index |-> index, size |-> c, shown |-> d]
    BY <2>1, <2>2
  <2>4. [x EXCEPT !.shown = shown] = [family |-> a, index |-> index, size |-> c, shown |-> shown]
    BY <2>3
  <2>5. detail' = [x EXCEPT !.shown = shown]
    BY <1>4, <2>2 DEF Turn
  <2>6. detail.family = a /\ detail.size = c
    BY <2>1
  <2> QED
    BY <2>4, <2>5, <2>6
<1>6. DetailInv'
  <2>1. CASE ~has_clusters(session)
    BY <1>2, <1>5, <2>1 DEF ViewInv, DetailInv, has_clusters
  <2>2. CASE has_clusters(session)
    <3>1. HasCluster(detail.family)
      BY <1>1, <2>2 DEF CanView
    <3>2. ~late => /\ detail.size = Len(get_cluster(detail.family).members)
                   /\ shown = Schedule(Member(detail.family, index))
      BY <1>1, <1>4, <2>2, ReadIs DEF ViewInv, DetailInv
    <3>3. detail'.family = detail.family /\ detail'.index = index /\ detail'.size = detail.size /\ detail'.shown = shown
      BY <1>5
    <3> QED
      BY <1>1, <1>2, <1>5, <3>1, <3>2, <3>3 DEF ViewInv, DetailInv, HasCluster, get_cluster, Schedule, Member
  <2> QED
    BY <2>1, <2>2
<1>7. EngineInv'
  BY <1>1, ScreensKeepEngine
<1> QED
  BY <1>2, <1>3, <1>6, <1>7 DEF ViewInv

\* The two selected families are compared.
LEMMA CompareKeeps ==
    ASSUME EngineInv, ViewInv, Compare
    PROVE EngineInv' /\ ViewInv'
<1>1. /\ current = "clusters" /\ Show("compare") /\ overview' = Left(overview) /\ Len(overview.selection) = 2
      /\ pair' = <<overview.selection[1], overview.selection[2]>> /\ compared' = Comparison(pair')
      /\ results' = results /\ visible' = visible /\ late' = late /\ UNCHANGED sessionVars /\ eager' = eager
      /\ detail' = detail
  BY DEF Compare
<1>2. RouteInv' /\ current' = "compare"
  <2>1. Leads(current, "compare")
    BY <1>1 DEF Leads
  <2> QED
    BY <1>1, <2>1, ShowKeepsRoute DEF ViewInv
<1>3. session' = session
  BY <1>1 DEF sessionVars
<1>4. OverviewInv' /\ overview'.worker = 0
  BY <1>1, <1>3, LeftViews DEF ViewInv
<1>5. VisitInv' /\ DetailInv'
  BY <1>1, <1>2, <1>3, <1>4 DEF ViewInv, VisitInv, DetailInv
<1>6. PICK p : p = pair'
  OBVIOUS
<1>7. CompareInv'
  <2> SUFFICES ASSUME has_clusters(session), ~late, ~eager
               PROVE \A i \in 1 .. 2 : HasCluster(p[i]) /\ compared'[i] = Schedule(get_cluster(p[i]).representative)
    BY <1>1, <1>3, <1>6 DEF CompareInv, has_clusters, HasCluster, get_cluster, Schedule
  <2>1. /\ overview.selection \in Seq(Nat) /\ Range(overview.selection) \subseteq 1 .. overview.cards
        /\ overview.cards <= Len(session.run.families) /\ overview.cards \in Nat
    BY DEF ViewInv, OverviewInv, IsOverview
  <2>2. \A i \in 1 .. 2 : overview.selection[i] \in 1 .. overview.cards
    <3>1. DOMAIN overview.selection = 1 .. 2
      BY <1>1, <2>1
    <3> QED
      BY <2>1, <3>1 DEF Range
  <2>3. DOMAIN session.run.families = 1 .. Len(session.run.families) /\ Len(session.run.families) \in Nat
    BY DEF EngineInv, SessionInv, IsRun
  <2>4. p[1] = overview.selection[1] /\ p[2] = overview.selection[2]
    BY <1>1, <1>6
  <2>5. \A i \in 1 .. 2 : HasCluster(p[i])
    BY <2>1, <2>2, <2>3, <2>4 DEF HasCluster
  <2>6. compared' = Comparison(p)
    BY <1>1, <1>6
  <2> QED
    BY <2>5, <2>6, ComparisonIs
<1>8. EngineInv'
  BY <1>1, <1>4, ScreensKeepEngine
<1> QED
  BY <1>2, <1>4, <1>5, <1>7, <1>8 DEF ViewInv

\* The pair that was compared is compared again.
LEMMA ComparedAgain ==
    ASSUME EngineInv, CompareInv, current \in {"compare", "overlay"}, compared' = Comparison(pair) \/ compared' = compared,
           pair' = pair, session' = session, late' = late, eager' = eager
    PROVE CompareInv'
<1> SUFFICES ASSUME has_clusters(session), ~late, ~eager
             PROVE \A i \in 1 .. 2 : HasCluster(pair[i]) /\ compared'[i] = Schedule(get_cluster(pair[i]).representative)
  BY DEF CompareInv, has_clusters, HasCluster, get_cluster, Schedule
<1>1. \A i \in 1 .. 2 : HasCluster(pair[i]) /\ compared[i] = Schedule(get_cluster(pair[i]).representative)
  BY DEF CompareInv
<1>2. \A i \in 1 .. 2 : Comparison(pair)[i] = Schedule(get_cluster(pair[i]).representative)
  BY <1>1, ComparisonIs
<1> QED
  BY <1>1, <1>2

\* The pair is laid over one calendar.
LEMMA ViewOverlayKeeps ==
    ASSUME EngineInv, ViewInv, ViewOverlay
    PROVE EngineInv' /\ ViewInv'
<1>1. /\ current = "compare" /\ Show("overlay") /\ compared' = Comparison(pair) /\ pair' = pair
      /\ results' = results /\ visible' = visible /\ late' = late /\ UNCHANGED sessionVars /\ eager' = eager
      /\ overview' = overview /\ detail' = detail
  BY DEF ViewOverlay
<1>2. RouteInv' /\ current' = "overlay"
  <2>1. Leads(current, "overlay")
    BY <1>1 DEF Leads
  <2> QED
    BY <1>1, <2>1, ShowKeepsRoute DEF ViewInv
<1>3. session' = session
  BY <1>1 DEF sessionVars
<1>4. OverviewInv' /\ VisitInv' /\ DetailInv'
  BY <1>1, <1>2, <1>3 DEF ViewInv, OverviewInv, VisitInv, DetailInv, has_clusters
<1>5. CompareInv'
  BY <1>1, <1>3, ComparedAgain DEF ViewInv
<1>6. EngineInv'
  BY <1>1, ScreensKeepEngine
<1> QED
  BY <1>2, <1>4, <1>5, <1>6 DEF ViewInv

\* Back from any screen of the families.
LEMMA GoBackKeeps ==
    ASSUME EngineInv, ViewInv, GoBack
    PROVE EngineInv' /\ ViewInv'
<1>1. current # "input" /\ Back /\ results' = results /\ visible' = visible /\ late' = late
  BY DEF GoBack
<1>2. /\ RouteInv' /\ (current' = "compare" => current = "overlay") /\ current' \notin {"detail", "overlay"}
      /\ current \in Screens
  <2>1. current \in Screens
    BY DEF ViewInv, RouteInv
  <2> QED
    BY <1>1, <2>1, BackKeepsRoute, SessionAssumption DEF ViewInv
<1>3. CASE current' = "clusters"
  <2>1. EnterOverview
    BY <1>3 DEF GoBack
  <2> QED
    BY <1>1, <1>2, <1>3, <2>1, EnterOverviewKeeps DEF ViewInv
<1>4. CASE current' # "clusters"
  <2>1. /\ overview' = Left(overview) /\ UNCHANGED sessionVars /\ detail' = detail /\ pair' = pair /\ eager' = eager
        /\ compared' = Comparison(pair) \/ compared' = compared
    BY <1>4 DEF GoBack
  <2>2. session' = session
    BY <2>1 DEF sessionVars
  <2>3. OverviewInv' /\ overview'.worker = 0
    BY <2>1, <2>2, LeftViews DEF ViewInv
  <2>4. VisitInv' /\ DetailInv'
    BY <1>1, <1>2, <1>4, <2>1, <2>2, <2>3 DEF ViewInv, VisitInv, DetailInv
  <2>5. CompareInv'
    <3>1. CASE current' = "compare"
      BY <1>1, <1>2, <2>1, <2>2, <3>1, ComparedAgain DEF ViewInv
    <3>2. CASE current' # "compare"
      BY <1>2, <3>2 DEF CompareInv
    <3> QED
      BY <3>1, <3>2
  <2>6. EngineInv'
    BY <1>1, <2>1, <2>3, ScreensKeepEngine
  <2> QED
    BY <1>2, <2>3, <2>4, <2>5, <2>6 DEF ViewInv
<1> QED
  BY <1>3, <1>4

\* The output screen is entered.
LEMMA ViewResultsKeeps ==
    ASSUME EngineInv, ViewInv, ViewResults
    PROVE EngineInv' /\ ViewInv'
<1>1. /\ current = "input" /\ visible /\ Show("output") /\ results' = results /\ visible' = visible /\ late' = late
      /\ UNCHANGED sessionVars /\ eager' = eager /\ overview' = overview /\ detail' = detail
  BY DEF ViewResults, GoOn, viewVars
<1>2. RouteInv' /\ current' = "output"
  <2>1. Leads(current, "output")
    BY <1>1 DEF Leads
  <2> QED
    BY <1>1, <2>1, ShowKeepsRoute DEF ViewInv
<1>3. session' = session
  BY <1>1 DEF sessionVars
<1>4. OverviewInv' /\ VisitInv' /\ DetailInv' /\ CompareInv'
  BY <1>1, <1>2, <1>3 DEF ViewInv, OverviewInv, VisitInv, DetailInv, CompareInv, has_clusters
<1>5. EngineInv'
  BY <1>1, ScreensKeepEngine
<1> QED
  BY <1>2, <1>4, <1>5 DEF ViewInv

-----------------------------------------------------------------------------
(* The run and the screens *)

\* The output screen opens by itself when the user is at the input screen.
LEMMA ArriveKeeps ==
    ASSUME RouteInv, VisitInv, NEW shows \in BOOLEAN, Arrive(shows), overview' = overview,
           (overview.since /\ current = "clusters") => results'.going = "no"
    PROVE /\ RouteInv' /\ VisitInv'
          /\ current' = current \/ current' = "output"
<1>1. CASE shows /\ ~visible
  <2>1. current = "input" /\ Show("output") /\ visible'
    BY <1>1 DEF VisitInv, Arrive
  <2>2. RouteInv' /\ current' = "output"
    BY <2>1, ShowKeepsRoute DEF Leads
  <2> QED
    BY <2>1, <2>2 DEF VisitInv
<1>2. CASE ~(shows /\ ~visible)
  <2>1. routerVars' = routerVars /\ visible' = (visible \/ shows)
    BY <1>2 DEF Arrive
  <2>2. RouteInv' /\ current' = current
    BY <2>1, RouteStays
  <2> QED
    BY <1>2, <2>1, <2>2 DEF VisitInv
<1> QED
  BY <1>1, <1>2

\* The screens do not notice that the run goes on.
LEMMA GoesOnViews ==
    ASSUME ViewInv, RouteInv', VisitInv', current' = current \/ current' = "output", session' = session,
           overview' = overview, detail' = detail, pair' = pair, compared' = compared, late' = late, eager' = eager
    PROVE ViewInv'
<1>1. OverviewInv'
  BY DEF ViewInv, OverviewInv, has_clusters
<1>2. DetailInv' /\ CompareInv'
  BY DEF ViewInv, DetailInv, CompareInv, has_clusters, HasCluster, get_cluster, Schedule, Member
<1> QED
  BY <1>1, <1>2 DEF ViewInv

\* A result is found.
LEMMA FindResultViews ==
    ASSUME EngineInv, ViewInv, FindResult
    PROVE EngineInv' /\ ViewInv'
<1>1. /\ results.going = "yes" /\ results'.going = results.going /\ Arrive(TRUE) /\ session' = session
      /\ overview' = overview /\ detail' = detail /\ pair' = pair /\ compared' = compared /\ late' = late /\ eager' = eager
  BY DEF FindResult, sessionVars, viewVars, EngineInv, ResultsInv
<1>2. RouteInv' /\ VisitInv' /\ (current' = current \/ current' = "output")
  BY <1>1, ArriveKeeps DEF ViewInv, VisitInv
<1> QED
  BY <1>1, <1>2, FindResultKeeps, GoesOnViews

\* The run is cancelled.
LEMMA CancelViews ==
    ASSUME EngineInv, ViewInv, Cancel
    PROVE EngineInv' /\ ViewInv'
<1>0. PICK shows \in BOOLEAN : shows <=> results.count > 0
  OBVIOUS
<1>1. /\ current = "input" /\ Arrive(shows) /\ session' = session
      /\ overview' = overview /\ detail' = detail /\ pair' = pair /\ compared' = compared /\ late' = late /\ eager' = eager
  BY <1>0 DEF Cancel, sessionVars, viewVars, Arrive
<1>2. RouteInv' /\ VisitInv' /\ (current' = current \/ current' = "output")
  BY <1>1, ArriveKeeps DEF ViewInv
<1> QED
  BY <1>1, <1>2, CancelKeeps, GoesOnViews

\* The run ends.
LEMMA FinishViews ==
    ASSUME EngineInv, ViewInv, Finish
    PROVE EngineInv' /\ ViewInv'
<1>0. PICK shows \in BOOLEAN : shows <=> results.count > 0
  OBVIOUS
<1>1. /\ Arrive(shows) /\ session' = Invalidated(session) /\ results' = [results EXCEPT !.going = "no"]
      /\ overview' = overview /\ detail' = detail /\ pair' = pair /\ compared' = compared /\ eager' = eager
  BY <1>0 DEF Finish, viewVars, Arrive
<1>2. results'.going = "no"
  BY <1>1 DEF EngineInv, ResultsInv
<1>3. RouteInv' /\ VisitInv'
  BY <1>1, <1>2, ArriveKeeps DEF ViewInv
<1>4. ~has_clusters(session)'
  <2>1. session' = [coordinator |-> 0, run |-> NoRun]
    BY <1>1, InvalidatedIs DEF EngineInv, SessionInv
  <2> QED
    BY <2>1 DEF has_clusters
<1>5. OverviewInv' /\ DetailInv' /\ CompareInv'
  BY <1>1, <1>4 DEF ViewInv, OverviewInv, DetailInv, CompareInv
<1> QED
  BY <1>3, <1>5, FinishKeeps DEF ViewInv

\* A run starts, from the input screen only.
LEMMA GenerateViews ==
    ASSUME EngineInv, ViewInv, Generate
    PROVE EngineInv' /\ ViewInv'
<1>1. /\ current = "input" /\ session' = Invalidated(session) /\ visible' = FALSE /\ routerVars' = routerVars
      /\ overview' = overview /\ detail' = detail /\ pair' = pair /\ compared' = compared /\ eager' = eager
  BY DEF Generate, viewVars
<1>2. RouteInv' /\ current' = "input"
  BY <1>1, RouteStays DEF ViewInv
<1>3. VisitInv' /\ overview.worker = 0
  BY <1>1, <1>2 DEF ViewInv, VisitInv
<1>4. ~has_clusters(session)'
  <2>1. session' = [coordinator |-> 0, run |-> NoRun]
    BY <1>1, InvalidatedIs DEF EngineInv, SessionInv
  <2> QED
    BY <2>1 DEF has_clusters
<1>5. OverviewInv' /\ DetailInv' /\ CompareInv'
  BY <1>1, <1>4 DEF ViewInv, OverviewInv, DetailInv, CompareInv
<1> QED
  BY <1>2, <1>3, <1>5, GenerateKeeps DEF ViewInv

-----------------------------------------------------------------------------
(* What the workers post *)

\* The cards are replaced.
LEMMA RenderViews ==
    ASSUME EngineInv, ViewInv, NEW w \in Workers, Render(w)
    PROVE EngineInv' /\ ViewInv'
<1>1. PICK n, none : n = Len(workers[w].out.families) /\ none = {}
  OBVIOUS
<1>2. /\ current = "clusters" /\ overview.worker = w /\ w # 0 /\ workers[w].pc = "done"
      /\ results' = results /\ visible' = visible /\ detail' = detail /\ late' = late /\ eager' = eager
      /\ routerVars' = routerVars
  <2>1. w # 0
    BY SessionAssumption DEF Workers
  <2> QED
    BY <2>1 DEF Render, Stale
<1>3. overview' = Rendered(overview, n)
  BY <1>1 DEF Render, Rendered
<1>4. IsOverview(overview) /\ (~eager => overview.selection = <<>>)
  BY <1>2 DEF ViewInv, OverviewInv
<1>5. PICK off \in BOOLEAN : off = FALSE
  OBVIOUS
<1>6. overview' = [worker |-> 0, busy |-> off, cards |-> n, checked |-> none, selection |-> overview.selection,
                   enabled |-> off, since |-> overview.since]
  BY <1>1, <1>3, <1>4, <1>5, RenderedIs
<1>7. IsRun(workers[w].out)
  BY <1>2 DEF EngineInv, WorkerInv
<1>8. n \in Nat
  BY <1>1, <1>7 DEF IsRun
<1>9. IsOverview(overview')
  BY <1>1, <1>4, <1>6, <1>8 DEF IsOverview
<1>10. EngineInv' /\ session'.run = workers[w].out
  BY RenderKeeps
<1>11. OverviewInv'
  <2>1. ~eager' => overview'.selection = <<>> /\ overview'.worker = 0
    BY <1>2, <1>4, <1>6
  <2>2. ~eager' => Range(overview'.selection) \subseteq 1 .. overview'.cards
    BY <2>1 DEF Range
  <2>3. overview'.cards = Len(session'.run.families)
    BY <1>1, <1>6, <1>10
  <2>4. overview'.cards <= Len(session'.run.families)
    BY <1>6, <1>8, <2>3
  <2> QED
    BY <1>9, <2>1, <2>2, <2>4 DEF OverviewInv
<1>12. RouteInv' /\ current' = current
  BY <1>2, RouteStays DEF ViewInv
<1>13. VisitInv'
  BY <1>2, <1>6, <1>12 DEF ViewInv, VisitInv
<1>14. DetailInv' /\ CompareInv'
  BY <1>2, <1>12 DEF ViewInv, DetailInv, CompareInv
<1> QED
  BY <1>10, <1>11, <1>12, <1>13, <1>14 DEF ViewInv

\* The failure of the awaited worker is shown.
LEMMA ShowFailureKeeps ==
    ASSUME EngineInv, ViewInv, NEW w \in Workers, ShowFailure(w)
    PROVE EngineInv' /\ ViewInv'
<1>1. /\ current = "clusters" /\ overview.worker = w /\ w # 0 /\ Done(w)
      /\ results' = results /\ visible' = visible /\ detail' = detail /\ late' = late /\ eager' = eager
      /\ routerVars' = routerVars /\ session' = session /\ coordinators' = Kept(coordinators)
  <2>1. w # 0
    BY SessionAssumption DEF Workers
  <2> QED
    BY <2>1 DEF ShowFailure, Stale
<1>2. overview' = Cleared(overview)
  BY DEF ShowFailure, Cleared
<1>3. IsOverview(overview) /\ (~eager => overview.selection = <<>>)
  BY <1>1 DEF ViewInv, OverviewInv
<1>4. PICK none, off : none = {} /\ off = FALSE /\ off \in BOOLEAN
  OBVIOUS
<1>5. overview' = [worker |-> 0, busy |-> off, cards |-> 0, checked |-> none, selection |-> overview.selection,
                   enabled |-> overview.enabled, since |-> overview.since]
  BY <1>2, <1>3, <1>4, ClearedIs
<1>6. IsOverview(overview')
  BY <1>3, <1>4, <1>5 DEF IsOverview
<1>7. EngineInv'
  BY <1>1, <1>5, DoneKeeps
<1>8. OverviewInv'
  <2>1. ~eager' => overview'.selection = <<>> /\ overview'.worker = 0
    BY <1>1, <1>3, <1>5
  <2>2. ~eager' => Range(overview'.selection) \subseteq 1 .. overview'.cards
    BY <2>1 DEF Range
  <2>3. has_clusters(session) => Len(session.run.families) >= 0
    BY DEF EngineInv, SessionInv, IsRun
  <2>4. has_clusters(session)' => overview'.cards <= Len(session'.run.families)
    BY <1>1, <1>5, <2>3 DEF has_clusters
  <2> QED
    BY <1>6, <2>1, <2>2, <2>4 DEF OverviewInv
<1>9. RouteInv' /\ current' = current
  BY <1>1, RouteStays DEF ViewInv
<1>10. VisitInv'
  BY <1>1, <1>5, <1>9 DEF ViewInv, VisitInv
<1>11. DetailInv' /\ CompareInv'
  BY <1>1, <1>9 DEF ViewInv, DetailInv, CompareInv
<1> QED
  BY <1>7, <1>8, <1>9, <1>10, <1>11 DEF ViewInv

\* What a worker left behind posts is ignored.
LEMMA IgnoreKeeps ==
    ASSUME EngineInv, ViewInv, NEW w \in Workers, Ignore(w)
    PROVE EngineInv' /\ ViewInv'
<1>1. Stale(w) /\ Done(w) /\ session' = session /\ coordinators' = Kept(coordinators)
      /\ UNCHANGED <<results, visible, viewVars, late, eager, routerVars>>
  BY DEF Ignore
<1>2. overview.worker # w
  <2>1. w # 0
    BY SessionAssumption DEF Workers
  <2> QED
    BY <1>1, <2>1 DEF Stale, ViewInv, VisitInv
<1>3. EngineInv'
  BY <1>1, <1>2, DoneKeeps DEF viewVars
<1> QED
  BY <1>1, <1>3, ViewStays

-----------------------------------------------------------------------------
(* The session as a whole *)

ClusterInv == EngineInv /\ ViewInv

\* Nothing was clustered yet.
LEMMA InitHolds ==
    ASSUME Init
    PROVE ClusterInv
<1>1. /\ results = [run |-> 0, count |-> 0, going |-> "no"] /\ visible = FALSE
      /\ session = [coordinator |-> 0, run |-> NoRun]
      /\ coordinators = [c \in Coordinators |-> NewCoordinator] /\ workers = [w \in Workers |-> NoWorker]
      /\ late = FALSE /\ eager = FALSE /\ current = "input" /\ history = <<>> /\ detail = NoFamily
  BY SessionAssumption DEF Init, InitRouter
<1>2. PICK off, none, empty : off = FALSE /\ off \in BOOLEAN /\ none = {} /\ empty = <<>>
  OBVIOUS
<1>3. overview = [worker |-> 0, busy |-> off, cards |-> 0, checked |-> none, selection |-> empty,
                  enabled |-> off, since |-> off]
  BY <1>2 DEF Init
<1>4. NumRuns \in Nat /\ MaxCount \in Nat
  BY SessionAssumption DEF NumRuns
<1>5. ResultsInv /\ CoordinatorInv
  BY <1>1, <1>4 DEF ResultsInv, CoordinatorInv
<1>6. ~has_clusters(session) /\ session.coordinator = 0 /\ ~Fitted(coordinators, 0)
      /\ session = [coordinator |-> session.coordinator, run |-> session.run]
  BY <1>1 DEF has_clusters, Fitted
<1>7. \A w \in Workers : IsWorker(workers[w]) /\ workers[w].coordinator = 0 /\ workers[w].pc = "none" /\ ~workers[w].request
  BY <1>1, ConfigsAsk DEF IsWorker, NoWorker, Configs
<1>8. WorkerInv /\ SoleInv /\ RequestInv
  BY <1>1, <1>7 DEF WorkerInv, SoleInv, RequestInv
<1>9. SessionInv /\ HeardInv /\ InTimeInv /\ WholeInv
  BY <1>3, <1>6 DEF SessionInv, HeardInv, InTimeInv, WholeInv
<1>10. RouteInv /\ VisitInv
  BY <1>1, <1>2, <1>3, SessionAssumption DEF RouteInv, VisitInv
<1>11. IsOverview(overview)
  BY <1>2, <1>3 DEF IsOverview
<1>12. OverviewInv
  BY <1>2, <1>3, <1>6, <1>11 DEF OverviewInv, Range
<1>13. DetailInv /\ CompareInv
  BY <1>1, <1>4, <1>6 DEF DetailInv, CompareInv, NoFamily
<1> QED
  BY <1>5, <1>8, <1>9, <1>10, <1>12, <1>13 DEF ClusterInv, EngineInv, ViewInv

\* Every step keeps the invariant.
LEMMA NextKeeps ==
    ASSUME EngineDivides, ClusterInv, [Next]_vars
    PROVE ClusterInv'
<1>0. EngineInv /\ ViewInv
  BY DEF ClusterInv
<1>1. CASE \E w \in Workers : Work(w)
  BY <1>0, <1>1, WorkKeeps DEF ClusterInv
<1>2. CASE \E w \in Workers : Deliver(w)
  BY <1>0, <1>2, RenderViews, ShowFailureKeeps, IgnoreKeeps DEF ClusterInv, Deliver
<1>3. CASE \E k \in Ks : ApplyK(k)
  BY <1>0, <1>3, ApplyKKeeps DEF ClusterInv
<1>4. CASE \E config \in Requests : ApplyRequest(config)
  BY <1>0, <1>4, ApplyRequestViews DEF ClusterInv
<1>5. CASE ApplyNoRequest
  BY <1>0, <1>5, ApplyNoRequestKeeps DEF ClusterInv
<1>6. CASE \E f \in 1 .. MaxCount : Toggle(f) \/ OpenFamily(f) \/ OpenFails(f)
  BY <1>0, <1>6, ToggleKeeps, OpenFamilyKeeps, OpenFailsKeeps DEF ClusterInv
<1>7. CASE \E index \in 0 .. MaxCount : Turn(index)
  BY <1>0, <1>7, TurnKeeps DEF ClusterInv
<1>8. CASE ReadFails \/ Compare \/ ViewOverlay
  BY <1>0, <1>8, ReadFailsKeeps, CompareKeeps, ViewOverlayKeeps DEF ClusterInv
<1>9. CASE OpenClusters \/ GoBack \/ ViewResults
  BY <1>0, <1>9, OpenClustersKeeps, GoBackKeeps, ViewResultsKeeps DEF ClusterInv
<1>10. CASE Generate \/ FindResult \/ Cancel \/ Finish
  BY <1>0, <1>10, GenerateViews, FindResultViews, CancelViews, FinishViews DEF ClusterInv
<1>11. CASE UNCHANGED vars
  <2>1. UNCHANGED <<results, sessionVars, late, viewVars, routerVars, visible, eager, session, overview>>
    BY <1>11 DEF vars, sessionVars, viewVars
  <2>2. EngineInv'
    BY <1>0, <2>1, ScreensKeepEngine
  <2> QED
    BY <1>0, <2>1, <2>2, ViewStays DEF ClusterInv
<1> QED
  BY <1>1, <1>2, <1>3, <1>4, <1>5, <1>6, <1>7, <1>8, <1>9, <1>10, <1>11 DEF Next

\* The inductive invariant of the cluster sessions, as long as the engine divides what it is given.
THEOREM SessionInvariant ==
    ASSUME EngineDivides
    PROVE Spec => []ClusterInv
<1>1. Init => ClusterInv
  BY InitHolds
<1>2. ClusterInv /\ [Next]_vars => ClusterInv'
  BY NextKeeps
<1> QED
  BY <1>1, <1>2, PTL DEF Spec

\* TypeOK of ClusterSession for any numbers of runs, results and workers: a card that is checked is there,
\* no more than two are selected, and no screen counts past the largest family.
THEOREM SessionTypeOK ==
    ASSUME EngineDivides
    PROVE Spec => []TypeOK
<1>1. ClusterInv => TypeOK
  <2> SUFFICES ASSUME ClusterInv
               PROVE TypeOK
    OBVIOUS
  <2>1. /\ ResultsInv /\ SessionInv /\ WorkerInv /\ HeardInv /\ RouteInv /\ OverviewInv /\ DetailInv
    BY DEF ClusterInv, EngineInv, ViewInv
  <2>2. \A w \in Workers : workers[w].coordinator \in {0} \cup Coordinators
    BY <2>1 DEF WorkerInv, IsWorker
  <2> QED
    BY <2>1, <2>2 DEF TypeOK, ResultsInv, SessionInv, HeardInv, RouteInv, OverviewInv, IsOverview, DetailInv
<1> QED
  BY <1>1, SessionInvariant, PTL

\* A request is answered with families by its criteria and in the number it asks for, also when its worker
\* takes over vectors that another worker prepared (ClusterSessionController._prepare_compatible).
THEOREM RequestsAreAnswered ==
    ASSUME EngineDivides
    PROVE Spec => []AnswersItsRequest
<1>1. ClusterInv => AnswersItsRequest
  <2> SUFFICES ASSUME ClusterInv
               PROVE AnswersItsRequest
    OBVIOUS
  <2>1. RequestInv /\ WorkerInv
    BY DEF ClusterInv, EngineInv
  <2>2. \A w \in Workers : workers[w].pc = "done" => Fitted(coordinators, workers[w].coordinator)
    BY <2>1 DEF WorkerInv
  <2> QED
    BY <2>1, <2>2 DEF AnswersItsRequest, RequestInv
<1> QED
  BY <1>1, SessionInvariant, PTL

\* The screens of one family and of two show schedules of the families on the cards, whatever is
\* clicked, computed, cancelled or left in between.
THEOREM ScreensShowFamilies ==
    ASSUME EngineDivides
    PROVE Spec => []ShownBelongsToFamily
<1>1. ClusterInv => ShownBelongsToFamily
  <2> SUFFICES ASSUME ClusterInv, has_clusters(session), ~late
               PROVE /\ current = "detail" /\ detail.shown # Nothing =>
                          /\ HasCluster(detail.family) /\ detail.index < Len(get_cluster(detail.family).members)
                          /\ detail.shown = Schedule(Member(detail.family, detail.index))
                     /\ current \in {"compare", "overlay"} /\ ~eager => \A i \in 1 .. 2 :
                          HasCluster(pair[i]) /\ compared[i] = Schedule(get_cluster(pair[i]).representative)
    BY DEF ShownBelongsToFamily, Schedule
  <2>1. DetailInv /\ CompareInv
    BY DEF ClusterInv, ViewInv
  <2> QED
    BY <2>1 DEF DetailInv, CompareInv
<1> QED
  BY <1>1, SessionInvariant, PTL

\* Who looks at the families after a run has ended sees families of all its results, unless the run
\* ended while they were being computed.
THEOREM VisitsAreComplete ==
    ASSUME EngineDivides
    PROVE Spec => []VisitIsCompleteUnlessLate
<1>1. ClusterInv => VisitIsCompleteUnlessLate
  <2> SUFFICES ASSUME ClusterInv, ~late, current = "clusters", overview.since, overview.worker = 0, has_clusters(session)
               PROVE session.run.run = results.run /\ session.run.population = results.count
    BY DEF VisitIsCompleteUnlessLate, VisitIsComplete
  <2>1. SessionInv /\ InTimeInv /\ WholeInv /\ VisitInv
    BY DEF ClusterInv, EngineInv, ViewInv
  <2>2. results.going = "no"
    BY <2>1 DEF VisitInv
  <2> QED
    BY <2>1, <2>2 DEF SessionInv, InTimeInv, WholeInv
<1> QED
  BY <1>1, SessionInvariant, PTL
=============================================================================
