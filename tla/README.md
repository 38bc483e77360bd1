# Exam scheduler: TLA+ models, checks and proofs

The repository is a desktop application that enumerates exam schedules. A PyQt
GUI loads courses and exam periods, a persistent pool of worker processes
searches for every schedule that meets the rules, results stream through
multiprocessing queues into SQLite, and the GUI pages, sorts, clusters and
exports them. This directory models the parts of it whose correctness depends
on order: who may act when, what a late message or a stale thread can still
change, what a failure leaves behind. TLC checks every model on small instances;
TLAPS proves what matters most for every value of the constants.

Source paths below are relative to `src/` of the repository, unless they begin
with `src/`. `PROJECT.json` maps every definition to its lines.

## 1. Inventory

| Part | State | Operations | Why it is hard | Modules |
| --- | --- | --- | --- | --- |
| Scheduler pool (`application/services/SchedulingService.py`, `infrastructure/concurrency/SchedulerProcessRunner.py`, `QueueWorkSource.py`, `QueueScheduleObserver.py`) | five queues, cancel event, result counter, run id, one loop per process | start a run, feed, search, batch, finish, cancel, shut down | everything is reused by the next run; processes, a feeder thread, a listener thread and the GUI thread interleave; workers crash | `SchedulerPool`, `ExclusiveRuns` |
| Result listener (`infrastructure/concurrency/SchedulerWorker.py`) | FINISHED count, saved count | receive, save, end, cancel, drain | two listeners may read one queue; a drain eats messages others count | `SchedulerPool`, `ResultBrowsing` |
| Search (`logic/Scheduler.py`, `logic/parallel/*`, `models/ExamSchedule.py`) | domains, the partial schedule and its indexes, work units | partition, forward check, backtrack, undo | an undo that is not exact, cubes that overlap or miss schedules | `ExamSearch`, `ScheduleEnumeration`, `SlotBuilder` |
| Rules (`logic/checkers/*`) | lookup tables, a cache keyed by schedule version | prepare, check | incremental checks must agree with the rule on complete schedules | `ExamRules` |
| Feasibility (`logic/feasibility/*`, `logic/ScheduleFeasibilityValidator.py`) | none | bounds per rule | a bound that is too strong rejects a solvable input | `Feasibility` |
| Scores (`logic/comparators/*`) | metric state kept through the search | place, undo, score | a state changed and changed back must equal a score from scratch | `ScheduleScorer` |
| Input import (`application/services/FileImportService.py`, `InputDataMerger.py`, `InputCacheService.py`, `infrastructure/cache/*`, `application/state/InputDataState.py`) | courses, periods, loaded paths, cache file | load with UPDATE or REPLACE, persist | a failing load leaves paths behind; the cache answers for files it does not hold | `InputImport` |
| Input screen (`gui/features/input/*`, the calendar editor) | editor, selection, settings, dirty flag | load, edit, select, set, generate | edits kept in three places; a cached answer replaces what is shown | `InputScreen`, `ExclusionModel` |
| Schedule repository (`infrastructure/repositories/SQLiteScheduleRepository.py`) | rows, score table, indexes, count, offset | insert batch, clear, page, sort | listener inserts while the GUI clears; reads outside the lock | `ScheduleRepository`, `ScheduleStore` |
| Result state (`application/state/HybridScheduleResultState.py`) | window, sort order, counts | set, page, sort, apply sort data | sorted ids computed in a thread are applied to a newer result set | `ResultWindow` |
| Run life cycle and output (`application/AppController.py`, `gui/features/input/GenerationPresenter.py`, `gui/features/output/*`, `gui/core/ScreenRouter.py`) | worker, flags, index, page, totals, sort worker, screens | generate, cancel, signals, page, sort, leave | queued signals meet clicks; late sort results; counts that move while the user pages | `ResultBrowsing`, `SolutionPaging`, `ScreenRouter` |
| Cluster sessions (`application/services/ClusterSessionController.py`, `ClusteringCoordinator.py`, `infrastructure/concurrency/Cluster*Worker.py`, `gui/features/clusters/*`) | session, coordinators, workers, cards | cluster, request, show, compare, invalidate | a bundle built in a thread is committed after an invalidation | `ClusterSession`, `Clustering` |
| Cluster requests (`logic/clustering/llm/*`, `ExtendedFeatureComputer.py`, `PackedScheduleCodec.py`, `ViewModelMapper.py`) | translator cache, extended scores | translate, sample, compute, store, read, say | threads share a cache and the score rows; four tables of signs | `RequestedFamilies`, `ClusterRequests`, `ScheduleFeatures`, `FamilyTraits`, `PackedScheduleCodec` |
| Parsing, validation, export, error mapping, widgets, styles, CPU topology, entry points | none that matters here | | text formats, rendering, wiring | not modelled |

**Interactions.** `AppController` (GUI thread) calls `SchedulingService`, which
owns the pool. A run is: GUI -> control queue -> workers; feeder thread -> work
queue -> workers; workers -> result queue -> listener thread -> repository and
Qt signals -> GUI. The cancel event is set by the GUI, the listener and the
workers and read by the workers and the feeder. Sort workers and cluster workers
are threads of the GUI process that read the repository and post to the GUI thread.

**What makes each part correct.** A run's results are its own, complete, capped
and saved once; runs exclude each other; every run ends and is reported; workers
leave at shutdown (pool). The cubes partition the space, the search yields
exactly the valid schedules with their scores, and a request is refused only if
there are none (search). After a load the state holds the files it claims to
hold, and a run is given what the user sees (input). Counts equal rows, a page
shows the rows it names, and saved results can be reached (repository,
browsing). Nothing computed for an older result set is shown for a newer one;
families divide the sample, answer the request, and what is said of them is
true (clusters).

## 2. How the modules fit together

```
ExclusiveRuns      <--implements-- SchedulerPool                     one pool, several runs
ScheduleEnumeration<--implements-- ExamSearch (SlotBuilder, ExamRules, Feasibility, ScheduleScorer)
                                   InputScreen = InputImport + ExclusionModel
ScheduleStore      <--implements-- ScheduleRepository
                                   ResultBrowsing = ScheduleRepository + ResultWindow
                                                    + SolutionPaging + ScreenRouter + listener and threads
                                   ClusterSession = Clustering + ScreenRouter
                                   RequestedFamilies = ClusterRequests + ScheduleFeatures + FamilyTraits
                                                       + PackedScheduleCodec
```

`SchedulerPool` models what happens below the listener, `ResultBrowsing` what happens above
it, `ExamSearch` what a worker does with its units. Each abstracts the others to what
it needs: in the pool a schedule is a count, in the search one worker takes all
units, in the browsing a run finds one of a set of lists of batches.

The modules `MC...` give the constants their values; the `.cfg` files name them. The
modules `...Proofs` extend the module they are about:

| Proof module | About | Extends |
| --- | --- | --- |
| `SchedulerPoolProofs` | types, tags, cap, idle starts, final results, `ExclusiveRuns`; nothing is saved twice or for another run | `SchedulerPool` |
| `CompletionProofs` | what is reported as finished has been saved, and searched | `SchedulerPoolProofs` |
| `ExamSearchProofs` | types, the indexes of the schedule and the elective cache through every undo | `ExamSearch` |
| `InputScreenProofs` | everything the input runs check | `InputScreen` |
| `ScheduleRepositoryProofs` | counted results are stored, `ScheduleStore` | `ScheduleRepository` |
| `ResultBrowsingProofs` | the program keeps the repository's contract, results stay reachable | `ResultBrowsing`, `ScheduleRepositoryProofs` |
| `ResultViewProofs` | what the output screen shows, while it changes and when it has settled | `ResultBrowsingProofs` |
| `ClusterSessionProofs` | everything `cluster_session` checks of the session but its liveness and K-means itself | `ClusterSession` |

One passing run per question: a module's instances and the kinds of fault it may meet are chosen in `Init` where
that is possible (`ExamSearch`, `InputScreen`; in `RequestedFamilies` only whether the model has a key). Deadlock is not
checked in any run: the bounds on clicks, loads and runs really end the behaviour.

## 3. The scheduler pool

`SchedulerPool.tla` follows several runs over one pool. One action is one step
between two points where another thread or process can interfere.

| Code | Actions |
| --- | --- |
| `AppController.generate_schedules` | `ClickGenerate`, `CancelDrains`, `WaitReturns` |
| `cancel_scheduling`, `on_app_closing` | `ClickCancel` + `CancelDrains`, `Close` |
| `SchedulingService.generate_async`, `_pool_start_run` | `RejectInfeasible`, `AskPool`, `CollectReady`, `ReadyTimesOut`, `PoolStartRun` |
| `shutdown_pool` | `Close`, `Terminate` |
| `_persistent_worker_loop` | `Announce`, `TakePayload`, `TakeShutdown`, `ReadRunId` |
| `QueueWorkSource.get_next` | `CheckCancel`, `GetEmpty`, `GetItem` |
| `Scheduler._backtrack`, `QueueScheduleObserver` | `ReachSchedule`, `RecordSchedule`, `DropSchedule`, `FinishUnit`, `AbandonUnit`, `FlushBuffer`, `SendFinished` |
| `SchedulerProcessRunner` and process failures | `WorkerRaises`, `SendError`, `Crash` |
| `SchedulerWorker.run` and its handlers | `DropStale`, `HandleBatch`, `HandleFinished`, `HandleError`, `NoticeCrash`, `Shutdown` |
| `_feed_work_queue` | `Partition`, `PartitionRaises`, `ReportPartitionError`, `FeedUnit`, `StopFeeding`, `FeedSentinels` |

**Abstractions.** A work unit is `<<run, index>>` and a schedule below it is a
count; which dates it assigns is the subject of the search module. `multiprocessing.Queue`
gives FIFO order per producer only, so the result queue is one sequence per
producer; the work queue has one producing process and is one sequence. A drain
by `get_nowait` stops at the first `Empty`, which a message still in its
sender's buffer also looks like: it removes some prefix per producer, the
whole of the work queue only when no feeder is active. The statements of
`_pool_start_run` after the last token, with the listener's and the feeder's
start, are one action: the workers are idle, a stale feeder that stops on the
old value of the cancel event may put its sentinels after this action anyway, and
an old listener may receive before or after it. The variables `recorded`,
`searched` and `cancelled` are history, never read by an action.

**Parameters that stand for the environment.** `Impatient`: the user may cancel
or generate again while a run is active. `LateTimeouts`: a bounded wait (2 s,
10 s, 1 s) expires only when nobody it waits for can still move. `PromptFeeder`: a
feeder of an earlier run is done before the next run starts. `Faults`: an
exception in the runner, a process crash, a failing partition. `ClosingRuns`: in
which runs the application may close. The theorems hold for every choice of them, but
for the hypotheses they name.

`ExclusiveRuns.tla` is the promise: one run is open, a run opens only when no
worker serves an earlier one, a worker serves the open run, results are capped
and final once the next run opens. `SchedulerPool` implements it with the
mapping `current <- runIdHolder`, `serving[w] <-` the run of the payload a
serving worker holds, `results <- recorded`.

### Runs

All runs use two workers and two runs, which is what leftovers of a run need to
meet the next one.

| Run | Question and answer | Bounds |
| --- | --- | --- |
| `pool_patient` (191,056 states) | Does anything a finished run leaves behind make the next one report an incomplete search as finished, or lose a batch? Do racing workers exceed the cap? No. | 2 units of up to 2 schedules, limit 3 and batches of 2: partial batches, the cap, and drops all happen |
| `pool_impatient` (771,748) | When the user cancels and regenerates at any moment and every bounded wait may expire early, is anything saved twice or for the wrong run, can a worker serve the wrong run? No: safety rests on the tokens, not on the lengths of the waits. | 1 unit, limit 1, queue of 1 |
| `pool_faults` (173,662) | With one fault anywhere, and the application closing in the first run or not, is every run reported as ended, and does every worker leave? Yes, except that a worker blocked on a full result queue nobody reads is left to `terminate`. | 1 unit, batches of 2, queue of 1 |
| `pool_stale_feeder` (violation) | A feeder that outlives its cancelled run puts its sentinels into the next run's work queue; the next run is reported as finished without searching its unit. | limit 2 |
| `pool_crash` (violation) | After a crash the next Generate gives up: the dead worker's token never comes. | one crash |

**Fairness** (`FairSpec`, for `pool_faults` only): weak fairness of the GUI thread's own steps, of each
worker, listener and feeder - the operating system schedules every thread and
process. Clicks, faults and `Terminate` are not fair. With `LateTimeouts` a wait
still expires under fairness once everyone it waits for is stuck.

**Seen while modelling.** `cancel()` drains FINISHED messages away from the
listener (`infrastructure/concurrency/SchedulerWorker.py:233`), which may outlive the wait
of `WORKER_SHUTDOWN_TIMEOUT_MS`, so that two listeners read one queue
(`application/AppController.py:145`); `SavedWasRecorded` holds with two of them.
The comment at `infrastructure/concurrency/SchedulerWorker.py:303-306` says that "the boundary batch may
overshoot by up to ~N*batch_size, which is accepted for now"; `docs/concurrency-architecture.md:125` and `:373`
say that the results do not overshoot `max_results`. The code does what the document says: since a worker reserves
a place under the lock of the shared counter (`QueueScheduleObserver._reserve_result_slot`) the listener's count
can only reach the limit, not pass it. `CapHolds` therefore states the hard cap, of what is recorded and of what is
saved; the comment is out of date, and being a "may" is not refuted by any run.

### Proofs

For every number of workers and runs, every limit, batch size and queue size,
every fault bound, any timeouts and closing, from `PoolAssumption`:

* `PoolInvariant`: `Spec => []PoolInv`. The heart is `TokenInv`: until the
  application closes, ready tokens in the queue, tokens collected by the current
  start, payloads not yet taken and busy workers add up to at most the size of the
  pool. A full set of tokens therefore means that no worker is busy and no payload
  is on its way (`AllTokensMeansIdle`), which is why the reset in `_pool_start_run` is safe; note
  that one worker may take two payloads of a run, so the count cannot be kept per
  worker. `PayloadInv` and `ServeInv` tie payloads and served runs to the active run,
  `RunInv` orders the run being started after it, `CountInv` ties the shared counter to
  what the active run recorded, `BufferInv` bounds the batch buffers.
* `TypeCorrect`, `TagsAgree`: `[]TypeOK`, `[]TagAgrees`, as consequences.
* `StartsIdle`, `ResultsAreFinal`: the action properties `PoolIdleAtStart` and `ResultsFinal`.
* `Implementation`: `Spec => ImplementsExclusiveRuns`, one lemma per group of
  actions: each step joins, records, leaves or opens, or leaves the abstract state alone.
* `NothingSavedTwice`: `[]SavedWasRecorded`. The property compares two counts, and nothing
  in it says why a count cannot run ahead; the strengthening is a ledger. Whoever holds schedules of
  a run claims them: a worker's buffer, a message in a result queue, what a
  listener saved. The claims of a run never exceed what it recorded: a flush or a handled
  batch passes claims on; a drain, a stale message or a crash gives them up.
* `CapIsKept`: `[]CapHolds`, from `CountInv` for what is recorded and from `NothingSavedTwice` for what is saved.
* `FinishedIsSaved` (`CompletionProofs`): `[]FinishedMeansSaved`, for a user who waits
  (`Impatient = FALSE`). A run starts with one payload per worker and a payload becomes at most one
  FINISHED message, whichever worker takes it: payloads, serving workers, FINISHED
  messages sent and counted are tickets that never outnumber the pool. When the
  listener has counted one per worker, nobody serves the run any more, and because a worker
  flushes before it finishes, no batch is on its way. As long as no ticket is lost, no claim is.
  For an impatient user the property is false: the cancelled listener of the run before may swallow
  batches of the next one and drop them as stale.
* `FinishedIsSearched` (`CompletionProofs`): `[]FinishedMeansSearched`, for a user who waits and
  a feeder that is done before the next run (`PromptFeeder = TRUE`). Units are put before sentinels,
  so a sentinel is only ever followed by sentinels, and a worker that takes one leaves no unit
  behind. A worker leaves units only over a sentinel or the cancel event. Without the
  second hypothesis the property is false (`pool_stale_feeder`); an impatient user's older listener could
  set the cancel event of the new run.

One lemma per group of actions shows each part of the invariants; the temporal
steps are by PTL. The liveness properties of `pool_faults` are out of the prover's reach (fairness and ENABLED).

## 4. The search

`ExamSearch.tla` follows one request from its slots to its schedules: the
checks before the search, the partition into work units, the worker that takes them one by one, and
`Scheduler._backtrack` below each, over an `ExamSchedule` and a score state changed in place.

| Code | Definitions |
| --- | --- |
| `SlotBuilder.build`, `SelectedProgramIndex` | `SlotBuilder.tla`: `SelectEntries`, `RawSlots`, `BuildSlots` (stable sort by `Difficulty`) |
| `ScheduleFeasibilityValidator` and the bounds of the rules | `Feasibility.tla`; `RejectRequest`, `RejectInfeasible`, `AcceptRequest` |
| the six checkers and `build_checkers` | `ExamRules.tla`: `MoedOrder`, `ProgramYearConflict`, `MinDaysBetween`, `ElectiveConflictCap`, `ExamSpan`, `MaxExamsPerDay`, `Rejects` |
| `SearchSpacePartitioner.partition` | `SplitRoot`, `SplitUnit`, then steps of the search, `TakeChildren` |
| `SchedulerProcessRunner._run_work_loop` | `StartWorker`, `TakeUnit`, `Finish` |
| `Scheduler.generateSchedules`, `_backtrack` | `Report`, `ChooseSlot` (MRV or first slot), `TryDate` (place, forward check, descend), `Undo`, `LeaveLoop`, `StopAtEntry` |
| `QueueScheduleObserver.should_cancel` | `Cancel` |
| `ExamSchedule` and the elective cache | `addAssignment`, `pop_last_assignment`, `Hit`, `Served`, `CacheAfter` |
| `ScheduleScorer` and the metrics | `ScheduleScorer.tla`: `add_assignment`, `pop_assignment`, `score`, `score_schedule`; `KeepScores` ties the state to the schedule |

`ExamRules` states every rule twice: as the checker asks it, about one date given
the indexes of a partial schedule, and as a user means it, about a complete
schedule. `valid` is the set of complete assignments that meet the second
form, computed from the request and never read by an action.
`ScheduleEnumeration.tla` is the promise: only wanted schedules are shown, none
twice, all of them unless the search is interrupted, and it ends.

**Abstractions.** A date is its ordinal and the ordinal index of `ExamSchedule` is
merged with the date index. One worker takes all units: what is below a unit
depends on the unit alone, and who takes which unit is the subject of `SchedulerPool`. The
cache of elective counts is a variable, keyed by schedule and version as in the code.
The iteration order of the set of semesters is part of the request, since
Python does not fix it. Left out: the slow path of
`_remaining_slots_after_seed` (seeds that are not a prefix of the slots), which
the partitioner never produces.

**Run `search_all`** (23,286 states; 213 requests): two moedim whose periods overlap or
not, three electives, a cohort of three, two semesters with a selection, periods too
short for their exams; every rule alone at its boundary values, and
all together; 5 desired units and depth 2 of up to 4 slots, so units are split
twice, at the depth limit, and left partial. Some searches are stopped by a limit of 3 or
by the user at any step. Partition and search report exactly the valid schedules, once
each (`ImplementsEnumeration`); indexes, elective cache and scores stay exact through every undo
(`IndexesAgree`, `CacheIsFresh`, `ScoresFollowSchedule`); a request is rejected only if nothing
meets the rules (`InfeasibleMeansImpossible`); a schedule passes a rule with k exactly when its
score is as good as k (`SortingAgreesWithFiltering`; for the span only one way, since the
score is that of the widest group and the rule asks for every group).
`IndexesAgree` depends on the moed rule: `pop_last_assignment` removes a course from the
index of a date without looking for another exam of the course on it, which is right only
because no schedule has two.

The span index is kept per course, not per slot semester. `ConstraintsConfig.validate`
guarantees k >= 1, except for the elective cap, which may be 0. The score from scratch is used by
`on_schedule_found` only; the GUI path uses the incremental state.

**Fairness**: weak fairness of the worker's own progress; `Cancel` is not fair.

### Proofs of the search

`ExamSearchProofs.tla` proves `IndexesAgree`, `CacheIsFresh` and `TypeOK` for any courses, periods, rules, selection
and limits, however deep the recursion goes and wherever the user stops it. What is used of the slots is `SlotAssumption`
(each slot is of a selected course, one of the three moedim, with ordinals as its dates): `BuildSlots` sorts, and that a sort returns what it was
given is induction over data. TLC evaluates the assumption for each of the 213 requests.

No property is inductive. Two placements commute with their undos only if the course had no exam on the date, which no line of `ExamSchedule`
checks. `SearchInv` says why it is so:

* every frame of the recursion placed exactly what the schedule held when it chose its slot, and at most one exam more
  (`Base`, `FrameInv`), so `Undo` takes away what its own frame placed, and not a seed;
* a date that forward checking leaves to a slot has no exam of the slot's course (`NotRejectedIsApart`,
  `NarrowIsFree`): this is the moed rule, which is never disabled. The dates a frame has not tried yet stay free, because
  they are free of the exams placed when it chose its slot, and those stand as long as the frame does (`Free`, `FrameStands`);
* every slot is placed or in a domain that is still open (`Covered`), so what is reported dates every slot;
* a schedule that is just seeded has no frame below its seeds: they are never undone, so for them nothing has to be known about the dates;
* the cache's key is never ahead of the schedule: identity and version only grow (`CacheInv`);
* the score state has one undo entry per placed exam (`ScoreInv`), the units to split are not deeper than the limit (`PartitionInv`).

The parts take the state they speak of as arguments (`BacktrackInv(schedule, domains, stack, calling, depth)`), so a step lemma states
its new state once and `InvariantAfter` puts the parts together. A fold over a sequence is a function defined by
recursion; that it exists, and how its value at n + 1 follows from that at n, is proved (`FoldExists`), and a fact about a fold is
proved by a least counterexample (`HasLeast`), since the induction theorem cannot be instantiated. Forward checking is written as the
fold it is in the code (`Surviving`) for this reason.

**Model-checked only**: `InfeasibleMeansImpossible`, `ScoresFollowSchedule`, `SortingAgreesWithFiltering` and
`ImplementsEnumeration`. They compare a sort, a greedy bound or an incremental sum with a definition over the whole request, so each needs an
induction over the data of its own.

## 5. Input

`InputImport.tla` follows `FileImportService.load_file`: validate
and remember the path (`StartLoad`), ask the cache (`LoadCache`, `MissCache`), parse and
merge (`ParseFails`, `ParseAndMerge`), write the cache (`Persist`, `PersistFails`), while
other programs change files (`ChangeFile`) and lose the cache (`LoseCache`), and the user
restarts (`Restart`). `InputScreen.tla` puts the screen over it: the load buttons, the
calendar editor (`ExclusionModel.tla`), the choice of programs, the settings, the gate of the Generate
button with its dirty flag, and what a run is started with.

**Abstractions.** A course is its id and a version, a period its range and
excluded dates, a hash the content it was taken of (SHA-256 has no collisions here).
Parsers reject duplicate ids and keys, so a content is a function. `Missing` stands for a file that
fails validation or cannot be read, `Broken` for one that passes and does not parse, `Blank` for
one with characters and no record; their messages are left out. `DiskCacheRepository.save` renames a complete file, so a
crash leaves the old cache: `Persist` is one step. The order of the editor's periods is
abstracted. Programs and calendar may be edited while a run is going on, as in the code. `seen`, what the file of a load
held since the load began, `outcome`, `wanted` and `lastRun` are history.

`faults` is what may happen in a behaviour, chosen in `Init`; each property names the
faults it does not withstand:

| Property of `input_sessions` | Fails under | How |
| --- | --- | --- |
| `SuccessMeansLoaded`: a load that succeeds has loaded its file | broken file; change in session; edits | see `import_changed_file`; a path whose parse failed stays remembered, and the next cache carries its hash; a cache written after an edit answers with the edit |
| `CacheHoldsItsFiles`: the cache holds the data of the files it has hashes of | the same | the same cache files |
| `UpdateMerges`: UPDATE drops nothing and touches its own type only | failed write (also because a file went missing), broken file, edits | an older cache matches the loaded files and replaces the state, without the unwritten merge or the edits |
| `RunGetsWhatIsWanted`: a run is given the periods the user sees | failed write | an older matching cache answers a courses UPDATE and brings back periods the editor lacks (two period files and five loads); a comment of `FileImportService` says "the next load simply re-parses instead of hitting a fast cache" |
| `ScreenShowsState`: the screen offers what is loaded | the same | the same |
| `ReplaceIsFresh`: REPLACE leaves exactly what the file held | nothing | |
| `NothingNewMeansSame`: while Generate says nothing changed, all inputs are those of the last run | nothing | |

The conditions on failed writes of `RunGetsWhatIsWanted` and `ScreenShowsState` and on broken files
of `UpdateMerges` were found by the proofs: within the bounds of the run the properties held without them.

`import_changed_file` (violation): `persist` hashes the
files when it writes the cache, not when they were parsed, so a file that
changed in between is stored with its new hash and its old data, and the next UPDATE of it is
answered by the cache.

**Seen while modelling.** Edits are applied before the file dialog opens, also when it is
cancelled. Only the period on display is checked, with `<=`, and moving to another one does
not refresh the gate, so Generate can be enabled with unusable dates
(`gui/features/input/InputScreen.py:328`): applying then raises, and the global hook shows
"Unexpected Error"; loads are refused alike until the dates are fixed. A refused
Generate (no programs) clears the dirty flag and hides View Results though results exist. After a
failed run the flag stays down.

**Bounds** (about 1.26 million states): three loads, two changes or faults, one restart, two course
files and a period file, six clicks: UPDATE after UPDATE of the other file of a type, of the
other type, and after a restart all occur. There is no fairness and no liveness: a load is sequential code.

### Proofs

`InputScreenProofs.tla` proves every property of `input_sessions` for any files, contents, faults,
editors and number of clicks: `ScreenTypes`, `SuccessesAreLoaded`, `ReplacesAreFresh`, `CachesHold`,
`UpdatesMerge`, `RunsGetWhatIsWanted`, `ScreenIsInStep`, `NothingNewIsSame`, from one inductive invariant
`ScreenInv` (`ScreenInvariant`) in four layers:

1. `EditorInv`: what the editor hands out is `wanted`, whatever copy an edit lies in.
2. `FreshInv`, `HeldInv`: what is in the session and in the cache is made of the files,
   `HeldInv` while every file parses and nothing is edited.
3. `OfferInv`, `SyncInv`, `PlainInv`, `DataHasPaths`: a cache written after every merge is the session, so a
   cache that answers a load of one type changes nothing of the other, which the
   handler does not show again.
4. `SameInv`: what the last run was given is what there is, until a handler raises the flag.

## 6. From the repository to the screen

`ScheduleRepository.tla` models `SQLiteScheduleRepository` with the steps between its
locks: an insert reads the offset (`ReadOffset`), commits rows and scores (`CommitInsert`, `FailInsert`) and counts
them (`CountInsert`); a clear deletes rows, forgets signatures and resets the count in three
steps; an index is built and signed in two. `RepositorySpec` is the contract under which that is
correct: one writer at a time, and no clear while a writer is between its steps.
`ScheduleStore.tla` is the promise: a list that grows by whole batches and is cleared as a whole.

`ResultBrowsing.tla` puts the program over it: the listener thread of a run (`BeginBatch`,
`AnnounceBatch`, `ListenerEnds`) and the signals it posts, the controller's and presenters' handlers
(`DeliverBatch`, `DeliverFinished`, `DeliverError`, `DeliverSorted`), the steps of `generate_schedules`
(`ClickGenerate`, `StopOldRun`, `ForgetSignatures`, `ForgetCount`, `ClearAgain`, `StartRun`, `Connect`), the sort
workers (`CheckIndex`, `IndexSort`, `ReadSorted`, `EmitSorted`, `SortFails`), the window of results
(`ResultWindow.tla`), the paging (`SolutionPaging.tla`) and the screens (`ScreenRouter.tla`).

**Run `browse_results`** (419,180 states): two runs, batches of one and two schedules, a window of two,
two criteria with ties, three clicks that sort, cancel or generate, at most one fault, taken at any step
(an insert that fails, a sort that fails, signals that are lost).

| Property | Says |
| --- | --- |
| `ShownIsSelected` | the calendar shows the schedule the index and the page stand for |
| `SettledPageIsSlice` | with nothing under way, the page is a slice of the sorted whole and all counters on it are up to date |
| `ResultsReachable` | results that were saved can be looked at, however the run ended |
| `CountedAreStored`, `RepositorySteps` | the repository keeps what it counts, because it is used as it is meant to be |
| `RunningEnds` | a run does not keep the user waiting forever |

**Assumptions.** Qt delivers posted signals before the next click. A cancelled listener ends before the next run's clear
(`pool_impatient` looks at what happens otherwise; a late listener would corrupt the count,
comment at `infrastructure/repositories/SQLiteScheduleRepository.py:168`). **Fairness**: threads run and
the GUI thread delivers what is posted and completes its own handlers; clicks are not fair.

**Exempt, and why.** `disturbed` marks behaviours in which sorts overlap: `SortLifecyclePresenter.start` replaces a worker
that still runs without disconnecting it, and `stop` disconnects the current one only, so an older
result may arrive last, after the screen was left, or even in the next run. A failed sort leaves the
chosen order and the order shown different. When the listener runs before its
signals are connected (`application/AppController.py:181`) what it posts is lost: `fault = "unheard"`.
A failed insert is never rolled back: its batch stays behind the counter until the next clear.
A run that finishes while the output screen is left and a sort is active shows an outdated sorted page on return.

### Proofs

* `ScheduleRepositoryProofs`: for any number of writers, batches and orders, `RepositoryInvariant`,
  `CountedAlwaysStored` (`CountedAreStored`), `RepositoryImplementsStore`. What is not counted yet lies above the
  counter, and rows, scores and count agree between the steps of their writer.
* `ResultBrowsingProofs`: for any number of runs, clicks, faults, findings, orders and screens. `BrowsingInvariant`:
  one listener is alive at a time, every clear has waited for it, what it posted is what it saved
  (`FlowInv`, `FoundInv`), and the sort workers hold orders of the user (`OrdersInv`). From it `RepositoryIsUsedWell`
  (`RepositorySteps`): every step of the program is a step of the repository's contract; so everything that was
  proved of `RepositorySpec` carries over: `CountedStoredWhileBrowsing`, `BrowsingImplementsStore`.
  `SavedIsReachable` (`ResultsReachable`): while something is counted, the way to the output is open, or
  the signal that opens it is queued.
* `ResultViewProofs`: the pages, for any scores, orders, findings and window size. None of the three properties is
  inductive: a page is right because of what was read earlier on another thread, and a calendar because of a
  window that was filled when fewer results were stored. `ViewInv` says what holds of everything on its way:
  * what a window lists is stored, and what it remembers is what is stored there (`ValidWindow`). Inserts keep
    that; a clear happens only while no results are visible and the window is the first one (`ScreensInv`, `WindowInv`);
  * a sort that was not overtaken is the last one, belongs to the screen that is shown, and what it has read is
    stored (`SortsInv`). So whatever is delivered leaves the calendar with the schedule it stands for
    (`ShownInv`): `ShownAlwaysSelected` (`ShownIsSelected`);
  * the end of a run comes after its last insert, and it starts over on the page or sorts it again. From then on the
    page, the sort that reads and the signal on its way have all there is, in the order chosen last
    (`FreshInv`): `SettledAlwaysSlice` (`SettledPageIsSlice`);
  * there is a number for every sort that the end of a run will start, although a cancelled run ends twice
    (`NumbersInv`): with the rest, `BrowsingTyped` (`TypeOK`).

  The lemmas show that the order of a sorted page is total (`RowsAreOrdered`), so that the rows can be put in it
  (`RowsCanBeSorted`): otherwise the `CHOOSE` of `SortedIds` would promise nothing. A page that is there is never empty
  (`PageBegins`, `SortedPage`).
* `RepositorySteps` held within the bounds of the run before it held: a sort worker of an earlier run
  can deliver a page whose order's signature the clear has forgotten; paging it then builds and signs
  the index in one step on the GUI thread, which the contract did not have. `EnsureSortIndexes` is now a step of the
  repository.

## 7. Families of schedules

`ClusterSession.tla` models the session (`ClusterSessionController`), its coordinators, both worker threads, the
overview with its cards and the screens of one family and of two, while runs start, grow and end.
`Clustering.tla` is the engine: the sample, k-means++ seeds and Lloyd's loop of the
repository's own K-means (scikit-learn's is external), the silhouette choice of K, the families. The
generators are seeded, so a question has one answer: an operator gives the set of possible
results and a worker takes one fixed member.

**Run `cluster_session`** (427,656 states): two runs of up to four results, a sample of three, two workers, five
clicks or failures.

| Property | Says |
| --- | --- |
| `FamiliesDivideSample` | for every number of results and every k, whatever is drawn, there is an answer and its families divide the sample |
| `AnswersItsRequest` | a request gets families by its criteria and as many as it asks for |
| `ShownBelongsToFamily` | what the screens show is the member or the representatives of the cards, of the results that were clustered |
| `VisitIsCompleteUnlessLate` | a visit after a run sees the families of all its results |
| `BusyEnds` | the overview is not busy forever (weak fairness of workers and of delivery) |

Two exemptions: `late`, a run that ends while families are computed - the worker then commits families of part
of the results after the invalidation (`application/services/ClusterSessionController.py:203`; a comment at
`application/AppController.py:430` promises that the next visit computes on the complete results); and `eager`, cards checked while new ones are computed.
Also seen: the last k is kept after an invalidation and never asked for; the detail screen says it redirects and does not;
an automatic-K request on a coordinator prepared with a fixed K uses the old K; Apply-K works while the overview is
busy, the request button does not. Screens that will be given something new before they are entered again forget what they
showed once the overview is back. Preparing and clustering are one step. An exception raised while a delivered bundle is
put on the screen is left out. The synchronous calls no screen uses are left out.

### Proofs of the session

`ClusterSessionProofs.tla` proves `TypeOK`, `AnswersItsRequest`, `ShownBelongsToFamily` and `VisitIsCompleteUnlessLate` for
any numbers of runs, results, workers, coordinators and clicks. The hypothesis of each is `EngineDivides`, the formula that
`FamiliesDivideSample` checks: K-means is a loop over its points, so what it computes is induction over data. TLC evaluates
it for every number of results and every number of families of the instance, reached or not; nothing else is assumed of the engine. The properties are far from inductive. The invariant, `ClusterInv`, says of the session (`EngineInv`):

* a coordinator that nobody refers to is as new, and one worker at most will prepare it (`CoordinatorInv`, `SoleInv`):
  otherwise a request could find its vectors replaced between the look at the criteria and the use (`RequestInv`);
* the session's coordinator is of the current run, and so is that of the worker the overview waits for
  (`SessionInv`, `HeardInv`), because both ends of a run invalidate;
* unless the run ended while families were computed, session, coordinator and awaited worker have the same sample
  (`InTimeInv`), and after the run it is the whole one (`WholeInv`); this is where `late` is needed;

and of the screens (`ViewInv`): each has one way back (`RouteInv`), which is why a run cannot start behind an open
family; only the overview waits for a worker (`VisitInv`); a selected family has a card unless `eager` (`OverviewInv`); what
the screens of one family and of two show is read through the coordinator that was clustered (`DetailInv`, `CompareInv`).

### Requests

`RequestedFamilies.tla` models what the worker threads do before they cluster: a request in the
user's words through the cache, the language model or the keyword parser (`ClusterRequests.tla`), the extended features of the sample
computed and stored batch by batch (`ScheduleFeatures.tla`, `PackedScheduleCodec.tla`), the vectors read; and what is
said of the families (`FamilyTraits.tla`).

**Run `cluster_requests`** (140,219 states): two threads, three requests, visits or openings, a cache of one (20 in
the code), two runs with different candidate days, batches of three and one schedules, a sample of three.

| Property | Says |
| --- | --- |
| `AnswerIsForItsText` | the engine is told what the text or the model's reply asks for, never another text's answer, never keywords while the model is at hand |
| `VectorsBelongToRows` | the vectors clustered are the features of the sample's schedules, as `Natural` counts them, whoever computed them |
| `CardsAreTrue` | what a card says a family has more of, its exams have more of; of equal families nothing is said, but for rounding; bars follow the scores |

`cluster_ratings` (violation): the ratings of a comparison invert scores that are stored inverted already.

**Where the repository disagrees with itself.** `Natural`, the reference for `compute`, is what the program counts; it is
not what every text of the repository says:

* `logic/clustering/CriterionMetadata.py:65` speaks of the times "a student has mandatory exams on consecutive days".
  `ExtendedFeatureComputer._mandatory_consecutive_days` (`:191`) puts the mandatory days of all programs together:
  schedule `a` of the instance has such a pair, of two programs, and no student has both exams.
* `CriterionMetadata.py:66` speaks of the percentage of all exams; the program (`:200`) takes the share of the steps within each
  program. `:61` speaks of the days students have before an exam; the program (`:164`) takes the days since anybody's last one.
* `docs/clustering-overview.md:105` lists the longest rest as "Longer recovery window" and does not mark it as stored
  negated. `ExtendedFeatureComputer.py:159` stores it negated, and `LOWER_IS_BETTER_CRITERIA` and the phrases
  (`CriterionMetadata.py:78`, `:140`) agree with that: the shorter rest is the better one. The model follows the code.

**Equal families.** `ClusterSummarizer.py:66` asks whether a deviation is 0, of means in floating point. The test
`tests/logic/unit/Test_ClusterSummarizer.py:60-73` has families that are equal at 5.0, where it is. Three families whose
exams are 5.4 days apart have the float mean 5.400000000000001, so each has a z of -1 and is described by "exams bunched
closely"; `ViewModelMapper.py:237` guards the same division with `std > 1e-9`. In the model anything may be said of equal families
unless all the sums are exact (`SummaryIsExact`, `MeanIsExact`), and `CardsAreTrue` lets off the ones of which that is not known. It is a defect
of the code, found by calculation; no run shows it.

**Numbers.** Features are counted in units of 1/60 (`Scale`): the instance has at most five gaps to take an average of. The
deviation of the gaps is a root, rounded down to such a unit: which of two family means of it is the greater is only
known if they are further apart than that. Means of families are exact (`FamilyScale` is a multiple of their sizes): floats
err in the last places, far less than families differ that are not equal. At exactly 0.6 deviations the model
always speaks, where the float may fall on either side. Rounding is monotone, so the bars of two families that differ keep
their order.

Also seen: two threads that evict take the same victim and the request of one fails though the model had answered; an entry may be
evicted between the `in` and the lookup; weights that are all 0 pass `validate` and cannot run; the
`ValueError` fallback of `parse` is unreachable; the keyword parser's docstring and
`docs/clustering-overview.md:66` say that keywords stand in for a failing model, the code raises. A worker that sampled
before a clear may overwrite rows of the new run: `torn`, exempt. A blob is fetched and decoded in one step.
Compression and rounding for display are left out. A course examined in
two semesters counts in the moed-gap features only with its last exams.

## 8. What is proved and what is only checked

The theorems a reader should know of are listed under `theorems` in `PROJECT.json`. They hold for every value
of the constants that meets the named assumption of the module, which TLC evaluates on every run; hypotheses
beyond that (`Impatient = FALSE`, `PromptFeeder = TRUE`, `EngineDivides`) are in the theorem; section 3 says what fails without
the first two, section 7 why the third is one.
Each rests on one inductive invariant, built of named parts; the parts were checked by TLC before they were proved.

Left to TLC:

* liveness (`EveryRunEnds`, `WorkersLeave`, `RunningEnds`, `BusyEnds`, the end promised by `ScheduleEnumeration`): fairness and ENABLED
  are out of the prover's reach;
* what the algorithms compute (bounds, scores, the complete set of schedules, K-means, features, requests): folds, selections and sorts
  over sequences need induction over data, for which the installed provers cannot use the library's theorems. In `ExamSearch` these are
  `InfeasibleMeansImpossible`, `ScoresFollowSchedule`, `SortingAgreesWithFiltering` and the refinement `ImplementsEnumeration`;
* `FamiliesDivideSample` and the properties of `RequestedFamilies`, for the same reason; the theorems about `ClusterSession` have
  what the former checks as their hypothesis.

## 9. Not modelled

* A worker's check that its parent is alive, CPU affinity, and the lazy
  creation of the pool (`ensure_pool_started` is `Init`).
* A process that dies while it holds a queue's lock or the counter's lock.
* PROGRESS messages (not sent on this path), malformed messages and other IPC
  errors, and the listener mode that owns its processes.
* Saturation of the work queue (it is unbounded) and memory.
* Exports: the dialog that asks for a file re-reads the current index after it closes.
* Parsing and validation of text formats, error messages, formatting, styles, widgets and entry points: see
  `components` in `PROJECT.json` for each part and its status.
