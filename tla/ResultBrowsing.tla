---------------------------- MODULE ResultBrowsing ----------------------------
(***************************************************************************)
(* The results of a run on their way to the user: the listener thread that *)
(* saves them, the signals it posts to the GUI thread, the controller and  *)
(* the presenters that react to them, the sort workers, and the user who   *)
(* starts and cancels runs, pages, sorts, and moves between the screens.   *)
(*                                                                         *)
(* The GUI thread does one thing at a time and delivers the signals in the *)
(* order they were posted; Qt delivers what is posted before the next      *)
(* click.  The pool behind the listener is the subject of SchedulerPool:   *)
(* here a run finds one of Findings, batch by batch, and a cancelled       *)
(* listener ends before the next run starts.                               *)
(***************************************************************************)
EXTENDS SolutionPaging, ScreenRouter

CONSTANTS
    NumRuns,     \* bound: how often the user generates
    MaxClicks,   \* bound: for runs and sorts together
    Findings     \* what a run may find: sequences of batches

Runs == 1 .. NumRuns
\* A sort that the user applies, or the one that search_finished starts: for a run that is
\* cancelled it is emitted twice.
SortIds == 1 .. MaxClicks + 2 * NumRuns

ASSUME BrowsingAssumption ==
    /\ Writers = Runs
    /\ Screens = {"input", "output", "clusters"} /\ Home = "input"
    /\ NumRuns \in Nat /\ MaxClicks \in Nat
    /\ \A found \in Findings :
          /\ found \in Seq(Rows)
          \* Altogether at most MaxCount schedules: total[i] are in the first i batches.
          /\ \E total \in [0 .. Len(found) -> 0 .. MaxCount] :
                /\ total[0] = 0
                /\ \A i \in 1 .. Len(found) : total[i] = total[i - 1] + Len(found[i])

VARIABLES
    fault,       \* history: what went wrong in this run, at most one thing, or "none"
    gui,         \* where the GUI thread is: "idle", or a step of generate_schedules
    run,         \* the last run
    listener,    \* per run: "none", "running", "cancelled", "ended"
    todo,        \* the batches the current run has yet to save
    worker,      \* AppController._worker, 0 when there is none
    earlyNav,    \* AppController._early_nav_fired
    sortConfig,  \* AppController._current_sort_priority
    gen,         \* GenerationPresenter: [running, navigated, visible]
    sorts,       \* the SortWorker threads: [pc, order, ids]
    lastSort,    \* the last one that was started
    sortWorker,  \* SortLifecyclePresenter.worker, 0 when there is none
    dropped,     \* the ones whose signals are disconnected
    events,      \* signals posted to the GUI thread
    disturbed    \* history: a sort overlapped another one, a leave, or the end of the run

flowVars == <<gui, run, listener, todo, worker, earlyNav, gen>>
sortVars == <<sorts, lastSort, sortWorker, dropped>>
browsingVars == <<repositoryVars, clearing, pagingVars, routerVars, fault, flowVars,
                  sortConfig, sortVars, events, disturbed>>

NoSort == [pc |-> "none", order |-> <<>>, ids |-> <<>>]

Init ==
    /\ InitRepository /\ clearing = "no"
    /\ win = FirstWindow /\ pag = NoPaging /\ shown = NothingShown
    /\ InitRouter
    /\ fault = "none"
    /\ gui = "idle" /\ run = 0 /\ todo = <<>> /\ worker = 0 /\ earlyNav = FALSE
    /\ listener = [r \in Runs |-> "none"]
    /\ gen = [running |-> FALSE, navigated |-> FALSE, visible |-> FALSE]
    /\ sortConfig = <<>>
    /\ sorts = [i \in SortIds |-> NoSort] /\ lastSort = 0 /\ sortWorker = 0 /\ dropped = {}
    /\ events = <<>> /\ disturbed = FALSE

Event(kind, of) == [kind |-> kind, of |-> of, order |-> <<>>, ids |-> <<>>]

Idle == gui = "idle"
\* The user clicks.
Clicks == Idle /\ events = <<>>
Active == current = "output"

InFlight(i) ==
    sorts[i].pc \notin {"none", "done"} \/ \E j \in DOMAIN events : events[j].of = i /\ events[j].kind = "sorted"
Sorting == \E i \in SortIds : InFlight(i)

-----------------------------------------------------------------------------
(***************************************************************************)
(* SchedulerWorker.run, the listener of a run.  Its signals reach nobody   *)
(* while they are not connected.                                           *)
(***************************************************************************)
Live(r) == listener[r] \in {"running", "cancelled"}
Heard(r) == worker = r /\ gui # "connecting"
Post(event) ==
    events' = IF Heard(event.of) THEN Append(events, event) ELSE events

\* What the last run lost or failed at; what a run that was given up does is of no interest.
Notes(r, what) ==
    fault' = IF worker # r THEN fault ELSE IF gui = "connecting" THEN "unheard" ELSE what

ListenerVars == <<clearing, pagingVars, routerVars, gui, run, worker, earlyNav, gen,
                  sortConfig, sortVars, disturbed>>

BeginBatch(r) ==
    /\ Live(r) /\ insert[r].pc = "idle" /\ todo # <<>>
    /\ ReadOffset(r, Head(todo)) /\ todo' = Tail(todo)
    /\ UNCHANGED <<ListenerVars, fault, listener, events>>

SaveBatch(r) ==
    /\ CommitInsert(r)
    /\ UNCHANGED <<ListenerVars, fault, listener, todo, events>>

AnnounceBatch(r) ==
    /\ CountInsert(r) /\ Post(Event("batch", r)) /\ Notes(r, fault)
    /\ UNCHANGED <<ListenerVars, listener, todo>>

\* _emit_ipc_error: the handler raised, the loop is left.
BatchFails(r) ==
    /\ fault = "none" /\ Notes(r, "insert")
    /\ FailInsert(r) /\ Post(Event("error", r))
    /\ listener' = [listener EXCEPT ![r] = "ended"]
    /\ UNCHANGED <<ListenerVars, todo>>

\* All workers reported FINISHED; those of a cancelled run stop early.
ListenerEnds(r) ==
    /\ Live(r) /\ insert[r].pc = "idle"
    /\ \/ /\ todo = <<>> \/ listener[r] = "cancelled"
          /\ Post(Event("finished", r)) /\ Notes(r, fault)
       \/ fault = "none" /\ Notes(r, "run") /\ Post(Event("error", r))
    /\ listener' = [listener EXCEPT ![r] = "ended"]
    /\ UNCHANGED <<ListenerVars, repositoryVars, todo>>

Listen(r) == BeginBatch(r) \/ SaveBatch(r) \/ AnnounceBatch(r) \/ BatchFails(r) \/ ListenerEnds(r)

-----------------------------------------------------------------------------
(***************************************************************************)
(* The sort workers.                                                       *)
(***************************************************************************)
\* start() replaces the worker; what it replaces stays connected.
StartSort(order) ==
    LET i == lastSort + 1
    IN /\ lastSort' = i /\ sortWorker' = i
       /\ sorts' = [sorts EXCEPT ![i] = [pc |-> "check", order |-> order, ids |-> <<>>]]
       /\ UNCHANGED dropped

\* SortLifecyclePresenter.stop: only the current worker is disconnected, if it still runs.
StopSort ==
    /\ sortWorker' = 0
    /\ dropped' = IF sortWorker # 0 /\ sorts[sortWorker].pc # "done"
                  THEN dropped \cup {sortWorker} ELSE dropped
    /\ UNCHANGED <<sorts, lastSort>>

SortStays == <<batches, scored, count, insert, clearing, pagingVars, routerVars, flowVars,
               sortConfig, lastSort, sortWorker, dropped, disturbed>>

GoOn(i, pc) == sorts' = [sorts EXCEPT ![i].pc = pc]

CheckIndex(i) ==
    /\ sorts[i].pc = "check"
    /\ GoOn(i, IF NeedsIndex(sorts[i].order) THEN "index" ELSE "read")
    /\ UNCHANGED <<SortStays, fault, indexVars, events>>

IndexSort(i) ==
    \/ /\ sorts[i].pc = "index" /\ BuildIndex(sorts[i].order) /\ GoOn(i, "sign")
       /\ UNCHANGED <<SortStays, fault, events>>
    \/ /\ sorts[i].pc = "sign" /\ SignIndex(sorts[i].order) /\ GoOn(i, "read")
       /\ UNCHANGED <<SortStays, fault, events>>

ReadSorted(i) ==
    /\ sorts[i].pc = "read"
    /\ sorts' = [sorts EXCEPT ![i].pc = "emit", ![i].ids = compute_sort_data(sorts[i].order)]
    /\ UNCHANGED <<SortStays, fault, indexVars, events>>

EmitSorted(i) ==
    /\ sorts[i].pc = "emit"
    /\ events' = IF i \in dropped THEN events
                 ELSE Append(events, [kind |-> "sorted", of |-> i,
                                      order |-> sorts[i].order, ids |-> sorts[i].ids])
    /\ sorts' = [sorts EXCEPT ![i] = [NoSort EXCEPT !.pc = "done"]]
    /\ UNCHANGED <<SortStays, fault, indexVars>>

\* The query raises: failed is emitted, and the screen has no way to show it.
SortFails(i) ==
    /\ sorts[i].pc = "read" /\ fault = "none" /\ fault' = "sort"
    /\ sorts' = [sorts EXCEPT ![i] = [NoSort EXCEPT !.pc = "done"]]
    /\ UNCHANGED <<SortStays, indexVars, events>>

Sort(i) == CheckIndex(i) \/ IndexSort(i) \/ ReadSorted(i) \/ EmitSorted(i) \/ SortFails(i)

-----------------------------------------------------------------------------
(***************************************************************************)
(* generate_schedules, cancel_scheduling and what GenerationPresenter does *)
(* before and after.                                                       *)
(***************************************************************************)
ClickGenerate ==
    /\ Clicks /\ current = "input" /\ ~gen.running
    /\ run < NumRuns /\ run + lastSort < MaxClicks
    /\ gen' = [running |-> TRUE, navigated |-> FALSE, visible |-> FALSE]
    /\ listener' = [r \in Runs |-> IF Live(r) THEN "cancelled" ELSE listener[r]]
    /\ worker' = 0 /\ gui' = "stopping"
    /\ disturbed' = Sorting /\ fault' = "none"
    /\ UNCHANGED <<repositoryVars, clearing, pagingVars, routerVars, run, todo, earlyNav,
                   sortConfig, sortVars, events>>

\* Mutant: the flag of the last run is kept.
StopOldRun_KeepsFlag ==
    /\ gui = "stopping" /\ \A r \in Runs : ~Live(r)
    /\ sortConfig' = <<>> /\ win' = FirstWindow
    /\ ClearRows /\ clearing' = "signatures" /\ gui' = "clearing"
    /\ UNCHANGED <<pag, shown, routerVars, fault, run, listener, todo, worker, earlyNav, gen,
                   sortVars, events, disturbed>>

\* Mutant: the old listener is not waited for.
StopOldRun_NoWait ==
    /\ gui = "stopping"
    /\ earlyNav' = FALSE /\ sortConfig' = <<>> /\ win' = FirstWindow
    /\ ClearRows /\ clearing' = "signatures" /\ gui' = "clearing"
    /\ UNCHANGED <<pag, shown, routerVars, fault, run, listener, todo, worker, gen,
                   sortVars, events, disturbed>>

\* The wait for the old listener ends, and set_schedules([]) begins.
StopOldRun ==
    /\ gui = "stopping" /\ \A r \in Runs : ~Live(r)
    /\ earlyNav' = FALSE /\ sortConfig' = <<>> /\ win' = FirstWindow
    /\ ClearRows /\ clearing' = "signatures" /\ gui' = "clearing"
    /\ UNCHANGED <<pag, shown, routerVars, fault, run, listener, todo, worker, gen,
                   sortVars, events, disturbed>>

ClearStays == <<pagingVars, routerVars, fault, run, listener, todo, worker, earlyNav, gen,
                sortConfig, sortVars, events, disturbed>>

ForgetSignatures ==
    /\ clearing = "signatures" /\ ClearSignatures /\ clearing' = "count"
    /\ UNCHANGED <<ClearStays, gui>>

ForgetCount ==
    /\ clearing = "count" /\ ClearCount /\ clearing' = "no"
    /\ gui' = IF gui = "clearing" THEN "clear_again" ELSE "starting"
    /\ UNCHANGED ClearStays

\* generate_async clears once more.
ClearAgain ==
    /\ gui = "clear_again" /\ clearing = "no"
    /\ ClearRows /\ clearing' = "signatures" /\ gui' = "clearing_again"
    /\ UNCHANGED ClearStays

\* The listener is started before its signals are connected.
StartRun ==
    /\ gui = "starting"
    /\ run' = run + 1 /\ worker' = run'
    /\ listener' = [listener EXCEPT ![run'] = "running"]
    /\ todo' \in Findings
    /\ gui' = "connecting"
    /\ UNCHANGED <<repositoryVars, clearing, pagingVars, routerVars, fault, earlyNav, gen,
                   sortConfig, sortVars, events, disturbed>>

Connect ==
    /\ gui = "connecting" /\ gui' = "idle"
    /\ UNCHANGED <<repositoryVars, clearing, ClearStays>>

\* The input is infeasible: error_occurred.
Refuse ==
    /\ gui = "starting"
    /\ run' = run + 1 /\ gen' = [gen EXCEPT !.running = FALSE] /\ gui' = "idle"
    /\ UNCHANGED <<repositoryVars, clearing, pagingVars, routerVars, fault, listener, todo, worker,
                   earlyNav, sortConfig, sortVars, events, disturbed>>

Generate == ClickGenerate \/ StopOldRun \/ ForgetSignatures \/ ForgetCount \/ ClearAgain
            \/ StartRun \/ Connect \/ Refuse

\* The output screen is entered when it is navigated to.
NavigateToOutput ==
    /\ Show("output")
    /\ gen' = [gen EXCEPT !.running = FALSE, !.navigated = TRUE, !.visible = TRUE]
    /\ Enter(win, pag)

\* Mutant: the active sort is not done again.
SearchFinished_NoResort ==
    /\ IF ~gen.navigated /\ count > 0
       THEN NavigateToOutput
       ELSE /\ gen' = [gen EXCEPT !.running = FALSE]
            /\ UNCHANGED routerVars
            /\ IF Active /\ win.priority = <<>> THEN ResetToFirst(win, pag) ELSE UNCHANGED pagingVars
    /\ UNCHANGED <<sortVars, disturbed>>

\* search_finished: GenerationPresenter, then OutputScreenPresenter.  An active sort is done
\* once more, on a worker, when the screen is shown.
SearchFinished ==
    /\ IF ~gen.navigated /\ count > 0
       THEN NavigateToOutput
       ELSE /\ gen' = [gen EXCEPT !.running = FALSE]
            /\ UNCHANGED routerVars
            /\ IF Active /\ win.priority = <<>> THEN ResetToFirst(win, pag) ELSE UNCHANGED pagingVars
    /\ IF current' = "output" /\ win.priority # <<>> THEN StartSort(win.priority) ELSE UNCHANGED sortVars
    /\ disturbed' = (disturbed \/ Sorting \/ (current' # "output" /\ win.priority # <<>>))

ClickCancel ==
    /\ Clicks /\ current = "input" /\ gen.running
    /\ IF worker # 0 /\ listener[worker] = "running"
       THEN listener' = [listener EXCEPT ![worker] = "cancelled"] /\ SearchFinished
       ELSE /\ gen' = [gen EXCEPT !.running = FALSE]
            /\ UNCHANGED <<listener, routerVars, pagingVars, sortVars, disturbed>>
    /\ UNCHANGED <<repositoryVars, clearing, fault, gui, run, todo, worker, earlyNav, sortConfig, events>>

-----------------------------------------------------------------------------
(***************************************************************************)
(* The GUI thread delivers the next signal.                                *)
(***************************************************************************)
Deliver(kind) == Idle /\ events # <<>> /\ Head(events).kind = kind /\ events' = Tail(events)
DeliverStays == <<repositoryVars, clearing, fault, gui, run, listener, todo, worker>>

\* _handle_schedules_batch_found.
DeliverBatch ==
    /\ Deliver("batch")
    /\ IF ~earlyNav /\ count > 0
       THEN /\ earlyNav' = TRUE
            /\ IF gen.navigated
               THEN /\ pag' = IF Active THEN TotalCountUpdated(pag) ELSE pag
                    /\ UNCHANGED <<gen, routerVars, win, shown>>
               ELSE /\ Show("output") /\ Enter(win, pag)
                    /\ gen' = [gen EXCEPT !.navigated = TRUE, !.visible = TRUE]
       ELSE /\ pag' = IF Active THEN TotalCountUpdated(pag) ELSE pag
            /\ UNCHANGED <<earlyNav, gen, routerVars, win, shown>>
    /\ UNCHANGED <<DeliverStays, sortConfig, sortVars, disturbed>>

\* _handle_search_finished.
DeliverFinished ==
    /\ Deliver("finished")
    /\ earlyNav' = FALSE
    /\ SearchFinished
    /\ UNCHANGED <<DeliverStays, sortConfig>>

\* Mutant: the generation screen is not told.
DeliverError_Silent ==
    /\ Deliver("error")
    /\ UNCHANGED <<DeliverStays, gen, earlyNav, pagingVars, routerVars, sortConfig, sortVars, disturbed>>

\* _handle_error_occurred.
DeliverError ==
    /\ Deliver("error")
    /\ gen' = [gen EXCEPT !.running = FALSE]
    /\ UNCHANGED <<DeliverStays, earlyNav, pagingVars, routerVars, sortConfig, sortVars, disturbed>>

\* _on_sort_ready: whichever worker it comes from, if the screen is shown.
DeliverSorted ==
    /\ Deliver("sorted")
    /\ LET e == Head(events)
       IN IF Active /\ e.of \notin dropped
          THEN ResetToFirst(apply_sort_data(win, e.order, e.ids), pag)
          ELSE UNCHANGED pagingVars
    /\ UNCHANGED <<DeliverStays, earlyNav, gen, routerVars, sortConfig, sortVars, disturbed>>

-----------------------------------------------------------------------------
(***************************************************************************)
(* The user on the screens.                                                *)
(***************************************************************************)
UserStays == <<batches, scored, count, insert, clearing, fault, flowVars, events>>

\* on_sort_config_changed.
ApplySort(order) ==
    /\ Clicks /\ Active /\ run + lastSort < MaxClicks
    /\ sortConfig' = order
    /\ StartSort(order)
    /\ disturbed' = (disturbed \/ Sorting)
    /\ UNCHANGED <<UserStays, indexVars, pagingVars, routerVars>>

Page(page) ==
    /\ Clicks /\ Active /\ page \in TargetPages
    /\ LoadPage(page) /\ EnsureSortIndexes(win.priority)
    /\ UNCHANGED <<UserStays, routerVars, sortConfig, sortVars, disturbed>>

Move ==
    /\ Clicks /\ Active
    /\ \/ \E i \in 0 .. WindowSize - 1 : MoveTo(i)
       \/ \E i \in 1 .. NumPeriods : MovePeriod(i)
    /\ UNCHANGED <<UserStays, indexVars, routerVars, sortConfig, sortVars, disturbed>>

\* on_leave of the output screen.
LeaveOutput == StopSort /\ disturbed' = (disturbed \/ Sorting)

OpenClusters ==
    /\ Clicks /\ Active /\ Show("clusters") /\ LeaveOutput
    /\ UNCHANGED <<UserStays, indexVars, pagingVars, sortConfig>>

ViewResults ==
    /\ Clicks /\ current = "input" /\ gen.visible
    /\ Show("output") /\ Enter(win, pag)
    /\ UNCHANGED <<UserStays, indexVars, sortConfig, sortVars, disturbed>>

GoBack ==
    /\ Clicks /\ current # "input" /\ Back
    /\ IF Active THEN LeaveOutput ELSE UNCHANGED <<sortVars, disturbed>>
    /\ IF current' = "output" THEN Enter(win, pag) ELSE UNCHANGED pagingVars
    /\ UNCHANGED <<UserStays, indexVars, sortConfig>>

-----------------------------------------------------------------------------
Next ==
    \/ \E r \in Runs : Listen(r)
    \/ \E i \in SortIds : Sort(i)
    \/ Generate \/ ClickCancel
    \/ DeliverBatch \/ DeliverFinished \/ DeliverError \/ DeliverSorted
    \/ \E order \in Orders : ApplySort(order)
    \/ \E page \in 0 .. MaxCount : Page(page)
    \/ Move \/ OpenClusters \/ ViewResults \/ GoBack

Spec == Init /\ [][Next]_browsingVars

(***************************************************************************)
(* The listener runs, and the GUI thread goes on with what it began and    *)
(* delivers what is posted.  The user owes nothing.                        *)
(***************************************************************************)
Deliveries == DeliverBatch \/ DeliverFinished \/ DeliverError \/ DeliverSorted
FairSpec ==
    /\ Spec
    /\ WF_browsingVars(\E r \in Runs : Listen(r))
    /\ WF_browsingVars(Generate /\ ~Clicks)
    /\ WF_browsingVars(Deliveries)

-----------------------------------------------------------------------------
TypeOK ==
    /\ count \in 0 .. MaxCount /\ DOMAIN scored \subseteq 0 .. MaxCount - 1
    /\ \A w \in Writers : insert[w].pc \in {"idle", "offset", "committed"}
    /\ indexes \cup signatures \subseteq Orders
    /\ win.priority \in Orders \cup {<<>>} /\ win.ids \in Seq(Nat) /\ win.page \in Nat
    /\ pag.idx \in Nat /\ pag.total \in 0 .. WindowSize /\ pag.period \in 1 .. NumPeriods
    /\ shown.what \in Schedules \cup {Nothing, Failed}
    /\ current \in Screens /\ history \in Seq(Screens)
    /\ gen \in [running : BOOLEAN, navigated : BOOLEAN, visible : BOOLEAN]
    /\ \A r \in Runs : listener[r] \in {"none", "running", "cancelled", "ended"}
    /\ sortConfig \in Orders \cup {<<>>} /\ lastSort \in 0 .. MaxClicks + 2 * NumRuns

\* Whatever arrives while the user looks, the calendar shows the schedule the index and the
\* page stand for, never an error: late batches, re-sorts and page turns leave none behind.
ShownIsSelected ==
    Idle /\ Active /\ pag.total > 0 /\ ~disturbed =>
        /\ pag.idx < pag.total /\ pag.total <= current_window_size(win)
        /\ HasRow(GlobalId(win, pag.idx))
        /\ shown = [what |-> RowAt(GlobalId(win, pag.idx)), period |-> pag.period]

\* Nothing is under way.
AtRest ==
    Clicks /\ ~Sorting /\ \A r \in Runs : ~Live(r)

\* When everything has settled, the page is the slice of all results in the order the user
\* asked for last, although it was computed on other threads while results came in.
SettledPageIsSlice ==
    AtRest /\ Active /\ ~disturbed /\ fault = "none" =>
        /\ win.priority = sortConfig
        /\ sortConfig # <<>> => win.ids = get_sorted_ids_page(sortConfig, win.page)
        /\ pag.pages = total_pages /\ pag.disk = count /\ pag.page = win.page
        /\ pag.total = current_window_size(win)

\* Results that were saved can be looked at, however the run ended: the way to the output
\* screen opens with the first batch or with the end of the run.
ResultsReachable == AtRest /\ fault # "unheard" /\ count > 0 => gen.visible

\* The threads use the repository the way it is meant to be used: one writer, and no clear
\* during an insert.  What is proved of RepositorySpec holds here by this property.
RepositorySteps == [][RepositoryNext]_storeVars

\* A run does not keep the user waiting forever, unless its signals were lost.
RunningEnds == gen.running ~> ~gen.running \/ fault = "unheard"
=============================================================================
