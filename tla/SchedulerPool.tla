---------------------------- MODULE SchedulerPool ----------------------------
(***************************************************************************)
(* The persistent pool of scheduler processes and everything that talks to *)
(* it: the GUI thread (AppController, SchedulingService), one listener     *)
(* QThread per run (SchedulerWorker), one feeder thread per run            *)
(* (_feed_work_queue) and the worker processes (_persistent_worker_loop,   *)
(* SchedulerProcessRunner, QueueWorkSource, QueueScheduleObserver).        *)
(*                                                                         *)
(* The queues, the cancel event, the result counter and the run id holder  *)
(* are created once and reused by every run, so this module follows        *)
(* several runs: what the leftovers of one run do to the next is what its  *)
(* properties are about.  Which dates a schedule assigns is abstracted     *)
(* away: a work unit is a name and a schedule is a count.                  *)
(*                                                                         *)
(* Draining a multiprocessing.Queue with get_nowait stops at the first     *)
(* Empty, which is also what a message still in its sender's buffer or a   *)
(* reader holding the lock looks like: a drain removes some prefix of what *)
(* each producer has sent.                                                 *)
(***************************************************************************)
EXTENDS Naturals, Sequences, FiniteSets, Functions

CONSTANTS
    Workers,       \* the pool processes
    NumRuns,       \* bound: Generate clicks that reach generate_async
    MaxUnits,      \* bound: work units a partition produces
    PerUnit,       \* bound: schedules below one work unit
    ResultLimit,   \* max_results
    BatchSize,     \* DEFAULT_BATCH_SIZE
    QueueCap,      \* maxsize of the result queue
    Faults,        \* which faults may happen: a subset of FaultKinds
    MaxFaults,     \* bound: faults per behaviour
    Impatient,     \* the user may click while the listener of a run is alive
    LateTimeouts,  \* a bounded wait expires only when nobody else can move
    PromptFeeder,  \* the feeders of earlier runs are done when a run starts
    ClosingRuns    \* after how many runs the user may close the application

FaultKinds == {"exception", "crash", "partition"}

ASSUME PoolAssumption ==
    /\ IsFiniteSet(Workers) /\ Workers # {}
    /\ NumRuns \in Nat /\ MaxUnits \in Nat /\ PerUnit \in Nat /\ MaxFaults \in Nat
    /\ ResultLimit \in Nat \ {0} /\ BatchSize \in Nat \ {0} /\ QueueCap \in Nat \ {0}
    /\ Faults \subseteq FaultKinds
    /\ ClosingRuns \subseteq 0 .. NumRuns
    /\ {Impatient, LateTimeouts, PromptFeeder} \subseteq BOOLEAN

VARIABLES
    guiPc,         \* where the GUI thread is inside its handler
    run,           \* last run id drawn from _run_id_counter
    worker,        \* run of AppController._worker, 0 for None
    collected,     \* ready tokens taken by the current _pool_start_run
    cancelEvent,   \* _pool_cancel_event
    resultCounter, \* _pool_result_counter
    runIdHolder,   \* _pool_run_id_holder
    readyQ,        \* number of tokens in _pool_ready_queue
    controlQ,      \* _pool_control_queue: run of each payload, 0 for None
    workQ,         \* _pool_work_queue
    resultQ,       \* _pool_result_queue, one FIFO per producer
    wpc,           \* where each worker process is in its loop
    wrun,          \* run of the payload it holds
    wtag,          \* run id it puts on its messages
    wunit,         \* work unit it searches
    wfound,        \* schedules reached below that unit
    wbuf,          \* schedules in the observer's batch buffer
    listener,      \* state of each run's SchedulerWorker thread
    finishes,      \* its _finished_count
    saved,         \* its _saved_count
    outcome,       \* how the run ended, as the user is told
    feeder,        \* state of each run's feeder thread
    cut,           \* work units its partition produced
    fed,           \* units it has put so far
    faults,        \* faults so far
    recorded,      \* history: result slots reserved by the workers of each run
    searched,      \* history: <<run, unit>>, unit wholly searched by a worker of run
    cancelled      \* history: runs the user cancelled, by Cancel or by Generate

guiVars      == <<guiPc, run, worker, collected>>
sharedVars   == <<cancelEvent, resultCounter, runIdHolder>>
queueVars    == <<readyQ, controlQ, workQ, resultQ>>
workerVars   == <<wpc, wrun, wtag, wunit, wfound, wbuf>>
listenerVars == <<listener, finishes, saved>>
feederVars   == <<feeder, cut, fed>>
historyVars  == <<recorded, searched, cancelled>>
vars == <<guiVars, sharedVars, queueVars, workerVars, listenerVars, outcome,
          feederVars, faults, historyVars>>

-----------------------------------------------------------------------------
(* Values *)

Runs      == 1 .. NumRuns
PoolSize  == Cardinality(Workers)
Main      == "main"                        \* the main process as a producer
Producers == Workers \cup {Main}
Units     == Runs \X (1 .. MaxUnits)       \* <<run whose feeder made it, index>>
NoUnit    == <<0, 0>>                      \* the None sentinel of the work queue

Batch(r, n)  == [type |-> "SCHEDULE_BATCH", tag |-> r, count |-> n]
Finished(r)  == [type |-> "FINISHED", tag |-> r, count |-> 0]
Error(r)     == [type |-> "ERROR", tag |-> r, count |-> 0]
Messages     == [type : {"SCHEDULE_BATCH", "FINISHED", "ERROR"},
                 tag : 0 .. NumRuns, count : 0 .. BatchSize]

Gone       == {"dead", "exited"}           \* the process no longer exists
Tagged     == {"pull", "getting", "search", "record", "batch", "flush", "error"}
Serving    == Tagged \cup {"tag"}
WorkerPcs  == {"announce", "parked"} \cup Serving \cup Gone
Busy       == {w \in Workers : wpc[w] \in Serving \cup {"announce"}}
Alive      == {w \in Workers : wpc[w] \notin Gone}

Full    == SumFunction([p \in Producers |-> Len(resultQ[p])]) >= QueueCap
Drained == \A p \in Producers : resultQ[p] = <<>>

\* What a drain may leave of a queue.
Leftovers(q) == {SubSeq(q, i, Len(q)) : i \in 1 .. Len(q) + 1}

DrainResults ==
    \E skip \in [Producers -> 0 .. QueueCap] :
        /\ \A p \in Producers : skip[p] <= Len(resultQ[p])
        /\ resultQ' = [p \in Producers |-> SubSeq(resultQ[p], skip[p] + 1, Len(resultQ[p]))]

FeedersDone == \A r \in Runs : feeder[r] \in {"none", "done"}

\* The run of AppController._worker still has a running listener.
ListenerAlive == worker \in {r \in Runs : listener[r] # "done"}

Send(p, m) == ~Full /\ resultQ' = [resultQ EXCEPT ![p] = Append(@, m)]

Fault(kind) == kind \in Faults /\ faults < MaxFaults /\ faults' = faults + 1

\* Nobody the GUI thread may be waiting for can take another step.
Settled ==
    /\ \A w \in Alive :
          \/ wpc[w] = "parked" /\ controlQ = <<>>
          \/ wpc[w] = "getting" /\ workQ = <<>> /\ ~cancelEvent
          \/ wpc[w] \in {"batch", "flush", "error"} /\ Full
    /\ \A r \in Runs :
          /\ listener[r] # "closing"
          /\ listener[r] = "running" => Drained /\ \A w \in Workers : wpc[w] # "dead"
          /\ feeder[r] \in {"none", "done"} \/ (feeder[r] = "failed" /\ Full)

\* The ready tokens _pool_start_run waits for, the FINISHED messages a listener
\* expects and the None payloads shutdown_pool sends: one per pool process.
TokensNeeded_OneShort == PoolSize - 1
TokensNeeded == PoolSize
ExpectedFinishes_OneShort == PoolSize - 1
ExpectedFinishes == PoolSize
ShutdownPayloads_OneShort == [i \in 1 .. PoolSize - 1 |-> 0]
ShutdownPayloads == [i \in 1 .. PoolSize |-> 0]

\* _reserve_result_slot's test, under the counter's lock.
SlotFree_OffByOne == resultCounter <= ResultLimit
SlotFree == resultCounter < ResultLimit

\* _unwrap_expected_run_payload: a message of another run.
Stale_NeverChecked(r, m) == FALSE
Stale(r, m) == m.tag # r

Init ==
    /\ guiPc = "idle" /\ run = 0 /\ worker = 0 /\ collected = 0
    /\ cancelEvent = FALSE /\ resultCounter = 0 /\ runIdHolder = 0
    /\ readyQ = 0 /\ controlQ = <<>> /\ workQ = <<>>
    /\ resultQ = [p \in Producers |-> <<>>]
    /\ wpc = [w \in Workers |-> "announce"]
    /\ wrun = [w \in Workers |-> 0] /\ wtag = [w \in Workers |-> 0]
    /\ wunit = [w \in Workers |-> NoUnit]
    /\ wfound = [w \in Workers |-> 0] /\ wbuf = [w \in Workers |-> 0]
    /\ listener = [r \in Runs |-> "none"] /\ finishes = [r \in Runs |-> 0]
    /\ saved = [r \in Runs |-> 0] /\ outcome = [r \in Runs |-> "none"]
    /\ feeder = [r \in Runs |-> "none"]
    /\ cut = [r \in Runs |-> 0] /\ fed = [r \in Runs |-> 0]
    /\ faults = 0
    /\ recorded = [r \in Runs |-> 0] /\ searched = {} /\ cancelled = {}

-----------------------------------------------------------------------------
(* The GUI thread: AppController.generate_schedules, cancel_scheduling and *)
(* on_app_closing, SchedulingService.generate_async and _pool_start_run.   *)

\* generate_schedules up to SchedulerWorker.cancel's cancel_event.set().
ClickGenerate ==
    /\ guiPc = "idle" /\ run < NumRuns
    /\ ListenerAlive => Impatient
    /\ IF worker = 0
       THEN guiPc' = "launch" /\ UNCHANGED <<cancelEvent, cancelled>>
       ELSE /\ guiPc' = "drain"
            /\ cancelEvent' = TRUE
            /\ cancelled' = IF ListenerAlive THEN cancelled \cup {worker} ELSE cancelled
    /\ UNCHANGED <<run, worker, collected, resultCounter, runIdHolder, queueVars,
                   workerVars, listenerVars, outcome, feederVars, faults,
                   recorded, searched>>

\* The Cancel button: cancel_scheduling, only while the listener runs.
ClickCancel ==
    /\ guiPc = "idle" /\ Impatient /\ ListenerAlive
    /\ guiPc' = "drainOnly"
    /\ cancelEvent' = TRUE
    /\ cancelled' = cancelled \cup {worker}
    /\ UNCHANGED <<run, worker, collected, resultCounter, runIdHolder, queueVars,
                   workerVars, listenerVars, outcome, feederVars, faults,
                   recorded, searched>>

\* The second half of SchedulerWorker.cancel: drain from the GUI thread.
CancelDrains ==
    /\ guiPc \in {"drain", "drainOnly"}
    /\ guiPc' = IF guiPc = "drain" THEN "wait" ELSE "idle"
    /\ DrainResults
    /\ UNCHANGED <<run, worker, collected, sharedVars, readyQ, controlQ, workQ,
                   workerVars, listenerVars, outcome, feederVars, faults, historyVars>>

\* QThread.wait(2000) returns: the listener ended, or the time is up.
WaitReturns ==
    /\ guiPc = "wait"
    /\ ListenerAlive /\ LateTimeouts => Settled
    /\ guiPc' = "launch" /\ worker' = 0
    /\ UNCHANGED <<run, collected, sharedVars, queueVars, workerVars, listenerVars,
                   outcome, feederVars, faults, historyVars>>

\* generate_async draws a run id; validation may reject the input.
RejectInfeasible ==
    /\ guiPc = "launch" /\ run < NumRuns
    /\ run' = run + 1
    /\ outcome' = [outcome EXCEPT ![run + 1] = "infeasible"]
    /\ guiPc' = "idle"
    /\ UNCHANGED <<worker, collected, sharedVars, queueVars, workerVars,
                   listenerVars, feederVars, faults, historyVars>>

AskPool ==
    /\ guiPc = "launch" /\ run < NumRuns
    /\ run' = run + 1
    /\ guiPc' = "collect" /\ collected' = 0
    /\ UNCHANGED <<worker, sharedVars, queueVars, workerVars, listenerVars, outcome,
                   feederVars, faults, historyVars>>

CollectReady ==
    /\ guiPc = "collect" /\ collected < TokensNeeded /\ readyQ > 0
    /\ readyQ' = readyQ - 1 /\ collected' = collected + 1
    /\ UNCHANGED <<guiPc, run, worker, sharedVars, controlQ, workQ, resultQ,
                   workerVars, listenerVars, outcome, feederVars, faults, historyVars>>

\* A get on the ready queue times out: the tokens already taken are lost.
ReadyTimesOut ==
    /\ guiPc = "collect" /\ collected < TokensNeeded /\ readyQ = 0
    /\ LateTimeouts => Settled
    /\ outcome' = [outcome EXCEPT ![run] = "notReady"]
    /\ guiPc' = "idle" /\ collected' = 0
    /\ UNCHANGED <<run, worker, sharedVars, queueVars, workerVars, listenerVars,
                   feederVars, faults, historyVars>>

\* _pool_start_run after the wait, and the rest of generate_async.
PoolStartRun ==
    /\ guiPc = "collect" /\ collected = TokensNeeded
    /\ PromptFeeder => FeedersDone
    /\ cancelEvent' = FALSE /\ resultCounter' = 0 /\ runIdHolder' = run
    /\ IF FeedersDone THEN workQ' = <<>> ELSE workQ' \in Leftovers(workQ)
    /\ DrainResults
    /\ controlQ' = controlQ \o [i \in 1 .. PoolSize |-> run]
    /\ listener' = [listener EXCEPT ![run] = "running"]
    /\ feeder' = [feeder EXCEPT ![run] = "partition"]
    /\ worker' = run /\ collected' = 0 /\ guiPc' = "idle"
    /\ UNCHANGED <<run, readyQ, workerVars, finishes, saved, outcome, cut, fed,
                   faults, historyVars>>

\* on_app_closing: cancel_scheduling, then shutdown_pool.
Close ==
    /\ guiPc = "idle" /\ run \in ClosingRuns
    /\ guiPc' = "closed"
    /\ cancelEvent' = TRUE
    /\ IF ListenerAlive THEN DrainResults /\ cancelled' = cancelled \cup {worker}
       ELSE UNCHANGED <<resultQ, cancelled>>
    /\ controlQ' = controlQ \o ShutdownPayloads
    /\ UNCHANGED <<run, worker, collected, resultCounter, runIdHolder, readyQ, workQ,
                   workerVars, listenerVars, outcome, feederVars, faults,
                   recorded, searched>>

\* shutdown_pool terminates a process that did not exit within its join.
Terminate(w) ==
    /\ guiPc = "closed" /\ wpc[w] \notin Gone
    /\ LateTimeouts => Settled
    /\ wpc' = [wpc EXCEPT ![w] = "dead"]
    /\ UNCHANGED <<guiVars, sharedVars, queueVars, wrun, wtag, wunit, wfound, wbuf,
                   listenerVars, outcome, feederVars, faults, historyVars>>

-----------------------------------------------------------------------------
(* A worker process: _persistent_worker_loop around SchedulerProcessRunner *)

WorkerAt(w, from, to) == wpc[w] = from /\ wpc' = [wpc EXCEPT ![w] = to]

Announce(w) ==
    /\ WorkerAt(w, "announce", "parked")
    /\ readyQ' = readyQ + 1
    /\ UNCHANGED <<guiVars, sharedVars, controlQ, workQ, resultQ, wrun, wtag, wunit,
                   wfound, wbuf, listenerVars, outcome, feederVars, faults, historyVars>>

TakePayload(w) ==
    /\ controlQ # <<>> /\ Head(controlQ) # 0
    /\ WorkerAt(w, "parked", "tag")
    /\ controlQ' = Tail(controlQ)
    /\ wrun' = [wrun EXCEPT ![w] = Head(controlQ)]
    /\ UNCHANGED <<guiVars, sharedVars, readyQ, workQ, resultQ, wtag, wunit, wfound,
                   wbuf, listenerVars, outcome, feederVars, faults, historyVars>>

TakeShutdown(w) ==
    /\ controlQ # <<>> /\ Head(controlQ) = 0
    /\ WorkerAt(w, "parked", "exited")
    /\ controlQ' = Tail(controlQ)
    /\ UNCHANGED <<guiVars, sharedVars, readyQ, workQ, resultQ, wrun, wtag, wunit,
                   wfound, wbuf, listenerVars, outcome, feederVars, faults, historyVars>>

\* run_id_holder.value is read after the payload was taken.
ReadRunId(w) ==
    /\ WorkerAt(w, "tag", "pull")
    /\ wtag' = [wtag EXCEPT ![w] = runIdHolder]
    /\ wbuf' = [wbuf EXCEPT ![w] = 0]
    /\ UNCHANGED <<guiVars, sharedVars, queueVars, wrun, wunit, wfound, listenerVars,
                   outcome, feederVars, faults, historyVars>>

\* QueueWorkSource.get_next: the cancel check, then the get.
CheckCancel(w) ==
    /\ WorkerAt(w, "pull", IF cancelEvent THEN "flush" ELSE "getting")
    /\ UNCHANGED <<guiVars, sharedVars, queueVars, wrun, wtag, wunit, wfound, wbuf,
                   listenerVars, outcome, feederVars, faults, historyVars>>

GetEmpty(w) ==
    /\ workQ = <<>>
    /\ WorkerAt(w, "getting", "pull")
    /\ UNCHANGED <<guiVars, sharedVars, queueVars, wrun, wtag, wunit, wfound, wbuf,
                   listenerVars, outcome, feederVars, faults, historyVars>>

GetItem(w) ==
    /\ workQ # <<>>
    /\ WorkerAt(w, "getting", IF Head(workQ) = NoUnit THEN "flush" ELSE "search")
    /\ workQ' = Tail(workQ)
    /\ wunit' = [wunit EXCEPT ![w] = Head(workQ)]
    /\ wfound' = [wfound EXCEPT ![w] = 0]
    /\ UNCHANGED <<guiVars, sharedVars, readyQ, controlQ, resultQ, wrun, wtag, wbuf,
                   listenerVars, outcome, feederVars, faults, historyVars>>

\* _backtrack passes its should_cancel checks and reaches a full schedule.
ReachSchedule(w) ==
    /\ ~cancelEvent /\ wfound[w] < PerUnit /\ wfound[w] < ResultLimit
    /\ WorkerAt(w, "search", "record")
    /\ wfound' = [wfound EXCEPT ![w] = @ + 1]
    /\ UNCHANGED <<guiVars, sharedVars, queueVars, wrun, wtag, wunit, wbuf,
                   listenerVars, outcome, feederVars, faults, historyVars>>

\* _record_schedule with _reserve_result_slot: the counter is read and
\* incremented under its lock; the slot that reaches the limit cancels.
RecordSchedule(w) ==
    /\ SlotFree
    /\ WorkerAt(w, "record", IF wbuf[w] + 1 >= BatchSize THEN "batch" ELSE "search")
    /\ resultCounter' = resultCounter + 1
    /\ cancelEvent' = (cancelEvent \/ resultCounter + 1 >= ResultLimit)
    /\ wbuf' = [wbuf EXCEPT ![w] = @ + 1]
    /\ recorded' = [recorded EXCEPT ![wrun[w]] = @ + 1]
    /\ UNCHANGED <<guiVars, runIdHolder, queueVars, wrun, wtag, wunit, wfound,
                   listenerVars, outcome, feederVars, faults, searched, cancelled>>

DropSchedule(w) ==
    /\ ~SlotFree
    /\ WorkerAt(w, "record", "search")
    /\ UNCHANGED <<guiVars, sharedVars, queueVars, wrun, wtag, wunit, wfound, wbuf,
                   listenerVars, outcome, feederVars, faults, historyVars>>

\* generateSchedules returns: the unit is exhausted, or the search gave up.
FinishUnit(w) ==
    /\ WorkerAt(w, "search", "pull")
    /\ searched' = searched \cup {<<wrun[w], wunit[w]>>}
    /\ UNCHANGED <<guiVars, sharedVars, queueVars, wrun, wtag, wunit, wfound, wbuf,
                   listenerVars, outcome, feederVars, faults, recorded, cancelled>>

AbandonUnit(w) ==
    /\ cancelEvent \/ wfound[w] >= ResultLimit
    /\ WorkerAt(w, "search", "pull")
    /\ UNCHANGED <<guiVars, sharedVars, queueVars, wrun, wtag, wunit, wfound, wbuf,
                   listenerVars, outcome, feederVars, faults, historyVars>>

\* on_finished flushes before it sends FINISHED.
MayFinish_Unflushed(w) == TRUE
MayFinish(w) == wbuf[w] = 0

\* _flush_buffer clears the buffer after sending it.
ClearBuffer_Forgotten(w) == wbuf
ClearBuffer(w) == [wbuf EXCEPT ![w] = 0]

\* _flush_buffer, from _record_schedule ("batch") or on_finished ("flush").
FlushBuffer(w) ==
    /\ wbuf[w] > 0
    /\ WorkerAt(w, "batch", "search") \/ WorkerAt(w, "flush", "flush")
    /\ Send(w, Batch(wtag[w], wbuf[w]))
    /\ wbuf' = ClearBuffer(w)
    /\ UNCHANGED <<guiVars, sharedVars, readyQ, controlQ, workQ, wrun, wtag, wunit,
                   wfound, listenerVars, outcome, feederVars, faults, historyVars>>

SendFinished(w) ==
    /\ MayFinish(w)
    /\ WorkerAt(w, "flush", "announce")
    /\ Send(w, Finished(wtag[w]))
    /\ UNCHANGED <<guiVars, sharedVars, readyQ, controlQ, workQ, wrun, wtag, wunit,
                   wfound, wbuf, listenerVars, outcome, feederVars, faults, historyVars>>

\* An exception in the runner: the batch in the buffer is lost.
WorkerRaises(w) ==
    /\ Fault("exception")
    /\ WorkerAt(w, "pull", "error") \/ WorkerAt(w, "search", "error")
    /\ UNCHANGED <<guiVars, sharedVars, queueVars, wrun, wtag, wunit, wfound, wbuf,
                   listenerVars, outcome, feederVars, historyVars>>

SendError(w) ==
    /\ WorkerAt(w, "error", "announce")
    /\ Send(w, Error(wtag[w]))
    /\ UNCHANGED <<guiVars, sharedVars, readyQ, controlQ, workQ, wrun, wtag, wunit,
                   wfound, wbuf, listenerVars, outcome, feederVars, faults, historyVars>>

\* The process dies; messages still in its queue buffer die with it.
Crash(w) ==
    /\ Fault("crash") /\ wpc[w] \notin Gone
    /\ wpc' = [wpc EXCEPT ![w] = "dead"]
    /\ \E n \in 0 .. QueueCap :
          /\ n <= Len(resultQ[w])
          /\ resultQ' = [resultQ EXCEPT ![w] = SubSeq(@, 1, n)]
    /\ UNCHANGED <<guiVars, sharedVars, readyQ, controlQ, workQ, wrun, wtag, wunit,
                   wfound, wbuf, listenerVars, outcome, feederVars, historyVars>>

-----------------------------------------------------------------------------
(* The listener of run r: SchedulerWorker.run with owns_processes = False  *)

Ends(r, how) ==
    /\ listener' = [listener EXCEPT ![r] = "closing"]
    /\ outcome' = [outcome EXCEPT ![r] = how]

\* The listener takes the oldest message of producer p.
Receive(r, p) ==
    /\ listener[r] = "running" /\ resultQ[p] # <<>>
    /\ resultQ' = [resultQ EXCEPT ![p] = Tail(@)]
    /\ UNCHANGED <<guiVars, resultCounter, runIdHolder, readyQ, controlQ, workQ,
                   workerVars, feederVars, faults, historyVars>>

ReceiveOwn(r, p, type) ==
    Receive(r, p) /\ ~Stale(r, Head(resultQ[p])) /\ Head(resultQ[p]).type = type

DropStale(r, p) ==
    /\ Receive(r, p)
    /\ Stale(r, Head(resultQ[p]))
    /\ UNCHANGED <<cancelEvent, listenerVars, outcome>>

HandleBatch(r, p) ==
    /\ ReceiveOwn(r, p, "SCHEDULE_BATCH")
    /\ saved' = [saved EXCEPT ![r] = @ + Head(resultQ[p]).count]
    /\ cancelEvent' = (cancelEvent \/ saved'[r] >= ResultLimit)
    /\ UNCHANGED <<listener, finishes, outcome>>

HandleFinished(r, p) ==
    /\ ReceiveOwn(r, p, "FINISHED")
    /\ finishes' = [finishes EXCEPT ![r] = @ + 1]
    /\ IF finishes[r] + 1 >= ExpectedFinishes THEN Ends(r, "finished")
       ELSE UNCHANGED <<listener, outcome>>
    /\ UNCHANGED <<cancelEvent, saved>>

HandleError(r, p) ==
    /\ ReceiveOwn(r, p, "ERROR")
    /\ Ends(r, "error")
    /\ UNCHANGED <<cancelEvent, finishes, saved>>

NoticeCrash_Never(r) == FALSE

\* The get times out and some pool process has a bad exit code.
NoticeCrash(r) ==
    /\ listener[r] = "running" /\ Drained
    /\ \E w \in Workers : wpc[w] = "dead"
    /\ Ends(r, "error")
    /\ UNCHANGED <<guiVars, sharedVars, queueVars, workerVars, finishes, saved,
                   feederVars, faults, historyVars>>

\* _shutdown drains after the final signal was emitted; then the thread ends.
Shutdown(r) ==
    /\ listener[r] = "closing"
    /\ listener' = [listener EXCEPT ![r] = "done"]
    /\ DrainResults
    /\ UNCHANGED <<guiVars, sharedVars, readyQ, controlQ, workQ, workerVars, finishes,
                   saved, outcome, feederVars, faults, historyVars>>

-----------------------------------------------------------------------------
(* The feeder of run r: _feed_work_queue, on a thread nobody joins         *)

FeederAt(r, from, to) == feeder[r] = from /\ feeder' = [feeder EXCEPT ![r] = to]

Partition(r) ==
    /\ FeederAt(r, "partition", "feeding")
    /\ \E n \in 0 .. MaxUnits : cut' = [cut EXCEPT ![r] = n]
    /\ UNCHANGED <<guiVars, sharedVars, queueVars, workerVars, listenerVars, outcome,
                   fed, faults, historyVars>>

PartitionRaises(r) ==
    /\ Fault("partition")
    /\ FeederAt(r, "partition", "failed")
    /\ UNCHANGED <<guiVars, sharedVars, queueVars, workerVars, listenerVars, outcome,
                   cut, fed, historyVars>>

ReportPartitionError(r) ==
    /\ FeederAt(r, "failed", "ending")
    /\ Send(Main, Error(r))
    /\ UNCHANGED <<guiVars, sharedVars, readyQ, controlQ, workQ, workerVars,
                   listenerVars, outcome, cut, fed, faults, historyVars>>

FeedUnit(r) ==
    /\ fed[r] < cut[r] /\ ~cancelEvent
    /\ FeederAt(r, "feeding", "feeding")
    /\ workQ' = Append(workQ, <<r, fed[r] + 1>>)
    /\ fed' = [fed EXCEPT ![r] = @ + 1]
    /\ UNCHANGED <<guiVars, sharedVars, readyQ, controlQ, resultQ, workerVars,
                   listenerVars, outcome, cut, faults, historyVars>>

StopFeeding(r) ==
    /\ fed[r] = cut[r] \/ cancelEvent
    /\ FeederAt(r, "feeding", "ending")
    /\ UNCHANGED <<guiVars, sharedVars, queueVars, workerVars, listenerVars, outcome,
                   cut, fed, faults, historyVars>>

\* The finally block: one None per worker process.
FeedSentinels(r) ==
    /\ FeederAt(r, "ending", "done")
    /\ workQ' = workQ \o [i \in 1 .. PoolSize |-> NoUnit]
    /\ UNCHANGED <<guiVars, sharedVars, readyQ, controlQ, resultQ, workerVars,
                   listenerVars, outcome, cut, fed, faults, historyVars>>

-----------------------------------------------------------------------------
(* The specification *)

GuiMoves == CancelDrains \/ WaitReturns \/ RejectInfeasible \/ AskPool
            \/ CollectReady \/ ReadyTimesOut \/ PoolStartRun

Clicks == ClickGenerate \/ ClickCancel \/ Close

WorkerMoves(w) ==
    \/ Announce(w) \/ TakePayload(w) \/ TakeShutdown(w) \/ ReadRunId(w)
    \/ CheckCancel(w) \/ GetEmpty(w) \/ GetItem(w)
    \/ ReachSchedule(w) \/ RecordSchedule(w) \/ DropSchedule(w)
    \/ FinishUnit(w) \/ AbandonUnit(w)
    \/ FlushBuffer(w) \/ SendFinished(w) \/ SendError(w)

ListenerMoves(r) ==
    \/ \E p \in Producers : \/ DropStale(r, p) \/ HandleBatch(r, p)
                             \/ HandleFinished(r, p) \/ HandleError(r, p)
    \/ NoticeCrash(r) \/ Shutdown(r)

FeederMoves(r) ==
    Partition(r) \/ ReportPartitionError(r) \/ FeedUnit(r) \/ StopFeeding(r)
    \/ FeedSentinels(r)

Mishaps == (\E w \in Workers : WorkerRaises(w) \/ Crash(w) \/ Terminate(w))
           \/ \E r \in Runs : PartitionRaises(r)

Next == GuiMoves \/ Clicks \/ Mishaps
        \/ (\E w \in Workers : WorkerMoves(w))
        \/ (\E r \in Runs : ListenerMoves(r) \/ FeederMoves(r))

Spec == Init /\ [][Next]_vars

\* The operating system runs every thread and process; the user need not click
\* and faults need not happen.
Fairness ==
    /\ WF_vars(GuiMoves)
    /\ \A w \in Workers : WF_vars(WorkerMoves(w))
    /\ \A r \in Runs : WF_vars(ListenerMoves(r)) /\ WF_vars(FeederMoves(r))

FairSpec == Spec /\ Fairness
-----------------------------------------------------------------------------
(* Properties *)

GuiTypeOK ==
    /\ guiPc \in {"idle", "drain", "drainOnly", "wait", "launch", "collect", "closed"}
    /\ run \in 0 .. NumRuns /\ worker \in 0 .. NumRuns /\ collected \in 0 .. PoolSize

SharedTypeOK ==
    /\ cancelEvent \in BOOLEAN /\ resultCounter \in Nat /\ runIdHolder \in 0 .. NumRuns

QueueTypeOK ==
    /\ readyQ \in Nat /\ controlQ \in Seq(0 .. NumRuns)
    /\ workQ \in Seq(Units \cup {NoUnit})
    /\ resultQ \in [Producers -> Seq(Messages)]

WorkerTypeOK ==
    /\ wpc \in [Workers -> WorkerPcs]
    /\ wrun \in [Workers -> 0 .. NumRuns] /\ wtag \in [Workers -> 0 .. NumRuns]
    /\ wunit \in [Workers -> Units \cup {NoUnit}]
    /\ wfound \in [Workers -> 0 .. PerUnit] /\ wbuf \in [Workers -> 0 .. BatchSize]

ListenerTypeOK ==
    /\ listener \in [Runs -> {"none", "running", "closing", "done"}]
    /\ finishes \in [Runs -> Nat] /\ saved \in [Runs -> Nat]
    /\ outcome \in [Runs -> {"none", "finished", "error", "infeasible", "notReady"}]

FeederTypeOK ==
    /\ feeder \in [Runs -> {"none", "partition", "failed", "feeding", "ending", "done"}]
    /\ cut \in [Runs -> 0 .. MaxUnits] /\ fed \in [Runs -> 0 .. MaxUnits]

HistoryTypeOK ==
    /\ faults \in 0 .. MaxFaults
    /\ recorded \in [Runs -> Nat]
    /\ searched \subseteq (0 .. NumRuns) \X (Units \cup {NoUnit})
    /\ cancelled \subseteq Runs

\* Every variable keeps its type: in particular no batch outgrows BatchSize, no
\* feeder runs past its partition, no more tokens are taken than the pool has.
TypeOK == GuiTypeOK /\ SharedTypeOK /\ QueueTypeOK /\ WorkerTypeOK
          /\ ListenerTypeOK /\ FeederTypeOK /\ HistoryTypeOK

\* A worker that serves a run tags its messages with the run of the payload it
\* took, which is the active run: the tag is read from a shared Value after the
\* payload was taken, so a start that overtook a worker would break it.
TagAgrees ==
    \A w \in Workers :
        wpc[w] \in Tagged => wtag[w] = wrun[w] /\ wrun[w] = runIdHolder

\* Workers racing for the last slots never reserve more than max_results, and no run saves
\* more, in whichever batches the results arrive: docs/concurrency-architecture.md promises
\* that they do not overshoot.  The comment at the saved count in SchedulerWorker, that the
\* boundary batch may, is older than the shared counter by which a worker reserves a place.
CapHolds == \A r \in Runs : recorded[r] <= ResultLimit /\ saved[r] <= ResultLimit

\* A schedule is saved at most once and only for the run that found it, whatever
\* two listeners, drains and late messages do.
SavedWasRecorded == \A r \in Runs : saved[r] <= recorded[r]

\* The search_finished of a run nobody cancelled means that the run searched all
\* the units its partition produced, or reached the result limit.
FinishedMeansSearched ==
    \A r \in Runs :
        outcome[r] = "finished" =>
            \/ r \in cancelled
            \/ recorded[r] = ResultLimit
            \/ /\ feeder[r] \in {"ending", "done"}
               /\ \A u \in 1 .. cut[r] : <<r, <<r, u>>>> \in searched

\* ... and that everything its workers recorded was saved: the batches overtook
\* every FINISHED that counts.
FinishedMeansSaved ==
    \A r \in Runs :
        outcome[r] = "finished" => r \in cancelled \/ saved[r] = recorded[r]

\* A crash costs the run it interrupts, no later one.
OnlyThatRunIsAbandoned ==
    \A r, q \in Runs : outcome[r] = "error" /\ r < q => outcome[q] # "notReady"

\* A run is started only over an idle pool: every worker has finished with the
\* earlier run and announced itself.
PoolIdleAtStart == [][runIdHolder' # runIdHolder => Busy = {}]_vars

\* What a run recorded is final once the next run has started.
ResultsFinal ==
    [][\A r \in Runs : r < runIdHolder => recorded'[r] = recorded[r]]_vars

\* The pool implements the promise of ExclusiveRuns: a worker serves the run
\* whose payload it holds.
Exclusive == INSTANCE ExclusiveRuns WITH
    current <- runIdHolder,
    serving <- [w \in Workers |-> IF wpc[w] \in Serving THEN wrun[w] ELSE 0],
    results <- recorded

ImplementsExclusiveRuns == Exclusive!Spec

\* Every run that gets an id is reported to the user as ended, while the
\* application stays open.
EveryRunEnds ==
    \A r \in Runs : run = r ~> outcome[r] # "none" \/ guiPc = "closed"

\* After the application closes, every worker leaves by itself unless it waits for
\* room in a result queue nobody reads: shutdown_pool's terminate is for those.
WorkersLeave ==
    guiPc = "closed" ~> \A w \in Alive : Full /\ wpc[w] \in {"batch", "flush", "error"}
=============================================================================
