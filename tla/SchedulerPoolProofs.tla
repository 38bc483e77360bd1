-------------------------- MODULE SchedulerPoolProofs --------------------------
(***************************************************************************)
(* Safety of the persistent pool for any number of workers, runs, units,   *)
(* schedules, results and faults, and for every order of clicks: the       *)
(* assumptions Impatient, LateTimeouts and PromptFeeder play no part.      *)
(*                                                                         *)
(* The argument: a worker can be counted once, as a token in the ready     *)
(* queue, a token the GUI thread holds, a payload on its way, or a worker  *)
(* that is busy (TokenInv).  When the GUI thread holds a token per worker, *)
(* nobody is busy and no payload is on its way, so the reset of the shared *)
(* state in PoolStartRun meets nobody.                                     *)
(*                                                                         *)
(* What becomes of the schedules the workers record is argued with a       *)
(* ledger.  Whoever holds schedules of a run claims them one by one: the   *)
(* batch buffer of a worker, a message in a result queue, the count of     *)
(* what a listener saved.  A run has no more claims than it recorded       *)
(* schedules: recording one adds a claim, a flush or a handled batch       *)
(* passes claims on, and a drain, a stale message or a crash gives them    *)
(* up.  So no more can be saved than was recorded.                         *)
(***************************************************************************)
EXTENDS SchedulerPool, FiniteSetTheorems, FunctionTheorems, TLAPS

-----------------------------------------------------------------------------
(* The inductive invariant *)

\* Tokens, payloads and busy workers never outnumber the pool.
TokenInv ==
    guiPc # "closed" =>
        readyQ + collected + Len(controlQ) + Cardinality(Busy) <= PoolSize

\* A payload on its way belongs to the active run.
PayloadInv ==
    \A i \in 1 .. Len(controlQ) : controlQ[i] \in {0, runIdHolder}

\* So does the payload of a serving worker, and the tag it read.
ServeInv ==
    \A w \in Workers :
        /\ wpc[w] \in Serving => wrun[w] = runIdHolder /\ runIdHolder # 0
        /\ wpc[w] \in Tagged => wtag[w] = runIdHolder

\* The run being started is younger than the active one.
RunInv ==
    /\ runIdHolder <= run
    /\ guiPc = "collect" => runIdHolder < run

\* The result counter is what the active run recorded; later runs have nothing.
CountInv ==
    /\ resultCounter <= ResultLimit
    /\ \A r \in Runs :
          /\ r = runIdHolder => recorded[r] = resultCounter
          /\ r > runIdHolder => recorded[r] = 0
          /\ recorded[r] <= ResultLimit

\* A worker that may add to its batch has room for one more schedule.
BufferInv ==
    \A w \in Workers :
        wpc[w] \in {"pull", "getting", "search", "record"} => wbuf[w] < BatchSize

PoolInv == TypeOK /\ TokenInv /\ PayloadInv /\ ServeInv /\ RunInv /\ CountInv /\ BufferInv

-----------------------------------------------------------------------------
(* Facts about the helpers *)

\* The tuples only abbreviate UNCHANGED.
USE DEF guiVars, sharedVars, queueVars, workerVars, listenerVars, feederVars, historyVars

\* The pool has at least one worker.
LEMMA PoolSizeType == PoolSize \in Nat \ {0}
  BY PoolAssumption, FS_CardinalityType, FS_EmptySet DEF PoolSize

\* A suffix of a queue holds what the queue holds.
LEMMA SuffixType ==
  ASSUME NEW S, NEW q \in Seq(S), NEW i \in 1 .. Len(q) + 1
  PROVE  SubSeq(q, i, Len(q)) \in Seq(S)
  OBVIOUS

\* So do its head and its tail.
LEMMA HeadTailType ==
  ASSUME NEW S, NEW q \in Seq(S), q # <<>>
  PROVE  Head(q) \in S /\ Tail(q) \in Seq(S) /\ Len(Tail(q)) = Len(q) - 1
  OBVIOUS

\* Counting one more keeps a table of counts.
LEMMA CountUpType ==
  ASSUME NEW S, NEW f \in [S -> Nat], NEW i
  PROVE  [f EXCEPT ![i] = @ + 1] \in [S -> Nat]
  <1>1. CASE i \in S
    BY <1>1
  <1>2. CASE i \notin S
    BY <1>2
  <1> QED BY <1>1, <1>2

\* What a drain leaves of a queue of messages is one.
LEMMA DrainType ==
  ASSUME resultQ \in [Producers -> Seq(Messages)], DrainResults
  PROVE  resultQ' \in [Producers -> Seq(Messages)]
  BY DEF DrainResults

\* So is a queue one message was appended to ...
LEMMA SendType ==
  ASSUME resultQ \in [Producers -> Seq(Messages)],
         NEW p \in Producers, NEW m \in Messages, Send(p, m)
  PROVE  resultQ' \in [Producers -> Seq(Messages)]
  BY DEF Send

\* ... or one was taken from, and the message taken is a message.
LEMMA ReceiveType ==
  ASSUME resultQ \in [Producers -> Seq(Messages)],
         NEW r, NEW p \in Producers, Receive(r, p)
  PROVE  /\ resultQ' \in [Producers -> Seq(Messages)]
         /\ Head(resultQ[p]) \in Messages
  BY DEF Receive

\* The messages the workers and the feeders send.
LEMMA MessageType ==
  ASSUME NEW r \in 0 .. NumRuns, NEW n \in 0 .. BatchSize
  PROVE  Batch(r, n) \in Messages /\ Finished(r) \in Messages /\ Error(r) \in Messages
  BY PoolAssumption DEF Batch, Finished, Error, Messages

-----------------------------------------------------------------------------
(* Type correctness *)

LEMMA TypeInit == Init => TypeOK
  <1> SUFFICES ASSUME Init PROVE TypeOK
    OBVIOUS
  <1> USE PoolAssumption, PoolSizeType DEF Init
  <1>1. GuiTypeOK /\ SharedTypeOK
    <2>1. GuiTypeOK
      BY DEF GuiTypeOK
    <2>2. cancelEvent \in BOOLEAN
      BY Zenon
    <2>3. resultCounter \in Nat /\ runIdHolder \in 0 .. NumRuns
      OBVIOUS
    <2> QED BY <2>1, <2>2, <2>3 DEF SharedTypeOK
  <1>2. QueueTypeOK
    BY DEF QueueTypeOK
  <1>3. WorkerTypeOK
    BY DEF WorkerTypeOK, WorkerPcs
  <1>4. ListenerTypeOK /\ FeederTypeOK
    BY DEF ListenerTypeOK, FeederTypeOK
  <1>5. HistoryTypeOK
    BY DEF HistoryTypeOK
  <1> QED BY <1>1, <1>2, <1>3, <1>4, <1>5 DEF TypeOK

\* A group of variables that does not change keeps its types.
LEMMA TypeSame ==
  /\ GuiTypeOK /\ UNCHANGED guiVars => GuiTypeOK'
  /\ SharedTypeOK /\ UNCHANGED sharedVars => SharedTypeOK'
  /\ QueueTypeOK /\ UNCHANGED queueVars => QueueTypeOK'
  /\ WorkerTypeOK /\ UNCHANGED workerVars => WorkerTypeOK'
  /\ ListenerTypeOK /\ UNCHANGED <<listenerVars, outcome>> => ListenerTypeOK'
  /\ FeederTypeOK /\ UNCHANGED feederVars => FeederTypeOK'
  /\ HistoryTypeOK /\ UNCHANGED <<faults, historyVars>> => HistoryTypeOK'
  BY DEF GuiTypeOK, SharedTypeOK, QueueTypeOK, WorkerTypeOK, ListenerTypeOK,
         FeederTypeOK, HistoryTypeOK

\* The GUI thread's steps.
LEMMA TypeGui ==
  ASSUME TypeOK, GuiMoves \/ Clicks PROVE TypeOK'
  <1> USE DEF TypeOK
  <1>1. CASE CancelDrains
    <2>1. GuiTypeOK'
      BY <1>1 DEF CancelDrains, GuiTypeOK
    <2>2. QueueTypeOK'
      BY <1>1, DrainType DEF CancelDrains, QueueTypeOK
    <2> QED BY <1>1, <2>1, <2>2, TypeSame DEF CancelDrains
  <1>2. CASE WaitReturns
    <2>1. GuiTypeOK'
      BY <1>2, PoolAssumption DEF WaitReturns, GuiTypeOK
    <2> QED BY <1>2, <2>1, TypeSame DEF WaitReturns
  <1>3. CASE RejectInfeasible
    <2>1. GuiTypeOK'
      BY <1>3, PoolAssumption DEF RejectInfeasible, GuiTypeOK
    <2>2. ListenerTypeOK'
      BY <1>3 DEF RejectInfeasible, ListenerTypeOK
    <2> QED BY <1>3, <2>1, <2>2, TypeSame DEF RejectInfeasible
  <1>4. CASE AskPool
    <2>1. GuiTypeOK'
      BY <1>4, PoolAssumption, PoolSizeType DEF AskPool, GuiTypeOK
    <2> QED BY <1>4, <2>1, TypeSame DEF AskPool
  <1>5. CASE CollectReady
    <2>1. GuiTypeOK'
      BY <1>5, PoolSizeType DEF CollectReady, GuiTypeOK, TokensNeeded
    <2>2. QueueTypeOK'
      BY <1>5 DEF CollectReady, QueueTypeOK, GuiTypeOK
    <2> QED BY <1>5, <2>1, <2>2, TypeSame DEF CollectReady
  <1>6. CASE ReadyTimesOut
    <2>1. GuiTypeOK'
      BY <1>6, PoolSizeType DEF ReadyTimesOut, GuiTypeOK
    <2>2. ListenerTypeOK'
      BY <1>6 DEF ReadyTimesOut, ListenerTypeOK
    <2> QED BY <1>6, <2>1, <2>2, TypeSame DEF ReadyTimesOut
  <1>7. CASE PoolStartRun
    <2>1. GuiTypeOK'
      BY <1>7, PoolSizeType DEF PoolStartRun, GuiTypeOK
    <2>2. SharedTypeOK'
      BY <1>7 DEF PoolStartRun, SharedTypeOK, GuiTypeOK
    <2>3. QueueTypeOK'
      <3>1. [i \in 1 .. PoolSize |-> run] \in Seq(0 .. NumRuns)
        BY PoolSizeType DEF GuiTypeOK
      <3>2. controlQ' \in Seq(0 .. NumRuns)
        BY <1>7, <3>1 DEF PoolStartRun, QueueTypeOK
      <3>3. workQ' \in Seq(Units \cup {NoUnit})
        <4>1. workQ' = <<>> \/ \E i \in 1 .. Len(workQ) + 1 : workQ' = SubSeq(workQ, i, Len(workQ))
          BY <1>7 DEF PoolStartRun, Leftovers
        <4>2. workQ \in Seq(Units \cup {NoUnit})
          BY DEF QueueTypeOK
        <4>3. ASSUME NEW i \in 1 .. Len(workQ) + 1, workQ' = SubSeq(workQ, i, Len(workQ))
              PROVE  workQ' \in Seq(Units \cup {NoUnit})
          BY <4>2, <4>3, SuffixType
        <4>4. CASE workQ' = <<>>
          BY <4>4
        <4> QED BY <4>1, <4>3, <4>4
      <3>4. resultQ' \in [Producers -> Seq(Messages)]
        BY <1>7, DrainType DEF PoolStartRun, QueueTypeOK
      <3> QED BY <1>7, <3>2, <3>3, <3>4 DEF PoolStartRun, QueueTypeOK
    <2>4. ListenerTypeOK'
      BY <1>7 DEF PoolStartRun, ListenerTypeOK
    <2>5. FeederTypeOK'
      BY <1>7 DEF PoolStartRun, FeederTypeOK
    <2> QED BY <1>7, <2>1, <2>2, <2>3, <2>4, <2>5, TypeSame DEF PoolStartRun
  <1>8. CASE ClickGenerate
    <2>1. GuiTypeOK'
      BY <1>8 DEF ClickGenerate, GuiTypeOK
    <2>2. SharedTypeOK'
      BY <1>8 DEF ClickGenerate, SharedTypeOK
    <2>3. HistoryTypeOK'
      BY <1>8 DEF ClickGenerate, HistoryTypeOK, ListenerAlive
    <2> QED BY <1>8, <2>1, <2>2, <2>3, TypeSame DEF ClickGenerate
  <1>9. CASE ClickCancel
    <2>1. GuiTypeOK'
      BY <1>9 DEF ClickCancel, GuiTypeOK
    <2>2. SharedTypeOK'
      BY <1>9 DEF ClickCancel, SharedTypeOK
    <2>3. HistoryTypeOK'
      BY <1>9 DEF ClickCancel, HistoryTypeOK, ListenerAlive
    <2> QED BY <1>9, <2>1, <2>2, <2>3, TypeSame DEF ClickCancel
  <1>10. CASE Close
    <2>1. GuiTypeOK'
      BY <1>10 DEF Close, GuiTypeOK
    <2>2. SharedTypeOK'
      BY <1>10 DEF Close, SharedTypeOK
    <2>3. QueueTypeOK'
      <3>1. ShutdownPayloads \in Seq(0 .. NumRuns)
        BY PoolAssumption, PoolSizeType DEF ShutdownPayloads
      <3>2. controlQ' \in Seq(0 .. NumRuns)
        BY <1>10, <3>1 DEF Close, QueueTypeOK
      <3>3. resultQ' \in [Producers -> Seq(Messages)]
        BY <1>10, DrainType DEF Close, QueueTypeOK
      <3> QED BY <1>10, <3>2, <3>3 DEF Close, QueueTypeOK
    <2>4. HistoryTypeOK'
      BY <1>10 DEF Close, HistoryTypeOK, ListenerAlive
    <2> QED BY <1>10, <2>1, <2>2, <2>3, <2>4, TypeSame DEF Close
  <1> QED BY <1>1, <1>2, <1>3, <1>4, <1>5, <1>6, <1>7, <1>8, <1>9, <1>10 DEF GuiMoves, Clicks

\* A worker's steps.
LEMMA TypeWorker ==
  ASSUME TypeOK, BufferInv, NEW w \in Workers, WorkerMoves(w) PROVE TypeOK'
  <1> USE DEF TypeOK
  <1>1. CASE Announce(w)
    <2>1. WorkerTypeOK'
      BY <1>1 DEF Announce, WorkerTypeOK, WorkerAt, WorkerPcs, Serving, Tagged, Gone
    <2>2. QueueTypeOK'
      BY <1>1 DEF Announce, QueueTypeOK
    <2> QED BY <1>1, <2>1, <2>2, TypeSame DEF Announce
  <1>2. CASE TakePayload(w)
    <2>1. WorkerTypeOK'
      <3>1. Head(controlQ) \in 0 .. NumRuns
        BY <1>2, HeadTailType DEF TakePayload, QueueTypeOK
      <3> QED BY <1>2, <3>1 DEF TakePayload, WorkerTypeOK, WorkerAt, WorkerPcs, Serving
    <2>2. QueueTypeOK'
      BY <1>2 DEF TakePayload, QueueTypeOK
    <2> QED BY <1>2, <2>1, <2>2, TypeSame DEF TakePayload
  <1>3. CASE TakeShutdown(w)
    <2>1. WorkerTypeOK'
      BY <1>3 DEF TakeShutdown, WorkerTypeOK, WorkerAt, WorkerPcs, Serving, Tagged, Gone
    <2>2. QueueTypeOK'
      BY <1>3 DEF TakeShutdown, QueueTypeOK
    <2> QED BY <1>3, <2>1, <2>2, TypeSame DEF TakeShutdown
  <1>4. CASE ReadRunId(w)
    <2>1. WorkerTypeOK'
      BY <1>4, PoolAssumption DEF ReadRunId, WorkerTypeOK, WorkerAt, WorkerPcs, Serving, Tagged, Gone, SharedTypeOK
    <2> QED BY <1>4, <2>1, TypeSame DEF ReadRunId
  <1>5. CASE CheckCancel(w)
    <2>1. WorkerTypeOK'
      BY <1>5 DEF CheckCancel, WorkerTypeOK, WorkerAt, WorkerPcs, Serving, Tagged, Gone
    <2> QED BY <1>5, <2>1, TypeSame DEF CheckCancel
  <1>6. CASE GetEmpty(w)
    <2>1. WorkerTypeOK'
      BY <1>6 DEF GetEmpty, WorkerTypeOK, WorkerAt, WorkerPcs, Serving, Tagged, Gone
    <2> QED BY <1>6, <2>1, TypeSame DEF GetEmpty
  <1>7. CASE GetItem(w)
    <2>1. WorkerTypeOK'
      <3>1. Head(workQ) \in Units \cup {NoUnit}
        BY <1>7, HeadTailType DEF GetItem, QueueTypeOK
      <3>2. wpc' \in [Workers -> WorkerPcs]
        BY <1>7 DEF GetItem, WorkerTypeOK, WorkerAt, WorkerPcs, Serving, Tagged, Gone
      <3>3. wunit' \in [Workers -> Units \cup {NoUnit}]
        BY <1>7, <3>1 DEF GetItem, WorkerTypeOK
      <3>4. wfound' \in [Workers -> 0 .. PerUnit]
        BY <1>7, PoolAssumption DEF GetItem, WorkerTypeOK
      <3> QED BY <1>7, <3>2, <3>3, <3>4 DEF GetItem, WorkerTypeOK
    <2>2. QueueTypeOK'
      BY <1>7 DEF GetItem, QueueTypeOK
    <2> QED BY <1>7, <2>1, <2>2, TypeSame DEF GetItem
  <1>8. CASE ReachSchedule(w)
    <2>1. WorkerTypeOK'
      BY <1>8, PoolAssumption DEF ReachSchedule, WorkerTypeOK, WorkerAt, WorkerPcs, Serving, Tagged, Gone
    <2> QED BY <1>8, <2>1, TypeSame DEF ReachSchedule
  <1>9. CASE RecordSchedule(w)
    <2>1. SharedTypeOK'
      BY <1>9 DEF RecordSchedule, SharedTypeOK
    <2>2. WorkerTypeOK'
      BY <1>9, PoolAssumption DEF RecordSchedule, WorkerTypeOK, WorkerAt, WorkerPcs, Serving, Tagged, Gone, BufferInv
    <2>3. HistoryTypeOK'
      <3>1. recorded' \in [Runs -> Nat]
        BY <1>9, CountUpType DEF RecordSchedule, HistoryTypeOK
      <3> QED BY <1>9, <3>1 DEF RecordSchedule, HistoryTypeOK
    <2> QED BY <1>9, <2>1, <2>2, <2>3, TypeSame DEF RecordSchedule
  <1>10. CASE DropSchedule(w)
    <2>1. WorkerTypeOK'
      BY <1>10 DEF DropSchedule, WorkerTypeOK, WorkerAt, WorkerPcs, Serving, Tagged, Gone
    <2> QED BY <1>10, <2>1, TypeSame DEF DropSchedule
  <1>11. CASE FinishUnit(w)
    <2>1. WorkerTypeOK'
      BY <1>11 DEF FinishUnit, WorkerTypeOK, WorkerAt, WorkerPcs, Serving, Tagged, Gone
    <2>2. HistoryTypeOK'
      BY <1>11 DEF FinishUnit, HistoryTypeOK, WorkerTypeOK
    <2> QED BY <1>11, <2>1, <2>2, TypeSame DEF FinishUnit
  <1>12. CASE AbandonUnit(w)
    <2>1. WorkerTypeOK'
      BY <1>12 DEF AbandonUnit, WorkerTypeOK, WorkerAt, WorkerPcs, Serving, Tagged, Gone
    <2> QED BY <1>12, <2>1, TypeSame DEF AbandonUnit
  <1>13. CASE FlushBuffer(w)
    <2>1. WorkerTypeOK'
      BY <1>13, PoolAssumption DEF FlushBuffer, WorkerTypeOK, WorkerAt, WorkerPcs, Serving, Tagged, Gone, ClearBuffer
    <2>2. QueueTypeOK'
      BY <1>13, MessageType, SendType DEF FlushBuffer, QueueTypeOK, WorkerTypeOK, Producers
    <2> QED BY <1>13, <2>1, <2>2, TypeSame DEF FlushBuffer
  <1>14. CASE SendFinished(w)
    <2>1. WorkerTypeOK'
      BY <1>14 DEF SendFinished, WorkerTypeOK, WorkerAt, WorkerPcs, Serving, Tagged, Gone
    <2>2. QueueTypeOK'
      BY <1>14, MessageType, SendType, PoolAssumption DEF SendFinished, QueueTypeOK, WorkerTypeOK, Producers
    <2> QED BY <1>14, <2>1, <2>2, TypeSame DEF SendFinished
  <1>15. CASE SendError(w)
    <2>1. WorkerTypeOK'
      BY <1>15 DEF SendError, WorkerTypeOK, WorkerAt, WorkerPcs, Serving, Tagged, Gone
    <2>2. QueueTypeOK'
      BY <1>15, MessageType, SendType, PoolAssumption DEF SendError, QueueTypeOK, WorkerTypeOK, Producers
    <2> QED BY <1>15, <2>1, <2>2, TypeSame DEF SendError
  <1> QED BY <1>1, <1>2, <1>3, <1>4, <1>5, <1>6, <1>7, <1>8, <1>9, <1>10, <1>11, <1>12, <1>13, <1>14, <1>15 DEF WorkerMoves

\* A listener's steps.
LEMMA TypeListener ==
  ASSUME TypeOK, NEW r \in Runs, ListenerMoves(r) PROVE TypeOK'
  <1> USE DEF TypeOK
  <1>1. ASSUME NEW p \in Producers, Receive(r, p)
        PROVE  QueueTypeOK' /\ Head(resultQ[p]).count \in Nat
    <2>1. resultQ' \in [Producers -> Seq(Messages)] /\ Head(resultQ[p]) \in Messages
      BY <1>1, ReceiveType DEF QueueTypeOK
    <2>2. Head(resultQ[p]).count \in Nat
      BY <2>1, PoolAssumption DEF Messages
    <2> QED BY <1>1, <2>1, <2>2 DEF Receive, QueueTypeOK
  <1>2. ASSUME NEW p \in Producers, DropStale(r, p) PROVE TypeOK'
    <2>1. QueueTypeOK'
      BY <1>1, <1>2, PoolSizeType DEF DropStale, QueueTypeOK, Receive
    <2> QED BY <1>2, <2>1, TypeSame DEF DropStale, Receive
  <1>3. ASSUME NEW p \in Producers, HandleBatch(r, p) PROVE TypeOK'
    <2>1. QueueTypeOK'
      BY <1>1, <1>3, PoolSizeType DEF HandleBatch, QueueTypeOK, ReceiveOwn, Receive
    <2>2. SharedTypeOK'
      BY <1>1, <1>3, PoolSizeType DEF HandleBatch, SharedTypeOK, ReceiveOwn, Receive
    <2>3. ListenerTypeOK'
      <3>1. Head(resultQ[p]).count \in Nat
        BY <1>1, <1>3 DEF HandleBatch, ReceiveOwn
      <3> QED BY <1>3, <3>1 DEF HandleBatch, ListenerTypeOK
    <2> QED BY <1>3, <2>1, <2>2, <2>3, TypeSame DEF HandleBatch, ReceiveOwn, Receive
  <1>4. ASSUME NEW p \in Producers, HandleFinished(r, p) PROVE TypeOK'
    <2>1. QueueTypeOK'
      BY <1>1, <1>4, PoolSizeType DEF HandleFinished, QueueTypeOK, ReceiveOwn, Receive
    <2>2. ListenerTypeOK'
      <3>1. finishes' \in [Runs -> Nat] /\ saved' \in [Runs -> Nat]
        BY <1>4 DEF HandleFinished, ListenerTypeOK
      <3>2. CASE finishes[r] + 1 >= ExpectedFinishes
        BY <1>4, <3>1, <3>2 DEF HandleFinished, ListenerTypeOK, Ends
      <3>3. CASE ~(finishes[r] + 1 >= ExpectedFinishes)
        BY <1>4, <3>1, <3>3 DEF HandleFinished, ListenerTypeOK
      <3> QED BY <3>2, <3>3
    <2> QED BY <1>4, <2>1, <2>2, TypeSame DEF HandleFinished, ReceiveOwn, Receive
  <1>5. ASSUME NEW p \in Producers, HandleError(r, p) PROVE TypeOK'
    <2>1. QueueTypeOK'
      BY <1>1, <1>5, PoolSizeType DEF HandleError, QueueTypeOK, ReceiveOwn, Receive
    <2>2. ListenerTypeOK'
      BY <1>1, <1>5, PoolSizeType DEF HandleError, ListenerTypeOK, Ends, ReceiveOwn, Receive
    <2> QED BY <1>5, <2>1, <2>2, TypeSame DEF HandleError, ReceiveOwn, Receive
  <1>6. CASE NoticeCrash(r)
    <2>1. ListenerTypeOK'
      BY <1>6 DEF NoticeCrash, ListenerTypeOK, Ends
    <2> QED BY <1>6, <2>1, TypeSame DEF NoticeCrash
  <1>7. CASE Shutdown(r)
    <2>1. ListenerTypeOK'
      BY <1>7 DEF Shutdown, ListenerTypeOK
    <2>2. QueueTypeOK'
      BY <1>7, DrainType DEF Shutdown, QueueTypeOK
    <2> QED BY <1>7, <2>1, <2>2, TypeSame DEF Shutdown
  <1> QED BY <1>2, <1>3, <1>4, <1>5, <1>6, <1>7 DEF ListenerMoves

\* A feeder's steps.
LEMMA TypeFeeder ==
  ASSUME TypeOK, NEW r \in Runs, FeederMoves(r) PROVE TypeOK'
  <1> USE DEF TypeOK
  <1>1. CASE Partition(r)
    <2>1. FeederTypeOK'
      BY <1>1 DEF Partition, FeederTypeOK, FeederAt
    <2> QED BY <1>1, <2>1, TypeSame DEF Partition
  <1>2. CASE ReportPartitionError(r)
    <2>1. FeederTypeOK'
      BY <1>2 DEF ReportPartitionError, FeederTypeOK, FeederAt
    <2>2. QueueTypeOK'
      <3>1. Error(r) \in Messages /\ Main \in Producers
        BY MessageType, PoolAssumption DEF Runs, Producers
      <3> QED BY <1>2, <3>1, SendType DEF ReportPartitionError, QueueTypeOK
    <2> QED BY <1>2, <2>1, <2>2, TypeSame DEF ReportPartitionError
  <1>3. CASE FeedUnit(r)
    <2>1. FeederTypeOK'
      BY <1>3, PoolAssumption DEF FeedUnit, FeederTypeOK, FeederAt
    <2>2. QueueTypeOK'
      BY <1>3, PoolAssumption DEF FeedUnit, QueueTypeOK, FeederTypeOK, Units, Runs
    <2> QED BY <1>3, <2>1, <2>2, TypeSame DEF FeedUnit
  <1>4. CASE StopFeeding(r)
    <2>1. FeederTypeOK'
      BY <1>4 DEF StopFeeding, FeederTypeOK, FeederAt
    <2> QED BY <1>4, <2>1, TypeSame DEF StopFeeding
  <1>5. CASE FeedSentinels(r)
    <2>1. FeederTypeOK'
      BY <1>5 DEF FeedSentinels, FeederTypeOK, FeederAt
    <2>2. QueueTypeOK'
      BY <1>5, PoolSizeType DEF FeedSentinels, QueueTypeOK
    <2> QED BY <1>5, <2>1, <2>2, TypeSame DEF FeedSentinels
  <1> QED BY <1>1, <1>2, <1>3, <1>4, <1>5 DEF FeederMoves

\* Faults, and the terminate of shutdown_pool.
LEMMA TypeMishap ==
  ASSUME TypeOK, Mishaps PROVE TypeOK'
  <1> USE DEF TypeOK
  <1>1. ASSUME NEW w \in Workers, WorkerRaises(w) PROVE TypeOK'
    <2>1. WorkerTypeOK'
      BY <1>1 DEF WorkerRaises, WorkerTypeOK, WorkerAt, WorkerPcs, Serving, Tagged, Gone
    <2>2. HistoryTypeOK'
      BY <1>1, PoolAssumption DEF WorkerRaises, HistoryTypeOK, Fault
    <2> QED BY <1>1, <2>1, <2>2, TypeSame DEF WorkerRaises
  <1>2. ASSUME NEW w \in Workers, Crash(w) PROVE TypeOK'
    <2>1. WorkerTypeOK'
      BY <1>2 DEF Crash, WorkerTypeOK, WorkerAt, WorkerPcs, Serving, Tagged, Gone
    <2>2. QueueTypeOK'
      BY <1>2 DEF Crash, QueueTypeOK, Producers
    <2>3. HistoryTypeOK'
      BY <1>2, PoolAssumption DEF Crash, HistoryTypeOK, Fault
    <2> QED BY <1>2, <2>1, <2>2, <2>3, TypeSame DEF Crash
  <1>3. ASSUME NEW w \in Workers, Terminate(w) PROVE TypeOK'
    <2>1. WorkerTypeOK'
      BY <1>3 DEF Terminate, WorkerTypeOK, WorkerAt, WorkerPcs, Serving, Tagged, Gone
    <2> QED BY <1>3, <2>1, TypeSame DEF Terminate
  <1>4. ASSUME NEW r \in Runs, PartitionRaises(r) PROVE TypeOK'
    <2>1. FeederTypeOK'
      BY <1>4 DEF PartitionRaises, FeederTypeOK, FeederAt
    <2>2. HistoryTypeOK'
      BY <1>4, PoolAssumption DEF PartitionRaises, HistoryTypeOK, Fault
    <2> QED BY <1>4, <2>1, <2>2, TypeSame DEF PartitionRaises
  <1> QED BY <1>1, <1>2, <1>3, <1>4 DEF Mishaps


-----------------------------------------------------------------------------
(* The pool's bookkeeping *)

BusyPcs == Serving \cup {"announce"}

\* One worker moves: how the number of busy workers changes.
LEMMA BusyMoves ==
  ASSUME wpc \in [Workers -> WorkerPcs], NEW w \in Workers, NEW to,
         wpc' = [wpc EXCEPT ![w] = to]
  PROVE  /\ Cardinality(Busy) \in Nat /\ Cardinality(Busy') \in Nat
         /\ Cardinality(Busy') <= Cardinality(Busy) + 1
         /\ wpc[w] \in BusyPcs \/ to \notin BusyPcs => Cardinality(Busy') <= Cardinality(Busy)
         /\ wpc[w] \in BusyPcs /\ to \notin BusyPcs => Cardinality(Busy') = Cardinality(Busy) - 1
  <1>1. /\ IsFiniteSet(Busy) /\ IsFiniteSet(Busy')
        /\ Cardinality(Busy) \in Nat /\ Cardinality(Busy') \in Nat
    <2>1. Busy \in SUBSET Workers /\ Busy' \in SUBSET Workers
      BY DEF Busy
    <2> QED BY <2>1, PoolAssumption, FS_Subset, FS_CardinalityType
  <1>2. w \in Busy <=> wpc[w] \in BusyPcs
    BY DEF Busy, BusyPcs
  <1>3. CASE to \in BusyPcs
    <2>1. Busy' = Busy \cup {w}
      BY <1>3 DEF Busy, BusyPcs
    <2> QED BY <1>1, <1>2, <1>3, <2>1, FS_AddElement
  <1>4. CASE to \notin BusyPcs
    <2>1. Busy' = Busy \ {w}
      BY <1>4 DEF Busy, BusyPcs
    <2> QED BY <1>1, <1>2, <1>4, <2>1, FS_RemoveElement
  <1> QED BY <1>3, <1>4

\* Counting the busy workers makes sense.
LEMMA BusyType == IsFiniteSet(Busy) /\ Cardinality(Busy) \in Nat
  <1>1. Busy \in SUBSET Workers
    BY DEF Busy
  <1> QED BY <1>1, PoolAssumption, FS_Subset, FS_CardinalityType

\* A full set of tokens means an idle pool with nothing on its way to it.
LEMMA AllTokensMeansIdle ==
  ASSUME PoolInv, guiPc = "collect", collected = PoolSize
  PROVE  Busy = {} /\ controlQ = <<>> /\ readyQ = 0
  <1>1. IsFiniteSet(Busy) /\ Cardinality(Busy) \in Nat
    BY BusyType
  <1>2. readyQ \in Nat /\ Len(controlQ) \in Nat /\ controlQ \in Seq(0 .. NumRuns)
    BY DEF PoolInv, TypeOK, QueueTypeOK
  <1>3. Cardinality(Busy) = 0 /\ Len(controlQ) = 0 /\ readyQ = 0
    BY <1>1, <1>2, PoolSizeType DEF PoolInv, TokenInv
  <1> QED BY <1>1, <1>2, <1>3, FS_EmptySet

\* What a part of the invariant does not read does not disturb it.
LEMMA InvSame ==
  /\ TokenInv /\ UNCHANGED <<guiPc, readyQ, collected, controlQ, wpc>> => TokenInv'
  /\ PayloadInv /\ UNCHANGED <<controlQ, runIdHolder>> => PayloadInv'
  /\ ServeInv /\ UNCHANGED <<wpc, wrun, wtag, runIdHolder>> => ServeInv'
  /\ RunInv /\ UNCHANGED <<guiPc, run, runIdHolder>> => RunInv'
  /\ CountInv /\ UNCHANGED <<resultCounter, runIdHolder, recorded>> => CountInv'
  /\ BufferInv /\ UNCHANGED <<wpc, wbuf>> => BufferInv'
  BY DEF TokenInv, PayloadInv, ServeInv, RunInv, CountInv, BufferInv, Busy

BookInv == TokenInv /\ PayloadInv /\ ServeInv /\ RunInv /\ CountInv /\ BufferInv

\* The initial state.
LEMMA BookInit == Init => BookInv
  <1> SUFFICES ASSUME Init PROVE BookInv
    OBVIOUS
  <1>1. TokenInv
    <2>1. Busy = Workers
      BY DEF Init, Busy
    <2> QED BY <2>1, PoolSizeType DEF Init, TokenInv, PoolSize
  <1>2. PayloadInv /\ RunInv
    BY DEF Init, PayloadInv, RunInv
  <1>3. ServeInv /\ BufferInv
    BY DEF Init, ServeInv, BufferInv, Serving, Tagged
  <1>4. CountInv
    BY PoolAssumption DEF Init, CountInv, Runs
  <1> QED BY <1>1, <1>2, <1>3, <1>4 DEF BookInv

\* The GUI thread's steps.
LEMMA BookGui ==
  ASSUME PoolInv, GuiMoves \/ Clicks PROVE BookInv'
  <1> USE DEF PoolInv, BookInv
  <1>1. CASE CancelDrains
    <2>1. TokenInv'
      BY <1>1 DEF CancelDrains, TokenInv, Busy
    <2>2. RunInv'
      BY <1>1 DEF CancelDrains, RunInv
    <2> QED BY <1>1, <2>1, <2>2, InvSame DEF CancelDrains
  <1>2. CASE WaitReturns
    <2>1. TokenInv'
      BY <1>2 DEF WaitReturns, TokenInv, Busy
    <2>2. RunInv'
      BY <1>2 DEF WaitReturns, RunInv
    <2> QED BY <1>2, <2>1, <2>2, InvSame DEF WaitReturns
  <1>3. CASE RejectInfeasible
    <2>1. TokenInv'
      BY <1>3 DEF RejectInfeasible, TokenInv, Busy
    <2>2. RunInv'
      BY <1>3 DEF RejectInfeasible, RunInv, TypeOK, GuiTypeOK, SharedTypeOK
    <2> QED BY <1>3, <2>1, <2>2, InvSame DEF RejectInfeasible
  <1>4. CASE AskPool
    <2>1. TokenInv'
      <3>1. Busy' = Busy
        BY <1>4 DEF AskPool, Busy
      <3> QED BY <1>4, <3>1, BusyType, PoolSizeType
          DEF AskPool, TokenInv, TypeOK, QueueTypeOK, GuiTypeOK
    <2>2. RunInv'
      BY <1>4 DEF AskPool, RunInv, TypeOK, GuiTypeOK, SharedTypeOK
    <2> QED BY <1>4, <2>1, <2>2, InvSame DEF AskPool
  <1>5. CASE CollectReady
    <2>1. TokenInv'
      BY <1>5 DEF CollectReady, TokenInv, Busy, TypeOK, QueueTypeOK, GuiTypeOK
    <2> QED BY <1>5, <2>1, InvSame DEF CollectReady
  <1>6. CASE ReadyTimesOut
    <2>1. TokenInv'
      <3>1. Busy' = Busy
        BY <1>6 DEF ReadyTimesOut, Busy
      <3> QED BY <1>6, <3>1, BusyType, PoolSizeType
          DEF ReadyTimesOut, TokenInv, TypeOK, QueueTypeOK, GuiTypeOK
    <2>2. RunInv'
      BY <1>6 DEF ReadyTimesOut, RunInv, TypeOK, GuiTypeOK, SharedTypeOK
    <2> QED BY <1>6, <2>1, <2>2, InvSame DEF ReadyTimesOut
  <1>7. CASE PoolStartRun
    <2> USE <1>7 DEF PoolStartRun
    <2>1. Busy = {} /\ controlQ = <<>> /\ readyQ = 0
      BY AllTokensMeansIdle DEF TokensNeeded
    <2>2. run \in Runs /\ runIdHolder < run
      BY DEF RunInv, TypeOK, GuiTypeOK, SharedTypeOK, Runs
    <2>3. /\ Len(controlQ') = PoolSize
          /\ \A j \in 1 .. PoolSize : controlQ'[j] = run
      BY <2>1, PoolSizeType
    <2>4. TokenInv'
      <3>1. Busy' = {}
        BY <2>1 DEF Busy
      <3> QED BY <2>1, <2>3, <3>1, FS_EmptySet, PoolSizeType DEF TokenInv
    <2>5. PayloadInv'
      BY <2>3 DEF PayloadInv
    <2>6. ServeInv'
      BY <2>1 DEF ServeInv, Busy, Serving
    <2>7. RunInv'
      BY DEF RunInv, TypeOK, GuiTypeOK
    <2>8. CountInv'
      BY <2>2, PoolAssumption DEF CountInv, TypeOK, SharedTypeOK, Runs
    <2> QED BY <2>4, <2>5, <2>6, <2>7, <2>8, InvSame
  <1>8. CASE ClickGenerate
    <2>1. TokenInv'
      BY <1>8 DEF ClickGenerate, TokenInv, Busy
    <2>2. RunInv'
      BY <1>8 DEF ClickGenerate, RunInv
    <2> QED BY <1>8, <2>1, <2>2, InvSame DEF ClickGenerate
  <1>9. CASE ClickCancel
    <2>1. TokenInv'
      BY <1>9 DEF ClickCancel, TokenInv, Busy
    <2>2. RunInv'
      BY <1>9 DEF ClickCancel, RunInv
    <2> QED BY <1>9, <2>1, <2>2, InvSame DEF ClickCancel
  <1>10. CASE Close
    <2>1. TokenInv'
      BY <1>10 DEF Close, TokenInv
    <2>2. PayloadInv'
      BY <1>10, PoolSizeType DEF Close, PayloadInv, ShutdownPayloads, TypeOK, QueueTypeOK
    <2>3. RunInv'
      BY <1>10 DEF Close, RunInv
    <2> QED BY <1>10, <2>1, <2>2, <2>3, InvSame DEF Close
  <1> QED BY <1>1, <1>2, <1>3, <1>4, <1>5, <1>6, <1>7, <1>8, <1>9, <1>10 DEF GuiMoves, Clicks

\* A serving worker that moves on, or any worker that dies, frees what it counts for.
LEMMA TokenKept ==
  ASSUME TypeOK, TokenInv, NEW w \in Workers, NEW to,
         wpc[w] \in BusyPcs \/ to \notin BusyPcs,
         wpc' = [wpc EXCEPT ![w] = to],
         UNCHANGED <<guiPc, readyQ, collected, controlQ>>
  PROVE  TokenInv'
  <1>1. wpc \in [Workers -> WorkerPcs]
    BY DEF TypeOK, WorkerTypeOK
  <1>2. Cardinality(Busy) \in Nat /\ Cardinality(Busy') \in Nat
        /\ Cardinality(Busy') <= Cardinality(Busy)
    BY <1>1, BusyMoves
  <1>3. readyQ \in Nat /\ collected \in Nat /\ Len(controlQ) \in Nat
    BY PoolSizeType DEF TypeOK, QueueTypeOK, GuiTypeOK
  <1> QED BY <1>2, <1>3, PoolSizeType DEF TokenInv

\* A worker's steps.
LEMMA BookWorker ==
  ASSUME PoolInv, NEW w \in Workers, WorkerMoves(w) PROVE BookInv'
  <1> USE DEF PoolInv, BookInv
  <1>0. /\ wpc \in [Workers -> WorkerPcs]
        /\ readyQ \in Nat /\ collected \in Nat /\ Len(controlQ) \in Nat
        /\ controlQ \in Seq(0 .. NumRuns)
    BY PoolSizeType DEF TypeOK, WorkerTypeOK, QueueTypeOK, GuiTypeOK
  <1>1. CASE Announce(w)
    <2>1. TokenInv'
      <3>1. Cardinality(Busy) \in Nat /\ Cardinality(Busy') = Cardinality(Busy) - 1
        <4>1. wpc[w] = "announce" /\ wpc' = [wpc EXCEPT ![w] = "parked"]
          BY <1>1 DEF Announce, WorkerAt
        <4>2. wpc[w] \in BusyPcs /\ "parked" \notin BusyPcs
          BY <4>1 DEF BusyPcs, Serving, Tagged
        <4> QED BY <1>0, <4>1, <4>2, BusyMoves
      <3> QED BY <1>0, <1>1, <3>1, PoolSizeType DEF Announce, TokenInv
    <2>2. ServeInv'
      BY <1>1 DEF Announce, ServeInv, WorkerAt, Serving, Tagged, TypeOK, WorkerTypeOK
    <2>3. BufferInv'
      BY <1>1 DEF Announce, BufferInv, WorkerAt, TypeOK, WorkerTypeOK
    <2> QED BY <1>1, <2>1, <2>2, <2>3, InvSame DEF Announce
  <1>2. CASE TakePayload(w)
    <2>1. Len(controlQ') = Len(controlQ) - 1 /\ PayloadInv'
      BY <1>0, <1>2 DEF TakePayload, PayloadInv
    <2>2. TokenInv'
      <3>1. /\ Cardinality(Busy) \in Nat /\ Cardinality(Busy') \in Nat
            /\ Cardinality(Busy') <= Cardinality(Busy) + 1
        BY <1>0, <1>2, BusyMoves DEF TakePayload, WorkerAt
      <3> QED BY <1>0, <1>2, <2>1, <3>1, PoolSizeType DEF TakePayload, TokenInv
    <2>3. ServeInv'
      <3>1. Head(controlQ) = runIdHolder /\ runIdHolder # 0
        BY <1>0, <1>2 DEF TakePayload, PayloadInv
      <3> QED BY <1>2, <3>1
          DEF TakePayload, ServeInv, WorkerAt, Serving, Tagged, TypeOK, WorkerTypeOK
    <2>4. BufferInv'
      BY <1>2 DEF TakePayload, BufferInv, WorkerAt, TypeOK, WorkerTypeOK
    <2> QED BY <1>2, <2>1, <2>2, <2>3, <2>4, InvSame DEF TakePayload
  <1>3. CASE TakeShutdown(w)
    <2>1. Len(controlQ') = Len(controlQ) - 1 /\ PayloadInv'
      BY <1>0, <1>3 DEF TakeShutdown, PayloadInv
    <2>2. TokenInv'
      <3>1. /\ Cardinality(Busy) \in Nat /\ Cardinality(Busy') \in Nat
            /\ Cardinality(Busy') <= Cardinality(Busy)
        <4>1. wpc' = [wpc EXCEPT ![w] = "exited"]
          BY <1>3 DEF TakeShutdown, WorkerAt
        <4>2. "exited" \notin BusyPcs
          BY DEF BusyPcs, Serving, Tagged
        <4> QED BY <1>0, <4>1, <4>2, BusyMoves
      <3> QED BY <1>0, <1>3, <2>1, <3>1, PoolSizeType DEF TakeShutdown, TokenInv
    <2>3. ServeInv'
      BY <1>3 DEF TakeShutdown, ServeInv, WorkerAt, Serving, Tagged, TypeOK, WorkerTypeOK
    <2>4. BufferInv'
      BY <1>3 DEF TakeShutdown, BufferInv, WorkerAt, TypeOK, WorkerTypeOK
    <2> QED BY <1>3, <2>1, <2>2, <2>3, <2>4, InvSame DEF TakeShutdown
  <1>4. CASE ReadRunId(w)
    <2>1. TokenInv'
      BY <1>4, TokenKept DEF ReadRunId, WorkerAt, BusyPcs, Serving, Tagged
    <2>2. ServeInv'
      BY <1>4 DEF ReadRunId, ServeInv, WorkerAt, Serving, Tagged, TypeOK, WorkerTypeOK
    <2>3. BufferInv'
      BY <1>4, PoolAssumption DEF ReadRunId, BufferInv, WorkerAt, TypeOK, WorkerTypeOK
    <2> QED BY <1>4, <2>1, <2>2, <2>3, InvSame DEF ReadRunId
  <1>5. CASE CheckCancel(w)
    <2>1. TokenInv'
      BY <1>5, TokenKept DEF CheckCancel, WorkerAt, BusyPcs, Serving, Tagged
    <2>2. ServeInv'
      BY <1>5 DEF CheckCancel, ServeInv, WorkerAt, Serving, Tagged, TypeOK, WorkerTypeOK
    <2>3. BufferInv'
      BY <1>5, PoolAssumption DEF CheckCancel, BufferInv, WorkerAt, TypeOK, WorkerTypeOK
    <2> QED BY <1>5, <2>1, <2>2, <2>3, InvSame DEF CheckCancel
  <1>6. CASE GetEmpty(w)
    <2>1. TokenInv'
      BY <1>6, TokenKept DEF GetEmpty, WorkerAt, BusyPcs, Serving, Tagged
    <2>2. ServeInv'
      BY <1>6 DEF GetEmpty, ServeInv, WorkerAt, Serving, Tagged, TypeOK, WorkerTypeOK
    <2>3. BufferInv'
      BY <1>6, PoolAssumption DEF GetEmpty, BufferInv, WorkerAt, TypeOK, WorkerTypeOK
    <2> QED BY <1>6, <2>1, <2>2, <2>3, InvSame DEF GetEmpty
  <1>7. CASE GetItem(w)
    <2>1. TokenInv'
      BY <1>7, TokenKept DEF GetItem, WorkerAt, BusyPcs, Serving, Tagged
    <2>2. ServeInv'
      BY <1>7 DEF GetItem, ServeInv, WorkerAt, Serving, Tagged, TypeOK, WorkerTypeOK
    <2>3. BufferInv'
      BY <1>7, PoolAssumption DEF GetItem, BufferInv, WorkerAt, TypeOK, WorkerTypeOK
    <2> QED BY <1>7, <2>1, <2>2, <2>3, InvSame DEF GetItem
  <1>8. CASE ReachSchedule(w)
    <2>1. TokenInv'
      BY <1>8, TokenKept DEF ReachSchedule, WorkerAt, BusyPcs, Serving, Tagged
    <2>2. ServeInv'
      BY <1>8 DEF ReachSchedule, ServeInv, WorkerAt, Serving, Tagged, TypeOK, WorkerTypeOK
    <2>3. BufferInv'
      BY <1>8, PoolAssumption DEF ReachSchedule, BufferInv, WorkerAt, TypeOK, WorkerTypeOK
    <2> QED BY <1>8, <2>1, <2>2, <2>3, InvSame DEF ReachSchedule
  <1>9. CASE RecordSchedule(w)
    <2>1. TokenInv'
      BY <1>9, TokenKept DEF RecordSchedule, WorkerAt, BusyPcs, Serving, Tagged
    <2>2. ServeInv'
      BY <1>9 DEF RecordSchedule, ServeInv, WorkerAt, Serving, Tagged, TypeOK, WorkerTypeOK
    <2>3. BufferInv'
      BY <1>9, PoolAssumption DEF RecordSchedule, BufferInv, WorkerAt, TypeOK, WorkerTypeOK
    <2>4. CountInv'
      <3>1. wrun[w] = runIdHolder /\ runIdHolder \in Runs
        BY <1>9 DEF RecordSchedule, WorkerAt, ServeInv, Serving, Tagged, TypeOK, SharedTypeOK, Runs
      <3>2. recorded \in [Runs -> Nat] /\ resultCounter \in Nat
        BY DEF TypeOK, HistoryTypeOK, SharedTypeOK
      <3> QED BY <1>9, <3>1, <3>2, PoolAssumption DEF RecordSchedule, SlotFree, CountInv, Runs
    <2> QED BY <1>9, <2>1, <2>2, <2>3, <2>4, InvSame DEF RecordSchedule
  <1>10. CASE DropSchedule(w)
    <2>1. TokenInv'
      BY <1>10, TokenKept DEF DropSchedule, WorkerAt, BusyPcs, Serving, Tagged
    <2>2. ServeInv'
      BY <1>10 DEF DropSchedule, ServeInv, WorkerAt, Serving, Tagged, TypeOK, WorkerTypeOK
    <2>3. BufferInv'
      BY <1>10, PoolAssumption DEF DropSchedule, BufferInv, WorkerAt, TypeOK, WorkerTypeOK
    <2> QED BY <1>10, <2>1, <2>2, <2>3, InvSame DEF DropSchedule
  <1>11. CASE FinishUnit(w)
    <2>1. TokenInv'
      BY <1>11, TokenKept DEF FinishUnit, WorkerAt, BusyPcs, Serving, Tagged
    <2>2. ServeInv'
      BY <1>11 DEF FinishUnit, ServeInv, WorkerAt, Serving, Tagged, TypeOK, WorkerTypeOK
    <2>3. BufferInv'
      BY <1>11, PoolAssumption DEF FinishUnit, BufferInv, WorkerAt, TypeOK, WorkerTypeOK
    <2> QED BY <1>11, <2>1, <2>2, <2>3, InvSame DEF FinishUnit
  <1>12. CASE AbandonUnit(w)
    <2>1. TokenInv'
      BY <1>12, TokenKept DEF AbandonUnit, WorkerAt, BusyPcs, Serving, Tagged
    <2>2. ServeInv'
      BY <1>12 DEF AbandonUnit, ServeInv, WorkerAt, Serving, Tagged, TypeOK, WorkerTypeOK
    <2>3. BufferInv'
      BY <1>12, PoolAssumption DEF AbandonUnit, BufferInv, WorkerAt, TypeOK, WorkerTypeOK
    <2> QED BY <1>12, <2>1, <2>2, <2>3, InvSame DEF AbandonUnit
  <1>13. CASE FlushBuffer(w)
    <2>1. TokenInv'
      BY <1>13, TokenKept DEF FlushBuffer, WorkerAt, BusyPcs, Serving, Tagged
    <2>2. ServeInv'
      BY <1>13 DEF FlushBuffer, ServeInv, WorkerAt, Serving, Tagged, TypeOK, WorkerTypeOK
    <2>3. BufferInv'
      BY <1>13, PoolAssumption DEF FlushBuffer, BufferInv, WorkerAt, TypeOK, WorkerTypeOK, ClearBuffer
    <2> QED BY <1>13, <2>1, <2>2, <2>3, InvSame DEF FlushBuffer
  <1>14. CASE SendFinished(w)
    <2>1. TokenInv'
      BY <1>14, TokenKept DEF SendFinished, WorkerAt, BusyPcs, Serving, Tagged
    <2>2. ServeInv'
      BY <1>14 DEF SendFinished, ServeInv, WorkerAt, Serving, Tagged, TypeOK, WorkerTypeOK
    <2>3. BufferInv'
      BY <1>14, PoolAssumption DEF SendFinished, BufferInv, WorkerAt, TypeOK, WorkerTypeOK
    <2> QED BY <1>14, <2>1, <2>2, <2>3, InvSame DEF SendFinished
  <1>15. CASE SendError(w)
    <2>1. TokenInv'
      BY <1>15, TokenKept DEF SendError, WorkerAt, BusyPcs, Serving, Tagged
    <2>2. ServeInv'
      BY <1>15 DEF SendError, ServeInv, WorkerAt, Serving, Tagged, TypeOK, WorkerTypeOK
    <2>3. BufferInv'
      BY <1>15, PoolAssumption DEF SendError, BufferInv, WorkerAt, TypeOK, WorkerTypeOK
    <2> QED BY <1>15, <2>1, <2>2, <2>3, InvSame DEF SendError
  <1> QED BY <1>1, <1>2, <1>3, <1>4, <1>5, <1>6, <1>7, <1>8, <1>9, <1>10, <1>11, <1>12, <1>13, <1>14, <1>15 DEF WorkerMoves

\* The listeners and the feeders only touch queues, the cancel event and their own state.
LEMMA BookOthers ==
  ASSUME PoolInv, NEW r \in Runs, ListenerMoves(r) \/ FeederMoves(r) PROVE BookInv'
  <1> USE DEF PoolInv, BookInv
  <1>1. UNCHANGED <<guiPc, run, collected, resultCounter, runIdHolder, readyQ, controlQ,
                    workerVars, recorded>>
    <2>1. CASE ListenerMoves(r)
      BY <2>1 DEF ListenerMoves, DropStale, HandleBatch, HandleFinished, HandleError,
                  NoticeCrash, Shutdown, ReceiveOwn, Receive
    <2>2. CASE FeederMoves(r)
      BY <2>2 DEF FeederMoves, Partition, ReportPartitionError, FeedUnit, StopFeeding,
                  FeedSentinels
    <2> QED BY <2>1, <2>2
  <1> QED BY <1>1, InvSame

\* Faults and terminate only take workers away.
LEMMA BookMishap ==
  ASSUME PoolInv, Mishaps PROVE BookInv'
  <1> USE DEF PoolInv, BookInv
  <1>1. ASSUME NEW w \in Workers, WorkerRaises(w) \/ Crash(w) \/ Terminate(w)
        PROVE  BookInv'
    <2>1. /\ UNCHANGED <<guiPc, run, collected, resultCounter, runIdHolder, readyQ,
                         controlQ, wrun, wtag, wbuf, recorded>>
          /\ \/ wpc[w] \in {"pull", "search"} /\ wpc' = [wpc EXCEPT ![w] = "error"]
             \/ wpc' = [wpc EXCEPT ![w] = "dead"]
      BY <1>1 DEF WorkerRaises, Crash, Terminate, WorkerAt
    <2>2. TokenInv'
      BY <2>1, TokenKept DEF BusyPcs, Serving, Tagged
    <2>3. ServeInv'
      BY <2>1 DEF ServeInv, Serving, Tagged, TypeOK, WorkerTypeOK
    <2>4. BufferInv'
      BY <2>1 DEF BufferInv, TypeOK, WorkerTypeOK
    <2> QED BY <2>1, <2>2, <2>3, <2>4, InvSame
  <1>2. ASSUME NEW r \in Runs, PartitionRaises(r) PROVE BookInv'
    BY <1>2, InvSame DEF PartitionRaises
  <1> QED BY <1>1, <1>2 DEF Mishaps

-----------------------------------------------------------------------------
(* Theorems *)

\* The strengthened invariant is inductive.
LEMMA InvInit == Init => PoolInv
  BY TypeInit, BookInit DEF PoolInv, BookInv

LEMMA InvStep == PoolInv /\ [Next]_vars => PoolInv'
  <1> SUFFICES ASSUME PoolInv, [Next]_vars PROVE PoolInv'
    OBVIOUS
  <1>0. TypeOK /\ BufferInv
    BY DEF PoolInv
  <1>1. CASE GuiMoves \/ Clicks
    BY <1>0, <1>1, TypeGui, BookGui DEF PoolInv, BookInv
  <1>2. CASE Mishaps
    BY <1>0, <1>2, TypeMishap, BookMishap DEF PoolInv, BookInv
  <1>3. ASSUME NEW w \in Workers, WorkerMoves(w) PROVE PoolInv'
    BY <1>0, <1>3, TypeWorker, BookWorker DEF PoolInv, BookInv
  <1>4. ASSUME NEW r \in Runs, ListenerMoves(r) \/ FeederMoves(r) PROVE PoolInv'
    BY <1>0, <1>4, TypeListener, TypeFeeder, BookOthers DEF PoolInv, BookInv
  <1>5. CASE UNCHANGED vars
    BY <1>5, TypeSame, InvSame DEF PoolInv, TypeOK, vars
  <1> QED BY <1>1, <1>2, <1>3, <1>4, <1>5 DEF Next

\* Every reachable state satisfies the strengthened invariant.
THEOREM PoolInvariant == Spec => []PoolInv
  BY InvInit, InvStep, PTL DEF Spec

\* Every variable keeps its type, whatever the users do and whatever fails.
THEOREM TypeCorrect == Spec => []TypeOK
  <1>1. PoolInv => TypeOK
    BY DEF PoolInv
  <1> QED BY <1>1, PoolInvariant, PTL

\* A serving worker tags its messages with the active run, for any pool size.
THEOREM TagsAgree == Spec => []TagAgrees
  <1>1. PoolInv => TagAgrees
    BY DEF PoolInv, ServeInv, TagAgrees, Serving
  <1> QED BY <1>1, PoolInvariant, PTL

\* The shared state is only reset over an idle pool.
THEOREM StartsIdle == Spec => PoolIdleAtStart
  <1>1. PoolInv /\ [Next]_vars => [runIdHolder' # runIdHolder => Busy = {}]_vars
    <2> SUFFICES ASSUME PoolInv, Next, runIdHolder' # runIdHolder PROVE Busy = {}
      BY DEF vars
    <2>1. PoolStartRun
      BY DEF Next, GuiMoves, Clicks, Mishaps, WorkerMoves, ListenerMoves, FeederMoves,
         CancelDrains, WaitReturns, RejectInfeasible, AskPool, CollectReady, ReadyTimesOut,
         ClickGenerate, ClickCancel, Close, WorkerRaises, Crash, Terminate, PartitionRaises,
         Announce, TakePayload, TakeShutdown, ReadRunId, CheckCancel, GetEmpty, GetItem,
         ReachSchedule, RecordSchedule, DropSchedule, FinishUnit, AbandonUnit, FlushBuffer,
         SendFinished, SendError, DropStale, HandleBatch, HandleFinished, HandleError,
         NoticeCrash, Shutdown, ReceiveOwn, Receive, Partition, ReportPartitionError,
         FeedUnit, StopFeeding, FeedSentinels
    <2> QED BY <2>1, AllTokensMeansIdle DEF PoolStartRun, TokensNeeded
  <1> QED BY <1>1, PoolInvariant, PTL DEF Spec, PoolIdleAtStart
-----------------------------------------------------------------------------
(* The pool implements ExclusiveRuns *)

\* The run each worker serves, as the refinement mapping has it.
Serves == [w \in Workers |-> IF wpc[w] \in Serving THEN wrun[w] ELSE 0]

\* A worker that keeps serving, or keeps not serving, moves unnoticed; one that
\* stops serving leaves.
LEMMA ServesMoves ==
  ASSUME wpc \in [Workers -> WorkerPcs], NEW w \in Workers, NEW to,
         wpc' = [wpc EXCEPT ![w] = to], UNCHANGED wrun
  PROVE  /\ (wpc[w] \in Serving <=> to \in Serving) => Serves' = Serves
         /\ to \notin Serving => Serves' = [Serves EXCEPT ![w] = 0]
  BY DEF Serves

\* What the abstract state does not show.
LEMMA StutterSame ==
  UNCHANGED <<runIdHolder, Serves, recorded>> => UNCHANGED Exclusive!vars
  BY DEF Exclusive!vars, Serves

\* A worker that stops serving, whatever it did before.
LEMMA LeaveOrStutter ==
  ASSUME PoolInv, NEW w \in Workers, NEW to, to \notin Serving,
         wpc' = [wpc EXCEPT ![w] = to], UNCHANGED <<wrun, runIdHolder, recorded>>
  PROVE  [Exclusive!Next]_(Exclusive!vars)
  <1>0. wpc \in [Workers -> WorkerPcs]
    BY DEF PoolInv, TypeOK, WorkerTypeOK
  <1>1. CASE wpc[w] \notin Serving
    BY <1>0, <1>1, ServesMoves, StutterSame
  <1>2. CASE wpc[w] \in Serving
    <2>1. Serves[w] # 0 /\ Serves' = [Serves EXCEPT ![w] = 0]
      BY <1>0, <1>2, ServesMoves DEF PoolInv, ServeInv, Serves
    <2>2. Exclusive!Leave(w)
      BY <2>1 DEF Exclusive!Leave, Serves
    <2> QED BY <2>2 DEF Exclusive!Next
  <1> QED BY <1>1, <1>2

\* A worker's steps: it joins, records or leaves, or nobody notices.
LEMMA WorkerImplements ==
  ASSUME PoolInv, NEW w \in Workers, WorkerMoves(w)
  PROVE  [Exclusive!Next]_(Exclusive!vars)
  <1>0. /\ wpc \in [Workers -> WorkerPcs] /\ wrun \in [Workers -> 0 .. NumRuns]
        /\ ServeInv /\ PayloadInv /\ CountInv /\ controlQ \in Seq(0 .. NumRuns)
        /\ runIdHolder \in 0 .. NumRuns /\ recorded \in [Runs -> Nat]
    BY DEF PoolInv, TypeOK, WorkerTypeOK, QueueTypeOK, SharedTypeOK, HistoryTypeOK
  <1>1. CASE Announce(w)
    BY <1>1, LeaveOrStutter DEF Announce, WorkerAt, Serving, Tagged
  <1>2. CASE TakeShutdown(w)
    BY <1>2, LeaveOrStutter DEF TakeShutdown, WorkerAt, Serving, Tagged
  <1>3. CASE SendFinished(w)
    BY <1>3, LeaveOrStutter DEF SendFinished, WorkerAt, Serving, Tagged
  <1>4. CASE SendError(w)
    BY <1>4, LeaveOrStutter DEF SendError, WorkerAt, Serving, Tagged
  <1>5. CASE TakePayload(w)
    <2>1. Head(controlQ) = runIdHolder /\ runIdHolder # 0
      BY <1>0, <1>5 DEF TakePayload, PayloadInv
    <2>2. Serves[w] = 0 /\ Serves' = [Serves EXCEPT ![w] = runIdHolder]
      BY <1>0, <1>5, <2>1 DEF TakePayload, WorkerAt, Serves, Serving, Tagged
    <2>3. Exclusive!Join(w)
      BY <1>5, <2>1, <2>2 DEF TakePayload, Exclusive!Join, Serves
    <2> QED BY <2>3 DEF Exclusive!Next
  <1>6. CASE RecordSchedule(w)
    <2>1. wrun[w] = runIdHolder /\ runIdHolder # 0 /\ runIdHolder \in Runs
      BY <1>0, <1>6 DEF RecordSchedule, WorkerAt, ServeInv, Serving, Tagged, Runs
    <2>2. recorded[runIdHolder] < ResultLimit
      BY <1>0, <1>6, <2>1 DEF RecordSchedule, SlotFree, CountInv
    <2>3. Serves' = Serves /\ Serves[w] # 0
      <3>1. wpc[w] = "record" /\ \E to \in {"batch", "search"} : wpc' = [wpc EXCEPT ![w] = to]
        BY <1>6 DEF RecordSchedule, WorkerAt
      <3> QED BY <1>0, <1>6, <2>1, <3>1, ServesMoves
              DEF RecordSchedule, Serves, Serving, Tagged
    <2>4. Exclusive!Record(w)
      BY <1>6, <2>1, <2>2, <2>3 DEF RecordSchedule, Exclusive!Record, Serves
    <2> QED BY <2>4 DEF Exclusive!Next
  <1>7. CASE \/ ReadRunId(w) \/ CheckCancel(w) \/ GetEmpty(w) \/ GetItem(w)
             \/ ReachSchedule(w) \/ DropSchedule(w) \/ FinishUnit(w)
             \/ AbandonUnit(w) \/ FlushBuffer(w)
    <2>1. /\ wpc[w] \in Serving /\ \E to \in Serving : wpc' = [wpc EXCEPT ![w] = to]
          /\ UNCHANGED <<wrun, runIdHolder, recorded>>
      BY <1>7 DEF ReadRunId, CheckCancel, GetEmpty, GetItem, ReachSchedule, DropSchedule,
                  FinishUnit, AbandonUnit, FlushBuffer, WorkerAt, Serving, Tagged
    <2> QED BY <1>0, <2>1, ServesMoves, StutterSame
  <1> QED BY <1>1, <1>2, <1>3, <1>4, <1>5, <1>6, <1>7 DEF WorkerMoves

\* Only a start opens a run; clicks, listeners and feeders go unnoticed.
LEMMA GuiImplements ==
  ASSUME PoolInv, GuiMoves \/ Clicks
  PROVE  [Exclusive!Next]_(Exclusive!vars)
  <1>1. CASE PoolStartRun
    <2>1. Busy = {} /\ run \in Runs /\ runIdHolder < run
      BY <1>1, AllTokensMeansIdle
         DEF PoolStartRun, TokensNeeded, PoolInv, RunInv, TypeOK, GuiTypeOK, SharedTypeOK, Runs
    <2>2. \A w \in Workers : Serves[w] = 0
      BY <2>1 DEF Busy, Serves
    <2>3. Exclusive!Open(run)
      BY <1>1, <2>1, <2>2 DEF PoolStartRun, Exclusive!Open, Serves
    <2> QED BY <2>1, <2>3 DEF Exclusive!Next, Runs
  <1>2. CASE ~PoolStartRun
    <2>1. UNCHANGED <<wpc, wrun, runIdHolder, recorded>>
      BY <1>2 DEF GuiMoves, Clicks, CancelDrains, WaitReturns, RejectInfeasible, AskPool,
                  CollectReady, ReadyTimesOut, ClickGenerate, ClickCancel, Close
    <2> QED BY <2>1, StutterSame DEF Serves
  <1> QED BY <1>1, <1>2

LEMMA OthersImplement ==
  ASSUME NEW r \in Runs, ListenerMoves(r) \/ FeederMoves(r)
  PROVE  UNCHANGED Exclusive!vars
  <1>1. UNCHANGED <<wpc, wrun, runIdHolder, recorded>>
    BY DEF ListenerMoves, FeederMoves, DropStale, HandleBatch, HandleFinished, HandleError,
           NoticeCrash, Shutdown, ReceiveOwn, Receive, Partition, ReportPartitionError,
           FeedUnit, StopFeeding, FeedSentinels
  <1> QED BY <1>1, StutterSame DEF Serves

\* A process that fails stops serving, if it served.
LEMMA MishapImplements ==
  ASSUME PoolInv, Mishaps
  PROVE  [Exclusive!Next]_(Exclusive!vars)
  <1>0. wpc \in [Workers -> WorkerPcs]
    BY DEF PoolInv, TypeOK, WorkerTypeOK
  <1>1. ASSUME NEW w \in Workers, WorkerRaises(w) PROVE UNCHANGED Exclusive!vars
    BY <1>0, <1>1, ServesMoves, StutterSame DEF WorkerRaises, WorkerAt, Serving, Tagged
  <1>2. ASSUME NEW w \in Workers, Crash(w) \/ Terminate(w)
        PROVE  [Exclusive!Next]_(Exclusive!vars)
    BY <1>2, LeaveOrStutter DEF Crash, Terminate, Serving, Tagged
  <1>3. ASSUME NEW r \in Runs, PartitionRaises(r) PROVE UNCHANGED Exclusive!vars
    BY <1>3, StutterSame DEF PartitionRaises, Serves
  <1> QED BY <1>1, <1>2, <1>3 DEF Mishaps

\* Each step of the pool is a step of ExclusiveRuns or changes nothing it shows.
LEMMA StepImplements == PoolInv /\ [Next]_vars => [Exclusive!Next]_(Exclusive!vars)
  <1> SUFFICES ASSUME PoolInv, [Next]_vars PROVE [Exclusive!Next]_(Exclusive!vars)
    OBVIOUS
  <1>1. CASE UNCHANGED vars
    BY <1>1, StutterSame DEF vars, Serves
  <1> QED BY <1>1, WorkerImplements, GuiImplements, OthersImplement, MishapImplements DEF Next

\* For every pool size, limit and number of runs, crashes and terminations
\* included, the pool does what ExclusiveRuns promises.
THEOREM Implementation == Spec => ImplementsExclusiveRuns
  <1>1. Init => Exclusive!Init
    BY DEF Init, Exclusive!Init, Runs, Serving, Tagged
  <1> QED BY <1>1, StepImplements, PoolInvariant, PTL
          DEF Spec, Exclusive!Spec, ImplementsExclusiveRuns

\* The results of a run no longer change once a later run has started.
THEOREM ResultsAreFinal == Spec => ResultsFinal
  <1>1. PoolInv /\ [Next]_vars
          => [\A r \in Runs : r < runIdHolder => recorded'[r] = recorded[r]]_vars
    <2> SUFFICES ASSUME PoolInv, [Next]_vars, NEW r \in Runs, r < runIdHolder
                 PROVE  recorded'[r] = recorded[r]
      OBVIOUS
    <2>1. recorded \in [Runs -> Nat] /\ runIdHolder \in 0 .. NumRuns
      BY DEF PoolInv, TypeOK, HistoryTypeOK, SharedTypeOK
    <2>2. Exclusive!Next \/ UNCHANGED Exclusive!vars
      BY StepImplements
    <2>3. CASE UNCHANGED recorded
      BY <2>3
    <2>4. ASSUME NEW w \in Workers, Exclusive!Record(w) PROVE recorded'[r] = recorded[r]
      BY <2>1, <2>4 DEF Exclusive!Record, Runs
    <2> QED BY <2>2, <2>3, <2>4
            DEF Exclusive!Next, Exclusive!vars, Exclusive!Open, Exclusive!Join, Exclusive!Leave
  <1> QED BY <1>1, PoolInvariant, PTL DEF Spec, ResultsFinal

-----------------------------------------------------------------------------
(* The ledger *)

\* A claim names who holds a schedule, where, and which one of those it is.
ClaimIds == {"saved", "held", "sent"} \X (Runs \cup Producers) \X Nat \X Nat

SavedClaim(c) ==
    c[1] = "saved" /\ c[2] \in Runs /\ c[3] = 0 /\ c[4] \in 1 .. saved[c[2]]
HeldClaim(c) ==
    c[1] = "held" /\ c[2] \in Workers /\ wpc[c[2]] \in Tagged /\ c[3] = 0 /\ c[4] \in 1 .. wbuf[c[2]]
SentClaim(c) ==
    /\ c[1] = "sent" /\ c[2] \in Producers
    /\ c[3] \in 1 .. Len(resultQ[c[2]]) /\ c[4] \in 1 .. resultQ[c[2]][c[3]].count

Claims == {c \in ClaimIds : SavedClaim(c) \/ HeldClaim(c) \/ SentClaim(c)}

\* The run whose schedule is claimed.
RunOf(c) ==
    IF c[1] = "saved" THEN c[2]
    ELSE IF c[1] = "held" THEN wrun[c[2]] ELSE resultQ[c[2]][c[3]].tag

ClaimsOf(r) == {c \in Claims : RunOf(c) = r}

\* No run has more claims than it recorded schedules.
LedgerInv ==
    \A r \in Runs : IsFiniteSet(ClaimsOf(r)) /\ Cardinality(ClaimsOf(r)) <= recorded[r]

-----------------------------------------------------------------------------
(* Moving claims *)

\* What a step may do to the claims of a run: drop some, or lose none.
Fewer(r) == IsFiniteSet(ClaimsOf(r)') /\ Cardinality(ClaimsOf(r)') <= Cardinality(ClaimsOf(r))
AsMany(r) == IsFiniteSet(ClaimsOf(r)') /\ Cardinality(ClaimsOf(r)') = Cardinality(ClaimsOf(r))

\* A step drops claims at most when every claim after it can be traced to a claim
\* of the same run before it, no two of them to one; it loses none when every claim
\* before it is reached that way.
LEMMA ClaimsMove ==
  ASSUME NEW from \in [Claims' -> Claims],
         \A c \in Claims' : RunOf(c)' = RunOf(from[c]),
         \A c, d \in Claims' : from[c] = from[d] => c = d,
         NEW r, IsFiniteSet(ClaimsOf(r))
  PROVE  /\ Fewer(r)
         /\ (\A c \in ClaimsOf(r) : \E d \in Claims' : from[d] = c) => AsMany(r)
  <1> DEFINE f == [c \in ClaimsOf(r)' |-> from[c]]
  <1>1. \A c \in Claims' : c \in ClaimsOf(r)' <=> from[c] \in ClaimsOf(r)
    BY DEF ClaimsOf
  <1>2. ClaimsOf(r)' \subseteq Claims'
    BY DEF ClaimsOf
  <1>3. f \in [ClaimsOf(r)' -> ClaimsOf(r)]
    BY <1>1, <1>2
  <1>4. \A c, d \in ClaimsOf(r)' : f[c] = f[d] => c = d
    BY <1>2
  <1>5. f \in Injection(ClaimsOf(r)', ClaimsOf(r))
    BY <1>3, <1>4, Fun_IsInj
  <1>6. Fewer(r)
    BY <1>5, FS_Injection DEF Fewer
  <1>7. ASSUME \A c \in ClaimsOf(r) : \E d \in Claims' : from[d] = c PROVE AsMany(r)
    <2>1. \A c \in ClaimsOf(r) : \E d \in ClaimsOf(r)' : f[d] = c
      BY <1>1, <1>7
    <2>2. f \in Surjection(ClaimsOf(r)', ClaimsOf(r))
      BY <1>3, <2>1, Fun_IsSurj
    <2> QED BY <1>5, <2>2, FS_Injection DEF AsMany
  <1> QED BY <1>6, <1>7

\* In particular when claims are only given up.
LEMMA ClaimsGoneBy ==
  ASSUME Claims' \subseteq Claims, \A c \in Claims' : RunOf(c)' = RunOf(c),
         NEW r, IsFiniteSet(ClaimsOf(r))
  PROVE  Fewer(r)
  <1>1. ClaimsOf(r)' \in SUBSET ClaimsOf(r)
    BY DEF ClaimsOf
  <1> QED BY <1>1, FS_Subset DEF Fewer

\* A step that only drops claims keeps the ledger.
LEMMA LedgerKept ==
  ASSUME TypeOK, LedgerInv, UNCHANGED recorded,
         \A r \in Runs : IsFiniteSet(ClaimsOf(r)) => Fewer(r)
  PROVE  LedgerInv'
  <1> SUFFICES ASSUME NEW r \in Runs
               PROVE  IsFiniteSet(ClaimsOf(r)') /\ Cardinality(ClaimsOf(r)') <= recorded'[r]
    BY DEF LedgerInv
  <1>1. IsFiniteSet(ClaimsOf(r)) /\ Cardinality(ClaimsOf(r)) <= recorded[r]
    BY DEF LedgerInv
  <1>2. IsFiniteSet(ClaimsOf(r)') /\ Cardinality(ClaimsOf(r)') <= Cardinality(ClaimsOf(r))
    BY <1>1 DEF Fewer
  <1>3. Cardinality(ClaimsOf(r)) \in Nat /\ Cardinality(ClaimsOf(r)') \in Nat /\ recorded[r] \in Nat
    BY <1>1, <1>2, FS_CardinalityType DEF TypeOK, HistoryTypeOK
  <1> QED BY <1>1, <1>2, <1>3

\* The buffers whose claims survive: their worker goes on serving with them.
HeldKept ==
    \A w \in Workers :
        wpc'[w] \in Tagged =>
            \/ wbuf'[w] = 0
            \/ wpc[w] \in Tagged /\ wbuf'[w] = wbuf[w] /\ wrun'[w] = wrun[w]

\* A claim a buffer holds after the step was held before it, by the same run.
LEMMA HeldGoneBy ==
  ASSUME HeldKept, NEW c \in ClaimIds, HeldClaim(c)'
  PROVE  HeldClaim(c) /\ RunOf(c)' = RunOf(c)
  BY DEF HeldKept, HeldClaim, RunOf, ClaimIds

\* A worker or the GUI thread that touches neither queue nor saved counts.
LEMMA QuietStep ==
  ASSUME HeldKept, UNCHANGED <<saved, resultQ>>,
         NEW r, IsFiniteSet(ClaimsOf(r))
  PROVE  Fewer(r)
  <1>1. ASSUME NEW c \in Claims' PROVE c \in Claims /\ RunOf(c)' = RunOf(c)
    <2>1. CASE SavedClaim(c)'
      BY <2>1 DEF SavedClaim, Claims, RunOf
    <2>2. CASE HeldClaim(c)'
      BY <2>2, HeldGoneBy DEF Claims
    <2>3. CASE SentClaim(c)'
      BY <2>3 DEF SentClaim, Claims, RunOf
    <2> QED BY <2>1, <2>2, <2>3 DEF Claims
  <1> QED BY <1>1, ClaimsGoneBy

\* A drain: what is left of each queue moves up.
LEMMA DrainStep ==
  ASSUME TypeOK, HeldKept, DrainResults, UNCHANGED saved,
         NEW r, IsFiniteSet(ClaimsOf(r))
  PROVE  Fewer(r)
  <1>1. resultQ \in [Producers -> Seq(Messages)]
    BY DEF TypeOK, QueueTypeOK
  <1>2. PICK skip \in [Producers -> 0 .. QueueCap] :
          /\ \A p \in Producers : skip[p] <= Len(resultQ[p])
          /\ resultQ' = [p \in Producers |-> SubSeq(resultQ[p], skip[p] + 1, Len(resultQ[p]))]
    BY DEF DrainResults
  <1>3. ASSUME NEW p \in Producers
        PROVE  /\ skip[p] \in Nat
               /\ Len(resultQ'[p]) = Len(resultQ[p]) - skip[p]
               /\ \A k \in 1 .. Len(resultQ'[p]) : resultQ'[p][k] = resultQ[p][k + skip[p]]
    BY <1>1, <1>2, PoolAssumption
  <1> DEFINE From(c) == IF c[1] = "sent" THEN <<"sent", c[2], c[3] + skip[c[2]], c[4]>> ELSE c
             from == [c \in Claims' |-> From(c)]
  <1>4. ASSUME NEW c \in Claims' PROVE From(c) \in Claims /\ RunOf(c)' = RunOf(From(c))
    <2>1. CASE SavedClaim(c)'
      BY <2>1 DEF SavedClaim, Claims, RunOf
    <2>2. CASE HeldClaim(c)'
      <3>1. HeldClaim(c) /\ RunOf(c)' = RunOf(c) /\ c[1] = "held"
        BY <2>2, HeldGoneBy DEF Claims, HeldClaim
      <3> QED BY <3>1 DEF Claims
    <2>3. CASE SentClaim(c)'
      <3>1. c[1] = "sent" /\ c[2] \in Producers /\ c[3] \in Nat /\ c[4] \in Nat
            /\ c[3] \in 1 .. Len(resultQ'[c[2]]) /\ c[4] \in 1 .. resultQ'[c[2]][c[3]].count
        BY <2>3 DEF SentClaim, Claims, ClaimIds
      <3>2. /\ c[3] + skip[c[2]] \in 1 .. Len(resultQ[c[2]])
            /\ resultQ'[c[2]][c[3]] = resultQ[c[2]][c[3] + skip[c[2]]]
        <4>1. /\ skip[c[2]] \in Nat /\ Len(resultQ[c[2]]) \in Nat
              /\ Len(resultQ'[c[2]]) = Len(resultQ[c[2]]) - skip[c[2]]
              /\ resultQ'[c[2]][c[3]] = resultQ[c[2]][c[3] + skip[c[2]]]
          BY <3>1, <1>1, <1>3
        <4>2. c[3] >= 1 /\ c[3] <= Len(resultQ'[c[2]])
          BY <3>1, <4>1
        <4>3. c[3] + skip[c[2]] \in 1 .. Len(resultQ[c[2]])
          BY <3>1, <4>1, <4>2
        <4> QED BY <4>1, <4>3
      <3> QED BY <3>1, <3>2, <1>3 DEF SentClaim, Claims, ClaimIds, RunOf
    <2> QED BY <2>1, <2>2, <2>3 DEF Claims
  <1>5. ASSUME NEW c \in Claims', NEW d \in Claims', From(c) = From(d) PROVE c = d
    <2>1. c \in ClaimIds /\ d \in ClaimIds
      BY DEF Claims
    <2>2. c[1] = d[1] /\ c[2] = d[2] /\ c[4] = d[4]
      BY <1>5, <2>1 DEF ClaimIds
    <2>3. CASE c[1] = "sent"
      <3>1. c[2] \in Producers
        BY <2>3 DEF Claims, SavedClaim, HeldClaim, SentClaim
      <3>2. skip[c[2]] \in Nat /\ c[3] \in Nat /\ d[3] \in Nat
        BY <3>1, <1>3, <2>1 DEF ClaimIds
      <3>3. c[3] + skip[c[2]] = d[3] + skip[c[2]]
        BY <1>5, <2>2, <2>3
      <3>4. c[3] = d[3]
        BY <3>2, <3>3
      <3> QED BY <2>1, <2>2, <3>4 DEF ClaimIds
    <2>4. CASE c[1] # "sent"
      BY <1>5, <2>2, <2>4
    <2> QED BY <2>3, <2>4
  <1>6. from \in [Claims' -> Claims]
    BY <1>4
  <1>7. \A c \in Claims' : RunOf(c)' = RunOf(from[c])
    BY <1>4
  <1>8. \A c, d \in Claims' : from[c] = from[d] => c = d
    BY <1>5
  <1> HIDE DEF from, From
  <1> QED BY <1>6, <1>7, <1>8, ClaimsMove

\* A message that carries no schedules is sent.
LEMMA SignalStep ==
  ASSUME TypeOK, HeldKept, UNCHANGED saved, NEW r, IsFiniteSet(ClaimsOf(r)),
         NEW p \in Producers, NEW m \in Messages, m.count = 0, Send(p, m)
  PROVE  Fewer(r)
  <1>1. resultQ \in [Producers -> Seq(Messages)] /\ resultQ' = [resultQ EXCEPT ![p] = Append(@, m)]
    BY DEF TypeOK, QueueTypeOK, Send
  <1>2. ASSUME NEW c \in Claims' PROVE c \in Claims /\ RunOf(c)' = RunOf(c)
    <2>1. CASE SavedClaim(c)'
      BY <2>1 DEF SavedClaim, Claims, RunOf
    <2>2. CASE HeldClaim(c)'
      BY <2>2, HeldGoneBy DEF Claims
    <2>3. CASE SentClaim(c)'
      <3>1. /\ c[1] = "sent" /\ c[2] \in Producers /\ c[3] \in Nat /\ c[4] \in Nat
            /\ c[3] \in 1 .. Len(resultQ'[c[2]]) /\ c[4] \in 1 .. resultQ'[c[2]][c[3]].count
        BY <2>3 DEF SentClaim, Claims, ClaimIds
      <3>2. CASE c[2] # p
        BY <1>1, <2>3, <3>1, <3>2 DEF SentClaim, Claims, RunOf
      <3>3. CASE c[2] = p
        <4>1. /\ resultQ[p] \in Seq(Messages) /\ resultQ'[p] = Append(resultQ[p], m)
          BY <1>1
        <4>2. c[3] # Len(resultQ[p]) + 1
          BY <3>1, <3>3, <4>1
        <4>3. c[3] \in 1 .. Len(resultQ[p]) /\ resultQ'[p][c[3]] = resultQ[p][c[3]]
          BY <3>1, <3>3, <4>1, <4>2
        <4> QED BY <3>1, <3>3, <4>3 DEF SentClaim, Claims, RunOf
      <3> QED BY <3>2, <3>3
    <2> QED BY <2>1, <2>2, <2>3 DEF Claims
  <1> QED BY <1>2, ClaimsGoneBy

\* A worker passes the claims of its buffer on to the message it sends.
LEMMA FlushStep ==
  ASSUME PoolInv, NEW w \in Workers, FlushBuffer(w),
         NEW r, IsFiniteSet(ClaimsOf(r))
  PROVE  AsMany(r)
  <1> DEFINE last == Len(resultQ[w]) + 1
  <1>1. /\ w \in Producers /\ last \in Nat
        /\ resultQ \in [Producers -> Seq(Messages)]
        /\ wpc \in [Workers -> WorkerPcs] /\ wbuf \in [Workers -> 0 .. BatchSize]
        /\ resultQ' = [resultQ EXCEPT ![w] = Append(@, Batch(wtag[w], wbuf[w]))]
        /\ wbuf' = [wbuf EXCEPT ![w] = 0]
        /\ UNCHANGED <<recorded, saved, wrun>>
        /\ wpc'[w] \in Tagged /\ wpc[w] \in Tagged /\ wtag[w] = wrun[w]
        /\ \A v \in Workers : v # w => wpc'[v] = wpc[v]
    <2>1. /\ w \in Producers /\ resultQ \in [Producers -> Seq(Messages)]
          /\ wpc \in [Workers -> WorkerPcs] /\ wbuf \in [Workers -> 0 .. BatchSize]
      BY DEF Producers, PoolInv, TypeOK, QueueTypeOK, WorkerTypeOK
    <2>2. /\ resultQ' = [resultQ EXCEPT ![w] = Append(@, Batch(wtag[w], wbuf[w]))]
          /\ wbuf' = [wbuf EXCEPT ![w] = 0]
          /\ UNCHANGED <<recorded, saved, wrun>>
      BY DEF FlushBuffer, Send, ClearBuffer
    <2>3. /\ wpc[w] \in {"batch", "flush"}
          /\ \E to \in {"search", "flush"} : wpc' = [wpc EXCEPT ![w] = to]
      BY DEF FlushBuffer, WorkerAt
    <2>4. wpc[w] \in Tagged /\ wpc[w] \in Serving /\ wpc'[w] \in Tagged
      BY <2>1, <2>3 DEF Tagged, Serving
    <2>5. wtag[w] = wrun[w]
      BY <2>4 DEF PoolInv, ServeInv
    <2>6. last \in Nat
      BY <2>1
    <2> QED BY <2>1, <2>2, <2>3, <2>4, <2>5, <2>6
  <1> DEFINE From(c) == IF c[1] = "sent" /\ c[2] = w /\ c[3] = last
                        THEN <<"held", w, 0, c[4]>> ELSE c
             from == [c \in Claims' |-> From(c)]
  <1>4. ASSUME NEW c \in Claims'
        PROVE  /\ From(c) \in Claims /\ RunOf(c)' = RunOf(From(c))
               /\ c[1] = "held" => c[2] # w
    <2>1. CASE SavedClaim(c)'
      BY <1>1, <2>1 DEF SavedClaim, Claims, RunOf
    <2>2. CASE HeldClaim(c)'
      <3>1. c[1] = "held" /\ c[2] # w /\ HeldClaim(c)
        BY <1>1, <2>2 DEF HeldClaim
      <3> QED BY <3>1, <1>1 DEF Claims, RunOf
    <2>3. CASE SentClaim(c)'
      <3>1. /\ c[1] = "sent" /\ c[2] \in Producers /\ c[3] \in Nat /\ c[4] \in Nat
            /\ c[3] \in 1 .. Len(resultQ'[c[2]]) /\ c[4] \in 1 .. resultQ'[c[2]][c[3]].count
        BY <2>3 DEF SentClaim, Claims, ClaimIds
      <3>2. CASE c[2] # w
        BY <1>1, <2>3, <3>1, <3>2 DEF SentClaim, Claims, RunOf
      <3>3. CASE c[2] = w
        <4>1. resultQ[w] \in Seq(Messages) /\ resultQ'[w] = Append(resultQ[w], Batch(wtag[w], wbuf[w]))
          BY <1>1
        <4>2. CASE c[3] = last
          <5>1. resultQ'[w][c[3]] = Batch(wtag[w], wbuf[w])
            BY <4>1, <4>2
          <5>2. c[4] \in 1 .. wbuf[w] /\ resultQ'[w][c[3]].tag = wrun[w]
            BY <1>1, <3>1, <3>3, <5>1 DEF Batch
          <5>3. From(c) = <<"held", w, 0, c[4]>>
            BY <3>1, <3>3, <4>2
          <5> QED BY <1>1, <3>1, <3>3, <5>2, <5>3 DEF HeldClaim, Claims, ClaimIds, RunOf
        <4>3. CASE c[3] # last
          <5>1. c[3] \in 1 .. Len(resultQ[w]) /\ resultQ'[w][c[3]] = resultQ[w][c[3]]
            BY <3>1, <3>3, <4>1, <4>3
          <5> QED BY <3>1, <3>3, <4>3, <5>1 DEF SentClaim, Claims, RunOf
        <4> QED BY <4>2, <4>3
      <3> QED BY <3>2, <3>3
    <2> QED BY <2>1, <2>2, <2>3 DEF Claims
  <1>5. ASSUME NEW c \in Claims', NEW d \in Claims', From(c) = From(d) PROVE c = d
    <2>1. c \in ClaimIds /\ d \in ClaimIds
      BY DEF Claims
    <2> QED BY <1>4, <1>5, <2>1 DEF ClaimIds
  <1>6. from \in [Claims' -> Claims]
    BY <1>4
  <1>7. \A c \in Claims' : RunOf(c)' = RunOf(from[c])
    BY <1>4
  <1>8. \A c, d \in Claims' : from[c] = from[d] => c = d
    BY <1>5
  <1>9. ASSUME NEW c \in ClaimsOf(r) PROVE \E d \in Claims' : from[d] = c
    <2>1. c \in Claims /\ c \in ClaimIds
      BY DEF ClaimsOf, Claims
    <2>2. CASE SavedClaim(c)
      <3>1. c \in Claims' /\ From(c) = c
        BY <1>1, <2>1, <2>2 DEF SavedClaim, Claims
      <3> QED BY <3>1
    <2>3. CASE HeldClaim(c) /\ c[2] # w
      <3>1. c \in Claims' /\ From(c) = c
        BY <1>1, <2>1, <2>3 DEF HeldClaim, Claims
      <3> QED BY <3>1
    <2>4. CASE HeldClaim(c) /\ c[2] = w
      <3> DEFINE d == <<"sent", w, last, c[4]>>
      <3>1. c = <<"held", w, 0, c[4]>> /\ c[4] \in Nat /\ c[4] \in 1 .. wbuf[w]
        BY <2>1, <2>4 DEF HeldClaim, ClaimIds
      <3>2. /\ resultQ'[w] = Append(resultQ[w], Batch(wtag[w], wbuf[w])) /\ resultQ[w] \in Seq(Messages)
        BY <1>1
      <3>3. last \in 1 .. Len(resultQ'[w]) /\ resultQ'[w][last].count = wbuf[w]
        BY <3>2 DEF Batch
      <3>4. d \in Claims' /\ From(d) = c
        BY <1>1, <3>1, <3>3 DEF SentClaim, Claims, ClaimIds
      <3> QED BY <3>4
    <2>5. CASE SentClaim(c)
      <3>1. c[1] = "sent" /\ c[2] \in Producers /\ c[3] \in 1 .. Len(resultQ[c[2]])
        BY <2>5 DEF SentClaim
      <3>2. c[2] = w => c[3] # last
        BY <1>1, <3>1
      <3>3. c[3] \in 1 .. Len(resultQ'[c[2]]) /\ resultQ'[c[2]][c[3]] = resultQ[c[2]][c[3]]
        BY <1>1, <3>1, <3>2
      <3>4. c \in Claims' /\ From(c) = c
        BY <2>1, <2>5, <3>2, <3>3 DEF SentClaim, Claims
      <3> QED BY <3>4
    <2> QED BY <2>1, <2>2, <2>3, <2>4, <2>5 DEF Claims
  <1> HIDE DEF from, From
  <1> QED BY <1>6, <1>7, <1>8, <1>9, ClaimsMove

\* A message is taken from the front of a queue and nothing is done with it.
LEMMA TakeStep ==
  ASSUME TypeOK, UNCHANGED <<saved, wpc, wrun, wbuf>>, NEW r, IsFiniteSet(ClaimsOf(r)),
         NEW p \in Producers, resultQ[p] # <<>>,
         resultQ' = [resultQ EXCEPT ![p] = Tail(@)]
  PROVE  /\ Fewer(r)
         /\ (Head(resultQ[p]).tag = r => Head(resultQ[p]).count = 0) => AsMany(r)
  <1>1. resultQ \in [Producers -> Seq(Messages)]
    BY DEF TypeOK, QueueTypeOK
  <1>2. /\ Len(resultQ'[p]) = Len(resultQ[p]) - 1 /\ Len(resultQ[p]) \in Nat
        /\ \A k \in 1 .. Len(resultQ'[p]) : resultQ'[p][k] = resultQ[p][k + 1]
    BY <1>1
  <1> DEFINE From(c) == IF c[1] = "sent" /\ c[2] = p THEN <<"sent", p, c[3] + 1, c[4]>> ELSE c
             from == [c \in Claims' |-> From(c)]
  <1>4. ASSUME NEW c \in Claims' PROVE From(c) \in Claims /\ RunOf(c)' = RunOf(From(c))
    <2>1. CASE SavedClaim(c)'
      BY <2>1 DEF SavedClaim, Claims, RunOf
    <2>2. CASE HeldClaim(c)'
      <3>1. HeldClaim(c) /\ RunOf(c)' = RunOf(c) /\ c[1] = "held"
        BY <2>2 DEF Claims, HeldClaim, RunOf
      <3> QED BY <3>1 DEF Claims
    <2>3. CASE SentClaim(c)'
      <3>1. /\ c[1] = "sent" /\ c[2] \in Producers /\ c[3] \in Nat /\ c[4] \in Nat
            /\ c[3] \in 1 .. Len(resultQ'[c[2]]) /\ c[4] \in 1 .. resultQ'[c[2]][c[3]].count
        BY <2>3 DEF SentClaim, Claims, ClaimIds
      <3>2. CASE c[2] # p
        BY <1>1, <2>3, <3>1, <3>2 DEF SentClaim, Claims, RunOf
      <3>3. CASE c[2] = p
        <4>1. c[3] + 1 \in 1 .. Len(resultQ[p]) /\ resultQ'[p][c[3]] = resultQ[p][c[3] + 1]
          BY <1>2, <3>1, <3>3
        <4> QED BY <3>1, <3>3, <4>1 DEF SentClaim, Claims, ClaimIds, RunOf
      <3> QED BY <3>2, <3>3
    <2> QED BY <2>1, <2>2, <2>3 DEF Claims
  <1>5. ASSUME NEW c \in Claims', NEW d \in Claims', From(c) = From(d) PROVE c = d
    <2>1. c \in ClaimIds /\ d \in ClaimIds
      BY DEF Claims
    <2>2. c[1] = d[1] /\ c[2] = d[2] /\ c[4] = d[4] /\ c[3] = d[3]
      BY <1>5, <2>1 DEF ClaimIds
    <2> QED BY <2>1, <2>2 DEF ClaimIds
  <1>6. from \in [Claims' -> Claims]
    BY <1>4
  <1>7. \A c \in Claims' : RunOf(c)' = RunOf(from[c])
    BY <1>4
  <1>8. \A c, d \in Claims' : from[c] = from[d] => c = d
    BY <1>5
  <1>9. ASSUME Head(resultQ[p]).tag = r => Head(resultQ[p]).count = 0, NEW c \in ClaimsOf(r)
        PROVE  \E d \in Claims' : from[d] = c
    <2>1. c \in Claims /\ c \in ClaimIds /\ RunOf(c) = r
      BY DEF ClaimsOf, Claims
    <2>2. CASE SavedClaim(c) \/ HeldClaim(c)
      <3>1. c \in Claims' /\ From(c) = c
        BY <2>1, <2>2 DEF SavedClaim, HeldClaim, Claims
      <3> QED BY <3>1
    <2>3. CASE SentClaim(c) /\ c[2] # p
      <3>1. c \in Claims' /\ From(c) = c
        BY <1>1, <2>1, <2>3 DEF SentClaim, Claims
      <3> QED BY <3>1
    <2>4. CASE SentClaim(c) /\ c[2] = p
      <3> DEFINE d == <<"sent", p, c[3] - 1, c[4]>>
      <3>1. /\ c = <<"sent", p, c[3], c[4]>> /\ c[3] \in Nat /\ c[4] \in Nat
            /\ c[3] \in 1 .. Len(resultQ[p]) /\ c[4] \in 1 .. resultQ[p][c[3]].count
            /\ resultQ[p][c[3]].tag = r
        BY <2>1, <2>4 DEF SentClaim, ClaimIds, RunOf
      <3>2. c[3] # 1
        <4>1. Head(resultQ[p]) = resultQ[p][1]
          BY <1>1
        <4> QED BY <1>9, <3>1, <4>1
      <3>3. /\ c[3] - 1 \in 1 .. Len(resultQ'[p]) /\ c[3] - 1 \in Nat
            /\ resultQ'[p][c[3] - 1] = resultQ[p][c[3]]
        BY <1>2, <3>1, <3>2
      <3>4. d \in Claims'
        BY <3>1, <3>3 DEF SentClaim, Claims, ClaimIds
      <3>5. From(d) = c
        BY <3>1, <3>3
      <3> QED BY <3>4, <3>5
    <2> QED BY <2>1, <2>2, <2>3, <2>4 DEF Claims
  <1>10. (Head(resultQ[p]).tag = r => Head(resultQ[p]).count = 0)
            => \A c \in ClaimsOf(r) : \E d \in Claims' : from[d] = c
    BY <1>9
  <1> HIDE DEF from, From
  <1> QED BY <1>6, <1>7, <1>8, <1>10, ClaimsMove

\* The listener saves a batch of its own run: its claims become saved ones.
LEMMA SaveStep ==
  ASSUME TypeOK, NEW r \in Runs, NEW p \in Producers, HandleBatch(r, p),
         NEW q, IsFiniteSet(ClaimsOf(q))
  PROVE  AsMany(q)
  <1> DEFINE n == Head(resultQ[p]).count
             s == saved[r]
  <1>1. /\ resultQ \in [Producers -> Seq(Messages)] /\ saved \in [Runs -> Nat]
        /\ resultQ[p] # <<>> /\ resultQ' = [resultQ EXCEPT ![p] = Tail(@)]
        /\ saved' = [saved EXCEPT ![r] = s + n] /\ s \in Nat
        /\ resultQ[p][1].tag = r /\ n = resultQ[p][1].count
        /\ UNCHANGED <<recorded, wpc, wbuf, wrun>>
    <2>1. /\ resultQ \in [Producers -> Seq(Messages)] /\ saved \in [Runs -> Nat]
      BY DEF TypeOK, QueueTypeOK, ListenerTypeOK
    <2>2. /\ resultQ[p] # <<>> /\ resultQ' = [resultQ EXCEPT ![p] = Tail(@)]
          /\ saved' = [saved EXCEPT ![r] = @ + Head(resultQ[p]).count]
          /\ Head(resultQ[p]).tag = r
          /\ UNCHANGED <<recorded, wpc, wbuf, wrun>>
      BY DEF HandleBatch, ReceiveOwn, Receive, Stale
    <2>3. Head(resultQ[p]) = resultQ[p][1]
      BY <2>1, <2>2
    <2> QED BY <2>1, <2>2, <2>3
  <1>2. /\ Len(resultQ'[p]) = Len(resultQ[p]) - 1 /\ Len(resultQ[p]) \in Nat /\ Len(resultQ[p]) >= 1
        /\ \A k \in 1 .. Len(resultQ'[p]) : resultQ'[p][k] = resultQ[p][k + 1]
    BY <1>1
  <1>3. n \in Nat
    <2>1. Head(resultQ[p]) \in Messages
      BY <1>1
    <2> QED BY <2>1, PoolAssumption DEF Messages
  <1> HIDE DEF n, s
  <1> DEFINE From(c) ==
        IF c[1] = "saved" /\ c[2] = r /\ c[4] > s THEN <<"sent", p, 1, c[4] - s>>
        ELSE IF c[1] = "sent" /\ c[2] = p THEN <<"sent", p, c[3] + 1, c[4]>> ELSE c
             from == [c \in Claims' |-> From(c)]
  <1>4. ASSUME NEW c \in Claims' PROVE From(c) \in Claims /\ RunOf(c)' = RunOf(From(c))
    <2>1. CASE SavedClaim(c)'
      <3>1. c[1] = "saved" /\ c[2] \in Runs /\ c[3] = 0 /\ c[4] \in Nat /\ c[4] \in 1 .. saved'[c[2]]
        BY <2>1 DEF SavedClaim, Claims, ClaimIds
      <3>2. CASE c[2] = r /\ c[4] > s
        <4>1. From(c) = <<"sent", p, 1, c[4] - s>>
          BY <3>1, <3>2
        <4>2. c[4] - s \in 1 .. n /\ c[4] - s \in Nat
          BY <1>1, <1>3, <3>1, <3>2
        <4>3. 1 \in 1 .. Len(resultQ[p])
          BY <1>2
        <4> QED BY <1>1, <3>1, <3>2, <4>1, <4>2, <4>3 DEF SentClaim, Claims, ClaimIds, RunOf
      <3>3. CASE ~(c[2] = r /\ c[4] > s)
        <4>1. From(c) = c /\ c[4] \in 1 .. saved[c[2]]
          BY <1>1, <1>3, <3>1, <3>3 DEF s
        <4> QED BY <3>1, <4>1 DEF SavedClaim, Claims, RunOf
      <3> QED BY <3>2, <3>3
    <2>2. CASE HeldClaim(c)'
      BY <1>1, <2>2 DEF Claims, HeldClaim, RunOf
    <2>3. CASE SentClaim(c)'
      <3>1. /\ c[1] = "sent" /\ c[2] \in Producers /\ c[3] \in Nat /\ c[4] \in Nat
            /\ c[3] \in 1 .. Len(resultQ'[c[2]]) /\ c[4] \in 1 .. resultQ'[c[2]][c[3]].count
        BY <2>3 DEF SentClaim, Claims, ClaimIds
      <3>2. CASE c[2] # p
        BY <1>1, <2>3, <3>1, <3>2 DEF SentClaim, Claims, RunOf
      <3>3. CASE c[2] = p
        <4>1. c[3] + 1 \in 1 .. Len(resultQ[p]) /\ resultQ'[p][c[3]] = resultQ[p][c[3] + 1]
          <5>1. c[3] \in 1 .. Len(resultQ'[p])
            BY <3>1, <3>3
          <5> QED BY <1>2, <5>1
        <4> QED BY <3>1, <3>3, <4>1 DEF SentClaim, Claims, ClaimIds, RunOf
      <3> QED BY <3>2, <3>3
    <2> QED BY <2>1, <2>2, <2>3 DEF Claims
  <1>5. ASSUME NEW c \in Claims', NEW d \in Claims', From(c) = From(d) PROVE c = d
    <2>1. c \in ClaimIds /\ d \in ClaimIds
      BY DEF Claims
    <2>2. ASSUME NEW e \in Claims', e[1] = "saved" PROVE e[3] = 0 /\ e[2] \in Runs
      BY <2>2 DEF Claims, SavedClaim, HeldClaim, SentClaim
    <2>3. ASSUME NEW e \in Claims', e[1] = "sent" PROVE e[3] >= 1 /\ e[3] \in Nat
      BY <2>3 DEF Claims, ClaimIds, SavedClaim, HeldClaim, SentClaim
    <2>4. c[4] \in Nat /\ d[4] \in Nat /\ c[3] \in Nat /\ d[3] \in Nat /\ s \in Nat
      BY <1>1, <2>1 DEF ClaimIds
    <2> DEFINE Passed(e) == e[1] = "saved" /\ e[2] = r /\ e[4] > s
    <2>5. CASE Passed(c) /\ Passed(d)
      <3>1. c[4] - s = d[4] - s
        BY <1>5, <2>5
      <3>2. c[4] = d[4]
        BY <3>1, <2>4
      <3> QED BY <2>1, <2>2, <2>5, <3>2 DEF ClaimIds
    <2>6. ASSUME NEW e \in Claims', NEW g \in Claims', Passed(e), ~Passed(g), From(e) = From(g)
          PROVE  FALSE
      <3>1. From(e) = <<"sent", p, 1, e[4] - s>>
        BY <2>6
      <3>2. CASE g[1] = "sent" /\ g[2] = p
        <4>1. From(g) = <<"sent", p, g[3] + 1, g[4]>>
          BY <3>2
        <4>2. g[3] + 1 = 1
          BY <2>6, <3>1, <4>1
        <4> QED BY <2>3, <3>2, <4>2
      <3>3. CASE ~(g[1] = "sent" /\ g[2] = p)
        <4>1. From(g) = g
          BY <2>6, <3>3
        <4> QED BY <2>6, <3>1, <3>3, <4>1
      <3> QED BY <3>2, <3>3
    <2>7. CASE ~Passed(c) /\ ~Passed(d)
      <3>1. c[1] = d[1] /\ c[2] = d[2] /\ c[4] = d[4]
        BY <1>5, <2>1, <2>7 DEF ClaimIds
      <3>2. c[3] = d[3]
        BY <1>5, <2>1, <2>4, <2>7, <3>1 DEF ClaimIds
      <3> QED BY <2>1, <3>1, <3>2 DEF ClaimIds
    <2> QED BY <1>5, <2>5, <2>6, <2>7
  <1>6. from \in [Claims' -> Claims]
    BY <1>4
  <1>7. \A c \in Claims' : RunOf(c)' = RunOf(from[c])
    BY <1>4
  <1>8. \A c, d \in Claims' : from[c] = from[d] => c = d
    BY <1>5
  <1>9. ASSUME NEW c \in ClaimsOf(q) PROVE \E d \in Claims' : from[d] = c
    <2>1. c \in Claims /\ c \in ClaimIds
      BY DEF ClaimsOf, Claims
    <2>2. CASE SavedClaim(c) \/ HeldClaim(c)
      <3>1. SavedClaim(c) => SavedClaim(c)' /\ ~(c[2] = r /\ c[4] > s)
        BY <1>1, <1>3, <2>1 DEF SavedClaim, ClaimIds, s
      <3>2. HeldClaim(c) => HeldClaim(c)' /\ c[1] = "held"
        BY <1>1 DEF HeldClaim
      <3>3. c \in Claims' /\ From(c) = c
        BY <2>1, <2>2, <3>1, <3>2 DEF SavedClaim, Claims
      <3> QED BY <3>3
    <2>3. CASE SentClaim(c) /\ c[2] # p
      <3>1. c \in Claims' /\ From(c) = c
        BY <1>1, <2>1, <2>3 DEF SentClaim, Claims
      <3> QED BY <3>1
    <2>4. CASE SentClaim(c) /\ c[2] = p /\ c[3] = 1
      <3> DEFINE d == <<"saved", r, 0, s + c[4]>>
      <3>1. c = <<"sent", p, 1, c[4]>> /\ c[4] \in Nat /\ c[4] \in 1 .. n
        BY <1>1, <2>1, <2>4 DEF SentClaim, ClaimIds
      <3>2. saved'[r] = s + n
        BY <1>1
      <3>3. s + c[4] \in Nat /\ s + c[4] \in 1 .. saved'[r] /\ s + c[4] > s /\ (s + c[4]) - s = c[4]
        BY <1>1, <1>3, <3>1, <3>2
      <3>4. d \in Claims'
        BY <3>3 DEF SavedClaim, Claims, ClaimIds
      <3>5. From(d) = c
        BY <3>1, <3>3
      <3> QED BY <3>4, <3>5
    <2>5. CASE SentClaim(c) /\ c[2] = p /\ c[3] # 1
      <3> DEFINE d == <<"sent", p, c[3] - 1, c[4]>>
      <3>1. /\ c = <<"sent", p, c[3], c[4]>> /\ c[3] \in Nat /\ c[4] \in Nat
            /\ c[3] \in 1 .. Len(resultQ[p]) /\ c[4] \in 1 .. resultQ[p][c[3]].count
        BY <2>1, <2>5 DEF SentClaim, ClaimIds
      <3>2. /\ c[3] - 1 \in 1 .. Len(resultQ'[p]) /\ c[3] - 1 \in Nat
            /\ resultQ'[p][c[3] - 1] = resultQ[p][c[3]]
        BY <1>2, <2>5, <3>1
      <3>3. d \in Claims'
        BY <3>1, <3>2 DEF SentClaim, Claims, ClaimIds
      <3>4. From(d) = c
        BY <3>1, <3>2
      <3> QED BY <3>3, <3>4
    <2> QED BY <2>1, <2>2, <2>3, <2>4, <2>5 DEF Claims
  <1> HIDE DEF from, From
  <1> QED BY <1>6, <1>7, <1>8, <1>9, ClaimsMove

\* A worker records a schedule: the slot it opens is claimed by its buffer.
LEMMA RecordStep ==
  ASSUME PoolInv, NEW w \in Workers, RecordSchedule(w), NEW q \in Runs, IsFiniteSet(ClaimsOf(q))
  PROVE  /\ IsFiniteSet(ClaimsOf(q)')
         /\ \E n \in {0, 1} : /\ recorded'[q] = recorded[q] + n
                            /\ Cardinality(ClaimsOf(q)') = Cardinality(ClaimsOf(q)) + n
  <1>0. PICK n, r : n = wbuf[w] + 1 /\ r = wrun[w]
    OBVIOUS
  <1> DEFINE new == <<"held", w, 0, n>>
  <1>1. /\ wpc \in [Workers -> WorkerPcs] /\ wbuf \in [Workers -> 0 .. BatchSize]
        /\ recorded \in [Runs -> Nat]
        /\ recorded' = [recorded EXCEPT ![r] = @ + 1]
        /\ wbuf' = [wbuf EXCEPT ![w] = n]
        /\ UNCHANGED <<saved, resultQ, wrun>>
        /\ \A v \in Workers : v # w => wpc'[v] = wpc[v]
        /\ wpc[w] = "record" /\ wpc'[w] \in Tagged /\ r \in Runs /\ n \in Nat \ {0}
        /\ n = wbuf[w] + 1 /\ r = wrun[w]
    <2>1. /\ wpc \in [Workers -> WorkerPcs] /\ wbuf \in [Workers -> 0 .. BatchSize]
          /\ recorded \in [Runs -> Nat] /\ BatchSize \in Nat
      BY PoolAssumption DEF PoolInv, TypeOK, WorkerTypeOK, HistoryTypeOK
    <2>2. /\ recorded' = [recorded EXCEPT ![wrun[w]] = @ + 1]
          /\ wbuf' = [wbuf EXCEPT ![w] = @ + 1]
          /\ UNCHANGED <<saved, resultQ, wrun>>
          /\ wpc[w] = "record"
          /\ \E to \in {"batch", "search"} : wpc' = [wpc EXCEPT ![w] = to]
      BY DEF RecordSchedule, WorkerAt
    <2>3. r \in Runs
      <3>1. wpc[w] \in Serving
        BY <2>2 DEF Serving, Tagged
      <3> QED BY <1>0, <3>1 DEF PoolInv, ServeInv, TypeOK, SharedTypeOK, Runs
    <2> QED BY <1>0, <2>1, <2>2, <2>3 DEF Tagged
  <1>3. ASSUME NEW c \in Claims', c # new
        PROVE  c \in Claims /\ RunOf(c)' = RunOf(c)
    <2>1. CASE SavedClaim(c)'
      BY <1>1, <2>1 DEF SavedClaim, Claims, RunOf
    <2>2. CASE HeldClaim(c)'
      <3>1. /\ c \in ClaimIds /\ c[1] = "held" /\ c[2] \in Workers /\ c[3] = 0 /\ c[4] \in Nat
            /\ wpc'[c[2]] \in Tagged /\ c[4] \in 1 .. wbuf'[c[2]]
        BY <2>2 DEF HeldClaim, Claims, ClaimIds
      <3>2. c[2] = w => c[4] # n
        BY <1>3, <3>1 DEF ClaimIds
      <3>3. wpc[c[2]] \in Tagged /\ c[4] \in 1 .. wbuf[c[2]]
        BY <1>1, <3>1, <3>2 DEF Tagged
      <3> QED BY <1>1, <3>1, <3>3 DEF HeldClaim, Claims, RunOf
    <2>3. CASE SentClaim(c)'
      BY <1>1, <2>3 DEF SentClaim, Claims, RunOf
    <2> QED BY <2>1, <2>2, <2>3 DEF Claims
  <1>4. new \in Claims' /\ new \notin Claims
    <2>1. new \in ClaimIds /\ n > wbuf[w] /\ wbuf[w] \in Nat /\ n \in 1 .. n
      BY <1>1 DEF ClaimIds, Producers
    <2>2. HeldClaim(new)'
      BY <1>1, <2>1 DEF HeldClaim
    <2>3. ~SavedClaim(new) /\ ~SentClaim(new) /\ ~HeldClaim(new)
      BY <2>1 DEF HeldClaim, SavedClaim, SentClaim
    <2> QED BY <2>1, <2>2, <2>3 DEF Claims
  <1>5. ASSUME NEW c \in Claims PROVE c \in Claims' /\ RunOf(c)' = RunOf(c)
    <2>1. CASE SavedClaim(c)
      BY <1>1, <2>1 DEF SavedClaim, Claims, RunOf
    <2>2. CASE HeldClaim(c)
      BY <1>1, <2>2 DEF HeldClaim, Claims, ClaimIds, RunOf, Tagged
    <2>3. CASE SentClaim(c)
      BY <1>1, <2>3 DEF SentClaim, Claims, RunOf
    <2> QED BY <2>1, <2>2, <2>3 DEF Claims
  <1>6. \A c \in Claims' : c = new => RunOf(c)' = r
    BY <1>1 DEF RunOf
  <1>7. CASE q = r
    <2>1. ClaimsOf(q)' = ClaimsOf(q) \cup {new} /\ new \notin ClaimsOf(q)
      BY <1>3, <1>4, <1>5, <1>6, <1>7 DEF ClaimsOf
    <2>2. recorded'[q] = recorded[q] + 1
      BY <1>1, <1>7
    <2> QED BY <2>1, <2>2, FS_AddElement
  <1>8. CASE q # r
    <2>1. ClaimsOf(q)' = ClaimsOf(q)
      BY <1>3, <1>4, <1>5, <1>6, <1>8 DEF ClaimsOf
    <2>2. recorded'[q] = recorded[q] + 0 /\ Cardinality(ClaimsOf(q)) \in Nat
      BY <1>1, <1>8, FS_CardinalityType
    <2> QED BY <2>1, <2>2
  <1> QED BY <1>7, <1>8

-----------------------------------------------------------------------------
(* The steps of the pool *)

\* The GUI thread only drains.
LEMMA LedgerGui ==
  ASSUME LedgerInv, PoolInv, GuiMoves \/ Clicks PROVE LedgerInv'
  <1>1. TypeOK /\ UNCHANGED <<recorded, saved, wpc, wrun, wbuf>>
    BY DEF PoolInv, GuiMoves, Clicks, CancelDrains, WaitReturns, RejectInfeasible, AskPool,
           CollectReady, ReadyTimesOut, PoolStartRun, ClickGenerate, ClickCancel, Close
  <1>2. HeldKept
    BY <1>1 DEF HeldKept
  <1>3. DrainResults \/ UNCHANGED resultQ
    BY DEF GuiMoves, Clicks, CancelDrains, WaitReturns, RejectInfeasible, AskPool,
           CollectReady, ReadyTimesOut, PoolStartRun, ClickGenerate, ClickCancel, Close
  <1> QED BY <1>1, <1>2, <1>3, DrainStep, QuietStep, LedgerKept

\* A worker's steps.
LEMMA LedgerWorker ==
  ASSUME LedgerInv, PoolInv, NEW w \in Workers, WorkerMoves(w) PROVE LedgerInv'
  <1>1. /\ TypeOK /\ wpc \in [Workers -> WorkerPcs]
        /\ wbuf \in [Workers -> 0 .. BatchSize] /\ wrun \in [Workers -> 0 .. NumRuns]
    BY DEF PoolInv, TypeOK, WorkerTypeOK
  <1>2. CASE RecordSchedule(w)
    <2> SUFFICES ASSUME NEW q \in Runs
                 PROVE  IsFiniteSet(ClaimsOf(q)') /\ Cardinality(ClaimsOf(q)') <= recorded'[q]
      BY DEF LedgerInv
    <2>1. IsFiniteSet(ClaimsOf(q)) /\ Cardinality(ClaimsOf(q)) <= recorded[q]
      BY DEF LedgerInv
    <2>2. Cardinality(ClaimsOf(q)) \in Nat /\ recorded[q] \in Nat
      BY <2>1, FS_CardinalityType DEF PoolInv, TypeOK, HistoryTypeOK
    <2> QED BY <1>2, <2>1, <2>2, RecordStep
  <1>3. CASE FlushBuffer(w)
    <2>1. UNCHANGED recorded
      BY <1>3 DEF FlushBuffer
    <2>2. ASSUME NEW q \in Runs, IsFiniteSet(ClaimsOf(q)) PROVE Fewer(q)
      <3>1. AsMany(q)
        BY <1>3, <2>2, FlushStep
      <3>2. Cardinality(ClaimsOf(q)) \in Nat
        BY <2>2, FS_CardinalityType
      <3> QED BY <3>1, <3>2 DEF AsMany, Fewer
    <2> QED BY <1>1, <2>1, <2>2, LedgerKept
  <1>4. CASE SendFinished(w) \/ SendError(w)
    <2>1. UNCHANGED <<recorded, saved, wrun, wbuf>> /\ wpc' = [wpc EXCEPT ![w] = "announce"]
      BY <1>4 DEF SendFinished, SendError, WorkerAt
    <2>2. HeldKept
      BY <1>1, <2>1 DEF HeldKept, Tagged
    <2>3. wtag[w] \in 0 .. NumRuns /\ w \in Producers
      BY DEF PoolInv, TypeOK, WorkerTypeOK, Producers
    <2>4. \E m \in Messages : m.count = 0 /\ Send(w, m)
      BY <1>4, <2>3, MessageType, PoolAssumption DEF SendFinished, SendError, Finished, Error
    <2> QED BY <1>1, <2>1, <2>2, <2>3, <2>4, SignalStep, LedgerKept
  <1>5. CASE ReadRunId(w)
    <2>1. /\ UNCHANGED <<recorded, saved, resultQ, wrun>>
          /\ wbuf' = [wbuf EXCEPT ![w] = 0] /\ wpc' = [wpc EXCEPT ![w] = "pull"]
      BY <1>5 DEF ReadRunId, WorkerAt
    <2>2. HeldKept
      BY <1>1, <2>1 DEF HeldKept
    <2> QED BY <1>1, <2>1, <2>2, QuietStep, LedgerKept
  <1>6. CASE TakePayload(w)
    <2>1. /\ UNCHANGED <<recorded, saved, resultQ, wbuf>>
          /\ \A v \in Workers : v # w => wrun'[v] = wrun[v]
          /\ wpc' = [wpc EXCEPT ![w] = "tag"]
      BY <1>1, <1>6 DEF TakePayload, WorkerAt
    <2>2. HeldKept
      BY <1>1, <2>1 DEF HeldKept, Tagged
    <2> QED BY <1>1, <2>1, <2>2, QuietStep, LedgerKept
  <1>7. CASE Announce(w) \/ TakeShutdown(w)
    <2>1. /\ UNCHANGED <<recorded, saved, resultQ, wrun, wbuf>>
          /\ \E to \in {"parked", "exited"} : wpc' = [wpc EXCEPT ![w] = to]
      BY <1>7 DEF Announce, TakeShutdown, WorkerAt
    <2>2. HeldKept
      BY <1>1, <2>1 DEF HeldKept, Tagged
    <2> QED BY <1>1, <2>1, <2>2, QuietStep, LedgerKept
  <1>8. CASE \/ CheckCancel(w) \/ GetEmpty(w) \/ GetItem(w) \/ ReachSchedule(w)
             \/ DropSchedule(w) \/ FinishUnit(w) \/ AbandonUnit(w)
    <2>1. /\ UNCHANGED <<recorded, saved, resultQ, wrun, wbuf>>
          /\ wpc[w] \in {"pull", "getting", "search", "record"}
          /\ \E to : wpc' = [wpc EXCEPT ![w] = to]
      BY <1>8 DEF CheckCancel, GetEmpty, GetItem, ReachSchedule, DropSchedule, FinishUnit,
                  AbandonUnit, WorkerAt
    <2>2. HeldKept
      BY <1>1, <2>1 DEF HeldKept, Tagged
    <2> QED BY <1>1, <2>1, <2>2, QuietStep, LedgerKept
  <1> QED BY <1>2, <1>3, <1>4, <1>5, <1>6, <1>7, <1>8 DEF WorkerMoves

\* A listener's steps.
LEMMA LedgerListener ==
  ASSUME LedgerInv, PoolInv, NEW r \in Runs, ListenerMoves(r) PROVE LedgerInv'
  <1>1. TypeOK /\ UNCHANGED <<recorded, wpc, wrun, wbuf>>
    BY DEF PoolInv, ListenerMoves, DropStale, HandleBatch, HandleFinished, HandleError,
           NoticeCrash, Shutdown, ReceiveOwn, Receive
  <1>2. HeldKept
    BY <1>1 DEF HeldKept
  <1>3. ASSUME NEW p \in Producers, HandleBatch(r, p) PROVE LedgerInv'
    <2>1. ASSUME NEW q \in Runs, IsFiniteSet(ClaimsOf(q)) PROVE Fewer(q)
      <3>1. AsMany(q)
        BY <1>1, <1>3, <2>1, SaveStep
      <3>2. Cardinality(ClaimsOf(q)) \in Nat
        BY <2>1, FS_CardinalityType
      <3> QED BY <3>1, <3>2 DEF AsMany, Fewer
    <2> QED BY <1>1, <2>1, LedgerKept
  <1>4. ASSUME NEW p \in Producers, DropStale(r, p) \/ HandleFinished(r, p) \/ HandleError(r, p)
        PROVE  LedgerInv'
    <2>1. UNCHANGED saved /\ resultQ[p] # <<>> /\ resultQ' = [resultQ EXCEPT ![p] = Tail(@)]
      BY <1>4 DEF DropStale, HandleFinished, HandleError, ReceiveOwn, Receive
    <2> QED BY <1>1, <1>2, <2>1, TakeStep, LedgerKept
  <1>5. CASE NoticeCrash(r)
    BY <1>1, <1>2, <1>5, QuietStep, LedgerKept DEF NoticeCrash
  <1>6. CASE Shutdown(r)
    BY <1>1, <1>2, <1>6, DrainStep, LedgerKept DEF Shutdown
  <1> QED BY <1>3, <1>4, <1>5, <1>6 DEF ListenerMoves

\* A feeder sends no schedules.
LEMMA LedgerFeeder ==
  ASSUME LedgerInv, PoolInv, NEW r \in Runs, FeederMoves(r) \/ PartitionRaises(r)
  PROVE  LedgerInv'
  <1>1. TypeOK /\ UNCHANGED <<recorded, saved, wpc, wrun, wbuf>>
    BY DEF PoolInv, FeederMoves, Partition, ReportPartitionError, FeedUnit, StopFeeding,
           FeedSentinels, PartitionRaises
  <1>2. HeldKept
    BY <1>1 DEF HeldKept
  <1>3. CASE ReportPartitionError(r)
    <2>1. Error(r) \in Messages /\ Error(r).count = 0 /\ Main \in Producers
      BY MessageType, PoolAssumption DEF Runs, Producers, Error
    <2> QED BY <1>1, <1>2, <1>3, <2>1, SignalStep, LedgerKept DEF ReportPartitionError
  <1>4. CASE ~ReportPartitionError(r)
    <2>1. UNCHANGED resultQ
      BY <1>4 DEF FeederMoves, Partition, FeedUnit, StopFeeding, FeedSentinels, PartitionRaises
    <2> QED BY <1>1, <1>2, <2>1, QuietStep, LedgerKept
  <1> QED BY <1>3, <1>4

\* A process that fails gives up its buffer, and with it messages not yet sent.
LEMMA LedgerFailure ==
  ASSUME LedgerInv, PoolInv, NEW w \in Workers, WorkerRaises(w) \/ Crash(w) \/ Terminate(w)
  PROVE  LedgerInv'
  <1>1. /\ TypeOK /\ wpc \in [Workers -> WorkerPcs] /\ resultQ \in [Producers -> Seq(Messages)]
        /\ w \in Producers
    BY DEF PoolInv, TypeOK, WorkerTypeOK, QueueTypeOK, Producers
  <1>2. /\ UNCHANGED <<recorded, saved, wrun, wbuf>>
        /\ \/ wpc[w] \in {"pull", "search"} /\ wpc' = [wpc EXCEPT ![w] = "error"]
           \/ wpc' = [wpc EXCEPT ![w] = "dead"]
    BY DEF WorkerRaises, Crash, Terminate, WorkerAt
  <1>3. HeldKept
    BY <1>1, <1>2 DEF HeldKept, Tagged
  <1>4. CASE UNCHANGED resultQ
    BY <1>1, <1>2, <1>3, <1>4, QuietStep, LedgerKept
  <1>5. CASE Crash(w)
    <2>1. PICK n \in 0 .. QueueCap :
            n <= Len(resultQ[w]) /\ resultQ' = [resultQ EXCEPT ![w] = SubSeq(@, 1, n)]
      BY <1>5 DEF Crash
    <2>2. /\ resultQ[w] \in Seq(Messages) /\ n \in Nat /\ resultQ'[w] = SubSeq(resultQ[w], 1, n)
          /\ \A p \in Producers : p # w => resultQ'[p] = resultQ[p]
      BY <1>1, <2>1, PoolAssumption
    <2>3. /\ Len(resultQ'[w]) = n /\ n <= Len(resultQ[w])
          /\ \A k \in 1 .. n : resultQ'[w][k] = resultQ[w][k]
      BY <2>1, <2>2
    <2>4. ASSUME NEW c \in Claims' PROVE c \in Claims /\ RunOf(c)' = RunOf(c)
      <3>1. CASE SavedClaim(c)'
        BY <1>2, <3>1 DEF SavedClaim, Claims, RunOf
      <3>2. CASE HeldClaim(c)'
        BY <1>3, <3>2, HeldGoneBy DEF Claims
      <3>3. CASE SentClaim(c)'
        <4>1. CASE c[2] # w
          BY <2>2, <3>3, <4>1 DEF SentClaim, Claims, RunOf
        <4>2. CASE c[2] = w
          <5>1. c[3] \in 1 .. n /\ c[3] \in 1 .. Len(resultQ[w])
                /\ resultQ'[w][c[3]] = resultQ[w][c[3]]
            BY <2>2, <2>3, <3>3, <4>2 DEF SentClaim
          <5> QED BY <3>3, <4>2, <5>1 DEF SentClaim, Claims, RunOf
        <4> QED BY <4>1, <4>2
      <3> QED BY <3>1, <3>2, <3>3 DEF Claims
    <2> QED BY <1>1, <1>2, <2>4, ClaimsGoneBy, LedgerKept
  <1> QED BY <1>4, <1>5 DEF WorkerRaises, Terminate

-----------------------------------------------------------------------------
(* The theorem *)

\* Before the first run there are no claims.
LEMMA LedgerInit == Init => LedgerInv
  <1> SUFFICES ASSUME Init, NEW r \in Runs
               PROVE  IsFiniteSet(ClaimsOf(r)) /\ Cardinality(ClaimsOf(r)) <= recorded[r]
    BY DEF LedgerInv
  <1>1. ClaimsOf(r) = {}
    <2> SUFFICES ASSUME NEW c \in Claims PROVE FALSE
      BY DEF ClaimsOf
    <2>1. ~SavedClaim(c) /\ ~HeldClaim(c) /\ ~SentClaim(c)
      BY DEF Init, SavedClaim, HeldClaim, SentClaim, Tagged
    <2> QED BY <2>1 DEF Claims
  <1>2. recorded[r] = 0
    BY DEF Init
  <1> QED BY <1>1, <1>2, FS_EmptySet

\* A stuttering step changes no claim.
LEMMA LedgerSame ==
  ASSUME PoolInv, LedgerInv, UNCHANGED vars PROVE LedgerInv'
  <1>1. HeldKept /\ UNCHANGED <<recorded, saved, resultQ>> /\ TypeOK
    BY DEF vars, HeldKept, PoolInv
  <1> QED BY <1>1, QuietStep, LedgerKept

\* Every step of the pool keeps the ledger.
LEMMA LedgerNext == PoolInv /\ LedgerInv /\ [Next]_vars => LedgerInv'
  <1> SUFFICES ASSUME PoolInv, LedgerInv, [Next]_vars PROVE LedgerInv'
    OBVIOUS
  <1> QED BY LedgerGui, LedgerWorker, LedgerListener, LedgerFeeder, LedgerFailure, LedgerSame
          DEF Next, Mishaps

\* The saved schedules of a run are among its claims.
LEMMA SavedAreClaims ==
  ASSUME NEW r \in Runs, saved[r] \in Nat, IsFiniteSet(ClaimsOf(r))
  PROVE  /\ saved[r] <= Cardinality(ClaimsOf(r))
         /\ (\A c \in ClaimsOf(r) : SavedClaim(c)) => saved[r] = Cardinality(ClaimsOf(r))
  <1> DEFINE n == saved[r]
             claim(i) == <<"saved", r, 0, i>>
             f == [i \in 1 .. n |-> claim(i)]
  <1>1. ASSUME NEW i \in 1 .. n PROVE claim(i) \in ClaimsOf(r)
    BY <1>1 DEF Claims, ClaimIds, ClaimsOf, SavedClaim, RunOf
  <1>2. f \in [1 .. n -> ClaimsOf(r)] /\ \A i, j \in 1 .. n : f[i] = f[j] => i = j
    BY <1>1
  <1>3. f \in Injection(1 .. n, ClaimsOf(r))
    BY <1>2, Fun_IsInj
  <1>4. Cardinality(1 .. n) = n
    BY FS_Interval
  <1>5. ASSUME \A c \in ClaimsOf(r) : SavedClaim(c) PROVE n = Cardinality(ClaimsOf(r))
    <2>1. ASSUME NEW c \in ClaimsOf(r) PROVE \E i \in 1 .. n : f[i] = c
      <3>1. c = claim(c[4]) /\ c[4] \in 1 .. n
        BY <1>5 DEF ClaimsOf, Claims, ClaimIds, SavedClaim, RunOf
      <3> QED BY <3>1
    <2>2. f \in Surjection(1 .. n, ClaimsOf(r))
      BY <1>2, <2>1, Fun_IsSurj
    <2> QED BY <1>3, <1>4, <2>2, FS_Injection
  <1> QED BY <1>3, <1>4, <1>5, FS_Injection

\* What is saved is claimed, and claims never outnumber what was recorded.
LEMMA LedgerBounds == PoolInv /\ LedgerInv => SavedWasRecorded
  <1> SUFFICES ASSUME PoolInv, LedgerInv, NEW r \in Runs PROVE saved[r] <= recorded[r]
    BY DEF SavedWasRecorded
  <1>1. saved[r] \in Nat /\ recorded[r] \in Nat
    BY DEF PoolInv, TypeOK, ListenerTypeOK, HistoryTypeOK
  <1>2. IsFiniteSet(ClaimsOf(r)) /\ Cardinality(ClaimsOf(r)) <= recorded[r]
    BY DEF LedgerInv
  <1>3. saved[r] <= Cardinality(ClaimsOf(r)) /\ Cardinality(ClaimsOf(r)) \in Nat
    BY <1>1, <1>2, SavedAreClaims, FS_CardinalityType
  <1> QED BY <1>1, <1>2, <1>3

\* Whatever drains, crashes, stale messages and two listeners on one queue do, no
\* schedule is saved twice and none for a run that did not find it.
THEOREM NothingSavedTwice == Spec => []SavedWasRecorded
  <1>1. Init => PoolInv /\ LedgerInv
    BY InvInit, LedgerInit
  <1>2. PoolInv /\ LedgerInv /\ [Next]_vars => (PoolInv /\ LedgerInv)'
    BY InvStep, LedgerNext
  <1> QED BY <1>1, <1>2, LedgerBounds, PTL DEF Spec

\* No number of racing workers records more than max_results schedules of a run, and
\* whatever the batches are that hold them, no more are saved.
THEOREM CapIsKept == Spec => []CapHolds
  <1>1. PoolInv /\ SavedWasRecorded => CapHolds
    <2> SUFFICES ASSUME PoolInv, SavedWasRecorded, NEW r \in Runs
                 PROVE  recorded[r] <= ResultLimit /\ saved[r] <= ResultLimit
      BY DEF CapHolds
    <2>1. recorded[r] \in Nat /\ saved[r] \in Nat
      BY DEF PoolInv, TypeOK, ListenerTypeOK, HistoryTypeOK
    <2>2. recorded[r] <= ResultLimit /\ saved[r] <= recorded[r]
      BY DEF PoolInv, CountInv, SavedWasRecorded
    <2> QED BY <2>1, <2>2, PoolAssumption
  <1> QED BY <1>1, PoolInvariant, NothingSavedTwice, PTL
=============================================================================
