------------------------- MODULE ResultBrowsingProofs -------------------------
(***************************************************************************)
(* The results of the runs between the threads that save, sort and show    *)
(* them, for any number of runs, sorts and clicks and any findings.        *)
(*                                                                         *)
(* The argument: generate_schedules waits for the last listener before it  *)
(* clears, and starts the next one after it has cleared; so there is one   *)
(* listener at a time, it inserts alone, and what it finds behind the      *)
(* counter is its own (FlowInv, FoundInv).  That is how the repository is  *)
(* meant to be used, and all that was proved of it carries over.           *)
(***************************************************************************)
EXTENDS ResultBrowsing, ScheduleRepositoryProofs, SequencesExt

-----------------------------------------------------------------------------
(* The invariant *)

\* The order of a sort, or that of the generation.
IsOrder(order) == order \in Orders \/ order = <<>>

\* A window is made of its five parts.
IsWindow(w) ==
    w = [page |-> w.page, priority |-> w.priority, sorted |-> w.sorted, ids |-> w.ids,
         cache |-> w.cache]

BrowsingType ==
    /\ gui \in {"idle", "stopping", "clearing", "clear_again", "clearing_again", "starting",
                "connecting"}
    /\ run \in 0 .. NumRuns /\ worker \in {0, run}
    /\ listener \in [Runs -> {"none", "running", "cancelled", "ended"}]
    /\ events \in Seq(ToSet(events))
    /\ sorts = [i \in SortIds |-> sorts[i]] /\ IsWindow(win)

\* Before a run starts nobody listens and everything is cleared.
Preparing == gui \in {"clearing", "clear_again", "clearing_again", "starting"}

FlowInv ==
    /\ clearing # "no" <=> gui \in {"clearing", "clearing_again"}
    /\ gui = "stopping" \/ Preparing => run < NumRuns /\ worker = 0
    /\ Preparing => \A r \in Runs : ~Live(r)
    /\ gui = "clear_again" \/ gui = "starting" => batches = {} /\ count = 0
    /\ gui = "connecting" => worker = run
    /\ \A r \in Runs : Live(r) => r = run /\ (gui = "stopping" \/ worker = r)
    /\ \A r \in Runs : insert[r].pc # "idle" => Live(r)

\* While a run goes on, what is stored is what was counted.
UncountedInv ==
    (\E r \in Runs : Live(r)) /\ NobodyInserts => NothingUncounted

\* A finding with the number of schedules in its first batches.
IsFinding(found, total) ==
    /\ found \in Findings /\ found \in Seq(Rows)
    /\ total \in [0 .. Len(found) -> 0 .. MaxCount] /\ total[0] = 0
    /\ \A i \in 1 .. Len(found) : total[i] = total[i - 1] + Len(found[i])

\* A run has taken n batches of its finding.
HasTaken(r, found, total, n) ==
    /\ todo = [i \in 1 .. Len(found) - n |-> found[n + i]]
    /\ insert[r].pc = "idle" => count = total[n]
    /\ insert[r].pc # "idle" => n > 0 /\ insert[r].rows = found[n] /\ count = total[n - 1]

\* What a run has yet to save are the batches of its finding behind those it took.
FoundInv ==
    \A r \in Runs : Live(r) =>
        \E found \in Findings : \E total \in [0 .. Len(found) -> 0 .. MaxCount] :
            /\ IsFinding(found, total)
            /\ \E n \in 0 .. Len(found) : HasTaken(r, found, total, n)

\* Whatever sorts, sorts by an order the user can ask for.
OrdersInv ==
    /\ IsOrder(win.priority)
    /\ \A i \in SortIds : /\ IsOrder(sorts[i].order)
                          /\ sorts[i].pc \in {"index", "sign"} => sorts[i].order \in Orders
    /\ \A j \in DOMAIN events : IsOrder(events[j].order)

BrowsingInv ==
    BrowsingType /\ FlowInv /\ UncountedInv /\ FoundInv /\ OrdersInv

-----------------------------------------------------------------------------
(* The signals *)

\* A posted signal comes last.
LEMMA PostedIsLast ==
    ASSUME NEW s, s \in Seq(ToSet(s)), NEW e
    PROVE /\ Append(s, e) \in Seq(ToSet(Append(s, e)))
          /\ Len(s) \in Nat /\ DOMAIN s = 1 .. Len(s) /\ DOMAIN Append(s, e) = 1 .. Len(s) + 1
          /\ \A j \in 1 .. Len(s) : Append(s, e)[j] = s[j]
          /\ Append(s, e)[Len(s) + 1] = e
<1>1. Append(s, e) \in Seq(ToSet(s) \cup {e}) /\ Len(s) \in Nat /\ DOMAIN s = 1 .. Len(s)
  OBVIOUS
<1>2. Len(Append(s, e)) = Len(s) + 1 /\ \A j \in 1 .. Len(s) : Append(s, e)[j] = s[j]
  OBVIOUS
<1>3. Append(s, e)[Len(s) + 1] = e /\ DOMAIN Append(s, e) = 1 .. Len(s) + 1
  BY <1>1
<1>4. \A j \in 1 .. Len(s) + 1 : Append(s, e)[j] \in ToSet(Append(s, e))
  BY <1>3 DEF ToSet
<1> QED
  BY <1>1, <1>2, <1>3, <1>4

\* What is delivered came first.
LEMMA DeliveredIsFirst ==
    ASSUME NEW s, s \in Seq(ToSet(s)), s # <<>>
    PROVE /\ Tail(s) \in Seq(ToSet(Tail(s)))
          /\ Len(s) \in Nat \ {0} /\ DOMAIN s = 1 .. Len(s) /\ DOMAIN Tail(s) = 1 .. Len(s) - 1
          /\ \A j \in 1 .. Len(s) - 1 : Tail(s)[j] = s[j + 1]
          /\ Head(s) = s[1]
<1>1. Tail(s) \in Seq(ToSet(s)) /\ Len(s) \in Nat \ {0} /\ DOMAIN s = 1 .. Len(s)
  OBVIOUS
<1>2. Head(s) = s[1] /\ Len(Tail(s)) = Len(s) - 1 /\ \A j \in 1 .. Len(s) - 1 : Tail(s)[j] = s[j + 1]
  OBVIOUS
<1>3. DOMAIN Tail(s) = 1 .. Len(s) - 1
  BY <1>1, <1>2
<1>4. \A j \in 1 .. Len(s) - 1 : Tail(s)[j] \in ToSet(Tail(s))
  BY <1>3 DEF ToSet
<1>5. Tail(s) \in Seq(ToSet(Tail(s)))
  <2>1. PICK t : t = Tail(s)
    OBVIOUS
  <2>2. t \in Seq(ToSet(s)) /\ Len(t) = Len(s) - 1 /\ \A j \in 1 .. Len(t) : t[j] \in ToSet(t)
    BY <1>1, <1>2, <1>4, <2>1
  <2>3. t \in [1 .. Len(t) -> ToSet(t)] /\ Len(t) \in Nat
    BY <2>2
  <2>4. t \in Seq(ToSet(t))
    BY <2>3
  <2> QED
    BY <2>1, <2>4
<1> QED
  BY <1>1, <1>2, <1>3, <1>5

\* Posting leaves the signals as they are or puts one behind them.
LEMMA PostPosts ==
    ASSUME BrowsingType, NEW e, Post(e)
    PROVE /\ events' \in Seq(ToSet(events'))
          /\ \A j \in DOMAIN events : j \in DOMAIN events' /\ events'[j] = events[j]
          /\ \A j \in DOMAIN events' : j \notin DOMAIN events => events'[j] = e
          /\ Heard(e.of) => \E j \in DOMAIN events' : events'[j] = e
<1>1. CASE ~Heard(e.of)
  BY <1>1 DEF BrowsingType, Post
<1>2. CASE Heard(e.of)
  <2>1. events' = Append(events, e)
    BY <1>2 DEF Post
  <2> QED
    BY <2>1, PostedIsLast DEF BrowsingType
<1> QED
  BY <1>1, <1>2

-----------------------------------------------------------------------------
(* The listener *)

\* The tuples only abbreviate UNCHANGED.
USE DEF tables, indexVars, repositoryVars, storeVars, flowVars, sortVars, pagingVars, routerVars,
        ListenerVars, SortStays, ClearStays, DeliverStays, UserStays, browsingVars

Inv == BrowsingInv /\ RepositoryInv

\* The writers of the repository are the listeners of the runs.
LEMMA WritersAreRuns == Writers = Runs /\ NumRuns \in Nat /\ MaxCount \in Nat
BY BrowsingAssumption, RepositoryAssumption

\* The listener that lives is the one of the last run, nobody clears, and nobody else inserts.
LEMMA LiveAlone ==
    ASSUME Inv, NEW r \in Runs, Live(r)
    PROVE /\ r = run /\ ~Preparing /\ clearing = "no" /\ r \in Writers
          /\ \A v \in Runs : v # r => ~Live(v) /\ insert[v].pc = "idle"
          /\ gui = "stopping" \/ worker = r
<1>1. r = run /\ ~Preparing /\ (gui = "stopping" \/ worker = r) /\ \A v \in Runs : v # r => ~Live(v)
  BY DEF Inv, BrowsingInv, FlowInv
<1>2. clearing = "no"
  BY <1>1 DEF Inv, BrowsingInv, FlowInv, Preparing
<1>3. \A v \in Runs : v # r => insert[v].pc = "idle"
  BY <1>1 DEF Inv, BrowsingInv, FlowInv
<1> QED
  BY <1>1, <1>2, <1>3, WritersAreRuns

\* Where nothing of the flow changes, the invariants of the flow stay.
LEMMA FlowStays ==
    ASSUME Inv, UNCHANGED <<batches, count, insert, clearing, gui, run, listener, todo, worker>>,
           events' \in Seq(ToSet(events')), sorts' = [i \in SortIds |-> sorts'[i]],
           IsWindow(win)'
    PROVE (BrowsingType /\ FlowInv /\ UncountedInv /\ FoundInv)'
<1>1. BrowsingType'
  BY DEF Inv, BrowsingInv, BrowsingType
<1>2. FlowInv'
  BY DEF Inv, BrowsingInv, FlowInv, Preparing, Live
<1>3. UncountedInv'
  BY DEF Inv, BrowsingInv, UncountedInv, NobodyInserts, NothingUncounted, Live, EndOf
<1>4. FoundInv'
  BY DEF Inv, BrowsingInv, FoundInv, HasTaken, Live
<1> QED
  BY <1>1, <1>2, <1>3, <1>4

\* What a listener needs of its finding to take the next batch.
LEMMA NextBatchFits ==
    ASSUME Inv, NEW r \in Runs, Live(r), insert[r].pc = "idle", todo # <<>>
    PROVE /\ Head(todo) \in Rows /\ count + Len(Head(todo)) <= MaxCount
          /\ \E found \in Findings : \E total \in [0 .. Len(found) -> 0 .. MaxCount] :
                /\ IsFinding(found, total)
                /\ \E n \in 1 .. Len(found) :
                      /\ Tail(todo) = [i \in 1 .. Len(found) - n |-> found[n + i]]
                      /\ Head(todo) = found[n] /\ count = total[n - 1]
<1>0. PICK found \in Findings : \E total \in [0 .. Len(found) -> 0 .. MaxCount] :
          IsFinding(found, total) /\ \E n \in 0 .. Len(found) : HasTaken(r, found, total, n)
  BY DEF Inv, BrowsingInv, FoundInv
<1>1. PICK total \in [0 .. Len(found) -> 0 .. MaxCount] :
          IsFinding(found, total) /\ \E n \in 0 .. Len(found) : HasTaken(r, found, total, n)
  BY <1>0
<1>2. PICK n \in 0 .. Len(found) : HasTaken(r, found, total, n)
  BY <1>1
<1>3. found \in Seq(Rows) /\ Len(found) \in Nat
  BY <1>1 DEF IsFinding
<1>4. todo = [i \in 1 .. Len(found) - n |-> found[n + i]] /\ count = total[n]
  BY <1>2 DEF HasTaken
<1>5. n < Len(found)
  BY <1>3, <1>4
<1>6. todo \in Seq(Rows) /\ Len(todo) = Len(found) - n
  BY <1>3, <1>4
<1>7. Head(todo) = found[n + 1] /\ Tail(todo) = [i \in 1 .. Len(found) - (n + 1) |-> found[n + 1 + i]]
  BY <1>3, <1>4, <1>5, <1>6
<1>8. n + 1 \in 1 .. Len(found) /\ found[n + 1] \in Rows /\ Len(found[n + 1]) \in Nat
  BY <1>3, <1>5, RowsType
<1>9. total[n + 1] = total[n] + Len(found[n + 1]) /\ total[n + 1] \in 0 .. MaxCount
  <2>1. total[n + 1] = total[n + 1 - 1] + Len(found[n + 1])
    BY <1>1, <1>8 DEF IsFinding
  <2>2. n + 1 - 1 = n /\ n + 1 \in 0 .. Len(found)
    BY <1>5
  <2> QED
    BY <2>1, <2>2
<1>10. Head(todo) \in Rows /\ count + Len(Head(todo)) <= MaxCount
  BY <1>4, <1>7, <1>8, <1>9, WritersAreRuns
<1>11. PICK m \in 1 .. Len(found) : m = n + 1 /\ m - 1 = n
  BY <1>8
<1>12. /\ Tail(todo) = [i \in 1 .. Len(found) - m |-> found[m + i]]
       /\ Head(todo) = found[m] /\ count = total[m - 1]
  BY <1>4, <1>7, <1>11
<1> QED
  BY <1>1, <1>10, <1>12

\* A run takes its next batch.
LEMMA BeginBatchStep ==
    ASSUME Inv, NEW r \in Runs, BeginBatch(r)
    PROVE BrowsingInv' /\ InsertStep(r) /\ UNCHANGED clearing
<1> USE DEF BeginBatch
<1>1. /\ r = run /\ ~Preparing /\ clearing = "no" /\ r \in Writers
      /\ \A v \in Runs : v # r => ~Live(v) /\ insert[v].pc = "idle"
  BY LiveAlone
<1>2. NobodyInserts /\ NothingUncounted
  BY <1>1, WritersAreRuns DEF Inv, BrowsingInv, UncountedInv, NobodyInserts
<1>3. /\ Head(todo) \in Rows /\ count + Len(Head(todo)) <= MaxCount
      /\ \E found \in Findings : \E total \in [0 .. Len(found) -> 0 .. MaxCount] :
            /\ IsFinding(found, total)
            /\ \E n \in 1 .. Len(found) :
                  /\ Tail(todo) = [i \in 1 .. Len(found) - n |-> found[n + i]]
                  /\ Head(todo) = found[n] /\ count = total[n - 1]
  BY NextBatchFits
<1>4. /\ DOMAIN insert' = Runs
      /\ insert'[r] = [pc |-> "offset", first |-> count, rows |-> Head(todo)]
      /\ \A v \in Runs : v # r => insert'[v] = insert[v]
  BY WritersAreRuns DEF Inv, RepositoryInv, RepositoryType, ReadOffset
<1>5. InsertStep(r)
  BY <1>1, <1>2, <1>3 DEF InsertStep
<1>6. BrowsingType' /\ OrdersInv'
  BY DEF Inv, BrowsingInv, BrowsingType, OrdersInv, IsOrder
<1>7. FlowInv'
  BY <1>4 DEF Inv, BrowsingInv, FlowInv, Preparing, Live, ReadOffset
<1>8. UncountedInv'
  BY <1>1, <1>4 DEF UncountedInv, NobodyInserts
<1>9. FoundInv'
  <2>1. \A v \in Runs : Live(v)' => v = r
    BY <1>1 DEF Live
  <2>2. PICK found \in Findings : \E total \in [0 .. Len(found) -> 0 .. MaxCount] :
            /\ IsFinding(found, total)
            /\ \E n \in 1 .. Len(found) :
                  /\ Tail(todo) = [i \in 1 .. Len(found) - n |-> found[n + i]]
                  /\ Head(todo) = found[n] /\ count = total[n - 1]
    BY <1>3
  <2>3. PICK total \in [0 .. Len(found) -> 0 .. MaxCount] :
            /\ IsFinding(found, total)
            /\ \E n \in 1 .. Len(found) :
                  /\ Tail(todo) = [i \in 1 .. Len(found) - n |-> found[n + i]]
                  /\ Head(todo) = found[n] /\ count = total[n - 1]
    BY <2>2
  <2>4. PICK n \in 1 .. Len(found) :
            /\ Tail(todo) = [i \in 1 .. Len(found) - n |-> found[n + i]]
            /\ Head(todo) = found[n] /\ count = total[n - 1]
    BY <2>3
  <2>5. count' = count /\ todo' = Tail(todo)
    BY DEF ReadOffset
  <2>6. HasTaken(r, found, total, n)'
    BY <1>4, <2>4, <2>5 DEF HasTaken
  <2>7. n \in 0 .. Len(found)
    BY <2>4
  <2>8. Live(r)' => \E g \in Findings : \E tt \in [0 .. Len(g) -> 0 .. MaxCount] :
            IsFinding(g, tt) /\ \E k \in 0 .. Len(g) : HasTaken(r, g, tt, k)'
    BY <2>3, <2>6, <2>7
  <2> QED
    BY <2>1, <2>8 DEF FoundInv
<1> QED
  BY <1>5, <1>6, <1>7, <1>8, <1>9 DEF BrowsingInv

\* A writer in the middle of an insert is the listener that lives.
LEMMA InsertingLives ==
    ASSUME Inv, NEW r \in Runs, insert[r].pc # "idle"
    PROVE Live(r) /\ r \in Writers
BY WritersAreRuns DEF Inv, BrowsingInv, FlowInv

\* A run saves the batch it took.
LEMMA SaveBatchStep ==
    ASSUME Inv, NEW r \in Runs, SaveBatch(r)
    PROVE BrowsingInv' /\ InsertStep(r) /\ UNCHANGED clearing
<1> USE DEF SaveBatch, CommitInsert
<1>1. /\ r = run /\ ~Preparing /\ clearing = "no" /\ r \in Writers /\ Live(r)
      /\ \A v \in Runs : v # r => ~Live(v) /\ insert[v].pc = "idle"
  BY InsertingLives, LiveAlone
<1>2. InsertStep(r)
  BY DEF InsertStep
<1>3. /\ DOMAIN insert' = Runs
      /\ insert'[r].pc = "committed" /\ insert'[r].rows = insert[r].rows
      /\ \A v \in Runs : v # r => insert'[v] = insert[v]
  BY WritersAreRuns DEF Inv, RepositoryInv, RepositoryType
<1>4. BrowsingType' /\ OrdersInv'
  BY DEF Inv, BrowsingInv, BrowsingType, OrdersInv, IsOrder
<1>5. FlowInv'
  BY <1>1, <1>3 DEF Inv, BrowsingInv, FlowInv, Preparing, Live
<1>6. UncountedInv'
  BY <1>1, <1>3 DEF UncountedInv, NobodyInserts
<1>7. FoundInv'
  <2>1. \A v \in Runs : Live(v)' => v = r /\ Live(v)
    BY <1>1 DEF Live
  <2>2. ASSUME NEW found, NEW total, NEW n, HasTaken(r, found, total, n)
        PROVE HasTaken(r, found, total, n)'
    BY <1>3, <2>2 DEF HasTaken
  <2> QED
    BY <2>1, <2>2 DEF Inv, BrowsingInv, FoundInv
<1> QED
  BY <1>2, <1>4, <1>5, <1>6, <1>7 DEF BrowsingInv

\* A run counts the batch it saved and announces it.
LEMMA AnnounceBatchStep ==
    ASSUME Inv, NEW r \in Runs, AnnounceBatch(r)
    PROVE BrowsingInv' /\ InsertStep(r) /\ UNCHANGED clearing
<1> USE DEF AnnounceBatch, CountInsert
<1>1. /\ r = run /\ ~Preparing /\ clearing = "no" /\ r \in Writers /\ Live(r)
      /\ \A v \in Runs : v # r => ~Live(v) /\ insert[v].pc = "idle"
  BY InsertingLives, LiveAlone
<1>2. InsertStep(r)
  BY DEF InsertStep
<1>3. /\ DOMAIN insert' = Runs
      /\ insert'[r] = NoInsert /\ \A v \in Runs : v # r => insert'[v] = insert[v]
  BY WritersAreRuns DEF Inv, RepositoryInv, RepositoryType
<1>4. /\ Batch(count, insert[r].rows) \in batches
      /\ \A b \in batches : b # Batch(count, insert[r].rows) => EndOf(b) <= count
  BY <1>1 DEF Inv, RepositoryInv, CommittedIsNext
<1>5. insert[r].rows \in Rows /\ Len(insert[r].rows) \in Nat /\ count \in Nat
  BY <1>1, RowsType DEF Inv, RepositoryInv, OneWriter, RepositoryType
<1>6. BrowsingType' /\ OrdersInv'
  <2>1. BrowsingType
    BY DEF Inv, BrowsingInv
  <2>2. /\ events' \in Seq(ToSet(events'))
        /\ \A j \in DOMAIN events' : events'[j] = Event("batch", r) \/
              (j \in DOMAIN events /\ events'[j] = events[j])
    BY <2>1, PostPosts
  <2>3. BrowsingType'
    BY <2>1, <2>2 DEF BrowsingType
  <2>4. OrdersInv'
    BY <2>2 DEF Inv, BrowsingInv, OrdersInv, IsOrder, Event
  <2> QED
    BY <2>3, <2>4
<1>7. FlowInv'
  BY <1>1, <1>3 DEF Inv, BrowsingInv, FlowInv, Preparing, Live, NoInsert
<1>8. UncountedInv'
  <2>1. \A b \in batches : EndOf(b) <= count + Len(insert[r].rows)
    <3> SUFFICES ASSUME NEW b \in batches PROVE EndOf(b) <= count + Len(insert[r].rows)
      OBVIOUS
    <3>1. CASE b = Batch(count, insert[r].rows)
      BY <1>5, <3>1 DEF EndOf, Batch
    <3>2. CASE b # Batch(count, insert[r].rows)
      <4>1. EndOf(b) <= count /\ EndOf(b) \in Nat
        BY <1>4, <3>2, RowsType DEF EndOf, Inv, RepositoryInv, RepositoryType
      <4> QED
        BY <1>5, <4>1
    <3> QED
      BY <3>1, <3>2
  <2> QED
    BY <2>1 DEF UncountedInv, NothingUncounted, EndOf
<1>9. FoundInv'
  <2>1. \A v \in Runs : Live(v)' => v = r /\ Live(v)
    BY <1>1 DEF Live
  <2>2. ASSUME NEW found, NEW total \in [0 .. Len(found) -> 0 .. MaxCount], IsFinding(found, total),
               NEW n \in 0 .. Len(found), HasTaken(r, found, total, n)
        PROVE HasTaken(r, found, total, n)'
    <3>1. n > 0 /\ insert[r].rows = found[n] /\ count = total[n - 1]
      BY <2>2 DEF HasTaken
    <3>2. found \in Seq(Rows) /\ n \in 1 .. Len(found)
      BY <2>2, <3>1 DEF IsFinding
    <3>3. total[n] = count + Len(insert[r].rows)
      BY <2>2, <3>1, <3>2 DEF IsFinding
    <3> QED
      BY <1>3, <2>2, <3>3 DEF HasTaken, NoInsert
  <2> QED
    BY <2>1, <2>2 DEF Inv, BrowsingInv, FoundInv
<1> QED
  BY <1>2, <1>6, <1>7, <1>8, <1>9 DEF BrowsingInv

\* Nothing is owed by a listener that ended: there is no other one.
LEMMA LastListenerEnds ==
    ASSUME Inv, NEW r \in Runs, Live(r), listener' = [listener EXCEPT ![r] = "ended"],
           UNCHANGED <<gui, run, worker, clearing, count>>, DOMAIN insert' = Runs,
           insert'[r].pc = "idle", \A v \in Runs : v # r => insert'[v] = insert[v]
    PROVE (FlowInv /\ UncountedInv /\ FoundInv)'
<1>1. ~Preparing /\ \A v \in Runs : v # r => ~Live(v) /\ insert[v].pc = "idle"
  BY LiveAlone
<1>2. \A v \in Runs : ~Live(v)'
  BY <1>1 DEF Live, Inv, BrowsingInv, BrowsingType
<1>3. FlowInv'
  BY <1>1, <1>2 DEF Inv, BrowsingInv, FlowInv, Preparing
<1>4. UncountedInv' /\ FoundInv'
  BY <1>2 DEF UncountedInv, FoundInv
<1> QED
  BY <1>3, <1>4

\* The insert fails: the listener is over.
LEMMA BatchFailsStep ==
    ASSUME Inv, NEW r \in Runs, BatchFails(r)
    PROVE BrowsingInv' /\ InsertStep(r) /\ UNCHANGED clearing
<1> USE DEF BatchFails, FailInsert
<1>1. Live(r) /\ r \in Writers
  BY InsertingLives
<1>2. InsertStep(r)
  BY DEF InsertStep
<1>3. DOMAIN insert' = Runs /\ insert'[r].pc = "idle" /\ \A v \in Runs : v # r => insert'[v] = insert[v]
  BY WritersAreRuns DEF Inv, RepositoryInv, RepositoryType, NoInsert
<1>4. FlowInv' /\ UncountedInv' /\ FoundInv'
  BY <1>1, <1>3, LastListenerEnds
<1>5. BrowsingType' /\ OrdersInv'
  <2>1. BrowsingType
    BY DEF Inv, BrowsingInv
  <2>2. /\ events' \in Seq(ToSet(events'))
        /\ \A j \in DOMAIN events' : events'[j] = Event("error", r) \/
              (j \in DOMAIN events /\ events'[j] = events[j])
    BY <2>1, PostPosts
  <2>3. BrowsingType'
    BY <2>1, <2>2 DEF BrowsingType
  <2>4. OrdersInv'
    BY <2>2 DEF Inv, BrowsingInv, OrdersInv, IsOrder, Event
  <2> QED
    BY <2>3, <2>4
<1> QED
  BY <1>2, <1>4, <1>5 DEF BrowsingInv

\* A listener ends after its last batch, when it is cancelled, or with an error.
LEMMA ListenerEndsStep ==
    ASSUME Inv, NEW r \in Runs, ListenerEnds(r)
    PROVE BrowsingInv' /\ UNCHANGED storeVars
<1> USE DEF ListenerEnds
<1>1. UNCHANGED storeVars
  OBVIOUS
<1>2. DOMAIN insert' = Runs
  BY WritersAreRuns DEF Inv, RepositoryInv, RepositoryType
<1>3. FlowInv' /\ UncountedInv' /\ FoundInv'
  BY <1>2, LastListenerEnds
<1>4. PICK kind : Post(Event(kind, r))
  OBVIOUS
<1>5. BrowsingType' /\ OrdersInv'
  <2>1. BrowsingType
    BY DEF Inv, BrowsingInv
  <2>2. /\ events' \in Seq(ToSet(events'))
        /\ \A j \in DOMAIN events' : events'[j] = Event(kind, r) \/
              (j \in DOMAIN events /\ events'[j] = events[j])
    BY <1>4, <2>1, PostPosts
  <2>3. BrowsingType'
    BY <2>1, <2>2 DEF BrowsingType
  <2>4. OrdersInv'
    BY <2>2 DEF Inv, BrowsingInv, OrdersInv, IsOrder, Event
  <2> QED
    BY <2>3, <2>4
<1> QED
  BY <1>1, <1>3, <1>5 DEF BrowsingInv

-----------------------------------------------------------------------------
(* The sort workers *)

\* A step that leaves the flow and the tables alone keeps the invariant if it keeps to the
\* orders the user can ask for.
LEMMA SortSideStays ==
    ASSUME Inv, UNCHANGED <<batches, scored, count, insert, clearing, gui, run, listener, todo, worker>>,
           events' \in Seq(ToSet(events')), sorts' = [i \in SortIds |-> sorts'[i]], OrdersInv',
           IsWindow(win)',
           \/ UNCHANGED indexVars
           \/ \E order \in Orders : BuildIndex(order) \/ SignIndex(order)
           \/ \E order : IsOrder(order) /\ EnsureSortIndexes(order)
    PROVE BrowsingInv' /\ [RepositoryNext]_storeVars
<1>1. BrowsingInv'
  BY FlowStays DEF BrowsingInv
<1>2. UNCHANGED indexVars => UNCHANGED storeVars
  OBVIOUS
<1>3. ASSUME NEW order \in Orders, BuildIndex(order) \/ SignIndex(order)
      PROVE RepositoryNext
  BY <1>3 DEF RepositoryNext, IndexStep
<1>4. ASSUME NEW order, IsOrder(order), EnsureSortIndexes(order)
      PROVE [RepositoryNext]_storeVars
  <2>1. CASE order = <<>>
    BY <1>4, <2>1 DEF EnsureSortIndexes, NeedsIndex
  <2>2. CASE order \in Orders
    BY <1>4, <2>2 DEF RepositoryNext, IndexStep
  <2> QED
    BY <1>4, <2>1, <2>2 DEF IsOrder
<1> QED
  BY <1>1, <1>2, <1>3, <1>4

\* A sort is started by an order the user asked for.
LEMMA SortStarts ==
    ASSUME OrdersInv, BrowsingType, NEW order, IsOrder(order), StartSort(order)
    PROVE /\ sorts' = [i \in SortIds |-> sorts'[i]]
          /\ \A i \in SortIds : /\ IsOrder(sorts'[i].order)
                                /\ sorts'[i].pc \in {"index", "sign"} => sorts'[i].order \in Orders
BY DEF OrdersInv, BrowsingType, StartSort

\* A step of a sort worker.
LEMMA SortStep ==
    ASSUME Inv, NEW i \in SortIds, Sort(i)
    PROVE BrowsingInv' /\ [RepositoryNext]_storeVars
<1>1. BrowsingType /\ OrdersInv
  BY DEF Inv, BrowsingInv
<1>2. CASE CheckIndex(i)
  <2>1. /\ sorts' = [j \in SortIds |-> sorts'[j]] /\ events' \in Seq(ToSet(events'))
        /\ IsWindow(win)'
    BY <1>1, <1>2 DEF CheckIndex, GoOn, BrowsingType, IsWindow
  <2>2. OrdersInv'
    BY <1>1, <1>2 DEF CheckIndex, GoOn, OrdersInv, BrowsingType, IsOrder, NeedsIndex
  <2> QED
    BY <1>2, <2>1, <2>2, SortSideStays DEF CheckIndex
<1>3. CASE IndexSort(i)
  <2>1. /\ sorts' = [j \in SortIds |-> sorts'[j]] /\ events' \in Seq(ToSet(events'))
        /\ IsWindow(win)'
    BY <1>1, <1>3 DEF IndexSort, GoOn, BrowsingType, IsWindow
  <2>2. OrdersInv'
    <3>1. PICK pc : GoOn(i, pc) /\ UNCHANGED <<win, events>> /\ sorts[i].pc \in {"index", "sign"}
      BY <1>3 DEF IndexSort
    <3>2. \A j \in SortIds : sorts'[j].order = sorts[j].order /\ (j # i => sorts'[j].pc = sorts[j].pc)
      BY <1>1, <3>1 DEF GoOn, BrowsingType
    <3> QED
      BY <1>1, <3>1, <3>2 DEF OrdersInv, IsOrder
  <2>3. sorts[i].order \in Orders
    BY <1>1, <1>3 DEF IndexSort, OrdersInv
  <2>4. UNCHANGED <<batches, scored, count, insert, clearing, gui, run, listener, todo, worker>>
    BY <1>3 DEF IndexSort
  <2>5. BuildIndex(sorts[i].order) \/ SignIndex(sorts[i].order)
    BY <1>3 DEF IndexSort
  <2> QED
    BY <2>1, <2>2, <2>3, <2>4, <2>5, SortSideStays
<1>4. CASE ReadSorted(i)
  <2>1. /\ sorts' = [j \in SortIds |-> sorts'[j]] /\ events' \in Seq(ToSet(events'))
        /\ IsWindow(win)'
    BY <1>1, <1>4 DEF ReadSorted, BrowsingType, IsWindow
  <2>2. OrdersInv'
    BY <1>1, <1>4 DEF ReadSorted, OrdersInv, BrowsingType, IsOrder
  <2> QED
    BY <1>4, <2>1, <2>2, SortSideStays DEF ReadSorted
<1>5. CASE EmitSorted(i)
  <2>1. sorts' = [j \in SortIds |-> sorts'[j]] /\ IsWindow(win)'
    BY <1>1, <1>5 DEF EmitSorted, BrowsingType, IsWindow
  <2> DEFINE e == [kind |-> "sorted", of |-> i, order |-> sorts[i].order, ids |-> sorts[i].ids]
  <2>2. events' = events \/ events' = Append(events, e)
    BY <1>5 DEF EmitSorted
  <2>3. /\ events' \in Seq(ToSet(events'))
        /\ \A j \in DOMAIN events' : events'[j] = e \/ (j \in DOMAIN events /\ events'[j] = events[j])
    <3>1. CASE events' = events
      BY <1>1, <3>1 DEF BrowsingType
    <3>2. CASE events' = Append(events, e)
      <4> HIDE DEF e
      <4> QED
        BY <1>1, <3>2, PostedIsLast DEF BrowsingType
    <3> QED
      BY <2>2, <3>1, <3>2
  <2>4. \A j \in DOMAIN events' : IsOrder(events'[j].order)
    BY <1>1, <2>3 DEF OrdersInv
  <2>5. OrdersInv'
    BY <1>1, <1>5, <2>4 DEF EmitSorted, NoSort, OrdersInv, BrowsingType, IsOrder
  <2> QED
    BY <1>5, <2>1, <2>3, <2>5, SortSideStays DEF EmitSorted
<1>6. CASE SortFails(i)
  <2>1. /\ sorts' = [j \in SortIds |-> sorts'[j]] /\ events' \in Seq(ToSet(events'))
        /\ IsWindow(win)'
    BY <1>1, <1>6 DEF SortFails, BrowsingType, IsWindow
  <2>2. OrdersInv'
    BY <1>1, <1>6 DEF SortFails, NoSort, OrdersInv, BrowsingType, IsOrder
  <2> QED
    BY <1>6, <2>1, <2>2, SortSideStays DEF SortFails
<1> QED
  BY <1>2, <1>3, <1>4, <1>5, <1>6 DEF Sort

-----------------------------------------------------------------------------
(* The window *)

\* Loading a page keeps the order of the window.
LEMMA LoadKeepsOrder ==
    ASSUME NEW w, IsWindow(w)
    PROVE IsWindow(LoadCurrentPage(w)) /\ LoadCurrentPage(w).priority = w.priority
BY DEF IsWindow, LoadCurrentPage

\* Showing a schedule keeps the order of the window.
LEMMA ShowKeepsOrder ==
    ASSUME NEW w, IsWindow(w), NEW p, ShowCurrent(w, p)
    PROVE IsWindow(win)' /\ win'.priority = w.priority
<1>1. CASE win' = w
  BY <1>1 DEF IsWindow
<1>2. CASE win' = Looked(w, p.idx)
  BY <1>2 DEF IsWindow, Looked
<1> QED
  BY <1>1, <1>2 DEF ShowCurrent

\* Entering a page keeps the order of the window.
LEMMA ResetKeepsOrder ==
    ASSUME NEW w, IsWindow(w), NEW p, ResetToFirst(w, p) \/ Enter(w, p)
    PROVE IsWindow(win)' /\ win'.priority = w.priority
BY ShowKeepsOrder DEF ResetToFirst, Enter

\* A sorted page that arrives is of an order the user asked for.
LEMMA SortedPageIsWindow ==
    ASSUME NEW w, IsWindow(w), NEW order, NEW ids
    PROVE IsWindow(apply_sort_data(w, order, ids)) /\ apply_sort_data(w, order, ids).priority = order
<1>1. CASE order = <<>>
  <2>1. IsWindow([w EXCEPT !.page = 0, !.priority = <<>>, !.sorted = FALSE])
        /\ [w EXCEPT !.page = 0, !.priority = <<>>, !.sorted = FALSE].priority = <<>>
    <3>1. PICK v : v = [w EXCEPT !.page = 0]
      OBVIOUS
    <3>2. PICK x : x = [v EXCEPT !.priority = <<>>]
      OBVIOUS
    <3>3. PICK y : y = [x EXCEPT !.sorted = FALSE]
      OBVIOUS
    <3>4. IsWindow(v)
      BY <3>1 DEF IsWindow
    <3>5. IsWindow(x) /\ x.priority = <<>>
      BY <3>2, <3>4 DEF IsWindow
    <3>6. IsWindow(y) /\ y.priority = <<>>
      BY <3>3, <3>5 DEF IsWindow
    <3>7. y = [w EXCEPT !.page = 0, !.priority = <<>>, !.sorted = FALSE]
      BY <3>1, <3>2, <3>3
    <3> QED
      BY <3>6, <3>7
  <2> QED
    BY <1>1, <2>1, LoadKeepsOrder DEF apply_sort_data
<1>2. CASE order # <<>>
  BY <1>2 DEF apply_sort_data, IsWindow
<1> QED
  BY <1>1, <1>2

-----------------------------------------------------------------------------
(* The GUI thread prepares a run *)

\* The click on Generate: from here on the last listener is only waited for.
LEMMA ClickGenerateStep ==
    ASSUME Inv, ClickGenerate
    PROVE BrowsingInv' /\ UNCHANGED storeVars
<1> USE DEF ClickGenerate, Clicks, Idle
<1>1. \A r \in Runs : Live(r)' <=> Live(r)
  BY DEF Live
<1>2. BrowsingType' /\ OrdersInv'
  BY DEF Inv, BrowsingInv, BrowsingType, OrdersInv, IsOrder, IsWindow
<1>3. FlowInv'
  BY <1>1 DEF Inv, BrowsingInv, BrowsingType, FlowInv, Preparing
<1>4. UncountedInv'
  BY <1>1 DEF Inv, BrowsingInv, UncountedInv, NobodyInserts, NothingUncounted, EndOf
<1>5. FoundInv'
  BY <1>1 DEF Inv, BrowsingInv, FoundInv, HasTaken
<1> QED
  BY <1>2, <1>3, <1>4, <1>5 DEF BrowsingInv

\* While nobody listens nothing is expected of the tables.
LEMMA NobodyListens ==
    ASSUME \A r \in Runs : ~Live(r)'
    PROVE UncountedInv' /\ FoundInv'
BY DEF UncountedInv, FoundInv

\* The tables are cleared when the last listener is gone.
LEMMA StopOldRunStep ==
    ASSUME Inv, StopOldRun
    PROVE BrowsingInv' /\ ClearStep
<1> USE DEF StopOldRun, ClearRows
<1>1. \A r \in Runs : ~Live(r) /\ ~Live(r)' /\ insert[r].pc = "idle"
  BY DEF Live, Inv, BrowsingInv, FlowInv
<1>2. clearing = "no" /\ run < NumRuns /\ NobodyInserts
  BY <1>1, WritersAreRuns DEF Inv, BrowsingInv, FlowInv, NobodyInserts
<1>3. BrowsingType' /\ OrdersInv'
  BY DEF Inv, BrowsingInv, BrowsingType, OrdersInv, IsOrder, IsWindow, FirstWindow
<1>4. FlowInv'
  BY <1>1, <1>2 DEF Inv, BrowsingInv, FlowInv, Preparing
<1> QED
  BY <1>1, <1>2, <1>3, <1>4, NobodyListens DEF BrowsingInv, ClearStep

\* The steps of the clear.
LEMMA ClearingStep ==
    ASSUME Inv, ForgetSignatures \/ ForgetCount \/ ClearAgain
    PROVE BrowsingInv' /\ ClearStep
<1>1. Preparing /\ run < NumRuns /\ worker = 0
      /\ \A r \in Runs : ~Live(r) /\ insert[r].pc = "idle"
  BY DEF Inv, BrowsingInv, FlowInv, Preparing, ForgetSignatures, ForgetCount, ClearAgain,
         RepositoryInv, RepositoryType
<1>2. NobodyInserts /\ \A r \in Runs : ~Live(r)'
  BY <1>1, WritersAreRuns DEF NobodyInserts, Live, ForgetSignatures, ForgetCount, ClearAgain
<1>3. BrowsingType' /\ OrdersInv'
  BY DEF Inv, BrowsingInv, BrowsingType, OrdersInv, IsOrder, IsWindow, ForgetSignatures, ForgetCount,
         ClearAgain
<1>4. CASE ForgetSignatures
  <2>1. FlowInv'
    BY <1>1, <1>2, <1>4 DEF Inv, BrowsingInv, FlowInv, Preparing, ForgetSignatures, ClearSignatures
  <2> QED
    BY <1>2, <1>3, <1>4, <2>1, NobodyListens DEF BrowsingInv, ClearStep, ForgetSignatures
<1>5. CASE ForgetCount
  <2>1. batches = {} /\ gui \in {"clearing", "clearing_again"}
    BY <1>5 DEF ForgetCount, Inv, BrowsingInv, FlowInv, RepositoryInv
  <2>2. FlowInv'
    BY <1>1, <1>2, <1>5, <2>1 DEF Inv, BrowsingInv, FlowInv, Preparing, ForgetCount, ClearCount
  <2> QED
    BY <1>2, <1>3, <1>5, <2>2, NobodyListens DEF BrowsingInv, ClearStep, ForgetCount
<1>6. CASE ClearAgain
  <2>1. FlowInv'
    BY <1>1, <1>2, <1>6 DEF Inv, BrowsingInv, FlowInv, Preparing, ClearAgain, ClearRows
  <2> QED
    BY <1>2, <1>3, <1>6, <2>1, NobodyListens DEF BrowsingInv, ClearStep, ClearAgain
<1> QED
  BY <1>4, <1>5, <1>6

\* A run starts with nothing stored and all of its finding ahead.
LEMMA StartRunStep ==
    ASSUME Inv, StartRun
    PROVE BrowsingInv' /\ UNCHANGED storeVars
<1> USE DEF StartRun
<1>1. Preparing /\ run \in Nat /\ run < NumRuns /\ batches = {} /\ count = 0 /\ clearing = "no"
      /\ \A r \in Runs : ~Live(r) /\ insert[r].pc = "idle"
  BY WritersAreRuns DEF Inv, BrowsingInv, BrowsingType, FlowInv, Preparing
<1>2. run' \in Runs /\ run' = run + 1 /\ worker' = run'
  BY <1>1, WritersAreRuns DEF Runs
<1>3. \A r \in Runs : Live(r)' <=> r = run'
  BY <1>1, <1>2 DEF Live, Inv, BrowsingInv, BrowsingType
<1>4. BrowsingType' /\ OrdersInv'
  BY <1>2 DEF Inv, BrowsingInv, BrowsingType, OrdersInv, IsOrder, IsWindow, Runs
<1>5. FlowInv'
  BY <1>1, <1>2, <1>3 DEF FlowInv, Preparing
<1>6. UncountedInv'
  BY <1>1 DEF UncountedInv, NothingUncounted
<1>7. FoundInv'
  <2>1. PICK found \in Findings : todo' = found
    OBVIOUS
  <2>2. found \in Seq(Rows)
    BY BrowsingAssumption
  <2>3. PICK total \in [0 .. Len(found) -> 0 .. MaxCount] :
            /\ total[0] = 0
            /\ \A i \in 1 .. Len(found) : total[i] = total[i - 1] + Len(found[i])
    BY BrowsingAssumption
  <2>4. IsFinding(found, total) /\ 0 \in 0 .. Len(found)
    BY <2>2, <2>3 DEF IsFinding
  <2>5. found = [i \in 1 .. Len(found) - 0 |-> found[0 + i]]
    BY <2>2
  <2>6. insert'[run'].pc = "idle" /\ count' = total[0]
    BY <1>1, <1>2, <2>3
  <2>7. HasTaken(run, found, total, 0)'
    BY <2>1, <2>5, <2>6 DEF HasTaken
  <2> QED
    BY <1>3, <2>4, <2>7 DEF FoundInv
<1> QED
  BY <1>4, <1>5, <1>6, <1>7 DEF BrowsingInv

\* The signals are connected, or the run is refused.
LEMMA ConnectStep ==
    ASSUME Inv, Connect \/ Refuse
    PROVE BrowsingInv' /\ UNCHANGED storeVars
<1>1. \A r \in Runs : Live(r)' <=> Live(r)
  BY DEF Live, Connect, Refuse
<1>2. BrowsingType' /\ OrdersInv'
  BY WritersAreRuns DEF Inv, BrowsingInv, BrowsingType, FlowInv, Preparing, OrdersInv, IsOrder, IsWindow,
     Connect, Refuse
<1>3. FlowInv'
  BY <1>1 DEF Inv, BrowsingInv, BrowsingType, FlowInv, Preparing, Connect, Refuse
<1>4. UncountedInv'
  BY <1>1 DEF Inv, BrowsingInv, UncountedInv, NobodyInserts, NothingUncounted, EndOf, Connect, Refuse
<1>5. FoundInv'
  <2>1. UNCHANGED <<insert, count, todo>>
    BY DEF Connect, Refuse
  <2> QED
    BY <1>1, <2>1 DEF Inv, BrowsingInv, FoundInv, HasTaken
<1> QED
  BY <1>2, <1>3, <1>4, <1>5 DEF BrowsingInv, Connect, Refuse

-----------------------------------------------------------------------------
(* The GUI thread delivers signals and follows the user *)

\* The end of a run on the screens.
LEMMA SearchFinishedKeeps ==
    ASSUME BrowsingType, OrdersInv, SearchFinished
    PROVE /\ sorts' = [i \in SortIds |-> sorts'[i]] /\ IsWindow(win)' /\ IsOrder(win.priority)'
          /\ \A i \in SortIds : /\ IsOrder(sorts'[i].order)
                                /\ sorts'[i].pc \in {"index", "sign"} => sorts'[i].order \in Orders
<1>1. IsWindow(win) /\ IsOrder(win.priority)
  BY DEF BrowsingType, OrdersInv
<1>2. UNCHANGED pagingVars \/ Enter(win, pag) \/ ResetToFirst(win, pag)
  BY DEF SearchFinished, NavigateToOutput
<1>3. IsWindow(win)' /\ IsOrder(win.priority)'
  <2>1. CASE UNCHANGED pagingVars
    BY <1>1, <2>1 DEF IsWindow, IsOrder
  <2>2. CASE Enter(win, pag) \/ ResetToFirst(win, pag)
    BY <1>1, <2>2, ResetKeepsOrder DEF IsOrder
  <2> QED
    BY <1>2, <2>1, <2>2
<1>4. CASE StartSort(win.priority)
  BY <1>1, <1>3, <1>4, SortStarts
<1>5. CASE UNCHANGED sortVars
  BY <1>3, <1>5 DEF BrowsingType, OrdersInv
<1> QED
  BY <1>4, <1>5 DEF SearchFinished

\* What is left of the signals is what was posted.
LEMMA DeliverKeeps ==
    ASSUME BrowsingType, OrdersInv, NEW kind, Deliver(kind)
    PROVE /\ events' \in Seq(ToSet(events')) /\ \A j \in DOMAIN events' : IsOrder(events'[j].order)
          /\ IsOrder(Head(events).order)
<1>1. events \in Seq(ToSet(events)) /\ events # <<>> /\ events' = Tail(events)
  BY DEF BrowsingType, Deliver
<1>2. /\ Tail(events) \in Seq(ToSet(Tail(events)))
      /\ Len(events) \in Nat \ {0} /\ DOMAIN events = 1 .. Len(events)
      /\ DOMAIN Tail(events) = 1 .. Len(events) - 1
      /\ \A j \in 1 .. Len(events) - 1 : Tail(events)[j] = events[j + 1]
      /\ Head(events) = events[1]
  BY <1>1, DeliveredIsFirst
<1> QED
  BY <1>1, <1>2 DEF OrdersInv

\* A signal is delivered.
LEMMA DeliverStep ==
    ASSUME Inv, DeliverBatch \/ DeliverFinished \/ DeliverError \/ DeliverSorted
    PROVE BrowsingInv' /\ [RepositoryNext]_storeVars
<1>1. BrowsingType /\ OrdersInv /\ IsWindow(win) /\ IsOrder(win.priority)
  BY DEF Inv, BrowsingInv, BrowsingType, OrdersInv
<1>2. UNCHANGED <<repositoryVars, clearing, gui, run, listener, todo, worker>>
  BY DEF DeliverBatch, DeliverFinished, DeliverError, DeliverSorted
<1>3. /\ events' \in Seq(ToSet(events')) /\ \A j \in DOMAIN events' : IsOrder(events'[j].order)
      /\ IsOrder(Head(events).order)
  BY <1>1, DeliverKeeps DEF DeliverBatch, DeliverFinished, DeliverError, DeliverSorted
<1>4. /\ sorts' = [i \in SortIds |-> sorts'[i]] /\ IsWindow(win)' /\ IsOrder(win.priority)'
      /\ \A i \in SortIds : /\ IsOrder(sorts'[i].order)
                            /\ sorts'[i].pc \in {"index", "sign"} => sorts'[i].order \in Orders
  <2>1. CASE DeliverFinished
    BY <1>1, <2>1, SearchFinishedKeeps DEF DeliverFinished
  <2>2. CASE DeliverBatch
    <3>1. UNCHANGED sorts /\ (win' = win \/ Enter(win, pag))
      BY <2>2 DEF DeliverBatch
    <3>2. IsWindow(win)' /\ IsOrder(win.priority)'
      BY <1>1, <3>1, ResetKeepsOrder DEF IsWindow, IsOrder
    <3> QED
      BY <1>1, <3>1, <3>2 DEF BrowsingType, OrdersInv
  <2>3. CASE DeliverError
    BY <1>1, <2>3 DEF DeliverError, BrowsingType, OrdersInv, IsWindow, IsOrder
  <2>4. CASE DeliverSorted
    <3> DEFINE w == apply_sort_data(win, Head(events).order, Head(events).ids)
    <3>1. UNCHANGED sorts /\ (win' = win \/ ResetToFirst(w, pag))
      BY <2>4 DEF DeliverSorted
    <3>2. IsWindow(w) /\ w.priority = Head(events).order
      BY <1>1, SortedPageIsWindow
    <3>3. IsWindow(win)' /\ IsOrder(win.priority)'
      <4>1. CASE win' = win
        BY <1>1, <4>1 DEF IsWindow, IsOrder
      <4>2. CASE ResetToFirst(w, pag)
        <5> HIDE DEF w
        <5> QED
          BY <1>3, <3>2, <4>2, ResetKeepsOrder DEF IsOrder
      <4> QED
        BY <3>1, <4>1, <4>2
    <3> QED
      BY <1>1, <3>1, <3>3 DEF BrowsingType, OrdersInv
  <2> QED
    BY <2>1, <2>2, <2>3, <2>4
<1>5. OrdersInv'
  BY <1>3, <1>4 DEF OrdersInv
<1> QED
  BY <1>2, <1>3, <1>4, <1>5, SortSideStays

\* A click on the output screen or in the navigation.
LEMMA UserStep ==
    ASSUME Inv,
           \/ \E order \in Orders : ApplySort(order)
           \/ \E page \in 0 .. MaxCount : Page(page)
           \/ Move \/ OpenClusters \/ ViewResults \/ GoBack
    PROVE BrowsingInv' /\ [RepositoryNext]_storeVars
<1>1. BrowsingType /\ OrdersInv /\ IsWindow(win) /\ IsOrder(win.priority)
  BY DEF Inv, BrowsingInv, BrowsingType, OrdersInv
<1>2. UNCHANGED <<batches, scored, count, insert, clearing, gui, run, listener, todo, worker, events>>
  BY DEF ApplySort, Page, Move, OpenClusters, ViewResults, GoBack
<1>3. /\ events' \in Seq(ToSet(events')) /\ \A j \in DOMAIN events' : IsOrder(events'[j].order)
  BY <1>1, <1>2 DEF BrowsingType, OrdersInv
<1>4. UNCHANGED indexVars \/ EnsureSortIndexes(win.priority)
  BY DEF ApplySort, Page, Move, OpenClusters, ViewResults, GoBack
<1>5. IsWindow(win)' /\ IsOrder(win.priority)'
  <2>1. \/ UNCHANGED win \/ Enter(win, pag)
        \/ \E p : ShowCurrent(win, p)
        \/ \E page : ResetToFirst(load_page(win, page), pag)
    BY DEF ApplySort, Page, Move, OpenClusters, ViewResults, GoBack, LoadPage, MoveTo, MovePeriod
  <2>2. CASE UNCHANGED win
    BY <1>1, <2>2 DEF IsWindow, IsOrder
  <2>3. CASE Enter(win, pag)
    BY <1>1, <2>3, ResetKeepsOrder DEF IsOrder
  <2>4. ASSUME NEW p, ShowCurrent(win, p)
        PROVE IsWindow(win)' /\ IsOrder(win.priority)'
    BY <1>1, <2>4, ShowKeepsOrder DEF IsOrder
  <2>5. ASSUME NEW page, ResetToFirst(load_page(win, page), pag)
        PROVE IsWindow(win)' /\ IsOrder(win.priority)'
    <3>1. IsWindow([win EXCEPT !.page = page]) /\ [win EXCEPT !.page = page].priority = win.priority
      BY <1>1 DEF IsWindow
    <3>2. IsWindow(load_page(win, page)) /\ load_page(win, page).priority = win.priority
      BY <3>1, LoadKeepsOrder DEF load_page
    <3> QED
      BY <1>1, <2>5, <3>2, ResetKeepsOrder DEF IsOrder
  <2> QED
    BY <2>1, <2>2, <2>3, <2>4, <2>5
<1>6. /\ sorts' = [i \in SortIds |-> sorts'[i]]
      /\ \A i \in SortIds : /\ IsOrder(sorts'[i].order)
                            /\ sorts'[i].pc \in {"index", "sign"} => sorts'[i].order \in Orders
  <2>1. UNCHANGED sorts \/ \E order \in Orders : StartSort(order)
    BY DEF ApplySort, Page, Move, OpenClusters, ViewResults, GoBack, LeaveOutput, StopSort
  <2>2. CASE UNCHANGED sorts
    BY <1>1, <2>2 DEF BrowsingType, OrdersInv
  <2>3. ASSUME NEW order \in Orders, StartSort(order)
        PROVE /\ sorts' = [i \in SortIds |-> sorts'[i]]
              /\ \A i \in SortIds : /\ IsOrder(sorts'[i].order)
                                    /\ sorts'[i].pc \in {"index", "sign"} => sorts'[i].order \in Orders
    BY <1>1, <2>3, SortStarts DEF IsOrder
  <2> QED
    BY <2>1, <2>2, <2>3
<1>7. OrdersInv'
  BY <1>3, <1>5, <1>6 DEF OrdersInv
<1> QED
  BY <1>1, <1>2, <1>3, <1>4, <1>5, <1>6, <1>7, SortSideStays

\* The click on Cancel: what the listener has yet to do is up to it.
LEMMA ClickCancelStep ==
    ASSUME Inv, ClickCancel
    PROVE BrowsingInv' /\ UNCHANGED storeVars
<1>1. BrowsingType /\ OrdersInv /\ IsWindow(win) /\ IsOrder(win.priority)
  BY DEF Inv, BrowsingInv, BrowsingType, OrdersInv
<1>2. UNCHANGED <<repositoryVars, clearing, gui, run, todo, worker, events>>
  BY DEF ClickCancel
<1>3. /\ sorts' = [i \in SortIds |-> sorts'[i]] /\ IsWindow(win)' /\ IsOrder(win.priority)'
      /\ \A i \in SortIds : /\ IsOrder(sorts'[i].order)
                            /\ sorts'[i].pc \in {"index", "sign"} => sorts'[i].order \in Orders
  <2>1. CASE SearchFinished
    BY <1>1, <2>1, SearchFinishedKeeps
  <2>2. CASE UNCHANGED <<pagingVars, sortVars>>
    BY <1>1, <2>2 DEF BrowsingType, OrdersInv, IsWindow, IsOrder
  <2> QED
    BY <2>1, <2>2 DEF ClickCancel
<1>4. listener' \in [Runs -> {"none", "running", "cancelled", "ended"}]
      /\ \A r \in Runs : Live(r)' <=> Live(r)
  BY <1>1 DEF ClickCancel, BrowsingType, Live
<1>5. BrowsingType' /\ OrdersInv'
  BY <1>1, <1>2, <1>3, <1>4 DEF BrowsingType, OrdersInv
<1>6. FlowInv'
  BY <1>2, <1>4 DEF Inv, BrowsingInv, FlowInv, Preparing
<1>7. UncountedInv'
  BY <1>2, <1>4 DEF Inv, BrowsingInv, UncountedInv, NobodyInserts, NothingUncounted, EndOf
<1>8. FoundInv'
  BY <1>2, <1>4 DEF Inv, BrowsingInv, FoundInv, HasTaken
<1> QED
  BY <1>2, <1>5, <1>6, <1>7, <1>8 DEF BrowsingInv

-----------------------------------------------------------------------------
(* The repository is used as it is meant to be *)

\* Before the first run everything is empty.
LEMMA BrowsingInit == Init => BrowsingInv /\ RepositoryInit
<1> SUFFICES ASSUME Init
             PROVE BrowsingInv /\ RepositoryInit
  OBVIOUS
<1> USE DEF Init
<1>1. \A r \in Runs : ~Live(r) /\ insert[r].pc = "idle"
  BY WritersAreRuns DEF Live, InitRepository, NoInsert
<1>2. BrowsingType
  BY WritersAreRuns DEF BrowsingType, IsWindow, FirstWindow, NoSort, ToSet
<1>3. FlowInv /\ UncountedInv /\ FoundInv
  BY <1>1 DEF FlowInv, Preparing, UncountedInv, FoundInv
<1>4. OrdersInv
  BY DEF OrdersInv, IsOrder, FirstWindow, NoSort
<1> QED
  BY <1>2, <1>3, <1>4 DEF BrowsingInv, RepositoryInit

\* Every step keeps the invariant and is a step of the repository, or none of its business.
LEMMA BrowsingStep ==
    Inv /\ [Next]_browsingVars => Inv' /\ [RepositoryNext]_storeVars
<1> SUFFICES ASSUME Inv, [Next]_browsingVars
             PROVE BrowsingInv' /\ [RepositoryNext]_storeVars
  BY NextInv DEF Inv
<1>1. ASSUME NEW r \in Runs, Listen(r)
      PROVE BrowsingInv' /\ [RepositoryNext]_storeVars
  <2>1. ASSUME BrowsingInv' /\ InsertStep(r) /\ UNCHANGED clearing
        PROVE BrowsingInv' /\ [RepositoryNext]_storeVars
    BY <2>1, WritersAreRuns DEF RepositoryNext
  <2> QED
    BY <1>1, <2>1, BeginBatchStep, SaveBatchStep, AnnounceBatchStep, BatchFailsStep, ListenerEndsStep
       DEF Listen
<1>2. ASSUME NEW i \in SortIds, Sort(i)
      PROVE BrowsingInv' /\ [RepositoryNext]_storeVars
  BY <1>2, SortStep
<1>3. CASE Generate
  <2>1. CASE StopOldRun
    BY <2>1, StopOldRunStep DEF RepositoryNext
  <2>2. CASE ForgetSignatures \/ ForgetCount \/ ClearAgain
    BY <2>2, ClearingStep DEF RepositoryNext
  <2>3. CASE ClickGenerate \/ StartRun \/ Connect \/ Refuse
    BY <2>3, ClickGenerateStep, StartRunStep, ConnectStep
  <2> QED
    BY <1>3, <2>1, <2>2, <2>3 DEF Generate
<1>4. CASE ClickCancel
  BY <1>4, ClickCancelStep
<1>5. CASE DeliverBatch \/ DeliverFinished \/ DeliverError \/ DeliverSorted
  BY <1>5, DeliverStep
<1>6. CASE \/ \E order \in Orders : ApplySort(order)
           \/ \E page \in 0 .. MaxCount : Page(page)
           \/ Move \/ OpenClusters \/ ViewResults \/ GoBack
  BY <1>6, UserStep
<1>7. CASE UNCHANGED browsingVars
  <2>1. FlowInv' /\ UncountedInv' /\ FoundInv' /\ BrowsingType'
    BY <1>7, FlowStays DEF Inv, BrowsingInv, BrowsingType, IsWindow
  <2>2. OrdersInv'
    BY <1>7 DEF Inv, BrowsingInv, OrdersInv, IsOrder
  <2> QED
    BY <1>7, <2>1, <2>2 DEF BrowsingInv
<1> QED
  BY <1>1, <1>2, <1>3, <1>4, <1>5, <1>6, <1>7 DEF Next

\* One listener at a time, that inserts what it found and nothing else.
THEOREM BrowsingInvariant == Spec => []Inv
<1>1. Init => Inv
  BY BrowsingInit, InitInv DEF Inv
<1> QED
  BY <1>1, BrowsingStep, PTL DEF Spec

\* The threads use the repository the way its comment asks for: one writer, no clear during
\* an insert, and no insert behind rows that were never counted.
THEOREM RepositoryIsUsedWell == Spec => RepositorySteps
BY BrowsingStep, BrowsingInvariant, PTL DEF Spec, RepositorySteps

\* So every result that is counted is stored once, while it is browsed, sorted and cleared.
THEOREM CountedStoredWhileBrowsing == Spec => []CountedAreStored
<1>1. Inv => CountedAreStored
  BY DEF Inv, RepositoryInv
<1> QED
  BY <1>1, BrowsingInvariant, PTL

\* And whoever browses sees a list that grows batch by batch and is cleared as a whole.
THEOREM BrowsingImplementsStore == Spec => ImplementsStore
<1>1. Init => RepositoryInit
  BY BrowsingInit
<1>2. Spec => RepositorySpec
  BY <1>1, RepositoryIsUsedWell, PTL DEF Spec, RepositorySpec, RepositorySteps
<1> QED
  BY <1>2, RepositoryImplementsStore

-----------------------------------------------------------------------------
(* The way to the results *)

\* Where the GUI thread is when signals reach it.
Reacts == gui \in {"idle", "connecting"}

\* Whoever navigated made the results visible.
VisibleInv ==
    /\ gen = [running |-> gen.running, navigated |-> gen.navigated, visible |-> gen.visible]
    /\ gen.navigated => gen.visible
    /\ earlyNav => gen.visible \/ gui = "stopping"

\* Results that are stored are visible, or a signal is on its way that makes them so.
AnnouncedInv ==
    Reacts /\ count > 0 /\ fault # "unheard" =>
        gen.visible \/ \E j \in DOMAIN events : events[j].kind = "batch"

WayInv == VisibleInv /\ AnnouncedInv

\* Where the screens do not change, a signal more does no harm.
LEMMA WayStays ==
    ASSUME WayInv, UNCHANGED <<gui, count, gen, earlyNav>>, fault = "unheard" => fault' = "unheard",
           \A j \in DOMAIN events : j \in DOMAIN events' /\ events'[j] = events[j]
    PROVE WayInv'
<1>1. VisibleInv'
  BY DEF WayInv, VisibleInv
<1>2. AnnouncedInv'
  BY DEF WayInv, AnnouncedInv, Reacts
<1> QED
  BY <1>1, <1>2 DEF WayInv

\* A listener announces what it counts, or nobody hears it.
LEMMA ListenKeepsWay ==
    ASSUME Inv, WayInv, NEW r \in Runs, Listen(r)
    PROVE WayInv'
<1>1. BrowsingType
  BY DEF Inv, BrowsingInv
<1>2. CASE BeginBatch(r) \/ SaveBatch(r)
  BY <1>2, WayStays DEF BeginBatch, SaveBatch, ReadOffset, CommitInsert
<1>3. CASE BatchFails(r) \/ ListenerEnds(r)
  <2>1. PICK kind : Post(Event(kind, r))
    BY <1>3 DEF BatchFails, ListenerEnds
  <2>2. \A j \in DOMAIN events : j \in DOMAIN events' /\ events'[j] = events[j]
    BY <1>1, <2>1, PostPosts
  <2>3. fault = "unheard" => fault' = "unheard"
    BY <1>3 DEF BatchFails, ListenerEnds, Notes
  <2>4. UNCHANGED <<gui, count, gen, earlyNav>>
    BY <1>3 DEF BatchFails, ListenerEnds, FailInsert
  <2> QED
    BY <2>2, <2>3, <2>4, WayStays
<1>4. CASE AnnounceBatch(r)
  <2>1. Live(r) /\ insert[r].pc # "idle"
    BY <1>4, InsertingLives DEF AnnounceBatch, CountInsert
  <2>2. gui = "stopping" \/ worker = r
    BY <2>1, LiveAlone
  <2>3. UNCHANGED <<gui, gen, earlyNav, worker>> /\ Post(Event("batch", r)) /\ Notes(r, fault)
    BY <1>4 DEF AnnounceBatch
  <2>4. VisibleInv'
    BY <2>3 DEF WayInv, VisibleInv
  <2>5. CASE gui = "stopping"
    BY <2>3, <2>4, <2>5 DEF WayInv, AnnouncedInv, Reacts
  <2>6. CASE worker = r /\ gui = "connecting"
    BY <2>3, <2>4, <2>6 DEF WayInv, AnnouncedInv, Notes
  <2>7. CASE worker = r /\ gui # "connecting"
    <3>1. \E j \in DOMAIN events' : events'[j] = Event("batch", r)
      BY <1>1, <2>3, <2>7, PostPosts DEF Heard, Event
    <3> QED
      BY <2>4, <3>1 DEF WayInv, AnnouncedInv, Event
  <2> QED
    BY <2>2, <2>5, <2>6, <2>7
<1> QED
  BY <1>2, <1>3, <1>4 DEF Listen

\* The sorts have nothing to do with it.
LEMMA SortKeepsWay ==
    ASSUME Inv, WayInv, NEW i \in SortIds, Sort(i)
    PROVE WayInv'
<1>1. UNCHANGED <<gui, count, gen, earlyNav>>
  BY DEF Sort, CheckIndex, IndexSort, ReadSorted, EmitSorted, SortFails
<1>2. fault = "unheard" => fault' = "unheard"
  BY DEF Sort, CheckIndex, IndexSort, ReadSorted, EmitSorted, SortFails
<1>3. events' = events \/ \E e : events' = Append(events, e)
  BY DEF Sort, CheckIndex, IndexSort, ReadSorted, EmitSorted, SortFails
<1>4. ASSUME NEW e, events' = Append(events, e)
      PROVE \A j \in DOMAIN events : j \in DOMAIN events' /\ events'[j] = events[j]
  BY <1>4, PostedIsLast DEF Inv, BrowsingInv, BrowsingType
<1> QED
  BY <1>1, <1>2, <1>3, <1>4, WayStays

\* A run starts with nothing stored and nothing announced.
LEMMA GenerateKeepsWay ==
    ASSUME Inv, WayInv, Generate
    PROVE WayInv'
<1>1. CASE ClickGenerate
  BY <1>1 DEF ClickGenerate, WayInv, VisibleInv, AnnouncedInv, Reacts
<1>2. CASE StopOldRun
  BY <1>2 DEF StopOldRun, WayInv, VisibleInv, AnnouncedInv, Reacts
<1>3. CASE ForgetSignatures \/ ForgetCount \/ ClearAgain
  <2>1. ~Reacts' /\ UNCHANGED <<gen, earlyNav>> /\ gui # "stopping"
    BY <1>3 DEF ForgetSignatures, ForgetCount, ClearAgain, Reacts, Inv, BrowsingInv, FlowInv, RepositoryInv,
       RepositoryType
  <2> QED
    BY <2>1 DEF WayInv, VisibleInv, AnnouncedInv
<1>4. CASE StartRun \/ Refuse
  <2>1. count' = 0 /\ earlyNav' = earlyNav /\ gui = "starting"
        /\ (gen' = gen \/ gen' = [gen EXCEPT !.running = FALSE])
    BY <1>4 DEF StartRun, Refuse, Inv, BrowsingInv, FlowInv
  <2> QED
    BY <2>1 DEF WayInv, VisibleInv, AnnouncedInv
<1>5. CASE Connect
  BY <1>5 DEF Connect, WayInv, VisibleInv, AnnouncedInv, Reacts
<1> QED
  BY <1>1, <1>2, <1>3, <1>4, <1>5 DEF Generate

\* The end of a run opens the way to what is stored.
LEMMA SearchFinishedShows ==
    ASSUME VisibleInv, SearchFinished
    PROVE /\ gen' = [running |-> FALSE, navigated |-> gen'.navigated, visible |-> gen'.visible]
          /\ gen'.navigated => gen'.visible
          /\ gen.visible => gen'.visible
BY DEF VisibleInv, SearchFinished, NavigateToOutput

\* What is delivered makes what is stored visible, if it was announced.
LEMMA DeliverKeepsWay ==
    ASSUME Inv, WayInv, DeliverBatch \/ DeliverFinished \/ DeliverError \/ DeliverSorted
    PROVE WayInv'
<1>1. PICK kind : Deliver(kind)
  BY DEF DeliverBatch, DeliverFinished, DeliverError, DeliverSorted
<1>2. events \in Seq(ToSet(events)) /\ events # <<>> /\ events' = Tail(events) /\ gui = "idle"
  BY <1>1 DEF Inv, BrowsingInv, BrowsingType, Deliver, Idle
<1>3. /\ Len(events) \in Nat \ {0} /\ DOMAIN events = 1 .. Len(events)
      /\ DOMAIN Tail(events) = 1 .. Len(events) - 1
      /\ \A j \in 1 .. Len(events) - 1 : Tail(events)[j] = events[j + 1]
      /\ Head(events) = events[1]
  BY <1>2, DeliveredIsFirst
<1>4. UNCHANGED <<count, gui, fault>>
  BY DEF DeliverBatch, DeliverFinished, DeliverError, DeliverSorted
<1>5. CASE DeliverBatch
  <2>1. VisibleInv' /\ (count > 0 => gen'.visible)
    BY <1>2, <1>5 DEF DeliverBatch, WayInv, VisibleInv
  <2> QED
    BY <1>4, <2>1 DEF WayInv, AnnouncedInv
<1>6. CASE DeliverFinished \/ DeliverError \/ DeliverSorted
  <2>1. Head(events).kind # "batch"
    BY <1>6 DEF DeliverFinished, DeliverError, DeliverSorted, Deliver
  <2>2. (\E j \in DOMAIN events : events[j].kind = "batch")
            => \E j \in DOMAIN events' : events'[j].kind = "batch"
    <3> SUFFICES ASSUME NEW j \in DOMAIN events, events[j].kind = "batch"
                 PROVE \E k \in DOMAIN events' : events'[k].kind = "batch"
      OBVIOUS
    <3>1. j - 1 \in 1 .. Len(events) - 1 /\ (j - 1) + 1 = j
      BY <1>3, <2>1
    <3> QED
      BY <1>2, <1>3, <3>1
  <2>3. VisibleInv' /\ (gen.visible => gen'.visible)
    <3>1. CASE DeliverFinished
      BY <3>1, SearchFinishedShows DEF DeliverFinished, WayInv, VisibleInv
    <3>2. CASE DeliverError \/ DeliverSorted
      BY <3>2 DEF DeliverError, DeliverSorted, WayInv, VisibleInv
    <3> QED
      BY <1>6, <3>1, <3>2
  <2> QED
    BY <1>4, <2>2, <2>3 DEF WayInv, AnnouncedInv, Reacts
<1> QED
  BY <1>5, <1>6

\* What the user does on the screens takes no way away.
LEMMA UserKeepsWay ==
    ASSUME Inv, WayInv,
           \/ \E order \in Orders : ApplySort(order)
           \/ \E page \in 0 .. MaxCount : Page(page)
           \/ Move \/ OpenClusters \/ ViewResults \/ GoBack
    PROVE WayInv'
<1>1. UNCHANGED <<gui, count, gen, earlyNav, fault, events>>
  BY DEF ApplySort, Page, Move, OpenClusters, ViewResults, GoBack
<1> QED
  BY <1>1, WayStays

\* Nor does a cancel.
LEMMA CancelKeepsWay ==
    ASSUME Inv, WayInv, ClickCancel
    PROVE WayInv'
<1>1. UNCHANGED <<gui, count, earlyNav, fault, events>>
  BY DEF ClickCancel
<1>2. VisibleInv' /\ (gen.visible => gen'.visible)
  <2>1. CASE SearchFinished
    BY <1>1, <2>1, SearchFinishedShows DEF WayInv, VisibleInv
  <2>2. CASE gen' = [gen EXCEPT !.running = FALSE]
    BY <1>1, <2>2 DEF WayInv, VisibleInv
  <2> QED
    BY <2>1, <2>2 DEF ClickCancel
<1> QED
  BY <1>1, <1>2 DEF WayInv, AnnouncedInv, Reacts

\* Every step keeps the way to the results.
LEMMA WayStep == Inv /\ WayInv /\ [Next]_browsingVars => WayInv'
<1> SUFFICES ASSUME Inv, WayInv, [Next]_browsingVars
             PROVE WayInv'
  OBVIOUS
<1>1. CASE UNCHANGED browsingVars
  BY <1>1, WayStays
<1> QED
  BY <1>1, ListenKeepsWay, SortKeepsWay, GenerateKeepsWay, CancelKeepsWay, DeliverKeepsWay, UserKeepsWay
     DEF Next

\* Results that were saved can be looked at when everything has come to rest, whether the run
\* ended, was cancelled or failed, unless its signals were lost.
THEOREM SavedIsReachable == Spec => []ResultsReachable
<1>1. Init => WayInv
  BY DEF Init, InitRepository, WayInv, VisibleInv, AnnouncedInv
<1>2. WayInv => ResultsReachable
  BY DEF WayInv, AnnouncedInv, ResultsReachable, AtRest, Clicks, Idle, Reacts
<1> QED
  BY <1>1, <1>2, WayStep, BrowsingInvariant, PTL DEF Spec
=============================================================================
