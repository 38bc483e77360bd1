-------------------------- MODULE ScheduleRepository --------------------------
(***************************************************************************)
(* SQLiteScheduleRepository: the table of batches, the table of scores, the *)
(* lazily built sort indexes and the counter the GUI polls.  A lock guards *)
(* the connection, another one the counter, and what is read or written    *)
(* outside of them can fall between two steps of another thread: an insert *)
(* and a clear are several steps here.                                     *)
(*                                                                         *)
(* The writers are the listener threads of the runs, one per run.  A batch *)
(* is a sequence of schedules; its compression and its scores are left to  *)
(* the modules that read them.                                             *)
(***************************************************************************)
EXTENDS Naturals, Sequences, FiniteSets

CONSTANTS
    Writers,      \* threads that may insert: the listeners of the runs
    Schedules,    \* what a batch consists of
    Orders        \* sort orders that may get an index

VARIABLES
    batches,      \* table schedule_batches: set of [first, rows]
    scored,       \* table schedule_scores: the schedule scored under each gidx
    count,        \* _total_count
    insert,       \* per writer: [pc, first, rows] of the insert in progress
    indexes,      \* the idx_sort_ indexes that exist
    signatures    \* _sort_index_signatures

tables == <<batches, scored>>
indexVars == <<indexes, signatures>>
repositoryVars == <<batches, scored, count, insert, indexes, signatures>>

Empty == [g \in {} |-> g]
NoInsert == [pc |-> "idle", first |-> 0, rows |-> <<>>]
Batch(first, rows) == [first |-> first, rows |-> rows]

\* The offset after the batch.
EndOf(b) == b.first + Len(b.rows)
Covers(b, g) == b.first <= g /\ g < EndOf(b)

InitRepository ==
    /\ batches = {}
    /\ scored = Empty
    /\ count = 0
    /\ insert = [w \in Writers |-> NoInsert]
    /\ indexes = {}
    /\ signatures = {}

-----------------------------------------------------------------------------
(***************************************************************************)
(* insert_compressed_batch.                                                *)
(***************************************************************************)
\* The offset is read before the lock is taken.
ReadOffset(w, rows) ==
    /\ insert[w].pc = "idle"
    /\ insert' = [insert EXCEPT ![w] = [pc |-> "offset", first |-> count, rows |-> rows]]
    /\ UNCHANGED <<tables, count, indexVars>>

\* Mutant: the score rows are numbered from the counter, not from the offset.
ScoreRows_Shifted(first, rows) ==
    [g \in DOMAIN scored \cup first + 1 .. first + Len(rows) |->
        IF g > first /\ g <= first + Len(rows) THEN rows[g - first] ELSE scored[g]]

\* INSERT OR REPLACE.
ScoreRows(first, rows) ==
    [g \in DOMAIN scored \cup first .. (first + Len(rows) - 1) |->
        IF first <= g /\ g < first + Len(rows) THEN rows[g - first + 1] ELSE scored[g]]

\* Mutant: the counter moves with the commit and again after it.
CommitInsert_Counts(w) ==
    /\ insert[w].pc = "offset"
    /\ batches' = batches \cup {Batch(insert[w].first, insert[w].rows)}
    /\ scored' = ScoreRows(insert[w].first, insert[w].rows)
    /\ count' = count + 1
    /\ insert' = [insert EXCEPT ![w].pc = "committed"]
    /\ UNCHANGED indexVars

\* Both tables are written and committed under the lock.
CommitInsert(w) ==
    /\ insert[w].pc = "offset"
    /\ batches' = batches \cup {Batch(insert[w].first, insert[w].rows)}
    /\ scored' = ScoreRows(insert[w].first, insert[w].rows)
    /\ insert' = [insert EXCEPT ![w].pc = "committed"]
    /\ UNCHANGED <<count, indexVars>>

\* The counter moves under its own lock.
CountInsert(w) ==
    /\ insert[w].pc = "committed"
    /\ count' = count + Len(insert[w].rows)
    /\ insert' = [insert EXCEPT ![w] = NoInsert]
    /\ UNCHANGED <<tables, indexVars>>

\* The score rows raise after the batch row was inserted: nobody rolls back,
\* so the next commit of the connection keeps the batch.
FailInsert(w) ==
    /\ insert[w].pc = "offset"
    /\ batches' = batches \cup {Batch(insert[w].first, insert[w].rows)}
    /\ insert' = [insert EXCEPT ![w] = NoInsert]
    /\ UNCHANGED <<scored, count, indexVars>>

-----------------------------------------------------------------------------
(***************************************************************************)
(* clear: the rows and the indexes under the lock, then the signatures,    *)
(* then the counter.                                                       *)
(***************************************************************************)
ClearRows ==
    /\ batches' = {}
    /\ scored' = Empty
    /\ indexes' = {}
    /\ UNCHANGED <<count, insert, signatures>>

ClearSignatures ==
    /\ signatures' = {}
    /\ UNCHANGED <<tables, count, insert, indexes>>

ClearCount ==
    /\ count' = 0
    /\ UNCHANGED <<tables, insert, indexVars>>

(***************************************************************************)
(* ensure_sort_indexes: the index is built under the lock when no signature *)
(* says it is there; the signature is added after.                         *)
(***************************************************************************)
NeedsIndex(order) == order # <<>> /\ order \notin signatures

BuildIndex(order) ==
    /\ indexes' = indexes \cup {order}
    /\ UNCHANGED <<tables, count, insert, signatures>>

SignIndex(order) ==
    /\ signatures' = signatures \cup {order}
    /\ UNCHANGED <<tables, count, insert, indexes>>

\* The whole method in one step, as the GUI thread does it before it reads a sorted page.
EnsureSortIndexes(order) ==
    /\ indexes' = IF NeedsIndex(order) THEN indexes \cup {order} ELSE indexes
    /\ signatures' = IF order = <<>> THEN signatures ELSE signatures \cup {order}

-----------------------------------------------------------------------------
(***************************************************************************)
(* Reads.                                                                  *)
(***************************************************************************)
\* get_raw_by_ids, get_schedules_by_ids: the batches that may hold an id ...
BatchesOf(g) == {b \in batches : Covers(b, g)}

\* ... of which the first by offset answers.
HasRow(g) == BatchesOf(g) # {}
RowAt(g) ==
    LET b == CHOOSE b \in BatchesOf(g) : \A c \in BatchesOf(g) : b.first <= c.first
    IN b.rows[g - b.first + 1]

-----------------------------------------------------------------------------
(***************************************************************************)
(* The repository with its writers and the thread that clears it.  A clear *)
(* starts when no insert is going on and one writer inserts at a time:     *)
(* "this method is only ever called from the single background writer      *)
(* thread".  A run whose insert failed is over, so nobody inserts behind a *)
(* batch that was never counted.                                           *)
(***************************************************************************)
CONSTANTS BatchSizes, MaxCount
ASSUME RepositoryAssumption == BatchSizes \subseteq Nat \ {0} /\ MaxCount \in Nat

VARIABLE clearing   \* where clear() is: "no", "signatures", "count"

storeVars == <<repositoryVars, clearing>>

Rows == UNION {[1 .. n -> Schedules] : n \in BatchSizes}
NobodyInserts == \A w \in Writers : insert[w].pc = "idle"
NothingUncounted == \A b \in batches : EndOf(b) <= count

InsertStep(w) ==
    \/ /\ clearing = "no" /\ NobodyInserts /\ NothingUncounted
       /\ \E rows \in Rows : count + Len(rows) <= MaxCount /\ ReadOffset(w, rows)
    \/ CommitInsert(w) \/ CountInsert(w) \/ FailInsert(w)

ClearStep ==
    \/ clearing = "no" /\ NobodyInserts /\ ClearRows /\ clearing' = "signatures"
    \/ clearing = "signatures" /\ ClearSignatures /\ clearing' = "count"
    \/ clearing = "count" /\ ClearCount /\ clearing' = "no"

IndexStep(order) ==
    \/ BuildIndex(order) \/ SignIndex(order)
    \/ EnsureSortIndexes(order) /\ UNCHANGED <<tables, count, insert>>

RepositoryInit == InitRepository /\ clearing = "no"

RepositoryNext ==
    \/ \E w \in Writers : InsertStep(w) /\ UNCHANGED clearing
    \/ ClearStep
    \/ \E order \in Orders : IndexStep(order) /\ UNCHANGED clearing

RepositorySpec == RepositoryInit /\ [][RepositoryNext]_storeVars

-----------------------------------------------------------------------------
\* What the counter promises is there: every index below it lies in exactly
\* one batch, and the score table has the schedule the batch has.
CountedAreStored ==
    clearing = "no" =>
      \A g \in 0 .. count - 1 :
          /\ g \in DOMAIN scored
          /\ \E b \in batches :
                /\ Covers(b, g) /\ b.rows[g - b.first + 1] = scored[g]
                /\ \A c \in batches : Covers(c, g) => c = b

\* The list others see: what was counted, nothing while it is being cleared.
Store == INSTANCE ScheduleStore WITH
    size <- IF clearing = "no" THEN count ELSE 0,
    list <- IF clearing = "no" THEN [g \in 0 .. count - 1 |-> scored[g]] ELSE Empty

ImplementsStore == Store!Spec
=============================================================================
