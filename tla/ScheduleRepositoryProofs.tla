----------------------- MODULE ScheduleRepositoryProofs -----------------------
(***************************************************************************)
(* The repository keeps what it counts, for any number of writers, batches *)
(* and sort orders, although a batch is committed under one lock and       *)
(* counted under another; and it implements the list of ScheduleStore.     *)
(*                                                                         *)
(* The argument: while nobody clears, the offset a writer has read is      *)
(* still the counter, because it is the only writer; so the rows of its    *)
(* batch lie above everything that is counted until the counter takes them *)
(* in as one.                                                              *)
(***************************************************************************)
EXTENDS ScheduleRepository, TLAPS

-----------------------------------------------------------------------------
(* The inductive invariant *)

RepositoryType ==
    /\ count \in Nat
    /\ scored = [g \in DOMAIN scored |-> scored[g]] /\ DOMAIN scored \subseteq Nat
    /\ \A b \in batches : b.first \in Nat /\ b.rows \in Rows /\ b = Batch(b.first, b.rows)
    /\ insert \in [Writers -> [pc : {"idle", "offset", "committed"}, first : Nat,
                               rows : Rows \cup {<<>>}]]
    /\ clearing \in {"no", "signatures", "count"}

\* One writer inserts at a time, and nobody during a clear.
OneWriter ==
    \A w \in Writers : insert[w].pc # "idle" =>
        /\ clearing = "no" /\ insert[w].first = count /\ insert[w].rows \in Rows
        /\ \A v \in Writers : insert[v].pc # "idle" => v = w

\* What is being inserted lies above everything else, and the rest below the counter.
OffsetIsFree ==
    \A w \in Writers : insert[w].pc = "offset" => \A b \in batches : EndOf(b) <= count

CommittedIsNext ==
    \A w \in Writers : insert[w].pc = "committed" =>
        /\ Batch(count, insert[w].rows) \in batches
        /\ \A b \in batches : b # Batch(count, insert[w].rows) => EndOf(b) <= count
        /\ \A g \in count .. count + Len(insert[w].rows) - 1 :
              g \in DOMAIN scored /\ scored[g] = insert[w].rows[g - count + 1]

RepositoryInv ==
    /\ RepositoryType /\ OneWriter /\ OffsetIsFree /\ CommittedIsNext
    /\ clearing # "no" => batches = {}
    /\ CountedAreStored

-----------------------------------------------------------------------------
(* What a batch is *)

\* A batch of the table is a non-empty sequence of schedules.
LEMMA RowsType ==
    ASSUME NEW rows \in Rows
    PROVE /\ Len(rows) \in Nat \ {0}
          /\ \A i \in 1 .. Len(rows) : rows[i] \in Schedules
<1>1. PICK n \in BatchSizes : rows \in [1 .. n -> Schedules]
  BY DEF Rows
<1>2. n \in Nat \ {0}
  BY RepositoryAssumption
<1>3. Len(rows) = n
  BY <1>1, <1>2
<1> QED
  BY <1>1, <1>2, <1>3

\* Only an index below the counter lies in a batch that ends there.
LEMMA CoverBelow ==
    ASSUME NEW b, b.first \in Nat, b.rows \in Rows, NEW g \in Nat, Covers(b, g)
    PROVE /\ g < EndOf(b) /\ b.first <= g /\ EndOf(b) \in Nat
          /\ g - b.first + 1 \in 1 .. Len(b.rows)
<1>1. Len(b.rows) \in Nat
  BY RowsType
<1> QED
  BY <1>1 DEF Covers, EndOf

\* What is counted is a list of schedules.
LEMMA CountedAreSchedules ==
    ASSUME RepositoryInv, clearing = "no"
    PROVE \A g \in 0 .. count - 1 : scored[g] \in Schedules
<1> SUFFICES ASSUME NEW g \in 0 .. count - 1
             PROVE scored[g] \in Schedules
  OBVIOUS
<1>0. g \in Nat
  BY DEF RepositoryInv, RepositoryType
<1>1. PICK b \in batches : Covers(b, g) /\ b.rows[g - b.first + 1] = scored[g]
  BY DEF RepositoryInv, CountedAreStored
<1>2. b.first \in Nat /\ b.rows \in Rows
  BY <1>1 DEF RepositoryInv, RepositoryType
<1>3. g - b.first + 1 \in 1 .. Len(b.rows)
  BY <1>0, <1>1, <1>2, CoverBelow
<1> QED
  BY <1>1, <1>2, <1>3, RowsType

-----------------------------------------------------------------------------
(* The initial states *)

\* The empty repository is consistent.
LEMMA InitInv == RepositoryInit => RepositoryInv
<1> SUFFICES ASSUME RepositoryInit
             PROVE RepositoryInv
  OBVIOUS
<1> USE DEF RepositoryInit, InitRepository
<1>1. RepositoryType
  BY DEF RepositoryType, NoInsert, Empty
<1>2. OneWriter /\ OffsetIsFree /\ CommittedIsNext
  BY DEF OneWriter, OffsetIsFree, CommittedIsNext, NoInsert
<1>3. CountedAreStored
  BY DEF CountedAreStored
<1> QED
  BY <1>1, <1>2, <1>3 DEF RepositoryInv

-----------------------------------------------------------------------------
(* One lemma per operation *)

USE DEF tables, indexVars, repositoryVars, storeVars

\* The offset is read while nothing lies above the counter.
LEMMA ReadOffsetInv ==
    ASSUME RepositoryInv, NEW w \in Writers, NEW rows \in Rows, clearing = "no",
           NobodyInserts, NothingUncounted, ReadOffset(w, rows), UNCHANGED clearing
    PROVE RepositoryInv'
<1>1. insert'[w] = [pc |-> "offset", first |-> count, rows |-> rows]
      /\ \A v \in Writers : v # w => insert'[v] = insert[v]
  BY DEF RepositoryInv, RepositoryType, ReadOffset
<1>2. RepositoryType'
  BY DEF RepositoryInv, RepositoryType, ReadOffset
<1>3. OneWriter'
  BY <1>1 DEF OneWriter, NobodyInserts, ReadOffset
<1>4. OffsetIsFree'
  BY DEF OffsetIsFree, NothingUncounted, ReadOffset, EndOf
<1>5. CommittedIsNext'
  BY <1>1 DEF CommittedIsNext, NobodyInserts
<1>6. (clearing # "no" => batches = {})' /\ CountedAreStored'
  BY DEF RepositoryInv, CountedAreStored, Covers, EndOf, ReadOffset
<1> QED
  BY <1>2, <1>3, <1>4, <1>5, <1>6 DEF RepositoryInv

\* Rows above the counter do not disturb what is counted.
LEMMA StoredStays ==
    ASSUME RepositoryInv, clearing = "no", clearing' = clearing, count' = count,
           NEW rows \in Rows, batches' = batches \cup {Batch(count, rows)},
           \A g \in DOMAIN scored : g < count => g \in DOMAIN scored' /\ scored'[g] = scored[g]
    PROVE CountedAreStored'
<1> SUFFICES ASSUME NEW g \in 0 .. count - 1
             PROVE /\ g \in DOMAIN scored'
                   /\ \E b \in batches' :
                         /\ Covers(b, g) /\ b.rows[g - b.first + 1] = scored'[g]
                         /\ \A c \in batches' : Covers(c, g) => c = b
  BY DEF CountedAreStored, Covers, EndOf
<1>0. count \in Nat /\ g \in Nat /\ g < count
  BY DEF RepositoryInv, RepositoryType
<1>1. g \in DOMAIN scored
      /\ \E b \in batches : /\ Covers(b, g) /\ b.rows[g - b.first + 1] = scored[g]
                            /\ \A c \in batches : Covers(c, g) => c = b
  BY DEF RepositoryInv, CountedAreStored
<1>2. scored'[g] = scored[g] /\ g \in DOMAIN scored'
  BY <1>0, <1>1
<1>3. ~Covers(Batch(count, rows), g)
  BY <1>0 DEF Covers, Batch
<1> QED
  BY <1>1, <1>2, <1>3

\* The commit writes above the counter only.
LEMMA CommitInsertInv ==
    ASSUME RepositoryInv, NEW w \in Writers, CommitInsert(w), UNCHANGED clearing
    PROVE RepositoryInv'
<1> DEFINE rows == insert[w].rows
<1>1. /\ clearing = "no" /\ insert[w].first = count /\ rows \in Rows /\ count \in Nat
      /\ \A v \in Writers : v # w => insert[v].pc = "idle"
      /\ \A b \in batches : EndOf(b) <= count
  BY DEF RepositoryInv, RepositoryType, OneWriter, OffsetIsFree, CommitInsert
<1>2. Len(rows) \in Nat \ {0}
  BY <1>1, RowsType
<1>3. insert'[w] = [pc |-> "committed", first |-> count, rows |-> rows]
      /\ \A v \in Writers : v # w => insert'[v] = insert[v]
  BY <1>1 DEF RepositoryInv, RepositoryType, CommitInsert
<1>4. /\ scored' = ScoreRows(count, rows) /\ count' = count /\ clearing' = "no"
      /\ batches' = batches \cup {Batch(count, rows)}
  BY <1>1 DEF CommitInsert
<1>5. /\ \A g \in DOMAIN scored : g < count => g \in DOMAIN scored' /\ scored'[g] = scored[g]
      /\ \A g \in count .. count + Len(rows) - 1 :
            g \in DOMAIN scored' /\ scored'[g] = rows[g - count + 1]
  <2>1. ASSUME NEW g \in DOMAIN scored, g < count
        PROVE g \in DOMAIN scored' /\ scored'[g] = scored[g]
    <3>1. g \in DOMAIN scored'
      BY <1>4 DEF ScoreRows
    <3>2. ~(count <= g /\ g < count + Len(rows))
      BY <1>1, <1>2, <2>1 DEF RepositoryInv, RepositoryType
    <3> QED
      BY <1>4, <3>1, <3>2 DEF ScoreRows
  <2>2. ASSUME NEW g \in count .. count + Len(rows) - 1
        PROVE g \in DOMAIN scored' /\ scored'[g] = rows[g - count + 1]
    <3>1. count <= g /\ g < count + Len(rows)
      BY <1>1, <1>2, <2>2
    <3> QED
      BY <1>4, <3>1 DEF ScoreRows
  <2> QED
    BY <2>1, <2>2
<1>6. RepositoryType'
  <2>1. scored' = [g \in DOMAIN scored' |-> scored'[g]] /\ DOMAIN scored' \subseteq Nat
    BY <1>1, <1>2, <1>4 DEF ScoreRows, RepositoryInv, RepositoryType
  <2>2. \A b \in batches' : b.first \in Nat /\ b.rows \in Rows /\ b = Batch(b.first, b.rows)
    BY <1>1, <1>4 DEF RepositoryInv, RepositoryType, Batch
  <2> QED
    BY <1>1, <1>4, <2>1, <2>2 DEF RepositoryInv, RepositoryType, CommitInsert
<1>7. OneWriter'
  BY <1>1, <1>3, <1>4 DEF OneWriter
<1>8. OffsetIsFree'
  BY <1>1, <1>3 DEF OffsetIsFree
<1>9. CommittedIsNext'
  <2> SUFFICES ASSUME NEW v \in Writers, insert'[v].pc = "committed"
               PROVE /\ Batch(count, insert'[v].rows) \in batches'
                     /\ \A b \in batches' : b # Batch(count, insert'[v].rows) => EndOf(b) <= count
                     /\ \A g \in count .. count + Len(insert'[v].rows) - 1 :
                           g \in DOMAIN scored' /\ scored'[g] = insert'[v].rows[g - count + 1]
    BY <1>4 DEF CommittedIsNext, EndOf, Batch
  <2>1. v = w /\ insert'[v].rows = rows
    BY <1>1, <1>3
  <2> QED
    BY <1>1, <1>4, <1>5, <2>1
<1>10. CountedAreStored'
  BY <1>1, <1>4, <1>5, StoredStays
<1> QED
  BY <1>4, <1>6, <1>7, <1>8, <1>9, <1>10 DEF RepositoryInv

\* The counter takes in the committed batch as a whole.
LEMMA CountInsertInv ==
    ASSUME RepositoryInv, NEW w \in Writers, CountInsert(w), UNCHANGED clearing
    PROVE RepositoryInv'
<1> DEFINE rows == insert[w].rows
           new == Batch(count, rows)
<1>1. /\ clearing = "no" /\ rows \in Rows /\ count \in Nat /\ clearing' = "no"
      /\ \A v \in Writers : v # w => insert[v].pc = "idle"
      /\ new \in batches /\ \A b \in batches : b # new => EndOf(b) <= count
      /\ \A g \in count .. count + Len(rows) - 1 :
            g \in DOMAIN scored /\ scored[g] = rows[g - count + 1]
  BY DEF RepositoryInv, RepositoryType, OneWriter, CommittedIsNext, CountInsert
<1>2. Len(rows) \in Nat \ {0} /\ count' = count + Len(rows)
  BY <1>1, RowsType DEF CountInsert
<1>3. \A v \in Writers : insert'[v].pc = "idle"
  BY <1>1 DEF RepositoryInv, RepositoryType, CountInsert, NoInsert
<1>4. RepositoryType'
  BY <1>1, <1>2 DEF RepositoryInv, RepositoryType, CountInsert, NoInsert
<1>5. OneWriter' /\ OffsetIsFree' /\ CommittedIsNext'
  BY <1>3 DEF OneWriter, OffsetIsFree, CommittedIsNext
<1>6. CountedAreStored'
  <2>0. CountedAreStored' <=>
          \A g \in 0 .. count + Len(rows) - 1 :
             /\ g \in DOMAIN scored
             /\ \E b \in batches :
                   /\ Covers(b, g) /\ b.rows[g - b.first + 1] = scored[g]
                   /\ \A c \in batches : Covers(c, g) => c = b
    <3>1. batches' = batches /\ scored' = scored
      BY DEF CountInsert
    <3> QED
      BY <1>1, <1>2, <3>1 DEF CountedAreStored, Covers, EndOf
  <2> SUFFICES ASSUME NEW g \in 0 .. count + Len(rows) - 1
               PROVE /\ g \in DOMAIN scored
                     /\ \E b \in batches :
                           /\ Covers(b, g) /\ b.rows[g - b.first + 1] = scored[g]
                           /\ \A c \in batches : Covers(c, g) => c = b
    BY <2>0
  <2>3. g \in Nat
    BY <1>1, <1>2
  <2>1. CASE g < count
    <3>1. g \in 0 .. count - 1
      BY <1>1, <2>3, <2>1
    <3> QED
      BY <1>1, <3>1 DEF RepositoryInv, CountedAreStored
  <2>2. CASE count <= g
    <3>1. g \in count .. count + Len(rows) - 1
      BY <1>1, <1>2, <2>2
    <3>2. Covers(new, g) /\ new.rows[g - new.first + 1] = scored[g]
      BY <1>1, <1>2, <3>1 DEF Covers, EndOf, Batch
    <3>3. ASSUME NEW c \in batches, Covers(c, g)
          PROVE c = new
      <4>1. g < EndOf(c) /\ EndOf(c) \in Nat
        BY <2>3, <3>3, CoverBelow DEF RepositoryInv, RepositoryType
      <4> QED
        BY <1>1, <2>3, <2>2, <4>1
    <3> QED
      BY <1>1, <3>1, <3>2, <3>3
  <2> QED
    BY <1>1, <2>3, <2>1, <2>2
<1> QED
  BY <1>1, <1>4, <1>5, <1>6 DEF RepositoryInv

\* A batch without scores stays above the counter.
LEMMA FailInsertInv ==
    ASSUME RepositoryInv, NEW w \in Writers, FailInsert(w), UNCHANGED clearing
    PROVE RepositoryInv'
<1> DEFINE rows == insert[w].rows
<1>1. /\ clearing = "no" /\ insert[w].first = count /\ rows \in Rows /\ count \in Nat
      /\ \A v \in Writers : v # w => insert[v].pc = "idle"
      /\ batches' = batches \cup {Batch(count, rows)}
  BY DEF RepositoryInv, RepositoryType, OneWriter, FailInsert
<1>2. \A v \in Writers : insert'[v].pc = "idle"
  BY <1>1 DEF RepositoryInv, RepositoryType, FailInsert, NoInsert
<1>3. RepositoryType'
  <2>1. \A b \in batches' : b.first \in Nat /\ b.rows \in Rows /\ b = Batch(b.first, b.rows)
    BY <1>1 DEF RepositoryInv, RepositoryType, Batch
  <2> QED
    BY <1>1, <2>1 DEF RepositoryInv, RepositoryType, FailInsert, NoInsert
<1>4. OneWriter' /\ OffsetIsFree' /\ CommittedIsNext'
  BY <1>2 DEF OneWriter, OffsetIsFree, CommittedIsNext
<1>5. CountedAreStored'
  BY <1>1, StoredStays DEF FailInsert
<1> QED
  BY <1>1, <1>3, <1>4, <1>5 DEF RepositoryInv

\* A clear empties both tables before it forgets the count.
LEMMA ClearInv ==
    ASSUME RepositoryInv, ClearStep
    PROVE RepositoryInv'
<1>1. CASE clearing = "no" /\ NobodyInserts /\ ClearRows /\ clearing' = "signatures"
  BY <1>1 DEF RepositoryInv, RepositoryType, OneWriter, OffsetIsFree, CommittedIsNext,
              CountedAreStored, NobodyInserts, ClearRows, Empty
<1>2. CASE clearing = "signatures" /\ ClearSignatures /\ clearing' = "count"
  BY <1>2 DEF RepositoryInv, RepositoryType, OneWriter, OffsetIsFree, CommittedIsNext,
              CountedAreStored, ClearSignatures
<1>3. CASE clearing = "count" /\ ClearCount /\ clearing' = "no"
  BY <1>3 DEF RepositoryInv, RepositoryType, OneWriter, OffsetIsFree, CommittedIsNext,
              CountedAreStored, ClearCount
<1> QED
  BY <1>1, <1>2, <1>3 DEF ClearStep

\* Indexes and stutters leave the tables alone.
LEMMA TablesStay ==
    ASSUME RepositoryInv, UNCHANGED <<batches, scored, count, insert, clearing>>
    PROVE RepositoryInv'
BY DEF RepositoryInv, RepositoryType, OneWriter, OffsetIsFree, CommittedIsNext,
       CountedAreStored, Covers, EndOf

\* Every step keeps the invariant.
LEMMA NextInv == RepositoryInv /\ [RepositoryNext]_storeVars => RepositoryInv'
<1> SUFFICES ASSUME RepositoryInv, [RepositoryNext]_storeVars
             PROVE RepositoryInv'
  OBVIOUS
<1>1. ASSUME NEW w \in Writers, InsertStep(w), UNCHANGED clearing
      PROVE RepositoryInv'
  BY <1>1, ReadOffsetInv, CommitInsertInv, CountInsertInv, FailInsertInv DEF InsertStep
<1>2. CASE ClearStep
  BY <1>2, ClearInv
<1>3. ASSUME NEW order \in Orders, IndexStep(order), UNCHANGED clearing
      PROVE RepositoryInv'
  BY <1>3, TablesStay DEF IndexStep, BuildIndex, SignIndex
<1>4. CASE UNCHANGED storeVars
  BY <1>4, TablesStay
<1> QED
  BY <1>1, <1>2, <1>3, <1>4 DEF RepositoryNext

\* Whatever the threads do in whatever order, the repository stays in step with its counter.
THEOREM RepositoryInvariant == RepositorySpec => []RepositoryInv
<1> QED
  BY InitInv, NextInv, PTL DEF RepositorySpec

\* What the counter promises is stored, exactly once, with the scores that belong to it.
THEOREM CountedAlwaysStored == RepositorySpec => []CountedAreStored
<1>1. RepositoryInv => CountedAreStored
  BY DEF RepositoryInv
<1> QED
  BY <1>1, RepositoryInvariant, PTL

-----------------------------------------------------------------------------
(* The repository implements the list *)

\* The empty repository is the empty list.
LEMMA StoreInit == RepositoryInit => Store!Init
BY DEF RepositoryInit, InitRepository, Store!Init, Store!Empty, Empty

\* Only the counter moves the list, and a clear empties it at once.
LEMMA StoreStep ==
    ASSUME RepositoryInv, RepositoryInv', [RepositoryNext]_storeVars
    PROVE [Store!Next]_(Store!vars)
<1>0. count \in Nat /\ count' \in Nat
  BY DEF RepositoryInv, RepositoryType
<1>1. ASSUME UNCHANGED <<count, clearing>>,
             \A g \in 0 .. count - 1 : clearing = "no" => scored'[g] = scored[g]
      PROVE UNCHANGED Store!vars
  BY <1>1 DEF Store!vars, Empty
<1>2. ASSUME NEW w \in Writers, InsertStep(w), UNCHANGED clearing
      PROVE [Store!Next]_(Store!vars)
  <2>1. CASE \E rows \in Rows : ReadOffset(w, rows)
    BY <1>1, <1>2, <2>1 DEF ReadOffset
  <2>2. CASE CommitInsert(w)
    <3>1. insert[w].first = count /\ Len(insert[w].rows) \in Nat
      BY <2>2, RowsType DEF RepositoryInv, OneWriter, CommitInsert
    <3>2. ASSUME NEW g \in 0 .. count - 1, clearing = "no"
          PROVE scored'[g] = scored[g]
      <4>1. g \in DOMAIN scored /\ g < count
        BY <1>0, <3>2 DEF RepositoryInv, CountedAreStored
      <4> QED
        BY <1>0, <2>2, <3>1, <4>1 DEF CommitInsert, ScoreRows
    <3> QED
      BY <1>1, <1>2, <2>2, <3>2 DEF CommitInsert
  <2>3. CASE CountInsert(w)
    <3>1. clearing = "no" /\ clearing' = "no" /\ Len(insert[w].rows) \in Nat
      BY <1>2, <2>3, RowsType DEF RepositoryInv, OneWriter, CountInsert
    <3>2. count' = count + Len(insert[w].rows) /\ scored' = scored
      BY <2>3 DEF CountInsert
    <3>3. \A g \in 0 .. count' - 1 : scored'[g] \in Schedules
      <4> SUFFICES ASSUME NEW g \in 0 .. count' - 1
                   PROVE scored'[g] \in Schedules
        OBVIOUS
      <4>0. g \in 0 .. count + Len(insert[w].rows) - 1 /\ scored'[g] = scored[g]
        BY <1>0, <3>1, <3>2
      <4>1. CASE g < count
        <5>1. g \in 0 .. count - 1
          BY <1>0, <3>1, <4>0, <4>1
        <5> QED
          BY <3>1, <4>0, <5>1, CountedAreSchedules
      <4>2. CASE count <= g
        <5>0. g \in count .. count + Len(insert[w].rows) - 1
          BY <1>0, <3>1, <4>0, <4>2
        <5>1. scored[g] = insert[w].rows[g - count + 1]
          BY <2>3, <5>0 DEF RepositoryInv, CommittedIsNext, CountInsert
        <5>2. insert[w].rows \in Rows /\ g - count + 1 \in 1 .. Len(insert[w].rows)
          BY <1>0, <2>3, <3>1, <4>0, <4>2 DEF RepositoryInv, OneWriter, CountInsert
        <5> QED
          BY <4>0, <5>1, <5>2, RowsType
      <4>3. g < count \/ count <= g
        BY <1>0, <3>1, <4>0
      <4> QED
        BY <4>1, <4>2, <4>3
    <3> QED
      BY <1>0, <3>1, <3>2, <3>3 DEF Store!Next, Store!Append
  <2>4. CASE FailInsert(w)
    BY <1>1, <1>2, <2>4 DEF FailInsert
  <2> QED
    BY <1>2, <2>1, <2>2, <2>3, <2>4 DEF InsertStep
<1>3. CASE ClearStep
  <2>1. CASE clearing = "no" /\ ClearRows /\ clearing' = "signatures"
    BY <2>1 DEF Store!Next, Store!Clear, Store!Empty, Empty
  <2>2. CASE clearing = "signatures" /\ ClearSignatures /\ clearing' = "count"
    BY <2>2 DEF Store!vars, Empty
  <2>3. CASE clearing = "count" /\ ClearCount /\ clearing' = "no"
    <3>1. [g \in 0 .. count' - 1 |-> scored'[g]] = Empty
      BY <2>3 DEF ClearCount, Empty
    <3> QED
      BY <2>3, <3>1 DEF ClearCount, Store!vars
  <2> QED
    BY <1>3, <2>1, <2>2, <2>3 DEF ClearStep
<1>4. ASSUME NEW order \in Orders, IndexStep(order), UNCHANGED clearing
      PROVE [Store!Next]_(Store!vars)
  BY <1>1, <1>4 DEF IndexStep, BuildIndex, SignIndex
<1>5. CASE UNCHANGED storeVars
  BY <1>1, <1>5
<1> QED
  BY <1>2, <1>3, <1>4, <1>5 DEF RepositoryNext

\* Those who read the repository may take it for a list that grows batch by batch and is
\* cleared as a whole.
THEOREM RepositoryImplementsStore == RepositorySpec => ImplementsStore
<1>1. RepositoryInv /\ RepositoryInv' /\ [RepositoryNext]_storeVars => [Store!Next]_(Store!vars)
  BY StoreStep
<1> QED
  BY <1>1, StoreInit, RepositoryInvariant, PTL DEF RepositorySpec, ImplementsStore, Store!Spec
=============================================================================
