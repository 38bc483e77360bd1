--------------------------- MODULE ResultViewProofs ---------------------------
(***************************************************************************)
(* What the output screen shows, for any number of runs, sorts and clicks, *)
(* any findings, scores and orders, and any size of the window.            *)
(*                                                                         *)
(* The argument: what a window lists is stored, and what it remembers is   *)
(* what is stored there (ValidWindow); inserts keep that, as they only add *)
(* rows, and a clear happens only while the output screen is not visible   *)
(* and its window is the first one (ScreensInv, WindowInv).  A sorted page *)
(* is read by a worker and put into the window later; until then it is a   *)
(* page of stored rows, and the sort belongs to the screen that is shown   *)
(* and is the last one, unless it was overtaken (SortsInv).  So whatever   *)
(* is delivered leaves the calendar with the schedule it stands for        *)
(* (ShownInv).                                                             *)
(*                                                                         *)
(* That the page is complete in the end has another reason: the end of a   *)
(* run, which comes after its last insert, starts over on the page or      *)
(* sorts it again.  From then on what was read is all there is, for the    *)
(* page, the sort that is reading and the signal that is on its way        *)
(* (FreshInv).  NumbersInv counts the ends of runs that are still to come, *)
(* to show that there is a number left for each sort they start.           *)
(***************************************************************************)
EXTENDS ResultBrowsingProofs, NaturalsInduction, WellFoundedInduction, FiniteSetTheorems,
        FunctionTheorems, SequenceTheorems

-----------------------------------------------------------------------------
(* The order of a sorted page *)

\* A set of numbers that is not empty has a least one.
LEMMA HasLeast ==
    ASSUME NEW S, S \subseteq Nat, S # {}
    PROVE \E m \in S : \A n \in S : m <= n
<1> DEFINE R == OpToRel(<, Nat)
<1>1. IsWellFoundedOn(R, Nat)
  BY NatLessThanWellFounded
<1>2. PICK m \in S : \A n \in S : ~(<<n, m>> \in R)
  <2> HIDE DEF R
  <2> QED
    BY <1>1, WFMin
<1>3. ASSUME NEW n \in S
      PROVE m <= n
  <2>1. n \in Nat /\ m \in Nat /\ ~(<<n, m>> \in R)
    BY <1>2
  <2>2. n < m => <<n, m>> \in R
    BY <2>1 DEF OpToRel
  <2>3. ~(n < m)
    BY <2>1, <2>2
  <2>4. n \in Nat /\ m \in Nat
    BY <2>1
  <2> QED
    BY <2>3, <2>4
<1> QED
  BY <1>3

\* A sort order compares the criteria of the user.
LEMMA OrderType ==
    ASSUME NEW order, IsOrder(order)
    PROVE /\ order \in Seq(Criteria) /\ Len(order) \in Nat /\ DOMAIN order = 1 .. Len(order)
          /\ \A s \in Schedules : \A i \in DOMAIN order : Score[s][order[i]] \in Int
<1>1. order \in Seq(Criteria)
  <2>1. CASE order \in Orders
    BY <2>1, WindowAssumption
  <2>2. CASE order = <<>>
    <3>1. <<>> \in Seq(Criteria)
      OBVIOUS
    <3> QED
      BY <2>2, <3>1
  <2> QED
    BY <2>1, <2>2 DEF IsOrder
<1> QED
  BY <1>1, WindowAssumption

\* Of three schedules, the middle one is beaten by the best or beats the worst.
LEMMA BeatsBetween ==
    ASSUME NEW order, IsOrder(order), NEW s \in Schedules, NEW t \in Schedules, NEW u \in Schedules,
           Beats(s, t, order)
    PROVE Beats(s, u, order) \/ Beats(u, t, order)
<1>1. /\ Len(order) \in Nat /\ DOMAIN order = 1 .. Len(order)
      /\ \A x \in Schedules : \A i \in DOMAIN order : Score[x][order[i]] \in Int
  BY OrderType
<1>2. PICK i \in DOMAIN order :
          /\ Score[s][order[i]] > Score[t][order[i]]
          /\ \A j \in 1 .. i - 1 : Score[s][order[j]] = Score[t][order[j]]
  BY DEF Beats
<1> DEFINE Differ == {j \in 1 .. i : Score[u][order[j]] # Score[t][order[j]]}
<1>3. CASE Differ = {}
  <2>1. \A j \in 1 .. i : Score[u][order[j]] = Score[t][order[j]]
    BY <1>3
  <2>2. i \in 1 .. i /\ \A j \in 1 .. i - 1 : j \in 1 .. i
    BY <1>1
  <2>3. Score[s][order[i]] > Score[u][order[i]]
    BY <1>2, <2>1, <2>2
  <2>4. \A j \in 1 .. i - 1 : Score[s][order[j]] = Score[u][order[j]]
    BY <1>2, <2>1, <2>2
  <2> QED
    BY <2>3, <2>4 DEF Beats
<1>4. CASE Differ # {}
  <2>1. PICK k \in Differ : \A j \in Differ : k <= j
    <3>1. Differ \in SUBSET Nat
      BY <1>1
    <3>2. PICK m : m \in Differ
      BY <1>4
    <3> HIDE DEF Differ
    <3> QED
      BY <3>1, <3>2, HasLeast
  <2>2. k \in 1 .. i /\ Score[u][order[k]] # Score[t][order[k]] /\ k \in DOMAIN order
    BY <1>1
  <2>3. \A j \in 1 .. k - 1 : Score[u][order[j]] = Score[t][order[j]]
    <3> SUFFICES ASSUME NEW j \in 1 .. k - 1
                 PROVE Score[u][order[j]] = Score[t][order[j]]
      OBVIOUS
    <3>1. j \in 1 .. i /\ ~(k <= j)
      BY <1>1, <2>2
    <3> QED
      BY <2>1, <3>1
  <2>4. Score[u][order[k]] \in Int /\ Score[t][order[k]] \in Int /\ Score[s][order[k]] \in Int
    BY <1>1, <2>2
  <2>5. CASE Score[u][order[k]] > Score[t][order[k]]
    BY <2>2, <2>3, <2>5 DEF Beats
  <2>6. CASE Score[u][order[k]] < Score[t][order[k]]
    <3>1. Score[s][order[k]] >= Score[t][order[k]]
      <4>1. CASE k = i
        BY <1>2, <2>4, <4>1
      <4>2. CASE k # i
        <5>1. k \in 1 .. i - 1
          BY <1>1, <2>2, <4>2
        <5> QED
          BY <1>2, <2>4, <5>1
      <4> QED
        BY <4>1, <4>2
    <3>2. \A j \in 1 .. k - 1 : Score[s][order[j]] = Score[u][order[j]]
      <4>1. \A j \in 1 .. k - 1 : j \in 1 .. i - 1
        BY <1>1, <2>2
      <4> QED
        BY <1>2, <2>3, <4>1
    <3> QED
      BY <2>2, <2>4, <2>6, <3>1, <3>2 DEF Beats
  <2> QED
    BY <2>2, <2>4, <2>5, <2>6
<1> QED
  BY <1>3, <1>4

\* No two schedules beat each other.
LEMMA BeatsOneWay ==
    ASSUME NEW order, IsOrder(order), NEW s \in Schedules, NEW t \in Schedules,
           Beats(s, t, order)
    PROVE ~Beats(t, s, order)
<1>1. /\ Len(order) \in Nat /\ DOMAIN order = 1 .. Len(order)
      /\ \A x \in Schedules : \A i \in DOMAIN order : Score[x][order[i]] \in Int
  BY OrderType
<1> SUFFICES ASSUME Beats(t, s, order)
             PROVE FALSE
  OBVIOUS
<1>2. PICK i \in DOMAIN order :
          /\ Score[s][order[i]] > Score[t][order[i]]
          /\ \A j \in 1 .. i - 1 : Score[s][order[j]] = Score[t][order[j]]
  BY DEF Beats
<1>3. PICK k \in DOMAIN order :
          /\ Score[t][order[k]] > Score[s][order[k]]
          /\ \A j \in 1 .. k - 1 : Score[t][order[j]] = Score[s][order[j]]
  BY DEF Beats
<1>4. i \in 1 .. k - 1 \/ k \in 1 .. i - 1 \/ i = k
  BY <1>1
<1>5. Score[s][order[i]] \in Int /\ Score[t][order[i]] \in Int /\ Score[s][order[k]] \in Int
      /\ Score[t][order[k]] \in Int
  BY <1>1
<1> QED
  BY <1>2, <1>3, <1>4, <1>5

\* The rows of the score table are in one order: any two are comparable, one way only, and
\* what comes before what comes before a row comes before it.
LEMMA RowsAreOrdered ==
    ASSUME NEW order, IsOrder(order), scored \in [DOMAIN scored -> Schedules],
           DOMAIN scored \subseteq Nat
    PROVE \A g, h, k \in DOMAIN scored :
              /\ g # h => Before(order, g, h) \/ Before(order, h, g)
              /\ ~(Before(order, g, h) /\ Before(order, h, g))
              /\ Before(order, g, h) /\ Before(order, h, k) => Before(order, g, k)
<1> SUFFICES ASSUME NEW g \in DOMAIN scored, NEW h \in DOMAIN scored, NEW k \in DOMAIN scored
             PROVE /\ g # h => Before(order, g, h) \/ Before(order, h, g)
                   /\ ~(Before(order, g, h) /\ Before(order, h, g))
                   /\ Before(order, g, h) /\ Before(order, h, k) => Before(order, g, k)
  OBVIOUS
<1>1. g \in Nat /\ h \in Nat /\ k \in Nat
      /\ scored[g] \in Schedules /\ scored[h] \in Schedules /\ scored[k] \in Schedules
  OBVIOUS
<1>2. g # h => Before(order, g, h) \/ Before(order, h, g)
  BY <1>1, BeatsOneWay DEF Before
<1>3. ~(Before(order, g, h) /\ Before(order, h, g))
  BY <1>1, BeatsOneWay DEF Before
<1>4. ASSUME Before(order, g, h), Before(order, h, k)
      PROVE Before(order, g, k)
  <2>1. CASE Beats(scored[g], scored[h], order)
    <3>1. ~Beats(scored[k], scored[h], order)
      BY <1>1, <1>4, BeatsOneWay DEF Before
    <3>2. Beats(scored[g], scored[k], order)
      BY <1>1, <2>1, <3>1, BeatsBetween
    <3> QED
      BY <3>2 DEF Before
  <2>2. CASE ~Beats(scored[g], scored[h], order)
    <3>1. ~Beats(scored[h], scored[g], order) /\ g < h
      BY <1>4, <2>2 DEF Before
    <3>2. CASE Beats(scored[h], scored[k], order)
      <4>1. Beats(scored[g], scored[k], order)
        BY <1>1, <3>1, <3>2, BeatsBetween
      <4> QED
        BY <4>1 DEF Before
    <3>3. CASE ~Beats(scored[h], scored[k], order)
      <4>1. ~Beats(scored[k], scored[h], order) /\ h < k
        BY <1>4, <3>3 DEF Before
      <4>2. ~Beats(scored[k], scored[g], order)
        BY <1>1, <3>1, <4>1, BeatsBetween
      <4> QED
        BY <1>1, <3>1, <4>1, <4>2 DEF Before
    <3> QED
      BY <3>2, <3>3
  <2> QED
    BY <2>1, <2>2
<1> QED
  BY <1>2, <1>3, <1>4

\* The rows of the score table that come before a row.
Earlier(order, g) == {h \in DOMAIN scored : Before(order, h, g)}

\* The rows can be put in the order: the CHOOSE of SortedIds has something to choose from.
LEMMA RowsCanBeSorted ==
    ASSUME NEW order, IsOrder(order), scored \in [DOMAIN scored -> Schedules],
           DOMAIN scored \subseteq Nat, IsFiniteSet(DOMAIN scored)
    PROVE \E ids \in [1 .. Cardinality(DOMAIN scored) -> DOMAIN scored] :
              \A i, j \in DOMAIN ids : i < j => Before(order, ids[i], ids[j])
<1>1. PICK D : D = DOMAIN scored
  OBVIOUS
<1>2. PICK n : n = Cardinality(D)
  OBVIOUS
<1>3. IsFiniteSet(D) /\ n \in Nat
  BY <1>1, <1>2, FS_CardinalityType
<1>4. \A g, h, k \in D :
          /\ g # h => Before(order, g, h) \/ Before(order, h, g)
          /\ ~(Before(order, g, h) /\ Before(order, h, g))
          /\ Before(order, g, h) /\ Before(order, h, k) => Before(order, g, k)
  BY <1>1, RowsAreOrdered
<1>5. PICK E : E = [g \in D |-> Earlier(order, g)]
  OBVIOUS
<1>6. \A g \in D : E[g] = {h \in D : Before(order, h, g)}
  BY <1>1, <1>5 DEF Earlier
<1>7. \A g \in D : IsFiniteSet(E[g]) /\ Cardinality(E[g]) \in Nat /\ Cardinality(E[g]) < n
  <2> SUFFICES ASSUME NEW g \in D
               PROVE IsFiniteSet(E[g]) /\ Cardinality(E[g]) \in Nat /\ Cardinality(E[g]) < n
    OBVIOUS
  <2>1. E[g] \in SUBSET D /\ g \notin E[g]
    BY <1>4, <1>6
  <2>2. IsFiniteSet(E[g]) /\ Cardinality(E[g]) <= n /\ (n = Cardinality(E[g]) => D = E[g])
    BY <1>2, <1>3, <2>1, FS_Subset
  <2>3. Cardinality(E[g]) \in Nat
    BY <2>2, FS_CardinalityType
  <2> QED
    BY <1>3, <2>1, <2>2, <2>3
<1>8. \A g, h \in D : Before(order, g, h) => Cardinality(E[g]) < Cardinality(E[h])
  <2> SUFFICES ASSUME NEW g \in D, NEW h \in D, Before(order, g, h)
               PROVE Cardinality(E[g]) < Cardinality(E[h])
    OBVIOUS
  <2>1. E[g] \in SUBSET E[h] /\ g \in E[h] /\ g \notin E[g]
    BY <1>4, <1>6
  <2>2. Cardinality(E[g]) <= Cardinality(E[h]) /\ (Cardinality(E[h]) = Cardinality(E[g]) => E[h] = E[g])
    BY <1>7, <2>1, FS_Subset
  <2> QED
    BY <1>7, <2>1, <2>2
<1>9. PICK rank : rank = [g \in D |-> Cardinality(E[g]) + 1]
  OBVIOUS
<1>10. rank \in [D -> 1 .. n] /\ \A g \in D : rank[g] = Cardinality(E[g]) + 1
  BY <1>3, <1>7, <1>9
<1>11. rank \in Injection(D, 1 .. n)
  <2>1. \A g, h \in D : rank[g] = rank[h] => g = h
    <3> SUFFICES ASSUME NEW g \in D, NEW h \in D, g # h
                 PROVE rank[g] # rank[h]
      OBVIOUS
    <3>1. Before(order, g, h) \/ Before(order, h, g)
      BY <1>4
    <3> QED
      BY <1>7, <1>8, <1>10, <3>1
  <2> QED
    BY <1>10, <2>1 DEF Injection, IsInjective
<1>12. IsFiniteSet(1 .. n) /\ Cardinality(1 .. n) = n
  BY <1>3, FS_Interval
<1>13. rank \in Surjection(D, 1 .. n)
  BY <1>2, <1>11, <1>12, FS_Injection
<1>14. \A i \in 1 .. n : \E g \in D : rank[g] = i
  BY <1>13 DEF Surjection
<1>15. PICK ids : ids = [i \in 1 .. n |-> CHOOSE g \in D : rank[g] = i]
  OBVIOUS
<1>16. ids \in [1 .. n -> D] /\ \A i \in 1 .. n : ids[i] \in D /\ rank[ids[i]] = i
  BY <1>14, <1>15
<1>17. \A i, j \in 1 .. n : i < j => Before(order, ids[i], ids[j])
  <2> SUFFICES ASSUME NEW i \in 1 .. n, NEW j \in 1 .. n, i < j
               PROVE Before(order, ids[i], ids[j])
    OBVIOUS
  <2>1. ids[i] \in D /\ ids[j] \in D /\ rank[ids[i]] = i /\ rank[ids[j]] = j
    BY <1>16
  <2>2. ~Before(order, ids[j], ids[i])
    <3> SUFFICES ASSUME Before(order, ids[j], ids[i])
                 PROVE FALSE
      OBVIOUS
    <3>1. Cardinality(E[ids[j]]) < Cardinality(E[ids[i]])
      BY <1>8, <2>1
    <3> QED
      BY <1>7, <1>10, <2>1, <3>1
  <2>3. ids[i] # ids[j]
    BY <2>1
  <2> QED
    BY <1>4, <2>1, <2>2, <2>3
<1>18. DOMAIN ids = 1 .. n
  BY <1>16
<1> QED
  BY <1>1, <1>2, <1>16, <1>17, <1>18

\* So the sorted ids are the rows of the table.
LEMMA SortedIdsAreRows ==
    ASSUME NEW order, IsOrder(order), scored \in [DOMAIN scored -> Schedules],
           DOMAIN scored \subseteq Nat, IsFiniteSet(DOMAIN scored)
    PROVE /\ SortedIds(order) \in Seq(DOMAIN scored)
          /\ Len(SortedIds(order)) = Cardinality(DOMAIN scored) /\ Cardinality(DOMAIN scored) \in Nat
<1>1. SortedIds(order) \in [1 .. Cardinality(DOMAIN scored) -> DOMAIN scored]
  BY RowsCanBeSorted DEF SortedIds
<1>2. Cardinality(DOMAIN scored) \in Nat
  BY FS_CardinalityType
<1> QED
  BY <1>1, <1>2

\* A page is part of what it is cut from, no longer than the window, and empty only behind the end.
LEMMA SliceIsPart ==
    ASSUME NEW S, NEW ids \in Seq(S), NEW page \in Nat
    PROVE /\ Slice(ids, page) \in Seq(S) /\ Len(Slice(ids, page)) <= WindowSize
          /\ page * WindowSize < Len(ids) => Slice(ids, page) # <<>>
<1>1. PICK a : a = page * WindowSize
  OBVIOUS
<1>2. a \in Nat /\ (page + 1) * WindowSize = a + WindowSize /\ WindowSize \in Nat \ {0} /\ Len(ids) \in Nat
  BY <1>1, WindowAssumption
<1>3. PICK last : last = IF Len(ids) < a + WindowSize THEN Len(ids) ELSE a + WindowSize
  OBVIOUS
<1>4. Slice(ids, page) = SubSeq(ids, a + 1, last)
  BY <1>1, <1>2, <1>3 DEF Slice
<1>5. last \in Nat /\ last <= Len(ids) /\ last <= a + WindowSize
  BY <1>2, <1>3
<1>6. SubSeq(ids, a + 1, last) \in Seq(S)
  BY <1>2, <1>5
<1>7. Len(SubSeq(ids, a + 1, last)) = IF a + 1 <= last THEN last - (a + 1) + 1 ELSE 0
  BY <1>2, <1>5
<1>8. Len(SubSeq(ids, a + 1, last)) <= WindowSize
  BY <1>2, <1>5, <1>7
<1>9. ASSUME a < Len(ids) PROVE SubSeq(ids, a + 1, last) # <<>>
  <2>1. Len(SubSeq(ids, a + 1, last)) > 0
    BY <1>2, <1>3, <1>5, <1>7, <1>9
  <2>2. PICK s : s = SubSeq(ids, a + 1, last)
    OBVIOUS
  <2>3. Len(s) > 0
    BY <2>1, <2>2
  <2>4. s # <<>>
    BY <2>3
  <2> QED
    BY <2>2, <2>4
<1> QED
  BY <1>1, <1>4, <1>6, <1>8, <1>9

-----------------------------------------------------------------------------
(* The invariant *)

\* A row lies in one batch.
Stored(g) ==
    /\ g \in Nat
    /\ \E b \in batches : Covers(b, g) /\ \A c \in batches : Covers(c, g) => c = b

\* The score table has the rows that were counted and those that will be counted next.
ScoredInv ==
    /\ count <= MaxCount
    /\ \A w \in Writers : insert[w].pc # "idle" => count + Len(insert[w].rows) <= MaxCount
    /\ clearing # "no" => DOMAIN scored = {}
    /\ \A g \in DOMAIN scored :
          \/ g < count
          \/ \E w \in Writers : insert[w].pc = "committed" /\ g < count + Len(insert[w].rows)
    /\ \A g \in DOMAIN scored : scored[g] \in Schedules

\* The screens lead to each other one way, and there is something to see on the output screen.
ScreensInv ==
    /\ gen.visible \in BOOLEAN /\ gen.navigated = gen.visible /\ gen.running \in BOOLEAN
    /\ gen = [running |-> gen.running, navigated |-> gen.navigated, visible |-> gen.visible]
    /\ \/ current = "input" /\ history = <<>>
       \/ current = "output" /\ history = <<"input">>
       \/ current = "clusters" /\ history = <<"input", "output">>
    /\ current # "input" => gen.visible
    /\ gen.visible => gui = "idle" /\ count > 0

\* The sorts that a run may still start by ending.
Dues ==
    IF run = 0 THEN 0
    ELSE IF listener[run] = "running" THEN 2
    ELSE IF listener[run] = "cancelled" THEN 1
    ELSE IF \E j \in DOMAIN events : events[j].kind = "finished" THEN 1 ELSE 0

\* There is a number left for every sort that may start.
NumbersInv ==
    /\ lastSort \in Nat /\ lastSort + Dues <= MaxClicks + 2 * run
    /\ sortWorker \in 0 .. lastSort /\ dropped \subseteq 1 .. lastSort
    /\ \A i, j \in DOMAIN events : events[i].kind = "finished" /\ events[j].kind = "finished" => i = j
    /\ \A i \in DOMAIN events :
          events[i].kind = "finished" => run # 0 /\ listener[run] = "ended" /\ gui = "idle"
    /\ \A r \in Runs : r > run => listener[r] = "none"
    /\ \A i \in SortIds : i > lastSort => ~InFlight(i)

IsPage(ids) == ids \in Seq(Nat) /\ Len(ids) <= WindowSize

IsSort(s) == s = [pc |-> s.pc, order |-> s.order, ids |-> s.ids]

TypedWindow(w) ==
    /\ IsWindow(w) /\ w.page \in Nat /\ IsPage(w.ids) /\ w.sorted \in BOOLEAN
    /\ w.priority = <<>> => ~w.sorted
    /\ DOMAIN w.cache \subseteq Nat /\ \A j \in DOMAIN w.cache : w.cache[j] \in Schedules

TypedPaging(p) ==
    /\ p = [idx |-> p.idx, total |-> p.total, page |-> p.page, pages |-> p.pages, disk |-> p.disk,
            period |-> p.period]
    /\ p.idx \in Nat /\ p.total \in 0 .. WindowSize /\ p.page \in Nat /\ p.period \in 1 .. NumPeriods

PagesInv ==
    /\ TypedWindow(win) /\ TypedPaging(pag) /\ shown.what \in Schedules \cup {Nothing, Failed}
    /\ \A i \in SortIds : IsSort(sorts[i]) /\ IsPage(sorts[i].ids)
    /\ \A j \in DOMAIN events :
          IsPage(events[j].ids) /\ (events[j].kind = "sorted" => events[j].of \in SortIds)

\* Neither the window of an earlier run nor one that a late page was put into.
Sound == gui # "stopping" /\ ~disturbed

\* What the window lists is stored, and what it remembers is what is stored there.
ValidWindow(w) ==
    /\ \A i \in DOMAIN w.ids : Stored(w.ids[i])
    /\ \A j \in DOMAIN w.cache :
          /\ j < current_window_size(w) /\ Stored(GlobalId(w, j))
          /\ w.cache[j] = RowAt(GlobalId(w, j))

WindowInv ==
    /\ ~gen.visible /\ gui # "stopping" => win = FirstWindow
    /\ Sound => ValidWindow(win)
    /\ gen.visible /\ ~disturbed => current_window_size(win) > 0

\* A page that a sort worker has read.
ValidPage(order, ids) ==
    /\ \A j \in DOMAIN ids : Stored(ids[j])
    /\ order # <<>> => ids # <<>>

\* A sort belongs to the screen that is shown and is the last one.
SortsInv ==
    /\ ~disturbed => \A i \in SortIds : InFlight(i) => i = lastSort /\ current = "output"
    /\ Sound =>
          /\ \A i \in SortIds : sorts[i].pc = "emit" => ValidPage(sorts[i].order, sorts[i].ids)
          /\ \A k \in DOMAIN events :
                events[k].kind = "sorted" => ValidPage(events[k].order, events[k].ids)

Selects(w, p) ==
    /\ p.page = w.page /\ p.total > 0 /\ p.idx < p.total /\ p.total <= current_window_size(w)
    /\ Stored(GlobalId(w, p.idx))

Shows(s, w, p) == s = [what |-> RowAt(GlobalId(w, p.idx)), period |-> p.period]

ShownInv ==
    current = "output" /\ ~disturbed => Selects(win, pag) /\ Shows(shown, win, pag)

\* The run is over and the screens were told.
Over ==
    /\ \A r \in Runs : ~Live(r)
    /\ \A j \in DOMAIN events : events[j].kind # "finished"

Synced(w, p) == p.pages = total_pages /\ p.disk = count /\ p.total = current_window_size(w)

FreshInv ==
    Sound /\ fault = "none" =>
        /\ \A i \in SortIds :
              sorts[i].pc \notin {"none", "done"} => i \notin dropped /\ sorts[i].order = sortConfig
        /\ \A j \in DOMAIN events :
              events[j].kind = "sorted" => events[j].of \notin dropped /\ events[j].order = sortConfig
        /\ ~Sorting => win.priority = sortConfig
        /\ Over =>
              /\ \A i \in SortIds : sorts[i].pc = "emit" => sorts[i].ids = compute_sort_data(sorts[i].order)
              /\ \A j \in DOMAIN events :
                    events[j].kind = "sorted" => events[j].ids = compute_sort_data(events[j].order)
              /\ ~Sorting /\ win.priority # <<>> => win.ids = get_sorted_ids_page(win.priority, win.page)
              /\ ~Sorting /\ current = "output" => Synced(win, pag)

ViewInv ==
    ScoredInv /\ ScreensInv /\ NumbersInv /\ PagesInv /\ WindowInv /\ SortsInv /\ ShownInv /\ FreshInv

USE DEF tables, indexVars, repositoryVars, storeVars, flowVars, sortVars, pagingVars, routerVars,
        ListenerVars, SortStays, ClearStays, DeliverStays, UserStays, browsingVars

-----------------------------------------------------------------------------
(* What is stored *)

\* Every step of the repository keeps the score table.
LEMMA ScoredStep == RepositoryInv /\ ScoredInv /\ [RepositoryNext]_storeVars => ScoredInv'
<1> SUFFICES ASSUME RepositoryInv, ScoredInv, [RepositoryNext]_storeVars
             PROVE ScoredInv'
  OBVIOUS
<1>0. count \in Nat /\ MaxCount \in Nat /\ DOMAIN scored \subseteq Nat
  BY RepositoryAssumption DEF RepositoryInv, RepositoryType
<1>1. ASSUME NEW w \in Writers, InsertStep(w), UNCHANGED clearing
      PROVE ScoredInv'
  <2>1. CASE \E rows \in Rows : /\ clearing = "no" /\ NobodyInserts /\ count + Len(rows) <= MaxCount
                                /\ ReadOffset(w, rows)
    <3>1. PICK rows \in Rows : /\ clearing = "no" /\ NobodyInserts /\ count + Len(rows) <= MaxCount
                               /\ ReadOffset(w, rows)
      BY <2>1
    <3>2. /\ insert'[w] = [pc |-> "offset", first |-> count, rows |-> rows]
          /\ \A v \in Writers : v # w => insert'[v] = insert[v]
      BY <3>1 DEF ReadOffset, RepositoryInv, RepositoryType
    <3>3. \A v \in Writers : insert[v].pc = "idle"
      BY <3>1 DEF NobodyInserts
    <3> QED
      BY <1>1, <3>1, <3>2, <3>3 DEF ReadOffset, ScoredInv
  <2>2. CASE CommitInsert(w)
    <3>1. PICK rows : rows = insert[w].rows
      OBVIOUS
    <3>2. /\ clearing = "no" /\ insert[w].first = count /\ rows \in Rows /\ count + Len(rows) <= MaxCount
          /\ \A v \in Writers : v # w => insert[v].pc = "idle"
      BY <2>2, <3>1 DEF CommitInsert, RepositoryInv, OneWriter, ScoredInv
    <3>3. Len(rows) \in Nat \ {0} /\ \A i \in 1 .. Len(rows) : rows[i] \in Schedules
      BY <3>2, RowsType
    <3>4. /\ insert'[w].pc = "committed" /\ insert'[w].rows = rows
          /\ \A v \in Writers : v # w => insert'[v] = insert[v]
      BY <2>2, <3>1 DEF CommitInsert, RepositoryInv, RepositoryType
    <3>5. scored' = ScoreRows(count, rows) /\ count' = count
      BY <2>2, <3>1, <3>2 DEF CommitInsert
    <3>6. DOMAIN scored' = DOMAIN scored \cup count .. count + Len(rows) - 1
      BY <3>5 DEF ScoreRows
    <3>7. \A g \in DOMAIN scored : g < count
      BY <2>2, <3>2 DEF ScoredInv, CommitInsert
    <3>8. \A g \in DOMAIN scored' : g < count + Len(rows)
      BY <1>0, <3>3, <3>6, <3>7
    <3>9. \A g \in DOMAIN scored' : scored'[g] \in Schedules
      <4> SUFFICES ASSUME NEW g \in DOMAIN scored'
                   PROVE scored'[g] \in Schedules
        OBVIOUS
      <4>1. scored'[g] = IF count <= g /\ g < count + Len(rows) THEN rows[g - count + 1] ELSE scored[g]
        BY <3>5 DEF ScoreRows
      <4>2. CASE count <= g /\ g < count + Len(rows)
        <5>1. g - count + 1 \in 1 .. Len(rows)
          BY <1>0, <3>3, <3>6, <4>2
        <5> QED
          BY <3>3, <4>1, <4>2, <5>1
      <4>3. CASE ~(count <= g /\ g < count + Len(rows))
        <5>1. g \in DOMAIN scored
          BY <1>0, <3>3, <3>6, <4>3
        <5> QED
          BY <4>1, <4>3, <5>1 DEF ScoredInv
      <4> QED
        BY <4>2, <4>3
    <3> QED
      BY <1>1, <3>2, <3>4, <3>5, <3>8, <3>9 DEF ScoredInv
  <2>3. CASE CountInsert(w)
    <3>1. PICK rows : rows = insert[w].rows
      OBVIOUS
    <3>2. /\ clearing = "no" /\ rows \in Rows /\ count + Len(rows) <= MaxCount /\ Len(rows) \in Nat
          /\ \A v \in Writers : v # w => insert[v].pc = "idle"
      BY <2>3, <3>1, RowsType DEF CountInsert, RepositoryInv, OneWriter, ScoredInv
    <3>3. count' = count + Len(rows) /\ scored' = scored
      BY <2>3, <3>1 DEF CountInsert
    <3>4. \A v \in Writers : insert'[v].pc = "idle"
      BY <2>3, <3>2 DEF CountInsert, NoInsert, RepositoryInv, RepositoryType
    <3>5. \A g \in DOMAIN scored : g < count + Len(rows)
      BY <1>0, <3>1, <3>2 DEF ScoredInv
    <3> QED
      BY <1>1, <3>2, <3>3, <3>4, <3>5 DEF ScoredInv
  <2>4. CASE FailInsert(w)
    <3>1. \A v \in Writers : v # w => insert[v].pc = "idle"
      BY <2>4 DEF FailInsert, RepositoryInv, OneWriter
    <3>2. \A v \in Writers : insert'[v].pc = "idle"
      BY <2>4, <3>1 DEF FailInsert, NoInsert, RepositoryInv, RepositoryType
    <3>3. \A g \in DOMAIN scored : g < count
      BY <2>4, <3>1 DEF ScoredInv, FailInsert
    <3> QED
      BY <1>1, <2>4, <3>2, <3>3 DEF ScoredInv, FailInsert
  <2> QED
    BY <1>1, <2>1, <2>2, <2>3, <2>4 DEF InsertStep
<1>2. CASE ClearStep
  <2>1. CASE clearing = "no" /\ NobodyInserts /\ ClearRows /\ clearing' = "signatures"
    <3>1. scored' = Empty /\ DOMAIN scored' = {} /\ count' = count /\ insert' = insert
      BY <2>1 DEF ClearRows, Empty
    <3> QED
      BY <2>1, <3>1 DEF ScoredInv
  <2>2. CASE clearing = "signatures" /\ ClearSignatures /\ clearing' = "count"
    BY <2>2 DEF ClearSignatures, ScoredInv
  <2>3. CASE clearing = "count" /\ ClearCount /\ clearing' = "no"
    <3>1. \A w \in Writers : insert[w].pc = "idle"
      BY <2>3 DEF RepositoryInv, OneWriter
    <3> QED
      BY <1>0, <2>3, <3>1 DEF ClearCount, ScoredInv
  <2> QED
    BY <1>2, <2>1, <2>2, <2>3 DEF ClearStep
<1>3. ASSUME UNCHANGED <<scored, count, insert, clearing>>
      PROVE ScoredInv'
  BY <1>3 DEF ScoredInv
<1>4. ASSUME NEW order \in Orders, IndexStep(order), UNCHANGED clearing
      PROVE ScoredInv'
  BY <1>3, <1>4 DEF IndexStep, BuildIndex, SignIndex
<1>5. CASE UNCHANGED storeVars
  BY <1>3, <1>5
<1> QED
  BY <1>1, <1>2, <1>4, <1>5 DEF RepositoryNext

\* The row is found in the batch it lies in.
LEMMA StoredRow ==
    ASSUME RepositoryInv, NEW g, Stored(g)
    PROVE /\ HasRow(g) /\ RowAt(g) \in Schedules
          /\ \E b \in batches : Covers(b, g) /\ RowAt(g) = b.rows[g - b.first + 1]
<1>1. PICK b \in batches : Covers(b, g) /\ \A c \in batches : Covers(c, g) => c = b
  BY DEF Stored
<1>2. BatchesOf(g) = {b}
  BY <1>1 DEF BatchesOf
<1>3. HasRow(g)
  BY <1>2 DEF HasRow
<1>4. g \in Nat /\ b.first \in Nat /\ b.rows \in Rows
  BY <1>1 DEF Stored, RepositoryInv, RepositoryType
<1>5. RowAt(g) = b.rows[g - b.first + 1]
  <2>1. PICK x : x = CHOOSE d \in BatchesOf(g) : \A c \in BatchesOf(g) : d.first <= c.first
    OBVIOUS
  <2>2. \E d \in BatchesOf(g) : \A c \in BatchesOf(g) : d.first <= c.first
    BY <1>2, <1>4
  <2>3. x \in BatchesOf(g)
    BY <2>1, <2>2
  <2>4. x = b
    BY <1>2, <2>3
  <2> QED
    BY <2>1, <2>4 DEF RowAt
<1>6. g - b.first + 1 \in 1 .. Len(b.rows)
  BY <1>1, <1>4, CoverBelow
<1>7. RowAt(g) \in Schedules
  BY <1>4, <1>5, <1>6, RowsType
<1> QED
  BY <1>1, <1>3, <1>5, <1>7

\* Whatever row there is is a schedule, stored twice or once.
LEMMA RowIsSchedule ==
    ASSUME RepositoryInv, NEW g \in Nat, HasRow(g)
    PROVE RowAt(g) \in Schedules
<1>1. BatchesOf(g) # {} /\ \A b \in BatchesOf(g) : b \in batches /\ Covers(b, g) /\ b.first \in Nat /\ b.rows \in Rows
  BY DEF HasRow, BatchesOf, RepositoryInv, RepositoryType
<1>2. PICK F : F = {b.first : b \in BatchesOf(g)}
  OBVIOUS
<1>3. F \in SUBSET Nat /\ F # {}
  BY <1>1, <1>2
<1>4. PICK m \in F : \A n \in F : m <= n
  BY <1>3, HasLeast
<1>5. \E d \in BatchesOf(g) : \A c \in BatchesOf(g) : d.first <= c.first
  BY <1>2, <1>4
<1>6. PICK x : x = CHOOSE d \in BatchesOf(g) : \A c \in BatchesOf(g) : d.first <= c.first
  OBVIOUS
<1>7. x \in BatchesOf(g)
  BY <1>5, <1>6
<1>8. x.first \in Nat /\ x.rows \in Rows /\ Covers(x, g)
  BY <1>1, <1>7
<1>9. g - x.first + 1 \in 1 .. Len(x.rows)
  BY <1>8, CoverBelow
<1>10. RowAt(g) = x.rows[g - x.first + 1]
  BY <1>6 DEF RowAt
<1> QED
  BY <1>8, <1>9, <1>10, RowsType

\* What is counted is stored.
LEMMA CountedIsStored ==
    ASSUME RepositoryInv, clearing = "no", NEW g \in 0 .. count - 1
    PROVE Stored(g) /\ g \in DOMAIN scored
<1>1. g \in DOMAIN scored /\ \E b \in batches : Covers(b, g) /\ \A c \in batches : Covers(c, g) => c = b
  BY DEF RepositoryInv, CountedAreStored
<1> QED
  BY <1>1 DEF Stored, RepositoryInv, RepositoryType

\* What has scores is stored.
LEMMA ScoredIsStored ==
    ASSUME RepositoryInv, ScoredInv, NEW g \in DOMAIN scored
    PROVE Stored(g)
<1>1. g \in Nat /\ count \in Nat /\ clearing = "no"
  BY DEF RepositoryInv, RepositoryType, ScoredInv
<1>2. CASE g < count
  BY <1>1, <1>2, CountedIsStored
<1>3. CASE ~(g < count)
  <2>1. PICK w \in Writers : insert[w].pc = "committed" /\ g < count + Len(insert[w].rows)
    BY <1>3 DEF ScoredInv
  <2>2. /\ Batch(count, insert[w].rows) \in batches
        /\ \A b \in batches : b # Batch(count, insert[w].rows) => EndOf(b) <= count
    BY <2>1 DEF RepositoryInv, CommittedIsNext
  <2>3. insert[w].rows \in Rows /\ Len(insert[w].rows) \in Nat
    BY <2>1, RowsType DEF RepositoryInv, OneWriter
  <2>4. Covers(Batch(count, insert[w].rows), g)
    BY <1>1, <1>3, <2>1, <2>3 DEF Covers, EndOf, Batch
  <2>5. \A c \in batches : Covers(c, g) => c = Batch(count, insert[w].rows)
    <3> SUFFICES ASSUME NEW c \in batches, Covers(c, g), c # Batch(count, insert[w].rows)
                 PROVE FALSE
      OBVIOUS
    <3>1. EndOf(c) <= count /\ g < EndOf(c) /\ EndOf(c) \in Nat
      BY <1>1, <2>2, CoverBelow DEF RepositoryInv, RepositoryType
    <3> QED
      BY <1>1, <1>3, <3>1
  <2> QED
    BY <1>1, <2>2, <2>4, <2>5 DEF Stored
<1> QED
  BY <1>2, <1>3

\* An insert leaves what is stored where it is.
LEMMA InsertKeepsStored ==
    ASSUME RepositoryInv, RepositoryInv', NEW w \in Writers, InsertStep(w)
    PROVE /\ \A g : Stored(g) => Stored(g)' /\ RowAt(g)' = RowAt(g)
          /\ count' \in Nat /\ count \in Nat /\ count' >= count
<1>1. ASSUME NEW g, Stored(g), \/ batches' = batches
                               \/ \E rows \in Rows : /\ batches' = batches \cup {Batch(count, rows)}
                                                     /\ \A b \in batches : EndOf(b) <= count
      PROVE Stored(g)' /\ RowAt(g)' = RowAt(g)
  <2>1. PICK b \in batches : Covers(b, g) /\ \A c \in batches : Covers(c, g) => c = b
    BY <1>1 DEF Stored
  <2>2. g \in Nat /\ b.first \in Nat /\ b.rows \in Rows /\ count \in Nat
    BY <1>1, <2>1 DEF Stored, RepositoryInv, RepositoryType
  <2>3. b \in batches' /\ \A c \in batches' : Covers(c, g) => c = b
    <3>1. CASE batches' = batches
      BY <2>1, <3>1
    <3>2. CASE \E rows \in Rows : /\ batches' = batches \cup {Batch(count, rows)}
                                  /\ \A c \in batches : EndOf(c) <= count
      <4>1. PICK rows \in Rows : /\ batches' = batches \cup {Batch(count, rows)}
                                 /\ \A c \in batches : EndOf(c) <= count
        BY <3>2
      <4>2. g < count
        <5>1. EndOf(b) <= count /\ g < EndOf(b) /\ EndOf(b) \in Nat
          BY <2>1, <2>2, <4>1, CoverBelow
        <5> QED
          BY <2>2, <5>1
      <4>3. ~Covers(Batch(count, rows), g)
        BY <2>2, <4>2 DEF Covers, Batch
      <4> QED
        BY <2>1, <4>1, <4>3
    <3> QED
      BY <1>1, <3>1, <3>2
  <2>4. Stored(g)'
    BY <2>1, <2>2, <2>3 DEF Stored, Covers, EndOf
  <2>5. BatchesOf(g) = {b} /\ BatchesOf(g)' = {b}
    BY <2>1, <2>3 DEF BatchesOf, Covers, EndOf
  <2>6. RowAt(g)' = RowAt(g)
    BY <2>5 DEF RowAt
  <2> QED
    BY <2>4, <2>6
<1>2. \/ batches' = batches
      \/ \E rows \in Rows : batches' = batches \cup {Batch(count, rows)} /\ \A b \in batches : EndOf(b) <= count
  <2>1. ASSUME insert[w].pc = "offset"
        PROVE insert[w].first = count /\ insert[w].rows \in Rows /\ \A b \in batches : EndOf(b) <= count
    BY <2>1 DEF RepositoryInv, OneWriter, OffsetIsFree
  <2> QED
    BY <2>1 DEF InsertStep, ReadOffset, CommitInsert, CountInsert, FailInsert
<1>3. count' \in Nat /\ count \in Nat /\ count' >= count
  <2>1. count \in Nat /\ count' \in Nat
    BY DEF RepositoryInv, RepositoryType
  <2>2. insert[w].pc = "committed" => insert[w].rows \in Rows /\ Len(insert[w].rows) \in Nat
    BY RowsType DEF RepositoryInv, OneWriter
  <2> QED
    BY <2>1, <2>2 DEF InsertStep, ReadOffset, CommitInsert, CountInsert, FailInsert
<1> QED
  BY <1>1, <1>2, <1>3

-----------------------------------------------------------------------------
(* The window *)

\* How many schedules a page has: at most as many as fit in the window, and in the order of
\* the generation those of its numbers that are counted.
LEMMA SizeOfWindow ==
    ASSUME NEW w, TypedWindow(w), count \in Nat
    PROVE /\ current_window_size(w) \in 0 .. WindowSize
          /\ ~w.sorted => \A i \in Nat :
                i < current_window_size(w) <=> i < WindowSize /\ w.page * WindowSize + i < count
          /\ ~w.sorted /\ w.page * WindowSize < count => current_window_size(w) > 0
<1>1. PICK a : a = w.page * WindowSize
  OBVIOUS
<1>2. w.page \in Nat /\ WindowSize \in Nat \ {0}
  BY WindowAssumption DEF TypedWindow
<1>3. a \in Nat /\ (w.page + 1) * WindowSize = a + WindowSize
  BY <1>1, <1>2
<1>4. CASE w.sorted
  <2>1. current_window_size(w) = Len(w.ids)
    BY <1>4 DEF current_window_size
  <2>2. Len(w.ids) \in Nat /\ Len(w.ids) <= WindowSize
    BY DEF TypedWindow, IsPage
  <2>3. current_window_size(w) \in 0 .. WindowSize
    BY <1>2, <2>1, <2>2
  <2> QED
    BY <1>4, <2>3
<1>5. CASE ~w.sorted
  <2>1. current_window_size(w) = IF count <= a THEN 0 ELSE IF count < a + WindowSize THEN count - a ELSE WindowSize
    BY <1>1, <1>3, <1>5 DEF current_window_size
  <2>2. PICK n : n = current_window_size(w)
    OBVIOUS
  <2>3. n \in 0 .. WindowSize /\ \A i \in Nat : i < n <=> i < WindowSize /\ a + i < count
    BY <1>2, <1>3, <2>1, <2>2
  <2>4. a < count => n > 0
    BY <1>2, <1>3, <2>1, <2>2
  <2> QED
    BY <1>1, <2>2, <2>3, <2>4
<1> QED
  BY <1>4, <1>5

\* A page does not shrink while schedules come in.
LEMMA WindowGrows ==
    ASSUME NEW w, TypedWindow(w), count \in Nat, count' \in Nat, count' >= count
    PROVE current_window_size(w)' >= current_window_size(w)
<1>1. PICK a : a = w.page * WindowSize
  OBVIOUS
<1>2. w.page \in Nat /\ WindowSize \in Nat \ {0}
  BY WindowAssumption DEF TypedWindow
<1>3. a \in Nat /\ (w.page + 1) * WindowSize = a + WindowSize
  BY <1>1, <1>2
<1>4. CASE w.sorted
  <2>1. current_window_size(w) = Len(w.ids) /\ current_window_size(w)' = Len(w.ids)
    BY <1>4 DEF current_window_size
  <2>2. Len(w.ids) \in Nat
    BY DEF TypedWindow, IsPage
  <2> QED
    BY <2>1, <2>2
<1>5. CASE ~w.sorted
  <2>1. current_window_size(w) = IF count <= a THEN 0 ELSE IF count < a + WindowSize THEN count - a ELSE WindowSize
    BY <1>1, <1>3, <1>5 DEF current_window_size
  <2>2. current_window_size(w)' = IF count' <= a THEN 0 ELSE IF count' < a + WindowSize THEN count' - a ELSE WindowSize
    BY <1>1, <1>3, <1>5 DEF current_window_size
  <2>3. PICK m : m = current_window_size(w)
    OBVIOUS
  <2>4. PICK n : n = current_window_size(w)'
    OBVIOUS
  <2>5. PICK c : c = count'
    OBVIOUS
  <2>6. /\ m = IF count <= a THEN 0 ELSE IF count < a + WindowSize THEN count - a ELSE WindowSize
        /\ n = IF c <= a THEN 0 ELSE IF c < a + WindowSize THEN c - a ELSE WindowSize
        /\ c \in Nat /\ c >= count
    BY <2>1, <2>2, <2>3, <2>4, <2>5
  <2>7. n >= m
    BY <1>2, <1>3, <2>6
  <2> QED
    BY <2>3, <2>4, <2>7
<1> QED
  BY <1>4, <1>5

\* What the window lists is stored.
LEMMA WindowRows ==
    ASSUME RepositoryInv, clearing = "no", NEW w, TypedWindow(w), ValidWindow(w),
           NEW i \in Nat, i < current_window_size(w)
    PROVE Stored(GlobalId(w, i))
<1>0. count \in Nat
  BY DEF RepositoryInv, RepositoryType
<1>1. CASE w.sorted
  <2>1. current_window_size(w) = Len(w.ids) /\ GlobalId(w, i) = w.ids[i + 1]
    BY <1>1 DEF current_window_size, GlobalId
  <2>2. w.ids \in Seq(Nat) /\ DOMAIN w.ids = 1 .. Len(w.ids) /\ Len(w.ids) \in Nat
    BY DEF TypedWindow, IsPage
  <2>3. i + 1 \in DOMAIN w.ids
    BY <2>1, <2>2
  <2> QED
    BY <2>1, <2>3 DEF ValidWindow
<1>2. CASE ~w.sorted
  <2>1. PICK g : g = w.page * WindowSize + i
    OBVIOUS
  <2>2. GlobalId(w, i) = g
    BY <1>2, <2>1 DEF GlobalId
  <2>3. g < count
    BY <1>0, <1>2, <2>1, SizeOfWindow
  <2>4. g \in Nat
    <3>1. PICK a : a = w.page * WindowSize
      OBVIOUS
    <3>2. a \in Nat
      BY <3>1, WindowAssumption DEF TypedWindow
    <3> QED
      BY <2>1, <3>1, <3>2
  <2>5. g \in 0 .. count - 1
    BY <1>0, <2>3, <2>4
  <2> QED
    BY <2>2, <2>5, CountedIsStored
<1> QED
  BY <1>1, <1>2

\* The index of a schedule in the page stands for a number.
LEMMA GlobalIdType ==
    ASSUME count \in Nat, NEW w, TypedWindow(w), NEW i \in Nat, i < current_window_size(w)
    PROVE GlobalId(w, i) \in Nat
<1>1. CASE w.sorted
  <2>1. current_window_size(w) = Len(w.ids) /\ GlobalId(w, i) = w.ids[i + 1]
    BY <1>1 DEF current_window_size, GlobalId
  <2>2. w.ids \in Seq(Nat) /\ DOMAIN w.ids = 1 .. Len(w.ids) /\ Len(w.ids) \in Nat
    BY DEF TypedWindow, IsPage
  <2>3. i + 1 \in 1 .. Len(w.ids)
    BY <2>1, <2>2
  <2> QED
    BY <2>1, <2>2, <2>3
<1>2. CASE ~w.sorted
  <2>1. PICK a : a = w.page * WindowSize
    OBVIOUS
  <2>2. a \in Nat
    BY <2>1, WindowAssumption DEF TypedWindow
  <2>3. GlobalId(w, i) = a + i
    BY <1>2, <2>1 DEF GlobalId
  <2> QED
    BY <2>2, <2>3
<1> QED
  BY <1>1, <1>2

\* A window in which one more schedule was looked at.
LEMMA LookedIs ==
    ASSUME NEW w, IsWindow(w), NEW i
    PROVE /\ IsWindow(Looked(w, i))
          /\ Looked(w, i).page = w.page /\ Looked(w, i).priority = w.priority
          /\ Looked(w, i).sorted = w.sorted /\ Looked(w, i).ids = w.ids
          /\ DOMAIN Looked(w, i).cache = DOMAIN w.cache \cup {i}
          /\ \A j \in DOMAIN w.cache \cup {i} :
                Looked(w, i).cache[j] = IF j = i THEN get_schedule(w, i) ELSE w.cache[j]
<1>1. PICK c : c = [j \in DOMAIN w.cache \cup {i} |-> IF j = i THEN get_schedule(w, i) ELSE w.cache[j]]
  OBVIOUS
<1>2. PICK b : b = w.sorted
  OBVIOUS
<1>3. w = [page |-> w.page, priority |-> w.priority, sorted |-> b, ids |-> w.ids, cache |-> w.cache]
  BY <1>2 DEF IsWindow
<1>4. Looked(w, i) = [page |-> w.page, priority |-> w.priority, sorted |-> b, ids |-> w.ids, cache |-> c]
  BY <1>1, <1>3 DEF Looked
<1> QED
  BY <1>1, <1>2, <1>4 DEF IsWindow

\* Looking at a schedule keeps the window, and remembers what is stored there.
LEMMA LookedKeeps ==
    ASSUME RepositoryInv, NEW w, TypedWindow(w), NEW i \in Nat, CanGet(w, i)
    PROVE /\ get_schedule(w, i) \in Schedules
          /\ TypedWindow(Looked(w, i))
          /\ current_window_size(Looked(w, i)) = current_window_size(w)
          /\ \A j : GlobalId(Looked(w, i), j) = GlobalId(w, j)
          /\ clearing = "no" /\ ValidWindow(w) =>
                /\ ValidWindow(Looked(w, i)) /\ Stored(GlobalId(w, i))
                /\ get_schedule(w, i) = RowAt(GlobalId(w, i))
<1>0. count \in Nat
  BY DEF RepositoryInv, RepositoryType
<1>1. i < current_window_size(w) /\ (i \in DOMAIN w.cache \/ HasRow(GlobalId(w, i)))
  BY DEF CanGet
<1>2. GlobalId(w, i) \in Nat
  BY <1>0, <1>1, GlobalIdType
<1>3. get_schedule(w, i) \in Schedules
  <2>1. CASE i \in DOMAIN w.cache
    BY <2>1 DEF get_schedule, TypedWindow
  <2>2. CASE i \notin DOMAIN w.cache
    BY <1>1, <1>2, <2>2, RowIsSchedule DEF get_schedule
  <2> QED
    BY <2>1, <2>2
<1>4. PICK v : v = Looked(w, i)
  OBVIOUS
<1>5. /\ IsWindow(v) /\ v.page = w.page /\ v.priority = w.priority /\ v.sorted = w.sorted /\ v.ids = w.ids
      /\ DOMAIN v.cache = DOMAIN w.cache \cup {i}
      /\ \A j \in DOMAIN w.cache \cup {i} : v.cache[j] = IF j = i THEN get_schedule(w, i) ELSE w.cache[j]
  BY <1>4, LookedIs DEF TypedWindow
<1>6. TypedWindow(v)
  <2>1. DOMAIN v.cache \subseteq Nat /\ \A j \in DOMAIN v.cache : v.cache[j] \in Schedules
    BY <1>3, <1>5 DEF TypedWindow
  <2>2. v.page \in Nat /\ IsPage(v.ids) /\ v.sorted \in BOOLEAN /\ (v.priority = <<>> => ~v.sorted)
    BY <1>5 DEF TypedWindow
  <2> QED
    BY <1>5, <2>1, <2>2 DEF TypedWindow
<1>7. current_window_size(v) = current_window_size(w)
  BY <1>5 DEF current_window_size
<1>8. \A j : GlobalId(v, j) = GlobalId(w, j)
  BY <1>5 DEF GlobalId
<1>9. ASSUME clearing = "no", ValidWindow(w)
      PROVE /\ ValidWindow(v) /\ Stored(GlobalId(w, i))
            /\ get_schedule(w, i) = RowAt(GlobalId(w, i))
  <2>1. Stored(GlobalId(w, i))
    BY <1>1, <1>9, WindowRows
  <2>2. get_schedule(w, i) = RowAt(GlobalId(w, i))
    BY <1>9 DEF get_schedule, ValidWindow
  <2>3. \A j \in DOMAIN v.cache :
            /\ j < current_window_size(v) /\ Stored(GlobalId(v, j))
            /\ v.cache[j] = RowAt(GlobalId(v, j))
    BY <1>1, <1>5, <1>7, <1>8, <1>9, <2>1, <2>2 DEF ValidWindow
  <2>4. \A j \in DOMAIN v.ids : Stored(v.ids[j])
    BY <1>5, <1>9 DEF ValidWindow
  <2> QED
    BY <2>1, <2>2, <2>3, <2>4 DEF ValidWindow
<1> QED
  BY <1>3, <1>4, <1>6, <1>7, <1>8, <1>9

\* What show_current shows: in a valid window the schedule that is selected.
LEMMA ShowCurrentShows ==
    ASSUME RepositoryInv, NEW w, TypedWindow(w), NEW p, TypedPaging(p), ShowCurrent(w, p),
           shown.what \in Schedules \cup {Nothing, Failed}
    PROVE \E v, s :
            /\ win' = v /\ shown' = s /\ pag' = p
            /\ TypedWindow(v) /\ s.what \in Schedules \cup {Nothing, Failed}
            /\ v.page = w.page /\ v.priority = w.priority /\ v.ids = w.ids
            /\ current_window_size(v) = current_window_size(w)
            /\ clearing = "no" /\ ValidWindow(w) =>
                  /\ ValidWindow(v)
                  /\ p.total > 0 /\ p.idx < p.total /\ p.total <= current_window_size(w) =>
                        Stored(GlobalId(v, p.idx)) /\ Shows(s, v, p)
<1>0. p.idx \in Nat /\ p.total \in Nat /\ count \in Nat
  BY WindowAssumption DEF TypedPaging, RepositoryInv, RepositoryType
<1>1. CASE p.total = 0
  <2>1. win' = w /\ shown' = shown /\ pag' = p
    BY <1>1 DEF ShowCurrent
  <2>2. PICK s : s = shown
    OBVIOUS
  <2> QED
    BY <1>0, <1>1, <2>1, <2>2
<1>2. CASE p.total # 0 /\ CanGet(w, p.idx)
  <2>1. PICK v : v = Looked(w, p.idx)
    OBVIOUS
  <2>2. PICK s : s = [what |-> get_schedule(w, p.idx), period |-> p.period]
    OBVIOUS
  <2>3. win' = v /\ shown' = s /\ pag' = p
    BY <1>2, <2>1, <2>2 DEF ShowCurrent
  <2>4. TypedWindow(v) /\ s.what \in Schedules /\ current_window_size(v) = current_window_size(w)
    BY <1>0, <1>2, <2>1, <2>2, LookedKeeps
  <2>5. v.page = w.page /\ v.priority = w.priority /\ v.ids = w.ids
    BY <2>1, LookedIs DEF TypedWindow
  <2>6. ASSUME clearing = "no", ValidWindow(w)
        PROVE ValidWindow(v) /\ Stored(GlobalId(v, p.idx)) /\ Shows(s, v, p)
    <3>1. ValidWindow(v) /\ Stored(GlobalId(v, p.idx)) /\ s.what = RowAt(GlobalId(v, p.idx))
      BY <1>0, <1>2, <2>1, <2>2, <2>6, LookedKeeps
    <3>2. s = [what |-> RowAt(GlobalId(v, p.idx)), period |-> p.period]
      BY <2>2, <3>1
    <3> QED
      BY <3>1, <3>2 DEF Shows
  <2> QED
    BY <2>3, <2>4, <2>5, <2>6
<1>3. CASE p.total # 0 /\ ~CanGet(w, p.idx)
  <2>1. PICK s : s = [what |-> Failed, period |-> p.period]
    OBVIOUS
  <2>2. win' = w /\ shown' = s /\ pag' = p
    BY <1>3, <2>1 DEF ShowCurrent
  <2>3. s.what = Failed
    BY <2>1
  <2>4. ASSUME clearing = "no", ValidWindow(w), p.idx < p.total, p.total <= current_window_size(w)
        PROVE FALSE
    <3>1. p.idx < current_window_size(w)
      BY <1>0, <2>4, SizeOfWindow
    <3>2. HasRow(GlobalId(w, p.idx))
      BY <1>0, <2>4, <3>1, WindowRows, StoredRow
    <3> QED
      BY <1>0, <1>3, <3>1, <3>2 DEF CanGet
  <2> QED
    BY <2>2, <2>3, <2>4
<1> QED
  BY <1>1, <1>2, <1>3

-----------------------------------------------------------------------------
(* The pages *)

\* The rows of the score table are finitely many, and the counted ones are among them.
LEMMA ScoredRows ==
    ASSUME RepositoryInv, ScoredInv
    PROVE /\ DOMAIN scored \subseteq 0 .. MaxCount - 1 /\ IsFiniteSet(DOMAIN scored)
          /\ DOMAIN scored \subseteq Nat /\ scored \in [DOMAIN scored -> Schedules]
          /\ clearing = "no" => count <= Cardinality(DOMAIN scored)
<1>1. count \in Nat /\ MaxCount \in Nat /\ DOMAIN scored \subseteq Nat
  BY RepositoryAssumption DEF RepositoryInv, RepositoryType
<1>2. \A g \in DOMAIN scored : g < MaxCount
  <2> SUFFICES ASSUME NEW g \in DOMAIN scored
               PROVE g < MaxCount
    OBVIOUS
  <2>1. CASE g < count
    BY <1>1, <2>1 DEF ScoredInv
  <2>2. CASE ~(g < count)
    <3>1. PICK w \in Writers : insert[w].pc = "committed" /\ g < count + Len(insert[w].rows)
      BY <2>2 DEF ScoredInv
    <3>2. count + Len(insert[w].rows) <= MaxCount
      BY <3>1 DEF ScoredInv
    <3>3. Len(insert[w].rows) \in Nat
      BY <3>1, RowsType DEF RepositoryInv, OneWriter
    <3> QED
      BY <1>1, <3>1, <3>2, <3>3
  <2> QED
    BY <2>1, <2>2
<1>3. DOMAIN scored \subseteq 0 .. MaxCount - 1
  BY <1>1, <1>2
<1>4. IsFiniteSet(DOMAIN scored)
  <2>1. IsFiniteSet(0 .. MaxCount - 1)
    BY <1>1, FS_Interval
  <2> QED
    BY <1>3, <2>1, FS_Subset
<1>5. scored \in [DOMAIN scored -> Schedules]
  BY DEF RepositoryInv, RepositoryType, ScoredInv
<1>6. ASSUME clearing = "no"
      PROVE count <= Cardinality(DOMAIN scored)
  <2>1. 0 .. count - 1 \in SUBSET DOMAIN scored
    BY <1>6, CountedIsStored
  <2>2. Cardinality(0 .. count - 1) = count
    <3>1. Cardinality(0 .. count - 1) = IF 0 > count - 1 THEN 0 ELSE (count - 1) - 0 + 1
      BY <1>1, FS_Interval
    <3> QED
      BY <1>1, <3>1
  <2> QED
    BY <1>4, <2>1, <2>2, FS_Subset
<1> QED
  BY <1>1, <1>3, <1>4, <1>5, <1>6

\* A sorted page lists what is stored, and is empty only behind what was counted.
LEMMA SortedPage ==
    ASSUME RepositoryInv, ScoredInv, NEW order, IsOrder(order), NEW page \in Nat
    PROVE /\ IsPage(get_sorted_ids_page(order, page))
          /\ \A j \in DOMAIN get_sorted_ids_page(order, page) : Stored(get_sorted_ids_page(order, page)[j])
          /\ clearing = "no" /\ page * WindowSize < count => get_sorted_ids_page(order, page) # <<>>
<1>1. /\ IsFiniteSet(DOMAIN scored) /\ DOMAIN scored \subseteq Nat /\ scored \in [DOMAIN scored -> Schedules]
      /\ clearing = "no" => count <= Cardinality(DOMAIN scored)
  BY ScoredRows
<1>2. /\ SortedIds(order) \in Seq(DOMAIN scored) /\ Len(SortedIds(order)) = Cardinality(DOMAIN scored)
      /\ Cardinality(DOMAIN scored) \in Nat
  BY <1>1, SortedIdsAreRows
<1>3. PICK ids : ids = get_sorted_ids_page(order, page)
  OBVIOUS
<1>4. /\ ids \in Seq(DOMAIN scored) /\ Len(ids) <= WindowSize
      /\ page * WindowSize < Cardinality(DOMAIN scored) => ids # <<>>
  BY <1>2, <1>3, SliceIsPart DEF get_sorted_ids_page
<1>5. \A j \in DOMAIN ids : ids[j] \in DOMAIN scored
  BY <1>4
<1>6. \A j \in DOMAIN ids : Stored(ids[j])
  BY <1>5, ScoredIsStored
<1>7. IsPage(ids)
  BY <1>1, <1>4 DEF IsPage
<1>8. ASSUME clearing = "no", page * WindowSize < count
      PROVE ids # <<>>
  <2>1. PICK a : a = page * WindowSize
    OBVIOUS
  <2>2. a \in Nat /\ a < count /\ count <= Cardinality(DOMAIN scored) /\ count \in Nat
    BY <1>1, <1>8, <2>1, WindowAssumption DEF RepositoryInv, RepositoryType
  <2>3. a < Cardinality(DOMAIN scored)
    BY <1>2, <2>2
  <2> QED
    BY <1>4, <2>1, <2>3
<1> QED
  BY <1>3, <1>6, <1>7, <1>8

\* The page that is read for a window.
LEMMA LoadedPage ==
    ASSUME RepositoryInv, ScoredInv, NEW w, TypedWindow(w), IsOrder(w.priority)
    PROVE \E v : /\ LoadCurrentPage(w) = v /\ TypedWindow(v) /\ ValidWindow(v)
                 /\ v.page = w.page /\ v.priority = w.priority
                 /\ v.priority # <<>> => v.ids = get_sorted_ids_page(v.priority, v.page)
                 /\ clearing = "no" /\ w.page * WindowSize < count => current_window_size(v) > 0
<1>0. count \in Nat /\ w.page \in Nat /\ DOMAIN Empty = {}
  BY DEF RepositoryInv, RepositoryType, TypedWindow, Empty
<1>1. PICK b : b = w.sorted
  OBVIOUS
<1>2. w = [page |-> w.page, priority |-> w.priority, sorted |-> b, ids |-> w.ids, cache |-> w.cache]
  BY <1>1 DEF TypedWindow, IsWindow
<1>3. CASE w.priority = <<>>
  <2>1. PICK v : v = [page |-> w.page, priority |-> w.priority, sorted |-> FALSE, ids |-> <<>>, cache |-> Empty]
    OBVIOUS
  <2>2. ~w.sorted /\ w.sorted \in BOOLEAN
    BY <1>3 DEF TypedWindow
  <2>3. b = FALSE
    BY <1>1, <2>2
  <2>4. LoadCurrentPage(w) = [w EXCEPT !.ids = <<>>, !.cache = Empty]
    BY <1>3 DEF LoadCurrentPage
  <2>5. LoadCurrentPage(w) = v
    <3>1. PICK none : none = <<>>
      OBVIOUS
    <3>2. LoadCurrentPage(w) = [w EXCEPT !.ids = none, !.cache = Empty]
      BY <2>4, <3>1
    <3>3. LoadCurrentPage(w) =
            [page |-> w.page, priority |-> w.priority, sorted |-> b, ids |-> none, cache |-> Empty]
      <4>1. PICK x, y, i, c : x = w.page /\ y = w.priority /\ i = w.ids /\ c = w.cache
        OBVIOUS
      <4>2. w = [page |-> x, priority |-> y, sorted |-> b, ids |-> i, cache |-> c]
        BY <1>2, <4>1
      <4>3. PICK u : u = [w EXCEPT !.ids = none]
        OBVIOUS
      <4>4. u = [page |-> x, priority |-> y, sorted |-> b, ids |-> none, cache |-> c]
        BY <4>2, <4>3
      <4>5. [u EXCEPT !.cache = Empty]
              = [page |-> x, priority |-> y, sorted |-> b, ids |-> none, cache |-> Empty]
        BY <4>4
      <4>6. [w EXCEPT !.ids = none, !.cache = Empty] = [u EXCEPT !.cache = Empty]
        BY <4>3
      <4> QED
        BY <3>2, <4>1, <4>5, <4>6
    <3> QED
      BY <2>1, <2>3, <3>1, <3>3
  <2>6. /\ v.page = w.page /\ v.priority = w.priority /\ v.sorted = FALSE /\ v.ids = <<>> /\ v.cache = Empty
        /\ IsWindow(v)
    BY <2>1 DEF IsWindow
  <2>7. IsPage(v.ids) /\ DOMAIN v.ids = {}
    BY <2>6, WindowAssumption DEF IsPage
  <2>8. TypedWindow(v) /\ ValidWindow(v)
    BY <1>0, <2>6, <2>7 DEF TypedWindow, ValidWindow
  <2>9. w.page * WindowSize < count => current_window_size(v) > 0
    BY <1>0, <2>6, <2>8, SizeOfWindow
  <2> QED
    BY <1>3, <2>5, <2>6, <2>8, <2>9
<1>4. CASE w.priority # <<>>
  <2>1. PICK ids : ids = get_sorted_ids_page(w.priority, w.page)
    OBVIOUS
  <2>2. /\ IsPage(ids) /\ \A j \in DOMAIN ids : Stored(ids[j])
        /\ clearing = "no" /\ w.page * WindowSize < count => ids # <<>>
    BY <1>0, <2>1, SortedPage
  <2>3. PICK c \in BOOLEAN : c = (ids # <<>>)
    OBVIOUS
  <2>4. PICK v : v = [page |-> w.page, priority |-> w.priority, sorted |-> c, ids |-> ids, cache |-> Empty]
    OBVIOUS
  <2>5. LoadCurrentPage(w) = [w EXCEPT !.ids = ids, !.sorted = c, !.cache = Empty]
    BY <1>4, <2>1, <2>3 DEF LoadCurrentPage
  <2>6. LoadCurrentPage(w) = v
    BY <1>2, <2>4, <2>5
  <2>7. /\ v.page = w.page /\ v.priority = w.priority /\ v.sorted = c /\ v.ids = ids /\ v.cache = Empty
        /\ IsWindow(v)
    BY <2>4 DEF IsWindow
  <2>8. TypedWindow(v) /\ ValidWindow(v)
    BY <1>0, <1>4, <2>2, <2>7 DEF TypedWindow, ValidWindow
  <2>9. ASSUME clearing = "no", w.page * WindowSize < count
        PROVE current_window_size(v) > 0
    <3>1. ids # <<>> /\ ids \in Seq(Nat) /\ v.sorted
      BY <2>2, <2>3, <2>7, <2>9 DEF IsPage
    <3>2. Len(ids) > 0
      BY <3>1
    <3>3. current_window_size(v) = Len(ids)
      BY <2>7, <3>1 DEF current_window_size
    <3> QED
      BY <3>2, <3>3
  <2> QED
    BY <2>1, <2>6, <2>7, <2>8, <2>9
<1> QED
  BY <1>3, <1>4

\* load_page reads the page it is given.
LEMMA PageLoads ==
    ASSUME RepositoryInv, ScoredInv, NEW w, TypedWindow(w), IsOrder(w.priority), NEW page \in Nat
    PROVE \E v : /\ load_page(w, page) = v /\ TypedWindow(v) /\ ValidWindow(v)
                 /\ v.page = page /\ v.priority = w.priority
                 /\ v.priority # <<>> => v.ids = get_sorted_ids_page(v.priority, v.page)
                 /\ clearing = "no" /\ page * WindowSize < count => current_window_size(v) > 0
<1>1. PICK b \in BOOLEAN : b = w.sorted
  BY DEF TypedWindow
<1>2. PICK u : u = [w EXCEPT !.page = page]
  OBVIOUS
<1>3. w = [page |-> w.page, priority |-> w.priority, sorted |-> b, ids |-> w.ids, cache |-> w.cache]
  BY <1>1 DEF TypedWindow, IsWindow
<1>4. u = [page |-> page, priority |-> w.priority, sorted |-> b, ids |-> w.ids, cache |-> w.cache]
  BY <1>2, <1>3
<1>5. /\ u.page = page /\ u.priority = w.priority /\ u.sorted = b /\ u.ids = w.ids /\ u.cache = w.cache
      /\ IsWindow(u)
  BY <1>4 DEF IsWindow
<1>6. TypedWindow(u) /\ IsOrder(u.priority)
  BY <1>1, <1>5 DEF TypedWindow
<1>7. PICK v : /\ LoadCurrentPage(u) = v /\ TypedWindow(v) /\ ValidWindow(v)
               /\ v.page = u.page /\ v.priority = u.priority
               /\ v.priority # <<>> => v.ids = get_sorted_ids_page(v.priority, v.page)
               /\ clearing = "no" /\ u.page * WindowSize < count => current_window_size(v) > 0
  BY <1>6, LoadedPage
<1>8. load_page(w, page) = v
  BY <1>2, <1>7 DEF load_page
<1> QED
  BY <1>5, <1>7, <1>8

\* What a sort worker has read becomes the first page.
LEMMA SortApplies ==
    ASSUME RepositoryInv, ScoredInv, NEW w, TypedWindow(w), NEW order, IsOrder(order),
           NEW ids, IsPage(ids)
    PROVE \E v : /\ apply_sort_data(w, order, ids) = v /\ TypedWindow(v)
                 /\ v.page = 0 /\ v.priority = order
                 /\ order # <<>> => v.ids = ids
                 /\ clearing = "no" /\ count > 0 /\ ValidPage(order, ids) =>
                       ValidWindow(v) /\ current_window_size(v) > 0
<1>0. count \in Nat /\ 0 * WindowSize = 0 /\ DOMAIN Empty = {}
  BY WindowAssumption DEF RepositoryInv, RepositoryType, Empty
<1>1. CASE order = <<>>
  <2>1. PICK none : none = <<>>
    OBVIOUS
  <2>2. PICK b \in BOOLEAN : b = w.sorted
    BY DEF TypedWindow
  <2>3. PICK x, y, i, c : x = w.page /\ y = w.priority /\ i = w.ids /\ c = w.cache
    OBVIOUS
  <2>4. w = [page |-> x, priority |-> y, sorted |-> b, ids |-> i, cache |-> c]
    BY <2>2, <2>3 DEF TypedWindow, IsWindow
  <2>5. PICK t : t = [w EXCEPT !.page = 0]
    OBVIOUS
  <2>6. t = [page |-> 0, priority |-> y, sorted |-> b, ids |-> i, cache |-> c]
    BY <2>4, <2>5
  <2>7. PICK s : s = [t EXCEPT !.priority = none]
    OBVIOUS
  <2>8. s = [page |-> 0, priority |-> none, sorted |-> b, ids |-> i, cache |-> c]
    BY <2>6, <2>7
  <2>9. PICK u : u = [s EXCEPT !.sorted = FALSE]
    OBVIOUS
  <2>10. u = [page |-> 0, priority |-> none, sorted |-> FALSE, ids |-> i, cache |-> c]
    BY <2>8, <2>9
  <2>11. [w EXCEPT !.page = 0, !.priority = none, !.sorted = FALSE] = u
    BY <2>5, <2>7, <2>9
  <2>12. apply_sort_data(w, order, ids) = LoadCurrentPage(u)
    BY <1>1, <2>1, <2>11 DEF apply_sort_data
  <2>13. /\ u.page = 0 /\ u.priority = none /\ u.sorted = FALSE /\ u.ids = w.ids /\ u.cache = w.cache
         /\ IsWindow(u)
    BY <2>3, <2>10 DEF IsWindow
  <2>14. TypedWindow(u) /\ IsOrder(u.priority)
    <3>1. u.sorted \in BOOLEAN /\ ~u.sorted
      BY <2>13
    <3>2. u.page \in Nat /\ IsPage(u.ids) /\ DOMAIN u.cache \subseteq Nat
          /\ \A j \in DOMAIN u.cache : u.cache[j] \in Schedules
      BY <2>13 DEF TypedWindow
    <3>3. IsOrder(u.priority)
      BY <2>1, <2>13 DEF IsOrder
    <3> QED
      BY <2>13, <3>1, <3>2, <3>3 DEF TypedWindow
  <2>15. PICK v : /\ LoadCurrentPage(u) = v /\ TypedWindow(v) /\ ValidWindow(v)
                  /\ v.page = u.page /\ v.priority = u.priority
                  /\ clearing = "no" /\ u.page * WindowSize < count => current_window_size(v) > 0
    BY <2>14, LoadedPage
  <2> QED
    BY <1>0, <1>1, <2>1, <2>12, <2>13, <2>15
<1>2. CASE order # <<>>
  <2>1. PICK v : v = [page |-> 0, priority |-> order, sorted |-> TRUE, ids |-> ids, cache |-> Empty]
    OBVIOUS
  <2>2. apply_sort_data(w, order, ids) = v
    BY <1>2, <2>1 DEF apply_sort_data
  <2>3. /\ v.page = 0 /\ v.priority = order /\ v.sorted = TRUE /\ v.ids = ids /\ v.cache = Empty
        /\ IsWindow(v)
    BY <2>1 DEF IsWindow
  <2>4. TypedWindow(v)
    <3>1. v.sorted \in BOOLEAN /\ v.priority # <<>>
      BY <1>2, <2>3
    <3>2. v.page \in Nat /\ IsPage(v.ids) /\ DOMAIN v.cache \subseteq Nat
          /\ \A j \in DOMAIN v.cache : v.cache[j] \in Schedules
      BY <1>0, <2>3
    <3> QED
      BY <2>3, <3>1, <3>2 DEF TypedWindow
  <2>5. ASSUME ValidPage(order, ids)
        PROVE ValidWindow(v) /\ current_window_size(v) > 0
    <3>1. ids # <<>> /\ ids \in Seq(Nat)
      BY <1>2, <2>5 DEF ValidPage, IsPage
    <3>2. Len(ids) > 0
      BY <3>1
    <3>3. current_window_size(v) = Len(ids)
      BY <2>3 DEF current_window_size
    <3>4. ValidWindow(v)
      BY <1>0, <2>3, <2>5 DEF ValidWindow, ValidPage
    <3> QED
      BY <3>2, <3>3, <3>4
  <2> QED
    BY <2>2, <2>3, <2>4, <2>5
<1> QED
  BY <1>1, <1>2

\* reset_to_first: the numbers are those of the window, and its first schedule is shown.
LEMMA ResetShows ==
    ASSUME RepositoryInv, NEW w, TypedWindow(w), NEW p, TypedPaging(p), ResetToFirst(w, p),
           shown.what \in Schedules \cup {Nothing, Failed}
    PROVE \E v, q, s :
            /\ win' = v /\ pag' = q /\ shown' = s
            /\ TypedWindow(v) /\ TypedPaging(q) /\ s.what \in Schedules \cup {Nothing, Failed}
            /\ v.page = w.page /\ v.priority = w.priority /\ v.ids = w.ids
            /\ current_window_size(v) = current_window_size(w)
            /\ q.page = w.page /\ Synced(v, q)
            /\ clearing = "no" /\ ValidWindow(w) =>
                  /\ ValidWindow(v)
                  /\ current_window_size(w) > 0 => Selects(v, q) /\ Shows(s, v, q)
<1>0. count \in Nat
  BY DEF RepositoryInv, RepositoryType
<1>1. PICK n, t, c : n = current_window_size(w) /\ t = total_pages /\ c = count
  OBVIOUS
<1>2. n \in 0 .. WindowSize /\ WindowSize \in Nat
  BY <1>0, <1>1, SizeOfWindow, WindowAssumption
<1>3. PICK i, l, g, h, d, e : i = p.idx /\ l = p.total /\ g = p.page /\ h = p.pages /\ d = p.disk /\ e = p.period
  OBVIOUS
<1>4. p = [idx |-> i, total |-> l, page |-> g, pages |-> h, disk |-> d, period |-> e]
  BY <1>3 DEF TypedPaging
<1>5. PICK x : x = w.page
  OBVIOUS
<1>6. PICK p1 : p1 = [p EXCEPT !.page = x]
  OBVIOUS
<1>7. p1 = [idx |-> i, total |-> l, page |-> x, pages |-> h, disk |-> d, period |-> e]
  BY <1>4, <1>6
<1>8. PICK p2 : p2 = [p1 EXCEPT !.pages = t]
  OBVIOUS
<1>9. p2 = [idx |-> i, total |-> l, page |-> x, pages |-> t, disk |-> d, period |-> e]
  BY <1>7, <1>8
<1>10. PICK p3 : p3 = [p2 EXCEPT !.total = n]
  OBVIOUS
<1>11. p3 = [idx |-> i, total |-> n, page |-> x, pages |-> t, disk |-> d, period |-> e]
  BY <1>9, <1>10
<1>12. PICK p4 : p4 = [p3 EXCEPT !.disk = c]
  OBVIOUS
<1>13. p4 = [idx |-> i, total |-> n, page |-> x, pages |-> t, disk |-> c, period |-> e]
  BY <1>11, <1>12
<1>14. PICK q : q = [p4 EXCEPT !.idx = 0]
  OBVIOUS
<1>15. q = [idx |-> 0, total |-> n, page |-> x, pages |-> t, disk |-> c, period |-> e]
  BY <1>13, <1>14
<1>16. SyncPageInfo(w, p) = p4
  BY <1>1, <1>5, <1>6, <1>8, <1>10, <1>12 DEF SyncPageInfo
<1>17. ShowCurrent(w, q)
  BY <1>14, <1>16 DEF ResetToFirst
<1>18. q.idx = 0 /\ q.total = n /\ q.page = w.page /\ q.pages = total_pages /\ q.disk = count /\ q.period = p.period
       /\ q = [idx |-> q.idx, total |-> q.total, page |-> q.page, pages |-> q.pages, disk |-> q.disk,
               period |-> q.period]
  BY <1>1, <1>3, <1>5, <1>15
<1>19. TypedPaging(q)
  BY <1>2, <1>18 DEF TypedPaging, TypedWindow
<1>20. PICK v, s :
            /\ win' = v /\ shown' = s /\ pag' = q
            /\ TypedWindow(v) /\ s.what \in Schedules \cup {Nothing, Failed}
            /\ v.page = w.page /\ v.priority = w.priority /\ v.ids = w.ids
            /\ current_window_size(v) = current_window_size(w)
            /\ clearing = "no" /\ ValidWindow(w) =>
                  /\ ValidWindow(v)
                  /\ q.total > 0 /\ q.idx < q.total /\ q.total <= current_window_size(w) =>
                        Stored(GlobalId(v, q.idx)) /\ Shows(s, v, q)
  BY <1>17, <1>19, ShowCurrentShows
<1>21. Synced(v, q)
  BY <1>1, <1>18, <1>20 DEF Synced
<1>22. ASSUME clearing = "no", ValidWindow(w), current_window_size(w) > 0
       PROVE Selects(v, q) /\ Shows(s, v, q)
  <2>1. q.total > 0 /\ q.idx < q.total /\ q.total <= current_window_size(w)
    BY <1>1, <1>2, <1>18, <1>22
  <2>2. Stored(GlobalId(v, q.idx)) /\ Shows(s, v, q)
    BY <1>20, <1>22, <2>1
  <2> QED
    BY <1>18, <1>20, <2>1, <2>2 DEF Selects
<1> QED
  BY <1>18, <1>19, <1>20, <1>21, <1>22

-----------------------------------------------------------------------------
(* What stays as it is *)

\* Who does not write leaves the pages as they are.
LEMMA SameView ==
    ASSUME UNCHANGED <<batches, count>>, NEW w, NEW p, NEW s, NEW order, NEW ids
    PROVE /\ current_window_size(w)' = current_window_size(w)
          /\ ValidWindow(w) => ValidWindow(w)'
          /\ ValidPage(order, ids) => ValidPage(order, ids)'
          /\ Selects(w, p) => Selects(w, p)'
          /\ Shows(s, w, p) => Shows(s, w, p)'
          /\ Synced(w, p) => Synced(w, p)'
<1>1. current_window_size(w)' = current_window_size(w)
  BY DEF current_window_size
<1>2. \A g : Stored(g) => Stored(g)'
  BY DEF Stored, Covers, EndOf
<1>3. \A g : BatchesOf(g)' = BatchesOf(g)
  BY DEF BatchesOf, Covers, EndOf
<1>4. \A g : RowAt(g)' = RowAt(g)
  BY <1>3 DEF RowAt
<1>5. \A j : GlobalId(w, j)' = GlobalId(w, j)
  BY DEF GlobalId
<1>6. ValidWindow(w) => ValidWindow(w)'
  BY <1>1, <1>2, <1>4, <1>5 DEF ValidWindow
<1>7. ValidPage(order, ids) => ValidPage(order, ids)'
  BY <1>2 DEF ValidPage
<1>8. Selects(w, p) => Selects(w, p)'
  BY <1>1, <1>2, <1>5 DEF Selects
<1>9. Shows(s, w, p) => Shows(s, w, p)'
  BY <1>4, <1>5 DEF Shows
<1>10. Synced(w, p) => Synced(w, p)'
  BY <1>1 DEF Synced, total_pages
<1> QED
  BY <1>1, <1>6, <1>7, <1>8, <1>9, <1>10

\* Nor does an insert disturb what is listed and shown.
LEMMA InsertKeepsView ==
    ASSUME RepositoryInv, RepositoryInv', NEW r \in Writers, InsertStep(r),
           NEW w, TypedWindow(w), NEW p, TypedPaging(p), NEW s, NEW order, NEW ids
    PROVE /\ current_window_size(w) > 0 => current_window_size(w)' > 0
          /\ ValidWindow(w) => ValidWindow(w)'
          /\ ValidPage(order, ids) => ValidPage(order, ids)'
          /\ Selects(w, p) => Selects(w, p)' /\ (Shows(s, w, p) => Shows(s, w, p)')
<1>1. /\ \A g : Stored(g) => Stored(g)' /\ RowAt(g)' = RowAt(g)
      /\ count' \in Nat /\ count \in Nat /\ count' >= count
  BY InsertKeepsStored
<1>2. PICK m, n : m = current_window_size(w) /\ n = current_window_size(w)'
  OBVIOUS
<1>3. m \in Nat /\ n \in Nat /\ n >= m
  <2>1. n >= m
    BY <1>1, <1>2, WindowGrows
  <2>2. m \in 0 .. WindowSize
    BY <1>1, <1>2, SizeOfWindow
  <2>3. current_window_size(w)' \in 0 .. WindowSize
    <3>2. CASE w.sorted
      <4>1. n = Len(w.ids)
        BY <1>2, <3>2 DEF current_window_size
      <4>2. Len(w.ids) \in Nat /\ Len(w.ids) <= WindowSize
        BY DEF TypedWindow, IsPage
      <4> QED
        BY <1>2, <4>1, <4>2, WindowAssumption
    <3>3. CASE ~w.sorted
      <4>1. PICK a, c : a = w.page * WindowSize /\ c = count'
        OBVIOUS
      <4>2. w.page \in Nat /\ WindowSize \in Nat \ {0}
        BY WindowAssumption DEF TypedWindow
      <4>3. a \in Nat /\ (w.page + 1) * WindowSize = a + WindowSize /\ c \in Nat
        BY <1>1, <4>1, <4>2
      <4>4. n = IF c <= a THEN 0 ELSE IF c < a + WindowSize THEN c - a ELSE WindowSize
        BY <1>2, <3>3, <4>1, <4>3 DEF current_window_size
      <4>5. n \in 0 .. WindowSize
        BY <4>2, <4>3, <4>4
      <4> QED
        BY <1>2, <4>5
    <3> QED
      BY <3>2, <3>3
  <2> QED
    BY <1>2, <2>1, <2>2, <2>3, WindowAssumption
<1>4. \A j : GlobalId(w, j)' = GlobalId(w, j)
  BY DEF GlobalId
<1>5. ASSUME ValidWindow(w) PROVE ValidWindow(w)'
  <2>1. \A i \in DOMAIN w.ids : Stored(w.ids[i])'
    BY <1>1, <1>5 DEF ValidWindow
  <2>2. ASSUME NEW j \in DOMAIN w.cache
        PROVE j < n /\ Stored(GlobalId(w, j))' /\ w.cache[j] = RowAt(GlobalId(w, j))'
    <3>1. j < m /\ Stored(GlobalId(w, j)) /\ w.cache[j] = RowAt(GlobalId(w, j)) /\ j \in Nat
      BY <1>2, <1>5 DEF ValidWindow, TypedWindow
    <3>2. j < n
      BY <1>3, <3>1
    <3>3. PICK g : g = GlobalId(w, j)
      OBVIOUS
    <3>4. Stored(g)' /\ RowAt(g)' = RowAt(g) /\ GlobalId(w, j)' = g
      BY <1>1, <1>4, <3>1, <3>3
    <3> QED
      BY <3>1, <3>2, <3>3, <3>4
  <2> QED
    BY <1>2, <2>1, <2>2 DEF ValidWindow
<1>6. ValidPage(order, ids) => ValidPage(order, ids)'
  BY <1>1 DEF ValidPage
<1>7. ASSUME Selects(w, p) PROVE Selects(w, p)' /\ (Shows(s, w, p) => Shows(s, w, p)')
  <2>1. PICK g : g = GlobalId(w, p.idx)
    OBVIOUS
  <2>2. Stored(g)' /\ RowAt(g)' = RowAt(g) /\ GlobalId(w, p.idx)' = g
    BY <1>1, <1>4, <1>7, <2>1 DEF Selects
  <2>3. p.total <= m /\ p.total \in Nat
    BY <1>2, <1>7, WindowAssumption DEF Selects, TypedPaging
  <2>4. p.total <= n
    BY <1>3, <2>3
  <2>5. Selects(w, p)'
    BY <1>2, <1>7, <2>1, <2>2, <2>4 DEF Selects
  <2>6. Shows(s, w, p) => Shows(s, w, p)'
    BY <2>1, <2>2 DEF Shows
  <2> QED
    BY <2>5, <2>6
<1>8. m > 0 => n > 0
  BY <1>3
<1> QED
  BY <1>2, <1>5, <1>6, <1>7, <1>8

\* Nobody sorts differently while the score table stays.
LEMMA SameSort ==
    ASSUME scored' = scored, NEW order, NEW page
    PROVE /\ get_sorted_ids_page(order, page)' = get_sorted_ids_page(order, page)
          /\ compute_sort_data(order)' = compute_sort_data(order)
<1>1. \A g, h : Before(order, g, h)' = Before(order, g, h)
  BY DEF Before, Beats
<1>2. SortedIds(order)' = SortedIds(order)
  BY <1>1 DEF SortedIds
<1>3. get_sorted_ids_page(order, page)' = get_sorted_ids_page(order, page)
      /\ get_sorted_ids_page(order, 0)' = get_sorted_ids_page(order, 0)
  BY <1>2 DEF get_sorted_ids_page, Slice
<1> QED
  BY <1>3 DEF compute_sort_data

-----------------------------------------------------------------------------
(* The listener *)

\* Who looks at results looks at a repository that has some and that nobody clears.
LEMMA LookingFacts ==
    ASSUME Inv, ViewInv
    PROVE /\ count \in Nat /\ (current # "input" => gen.visible)
          /\ gen.visible => gui = "idle" /\ clearing = "no" /\ count > 0
          /\ gui # "idle" => ~gen.visible /\ current = "input"
<1>1. count \in Nat /\ (current # "input" => gen.visible) /\ (gen.visible => gui = "idle" /\ count > 0)
  BY DEF Inv, RepositoryInv, RepositoryType, ViewInv, ScreensInv
<1>2. gui = "idle" => clearing = "no"
  BY DEF Inv, BrowsingInv, FlowInv
<1> QED
  BY <1>1, <1>2

\* A signal of a listener is not a sorted page.
LEMMA ListenerSignal ==
    ASSUME BrowsingType, PagesInv, NEW r, NEW kind \in {"batch", "error", "finished"},
           Post(Event(kind, r)), sorts' = sorts
    PROVE /\ \A j \in DOMAIN events : j \in DOMAIN events' /\ events'[j] = events[j]
          /\ \A j \in DOMAIN events' : j \notin DOMAIN events => events'[j].kind = kind
          /\ \A j \in DOMAIN events' : events'[j].kind = "sorted" => j \in DOMAIN events /\ events'[j] = events[j]
          /\ \A j \in DOMAIN events' : IsPage(events'[j].ids)
          /\ \A i \in SortIds : InFlight(i)' <=> InFlight(i)
          /\ Heard(r) => \E j \in DOMAIN events' : events'[j].kind = kind
<1>1. PICK e : e = Event(kind, r)
  OBVIOUS
<1>2. e.kind = kind /\ e.of = r /\ e.ids = <<>>
  BY <1>1 DEF Event
<1>3. /\ \A j \in DOMAIN events : j \in DOMAIN events' /\ events'[j] = events[j]
      /\ \A j \in DOMAIN events' : j \notin DOMAIN events => events'[j] = e
      /\ Heard(e.of) => \E j \in DOMAIN events' : events'[j] = e
  BY <1>1, PostPosts
<1>4. IsPage(e.ids)
  BY <1>2, WindowAssumption DEF IsPage
<1>5. \A j \in DOMAIN events' : IsPage(events'[j].ids)
  BY <1>3, <1>4 DEF PagesInv
<1>6. \A j \in DOMAIN events' : events'[j].kind = "sorted" => j \in DOMAIN events /\ events'[j] = events[j]
  BY <1>2, <1>3
<1>7. \A i \in SortIds : InFlight(i)' <=> InFlight(i)
  BY <1>3, <1>6 DEF InFlight
<1> QED
  BY <1>2, <1>3, <1>5, <1>6, <1>7

\* What a step of a listener does to the signals and to those who wait for them.
LEMMA ListenFacts ==
    ASSUME Inv, ViewInv, NEW r \in Runs, Listen(r)
    PROVE /\ UNCHANGED ListenerVars /\ r = run /\ Live(r)
          /\ InsertStep(r) \/ UNCHANGED <<batches, scored, count, insert>>
          /\ \A j \in DOMAIN events' :
                events'[j].kind \in {"sorted", "finished"} /\ j \in DOMAIN events => events'[j] = events[j]
          /\ \A j \in DOMAIN events' : events'[j].kind = "sorted" => j \in DOMAIN events /\ events'[j] = events[j]
          /\ \A j \in DOMAIN events' : IsPage(events'[j].ids)
          /\ \A i \in SortIds : InFlight(i)' <=> InFlight(i)
          /\ \/ listener' = listener /\ \A j \in DOMAIN events' : events'[j].kind # "finished"
             \/ /\ listener' = [listener EXCEPT ![r] = "ended"]
                /\ \A j, k \in DOMAIN events' :
                      events'[j].kind = "finished" /\ events'[k].kind = "finished" => j = k
                /\ \A j \in DOMAIN events' : events'[j].kind = "finished" => gui = "idle"
          /\ Sound /\ fault' = "none" => fault = "none" /\ ~Over'
<1>1. BrowsingType /\ PagesInv /\ NumbersInv
  BY DEF Inv, BrowsingInv, ViewInv
<1>2. Live(r)
  BY InsertingLives DEF Listen, BeginBatch, SaveBatch, AnnounceBatch, BatchFails, ListenerEnds, CommitInsert,
     CountInsert, FailInsert
<1>3. r = run /\ (gui = "stopping" \/ worker = r) /\ listener[r] # "ended"
  BY <1>2, LiveAlone DEF Live
<1>4. \A j \in DOMAIN events : events[j].kind # "finished"
  BY <1>1, <1>3 DEF NumbersInv
<1>5. UNCHANGED ListenerVars
  BY DEF Listen, BeginBatch, SaveBatch, AnnounceBatch, BatchFails, ListenerEnds
<1>6. InsertStep(r) \/ UNCHANGED <<batches, scored, count, insert>>
  BY BeginBatchStep, SaveBatchStep, AnnounceBatchStep, BatchFailsStep DEF Listen, ListenerEnds
<1>7. CASE BeginBatch(r) \/ SaveBatch(r)
  <2>1. UNCHANGED <<events, listener, fault, sorts>>
    BY <1>7 DEF BeginBatch, SaveBatch
  <2>2. Live(r)'
    BY <1>2, <2>1 DEF Live
  <2>3. ~Over'
    BY <2>2 DEF Over
  <2>4. \A i \in SortIds : InFlight(i)' <=> InFlight(i)
    BY <2>1 DEF InFlight
  <2>5. \A j \in DOMAIN events' : IsPage(events'[j].ids)
    BY <1>1, <2>1 DEF PagesInv
  <2> QED
    BY <1>2, <1>3, <1>4, <1>5, <1>6, <2>1, <2>3, <2>4, <2>5
<1>8. CASE AnnounceBatch(r)
  <2>1. Post(Event("batch", r)) /\ UNCHANGED <<listener, sorts>> /\ Notes(r, fault)
    BY <1>8 DEF AnnounceBatch
  <2>2. Live(r)'
    BY <1>2, <2>1 DEF Live
  <2>3. ~Over'
    BY <2>2 DEF Over
  <2>4. fault' = "none" => fault = "none"
    BY <2>1 DEF Notes
  <2>5. /\ \A j \in DOMAIN events : j \in DOMAIN events' /\ events'[j] = events[j]
        /\ \A j \in DOMAIN events' : j \notin DOMAIN events => events'[j].kind = "batch"
        /\ \A j \in DOMAIN events' : events'[j].kind = "sorted" => j \in DOMAIN events /\ events'[j] = events[j]
        /\ \A j \in DOMAIN events' : IsPage(events'[j].ids)
        /\ \A i \in SortIds : InFlight(i)' <=> InFlight(i)
    BY <1>1, <2>1, ListenerSignal
  <2>6. \A j \in DOMAIN events' : events'[j].kind # "finished"
    BY <1>4, <2>5
  <2> QED
    BY <1>2, <1>3, <1>5, <1>6, <2>1, <2>3, <2>4, <2>5, <2>6
<1>9. ASSUME NEW kind \in {"error", "finished"}, Post(Event(kind, r)), sorts' = sorts,
             listener' = [listener EXCEPT ![r] = "ended"],
             Sound /\ fault' = "none" => fault = "none" /\ kind = "finished" /\ Heard(r)
      PROVE /\ \A j \in DOMAIN events' :
                events'[j].kind \in {"sorted", "finished"} /\ j \in DOMAIN events => events'[j] = events[j]
            /\ \A j \in DOMAIN events' : events'[j].kind = "sorted" => j \in DOMAIN events /\ events'[j] = events[j]
            /\ \A j \in DOMAIN events' : IsPage(events'[j].ids)
            /\ \A i \in SortIds : InFlight(i)' <=> InFlight(i)
            /\ \A j, k \in DOMAIN events' :
                  events'[j].kind = "finished" /\ events'[k].kind = "finished" => j = k
            /\ \A j \in DOMAIN events' : events'[j].kind = "finished" => gui = "idle"
            /\ Sound /\ fault' = "none" => fault = "none" /\ ~Over'
  <2>1. /\ \A j \in DOMAIN events : j \in DOMAIN events' /\ events'[j] = events[j]
        /\ \A j \in DOMAIN events' : j \notin DOMAIN events => events'[j].kind = kind
        /\ \A j \in DOMAIN events' : events'[j].kind = "sorted" => j \in DOMAIN events /\ events'[j] = events[j]
        /\ \A j \in DOMAIN events' : IsPage(events'[j].ids)
        /\ \A i \in SortIds : InFlight(i)' <=> InFlight(i)
        /\ Heard(r) => \E j \in DOMAIN events' : events'[j].kind = kind
    BY <1>1, <1>9, ListenerSignal
  <2>2. ~Heard(r) => events' = events
    BY <1>9 DEF Post, Event
  <2>3. Heard(r) => events' = Append(events, Event(kind, r))
    BY <1>9 DEF Post, Event
  <2>4. \A j, k \in DOMAIN events' :
            events'[j].kind = "finished" /\ events'[k].kind = "finished" => j = k
    <3>1. CASE Heard(r)
      <4>1. PICK e : e = Event(kind, r)
        OBVIOUS
      <4>2. events' = Append(events, e)
        BY <2>3, <3>1, <4>1
      <4>3. Len(events) \in Nat /\ DOMAIN events = 1 .. Len(events) /\ DOMAIN events' = 1 .. Len(events) + 1
        BY <1>1, <4>2, PostedIsLast DEF BrowsingType
      <4>4. \A j \in DOMAIN events' : j \notin DOMAIN events => j = Len(events) + 1
        BY <4>3
      <4> QED
        BY <1>4, <2>1, <4>4
    <3>2. CASE ~Heard(r)
      BY <1>4, <2>2, <3>2
    <3> QED
      BY <3>1, <3>2
  <2>5. \A j \in DOMAIN events' : events'[j].kind = "finished" => gui = "idle"
    <3>1. CASE Heard(r)
      <4>1. worker = r /\ gui # "connecting" /\ r # 0
        BY <3>1 DEF Heard, Runs
      <4>2. gui = "idle"
        BY <1>1, <4>1 DEF Inv, BrowsingInv, FlowInv, BrowsingType, Preparing
      <4> QED
        BY <4>2
    <3>2. CASE ~Heard(r)
      BY <1>4, <2>2, <3>2
    <3> QED
      BY <3>1, <3>2
  <2>6. ASSUME Sound, fault' = "none"
        PROVE fault = "none" /\ ~Over'
    <3>1. fault = "none" /\ \E j \in DOMAIN events' : events'[j].kind = "finished"
      BY <1>9, <2>1, <2>6
    <3> QED
      BY <3>1 DEF Over
  <2> QED
    BY <2>1, <2>4, <2>5, <2>6
<1>10. CASE BatchFails(r)
  <2>1. /\ Post(Event("error", r)) /\ sorts' = sorts /\ listener' = [listener EXCEPT ![r] = "ended"]
        /\ fault = "none" /\ Notes(r, "insert")
    BY <1>10 DEF BatchFails
  <2>2. ~(Sound /\ fault' = "none")
    BY <1>3, <2>1 DEF Sound, Notes
  <2> QED
    BY <1>2, <1>3, <1>5, <1>6, <1>9, <2>1, <2>2
<1>11. CASE ListenerEnds(r)
  <2>1. /\ sorts' = sorts /\ listener' = [listener EXCEPT ![r] = "ended"]
        /\ \/ Post(Event("finished", r)) /\ Notes(r, fault)
           \/ fault = "none" /\ Notes(r, "run") /\ Post(Event("error", r))
    BY <1>11 DEF ListenerEnds
  <2>2. CASE Post(Event("finished", r)) /\ Notes(r, fault)
    <3>1. Sound /\ fault' = "none" => fault = "none" /\ Heard(r)
      BY <1>3, <2>2 DEF Sound, Notes, Heard
    <3> QED
      BY <1>2, <1>3, <1>5, <1>6, <1>9, <2>1, <2>2, <3>1
  <2>3. CASE fault = "none" /\ Notes(r, "run") /\ Post(Event("error", r))
    <3>1. ~(Sound /\ fault' = "none")
      BY <1>3, <2>3 DEF Sound, Notes
    <3> QED
      BY <1>2, <1>3, <1>5, <1>6, <1>9, <2>1, <2>3, <3>1
  <2> QED
    BY <2>1, <2>2, <2>3
<1> QED
  BY <1>7, <1>8, <1>10, <1>11 DEF Listen

\* A step of a listener keeps what is listed and shown.
LEMMA ListenKeepsPages ==
    ASSUME Inv, Inv', ViewInv, NEW r \in Runs, Listen(r)
    PROVE (PagesInv /\ WindowInv /\ SortsInv /\ ShownInv)'
<1>1. /\ UNCHANGED ListenerVars
      /\ InsertStep(r) \/ UNCHANGED <<batches, scored, count, insert>>
      /\ \A j \in DOMAIN events' : events'[j].kind = "sorted" => j \in DOMAIN events /\ events'[j] = events[j]
      /\ \A j \in DOMAIN events' : IsPage(events'[j].ids)
      /\ \A i \in SortIds : InFlight(i)' <=> InFlight(i)
  BY ListenFacts
<1>2. RepositoryInv /\ RepositoryInv' /\ r \in Writers /\ PagesInv /\ WindowInv /\ SortsInv /\ ShownInv
  BY WritersAreRuns DEF Inv, ViewInv
<1>3. PICK w, p, s : w = win /\ p = pag /\ s = shown
  OBVIOUS
<1>4. w = win' /\ p = pag' /\ s = shown'
  BY <1>1, <1>3
<1>5. TypedWindow(w) /\ TypedPaging(p)
  BY <1>2, <1>3 DEF PagesInv
<1>6. /\ current_window_size(w) > 0 => current_window_size(w)' > 0
      /\ ValidWindow(w) => ValidWindow(w)'
      /\ Selects(w, p) => Selects(w, p)'
      /\ Selects(w, p) /\ Shows(s, w, p) => Shows(s, w, p)'
      /\ \A order, ids : ValidPage(order, ids) => ValidPage(order, ids)'
  <2>1. CASE InsertStep(r)
    BY <1>2, <1>5, <2>1, InsertKeepsView
  <2>2. CASE UNCHANGED <<batches, scored, count, insert>>
    BY <2>2, SameView
  <2> QED
    BY <1>1, <2>1, <2>2
<1>7. PagesInv'
  <2>1. TypedWindow(win)' /\ TypedPaging(pag)'
    BY <1>3, <1>4, <1>5 DEF TypedWindow, TypedPaging, IsWindow, IsPage
  <2> QED
    BY <1>1, <1>2, <2>1 DEF PagesInv
<1>8. WindowInv'
  <2>1. (~gen.visible /\ gui # "stopping" => win = FirstWindow)'
    BY <1>1, <1>2 DEF WindowInv, FirstWindow, Empty
  <2>2. (Sound => ValidWindow(win))'
    BY <1>1, <1>2, <1>3, <1>4, <1>6 DEF WindowInv, Sound
  <2>3. (gen.visible /\ ~disturbed => current_window_size(win) > 0)'
    BY <1>1, <1>2, <1>3, <1>4, <1>6 DEF WindowInv
  <2> QED
    BY <2>1, <2>2, <2>3 DEF WindowInv
<1>9. SortsInv'
  <2>1. (~disturbed => \A i \in SortIds : InFlight(i) => i = lastSort /\ current = "output")'
    BY <1>1, <1>2 DEF SortsInv
  <2>2. ASSUME Sound', NEW i \in SortIds, sorts'[i].pc = "emit"
        PROVE ValidPage(sorts[i].order, sorts[i].ids)'
    <3>1. PICK order, ids : order = sorts[i].order /\ ids = sorts[i].ids
      OBVIOUS
    <3>2. ValidPage(order, ids)
      BY <1>1, <1>2, <2>2, <3>1 DEF SortsInv, Sound
    <3>3. order = sorts'[i].order /\ ids = sorts'[i].ids
      BY <1>1, <3>1
    <3> QED
      BY <1>6, <3>2, <3>3
  <2>3. ASSUME Sound', NEW k \in DOMAIN events', events'[k].kind = "sorted"
        PROVE ValidPage(events[k].order, events[k].ids)'
    <3>1. PICK e : e = events[k]
      OBVIOUS
    <3>2. k \in DOMAIN events /\ events'[k] = e /\ e.kind = "sorted"
      BY <1>1, <2>3, <3>1
    <3>3. ValidPage(e.order, e.ids)
      BY <1>1, <1>2, <2>3, <3>1, <3>2 DEF SortsInv, Sound
    <3> QED
      BY <1>6, <3>2, <3>3
  <2> QED
    BY <2>1, <2>2, <2>3 DEF SortsInv
<1>10. ShownInv'
  BY <1>1, <1>2, <1>3, <1>4, <1>6 DEF ShownInv
<1> QED
  BY <1>7, <1>8, <1>9, <1>10

\* A step of a listener: its run is not over before the screens were told.
LEMMA ListenKeepsView ==
    ASSUME Inv, Inv', ViewInv, ScoredInv', NEW r \in Runs, Listen(r)
    PROVE ViewInv'
<1>1. /\ UNCHANGED ListenerVars /\ r = run /\ Live(r)
      /\ InsertStep(r) \/ UNCHANGED <<batches, scored, count, insert>>
      /\ \A j \in DOMAIN events' : events'[j].kind = "sorted" => j \in DOMAIN events /\ events'[j] = events[j]
      /\ \A i \in SortIds : InFlight(i)' <=> InFlight(i)
      /\ \/ listener' = listener /\ \A j \in DOMAIN events' : events'[j].kind # "finished"
         \/ /\ listener' = [listener EXCEPT ![r] = "ended"]
            /\ \A j, k \in DOMAIN events' :
                  events'[j].kind = "finished" /\ events'[k].kind = "finished" => j = k
            /\ \A j \in DOMAIN events' : events'[j].kind = "finished" => gui = "idle"
      /\ Sound /\ fault' = "none" => fault = "none" /\ ~Over'
  BY ListenFacts
<1>2. (PagesInv /\ WindowInv /\ SortsInv /\ ShownInv)'
  BY ListenKeepsPages
<1>3. ScreensInv /\ NumbersInv /\ FreshInv
  BY DEF ViewInv
<1>4. ScreensInv'
  <2>1. gen.visible => count' > 0
    <3>1. CASE InsertStep(r)
      <4>1. count' \in Nat /\ count \in Nat /\ count' >= count
        BY <3>1, InsertKeepsStored, WritersAreRuns DEF Inv
      <4> QED
        BY <1>3, <4>1 DEF ScreensInv
    <3>2. CASE UNCHANGED <<batches, scored, count, insert>>
      BY <1>3, <3>2 DEF ScreensInv
    <3> QED
      BY <1>1, <3>1, <3>2
  <2> QED
    BY <1>1, <1>3, <2>1 DEF ScreensInv
<1>5. NumbersInv'
  <2>1. run \in Nat /\ run # 0 /\ listener[run] \in {"running", "cancelled"} /\ lastSort \in Nat
        /\ listener \in [Runs -> {"none", "running", "cancelled", "ended"}] /\ run \in Runs
    BY <1>1, <1>3 DEF Live, Inv, BrowsingInv, BrowsingType, NumbersInv, Runs
  <2>2. lastSort + Dues' <= MaxClicks + 2 * run
    <3>1. Dues \in Nat /\ Dues >= 1 /\ lastSort + Dues <= MaxClicks + 2 * run
      BY <1>3, <2>1 DEF Dues, NumbersInv
    <3>2. CASE listener' = listener
      <4>1. Dues' = Dues
        BY <1>1, <2>1, <3>2 DEF Dues
      <4> QED
        BY <3>1, <4>1
    <3>3. CASE listener' = [listener EXCEPT ![r] = "ended"]
      <4>1. Dues' \in {0, 1}
        BY <1>1, <2>1, <3>3 DEF Dues
      <4>2. PICK d, e : d = Dues /\ e = Dues'
        OBVIOUS
      <4>3. d \in Nat /\ d >= 1 /\ lastSort + d <= MaxClicks + 2 * run /\ e \in {0, 1}
        BY <3>1, <4>1, <4>2
      <4>4. lastSort + e <= MaxClicks + 2 * run
        BY <2>1, <4>3, BrowsingAssumption
      <4> QED
        BY <4>2, <4>4
    <3> QED
      BY <1>1, <3>2, <3>3
  <2>3. UNCHANGED <<lastSort, run, gui, sortWorker, dropped>>
        /\ sortWorker \in 0 .. lastSort /\ dropped \subseteq 1 .. lastSort
    BY <1>1, <1>3 DEF NumbersInv
  <2>4. \A i, j \in DOMAIN events' : events'[i].kind = "finished" /\ events'[j].kind = "finished" => i = j
    BY <1>1
  <2>5. \A i \in DOMAIN events' :
          events'[i].kind = "finished" => run # 0 /\ listener'[run] = "ended" /\ gui = "idle"
    BY <1>1, <2>1
  <2>6. \A v \in Runs : v > run => listener'[v] = "none"
    BY <1>1, <1>3, <2>1 DEF NumbersInv, Runs
  <2>7. \A i \in SortIds : i > lastSort => ~InFlight(i)'
    BY <1>1, <1>3 DEF NumbersInv
  <2> QED
    BY <2>1, <2>2, <2>3, <2>4, <2>5, <2>6, <2>7 DEF NumbersInv
<1>6. FreshInv'
  <2> SUFFICES ASSUME Sound', fault' = "none"
               PROVE /\ \A i \in SortIds :
                          sorts'[i].pc \notin {"none", "done"} => i \notin dropped' /\ sorts'[i].order = sortConfig'
                     /\ \A j \in DOMAIN events' :
                          events'[j].kind = "sorted" =>
                              events'[j].of \notin dropped' /\ events'[j].order = sortConfig'
                     /\ ~Sorting' => win'.priority = sortConfig'
                     /\ ~Over'
    BY DEF FreshInv
  <2>1. Sound
    BY <1>1 DEF Sound
  <2>2. fault = "none" /\ ~Over'
    BY <1>1, <2>1
  <2>3. Sorting' <=> Sorting
    BY <1>1 DEF Sorting
  <2> QED
    BY <1>1, <1>3, <2>1, <2>2, <2>3 DEF FreshInv
<1> QED
  BY <1>2, <1>4, <1>5, <1>6 DEF ViewInv

-----------------------------------------------------------------------------
(* The sort workers *)

\* A sort worker goes on.
LEMMA SortGoesOn ==
    ASSUME BrowsingType, NEW i \in SortIds, IsSort(sorts[i]), NEW pc, GoOn(i, pc)
    PROVE /\ IsSort(sorts'[i]) /\ sorts'[i].pc = pc
          /\ sorts'[i].order = sorts[i].order /\ sorts'[i].ids = sorts[i].ids
          /\ \A j \in SortIds : j # i => sorts'[j] = sorts[j]
<1>1. PICK s, o, d : s = sorts[i] /\ o = s.order /\ d = s.ids
  OBVIOUS
<1>2. PICK t : t = [s EXCEPT !.pc = pc]
  OBVIOUS
<1>3. s = [pc |-> s.pc, order |-> o, ids |-> d]
  BY <1>1 DEF IsSort
<1>4. t = [pc |-> pc, order |-> o, ids |-> d]
  BY <1>2, <1>3
<1>5. IsSort(t) /\ t.pc = pc /\ t.order = o /\ t.ids = d
  BY <1>4 DEF IsSort
<1>6. sorts' = [sorts EXCEPT ![i] = t]
  BY <1>1, <1>2 DEF GoOn
<1>7. sorts'[i] = t /\ \A j \in SortIds : j # i => sorts'[j] = sorts[j]
  BY <1>6 DEF BrowsingType
<1> QED
  BY <1>1, <1>5, <1>7

\* What a step of a sort worker does: it goes on, reads the page, posts it, or fails.
LEMMA SortFacts ==
    ASSUME BrowsingType, NEW i \in SortIds, IsSort(sorts[i]), Sort(i)
    PROVE /\ UNCHANGED SortStays /\ UNCHANGED <<clearing, gui, run, listener, gen>>
          /\ sorts[i].pc \notin {"none", "done"} /\ \A j \in SortIds : j # i => sorts'[j] = sorts[j]
          /\ IsSort(sorts'[i])
          /\ \/ /\ sorts'[i].pc \notin {"none", "done", "emit"}
                /\ sorts'[i].order = sorts[i].order /\ sorts'[i].ids = sorts[i].ids
                /\ UNCHANGED <<events, fault>>
             \/ /\ sorts'[i].pc = "emit" /\ sorts'[i].order = sorts[i].order
                /\ sorts'[i].ids = compute_sort_data(sorts[i].order)
                /\ UNCHANGED <<events, fault>>
             \/ /\ sorts[i].pc = "emit" /\ sorts'[i].pc = "done" /\ sorts'[i].ids = <<>> /\ fault' = fault
                /\ events' = IF i \in dropped THEN events
                             ELSE Append(events, [kind |-> "sorted", of |-> i,
                                                  order |-> sorts[i].order, ids |-> sorts[i].ids])
             \/ sorts'[i].pc = "done" /\ sorts'[i].ids = <<>> /\ events' = events /\ fault' = "sort"
<1>1. sorts = [j \in SortIds |-> sorts[j]]
  BY DEF BrowsingType
<1>2. UNCHANGED SortStays
  BY DEF Sort, CheckIndex, IndexSort, ReadSorted, EmitSorted, SortFails, BuildIndex, SignIndex
<1>3. CASE CheckIndex(i) \/ IndexSort(i)
  <2>1. PICK pc \in {"index", "read", "sign"} : GoOn(i, pc)
    BY <1>3 DEF CheckIndex, IndexSort
  <2>2. sorts[i].pc \in {"check", "index", "sign"} /\ UNCHANGED <<events, fault>>
    BY <1>3 DEF CheckIndex, IndexSort
  <2> QED
    BY <1>2, <2>1, <2>2, SortGoesOn
<1>4. CASE ReadSorted(i)
  <2>1. PICK d : d = compute_sort_data(sorts[i].order)
    OBVIOUS
  <2>2. /\ sorts[i].pc = "read" /\ UNCHANGED <<events, fault>>
        /\ sorts' = [sorts EXCEPT ![i].pc = "emit", ![i].ids = d]
    BY <1>4, <2>1 DEF ReadSorted
  <2>3. PICK s, o : s = sorts[i] /\ o = s.order
    OBVIOUS
  <2>4. s = [pc |-> s.pc, order |-> o, ids |-> s.ids]
    BY <2>3 DEF IsSort
  <2>5. PICK t : t = [s EXCEPT !.pc = "emit"]
    OBVIOUS
  <2>6. t = [pc |-> "emit", order |-> o, ids |-> s.ids]
    BY <2>4, <2>5
  <2>7. PICK u : u = [t EXCEPT !.ids = d]
    OBVIOUS
  <2>8. u = [pc |-> "emit", order |-> o, ids |-> d]
    BY <2>6, <2>7
  <2>9. IsSort(u) /\ u.pc = "emit" /\ u.order = o /\ u.ids = d
    BY <2>8 DEF IsSort
  <2>10. PICK f : f = [sorts EXCEPT ![i] = t]
    OBVIOUS
  <2>11. f = [j \in SortIds |-> IF j = i THEN t ELSE sorts[j]]
    BY <1>1, <2>10
  <2>12. f = [sorts EXCEPT ![i].pc = "emit"]
    BY <2>3, <2>5, <2>10
  <2>13. sorts' = [f EXCEPT ![i].ids = d]
    BY <2>2, <2>12
  <2>14. f[i] = t
    BY <2>11
  <2>15. sorts' = [f EXCEPT ![i] = u]
    BY <2>7, <2>13, <2>14
  <2>16. sorts'[i] = u /\ \A j \in SortIds : j # i => sorts'[j] = sorts[j]
    BY <2>11, <2>15
  <2> QED
    BY <1>2, <2>1, <2>2, <2>3, <2>9, <2>16
<1>5. CASE EmitSorted(i) \/ SortFails(i)
  <2>1. sorts' = [sorts EXCEPT ![i] = [NoSort EXCEPT !.pc = "done"]]
    BY <1>5 DEF EmitSorted, SortFails
  <2>2. PICK done : done = [NoSort EXCEPT !.pc = "done"]
    OBVIOUS
  <2>3. done.pc = "done" /\ done.ids = <<>> /\ IsSort(done)
    BY <2>2 DEF NoSort, IsSort
  <2>4. sorts'[i] = done /\ \A j \in SortIds : j # i => sorts'[j] = sorts[j]
    BY <1>1, <2>1, <2>2
  <2> QED
    BY <1>2, <1>5, <2>3, <2>4 DEF EmitSorted, SortFails
<1> QED
  BY <1>3, <1>4, <1>5 DEF Sort

\* What a sort worker reads is a page of rows that are stored.
LEMMA ReadPage ==
    ASSUME RepositoryInv, ScoredInv, NEW order, IsOrder(order)
    PROVE /\ IsPage(compute_sort_data(order))
          /\ clearing = "no" /\ count > 0 => ValidPage(order, compute_sort_data(order))
<1>1. CASE order = <<>>
  <2>1. PICK none : none = <<>>
    OBVIOUS
  <2>2. compute_sort_data(order) = none
    BY <1>1, <2>1 DEF compute_sort_data
  <2>3. IsPage(none) /\ DOMAIN none = {}
    BY <2>1, WindowAssumption DEF IsPage
  <2> QED
    BY <1>1, <2>2, <2>3 DEF ValidPage
<1>2. CASE order # <<>>
  <2>1. PICK ids : ids = get_sorted_ids_page(order, 0)
    OBVIOUS
  <2>2. compute_sort_data(order) = ids
    BY <1>2, <2>1 DEF compute_sort_data
  <2>3. /\ IsPage(ids) /\ \A j \in DOMAIN ids : Stored(ids[j])
        /\ clearing = "no" /\ 0 * WindowSize < count => ids # <<>>
    BY <2>1, SortedPage
  <2>4. 0 * WindowSize = 0
    BY WindowAssumption
  <2> QED
    BY <2>2, <2>3, <2>4 DEF ValidPage
<1> QED
  BY <1>1, <1>2

\* What a sort worker posts is the page it has read, and until it is delivered the sort is
\* in flight.
LEMMA SortSignals ==
    ASSUME BrowsingType, NEW i \in SortIds, IsSort(sorts[i]), Sort(i)
    PROVE /\ \A j \in DOMAIN events : j \in DOMAIN events' /\ events'[j] = events[j]
          /\ \A j \in DOMAIN events' :
                \/ j \in DOMAIN events /\ events'[j] = events[j]
                \/ /\ events'[j].kind = "sorted" /\ events'[j].of = i /\ i \notin dropped
                   /\ events'[j].order = sorts[i].order /\ events'[j].ids = sorts[i].ids
                   /\ sorts[i].pc = "emit"
          /\ \A k \in SortIds : InFlight(k)' => InFlight(k)
          /\ InFlight(i)
          /\ fault' = "none" => i \in dropped \/ InFlight(i)'
<1>1. /\ sorts[i].pc \notin {"none", "done"} /\ \A j \in SortIds : j # i => sorts'[j] = sorts[j]
      /\ \/ sorts'[i].pc \notin {"none", "done"} /\ UNCHANGED <<events, fault>>
         \/ /\ sorts[i].pc = "emit" /\ fault' = fault
            /\ events' = IF i \in dropped THEN events
                         ELSE Append(events, [kind |-> "sorted", of |-> i,
                                              order |-> sorts[i].order, ids |-> sorts[i].ids])
         \/ events' = events /\ fault' = "sort"
  BY SortFacts
<1>2. InFlight(i)
  BY <1>1 DEF InFlight
<1>3. PICK e : e = [kind |-> "sorted", of |-> i, order |-> sorts[i].order, ids |-> sorts[i].ids]
  OBVIOUS
<1>4. e.kind = "sorted" /\ e.of = i /\ e.order = sorts[i].order /\ e.ids = sorts[i].ids
  BY <1>3
<1>5. CASE UNCHANGED events /\ (sorts'[i].pc \notin {"none", "done"} \/ fault' = "sort" \/ i \in dropped)
  <2>1. \A k \in SortIds : InFlight(k)' => InFlight(k)
    BY <1>1, <1>2, <1>5 DEF InFlight
  <2>2. fault' = "none" => i \in dropped \/ InFlight(i)'
    BY <1>5 DEF InFlight
  <2> QED
    BY <1>2, <1>5, <2>1, <2>2
<1>6. CASE events' = Append(events, e) /\ sorts[i].pc = "emit" /\ i \notin dropped
  <2>1. /\ Len(events) \in Nat /\ DOMAIN events = 1 .. Len(events) /\ DOMAIN events' = 1 .. Len(events) + 1
        /\ \A j \in 1 .. Len(events) : events'[j] = events[j]
        /\ events'[Len(events) + 1] = e
    BY <1>6, PostedIsLast DEF BrowsingType
  <2>2. \A j \in DOMAIN events : j \in DOMAIN events' /\ events'[j] = events[j]
    BY <2>1
  <2>3. \A j \in DOMAIN events' : (j \in DOMAIN events /\ events'[j] = events[j]) \/ events'[j] = e
    BY <2>1
  <2>4. \A k \in SortIds : InFlight(k)' => InFlight(k)
    BY <1>1, <1>2, <1>4, <2>3 DEF InFlight
  <2>5. InFlight(i)'
    <3>1. \E j \in DOMAIN events' : events'[j] = e
      BY <2>1
    <3> QED
      BY <1>4, <3>1 DEF InFlight
  <2> QED
    BY <1>2, <1>4, <1>6, <2>2, <2>3, <2>4, <2>5
<1> QED
  BY <1>1, <1>3, <1>5, <1>6

\* A step of a sort worker leaves what is listed and shown, and reads nothing that is not stored.
LEMMA SortKeepsPages ==
    ASSUME Inv, ViewInv, NEW i \in SortIds, Sort(i)
    PROVE (PagesInv /\ WindowInv /\ SortsInv /\ ShownInv)'
<1>1. /\ PagesInv /\ WindowInv /\ SortsInv /\ ShownInv /\ BrowsingType /\ RepositoryInv /\ ScoredInv
      /\ IsSort(sorts[i]) /\ IsOrder(sorts[i].order) /\ IsPage(sorts[i].ids)
  BY DEF Inv, BrowsingInv, OrdersInv, ViewInv, PagesInv
<1>2. /\ UNCHANGED SortStays /\ UNCHANGED <<clearing, gui, run, listener, gen>>
      /\ sorts[i].pc \notin {"none", "done"} /\ \A j \in SortIds : j # i => sorts'[j] = sorts[j]
      /\ IsSort(sorts'[i])
      /\ \/ /\ sorts'[i].pc # "emit" /\ sorts'[i].ids = sorts[i].ids
         \/ /\ sorts'[i].pc = "emit" /\ sorts'[i].order = sorts[i].order
            /\ sorts'[i].ids = compute_sort_data(sorts[i].order)
         \/ sorts'[i].pc = "done" /\ sorts'[i].ids = <<>>
  BY <1>1, SortFacts
<1>3. /\ \A j \in DOMAIN events' :
            \/ j \in DOMAIN events /\ events'[j] = events[j]
            \/ /\ events'[j].kind = "sorted" /\ events'[j].of = i /\ i \notin dropped
               /\ events'[j].order = sorts[i].order /\ events'[j].ids = sorts[i].ids
               /\ sorts[i].pc = "emit"
      /\ \A k \in SortIds : InFlight(k)' => InFlight(k)
      /\ InFlight(i)
  BY <1>1, SortSignals
<1>4. PICK page : page = compute_sort_data(sorts[i].order)
  OBVIOUS
<1>5. IsPage(page) /\ (clearing = "no" /\ count > 0 => ValidPage(sorts[i].order, page))
  BY <1>1, <1>4, ReadPage
<1>6. PICK w, p, s : w = win /\ p = pag /\ s = shown
  OBVIOUS
<1>7. w = win' /\ p = pag' /\ s = shown' /\ UNCHANGED <<batches, count>>
  BY <1>2, <1>6
<1>8. /\ current_window_size(w)' = current_window_size(w)
      /\ ValidWindow(w) => ValidWindow(w)'
      /\ Selects(w, p) => Selects(w, p)'
      /\ Shows(s, w, p) => Shows(s, w, p)'
      /\ \A order, ids : ValidPage(order, ids) => ValidPage(order, ids)'
  BY <1>7, SameView
<1>9. PagesInv'
  <2>1. TypedWindow(win)' /\ TypedPaging(pag)'
    BY <1>1, <1>6, <1>7 DEF PagesInv, TypedWindow, TypedPaging, IsWindow, IsPage
  <2>2. IsPage(<<>>)
    BY WindowAssumption DEF IsPage
  <2>3. \A k \in SortIds : IsSort(sorts'[k]) /\ IsPage(sorts'[k].ids)
    BY <1>1, <1>2, <1>4, <1>5, <2>2 DEF PagesInv
  <2>4. \A j \in DOMAIN events' :
            IsPage(events'[j].ids) /\ (events'[j].kind = "sorted" => events'[j].of \in SortIds)
    BY <1>1, <1>3 DEF PagesInv
  <2>5. shown'.what \in Schedules \cup {Nothing, Failed}
    BY <1>1, <1>2 DEF PagesInv
  <2> QED
    BY <2>1, <2>3, <2>4, <2>5 DEF PagesInv
<1>10. WindowInv'
  <2>1. (~gen.visible /\ gui # "stopping" => win = FirstWindow)'
    BY <1>1, <1>2 DEF WindowInv, FirstWindow, Empty
  <2>2. (Sound => ValidWindow(win))'
    BY <1>1, <1>2, <1>6, <1>7, <1>8 DEF WindowInv, Sound
  <2>3. (gen.visible /\ ~disturbed => current_window_size(win) > 0)'
    BY <1>1, <1>2, <1>6, <1>7, <1>8 DEF WindowInv
  <2> QED
    BY <2>1, <2>2, <2>3 DEF WindowInv
<1>11. ShownInv'
  BY <1>1, <1>2, <1>6, <1>7, <1>8 DEF ShownInv
<1>12. SortsInv'
  <2>1. (~disturbed => \A k \in SortIds : InFlight(k) => k = lastSort /\ current = "output")'
    BY <1>1, <1>2, <1>3 DEF SortsInv
  <2>2. ASSUME Sound
        PROVE ValidPage(sorts[i].order, page)
    <3>1. current = "output"
      BY <1>1, <1>3, <2>2 DEF SortsInv, Sound
    <3>2. clearing = "no" /\ count > 0
      BY <3>1, LookingFacts
    <3> QED
      BY <1>5, <3>2
  <2>3. ASSUME Sound', NEW k \in SortIds, sorts'[k].pc = "emit"
        PROVE ValidPage(sorts[k].order, sorts[k].ids)'
    <3>1. Sound
      BY <1>2, <2>3 DEF Sound
    <3>2. PICK order, ids : order = sorts'[k].order /\ ids = sorts'[k].ids
      OBVIOUS
    <3>3. CASE k = i
      <4>1. order = sorts[i].order /\ ids = page
        BY <1>2, <1>4, <2>3, <3>2, <3>3
      <4>2. ValidPage(order, ids)
        BY <2>2, <3>1, <4>1
      <4> QED
        BY <1>8, <3>2, <4>2
    <3>4. CASE k # i
      <4>1. order = sorts[k].order /\ ids = sorts[k].ids /\ sorts[k].pc = "emit"
        BY <1>2, <2>3, <3>2, <3>4
      <4>2. ValidPage(order, ids)
        BY <1>1, <3>1, <4>1 DEF SortsInv
      <4> QED
        BY <1>8, <3>2, <4>2
    <3> QED
      BY <3>3, <3>4
  <2>4. ASSUME Sound', NEW k \in DOMAIN events', events'[k].kind = "sorted"
        PROVE ValidPage(events[k].order, events[k].ids)'
    <3>1. Sound
      BY <1>2, <2>4 DEF Sound
    <3>2. PICK e : e = events'[k]
      OBVIOUS
    <3>3. ValidPage(e.order, e.ids)
      <4>1. CASE k \in DOMAIN events /\ e = events[k]
        BY <1>1, <2>4, <3>1, <3>2, <4>1 DEF SortsInv
      <4>2. CASE e.of = i /\ e.order = sorts[i].order /\ e.ids = sorts[i].ids /\ sorts[i].pc = "emit"
        BY <1>1, <3>1, <4>2 DEF SortsInv
      <4> QED
        BY <1>3, <3>2, <4>1, <4>2
    <3> QED
      BY <1>8, <3>2, <3>3
  <2> QED
    BY <2>1, <2>3, <2>4 DEF SortsInv
<1> QED
  BY <1>9, <1>10, <1>11, <1>12

\* A step of a sort worker: the page the user asked for last is on its way or read.
LEMMA SortKeepsView ==
    ASSUME Inv, ViewInv, ScoredInv', NEW i \in SortIds, Sort(i)
    PROVE ViewInv'
<1>1. (PagesInv /\ WindowInv /\ SortsInv /\ ShownInv)'
  BY SortKeepsPages
<1>2. BrowsingType /\ IsSort(sorts[i]) /\ ScreensInv /\ NumbersInv /\ FreshInv /\ SortsInv
  BY DEF Inv, BrowsingInv, ViewInv, PagesInv
<1>3. /\ UNCHANGED SortStays /\ UNCHANGED <<clearing, gui, run, listener, gen>>
      /\ sorts[i].pc \notin {"none", "done"} /\ \A j \in SortIds : j # i => sorts'[j] = sorts[j]
      /\ \/ /\ sorts'[i].pc \notin {"none", "done", "emit"}
            /\ sorts'[i].order = sorts[i].order /\ fault' = fault
         \/ /\ sorts'[i].pc = "emit" /\ sorts'[i].order = sorts[i].order /\ fault' = fault
            /\ sorts'[i].ids = compute_sort_data(sorts[i].order)
         \/ sorts'[i].pc = "done" /\ fault' \in {fault, "sort"}
  BY <1>2, SortFacts
<1>4. /\ \A j \in DOMAIN events : j \in DOMAIN events' /\ events'[j] = events[j]
      /\ \A j \in DOMAIN events' :
            \/ j \in DOMAIN events /\ events'[j] = events[j]
            \/ /\ events'[j].kind = "sorted" /\ events'[j].of = i /\ i \notin dropped
               /\ events'[j].order = sorts[i].order /\ events'[j].ids = sorts[i].ids
               /\ sorts[i].pc = "emit"
      /\ \A k \in SortIds : InFlight(k)' => InFlight(k)
      /\ InFlight(i)
      /\ fault' = "none" => i \in dropped \/ InFlight(i)'
  BY <1>2, SortSignals
<1>5. ScreensInv'
  BY <1>2, <1>3 DEF ScreensInv
<1>6. \A j \in DOMAIN events' : events'[j].kind = "finished" => j \in DOMAIN events /\ events'[j] = events[j]
  BY <1>4
<1>7. NumbersInv'
  <2>1. (\E j \in DOMAIN events' : events'[j].kind = "finished")
          <=> \E j \in DOMAIN events : events[j].kind = "finished"
    BY <1>4, <1>6
  <2>2. Dues' = Dues
    BY <1>3, <2>1 DEF Dues
  <2>3. UNCHANGED <<lastSort, run, listener, gui, sortWorker, dropped>>
        /\ sortWorker \in 0 .. lastSort /\ dropped \subseteq 1 .. lastSort
    BY <1>2, <1>3 DEF NumbersInv
  <2>4. lastSort \in Nat /\ lastSort + Dues' <= MaxClicks + 2 * run
    BY <1>2, <2>2 DEF NumbersInv
  <2>5. \A j, k \in DOMAIN events' : events'[j].kind = "finished" /\ events'[k].kind = "finished" => j = k
    BY <1>2, <1>6 DEF NumbersInv
  <2>6. \A j \in DOMAIN events' :
          events'[j].kind = "finished" => run # 0 /\ listener[run] = "ended" /\ gui = "idle"
    BY <1>2, <1>6 DEF NumbersInv
  <2>7. \A k \in SortIds : k > lastSort => ~InFlight(k)'
    BY <1>2, <1>4 DEF NumbersInv
  <2>8. \A r \in Runs : r > run => listener[r] = "none"
    BY <1>2 DEF NumbersInv
  <2> QED
    BY <2>3, <2>4, <2>5, <2>6, <2>7, <2>8 DEF NumbersInv
<1>8. FreshInv'
  <2> SUFFICES ASSUME Sound', fault' = "none"
               PROVE FreshInv'
    BY DEF FreshInv
  <2>1. Sound /\ fault = "none"
    BY <1>3 DEF Sound
  <2>2. /\ \A k \in SortIds :
              sorts[k].pc \notin {"none", "done"} => k \notin dropped /\ sorts[k].order = sortConfig
        /\ \A j \in DOMAIN events :
              events[j].kind = "sorted" => events[j].of \notin dropped /\ events[j].order = sortConfig
        /\ Over =>
              /\ \A k \in SortIds : sorts[k].pc = "emit" => sorts[k].ids = compute_sort_data(sorts[k].order)
              /\ \A j \in DOMAIN events :
                    events[j].kind = "sorted" => events[j].ids = compute_sort_data(events[j].order)
    BY <1>2, <2>1 DEF FreshInv
  <2>3. \A k \in SortIds :
            sorts'[k].pc \notin {"none", "done"} => k \notin dropped' /\ sorts'[k].order = sortConfig'
    BY <1>3, <2>2
  <2>4. \A j \in DOMAIN events' :
            events'[j].kind = "sorted" => events'[j].of \notin dropped' /\ events'[j].order = sortConfig'
    BY <1>3, <1>4, <2>2
  <2>5. i \notin dropped
    BY <1>3, <2>2
  <2>6. Sorting'
    BY <1>4, <2>5 DEF Sorting
  <2>7. ASSUME Over'
        PROVE Over
    <3>1. \A j \in DOMAIN events : events[j].kind # "finished"
      BY <1>4, <2>7 DEF Over
    <3>2. \A r \in Runs : ~Live(r)
      BY <1>3, <2>7 DEF Over, Live
    <3> QED
      BY <3>1, <3>2 DEF Over
  <2>8. \A order : compute_sort_data(order)' = compute_sort_data(order)
    BY <1>3, SameSort
  <2>9. ASSUME Over', NEW k \in SortIds, sorts'[k].pc = "emit"
        PROVE (sorts[k].ids = compute_sort_data(sorts[k].order))'
    <3>1. PICK order, ids : order = sorts'[k].order /\ ids = sorts'[k].ids
      OBVIOUS
    <3>2. ids = compute_sort_data(order)
      BY <1>3, <2>2, <2>7, <2>9, <3>1
    <3> QED
      BY <2>8, <3>1, <3>2
  <2>10. ASSUME Over', NEW j \in DOMAIN events', events'[j].kind = "sorted"
         PROVE (events[j].ids = compute_sort_data(events[j].order))'
    <3>1. PICK e : e = events'[j]
      OBVIOUS
    <3>2. e.ids = compute_sort_data(e.order)
      BY <1>4, <2>2, <2>7, <2>10, <3>1
    <3> QED
      BY <2>8, <3>1, <3>2
  <2> QED
    BY <2>3, <2>4, <2>6, <2>9, <2>10 DEF FreshInv
<1> QED
  BY <1>1, <1>5, <1>7, <1>8 DEF ViewInv

-----------------------------------------------------------------------------
(* The GUI thread prepares a run *)

\* The window before there are results.
LEMMA FirstWindowIs ==
    /\ TypedWindow(FirstWindow) /\ ValidWindow(FirstWindow) /\ ValidWindow(FirstWindow)'
    /\ FirstWindow.priority = <<>> /\ FirstWindow.page = 0 /\ FirstWindow' = FirstWindow
    /\ count \in Nat /\ count > 0 => current_window_size(FirstWindow) > 0
<1>1. PICK w : w = FirstWindow
  OBVIOUS
<1>2. PICK none, e : none = <<>> /\ e = Empty
  OBVIOUS
<1>3. w = [page |-> 0, priority |-> none, sorted |-> FALSE, ids |-> none, cache |-> e]
  BY <1>1, <1>2 DEF FirstWindow
<1>4. /\ w.page = 0 /\ w.priority = none /\ w.sorted = FALSE /\ w.ids = none /\ w.cache = e /\ IsWindow(w)
      /\ DOMAIN e = {} /\ DOMAIN none = {}
  BY <1>2, <1>3 DEF IsWindow, Empty
<1>5. IsPage(none)
  BY <1>2, WindowAssumption DEF IsPage
<1>6. w.sorted \in BOOLEAN /\ ~w.sorted
  BY <1>4
<1>7. TypedWindow(w)
  BY <1>4, <1>5, <1>6 DEF TypedWindow
<1>8. ValidWindow(w) /\ ValidWindow(w)'
  BY <1>4 DEF ValidWindow
<1>9. FirstWindow' = w
  BY <1>1 DEF FirstWindow, Empty
<1>10. ASSUME count \in Nat, count > 0
       PROVE current_window_size(w) > 0
  <2>1. w.page * WindowSize = 0
    BY <1>4, WindowAssumption
  <2> QED
    BY <1>6, <1>7, <1>10, <2>1, SizeOfWindow
<1> QED
  BY <1>1, <1>2, <1>4, <1>7, <1>8, <1>9, <1>10

\* Before a run nothing is shown, and nothing of an earlier run is sorted, unless a sort was
\* overtaken.
LEMMA PreparedView ==
    ASSUME Inv, ViewInv, gui # "idle", UNCHANGED <<pag, shown, routerVars, sortVars, events, disturbed>>,
           ~gen'.visible, win' = FirstWindow,
           gui' # "stopping" /\ ~disturbed /\ fault' = "none" => sortConfig' = <<>>
    PROVE (PagesInv /\ WindowInv /\ SortsInv /\ ShownInv /\ FreshInv)'
<1>1. current = "input" /\ PagesInv /\ SortsInv
  BY LookingFacts DEF ViewInv
<1>2. PICK w : w = FirstWindow
  OBVIOUS
<1>3. TypedWindow(w) /\ ValidWindow(w)' /\ w.priority = <<>> /\ win' = w /\ FirstWindow' = w
  BY <1>2, FirstWindowIs
<1>4. \A i \in SortIds : InFlight(i)' <=> InFlight(i)
  BY DEF InFlight
<1>5. ~disturbed => \A i \in SortIds : ~InFlight(i)
  BY <1>1 DEF SortsInv
<1>6. PagesInv'
  BY <1>1, <1>3 DEF PagesInv, TypedWindow, TypedPaging, IsWindow, IsPage, IsSort
<1>7. WindowInv'
  BY <1>3 DEF WindowInv
<1>8. ShownInv'
  BY <1>1 DEF ShownInv
<1>9. ~disturbed =>
          /\ \A i \in SortIds : sorts'[i].pc \in {"none", "done"}
          /\ \A k \in DOMAIN events' : events'[k].kind # "sorted"
  BY <1>1, <1>5 DEF InFlight, PagesInv
<1>10. SortsInv'
  <2>1. (~disturbed => \A i \in SortIds : InFlight(i) => i = lastSort /\ current = "output")'
    BY <1>4, <1>5
  <2>2. Sound' => ~disturbed
    BY DEF Sound
  <2> QED
    BY <1>9, <2>1, <2>2 DEF SortsInv
<1>11. FreshInv'
  <2> SUFFICES ASSUME Sound', fault' = "none"
               PROVE FreshInv'
    BY DEF FreshInv
  <2>1. ~disturbed /\ gui' # "stopping"
    BY DEF Sound
  <2>2. win'.priority = sortConfig' /\ win'.priority = <<>> /\ current' # "output"
    BY <1>1, <1>3, <2>1
  <2> QED
    BY <1>9, <2>1, <2>2 DEF FreshInv
<1> QED
  BY <1>6, <1>7, <1>8, <1>10, <1>11

\* generate_schedules forgets the results of the last run before anything of the next one
\* is shown.
LEMMA GenerateKeepsView ==
    ASSUME Inv, ViewInv, ScoredInv', Generate
    PROVE ViewInv'
<1>0. /\ count \in Nat /\ BrowsingType /\ ScreensInv /\ NumbersInv /\ PagesInv /\ WindowInv /\ SortsInv /\ FreshInv
      /\ gui # "idle" => ~gen.visible /\ current = "input"
      /\ run \in Nat /\ NumRuns \in Nat /\ MaxClicks \in Nat /\ lastSort \in Nat
      /\ listener \in [Runs -> {"none", "running", "cancelled", "ended"}]
  BY LookingFacts, BrowsingAssumption DEF Inv, BrowsingInv, BrowsingType, ViewInv, NumbersInv
<1>1. CASE ClickGenerate
  <2>1. /\ events = <<>> /\ gui = "idle" /\ current = "input"
        /\ gen' = [running |-> TRUE, navigated |-> FALSE, visible |-> FALSE]
        /\ listener' = [r \in Runs |-> IF Live(r) THEN "cancelled" ELSE listener[r]]
        /\ gui' = "stopping" /\ disturbed' = Sorting
        /\ UNCHANGED <<repositoryVars, clearing, pagingVars, routerVars, run, sortVars, events>>
    BY <1>1 DEF ClickGenerate, Clicks, Idle
  <2>2. DOMAIN events = {}
    BY <2>1
  <2>3. ScreensInv'
    <3>1. gen'.running \in BOOLEAN /\ gen'.visible \in BOOLEAN /\ ~gen'.visible /\ gen'.navigated = gen'.visible
          /\ gen' = [running |-> gen'.running, navigated |-> gen'.navigated, visible |-> gen'.visible]
      BY <2>1
    <3> QED
      BY <1>0, <2>1, <3>1 DEF ScreensInv
  <2>4. NumbersInv'
    <3>1. Dues \in Nat /\ Dues' \in Nat /\ Dues' <= Dues
      <4>1. CASE run = 0
        BY <2>1, <4>1 DEF Dues
      <4>2. CASE run # 0
        <5>1. run \in Runs
          BY <1>0, <4>2 DEF BrowsingType, Runs
        <5>2. listener'[run] = IF Live(run) THEN "cancelled" ELSE listener[run]
          BY <2>1, <5>1
        <5> QED
          BY <1>0, <2>1, <2>2, <4>2, <5>1, <5>2 DEF Dues, Live
      <4> QED
        BY <4>1, <4>2
    <3>2. PICK d, e : d = Dues /\ e = Dues'
      OBVIOUS
    <3>3. lastSort + e <= MaxClicks + 2 * run
      <4>1. d \in Nat /\ e \in Nat /\ e <= d /\ lastSort + d <= MaxClicks + 2 * run
        BY <1>0, <3>1, <3>2 DEF NumbersInv
      <4> QED
        BY <1>0, <4>1
    <3>4. \A r \in Runs : r > run => listener'[r] = "none"
      BY <1>0, <2>1 DEF NumbersInv, Live
    <3>5. \A i \in SortIds : i > lastSort => ~InFlight(i)'
      BY <1>0, <2>1 DEF NumbersInv, InFlight
    <3> QED
      BY <1>0, <2>1, <2>2, <3>2, <3>3, <3>4, <3>5 DEF NumbersInv
  <2>5. PagesInv'
    BY <1>0, <2>1 DEF PagesInv, TypedWindow, TypedPaging, IsWindow, IsPage, IsSort
  <2>6. WindowInv' /\ ShownInv' /\ FreshInv'
    BY <2>1 DEF WindowInv, ShownInv, FreshInv, Sound
  <2>7. SortsInv'
    <3>1. \A i \in SortIds : InFlight(i)' <=> InFlight(i)
      BY <2>1 DEF InFlight
    <3>2. ~disturbed' => \A i \in SortIds : ~InFlight(i)'
      BY <2>1, <3>1 DEF Sorting
    <3>3. ~Sound'
      BY <2>1 DEF Sound
    <3> QED
      BY <3>2, <3>3 DEF SortsInv
  <2> QED
    BY <2>3, <2>4, <2>5, <2>6, <2>7 DEF ViewInv
<1>2. ASSUME gui # "idle", UNCHANGED <<pag, shown, routerVars, sortVars, events, disturbed, listener>>,
             gen' = gen \/ gen' = [gen EXCEPT !.running = FALSE], run' = run \/ (run' = run + 1 /\ run' <= NumRuns),
             gui' # "stopping" /\ ~disturbed /\ fault' = "none" => sortConfig' = <<>>,
             win' = FirstWindow
      PROVE ViewInv'
  <2>1. ~gen.visible /\ current = "input"
    BY <1>0, <1>2
  <2>2. ScreensInv'
    <3>1. gen = [running |-> gen.running, navigated |-> gen.navigated, visible |-> gen.visible]
          /\ gen.navigated = gen.visible /\ gen.running \in BOOLEAN /\ gen.visible \in BOOLEAN
      BY <1>0 DEF ScreensInv
    <3>2. /\ gen' = [running |-> gen'.running, navigated |-> gen'.navigated, visible |-> gen'.visible]
          /\ gen'.navigated = gen'.visible /\ gen'.visible = gen.visible /\ gen'.running \in BOOLEAN
      <4>1. CASE gen' = gen
        BY <3>1, <4>1
      <4>2. CASE gen' = [gen EXCEPT !.running = FALSE]
        BY <3>1, <4>2
      <4> QED
        BY <1>2, <4>1, <4>2
    <3> QED
      BY <1>0, <1>2, <2>1, <3>1, <3>2 DEF ScreensInv
  <2>3. NumbersInv'
    <3>1. \A j \in DOMAIN events : events[j].kind # "finished"
      BY <1>0, <1>2 DEF NumbersInv
    <3>2. Dues \in Nat /\ lastSort + Dues <= MaxClicks + 2 * run
      BY <1>0 DEF Dues, NumbersInv
    <3>3. Dues' \in Nat /\ Dues' <= Dues
      <4>1. CASE run' = run
        BY <1>2, <3>2, <4>1 DEF Dues
      <4>2. CASE run' = run + 1 /\ run' <= NumRuns
        <5>1. run' \in Runs /\ listener'[run'] = "none"
          BY <1>0, <1>2, <4>2 DEF NumbersInv, Runs
        <5>2. Dues' = 0
          BY <1>2, <3>1, <4>2, <5>1 DEF Dues
        <5> QED
          BY <3>2, <5>2
      <4> QED
        BY <1>2, <4>1, <4>2
    <3>4. PICK d, e, r : d = Dues /\ e = Dues' /\ r = run'
      OBVIOUS
    <3>5. lastSort + e <= MaxClicks + 2 * r
      <4>1. d \in Nat /\ e \in Nat /\ e <= d /\ lastSort + d <= MaxClicks + 2 * run /\ (r = run \/ r = run + 1)
        BY <1>2, <3>2, <3>3, <3>4
      <4> QED
        BY <1>0, <4>1
    <3>6. \A v \in Runs : v > run' => listener'[v] = "none"
      BY <1>0, <1>2 DEF NumbersInv, Runs
    <3>7. \A i \in SortIds : i > lastSort => ~InFlight(i)'
      BY <1>0, <1>2 DEF NumbersInv, InFlight
    <3> QED
      BY <1>0, <1>2, <3>1, <3>4, <3>5, <3>6, <3>7 DEF NumbersInv
  <2>4. ~gen'.visible
    BY <1>0, <1>2, <2>1 DEF ScreensInv
  <2>5. (PagesInv /\ WindowInv /\ SortsInv /\ ShownInv /\ FreshInv)'
    BY <1>2, <2>4, PreparedView
  <2> QED
    BY <2>2, <2>3, <2>5 DEF ViewInv
<1>3. gui # "idle" /\ gui # "stopping" =>
         win = FirstWindow /\ (~disturbed /\ fault = "none" => sortConfig = <<>>)
  <2> SUFFICES ASSUME gui # "idle", gui # "stopping"
               PROVE win = FirstWindow /\ (~disturbed /\ fault = "none" => sortConfig = <<>>)
    OBVIOUS
  <2>1. win = FirstWindow
    BY <1>0 DEF WindowInv
  <2>2. ASSUME ~disturbed, fault = "none"
        PROVE sortConfig = <<>>
    <3>1. ~Sorting
      BY <1>0, <2>2 DEF SortsInv, Sorting
    <3>2. win.priority = sortConfig
      BY <1>0, <2>2, <3>1 DEF FreshInv, Sound
    <3> QED
      BY <2>1, <3>2, FirstWindowIs
  <2> QED
    BY <2>1, <2>2
<1>4. CASE StopOldRun
  BY <1>2, <1>4 DEF StopOldRun
<1>5. CASE ForgetSignatures \/ ForgetCount \/ ClearAgain \/ Refuse
  <2>1. gui \notin {"idle", "stopping"}
    BY <1>5 DEF ForgetSignatures, ForgetCount, ClearAgain, Refuse, Inv, BrowsingInv, FlowInv
  <2>2. /\ UNCHANGED <<win, pag, shown, routerVars, sortVars, events, disturbed, listener, fault, sortConfig>>
        /\ gen' = gen \/ gen' = [gen EXCEPT !.running = FALSE]
        /\ run' = run \/ (run' = run + 1 /\ gui = "starting")
    BY <1>5 DEF ForgetSignatures, ForgetCount, ClearAgain, Refuse
  <2>3. gui = "starting" => run < NumRuns
    BY DEF Inv, BrowsingInv, FlowInv, Preparing
  <2>4. run' = run \/ (run' = run + 1 /\ run' <= NumRuns)
    BY <1>0, <2>2, <2>3
  <2> QED
    BY <1>2, <1>3, <2>1, <2>2, <2>4
<1>6. CASE Connect
  <2>1. /\ UNCHANGED <<win, pag, shown, routerVars, sortVars, events, disturbed, listener, fault, sortConfig>>
        /\ gui = "connecting" /\ gen' = gen /\ run' = run
    BY <1>6 DEF Connect
  <2> QED
    BY <1>2, <1>3, <2>1
<1>7. CASE StartRun
  <2>1. /\ UNCHANGED <<win, pag, shown, routerVars, sortVars, events, disturbed, fault, sortConfig, gen, count>>
        /\ gui = "starting" /\ run' = run + 1 /\ listener' = [listener EXCEPT ![run'] = "running"]
        /\ gui' = "connecting"
    BY <1>7 DEF StartRun
  <2>2. run < NumRuns /\ ~gen.visible /\ current = "input"
    BY <1>0, <2>1 DEF Inv, BrowsingInv, FlowInv, Preparing
  <2>3. ScreensInv'
    BY <1>0, <2>1, <2>2 DEF ScreensInv
  <2>4. NumbersInv'
    <3>1. \A j \in DOMAIN events : events[j].kind # "finished"
      BY <1>0, <2>1 DEF NumbersInv
    <3>2. run' \in Runs /\ run' \in Nat /\ run' # 0 /\ listener'[run'] = "running"
      BY <1>0, <2>1, <2>2 DEF Runs
    <3>3. Dues' = 2
      BY <3>2 DEF Dues
    <3>4. lastSort <= MaxClicks + 2 * run
      <4>1. Dues \in Nat /\ lastSort + Dues <= MaxClicks + 2 * run
        BY <1>0 DEF Dues, NumbersInv
      <4>2. PICK d : d = Dues
        OBVIOUS
      <4>3. d \in Nat /\ lastSort + d <= MaxClicks + 2 * run
        BY <4>1, <4>2
      <4> QED
        BY <1>0, <4>3
    <3>5. lastSort + 2 <= MaxClicks + 2 * (run + 1)
      BY <1>0, <3>4
    <3>6. \A v \in Runs : v > run' => listener'[v] = "none"
      BY <1>0, <2>1 DEF NumbersInv, Runs
    <3>7. \A i \in SortIds : i > lastSort => ~InFlight(i)'
      BY <1>0, <2>1 DEF NumbersInv, InFlight
    <3> QED
      BY <1>0, <2>1, <3>1, <3>3, <3>5, <3>6, <3>7 DEF NumbersInv
  <2>5. (PagesInv /\ WindowInv /\ SortsInv /\ ShownInv /\ FreshInv)'
    BY <1>3, <2>1, <2>2, PreparedView
  <2> QED
    BY <2>3, <2>4, <2>5 DEF ViewInv
<1> QED
  BY <1>1, <1>4, <1>5, <1>6, <1>7 DEF Generate

-----------------------------------------------------------------------------
(* The GUI thread delivers signals and follows the user *)

\* Where the screens lead.
LEMMA RouterSteps ==
    /\ current = "input" /\ history = <<>> /\ Show("output") => current' = "output" /\ history' = <<"input">>
    /\ current = "output" /\ Show("output") => UNCHANGED routerVars
    /\ current = "output" /\ history = <<"input">> /\ Show("clusters") =>
          current' = "clusters" /\ history' = <<"input", "output">>
    /\ current = "output" /\ history = <<"input">> /\ Back => current' = "input" /\ history' = <<>>
    /\ current = "clusters" /\ history = <<"input", "output">> /\ Back =>
          current' = "output" /\ history' = <<"input">>
<1>1. ASSUME current = "input", history = <<>>, Show("output")
      PROVE current' = "output" /\ history' = <<"input">>
  BY <1>1 DEF Show, Pushed
<1>2. ASSUME current = "output", Show("output")
      PROVE UNCHANGED routerVars
  BY <1>2 DEF Show
<1>3. ASSUME current = "output", history = <<"input">>, Show("clusters")
      PROVE current' = "clusters" /\ history' = <<"input", "output">>
  <2>1. PICK h : h = history
    OBVIOUS
  <2>2. h = <<"input">> /\ Len(h) = 1 /\ h[1] = "input" /\ h[Len(h)] # "output"
    BY <1>3, <2>1
  <2>3. Pushed(h, "output") = Append(h, "output")
    BY <2>2 DEF Pushed
  <2>4. Append(h, "output") = <<"input", "output">>
    <3>1. PICK s, t : s = Append(h, "output") /\ t = <<"input", "output">>
      OBVIOUS
    <3>2. h \in Seq({"input", "output"})
      BY <2>2
    <3>3. s \in Seq({"input", "output"}) /\ Len(s) = 2 /\ s[1] = "input" /\ s[2] = "output"
      BY <2>2, <3>1, <3>2
    <3>4. t \in Seq({"input", "output"}) /\ Len(t) = 2 /\ t[1] = "input" /\ t[2] = "output"
      BY <3>1
    <3> QED
      <4>1. Len(s) = Len(t) /\ \A i \in 1 .. Len(s) : s[i] = t[i]
        BY <3>3, <3>4
      <4> QED
        BY <3>1, <3>3, <3>4, <4>1, SeqEqual
  <2> QED
    BY <1>3, <2>1, <2>3, <2>4 DEF Show
<1>4. ASSUME current = "output", history = <<"input">>, Back
      PROVE current' = "input" /\ history' = <<>>
  BY <1>4 DEF Back
<1>5. ASSUME current = "clusters", history = <<"input", "output">>, Back
      PROVE current' = "output" /\ history' = <<"input">>
  <2>1. PICK h : h = history
    OBVIOUS
  <2>2. h = <<"input", "output">> /\ Len(h) = 2 /\ h[2] = "output"
    BY <1>5, <2>1
  <2>3. SubSeq(h, 1, 1) = <<"input">>
    <3>1. PICK s, t : s = SubSeq(h, 1, 1) /\ t = <<"input">>
      OBVIOUS
    <3>2. h \in Seq({"input", "output"}) /\ h[1] = "input"
      BY <2>2
    <3>3. s \in Seq({"input", "output"}) /\ Len(s) = 1 /\ s[1] = "input"
      BY <2>2, <3>1, <3>2
    <3>4. t \in Seq({"input", "output"}) /\ Len(t) = 1 /\ t[1] = "input"
      BY <3>1
    <3> QED
      <4>1. Len(s) = Len(t) /\ \A i \in 1 .. Len(s) : s[i] = t[i]
        BY <3>3, <3>4
      <4> QED
        BY <3>1, <3>3, <3>4, <4>1, SeqEqual
  <2>4. Len(h) - 1 = 1
    BY <2>2
  <2> QED
    BY <1>5, <2>1, <2>2, <2>3, <2>4 DEF Back
<1> QED
  BY <1>1, <1>2, <1>3, <1>4, <1>5

\* The numbers the presenter copied, with one of them changed.
LEMMA PagingChanges ==
    ASSUME NEW p, TypedPaging(p), NEW i \in Nat, NEW e \in 1 .. NumPeriods
    PROVE /\ TypedPaging([p EXCEPT !.idx = i]) /\ TypedPaging([p EXCEPT !.period = e])
          /\ [p EXCEPT !.idx = i].idx = i /\ [p EXCEPT !.idx = i].total = p.total
          /\ [p EXCEPT !.idx = i].page = p.page /\ [p EXCEPT !.idx = i].pages = p.pages
          /\ [p EXCEPT !.idx = i].disk = p.disk
          /\ [p EXCEPT !.period = e].idx = p.idx /\ [p EXCEPT !.period = e].total = p.total
          /\ [p EXCEPT !.period = e].page = p.page /\ [p EXCEPT !.period = e].pages = p.pages
          /\ [p EXCEPT !.period = e].disk = p.disk
<1>1. PICK a, l, g, h, d, c : a = p.idx /\ l = p.total /\ g = p.page /\ h = p.pages /\ d = p.disk /\ c = p.period
  OBVIOUS
<1>2. p = [idx |-> a, total |-> l, page |-> g, pages |-> h, disk |-> d, period |-> c]
  BY <1>1 DEF TypedPaging
<1>3. PICK q : q = [p EXCEPT !.idx = i]
  OBVIOUS
<1>4. q = [idx |-> i, total |-> l, page |-> g, pages |-> h, disk |-> d, period |-> c]
  BY <1>2, <1>3
<1>5. /\ q.idx = i /\ q.total = p.total /\ q.page = p.page /\ q.pages = p.pages /\ q.disk = p.disk
      /\ TypedPaging(q)
  BY <1>1, <1>4 DEF TypedPaging
<1>6. PICK r : r = [p EXCEPT !.period = e]
  OBVIOUS
<1>7. r = [idx |-> a, total |-> l, page |-> g, pages |-> h, disk |-> d, period |-> e]
  BY <1>2, <1>6
<1>8. /\ r.idx = p.idx /\ r.total = p.total /\ r.page = p.page /\ r.pages = p.pages /\ r.disk = p.disk
      /\ TypedPaging(r)
  BY <1>1, <1>7 DEF TypedPaging
<1> QED
  BY <1>3, <1>5, <1>6, <1>8

\* on_total_count_updated: the numbers follow the window on the first page only.
LEMMA CountUpdates ==
    ASSUME count \in Nat, TypedWindow(win), NEW p, TypedPaging(p)
    PROVE \E q : /\ TotalCountUpdated(p) = q /\ TypedPaging(q)
                 /\ q.idx = p.idx /\ q.page = p.page /\ q.period = p.period
                 /\ q.pages = total_pages /\ q.disk = count
                 /\ q.total \in {p.total, current_window_size(win)}
<1>1. PICK a, l, g, h, d, c : a = p.idx /\ l = p.total /\ g = p.page /\ h = p.pages /\ d = p.disk /\ c = p.period
  OBVIOUS
<1>2. p = [idx |-> a, total |-> l, page |-> g, pages |-> h, disk |-> d, period |-> c]
  BY <1>1 DEF TypedPaging
<1>3. PICK t, n, m : t = total_pages /\ n = count /\ m = IF p.page = 0 THEN current_window_size(win) ELSE p.total
  OBVIOUS
<1>4. PICK p1 : p1 = [p EXCEPT !.pages = t]
  OBVIOUS
<1>5. p1 = [idx |-> a, total |-> l, page |-> g, pages |-> t, disk |-> d, period |-> c]
  BY <1>2, <1>4
<1>6. PICK p2 : p2 = [p1 EXCEPT !.disk = n]
  OBVIOUS
<1>7. p2 = [idx |-> a, total |-> l, page |-> g, pages |-> t, disk |-> n, period |-> c]
  BY <1>5, <1>6
<1>8. PICK q : q = [p2 EXCEPT !.total = m]
  OBVIOUS
<1>9. q = [idx |-> a, total |-> m, page |-> g, pages |-> t, disk |-> n, period |-> c]
  BY <1>7, <1>8
<1>10. TotalCountUpdated(p) = q
  BY <1>3, <1>4, <1>6, <1>8 DEF TotalCountUpdated
<1>11. current_window_size(win) \in 0 .. WindowSize
  BY SizeOfWindow
<1>12. /\ q.idx = p.idx /\ q.page = p.page /\ q.period = p.period
       /\ q.pages = total_pages /\ q.disk = count /\ q.total = m
  BY <1>1, <1>3, <1>9
<1>13. m \in {p.total, current_window_size(win)} /\ m \in 0 .. WindowSize
  BY <1>3, <1>11 DEF TypedPaging
<1>14. TypedPaging(q)
  BY <1>9, <1>12, <1>13 DEF TypedPaging
<1> QED
  BY <1>10, <1>12, <1>13, <1>14

\* Where the GUI thread is idle and leaves the results alone, and what it disturbs stays disturbed.
Reading ==
    /\ gui = "idle" /\ UNCHANGED <<batches, scored, count, clearing, gui, run, fault>>
    /\ disturbed => disturbed'

\* What is shown now: the window v, the numbers q, and on the calendar s.
Showing(v, q, s) ==
    /\ win' = v /\ pag' = q /\ shown' = s
    /\ TypedWindow(v) /\ TypedPaging(q) /\ s.what \in Schedules \cup {Nothing, Failed}

\* What is shown keeps the invariants of the pages.
LEMMA PagesShown ==
    ASSUME Reading, NEW v, NEW q, NEW s, Showing(v, q, s),
           gen'.visible \/ v = FirstWindow,
           ~disturbed' =>
              /\ ValidWindow(v) /\ (gen'.visible => current_window_size(v) > 0)
              /\ current' = "output" => Selects(v, q) /\ Shows(s, v, q)
    PROVE /\ (TypedWindow(win) /\ TypedPaging(pag) /\ shown.what \in Schedules \cup {Nothing, Failed})'
          /\ WindowInv' /\ ShownInv'
<1>1. UNCHANGED <<batches, count>> /\ gui' = "idle"
  BY DEF Reading
<1>2. /\ current_window_size(v)' = current_window_size(v)
      /\ ValidWindow(v) => ValidWindow(v)'
      /\ Selects(v, q) => Selects(v, q)'
      /\ Shows(s, v, q) => Shows(s, v, q)'
  BY <1>1, SameView
<1>3. v = win' /\ q = pag' /\ s = shown' /\ TypedWindow(v) /\ TypedPaging(q)
  BY DEF Showing
<1>4. (TypedWindow(win) /\ TypedPaging(pag) /\ shown.what \in Schedules \cup {Nothing, Failed})'
  BY <1>3 DEF Showing, TypedWindow, TypedPaging, IsWindow, IsPage
<1>5. WindowInv'
  <2>1. (~gen.visible /\ gui # "stopping" => win = FirstWindow)'
    BY <1>3, FirstWindowIs
  <2>2. (Sound => ValidWindow(win))'
    BY <1>2, <1>3 DEF Sound
  <2>3. (gen.visible /\ ~disturbed => current_window_size(win) > 0)'
    BY <1>2, <1>3
  <2> QED
    BY <2>1, <2>2, <2>3 DEF WindowInv
<1>6. ShownInv'
  BY <1>2, <1>3 DEF ShownInv
<1> QED
  BY <1>4, <1>5, <1>6

\* The signals are those that were there, without the first d.
Without(d) ==
    /\ \A j \in DOMAIN events' : j + d \in DOMAIN events /\ events'[j] = events[j + d]
    /\ DOMAIN events' \subseteq Nat

\* A delivered signal is gone.
LEMMA SignalDelivered ==
    ASSUME BrowsingType, NEW kind, Deliver(kind)
    PROVE /\ Without(1) /\ 1 \in DOMAIN events /\ Head(events) = events[1] /\ events[1].kind = kind
          /\ \A j \in DOMAIN events : j # 1 => \E k \in DOMAIN events' : events'[k] = events[j]
<1>1. events \in Seq(ToSet(events)) /\ events # <<>> /\ events' = Tail(events) /\ Head(events).kind = kind
  BY DEF BrowsingType, Deliver
<1>2. /\ Len(events) \in Nat \ {0} /\ DOMAIN events = 1 .. Len(events)
      /\ DOMAIN Tail(events) = 1 .. Len(events) - 1
      /\ \A j \in 1 .. Len(events) - 1 : Tail(events)[j] = events[j + 1]
      /\ Head(events) = events[1]
  BY <1>1, DeliveredIsFirst
<1>3. ASSUME NEW j \in DOMAIN events, j # 1
      PROVE \E k \in DOMAIN events' : events'[k] = events[j]
  <2>1. j - 1 \in 1 .. Len(events) - 1 /\ (j - 1) + 1 = j
    BY <1>2, <1>3
  <2> QED
    BY <1>1, <1>2, <2>1
<1> QED
  BY <1>1, <1>2, <1>3 DEF Without

\* Nothing was delivered.
LEMMA SignalsStay ==
    ASSUME BrowsingType, events' = events
    PROVE Without(0)
<1>1. DOMAIN events = 1 .. Len(events) /\ Len(events) \in Nat
  BY DEF BrowsingType
<1>2. \A j \in DOMAIN events : j + 0 = j
  BY <1>1
<1> QED
  BY <1>1, <1>2 DEF Without

\* A sort is in flight with fewer signals only if it was.
LEMMA FewerInFlight ==
    ASSUME NEW d, Without(d), sorts' = sorts
    PROVE /\ \A i \in SortIds : InFlight(i)' => InFlight(i)
          /\ Sorting' => Sorting
<1>1. \A i \in SortIds : InFlight(i)' => InFlight(i)
  BY DEF InFlight, Without
<1> QED
  BY <1>1 DEF Sorting

\* The GUI thread starts no sort: those that are in flight belong to the screen that is shown.
LEMMA SortsStay ==
    ASSUME ViewInv, Reading, NEW d, Without(d), UNCHANGED <<sorts, lastSort>>,
           ~disturbed' /\ Sorting => current' = "output"
    PROVE /\ (\A i \in SortIds : IsSort(sorts[i]) /\ IsPage(sorts[i].ids))'
          /\ (\A j \in DOMAIN events :
                 IsPage(events[j].ids) /\ (events[j].kind = "sorted" => events[j].of \in SortIds))'
          /\ SortsInv' /\ (\A i \in SortIds : i > lastSort => ~InFlight(i))'
<1>1. PagesInv /\ NumbersInv /\ SortsInv
  BY DEF ViewInv
<1>2. (disturbed => disturbed') /\ UNCHANGED <<batches, count>> /\ gui = "idle" /\ gui' = gui
  BY DEF Reading
<1>3. \A i \in SortIds : InFlight(i)' => InFlight(i)
  BY FewerInFlight
<1>4. \A j \in DOMAIN events' : j + d \in DOMAIN events /\ events'[j] = events[j + d]
  BY DEF Without
<1>5. \A order, ids : ValidPage(order, ids) => ValidPage(order, ids)'
  BY <1>2, SameView
<1>6. SortsInv'
  <2>1. (~disturbed => \A i \in SortIds : InFlight(i) => i = lastSort /\ current = "output")'
    BY <1>1, <1>2, <1>3 DEF SortsInv, Sorting
  <2>2. ASSUME Sound', NEW i \in SortIds, sorts'[i].pc = "emit"
        PROVE ValidPage(sorts[i].order, sorts[i].ids)'
    <3>1. PICK order, ids : order = sorts[i].order /\ ids = sorts[i].ids
      OBVIOUS
    <3>2. ValidPage(order, ids)
      BY <1>1, <1>2, <2>2, <3>1 DEF SortsInv, Sound
    <3>3. order = sorts'[i].order /\ ids = sorts'[i].ids
      BY <3>1
    <3> QED
      BY <1>5, <3>2, <3>3
  <2>3. ASSUME Sound', NEW k \in DOMAIN events', events'[k].kind = "sorted"
        PROVE ValidPage(events[k].order, events[k].ids)'
    <3>1. PICK e : e = events'[k]
      OBVIOUS
    <3>2. k + d \in DOMAIN events /\ e = events[k + d] /\ e.kind = "sorted"
      BY <1>4, <2>3, <3>1
    <3>3. ValidPage(e.order, e.ids)
      BY <1>1, <1>2, <2>3, <3>2 DEF SortsInv, Sound
    <3> QED
      BY <1>5, <3>1, <3>3
  <2> QED
    BY <2>1, <2>2, <2>3 DEF SortsInv
<1>7. \A j \in DOMAIN events' :
          IsPage(events'[j].ids) /\ (events'[j].kind = "sorted" => events'[j].of \in SortIds)
  BY <1>1, <1>4 DEF PagesInv
<1>8. \A i \in SortIds : IsSort(sorts'[i]) /\ IsPage(sorts'[i].ids)
  BY <1>1 DEF PagesInv
<1>9. \A i \in SortIds : i > lastSort' => ~InFlight(i)'
  BY <1>1, <1>3 DEF NumbersInv
<1> QED
  BY <1>6, <1>7, <1>8, <1>9

\* What the sort that was started last is.
LEMMA StartedSort ==
    ASSUME BrowsingType, PagesInv, NumbersInv, NEW order, StartSort(order), lastSort + 1 \in SortIds,
           NEW d, Without(d)
    PROVE /\ lastSort' = lastSort + 1 /\ lastSort' \in SortIds /\ lastSort' \in Nat
          /\ IsSort(sorts'[lastSort']) /\ sorts'[lastSort'].pc = "check"
          /\ sorts'[lastSort'].order = order /\ sorts'[lastSort'].ids = <<>>
          /\ \A i \in SortIds : i # lastSort' => sorts'[i] = sorts[i]
          /\ \A i \in SortIds : InFlight(i)' => i = lastSort' \/ InFlight(i)
          /\ Sorting' /\ lastSort' \notin dropped' /\ dropped' = dropped
          /\ sortWorker' \in 0 .. lastSort' /\ dropped' \subseteq 1 .. lastSort'
<1>1. PICK n : n = lastSort + 1
  OBVIOUS
<1>2. n \in SortIds /\ lastSort' = n /\ lastSort \in Nat /\ n \in Nat
  BY <1>1 DEF StartSort, NumbersInv
<1>3. PICK none : none = <<>>
  OBVIOUS
<1>4. PICK s : s = [pc |-> "check", order |-> order, ids |-> none]
  OBVIOUS
<1>5. sorts' = [sorts EXCEPT ![n] = s]
  BY <1>1, <1>3, <1>4 DEF StartSort
<1>6. sorts'[n] = s /\ \A i \in SortIds : i # n => sorts'[i] = sorts[i]
  BY <1>2, <1>5 DEF BrowsingType
<1>7. IsSort(s) /\ s.pc = "check" /\ s.order = order /\ s.ids = none
  BY <1>4 DEF IsSort
<1>8. \A i \in SortIds : i # n /\ InFlight(i)' => InFlight(i)
  BY <1>6 DEF InFlight, Without
<1>9. InFlight(n)'
  BY <1>6, <1>7 DEF InFlight
<1>10. Sorting'
  BY <1>2, <1>9 DEF Sorting
<1>11. dropped' = dropped /\ dropped \subseteq 1 .. lastSort /\ sortWorker' = n
  BY <1>1 DEF StartSort, NumbersInv
<1>12. n \notin dropped' /\ sortWorker' \in 0 .. n /\ dropped' \subseteq 1 .. n
  BY <1>1, <1>2, <1>11
<1> QED
  BY <1>1, <1>2, <1>3, <1>6, <1>7, <1>8, <1>10, <1>11, <1>12

\* The GUI thread starts a sort of the screen that is shown, where no other one is in flight.
LEMMA SortsStart ==
    ASSUME BrowsingType, ViewInv, Reading, NEW d, Without(d), NEW order, StartSort(order),
           lastSort + 1 \in SortIds, ~disturbed' => ~Sorting /\ current' = "output"
    PROVE /\ (\A i \in SortIds : IsSort(sorts[i]) /\ IsPage(sorts[i].ids))'
          /\ (\A j \in DOMAIN events :
                 IsPage(events[j].ids) /\ (events[j].kind = "sorted" => events[j].of \in SortIds))'
          /\ SortsInv' /\ (\A i \in SortIds : i > lastSort => ~InFlight(i))'
<1>1. PagesInv /\ NumbersInv /\ SortsInv
  BY DEF ViewInv
<1>2. (disturbed => disturbed') /\ UNCHANGED <<batches, count>> /\ gui = "idle" /\ gui' = gui
  BY DEF Reading
<1>3. /\ lastSort' = lastSort + 1 /\ lastSort' \in SortIds /\ lastSort' \in Nat
      /\ IsSort(sorts'[lastSort']) /\ sorts'[lastSort'].pc = "check"
      /\ sorts'[lastSort'].ids = <<>>
      /\ \A i \in SortIds : i # lastSort' => sorts'[i] = sorts[i]
      /\ \A i \in SortIds : InFlight(i)' => i = lastSort' \/ InFlight(i)
  BY <1>1, StartedSort
<1>4. \A j \in DOMAIN events' : j + d \in DOMAIN events /\ events'[j] = events[j + d]
  BY DEF Without
<1>5. \A order2, ids : ValidPage(order2, ids) => ValidPage(order2, ids)'
  BY <1>2, SameView
<1>6. SortsInv'
  <2>1. (~disturbed => \A i \in SortIds : InFlight(i) => i = lastSort /\ current = "output")'
    BY <1>3 DEF Sorting
  <2>2. ASSUME Sound', NEW i \in SortIds, sorts'[i].pc = "emit"
        PROVE ValidPage(sorts[i].order, sorts[i].ids)'
    <3>1. i # lastSort' /\ sorts'[i] = sorts[i]
      BY <1>3, <2>2
    <3>2. PICK order2, ids : order2 = sorts[i].order /\ ids = sorts[i].ids
      OBVIOUS
    <3>3. ValidPage(order2, ids)
      BY <1>1, <1>2, <2>2, <3>1, <3>2 DEF SortsInv, Sound
    <3>4. order2 = sorts'[i].order /\ ids = sorts'[i].ids
      BY <3>1, <3>2
    <3> QED
      BY <1>5, <3>3, <3>4
  <2>3. ASSUME Sound', NEW k \in DOMAIN events', events'[k].kind = "sorted"
        PROVE ValidPage(events[k].order, events[k].ids)'
    <3>1. PICK e : e = events'[k]
      OBVIOUS
    <3>2. k + d \in DOMAIN events /\ e = events[k + d] /\ e.kind = "sorted"
      BY <1>4, <2>3, <3>1
    <3>3. ValidPage(e.order, e.ids)
      BY <1>1, <1>2, <2>3, <3>2 DEF SortsInv, Sound
    <3> QED
      BY <1>5, <3>1, <3>3
  <2> QED
    BY <2>1, <2>2, <2>3 DEF SortsInv
<1>7. \A j \in DOMAIN events' :
          IsPage(events'[j].ids) /\ (events'[j].kind = "sorted" => events'[j].of \in SortIds)
  BY <1>1, <1>4 DEF PagesInv
<1>8. \A i \in SortIds : IsSort(sorts'[i]) /\ IsPage(sorts'[i].ids)
  <2>1. IsPage(<<>>)
    BY WindowAssumption DEF IsPage
  <2> QED
    BY <1>1, <1>3, <2>1 DEF PagesInv
<1>9. \A i \in SortIds : i > lastSort' => ~InFlight(i)'
  <2> SUFFICES ASSUME NEW i \in SortIds, i > lastSort'
               PROVE ~InFlight(i)'
    OBVIOUS
  <2>1. i > lastSort /\ i # lastSort'
    <3>1. i \in Nat /\ lastSort \in Nat
      BY <1>1 DEF SortIds, NumbersInv
    <3>2. PICK n : n = lastSort'
      OBVIOUS
    <3>3. n = lastSort + 1 /\ i > n
      BY <1>3, <3>2
    <3> QED
      BY <3>1, <3>2, <3>3
  <2>2. ~InFlight(i)
    BY <1>1, <2>1 DEF NumbersInv
  <2> QED
    BY <1>3, <2>1, <2>2
<1> QED
  BY <1>6, <1>7, <1>8, <1>9

\* The numbers of the sorts after a signal was delivered or the user clicked.
LEMMA NumbersKept ==
    ASSUME BrowsingType, ViewInv, Reading, NEW d \in Nat, Without(d),
           lastSort' \in Nat, sortWorker' \in 0 .. lastSort', dropped' \subseteq 1 .. lastSort',
           lastSort' + Dues' <= MaxClicks + 2 * run,
           \A r \in Runs : listener'[r] = listener[r] \/ (listener[r] = "running" /\ listener'[r] = "cancelled"),
           \A i \in SortIds : i > lastSort' => ~InFlight(i)'
    PROVE NumbersInv'
<1>1. NumbersInv /\ run' = run /\ gui' = "idle" /\ gui = "idle" /\ run \in 0 .. NumRuns /\ NumRuns \in Nat
  BY BrowsingAssumption DEF ViewInv, Reading, BrowsingType
<1>2. /\ \A j \in DOMAIN events' : j + d \in DOMAIN events /\ events'[j] = events[j + d]
      /\ DOMAIN events' \subseteq Nat
  BY DEF Without
<1>3. \A i, j \in DOMAIN events' : events'[i].kind = "finished" /\ events'[j].kind = "finished" => i = j
  <2> SUFFICES ASSUME NEW i \in DOMAIN events', NEW j \in DOMAIN events',
                      events'[i].kind = "finished", events'[j].kind = "finished"
               PROVE i = j
    OBVIOUS
  <2>1. i + d = j + d
    BY <1>1, <1>2 DEF NumbersInv
  <2>2. i \in Nat /\ j \in Nat
    BY <1>2
  <2> QED
    BY <2>1, <2>2
<1>4. \A i \in DOMAIN events' :
          events'[i].kind = "finished" => run # 0 /\ listener'[run] = "ended" /\ gui = "idle"
  <2> SUFFICES ASSUME NEW i \in DOMAIN events', events'[i].kind = "finished"
               PROVE run # 0 /\ listener'[run] = "ended" /\ gui = "idle"
    OBVIOUS
  <2>1. run # 0 /\ listener[run] = "ended"
    BY <1>1, <1>2 DEF NumbersInv
  <2>2. run \in Runs
    BY <1>1, <2>1 DEF Runs
  <2> QED
    BY <1>1, <2>1, <2>2
<1>5. \A r \in Runs : r > run => listener'[r] = "none"
  BY <1>1 DEF NumbersInv
<1> QED
  BY <1>1, <1>3, <1>4, <1>5 DEF NumbersInv

\* The sorts do what the user asked for last, and when the run is over they have read all of it.
FreshSorts ==
    /\ \A i \in SortIds :
          sorts[i].pc \notin {"none", "done"} => i \notin dropped /\ sorts[i].order = sortConfig
    /\ \A j \in DOMAIN events :
          events[j].kind = "sorted" => events[j].of \notin dropped /\ events[j].order = sortConfig
    /\ Over =>
          /\ \A i \in SortIds : sorts[i].pc = "emit" => sorts[i].ids = compute_sort_data(sorts[i].order)
          /\ \A j \in DOMAIN events :
                events[j].kind = "sorted" => events[j].ids = compute_sort_data(events[j].order)

\* The window w and the numbers p say what there is, when no sort is on its way.
FreshPage(w, p) ==
    /\ w.priority = sortConfig
    /\ Over =>
          /\ w.priority # <<>> => w.ids = get_sorted_ids_page(w.priority, w.page)
          /\ current = "output" => Synced(w, p)

\* The parts of FreshInv.
LEMMA FreshParts ==
    /\ FreshInv <=> (Sound /\ fault = "none" => FreshSorts /\ (~Sorting => FreshPage(win, pag)))
    /\ FreshInv' <=> (Sound' /\ fault' = "none" => FreshSorts' /\ (~Sorting' => FreshPage(win, pag)'))
<1>1. FreshInv <=> (Sound /\ fault = "none" => FreshSorts /\ (~Sorting => FreshPage(win, pag)))
  BY DEF FreshInv, FreshSorts, FreshPage
<1>2. FreshInv' <=> (Sound' /\ fault' = "none" => FreshSorts' /\ (~Sorting' => FreshPage(win, pag)'))
  BY DEF FreshInv, FreshSorts, FreshPage
<1> QED
  BY <1>1, <1>2

\* A signal less leaves the sorts as they are.
LEMMA FreshSortsStay ==
    ASSUME FreshSorts, UNCHANGED <<sorts, dropped, sortConfig, scored>>, NEW d, Without(d), Over' => Over
    PROVE FreshSorts'
<1>1. \A j \in DOMAIN events' : j + d \in DOMAIN events /\ events'[j] = events[j + d]
  BY DEF Without
<1>2. \A order : compute_sort_data(order)' = compute_sort_data(order)
  BY SameSort
<1>3. \A i \in SortIds :
          sorts'[i].pc \notin {"none", "done"} => i \notin dropped' /\ sorts'[i].order = sortConfig'
  BY DEF FreshSorts
<1>4. \A j \in DOMAIN events' :
          events'[j].kind = "sorted" => events'[j].of \notin dropped' /\ events'[j].order = sortConfig'
  BY <1>1 DEF FreshSorts
<1>5. ASSUME Over', NEW k \in SortIds, sorts'[k].pc = "emit"
      PROVE (sorts[k].ids = compute_sort_data(sorts[k].order))'
  <2>1. PICK order, ids : order = sorts'[k].order /\ ids = sorts'[k].ids
    OBVIOUS
  <2>2. ids = compute_sort_data(order)
    BY <1>5, <2>1 DEF FreshSorts
  <2> QED
    BY <1>2, <2>1, <2>2
<1>6. ASSUME Over', NEW j \in DOMAIN events', events'[j].kind = "sorted"
      PROVE (events[j].ids = compute_sort_data(events[j].order))'
  <2>1. PICK e : e = events'[j]
    OBVIOUS
  <2>2. e.ids = compute_sort_data(e.order)
    BY <1>1, <1>6, <2>1 DEF FreshSorts
  <2> QED
    BY <1>2, <2>1, <2>2
<1> QED
  BY <1>3, <1>4, <1>5, <1>6 DEF FreshSorts

\* Without a sort in flight there is nothing to be said of the sorts.
LEMMA NothingSorts ==
    ASSUME ViewInv, ~Sorting, sorts' = sorts, NEW d, Without(d)
    PROVE FreshSorts' /\ ~Sorting'
<1>1. \A i \in SortIds : ~InFlight(i) /\ sorts[i].pc \in {"none", "done"}
  BY DEF Sorting, InFlight
<1>2. \A j \in DOMAIN events : events[j].kind # "sorted"
  BY <1>1 DEF InFlight, ViewInv, PagesInv
<1>3. \A j \in DOMAIN events' : events'[j].kind # "sorted"
  BY <1>2 DEF Without
<1>4. ~Sorting'
  BY FewerInFlight
<1> QED
  BY <1>1, <1>3, <1>4 DEF FreshSorts

\* The sort that is started is the one the user asked for.
LEMMA FreshSortStarts ==
    ASSUME BrowsingType, ViewInv, ~Sorting, NEW d, Without(d), NEW order, StartSort(order),
           lastSort + 1 \in SortIds, sortConfig' = order
    PROVE FreshSorts' /\ Sorting'
<1>1. \A i \in SortIds : ~InFlight(i) /\ sorts[i].pc \in {"none", "done"}
  BY DEF Sorting, InFlight
<1>2. \A j \in DOMAIN events : events[j].kind # "sorted"
  BY <1>1 DEF InFlight, ViewInv, PagesInv
<1>3. \A j \in DOMAIN events' : events'[j].kind # "sorted"
  BY <1>2 DEF Without
<1>4. PICK n : n = lastSort'
  OBVIOUS
<1>5. /\ sorts'[n].pc = "check" /\ sorts'[n].order = order
      /\ \A i \in SortIds : i # n => sorts'[i] = sorts[i]
      /\ Sorting' /\ n \notin dropped'
  BY <1>4, StartedSort DEF ViewInv
<1>6. \A i \in SortIds : sorts'[i].pc \notin {"none", "done"} => i = n
  BY <1>1, <1>5
<1>7. n \in SortIds => sorts'[n].pc # "emit"
  BY <1>5
<1>8. \A i \in SortIds : sorts'[i].pc # "emit"
  BY <1>6, <1>7
<1> QED
  BY <1>3, <1>5, <1>6, <1>8 DEF FreshSorts

\* What is shown is fresh if the window and the numbers are.
LEMMA FreshShown ==
    ASSUME UNCHANGED <<batches, scored, count>>, NEW v, NEW q, v = win', q = pag',
           v.priority = sortConfig',
           Over' => /\ v.priority # <<>> => v.ids = get_sorted_ids_page(v.priority, v.page)
                    /\ current' = "output" => Synced(v, q)
    PROVE FreshPage(win, pag)'
<1>1. Synced(v, q) => Synced(v, q)'
  BY SameView
<1>2. get_sorted_ids_page(v.priority, v.page)' = get_sorted_ids_page(v.priority, v.page)
  BY SameSort
<1> QED
  BY <1>1, <1>2 DEF FreshPage

\* What was shown stays shown.
LEMMA ShowingStays ==
    ASSUME ViewInv, UNCHANGED pagingVars
    PROVE Showing(win, pag, shown)
BY DEF ViewInv, PagesInv, Showing

\* Results that are visible have something to show, and the first page does when there are any.
LEMMA SomethingToShow ==
    ASSUME Inv, ViewInv, gui = "idle", ~disturbed, gen.visible \/ count > 0
    PROVE ValidWindow(win) /\ current_window_size(win) > 0
<1>1. ValidWindow(win)
  BY DEF ViewInv, WindowInv, Sound
<1>2. CASE gen.visible
  BY <1>1, <1>2 DEF ViewInv, WindowInv
<1>3. CASE ~gen.visible /\ count > 0
  <2>1. win = FirstWindow /\ count \in Nat
    BY <1>3, LookingFacts DEF ViewInv, WindowInv
  <2> QED
    BY <1>1, <1>3, <2>1, FirstWindowIs
<1> QED
  BY <1>2, <1>3

\* Entering the screen, or starting over on it, shows the first schedule of the page.
LEMMA Entering ==
    ASSUME Inv, ViewInv, gui = "idle", Enter(win, pag) \/ ResetToFirst(win, pag)
    PROVE \E v, q, s :
            /\ Showing(v, q, s) /\ v.page = win.page /\ v.priority = win.priority /\ v.ids = win.ids
            /\ Synced(v, q)
            /\ ~disturbed /\ (gen.visible \/ count > 0) =>
                  /\ ValidWindow(v) /\ current_window_size(v) > 0
                  /\ Selects(v, q) /\ Shows(s, v, q)
<1>1. RepositoryInv /\ TypedWindow(win) /\ TypedPaging(pag) /\ shown.what \in Schedules \cup {Nothing, Failed}
  BY DEF Inv, ViewInv, PagesInv
<1>2. clearing = "no"
  BY DEF Inv, BrowsingInv, FlowInv
<1>3. PICK p : TypedPaging(p) /\ ResetToFirst(win, p)
  <2>1. CASE Enter(win, pag)
    <3>1. PICK p : p = [pag EXCEPT !.period = 1]
      OBVIOUS
    <3>2. ResetToFirst(win, p)
      BY <2>1, <3>1 DEF Enter
    <3>3. TypedPaging(p)
      <4>1. 1 \in 1 .. NumPeriods /\ 0 \in Nat
        BY PagingAssumption
      <4> QED
        BY <1>1, <3>1, <4>1, PagingChanges
    <3> QED
      BY <3>2, <3>3
  <2>2. CASE ResetToFirst(win, pag)
    BY <1>1, <2>2
  <2> QED
    BY <2>1, <2>2
<1>4. PICK v, q, s :
            /\ win' = v /\ pag' = q /\ shown' = s
            /\ TypedWindow(v) /\ TypedPaging(q) /\ s.what \in Schedules \cup {Nothing, Failed}
            /\ v.page = win.page /\ v.priority = win.priority /\ v.ids = win.ids
            /\ current_window_size(v) = current_window_size(win)
            /\ q.page = win.page /\ Synced(v, q)
            /\ clearing = "no" /\ ValidWindow(win) =>
                  /\ ValidWindow(v)
                  /\ current_window_size(win) > 0 => Selects(v, q) /\ Shows(s, v, q)
  BY <1>1, <1>3, ResetShows
<1>5. Showing(v, q, s)
  BY <1>4 DEF Showing
<1>6. ASSUME ~disturbed, gen.visible \/ count > 0
      PROVE ValidWindow(v) /\ current_window_size(v) > 0 /\ Selects(v, q) /\ Shows(s, v, q)
  <2>1. ValidWindow(win) /\ current_window_size(win) > 0
    BY <1>6, SomethingToShow
  <2> QED
    BY <1>2, <1>4, <2>1
<1> QED
  BY <1>4, <1>5, <1>6

\* There is a number for the sort that the end of a run starts.
LEMMA SortIsDue ==
    ASSUME Inv, ViewInv
    PROVE /\ Dues \in Nat /\ lastSort \in Nat /\ run \in Nat /\ MaxClicks \in Nat
          /\ lastSort + Dues <= MaxClicks + 2 * run
          /\ Dues > 0 => lastSort + 1 \in SortIds
<1>1. /\ lastSort \in Nat /\ run \in 0 .. NumRuns /\ MaxClicks \in Nat /\ NumRuns \in Nat
      /\ lastSort + Dues <= MaxClicks + 2 * run
  BY BrowsingAssumption DEF Inv, BrowsingInv, BrowsingType, ViewInv, NumbersInv
<1>2. Dues \in Nat
  BY DEF Dues
<1>3. PICK d : d = Dues
  OBVIOUS
<1>4. d \in Nat /\ lastSort + d <= MaxClicks + 2 * run
  BY <1>1, <1>2, <1>3
<1>5. d > 0 => lastSort + 1 \in 1 .. MaxClicks + 2 * NumRuns
  BY <1>1, <1>4
<1> QED
  BY <1>1, <1>2, <1>3, <1>5 DEF SortIds

\* The flags of the generation screen when the run ends.
LEMMA FinishedScreens ==
    ASSUME ScreensInv, SearchFinished, gui = "idle", gui' = gui, count' = count, count \in Nat
    PROVE /\ ScreensInv'
          /\ \/ /\ ~gen.visible /\ count > 0 /\ gen'.visible /\ current' = "output" /\ Enter(win, pag)
             \/ /\ gen'.visible = gen.visible /\ UNCHANGED routerVars
                /\ IF Active /\ win.priority = <<>> THEN ResetToFirst(win, pag) ELSE UNCHANGED pagingVars
<1>1. PICK x, y, z : x = gen.running /\ y = gen.navigated /\ z = gen.visible
  OBVIOUS
<1>2. gen = [running |-> x, navigated |-> y, visible |-> z] /\ z \in BOOLEAN /\ y = z
  BY <1>1 DEF ScreensInv
<1>3. CASE ~gen.navigated /\ count > 0
  <2>1. Show("output") /\ Enter(win, pag)
        /\ gen' = [gen EXCEPT !.running = FALSE, !.navigated = TRUE, !.visible = TRUE]
    BY <1>3 DEF SearchFinished, NavigateToOutput
  <2>2. PICK g1 : g1 = [gen EXCEPT !.running = FALSE]
    OBVIOUS
  <2>3. g1 = [running |-> FALSE, navigated |-> y, visible |-> z]
    BY <1>2, <2>2
  <2>4. PICK g2 : g2 = [g1 EXCEPT !.navigated = TRUE]
    OBVIOUS
  <2>5. g2 = [running |-> FALSE, navigated |-> TRUE, visible |-> z]
    BY <2>3, <2>4
  <2>6. PICK g3 : g3 = [g2 EXCEPT !.visible = TRUE]
    OBVIOUS
  <2>7. g3 = [running |-> FALSE, navigated |-> TRUE, visible |-> TRUE]
    BY <2>5, <2>6
  <2>8. gen' = g3
    BY <2>1, <2>2, <2>4, <2>6
  <2>9. ~gen.visible /\ current = "input" /\ history = <<>>
    BY <1>1, <1>2, <1>3 DEF ScreensInv
  <2>10. current' = "output" /\ history' = <<"input">>
    BY <2>1, <2>9, RouterSteps
  <2>11. gen'.visible /\ gen'.visible \in BOOLEAN /\ gen'.navigated = gen'.visible /\ gen'.running \in BOOLEAN
         /\ gen' = [running |-> gen'.running, navigated |-> gen'.navigated, visible |-> gen'.visible]
    BY <2>7, <2>8
  <2>12. ScreensInv'
    BY <1>3, <2>10, <2>11 DEF ScreensInv
  <2> QED
    BY <1>3, <2>1, <2>9, <2>10, <2>11, <2>12
<1>4. CASE ~(~gen.navigated /\ count > 0)
  <2>1. gen' = [gen EXCEPT !.running = FALSE] /\ UNCHANGED routerVars
        /\ IF Active /\ win.priority = <<>> THEN ResetToFirst(win, pag) ELSE UNCHANGED pagingVars
    BY <1>4 DEF SearchFinished
  <2>2. gen' = [running |-> FALSE, navigated |-> y, visible |-> z]
    BY <1>2, <2>1
  <2>3. gen'.visible = gen.visible /\ gen'.visible \in BOOLEAN /\ gen'.navigated = gen'.visible
        /\ gen'.running \in BOOLEAN
        /\ gen' = [running |-> gen'.running, navigated |-> gen'.navigated, visible |-> gen'.visible]
    BY <1>1, <1>2, <2>2
  <2>4. ScreensInv'
    BY <2>1, <2>3 DEF ScreensInv
  <2> QED
    BY <2>1, <2>3, <2>4
<1> QED
  BY <1>3, <1>4

\* The end of a run on the screens: an active sort is done again, the rest starts over.
LEMMA FinishedKeepsView ==
    ASSUME Inv, ViewInv, ScoredInv', SearchFinished,
           gui = "idle", UNCHANGED <<repositoryVars, clearing, gui, run, fault, sortConfig>>,
           NEW d \in Nat, Without(d), Dues > 0, Dues' \in Nat, Dues' < Dues,
           \A r \in Runs : listener'[r] = listener[r] \/ (listener[r] = "running" /\ listener'[r] = "cancelled")
    PROVE ViewInv'
<1>0. /\ count \in Nat /\ BrowsingType /\ ScreensInv /\ NumbersInv /\ PagesInv /\ WindowInv /\ SortsInv
      /\ ShownInv /\ FreshInv /\ IsOrder(win.priority)
  BY LookingFacts DEF Inv, BrowsingInv, OrdersInv, ViewInv
<1>1. Reading /\ disturbed' = (disturbed \/ Sorting \/ (current' # "output" /\ win.priority # <<>>))
      /\ IF current' = "output" /\ win.priority # <<>> THEN StartSort(win.priority) ELSE UNCHANGED sortVars
  BY DEF SearchFinished, Reading
<1>2. /\ ScreensInv'
      /\ \/ /\ ~gen.visible /\ count > 0 /\ gen'.visible /\ current' = "output" /\ Enter(win, pag)
         \/ /\ gen'.visible = gen.visible /\ UNCHANGED routerVars
            /\ IF Active /\ win.priority = <<>> THEN ResetToFirst(win, pag) ELSE UNCHANGED pagingVars
  BY <1>0, FinishedScreens
<1>3. lastSort + 1 \in SortIds /\ lastSort \in Nat
  BY SortIsDue
<1>4. ~disturbed' => ~disturbed /\ ~Sorting /\ (win.priority # <<>> => current' = "output")
  BY <1>1
<1>5. /\ (\A i \in SortIds : IsSort(sorts[i]) /\ IsPage(sorts[i].ids))'
      /\ (\A j \in DOMAIN events :
             IsPage(events[j].ids) /\ (events[j].kind = "sorted" => events[j].of \in SortIds))'
      /\ SortsInv' /\ (\A i \in SortIds : i > lastSort => ~InFlight(i))'
  <2>1. CASE StartSort(win.priority) /\ current' = "output"
    BY <1>0, <1>1, <1>3, <1>4, <2>1, SortsStart
  <2>2. CASE UNCHANGED sortVars
    BY <1>1, <1>4, <2>2, SortsStay
  <2> QED
    BY <1>1, <2>1, <2>2
<1>6. PICK v, q, s :
            /\ Showing(v, q, s) /\ v.page = win.page /\ v.priority = win.priority /\ v.ids = win.ids
            /\ gen'.visible \/ v = FirstWindow
            /\ win.priority = <<>> /\ current' = "output" => Synced(v, q)
            /\ ~disturbed' =>
                  /\ ValidWindow(v) /\ (gen'.visible => current_window_size(v) > 0)
                  /\ current' = "output" => Selects(v, q) /\ Shows(s, v, q)
  <2>1. CASE \/ ~gen.visible /\ count > 0 /\ gen'.visible /\ current' = "output" /\ Enter(win, pag)
             \/ /\ gen'.visible = gen.visible /\ UNCHANGED routerVars /\ current = "output"
                /\ ResetToFirst(win, pag)
    <3>1. gen'.visible /\ (gen.visible \/ count > 0)
      BY <2>1, LookingFacts
    <3>2. PICK v, q, s :
            /\ Showing(v, q, s) /\ v.page = win.page /\ v.priority = win.priority /\ v.ids = win.ids
            /\ Synced(v, q)
            /\ ~disturbed /\ (gen.visible \/ count > 0) =>
                  /\ ValidWindow(v) /\ current_window_size(v) > 0
                  /\ Selects(v, q) /\ Shows(s, v, q)
      BY <2>1, Entering
    <3> QED
      BY <1>4, <3>1, <3>2
  <2>2. CASE gen'.visible = gen.visible /\ UNCHANGED routerVars /\ UNCHANGED pagingVars
             /\ ~(Active /\ win.priority = <<>>)
    <3>1. Showing(win, pag, shown)
      BY <2>2, ShowingStays
    <3>2. gen'.visible \/ win = FirstWindow
      BY <1>0, <2>2 DEF WindowInv
    <3>3. ~disturbed' =>
                  /\ ValidWindow(win) /\ (gen'.visible => current_window_size(win) > 0)
                  /\ current' = "output" => Selects(win, pag) /\ Shows(shown, win, pag)
      BY <1>0, <1>4, <2>2 DEF WindowInv, ShownInv, Sound
    <3>4. ~(win.priority = <<>> /\ current' = "output")
      BY <2>2 DEF Active
    <3> QED
      BY <3>1, <3>2, <3>3, <3>4
  <2> QED
    BY <1>2, <2>1, <2>2 DEF Active
<1>7. /\ (TypedWindow(win) /\ TypedPaging(pag) /\ shown.what \in Schedules \cup {Nothing, Failed})'
      /\ WindowInv' /\ ShownInv'
  BY <1>1, <1>6, PagesShown
<1>8. PagesInv'
  BY <1>5, <1>7 DEF PagesInv
<1>9. NumbersInv'
  <2>1. /\ lastSort' \in Nat /\ lastSort' \in {lastSort, lastSort + 1}
        /\ sortWorker' \in 0 .. lastSort' /\ dropped' \subseteq 1 .. lastSort'
    <3>1. CASE StartSort(win.priority)
      BY <1>0, <1>3, <3>1, StartedSort
    <3>2. CASE UNCHANGED sortVars
      BY <1>0, <3>2 DEF NumbersInv
    <3> QED
      BY <1>1, <3>1, <3>2
  <2>2. lastSort' + Dues' <= MaxClicks + 2 * run
    <3>1. PICK m, e, n : m = lastSort' /\ e = Dues' /\ n = Dues
      OBVIOUS
    <3>2. /\ m \in {lastSort, lastSort + 1} /\ lastSort \in Nat /\ e \in Nat /\ n \in Nat /\ e < n
          /\ lastSort + n <= MaxClicks + 2 * run /\ MaxClicks \in Nat /\ run \in Nat
      BY <2>1, <3>1, SortIsDue
    <3>3. m + e <= MaxClicks + 2 * run
      BY <3>2
    <3> QED
      BY <3>1, <3>3
  <2> QED
    BY <1>0, <1>1, <1>5, <2>1, <2>2, NumbersKept
<1>10. FreshInv'
  <2> SUFFICES ASSUME Sound', fault' = "none"
               PROVE FreshSorts' /\ (~Sorting' => FreshPage(win, pag)')
    BY FreshParts
  <2>1. ~disturbed' /\ ~disturbed /\ ~Sorting /\ Sound /\ fault = "none"
        /\ (win.priority # <<>> => current' = "output")
    BY <1>4 DEF Sound
  <2>2. win.priority = sortConfig
    BY <1>0, <2>1, FreshParts DEF FreshPage
  <2>3. CASE win.priority # <<>>
    <3>1. StartSort(win.priority) /\ sortConfig' = win.priority
      BY <1>1, <2>1, <2>2, <2>3
    <3>2. FreshSorts' /\ Sorting'
      BY <1>0, <1>3, <2>1, <3>1, FreshSortStarts
    <3> QED
      BY <3>2
  <2>4. CASE win.priority = <<>>
    <3>1. UNCHANGED sortVars
      BY <1>1, <2>4
    <3>2. FreshSorts' /\ ~Sorting'
      BY <2>1, <3>1, NothingSorts
    <3>3. v = win' /\ q = pag'
      BY <1>6 DEF Showing
    <3>4. FreshPage(win, pag)'
      BY <1>6, <2>2, <2>4, <3>3, FreshShown
    <3> QED
      BY <3>2, <3>4
  <2> QED
    BY <2>3, <2>4
<1> QED
  BY <1>2, <1>5, <1>7, <1>8, <1>9, <1>10 DEF ViewInv

\* Where no sort is started the GUI thread keeps the invariant, if what it shows is sound and
\* fresh.
LEMMA ViewKept ==
    ASSUME Inv, ViewInv, ScoredInv', ScreensInv', Reading, NEW d \in Nat, Without(d),
           UNCHANGED <<listener, sorts, lastSort>>, sortWorker' \in 0 .. lastSort, dropped' \subseteq 1 .. lastSort,
           ~disturbed' /\ Sorting => current' = "output",
           NEW v, NEW q, NEW s, Showing(v, q, s), gen'.visible \/ v = FirstWindow,
           ~disturbed' =>
              /\ ValidWindow(v) /\ (gen'.visible => current_window_size(v) > 0)
              /\ current' = "output" => Selects(v, q) /\ Shows(s, v, q),
           Sound' /\ fault' = "none" => FreshSorts' /\ (~Sorting' => FreshPage(win, pag)')
    PROVE ViewInv'
<1>1. BrowsingType /\ NumbersInv
  BY DEF Inv, BrowsingInv, ViewInv
<1>2. /\ (TypedWindow(win) /\ TypedPaging(pag) /\ shown.what \in Schedules \cup {Nothing, Failed})'
      /\ WindowInv' /\ ShownInv'
  BY PagesShown
<1>3. /\ (\A i \in SortIds : IsSort(sorts[i]) /\ IsPage(sorts[i].ids))'
      /\ (\A j \in DOMAIN events :
             IsPage(events[j].ids) /\ (events[j].kind = "sorted" => events[j].of \in SortIds))'
      /\ SortsInv' /\ (\A i \in SortIds : i > lastSort => ~InFlight(i))'
  BY SortsStay
<1>4. PagesInv'
  BY <1>2, <1>3 DEF PagesInv
<1>5. NumbersInv'
  <2>1. Dues' \in Nat /\ Dues' <= Dues /\ Dues \in Nat
    <3>1. UNCHANGED <<run, listener>>
      BY DEF Reading
    <3>2. (\E j \in DOMAIN events' : events'[j].kind = "finished") => \E j \in DOMAIN events : events[j].kind = "finished"
      BY DEF Without
    <3> QED
      BY <3>1, <3>2 DEF Dues
  <2>2. lastSort' + Dues' <= MaxClicks + 2 * run
    <3>1. PICK e, n : e = Dues' /\ n = Dues
      OBVIOUS
    <3>2. /\ lastSort \in Nat /\ e \in Nat /\ n \in Nat /\ e <= n
          /\ lastSort + n <= MaxClicks + 2 * run /\ MaxClicks \in Nat /\ run \in Nat
      BY <2>1, <3>1, SortIsDue
    <3>3. lastSort + e <= MaxClicks + 2 * run
      BY <3>2
    <3> QED
      BY <3>1, <3>3
  <2> QED
    BY <1>1, <1>3, <2>2, SortIsDue, NumbersKept
<1>6. FreshInv'
  BY FreshParts
<1> QED
  BY <1>2, <1>3, <1>4, <1>5, <1>6 DEF ViewInv

\* The run is over for those who count its signals, too, if none of them was delivered.
LEMMA OverStays ==
    ASSUME listener' = listener,
           \A j \in DOMAIN events : events[j].kind = "finished" => \E k \in DOMAIN events' : events'[k] = events[j]
    PROVE Over' => Over
BY DEF Over, Live

\* The click on Cancel ends the run on the screens, or only the waiting for it.
LEMMA CancelKeepsView ==
    ASSUME Inv, ViewInv, ScoredInv', ClickCancel
    PROVE ViewInv'
<1>0. /\ count \in Nat /\ BrowsingType /\ ScreensInv /\ NumbersInv /\ PagesInv /\ WindowInv /\ SortsInv
      /\ ShownInv /\ FreshInv
  BY LookingFacts DEF Inv, BrowsingInv, ViewInv
<1>1. /\ gui = "idle" /\ events = <<>> /\ current = "input"
      /\ UNCHANGED <<repositoryVars, clearing, fault, gui, run, todo, worker, earlyNav, sortConfig, events>>
  BY DEF ClickCancel, Clicks, Idle
<1>2. Without(0) /\ DOMAIN events = {} /\ 0 \in Nat
  BY <1>0, <1>1, SignalsStay
<1>3. CASE worker # 0 /\ listener[worker] = "running"
  <2>1. SearchFinished /\ listener' = [listener EXCEPT ![worker] = "cancelled"]
    BY <1>3 DEF ClickCancel
  <2>2. worker = run /\ run \in Runs /\ run # 0
    BY <1>0, <1>3 DEF BrowsingType, Runs
  <2>3. Dues = 2
    BY <1>3, <2>2 DEF Dues
  <2>4. listener'[run] = "cancelled"
    BY <1>0, <2>1, <2>2 DEF BrowsingType
  <2>5. Dues' = 1
    BY <1>1, <2>2, <2>4 DEF Dues
  <2>6. \A r \in Runs : listener'[r] = listener[r] \/ (listener[r] = "running" /\ listener'[r] = "cancelled")
    BY <1>0, <1>3, <2>1 DEF BrowsingType
  <2> QED
    BY <1>1, <1>2, <2>1, <2>3, <2>5, <2>6, FinishedKeepsView
<1>4. CASE ~(worker # 0 /\ listener[worker] = "running")
  <2>1. gen' = [gen EXCEPT !.running = FALSE]
        /\ UNCHANGED <<listener, routerVars, pagingVars, sortVars, disturbed>>
    BY <1>4 DEF ClickCancel
  <2>2. ScreensInv'
    <3>1. PICK x, y, z : x = gen.running /\ y = gen.navigated /\ z = gen.visible
      OBVIOUS
    <3>2. gen = [running |-> x, navigated |-> y, visible |-> z] /\ z \in BOOLEAN /\ y = z
      BY <1>0, <3>1 DEF ScreensInv
    <3>3. gen' = [running |-> FALSE, navigated |-> y, visible |-> z]
      BY <2>1, <3>2
    <3>4. /\ gen'.visible = gen.visible /\ gen'.visible \in BOOLEAN /\ gen'.navigated = gen'.visible
          /\ gen'.running \in BOOLEAN
          /\ gen' = [running |-> gen'.running, navigated |-> gen'.navigated, visible |-> gen'.visible]
      BY <3>1, <3>2, <3>3
    <3> QED
      BY <1>0, <1>1, <2>1, <3>4 DEF ScreensInv
  <2>3. gen'.visible = gen.visible
    BY <1>0, <2>1 DEF ScreensInv
  <2>4. Reading
    BY <1>1, <2>1 DEF Reading
  <2>5. Showing(win, pag, shown) /\ (gen'.visible \/ win = FirstWindow)
    BY <1>0, <1>1, <2>1, <2>3, ShowingStays DEF WindowInv
  <2>6. ~disturbed' =>
              /\ ValidWindow(win) /\ (gen'.visible => current_window_size(win) > 0)
              /\ current' = "output" => Selects(win, pag) /\ Shows(shown, win, pag)
    BY <1>0, <1>1, <2>1, <2>3 DEF WindowInv, ShownInv, Sound
  <2>7. ~disturbed' /\ Sorting => current' = "output"
    BY <1>0, <2>1 DEF SortsInv, Sorting
  <2>8. ASSUME Sound', fault' = "none"
        PROVE FreshSorts' /\ (~Sorting' => FreshPage(win, pag)')
    <3>1. Sound /\ fault = "none"
      BY <1>1, <2>1, <2>8 DEF Sound
    <3>2. FreshSorts /\ (~Sorting => FreshPage(win, pag))
      BY <1>0, <3>1, FreshParts
    <3>3. Over' => Over
      BY <1>2, <2>1, OverStays
    <3>4. FreshSorts'
      BY <1>1, <1>2, <2>1, <3>2, <3>3, FreshSortsStay
    <3>5. Sorting' <=> Sorting
      BY <1>1, <2>1 DEF Sorting, InFlight
    <3>6. ASSUME ~Sorting
          PROVE FreshPage(win, pag)'
      <4>1. PICK v, q : v = win /\ q = pag
        OBVIOUS
      <4>2. v = win' /\ q = pag'
        BY <2>1, <4>1
      <4>3. /\ v.priority = sortConfig'
            /\ Over' => /\ v.priority # <<>> => v.ids = get_sorted_ids_page(v.priority, v.page)
                        /\ current' = "output" => Synced(v, q)
        BY <1>1, <2>1, <3>2, <3>3, <3>6, <4>1 DEF FreshPage
      <4> QED
        BY <1>1, <4>2, <4>3, FreshShown
    <3> QED
      BY <3>4, <3>5, <3>6
  <2>9. sortWorker' \in 0 .. lastSort /\ dropped' \subseteq 1 .. lastSort
    BY <1>0, <2>1 DEF NumbersInv
  <2> QED
    BY <1>2, <2>1, <2>2, <2>4, <2>5, <2>6, <2>7, <2>8, <2>9, ViewKept
<1> QED
  BY <1>3, <1>4

\* What any delivery but that of the end of a run leaves of the signals.
LEMMA DeliveredFacts ==
    ASSUME Inv, ViewInv, NEW kind, Deliver(kind), kind # "finished",
           UNCHANGED <<DeliverStays, sortConfig, sortVars, disturbed>>
    PROVE /\ Reading /\ Without(1) /\ (Over' => Over) /\ (Sorting' => Sorting)
          /\ kind # "sorted" => (Sorting => Sorting')
          /\ Head(events) = events[1] /\ 1 \in DOMAIN events /\ events[1].kind = kind
          /\ ~disturbed' /\ Sorting => current = "output"
          /\ sortWorker' \in 0 .. lastSort /\ dropped' \subseteq 1 .. lastSort
          /\ Sound' /\ fault' = "none" => Sound /\ fault = "none" /\ FreshSorts /\ FreshSorts'
<1>1. BrowsingType /\ NumbersInv /\ SortsInv /\ FreshInv
  BY DEF Inv, BrowsingInv, ViewInv
<1>2. gui = "idle" /\ Reading
  BY DEF Deliver, Idle, Reading
<1>3. /\ Without(1) /\ 1 \in DOMAIN events /\ Head(events) = events[1] /\ events[1].kind = kind
      /\ \A j \in DOMAIN events : j # 1 => \E k \in DOMAIN events' : events'[k] = events[j]
  BY <1>1, SignalDelivered
<1>4. Over' => Over
  BY <1>3, OverStays
<1>5. Sorting' => Sorting
  BY <1>3, FewerInFlight
<1>6. ASSUME kind # "sorted", Sorting
      PROVE Sorting'
  <2>1. PICK i \in SortIds : InFlight(i)
    BY <1>6 DEF Sorting
  <2>2. CASE sorts[i].pc \notin {"none", "done"}
    BY <2>2 DEF Sorting, InFlight
  <2>3. CASE \E j \in DOMAIN events : events[j].of = i /\ events[j].kind = "sorted"
    <3>1. PICK j \in DOMAIN events : events[j].of = i /\ events[j].kind = "sorted"
      BY <2>3
    <3>2. \E k \in DOMAIN events' : events'[k] = events[j]
      BY <1>3, <1>6, <3>1
    <3> QED
      BY <3>1, <3>2 DEF Sorting, InFlight
  <2> QED
    BY <2>1, <2>2, <2>3 DEF InFlight
<1>7. ~disturbed' /\ Sorting => current = "output"
  BY <1>1 DEF SortsInv, Sorting
<1>8. sortWorker' \in 0 .. lastSort /\ dropped' \subseteq 1 .. lastSort
  BY <1>1 DEF NumbersInv
<1>9. ASSUME Sound', fault' = "none"
      PROVE Sound /\ fault = "none" /\ FreshSorts /\ FreshSorts'
  <2>1. Sound /\ fault = "none"
    BY <1>9 DEF Sound
  <2>2. FreshSorts
    BY <1>1, <2>1, FreshParts
  <2> QED
    BY <1>3, <1>4, <2>1, <2>2, FreshSortsStay
<1> QED
  BY <1>2, <1>3, <1>4, <1>5, <1>6, <1>7, <1>8, <1>9

\* The first batches open the output screen, later ones move its numbers.
LEMMA BatchKeepsView ==
    ASSUME Inv, ViewInv, ScoredInv', DeliverBatch
    PROVE ViewInv'
<1>0. /\ count \in Nat /\ BrowsingType /\ ScreensInv /\ PagesInv /\ WindowInv /\ SortsInv /\ ShownInv /\ FreshInv
  BY LookingFacts DEF Inv, BrowsingInv, ViewInv
<1>1. Deliver("batch") /\ UNCHANGED <<DeliverStays, sortConfig, sortVars, disturbed>> /\ gui = "idle"
  BY DEF DeliverBatch, Deliver, Idle
<1>2. /\ Reading /\ Without(1) /\ (Over' => Over) /\ (Sorting' <=> Sorting)
      /\ ~disturbed' /\ Sorting => current = "output"
      /\ sortWorker' \in 0 .. lastSort /\ dropped' \subseteq 1 .. lastSort
      /\ Sound' /\ fault' = "none" => Sound /\ fault = "none" /\ FreshSorts'
  BY <1>1, DeliveredFacts
<1>3. ASSUME Sound', fault' = "none", ~Sorting
      PROVE FreshPage(win, pag)
  BY <1>0, <1>2, <1>3, FreshParts
<1>4. CASE ~earlyNav /\ count > 0 /\ ~gen.navigated
  <2>1. Show("output") /\ Enter(win, pag) /\ gen' = [gen EXCEPT !.navigated = TRUE, !.visible = TRUE]
    BY <1>4 DEF DeliverBatch
  <2>2. gen'.visible /\ ScreensInv' /\ current' = "output"
    <3>1. PICK x, y, z : x = gen.running /\ y = gen.navigated /\ z = gen.visible
      OBVIOUS
    <3>2. gen = [running |-> x, navigated |-> y, visible |-> z] /\ x \in BOOLEAN /\ z \in BOOLEAN /\ y = z
      BY <1>0, <3>1 DEF ScreensInv
    <3>3. PICK g : g = [gen EXCEPT !.navigated = TRUE]
      OBVIOUS
    <3>4. g = [running |-> x, navigated |-> TRUE, visible |-> z]
      BY <3>2, <3>3
    <3>5. gen' = [g EXCEPT !.visible = TRUE]
      BY <2>1, <3>3
    <3>6. gen' = [running |-> x, navigated |-> TRUE, visible |-> TRUE]
      BY <3>4, <3>5
    <3>7. /\ gen'.visible /\ gen'.visible \in BOOLEAN /\ gen'.navigated = gen'.visible
          /\ gen'.running \in BOOLEAN
          /\ gen' = [running |-> gen'.running, navigated |-> gen'.navigated, visible |-> gen'.visible]
      BY <3>2, <3>6
    <3>8. current = "input" /\ history = <<>>
      BY <1>0, <1>4 DEF ScreensInv
    <3>9. current' = "output" /\ history' = <<"input">>
      BY <2>1, <3>8, RouterSteps
    <3> QED
      BY <1>1, <1>4, <3>7, <3>9 DEF ScreensInv
  <2>3. PICK v, q, s :
            /\ Showing(v, q, s) /\ v.page = win.page /\ v.priority = win.priority /\ v.ids = win.ids
            /\ Synced(v, q)
            /\ ~disturbed /\ (gen.visible \/ count > 0) =>
                  /\ ValidWindow(v) /\ current_window_size(v) > 0
                  /\ Selects(v, q) /\ Shows(s, v, q)
    BY <1>1, <2>1, Entering
  <2>4. ASSUME Sound', fault' = "none"
        PROVE FreshSorts' /\ (~Sorting' => FreshPage(win, pag)')
    <3>1. v = win' /\ q = pag'
      BY <2>3 DEF Showing
    <3>2. ~Sorting => FreshPage(win, pag)'
      BY <1>1, <1>2, <1>3, <2>3, <2>4, <3>1, FreshShown DEF FreshPage
    <3> QED
      BY <1>2, <2>4, <3>2
  <2> QED
    BY <1>1, <1>2, <1>4, <2>2, <2>3, <2>4, ViewKept
<1>5. CASE ~(~earlyNav /\ count > 0 /\ ~gen.navigated)
  <2>1. /\ UNCHANGED <<gen, routerVars, win, shown>>
        /\ pag' = IF Active THEN TotalCountUpdated(pag) ELSE pag
    BY <1>5 DEF DeliverBatch
  <2>2. ScreensInv'
    BY <1>0, <1>1, <2>1 DEF ScreensInv
  <2>3. TypedWindow(win) /\ TypedPaging(pag) /\ shown.what \in Schedules \cup {Nothing, Failed}
    BY <1>0 DEF PagesInv
  <2>4. PICK q : /\ pag' = q /\ TypedPaging(q)
                 /\ q.idx = pag.idx /\ q.page = pag.page /\ q.period = pag.period
                 /\ q.total \in {pag.total, current_window_size(win)}
                 /\ (q.pages = total_pages /\ q.disk = count) \/ (q.pages = pag.pages /\ q.disk = pag.disk)
    <3>1. CASE Active
      BY <1>0, <2>1, <2>3, <3>1, CountUpdates
    <3>2. CASE ~Active
      BY <2>1, <2>3, <3>2
    <3> QED
      BY <3>1, <3>2
  <2>5. Showing(win, q, shown) /\ (gen'.visible \/ win = FirstWindow)
    BY <1>0, <1>1, <2>1, <2>3, <2>4 DEF Showing, WindowInv
  <2>6. ~disturbed' =>
              /\ ValidWindow(win) /\ (gen'.visible => current_window_size(win) > 0)
              /\ current' = "output" => Selects(win, q) /\ Shows(shown, win, q)
    <3> SUFFICES ASSUME ~disturbed'
                 PROVE /\ ValidWindow(win) /\ (gen'.visible => current_window_size(win) > 0)
                       /\ current' = "output" => Selects(win, q) /\ Shows(shown, win, q)
      OBVIOUS
    <3>1. ValidWindow(win) /\ (gen'.visible => current_window_size(win) > 0)
      BY <1>0, <1>1, <2>1 DEF WindowInv, Sound
    <3>2. ASSUME current' = "output"
          PROVE Selects(win, q) /\ Shows(shown, win, q)
      <4>1. Selects(win, pag) /\ Shows(shown, win, pag)
        BY <1>0, <1>1, <2>1, <3>2 DEF ShownInv
      <4>2. PICK n : n = current_window_size(win)
        OBVIOUS
      <4>3. pag.idx < pag.total /\ pag.total <= n /\ q.total \in {pag.total, n} /\ pag.total > 0
        BY <2>4, <4>1, <4>2 DEF Selects
      <4>4. n \in Nat /\ pag.idx \in Nat /\ pag.total \in Nat
        BY <1>0, <2>3, <4>2, SizeOfWindow, WindowAssumption DEF TypedPaging
      <4>5. q.idx < q.total /\ q.total > 0 /\ q.total <= n
        BY <2>4, <4>3, <4>4
      <4>6. Selects(win, q)
        BY <2>4, <4>1, <4>2, <4>5 DEF Selects
      <4>7. Shows(shown, win, q)
        BY <2>4, <4>1 DEF Shows
      <4> QED
        BY <4>6, <4>7
    <3> QED
      BY <3>1, <3>2
  <2>7. ASSUME Sound', fault' = "none"
        PROVE FreshSorts' /\ (~Sorting' => FreshPage(win, pag)')
    <3>1. ASSUME ~Sorting
          PROVE FreshPage(win, pag)'
      <4>1. PICK v : v = win
        OBVIOUS
      <4>2. v = win' /\ q = pag'
        BY <2>1, <2>4, <4>1
      <4>3. FreshPage(v, pag)
        BY <1>3, <2>7, <3>1, <4>1
      <4>4. Synced(v, pag) => Synced(v, q)
        BY <2>4, <4>1 DEF Synced
      <4>5. /\ v.priority = sortConfig'
            /\ Over' => /\ v.priority # <<>> => v.ids = get_sorted_ids_page(v.priority, v.page)
                        /\ current' = "output" => Synced(v, q)
        BY <1>1, <1>2, <2>1, <4>3, <4>4 DEF FreshPage
      <4> QED
        BY <1>1, <4>2, <4>5, FreshShown
    <3> QED
      BY <1>2, <2>7, <3>1
  <2>8. ~disturbed' /\ Sorting => current' = "output"
    BY <1>2, <2>1
  <2> QED
    BY <1>1, <1>2, <2>2, <2>5, <2>6, <2>7, <2>8, ViewKept
<1> QED
  BY <1>4, <1>5

\* The end of a run is delivered once.
LEMMA FinishKeepsView ==
    ASSUME Inv, ViewInv, ScoredInv', DeliverFinished
    PROVE ViewInv'
<1>1. BrowsingType /\ NumbersInv /\ gui = "idle" /\ Deliver("finished") /\ SearchFinished
      /\ UNCHANGED <<DeliverStays, sortConfig>>
  BY DEF Inv, BrowsingInv, ViewInv, DeliverFinished, Deliver, Idle
<1>2. /\ Without(1) /\ 1 \in DOMAIN events /\ events[1].kind = "finished"
      /\ \A j \in DOMAIN events' : j + 1 \in DOMAIN events /\ events'[j] = events[j + 1] /\ j \in Nat
  BY <1>1, SignalDelivered DEF Without
<1>3. run # 0 /\ listener[run] = "ended"
  BY <1>1, <1>2 DEF NumbersInv
<1>4. Dues = 1
  BY <1>2, <1>3 DEF Dues
<1>5. \A j \in DOMAIN events' : events'[j].kind # "finished"
  <2> SUFFICES ASSUME NEW j \in DOMAIN events', events'[j].kind = "finished"
               PROVE FALSE
    OBVIOUS
  <2>1. j + 1 \in DOMAIN events /\ events[j + 1].kind = "finished" /\ j \in Nat
    BY <1>2
  <2>2. j + 1 = 1 /\ 1 \in DOMAIN events
    BY <1>1, <1>2, <2>1 DEF NumbersInv
  <2>3. j = 0
    BY <2>1, <2>2
  <2>4. DOMAIN events' = 1 .. Len(events')
    <3>1. events' \in Seq(ToSet(events'))
      BY <1>1, DeliveredIsFirst DEF BrowsingType, Deliver
    <3>2. PICK s : s = events'
      OBVIOUS
    <3>3. s \in Seq(ToSet(s))
      BY <3>1, <3>2
    <3>4. DOMAIN s = 1 .. Len(s)
      BY <3>3
    <3> QED
      BY <3>2, <3>4
  <2> QED
    BY <2>3, <2>4
<1>6. Dues' = 0
  BY <1>1, <1>3, <1>5 DEF Dues
<1> QED
  BY <1>1, <1>2, <1>4, <1>6, FinishedKeepsView

\* An error leaves everything as it is.
LEMMA ErrorKeepsView ==
    ASSUME Inv, ViewInv, ScoredInv', DeliverError
    PROVE ViewInv'
<1>0. /\ ScreensInv /\ PagesInv /\ WindowInv /\ ShownInv /\ FreshInv
  BY DEF ViewInv
<1>1. /\ Deliver("error") /\ UNCHANGED <<DeliverStays, sortConfig, sortVars, disturbed>> /\ gui = "idle"
      /\ UNCHANGED <<pagingVars, routerVars>> /\ gen' = [gen EXCEPT !.running = FALSE]
  BY DEF DeliverError, Deliver, Idle
<1>2. /\ Reading /\ Without(1) /\ (Over' => Over) /\ (Sorting' <=> Sorting)
      /\ ~disturbed' /\ Sorting => current = "output"
      /\ sortWorker' \in 0 .. lastSort /\ dropped' \subseteq 1 .. lastSort
      /\ Sound' /\ fault' = "none" => Sound /\ fault = "none" /\ FreshSorts'
  BY <1>1, DeliveredFacts
<1>3. ScreensInv' /\ gen'.visible = gen.visible
  <2>1. PICK x, y, z : x = gen.running /\ y = gen.navigated /\ z = gen.visible
    OBVIOUS
  <2>2. gen = [running |-> x, navigated |-> y, visible |-> z] /\ z \in BOOLEAN /\ y = z
    BY <1>0, <2>1 DEF ScreensInv
  <2>3. gen' = [running |-> FALSE, navigated |-> y, visible |-> z]
    BY <1>1, <2>2
  <2>4. /\ gen'.visible = gen.visible /\ gen'.visible \in BOOLEAN /\ gen'.navigated = gen'.visible
        /\ gen'.running \in BOOLEAN
        /\ gen' = [running |-> gen'.running, navigated |-> gen'.navigated, visible |-> gen'.visible]
    BY <2>1, <2>2, <2>3
  <2> QED
    BY <1>0, <1>1, <2>4 DEF ScreensInv
<1>4. Showing(win, pag, shown) /\ (gen'.visible \/ win = FirstWindow)
  BY <1>0, <1>1, <1>3, ShowingStays DEF WindowInv
<1>5. ~disturbed' =>
            /\ ValidWindow(win) /\ (gen'.visible => current_window_size(win) > 0)
            /\ current' = "output" => Selects(win, pag) /\ Shows(shown, win, pag)
  BY <1>0, <1>1, <1>3 DEF WindowInv, ShownInv, Sound
<1>6. ASSUME Sound', fault' = "none"
      PROVE FreshSorts' /\ (~Sorting' => FreshPage(win, pag)')
  <2>1. ASSUME ~Sorting
        PROVE FreshPage(win, pag)'
    <3>1. PICK v, q : v = win /\ q = pag
      OBVIOUS
    <3>2. v = win' /\ q = pag'
      BY <1>1, <3>1
    <3>3. FreshPage(v, q)
      BY <1>0, <1>2, <1>6, <2>1, <3>1, FreshParts
    <3> QED
      BY <1>1, <1>2, <3>2, <3>3, FreshShown DEF FreshPage
  <2> QED
    BY <1>2, <1>6, <2>1
<1>7. ~disturbed' /\ Sorting => current' = "output"
  BY <1>1, <1>2
<1> QED
  BY <1>1, <1>2, <1>3, <1>4, <1>5, <1>6, <1>7, ViewKept

\* A sorted page that is delivered takes the place of the one that was shown.
LEMMA SortedKeepsView ==
    ASSUME Inv, ViewInv, ScoredInv', DeliverSorted
    PROVE ViewInv'
<1>0. /\ ScreensInv /\ PagesInv /\ WindowInv /\ SortsInv /\ ShownInv /\ FreshInv /\ ScoredInv /\ RepositoryInv
      /\ TypedWindow(win) /\ TypedPaging(pag) /\ shown.what \in Schedules \cup {Nothing, Failed}
  BY DEF Inv, ViewInv, PagesInv
<1>1. /\ Deliver("sorted") /\ UNCHANGED <<DeliverStays, sortConfig, sortVars, disturbed>> /\ gui = "idle"
      /\ UNCHANGED <<gen, routerVars>>
  BY DEF DeliverSorted, Deliver, Idle
<1>2. /\ Reading /\ Without(1) /\ (Over' => Over) /\ (Sorting' => Sorting)
      /\ Head(events) = events[1] /\ 1 \in DOMAIN events /\ events[1].kind = "sorted"
      /\ ~disturbed' /\ Sorting => current = "output"
      /\ sortWorker' \in 0 .. lastSort /\ dropped' \subseteq 1 .. lastSort
      /\ Sound' /\ fault' = "none" => Sound /\ fault = "none" /\ FreshSorts /\ FreshSorts'
  BY <1>1, DeliveredFacts
<1>3. PICK e : e = events[1]
  OBVIOUS
<1>4. e.kind = "sorted" /\ e.of \in SortIds /\ IsPage(e.ids) /\ IsOrder(e.order)
  BY <1>0, <1>2, <1>3 DEF PagesInv, Inv, BrowsingInv, OrdersInv
<1>5. Sorting
  BY <1>2, <1>3, <1>4 DEF Sorting, InFlight
<1>6. ScreensInv' /\ clearing = "no"
  BY <1>0, <1>1 DEF ScreensInv, Inv, BrowsingInv, FlowInv
<1>7. CASE Active /\ e.of \notin dropped
  <2>1. ResetToFirst(apply_sort_data(win, e.order, e.ids), pag) /\ gen.visible /\ count > 0
    BY <1>2, <1>3, <1>7, LookingFacts DEF DeliverSorted, Active
  <2>2. PICK w : /\ apply_sort_data(win, e.order, e.ids) = w /\ TypedWindow(w)
                 /\ w.page = 0 /\ w.priority = e.order
                 /\ e.order # <<>> => w.ids = e.ids
                 /\ clearing = "no" /\ count > 0 /\ ValidPage(e.order, e.ids) =>
                       ValidWindow(w) /\ current_window_size(w) > 0
    BY <1>0, <1>4, SortApplies
  <2>3. PICK v, q, s :
            /\ win' = v /\ pag' = q /\ shown' = s
            /\ TypedWindow(v) /\ TypedPaging(q) /\ s.what \in Schedules \cup {Nothing, Failed}
            /\ v.page = w.page /\ v.priority = w.priority /\ v.ids = w.ids
            /\ current_window_size(v) = current_window_size(w)
            /\ q.page = w.page /\ Synced(v, q)
            /\ clearing = "no" /\ ValidWindow(w) =>
                  /\ ValidWindow(v)
                  /\ current_window_size(w) > 0 => Selects(v, q) /\ Shows(s, v, q)
    BY <1>0, <2>1, <2>2, ResetShows
  <2>4. Showing(v, q, s) /\ gen'.visible
    BY <1>1, <2>1, <2>3 DEF Showing
  <2>5. ~disturbed' =>
            /\ ValidWindow(v) /\ current_window_size(v) > 0
            /\ Selects(v, q) /\ Shows(s, v, q)
    <3> SUFFICES ASSUME ~disturbed'
                 PROVE /\ ValidWindow(v) /\ current_window_size(v) > 0
                       /\ Selects(v, q) /\ Shows(s, v, q)
      OBVIOUS
    <3>1. ValidPage(e.order, e.ids)
      BY <1>0, <1>1, <1>2, <1>3 DEF SortsInv, Sound
    <3> QED
      BY <1>6, <2>1, <2>2, <2>3, <3>1
  <2>6. ASSUME Sound', fault' = "none"
        PROVE FreshSorts' /\ FreshPage(win, pag)'
    <3>1. /\ e.order = sortConfig
          /\ Over => e.ids = compute_sort_data(e.order)
      BY <1>2, <1>3, <2>6 DEF FreshSorts
    <3>2. v.priority # <<>> => v.ids = e.ids /\ compute_sort_data(e.order) = get_sorted_ids_page(v.priority, v.page)
      BY <2>2, <2>3 DEF compute_sort_data
    <3>3. FreshPage(win, pag)'
      BY <1>1, <1>2, <2>2, <2>3, <3>1, <3>2, FreshShown
    <3> QED
      BY <1>2, <2>6, <3>3
  <2>7. ~disturbed' /\ Sorting => current' = "output"
    BY <1>1, <1>2
  <2> QED
    BY <1>1, <1>2, <1>6, <2>4, <2>5, <2>6, <2>7, ViewKept
<1>8. CASE ~(Active /\ e.of \notin dropped)
  <2>1. UNCHANGED pagingVars
    BY <1>2, <1>3, <1>8 DEF DeliverSorted
  <2>2. Showing(win, pag, shown) /\ (gen'.visible \/ win = FirstWindow)
    BY <1>0, <1>1, <2>1, ShowingStays DEF WindowInv
  <2>3. ~disturbed' =>
              /\ ValidWindow(win) /\ (gen'.visible => current_window_size(win) > 0)
              /\ current' = "output" => Selects(win, pag) /\ Shows(shown, win, pag)
    BY <1>0, <1>1 DEF WindowInv, ShownInv, Sound
  <2>4. ~(Sound' /\ fault' = "none")
    <3> SUFFICES ASSUME Sound', fault' = "none"
                 PROVE FALSE
      OBVIOUS
    <3>1. e.of \notin dropped
      BY <1>2, <1>3 DEF FreshSorts
    <3>2. current = "output"
      BY <1>1, <1>2, <1>5 DEF Sound
    <3> QED
      BY <1>8, <3>1, <3>2 DEF Active
  <2>5. ~disturbed' /\ Sorting => current' = "output"
    BY <1>1, <1>2
  <2> QED
    BY <1>1, <1>2, <1>6, <2>2, <2>3, <2>4, <2>5, ViewKept
<1> QED
  BY <1>7, <1>8

-----------------------------------------------------------------------------
(* The user on the screens *)

\* What a click leaves alone.
LEMMA ClickFacts ==
    ASSUME Inv, ViewInv, Clicks, UNCHANGED UserStays, disturbed => disturbed'
    PROVE /\ Reading /\ Without(0) /\ 0 \in Nat /\ (Over' => Over)
          /\ count \in Nat /\ clearing = "no" /\ gui = "idle" /\ gen'.visible = gen.visible
<1>1. gui = "idle" /\ events = <<>> /\ UNCHANGED <<batches, scored, count, clearing, gui, run, fault, events, listener, gen>>
  BY DEF Clicks, Idle
<1>2. Reading
  BY <1>1 DEF Reading
<1>3. Without(0) /\ 0 \in Nat
  BY <1>1, SignalsStay DEF Inv, BrowsingInv
<1>4. Over' => Over
  BY <1>1, OverStays
<1>5. count \in Nat /\ clearing = "no"
  BY <1>1, LookingFacts DEF Inv, BrowsingInv, FlowInv
<1> QED
  BY <1>1, <1>2, <1>3, <1>4, <1>5

\* The user looks at another schedule of the output screen.
LEMMA LookKeepsView ==
    ASSUME Inv, ViewInv, ScoredInv', Clicks, Active,
           UNCHANGED <<UserStays, routerVars, sortConfig, sortVars, disturbed>>,
           NEW v, NEW q, NEW s, Showing(v, q, s), v.priority = win.priority,
           ~disturbed =>
              ValidWindow(v) /\ current_window_size(v) > 0 /\ Selects(v, q) /\ Shows(s, v, q),
           Over /\ FreshPage(win, pag) =>
              /\ v.priority # <<>> => v.ids = get_sorted_ids_page(v.priority, v.page)
              /\ Synced(v, q)
    PROVE ViewInv'
<1>0. ScreensInv /\ NumbersInv /\ FreshInv
  BY DEF ViewInv
<1>1. /\ Reading /\ Without(0) /\ 0 \in Nat /\ (Over' => Over)
      /\ count \in Nat /\ clearing = "no" /\ gui = "idle" /\ gen'.visible = gen.visible
  BY ClickFacts
<1>2. ScreensInv' /\ gen'.visible /\ current' = "output"
  BY <1>0 DEF ScreensInv, Active
<1>3. Sorting' <=> Sorting
  BY DEF Sorting, InFlight
<1>4. ASSUME Sound', fault' = "none"
      PROVE FreshSorts' /\ (~Sorting' => FreshPage(win, pag)')
  <2>1. Sound /\ fault = "none"
    BY <1>4 DEF Sound
  <2>2. FreshSorts /\ (~Sorting => FreshPage(win, pag))
    BY <1>0, <2>1, FreshParts
  <2>3. FreshSorts'
    BY <1>1, <2>2, FreshSortsStay
  <2>4. ASSUME ~Sorting
        PROVE FreshPage(win, pag)'
    <3>1. v = win' /\ q = pag'
      BY DEF Showing
    <3>2. v.priority = sortConfig'
      BY <2>2, <2>4 DEF FreshPage
    <3> QED
      BY <1>1, <2>2, <2>4, <3>1, <3>2, FreshShown
  <2> QED
    BY <1>3, <2>3, <2>4
<1>5. sortWorker' \in 0 .. lastSort /\ dropped' \subseteq 1 .. lastSort
  BY <1>0 DEF NumbersInv
<1> QED
  BY <1>1, <1>2, <1>4, <1>5, ViewKept

\* On the output screen there is a schedule to look at.
LEMMA OutputFacts ==
    ASSUME Inv, ViewInv, Clicks, Active
    PROVE /\ RepositoryInv /\ ScoredInv /\ TypedWindow(win) /\ TypedPaging(pag) /\ IsOrder(win.priority)
          /\ shown.what \in Schedules \cup {Nothing, Failed} /\ clearing = "no"
          /\ gen.visible /\ count \in Nat /\ count > 0
          /\ ~disturbed => /\ ValidWindow(win) /\ current_window_size(win) > 0
                           /\ Selects(win, pag) /\ Shows(shown, win, pag)
<1>1. /\ RepositoryInv /\ ScoredInv /\ TypedWindow(win) /\ TypedPaging(pag) /\ IsOrder(win.priority)
      /\ shown.what \in Schedules \cup {Nothing, Failed}
  BY DEF Inv, BrowsingInv, OrdersInv, ViewInv, PagesInv
<1>2. gui = "idle" /\ clearing = "no"
  BY DEF Inv, BrowsingInv, FlowInv, Clicks, Idle
<1>3. gen.visible /\ count > 0
  BY DEF ViewInv, ScreensInv, Active
<1>4. count \in Nat
  BY LookingFacts
<1>5. ~disturbed => ValidWindow(win) /\ current_window_size(win) > 0
  BY <1>2, <1>3, SomethingToShow
<1>6. ~disturbed => Selects(win, pag) /\ Shows(shown, win, pag)
  BY DEF ViewInv, ShownInv, Active
<1> QED
  BY <1>1, <1>2, <1>3, <1>4, <1>5, <1>6

\* A page that is there begins before the end.
LEMMA PageBegins ==
    ASSUME count \in Nat, count > 0, NEW page \in Nat, HasPage(page)
    PROVE page * WindowSize < count
<1>1. PICK t : t = total_pages
  OBVIOUS
<1>2. WindowSize \in Nat \ {0} /\ t = (count + WindowSize - 1) \div WindowSize
  BY <1>1, WindowAssumption DEF total_pages
<1>3. count + WindowSize - 1 \in Nat /\ t \in Nat /\ WindowSize > 0
  BY <1>2
<1>4. PICK a : a = t * WindowSize
  OBVIOUS
<1>5. a <= count + WindowSize - 1 /\ count + WindowSize - 1 < a + WindowSize /\ a \in Nat
  BY <1>2, <1>3, <1>4
<1>6. t > 0
  <2> SUFFICES ASSUME t = 0
               PROVE FALSE
    BY <1>3
  <2>1. a = 0
    BY <1>2, <1>4
  <2> QED
    BY <1>2, <1>5, <2>1
<1>7. page + 1 <= t
  BY <1>1, <1>3, <1>6 DEF HasPage
<1>8. PICK b : b = page * WindowSize
  OBVIOUS
<1>9. b \in Nat /\ b + WindowSize <= a
  <2>1. (page + 1) * WindowSize = b + WindowSize /\ b \in Nat
    BY <1>2, <1>8
  <2>2. (page + 1) * WindowSize <= t * WindowSize
    BY <1>2, <1>3, <1>7
  <2> QED
    BY <1>4, <2>1, <2>2
<1> QED
  BY <1>2, <1>5, <1>8, <1>9

\* Another page.
LEMMA PageKeepsView ==
    ASSUME Inv, ViewInv, ScoredInv', NEW page \in 0 .. MaxCount, Page(page)
    PROVE ViewInv'
<1>1. /\ Clicks /\ Active /\ HasPage(page) /\ ResetToFirst(load_page(win, page), pag)
      /\ UNCHANGED <<UserStays, routerVars, sortConfig, sortVars, disturbed>>
  BY DEF Page, LoadPage
<1>2. /\ RepositoryInv /\ ScoredInv /\ TypedWindow(win) /\ TypedPaging(pag) /\ IsOrder(win.priority)
      /\ shown.what \in Schedules \cup {Nothing, Failed} /\ clearing = "no"
      /\ count \in Nat /\ count > 0
  BY <1>1, OutputFacts
<1>3. page \in Nat
  BY RepositoryAssumption
<1>4. page * WindowSize < count
  BY <1>1, <1>2, <1>3, PageBegins
<1>5. PICK w : /\ load_page(win, page) = w /\ TypedWindow(w) /\ ValidWindow(w)
               /\ w.page = page /\ w.priority = win.priority
               /\ w.priority # <<>> => w.ids = get_sorted_ids_page(w.priority, w.page)
               /\ clearing = "no" /\ page * WindowSize < count => current_window_size(w) > 0
  BY <1>2, <1>3, PageLoads
<1>6. PICK v, q, s :
          /\ win' = v /\ pag' = q /\ shown' = s
          /\ TypedWindow(v) /\ TypedPaging(q) /\ s.what \in Schedules \cup {Nothing, Failed}
          /\ v.page = w.page /\ v.priority = w.priority /\ v.ids = w.ids
          /\ current_window_size(v) = current_window_size(w)
          /\ q.page = w.page /\ Synced(v, q)
          /\ clearing = "no" /\ ValidWindow(w) =>
                /\ ValidWindow(v)
                /\ current_window_size(w) > 0 => Selects(v, q) /\ Shows(s, v, q)
  BY <1>1, <1>2, <1>5, ResetShows
<1>7. Showing(v, q, s)
  BY <1>6 DEF Showing
<1>8. ValidWindow(v) /\ current_window_size(v) > 0 /\ Selects(v, q) /\ Shows(s, v, q)
  BY <1>2, <1>4, <1>5, <1>6
<1>9. v.priority # <<>> => v.ids = get_sorted_ids_page(v.priority, v.page)
  BY <1>5, <1>6
<1>10. v.priority = win.priority /\ Synced(v, q)
  BY <1>5, <1>6
<1> QED
  BY <1>1, <1>7, <1>8, <1>9, <1>10, LookKeepsView

\* Another schedule of the page, or another period.
LEMMA MoveKeepsView ==
    ASSUME Inv, ViewInv, ScoredInv', Move
    PROVE ViewInv'
<1>1. Clicks /\ Active /\ UNCHANGED <<UserStays, indexVars, routerVars, sortConfig, sortVars, disturbed>>
  BY DEF Move
<1>2. /\ RepositoryInv /\ TypedWindow(win) /\ TypedPaging(pag)
      /\ shown.what \in Schedules \cup {Nothing, Failed} /\ clearing = "no"
      /\ ~disturbed => ValidWindow(win) /\ current_window_size(win) > 0 /\ Selects(win, pag)
  BY <1>1, OutputFacts
<1>3. PICK q : /\ ShowCurrent(win, q) /\ TypedPaging(q)
               /\ q.total = pag.total /\ q.page = pag.page /\ q.pages = pag.pages /\ q.disk = pag.disk
               /\ q.idx = pag.idx \/ q.idx < pag.total
  <2>1. ASSUME NEW i \in 0 .. WindowSize - 1, MoveTo(i)
        PROVE \E q : /\ ShowCurrent(win, q) /\ TypedPaging(q)
                     /\ q.total = pag.total /\ q.page = pag.page /\ q.pages = pag.pages /\ q.disk = pag.disk
                     /\ q.idx = pag.idx \/ q.idx < pag.total
    <3>1. PICK q : q = [pag EXCEPT !.idx = i]
      OBVIOUS
    <3>2. ShowCurrent(win, q) /\ i < pag.total /\ i \in Nat
      BY <2>1, <3>1, WindowAssumption DEF MoveTo
    <3>3. 1 \in 1 .. NumPeriods
      BY PagingAssumption
    <3>4. /\ TypedPaging(q) /\ q.idx = i
          /\ q.total = pag.total /\ q.page = pag.page /\ q.pages = pag.pages /\ q.disk = pag.disk
      BY <1>2, <3>1, <3>2, <3>3, PagingChanges
    <3> QED
      BY <3>2, <3>4
  <2>2. ASSUME NEW i \in 1 .. NumPeriods, MovePeriod(i)
        PROVE \E q : /\ ShowCurrent(win, q) /\ TypedPaging(q)
                     /\ q.total = pag.total /\ q.page = pag.page /\ q.pages = pag.pages /\ q.disk = pag.disk
                     /\ q.idx = pag.idx \/ q.idx < pag.total
    <3>1. PICK q : q = [pag EXCEPT !.period = i]
      OBVIOUS
    <3>2. ShowCurrent(win, q) /\ 0 \in Nat
      BY <2>2, <3>1 DEF MovePeriod
    <3>3. /\ TypedPaging(q) /\ q.idx = pag.idx
          /\ q.total = pag.total /\ q.page = pag.page /\ q.pages = pag.pages /\ q.disk = pag.disk
      BY <1>2, <3>1, <3>2, PagingChanges
    <3> QED
      BY <3>2, <3>3
  <2> QED
    BY <2>1, <2>2 DEF Move
<1>4. PICK v, s :
          /\ win' = v /\ shown' = s /\ pag' = q
          /\ TypedWindow(v) /\ s.what \in Schedules \cup {Nothing, Failed}
          /\ v.page = win.page /\ v.priority = win.priority /\ v.ids = win.ids
          /\ current_window_size(v) = current_window_size(win)
          /\ clearing = "no" /\ ValidWindow(win) =>
                /\ ValidWindow(v)
                /\ q.total > 0 /\ q.idx < q.total /\ q.total <= current_window_size(win) =>
                      Stored(GlobalId(v, q.idx)) /\ Shows(s, v, q)
  BY <1>2, <1>3, ShowCurrentShows
<1>5. Showing(v, q, s)
  BY <1>3, <1>4 DEF Showing
<1>6. ASSUME ~disturbed
      PROVE ValidWindow(v) /\ current_window_size(v) > 0 /\ Selects(v, q) /\ Shows(s, v, q)
  <2>1. q.total > 0 /\ q.idx < q.total /\ q.total <= current_window_size(win) /\ q.page = v.page
    BY <1>2, <1>3, <1>4, <1>6 DEF Selects
  <2>2. ValidWindow(v) /\ current_window_size(v) > 0
    BY <1>2, <1>4, <1>6
  <2>3. Stored(GlobalId(v, q.idx)) /\ Shows(s, v, q)
    BY <1>2, <1>4, <1>6, <2>1
  <2> QED
    BY <1>4, <2>1, <2>2, <2>3 DEF Selects
<1>7. ASSUME Over, FreshPage(win, pag)
      PROVE /\ v.priority # <<>> => v.ids = get_sorted_ids_page(v.priority, v.page)
            /\ Synced(v, q)
  <2>1. Synced(win, pag)
    BY <1>1, <1>7 DEF FreshPage, Active
  <2>2. Synced(v, q)
    BY <1>3, <1>4, <2>1 DEF Synced
  <2> QED
    BY <1>4, <1>7, <2>2 DEF FreshPage
<1> QED
  BY <1>1, <1>4, <1>5, <1>6, <1>7, LookKeepsView

\* The sort that the user applies is the one that is wanted from now on.
LEMMA ApplyKeepsView ==
    ASSUME Inv, ViewInv, ScoredInv', NEW order \in Orders, ApplySort(order)
    PROVE ViewInv'
<1>0. BrowsingType /\ ScreensInv /\ PagesInv /\ NumbersInv /\ WindowInv /\ ShownInv
  BY DEF Inv, BrowsingInv, ViewInv
<1>1. /\ Clicks /\ Active /\ run + lastSort < MaxClicks /\ sortConfig' = order /\ StartSort(order)
      /\ disturbed' = (disturbed \/ Sorting)
      /\ UNCHANGED <<UserStays, indexVars, pagingVars, routerVars>>
  BY DEF ApplySort
<1>2. /\ Reading /\ Without(0) /\ 0 \in Nat /\ (Over' => Over)
      /\ count \in Nat /\ clearing = "no" /\ gui = "idle" /\ gen'.visible = gen.visible
  BY <1>1, ClickFacts
<1>3. ScreensInv' /\ gen'.visible /\ current' = "output"
  BY <1>0, <1>1 DEF ScreensInv, Active
<1>4. /\ lastSort \in Nat /\ run \in 0 .. NumRuns /\ MaxClicks \in Nat /\ NumRuns \in Nat
  BY <1>0, BrowsingAssumption DEF BrowsingType, NumbersInv
<1>5. lastSort + 1 \in SortIds
  BY <1>1, <1>4 DEF SortIds
<1>6. /\ (\A i \in SortIds : IsSort(sorts[i]) /\ IsPage(sorts[i].ids))'
      /\ (\A j \in DOMAIN events :
             IsPage(events[j].ids) /\ (events[j].kind = "sorted" => events[j].of \in SortIds))'
      /\ SortsInv' /\ (\A i \in SortIds : i > lastSort => ~InFlight(i))'
  BY <1>0, <1>1, <1>2, <1>3, <1>5, SortsStart
<1>7. Showing(win, pag, shown)
  BY <1>1, ShowingStays
<1>8. ~disturbed' =>
            /\ ValidWindow(win) /\ (gen'.visible => current_window_size(win) > 0)
            /\ current' = "output" => Selects(win, pag) /\ Shows(shown, win, pag)
  BY <1>1, OutputFacts
<1>9. /\ (TypedWindow(win) /\ TypedPaging(pag) /\ shown.what \in Schedules \cup {Nothing, Failed})'
      /\ WindowInv' /\ ShownInv'
  BY <1>2, <1>3, <1>7, <1>8, PagesShown
<1>10. PagesInv'
  BY <1>6, <1>9 DEF PagesInv
<1>11. NumbersInv'
  <2>1. /\ lastSort' = lastSort + 1 /\ lastSort' \in Nat
        /\ sortWorker' \in 0 .. lastSort' /\ dropped' \subseteq 1 .. lastSort'
    BY <1>0, <1>1, <1>2, <1>5, StartedSort
  <2>2. Dues' \in 0 .. 2 /\ (run = 0 => Dues' = 0)
    BY <1>1 DEF Dues
  <2>3. lastSort' + Dues' <= MaxClicks + 2 * run
    <3>1. PICK m, e : m = lastSort' /\ e = Dues'
      OBVIOUS
    <3>2. m = lastSort + 1 /\ e \in 0 .. 2 /\ (run = 0 => e = 0)
      BY <2>1, <2>2, <3>1
    <3>3. m + e <= MaxClicks + 2 * run
      BY <1>1, <1>4, <3>2
    <3> QED
      BY <3>1, <3>3
  <2>4. \A r \in Runs : listener'[r] = listener[r]
    BY <1>1
  <2> QED
    BY <1>0, <1>2, <1>6, <2>1, <2>3, <2>4, NumbersKept
<1>12. FreshInv'
  <2> SUFFICES ASSUME Sound', fault' = "none"
               PROVE FreshSorts' /\ (~Sorting' => FreshPage(win, pag)')
    BY FreshParts
  <2>1. ~Sorting
    BY <1>1 DEF Sound
  <2>2. FreshSorts' /\ Sorting'
    BY <1>0, <1>1, <1>2, <1>5, <2>1, FreshSortStarts
  <2> QED
    BY <2>2
<1> QED
  BY <1>3, <1>6, <1>9, <1>10, <1>11, <1>12 DEF ViewInv

\* What leaving the output screen does to the sorts.
LEMMA StoppedSort ==
    ASSUME NumbersInv, StopSort
    PROVE sortWorker' \in 0 .. lastSort /\ dropped' \subseteq 1 .. lastSort /\ UNCHANGED <<sorts, lastSort>>
<1>1. lastSort \in Nat /\ sortWorker \in 0 .. lastSort /\ dropped \subseteq 1 .. lastSort
  BY DEF NumbersInv
<1>2. sortWorker # 0 => sortWorker \in 1 .. lastSort
  BY <1>1
<1> QED
  BY <1>1, <1>2 DEF StopSort

\* The output screen is left: a sort on its way would be lost or late.
LEMMA LeaveKeepsView ==
    ASSUME Inv, ViewInv, ScoredInv', ScreensInv', Clicks, Active, LeaveOutput, current' # "output",
           UNCHANGED <<UserStays, indexVars, pagingVars, sortConfig>>
    PROVE ViewInv'
<1>0. ScreensInv /\ NumbersInv /\ FreshInv
  BY DEF ViewInv
<1>1. StopSort /\ (~disturbed' => ~disturbed) /\ (~disturbed' => ~Sorting)
  BY Zenon DEF LeaveOutput
<1>2. /\ Reading /\ Without(0) /\ 0 \in Nat /\ (Over' => Over)
      /\ count \in Nat /\ clearing = "no" /\ gui = "idle" /\ gen'.visible = gen.visible
  BY <1>1, ClickFacts
<1>3. gen.visible /\ (~disturbed => ValidWindow(win) /\ current_window_size(win) > 0)
  BY OutputFacts
<1>4. sortWorker' \in 0 .. lastSort /\ dropped' \subseteq 1 .. lastSort /\ UNCHANGED <<sorts, lastSort>>
  BY <1>0, <1>1, StoppedSort
<1>5. Showing(win, pag, shown)
  BY ShowingStays
<1>6. ASSUME Sound', fault' = "none"
      PROVE FreshSorts' /\ (~Sorting' => FreshPage(win, pag)')
  <2>1. ~Sorting /\ Sound /\ fault = "none"
    BY <1>1, <1>6 DEF Sound
  <2>2. FreshSorts' /\ ~Sorting'
    BY <1>2, <1>4, <2>1, NothingSorts
  <2>3. FreshPage(win, pag)
    BY <1>0, <2>1, FreshParts
  <2>4. PICK v, q : v = win /\ q = pag
    OBVIOUS
  <2>5. v = win' /\ q = pag'
    BY <2>4
  <2>6. FreshPage(win, pag)'
    BY <1>2, <2>3, <2>4, <2>5, FreshShown DEF FreshPage
  <2> QED
    BY <2>2, <2>6
<1>7. ~disturbed' => ValidWindow(win) /\ current_window_size(win) > 0
  BY <1>1, <1>3
<1>8. ~(~disturbed' /\ Sorting)
  BY <1>1
<1> QED
  BY <1>2, <1>3, <1>4, <1>5, <1>6, <1>7, <1>8, ViewKept

\* The output screen is entered, where no sort is on its way.
LEMMA EnterKeepsView ==
    ASSUME Inv, ViewInv, ScoredInv', ScreensInv', Clicks, ~Active, gen.visible, Enter(win, pag),
           UNCHANGED <<UserStays, indexVars, sortConfig, sortVars, disturbed>>
    PROVE ViewInv'
<1>0. SortsInv /\ NumbersInv /\ FreshInv
  BY DEF ViewInv
<1>1. /\ Reading /\ Without(0) /\ 0 \in Nat /\ (Over' => Over)
      /\ count \in Nat /\ clearing = "no" /\ gui = "idle" /\ gen'.visible = gen.visible
  BY ClickFacts
<1>2. PICK v, q, s :
            /\ Showing(v, q, s) /\ v.page = win.page /\ v.priority = win.priority /\ v.ids = win.ids
            /\ Synced(v, q)
            /\ ~disturbed /\ (gen.visible \/ count > 0) =>
                  /\ ValidWindow(v) /\ current_window_size(v) > 0
                  /\ Selects(v, q) /\ Shows(s, v, q)
  BY <1>1, Entering
<1>3. ~disturbed => ~Sorting
  BY <1>0 DEF SortsInv, Sorting, Active
<1>4. ASSUME Sound', fault' = "none"
      PROVE FreshSorts' /\ (~Sorting' => FreshPage(win, pag)')
  <2>1. ~Sorting /\ Sound /\ fault = "none"
    BY <1>3, <1>4 DEF Sound
  <2>2. FreshSorts'
    BY <1>1, <2>1, NothingSorts
  <2>3. FreshPage(win, pag)
    BY <1>0, <2>1, FreshParts
  <2>4. v = win' /\ q = pag'
    BY <1>2 DEF Showing
  <2>5. FreshPage(win, pag)'
    BY <1>1, <1>2, <2>3, <2>4, FreshShown DEF FreshPage
  <2> QED
    BY <2>2, <2>5
<1>5. sortWorker' \in 0 .. lastSort /\ dropped' \subseteq 1 .. lastSort
  BY <1>0 DEF NumbersInv
<1>6. ~(~disturbed' /\ Sorting)
  BY <1>3
<1> QED
  BY <1>1, <1>2, <1>4, <1>5, <1>6, ViewKept

\* The ways between the screens.
LEMMA MovingKeepsView ==
    ASSUME Inv, ViewInv, ScoredInv', OpenClusters \/ ViewResults \/ GoBack
    PROVE ViewInv'
<1>0. ScreensInv
  BY DEF ViewInv
<1>1. CASE OpenClusters
  <2>1. /\ Clicks /\ Active /\ Show("clusters") /\ LeaveOutput
        /\ UNCHANGED <<UserStays, indexVars, pagingVars, sortConfig>>
    BY <1>1 DEF OpenClusters
  <2>2. current = "output" /\ history = <<"input">>
    BY <1>0, <2>1 DEF ScreensInv, Active
  <2>3. current' = "clusters" /\ history' = <<"input", "output">>
    BY <2>1, <2>2, RouterSteps
  <2>4. ScreensInv'
    BY <1>0, <2>1, <2>2, <2>3 DEF ScreensInv
  <2> QED
    BY <2>1, <2>3, <2>4, LeaveKeepsView
<1>2. CASE ViewResults
  <2>1. /\ Clicks /\ current = "input" /\ gen.visible /\ Show("output") /\ Enter(win, pag)
        /\ UNCHANGED <<UserStays, indexVars, sortConfig, sortVars, disturbed>>
    BY <1>2 DEF ViewResults
  <2>2. history = <<>>
    BY <1>0, <2>1 DEF ScreensInv
  <2>3. current' = "output" /\ history' = <<"input">>
    BY <2>1, <2>2, RouterSteps
  <2>4. ScreensInv'
    BY <1>0, <2>1, <2>3 DEF ScreensInv
  <2> QED
    BY <2>1, <2>4, EnterKeepsView DEF Active
<1>3. CASE GoBack /\ Active
  <2>1. /\ Clicks /\ Back /\ LeaveOutput
        /\ IF current' = "output" THEN Enter(win, pag) ELSE UNCHANGED pagingVars
        /\ UNCHANGED <<UserStays, indexVars, sortConfig>>
    BY <1>3 DEF GoBack
  <2>2. current = "output" /\ history = <<"input">>
    BY <1>0, <1>3 DEF ScreensInv, Active
  <2>3. current' = "input" /\ history' = <<>>
    BY <2>1, <2>2, RouterSteps
  <2>4. ScreensInv'
    BY <1>0, <2>1, <2>2, <2>3 DEF ScreensInv
  <2>5. UNCHANGED pagingVars
    BY <2>1, <2>3
  <2> QED
    BY <1>3, <2>1, <2>3, <2>4, <2>5, LeaveKeepsView
<1>4. CASE GoBack /\ ~Active
  <2>1. /\ Clicks /\ Back /\ current # "input" /\ UNCHANGED <<sortVars, disturbed>>
        /\ IF current' = "output" THEN Enter(win, pag) ELSE UNCHANGED pagingVars
        /\ UNCHANGED <<UserStays, indexVars, sortConfig>>
    BY <1>4 DEF GoBack
  <2>2. current = "clusters" /\ history = <<"input", "output">> /\ gen.visible
    BY <1>0, <1>4, <2>1 DEF ScreensInv, Active
  <2>3. current' = "output" /\ history' = <<"input">>
    BY <2>1, <2>2, RouterSteps
  <2>4. ScreensInv'
    BY <1>0, <2>1, <2>2, <2>3 DEF ScreensInv
  <2> QED
    BY <1>4, <2>1, <2>2, <2>3, <2>4, EnterKeepsView
<1> QED
  BY <1>1, <1>2, <1>3, <1>4

-----------------------------------------------------------------------------
(* The theorems *)

\* Nothing was found, nothing is shown.
LEMMA ViewInit == Init => ViewInv
<1> SUFFICES ASSUME Init
             PROVE ViewInv
  OBVIOUS
<1>0. /\ batches = {} /\ scored = Empty /\ count = 0 /\ clearing = "no"
      /\ \A w \in Writers : insert[w].pc = "idle"
      /\ win = FirstWindow /\ pag = NoPaging /\ shown = NothingShown
      /\ current = "input" /\ history = <<>> /\ gui = "idle" /\ run = 0
      /\ listener = [r \in Runs |-> "none"] /\ DOMAIN events = {}
      /\ gen = [running |-> FALSE, navigated |-> FALSE, visible |-> FALSE]
      /\ sortConfig = <<>> /\ sorts = [i \in SortIds |-> NoSort] /\ lastSort = 0 /\ sortWorker = 0
      /\ dropped = {}
  BY BrowsingAssumption DEF Init, InitRepository, InitRouter, NoInsert
<1>1. MaxCount \in Nat /\ MaxClicks \in Nat /\ DOMAIN Empty = {} /\ WindowSize \in Nat \ {0} /\ NumPeriods \in Nat \ {0}
  BY RepositoryAssumption, BrowsingAssumption, WindowAssumption, PagingAssumption DEF Empty
<1>2. ScoredInv
  BY <1>0, <1>1 DEF ScoredInv
<1>3. ScreensInv
  BY <1>0 DEF ScreensInv
<1>4. \A i \in SortIds : sorts[i].pc = "none" /\ sorts[i].ids = <<>> /\ IsSort(sorts[i])
  <2>1. PICK none : none = <<>>
    OBVIOUS
  <2>2. PICK s : s = [pc |-> "none", order |-> none, ids |-> none]
    OBVIOUS
  <2>3. s.pc = "none" /\ s.ids = none /\ IsSort(s)
    BY <2>2 DEF IsSort
  <2> QED
    BY <1>0, <2>1, <2>2, <2>3 DEF NoSort
<1>5. \A i \in SortIds : ~InFlight(i)
  BY <1>0, <1>4 DEF InFlight
<1>6. NumbersInv
  BY <1>0, <1>1, <1>5 DEF NumbersInv, Dues
<1>7. PagesInv
  <2>1. TypedWindow(win)
    BY <1>0, FirstWindowIs
  <2>2. TypedPaging(pag)
    BY <1>0, <1>1 DEF NoPaging, TypedPaging
  <2>3. shown.what = Nothing
    BY <1>0 DEF NothingShown
  <2>4. IsPage(<<>>)
    BY <1>1 DEF IsPage
  <2> QED
    BY <1>0, <1>4, <2>1, <2>2, <2>3, <2>4 DEF PagesInv
<1>8. WindowInv
  BY <1>0, FirstWindowIs DEF WindowInv
<1>9. SortsInv
  BY <1>0, <1>4, <1>5 DEF SortsInv
<1>10. ShownInv
  BY <1>0 DEF ShownInv
<1>11. FreshInv
  <2>1. win.priority = <<>>
    BY <1>0, FirstWindowIs
  <2> QED
    BY <1>0, <1>4, <2>1 DEF FreshInv
<1> QED
  BY <1>2, <1>3, <1>6, <1>7, <1>8, <1>9, <1>10, <1>11 DEF ViewInv

\* Where nothing moves the invariant stays.
LEMMA ViewStays ==
    ASSUME Inv, ViewInv, ScoredInv', UNCHANGED browsingVars
    PROVE ViewInv'
<1>1. \A i \in SortIds : InFlight(i)' <=> InFlight(i)
  BY DEF InFlight
<1>2. (Sorting' <=> Sorting) /\ Dues' = Dues /\ (Over' <=> Over) /\ (Sound' <=> Sound)
  BY <1>1 DEF Sorting, Dues, Over, Live, Sound
<1>3. ScreensInv' /\ NumbersInv'
  BY <1>1, <1>2 DEF ViewInv, ScreensInv, NumbersInv
<1>4. PagesInv'
  BY DEF ViewInv, PagesInv, TypedWindow, TypedPaging, IsWindow, IsPage, IsSort
<1>5. PICK w, p, s : w = win /\ p = pag /\ s = shown
  OBVIOUS
<1>6. w = win' /\ p = pag' /\ s = shown'
  BY <1>5
<1>7. /\ current_window_size(w)' = current_window_size(w)
      /\ ValidWindow(w) => ValidWindow(w)'
      /\ Selects(w, p) => Selects(w, p)'
      /\ Shows(s, w, p) => Shows(s, w, p)'
      /\ \A order, ids : ValidPage(order, ids) => ValidPage(order, ids)'
  BY SameView
<1>8. WindowInv'
  <2>1. FirstWindow' = FirstWindow
    BY FirstWindowIs
  <2>2. /\ ~gen.visible /\ gui # "stopping" => w = FirstWindow
        /\ Sound => ValidWindow(w)
        /\ gen.visible /\ ~disturbed => current_window_size(w) > 0
    BY <1>5 DEF ViewInv, WindowInv
  <2> QED
    BY <1>2, <1>6, <1>7, <2>1, <2>2 DEF WindowInv
<1>9. ShownInv'
  BY <1>5, <1>6, <1>7 DEF ViewInv, ShownInv
<1>10. Without(0)
  BY SignalsStay DEF Inv, BrowsingInv
<1>11. SortsInv'
  <2>1. (~disturbed => \A i \in SortIds : InFlight(i) => i = lastSort /\ current = "output")'
    BY <1>1 DEF ViewInv, SortsInv
  <2>2. ASSUME Sound', NEW i \in SortIds, sorts'[i].pc = "emit"
        PROVE ValidPage(sorts[i].order, sorts[i].ids)'
    <3>1. PICK order, ids : order = sorts[i].order /\ ids = sorts[i].ids
      OBVIOUS
    <3>2. ValidPage(order, ids)
      BY <1>2, <2>2, <3>1 DEF ViewInv, SortsInv
    <3>3. order = sorts'[i].order /\ ids = sorts'[i].ids
      BY <3>1
    <3> QED
      BY <1>7, <3>2, <3>3
  <2>3. ASSUME Sound', NEW k \in DOMAIN events', events'[k].kind = "sorted"
        PROVE ValidPage(events[k].order, events[k].ids)'
    <3>1. PICK e : e = events[k]
      OBVIOUS
    <3>2. ValidPage(e.order, e.ids)
      BY <1>2, <2>3, <3>1 DEF ViewInv, SortsInv
    <3>3. e = events'[k]
      BY <3>1
    <3> QED
      BY <1>7, <3>2, <3>3
  <2> QED
    BY <2>1, <2>2, <2>3 DEF SortsInv
<1>12. FreshInv'
  <2> SUFFICES ASSUME Sound', fault' = "none"
               PROVE FreshSorts' /\ (~Sorting' => FreshPage(win, pag)')
    BY FreshParts
  <2>1. FreshSorts /\ (~Sorting => FreshPage(win, pag))
    BY <1>2, FreshParts DEF ViewInv
  <2>2. FreshSorts'
    BY <1>2, <1>10, <2>1, FreshSortsStay
  <2>3. ~Sorting => FreshPage(win, pag)'
    BY <1>2, <1>5, <1>6, <2>1, FreshShown DEF FreshPage
  <2> QED
    BY <1>2, <2>2, <2>3
<1> QED
  BY <1>3, <1>4, <1>8, <1>9, <1>11, <1>12 DEF ViewInv

\* Every step keeps the invariant.
LEMMA ViewStep == Inv /\ ViewInv /\ [Next]_browsingVars => ViewInv'
<1> SUFFICES ASSUME Inv, ViewInv, [Next]_browsingVars
             PROVE ViewInv'
  OBVIOUS
<1>1. Inv' /\ [RepositoryNext]_storeVars
  BY BrowsingStep
<1>2. ScoredInv'
  BY <1>1, ScoredStep DEF Inv, ViewInv
<1>3. ASSUME NEW r \in Runs, Listen(r)
      PROVE ViewInv'
  BY <1>1, <1>2, <1>3, ListenKeepsView
<1>4. ASSUME NEW i \in SortIds, Sort(i)
      PROVE ViewInv'
  BY <1>2, <1>4, SortKeepsView
<1>5. CASE Generate \/ ClickCancel
  BY <1>2, <1>5, GenerateKeepsView, CancelKeepsView
<1>6. CASE DeliverBatch \/ DeliverFinished \/ DeliverError \/ DeliverSorted
  BY <1>2, <1>6, BatchKeepsView, FinishKeepsView, ErrorKeepsView, SortedKeepsView
<1>7. ASSUME NEW order \in Orders, ApplySort(order)
      PROVE ViewInv'
  BY <1>2, <1>7, ApplyKeepsView
<1>8. ASSUME NEW page \in 0 .. MaxCount, Page(page)
      PROVE ViewInv'
  BY <1>2, <1>8, PageKeepsView
<1>9. CASE Move
  BY <1>2, <1>9, MoveKeepsView
<1>10. CASE OpenClusters \/ ViewResults \/ GoBack
  BY <1>2, <1>10, MovingKeepsView
<1>11. CASE UNCHANGED browsingVars
  BY <1>2, <1>11, ViewStays
<1> QED
  BY <1>3, <1>4, <1>5, <1>6, <1>7, <1>8, <1>9, <1>10, <1>11 DEF Next

\* The invariant of the pages, the sorts and what is shown.
THEOREM ViewInvariant == Spec => []ViewInv
BY ViewInit, ViewStep, BrowsingInvariant, PTL DEF Spec

\* The sort order the user chose and the indexes are orders of the user, or none.
ChoiceInv ==
    /\ IsOrder(sortConfig)
    /\ indexes \subseteq Orders /\ signatures \subseteq Orders

\* Every step keeps it.
LEMMA ChoiceStep == Inv /\ ChoiceInv /\ [Next]_browsingVars => ChoiceInv'
<1> SUFFICES ASSUME Inv, ChoiceInv, [Next]_browsingVars
             PROVE ChoiceInv'
  OBVIOUS
<1>1. [RepositoryNext]_storeVars
  BY BrowsingStep
<1>2. indexes' \subseteq Orders /\ signatures' \subseteq Orders
  <2>1. ASSUME NEW w \in Writers, InsertStep(w)
        PROVE UNCHANGED indexVars
    BY <2>1 DEF InsertStep, ReadOffset, CommitInsert, CountInsert, FailInsert
  <2>2. CASE ClearStep
    BY <2>2 DEF ClearStep, ClearRows, ClearSignatures, ClearCount, ChoiceInv
  <2>3. ASSUME NEW order \in Orders, IndexStep(order)
        PROVE indexes' \subseteq Orders /\ signatures' \subseteq Orders
    BY <2>3 DEF IndexStep, BuildIndex, SignIndex, EnsureSortIndexes, ChoiceInv
  <2> QED
    BY <1>1, <2>1, <2>2, <2>3 DEF RepositoryNext, ChoiceInv
<1>3. IsOrder(sortConfig')
  <2>1. CASE UNCHANGED sortConfig
    BY <2>1 DEF ChoiceInv, IsOrder
  <2>2. CASE StopOldRun
    BY <2>2 DEF StopOldRun, IsOrder
  <2>3. ASSUME NEW order \in Orders, ApplySort(order)
        PROVE IsOrder(sortConfig')
    BY <2>3 DEF ApplySort, IsOrder
  <2>4. ASSUME NEW r \in Runs, Listen(r)
        PROVE UNCHANGED sortConfig
    BY <2>4 DEF Listen, BeginBatch, SaveBatch, AnnounceBatch, BatchFails, ListenerEnds
  <2>5. ASSUME NEW i \in SortIds, Sort(i)
        PROVE UNCHANGED sortConfig
    BY <2>5 DEF Sort, CheckIndex, IndexSort, ReadSorted, EmitSorted, SortFails
  <2>6. ASSUME Generate \/ ClickCancel
        PROVE UNCHANGED sortConfig \/ StopOldRun
    BY <2>6 DEF Generate, ClickGenerate, ForgetSignatures, ForgetCount, ClearAgain, StartRun, Connect, Refuse,
       ClickCancel
  <2>7. ASSUME DeliverBatch \/ DeliverFinished \/ DeliverError \/ DeliverSorted
        PROVE UNCHANGED sortConfig
    BY <2>7 DEF DeliverBatch, DeliverFinished, DeliverError, DeliverSorted
  <2>8. ASSUME \/ \E page \in 0 .. MaxCount : Page(page)
               \/ Move \/ OpenClusters \/ ViewResults \/ GoBack
        PROVE UNCHANGED sortConfig
    BY <2>8 DEF Page, Move, OpenClusters, ViewResults, GoBack
  <2> QED
    BY <2>1, <2>2, <2>3, <2>4, <2>5, <2>6, <2>7, <2>8 DEF Next
<1> QED
  BY <1>2, <1>3 DEF ChoiceInv, IsOrder

\* What the invariants say of the types.
LEMMA ViewIsTyped ==
    ASSUME Inv, ViewInv, ChoiceInv
    PROVE TypeOK
<1>1. count \in 0 .. MaxCount /\ DOMAIN scored \subseteq 0 .. MaxCount - 1
  <2>1. DOMAIN scored \subseteq 0 .. MaxCount - 1
    BY ScoredRows DEF Inv, ViewInv
  <2>2. count \in Nat /\ count <= MaxCount /\ MaxCount \in Nat
    BY RepositoryAssumption DEF Inv, RepositoryInv, RepositoryType, ViewInv, ScoredInv
  <2> QED
    BY <2>1, <2>2
<1>2. \A w \in Writers : insert[w].pc \in {"idle", "offset", "committed"}
  BY DEF Inv, RepositoryInv, RepositoryType
<1>3. indexes \cup signatures \subseteq Orders /\ sortConfig \in Orders \cup {<<>>}
  BY DEF ChoiceInv, IsOrder
<1>4. win.priority \in Orders \cup {<<>>} /\ win.ids \in Seq(Nat) /\ win.page \in Nat
  BY DEF Inv, BrowsingInv, OrdersInv, IsOrder, ViewInv, PagesInv, TypedWindow, IsPage
<1>5. /\ pag.idx \in Nat /\ pag.total \in 0 .. WindowSize /\ pag.period \in 1 .. NumPeriods
      /\ shown.what \in Schedules \cup {Nothing, Failed}
  BY DEF ViewInv, PagesInv, TypedPaging
<1>6. current \in Screens /\ history \in Seq(Screens)
  <2>1. Screens = {"input", "output", "clusters"}
    BY BrowsingAssumption
  <2>2. \/ current = "input" /\ history = <<>>
        \/ current = "output" /\ history = <<"input">>
        \/ current = "clusters" /\ history = <<"input", "output">>
    BY DEF ViewInv, ScreensInv
  <2>3. PICK h : h = history
    OBVIOUS
  <2>4. CASE current = "input" /\ h = <<>>
    BY <2>1, <2>3, <2>4
  <2>5. CASE current = "output" /\ h = <<"input">>
    <3>1. h \in Seq({"input", "output", "clusters"})
      BY <2>5
    <3> QED
      BY <2>1, <2>3, <2>5, <3>1
  <2>6. CASE current = "clusters" /\ h = <<"input", "output">>
    <3>1. h \in Seq({"input", "output", "clusters"})
      BY <2>6
    <3> QED
      BY <2>1, <2>3, <2>6, <3>1
  <2> QED
    BY <2>2, <2>3, <2>4, <2>5, <2>6
<1>7. gen \in [running : BOOLEAN, navigated : BOOLEAN, visible : BOOLEAN]
  <2>1. PICK x, y, z : x = gen.running /\ y = gen.navigated /\ z = gen.visible
    OBVIOUS
  <2>2. gen = [running |-> x, navigated |-> y, visible |-> z] /\ z \in BOOLEAN /\ y = z /\ x \in BOOLEAN
    BY <2>1 DEF ViewInv, ScreensInv
  <2> QED
    BY <2>2
<1>8. \A r \in Runs : listener[r] \in {"none", "running", "cancelled", "ended"}
  BY DEF Inv, BrowsingInv, BrowsingType
<1>9. lastSort \in 0 .. MaxClicks + 2 * NumRuns
  <2>1. PICK d : d = Dues
    OBVIOUS
  <2>2. /\ d \in Nat /\ lastSort \in Nat /\ MaxClicks \in Nat /\ lastSort + d <= MaxClicks + 2 * run
    BY <2>1, SortIsDue
  <2>3. run \in 0 .. NumRuns /\ NumRuns \in Nat
    BY BrowsingAssumption DEF Inv, BrowsingInv, BrowsingType
  <2> QED
    BY <2>2, <2>3
<1> QED
  BY <1>1, <1>2, <1>3, <1>4, <1>5, <1>6, <1>7, <1>8, <1>9 DEF TypeOK

\* The state has the types it is meant to have: there is a number for every sort that is started,
\* and Back leads through the screens the user came by.
THEOREM BrowsingTyped == Spec => []TypeOK
<1>1. Init => ChoiceInv
  BY DEF Init, InitRepository, ChoiceInv, IsOrder
<1>2. Inv /\ ViewInv /\ ChoiceInv => TypeOK
  BY ViewIsTyped
<1> QED
  BY <1>1, <1>2, ChoiceStep, BrowsingInvariant, ViewInvariant, PTL DEF Spec

\* The calendar shows the schedule that the index and the page stand for, whatever arrives while
\* the user looks: late batches, sorts and page turns.
THEOREM ShownAlwaysSelected == Spec => []ShownIsSelected
<1>1. Inv /\ ViewInv => ShownIsSelected
  <2> SUFFICES ASSUME Inv, ViewInv, Active, ~disturbed
               PROVE /\ pag.idx < pag.total /\ pag.total <= current_window_size(win)
                     /\ HasRow(GlobalId(win, pag.idx))
                     /\ shown = [what |-> RowAt(GlobalId(win, pag.idx)), period |-> pag.period]
    BY DEF ShownIsSelected
  <2>1. Selects(win, pag) /\ Shows(shown, win, pag)
    BY DEF ViewInv, ShownInv, Active
  <2>2. HasRow(GlobalId(win, pag.idx))
    BY <2>1, StoredRow DEF Selects, Inv
  <2> QED
    BY <2>1, <2>2 DEF Selects, Shows
<1> QED
  BY <1>1, BrowsingInvariant, ViewInvariant, PTL

\* When everything has come to rest the page is the slice of all results in the order that the
\* user asked for last, and the numbers beside it are those of the repository.
THEOREM SettledAlwaysSlice == Spec => []SettledPageIsSlice
<1>1. Inv /\ ViewInv => SettledPageIsSlice
  <2> SUFFICES ASSUME Inv, ViewInv, AtRest, Active, ~disturbed, fault = "none"
               PROVE /\ win.priority = sortConfig
                     /\ sortConfig # <<>> => win.ids = get_sorted_ids_page(sortConfig, win.page)
                     /\ pag.pages = total_pages /\ pag.disk = count /\ pag.page = win.page
                     /\ pag.total = current_window_size(win)
    BY DEF SettledPageIsSlice
  <2>1. gui = "idle" /\ events = <<>> /\ ~Sorting /\ \A r \in Runs : ~Live(r)
    BY DEF AtRest, Clicks, Idle
  <2>2. Sound /\ Over
    BY <2>1 DEF Sound, Over
  <2>3. FreshPage(win, pag)
    BY <2>1, <2>2, FreshParts DEF ViewInv
  <2>4. pag.page = win.page
    BY DEF ViewInv, ShownInv, Selects, Active
  <2> QED
    BY <2>2, <2>3, <2>4 DEF FreshPage, Synced, Active
<1> QED
  BY <1>1, BrowsingInvariant, ViewInvariant, PTL
=============================================================================
