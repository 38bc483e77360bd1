--------------------------- MODULE ExamSearchProofs ---------------------------
(***************************************************************************)
(* The search, for any request, limits and rules and however deep it goes: *)
(* the indexes of ExamSchedule always tell what is assigned, the cache of  *)
(* elective counts is never stale, and every variable has its type.        *)
(*                                                                         *)
(* The argument: addAssignment and pop_last_assignment undo each other     *)
(* only if no exam of the course stands on the date already, because a     *)
(* date's index is a set.  Two facts give that:                            *)
(*   - a date that forward checking leaves to a slot is one the checkers   *)
(*     accept now, so by the moed rule no exam of its course stands there  *)
(*     (NotRejectedIsApart, Free);                                         *)
(*   - every frame of the recursion has placed what the schedule held when *)
(*     it chose its slot, and at most one exam more (Base, FrameInv), so   *)
(*     what Undo takes away is what its frame placed, and the dates that   *)
(*     the frame has not tried are as free as they were.                   *)
(* The cache is keyed by schedule and version: every placing and undoing   *)
(* raises the version, and every search takes a new identity (CacheInv).   *)
(* SearchInv is the conjunction.  Its parts take the state they speak of   *)
(* as arguments, so that a step changes the arguments it changes and       *)
(* InvariantAfter puts the parts together again.                           *)
(*                                                                         *)
(* Of the slots the proof uses SlotAssumption, what SlotBuilder returns.   *)
(***************************************************************************)
EXTENDS ExamSearch, NaturalsInduction, WellFoundedInduction, FiniteSetTheorems,
        FunctionTheorems, SequenceTheorems, TLAPS

-----------------------------------------------------------------------------
(* Folds over sequences *)

\* A set of numbers that is not empty has a least one.
LEMMA HasLeast ==
    ASSUME NEW S, S \subseteq Nat, S # {}
    PROVE \E m \in S : \A n \in S : m <= n
<1> DEFINE R == OpToRel(<, Nat)
<1>1. IsWellFoundedOn(R, Nat)
  BY NatLessThanWellFounded
<1>2. PICK m \in S : \A n \in S : ~(<<n, m>> \in R)
  <2> HIDE DEF R
  <2> QED
    BY <1>1, WFMin
<1>3. ASSUME NEW n \in S
      PROVE m <= n
  <2>1. n \in Nat /\ m \in Nat /\ ~(<<n, m>> \in R)
    BY <1>2
  <2>2. n < m => <<n, m>> \in R
    BY <2>1 DEF OpToRel
  <2>3. ~(n < m)
    BY <2>1, <2>2
  <2>4. n \in Nat /\ m \in Nat
    BY <2>1
  <2> QED
    BY <2>3, <2>4
<1> QED
  BY <1>3

\* The greatest number of a set that lies below n + 1 and has n + 1.
LEMMA GreatestIsLast ==
    ASSUME NEW n \in Nat, NEW S \in SUBSET (1 .. n), n \in S
    PROVE Max(S) = n
<1>1. \A y \in S : n >= y
  OBVIOUS
<1>2. \A x \in S : (\A y \in S : x >= y) => x = n
  OBVIOUS
<1> QED
  BY <1>1, <1>2 DEF Max

\* A set of numbers up to n that is not empty has its greatest number.
LEMMA GreatestIsMember ==
    ASSUME NEW n \in Nat, NEW S \in SUBSET (1 .. n), S # {}
    PROVE Max(S) \in S
<1> DEFINE T == {n - x : x \in S}
<1>1. T \subseteq Nat /\ T # {}
  <2>1. \A x \in S : n - x \in Nat /\ n - x \in T
    OBVIOUS
  <2> QED
    BY <2>1
<1>2. PICK m \in T : \A k \in T : m <= k
  <2> HIDE DEF T
  <2> QED
    BY <1>1, HasLeast
<1>3. PICK x \in S : m = n - x
  OBVIOUS
<1>4. \A y \in S : x >= y
  <2> SUFFICES ASSUME NEW y \in S
               PROVE x >= y
    OBVIOUS
  <2>1. m <= n - y
    BY <1>2
  <2> QED
    BY <1>3, <2>1
<1> QED
  BY <1>4 DEF Max

\* What a fold goes through: h[s] is what comes of the members of s.
IsFold(h, X, f, base, n, seq) ==
    /\ h \in [SUBSET (1 .. n) -> X]
    /\ \A s \in SUBSET (1 .. n) :
          h[s] = IF s = {} THEN base ELSE f[<<h[s \ {Max(s)}], seq[Max(s)]>>]

\* There is a fold of every function over every sequence.
LEMMA FoldExists ==
    ASSUME NEW X, NEW Y, NEW f \in [X \X Y -> X], NEW base \in X,
           NEW n \in Nat, NEW seq \in [1 .. n -> Y]
    PROVE \E h : IsFold(h, X, f, base, n, seq)
<1> DEFINE Fold(h, k) ==
        /\ h \in [SUBSET (1 .. k) -> X]
        /\ \A s \in SUBSET (1 .. k) :
              h[s] = IF s = {} THEN base ELSE f[<<h[s \ {Max(s)}], seq[Max(s)]>>]
<1> DEFINE Bad == {k \in 0 .. n : ~\E h : Fold(h, k)}
<1>1. 0 \notin Bad
  <2> DEFINE h == [s \in SUBSET (1 .. 0) |-> base]
  <2>1. 1 .. 0 = {}
    OBVIOUS
  <2>2. h \in [SUBSET (1 .. 0) -> X]
    OBVIOUS
  <2>3. \A s \in SUBSET (1 .. 0) : s = {} /\ h[s] = base
    BY <2>1
  <2>4. Fold(h, 0)
    BY <2>2, <2>3
  <2> QED
    BY <2>4
<1>2. ASSUME NEW k \in 1 .. n, k - 1 \notin Bad
      PROVE k \notin Bad
  <2>1. k - 1 \in 0 .. n
    OBVIOUS
  <2>2. PICK h : Fold(h, k - 1)
    BY <1>2, <2>1
  <2> DEFINE g == [s \in SUBSET (1 .. k) |->
                      IF k \in s THEN f[<<h[s \ {k}], seq[k]>>] ELSE h[s]]
  <2>3. \A s \in SUBSET (1 .. k) : s \ {k} \in SUBSET (1 .. k - 1) /\ (k \notin s => s \in SUBSET (1 .. k - 1))
    OBVIOUS
  <2>4. h \in [SUBSET (1 .. k - 1) -> X] /\ seq[k] \in Y
    BY <2>2
  <2>5. g \in [SUBSET (1 .. k) -> X]
    <3> SUFFICES ASSUME NEW s \in SUBSET (1 .. k)
                 PROVE (IF k \in s THEN f[<<h[s \ {k}], seq[k]>>] ELSE h[s]) \in X
      OBVIOUS
    <3>1. s \ {k} \in SUBSET (1 .. k - 1) /\ (k \notin s => s \in SUBSET (1 .. k - 1))
      BY <2>3
    <3>2. h[s \ {k}] \in X /\ (k \notin s => h[s] \in X)
      BY <2>4, <3>1
    <3> HIDE DEF Fold
    <3>3. f[<<h[s \ {k}], seq[k]>>] \in X
      BY <2>4, <3>2
    <3> QED
      BY <3>2, <3>3
  <2>6. ASSUME NEW s \in SUBSET (1 .. k), s # {}
        PROVE g[s] = f[<<g[s \ {Max(s)}], seq[Max(s)]>>]
    <3>1. CASE k \in s
      <4>1. Max(s) = k
        BY <3>1, GreatestIsLast
      <4>2. s \ {k} \in SUBSET (1 .. k) /\ k \notin s \ {k}
        OBVIOUS
      <4>3. g[s \ {k}] = h[s \ {k}]
        BY <4>2
      <4>4. g[s] = f[<<h[s \ {k}], seq[k]>>]
        BY <3>1
      <4> QED
        BY <4>1, <4>3, <4>4
    <3>2. CASE k \notin s
      <4>1. s \in SUBSET (1 .. k - 1)
        BY <2>3, <3>2
      <4>2. Max(s) \in s
        <5>1. k - 1 \in Nat
          OBVIOUS
        <5> QED
          BY <2>6, <4>1, <5>1, GreatestIsMember
      <4>3. s \ {Max(s)} \in SUBSET (1 .. k) /\ k \notin s \ {Max(s)}
        BY <3>2
      <4>4. g[s \ {Max(s)}] = h[s \ {Max(s)}]
        BY <4>3
      <4>5. g[s] = h[s]
        BY <3>2
      <4>6. h[s] = f[<<h[s \ {Max(s)}], seq[Max(s)]>>]
        BY <2>2, <2>6, <4>1
      <4> QED
        BY <4>4, <4>5, <4>6
    <3> QED
      BY <3>1, <3>2
  <2>7. g[{}] = base
    <3>1. {} \in SUBSET (1 .. k) /\ {} \in SUBSET (1 .. k - 1) /\ k \notin {}
      OBVIOUS
    <3>2. g[{}] = h[{}]
      BY <3>1
    <3> QED
      BY <2>2, <3>1, <3>2
  <2>8. Fold(g, k)
    <3> HIDE DEF g
    <3> QED
      BY <2>5, <2>6, <2>7
  <2> HIDE DEF Fold, g
  <2> QED
    BY <2>8
<1>3. Bad = {}
  <2> SUFFICES ASSUME Bad # {}
               PROVE FALSE
    OBVIOUS
  <2>1. Bad \subseteq Nat
    OBVIOUS
  <2> HIDE DEF Bad
  <2>2. PICK m \in Bad : \A k \in Bad : m <= k
    BY <2>1, HasLeast
  <2>3. m \in 0 .. n
    BY DEF Bad
  <2>4. m # 0
    BY <1>1
  <2>5. m \in 1 .. n /\ m - 1 \in Nat
    BY <2>3, <2>4
  <2>6. m - 1 \notin Bad
    BY <2>2, <2>5
  <2> QED
    BY <1>2, <2>5, <2>6
<1>4. \E h : Fold(h, n)
  <2>1. n \in 0 .. n
    OBVIOUS
  <2> HIDE DEF Fold
  <2> QED
    BY <1>3, <2>1
<1> QED
  BY <1>4 DEF IsFold

-----------------------------------------------------------------------------
(* Forward checking *)

\* What survives of a domain are dates of it that no checker rejects.
LEMMA SurvivingIsNotRejected ==
    ASSUME NEW domain, NEW s, NEW D, domain.dates \in Seq(D)
    PROVE Surviving(domain, s) \in
             Seq({d \in D : /\ d \in ToSet(domain.dates)
                            /\ ~Rules!Rejects([slot |-> domain.slot, date |-> d], s, Served(s))})
<1> DEFINE Rejected(d) == Rules!Rejects([slot |-> domain.slot, date |-> d], s, Served(s))
           Kept == {d \in D : d \in ToSet(domain.dates) /\ ~Rejected(d)}
           n == Len(domain.dates)
           Body(it) == [S \in SUBSET DOMAIN domain.dates |->
                          IF S = {} THEN <<>>
                          ELSE IF Rejected(domain.dates[Max(S)]) THEN it[S \ {Max(S)}]
                          ELSE Append(it[S \ {Max(S)}], domain.dates[Max(S)])]
<1>1. n \in Nat /\ DOMAIN domain.dates = 1 .. n /\ domain.dates \in [1 .. n -> ToSet(domain.dates)]
      /\ ToSet(domain.dates) \subseteq D
  BY DEF ToSet
<1>2. PICK it : it = CHOOSE iter : iter = Body(iter)
  OBVIOUS
<1>3. Surviving(domain, s) = it[DOMAIN domain.dates]
  BY <1>2 DEF Surviving, FoldLeft, MapThenFoldSet
<1> HIDE DEF Rejected
<1>4. \E h : h = Body(h)
  <2> DEFINE X == Seq(Kept)
             Y == ToSet(domain.dates)
             f == [p \in X \X Y |-> IF Rejected(p[2]) THEN p[1] ELSE Append(p[1], p[2])]
  <2>1. f \in [X \X Y -> X]
    <3> SUFFICES ASSUME NEW x \in X, NEW y \in Y
                 PROVE (IF Rejected(y) THEN x ELSE Append(x, y)) \in X
      OBVIOUS
    <3>1. ~Rejected(y) => y \in Kept
      BY <1>1
    <3> HIDE DEF Kept
    <3> QED
      BY <3>1
  <2>2. \A x \in X, y \in Y : f[<<x, y>>] = IF Rejected(y) THEN x ELSE Append(x, y)
    OBVIOUS
  <2>3. <<>> \in X
    OBVIOUS
  <2> HIDE DEF X, Y, f
  <2>4. PICK h : IsFold(h, X, f, <<>>, n, domain.dates)
    <3>1. domain.dates \in [1 .. n -> Y]
      BY <1>1 DEF Y
    <3> HIDE DEF n
    <3> QED
      BY <1>1, <2>1, <2>3, <3>1, FoldExists
  <2>5. ASSUME NEW S \in SUBSET (1 .. n), S # {}
        PROVE h[S] = IF Rejected(domain.dates[Max(S)]) THEN h[S \ {Max(S)}]
                     ELSE Append(h[S \ {Max(S)}], domain.dates[Max(S)])
    <3>1. Max(S) \in 1 .. n
      BY <1>1, <2>5, GreatestIsMember
    <3>2. domain.dates[Max(S)] \in Y /\ h[S \ {Max(S)}] \in X
      BY <1>1, <2>4, <3>1 DEF Y, IsFold
    <3>3. h[S] = f[<<h[S \ {Max(S)}], domain.dates[Max(S)]>>]
      BY <2>4, <2>5 DEF IsFold
    <3> QED
      BY <2>2, <3>2, <3>3
  <2>6. h[{}] = <<>>
    BY <2>4 DEF IsFold
  <2>7. h = Body(h)
    BY <1>1, <2>4, <2>5, <2>6 DEF IsFold
  <2> HIDE DEF Body
  <2> QED
    BY <2>7
<1>5. it = Body(it)
  <2> HIDE DEF Body
  <2> QED
    BY <1>2, <1>4
<1> DEFINE Off == {k \in 0 .. n : it[1 .. k] \notin Seq(Kept)}
<1>6. Off = {}
  <2> SUFFICES ASSUME Off # {}
               PROVE FALSE
    OBVIOUS
  <2>1. PICK m \in Off : \A k \in Off : m <= k
    <3>1. Off \subseteq Nat
      OBVIOUS
    <3> HIDE DEF Off
    <3> QED
      BY <3>1, HasLeast
  <2>2. m \in 0 .. n
    OBVIOUS
  <2>3. CASE m = 0
    <3>1. 1 .. m = {} /\ {} \in SUBSET DOMAIN domain.dates
      BY <2>3
    <3>2. it[{}] = <<>>
      BY <1>5, <3>1
    <3>3. it[1 .. m] = <<>> /\ <<>> \in Seq(Kept)
      BY <3>1, <3>2
    <3> QED
      BY <3>3
  <2>4. CASE m # 0
    <3>1. m \in 1 .. n /\ m - 1 \in 0 .. n /\ m - 1 \notin Off
      <4>1. m \in 1 .. n /\ m - 1 \in 0 .. n /\ ~(m <= m - 1)
        BY <1>1, <2>2, <2>4
      <4>2. m - 1 \notin Off
        <5> HIDE DEF Off
        <5> QED
          BY <2>1, <4>1
      <4> QED
        BY <4>1, <4>2
    <3>2. it[1 .. m - 1] \in Seq(Kept)
      BY <3>1
    <3>3. 1 .. m \in SUBSET DOMAIN domain.dates /\ 1 .. m # {} /\ (1 .. m) \ {m} = 1 .. m - 1
      BY <1>1, <3>1
    <3>4. Max(1 .. m) = m
      BY <3>1, GreatestIsLast
    <3>5. it[1 .. m] = IF Rejected(domain.dates[m]) THEN it[1 .. m - 1] ELSE Append(it[1 .. m - 1], domain.dates[m])
      <4>1. it[1 .. m] = IF Rejected(domain.dates[Max(1 .. m)]) THEN it[(1 .. m) \ {Max(1 .. m)}]
                         ELSE Append(it[(1 .. m) \ {Max(1 .. m)}], domain.dates[Max(1 .. m)])
        BY <1>5, <3>3
      <4> QED
        BY <4>1, <3>3, <3>4
    <3>6. ~Rejected(domain.dates[m]) => domain.dates[m] \in Kept
      BY <1>1, <3>1
    <3>7. it[1 .. m] \in Seq(Kept)
      <4> HIDE DEF Kept
      <4> QED
        BY <3>2, <3>5, <3>6
    <3> QED
      BY <3>7
  <2> QED
    BY <2>3, <2>4
<1>7. it[1 .. n] \in Seq(Kept)
  BY <1>1, <1>6
<1> QED
  BY <1>1, <1>3, <1>7 DEF Rejected

-----------------------------------------------------------------------------
(* The schedule and its indexes *)

\* The request is one of the inputs, and its entries and slots are those built from it.
RequestInv ==
    /\ input \in Inputs /\ entries = EntriesOf(input)
    /\ slots \in Seq(SlotType(input))

\* The slots of a request are numbered, and they have courses, moedim and dates.
LEMMA RequestFacts ==
    ASSUME RequestInv
    PROVE /\ Len(slots) \in Nat /\ Numbers = 1 .. Len(slots)
          /\ Rules!Dates \subseteq Nat \ {0}
          /\ \A i \in Numbers : /\ slots[i].course \in Rules!Courses /\ slots[i].moed \in Int
                                /\ slots[i].dates \in Seq(Rules!Dates)
          /\ \A a \in Assignments : /\ a.slot \in Numbers /\ a.date \in Rules!Dates
                                    /\ Course(a) \in Rules!Courses
                                    /\ Rules!Course(a) = Course(a)
                                    /\ Rules!Moed(a) = slots[a.slot].moed
<1>1. Len(slots) \in Nat /\ Numbers = 1 .. Len(slots)
  BY DEF RequestInv, Numbers
<1>2. \A i \in Numbers : /\ slots[i] \in SlotType(input)
                         /\ slots[i].course \in DOMAIN EntriesOf(input) /\ slots[i].moed \in 1 .. 3
                         /\ slots[i].dates \in Seq(Nat \ {0})
  <2> SUFFICES ASSUME NEW i \in Numbers
               PROVE /\ slots[i] \in SlotType(input)
                     /\ slots[i].course \in DOMAIN EntriesOf(input) /\ slots[i].moed \in 1 .. 3
                     /\ slots[i].dates \in Seq(Nat \ {0})
    OBVIOUS
  <2>1. slots[i] \in SlotType(input)
    BY <1>1 DEF RequestInv
  <2> QED
    BY <2>1 DEF SlotType
<1>3. Rules!Courses = DOMAIN EntriesOf(input)
  BY DEF RequestInv, Rules!Courses
<1>4. Rules!Dates = UNION {Range(slots[i].dates) : i \in Numbers}
  BY DEF Rules!Dates, Rules!Range, Range, Numbers
<1>5. \A i \in Numbers : \A k \in DOMAIN slots[i].dates : slots[i].dates[k] \in Nat \ {0}
  BY <1>2
<1>6. Rules!Dates \subseteq Nat \ {0}
  BY <1>4, <1>5 DEF Range
<1>7. ASSUME NEW i \in Numbers
      PROVE slots[i].dates \in Seq(Rules!Dates)
  <2>1. \A k \in DOMAIN slots[i].dates : slots[i].dates[k] \in Rules!Dates
    BY <1>4 DEF Range
  <2>2. Len(slots[i].dates) \in Nat /\ DOMAIN slots[i].dates = 1 .. Len(slots[i].dates)
        /\ slots[i].dates = [k \in 1 .. Len(slots[i].dates) |-> slots[i].dates[k]]
    BY <1>2
  <2> QED
    BY <2>1, <2>2
<1>8. \A i \in Numbers : slots[i].course \in Rules!Courses /\ slots[i].moed \in Int
  BY <1>2, <1>3
<1>9. ASSUME NEW a \in Assignments
      PROVE /\ a.slot \in Numbers /\ a.date \in Rules!Dates /\ Course(a) \in Rules!Courses
            /\ Rules!Course(a) = Course(a) /\ Rules!Moed(a) = slots[a.slot].moed
  BY <1>8 DEF Assignments, Course, Rules!Course, Rules!Moed
<1> QED
  BY <1>1, <1>6, <1>7, <1>8, <1>9

Schedules == [id : Nat, assignments : Seq(Assignments), version : Nat,
              onDate : [Rules!Dates -> SUBSET Rules!Courses],
              ofCourse : [Rules!Courses -> Seq(Assignments)]]

\* What IndexesAgree says of the schedule that the search holds.
Indexed(s) ==
    /\ \A d \in Rules!Dates :
          s.onDate[d] = {Course(a) : a \in {b \in ToSet(s.assignments) : b.date = d}}
    /\ \A c \in Rules!Courses : InOrderOfPlacing(s, c)

\* What placing an exam changes.
LEMMA AddFields ==
    ASSUME RequestInv, NEW s \in Schedules, NEW a \in Assignments
    PROVE LET r == addAssignment(s, a)
          IN /\ r \in Schedules /\ r.id = s.id /\ r.version = s.version + 1
             /\ r.assignments = Append(s.assignments, a)
             /\ r.onDate = [s.onDate EXCEPT ![a.date] = s.onDate[a.date] \cup {Course(a)}]
             /\ r.ofCourse = [s.ofCourse EXCEPT ![Course(a)] = Append(s.ofCourse[Course(a)], a)]
<1> DEFINE r == addAssignment(s, a)
<1>1. a.date \in Rules!Dates /\ Course(a) \in Rules!Courses
  BY RequestFacts
<1>2. /\ s.id \in Nat /\ s.assignments \in Seq(Assignments) /\ s.version \in Nat
      /\ s.onDate \in [Rules!Dates -> SUBSET Rules!Courses]
      /\ s.ofCourse \in [Rules!Courses -> Seq(Assignments)]
  BY DEF Schedules
<1>3. /\ r.id = s.id /\ r.version = s.version + 1 /\ r.assignments = Append(s.assignments, a)
      /\ r.onDate = [s.onDate EXCEPT ![a.date] = s.onDate[a.date] \cup {Course(a)}]
      /\ r.ofCourse = [s.ofCourse EXCEPT ![Course(a)] = Append(s.ofCourse[Course(a)], a)]
  BY <1>2 DEF addAssignment, Schedules
<1>4. Append(s.assignments, a) \in Seq(Assignments) /\ Append(s.ofCourse[Course(a)], a) \in Seq(Assignments)
  BY <1>1, <1>2
<1>5. [s.onDate EXCEPT ![a.date] = s.onDate[a.date] \cup {Course(a)}] \in [Rules!Dates -> SUBSET Rules!Courses]
  BY <1>1, <1>2
<1>6. [s.ofCourse EXCEPT ![Course(a)] = Append(s.ofCourse[Course(a)], a)] \in [Rules!Courses -> Seq(Assignments)]
  BY <1>1, <1>2, <1>4
<1>7. s.version + 1 \in Nat
  BY <1>2
<1>8. r \in Schedules
  <2>1. PICK A, D, C : /\ A = Append(s.assignments, a)
                       /\ D = [s.onDate EXCEPT ![a.date] = s.onDate[a.date] \cup {Course(a)}]
                       /\ C = [s.ofCourse EXCEPT ![Course(a)] = Append(s.ofCourse[Course(a)], a)]
    OBVIOUS
  <2>2. r = [s EXCEPT !.assignments = A, !.onDate = D, !.ofCourse = C, !.version = s.version + 1]
    BY <1>2, <2>1 DEF addAssignment, Schedules
  <2>3. A \in Seq(Assignments) /\ D \in [Rules!Dates -> SUBSET Rules!Courses] /\ C \in [Rules!Courses -> Seq(Assignments)]
    BY <1>4, <1>5, <1>6, <2>1
  <2> HIDE DEF r, Assignments
  <2> QED
    BY <1>7, <2>2, <2>3 DEF Schedules
<1> QED
  BY <1>3, <1>8

\* What taking the last exam back changes.
LEMMA PopFields ==
    ASSUME RequestInv, NEW s \in Schedules, s.assignments # <<>>,
           s.ofCourse[Course(Last(s.assignments))] # <<>>
    PROVE LET r == pop_last_assignment(s)
              removed == Last(s.assignments)
          IN /\ r \in Schedules /\ r.id = s.id /\ r.version = s.version + 1
             /\ r.assignments = Front(s.assignments)
             /\ r.onDate = [s.onDate EXCEPT ![removed.date] = s.onDate[removed.date] \ {Course(removed)}]
             /\ r.ofCourse = [s.ofCourse EXCEPT ![Course(removed)] = Front(s.ofCourse[Course(removed)])]
<1> DEFINE r == pop_last_assignment(s)
<1>1. PICK a : a = Last(s.assignments)
  OBVIOUS
<1>2. /\ s.id \in Nat /\ s.assignments \in Seq(Assignments) /\ s.version \in Nat
      /\ s.onDate \in [Rules!Dates -> SUBSET Rules!Courses]
      /\ s.ofCourse \in [Rules!Courses -> Seq(Assignments)]
  BY DEF Schedules
<1>3. a \in Assignments
  BY <1>1, <1>2 DEF Last
<1>4. a.date \in Rules!Dates /\ Course(a) \in Rules!Courses
  BY <1>3, RequestFacts
<1>5. /\ r.id = s.id /\ r.version = s.version + 1 /\ r.assignments = Front(s.assignments)
      /\ r.onDate = [s.onDate EXCEPT ![a.date] = s.onDate[a.date] \ {Course(a)}]
      /\ r.ofCourse = [s.ofCourse EXCEPT ![Course(a)] = Front(s.ofCourse[Course(a)])]
  BY <1>1, <1>2 DEF pop_last_assignment, Schedules
<1>6. s.ofCourse[Course(a)] # <<>> /\ s.ofCourse[Course(a)] \in Seq(Assignments)
  BY <1>1, <1>2, <1>4
<1>7. Front(s.assignments) \in Seq(Assignments) /\ Front(s.ofCourse[Course(a)]) \in Seq(Assignments)
  BY <1>2, <1>6 DEF Front
<1>8. [s.onDate EXCEPT ![a.date] = s.onDate[a.date] \ {Course(a)}] \in [Rules!Dates -> SUBSET Rules!Courses]
  BY <1>2, <1>4
<1>9. [s.ofCourse EXCEPT ![Course(a)] = Front(s.ofCourse[Course(a)])] \in [Rules!Courses -> Seq(Assignments)]
  BY <1>2, <1>4, <1>7
<1>10. s.version + 1 \in Nat
  BY <1>2
<1>11. r \in Schedules
  <2>1. PICK A, D, C : /\ A = Front(s.assignments)
                       /\ D = [s.onDate EXCEPT ![a.date] = s.onDate[a.date] \ {Course(a)}]
                       /\ C = [s.ofCourse EXCEPT ![Course(a)] = Front(s.ofCourse[Course(a)])]
    OBVIOUS
  <2>2. r = [s EXCEPT !.assignments = A, !.onDate = D, !.ofCourse = C, !.version = s.version + 1]
    BY <1>1, <1>2, <2>1 DEF pop_last_assignment, Schedules
  <2>3. A \in Seq(Assignments) /\ D \in [Rules!Dates -> SUBSET Rules!Courses] /\ C \in [Rules!Courses -> Seq(Assignments)]
    BY <1>7, <1>8, <1>9, <2>1
  <2> HIDE DEF r, Assignments
  <2> QED
    BY <1>10, <2>2, <2>3 DEF Schedules
<1> QED
  BY <1>1, <1>5, <1>11

\* An exam that is placed joins the indexes.
LEMMA AddIsIndexed ==
    ASSUME RequestInv, NEW s \in Schedules, NEW a \in Assignments, Indexed(s)
    PROVE Indexed(addAssignment(s, a))
<1>1. PICK r : r = addAssignment(s, a)
  OBVIOUS
<1>2. /\ r \in Schedules /\ r.assignments = Append(s.assignments, a)
      /\ r.onDate = [s.onDate EXCEPT ![a.date] = s.onDate[a.date] \cup {Course(a)}]
      /\ r.ofCourse = [s.ofCourse EXCEPT ![Course(a)] = Append(s.ofCourse[Course(a)], a)]
  BY <1>1, AddFields
<1>3. PICK n : n = Len(s.assignments)
  OBVIOUS
<1>4. /\ n \in Nat /\ DOMAIN s.assignments = 1 .. n /\ DOMAIN r.assignments = 1 .. n + 1
      /\ \A i \in 1 .. n : r.assignments[i] = s.assignments[i]
      /\ r.assignments[n + 1] = a
  BY <1>2, <1>3 DEF Schedules
<1>5. /\ a.date \in Rules!Dates /\ Course(a) \in Rules!Courses
      /\ s.onDate \in [Rules!Dates -> SUBSET Rules!Courses]
      /\ s.ofCourse \in [Rules!Courses -> Seq(Assignments)]
  BY RequestFacts DEF Schedules
<1>6. ASSUME NEW d \in Rules!Dates
      PROVE r.onDate[d] = {Course(b) : b \in {x \in ToSet(r.assignments) : x.date = d}}
  <2>1. ToSet(r.assignments) = ToSet(s.assignments) \cup {a}
    BY <1>4 DEF ToSet
  <2>2. s.onDate[d] = {Course(b) : b \in {x \in ToSet(s.assignments) : x.date = d}}
    BY DEF Indexed
  <2>3. r.onDate[d] = IF d = a.date THEN s.onDate[d] \cup {Course(a)} ELSE s.onDate[d]
    BY <1>2, <1>5
  <2> QED
    BY <2>1, <2>2, <2>3
<1>7. ASSUME NEW c \in Rules!Courses
      PROVE InOrderOfPlacing(r, c)
  <2>1. PICK at \in [DOMAIN s.ofCourse[c] -> Positions(s, c)] :
            /\ Range(at) = Positions(s, c)
            /\ \A i, j \in DOMAIN at : i < j => at[i] < at[j]
            /\ \A i \in DOMAIN at : s.ofCourse[c][i] = s.assignments[at[i]]
    BY DEF Indexed, InOrderOfPlacing
  <2>2. PICK m : m = Len(s.ofCourse[c])
    OBVIOUS
  <2>3. m \in Nat /\ DOMAIN s.ofCourse[c] = 1 .. m /\ DOMAIN at = 1 .. m
    BY <1>5, <2>1, <2>2
  <2>4. Positions(s, c) \subseteq 1 .. n
    BY <1>4 DEF Positions
  <2>5. CASE c = Course(a)
    <3>1. r.ofCourse[c] = Append(s.ofCourse[c], a) /\ s.ofCourse[c] \in Seq(Assignments)
      BY <1>2, <1>5, <2>5
    <3>2. /\ DOMAIN r.ofCourse[c] = 1 .. m + 1 /\ r.ofCourse[c][m + 1] = a
          /\ \A i \in 1 .. m : r.ofCourse[c][i] = s.ofCourse[c][i]
      BY <2>2, <3>1
    <3>3. Positions(r, c) = Positions(s, c) \cup {n + 1}
      BY <1>4, <2>5 DEF Positions
    <3> DEFINE to == [i \in 1 .. m + 1 |-> IF i = m + 1 THEN n + 1 ELSE at[i]]
    <3>4. \A i \in 1 .. m + 1 : i # m + 1 => i \in 1 .. m
      BY <2>3
    <3>5. \A i \in 1 .. m : at[i] \in Positions(s, c) /\ i \in 1 .. m + 1 /\ i # m + 1
      BY <2>1, <2>3
    <3>6. to \in [DOMAIN r.ofCourse[c] -> Positions(r, c)]
      BY <3>2, <3>3, <3>4, <3>5
    <3>7. Range(to) = Positions(r, c)
      <4>1. Range(to) \subseteq Positions(r, c)
        BY <3>6 DEF Range
      <4>2. ASSUME NEW p \in Positions(r, c)
            PROVE \E i \in 1 .. m + 1 : to[i] = p
        <5>1. CASE p = n + 1
          BY <2>3, <5>1
        <5>2. CASE p \in Positions(s, c)
          <6>1. PICK i \in 1 .. m : at[i] = p
            BY <2>1, <2>3, <5>2 DEF Range
          <6> QED
            BY <3>5, <6>1
        <5> QED
          BY <3>3, <5>1, <5>2
      <4> QED
        BY <4>1, <4>2 DEF Range
    <3>8. ASSUME NEW i \in 1 .. m + 1, NEW j \in 1 .. m + 1, i < j
          PROVE to[i] < to[j]
      <4>1. i \in 1 .. m
        BY <2>3, <3>8
      <4>2. to[i] = at[i] /\ at[i] \in 1 .. n
        BY <2>4, <3>5, <4>1
      <4>3. CASE j = m + 1
        BY <1>4, <4>2, <4>3
      <4>4. CASE j # m + 1
        BY <2>1, <2>3, <3>4, <3>8, <4>1, <4>2, <4>4
      <4> QED
        BY <4>3, <4>4
    <3>9. ASSUME NEW i \in 1 .. m + 1
          PROVE r.ofCourse[c][i] = r.assignments[to[i]]
      <4>1. CASE i = m + 1
        BY <1>4, <3>2, <4>1
      <4>2. CASE i # m + 1
        BY <1>4, <2>1, <2>3, <2>4, <3>2, <3>4, <3>5, <4>2
      <4> QED
        BY <4>1, <4>2
    <3> HIDE DEF to
    <3> QED
      BY <3>2, <3>6, <3>7, <3>8, <3>9 DEF InOrderOfPlacing
  <2>6. CASE c # Course(a)
    <3>1. r.ofCourse[c] = s.ofCourse[c]
      BY <1>2, <1>5, <2>6
    <3>2. Positions(r, c) = Positions(s, c)
      BY <1>4, <2>6 DEF Positions
    <3>3. \A i \in DOMAIN at : s.ofCourse[c][i] = r.assignments[at[i]]
      BY <1>4, <2>1, <2>4
    <3> QED
      BY <2>1, <3>1, <3>2, <3>3 DEF InOrderOfPlacing
  <2> QED
    BY <2>5, <2>6
<1> QED
  BY <1>1, <1>6, <1>7 DEF Indexed

\* The exam placed last stands alone on its date among the exams of its course.
LastApart(s) ==
    \A i \in DOMAIN s.assignments :
        i < Len(s.assignments) /\ Course(s.assignments[i]) = Course(Last(s.assignments)) =>
            s.assignments[i].date # Last(s.assignments).date

\* The list of the course of the last exam ends with it.
LEMMA LastIsListed ==
    ASSUME RequestInv, NEW s \in Schedules, s.assignments # <<>>, Indexed(s),
           NEW c, c = Course(Last(s.assignments)),
           NEW at \in [DOMAIN s.ofCourse[c] -> Positions(s, c)], Range(at) = Positions(s, c),
           \A i, j \in DOMAIN at : i < j => at[i] < at[j]
    PROVE LET m == Len(s.ofCourse[c])
          IN m \in Nat \ {0} /\ DOMAIN at = 1 .. m /\ at[m] = Len(s.assignments)
<1>1. PICK n, m : n = Len(s.assignments) /\ m = Len(s.ofCourse[c])
  OBVIOUS
<1>2. n \in Nat \ {0} /\ DOMAIN s.assignments = 1 .. n /\ Last(s.assignments) = s.assignments[n]
      /\ s.assignments[n] \in Assignments
  BY <1>1 DEF Schedules, Last
<1>3. c \in Rules!Courses
  BY <1>2, RequestFacts
<1>4. m \in Nat /\ DOMAIN at = 1 .. m
  BY <1>1, <1>3 DEF Schedules
<1>5. n \in Positions(s, c) /\ Positions(s, c) \subseteq 1 .. n
  BY <1>2 DEF Positions
<1>6. PICK i \in 1 .. m : at[i] = n
  BY <1>4, <1>5 DEF Range
<1>7. i = m
  <2> SUFFICES ASSUME i # m
               PROVE FALSE
    OBVIOUS
  <2>1. m \in 1 .. m /\ i < m
    BY <1>4
  <2>2. at[m] \in 1 .. n
    BY <1>4, <1>5, <2>1
  <2>3. at[i] < at[m]
    BY <1>4, <2>1
  <2> QED
    BY <1>2, <1>6, <2>2, <2>3
<1> QED
  BY <1>1, <1>4, <1>6, <1>7

\* An exam that is taken back leaves the indexes.
LEMMA PopIsIndexed ==
    ASSUME RequestInv, NEW s \in Schedules, s.assignments # <<>>, Indexed(s), LastApart(s)
    PROVE /\ s.ofCourse[Course(Last(s.assignments))] # <<>>
          /\ Indexed(pop_last_assignment(s))
<1>1. PICK r, a, n : r = pop_last_assignment(s) /\ a = Last(s.assignments) /\ n = Len(s.assignments)
  OBVIOUS
<1>2. /\ n \in Nat \ {0} /\ DOMAIN s.assignments = 1 .. n /\ a = s.assignments[n]
      /\ a \in Assignments
  BY <1>1 DEF Schedules, Last
<1>3. /\ a.date \in Rules!Dates /\ Course(a) \in Rules!Courses
      /\ s.onDate \in [Rules!Dates -> SUBSET Rules!Courses]
      /\ s.ofCourse \in [Rules!Courses -> Seq(Assignments)]
  BY <1>2, RequestFacts DEF Schedules
<1>4. PICK am \in [DOMAIN s.ofCourse[Course(a)] -> Positions(s, Course(a))] :
            /\ Range(am) = Positions(s, Course(a))
            /\ \A i, j \in DOMAIN am : i < j => am[i] < am[j]
            /\ \A i \in DOMAIN am : s.ofCourse[Course(a)][i] = s.assignments[am[i]]
  BY <1>3 DEF Indexed, InOrderOfPlacing
<1>5. s.ofCourse[Course(a)] # <<>>
  <2>1. Len(s.ofCourse[Course(a)]) # 0
    BY <1>1, <1>4, LastIsListed
  <2> QED
    BY <2>1
<1>6. /\ r \in Schedules /\ r.assignments = Front(s.assignments)
      /\ r.onDate = [s.onDate EXCEPT ![a.date] = s.onDate[a.date] \ {Course(a)}]
      /\ r.ofCourse = [s.ofCourse EXCEPT ![Course(a)] = Front(s.ofCourse[Course(a)])]
  BY <1>1, <1>5, PopFields
<1>7. /\ DOMAIN r.assignments = 1 .. n - 1
      /\ \A i \in 1 .. n - 1 : r.assignments[i] = s.assignments[i]
  BY <1>1, <1>2, <1>6 DEF Front, Schedules
<1>8. ASSUME NEW d \in Rules!Dates
      PROVE r.onDate[d] = {Course(b) : b \in {x \in ToSet(r.assignments) : x.date = d}}
  <2>1. ToSet(s.assignments) = ToSet(r.assignments) \cup {a}
    <3>1. 1 .. n = (1 .. n - 1) \cup {n}
      BY <1>2
    <3> QED
      BY <1>2, <1>7, <3>1 DEF ToSet
  <2>2. s.onDate[d] = {Course(b) : b \in {x \in ToSet(s.assignments) : x.date = d}}
    BY DEF Indexed
  <2>3. r.onDate[d] = IF d = a.date THEN s.onDate[d] \ {Course(a)} ELSE s.onDate[d]
    BY <1>3, <1>6
  <2>4. \A b \in ToSet(r.assignments) : b.date = a.date => Course(b) # Course(a)
    <3> SUFFICES ASSUME NEW i \in 1 .. n - 1, s.assignments[i].date = a.date
                 PROVE Course(s.assignments[i]) # Course(a)
      BY <1>7 DEF ToSet
    <3>1. i \in DOMAIN s.assignments /\ i < n
      BY <1>2
    <3> QED
      BY <1>1, <3>1 DEF LastApart
  <2> QED
    BY <2>1, <2>2, <2>3, <2>4
<1>9. ASSUME NEW c \in Rules!Courses
      PROVE InOrderOfPlacing(r, c)
  <2>1. PICK at \in [DOMAIN s.ofCourse[c] -> Positions(s, c)] :
            /\ Range(at) = Positions(s, c)
            /\ \A i, j \in DOMAIN at : i < j => at[i] < at[j]
            /\ \A i \in DOMAIN at : s.ofCourse[c][i] = s.assignments[at[i]]
    BY DEF Indexed, InOrderOfPlacing
  <2>2. PICK m : m = Len(s.ofCourse[c])
    OBVIOUS
  <2>3. m \in Nat /\ DOMAIN s.ofCourse[c] = 1 .. m /\ DOMAIN at = 1 .. m
    BY <1>3, <2>1, <2>2
  <2>4. Positions(s, c) \subseteq 1 .. n
    BY <1>2 DEF Positions
  <2>5. CASE c = Course(a)
    <3>1. m \in Nat \ {0} /\ at[m] = n
      BY <1>1, <2>1, <2>2, <2>5, LastIsListed
    <3>2. r.ofCourse[c] = Front(s.ofCourse[c]) /\ s.ofCourse[c] \in Seq(Assignments)
      BY <1>3, <1>6, <2>5
    <3>3. /\ DOMAIN r.ofCourse[c] = 1 .. m - 1
          /\ \A i \in 1 .. m - 1 : r.ofCourse[c][i] = s.ofCourse[c][i]
      BY <2>2, <3>1, <3>2 DEF Front
    <3>4. Positions(r, c) = Positions(s, c) \ {n}
      <4>1. 1 .. n - 1 = (1 .. n) \ {n}
        BY <1>2
      <4> QED
        BY <1>2, <1>7, <4>1 DEF Positions
    <3> DEFINE to == [i \in 1 .. m - 1 |-> at[i]]
    <3>5. \A i \in 1 .. m - 1 : i \in 1 .. m /\ m \in 1 .. m /\ i < m
      BY <3>1
    <3>6. \A i \in 1 .. m - 1 : at[i] \in Positions(s, c) /\ at[i] < at[m] /\ at[i] \in 1 .. n
      BY <2>1, <2>3, <2>4, <3>5
    <3>7. \A i \in 1 .. m - 1 : at[i] # n
      BY <1>2, <3>1, <3>6
    <3>8. to \in [DOMAIN r.ofCourse[c] -> Positions(r, c)]
      BY <3>3, <3>4, <3>6, <3>7
    <3>9. Range(to) = Positions(r, c)
      <4>1. Range(to) \subseteq Positions(r, c)
        BY <3>8 DEF Range
      <4>2. ASSUME NEW p \in Positions(r, c)
            PROVE \E i \in 1 .. m - 1 : to[i] = p
        <5>1. PICK i \in 1 .. m : at[i] = p
          BY <2>1, <2>3, <3>4 DEF Range
        <5>2. i # m
          BY <3>1, <3>4, <5>1
        <5>3. i \in 1 .. m - 1
          BY <3>1, <5>2
        <5> QED
          BY <5>1, <5>3
      <4> QED
        BY <4>1, <4>2 DEF Range
    <3>10. \A i, j \in DOMAIN to : i < j => to[i] < to[j]
      BY <2>1, <2>3, <3>5
    <3>11. \A i \in DOMAIN to : r.ofCourse[c][i] = r.assignments[to[i]]
      <4> SUFFICES ASSUME NEW i \in 1 .. m - 1
                   PROVE r.ofCourse[c][i] = r.assignments[at[i]]
        OBVIOUS
      <4>1. at[i] \in 1 .. n - 1
        BY <1>2, <3>6, <3>7
      <4>2. s.ofCourse[c][i] = s.assignments[at[i]]
        BY <2>1, <2>3, <3>5
      <4> QED
        BY <1>7, <3>3, <4>1, <4>2
    <3> HIDE DEF to
    <3> QED
      BY <3>8, <3>9, <3>10, <3>11 DEF InOrderOfPlacing
  <2>6. CASE c # Course(a)
    <3>1. r.ofCourse[c] = s.ofCourse[c]
      BY <1>3, <1>6, <2>6
    <3>2. n \notin Positions(s, c)
      BY <1>2, <2>6 DEF Positions
    <3>3. \A i \in 1 .. n : i # n => i \in 1 .. n - 1
      BY <1>2
    <3>4. Positions(r, c) = Positions(s, c)
      <4>1. 1 .. n - 1 \subseteq 1 .. n
        BY <1>2
      <4> QED
        BY <1>2, <1>7, <3>2, <3>3, <4>1 DEF Positions
    <3>5. \A i \in DOMAIN at : s.ofCourse[c][i] = r.assignments[at[i]]
      BY <1>7, <2>1, <2>4, <3>2, <3>3
    <3> QED
      BY <2>1, <3>1, <3>4, <3>5 DEF InOrderOfPlacing
  <2> QED
    BY <2>5, <2>6
<1> QED
  BY <1>1, <1>5, <1>8, <1>9 DEF Indexed

\* A date that no checker rejects is apart from the other exams of the course.
LEMMA NotRejectedIsApart ==
    ASSUME RequestInv, NEW s \in Schedules, Indexed(s), NEW a \in Assignments, NEW counts,
           ~Rules!Rejects(a, s, counts),
           NEW i \in DOMAIN s.assignments, Course(s.assignments[i]) = Course(a)
    PROVE s.assignments[i].date # a.date
<1>1. PICK b : b = s.assignments[i]
  OBVIOUS
<1>2. b \in Assignments
  BY <1>1 DEF Schedules
<1>3. /\ Course(a) \in Rules!Courses /\ Rules!Course(a) = Course(a)
      /\ Rules!Moed(a) \in Int /\ Rules!Moed(b) \in Int
      /\ a.date \in Nat /\ b.date \in Nat
  BY <1>2, RequestFacts
<1>4. PICK at \in [DOMAIN s.ofCourse[Course(a)] -> Positions(s, Course(a))] :
            /\ Range(at) = Positions(s, Course(a))
            /\ \A k \in DOMAIN at : s.ofCourse[Course(a)][k] = s.assignments[at[k]]
  BY <1>3 DEF Indexed, InOrderOfPlacing
<1>5. i \in Positions(s, Course(a))
  BY DEF Positions
<1>6. PICK k \in DOMAIN at : at[k] = i
  BY <1>4, <1>5 DEF Range
<1>7. b \in Rules!Range(s.ofCourse[Rules!Course(a)])
  BY <1>1, <1>3, <1>4, <1>6 DEF Rules!Range
<1>8. ~Rules!MoedOrder(a, s)
  BY DEF Rules!Rejects, Rules!RejectsBeforeElective
<1>9. /\ Rules!Moed(b) # Rules!Moed(a)
      /\ Rules!Moed(b) < Rules!Moed(a) => ~(b.date >= a.date)
      /\ Rules!Moed(b) > Rules!Moed(a) => ~(b.date <= a.date)
  BY <1>7, <1>8 DEF Rules!MoedOrder
<1> QED
  <2> HIDE DEF Assignments
  <2>1. b.date # a.date
    BY <1>3, <1>9
  <2> QED
    BY <1>1, <2>1

\* The dates of a domain are apart from the first n exams of its course.
Free(domain, s, n) ==
    \A k \in DOMAIN domain.dates : \A i \in 1 .. n :
        Course(s.assignments[i]) = Course(domain) => s.assignments[i].date # domain.dates[k]

\* A slot with the dates still possible for it.
DomainType == [slot : Numbers, dates : Seq(Rules!Dates)]

LEMMA DomainsAreTyped ==
    Domains = Seq(DomainType)
BY DEF Domains, DomainType

\* What forward checking leaves of one domain.
LEMMA SurvivingIsFree ==
    ASSUME RequestInv, NEW s \in Schedules, Indexed(s), NEW domain \in DomainType
    PROVE LET r == [domain EXCEPT !.dates = Surviving(domain, s)]
          IN r \in DomainType /\ r.slot = domain.slot /\ Free(r, s, Len(s.assignments))
<1>1. PICK dates, r : dates = Surviving(domain, s) /\ r = [domain EXCEPT !.dates = dates]
  OBVIOUS
<1>2. domain.slot \in Numbers /\ domain.dates \in Seq(Rules!Dates)
  BY DEF DomainType
<1> DEFINE Kept == {d \in Rules!Dates : /\ d \in ToSet(domain.dates)
                        /\ ~Rules!Rejects([slot |-> domain.slot, date |-> d], s, Served(s))}
<1>3. dates \in Seq(Kept)
  BY <1>1, <1>2, SurvivingIsNotRejected
<1>4. Kept \subseteq Rules!Dates
  OBVIOUS
<1> HIDE DEF Kept
<1>5. dates \in Seq(Rules!Dates) /\ \A k \in DOMAIN dates : dates[k] \in Kept
  BY <1>3, <1>4
<1>6. r \in DomainType /\ r.slot = domain.slot /\ r.dates = dates
  <2>1. r \in DomainType
    BY <1>1, <1>5 DEF DomainType
  <2>2. r.slot = domain.slot /\ r.dates = dates
    BY <1>1 DEF DomainType
  <2> QED
    BY <2>1, <2>2
<1>7. ASSUME NEW k \in DOMAIN dates, NEW j \in 1 .. Len(s.assignments),
             Course(s.assignments[j]) = Course(domain)
      PROVE s.assignments[j].date # dates[k]
  <2>1. PICK a : a = [slot |-> domain.slot, date |-> dates[k]]
    OBVIOUS
  <2>2. dates[k] \in Kept
    BY <1>5
  <2>3. dates[k] \in Rules!Dates /\ ~Rules!Rejects(a, s, Served(s))
    BY <2>1, <2>2 DEF Kept
  <2>4. a \in Assignments /\ a.date = dates[k] /\ Course(a) = Course(domain)
    BY <1>2, <2>1, <2>3 DEF Assignments, Course
  <2>5. j \in DOMAIN s.assignments
    BY DEF Schedules
  <2>6. s.assignments[j].date # a.date
    BY <1>7, <2>3, <2>4, <2>5, NotRejectedIsApart
  <2> QED
    BY <2>4, <2>6
<1>8. Course(r) = Course(domain)
  BY <1>6 DEF Course
<1>9. Free(r, s, Len(s.assignments))
  BY <1>6, <1>7, <1>8 DEF Free
<1> QED
  BY <1>1, <1>6, <1>9

\* What forward checking leaves of a sequence of domains.
LEMMA NarrowIsFree ==
    ASSUME RequestInv, NEW s \in Schedules, Indexed(s), NEW doms \in Domains
    PROVE /\ Narrow(doms, s) \in Domains
          /\ Len(Narrow(doms, s)) = Len(doms)
          /\ \A i \in DOMAIN doms : /\ Narrow(doms, s)[i].slot = doms[i].slot
                                    /\ Free(Narrow(doms, s)[i], s, Len(s.assignments))
<1>1. doms \in Seq(DomainType)
  BY DomainsAreTyped
<1>2. PICK n : n = Len(doms) /\ n \in Nat /\ DOMAIN doms = 1 .. n
  BY <1>1
<1>3. PICK r : r = Narrow(doms, s)
  OBVIOUS
<1>4. r = [i \in 1 .. n |-> [doms[i] EXCEPT !.dates = Surviving(doms[i], s)]]
  BY <1>2, <1>3 DEF Narrow
<1>5. \A i \in 1 .. n : /\ r[i] = [doms[i] EXCEPT !.dates = Surviving(doms[i], s)]
                        /\ doms[i] \in DomainType
  BY <1>1, <1>2, <1>4
<1>6. \A i \in 1 .. n : /\ r[i] \in DomainType /\ r[i].slot = doms[i].slot
                        /\ Free(r[i], s, Len(s.assignments))
  <2> SUFFICES ASSUME NEW i \in 1 .. n
               PROVE /\ r[i] \in DomainType /\ r[i].slot = doms[i].slot
                     /\ Free(r[i], s, Len(s.assignments))
    OBVIOUS
  <2>1. PICK domain \in DomainType : domain = doms[i]
    BY <1>5
  <2>2. r[i] = [domain EXCEPT !.dates = Surviving(domain, s)]
    BY <1>5, <2>1
  <2> QED
    BY <2>1, <2>2, SurvivingIsFree
<1>7. r \in Seq(DomainType) /\ Len(r) = n
  BY <1>2, <1>4, <1>6
<1> QED
  BY <1>2, <1>3, <1>6, <1>7, DomainsAreTyped

\* Exams placed one after the other are all in the schedule and in its indexes.
LEMMA SeedsArePlaced ==
    ASSUME RequestInv, NEW base \in Schedules, Indexed(base), base.assignments = <<>>,
           NEW seq \in Seq(Assignments)
    PROVE LET r == FoldLeft(addAssignment, base, seq)
          IN r \in Schedules /\ Indexed(r) /\ r.id = base.id /\ r.assignments = seq
<1>1. PICK n : n = Len(seq)
  OBVIOUS
<1>2. n \in Nat /\ DOMAIN seq = 1 .. n /\ seq \in [1 .. n -> Assignments]
  BY <1>1
<1> DEFINE X == {s \in Schedules : Indexed(s) /\ s.id = base.id}
           Body(it) == [S \in SUBSET DOMAIN seq |->
                          IF S = {} THEN base
                          ELSE addAssignment(it[S \ {Max(S)}], seq[Max(S)])]
           f == [p \in X \X Assignments |-> addAssignment(p[1], p[2])]
<1>3. PICK it : it = CHOOSE iter : iter = Body(iter)
  OBVIOUS
<1>4. FoldLeft(addAssignment, base, seq) = it[DOMAIN seq]
  BY <1>3 DEF FoldLeft, MapThenFoldSet
<1>5. ASSUME NEW s \in X, NEW a \in Assignments
      PROVE /\ addAssignment(s, a) \in X
            /\ addAssignment(s, a).assignments = Append(s.assignments, a)
  <2>1. s \in Schedules /\ Indexed(s) /\ s.id = base.id
    OBVIOUS
  <2> HIDE DEF X
  <2>2. PICK r : r = addAssignment(s, a)
    OBVIOUS
  <2>3. r \in Schedules /\ r.id = s.id /\ r.assignments = Append(s.assignments, a)
    BY <2>1, <2>2, AddFields
  <2>4. Indexed(r)
    BY <2>1, <2>2, AddIsIndexed
  <2>5. r \in X
    BY <2>1, <2>3, <2>4 DEF X
  <2> QED
    BY <2>2, <2>3, <2>5
<1>6. base \in X
  OBVIOUS
<1> HIDE DEF X
<1>7. f \in [X \X Assignments -> X] /\ \A s \in X, a \in Assignments : f[<<s, a>>] = addAssignment(s, a)
  BY <1>5
<1>8. \E h : h = Body(h)
  <2> HIDE DEF f
  <2>1. PICK h : IsFold(h, X, f, base, n, seq)
    BY <1>2, <1>6, <1>7, FoldExists
  <2>2. ASSUME NEW S \in SUBSET (1 .. n), S # {}
        PROVE h[S] = addAssignment(h[S \ {Max(S)}], seq[Max(S)])
    <3>1. Max(S) \in 1 .. n
      BY <1>2, <2>2, GreatestIsMember
    <3>2. seq[Max(S)] \in Assignments /\ h[S \ {Max(S)}] \in X
      BY <1>2, <2>1, <3>1 DEF IsFold
    <3>3. h[S] = f[<<h[S \ {Max(S)}], seq[Max(S)]>>]
      BY <2>1, <2>2 DEF IsFold
    <3> QED
      BY <1>7, <3>2, <3>3
  <2>3. h[{}] = base
    BY <2>1 DEF IsFold
  <2>4. h = Body(h)
    BY <1>2, <2>1, <2>2, <2>3 DEF IsFold
  <2> HIDE DEF Body
  <2> QED
    BY <2>4
<1>9. it = Body(it)
  <2> HIDE DEF Body
  <2> QED
    BY <1>3, <1>8
<1> DEFINE Prefix(s, k) == /\ s \in X /\ Len(s.assignments) = k
                           /\ \A i \in 1 .. k : s.assignments[i] = seq[i]
           Off == {k \in 0 .. n : ~Prefix(it[1 .. k], k)}
<1>10. Off = {}
  <2> SUFFICES ASSUME Off # {}
               PROVE FALSE
    OBVIOUS
  <2>1. PICK m \in Off : \A k \in Off : m <= k
    <3>1. Off \subseteq Nat
      OBVIOUS
    <3> HIDE DEF Off
    <3> QED
      BY <3>1, HasLeast
  <2>2. m \in 0 .. n
    OBVIOUS
  <2>3. CASE m = 0
    <3>1. 1 .. m = {} /\ {} \in SUBSET DOMAIN seq
      BY <2>3
    <3>2. it[{}] = base
      BY <1>9, <3>1
    <3>3. Prefix(it[1 .. m], m)
      BY <1>6, <2>3, <3>1, <3>2
    <3> QED
      BY <3>3
  <2>4. CASE m # 0
    <3>1. m \in 1 .. n /\ m - 1 \in 0 .. n /\ m - 1 \notin Off
      <4>1. m \in 1 .. n /\ m - 1 \in 0 .. n /\ ~(m <= m - 1)
        BY <1>2, <2>2, <2>4
      <4>2. m - 1 \notin Off
        <5> HIDE DEF Off
        <5> QED
          BY <2>1, <4>1
      <4> QED
        BY <4>1, <4>2
    <3>2. PICK s : s = it[1 .. m - 1]
      OBVIOUS
    <3>3. Prefix(s, m - 1)
      BY <3>1, <3>2
    <3>4. 1 .. m \in SUBSET DOMAIN seq /\ 1 .. m # {} /\ (1 .. m) \ {m} = 1 .. m - 1
      <4>1. 1 .. m \subseteq 1 .. n /\ m \in 1 .. m
        BY <1>2, <3>1
      <4>2. (1 .. m) \ {m} = 1 .. m - 1
        BY <1>2, <3>1
      <4> QED
        BY <1>2, <4>1, <4>2
    <3>5. Max(1 .. m) = m
      BY <3>1, GreatestIsLast
    <3>6. it[1 .. m] = addAssignment(s, seq[m])
      <4>1. it[1 .. m] = addAssignment(it[(1 .. m) \ {Max(1 .. m)}], seq[Max(1 .. m)])
        BY <1>9, <3>4
      <4> QED
        BY <3>2, <3>4, <3>5, <4>1
    <3>7. s \in X /\ s.assignments \in Seq(Assignments) /\ Len(s.assignments) = m - 1 /\ seq[m] \in Assignments
      BY <1>2, <3>1, <3>3 DEF X, Schedules
    <3>8. it[1 .. m] \in X /\ it[1 .. m].assignments = Append(s.assignments, seq[m])
      BY <1>5, <3>6, <3>7
    <3>9. Len(Append(s.assignments, seq[m])) = m
      BY <3>1, <3>7
    <3>10. ASSUME NEW i \in 1 .. m
           PROVE Append(s.assignments, seq[m])[i] = seq[i]
      <4>1. CASE i = m
        BY <3>7, <4>1
      <4>2. CASE i # m
        BY <3>1, <3>3, <3>7, <4>2
      <4> QED
        BY <4>1, <4>2
    <3>11. Prefix(it[1 .. m], m)
      BY <3>8, <3>9, <3>10
    <3> QED
      BY <3>11
  <2> QED
    BY <2>3, <2>4
<1>11. PICK r : r = it[1 .. n]
  OBVIOUS
<1>12. Prefix(r, n)
  BY <1>2, <1>10, <1>11
<1>13. r \in X /\ r.assignments \in Seq(Assignments) /\ r.assignments = seq
  <2>1. PICK p : p = r.assignments
    OBVIOUS
  <2>2. r \in X /\ Len(p) = n /\ \A i \in 1 .. n : p[i] = seq[i]
    BY <1>12, <2>1
  <2>3. p \in Seq(Assignments)
    BY <2>1, <2>2 DEF X, Schedules
  <2>4. p = seq
    <3> HIDE DEF Assignments
    <3> QED
      BY <1>1, <1>2, <2>2, <2>3
  <2> QED
    BY <2>1, <2>2, <2>3, <2>4
<1> QED
  BY <1>2, <1>4, <1>11, <1>13 DEF X

-----------------------------------------------------------------------------
(* Choices *)

\* Among numbered things of which each has a weight, there is a first of the lightest.
LEMMA HasFirstLightest ==
    ASSUME NEW n \in Nat, NEW S \in SUBSET (1 .. n), S # {}, NEW w \in [1 .. n -> Nat]
    PROVE \E i \in S : /\ \A j \in S : w[i] <= w[j]
                       /\ \A j \in 1 .. (i - 1) : j \in S => w[i] < w[j]
<1> DEFINE W == {w[i] : i \in S}
<1>1. PICK least \in W : \A x \in W : least <= x
  <2>1. W \subseteq Nat /\ W # {}
    OBVIOUS
  <2> HIDE DEF W
  <2> QED
    BY <2>1, HasLeast
<1> DEFINE L == {i \in S : w[i] = least}
<1>2. PICK i \in L : \A j \in L : i <= j
  <2>1. L \subseteq Nat
    <3>1. S \subseteq Nat
      OBVIOUS
    <3> QED
      BY <3>1
  <2>2. L # {}
    <3>1. PICK x \in S : least = w[x]
      BY <1>1
    <3>2. x \in L
      BY <3>1
    <3> QED
      BY <3>2
  <2> HIDE DEF L
  <2> QED
    BY <2>1, <2>2, HasLeast
<1>3. \A j \in S : w[i] <= w[j]
  BY <1>1, <1>2
<1>4. ASSUME NEW j \in 1 .. (i - 1), j \in S
      PROVE w[i] < w[j]
  <2>1. j \notin L
    BY <1>2, <1>4
  <2>2. w[j] # least /\ w[i] = least
    BY <1>2, <1>4, <2>1
  <2>3. w[i] <= w[j] /\ w[i] \in Nat /\ w[j] \in Nat
    BY <1>3, <1>4
  <2> QED
    BY <2>2, <2>3
<1> QED
  BY <1>2, <1>3, <1>4

\* The partitioner finds the unit to split.
LEMMA ShallowestIsUnit ==
    ASSUME NEW D, frontier \in Seq(Seq(D)), NEW k \in DOMAIN frontier, CanSplit(frontier[k])
    PROVE next_shallowest \in DOMAIN frontier /\ CanSplit(frontier[next_shallowest])
<1>1. PICK n : n = Len(frontier) /\ n \in Nat /\ DOMAIN frontier = 1 .. n
  OBVIOUS
<1> DEFINE S == {i \in 1 .. n : CanSplit(frontier[i])}
           w == [i \in 1 .. n |-> Len(frontier[i])]
<1>2. S \in SUBSET (1 .. n) /\ S # {}
  BY <1>1
<1>3. w \in [1 .. n -> Nat]
  <2>1. \A i \in 1 .. n : frontier[i] \in Seq(D)
    BY <1>1
  <2>2. \A i \in 1 .. n : Len(frontier[i]) \in Nat
    BY <2>1
  <2> QED
    BY <2>2
<1>4. PICK i \in S : /\ \A j \in S : w[i] <= w[j]
                     /\ \A j \in 1 .. (i - 1) : j \in S => w[i] < w[j]
  <2> HIDE DEF S, w
  <2> QED
    BY <1>1, <1>2, <1>3, HasFirstLightest
<1>5. \A j \in 1 .. (i - 1) : j \in 1 .. n
  BY <1>1
<1>6. /\ i \in DOMAIN frontier /\ CanSplit(frontier[i])
      /\ \A j \in DOMAIN frontier : CanSplit(frontier[j]) => Len(frontier[i]) <= Len(frontier[j])
      /\ \A j \in 1 .. (i - 1) : CanSplit(frontier[j]) => Len(frontier[i]) < Len(frontier[j])
  <2>1. i \in 1 .. n /\ CanSplit(frontier[i])
    BY <1>4
  <2>2. ASSUME NEW j \in 1 .. n, CanSplit(frontier[j])
        PROVE Len(frontier[i]) <= Len(frontier[j])
    <3> HIDE DEF CanSplit
    <3>1. j \in S
      BY <2>2
    <3>2. w[i] <= w[j]
      BY <1>4, <3>1
    <3> QED
      BY <2>1, <3>2
  <2>3. ASSUME NEW j \in 1 .. (i - 1), CanSplit(frontier[j])
        PROVE Len(frontier[i]) < Len(frontier[j])
    <3> HIDE DEF CanSplit
    <3>1. j \in S /\ j \in 1 .. n
      BY <1>5, <2>3
    <3>2. w[i] < w[j]
      BY <1>4, <3>1
    <3> QED
      BY <2>1, <3>1, <3>2
  <2> QED
    BY <1>1, <2>1, <2>2, <2>3
<1> QED
  BY <1>6 DEF next_shallowest

\* The search finds a domain to go on with.
LEMMA MostConstrainedIsDomain ==
    ASSUME NEW doms \in Domains, doms # <<>>
    PROVE select_most_constrained(doms) \in DOMAIN doms
<1>1. doms \in Seq(DomainType)
  BY DomainsAreTyped
<1>2. PICK n : n = Len(doms) /\ n \in Nat /\ DOMAIN doms = 1 .. n /\ n # 0
  BY <1>1
<1> DEFINE w == [i \in 1 .. n |-> Len(doms[i].dates)]
<1>3. \A i \in 1 .. n : doms[i].dates \in Seq(Rules!Dates)
  <2> SUFFICES ASSUME NEW i \in 1 .. n
               PROVE doms[i].dates \in Seq(Rules!Dates)
    OBVIOUS
  <2>1. doms[i] \in DomainType
    BY <1>1, <1>2
  <2> QED
    BY <2>1 DEF DomainType
<1>4. w \in [1 .. n -> Nat]
  BY <1>3
<1>5. PICK i \in 1 .. n : /\ \A j \in 1 .. n : w[i] <= w[j]
                          /\ \A j \in 1 .. (i - 1) : j \in 1 .. n => w[i] < w[j]
  <2>1. 1 .. n \in SUBSET (1 .. n) /\ 1 .. n # {}
    BY <1>2
  <2> HIDE DEF w
  <2> QED
    BY <1>2, <1>4, <2>1, HasFirstLightest
<1>6. /\ i \in DOMAIN doms
      /\ \A j \in DOMAIN doms : Len(doms[i].dates) <= Len(doms[j].dates)
      /\ \A j \in 1 .. (i - 1) : Len(doms[i].dates) < Len(doms[j].dates)
  <2>1. \A j \in 1 .. (i - 1) : j \in 1 .. n
    BY <1>2
  <2> QED
    BY <1>2, <1>5, <2>1
<1> QED
  BY <1>6 DEF select_most_constrained


-----------------------------------------------------------------------------
(* The inductive invariant.  Its parts take what the steps change as        *)
(* arguments; what they read besides is the request, which stays.           *)

\* The loop of a call of _backtrack over the dates of its slot.
FrameType == [slot : Numbers, dates : Seq(Rules!Dates), rest : Domains,
              placed : Rules!Dates \cup {NotPlaced}]

\* Every slot is among the first n placed or among the others.
Covered(s, n, others) == Numbers \subseteq {s.assignments[i].slot : i \in 1 .. n} \cup others
SlotsIn(doms) == {doms[i].slot : i \in DOMAIN doms}

\* How many exams were placed when frame k chose its slot: every frame below
\* the top has placed one since, and the top may have.
Standing(frame) == IF frame.placed = NotPlaced THEN 0 ELSE 1
Base(n, st, k) == n + k - Len(st) - Standing(st[Len(st)])

\* A frame that chose its slot when b exams were placed, in a search to depth t.
FrameInv(frame, s, b, t) ==
    /\ b \in Nat /\ b < t
    /\ Len(frame.rest) = Len(slots) - b - 1
    /\ Covered(s, b, {frame.slot} \cup SlotsIn(frame.rest))
    /\ Free(frame, s, b)
    /\ frame.placed # NotPlaced =>
          /\ s.assignments[b + 1] = [slot |-> frame.slot, date |-> frame.placed]
          /\ \A i \in 1 .. b :
                Course(s.assignments[i]) = Course(frame) => s.assignments[i].date # frame.placed

StackInv(s, st, t) ==
    \A k \in DOMAIN st :
        /\ FrameInv(st[k], s, Base(Len(s.assignments), st, k), t)
        /\ k < Len(st) => st[k].placed # NotPlaced

\* A call of _backtrack that is entered.
CallInv(s, doms, st, t) ==
    /\ Len(s.assignments) <= t
    /\ Len(doms) = Len(slots) - Len(s.assignments)
    /\ Covered(s, Len(s.assignments), SlotsIn(doms))
    /\ \A i \in DOMAIN doms : Free(doms[i], s, Len(s.assignments))
    /\ st # <<>> => st[Len(st)].placed # NotPlaced

\* _backtrack, below a unit of the partition or of a worker, down to t exams.
BacktrackInv(s, doms, st, call, t) ==
    /\ s \in Schedules /\ doms \in Domains /\ st \in Seq(FrameType) /\ call \in BOOLEAN
    /\ t \in 0 .. Len(slots)
    /\ Indexed(s) /\ StackInv(s, st, t)
    /\ call => CallInv(s, doms, st, t)

\* The cache is of an older schedule, of an older version, or of what is there.
CacheInv(c, s) ==
    /\ c.id \in Int /\ c.version \in Int
    /\ \/ c.id < s.id
       \/ c.id = s.id /\ c.version < s.version
       \/ c.id = s.id /\ c.version = s.version /\ c.counts = Rules!ElectiveCounts(s)

\* Work units: a date for each of the first slots, no more of them than the depth limit.
Units == {u \in Seq(Rules!Dates) : Len(u) \in 1 .. input.limits.maxDepth /\ Len(u) <= Len(slots)}

\* The phases of a request, its units and the searches that may be under way.
PartitionInv(ph, units, children, at, took, st, call, t) ==
    /\ ph \in {"validate", "invalid", "infeasible", "choose", "split", "search", "done"}
    /\ units \in Seq(Units) /\ children \in Seq(Units)
    /\ at \in Nat /\ took \in 0 .. Len(units)
    /\ ph \notin {"search", "done"} => took = 0
    /\ ph = "split" => t \in 1 .. input.limits.maxDepth /\ at \in 1 .. Len(units) + 1
    /\ ph \notin {"split", "search"} \/ (ph = "search" /\ took = 0) => ~call /\ st = <<>>
    /\ ph = "search" /\ took # 0 => t = Len(slots)

\* What undo needs of the state of the scorer.
ScoreInv(st, n) == \E E : st.stack \in Seq(E) /\ Len(st.stack) = n

\* What the searches have counted and reported.
OutputInv(n, stop, full, seen) ==
    /\ n \in Nat /\ stop \in BOOLEAN /\ full \in BOOLEAN
    /\ seen \in Seq([Numbers -> Rules!Dates])

\* The inductive invariant.
SearchInv ==
    /\ RequestInv
    /\ BacktrackInv(schedule, domains, stack, calling, depth)
    /\ CacheInv(cache, schedule)
    /\ PartitionInv(phase, frontier, collected, splitting, taken, stack, calling, depth)
    /\ OutputInv(found, cancelled, limited, reported)
    /\ phase = "search" /\ taken > 0 => ScoreInv(scores, Len(schedule.assignments))

\* The invariant is about the request as it is after the step, which is what it was.
LEMMA NumbersStay ==
    ASSUME UNCHANGED requestVars
    PROVE /\ Numbers' = Numbers /\ (Rules!Dates)' = Rules!Dates /\ (Rules!Courses)' = Rules!Courses
          /\ Assignments' = Assignments /\ Domains' = Domains
          /\ Schedules' = Schedules /\ FrameType' = FrameType /\ Units' = Units
          /\ Len(slots)' = Len(slots) /\ input' = input
<1>1. slots' = slots /\ entries' = entries /\ input' = input
  BY DEF requestVars
<1>2. Numbers' = Numbers /\ (Rules!Dates)' = Rules!Dates /\ (Rules!Courses)' = Rules!Courses
  BY <1>1 DEF Numbers, Rules!Dates, Rules!Courses
<1>3. Assignments' = Assignments /\ Domains' = Domains
  BY <1>2 DEF Assignments, Domains
<1>4. Schedules' = Schedules
  BY <1>2, <1>3 DEF Schedules
<1>5. FrameType' = FrameType
  BY <1>2, <1>3 DEF FrameType, NotPlaced
<1>6. Units' = Units
  BY <1>1, <1>2 DEF Units
<1> QED
  BY <1>1, <1>2, <1>3, <1>4, <1>5, <1>6

LEMMA IndexedStays ==
    ASSUME UNCHANGED requestVars, NEW s, Indexed(s)
    PROVE Indexed(s)'
<1>1. slots' = slots
  BY DEF requestVars
<1>2. (Rules!Dates)' = Rules!Dates /\ (Rules!Courses)' = Rules!Courses
  BY NumbersStay
<1> QED
  BY <1>1, <1>2 DEF Indexed, InOrderOfPlacing, Positions, Course

LEMMA BacktrackStays ==
    ASSUME UNCHANGED requestVars, NEW s, NEW doms, NEW st, NEW call, NEW t,
           BacktrackInv(s, doms, st, call, t)
    PROVE BacktrackInv(s, doms, st, call, t)'
<1>1. slots' = slots /\ Numbers' = Numbers
  BY NumbersStay DEF requestVars
<1>2. StackInv(s, st, t)' = StackInv(s, st, t)
  BY <1>1 DEF StackInv, FrameInv, Base, Standing, NotPlaced, Free, Covered, SlotsIn, Course
<1>3. CallInv(s, doms, st, t)' = CallInv(s, doms, st, t)
  BY <1>1 DEF CallInv, NotPlaced, Free, Covered, SlotsIn, Course
<1> QED
  BY <1>1, <1>2, <1>3, NumbersStay, IndexedStays DEF BacktrackInv

LEMMA CacheStays ==
    ASSUME UNCHANGED requestVars, NEW c, NEW s, CacheInv(c, s)
    PROVE CacheInv(c, s)'
<1>1. slots' = slots /\ entries' = entries /\ (Rules!Dates)' = Rules!Dates
  BY NumbersStay DEF requestVars
<1>2. Rules!ElectiveCounts(s)' = Rules!ElectiveCounts(s)
  BY <1>1 DEF Rules!ElectiveCounts, Rules!Programs, Rules!ElectivePrograms, Rules!CohortsWith,
              Rules!Course, Rules!Range
<1> QED
  BY <1>2 DEF CacheInv

LEMMA PartitionStays ==
    ASSUME UNCHANGED requestVars, NEW ph, NEW units, NEW children, NEW at, NEW took, NEW st,
           NEW call, NEW t, PartitionInv(ph, units, children, at, took, st, call, t)
    PROVE PartitionInv(ph, units, children, at, took, st, call, t)'
BY NumbersStay DEF PartitionInv

LEMMA OutputStays ==
    ASSUME UNCHANGED requestVars, NEW n, NEW stop, NEW full, NEW seen, OutputInv(n, stop, full, seen)
    PROVE OutputInv(n, stop, full, seen)'
BY NumbersStay DEF OutputInv

\* So a step keeps the invariant when what it changes fits the request as it was.
LEMMA InvariantAfter ==
    ASSUME SearchInv, UNCHANGED requestVars,
           BacktrackInv(schedule', domains', stack', calling', depth'),
           CacheInv(cache', schedule'),
           PartitionInv(phase', frontier', collected', splitting', taken', stack', calling', depth'),
           OutputInv(found', cancelled', limited', reported'),
           phase' = "search" /\ taken' > 0 => ScoreInv(scores', Len(schedule'.assignments))
    PROVE SearchInv'
<1>1. RequestInv'
  BY DEF SearchInv, RequestInv, requestVars, SlotType, EntriesOf
<1>2. BacktrackInv(schedule, domains, stack, calling, depth)'
  <2>1. PICK s, doms, st, call, t : s = schedule' /\ doms = domains' /\ st = stack' /\ call = calling' /\ t = depth'
    OBVIOUS
  <2>2. BacktrackInv(s, doms, st, call, t)'
    BY <2>1, BacktrackStays
  <2> QED
    BY <2>1, <2>2
<1>3. CacheInv(cache, schedule)'
  <2>1. PICK c, s : c = cache' /\ s = schedule'
    OBVIOUS
  <2>2. CacheInv(c, s)'
    BY <2>1, CacheStays
  <2> QED
    BY <2>1, <2>2
<1>4. PartitionInv(phase, frontier, collected, splitting, taken, stack, calling, depth)'
  <2>1. PICK ph, units, children, at, took, st, call, t :
            /\ ph = phase' /\ units = frontier' /\ children = collected' /\ at = splitting'
            /\ took = taken' /\ st = stack' /\ call = calling' /\ t = depth'
    OBVIOUS
  <2>2. PartitionInv(ph, units, children, at, took, st, call, t)'
    BY <2>1, PartitionStays
  <2> QED
    BY <2>1, <2>2
<1>5. OutputInv(found, cancelled, limited, reported)'
  <2>1. PICK n, stop, full, seen : n = found' /\ stop = cancelled' /\ full = limited' /\ seen = reported'
    OBVIOUS
  <2>2. OutputInv(n, stop, full, seen)'
    BY <2>1, OutputStays
  <2> QED
    BY <2>1, <2>2
<1>6. (phase = "search" /\ taken > 0 => ScoreInv(scores, Len(schedule.assignments)))'
  BY DEF ScoreInv
<1> QED
  BY <1>1, <1>2, <1>3, <1>4, <1>5, <1>6 DEF SearchInv

-----------------------------------------------------------------------------
(* The beginning of a search *)

LEMMA NewScheduleIsIndexed ==
    ASSUME RequestInv, NEW id \in Nat
    PROVE /\ NewSchedule(id) \in Schedules /\ Indexed(NewSchedule(id))
          /\ NewSchedule(id).id = id /\ NewSchedule(id).assignments = <<>>
<1>1. PICK s : s = NewSchedule(id)
  OBVIOUS
<1>2. /\ s.id = id /\ s.assignments = <<>> /\ s.version = 0
      /\ s.onDate = [d \in Rules!Dates |-> {}] /\ s.ofCourse = [c \in Rules!Courses |-> <<>>]
  BY <1>1 DEF NewSchedule
<1>3. s \in Schedules
  BY <1>1 DEF NewSchedule, Schedules
<1>4. \A d \in Rules!Dates : s.onDate[d] = {Course(a) : a \in {b \in ToSet(s.assignments) : b.date = d}}
  <2>1. ToSet(s.assignments) = {}
    BY <1>2 DEF ToSet
  <2> QED
    BY <1>2, <2>1
<1>5. ASSUME NEW c \in Rules!Courses
      PROVE InOrderOfPlacing(s, c)
  <2>1. s.ofCourse[c] = <<>> /\ Positions(s, c) = {}
    BY <1>2 DEF Positions
  <2> DEFINE at == [i \in {} |-> 0]
  <2>2. at \in [DOMAIN s.ofCourse[c] -> Positions(s, c)] /\ DOMAIN at = {} /\ Range(at) = {}
    BY <2>1 DEF Range
  <2> HIDE DEF at
  <2> QED
    BY <2>1, <2>2 DEF InOrderOfPlacing
<1> QED
  BY <1>1, <1>2, <1>3, <1>4, <1>5 DEF Indexed

\* What the cache holds after forward checking with a schedule that it does not know.
LEMMA CacheAfterIsFresh ==
    ASSUME NEW s \in Schedules, NEW doms,
           cache.id \in Int, cache.version \in Int,
           cache.id < s.id \/ (cache.id = s.id /\ cache.version < s.version)
    PROVE CacheInv(CacheAfter(doms, s), s)
<1>1. s.id \in Nat /\ s.version \in Nat
  BY DEF Schedules
<1>2. ~Hit(s)
  BY <1>1 DEF Hit
<1>3. Served(s) = Rules!ElectiveCounts(s)
  BY <1>2 DEF Served
<1>4. CASE AsksElective(doms, s)
  <2>1. CacheAfter(doms, s) = [id |-> s.id, version |-> s.version, counts |-> Rules!ElectiveCounts(s)]
    BY <1>3, <1>4 DEF CacheAfter
  <2> QED
    BY <1>1, <2>1 DEF CacheInv
<1>5. CASE ~AsksElective(doms, s)
  <2>1. CacheAfter(doms, s) = cache
    BY <1>5 DEF CacheAfter
  <2> QED
    BY <2>1 DEF CacheInv
<1> QED
  BY <1>4, <1>5

\* The seeds of a unit and the slots that are left.
LEMMA SeedsAndRest ==
    ASSUME RequestInv, NEW unit \in Seq(Rules!Dates), Len(unit) <= Len(slots)
    PROVE LET rest == [i \in DOMAIN RemainingSlots(unit) |->
                          [slot |-> RemainingSlots(unit)[i], dates |-> slots[RemainingSlots(unit)[i]].dates]]
          IN /\ SeedAssignments(unit) \in Seq(Assignments)
             /\ Len(SeedAssignments(unit)) = Len(unit)
             /\ \A i \in 1 .. Len(unit) : SeedAssignments(unit)[i].slot = i
             /\ rest \in Domains /\ Len(rest) = Len(slots) - Len(unit)
             /\ \A i \in 1 .. Len(slots) - Len(unit) : rest[i].slot = Len(unit) + i
<1>1. PICK n, m : n = Len(unit) /\ m = Len(slots)
  OBVIOUS
<1>2. /\ n \in Nat /\ m \in Nat /\ n <= m /\ Numbers = 1 .. m /\ DOMAIN unit = 1 .. n
      /\ \A i \in 1 .. n : unit[i] \in Rules!Dates
      /\ \A i \in 1 .. m : slots[i].dates \in Seq(Rules!Dates)
  BY <1>1, RequestFacts
<1>3. SeedAssignments(unit) = [i \in 1 .. n |-> [slot |-> i, date |-> unit[i]]]
  BY <1>2 DEF SeedAssignments
<1>4. \A i \in 1 .. n : [slot |-> i, date |-> unit[i]] \in Assignments
  BY <1>2 DEF Assignments
<1>5. PICK seeds : seeds = SeedAssignments(unit)
  OBVIOUS
<1>6. seeds \in Seq(Assignments) /\ Len(seeds) = n /\ \A i \in 1 .. n : seeds[i].slot = i
  <2> HIDE DEF Assignments
  <2> QED
    BY <1>2, <1>3, <1>4, <1>5
<1>7. RemainingSlots(unit) = [i \in 1 .. m - n |-> n + i]
  BY <1>1 DEF RemainingSlots
<1>8. PICK rest : rest = [i \in 1 .. m - n |-> [slot |-> n + i, dates |-> slots[n + i].dates]]
  OBVIOUS
<1>9. rest = [i \in DOMAIN RemainingSlots(unit) |->
                 [slot |-> RemainingSlots(unit)[i], dates |-> slots[RemainingSlots(unit)[i]].dates]]
  BY <1>7, <1>8
<1>10. \A i \in 1 .. m - n : [slot |-> n + i, dates |-> slots[n + i].dates] \in DomainType
  <2> SUFFICES ASSUME NEW i \in 1 .. m - n
               PROVE [slot |-> n + i, dates |-> slots[n + i].dates] \in DomainType
    OBVIOUS
  <2>1. n + i \in 1 .. m
    BY <1>2
  <2> QED
    BY <1>2, <2>1 DEF DomainType
<1>11. rest \in Seq(DomainType) /\ Len(rest) = m - n
  <2>1. PICK k \in Nat : k = m - n
    BY <1>2
  <2>2. rest \in [1 .. k -> DomainType]
    BY <1>8, <1>10, <2>1
  <2> QED
    BY <2>1, <2>2
<1>12. \A i \in 1 .. m - n : rest[i].slot = n + i
  BY <1>8
<1> QED
  BY <1>1, <1>5, <1>6, <1>9, <1>11, <1>12, DomainsAreTyped

\* What generateSchedules leaves: the seeds are placed and every other slot has a domain.
LEMMA SearchBegins ==
    ASSUME SearchInv, NEW unit \in Seq(Rules!Dates), Len(unit) <= Len(slots),
           NEW t \in 0 .. Len(slots), Len(unit) <= t, generateSchedules(unit, t)
    PROVE /\ BacktrackInv(schedule', domains', stack', calling', depth')
          /\ CacheInv(cache', schedule')
          /\ schedule'.id = schedule.id + 1 /\ schedule'.assignments \in Seq(Assignments)
          /\ schedule' = FoldLeft(addAssignment, NewSchedule(schedule.id + 1), SeedAssignments(unit))
          /\ depth' = t /\ found' = 0
<1>1. RequestInv /\ schedule \in Schedules /\ CacheInv(cache, schedule)
  BY DEF SearchInv, BacktrackInv
<1>2. PICK m, n : m = Len(slots) /\ n = Len(unit)
  OBVIOUS
<1>3. m \in Nat /\ n \in Nat /\ n <= m /\ t \in 0 .. m /\ n <= t /\ Numbers = 1 .. m
  BY <1>1, <1>2, RequestFacts
<1>4. PICK seeds : seeds = SeedAssignments(unit)
  OBVIOUS
<1>5. PICK all : all = [i \in DOMAIN RemainingSlots(unit) |->
                   [slot |-> RemainingSlots(unit)[i], dates |-> slots[RemainingSlots(unit)[i]].dates]]
  OBVIOUS
<1>6. /\ seeds \in Seq(Assignments) /\ Len(seeds) = n /\ \A i \in 1 .. n : seeds[i].slot = i
      /\ all \in Domains /\ Len(all) = m - n /\ \A i \in 1 .. m - n : all[i].slot = n + i
  BY <1>1, <1>2, <1>4, <1>5, SeedsAndRest
<1>7. PICK s : s = FoldLeft(addAssignment, NewSchedule(schedule.id + 1), seeds)
  OBVIOUS
<1>8. s \in Schedules /\ Indexed(s) /\ s.id = schedule.id + 1 /\ s.assignments = seeds
  <2>1. schedule.id + 1 \in Nat
    BY <1>1 DEF Schedules
  <2>2. PICK base : base = NewSchedule(schedule.id + 1)
    OBVIOUS
  <2>3. /\ base \in Schedules /\ Indexed(base) /\ base.assignments = <<>> /\ base.id = schedule.id + 1
    BY <1>1, <2>1, <2>2, NewScheduleIsIndexed
  <2> QED
    BY <1>1, <1>6, <1>7, <2>2, <2>3, SeedsArePlaced
<1>9. PICK doms : doms = Narrow(all, s)
  OBVIOUS
<1>10. /\ doms \in Domains /\ Len(doms) = m - n
       /\ \A i \in DOMAIN all : doms[i].slot = all[i].slot /\ Free(doms[i], s, Len(s.assignments))
  BY <1>1, <1>6, <1>8, <1>9, NarrowIsFree
<1>11. /\ schedule' = s /\ depth' = t /\ domains' = doms /\ stack' = <<>> /\ found' = 0
       /\ calling' \in BOOLEAN
       /\ cache' \in {cache, CacheAfter(all, s)}
  BY <1>4, <1>5, <1>7, <1>9 DEF generateSchedules
<1>12. DOMAIN all = 1 .. m - n /\ DOMAIN doms = 1 .. m - n
  BY <1>6, <1>10 DEF Domains
<1>13. CallInv(s, doms, <<>>, t)
  <2>1. Covered(s, n, SlotsIn(doms))
    <3> SUFFICES ASSUME NEW i \in 1 .. m, i \notin SlotsIn(doms)
                 PROVE i \in {s.assignments[j].slot : j \in 1 .. n}
      BY <1>3 DEF Covered
    <3>1. CASE i \in 1 .. n
      BY <1>6, <1>8, <3>1
    <3>2. CASE i \notin 1 .. n
      <4>1. PICK j \in 1 .. m - n : i = n + j
        <5>1. i - n \in 1 .. m - n /\ i = n + (i - n)
          BY <1>3, <3>2
        <5> QED
          BY <5>1
      <4>2. doms[j].slot = i
        BY <1>6, <1>10, <1>12, <4>1
      <4> QED
        BY <1>12, <4>2 DEF SlotsIn
    <3> QED
      BY <3>1, <3>2
  <2> QED
    BY <1>2, <1>3, <1>6, <1>8, <1>10, <1>12, <2>1 DEF CallInv
<1>14. BacktrackInv(s, doms, <<>>, calling', t)
  BY <1>2, <1>3, <1>8, <1>10, <1>11, <1>13 DEF BacktrackInv, StackInv
<1>15. CacheInv(cache', s)
  <2>1. /\ cache.id \in Int /\ cache.version \in Int
        /\ cache.id < s.id
    <3>1. cache.id \in Int /\ cache.version \in Int /\ cache.id <= schedule.id /\ schedule.id \in Nat
      <4>1. schedule.id \in Nat /\ cache.id \in Int
        BY <1>1 DEF CacheInv, Schedules
      <4> QED
        BY <1>1, <4>1 DEF CacheInv
    <3> QED
      BY <1>8, <3>1
  <2>2. CacheInv(cache, s)
    BY <2>1 DEF CacheInv
  <2>3. CacheInv(CacheAfter(all, s), s)
    BY <1>8, <2>1, CacheAfterIsFresh
  <2> QED
    BY <1>11, <2>2, <2>3
<1>16. s.assignments \in Seq(Assignments)
  BY <1>6, <1>8
<1> QED
  BY <1>4, <1>7, <1>8, <1>11, <1>14, <1>15, <1>16

-----------------------------------------------------------------------------
(* The steps of _backtrack *)

\* What is known of the frames.
LEMMA FrameFacts ==
    ASSUME NEW s, NEW doms, NEW st, NEW call, NEW t, RequestInv,
           BacktrackInv(s, doms, st, call, t), st # <<>>
    PROVE LET top == st[Len(st)]
          IN /\ Len(st) \in Nat \ {0} /\ Len(st) \in DOMAIN st /\ DOMAIN st = 1 .. Len(st)
             /\ Len(s.assignments) \in Nat
             /\ \A k \in DOMAIN st : /\ st[k].slot \in Numbers /\ st[k].dates \in Seq(Rules!Dates)
                                     /\ st[k].rest \in Domains
                                     /\ st[k].placed \in Rules!Dates \cup {NotPlaced}
             /\ FrameInv(top, s, Len(s.assignments) - Standing(top), t)
             /\ \A k \in DOMAIN st : /\ FrameInv(st[k], s, Base(Len(s.assignments), st, k), t)
                                     /\ k < Len(st) => st[k].placed # NotPlaced
<1>1. PICK n, m : n = Len(st) /\ m = Len(s.assignments)
  OBVIOUS
<1>2. n \in Nat \ {0} /\ n \in DOMAIN st /\ DOMAIN st = 1 .. n
  BY <1>1 DEF BacktrackInv
<1>3. m \in Nat
  BY <1>1 DEF BacktrackInv, Schedules
<1>4. ASSUME NEW k \in DOMAIN st
      PROVE /\ st[k].slot \in Numbers /\ st[k].dates \in Seq(Rules!Dates) /\ st[k].rest \in Domains
            /\ st[k].placed \in Rules!Dates \cup {NotPlaced}
  <2>1. st[k] \in FrameType
    BY DEF BacktrackInv
  <2> QED
    BY <2>1 DEF FrameType
<1>5. \A k \in DOMAIN st : /\ FrameInv(st[k], s, Base(m, st, k), t)
                           /\ k < n => st[k].placed # NotPlaced
  BY <1>1 DEF BacktrackInv, StackInv
<1>6. FrameInv(st[n], s, m - Standing(st[n]), t)
  <2>1. Base(m, st, n) = m - Standing(st[n])
    <3>1. Standing(st[n]) \in {0, 1}
      BY DEF Standing
    <3> QED
      BY <1>1, <1>2, <1>3, <3>1 DEF Base
  <2> QED
    BY <1>2, <1>5, <2>1
<1> QED
  BY <1>1, <1>2, <1>3, <1>4, <1>5, <1>6

\* A frame stands as long as the exams below it do, and its own if it has placed one.
LEMMA FrameStands ==
    ASSUME NEW f, NEW s, NEW r, NEW b, NEW t, FrameInv(f, s, b, t), NEW n \in Nat,
           \A i \in 1 .. n : r.assignments[i] = s.assignments[i],
           b + Standing(f) <= n
    PROVE FrameInv(f, r, b, t)
<1>1. b \in Nat /\ b <= n /\ 1 .. b \subseteq 1 .. n
  BY DEF FrameInv, Standing
<1>2. \A i \in 1 .. b : r.assignments[i] = s.assignments[i]
  BY <1>1
<1>3. f.placed # NotPlaced => r.assignments[b + 1] = s.assignments[b + 1]
  BY <1>1 DEF Standing
<1>4. Covered(r, b, {f.slot} \cup SlotsIn(f.rest))
  BY <1>2 DEF FrameInv, Covered
<1>5. Free(f, r, b)
  BY <1>2 DEF FrameInv, Free
<1>6. ASSUME f.placed # NotPlaced
      PROVE /\ r.assignments[b + 1] = [slot |-> f.slot, date |-> f.placed]
            /\ \A i \in 1 .. b :
                  Course(r.assignments[i]) = Course(f) => r.assignments[i].date # f.placed
  BY <1>2, <1>3, <1>6 DEF FrameInv
<1> QED
  BY <1>4, <1>5, <1>6 DEF FrameInv

\* A call stops at its entry, or reports what it found.
LEMMA CallReturns ==
    ASSUME SearchInv, calling' = FALSE, UNCHANGED <<schedule, domains, stack, depth, cache>>
    PROVE /\ BacktrackInv(schedule', domains', stack', calling', depth')
          /\ CacheInv(cache', schedule')
BY DEF SearchInv, BacktrackInv

\* Without a domain of the sequence.
LEMMA RemovedDomain ==
    ASSUME NEW doms \in Domains, NEW c \in DOMAIN doms
    PROVE /\ RemoveAt(doms, c) \in Domains /\ Len(RemoveAt(doms, c)) = Len(doms) - 1
          /\ SlotsIn(doms) \subseteq {doms[c].slot} \cup SlotsIn(RemoveAt(doms, c))
<1>1. doms \in Seq(DomainType)
  BY DomainsAreTyped
<1>2. PICK n, r : n = Len(doms) /\ r = RemoveAt(doms, c)
  OBVIOUS
<1>3. n \in Nat /\ DOMAIN doms = 1 .. n /\ c \in 1 .. n
  BY <1>1, <1>2
<1>4. /\ r \in Seq(DomainType) /\ Len(r) = n - 1
      /\ \A i \in 1 .. n - 1 : r[i] = IF i < c THEN doms[i] ELSE doms[i + 1]
  <2>1. PICK a, b : a = SubSeq(doms, 1, c - 1) /\ b = SubSeq(doms, c + 1, n)
    OBVIOUS
  <2>2. a \in Seq(DomainType) /\ Len(a) = c - 1 /\ \A i \in 1 .. c - 1 : a[i] = doms[i]
    BY <1>1, <1>3, <2>1
  <2>3. b \in Seq(DomainType) /\ Len(b) = n - c
    BY <1>1, <1>3, <2>1
  <2>4. ASSUME NEW i \in 1 .. n - c
        PROVE b[i] = doms[c + i]
    BY <1>1, <1>3, <2>1
  <2>5. r = a \o b
    BY <1>2, <2>1 DEF RemoveAt
  <2>6. r \in Seq(DomainType) /\ Len(r) = n - 1
    <3>1. r \in Seq(DomainType) /\ Len(r) = Len(a) + Len(b)
      BY <2>2, <2>3, <2>5, ConcatProperties
    <3>2. (c - 1) + (n - c) = n - 1
      BY <1>3
    <3> QED
      BY <2>2, <2>3, <3>1, <3>2
  <2>7. ASSUME NEW i \in 1 .. n - 1
        PROVE r[i] = IF i < c THEN doms[i] ELSE doms[i + 1]
    <3>1. CASE i < c
      <4>1. i \in 1 .. c - 1
        BY <1>3, <3>1
      <4>2. r[i] = a[i]
        BY <1>3, <2>2, <2>3, <2>5, <4>1
      <4> QED
        BY <2>2, <3>1, <4>1, <4>2
    <3>2. CASE ~(i < c)
      <4>1. i - (c - 1) \in 1 .. n - c /\ c + (i - (c - 1)) = i + 1
        BY <1>3, <3>2
      <4>2. r[i] = b[i - (c - 1)]
        BY <1>3, <2>2, <2>3, <2>5, <2>7, <3>2
      <4> QED
        BY <2>4, <3>2, <4>1, <4>2
    <3> QED
      BY <3>1, <3>2
  <2> QED
    BY <2>6, <2>7
<1>6. ASSUME NEW j \in 1 .. n, j # c
      PROVE \E i \in 1 .. n - 1 : r[i] = doms[j]
  <2>1. CASE j < c
    <3>1. j \in 1 .. n - 1
      BY <1>3, <2>1
    <3> QED
      BY <1>4, <2>1, <3>1
  <2>2. CASE j > c
    <3>1. j - 1 \in 1 .. n - 1 /\ ~(j - 1 < c) /\ (j - 1) + 1 = j
      BY <1>3, <2>2
    <3> QED
      BY <1>4, <3>1
  <2> QED
    BY <1>3, <1>6, <2>1, <2>2
<1>7. DOMAIN r = 1 .. n - 1
  BY <1>3, <1>4
<1>8. SlotsIn(doms) \subseteq {doms[c].slot} \cup SlotsIn(r)
  BY <1>3, <1>6, <1>7 DEF SlotsIn
<1> QED
  BY <1>2, <1>4, <1>8, DomainsAreTyped

LEMMA ChooseSlotKeeps ==
    ASSUME SearchInv, ChooseSlot
    PROVE /\ BacktrackInv(schedule', domains', stack', calling', depth')
          /\ CacheInv(cache', schedule')
<1>1. PICK s, doms, st, t : s = schedule /\ doms = domains /\ st = stack /\ t = depth
  OBVIOUS
<1>2. RequestInv /\ BacktrackInv(s, doms, st, TRUE, t) /\ CallInv(s, doms, st, t) /\ CacheInv(cache, s)
  BY <1>1 DEF SearchInv, BacktrackInv, ChooseSlot
<1>3. PICK n : n = Len(s.assignments) /\ n \in Nat
  <2>1. Len(s.assignments) \in Nat
    BY <1>2 DEF BacktrackInv, Schedules
  <2> QED
    BY <2>1
<1>4. n < t /\ t <= Len(slots) /\ Len(slots) \in Nat /\ t \in Nat
  <2>1. n <= t /\ n # t
    BY <1>1, <1>2, <1>3 DEF CallInv, ChooseSlot
  <2>2. t \in 0 .. Len(slots) /\ Len(slots) \in Nat
    BY <1>2, RequestFacts DEF BacktrackInv
  <2> QED
    BY <1>3, <2>1, <2>2
<1>5. doms \in Domains /\ doms \in Seq(DomainType) /\ Len(doms) = Len(slots) - n /\ doms # <<>>
  <2>1. doms \in Domains /\ Len(doms) = Len(slots) - n
    BY <1>2, <1>3 DEF BacktrackInv, CallInv
  <2>2. doms # <<>>
    BY <1>3, <1>4, <2>1
  <2> QED
    BY <2>1, <2>2, DomainsAreTyped
<1>6. PICK c : c = ChosenIndex /\ c \in DOMAIN doms
  <2>1. select_most_constrained(doms) \in DOMAIN doms
    BY <1>5, MostConstrainedIsDomain
  <2>2. 1 \in DOMAIN doms
    BY <1>5
  <2>3. ChosenIndex \in DOMAIN doms
    BY <1>1, <2>1, <2>2 DEF ChosenIndex
  <2> QED
    BY <2>3
<1>7. PICK rest : rest = RemoveAt(doms, c)
  OBVIOUS
<1>8. /\ rest \in Domains /\ Len(rest) = Len(slots) - n - 1
      /\ SlotsIn(doms) \subseteq {doms[c].slot} \cup SlotsIn(rest)
  <2>1. Len(rest) = Len(doms) - 1
    BY <1>5, <1>6, <1>7, RemovedDomain
  <2> QED
    BY <1>3, <1>4, <1>5, <1>6, <1>7, <2>1, RemovedDomain
<1>9. PICK f : f = [slot |-> doms[c].slot, dates |-> doms[c].dates, rest |-> rest, placed |-> NotPlaced]
  OBVIOUS
<1>10. doms[c].slot \in Numbers /\ doms[c].dates \in Seq(Rules!Dates)
  <2>1. doms[c] \in DomainType
    BY <1>5, <1>6
  <2> QED
    BY <2>1 DEF DomainType
<1>11. f \in FrameType /\ f.slot = doms[c].slot /\ f.dates = doms[c].dates /\ f.rest = rest /\ f.placed = NotPlaced
  BY <1>8, <1>9, <1>10 DEF FrameType
<1>12. schedule' = s /\ domains' = doms /\ calling' = FALSE /\ stack' = Append(st, f) /\ depth' = t /\ cache' = cache
  BY <1>1, <1>6, <1>7, <1>9 DEF ChooseSlot, otherVars
<1>13. FrameInv(f, s, n, t)
  <2>1. Covered(s, n, {f.slot} \cup SlotsIn(f.rest))
    BY <1>2, <1>3, <1>8, <1>11 DEF CallInv, Covered
  <2>2. Free(f, s, n)
    <3>1. Free(doms[c], s, n)
      BY <1>2, <1>3, <1>6 DEF CallInv
    <3> QED
      BY <1>11, <3>1 DEF Free, Course
  <2> QED
    BY <1>3, <1>4, <1>8, <1>11, <2>1, <2>2 DEF FrameInv
<1>14. PICK new : new = Append(st, f)
  OBVIOUS
<1>15. /\ new \in Seq(FrameType) /\ Len(st) \in Nat /\ Len(new) = Len(st) + 1
       /\ DOMAIN new = 1 .. Len(st) + 1 /\ new[Len(st) + 1] = f
       /\ \A k \in 1 .. Len(st) : new[k] = st[k]
  BY <1>2, <1>11, <1>14 DEF BacktrackInv
<1>16. StackInv(s, new, t)
  <2>1. Standing(f) = 0
    BY <1>11 DEF Standing
  <2>2. ASSUME NEW k \in 1 .. Len(st) + 1
        PROVE /\ FrameInv(new[k], s, Base(n, new, k), t)
              /\ k < Len(st) + 1 => new[k].placed # NotPlaced
    <3>1. Base(n, new, k) = n + k - (Len(st) + 1)
      BY <1>3, <1>15, <2>1 DEF Base
    <3>2. CASE k = Len(st) + 1
      <4>1. Base(n, new, k) = n
        BY <1>3, <1>15, <3>1, <3>2
      <4> QED
        BY <1>13, <1>15, <3>2, <4>1
    <3>3. CASE k # Len(st) + 1
      <4>1. k \in 1 .. Len(st) /\ st # <<>>
        BY <1>15, <3>3
      <4>2. st[Len(st)].placed # NotPlaced
        BY <1>2, <4>1 DEF CallInv
      <4>3. Base(n, st, k) = n + k - (Len(st) + 1)
        BY <1>3, <1>15, <4>1, <4>2 DEF Base, Standing
      <4>4. FrameInv(st[k], s, Base(n, st, k), t) /\ (k < Len(st) => st[k].placed # NotPlaced)
        BY <1>2, <1>3, <4>1, FrameFacts
      <4>5. st[k].placed # NotPlaced
        BY <1>15, <4>1, <4>2, <4>4
      <4> QED
        BY <1>15, <3>1, <4>1, <4>3, <4>4, <4>5
    <3> QED
      BY <3>2, <3>3
  <2> QED
    BY <1>3, <1>15, <2>2 DEF StackInv
<1>17. BacktrackInv(s, doms, new, FALSE, t)
  BY <1>2, <1>15, <1>16 DEF BacktrackInv
<1> QED
  BY <1>2, <1>12, <1>14, <1>17

\* The date that is tried is placed; the frame below it and those under it stand.
LEMMA TryDateKeeps ==
    ASSUME SearchInv, TryDate
    PROVE /\ BacktrackInv(schedule', domains', stack', calling', depth')
          /\ CacheInv(cache', schedule')
          /\ schedule'.id = schedule.id
          /\ schedule'.assignments = Append(schedule.assignments, Last(schedule'.assignments))
          /\ Last(schedule'.assignments) = [slot |-> Top.slot, date |-> Head(Top.dates)]
<1>1. PICK s, st, t, top : s = schedule /\ st = stack /\ t = depth /\ top = Top
  OBVIOUS
<1>2. /\ RequestInv /\ BacktrackInv(s, domains, st, calling, t) /\ CacheInv(cache, s)
      /\ st # <<>> /\ top = st[Len(st)] /\ top.placed = NotPlaced /\ top.dates # <<>>
  BY <1>1 DEF SearchInv, TryDate, InLoop, Top
<1>3. PICK n, l : n = Len(s.assignments) /\ l = Len(st)
  OBVIOUS
<1>4. /\ l \in Nat \ {0} /\ l \in DOMAIN st /\ DOMAIN st = 1 .. l /\ n \in Nat
      /\ top.slot \in Numbers /\ top.dates \in Seq(Rules!Dates) /\ top.rest \in Domains
      /\ FrameInv(top, s, n - Standing(top), t)
  BY <1>2, <1>3, FrameFacts
<1>5. Standing(top) = 0 /\ FrameInv(top, s, n, t)
  <2>1. Standing(top) = 0
    BY <1>2 DEF Standing
  <2>2. n - 0 = n
    BY <1>4
  <2> QED
    BY <1>4, <2>1, <2>2
<1>6. PICK d : d = Head(top.dates)
  OBVIOUS
<1>7. d \in Rules!Dates /\ d = top.dates[1] /\ 1 \in DOMAIN top.dates /\ Tail(top.dates) \in Seq(Rules!Dates)
  BY <1>2, <1>4, <1>6
<1>8. PICK a : a = [slot |-> top.slot, date |-> d]
  OBVIOUS
<1>9. a \in Assignments /\ a.slot = top.slot /\ a.date = d /\ Course(a) = Course(top)
  BY <1>4, <1>7, <1>8 DEF Assignments, Course
<1>10. s \in Schedules /\ Indexed(s)
  BY <1>2 DEF BacktrackInv
<1>11. PICK r : r = addAssignment(s, a)
  OBVIOUS
<1>12. /\ r \in Schedules /\ Indexed(r) /\ r.id = s.id /\ r.version = s.version + 1
       /\ r.assignments = Append(s.assignments, a)
  BY <1>2, <1>9, <1>10, <1>11, AddFields, AddIsIndexed
<1>13. /\ Len(r.assignments) = n + 1 /\ r.assignments[n + 1] = a
       /\ \A i \in 1 .. n : r.assignments[i] = s.assignments[i]
       /\ Last(r.assignments) = a
  BY <1>3, <1>10, <1>12 DEF Schedules, Last
<1>14. PICK doms : doms = Narrow(top.rest, r)
  OBVIOUS
<1>15. /\ doms \in Domains /\ Len(doms) = Len(top.rest)
       /\ \A i \in DOMAIN top.rest : doms[i].slot = top.rest[i].slot /\ Free(doms[i], r, Len(r.assignments))
  BY <1>2, <1>4, <1>12, <1>14, NarrowIsFree
<1>16. DOMAIN doms = DOMAIN top.rest
  BY <1>4, <1>15 DEF Domains
<1>17. PICK f : f = [top EXCEPT !.dates = Tail(@), !.placed = d]
  OBVIOUS
<1>18. /\ f \in FrameType /\ f.slot = top.slot /\ f.dates = Tail(top.dates) /\ f.rest = top.rest
       /\ f.placed = d /\ d # NotPlaced
  <2>1. top \in FrameType
    BY <1>2, <1>3, <1>4 DEF BacktrackInv
  <2>2. PICK ds : ds = Tail(top.dates) /\ ds \in Seq(Rules!Dates)
    BY <1>7
  <2>3. f = [top EXCEPT !.dates = ds, !.placed = d]
    BY <1>17, <2>1, <2>2 DEF FrameType
  <2>4. f \in FrameType /\ f.slot = top.slot /\ f.dates = ds /\ f.rest = top.rest /\ f.placed = d
    BY <1>7, <2>1, <2>2, <2>3 DEF FrameType
  <2>5. d # NotPlaced
    BY <1>2, <1>7, RequestFacts DEF NotPlaced
  <2> QED
    BY <2>2, <2>4, <2>5
<1>19. PICK new : new = [st EXCEPT ![l] = f]
  OBVIOUS
<1>20. /\ schedule' = r /\ domains' = doms /\ stack' = new /\ depth' = t /\ calling' \in BOOLEAN
       /\ cache' = CacheAfter(top.rest, r)
  BY <1>1, <1>3, <1>6, <1>8, <1>11, <1>14, <1>17, <1>19 DEF TryDate, SetTop, otherVars
<1>21. /\ new \in Seq(FrameType) /\ Len(new) = l /\ DOMAIN new = 1 .. l /\ new[l] = f
       /\ \A k \in 1 .. l : k # l => new[k] = st[k]
  BY <1>3, <1>4, <1>2, <1>18, <1>19 DEF BacktrackInv
<1>22. FrameInv(f, r, n, t)
  <2>1. Covered(r, n, {f.slot} \cup SlotsIn(f.rest))
    BY <1>5, <1>13, <1>18 DEF FrameInv, Covered
  <2>2. ASSUME NEW i \in 1 .. n, NEW k \in DOMAIN top.dates, Course(s.assignments[i]) = Course(top)
        PROVE s.assignments[i].date # top.dates[k]
    BY <1>5, <2>2 DEF FrameInv, Free
  <2>3. Course(f) = Course(top)
    BY <1>18 DEF Course
  <2>4. Free(f, r, n)
    <3> SUFFICES ASSUME NEW k \in DOMAIN f.dates, NEW i \in 1 .. n,
                        Course(r.assignments[i]) = Course(f)
                 PROVE r.assignments[i].date # f.dates[k]
      BY DEF Free
    <3>1. k + 1 \in DOMAIN top.dates /\ f.dates[k] = top.dates[k + 1]
      BY <1>2, <1>4, <1>18
    <3> QED
      BY <1>13, <2>2, <2>3, <3>1
  <2>5. r.assignments[n + 1] = [slot |-> f.slot, date |-> f.placed]
    BY <1>8, <1>13, <1>18
  <2>6. \A i \in 1 .. n : Course(r.assignments[i]) = Course(f) => r.assignments[i].date # f.placed
    BY <1>7, <1>13, <1>18, <2>2, <2>3
  <2>7. n < t /\ Len(f.rest) = Len(slots) - n - 1
    BY <1>5, <1>18 DEF FrameInv
  <2> QED
    BY <1>4, <2>1, <2>4, <2>5, <2>6, <2>7 DEF FrameInv
<1>23. StackInv(r, new, t)
  <2>1. Standing(f) = 1
    BY <1>18 DEF Standing
  <2>2. ASSUME NEW k \in 1 .. l
        PROVE /\ FrameInv(new[k], r, Base(n + 1, new, k), t)
              /\ k < l => new[k].placed # NotPlaced
    <3>1. Base(n + 1, new, k) = n + k - l
      BY <1>4, <1>21, <2>1 DEF Base
    <3>2. CASE k = l
      <4>1. Base(n + 1, new, k) = n
        BY <1>4, <3>1, <3>2
      <4> QED
        BY <1>4, <1>21, <1>22, <3>2, <4>1
    <3>3. CASE k # l
      <4>1. Base(n, st, k) = n + k - l
        BY <1>2, <1>3, <1>4, <1>5 DEF Base
      <4>2. FrameInv(st[k], s, n + k - l, t) /\ st[k].placed # NotPlaced
        <5>1. k < l
          BY <1>4, <3>3
        <5> QED
          BY <1>2, <1>3, <1>4, <4>1, <5>1, FrameFacts
      <4>3. n + k - l + Standing(st[k]) <= n
        <5>1. Standing(st[k]) = 1
          BY <4>2 DEF Standing
        <5> QED
          BY <1>4, <3>3, <5>1
      <4>4. FrameInv(st[k], r, n + k - l, t)
        BY <1>4, <1>13, <4>2, <4>3, FrameStands
      <4> QED
        BY <1>21, <3>1, <3>3, <4>2, <4>4
    <3> QED
      BY <3>2, <3>3
  <2> QED
    BY <1>13, <1>21, <2>2 DEF StackInv
<1>24. CallInv(r, doms, new, t)
  <2>1. n + 1 <= t /\ Len(doms) = Len(slots) - (n + 1)
    <3>1. n < t /\ Len(top.rest) = Len(slots) - n - 1
      BY <1>5 DEF FrameInv
    <3>2. t \in Nat /\ Len(slots) \in Nat
      BY <1>2, RequestFacts DEF BacktrackInv
    <3> QED
      BY <1>4, <1>15, <3>1, <3>2
  <2>2. Covered(r, n + 1, SlotsIn(doms))
    <3>1. SlotsIn(doms) = SlotsIn(top.rest)
      BY <1>15, <1>16 DEF SlotsIn
    <3>2. Numbers \subseteq {s.assignments[i].slot : i \in 1 .. n} \cup ({top.slot} \cup SlotsIn(top.rest))
      BY <1>5 DEF FrameInv, Covered
    <3>3. \A i \in 1 .. n : i \in 1 .. n + 1 /\ r.assignments[i].slot = s.assignments[i].slot
      BY <1>4, <1>13
    <3>4. n + 1 \in 1 .. n + 1 /\ r.assignments[n + 1].slot = top.slot
      BY <1>4, <1>9, <1>13
    <3> QED
      BY <3>1, <3>2, <3>3, <3>4 DEF Covered
  <2>3. \A i \in DOMAIN doms : Free(doms[i], r, n + 1)
    BY <1>13, <1>15, <1>16
  <2>4. new[Len(new)].placed # NotPlaced
    BY <1>18, <1>21
  <2> QED
    BY <1>13, <2>1, <2>2, <2>3, <2>4 DEF CallInv
<1>25. BacktrackInv(r, doms, new, calling', t)
  BY <1>2, <1>12, <1>15, <1>20, <1>21, <1>23, <1>24 DEF BacktrackInv
<1>26. CacheInv(CacheAfter(top.rest, r), r)
  <2>1. cache.id \in Int /\ cache.version \in Int /\ s.id \in Nat /\ s.version \in Nat
    BY <1>2, <1>10 DEF CacheInv, Schedules
  <2>2. cache.id < r.id \/ (cache.id = r.id /\ cache.version < r.version)
    BY <1>2, <1>12, <2>1 DEF CacheInv
  <2> QED
    BY <1>12, <2>1, <2>2, CacheAfterIsFresh
<1> QED
  BY <1>1, <1>6, <1>8, <1>12, <1>13, <1>20, <1>25, <1>26

\* The exam that is taken back is the one that the frame placed last.
LEMMA UndoKeeps ==
    ASSUME SearchInv, Undo
    PROVE /\ BacktrackInv(schedule', domains', stack', calling', depth')
          /\ CacheInv(cache', schedule')
          /\ schedule.assignments # <<>> /\ schedule'.id = schedule.id
          /\ schedule'.assignments = Front(schedule.assignments)
<1>1. PICK s, st, t, top : s = schedule /\ st = stack /\ t = depth /\ top = Top
  OBVIOUS
<1>2. /\ RequestInv /\ BacktrackInv(s, domains, st, FALSE, t) /\ CacheInv(cache, s)
      /\ st # <<>> /\ top = st[Len(st)] /\ top.placed # NotPlaced
  BY <1>1 DEF SearchInv, BacktrackInv, Undo, Top
<1>3. PICK n, l : n = Len(s.assignments) /\ l = Len(st)
  OBVIOUS
<1>4. /\ l \in Nat \ {0} /\ l \in DOMAIN st /\ DOMAIN st = 1 .. l /\ n \in Nat
      /\ FrameInv(top, s, n - Standing(top), t)
  BY <1>2, <1>3, FrameFacts
<1>5. Standing(top) = 1 /\ FrameInv(top, s, n - 1, t)
  BY <1>2, <1>4 DEF Standing
<1>6. /\ n - 1 \in Nat /\ n - 1 < t
      /\ s.assignments[n] = [slot |-> top.slot, date |-> top.placed]
      /\ \A i \in 1 .. n - 1 :
            Course(s.assignments[i]) = Course(top) => s.assignments[i].date # top.placed
  <2>1. (n - 1) + 1 = n
    BY <1>4
  <2> QED
    BY <1>2, <1>5, <2>1 DEF FrameInv
<1>7. s \in Schedules /\ Indexed(s) /\ s.assignments \in Seq(Assignments) /\ s.assignments # <<>>
  <2>1. s \in Schedules /\ Indexed(s) /\ s.assignments \in Seq(Assignments)
    BY <1>2 DEF BacktrackInv, Schedules
  <2>2. n # 0
    BY <1>4, <1>6
  <2> QED
    BY <1>3, <2>1, <2>2
<1>8. LastApart(s)
  <2>1. Last(s.assignments) = [slot |-> top.slot, date |-> top.placed]
    BY <1>3, <1>6 DEF Last
  <2>2. Course(Last(s.assignments)) = Course(top) /\ Last(s.assignments).date = top.placed
    BY <2>1 DEF Course
  <2>3. DOMAIN s.assignments = 1 .. n
    BY <1>3, <1>7
  <2>4. \A i \in 1 .. n : i < n => i \in 1 .. n - 1
    BY <1>4
  <2> QED
    BY <1>3, <1>6, <2>2, <2>3, <2>4 DEF LastApart
<1>9. PICK r : r = pop_last_assignment(s)
  OBVIOUS
<1>10. /\ r \in Schedules /\ Indexed(r) /\ r.id = s.id /\ r.version = s.version + 1
       /\ r.assignments = Front(s.assignments)
  BY <1>2, <1>7, <1>8, <1>9, PopIsIndexed, PopFields
<1>11. Len(r.assignments) = n - 1 /\ \A i \in 1 .. n - 1 : r.assignments[i] = s.assignments[i]
  BY <1>3, <1>6, <1>7, <1>10 DEF Front
<1>12. PICK f : f = [top EXCEPT !.placed = NotPlaced]
  OBVIOUS
<1>13. /\ f \in FrameType /\ f.slot = top.slot /\ f.dates = top.dates /\ f.rest = top.rest
       /\ f.placed = NotPlaced
  <2>1. top \in FrameType
    BY <1>2, <1>3, <1>4 DEF BacktrackInv
  <2> QED
    BY <1>12, <2>1 DEF FrameType
<1>14. PICK new : new = [st EXCEPT ![l] = f]
  OBVIOUS
<1>15. /\ schedule' = r /\ domains' = domains /\ stack' = new /\ depth' = t /\ calling' = FALSE
       /\ cache' = cache
  BY <1>1, <1>3, <1>9, <1>12, <1>14 DEF Undo, SetTop, otherVars
<1>16. /\ new \in Seq(FrameType) /\ Len(new) = l /\ DOMAIN new = 1 .. l /\ new[l] = f
       /\ \A k \in 1 .. l : k # l => new[k] = st[k]
  BY <1>3, <1>4, <1>2, <1>13, <1>14 DEF BacktrackInv
<1>17. FrameInv(f, r, n - 1, t)
  <2>1. \A i \in 1 .. n - 1 : r.assignments[i] = s.assignments[i]
    BY <1>11
  <2>2. Covered(r, n - 1, {f.slot} \cup SlotsIn(f.rest))
    BY <1>5, <1>13, <2>1 DEF FrameInv, Covered
  <2>3. Free(f, r, n - 1)
    BY <1>5, <1>13, <2>1 DEF FrameInv, Free, Course
  <2> QED
    BY <1>5, <1>13, <2>2, <2>3 DEF FrameInv
<1>18. StackInv(r, new, t)
  <2>1. Standing(f) = 0
    BY <1>13 DEF Standing
  <2>2. ASSUME NEW k \in 1 .. l
        PROVE /\ FrameInv(new[k], r, Base(n - 1, new, k), t)
              /\ k < l => new[k].placed # NotPlaced
    <3>1. Base(n - 1, new, k) = n - 1 + k - l
      BY <1>4, <1>16, <2>1 DEF Base
    <3>2. CASE k = l
      <4>1. Base(n - 1, new, k) = n - 1
        BY <1>4, <3>1, <3>2
      <4> QED
        BY <1>4, <1>16, <1>17, <3>2, <4>1
    <3>3. CASE k # l
      <4>1. Base(n, st, k) = n - 1 + k - l
        BY <1>2, <1>3, <1>4, <1>5 DEF Base
      <4>2. FrameInv(st[k], s, n - 1 + k - l, t) /\ st[k].placed # NotPlaced
        <5>1. k < l
          BY <1>4, <3>3
        <5>2. FrameInv(st[k], s, Base(n, st, k), t) /\ st[k].placed # NotPlaced
          BY <1>2, <1>3, <1>4, <5>1, FrameFacts
        <5> QED
          BY <4>1, <5>2
      <4>3. n - 1 + k - l + Standing(st[k]) <= n - 1
        <5>1. Standing(st[k]) = 1
          BY <4>2 DEF Standing
        <5> QED
          BY <1>4, <3>3, <5>1
      <4>4. FrameInv(st[k], r, n - 1 + k - l, t)
        BY <1>6, <1>11, <4>2, <4>3, FrameStands
      <4> QED
        BY <1>16, <3>1, <3>3, <4>2, <4>4
    <3> QED
      BY <3>2, <3>3
  <2> QED
    BY <1>11, <1>16, <2>2 DEF StackInv
<1>19. BacktrackInv(r, domains, new, FALSE, t)
  BY <1>2, <1>10, <1>16, <1>18 DEF BacktrackInv
<1>20. CacheInv(cache, r)
  <2>1. cache.id \in Int /\ cache.version \in Int /\ s.id \in Nat /\ s.version \in Nat
    BY <1>2, <1>7 DEF CacheInv, Schedules
  <2> QED
    BY <1>2, <1>10, <2>1 DEF CacheInv
<1> QED
  BY <1>1, <1>7, <1>10, <1>15, <1>19, <1>20

\* A loop is left with nothing placed: the frame under it has what it placed on top.
LEMMA LeaveLoopKeeps ==
    ASSUME SearchInv, LeaveLoop
    PROVE /\ BacktrackInv(schedule', domains', stack', calling', depth')
          /\ CacheInv(cache', schedule')
<1>1. PICK s, st, t, top : s = schedule /\ st = stack /\ t = depth /\ top = Top
  OBVIOUS
<1>2. /\ RequestInv /\ BacktrackInv(s, domains, st, FALSE, t) /\ CacheInv(cache, s)
      /\ st # <<>> /\ top = st[Len(st)] /\ top.placed = NotPlaced
  BY <1>1 DEF SearchInv, BacktrackInv, LeaveLoop, InLoop, Top
<1>3. PICK n, l : n = Len(s.assignments) /\ l = Len(st)
  OBVIOUS
<1>4. l \in Nat \ {0} /\ l \in DOMAIN st /\ DOMAIN st = 1 .. l /\ n \in Nat
  BY <1>2, <1>3, FrameFacts
<1>5. PICK new : new = Front(st)
  OBVIOUS
<1>6. /\ new \in Seq(FrameType) /\ Len(new) = l - 1 /\ DOMAIN new = 1 .. l - 1
      /\ \A k \in 1 .. l - 1 : new[k] = st[k]
  BY <1>2, <1>3, <1>4, <1>5 DEF BacktrackInv, Front
<1>7. schedule' = s /\ domains' = domains /\ stack' = new /\ depth' = t /\ calling' = FALSE /\ cache' = cache
  BY <1>1, <1>5 DEF LeaveLoop, InLoop, otherVars
<1>8. StackInv(s, new, t)
  <2>1. ASSUME NEW k \in 1 .. l - 1
        PROVE FrameInv(new[k], s, Base(n, new, k), t) /\ (k < l - 1 => new[k].placed # NotPlaced)
    <3>1. k \in 1 .. l /\ k < l /\ l - 1 \in 1 .. l /\ l - 1 \in 1 .. l - 1
      BY <1>4
    <3>2. /\ FrameInv(st[k], s, Base(n, st, k), t) /\ st[k].placed # NotPlaced
          /\ st[l - 1].placed # NotPlaced
      <4>1. l - 1 < l
        BY <1>4
      <4> QED
        BY <1>2, <1>3, <1>4, <3>1, <4>1, FrameFacts
    <3>3. Base(n, st, k) = n + k - l
      BY <1>2, <1>3, <1>4 DEF Base, Standing
    <3>4. Base(n, new, k) = n + k - l
      <4>1. Standing(new[l - 1]) = 1
        BY <1>6, <3>1, <3>2 DEF Standing
      <4> QED
        BY <1>4, <1>6, <4>1 DEF Base
    <3> QED
      BY <1>6, <3>2, <3>3, <3>4
  <2> QED
    BY <1>3, <1>6, <2>1 DEF StackInv
<1>9. BacktrackInv(s, domains, new, FALSE, t)
  BY <1>2, <1>6, <1>8 DEF BacktrackInv
<1> QED
  BY <1>2, <1>7, <1>9

-----------------------------------------------------------------------------
(* The scores *)

\* An exam adds an entry to the undo stack of the scorer, and undoing takes one off.
LEMMA AddScore ==
    ASSUME NEW st, NEW a, NEW n \in Nat, ScoreInv(st, n)
    PROVE ScoreInv(Scorer!add_assignment(st, a), n + 1)
<1>1. PICK E : st.stack \in Seq(E) /\ Len(st.stack) = n
  BY DEF ScoreInv
<1>2. PICK undo : Scorer!add_assignment(st, a).stack = Append(st.stack, undo)
  BY DEF Scorer!add_assignment
<1>3. PICK new : new = Scorer!add_assignment(st, a).stack
  OBVIOUS
<1>4. new \in Seq(E \cup {undo}) /\ Len(new) = n + 1
  <2>1. st.stack \in Seq(E \cup {undo}) /\ undo \in E \cup {undo}
    <3>1. E \subseteq E \cup {undo}
      OBVIOUS
    <3> QED
      BY <1>1, <3>1
  <2> QED
    BY <1>1, <1>2, <1>3, <2>1
<1> QED
  BY <1>3, <1>4 DEF ScoreInv

LEMMA PopScore ==
    ASSUME NEW st, NEW n \in Nat \ {0}, ScoreInv(st, n)
    PROVE ScoreInv(Scorer!pop_assignment(st), n - 1)
<1>1. PICK E : st.stack \in Seq(E) /\ Len(st.stack) = n
  BY DEF ScoreInv
<1>2. Scorer!pop_assignment(st).stack = Front(st.stack)
  BY DEF Scorer!pop_assignment, Scorer!Front, Front
<1>3. Front(st.stack) \in Seq(E) /\ Len(Front(st.stack)) = n - 1
  BY <1>1 DEF Front
<1> QED
  BY <1>2, <1>3 DEF ScoreInv

\* The fold of the scorer over a sequence of exams; its states are no set that
\* is known beforehand, so that FoldExists does not give it.
ScoreFold(h, n, seq) ==
    h = [S \in SUBSET (1 .. n) |->
            IF S = {} THEN Scorer!create_state
            ELSE Scorer!add_assignment(h[S \ {Max(S)}], seq[Max(S)])]

LEMMA ScoreFoldExists ==
    ASSUME NEW n \in Nat, NEW seq
    PROVE \E h : ScoreFold(h, n, seq)
<1> DEFINE Bad == {k \in 0 .. n : ~\E h : ScoreFold(h, k, seq)}
<1>1. 0 \notin Bad
  <2> DEFINE h == [S \in SUBSET (1 .. 0) |-> Scorer!create_state]
  <2>1. \A S \in SUBSET (1 .. 0) : S = {}
    OBVIOUS
  <2>2. ScoreFold(h, 0, seq)
    BY <2>1 DEF ScoreFold
  <2> HIDE DEF h
  <2> QED
    BY <2>2
<1>2. ASSUME NEW k \in 1 .. n, k - 1 \notin Bad
      PROVE k \notin Bad
  <2>1. k - 1 \in 0 .. n /\ k - 1 \in Nat
    OBVIOUS
  <2>2. PICK h : ScoreFold(h, k - 1, seq)
    BY <1>2, <2>1
  <2> DEFINE g == [S \in SUBSET (1 .. k) |->
                      IF k \in S THEN Scorer!add_assignment(h[S \ {k}], seq[k]) ELSE h[S]]
  <2>3. ASSUME NEW S \in SUBSET (1 .. k)
        PROVE g[S] = IF S = {} THEN Scorer!create_state
                     ELSE Scorer!add_assignment(g[S \ {Max(S)}], seq[Max(S)])
    <3>1. CASE k \in S
      <4>1. Max(S) = k
        BY <3>1, GreatestIsLast
      <4>2. S \ {k} \in SUBSET (1 .. k) /\ k \notin S \ {k}
        OBVIOUS
      <4>3. g[S \ {k}] = h[S \ {k}]
        BY <4>2
      <4>4. g[S] = Scorer!add_assignment(h[S \ {k}], seq[k])
        BY <3>1
      <4> QED
        BY <3>1, <4>1, <4>3, <4>4
    <3>2. CASE k \notin S
      <4>1. S \in SUBSET (1 .. k - 1)
        BY <3>2
      <4>2. g[S] = h[S]
        BY <3>2
      <4>3. h[S] = IF S = {} THEN Scorer!create_state
                   ELSE Scorer!add_assignment(h[S \ {Max(S)}], seq[Max(S)])
        BY <2>2, <4>1 DEF ScoreFold
      <4>4. S \ {Max(S)} \in SUBSET (1 .. k) /\ k \notin S \ {Max(S)}
        BY <3>2
      <4>5. g[S \ {Max(S)}] = h[S \ {Max(S)}]
        BY <4>4
      <4> QED
        BY <4>2, <4>3, <4>5
    <3> QED
      BY <3>1, <3>2
  <2>4. g = [S \in SUBSET (1 .. k) |-> g[S]]
    OBVIOUS
  <2> HIDE DEF g
  <2>5. ScoreFold(g, k, seq)
    BY <2>3, <2>4 DEF ScoreFold
  <2> QED
    BY <2>5
<1>3. Bad = {}
  <2> SUFFICES ASSUME Bad # {}
               PROVE FALSE
    OBVIOUS
  <2>1. Bad \subseteq Nat
    OBVIOUS
  <2> HIDE DEF Bad
  <2>2. PICK m \in Bad : \A k \in Bad : m <= k
    BY <2>1, HasLeast
  <2>3. m \in 0 .. n
    BY DEF Bad
  <2>4. m # 0
    BY <1>1
  <2>5. m \in 1 .. n /\ m - 1 \in Nat
    BY <2>3, <2>4
  <2>6. m - 1 \notin Bad
    BY <2>2, <2>5
  <2> QED
    BY <1>2, <2>5, <2>6
<1> QED
  <2>1. n \in 0 .. n
    OBVIOUS
  <2> QED
    BY <1>3, <2>1

\* The scorer has an undo entry for every seed.
LEMMA SeedsAreScored ==
    ASSUME NEW D, NEW seq \in Seq(D)
    PROVE ScoreInv(FoldLeft(Scorer!add_assignment, Scorer!create_state, seq), Len(seq))
<1>1. PICK n : n = Len(seq)
  OBVIOUS
<1>2. n \in Nat /\ DOMAIN seq = 1 .. n
  BY <1>1
<1>3. PICK it : it = CHOOSE iter : ScoreFold(iter, n, seq)
  OBVIOUS
<1>4. FoldLeft(Scorer!add_assignment, Scorer!create_state, seq) = it[1 .. n]
  BY <1>2, <1>3 DEF FoldLeft, MapThenFoldSet, ScoreFold
<1>5. ScoreFold(it, n, seq)
  BY <1>2, <1>3, ScoreFoldExists
<1> DEFINE Off == {k \in 0 .. n : ~ScoreInv(it[1 .. k], k)}
<1>6. Off = {}
  <2> SUFFICES ASSUME Off # {}
               PROVE FALSE
    OBVIOUS
  <2>1. PICK m \in Off : \A k \in Off : m <= k
    <3>1. Off \subseteq Nat
      OBVIOUS
    <3> HIDE DEF Off
    <3> QED
      BY <3>1, HasLeast
  <2>2. m \in 0 .. n
    OBVIOUS
  <2>3. CASE m = 0
    <3>1. 1 .. m = {} /\ {} \in SUBSET (1 .. n)
      BY <2>3
    <3>2. it[1 .. m] = Scorer!create_state
      BY <1>5, <3>1 DEF ScoreFold
    <3>3. Scorer!create_state.stack = <<>>
      BY DEF Scorer!create_state
    <3>4. ScoreInv(it[1 .. m], m)
      <4>1. <<>> \in Seq({}) /\ Len(<<>>) = 0
        OBVIOUS
      <4> QED
        BY <2>3, <3>2, <3>3, <4>1 DEF ScoreInv
    <3> QED
      BY <3>4
  <2>4. CASE m # 0
    <3>1. m \in 1 .. n /\ m - 1 \in 0 .. n /\ m - 1 \notin Off
      <4>1. m \in 1 .. n /\ m - 1 \in 0 .. n /\ ~(m <= m - 1)
        BY <1>2, <2>2, <2>4
      <4>2. m - 1 \notin Off
        <5> HIDE DEF Off
        <5> QED
          BY <2>1, <4>1
      <4> QED
        BY <4>1, <4>2
    <3>2. ScoreInv(it[1 .. m - 1], m - 1)
      BY <3>1
    <3>3. 1 .. m \in SUBSET (1 .. n) /\ 1 .. m # {} /\ (1 .. m) \ {m} = 1 .. m - 1
      <4>1. 1 .. m \subseteq 1 .. n /\ m \in 1 .. m
        BY <1>2, <3>1
      <4>2. (1 .. m) \ {m} = 1 .. m - 1
        BY <1>2, <3>1
      <4> QED
        BY <4>1, <4>2
    <3>4. Max(1 .. m) = m
      BY <3>1, GreatestIsLast
    <3>5. it[1 .. m] = Scorer!add_assignment(it[1 .. m - 1], seq[m])
      <4>1. it[1 .. m] = Scorer!add_assignment(it[(1 .. m) \ {Max(1 .. m)}], seq[Max(1 .. m)])
        BY <1>5, <3>3 DEF ScoreFold
      <4> QED
        BY <3>3, <3>4, <4>1
    <3>6. m - 1 \in Nat /\ (m - 1) + 1 = m
      BY <3>1
    <3>7. ScoreInv(it[1 .. m], m)
      BY <3>2, <3>5, <3>6, AddScore
    <3> QED
      BY <3>7
  <2> QED
    BY <2>3, <2>4
<1>7. ScoreInv(it[1 .. n], n)
  BY <1>2, <1>6
<1> QED
  BY <1>1, <1>4, <1>7

\* The scores follow a step of the worker that leaves the schedule alone.
LEMMA ScoresStay ==
    ASSUME SearchInv, KeepScores, schedule' = schedule, taken' = taken,
           phase' = "search" => phase = "search"
    PROVE phase' = "search" /\ taken' > 0 => ScoreInv(scores', Len(schedule'.assignments))
<1> SUFFICES ASSUME phase = "search", taken > 0
             PROVE ScoreInv(scores', Len(schedule'.assignments))
  OBVIOUS
<1>1. ScoreInv(scores, Len(schedule.assignments))
  BY DEF SearchInv
<1>2. Len(schedule.assignments) \in Nat
  BY DEF SearchInv, BacktrackInv, Schedules
<1>3. Placed' = Placed /\ Placed \in Nat
  BY <1>2 DEF Placed
<1>4. scores' = scores
  BY <1>3 DEF KeepScores
<1> QED
  BY <1>1, <1>4

\* A step of _backtrack is taken in a search of the partitioner or of the worker.
LEMMA SearchGoesOn ==
    ASSUME SearchInv, calling \/ stack # <<>>, UNCHANGED otherVars, collected' \in Seq(Units)
    PROVE /\ PartitionInv(phase', frontier', collected', splitting', taken', stack', calling', depth')
          /\ UNCHANGED requestVars /\ phase' = phase /\ taken' = taken
          /\ phase \in {"split", "search"} /\ (phase = "search" => depth = Len(slots))
<1>1. PartitionInv(phase, frontier, collected, splitting, taken, stack, calling, depth)
  BY DEF SearchInv
<1>2. UNCHANGED requestVars /\ phase' = phase /\ frontier' = frontier /\ splitting' = splitting
      /\ taken' = taken /\ depth' = depth
  BY DEF otherVars
<1>3. phase \in {"split", "search"} /\ (phase = "search" => taken # 0)
  BY <1>1 DEF PartitionInv
<1> QED
  BY <1>1, <1>2, <1>3 DEF PartitionInv

\* What is reported has a date for every slot, or is a unit.
LEMMA FoundIsWhole ==
    ASSUME SearchInv, calling, Len(schedule.assignments) = depth
    PROVE /\ depth = Len(slots) => ScheduleFound \in [Numbers -> Rules!Dates]
          /\ depth \in 1 .. input.limits.maxDepth => SeedDates \in Units
<1>1. PICK n, s : n = depth /\ s = schedule
  OBVIOUS
<1>2. RequestInv /\ BacktrackInv(s, domains, stack, TRUE, n) /\ CallInv(s, domains, stack, n)
  BY <1>1 DEF SearchInv, BacktrackInv
<1>3. /\ s.assignments \in Seq(Assignments) /\ Len(s.assignments) = n /\ n \in Nat /\ n <= Len(slots)
      /\ DOMAIN s.assignments = 1 .. n /\ DOMAIN slots = Numbers
  <2>1. s.assignments \in Seq(Assignments) /\ Len(s.assignments) = n
    BY <1>1, <1>2 DEF BacktrackInv, Schedules
  <2>2. n \in 0 .. Len(slots) /\ Len(slots) \in Nat
    BY <1>2, RequestFacts DEF BacktrackInv
  <2> QED
    BY <2>1, <2>2 DEF Numbers
<1>4. \A i \in 1 .. n : s.assignments[i].slot \in Numbers /\ s.assignments[i].date \in Rules!Dates
  <2> SUFFICES ASSUME NEW i \in 1 .. n
               PROVE s.assignments[i].slot \in Numbers /\ s.assignments[i].date \in Rules!Dates
    OBVIOUS
  <2>1. s.assignments[i] \in Assignments
    BY <1>3
  <2> QED
    BY <2>1 DEF Assignments
<1>5. ASSUME n = Len(slots)
      PROVE ScheduleFound \in [Numbers -> Rules!Dates]
  <2>1. Len(domains) = 0 /\ DOMAIN domains = {}
    <3>1. Len(domains) = Len(slots) - n
      BY <1>2, <1>3 DEF CallInv
    <3>2. domains \in Seq(DomainType)
      BY <1>2, DomainsAreTyped DEF BacktrackInv
    <3>3. Len(domains) = 0
      BY <1>3, <1>5, <3>1
    <3> QED
      BY <3>2, <3>3
  <2>2. Numbers \subseteq {s.assignments[i].slot : i \in 1 .. n}
    BY <1>2, <1>3, <2>1 DEF CallInv, Covered, SlotsIn
  <2>3. ASSUME NEW j \in Numbers
        PROVE (CHOOSE a \in ToSet(schedule.assignments) : a.slot = j).date \in Rules!Dates
    <3>1. PICK i \in 1 .. n : s.assignments[i].slot = j
      BY <2>2
    <3>2. ToSet(s.assignments) = {s.assignments[k] : k \in 1 .. n}
      BY <1>3 DEF ToSet
    <3>3. PICK x : x = CHOOSE a \in ToSet(s.assignments) : a.slot = j
      OBVIOUS
    <3>4. x \in ToSet(s.assignments)
      BY <3>1, <3>2, <3>3
    <3>5. x.date \in Rules!Dates
      BY <1>4, <3>2, <3>4
    <3> QED
      BY <1>1, <3>3, <3>5
  <2> QED
    BY <1>3, <2>3 DEF ScheduleFound
<1>6. ASSUME n \in 1 .. input.limits.maxDepth
      PROVE SeedDates \in Units
  <2>1. PICK u : u = SeedDates
    OBVIOUS
  <2>2. u = [i \in 1 .. n |-> s.assignments[i].date]
    BY <1>1, <1>3, <2>1 DEF SeedDates
  <2>3. u \in Seq(Rules!Dates) /\ Len(u) = n
    BY <1>3, <1>4, <2>2
  <2> QED
    BY <1>3, <1>6, <2>1, <2>3 DEF Units
<1> QED
  BY <1>1, <1>5, <1>6

-----------------------------------------------------------------------------
(* Every step keeps the invariant *)

LEMMA StopAtEntryStep ==
    ASSUME SearchInv, KeepScores, StopAtEntry
    PROVE SearchInv'
<1>1. /\ calling /\ calling' = FALSE /\ UNCHANGED otherVars /\ UNCHANGED outputVars
      /\ UNCHANGED <<schedule, domains, stack, found, cache>>
  BY DEF StopAtEntry
<1>2. depth' = depth /\ cancelled' = cancelled /\ collected' = collected /\ limited' = limited /\ reported' = reported
  BY <1>1 DEF otherVars, outputVars
<1>3. BacktrackInv(schedule', domains', stack', calling', depth') /\ CacheInv(cache', schedule')
  BY <1>1, <1>2, CallReturns
<1>4. collected \in Seq(Units)
  BY DEF SearchInv, PartitionInv
<1>5. /\ PartitionInv(phase', frontier', collected', splitting', taken', stack', calling', depth')
      /\ UNCHANGED requestVars /\ phase' = phase /\ taken' = taken
  BY <1>1, <1>2, <1>4, SearchGoesOn
<1>6. OutputInv(found', cancelled', limited', reported')
  BY <1>1, <1>2 DEF SearchInv
<1>7. phase' = "search" /\ taken' > 0 => ScoreInv(scores', Len(schedule'.assignments))
  BY <1>1, <1>5, ScoresStay
<1> QED
  BY <1>3, <1>5, <1>6, <1>7, InvariantAfter

LEMMA ReportStep ==
    ASSUME SearchInv, KeepScores, Report
    PROVE SearchInv'
<1>1. /\ calling /\ calling' = FALSE /\ Len(schedule.assignments) = depth /\ found' = found + 1
      /\ UNCHANGED otherVars /\ UNCHANGED <<schedule, domains, stack, cache>>
  BY DEF Report
<1>2. depth' = depth /\ cancelled' = cancelled
  BY <1>1 DEF otherVars
<1>3. BacktrackInv(schedule', domains', stack', calling', depth') /\ CacheInv(cache', schedule')
  BY <1>1, <1>2, CallReturns
<1>4. /\ collected \in Seq(Units) /\ reported \in Seq([Numbers -> Rules!Dates])
      /\ found \in Nat /\ limited \in BOOLEAN /\ cancelled \in BOOLEAN
      /\ phase = "split" => depth \in 1 .. input.limits.maxDepth
      /\ phase \in {"split", "search"} /\ (phase = "search" => depth = Len(slots))
  <2>1. phase \in {"split", "search"} /\ (phase = "search" => depth = Len(slots))
    BY <1>1 DEF SearchInv, PartitionInv
  <2> QED
    BY <2>1 DEF SearchInv, PartitionInv, OutputInv
<1>5. collected' \in Seq(Units)
  <2>1. CASE phase = "split"
    <3>1. collected' = Append(collected, SeedDates)
      BY <2>1 DEF Report
    <3>2. SeedDates \in Units
      BY <1>1, <1>4, <2>1, FoundIsWhole
    <3> QED
      BY <1>4, <3>1, <3>2
  <2>2. CASE phase # "split"
    <3>1. collected' = collected
      BY <2>2 DEF Report
    <3> QED
      BY <1>4, <3>1
  <2> QED
    BY <2>1, <2>2
<1>6. reported' \in Seq([Numbers -> Rules!Dates]) /\ limited' \in BOOLEAN
  <2>1. CASE phase = "split"
    <3>1. reported' = reported /\ limited' = limited
      BY <2>1 DEF Report
    <3> QED
      BY <1>4, <3>1
  <2>2. CASE phase # "split"
    <3>1. reported' = Append(reported, ScheduleFound) /\ limited' \in BOOLEAN
      BY <2>2 DEF Report
    <3>2. PICK new \in [Numbers -> Rules!Dates] : new = ScheduleFound
      BY <1>1, <1>4, <2>2, FoundIsWhole
    <3> QED
      BY <1>4, <3>1, <3>2
  <2> QED
    BY <2>1, <2>2
<1>7. /\ PartitionInv(phase', frontier', collected', splitting', taken', stack', calling', depth')
      /\ UNCHANGED requestVars /\ phase' = phase /\ taken' = taken
  BY <1>1, <1>5, SearchGoesOn
<1>8. OutputInv(found', cancelled', limited', reported')
  BY <1>1, <1>2, <1>4, <1>6 DEF OutputInv
<1>9. phase' = "search" /\ taken' > 0 => ScoreInv(scores', Len(schedule'.assignments))
  BY <1>1, <1>7, ScoresStay
<1> QED
  BY <1>3, <1>7, <1>8, <1>9, InvariantAfter

LEMMA ChooseSlotStep ==
    ASSUME SearchInv, KeepScores, ChooseSlot
    PROVE SearchInv'
<1>1. calling /\ UNCHANGED otherVars /\ UNCHANGED outputVars /\ UNCHANGED <<schedule, found>>
  BY DEF ChooseSlot
<1>2. cancelled' = cancelled /\ collected' = collected /\ limited' = limited /\ reported' = reported
  BY <1>1 DEF otherVars, outputVars
<1>3. BacktrackInv(schedule', domains', stack', calling', depth') /\ CacheInv(cache', schedule')
  BY ChooseSlotKeeps
<1>4. collected \in Seq(Units)
  BY DEF SearchInv, PartitionInv
<1>5. /\ PartitionInv(phase', frontier', collected', splitting', taken', stack', calling', depth')
      /\ UNCHANGED requestVars /\ phase' = phase /\ taken' = taken
  BY <1>1, <1>2, <1>4, SearchGoesOn
<1>6. OutputInv(found', cancelled', limited', reported')
  BY <1>1, <1>2 DEF SearchInv
<1>7. phase' = "search" /\ taken' > 0 => ScoreInv(scores', Len(schedule'.assignments))
  BY <1>1, <1>5, ScoresStay
<1> QED
  BY <1>3, <1>5, <1>6, <1>7, InvariantAfter

LEMMA TryDateStep ==
    ASSUME SearchInv, KeepScores, TryDate
    PROVE SearchInv'
<1>1. stack # <<>> /\ UNCHANGED otherVars /\ UNCHANGED outputVars /\ found' = found
  BY DEF TryDate, InLoop
<1>2. cancelled' = cancelled /\ collected' = collected /\ limited' = limited /\ reported' = reported
  BY <1>1 DEF otherVars, outputVars
<1>3. /\ BacktrackInv(schedule', domains', stack', calling', depth') /\ CacheInv(cache', schedule')
      /\ schedule'.id = schedule.id
      /\ schedule'.assignments = Append(schedule.assignments, Last(schedule'.assignments))
  BY TryDateKeeps
<1>4. collected \in Seq(Units)
  BY DEF SearchInv, PartitionInv
<1>5. /\ PartitionInv(phase', frontier', collected', splitting', taken', stack', calling', depth')
      /\ UNCHANGED requestVars /\ phase' = phase /\ taken' = taken
  BY <1>1, <1>2, <1>4, SearchGoesOn
<1>6. OutputInv(found', cancelled', limited', reported')
  BY <1>1, <1>2 DEF SearchInv
<1>7. ASSUME phase = "search", taken > 0
      PROVE ScoreInv(scores', Len(schedule'.assignments))
  <2>1. PICK n, a : n = Len(schedule.assignments) /\ a = Last(schedule'.assignments)
    OBVIOUS
  <2>2. schedule.assignments \in Seq(Assignments) /\ n \in Nat
    BY <2>1 DEF SearchInv, BacktrackInv, Schedules
  <2>3. Len(schedule'.assignments) = n + 1
    BY <1>3, <2>1, <2>2
  <2>4. Placed = n /\ Placed' = n + 1
    BY <2>1, <2>3 DEF Placed
  <2>5. scores' = Scorer!add_assignment(scores, a)
    BY <1>3, <1>7, <2>1, <2>2, <2>4 DEF KeepScores
  <2>6. ScoreInv(scores, n)
    BY <1>7, <2>1 DEF SearchInv
  <2> QED
    BY <2>2, <2>3, <2>5, <2>6, AddScore
<1> QED
  BY <1>3, <1>5, <1>6, <1>7, InvariantAfter

LEMMA UndoStep ==
    ASSUME SearchInv, KeepScores, Undo
    PROVE SearchInv'
<1>1. stack # <<>> /\ UNCHANGED otherVars /\ UNCHANGED outputVars /\ found' = found
  BY DEF Undo
<1>2. cancelled' = cancelled /\ collected' = collected /\ limited' = limited /\ reported' = reported
  BY <1>1 DEF otherVars, outputVars
<1>3. /\ BacktrackInv(schedule', domains', stack', calling', depth') /\ CacheInv(cache', schedule')
      /\ schedule.assignments # <<>> /\ schedule'.id = schedule.id
      /\ schedule'.assignments = Front(schedule.assignments)
  BY UndoKeeps
<1>4. collected \in Seq(Units)
  BY DEF SearchInv, PartitionInv
<1>5. /\ PartitionInv(phase', frontier', collected', splitting', taken', stack', calling', depth')
      /\ UNCHANGED requestVars /\ phase' = phase /\ taken' = taken
  BY <1>1, <1>2, <1>4, SearchGoesOn
<1>6. OutputInv(found', cancelled', limited', reported')
  BY <1>1, <1>2 DEF SearchInv
<1>7. ASSUME phase = "search", taken > 0
      PROVE ScoreInv(scores', Len(schedule'.assignments))
  <2>1. PICK n : n = Len(schedule.assignments)
    OBVIOUS
  <2>2. schedule.assignments \in Seq(Assignments)
    BY DEF SearchInv, BacktrackInv, Schedules
  <2>3. n \in Nat \ {0} /\ Len(schedule'.assignments) = n - 1
    BY <1>3, <2>1, <2>2 DEF Front
  <2>4. Placed = n /\ Placed' = n - 1
    BY <2>1, <2>3 DEF Placed
  <2>5. scores' = Scorer!pop_assignment(scores)
    BY <1>3, <1>7, <2>3, <2>4 DEF KeepScores
  <2>6. ScoreInv(scores, n)
    BY <1>7, <2>1 DEF SearchInv
  <2> QED
    BY <2>3, <2>5, <2>6, PopScore
<1> QED
  BY <1>3, <1>5, <1>6, <1>7, InvariantAfter

LEMMA LeaveLoopStep ==
    ASSUME SearchInv, KeepScores, LeaveLoop
    PROVE SearchInv'
<1>1. stack # <<>> /\ UNCHANGED otherVars /\ UNCHANGED outputVars /\ UNCHANGED <<schedule, found>>
  BY DEF LeaveLoop, InLoop
<1>2. cancelled' = cancelled /\ collected' = collected /\ limited' = limited /\ reported' = reported
  BY <1>1 DEF otherVars, outputVars
<1>3. BacktrackInv(schedule', domains', stack', calling', depth') /\ CacheInv(cache', schedule')
  BY LeaveLoopKeeps
<1>4. collected \in Seq(Units)
  BY DEF SearchInv, PartitionInv
<1>5. /\ PartitionInv(phase', frontier', collected', splitting', taken', stack', calling', depth')
      /\ UNCHANGED requestVars /\ phase' = phase /\ taken' = taken
  BY <1>1, <1>2, <1>4, SearchGoesOn
<1>6. OutputInv(found', cancelled', limited', reported')
  BY <1>1, <1>2 DEF SearchInv
<1>7. phase' = "search" /\ taken' > 0 => ScoreInv(scores', Len(schedule'.assignments))
  BY <1>1, <1>5, ScoresStay
<1> QED
  BY <1>3, <1>5, <1>6, <1>7, InvariantAfter

LEMMA SplitKeeps ==
    ASSUME SearchInv, KeepScores, phase = "choose",
           NEW at, at \in 1 .. Len(frontier) + 1, NEW unit \in Seq(Rules!Dates), CanSplit(unit),
           Split(at, unit)
    PROVE SearchInv'
<1>1. /\ splitting' = at /\ collected' = <<>> /\ phase' = "split" /\ generateSchedules(unit, Len(unit) + 1)
      /\ UNCHANGED <<requestVars, frontier, taken, cancelled, reported, limited>>
  BY DEF Split, ChildDepth
<1>2. RequestInv /\ input \in Inputs /\ input.limits.maxDepth \in Nat \ {0} /\ Len(slots) \in Nat
  BY SearchAssumption, RequestFacts DEF SearchInv, RequestInv
<1>3. /\ Len(unit) \in Nat /\ Len(unit) <= Len(slots) /\ Len(unit) + 1 \in 0 .. Len(slots)
      /\ Len(unit) <= Len(unit) + 1 /\ Len(unit) + 1 \in 1 .. input.limits.maxDepth
  BY <1>2 DEF CanSplit
<1>4. /\ BacktrackInv(schedule', domains', stack', calling', depth') /\ CacheInv(cache', schedule')
      /\ depth' = Len(unit) + 1 /\ found' = 0
  BY <1>1, <1>3, SearchBegins
<1>5. PartitionInv(phase', frontier', collected', splitting', taken', stack', calling', depth')
  <2>1. frontier \in Seq(Units) /\ Len(frontier) \in Nat /\ taken \in 0 .. Len(frontier) /\ taken = 0
    BY DEF SearchInv, PartitionInv
  <2>2. <<>> \in Seq(Units) /\ at \in Nat
    BY <2>1
  <2> QED
    BY <1>1, <1>3, <1>4, <2>1, <2>2 DEF PartitionInv
<1>6. OutputInv(found', cancelled', limited', reported')
  BY <1>1, <1>4 DEF SearchInv, OutputInv
<1>7. phase' = "search" /\ taken' > 0 => ScoreInv(scores', Len(schedule'.assignments))
  BY <1>1
<1> QED
  BY <1>1, <1>4, <1>5, <1>6, <1>7, InvariantAfter

LEMMA SplitRootStep ==
    ASSUME SearchInv, KeepScores, SplitRoot
    PROVE SearchInv'
<1>1. phase = "choose" /\ ~Enough /\ Split(1, <<>>)
  BY DEF SplitRoot
<1>2. RequestInv /\ input \in Inputs /\ input.limits.maxDepth \in Nat \ {0} /\ slots \in Seq(SlotType(input))
  BY SearchAssumption DEF SearchInv, RequestInv
<1>3. slots # <<>>
  BY <1>1 DEF Enough
<1>4. CanSplit(<<>>)
  BY <1>2, <1>3 DEF CanSplit
<1>5. 1 \in 1 .. Len(frontier) + 1
  <2>1. Len(frontier) \in Nat
    BY DEF SearchInv, PartitionInv
  <2> QED
    BY <2>1
<1>6. <<>> \in Seq(Rules!Dates)
  OBVIOUS
<1>7. PICK at, unit : at = 1 /\ unit = <<>>
  OBVIOUS
<1> QED
  BY <1>1, <1>4, <1>5, <1>6, <1>7, SplitKeeps

LEMMA SplitUnitStep ==
    ASSUME SearchInv, KeepScores, SplitUnit
    PROVE SearchInv'
<1>1. phase = "choose" /\ ~Enough /\ splitting > 0 /\ Split(next_shallowest, frontier[next_shallowest])
  BY DEF SplitUnit
<1>2. frontier \in Seq(Units) /\ Len(frontier) \in Nat /\ DOMAIN frontier = 1 .. Len(frontier)
  BY DEF SearchInv, PartitionInv
<1>3. PICK k \in DOMAIN frontier : CanSplit(frontier[k])
  BY <1>1 DEF Enough
<1>4. frontier \in Seq(Seq(Rules!Dates))
  <2>1. Units \subseteq Seq(Rules!Dates)
    BY DEF Units
  <2> QED
    BY <1>2, <2>1
<1>5. PICK at : at = next_shallowest
  OBVIOUS
<1>6. at \in DOMAIN frontier /\ CanSplit(frontier[at])
  BY <1>3, <1>4, <1>5, ShallowestIsUnit
<1>7. PICK unit \in Seq(Rules!Dates) : unit = frontier[at]
  BY <1>4, <1>6
<1>8. at \in 1 .. Len(frontier) + 1
  BY <1>2, <1>6
<1> QED
  BY <1>1, <1>5, <1>6, <1>7, <1>8, SplitKeeps

\* The search under way is over and stays as it is.
LEMMA TakeChildrenStep ==
    ASSUME SearchInv, KeepScores, TakeChildren
    PROVE SearchInv'
<1>1. /\ phase = "split" /\ ~calling /\ stack = <<>> /\ phase' = "choose"
      /\ frontier' = SubSeq(frontier, 1, splitting - 1) \o collected
                      \o SubSeq(frontier, splitting + 1, Len(frontier))
      /\ UNCHANGED <<requestVars, splitting, collected, taken, depth, schedule, calling, domains,
                   stack, found, cache, cancelled, reported, limited>>
  BY DEF TakeChildren, Idle
<1>2. /\ frontier \in Seq(Units) /\ collected \in Seq(Units) /\ taken = 0
      /\ Len(frontier) \in Nat /\ splitting \in 1 .. Len(frontier) + 1 /\ splitting \in Nat
  BY <1>1 DEF SearchInv, PartitionInv
<1>3. frontier' \in Seq(Units)
  <2>1. PICK a, b : a = SubSeq(frontier, 1, splitting - 1) /\ b = SubSeq(frontier, splitting + 1, Len(frontier))
    OBVIOUS
  <2>2. a \in Seq(Units) /\ b \in Seq(Units)
    BY <1>2, <2>1
  <2>3. a \o collected \in Seq(Units)
    BY <1>2, <2>2
  <2> QED
    BY <1>1, <2>1, <2>2, <2>3, ConcatProperties
<1>4. Len(frontier') \in Nat
  BY <1>3
<1>5. PartitionInv(phase', frontier', collected', splitting', taken', stack', calling', depth')
  <2>1. PICK units : units = frontier'
    OBVIOUS
  <2>2. units \in Seq(Units) /\ 0 \in 0 .. Len(units)
    BY <1>3, <1>4, <2>1
  <2>3. /\ phase' = "choose" /\ collected' = collected /\ splitting' = splitting /\ taken' = 0
        /\ stack' = <<>> /\ calling' = calling /\ ~calling
    BY <1>1, <1>2
  <2> QED
    BY <1>2, <2>1, <2>2, <2>3 DEF PartitionInv
<1>6. /\ BacktrackInv(schedule', domains', stack', calling', depth') /\ CacheInv(cache', schedule')
      /\ OutputInv(found', cancelled', limited', reported')
  BY <1>1 DEF SearchInv
<1>7. phase' = "search" /\ taken' > 0 => ScoreInv(scores', Len(schedule'.assignments))
  BY <1>1
<1> QED
  BY <1>1, <1>5, <1>6, <1>7, InvariantAfter

LEMMA StartWorkerStep ==
    ASSUME SearchInv, KeepScores, StartWorker
    PROVE SearchInv'
<1>1. /\ phase = "choose" /\ phase' = "search" /\ cache' = EmptyCache
      /\ UNCHANGED <<requestVars, partitionVars, schedule, calling, domains, stack, found,
                     cancelled, reported, limited>>
  BY DEF StartWorker
<1>2. /\ frontier' = frontier /\ splitting' = splitting /\ collected' = collected /\ taken' = taken /\ depth' = depth
      /\ UNCHANGED requestVars /\ schedule' = schedule /\ calling' = calling /\ domains' = domains /\ stack' = stack
      /\ found' = found /\ cancelled' = cancelled /\ reported' = reported /\ limited' = limited
  BY <1>1 DEF partitionVars
<1>3. PartitionInv(phase, frontier, collected, splitting, taken, stack, calling, depth)
  BY DEF SearchInv
<1>4. taken = 0 /\ ~calling /\ stack = <<>>
  BY <1>1, <1>3 DEF PartitionInv
<1>5. PartitionInv(phase', frontier', collected', splitting', taken', stack', calling', depth')
  BY <1>1, <1>2, <1>3, <1>4 DEF PartitionInv
<1>6. BacktrackInv(schedule', domains', stack', calling', depth') /\ OutputInv(found', cancelled', limited', reported')
  BY <1>2 DEF SearchInv
<1>7. CacheInv(cache', schedule')
  <2>1. schedule.id \in Nat
    BY DEF SearchInv, BacktrackInv, Schedules
  <2> QED
    BY <1>1, <1>2, <2>1 DEF CacheInv, EmptyCache
<1>8. phase' = "search" /\ taken' > 0 => ScoreInv(scores', Len(schedule'.assignments))
  BY <1>2, <1>4
<1> QED
  BY <1>2, <1>5, <1>6, <1>7, <1>8, InvariantAfter

LEMMA TakeUnitStep ==
    ASSUME SearchInv, KeepScores, TakeUnit
    PROVE SearchInv'
<1>1. /\ phase = "search" /\ taken < Len(frontier) /\ taken' = taken + 1
      /\ generateSchedules(frontier[taken + 1], Len(slots))
      /\ UNCHANGED <<requestVars, phase, frontier, splitting, collected, cancelled, reported, limited>>
  BY DEF TakeUnit
<1>2. PartitionInv(phase, frontier, collected, splitting, taken, stack, calling, depth)
  BY DEF SearchInv
<1>3. frontier \in Seq(Units) /\ Len(frontier) \in Nat /\ taken \in Nat /\ taken + 1 \in 1 .. Len(frontier)
  BY <1>1, <1>2 DEF PartitionInv
<1>4. PICK unit : unit = frontier[taken + 1]
  OBVIOUS
<1>5. unit \in Units
  BY <1>3, <1>4
<1>6. unit \in Seq(Rules!Dates) /\ Len(unit) <= Len(slots) /\ Len(slots) \in 0 .. Len(slots)
  <2>1. Len(slots) \in Nat
    BY RequestFacts DEF SearchInv
  <2> QED
    BY <1>5, <2>1 DEF Units
<1>7. PICK t : t = Len(slots)
  OBVIOUS
<1>8. /\ BacktrackInv(schedule', domains', stack', calling', depth') /\ CacheInv(cache', schedule')
      /\ schedule'.id = schedule.id + 1 /\ schedule'.assignments \in Seq(Assignments)
      /\ depth' = t /\ found' = 0
  BY <1>1, <1>4, <1>6, <1>7, SearchBegins
<1>9. PartitionInv(phase', frontier', collected', splitting', taken', stack', calling', depth')
  BY <1>1, <1>2, <1>3, <1>7, <1>8 DEF PartitionInv
<1>10. OutputInv(found', cancelled', limited', reported')
  BY <1>1, <1>8 DEF SearchInv, OutputInv
<1>11. ScoreInv(scores', Len(schedule'.assignments))
  <2>1. schedule'.id # schedule.id
    <3>1. schedule.id \in Nat
      BY DEF SearchInv, BacktrackInv, Schedules
    <3> QED
      BY <1>8, <3>1
  <2>2. scores' = FoldLeft(Scorer!add_assignment, Scorer!create_state, schedule'.assignments)
    BY <1>1, <2>1 DEF KeepScores
  <2>3. PICK seq : seq = schedule'.assignments
    OBVIOUS
  <2>4. ScoreInv(FoldLeft(Scorer!add_assignment, Scorer!create_state, seq), Len(seq))
    BY <1>8, <2>3, SeedsAreScored
  <2> QED
    BY <2>2, <2>3, <2>4
<1> QED
  BY <1>1, <1>8, <1>9, <1>10, <1>11, InvariantAfter

\* Only the phase changes, to one in which nothing is searched.
LEMMA PhaseEnds ==
    ASSUME SearchInv, KeepScores,
           phase' \in {"invalid", "infeasible", "choose", "done"},
           ~calling /\ stack = <<>>, taken = 0 \/ phase' = "done",
           UNCHANGED <<requestVars, partitionVars, searchVars, cancelled, reported, limited>>
    PROVE SearchInv'
<1>1. /\ frontier' = frontier /\ splitting' = splitting /\ collected' = collected /\ taken' = taken /\ depth' = depth
      /\ UNCHANGED requestVars /\ schedule' = schedule /\ calling' = calling /\ domains' = domains /\ stack' = stack
      /\ found' = found /\ cache' = cache /\ cancelled' = cancelled /\ reported' = reported /\ limited' = limited
  BY DEF partitionVars, searchVars
<1>2. PartitionInv(phase, frontier, collected, splitting, taken, stack, calling, depth)
  BY DEF SearchInv
<1>3. PartitionInv(phase', frontier', collected', splitting', taken', stack', calling', depth')
  BY <1>1, <1>2 DEF PartitionInv
<1>4. /\ BacktrackInv(schedule', domains', stack', calling', depth') /\ CacheInv(cache', schedule')
      /\ OutputInv(found', cancelled', limited', reported')
  BY <1>1 DEF SearchInv
<1>5. phase' = "search" /\ taken' > 0 => ScoreInv(scores', Len(schedule'.assignments))
  OBVIOUS
<1> QED
  BY <1>1, <1>3, <1>4, <1>5, InvariantAfter

LEMMA ValidateStep ==
    ASSUME SearchInv, KeepScores, RejectRequest \/ RejectInfeasible \/ AcceptRequest
    PROVE SearchInv'
<1>1. /\ phase = "validate" /\ phase' \in {"invalid", "infeasible", "choose"}
      /\ UNCHANGED <<requestVars, partitionVars, searchVars, cancelled, reported, limited>>
  BY DEF RejectRequest, RejectInfeasible, AcceptRequest, Validate
<1>2. taken = 0 /\ ~calling /\ stack = <<>>
  BY <1>1 DEF SearchInv, PartitionInv
<1> QED
  BY <1>1, <1>2, PhaseEnds

LEMMA FinishStep ==
    ASSUME SearchInv, KeepScores, Finish
    PROVE SearchInv'
<1>1. /\ ~calling /\ stack = <<>> /\ phase' = "done"
      /\ UNCHANGED <<requestVars, partitionVars, searchVars, cancelled, reported, limited>>
  BY DEF Finish, Idle, searchVars
<1> QED
  BY <1>1, PhaseEnds

LEMMA CancelStep ==
    ASSUME SearchInv, KeepScores, Cancel
    PROVE SearchInv'
<1>1. /\ cancelled' = TRUE
      /\ UNCHANGED <<requestVars, phase, partitionVars, searchVars, reported, limited>>
  BY DEF Cancel
<1>2. /\ phase' = phase /\ frontier' = frontier /\ splitting' = splitting /\ collected' = collected
      /\ taken' = taken /\ depth' = depth
      /\ UNCHANGED requestVars /\ schedule' = schedule /\ calling' = calling /\ domains' = domains /\ stack' = stack
      /\ found' = found /\ cache' = cache /\ reported' = reported /\ limited' = limited
  BY <1>1 DEF partitionVars, searchVars
<1>3. /\ BacktrackInv(schedule', domains', stack', calling', depth') /\ CacheInv(cache', schedule')
      /\ PartitionInv(phase', frontier', collected', splitting', taken', stack', calling', depth')
  BY <1>2 DEF SearchInv
<1>4. OutputInv(found', cancelled', limited', reported')
  BY <1>1, <1>2 DEF SearchInv, OutputInv
<1>5. phase' = "search" /\ taken' > 0 => ScoreInv(scores', Len(schedule'.assignments))
  BY <1>2, ScoresStay
<1> QED
  BY <1>2, <1>3, <1>4, <1>5, InvariantAfter

LEMMA InitialSearch ==
    ASSUME Init
    PROVE SearchInv
<1>1. RequestInv
  BY SlotAssumption DEF Init, RequestInv
<1>2. /\ phase = "validate" /\ frontier = <<>> /\ splitting = 0 /\ collected = <<>> /\ taken = 0 /\ depth = 0
      /\ schedule = NewSchedule(0) /\ calling = FALSE /\ domains = <<>> /\ stack = <<>> /\ found = 0
      /\ cache = EmptyCache /\ cancelled = FALSE /\ reported = <<>> /\ limited = FALSE
  BY DEF Init
<1>3. schedule \in Schedules /\ Indexed(schedule) /\ schedule.id = 0
  BY <1>1, <1>2, NewScheduleIsIndexed
<1>4. BacktrackInv(schedule, domains, stack, calling, depth)
  <2>1. domains \in Domains
    BY <1>2 DEF Domains
  <2>2. stack \in Seq(FrameType) /\ DOMAIN stack = {}
    BY <1>2
  <2>3. depth \in 0 .. Len(slots)
    <3>1. Len(slots) \in Nat
      BY <1>1, RequestFacts
    <3> QED
      BY <1>2, <3>1
  <2>4. StackInv(schedule, stack, depth)
    BY <2>2 DEF StackInv
  <2>5. calling = FALSE
    BY <1>2
  <2> QED
    BY <1>3, <2>1, <2>2, <2>3, <2>4, <2>5 DEF BacktrackInv
<1>5. CacheInv(cache, schedule)
  BY <1>2, <1>3 DEF CacheInv, EmptyCache
<1>6. PartitionInv(phase, frontier, collected, splitting, taken, stack, calling, depth)
  BY <1>2 DEF PartitionInv
<1>7. OutputInv(found, cancelled, limited, reported)
  <2>1. PICK F : F = [Numbers -> Rules!Dates]
    OBVIOUS
  <2>2. reported \in Seq(F)
    BY <1>2
  <2> QED
    BY <1>2, <2>1, <2>2 DEF OutputInv
<1> QED
  BY <1>1, <1>2, <1>4, <1>5, <1>6, <1>7 DEF SearchInv

LEMMA StutteringSearch ==
    ASSUME SearchInv, UNCHANGED vars
    PROVE SearchInv'
<1>1. /\ UNCHANGED <<requestVars, phase, partitionVars, searchVars, cancelled, reported, limited>>
      /\ scores' = scores
  BY DEF vars, controlVars
<1>2. /\ phase' = phase /\ frontier' = frontier /\ splitting' = splitting /\ collected' = collected
      /\ taken' = taken /\ depth' = depth
      /\ UNCHANGED requestVars /\ schedule' = schedule /\ calling' = calling /\ domains' = domains /\ stack' = stack
      /\ found' = found /\ cache' = cache /\ reported' = reported /\ limited' = limited
      /\ cancelled' = cancelled
  BY <1>1 DEF partitionVars, searchVars
<1>3. /\ BacktrackInv(schedule', domains', stack', calling', depth') /\ CacheInv(cache', schedule')
      /\ PartitionInv(phase', frontier', collected', splitting', taken', stack', calling', depth')
      /\ OutputInv(found', cancelled', limited', reported')
  BY <1>2 DEF SearchInv
<1>4. phase' = "search" /\ taken' > 0 => ScoreInv(scores', Len(schedule'.assignments))
  BY <1>1, <1>2 DEF SearchInv
<1> QED
  BY <1>2, <1>3, <1>4, InvariantAfter

-----------------------------------------------------------------------------
(* Theorems *)

\* Whatever the request and its limits, SearchInv holds in every state.
THEOREM SearchInvariant ==
    Spec => []SearchInv
<1>1. Init => SearchInv
  BY InitialSearch
<1>2. SearchInv /\ [Next]_vars => SearchInv'
  <2> SUFFICES ASSUME SearchInv, [Next]_vars
               PROVE SearchInv'
    OBVIOUS
  <2>1. CASE UNCHANGED vars
    BY <2>1, StutteringSearch
  <2>2. CASE Cancel /\ KeepScores
    BY <2>2, CancelStep
  <2>3. CASE Progress /\ KeepScores
    BY <2>3, ValidateStep, SplitRootStep, SplitUnitStep, TakeChildrenStep, StartWorkerStep, TakeUnitStep,
       FinishStep, StopAtEntryStep, ReportStep, ChooseSlotStep, TryDateStep, UndoStep, LeaveLoopStep
       DEF Progress
  <2> QED
    BY <2>1, <2>2, <2>3 DEF Next
<1> QED
  BY <1>1, <1>2, PTL DEF Spec

\* The indexes of ExamSchedule tell what is assigned after any placements and undos.
THEOREM IndexesAlwaysAgree ==
    Spec => []IndexesAgree
<1>1. SearchInv => IndexesAgree
  BY DEF SearchInv, BacktrackInv, Indexed, IndexesAgree
<1> QED
  BY <1>1, SearchInvariant, PTL

\* The cache of the elective checker never serves the counts of another schedule.
THEOREM CacheAlwaysFresh ==
    Spec => []CacheIsFresh
<1>1. SearchInv => CacheIsFresh
  <2> SUFFICES ASSUME SearchInv, Hit(schedule)
               PROVE cache.counts = Rules!ElectiveCounts(schedule)
    BY DEF CacheIsFresh
  <2>1. cache.id = schedule.id /\ cache.version = schedule.version
    BY DEF Hit
  <2>2. schedule.id \in Nat /\ schedule.version \in Nat
    BY DEF SearchInv, BacktrackInv, Schedules
  <2> QED
    BY <2>1, <2>2 DEF SearchInv, CacheInv
<1> QED
  BY <1>1, SearchInvariant, PTL

\* Every variable of the search has its type.
THEOREM SearchTyped ==
    Spec => []TypeOK
<1>1. SearchInv => TypeOK
  <2> SUFFICES ASSUME SearchInv
               PROVE TypeOK
    OBVIOUS
  <2>1. /\ PartitionInv(phase, frontier, collected, splitting, taken, stack, calling, depth)
        /\ BacktrackInv(schedule, domains, stack, calling, depth)
        /\ OutputInv(found, cancelled, limited, reported) /\ input \in Inputs
    BY DEF SearchInv, RequestInv
  <2>2. /\ frontier \in Seq(Seq(Rules!Dates)) /\ collected \in Seq(Seq(Rules!Dates))
        /\ \A i \in DOMAIN frontier : Len(frontier[i]) \in 1 .. input.limits.maxDepth
    <3>1. frontier \in Seq(Units) /\ collected \in Seq(Units)
      BY <2>1 DEF PartitionInv
    <3>2. \A u \in Units : u \in Seq(Rules!Dates) /\ Len(u) \in 1 .. input.limits.maxDepth
      BY DEF Units
    <3>3. \A i \in DOMAIN frontier : frontier[i] \in Units
      BY <3>1
    <3> QED
      BY <3>1, <3>2, <3>3
  <2>3. /\ schedule.id \in Nat /\ schedule.version \in Nat
        /\ schedule.assignments \in Seq(Assignments)
        /\ schedule.onDate \in [Rules!Dates -> SUBSET Rules!Courses]
        /\ schedule.ofCourse \in [Rules!Courses -> Seq(Assignments)]
    BY <2>1 DEF BacktrackInv, Schedules
  <2>4. phase = "search" /\ taken > 0 => Len(scores.stack) = Len(schedule.assignments)
    BY DEF SearchInv, ScoreInv
  <2>5. domains \in Domains /\ depth \in 0 .. Len(slots) /\ calling \in BOOLEAN
        /\ stack \in Seq([slot : Numbers, dates : Seq(Rules!Dates), rest : Domains,
                          placed : Rules!Dates \cup {NotPlaced}])
    BY <2>1 DEF BacktrackInv, FrameType
  <2>6. /\ phase \in {"validate", "invalid", "infeasible", "choose", "split", "search", "done"}
        /\ splitting \in Nat /\ taken \in 0 .. Len(frontier)
    BY <2>1 DEF PartitionInv
  <2>7. /\ found \in Nat /\ cancelled \in BOOLEAN /\ limited \in BOOLEAN
        /\ reported \in Seq([Numbers -> Rules!Dates])
    BY <2>1 DEF OutputInv
  <2>8. {calling, cancelled, limited} \subseteq BOOLEAN
    BY <2>5, <2>7
  <2> QED
    BY <2>1, <2>2, <2>3, <2>4, <2>5, <2>6, <2>7, <2>8 DEF TypeOK
<1> QED
  BY <1>1, SearchInvariant, PTL

=============================================================================
