----------------------------- MODULE SlotBuilder -----------------------------
(***************************************************************************)
(* src/logic/SlotBuilder.py: one slot per course with an exam, semester    *)
(* and moed, the hardest courses first.  The semesters of a course come    *)
(* out of a Python set of enum members, whose order changes from one       *)
(* process to the next: semesters is the order this process happens to     *)
(* give.                                                                   *)
(***************************************************************************)
EXTENDS Integers, Sequences, FiniteSets, FiniteSetsExt, SequencesExt

\* SelectedProgramIndex: an empty selection keeps every entry.
SelectEntries(courses, selected) ==
    [i \in DOMAIN courses |-> [courses[i] EXCEPT !.entries =
        {e \in @ : selected = {} \/ e.program \in selected}]]

SemestersOf(course) == {e.semester : e \in course.entries}

\* Moed ALEPH tries its dates from the first, the later moedim from the last.
OrderedCandidates(moed, dates) == IF moed = 1 THEN dates ELSE Reverse(dates)

SlotsOfSemester(course, semester, periods) ==
    LET moedim == SelectSeq(<<1, 2, 3>>, LAMBDA m : <<semester, m>> \in DOMAIN periods)
    IN  [i \in DOMAIN moedim |->
            [course |-> course.id, semester |-> semester, moed |-> moedim[i],
             dates |-> OrderedCandidates(moedim[i], periods[semester, moedim[i]])]]

RawSlots(courses, periods, semesters) ==
    LET relevant == SelectSeq(courses, LAMBDA c : c.exam /\ c.entries # {})
        Of(c) == FlattenSeq([i \in DOMAIN SelectSeq(semesters, LAMBDA s : s \in SemestersOf(c)) |->
                     SlotsOfSemester(c, SelectSeq(semesters, LAMBDA s : s \in SemestersOf(c))[i], periods)])
    IN  FlattenSeq([i \in DOMAIN relevant |-> Of(relevant[i])])

\* build raises ValueError: a course needs a semester that has no period.
MissingPeriod(courses, periods) ==
    \E i \in DOMAIN courses : courses[i].exam /\
        \E s \in SemestersOf(courses[i]) : \A m \in 1..3 : <<s, m>> \notin DOMAIN periods

Difficulty(course) ==
    Cardinality(course.entries)
    + 2 * Cardinality({e \in course.entries : e.requirement = "obligatory"})

\* A stable sort: hardest course first, then fewest dates.
BuildSlots(courses, periods, semesters) ==
    LET raw == RawSlots(courses, periods, semesters)
        Score(i) == Difficulty(CHOOSE c \in ToSet(courses) : c.id = raw[i].course)
        Before(i, j) ==
            \/ Score(i) > Score(j)
            \/ Score(i) = Score(j) /\ Len(raw[i].dates) < Len(raw[j].dates)
            \/ Score(i) = Score(j) /\ Len(raw[i].dates) = Len(raw[j].dates) /\ i < j
        order == SetToSortSeq(DOMAIN raw, Before)
    IN  [i \in DOMAIN raw |-> raw[order[i]]]
=============================================================================
