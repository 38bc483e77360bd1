------------------------------ MODULE ExamSearch ------------------------------
(***************************************************************************)
(* The search for exam schedules.  A request that may have a schedule is   *)
(* partitioned: SearchSpacePartitioner splits the space into work units    *)
(* (dates for the first slots), a worker takes the units one by one, and   *)
(* Scheduler searches below each by backtracking with forward checking     *)
(* over an ExamSchedule and a score that are changed in place and undone.  *)
(* SchedulerPool models who takes which unit and when; here one worker     *)
(* takes them all, because what is below a unit depends on nothing but the *)
(* unit.                                                                   *)
(*                                                                         *)
(* One action is one piece of _backtrack between two calls: entering it,   *)
(* one turn of its loop, undoing the turn, leaving the loop.               *)
(***************************************************************************)
EXTENDS Integers, Sequences, FiniteSets, SequencesExt, SlotBuilder

CONSTANT Inputs   \* the requests tried: courses, periods, selection, semesters, rules, limits

\* desiredUnits is an argument of partition, maxDepth is MAX_PARTITION_DEPTH, maxResults is
\* an argument of generateSchedules; cancel tells whether the user may cancel.
ASSUME SearchAssumption ==
    \A in \in Inputs :
        /\ in.limits.desiredUnits \in Nat /\ in.limits.maxDepth \in Nat \ {0}
        /\ in.limits.maxResults \in Nat \ {0} /\ in.limits.cancel \in BOOLEAN

VARIABLES
    input,      \* the request of the user
    slots,      \* what SlotBuilder built for it
    entries,    \* its SelectedProgramIndex
    phase,      \* "validate", "choose", "split", "search", "done", or how it was rejected
    frontier,   \* the work units: a sequence of date sequences
    splitting,  \* index of the unit being split, 0 before the first split
    collected,  \* CubeCollectorObserver._units
    taken,      \* number of units the worker took
    depth,      \* target_depth of the current generateSchedules
    schedule,   \* the ExamSchedule
    scores,     \* the score state of the worker's search
    calling,    \* _backtrack is entered and has not chosen a slot yet
    domains,    \* its argument
    stack,      \* the loops of the calls of _backtrack below it
    found,      \* found_count
    cache,      \* ElectiveConflictCapChecker._index_cache
    cancelled,  \* observer.should_cancel()
    reported,   \* history: the schedules reported by the worker
    limited,    \* history: a search reached its limit
    valid       \* history: the schedules that meet the rules

partitionVars == <<frontier, splitting, collected, taken, depth>>
requestVars == <<input, slots, entries, valid>>
searchVars == <<schedule, calling, domains, stack, found, cache>>
controlVars == <<requestVars, phase, partitionVars, searchVars, cancelled, reported, limited>>
vars == <<controlVars, scores>>

Courses(in) == SelectEntries(in.courses, in.selected)
EntriesOf(in) ==
    [id \in {c.id : c \in ToSet(in.courses)} |->
        (CHOOSE c \in ToSet(Courses(in)) : c.id = id).entries]

\* The slots of a request: each is of one of its courses, and its candidate dates are ordinals,
\* counted from 1.
SlotsOf(in) == BuildSlots(Courses(in), in.periods, in.semesters)
SlotType(in) == [course : DOMAIN EntriesOf(in), semester : ToSet(in.semesters), moed : 1 .. 3, dates : Seq(Nat \ {0})]
ASSUME SlotAssumption == \A in \in Inputs : SlotsOf(in) \in Seq(SlotType(in))

Rules == INSTANCE Feasibility WITH
            Slots <- slots, Entries <- entries, Config <- input.config
Scorer == INSTANCE ScheduleScorer WITH
            Slots <- slots, Entries <- entries, Config <- input.config

-----------------------------------------------------------------------------
(***************************************************************************)
(* ExamSchedule.  onDate and ofCourse are its indexes; the ordinal index   *)
(* holds the same as the date index.                                       *)
(***************************************************************************)
Course(a) == slots[a.slot].course

NewSchedule(id) ==
    [id |-> id, assignments |-> <<>>, version |-> 0,
     onDate |-> [d \in Rules!Dates |-> {}], ofCourse |-> [c \in Rules!Courses |-> <<>>]]

addAssignment(s, a) ==
    [s EXCEPT !.assignments = Append(@, a),
              !.onDate[a.date] = @ \cup {Course(a)},
              !.ofCourse[Course(a)] = Append(@, a),
              !.version = @ + 1]

\* Mutant: the undo restores the old version, as if the length were enough.
pop_last_assignment_OldVersion(s) ==
    LET removed == Last(s.assignments)
    IN  [s EXCEPT !.assignments = Front(@),
                  !.onDate[removed.date] = @ \ {Course(removed)},
                  !.ofCourse[Course(removed)] = Front(@),
                  !.version = @ - 1]

pop_last_assignment(s) ==
    LET removed == Last(s.assignments)
    IN  [s EXCEPT !.assignments = Front(@),
                  !.onDate[removed.date] = @ \ {Course(removed)},
                  !.ofCourse[Course(removed)] = Front(@),
                  !.version = @ + 1]

(***************************************************************************)
(* Forward checking.  A domain is a slot with the dates still possible for *)
(* it; the elective checker serves its counts from a cache keyed by the    *)
(* schedule and its version.                                               *)
(***************************************************************************)
Hit(s) == cache.id = s.id /\ cache.version = s.version
Served(s) == IF Hit(s) THEN cache.counts ELSE Rules!ElectiveCounts(s)

Surviving(domain, s) ==
    FoldLeft(LAMBDA dates, d : IF Rules!Rejects([slot |-> domain.slot, date |-> d], s, Served(s))
                               THEN dates ELSE Append(dates, d),
             <<>>, domain.dates)
Narrow(doms, s) == [i \in DOMAIN doms |-> [doms[i] EXCEPT !.dates = Surviving(doms[i], s)]]

Impossible(doms) == \E i \in DOMAIN doms : doms[i].dates = <<>>

\* _forward_check stops at the first domain that it empties: whether the
\* elective checker was asked depends on the domains before it.
Looked(doms, s) ==
    {i \in DOMAIN doms : \A j \in 1 .. (i - 1) : Narrow(doms, s)[j].dates # <<>>}
AsksElective(doms, s) ==
    \E i \in Looked(doms, s) : \E d \in ToSet(doms[i].dates) :
        Rules!AsksElective([slot |-> doms[i].slot, date |-> d], s)
CacheAfter(doms, s) ==
    IF AsksElective(doms, s)
    THEN [id |-> s.id, version |-> s.version, counts |-> Served(s)]
    ELSE cache

EmptyCache == [id |-> -1, version |-> 0, counts |-> <<>>]

\* The first of the domains with the fewest dates.
select_most_constrained(doms) ==
    CHOOSE i \in DOMAIN doms :
        /\ \A j \in DOMAIN doms : Len(doms[i].dates) <= Len(doms[j].dates)
        /\ \A j \in 1 .. (i - 1) : Len(doms[i].dates) < Len(doms[j].dates)

-----------------------------------------------------------------------------
(***************************************************************************)
(* generateSchedules below the seed dates of a unit.                       *)
(***************************************************************************)
SeedAssignments(unit) == [i \in DOMAIN unit |-> [slot |-> i, date |-> unit[i]]]
RemainingSlots(unit) == [i \in 1 .. (Len(slots) - Len(unit)) |-> Len(unit) + i]
NoDates == \E i \in DOMAIN slots : slots[i].dates = <<>>

generateSchedules(unit, targetDepth) ==
    LET seeded == FoldLeft(addAssignment, NewSchedule(schedule.id + 1), SeedAssignments(unit))
        all == [i \in DOMAIN RemainingSlots(unit) |->
                   [slot |-> RemainingSlots(unit)[i], dates |-> slots[RemainingSlots(unit)[i]].dates]]
    IN  /\ schedule' = seeded
        /\ depth' = targetDepth
        /\ domains' = Narrow(all, seeded)
        /\ calling' = (slots # <<>> /\ ~NoDates /\ ~Impossible(Narrow(all, seeded)))
        /\ cache' = IF slots # <<>> /\ ~NoDates THEN CacheAfter(all, seeded) ELSE cache
        /\ stack' = <<>>
        /\ found' = 0

Idle == ~calling /\ stack = <<>>

-----------------------------------------------------------------------------
(***************************************************************************)
(* generate_async before it asks the pool.                                 *)
(***************************************************************************)
ValidRequest == Rules!ConfigIsValid /\ ~MissingPeriod(Courses(input), input.periods)

Validate(outcome) ==
    /\ phase = "validate"
    /\ phase' = outcome
    /\ UNCHANGED <<requestVars, partitionVars, searchVars, cancelled, reported, limited>>

\* ConstraintsConfig.validate or build_slots raises ValueError.
RejectRequest == ~ValidRequest /\ Validate("invalid")
RejectInfeasible == ValidRequest /\ Rules!Infeasible /\ Validate("infeasible")
AcceptRequest == ValidRequest /\ ~Rules!Infeasible /\ Validate("choose")

-----------------------------------------------------------------------------
(***************************************************************************)
(* SearchSpacePartitioner.partition, in the feeder thread.                 *)
(***************************************************************************)
\* Mutant: units one slot deeper than the maximum.
CanSplit_OneDeeper(unit) == Len(unit) < Len(slots) /\ Len(unit) <= input.limits.maxDepth
CanSplit(unit) == Len(unit) < Len(slots) /\ Len(unit) < input.limits.maxDepth
DesiredTarget == IF input.limits.desiredUnits > 1 THEN input.limits.desiredUnits ELSE 1

next_shallowest ==
    CHOOSE i \in DOMAIN frontier :
        /\ CanSplit(frontier[i])
        /\ \A j \in DOMAIN frontier : CanSplit(frontier[j]) => Len(frontier[i]) <= Len(frontier[j])
        /\ \A j \in 1 .. (i - 1) : CanSplit(frontier[j]) => Len(frontier[i]) < Len(frontier[j])

Enough ==
    \/ slots = <<>>
    \/ splitting > 0 /\ (\/ Len(frontier) >= DesiredTarget
                         \/ \A i \in DOMAIN frontier : ~CanSplit(frontier[i]))

ChildDepth(unit) == Len(unit) + 1

Split(i, unit) ==
    /\ splitting' = i
    /\ collected' = <<>>
    /\ phase' = "split"
    /\ generateSchedules(unit, ChildDepth(unit))
    /\ UNCHANGED <<requestVars, frontier, taken, cancelled, reported, limited>>

SplitRoot == phase = "choose" /\ ~Enough /\ splitting = 0 /\ Split(1, <<>>)

SplitUnit ==
    /\ phase = "choose" /\ ~Enough /\ splitting > 0
    /\ Split(next_shallowest, frontier[next_shallowest])

\* A unit without children is dropped, any other is replaced by them.
TakeChildren ==
    /\ phase = "split" /\ Idle
    /\ frontier' = SubSeq(frontier, 1, splitting - 1) \o collected
                      \o SubSeq(frontier, splitting + 1, Len(frontier))
    /\ phase' = "choose"
    /\ UNCHANGED <<requestVars, splitting, collected, taken, depth, schedule, calling, domains,
                   stack, found, cache, cancelled, reported, limited>>

\* The worker has checkers of its own.
StartWorker ==
    /\ phase = "choose" /\ Enough
    /\ phase' = "search"
    /\ cache' = EmptyCache
    /\ UNCHANGED <<requestVars, partitionVars, schedule, calling, domains, stack, found,
                   cancelled, reported, limited>>

TakeUnit ==
    /\ phase = "search" /\ Idle /\ ~cancelled
    /\ taken < Len(frontier)
    /\ taken' = taken + 1
    /\ generateSchedules(frontier[taken + 1], Len(slots))
    /\ UNCHANGED <<requestVars, phase, frontier, splitting, collected, cancelled, reported, limited>>

Finish ==
    /\ phase = "search" /\ Idle
    /\ cancelled \/ taken = Len(frontier)
    /\ phase' = "done"
    /\ UNCHANGED <<requestVars, partitionVars, schedule, calling, domains, stack, found, cache,
                   cancelled, reported, limited>>

-----------------------------------------------------------------------------
(***************************************************************************)
(* Scheduler._backtrack.  A frame of stack is one call in its loop: the    *)
(* slot it chose, the dates it has not tried, the other domains, and the   *)
(* date it has placed, if any.                                             *)
(***************************************************************************)
NotPlaced == 0
Top == stack[Len(stack)]
SetTop(frame) == [stack EXCEPT ![Len(stack)] = frame]

\* The collector of the partitioner never cancels and its limit is beyond
\* any number of units.
StopNow == phase = "search" /\ (cancelled \/ found >= input.limits.maxResults)

outputVars == <<collected, reported, limited>>
otherVars == <<requestVars, phase, frontier, splitting, taken, depth, cancelled>>

StopAtEntry ==
    /\ calling /\ StopNow
    /\ calling' = FALSE
    /\ UNCHANGED <<otherVars, outputVars, schedule, domains, stack, found, cache>>

SeedDates == [i \in DOMAIN schedule.assignments |-> schedule.assignments[i].date]
ScheduleFound ==
    [i \in DOMAIN slots |->
        (CHOOSE a \in ToSet(schedule.assignments) : a.slot = i).date]

Report ==
    /\ calling /\ ~StopNow
    /\ Len(schedule.assignments) = depth
    /\ calling' = FALSE
    /\ found' = found + 1
    /\ IF phase = "split"
       THEN collected' = Append(collected, SeedDates) /\ UNCHANGED <<reported, limited>>
       ELSE /\ reported' = Append(reported, ScheduleFound)
            /\ limited' = (limited \/ found' >= input.limits.maxResults)
            /\ UNCHANGED collected
    /\ UNCHANGED <<otherVars, schedule, domains, stack, cache>>

ChosenIndex == IF phase = "search" THEN select_most_constrained(domains) ELSE 1

ChooseSlot ==
    /\ calling /\ ~StopNow
    /\ Len(schedule.assignments) # depth
    /\ calling' = FALSE
    /\ stack' = Append(stack, [slot |-> domains[ChosenIndex].slot,
                               dates |-> domains[ChosenIndex].dates,
                               rest |-> RemoveAt(domains, ChosenIndex),
                               placed |-> NotPlaced])
    /\ UNCHANGED <<otherVars, outputVars, schedule, domains, found, cache>>

InLoop == ~calling /\ stack # <<>> /\ Top.placed = NotPlaced

TryDate ==
    /\ InLoop /\ ~StopNow /\ Top.dates # <<>>
    /\ LET assignment == [slot |-> Top.slot, date |-> Head(Top.dates)]
           placed == addAssignment(schedule, assignment)
       IN  /\ schedule' = placed
           /\ domains' = Narrow(Top.rest, placed)
           /\ calling' = ~Impossible(Narrow(Top.rest, placed))
           /\ cache' = CacheAfter(Top.rest, placed)
    /\ stack' = SetTop([Top EXCEPT !.dates = Tail(@), !.placed = Head(Top.dates)])
    /\ UNCHANGED <<otherVars, outputVars, found>>

Undo ==
    /\ ~calling /\ stack # <<>> /\ Top.placed # NotPlaced
    /\ schedule' = pop_last_assignment(schedule)
    /\ stack' = SetTop([Top EXCEPT !.placed = NotPlaced])
    /\ UNCHANGED <<otherVars, outputVars, calling, domains, found, cache>>

LeaveLoop ==
    /\ InLoop /\ (StopNow \/ Top.dates = <<>>)
    /\ stack' = Front(stack)
    /\ UNCHANGED <<otherVars, outputVars, schedule, calling, domains, found, cache>>

Cancel ==
    /\ input.limits.cancel /\ phase = "search" /\ ~cancelled
    /\ cancelled' = TRUE
    /\ UNCHANGED <<requestVars, phase, partitionVars, searchVars, reported, limited>>

-----------------------------------------------------------------------------
(***************************************************************************)
(* The score state of a worker: generateSchedules creates it and tells it  *)
(* the seeds, TryDate and Undo tell it what they place and take back.  The *)
(* partitioner searches without a scorer.                                  *)
(***************************************************************************)
Unscored == [stack |-> <<>>]
Placed == Len(schedule.assignments)

KeepScores ==
    \/ phase # "search" /\ UNCHANGED scores
    \/ phase = "search" /\ schedule'.id = schedule.id /\ Placed' = Placed /\ UNCHANGED scores
    \/ /\ phase = "search" /\ schedule'.id # schedule.id
       /\ scores' = FoldLeft(Scorer!add_assignment, Scorer!create_state, schedule'.assignments)
    \/ /\ phase = "search" /\ schedule'.id = schedule.id /\ Placed' > Placed
       /\ scores' = Scorer!add_assignment(scores, Last(schedule'.assignments))
    \/ /\ phase = "search" /\ schedule'.id = schedule.id /\ Placed' < Placed
       /\ scores' = Scorer!pop_assignment(scores)

-----------------------------------------------------------------------------
Init ==
    /\ input \in Inputs
    /\ entries = EntriesOf(input)
    /\ slots = SlotsOf(input)
    /\ valid = IF ValidRequest THEN Rules!ValidSchedules ELSE {}
    /\ phase = "validate" /\ frontier = <<>> /\ splitting = 0 /\ collected = <<>>
    /\ taken = 0 /\ depth = 0
    /\ schedule = NewSchedule(0) /\ scores = Unscored
    /\ calling = FALSE /\ domains = <<>> /\ stack = <<>> /\ found = 0
    /\ cache = EmptyCache
    /\ cancelled = FALSE /\ reported = <<>> /\ limited = FALSE

Progress ==
    \/ RejectRequest \/ RejectInfeasible \/ AcceptRequest
    \/ SplitRoot \/ SplitUnit \/ TakeChildren \/ StartWorker \/ TakeUnit \/ Finish
    \/ StopAtEntry \/ Report \/ ChooseSlot \/ TryDate \/ Undo \/ LeaveLoop

Next == (Progress \/ Cancel) /\ KeepScores

Spec == Init /\ [][Next]_vars

\* The feeder thread and the worker process keep running.
FairSpec == Spec /\ WF_controlVars(Progress)

-----------------------------------------------------------------------------
(***************************************************************************)
(* Properties.                                                             *)
(***************************************************************************)
Numbers == DOMAIN slots
Assignments == [slot : Numbers, date : Rules!Dates]
Domains == Seq([slot : Numbers, dates : Seq(Rules!Dates)])

\* Every variable has its type.
TypeOK ==
    /\ input \in Inputs
    /\ phase \in {"validate", "invalid", "infeasible", "choose", "split", "search", "done"}
    /\ frontier \in Seq(Seq(Rules!Dates)) /\ collected \in Seq(Seq(Rules!Dates))
    /\ \A i \in DOMAIN frontier : Len(frontier[i]) \in 1 .. input.limits.maxDepth
    /\ splitting \in Nat /\ taken \in 0 .. Len(frontier) /\ depth \in 0 .. Len(slots)
    /\ schedule.id \in Nat /\ schedule.version \in Nat
    /\ schedule.assignments \in Seq(Assignments)
    /\ schedule.onDate \in [Rules!Dates -> SUBSET Rules!Courses]
    /\ schedule.ofCourse \in [Rules!Courses -> Seq(Assignments)]
    /\ phase = "search" /\ taken > 0 => Len(scores.stack) = Len(schedule.assignments)
    /\ domains \in Domains
    /\ stack \in Seq([slot : Numbers, dates : Seq(Rules!Dates), rest : Domains,
                      placed : Rules!Dates \cup {NotPlaced}])
    /\ found \in Nat /\ {calling, cancelled, limited} \subseteq BOOLEAN
    /\ reported \in Seq([Numbers -> Rules!Dates])

\* The assignments of a course are listed in the order of placing: those at the
\* positions where it stands, the least position first.
Positions(s, c) == {i \in DOMAIN s.assignments : Course(s.assignments[i]) = c}
InOrderOfPlacing(s, c) ==
    \E at \in [DOMAIN s.ofCourse[c] -> Positions(s, c)] :
        /\ Range(at) = Positions(s, c)
        /\ \A i, j \in DOMAIN at : i < j => at[i] < at[j]
        /\ \A i \in DOMAIN at : s.ofCourse[c][i] = s.assignments[at[i]]

\* The indexes of ExamSchedule tell exactly what is assigned: a course stands
\* on a date while one of its exams does, and the assignments of a course are
\* listed in the order of placing.  pop_last_assignment takes the course off
\* the date without looking for another exam of it there, and the last
\* assignment off the course's list without looking at which it is.
IndexesAgree ==
    /\ \A d \in Rules!Dates :
          schedule.onDate[d] = {Course(a) : a \in {b \in ToSet(schedule.assignments) : b.date = d}}
    /\ \A c \in Rules!Courses : InOrderOfPlacing(schedule, c)

\* What the elective checker would serve for the current schedule counts the
\* current schedule: no undo followed by another placement makes an old entry
\* of the cache look current.
CacheIsFresh == Hit(schedule) => cache.counts = Rules!ElectiveCounts(schedule)

-----------------------------------------------------------------------------
\* A request is turned down as infeasible only when no date for every exam meets
\* the rules: the bounds of the checkers never count a shortage that an order of
\* placing, another window or a shared date could avoid.
InfeasibleMeansImpossible == phase = "infeasible" => valid = {}

\* The score state tells what the metrics say of the assignments as they are,
\* after any number of placements and undos in any cohort.
ScoresFollowSchedule ==
    phase = "search" /\ taken > 0 =>
        Scorer!score(scores) = Scorer!score_schedule(schedule.assignments)

\* Filtering and sorting agree: a schedule passes a rule with k exactly when its
\* score is at least as good as k.  The span is a score of the widest group
\* where the rule asks for one of every group.
SortingAgreesWithFiltering ==
    phase = "search" /\ calling /\ Len(schedule.assignments) = Len(slots) =>
        LET f == ScheduleFound
            s == Scorer!score(scores)
            obligatory == Rules!Eligible("OBLIGATORY_ONLY")
        IN  \A k \in 0 .. Max(Rules!Dates) :
               /\ Rules!Apart(f, k, obligatory) <=> s.minMandatoryGap >= k
               /\ Rules!ElectiveClashesBounded(f, k) <=> -s.electiveConflicts <= k
               /\ Rules!DaysNotCrowded(f, k) <=> -s.maxExamsPerDay <= k
               /\ Rules!SpanReached(f, k) =>
                     \/ s.mandatorySpan >= k
                     \/ \A g \in Rules!SpanGroups : Cardinality(Rules!slots_by_program_year_semester_moed(g)) < 2

\* The search implements the promise made to its user.
Enumeration == INSTANCE ScheduleEnumeration WITH
    wanted <- valid, shown <- reported,
    interrupted <- cancelled \/ limited, ended <- phase \in {"done", "infeasible", "invalid"}
ImplementsEnumeration == Enumeration!Spec
=============================================================================
