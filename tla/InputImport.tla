----------------------------- MODULE InputImport -----------------------------
(***************************************************************************)
(* Importing course and period files: FileImportService.load_file with the *)
(* merger, InputDataState and the cache on disk, over several sessions, and *)
(* the loaded flags of InputImportPresenter.  The user loads files and restarts *)
(* the application; other programs change the files.  InputScreen adds the *)
(* rest of the screen, the editing of periods among it.                    *)
(*                                                                         *)
(* The content of a course file maps course ids to versions of a course,   *)
(* that of a period file maps (semester, moed) keys to periods.  Broken is *)
(* a content that passes validation and does not parse, Missing one that   *)
(* does not pass validation.  A hash is the content it was taken of.  Blank *)
(* is the content of a file with characters and no record, which parses.   *)
(***************************************************************************)
EXTENDS Naturals, FiniteSets, Functions, TLC

CONSTANTS
    CourseFiles,       \* paths of course files
    PeriodFiles,       \* paths of period files
    CourseContents,    \* what a course file may hold
    PeriodContents,    \* what a period file may hold
    Missing, Broken,   \* contents that cannot be imported
    FaultScenarios,    \* the sets of faults a behaviour may meet
    MaxLoads,          \* bound: loads
    MaxChanges,        \* bound: changes of files and faults
    MaxRestarts        \* bound: restarts

\* What may happen besides loads.  Under "edits" the user does more than load
\* files and nothing else touches the files or the cache.
FaultKinds ==
    {"broken_file", "missing_file", "blank_file", "write", "change_in_session", "edits"}

Nothing == <<>>       \* the empty function: no data, no paths
Blank == Nothing
Dates == [start : Nat, end : Nat, excluded : SUBSET Nat]

ASSUME ImportAssumption ==
    /\ CourseFiles \cap PeriodFiles = {}
    /\ {Missing, Broken, Blank} \cap (CourseContents \cup PeriodContents) = {}
    /\ Blank \notin {Missing, Broken} /\ Missing # Broken
    /\ \A content \in CourseContents :
          IsFiniteSet(DOMAIN content) /\ content \in [DOMAIN content -> Range(content)]
    /\ FaultScenarios \subseteq SUBSET FaultKinds
    /\ \A content \in PeriodContents :
          /\ IsFiniteSet(DOMAIN content) /\ content \in [DOMAIN content -> Dates]
          /\ \A key \in DOMAIN content : content[key].start < content[key].end
    /\ {MaxLoads, MaxChanges, MaxRestarts} \subseteq Nat

VARIABLES
    file,         \* the content of each path
    courses,      \* InputDataState._courses, by course id
    periods,      \* InputDataState._periods, by (semester, moed)
    loadedPaths,  \* FileImportService._loaded_paths
    cache,        \* the cache file, or NoCache
    shown,        \* InputImportPresenter: the types whose loaded flag is set
    pc,           \* where load_file is: "idle", "cache", "parse", "persist"
    request,      \* its arguments: path and mode
    outcome,      \* history: how the last load ended, while no edit followed
    seen,         \* history: what its file has held since it began
    faults,       \* the faults that may happen in this behaviour
    loads, changes, restarts   \* counters for the bounds

vars == <<file, courses, periods, loadedPaths, cache, shown, pc, request, outcome,
          seen, faults, loads, changes, restarts>>
state == <<courses, periods>>
counters == <<loads, changes, restarts, faults>>

Paths == CourseFiles \cup PeriodFiles
Modes == {"replace", "update"}
TypeOf(path) == IF path \in CourseFiles THEN "courses" ELSE "periods"
NoCache == [courses |-> Nothing, periods |-> Nothing, hashes |-> Nothing]
Load(path, mode) == [path |-> path, mode |-> mode]
NoLoad == Load("none", "none")
Outcome(load, status) == [load |-> load, status |-> status]
NoOutcome == Outcome(NoLoad, "none")

ContentsOf(path) ==
    (IF path \in CourseFiles THEN CourseContents ELSE PeriodContents)
    \cup (IF "broken_file" \in faults THEN {Broken} ELSE {})
    \cup (IF "missing_file" \in faults THEN {Missing} ELSE {})
    \cup (IF "blank_file" \in faults THEN {Blank} ELSE {})

-----------------------------------------------------------------------------
(***************************************************************************)
(* InputDataMerger.                                                        *)
(***************************************************************************)
MergeCourses(existing, incoming) ==
    [id \in DOMAIN existing \cup DOMAIN incoming |->
        IF id \in DOMAIN incoming THEN incoming[id] ELSE existing[id]]

\* Mutant: the incoming period replaces the one it updates.
MergePeriod_Replaces(old, new) == new

\* A period keeps the excluded dates of the period it updates that are still
\* in its range.
MergePeriod(old, new) ==
    [new EXCEPT !.excluded = {d \in old.excluded \cup @ : new.start <= d /\ d <= new.end}]

MergePeriods(existing, incoming) ==
    [key \in DOMAIN existing \cup DOMAIN incoming |->
        IF key \notin DOMAIN incoming THEN existing[key]
        ELSE IF key \notin DOMAIN existing THEN incoming[key]
        ELSE MergePeriod(existing[key], incoming[key])]

Merge(data) ==
    IF TypeOf(request.path) = "courses"
    THEN /\ courses' = IF request.mode = "replace" THEN data ELSE MergeCourses(courses, data)
         /\ UNCHANGED periods
    ELSE /\ periods' = IF request.mode = "replace" THEN data ELSE MergePeriods(periods, data)
         /\ UNCHANGED courses

(***************************************************************************)
(* InputCacheService.  A file that cannot be read is an OSError, which     *)
(* load_file takes for a miss in try_load and for no save in persist.      *)
(***************************************************************************)
Current(paths) == [p \in paths |-> file[p]]
Readable(paths) == \A p \in paths : file[p] # Missing

\* Mutant: a path with a stored hash counts as unchanged.
has_changed_KnownPath(paths) == cache.hashes = Nothing

\* has_changed, for paths that all have a stored hash.
has_changed(paths) == cache.hashes = Nothing \/ Current(paths) # cache.hashes

try_load(paths) ==
    /\ cache # NoCache
    /\ DOMAIN cache.hashes = paths
    /\ Readable(paths)
    /\ ~has_changed(paths)

\* Mutant: the hashes are added to those of the cache that is replaced.
CacheOf_AddsHashes(paths) ==
    [courses |-> courses, periods |-> periods, hashes |-> Current(paths) @@ cache.hashes]

CacheOf(paths) == [courses |-> courses, periods |-> periods, hashes |-> Current(paths)]

-----------------------------------------------------------------------------
(***************************************************************************)
(* load_file.                                                              *)
(***************************************************************************)
\* Mutant: every path of the session is remembered, not the last of its type.
Remember_EveryPath(path) == (path :> path) @@ loadedPaths

Remember(path) ==
    [type \in DOMAIN loadedPaths \cup {TypeOf(path)} |->
        IF type = TypeOf(path) THEN path ELSE loadedPaths[type]]

\* The presenter sets the flag of the type it asked for on success alone.
Flag == {TypeOf(request.path)}

Return(status) ==
    /\ pc' = "idle"
    /\ outcome' = Outcome(request, status)
    /\ request' = NoLoad
    /\ shown' = shown \cup (IF status = "success" THEN Flag ELSE {})
    /\ UNCHANGED seen

\* Mutant: REPLACE may be answered by the cache.
FirstStep_Cache(mode) == "cache"

FirstStep(mode) == IF mode = "update" THEN "cache" ELSE "parse"

\* load_file up to its first look at the cache or the file.
BeginLoad(path, mode) ==
    /\ loads < MaxLoads
    /\ loads' = loads + 1
    /\ seen' = {file[path]}
    /\ IF file[path] = Missing
       THEN /\ outcome' = Outcome(Load(path, mode), "failed")
            /\ UNCHANGED <<loadedPaths, pc, request>>
       ELSE /\ loadedPaths' = Remember(path)
            /\ pc' = FirstStep(mode)
            /\ request' = Load(path, mode)
            /\ outcome' = NoOutcome
    /\ UNCHANGED <<file, cache, shown, faults, changes, restarts>>

StartLoad ==
    /\ pc = "idle"
    /\ \E path \in Paths, mode \in Modes : BeginLoad(path, mode)
    /\ UNCHANGED state

LoadCache ==
    /\ pc = "cache" /\ try_load(Range(loadedPaths))
    /\ courses' = cache.courses
    /\ periods' = cache.periods
    /\ Return("success")
    /\ UNCHANGED <<file, loadedPaths, cache, counters>>

MissCache ==
    /\ pc = "cache" /\ ~try_load(Range(loadedPaths))
    /\ pc' = "parse"
    /\ UNCHANGED <<file, state, loadedPaths, cache, shown, request, outcome, seen, counters>>

ParseFails ==
    /\ pc = "parse" /\ file[request.path] \in {Broken, Missing}
    /\ Return("failed")
    /\ UNCHANGED <<file, state, loadedPaths, cache, counters>>

ParseAndMerge ==
    /\ pc = "parse" /\ file[request.path] \notin {Broken, Missing}
    /\ Merge(file[request.path])
    /\ pc' = "persist"
    /\ UNCHANGED <<file, loadedPaths, cache, shown, request, outcome, seen, counters>>

\* Snapshot, hashes and the renamed file in one step: what a crash in between
\* leaves is the old cache file.
Persist ==
    /\ pc = "persist" /\ Readable(Range(loadedPaths))
    /\ cache' = CacheOf(Range(loadedPaths))
    /\ Return("success")
    /\ UNCHANGED <<file, state, loadedPaths, counters>>

PersistFails ==
    /\ pc = "persist"
    /\ \/ ~Readable(Range(loadedPaths)) /\ UNCHANGED changes
       \/ "write" \in faults /\ changes < MaxChanges /\ changes' = changes + 1
    /\ Return("success")
    /\ UNCHANGED <<file, state, loadedPaths, cache, loads, restarts, faults>>

-----------------------------------------------------------------------------
(***************************************************************************)
(* Edited periods replace the loaded ones of the same key.                 *)
(***************************************************************************)
apply_period_edits(edits) ==
    periods' = [key \in DOMAIN periods |->
                   IF key \in DOMAIN edits THEN edits[key] ELSE periods[key]]

(***************************************************************************)
(* The rest of the machine.                                                *)
(***************************************************************************)
\* Files change before the first load of a session, and at any point of it
\* under "change_in_session".
ChangeFile ==
    /\ loadedPaths = Nothing \/ "change_in_session" \in faults
    /\ changes < MaxChanges /\ "edits" \notin faults
    /\ \E path \in Paths : \E content \in ContentsOf(path) \ {file[path]} :
          /\ file' = [file EXCEPT ![path] = content]
          /\ seen' = IF path = request.path THEN seen \cup {content} ELSE seen
    /\ changes' = changes + 1
    /\ UNCHANGED <<state, loadedPaths, cache, shown, pc, request, outcome, loads, restarts, faults>>

\* The cache file is deleted or damaged: load returns None.
LoseCache ==
    /\ pc = "idle" /\ cache # NoCache /\ changes < MaxChanges /\ "edits" \notin faults
    /\ cache' = NoCache
    /\ changes' = changes + 1
    /\ UNCHANGED <<file, state, loadedPaths, shown, pc, request, outcome, seen, loads, restarts, faults>>

\* The application ends, at any point, and starts again.
Restart ==
    /\ restarts < MaxRestarts
    /\ restarts' = restarts + 1
    /\ courses' = Nothing /\ periods' = Nothing /\ loadedPaths' = Nothing
    /\ shown' = {} /\ pc' = "idle" /\ request' = NoLoad
    /\ outcome' = NoOutcome /\ seen' = {}
    /\ UNCHANGED <<file, cache, loads, changes, faults>>

Init ==
    /\ faults \in FaultScenarios
    /\ file \in {f \in [Paths -> UNION {ContentsOf(p) : p \in Paths}] :
                    \A p \in Paths : f[p] \in ContentsOf(p)}
    /\ courses = Nothing /\ periods = Nothing /\ loadedPaths = Nothing
    /\ cache = NoCache
    /\ shown = {} /\ pc = "idle" /\ request = NoLoad
    /\ outcome = NoOutcome /\ seen = {}
    /\ loads = 0 /\ changes = 0 /\ restarts = 0

LoadSteps == LoadCache \/ MissCache \/ ParseFails \/ ParseAndMerge \/ Persist \/ PersistFails
Next == StartLoad \/ LoadSteps \/ ChangeFile \/ LoseCache \/ Restart

Spec == Init /\ [][Next]_vars

-----------------------------------------------------------------------------
(***************************************************************************)
(* Properties.                                                             *)
(***************************************************************************)
CourseMaps == UNION {[ids -> UNION {Range(c) : c \in CourseContents}] :
                        ids \in SUBSET UNION {DOMAIN c : c \in CourseContents}}
Types == {"courses", "periods"}

\* Every variable has its type; a cache names at most one file of each type.
TypeOK ==
    /\ \A p \in Paths : file[p] \in ContentsOf(p)
    /\ courses \in CourseMaps /\ cache.courses \in CourseMaps
    /\ \A p \in Range(periods) \cup Range(cache.periods) : p.start < p.end
    /\ DOMAIN loadedPaths \subseteq Types
    /\ \A t \in DOMAIN loadedPaths : loadedPaths[t] \in Paths /\ TypeOf(loadedPaths[t]) = t
    /\ \A p, q \in DOMAIN cache.hashes : p # q => TypeOf(p) # TypeOf(q)
    /\ shown \subseteq Types
    /\ pc \in {"idle", "cache", "parse", "persist"}
    /\ pc # "idle" => /\ request \in {Load(p, m) : p \in Paths, m \in Modes}
                      /\ loadedPaths[TypeOf(request.path)] = request.path
                      /\ outcome = NoOutcome
    /\ pc = "idle" => request = NoLoad

\* content is in the data: every course in the very version, every period
\* with its range and at least the excluded dates that lie in it.
InRange(p) == {d \in p.excluded : p.start <= d /\ d <= p.end}
HoldsCourses(data, content) ==
    \A id \in DOMAIN content : id \in DOMAIN data /\ data[id] = content[id]
HoldsPeriods(data, content) ==
    \A key \in DOMAIN content :
        /\ key \in DOMAIN data
        /\ data[key].start = content[key].start /\ data[key].end = content[key].end
        /\ InRange(content[key]) \subseteq data[key].excluded
Holds(cs, ps, type, content) ==
    /\ content \notin {Broken, Missing}
    /\ IF type = "courses" THEN HoldsCourses(cs, content) ELSE HoldsPeriods(ps, content)

Without(kinds) == faults \cap kinds = {}
Succeeded(mode) == outcome.status = "success" /\ outcome.load.mode \in mode
LoadedType == TypeOf(outcome.load.path)

\* A load that reports success has left in the state what its file held at
\* some point of the load, whether it was parsed or the cache answered for it:
\* "we must avoid using outdated data".
SuccessIsCurrent ==
    Succeeded(Modes) =>
        \E content \in seen : Holds(courses, periods, LoadedType, content)

\* That is so when every file parses, files change between sessions only and
\* the user edits nothing.
SuccessMeansLoaded ==
    Without({"broken_file", "change_in_session", "edits"}) => SuccessIsCurrent

\* A REPLACE leaves what its file held and nothing else, whatever the cache
\* says: "REPLACE must always parse fresh".
ReplaceIsFresh ==
    Succeeded({"replace"}) =>
        (IF LoadedType = "courses" THEN courses ELSE periods) \in seen

\* The cache holds the data of every file whose hash it carries: when every
\* file parses, files change between sessions only and the user edits nothing.
CacheHoldsItsFiles ==
    Without({"broken_file", "change_in_session", "edits"}) =>
      \A p \in DOMAIN cache.hashes :
          Holds(cache.courses, cache.periods, TypeOf(p), cache.hashes[p])

\* An UPDATE merges on top: what it does not load it leaves as it is.  It
\* touches the data of its own type only, drops no course, no period and no
\* excluded date of a period that stays in range.  That holds as long as the
\* cache is written after every merge and holds the edits, and no path is
\* remembered whose file does not parse: the cache may hold data of that type.
KeepsCourses == DOMAIN courses \subseteq DOMAIN courses'
KeepsPeriods ==
    \A key \in DOMAIN periods :
        /\ key \in DOMAIN periods'
        /\ {d \in periods[key].excluded : periods'[key].start <= d /\ d <= periods'[key].end}
              \subseteq periods'[key].excluded
Merges ==
    IF TypeOf(request.path) = "courses"
    THEN KeepsCourses /\ periods' = periods
    ELSE KeepsPeriods /\ courses' = courses
UpdateMerges ==
    [][Without({"write", "missing_file", "broken_file", "edits"}) =>
        ((LoadCache \/ ParseAndMerge) /\ request.mode = "update" => Merges)]_vars
=============================================================================
