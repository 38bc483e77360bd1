---------------------------- MODULE ExclusiveRuns ----------------------------
(***************************************************************************)
(* What the persistent pool promises about the state its runs share (docs/ *)
(* concurrency-architecture.md 4.3 and 4.8): one run is open at a time, a  *)
(* run opens only when no worker serves an earlier one, a worker serves    *)
(* the open run only, and the results of a run are capped and final once   *)
(* the next run opened.  SchedulerPool implements this.                    *)
(***************************************************************************)
EXTENDS Naturals

CONSTANTS Workers, NumRuns, ResultLimit

VARIABLES
    current,   \* the open run, 0 before the first
    serving,   \* the run each worker serves, 0 for none
    results    \* results recorded for each run

vars == <<current, serving, results>>

Init ==
    /\ current = 0
    /\ serving = [w \in Workers |-> 0]
    /\ results = [r \in 1 .. NumRuns |-> 0]

Open(r) ==
    /\ current < r
    /\ \A w \in Workers : serving[w] = 0
    /\ current' = r
    /\ UNCHANGED <<serving, results>>

Join(w) ==
    /\ serving[w] = 0 /\ current # 0
    /\ serving' = [serving EXCEPT ![w] = current]
    /\ UNCHANGED <<current, results>>

Record(w) ==
    /\ serving[w] # 0 /\ results[current] < ResultLimit
    /\ results' = [results EXCEPT ![current] = @ + 1]
    /\ UNCHANGED <<current, serving>>

Leave(w) ==
    /\ serving[w] # 0
    /\ serving' = [serving EXCEPT ![w] = 0]
    /\ UNCHANGED <<current, results>>

Next == (\E r \in 1 .. NumRuns : Open(r))
        \/ \E w \in Workers : Join(w) \/ Record(w) \/ Leave(w)

Spec == Init /\ [][Next]_vars
=============================================================================
