--------------------------- MODULE MCSchedulerPool ---------------------------
(* Instances of SchedulerPool for TLC: see the .cfg files.                  *)
EXTENDS SchedulerPool, TLC

CONSTANTS p1, p2

\* Workers are interchangeable.  Used by runs without temporal properties.
WorkerSymmetry == Permutations(Workers)

=============================================================================
