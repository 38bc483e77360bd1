---------------------------- MODULE MCClusterSession ----------------------------
(***************************************************************************)
(* Two runs, of at most four results; three of them make a sample, which   *)
(* leaves out the first one of four.                                       *)
(***************************************************************************)
EXTENDS ClusterSession

AppScreens == {"input", "output", "clusters", "detail", "compare", "overlay"}
RunCounts == <<{3, 4}, {1}>>
Draws == <<<<0>>, <<0, 1>>, <<0, 1, 2>>, <<1, 2, 3>>>>
\* Multiples of 6; of four schedules two that are sampled have the same score.
Scores == <<12, 0, 6, 0>>
TwoFamilies == [criteria |-> "core", k |-> 2]
Texts == {[criteria |-> "core", k |-> 3], [criteria |-> "other", k |-> 0]}
=============================================================================
