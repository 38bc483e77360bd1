--------------------------- MODULE MCResultBrowsing ---------------------------
(***************************************************************************)
(* Two runs, three schedules and two criteria: the second criterion breaks *)
(* the tie of the first.                                                   *)
(***************************************************************************)
EXTENDS ResultBrowsing

ScoreOf ==
    [s \in {"s1", "s2", "s3"} |->
        [c \in {"gap", "spread"} |->
            IF c = "gap" THEN (IF s = "s3" THEN 2 ELSE 1) ELSE (IF s = "s1" THEN 1 ELSE 2)]]

UserOrders == {<<>>, <<"gap", "spread">>}

FoundBatches == {<<>>, <<<<"s1">>, <<"s2", "s3">>>>}

=============================================================================
