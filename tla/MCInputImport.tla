---------------------------- MODULE MCInputImport ----------------------------
(***************************************************************************)
(* Small instances of InputImport: course files that disagree about a      *)
(* course, period files with overlapping ranges, one of them with          *)
(* an excluded date outside its range.                                     *)
(***************************************************************************)
EXTENDS InputImport

MCCourseContents == {"a" :> 1, "a" :> 2 @@ "b" :> 1}

DatesOf(start, end, excluded) == [start |-> start, end |-> end, excluded |-> excluded]
MCPeriodContents ==
    {"f1" :> DatesOf(1, 3, {2, 6}), "f1" :> DatesOf(2, 4, {3}) @@ "f2" :> DatesOf(5, 6, {})}

\* Nothing goes wrong, scenarios that each rule out some properties only, and
\* one in which the user does more than load.
MCScenarios ==
    {{}, {"write", "missing_file"}, {"change_in_session"}, {"broken_file"},
     {"missing_file", "change_in_session"}, {"edits", "blank_file"}}
MCChangesInSession == {{"change_in_session"}}
=============================================================================
