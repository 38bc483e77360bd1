---------------------------- MODULE MCInputScreen ----------------------------
(***************************************************************************)
(* Small instances of InputScreen over those of InputImport: a program for *)
(* every version of a course, of which one may be selected.                *)
(***************************************************************************)
EXTENDS InputScreen, MCInputImport

MCProgramOf == 1 :> "p" @@ 2 :> "q"

\* The two course files may hold the same contents.
Symmetry == Permutations(CourseFiles)
=============================================================================
