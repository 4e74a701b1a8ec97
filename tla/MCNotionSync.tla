---------------------------- MODULE MCNotionSync ---------------------------
(***************************************************************************)
(* Instances of NotionSync for TLC: three Events of one project, the first *)
(* two within a minute; the first reports a Blocker, the second solves it, *)
(* the third leaves it alone.                                              *)
(***************************************************************************)
EXTENDS NotionSync, TLC

CONSTANTS a, b, c, project

Events == {a, b, c}
Projects == a :> project @@ b :> project @@ c :> project
Times == a :> 11 @@ b :> 12 @@ c :> 20
Minutes == a :> 10 @@ b :> 10 @@ c :> 20
Blockers == a :> "sets" @@ b :> "clears" @@ c :> "leaves"
=============================================================================
