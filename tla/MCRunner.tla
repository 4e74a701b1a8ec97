------------------------------ MODULE MCRunner ------------------------------
(***************************************************************************)
(* An instance of Runner for TLC.  Three run ids: two processes, and one   *)
(* that the manifest or the pending file still speaks of.                 *)
(***************************************************************************)
EXTENDS Runner
=============================================================================
