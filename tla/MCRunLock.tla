---------------------------- MODULE MCRunLock ------------------------------
(***************************************************************************)
(* Instances of RunLock for TLC.  Pids are interchangeable where liveness  *)
(* is not checked.  A process that creates a file refers to none, every    *)
(* other one to at most three (mine, seen, checked), so                    *)
(* 3 * (processes - 1) + 1 identities never refuse a creation.             *)
(***************************************************************************)
EXTENDS RunLock, TLC

Symmetry == Permutations(Proc)

=============================================================================
