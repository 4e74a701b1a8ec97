----------------------------- MODULE MCIngest ------------------------------
(***************************************************************************)
(* An instance of Ingest for TLC.  f1 and f2 hold the same Event (one is a *)
(* conflict copy of the other) and f3 no valid one.                        *)
(***************************************************************************)
EXTENDS IngestStatus, TLC

CONSTANTS f1, f2, f3, e1

CopyEventIn == f1 :> e1 @@ f2 :> e1 @@ f3 :> Invalid
Review == e1 :> "REVIEW"
=============================================================================
