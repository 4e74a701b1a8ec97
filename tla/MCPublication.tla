--------------------------- MODULE MCPublication ---------------------------
(***************************************************************************)
(* Two projects, the second of which the company learns of in its second   *)
(* version; two failures and two interventions, enough for one to meet the *)
(* other in one row.                                                       *)
(***************************************************************************)
EXTENDS Publication

CONSTANTS alpha, beta

SourcedOf == <<{alpha}, {alpha, beta}>>
=============================================================================
