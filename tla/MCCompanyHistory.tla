-------------------------- MODULE MCCompanyHistory --------------------------
(***************************************************************************)
(* An instance of CompanyHistory.  Four days in three months let two       *)
(* months be over, one of them with two days; of two Events of one day the *)
(* later, which breaks its own label, may heal what the earlier missed or  *)
(* garble it; people write about the Event without a summary; the date of  *)
(* old is over before Company History starts.                              *)
(***************************************************************************)
EXTENDS HistoryStatus, Sequences, TLC

CONSTANTS a, b, bare, old, one, nothing

FourDays == <<1, 1, 2, 3>>
EventDates == a :> 1 @@ b :> 1 @@ bare :> 3 @@ old :> 0
=============================================================================
