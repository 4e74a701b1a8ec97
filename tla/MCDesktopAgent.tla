--------------------------- MODULE MCDesktopAgent --------------------------
(***************************************************************************)
(* The instance of AgentStatus for TLC: a is a Signal of the first date, c *)
(* one of the next.  Of both an Event can be made; that either is judged   *)
(* unusable all the same covers a Signal of which none can.                *)
(***************************************************************************)
EXTENDS AgentStatus, TLC

CONSTANTS a, c

Signals == {a, c}
Dates == a :> 1 @@ c :> 2

=============================================================================
