--------------------------- MODULE MCControlTower ---------------------------
(***************************************************************************)
(* Three names, two projects, two teams, a day of two instants.  With a    *)
(* budget of three there are three files, or two files and one thing more  *)
(* (a Daily, commits), or one file and a page, and so on.                  *)
(***************************************************************************)
EXTENDS NotionPages, TLC

CONSTANTS projectA, projectB, backend, coo, desktop1, desktop4

E(i, at, t, s, r, d, p) ==
    [id |-> i, at |-> at, type |-> t, status |-> s, role |-> r, source |-> d, project |-> p]

A(i, t, s) == E(i, i, t, s, backend, desktop1, projectA)
Events ==
    {A(1, "BLOCKED", "BLOCKED"), A(1, "ISSUE_RAISED", "AT_RISK"),
     A(1, "DECISION_REQUIRED", "IN_PROGRESS"),
     A(2, "RESUMED", "IN_PROGRESS"), A(2, "ASSIGNED", "IN_PROGRESS"),
     A(2, "ISSUE_RESOLVED", "BLOCKED"), A(2, "DECISION_APPROVED", "COMPLETED"),
     E(2, 1, "COMPLETED", "COMPLETED", backend, desktop1, projectA),
     A(3, "BLOCKED", "BLOCKED"), A(3, "EXECUTED", "CANCELLED"),
     E(1, 4, "EXECUTED", "COMPLETED", backend, desktop1, projectA),
     E(3, 4, "CANCELLED", "CANCELLED", backend, desktop1, projectA),
     E(1, 0, "ISSUE_RAISED", "AT_RISK", coo, desktop4, projectB),
     E(2, 2, "BLOCKED", "BLOCKED", coo, desktop1, projectB),
     E(3, 3, "RESUMED", "IN_PROGRESS", coo, desktop4, projectB)}

RoleOfs == desktop1 :> backend @@ desktop4 :> coo
Windows == {Forever, [since |-> 1, until |-> EndOfTime], [since |-> 0, until |-> 0],
            [since |-> 1, until |-> 1]}
Sketches == {[id |-> 1, at |-> 4, source |-> desktop1],
             [id |-> NoFile, at |-> Unreadable, source |-> desktop4]}
Logs == {[commits |-> 3, files |-> 1, authors |-> 1]}
Headings == projectA :> "Same" @@ projectB :> "Same"
=============================================================================
