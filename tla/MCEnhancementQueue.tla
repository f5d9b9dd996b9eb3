-------------------------- MODULE MCEnhancementQueue --------------------------
(***************************************************************************)
(* EnhancementQueue on small instances: one workspace is a worktree of the *)
(* other.                                                                  *)
(***************************************************************************)
EXTENDS EnhancementQueue, TLC

CONSTANTS main, linked

OverlayOfMain == (main :> None) @@ (linked :> main)

Budget(on, fresh, battery, maxPending, requests, commands, edits, faults) ==
    [on |-> on, fresh |-> fresh, held |-> battery, maxPending |-> maxPending,
     requests |-> requests, commands |-> commands, edits |-> edits, faults |-> faults]

\* Two workspaces compete in the daemon, on battery; two updates at the limit of
\* the queue; a request and a fault; an update and a request; the daemon and a
\* command want the same workspace; a command reaches the base of a worktree,
\* with a fault.
SmallBudgets ==
    { Budget({main, linked}, TRUE, TRUE, 2, 2, 0, 0, 0),
      Budget({main, linked}, FALSE, FALSE, 1, 0, 0, 2, 0),
      Budget({main}, TRUE, TRUE, 1, 1, 0, 0, 1),
      Budget({main}, TRUE, FALSE, 1, 1, 0, 1, 0),
      Budget({main}, TRUE, FALSE, 1, 1, 1, 0, 0),
      Budget({linked}, TRUE, FALSE, 1, 0, 1, 0, 1) }

TwoUpdates == { Budget({main}, FALSE, FALSE, 1, 0, 0, 2, 0) }
================================================================================
