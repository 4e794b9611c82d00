---------------------------- MODULE GoalLifecycle ----------------------------
(***************************************************************************)
(* The statuses of a goal and the moves models.py allows between them.     *)
(* Every write of goals.status, by the normal runtime (GoalStore) and by   *)
(* an Ultra run (UltraRun), goes through this table.                       *)
(***************************************************************************)

GoalGraph ==
    [NEW         |-> {"DISCOVERING", "AWAITING", "PAUSED", "CANCELLED"},
     DISCOVERING |-> {"AWAITING", "PAUSED", "RECOVERING", "CANCELLED"},
     AWAITING    |-> {"RUNNING", "REVISING", "PAUSED", "CANCELLED"},
     RUNNING     |-> {"REVISING", "VERIFYING", "PAUSED", "RECOVERING", "BLOCKED", "CANCELLED"},
     REVISING    |-> {"AWAITING", "RUNNING", "PAUSED", "RECOVERING", "CANCELLED"},
     VERIFYING   |-> {"REVIEWING", "RUNNING", "REVISING", "PAUSED", "RECOVERING", "BLOCKED",
                      "CANCELLED"},
     REVIEWING   |-> {"COMPLETED", "RUNNING", "REVISING", "PAUSED", "RECOVERING", "BLOCKED",
                      "CANCELLED"},
     PAUSED      |-> {"DISCOVERING", "AWAITING", "RUNNING", "REVISING", "VERIFYING", "REVIEWING",
                      "RECOVERING", "BLOCKED", "CANCELLED"},
     RECOVERING  |-> {"RUNNING", "REVISING", "VERIFYING", "REVIEWING", "PAUSED", "BLOCKED",
                      "CANCELLED"},
     BLOCKED     |-> {"RUNNING", "REVISING", "PAUSED", "RECOVERING", "CANCELLED"},
     COMPLETED   |-> {},
     CANCELLED   |-> {}]

GoalStatus ==
    {"NEW", "DISCOVERING", "AWAITING", "RUNNING", "REVISING", "VERIFYING", "REVIEWING",
     "PAUSED", "RECOVERING", "BLOCKED", "COMPLETED", "CANCELLED"}

Terminal == {"COMPLETED", "CANCELLED"}

\* Staying put is always legal.
GoalMay(from, to) == from = to \/ to \in GoalGraph[from]

=============================================================================
