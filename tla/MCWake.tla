------------------------------- MODULE MCWake -------------------------------
(* Model values and bounds for checking Wake. *)
EXTENDS Wake

\* One row for each way an agent is reached, and one that cannot be.
MCRows ==
  {[type |-> "claude-code", linked |-> TRUE, pane |-> FALSE],
   [type |-> "codex", linked |-> TRUE, pane |-> TRUE],
   [type |-> "opencode", linked |-> TRUE, pane |-> TRUE],
   [type |-> "other", linked |-> FALSE, pane |-> TRUE],
   [type |-> "other", linked |-> FALSE, pane |-> FALSE]}
=============================================================================
