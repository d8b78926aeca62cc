-------------------------- MODULE ActionLogClaims --------------------------
(***************************************************************************)
(* A statement the comments of action_log.rs make that its code does not   *)
(* keep.                                                                   *)
(***************************************************************************)
EXTENDS ActionLog

\* reject_edits_in_ranges "only delete[s] the file if we're certain it contains
\* only AI content with no edits from the user" (action_log.rs, Created without
\* existing content).  The check compares the buffer's version with the one
\* recorded at the agent's last read or edit, so a later read or edit of the agent
\* hides the user's, and the reject deletes the file with both.
DeletedOnlyIfAgentsOwn ==
  [][tracked # None /\ tracked' = None /\ disk /\ ~disk' /\ reviews' > reviews
       => byUser = {}]_vars
=============================================================================
