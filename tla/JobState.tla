------------------------------ MODULE JobState ------------------------------
(***************************************************************************)
(* The worker's job state machine (crates/guestkit-worker/src/state.rs):   *)
(* the states, which of them are terminal and the transition table.        *)
(***************************************************************************)

States ==
  {"pending", "queued", "assigned", "running",
   "completed", "failed", "cancelled", "timeout"}

IsTerminal(s) == s \in {"completed", "failed", "cancelled", "timeout"}

\* A table that forgot the timeout row (mutant of TransitionTable).
TransitionTableNoTimeout ==
  ({"pending"}  \X {"queued", "failed"})
    \cup ({"queued"}   \X {"assigned", "cancelled", "failed"})
    \cup ({"assigned"} \X {"running", "cancelled", "failed"})
    \cup ({"running"}  \X {"completed", "failed", "cancelled"})

\* The (from, to) pairs of the match in is_valid_transition.
TransitionTable ==
  ({"pending"}  \X {"queued", "failed"})
    \cup ({"queued"}   \X {"assigned", "cancelled", "failed"})
    \cup ({"assigned"} \X {"running", "cancelled", "failed"})
    \cup ({"running"}  \X {"completed", "failed", "cancelled", "timeout"})

IsValidTransition(from, to) ==
  /\ ~IsTerminal(from)
  /\ <<from, to>> \in TransitionTable

=============================================================================
