------------------------------ MODULE JobStates ------------------------------
(***************************************************************************)
(* The states of a CodePlane job and the transition table that             *)
(* validate_state_transition() enforces (backend/models/domain.py).        *)
(***************************************************************************)

\* A job that has no row yet: the table's None.
Unborn == "none"

JobState ==
    {"preparing", "queued", "running", "waiting_for_approval",
     "review", "completed", "failed", "canceled"}

TERMINAL_STATES == {"completed", "failed", "canceled"}

\* The states resume_job accepts: TERMINAL_STATES | {review}.
ResumableStates == TERMINAL_STATES \cup {"review"}

\* The states a session is in flight in: the ones recovery looks for and
\* _ensure_terminal_state treats as stuck.
InFlightStates == {"running", "waiting_for_approval"}

\* claim_for_start's WHERE clause: every state but preparing and
\* waiting_for_approval.
ClaimableStates == ResumableStates \cup {"queued", "running"}

\* _VALID_TRANSITIONS without its row for None.
ValidTransitions ==
       {"preparing"} \X {"queued", "failed", "canceled"}
  \cup {"queued"} \X {"running", "canceled"}
  \cup {"running"} \X {"waiting_for_approval", "review", "failed", "canceled"}
  \cup {"waiting_for_approval"} \X {"running", "failed", "canceled"}
  \cup {"review"} \X {"running", "completed", "canceled"}
  \cup TERMINAL_STATES \X {"running"}

\* validate_state_transition: the negation of raising.
CanTransition(from, to) == <<from, to>> \in ValidTransitions

\* The state a validated transition leaves: the old one when it is refused.
TransitionOr(from, to) == IF CanTransition(from, to) THEN to ELSE from
==============================================================================
