--------------------------- MODULE PolicyContract ---------------------------
(***************************************************************************)
(* What the action policy promises of the tool calls of a job, whatever    *)
(* its savepoints, monitor, batches and trust grants do: a call goes ahead *)
(* because its verdict is advisory, because its reason was waived, because *)
(* the monitor may speak for it, because the operator said yes, or because *)
(* a trust grant found it open.  A security-critical reason is never waived *)
(* and never the monitor's: a grant does nothing for a call that comes     *)
(* after it.                                                               *)
(***************************************************************************)
CONSTANTS
    Actions,        \* tool calls
    Reasons,        \* reason codes of the governance rules
    ReasonOf,       \* the reason code of each call
    Critical,       \* SECURITY_CRITICAL_REASON_CODES
    VerdictOf       \* what the rules recommend for each reason

VARIABLES
    status,         \* what became of each call
    answer,         \* what the operator said of it, or a trust grant
    waived          \* the reasons a trust grant waives

Answers == {"none", "yes", "no", "trusted"}

Init ==
    /\ status = [a \in Actions |-> "new"]
    /\ answer = [a \in Actions |-> "none"]
    /\ waived = {}

Advisory(r) == VerdictOf[r] \in {"allow", "warn"}

\* The rules, a waiver or the monitor let a call with this reason go ahead.
NeedsNoOperator(r) ==
    \/ Advisory(r)
    \/ r \in waived
    \/ VerdictOf[r] = "escalate" /\ r \notin Critical

Open(a) ==
    /\ status[a] = "new"
    /\ status' = [status EXCEPT ![a] = "open"]
    /\ UNCHANGED <<answer, waived>>

\* A waived or harmless call goes ahead as soon as it is asked.
LetGoAtOnce(a) ==
    /\ status[a] = "new"
    /\ NeedsNoOperator(ReasonOf[a])
    /\ status' = [status EXCEPT ![a] = "go"]
    /\ UNCHANGED <<answer, waived>>

LetGo(a) ==
    /\ status[a] = "open"
    /\ NeedsNoOperator(ReasonOf[a]) \/ answer[a] \in {"yes", "trusted"}
    /\ status' = [status EXCEPT ![a] = "go"]
    /\ \E R \in SUBSET ({ReasonOf[a]} \ Critical) : waived' = waived \cup R
    /\ UNCHANGED answer

Refuse(a) ==
    /\ status[a] \in {"new", "open"}
    /\ status' = [status EXCEPT ![a] = "no"]
    /\ UNCHANGED <<answer, waived>>

\* Open calls nobody has answered are answered together.
Answered(S, said) ==
    /\ \A a \in S : status[a] = "open" /\ answer[a] = "none"
    /\ answer' = [a \in Actions |-> IF a \in S THEN said ELSE answer[a]]
    /\ UNCHANGED status

\* The operator answers.
Answer(S) ==
    /\ \E said \in {"yes", "no"} : Answered(S, said)
    /\ UNCHANGED waived

\* A trust grant takes up what is open and waives what may be waived.
Trust(S) ==
    /\ Answered(S, "trusted")
    /\ waived' = waived \cup (Reasons \ Critical)

Next ==
    \/ \E a \in Actions : Open(a) \/ LetGoAtOnce(a) \/ LetGo(a) \/ Refuse(a)
    \/ \E S \in SUBSET Actions : Answer(S) \/ Trust(S)

Spec == Init /\ [][Next]_<<status, answer, waived>>
=============================================================================
