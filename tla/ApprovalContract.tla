-------------------------- MODULE ApprovalContract --------------------------
(***************************************************************************)
(* What ApprovalService promises, without the rows, futures, locks and     *)
(* tasks it is made of: a request is answered at most once, and whoever    *)
(* made it hears that answer and nothing else, or is let go unanswered.    *)
(***************************************************************************)
CONSTANT Approvals

VARIABLES
    verdict,    \* the answer on record
    told        \* what the permission callback that asked has been told

promise == <<verdict, told>>

Answers == {"approved", "rejected"}

ContractInit ==
    /\ verdict = [a \in Approvals |-> "none"]
    /\ told = [a \in Approvals |-> "idle"]

Submit(a) ==
    /\ verdict[a] = "none"
    /\ told[a] = "idle"
    /\ verdict' = [verdict EXCEPT ![a] = "pending"]
    /\ told' = [told EXCEPT ![a] = "asking"]

\* One answer, or one for several requests at once.
Answer(some, answer) ==
    /\ \A a \in some : verdict[a] = "pending"
    /\ verdict' = [a \in Approvals |-> IF a \in some THEN answer ELSE verdict[a]]
    /\ UNCHANGED told

Tell(a) ==
    /\ told[a] = "asking"
    /\ verdict[a] \in Answers
    /\ told' = [told EXCEPT ![a] = verdict[a]]
    /\ UNCHANGED verdict

\* The session, or the backend, ended before the answer was heard.
LetGo(some) ==
    /\ \A a \in some : told[a] = "asking"
    /\ told' = [a \in Approvals |-> IF a \in some THEN "canceled" ELSE told[a]]
    /\ UNCHANGED verdict

ContractNext ==
    \/ \E a \in Approvals : Submit(a) \/ Tell(a)
    \/ \E some \in SUBSET Approvals :
          LetGo(some) \/ \E answer \in Answers : Answer(some, answer)

ContractSpec == ContractInit /\ [][ContractNext]_promise
=============================================================================
