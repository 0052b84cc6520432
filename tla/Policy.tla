-------------------------------- MODULE Policy --------------------------------
(***************************************************************************)
(* The action policy of one job: PolicyRouter and ApprovalBatcher          *)
(* (backend/services/action_policy/), the trust grants of the governance   *)
(* decider, the permission callbacks of the adapter that ask               *)
(* (_evaluate_permission in backend/services/adapters/base_adapter.py) and *)
(* the operator's answers (resolve_policy_batch and trust_job_policy in    *)
(* backend/services/runtime/service.py).                                   *)
(*                                                                         *)
(* A call that the rules gate takes a savepoint, may be judged by the      *)
(* monitor, and then joins the job's batch, whose members share one        *)
(* future.  The batch is shown to the operator when its first call enters  *)
(* it and, when more have come, again when its window closes.  Each start  *)
(* of the job makes a router and a batcher of its own, which its calls     *)
(* still hold after the cleanup has dropped them; what was granted is      *)
(* durable.  A batch is named by the call that opened it.                  *)
(***************************************************************************)
EXTENDS Naturals

CONSTANTS
    Actions,        \* the tool calls of the job's agents
    Reasons,        \* reason codes
    ReasonOf,       \* the reason code of each call, internal_error for one
                    \* whose classification raises
    VerdictOf,      \* the recommendation of the rule with that reason
    Critical,       \* SECURITY_CRITICAL_REASON_CODES
    NoBatch,        \* no batch
    Env,            \* what happens besides calls and answers
    MaxRounds       \* bound: starts of the job

Gates == {"escalate", "deny"}

ASSUME ReasonAssumption ==
    /\ ReasonOf \in [Actions -> Reasons]
    /\ VerdictOf \in [Reasons -> {"allow", "warn"} \cup Gates]
ASSUME CriticalAssumption ==
    /\ Critical \subseteq Reasons
    /\ \A r \in Critical : VerdictOf[r] \in Gates
ASSUME NoBatchAssumption == NoBatch \notin Actions
ASSUME BoundAssumption == MaxRounds \in Nat
ASSUME EnvAssumption == Env \subseteq {"trust", "abort"}

VARIABLES
    act,            \* what the permission callback of each call has come to
    round,          \* starts of the job so far
    job,            \* "live", "aborting" until its cleanup, "off" after it
    asked,          \* the round each call was made in
    inBatch,        \* the batch each call waits for
    jobBatch,       \* the batch each round's batcher has in its registries
    future,         \* Batch._future: open, or its result
    shown,          \* what the last batch_approval_requested event listed
    timer,          \* batches whose window is running
    trust,          \* reason codes waived, in the governance store
    late            \* history: calls that came to a batcher already dropped

vars == <<act, round, job, asked, inBatch, jobBatch, future, shown, timer,
          trust, late>>

call == <<act, asked, inBatch, late>>
batcher == <<jobBatch, timer>>
run == <<round, job>>

\* A rollback is answered like a rejection.  An approval in part is one of
\* every call of the batch that waives nothing: the ids it names are not
\* looked at.
Resolutions == {"approved", "partial", "rejected"}
Yes == {"approved", "partial"}

\* Approved too, but by trust_job_policy: the name keeps apart who answered.
ByTrust == "trusted"
Results == Resolutions \cup {ByTrust}

Decided == {"allowed", "denied", "canceled"}

TypeOK ==
    /\ act \in [Actions -> Decided \cup {"idle", "warned", "gated", "judged",
                                         "batched"}]
    /\ round \in 0 .. MaxRounds
    /\ job \in {"live", "aborting", "off"}
    /\ asked \in [Actions -> 0 .. MaxRounds]
    /\ inBatch \in [Actions -> Actions \cup {NoBatch}]
    /\ jobBatch \in [0 .. MaxRounds -> Actions \cup {NoBatch}]
    /\ future \in [Actions -> Results \cup {"none", "open", "canceled"}]
    /\ shown \in [Actions -> SUBSET Actions]
    /\ timer \subseteq Actions
    /\ trust \subseteq Reasons
    /\ late \subseteq Actions

Init ==
    /\ act = [a \in Actions |-> "idle"]
    /\ round = 0
    /\ job = "off"
    /\ asked = [a \in Actions |-> 0]
    /\ inBatch = [a \in Actions |-> NoBatch]
    /\ jobBatch = [r \in 0 .. MaxRounds |-> NoBatch]
    /\ future = [a \in Actions |-> "none"]
    /\ shown = [a \in Actions |-> {}]
    /\ timer = {}
    /\ trust = {}
    /\ late = {}

Members(b) == {a \in Actions : inBatch[a] = b}

\* The router and the batcher of the round a call was made in are still the
\* job's.
HasRouter(a) == asked[a] = round /\ job # "off"

-----------------------------------------------------------------------------
(* The permission callback: _evaluate_permission and PolicyRouter.route.   *)

\* What the router does at once with the verdict on a reason code.
Enforced(r) ==
    CASE r \in trust \/ VerdictOf[r] = "allow" -> "allowed"
      [] r \notin trust /\ VerdictOf[r] = "warn" -> "warned"
      [] OTHER -> "gated"

\* A call is classified; one whose classification fails has a reason that
\* gates it.  A paused session denies before it comes to this.
Ask(a) ==
    /\ act[a] = "idle"
    /\ job = "live"
    /\ act' = [act EXCEPT ![a] = Enforced(ReasonOf[a])]
    /\ asked' = [asked EXCEPT ![a] = round]
    /\ UNCHANGED <<run, inBatch, batcher, future, shown, trust, late>>

\* The savepoint of an advisory verdict is taken; the call goes ahead.
Warned(a) ==
    /\ act[a] = "warned"
    /\ act' = [act EXCEPT ![a] = "allowed"]
    /\ UNCHANGED <<run, asked, inBatch, batcher, future, shown, trust, late>>

\* Mutant: the monitor is asked about every escalation.
MonitorTakesAny(a) == HasRouter(a) /\ VerdictOf[ReasonOf[a]] = "escalate"

\* monitor_eligible; cleanup_job of the router drops the monitor.
MonitorEligible(a) ==
    /\ HasRouter(a)
    /\ VerdictOf[ReasonOf[a]] = "escalate"
    /\ ReasonOf[a] \notin Critical

\* submit_and_wait: the call joins the batch of its round's batcher, or opens
\* one, which is shown at once.  A batcher that was dropped does all of that
\* too, but no answer is looked up in it any more.
Submit(a) ==
    LET r == asked[a]
        open == jobBatch[r] # NoBatch
        b == IF open THEN jobBatch[r] ELSE a
    IN  /\ act' = [act EXCEPT ![a] = "batched"]
        /\ inBatch' = [inBatch EXCEPT ![a] = b]
        /\ jobBatch' = [jobBatch EXCEPT ![r] = b]
        /\ future' = [future EXCEPT ![b] = IF @ = "none" THEN "open" ELSE @]
        /\ shown' = IF open THEN shown ELSE [shown EXCEPT ![b] = {a}]
        /\ timer' = IF open THEN timer \cup {b} ELSE timer
        /\ late' = IF HasRouter(a) THEN late ELSE late \cup {a}

\* The savepoint of a gated call is taken.
Gated(a) ==
    /\ act[a] = "gated"
    /\ \/ /\ ~MonitorEligible(a)
          /\ Submit(a)
       \/ /\ MonitorEligible(a)
          /\ act' = [act EXCEPT ![a] = "judged"]
          /\ UNCHANGED <<inBatch, batcher, future, shown, late>>
    /\ UNCHANGED <<run, asked, trust>>

\* The monitor approves, rejects, or leaves it to the operator; it
\* escalates when it fails.
MonitorSays(a) ==
    /\ act[a] = "judged"
    /\ \/ /\ \E verdict \in {"allowed", "denied"} :
               act' = [act EXCEPT ![a] = verdict]
          /\ UNCHANGED <<inBatch, batcher, future, shown, late>>
       \/ Submit(a)
    /\ UNCHANGED <<run, asked, trust>>

\* Mutant: an approval waives the reason whatever it is.
WaiveAnyReason(a) == trust \cup {ReasonOf[a]}

\* grant_trust refuses security-critical reason codes.
WaiveReason(a) == trust \cup ({ReasonOf[a]} \ Critical)

\* The waiter of a batch goes on.
Hear(a) ==
    /\ act[a] = "batched"
    /\ LET said == future[inBatch[a]]
       IN  /\ said # "open"
           /\ act' = [act EXCEPT ![a] =
                        CASE said \in Yes \cup {ByTrust} -> "allowed"
                          [] said = "canceled" -> "canceled"
                          [] OTHER -> "denied"]
           /\ trust' = IF said \in {"approved", ByTrust} THEN WaiveReason(a)
                                                       ELSE trust
    /\ UNCHANGED <<run, asked, inBatch, batcher, future, shown, late>>

\* A callback whose agent is being stopped, or was, may be canceled.  It
\* takes the future it awaits with it; the batch stays where it is.
CancelCallback(a) ==
    /\ act[a] \in {"warned", "gated", "judged", "batched"}
    /\ asked[a] < round \/ job # "live"
    /\ act' = [act EXCEPT ![a] = "canceled"]
    /\ future' = IF act[a] = "batched" /\ future[inBatch[a]] = "open"
                 THEN [future EXCEPT ![inBatch[a]] = "canceled"]
                 ELSE future
    /\ UNCHANGED <<run, asked, inBatch, batcher, shown, trust, late>>

-----------------------------------------------------------------------------
(* The batcher and the operator.                                           *)

\* A batch is in the registries of the batcher it was opened in.
Known(b) == jobBatch[asked[b]] = b

\* The window of a batch closes: it is shown unless it was resolved.
WindowCloses(b) ==
    /\ b \in timer
    /\ timer' = timer \ {b}
    /\ shown' = IF Known(b) THEN [shown EXCEPT ![b] = Members(b)] ELSE shown
    /\ UNCHANGED <<call, run, jobBatch, future, trust>>

\* Mutant: the future is looked up after the batch is gone.
SettlesNothing(b, resolution) == UNCHANGED future

\* The future of a batch is given its result, unless it was canceled.
Settle(b, resolution) ==
    future' = IF future[b] = "open" THEN [future EXCEPT ![b] = resolution]
                                    ELSE future

\* Mutant: the batch stays in its registries.
ForgetsNothing(b) == timer' = timer \ {b} /\ UNCHANGED jobBatch

\* A batch that is resolved or cleaned up leaves the registries.
Forget(b) ==
    /\ jobBatch' = [jobBatch EXCEPT ![round] = NoBatch]
    /\ timer' = timer \ {b}

\* resolve_policy_batch, for a batch the operator was shown.  An unknown
\* batch, or one of a batcher that was dropped, is refused.
ResolveBatch(b) ==
    /\ job # "off"
    /\ b = jobBatch[round]
    /\ shown[b] # {}
    /\ \E resolution \in Resolutions : Settle(b, resolution)
    /\ Forget(b)
    /\ UNCHANGED <<call, run, shown, trust>>

\* trust_job_policy: every reason that may be waived is, and the pending
\* batch of the job is approved.
TrustJob ==
    /\ "trust" \in Env
    /\ job # "off"
    /\ trust' = trust \cup (Reasons \ Critical)
    /\ \/ /\ jobBatch[round] # NoBatch
          /\ Settle(jobBatch[round], ByTrust)
          /\ Forget(jobBatch[round])
       \/ /\ jobBatch[round] = NoBatch
          /\ UNCHANGED <<batcher, future>>
    /\ UNCHANGED <<call, run, shown>>

-----------------------------------------------------------------------------
(* The life of the job.                                                    *)

\* _setup_action_policy, at the start and at every resume: a new batcher.
Begin ==
    /\ job = "off"
    /\ round < MaxRounds
    /\ round' = round + 1
    /\ job' = "live"
    /\ UNCHANGED <<call, batcher, future, shown, trust>>

\* The session ends: it finished, failed, or was aborted.
End ==
    /\ job = "live"
    /\ "abort" \in Env
    /\ job' = "aborting"
    /\ UNCHANGED <<call, round, batcher, future, shown, trust>>

\* Mutant: the router is dropped and its waiters are left alone.
DropRouter ==
    /\ job = "aborting"
    /\ job' = "off"
    /\ Forget(jobBatch[round])
    /\ UNCHANGED <<call, round, future, shown, trust>>

\* _cleanup_job_state: the router and the batcher leave the registries and
\* the waiters of a pending batch are canceled.
CleanUp ==
    LET b == jobBatch[round]
    IN  /\ job = "aborting"
        /\ job' = "off"
        /\ Forget(b)
        /\ future' = IF b # NoBatch /\ future[b] = "open"
                     THEN [future EXCEPT ![b] = "canceled"] ELSE future
        /\ UNCHANGED <<call, round, shown, trust>>

-----------------------------------------------------------------------------
Callback(a) ==
    \/ Warned(a)
    \/ Gated(a)
    \/ MonitorSays(a)
    \/ Hear(a)

Next ==
    \/ \E a \in Actions : Ask(a) \/ Callback(a) \/ CancelCallback(a)
    \/ \E b \in Actions : WindowCloses(b) \/ ResolveBatch(b)
    \/ TrustJob
    \/ Begin
    \/ End
    \/ CleanUp

Spec == Init /\ [][Next]_vars

\* Coroutines go on, a session that ends is cleaned up, and the operator
\* comes to every batch that is shown.
Fairness ==
    /\ \A a \in Actions : WF_vars(Callback(a))
    /\ \A b \in Actions : WF_vars(ResolveBatch(b))
    /\ WF_vars(CleanUp)

FairSpec == Spec /\ Fairness

-----------------------------------------------------------------------------
(* Safety.                                                                 *)

\* The operator said yes to the batch of a call.
OperatorSaidYes(a) == inBatch[a] # NoBatch /\ future[inBatch[a]] \in Yes

\* A trust grant of the whole job found the call waiting.
FoundByTrust(a) == inBatch[a] # NoBatch /\ future[inBatch[a]] = ByTrust

\* A call with a security-critical reason is held: it goes ahead only by the
\* operator's yes to its batch or, an exception a comment of the code denies
\* (TrustSparesCritical), by a trust grant that finds it waiting.  An earlier
\* grant, the monitor or a failure of the pipeline never lets it go.
CriticalIsHeld ==
    \A a \in Actions :
        act[a] = "allowed" /\ ReasonOf[a] \in Critical =>
            OperatorSaidYes(a) \/ FoundByTrust(a)

\* A call that waits while its session is there waits for the batch the
\* operator's answers go to.  One that still waits after the cleanup of its
\* session came to the batcher later than the cleanup: it may wait for ever.
WaitingCanBeAnswered ==
    \A a \in Actions :
        act[a] = "batched" /\ future[inBatch[a]] = "open" =>
            IF HasRouter(a) THEN jobBatch[round] = inBatch[a] ELSE a \in late

\* A call never joins a batch that was already answered: an old answer
\* does not speak for a new call.
NoStaleAnswer ==
    [][\A a \in Actions :
        act[a] # "batched" /\ act'[a] = "batched" =>
            future'[inBatch'[a]] \notin Results]_vars

\* Trusting a session lets no security-critical call go ahead.  False in the
\* code: trust_job_policy approves the pending batch, whatever is in it.
TrustSparesCritical ==
    \A a \in Actions :
        act[a] = "allowed" /\ FoundByTrust(a) => ReasonOf[a] \notin Critical

-----------------------------------------------------------------------------
(* The contract.                                                           *)

Status ==
    [a \in Actions |->
        CASE act[a] = "idle" -> "new"
          [] act[a] = "allowed" -> "go"
          [] act[a] \in {"denied", "canceled"} -> "no"
          [] OTHER -> "open"]

Answered ==
    [a \in Actions |->
        IF inBatch[a] = NoBatch
        THEN "none"
        ELSE CASE future[inBatch[a]] \in Yes -> "yes"
               [] future[inBatch[a]] = ByTrust -> "trusted"
               [] future[inBatch[a]] = "rejected" -> "no"
               [] OTHER -> "none"]

Contract == INSTANCE PolicyContract WITH
    status <- Status, answer <- Answered, waived <- trust

\* The router, batcher, monitor and grants keep what the policy promises.
ImplementsContract == Contract!Spec

-----------------------------------------------------------------------------
(* Liveness.                                                               *)

\* Every gated call is decided, but for one that comes to its batcher only
\* after the cleanup of its session has dropped it: that one may wait for
\* ever.
AsksAreDecided ==
    \A a \in Actions :
        act[a] \in {"warned", "gated", "judged", "batched"} ~>
            act[a] \in Decided \/ a \in late
=============================================================================
