------------------------------ MODULE Approvals ------------------------------
(***************************************************************************)
(* Approval requests: ApprovalService (backend/services/job/               *)
(* approval_service.py), ApprovalRepository, the permission callbacks of   *)
(* the adapters that ask (backend/services/adapters/base_adapter.py) and   *)
(* the runtime's session loop that pauses the job for them                 *)
(* (_handle_approval_request in backend/services/runtime/service.py).      *)
(*                                                                         *)
(* A request has two waiters.  The permission callback creates it, puts an *)
(* event into the adapter's queue and waits; the session loop comes to     *)
(* that event later and waits for the same request, by id.  An answer is   *)
(* first committed to the row and then, a step later, given to the future. *)
(* Bodies under the service's lock never await, so each is one step.       *)
(***************************************************************************)
EXTENDS Naturals, Sequences

CONSTANTS
    Approvals,      \* approval requests
    Jobs,           \* the jobs whose agents make them
    JobOf,          \* the job of each request
    Explicit,       \* requests with requires_explicit_approval
    NoApproval,     \* no request
    Env,            \* what operators do besides answering
    MaxTails,       \* bound: cleanups under way when a session starts
    MaxRestarts     \* bound: restarts of the backend

ASSUME JobOfAssumption == JobOf \in [Approvals -> Jobs]
ASSUME ExplicitAssumption == Explicit \subseteq Approvals
ASSUME NoApprovalAssumption == NoApproval \notin Approvals
ASSUME BoundAssumption == MaxTails \in Nat /\ MaxRestarts \in Nat
ASSUME EnvAssumption == Env \subseteq {"trust", "cancel", "crash"}

VARIABLES
    row,            \* the resolution column of each request
    future,         \* the asyncio.Future of each request
    tracked,        \* the keys of _pending_futures and _approval_to_job
    explicitIds,    \* _explicit_approval_ids
    asker,          \* what the permission callback has come to
    events,         \* the adapter's queue: the requests of each job
    session,        \* the session loop of each job, and the request it is on
    outcome,        \* how the session of a job ended
    tails,          \* cleanups of ended sessions that have yet to come here
    orphaned,       \* history: requests whose session ended before the answer
    answering,      \* resolve() calls past their commit
    trusting,       \* the ids trust_job still has to resolve
    leftovers,      \* the ids each task of cleanup_job still has to reject
    boot,           \* recover_pending_approvals
    listed,         \* the requests it found pending
    restarts

vars == <<row, future, tracked, explicitIds, asker, events, session, outcome,
          tails, orphaned, answering, trusting, leftovers, boot, listed, restarts>>

service == <<future, tracked, explicitIds>>
ends == <<tails, orphaned>>
loops == <<events, session, outcome, ends>>
tasks == <<answering, trusting, leftovers>>
startup == <<boot, listed, restarts>>

Decisions == {"approved", "rejected"}

\* The session loop is running.
Live == {"reading", "entering", "waiting"}

NoSession == [pc |-> "off", on |-> NoApproval]

TypeOK ==
    /\ row \in [Approvals -> Decisions \cup {"none", "pending"}]
    /\ future \in [Approvals -> Decisions \cup {"none", "open", "canceled"}]
    /\ tracked \subseteq Approvals
    /\ explicitIds \subseteq Approvals
    /\ asker \in [Approvals -> Decisions \cup {"idle", "saved", "waiting",
                                               "canceled"}]
    /\ events \in [Jobs -> Seq(Approvals)]
    /\ session \in [Jobs -> [pc : Live \cup {"ending", "off"},
                             on : Approvals \cup {NoApproval}]]
    /\ outcome \in [Jobs -> {"open", "finished", "failed", "canceled"}]
    /\ tails \in [Jobs -> Nat]
    /\ orphaned \subseteq Approvals
    /\ answering \subseteq [approval : Approvals, by : {"operator", "trust"}]
    /\ trusting \in [Jobs -> SUBSET Approvals]
    /\ leftovers \in [Jobs -> SUBSET SUBSET Approvals]
    /\ boot \in {"list", "register", "done"}
    /\ listed \subseteq Approvals
    /\ restarts \in Nat

Init ==
    /\ row = [a \in Approvals |-> "none"]
    /\ future = [a \in Approvals |-> "none"]
    /\ tracked = {}
    /\ explicitIds = {}
    /\ asker = [a \in Approvals |-> "idle"]
    /\ events = [j \in Jobs |-> <<>>]
    /\ session = [j \in Jobs |-> NoSession]
    /\ outcome = [j \in Jobs |-> "open"]
    /\ tails = [j \in Jobs |-> 0]
    /\ orphaned = {}
    /\ answering = {}
    /\ trusting = [j \in Jobs |-> {}]
    /\ leftovers = [j \in Jobs |-> {}]
    /\ boot = "done"
    /\ listed = {}
    /\ restarts = 0

RequestsOf(j) == {a \in Approvals : JobOf[a] = j}

-----------------------------------------------------------------------------
(* The permission callback.                                                *)

\* create_request: the row is committed.
Ask(a) ==
    /\ row[a] = "none"
    /\ session[JobOf[a]].pc \in Live
    /\ row' = [row EXCEPT ![a] = "pending"]
    /\ asker' = [asker EXCEPT ![a] = "saved"]
    /\ UNCHANGED <<service, loops, tasks, startup>>

\* The future is registered, the event queued, the future looked up and
\* awaited: nothing in between suspends.  The queue of a session that has
\* ended is read by nobody.
Register(a) ==
    /\ asker[a] = "saved"
    /\ future' = [future EXCEPT ![a] = "open"]
    /\ tracked' = tracked \cup {a}
    /\ explicitIds' = IF a \in Explicit THEN explicitIds \cup {a}
                                        ELSE explicitIds
    /\ events' = IF a \in orphaned THEN events
                 ELSE [events EXCEPT ![JobOf[a]] = Append(@, a)]
    /\ asker' = [asker EXCEPT ![a] = "waiting"]
    /\ UNCHANGED <<row, session, outcome, ends, tasks, startup>>

\* The callback goes on with the decision, or with CancelledError.
AskerHears(a) ==
    /\ asker[a] = "waiting"
    /\ future[a] # "open"
    /\ asker' = [asker EXCEPT ![a] = future[a]]
    /\ UNCHANGED <<row, service, loops, tasks, startup>>

-----------------------------------------------------------------------------
(* Answers.                                                                *)

\* ApprovalRepository.resolve and the commit: the compare-and-swap.
Commit(a, decision, by) ==
    /\ row[a] = "pending"
    /\ row' = [row EXCEPT ![a] = decision]
    /\ answering' = answering \cup {[approval |-> a, by |-> by]}

\* The operator answers a request it can have been shown.  That an answer
\* gets in between the commit of a request and its registration, a few
\* turns of the event loop, is left out.
Resolve(a) ==
    /\ asker[a] # "saved"
    /\ \E decision \in Decisions : Commit(a, decision, "operator")
    /\ UNCHANGED <<service, asker, loops, trusting, leftovers, startup>>

\* Mutant: the future is forgotten when it is popped.
FinishResolveUnheard(call) ==
    /\ call \in answering
    /\ answering' = answering \ {call}
    /\ tracked' = tracked \ {call.approval}
    /\ explicitIds' = explicitIds \ {call.approval}
    /\ UNCHANGED <<row, future, asker, loops, trusting, leftovers, startup>>

\* The rest of resolve: pop the future and complete it.
FinishResolve(call) ==
    LET a == call.approval
    IN  /\ call \in answering
        /\ answering' = answering \ {call}
        /\ tracked' = tracked \ {a}
        /\ explicitIds' = explicitIds \ {a}
        /\ future' = [future EXCEPT ![a] =
                        IF a \in tracked /\ @ = "open" THEN row[a] ELSE @]
        /\ UNCHANGED <<row, asker, loops, trusting, leftovers, startup>>

\* trust_job: the pending ids of the job but for the explicit ones it knows.
Trust(j) ==
    /\ "trust" \in Env
    /\ trusting[j] = {}
    /\ trusting' = [trusting EXCEPT ![j] =
                      {a \in RequestsOf(j) : /\ a \in tracked \ explicitIds
                                             /\ future[a] = "open"}]
    /\ UNCHANGED <<row, service, asker, loops, answering, leftovers, startup>>

\* Its loop awaits one resolve() after the other; one that comes too late
\* is skipped.
TrustNext(j, a) ==
    /\ a \in trusting[j]
    /\ \A call \in answering : call.by = "trust" => JobOf[call.approval] # j
    /\ trusting' = [trusting EXCEPT ![j] = @ \ {a}]
    /\ \/ Commit(a, "approved", "trust")
       \/ row[a] \in Decisions /\ UNCHANGED <<row, answering>>
    /\ UNCHANGED <<service, asker, loops, leftovers, startup>>

-----------------------------------------------------------------------------
(* The session loop.                                                       *)

Step(j, pc, a) == session' = [session EXCEPT ![j] = [pc |-> pc, on |-> a]]

\* A first session, or the next one of a job that is resumed or recovered;
\* recover_on_startup recovers the approvals before any job.  A resume asks
\* only that _tasks does not hold the job: the cleanup of the session before
\* may not have come to cleanup_job yet.
StartSession(j) ==
    /\ boot = "done"
    /\ session[j].pc = "off"
    /\ tails[j] <= MaxTails
    /\ Step(j, "reading", NoApproval)
    /\ outcome' = [outcome EXCEPT ![j] = "open"]
    /\ UNCHANGED <<row, service, asker, events, ends, tasks, startup>>

\* The next event is a request: _handle_approval_request up to the commit of
\* waiting_for_approval and the publication.
TakeEvent(j) ==
    /\ session[j].pc = "reading"
    /\ events[j] # <<>>
    /\ events' = [events EXCEPT ![j] = Tail(@)]
    /\ Step(j, "entering", Head(events[j]))
    /\ UNCHANGED <<row, service, asker, outcome, ends, tasks, startup>>

\* wait_for_resolution: a request whose future is gone is
\* ApprovalNotFoundError, which _run_job answers with _fail_job.
BeginWait(j) ==
    LET a == session[j].on
    IN  /\ session[j].pc = "entering"
        /\ \/ /\ a \in tracked
              /\ Step(j, "waiting", a)
              /\ UNCHANGED outcome
           \/ /\ a \notin tracked
              /\ Step(j, "ending", NoApproval)
              /\ outcome' = [outcome EXCEPT ![j] = "failed"]
        /\ UNCHANGED <<row, service, asker, events, ends, tasks, startup>>

\* Mutant: every answer lets the session go on.
HearAnything(j) ==
    LET a == session[j].on
    IN  /\ session[j].pc = "waiting"
        /\ future[a] \in Decisions
        /\ Step(j, "reading", NoApproval)
        /\ UNCHANGED <<row, service, asker, events, outcome, ends, tasks, startup>>

\* Approved: back to running.  Rejected: the loop breaks off and the job
\* fails.  A future that cleanup_job canceled raises CancelledError in the
\* session, which _run_job takes for the operator's cancel.
Hear(j) ==
    LET a == session[j].on
    IN  /\ session[j].pc = "waiting"
        /\ \/ /\ future[a] = "approved"
              /\ Step(j, "reading", NoApproval)
              /\ UNCHANGED outcome
           \/ /\ future[a] = "rejected"
              /\ Step(j, "ending", NoApproval)
              /\ outcome' = [outcome EXCEPT ![j] = "failed"]
           \/ /\ future[a] = "canceled"
              /\ Step(j, "ending", NoApproval)
              /\ outcome' = [outcome EXCEPT ![j] = "canceled"]
        /\ UNCHANGED <<row, service, asker, events, ends, tasks, startup>>

\* The agent's stream ends or raises; what is left in the queue is dropped.
EndTurn(j) ==
    /\ session[j].pc = "reading"
    /\ Step(j, "ending", NoApproval)
    /\ outcome' = [outcome EXCEPT ![j] = "finished"]
    /\ UNCHANGED <<row, service, asker, events, ends, tasks, startup>>

\* task.cancel() on the session: it cancels the future the loop awaits,
\* which is also the one the permission callback awaits.
Cancel(j) ==
    /\ "cancel" \in Env
    /\ session[j].pc \in Live
    /\ Step(j, "ending", NoApproval)
    /\ outcome' = [outcome EXCEPT ![j] = "canceled"]
    /\ future' = [a \in Approvals |->
                    IF session[j] = [pc |-> "waiting", on |-> a]
                       /\ future[a] = "open"
                    THEN "canceled" ELSE future[a]]
    /\ UNCHANGED <<row, tracked, explicitIds, asker, events, ends, tasks, startup>>

\* _cleanup_job_state up to the line that frees _tasks: from here on the job
\* may be resumed, and what is left in the old adapter's queue is dropped.
Leave(j) ==
    /\ session[j].pc = "ending"
    /\ Step(j, "off", NoApproval)
    /\ events' = [events EXCEPT ![j] = <<>>]
    /\ tails' = [tails EXCEPT ![j] = @ + 1]
    /\ orphaned' = orphaned \cup {a \in RequestsOf(j) :
                                    asker[a] \in {"saved", "waiting"}}
    /\ UNCHANGED <<row, service, asker, outcome, tasks, startup>>

\* Mutant: the futures are popped but not canceled.
CleanupForgets(j) ==
    LET gone == {a \in RequestsOf(j) : a \in tracked /\ future[a] = "open"}
    IN  /\ tails[j] > 0
        /\ \A a \in RequestsOf(j) \cap orphaned : asker[a] # "saved"
        /\ tails' = [tails EXCEPT ![j] = @ - 1]
        /\ tracked' = tracked \ gone
        /\ explicitIds' = explicitIds \ gone
        /\ leftovers' = [leftovers EXCEPT ![j] = @ \cup ({gone} \ {{}})]
        /\ UNCHANGED <<row, future, asker, events, session, outcome, orphaned,
                       answering, trusting, startup>>

\* cleanup_job, after the postflight of the sidecars: by job, so a session
\* that was resumed meanwhile loses its requests too.  The futures that are
\* not done are canceled, and a task is to reject their rows.  A callback of
\* the ended session that has committed its row is taken to be registered by
\* then: the artifacts of the session come first.
Cleanup(j) ==
    LET gone == {a \in RequestsOf(j) : a \in tracked /\ future[a] = "open"}
    IN  /\ tails[j] > 0
        /\ \A a \in RequestsOf(j) \cap orphaned : asker[a] # "saved"
        /\ tails' = [tails EXCEPT ![j] = @ - 1]
        /\ tracked' = tracked \ gone
        /\ explicitIds' = explicitIds \ gone
        /\ future' = [a \in Approvals |-> IF a \in gone THEN "canceled"
                                                        ELSE future[a]]
        /\ leftovers' = [leftovers EXCEPT ![j] = @ \cup ({gone} \ {{}})]
        /\ UNCHANGED <<row, asker, events, session, outcome, orphaned,
                       answering, trusting, startup>>

\* Mutant: the rows are rejected whatever they hold.
RejectAnswered(j, gone) ==
    /\ gone \in leftovers[j]
    /\ row' = [a \in Approvals |-> IF a \in gone THEN "rejected" ELSE row[a]]
    /\ leftovers' = [leftovers EXCEPT ![j] = @ \ {gone}]
    /\ UNCHANGED <<service, asker, loops, answering, trusting, startup>>

\* _resolve_orphans, one transaction: only rows still pending are rejected.
RejectLeftovers(j, gone) ==
    /\ gone \in leftovers[j]
    /\ row' = [a \in Approvals |->
                 IF a \in gone /\ row[a] = "pending" THEN "rejected" ELSE row[a]]
    /\ leftovers' = [leftovers EXCEPT ![j] = @ \ {gone}]
    /\ UNCHANGED <<service, asker, loops, answering, trusting, startup>>

-----------------------------------------------------------------------------
(* Restarts.                                                               *)

\* The process is gone, with its futures, callbacks and sessions.
Restart ==
    /\ "crash" \in Env
    /\ restarts < MaxRestarts
    /\ restarts' = restarts + 1
    /\ future' = [a \in Approvals |-> "none"]
    /\ tracked' = {}
    /\ explicitIds' = {}
    /\ asker' = [a \in Approvals |-> IF asker[a] \in {"saved", "waiting"}
                                     THEN "canceled" ELSE asker[a]]
    /\ events' = [j \in Jobs |-> <<>>]
    /\ session' = [j \in Jobs |-> NoSession]
    /\ outcome' = [j \in Jobs |-> "open"]
    /\ tails' = [j \in Jobs |-> 0]
    /\ orphaned' = {}
    /\ answering' = {}
    /\ trusting' = [j \in Jobs |-> {}]
    /\ leftovers' = [j \in Jobs |-> {}]
    /\ boot' = "list"
    /\ listed' = {}
    /\ UNCHANGED row

\* recover_on_startup runs behind the API, which already takes requests.
ListPending ==
    /\ boot = "list"
    /\ boot' = "register"
    /\ listed' = {a \in Approvals : row[a] = "pending"}
    /\ UNCHANGED <<row, service, asker, loops, tasks, restarts>>

\* Futures for the rows it found; not the explicit ids.
RecoverPending ==
    /\ boot = "register"
    /\ boot' = "done"
    /\ future' = [a \in Approvals |-> IF a \in listed \ tracked THEN "open"
                                                              ELSE future[a]]
    /\ tracked' = tracked \cup listed
    /\ listed' = {}
    /\ UNCHANGED <<row, explicitIds, asker, loops, tasks, restarts>>

-----------------------------------------------------------------------------
Callback(a) == Ask(a) \/ Register(a) \/ AskerHears(a)

Loop(j) ==
    \/ StartSession(j) \/ TakeEvent(j) \/ BeginWait(j) \/ Hear(j) \/ EndTurn(j) \/ Cancel(j)
    \/ Leave(j) \/ Cleanup(j)
    \/ \E gone \in leftovers[j] : RejectLeftovers(j, gone)

Answering ==
    \/ \E a \in Approvals : Resolve(a)
    \/ \E call \in answering : FinishResolve(call)
    \/ \E j \in Jobs : Trust(j) \/ \E a \in Approvals : TrustNext(j, a)

Booting == Restart \/ ListPending \/ RecoverPending

Next ==
    \/ \E a \in Approvals : Callback(a)
    \/ \E j \in Jobs : Loop(j)
    \/ Answering
    \/ Booting

Spec == Init /\ [][Next]_vars

\* The event loop runs every coroutine that can go on.  Nothing is assumed of
\* the operator or the agent.
Fairness ==
    /\ \A a \in Approvals : WF_vars(Register(a)) /\ WF_vars(AskerHears(a))
    /\ WF_vars(\E call \in answering : FinishResolve(call))
    /\ \A j \in Jobs : WF_vars(Hear(j)) /\ WF_vars(Leave(j)) /\ WF_vars(Cleanup(j))

FairSpec == Spec /\ Fairness

-----------------------------------------------------------------------------
(* What the approvals promise.                                             *)

Contract ==
    INSTANCE ApprovalContract
        WITH verdict <- row,
             told <- [a \in Approvals |->
                        IF asker[a] \in {"saved", "waiting"} THEN "asking"
                                                             ELSE asker[a]]

\* Answered at most once, and the callback hears that answer or none: the
\* two-step resolve, trust, cleanup and recovery never tell it otherwise.
ImplementsContract == Contract!ContractSpec

\* A session that was paused for a request goes on only when the request was
\* approved on record, not merely in the future.
GoesOnApproved ==
    [][\A j \in Jobs :
          session[j].pc = "waiting" /\ session'[j].pc = "reading"
          /\ restarts' = restarts
              => row[session[j].on] = "approved"]_vars

\* A callback is let go without an answer only when its own session ended, or
\* the backend did.  False in the code: cleanup_job comes after _tasks was
\* freed and meets the requests of the session that was resumed meanwhile.
OnlyTheEndLetsGo ==
    [][\A a \in Approvals :
          asker[a] # "canceled" /\ asker'[a] = "canceled"
          /\ restarts' = restarts
              => a \in orphaned \/ session[JobOf[a]].pc \notin Live]_vars

\* A callback does not wait for a request that has been answered, or whose
\* session is over: no answer is lost between the row and the future.
CallbacksAreWoken ==
    \A a \in Approvals :
        asker[a] = "waiting" /\ (row[a] \in Decisions \/ a \in orphaned)
            ~> asker[a] # "waiting"

\* Nor does a session loop: whoever gives an answer on record, the operator, a
\* trust grant or the cleanup of an earlier session of the job, the loop that
\* waits for that request goes on or ends.
SessionsAreWoken ==
    \A j \in Jobs : \A a \in RequestsOf(j) :
        session[j] = [pc |-> "waiting", on |-> a] /\ row[a] \in Decisions
            ~> session[j] # [pc |-> "waiting", on |-> a]

\* A job fails over approvals only when one of them was rejected.
ApprovedJobsGoOn ==
    \A j \in Jobs : outcome[j] = "failed" =>
        \E a \in RequestsOf(j) : row[a] = "rejected"

\* A trust grant never answers a request that asks for an explicit answer.
TrustSparesExplicit ==
    \A call \in answering : call.by = "trust" => call.approval \notin Explicit
=============================================================================
