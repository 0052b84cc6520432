------------------------------- MODULE Sidecars -------------------------------
(***************************************************************************)
(* The sidecars of one job: the triggers, concurrency slots and queue of    *)
(* SidecarDispatcher (backend/services/sidecar/dispatcher.py), and the      *)
(* gates with which a sidecar stops the tools of the agent                  *)
(* (backend/services/runtime/service.py).                                   *)
(*                                                                          *)
(* A call is one entry into the dispatcher, a coroutine of its own: an      *)
(* event, a tick of the timer, a manual fire.  It tries the triggers that   *)
(* match one after the other and awaits each pipeline it executes.  The     *)
(* steps below are what runs between two awaits.                            *)
(***************************************************************************)
EXTENDS Naturals, Sequences, SequencesExt, FiniteSetsExt

CONSTANTS
    Sidecars,
    Triggers,       \* numbered in the order of the definitions
    SidecarOf,      \* the sidecar of each trigger
    OnOf,           \* its condition: see Conditions
    PolicyOf,       \* its concurrency: see Policies
    Once,           \* the triggers that fire once
    Gates,          \* the triggers whose output is routed to a gate
    PhaseOf,        \* the phase of each sidecar
    Calls,          \* bound: the calls that arrive
    Main,           \* the task of the job, which runs pre- and postflight
    Env             \* who acts beside the sidecars

Conditions == {"event", "manual", "timer"}
Policies == {"skip_if_running", "queue", "parallel"}
Phases == {"preflight", "midflight", "postflight"}

ASSUME TriggerAssumption ==
    /\ Triggers \subseteq Nat \ {0} /\ IsFiniteSet(Triggers)
    /\ SidecarOf \in [Triggers -> Sidecars]
    /\ OnOf \in [Triggers -> Conditions]
    /\ PolicyOf \in [Triggers -> Policies]
    /\ PhaseOf \in [Sidecars -> Phases]
    /\ Once \subseteq Triggers /\ Gates \subseteq Triggers
ASSUME CallAssumption == Main \notin Calls
ASSUME EnvAssumption == Env \subseteq {"operator", "stall"}

VARIABLES
    job,            \* how far the job is: see JobPhases
    call,           \* what each call is doing
    inFlight,       \* _JobState.in_flight
    depth,          \* _JobState.executing_depth
    fired,          \* _JobState.fired_once
    queued,         \* _JobState.queued
    accepted,       \* the items queued while the job was active (history),
    ran,            \* the items whose pipeline was executed,
    again,          \* some item was executed twice,
    lapped,         \* a drain replaced the queue under another one
    gates,          \* _active_gates of the job
    paused,         \* the tools of its SDK session are paused
    held,           \* the operator has paused it (history),
    standing,       \* the gates whose pause it is still under,
    raced           \* a gate paused it after it had been resolved

dispatch == <<call, inFlight, depth, fired, queued, accepted, ran, again, lapped>>
gating == <<gates, paused, held, standing, raced>>
vars == <<job, dispatch, gating>>

\* Whether the dispatcher knows the job (until it is draining), and whether an
\* SDK session runs that its AgentSession holds (while it is working).  None
\* does before the first, between two of them, and during the follow-up turns,
\* whose sessions nobody else holds: a pause or a message then reaches nothing.
JobPhases == {"preflight", "ready", "working", "postflight", "draining", "closed"}
Active == job \notin {"draining", "closed"}
Working == job = "working"

Tasks == Calls \cup {Main}
NoTrigger == 0

\* An item of the queue: the call that brought the trigger.
Item == Tasks \X Triggers
Of(item) == SidecarOf[item[2]]

\* A call has the triggers it is still to try and the one it executes.  A
\* drain also has the list it goes over, how far it is, and whether that list
\* still is the queue.
Call == [pc : {"new", "running", "gating", "done"}, tick : BOOLEAN,
         todo : SUBSET Triggers, at : Triggers \cup {NoTrigger},
         list : Seq(Item), pos : Nat, kept : BOOLEAN]
NewCall == [pc |-> "new", tick |-> FALSE, todo |-> {}, at |-> NoTrigger,
            list |-> <<>>, pos |-> 0, kept |-> FALSE]

Executing(c) == call[c].pc \in {"running", "gating"}
Executes(c, s) == Executing(c) /\ SidecarOf[call[c].at] = s

\* Main goes over the queue without taking a slot when it deactivates the job.
Slotted(c) == Executing(c) /\ ~(c = Main /\ job \in {"draining", "closed"})

TypeOK ==
    /\ job \in JobPhases
    /\ call \in [Tasks -> Call]
    /\ \A c \in Tasks : Executing(c) => call[c].at \in Triggers
    /\ inFlight \subseteq Sidecars
    /\ depth = Cardinality({c \in Tasks : Slotted(c)})
    /\ fired \subseteq Once
    /\ queued \in Seq(Item) /\ Len(queued) <= Cardinality(Triggers)
    /\ accepted \subseteq Item /\ ran \subseteq Item
    /\ again \in BOOLEAN /\ lapped \in BOOLEAN
    /\ gates \subseteq Sidecars /\ standing \subseteq Sidecars
    /\ paused \in BOOLEAN /\ held \in BOOLEAN /\ raced \in BOOLEAN
    /\ ~Working => ~paused
-----------------------------------------------------------------------------
(* Slots and the queue.                                                    *)

\* The call that executes, and has no more to try.
Executed(c, item, record) ==
    /\ ran' = ran \cup {item}
    /\ again' = (again \/ item \in ran)
    /\ call' = [record EXCEPT ![c].pc = "running", ![c].at = item[2]]

\* Every drain sees what is appended to the list it goes over, while that is
\* the queue.
Grown(record, items) ==
    [d \in Tasks |-> IF record[d].kept
                     THEN [record[d] EXCEPT !.list = @ \o items] ELSE record[d]]

\* state.queued = remaining: the lists that drains go over are not the queue
\* any more.
Replaced(record) == [d \in Tasks |-> [record[d] EXCEPT !.kept = FALSE]]

\* Mutant: a slot that is taken is not looked at.
TryAll(c, todo, flying, deep, queue, record) ==
    LET run == Min(todo)
    IN  /\ UNCHANGED <<fired, accepted>>
        /\ queued' = queue
        /\ IF todo = {}
           THEN /\ call' = [record EXCEPT ![c].pc = "done", ![c].at = NoTrigger]
                /\ inFlight' = flying /\ depth' = deep
                /\ UNCHANGED <<ran, again>>
           ELSE /\ inFlight' = flying \cup {SidecarOf[run]} /\ depth' = deep + 1
                /\ Executed(c, <<c, run>>, [record EXCEPT ![c].todo = todo \ {run}])

\* Triggers in the order of the definitions.
InOrder(triggers) ==
    CHOOSE q \in [1 .. Cardinality(triggers) -> triggers] :
        \A i, k \in DOMAIN q : i < k => q[i] < q[k]

\* _try_execute for the triggers of todo in their order, up to the first that
\* is executed: a sidecar that is in flight skips the trigger or, as long as
\* there is room, queues it.
Try(c, todo, flying, deep, queue, record) ==
    LET due == todo \ fired
        free == {t \in due : SidecarOf[t] \notin flying \/ PolicyOf[t] = "parallel"}
        passed == {t \in due : \A u \in free : t < u}
        waiting == InOrder({t \in passed : PolicyOf[t] = "queue"})
        room == Cardinality(Triggers) - Len(queue)
        items == [i \in 1 .. Min({room, Len(waiting)}) |-> <<c, waiting[i]>>]
        grown == Grown(record, items)
        run == Min(free)
    IN  /\ queued' = queue \o items
        /\ accepted' = IF Active THEN accepted \cup Range(items) ELSE accepted
        /\ IF free = {}
           THEN /\ call' = [grown EXCEPT ![c] = [NewCall EXCEPT !.pc = "done"]]
                /\ inFlight' = flying /\ depth' = deep
                /\ fired' = fired \cup (due \cap Once)
                /\ UNCHANGED <<ran, again>>
           ELSE /\ inFlight' = flying \cup {SidecarOf[run]} /\ depth' = deep + 1
                /\ fired' = fired \cup ((passed \cup {run}) \cap Once)
                /\ Executed(c, <<c, run>>,
                       [grown EXCEPT ![c].todo = {t \in todo : t > run}])

Others(c) == {d \in Tasks \ {c} : call[d].kept}

\* Mutant: the item that a drain has executed stays in the queue.
KeepDrained(c) ==
    LET s == SidecarOf[call[c].at]
    IN  /\ lapped' = (lapped \/ Others(c) # {})
        /\ Try(c, call[c].todo, inFlight \ {s}, depth - 1, call[c].list,
               Replaced([call EXCEPT ![c].list = <<>>, ![c].pos = 0]))

\* The end of a drain that has executed an item: what it has gone over beside
\* that item becomes the queue, whatever the queue is by now.
EndDrain(c) ==
    LET s == SidecarOf[call[c].at]
    IN  /\ lapped' = (lapped \/ Others(c) # {} \/ ~call[c].kept)
        /\ Try(c, call[c].todo, inFlight \ {s}, depth - 1,
               RemoveAt(call[c].list, call[c].pos),
               Replaced([call EXCEPT ![c].list = <<>>, ![c].pos = 0]))

\* The end of a pipeline that a trigger executed, and _drain_queue up to the
\* first item of its sidecar; a drain that finds none replaces the queue too.
EndRun(c) ==
    LET s == SidecarOf[call[c].at]
        OfSidecar(item) == Of(item) = s
        pos == SelectInSeq(queued, OfSidecar)
    IN  IF pos = 0
        THEN /\ lapped' = (lapped \/ Others(c) # {})
             /\ Try(c, call[c].todo, inFlight \ {s}, depth - 1, queued, Replaced(call))
        ELSE /\ Executed(c, queued[pos],
                    [call EXCEPT ![c].kept = TRUE, ![c].list = queued, ![c].pos = pos])
             /\ lapped' = (lapped \/ Others(c) # {})
             /\ inFlight' = inFlight \cup {s}
             /\ UNCHANGED <<depth, fired, queued, accepted>>

\* deactivate goes over the queue from an item on, and takes nothing out of it.
Deactivating(pos, list, record) ==
    IF pos <= Len(list)
    THEN /\ job' = "draining"
         /\ Executed(Main, list[pos],
                [record EXCEPT ![Main].list = list, ![Main].pos = pos])
         /\ UNCHANGED <<inFlight, depth, fired, queued, accepted>>
    ELSE /\ job' = "closed"
         /\ call' = [record EXCEPT ![Main] = [NewCall EXCEPT !.pc = "done"]]
         /\ UNCHANGED <<inFlight, depth, fired, queued, accepted, ran, again>>

\* A pipeline is over, with whatever result.
Finish(c) ==
    IF c = Main /\ ~Active
    THEN /\ Deactivating(call[Main].pos + 1, call[Main].list, call)
         /\ UNCHANGED lapped
    ELSE /\ IF call[c].pos > 0 THEN EndDrain(c) ELSE EndRun(c)
         /\ UNCHANGED job
-----------------------------------------------------------------------------
(* Entries.                                                                *)

Enter(c, todo, tick) ==
    /\ call[c].pc = "new"
    /\ Try(c, todo, inFlight, depth, queued, [call EXCEPT ![c].tick = tick])
    /\ UNCHANGED <<job, lapped, gating>>

\* handle_event, unless a pipeline of the job is being executed.
Event(c) ==
    /\ Active /\ depth = 0
    /\ \E matching \in SUBSET {t \in Triggers : OnOf[t] = "event"} :
         matching # {} /\ Enter(c, matching, FALSE)

\* fire, from the REST API.
Fire(c) ==
    /\ Active
    /\ \E s \in Sidecars :
         LET manual == {t \in Triggers : OnOf[t] = "manual" /\ SidecarOf[t] = s}
         IN  manual # {} /\ Enter(c, manual, FALSE)

\* _tick, which one task of the process runs: which timers are due and idle for
\* long enough is left open.
Tick(c) ==
    /\ Active
    /\ \A d \in Calls : call[d].tick => call[d].pc = "done"
    /\ \E due \in SUBSET {t \in Triggers : OnOf[t] = "timer"} :
         due # {} /\ Enter(c, due, TRUE)
-----------------------------------------------------------------------------
(* Pipelines and gates.                                                    *)

\* A pipeline that ends without a verdict.
Complete(c) ==
    /\ call[c].pc = "running"
    /\ Finish(c)
    /\ UNCHANGED gating

\* Mutant: a sidecar that approves lifts every gate's pause.
PassAnyway(c) ==
    LET s == SidecarOf[call[c].at]
    IN  /\ call[c].pc = "running" /\ call[c].at \in Gates
        /\ gates' = gates \ {s} /\ standing' = standing \ {s}
        /\ paused' = (paused /\ ~Working)
        /\ Finish(c)
        /\ UNCHANGED <<held, raced>>

\* handle_sidecar_gate: a sidecar approves, and the tools go on when no gate is
\* left, whoever has paused them.
Pass(c) ==
    LET s == SidecarOf[call[c].at]
    IN  /\ call[c].pc = "running" /\ call[c].at \in Gates
        /\ gates' = gates \ {s} /\ standing' = standing \ {s}
        /\ paused' = (paused /\ ~(Working /\ gates' = {}))
        /\ Finish(c)
        /\ UNCHANGED <<held, raced>>

\* It rejects: the gate is recorded, and the row of the job read.
Reject(c) ==
    /\ call[c].pc = "running" /\ call[c].at \in Gates
    /\ gates' = gates \cup {SidecarOf[call[c].at]}
    /\ call' = [call EXCEPT ![c].pc = "gating"]
    /\ UNCHANGED <<job, inFlight, depth, fired, queued, accepted, ran, again, lapped,
                   paused, held, standing, raced>>

\* AgentSession.pause_tools: the SDK session, if there is one, is paused.
Block(c) ==
    LET s == SidecarOf[call[c].at]
    IN  /\ call[c].pc = "gating"
        /\ paused' = (paused \/ Working)
        /\ standing' = IF Working THEN standing \cup ({s} \cap gates) ELSE standing
        /\ raced' = (raced \/ (Working /\ s \notin gates))
        /\ Finish(c)
        /\ UNCHANGED <<gates, held>>
-----------------------------------------------------------------------------
(* The operator and the stall detector.                                    *)

\* pause_job.
Pause ==
    /\ "operator" \in Env /\ Working
    /\ paused' = TRUE /\ held' = TRUE
    /\ UNCHANGED <<job, dispatch, gates, standing, raced>>

\* What a message to the agent does: it lifts any pause and no gate.
Resumed ==
    /\ Working
    /\ paused' = FALSE /\ held' = FALSE /\ standing' = {}
    /\ UNCHANGED <<job, dispatch, gates, raced>>

\* send_message, from the operator.
SendMessage == "operator" \in Env /\ Resumed

\* _handle_stall_interrupt: the detector takes a session that does nothing for a
\* stalled one, also when it may do nothing, and sends it a message.
StallInterrupt == "stall" \in Env /\ Resumed

\* Mutant: an approval leaves the tools to the next message.
ApproveGatesOnly ==
    /\ "operator" \in Env /\ gates # {}
    /\ gates' = {} /\ standing' = {}
    /\ UNCHANGED <<job, dispatch, paused, held, raced>>

\* resolve_sidecar_gate with an approval.  A rejection changes nothing.
ApproveGates ==
    /\ "operator" \in Env /\ gates # {}
    /\ gates' = {} /\ standing' = {}
    /\ paused' = FALSE /\ held' = FALSE
    /\ UNCHANGED <<job, dispatch, raced>>
-----------------------------------------------------------------------------
(* The job.                                                                *)

\* activate and run_preflight.
Init ==
    /\ job = "preflight"
    /\ call = [c \in Tasks |-> NewCall]
    /\ inFlight = {} /\ depth = 0 /\ fired = {} /\ queued = <<>>
    /\ accepted = {} /\ ran = {} /\ again = FALSE /\ lapped = FALSE
    /\ gates = {} /\ paused = FALSE
    /\ held = FALSE /\ standing = {} /\ raced = FALSE

InPhase(phase) == {t \in Triggers : PhaseOf[SidecarOf[t]] = phase}

RunPreflight ==
    /\ job = "preflight" /\ Enter(Main, InPhase("preflight"), FALSE)

\* start_or_enqueue goes on, and the agent gets its SDK session later.
Ready ==
    /\ job = "preflight" /\ call[Main].pc = "done"
    /\ job' = "ready"
    /\ UNCHANGED <<dispatch, gating>>

StartAgent ==
    /\ job = "ready"
    /\ job' = "working"
    /\ UNCHANGED <<dispatch, gating>>

\* The SDK session ends, and its pause with it.  Follow-up turns run, or another
\* session takes its place: re-planning, the implementation of a plan, and a
\* resume that failed start a new one.
EndTurn ==
    /\ job = "working"
    /\ job' = "ready"
    /\ paused' = FALSE /\ held' = FALSE /\ standing' = {}
    /\ UNCHANGED <<dispatch, gates, raced>>

\* _cleanup_job_state: the session and the gates are gone, and run_postflight
\* begins.
CleanUp ==
    /\ job \in {"ready", "working"}
    /\ job' = "postflight"
    /\ gates' = {} /\ paused' = FALSE /\ held' = FALSE /\ standing' = {}
    /\ Try(Main, InPhase("postflight"), inFlight, depth, queued, call)
    /\ UNCHANGED <<lapped, raced>>

\* Mutant: the job is closed with its queue.
DeactivateAtOnce ==
    /\ job = "postflight" /\ call[Main].pc = "done"
    /\ job' = "closed"
    /\ UNCHANGED <<dispatch, gating>>

\* deactivate.
Deactivate ==
    /\ job = "postflight" /\ call[Main].pc = "done"
    /\ Deactivating(1, queued, [call EXCEPT ![Main].kept = TRUE])
    /\ UNCHANGED <<lapped, gating>>
-----------------------------------------------------------------------------
Piping(c) == Complete(c) \/ Pass(c) \/ Reject(c) \/ Block(c)

Next ==
    \/ \E c \in Calls : Event(c) \/ Fire(c) \/ Tick(c)
    \/ \E c \in Tasks : Piping(c)
    \/ Pause \/ SendMessage \/ StallInterrupt \/ ApproveGates
    \/ RunPreflight \/ Ready \/ StartAgent \/ EndTurn \/ CleanUp \/ Deactivate

Spec == Init /\ [][Next]_vars
-----------------------------------------------------------------------------
(* Properties.                                                             *)

\* A sidecar without parallel triggers executes one pipeline at a time, and
\* what it has in flight is being executed, so that the slot is given back.
OneAtATime ==
    Active =>
        \A s \in Sidecars :
            LET running == {c \in Tasks : Executes(c, s)}
            IN  /\ s \in inFlight => running # {}
                /\ (\A t \in Triggers : SidecarOf[t] = s => PolicyOf[t] # "parallel")
                      => Cardinality(running) <= 1

\* Until the job is deactivated, and as long as no drain replaces the queue
\* under another one, a trigger that was queued is executed once: it is in the
\* queue, or has been executed.
QueuedRunsOnce ==
    ~lapped => /\ accepted \subseteq Range(queued) \cup ran
               /\ Active => ~again

\* Whatever was queued has been executed when the job is closed, unless a drain
\* replaced the queue under another one, or under the flush of deactivate.
NothingLeftBehind == ~lapped /\ job = "closed" => accepted \subseteq ran

\* A pause has a reason that somebody can lift: a gate or the operator, unless a
\* gate was resolved while it was being raised.
PausedHasReason == paused => gates # {} \/ held \/ raced

\* The pause of a gate outlasts what other gates say: an approval of another
\* sidecar lifts none.  Its own sidecar's approval does, the operator's, any
\* message to the agent, and the end of the SDK session.
GatesDoNotLiftOthers == standing \subseteq gates /\ (standing # {} => paused)

\* Without an operator the tools of a session stay paused as long as there is a
\* gate.  False in the code: the stall detector lifts the pause.
GatesStand ==
    [][paused /\ gates' # {} /\ Working' => paused' \/ "operator" \in Env]_vars

\* A gate blocks the agent until the sidecar has approved: also one that was
\* raised before the agent had a session.
GateBlocksAgent ==
    Working =>
        \A s \in gates : paused \/ \E c \in Tasks : call[c].pc = "gating" /\ Executes(c, s)
=============================================================================
