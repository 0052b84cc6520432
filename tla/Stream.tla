-------------------------------- MODULE Stream --------------------------------
(***************************************************************************)
(* The event stream from the database to the browser: the persist-then-    *)
(* broadcast subscriber and its dead letters (backend/lifespan.py), the    *)
(* connections and the replay of SSEManager (backend/services/events/      *)
(* sse_manager.py), the endpoint that drains a connection's queue          *)
(* (backend/api/events.py) and the client that reconnects from the last    *)
(* identifier it has seen (frontend/src/hooks/useSSE.ts).                  *)
(*                                                                         *)
(* The client is the one of the dashboard, whose connection is not scoped  *)
(* to a job; it shows the state of every job.                              *)
(***************************************************************************)
EXTENDS Naturals, Sequences, FiniteSets, Functions

CONSTANTS
    Events,         \* the events that are published, numbered
    Jobs,
    JobOf,          \* the job of each event
    KindOf,         \* and what becomes of its kind: see EventKinds
    Env,            \* what goes wrong
    MaxReplay,      \* MAX_REPLAY_EVENTS
    QueueSize,      \* maxsize of a connection's queue
    MaxFaults       \* bound: connections that break, events that are not stored
                    \* and publishers that are canceled

\* A "state" event changes what a client shows of its job.  A "scoped" one
\* (_JOB_SCOPED_ONLY) is not broadcast to a connection without a job, and an
\* "internal" one (outside _BROADCAST_KINDS) to none.
EventKinds == {"state", "scoped", "internal"}

ASSUME EventAssumption ==
    /\ JobOf \in [Events -> Jobs]
    /\ KindOf \in [Events -> EventKinds]
    /\ Events \subseteq Nat \ {0}
ASSUME BoundAssumption ==
    /\ MaxReplay \in Nat \ {0} /\ QueueSize \in Nat /\ MaxReplay < QueueSize
    /\ MaxFaults \in Nat
ASSUME EnvAssumption == Env \subseteq {"lockError", "age", "cancel"}

VARIABLES
    row,            \* the last state event whose change the row of a job has
    pub,            \* how far each event has come
    log,            \* the events table, in the order of its ids
    aged,           \* the ids that are older than the replay window
    conn,           \* the connection: see ConnStates,
    closed,         \* SSEConnection.closed,
    queue,          \* its queue,
    batch,          \* and what its replay has read
    cursor,         \* lastEventIdRef of the client, 0 for none,
    view,           \* and what it shows of each job
    got,            \* the events it has received (history)
    loaded,         \* its page has fetched the rows
    since,          \* the ids that a page load or snapshot covers (history),
    blind,          \* and those that a connection without a cursor comes after,
                    \* although the page was loaded before (history)
    overtaken,      \* live frames came before a replay (history)
    cut,            \* a replay left out what did not fit (history)
    faults          \* what has gone wrong so far

server == <<row, pub, log, aged>>
connection == <<conn, closed, queue, batch>>
client == <<cursor, view, got, since, blind, loaded>>
vars == <<server, connection, client, overtaken, cut, faults>>

\* What a replay does between its awaits: it reads the events after the
\* cursor, the rows for a snapshot when it needs one, and then it sends.
ConnStates == {"down", "querying", "reading", "replaying", "open"}

NoEvent == 0
View == [Jobs -> Events \cup {NoEvent}]
Nothing == [j \in Jobs |-> NoEvent]

\* A frame has an event and its id (0 for none), or a snapshot has the rows
\* and, for the properties, the last id they cover.
Frame == [ev : Events \cup {NoEvent}, id : Nat, rows : View]
EventFrame(e, id) == [ev |-> e, id |-> id, rows |-> Nothing]
Snapshot(rows, upto) == [ev |-> NoEvent, id |-> upto, rows |-> rows]

NoBatch == [ids |-> {}, snapshots |-> FALSE, rows |-> Nothing, upto |-> 0]

TypeOK ==
    /\ row \in View
    /\ pub \in [Events -> {"new", "written", "stored", "dead", "done", "lost", "silent"}]
    /\ log \in Seq(Events)
    /\ aged \in Nat
    /\ conn \in ConnStates
    /\ closed \in BOOLEAN
    /\ queue \in Seq(Frame) /\ Len(queue) <= QueueSize
    /\ batch \in [ids : SUBSET Nat, snapshots : BOOLEAN, rows : View, upto : Nat]
    /\ cursor \in 0 .. Len(log)
    /\ view \in View
    /\ got \subseteq Events
    /\ since \in 0 .. Len(log) /\ blind \in 0 .. Len(log)
    /\ overtaken \in BOOLEAN /\ cut \in BOOLEAN
    /\ loaded \in BOOLEAN
    /\ faults \in Nat

Init ==
    /\ row = Nothing
    /\ pub = [e \in Events |-> "new"]
    /\ log = <<>>
    /\ aged = 0
    /\ conn = "down" /\ closed = FALSE /\ queue = <<>> /\ batch = NoBatch
    /\ cursor = 0 /\ view = Nothing /\ got = {} /\ since = 0 /\ blind = 0 /\ loaded = FALSE
    /\ overtaken = FALSE /\ cut = FALSE
    /\ faults = 0
-----------------------------------------------------------------------------
(* Connections.                                                            *)

\* The frames that fit into the queue.
Fitting(frames) ==
    LET room == QueueSize - Len(queue)
    IN  IF Len(frames) <= room THEN frames ELSE SubSeq(frames, 1, room)

\* Mutant: a frame that does not fit is left out.
SendOrSkip(frames) ==
    /\ queue' = queue \o Fitting(frames)
    /\ UNCHANGED closed

\* SSEConnection.send: a queue that is full closes the connection, and a
\* connection that is closed takes nothing.
Send(frames) ==
    IF closed THEN UNCHANGED <<queue, closed>>
    ELSE /\ queue' = queue \o Fitting(frames)
         /\ closed' = (Len(queue) + Len(frames) > QueueSize)

-----------------------------------------------------------------------------
(* Publishing.                                                             *)

\* The service commits what the event tells, and publishes it some awaits later;
\* meanwhile a request may write the same row and publish that.  The events of a
\* job are numbered in the order in which its row is written.
WriteRow(e) ==
    /\ pub[e] = "new"
    /\ \A f \in Events : f < e /\ JobOf[f] = JobOf[e] => pub[f] # "new"
    /\ pub' = [pub EXCEPT ![e] = "written"]
    /\ row' = IF KindOf[e] = "state" THEN [row EXCEPT ![JobOf[e]] = e] ELSE row
    /\ UNCHANGED <<log, aged, connection, client, overtaken, cut, faults>>

\* The id of an event in the table.
IdOf(e) == CHOOSE i \in DOMAIN log : log[i] = e

\* Mutant: an event is committed without the write lock.
StoreAtWill(e) ==
    /\ pub[e] = "written"
    /\ log' = Append(log, e)
    /\ pub' = [pub EXCEPT ![e] = "stored"]
    /\ UNCHANGED <<row, aged, connection, client, overtaken, cut, faults>>

\* EventRepository.append, committed by serialized_write.  The session is
\* closed under the write lock, and whoever leaves it broadcasts at once: no
\* other event is committed in between.  Publishers come to the lock in any
\* order.
Store(e) ==
    /\ pub[e] = "written"
    /\ \A f \in Events : pub[f] # "stored"
    /\ log' = Append(log, e)
    /\ pub' = [pub EXCEPT ![e] = "stored"]
    /\ UNCHANGED <<row, aged, connection, client, overtaken, cut, faults>>

\* Mutant: a connection is broadcast to once its replay is over.
BroadcastToOpen(e, id) ==
    /\ IF KindOf[e] = "state" /\ conn = "open"
       THEN Send(<<EventFrame(e, id)>>) ELSE UNCHANGED <<queue, closed>>
    /\ UNCHANGED <<conn, batch, overtaken>>

\* broadcast_domain_event, to a connection without a job.  One that is still
\* waiting for its replay gets the frame too, ahead of what it missed.
Broadcast(e, id) ==
    /\ IF KindOf[e] = "state" /\ conn # "down"
       THEN /\ Send(<<EventFrame(e, id)>>)
            /\ overtaken' = (overtaken \/ conn # "open")
       ELSE UNCHANGED <<queue, closed, overtaken>>
    /\ UNCHANGED <<conn, batch>>

\* _persist_and_broadcast once the event has an id.
PublishStored(e) ==
    /\ pub[e] = "stored"
    /\ Broadcast(e, IdOf(e))
    /\ pub' = [pub EXCEPT ![e] = "done"]
    /\ UNCHANGED <<row, log, aged, client, cut, faults>>

\* The publisher is canceled with what it awaits, before or after the commit, or
\* nobody publishes the change, as when a job without a task is canceled: the
\* event is not broadcast.
PublishCanceled(e) ==
    /\ "cancel" \in Env
    /\ pub[e] \in {"written", "stored"}
    /\ pub' = [pub EXCEPT ![e] = "silent"]
    /\ faults < MaxFaults /\ faults' = faults + 1
    /\ UNCHANGED <<row, log, aged, connection, client, overtaken, cut>>

\* The database stays locked through every attempt: the event is broadcast
\* without an id, and queued.
PublishUnstored(e) ==
    /\ "lockError" \in Env
    /\ pub[e] = "written"
    /\ Broadcast(e, 0)
    /\ pub' = [pub EXCEPT ![e] = "dead"]
    /\ faults < MaxFaults /\ faults' = faults + 1
    /\ UNCHANGED <<row, log, aged, client, cut>>

\* _dead_letter_retry_loop: the event is stored under a later id and not
\* broadcast again, or given up after its last attempt.
RetryDeadLetter(e) ==
    /\ pub[e] = "dead"
    /\ \/ /\ \A f \in Events : pub[f] # "stored"
          /\ log' = Append(log, e)
          /\ pub' = [pub EXCEPT ![e] = "lost"]
       \/ pub' = [pub EXCEPT ![e] = "lost"] /\ UNCHANGED log
    /\ UNCHANGED <<row, aged, connection, client, overtaken, cut, faults>>

-----------------------------------------------------------------------------
(* The client, and the endpoint it connects to.                            *)

\* connect, and stream_events up to the replay.  A client that has seen no
\* identifier asks for no replay, whatever it has missed since its page load,
\* which fetched the rows.
Connect ==
    /\ conn = "down"
    /\ conn' = IF cursor = 0 THEN "open" ELSE "querying"
    /\ since' = IF loaded THEN since ELSE Len(log)
    /\ blind' = IF cursor = 0 /\ loaded THEN Len(log) ELSE blind
    /\ view' = IF loaded THEN view ELSE row
    /\ loaded' = TRUE
    /\ UNCHANGED <<server, closed, queue, batch, cursor, got, overtaken, cut, faults>>

\* replay_events up to its query: the first MaxReplay events after the cursor;
\* when there are more, or the first is too old, a snapshot and, of those, the
\* ones in the window.  Ids grow older than MAX_REPLAY_AGE as time passes.
Query ==
    LET missed == cursor + 1 .. Len(log)
        bounded == {id \in missed : id <= cursor + MaxReplay}
        overflows == Len(log) > cursor + MaxReplay
        snapshots == overflows \/ (missed # {} /\ cursor + 1 <= aged')
    IN  /\ conn = "querying"
        /\ aged' \in IF "age" \in Env THEN aged .. Len(log) ELSE {aged}
        /\ batch' = [NoBatch EXCEPT
                       !.ids = {id \in bounded : snapshots => id > aged'},
                       !.snapshots = snapshots]
        /\ conn' = IF snapshots THEN "reading" ELSE "replaying"
        /\ cut' = (cut \/ overflows)
        /\ UNCHANGED <<row, pub, log, closed, queue, client, overtaken, faults>>

\* job_repo.list_all for the snapshot.
ReadRows ==
    /\ conn = "reading"
    /\ batch' = [batch EXCEPT !.rows = row, !.upto = Len(log)]
    /\ conn' = "replaying"
    /\ UNCHANGED <<server, closed, queue, client, overtaken, cut, faults>>

\* The ids of a set in their order.
Ordered(S) ==
    {q \in [1 .. Cardinality(S) -> S] :
        Range(q) = S /\ \A i, k \in DOMAIN q : i < k => q[i] < q[k]}

EventFrames(ids) == [i \in DOMAIN ids |-> EventFrame(log[ids[i]], ids[i])]

\* Mutant: a replay never sends a snapshot.
EventFramesOnly(ids) == EventFrames(ids)

\* The frames of a replay.
ReplayFrames(ids) ==
    IF batch.snapshots THEN <<Snapshot(batch.rows, batch.upto)>> \o EventFrames(ids)
                       ELSE EventFrames(ids)

\* The end of replay_events, without an await: no internal event is sent, but
\* the scoped ones that a broadcast leaves out.
Deliver ==
    LET shown == {id \in batch.ids : KindOf[log[id]] # "internal"}
    IN  /\ conn = "replaying"
        /\ \E ids \in Ordered(shown) : Send(ReplayFrames(ids))
        /\ conn' = "open"
        /\ batch' = NoBatch
        /\ UNCHANGED <<server, client, overtaken, cut, faults>>

\* The listener of useSSE and the handlers of the store.  The cursor follows
\* whatever identifier came last.
Receive ==
    LET frame == Head(queue)
    IN  /\ conn = "open" /\ ~closed /\ queue # <<>>
        /\ queue' = Tail(queue)
        /\ IF frame.ev = NoEvent
           THEN /\ view' = frame.rows
                /\ since' = IF frame.id > since THEN frame.id ELSE since
                /\ UNCHANGED <<cursor, got>>
           ELSE /\ view' = IF KindOf[frame.ev] = "state"
                           THEN [view EXCEPT ![JobOf[frame.ev]] = frame.ev] ELSE view
                /\ cursor' = IF frame.id = 0 THEN cursor ELSE frame.id
                /\ got' = got \cup {frame.ev}
                /\ UNCHANGED since
        /\ UNCHANGED <<server, conn, closed, batch, blind, loaded, overtaken, cut, faults>>

\* unregister: what the queue still holds is gone with the connection.
Disconnect ==
    /\ conn' = "down" /\ closed' = FALSE /\ queue' = <<>> /\ batch' = NoBatch
    /\ UNCHANGED <<server, client, overtaken, cut>>

\* The endpoint ends a connection that has been closed.
EndClosed == conn = "open" /\ closed /\ Disconnect /\ UNCHANGED faults

\* The network breaks, or close_all.
Drop ==
    /\ conn # "down" /\ faults < MaxFaults
    /\ Disconnect
    /\ faults' = faults + 1
-----------------------------------------------------------------------------
Publishing(e) ==
    \/ WriteRow(e) \/ Store(e) \/ PublishStored(e) \/ PublishCanceled(e)
    \/ PublishUnstored(e) \/ RetryDeadLetter(e)

Streaming == Query \/ ReadRows \/ Deliver \/ Receive \/ EndClosed

Next == (\E e \in Events : Publishing(e)) \/ Connect \/ Streaming \/ Drop

Spec == Init /\ [][Next]_vars

\* The event loop goes on with the publishers, whose events are finitely many,
\* and with the connections, and the client retries for as long as its page is
\* open.
Fairness ==
    /\ WF_vars(\E e \in Events : Store(e) \/ PublishStored(e))
    /\ WF_vars(\E e \in Events : RetryDeadLetter(e))
    /\ WF_vars(Streaming) /\ WF_vars(Connect)

FairSpec == Spec /\ Fairness

-----------------------------------------------------------------------------
(* Properties.                                                             *)

\* The events that were stored and then broadcast, or are about to be: one whose
\* publisher is canceled in between is only replayed.
InTime(e) == pub[e] \in {"stored", "done"}

\* A page load or a snapshot has told what the event tells.
Covered(e) == \E id \in 1 .. since : log[id] = e

\* It was missed while the client was away without a cursor to come back with.
Unasked(e) == \E id \in 1 .. blind : log[id] = e

\* Owed: a state event that the client has not received although its cursor has
\* gone past it, that no page load or snapshot covers, and that came after the
\* last connection without a cursor.
Owed == {id \in since + 1 .. cursor :
            /\ id > blind
            /\ KindOf[log[id]] = "state" /\ InTime(log[id])
            /\ log[id] \notin got}

\* A reconnect replays from the cursor: what the cursor has gone past, the
\* client has, while no live frame has overtaken a replay.
NoSilentGap == ~overtaken => Owed = {}

\* The ids whose frames the connection still holds for the client.
Underway == batch.ids \cup {queue[i].id : i \in DOMAIN queue}

\* The same whatever overtakes what: a client that reconnects gets the events it
\* missed via replay.
MissedAreReplayed == Owed \subseteq Underway

\* The frames with an identifier leave in the order of their ids, so that the
\* cursor only grows.
FramesInOrder ==
    ~overtaken =>
        \A i, k \in DOMAIN queue :
            i < k /\ NoEvent \notin {queue[i].ev, queue[k].ev} /\ queue[k].id > 0
                => queue[i].id <= queue[k].id

\* The events of a job that were all stored under the id they were broadcast
\* with.
Clean(j) == \A e \in Events : JobOf[e] = j => pub[e] \notin {"dead", "lost"}

\* No publisher of a job's state has outrun another one: the table has the
\* changes in the order in which the row was written.
InWrittenOrder(j) ==
    \A i, k \in DOMAIN log :
        /\ i < k /\ JobOf[log[i]] = j /\ JobOf[log[k]] = j
        /\ KindOf[log[i]] = "state" /\ KindOf[log[k]] = "state"
        => log[i] < log[k]

\* A connected client with nothing left to receive shows the states the rows
\* have, for every clean job none of whose publishers outran another and whose
\* last change was published, after the last connection without a cursor: what a
\* replay sends after a snapshot never takes it back.
ViewIsCurrent ==
    conn = "open" /\ ~closed /\ queue = <<>> /\ ~overtaken /\ ~cut =>
        \A j \in Jobs :
            /\ row[j] # NoEvent /\ pub[row[j]] = "done" /\ IdOf(row[j]) > blind
            /\ Clean(j) /\ InWrittenOrder(j)
            => view[j] = row[j]

\* Again and again the client has every state event that was stored, or a page
\* load or snapshot has covered it.  Left out by name: an event whose publisher is
\* canceled before it broadcasts, what came before a connection without a cursor,
\* and replays that are overtaken.
EventsArrive ==
    []<>(~overtaken =>
            \A e \in Events :
                KindOf[e] = "state" /\ InTime(e)
                    => e \in got \/ Covered(e) \/ Unasked(e))
=============================================================================
