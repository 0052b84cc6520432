----------------------------- MODULE StreamProofs -----------------------------
(***************************************************************************)
(* Proofs about Stream, for any events and jobs, any limits of a replay    *)
(* and of a queue, and any faults: its types, that the identified frames   *)
(* of a connection stay in the order of their ids, that the cursor of a    *)
(* client never passes an event it owes, and that a client with nothing    *)
(* left to receive shows the rows.  The last three are about runs in which *)
(* no live frame overtakes a replay, as the properties say.                *)
(*                                                                         *)
(* The inductive invariant has five parts.  LogInv ties the events table   *)
(* to how far each event has come; the one that is stored and not yet      *)
(* broadcast is its last.  FramesInv and ConnInv say what a queue and a    *)
(* batch hold.  GapInv says where an event that the client still lacks is  *)
(* to be found.  WriterInv says which event a row has, and ViewInv who     *)
(* knows it.                                                               *)
(***************************************************************************)
EXTENDS Stream, FiniteSetTheorems, SequenceTheorems, TLAPS

LogInv ==
    /\ \A i, k \in DOMAIN log : log[i] = log[k] => i = k
    /\ \A i \in DOMAIN log : pub[log[i]] \in {"stored", "done", "lost", "silent"}
    /\ \A e \in Events : InTime(e) => \E i \in DOMAIN log : log[i] = e
    /\ \A e \in Events : pub[e] = "stored" => Len(log) > 0 /\ log[Len(log)] = e

\* What a frame says is true of the table.
Honest(f) ==
    /\ f.ev # NoEvent /\ f.id # 0 => f.id \in DOMAIN log /\ log[f.id] = f.ev
    /\ f.ev # NoEvent /\ f.id = 0 => pub[f.ev] \in {"dead", "lost"}
    /\ f.ev = NoEvent => f.id <= Len(log)

FramesInv ==
    /\ \A i \in DOMAIN queue : Honest(queue[i])
    /\ batch.ids \subseteq cursor + 1 .. Len(log) /\ batch.upto <= Len(log)

ConnInv ==
    /\ conn \in {"down", "querying", "open"} => batch = NoBatch
    /\ conn = "reading" => batch.snapshots
    /\ conn = "down" => queue = <<>> /\ ~closed
    /\ conn # "open" /\ ~overtaken => queue = <<>> /\ ~closed
    /\ ~loaded => conn = "down" /\ cursor = 0

\* Identified frames are in order and after the cursor, behind a snapshot that
\* is not older than the cursor.
QueueInv ==
    /\ FramesInOrder
    /\ ~overtaken =>
         /\ \A i \in DOMAIN queue :
              /\ queue[i].ev # NoEvent /\ queue[i].id > 0 => cursor <= queue[i].id
              /\ queue[i].ev = NoEvent => i = 1 /\ cursor <= queue[i].id
         /\ conn = "replaying" /\ batch.snapshots => cursor <= batch.upto

\* A broadcast state event whose id is n.
Told(n) == KindOf[log[n]] = "state" /\ pub[log[n]] = "done"

\* A state event that the client lacks.
Due(n) ==
    /\ n \in since + 1 .. Len(log) /\ n > blind /\ KindOf[log[n]] = "state"
    /\ InTime(log[n]) /\ log[n] \notin got

\* What a replay has read.
Read(n) == IF batch.snapshots THEN n <= batch.upto ELSE n <= cursor \/ n \in batch.ids

GapInv ==
    ~overtaken =>
        /\ \A n \in DOMAIN log : Due(n) => cursor < n
        /\ conn = "replaying" => \A n \in DOMAIN log : Told(n) => Read(n)
        /\ conn = "open" /\ ~closed =>
             \A n \in DOMAIN log : Due(n) /\ Told(n) =>
                \E i \in DOMAIN queue :
                    \/ queue[i].ev # NoEvent /\ queue[i].id = n
                    \/ queue[i].ev = NoEvent /\ n <= queue[i].id

TypeInv == TypeOK /\ LogInv /\ FramesInv /\ ConnInv

WriterInv ==
    /\ \A e, f \in Events : f < e /\ JobOf[f] = JobOf[e] /\ pub[e] # "new"
                                => pub[f] # "new"
    /\ \A j \in Jobs : row[j] # NoEvent =>
         KindOf[row[j]] = "state" /\ JobOf[row[j]] = j /\ pub[row[j]] # "new"
    /\ \A f \in Events : KindOf[f] = "state" /\ pub[f] # "new" => f <= row[JobOf[f]]

\* The state that the client is to show of job j, whose event has the id n.
Last(j, n) ==
    /\ n \in DOMAIN log /\ log[n] = row[j] /\ InTime(row[j])
    /\ n > blind /\ Clean(j) /\ InWrittenOrder(j)

\* A frame that changes what the client shows of job j.
Changes(f, j) == f.ev # NoEvent /\ KindOf[f.ev] = "state" /\ JobOf[f.ev] = j

Knows(j) ==
    \/ \E i \in DOMAIN queue : queue[i].ev = row[j]
    \/ /\ \A i \in DOMAIN queue : ~Changes(queue[i], j)
       /\ \/ \E i \in DOMAIN queue : queue[i].ev = NoEvent /\ queue[i].rows[j] = row[j]
          \/ (\A i \in DOMAIN queue : queue[i].ev # NoEvent) /\ view[j] = row[j]

\* A snapshot that covers the last event of job j has its row.
RightFor(f, j, n) == f.ev = NoEvent /\ n <= f.id => f.rows[j] = row[j]

\* That state is with the client, or where the client will get it from.
Shows(j, n) ==
    /\ n <= cursor => view[j] = row[j]
    /\ \A i \in DOMAIN queue : RightFor(queue[i], j, n)
    /\ conn = "replaying" /\ batch.snapshots /\ n <= batch.upto => batch.rows[j] = row[j]
    /\ conn = "open" /\ ~closed /\ Told(n) => Knows(j)

\* A replay that sends an event sends all that come after it.
Complete ==
    conn \in {"reading", "replaying"} =>
        \A a \in batch.ids : \A b \in DOMAIN log : a < b /\ Told(b) => b \in batch.ids

ViewInv ==
    ~overtaken /\ ~cut =>
        /\ \A j \in Jobs : \A n \in DOMAIN log : Last(j, n) => Shows(j, n)
        /\ Complete

IInv == TypeInv /\ QueueInv /\ GapInv /\ WriterInv /\ ViewInv

-----------------------------------------------------------------------------
(* The queue.                                                              *)

LEMMA FrameType == ASSUME NEW e \in Events \cup {NoEvent}, NEW id \in Nat, NEW rows \in View
                   PROVE  [ev |-> e, id |-> id, rows |-> rows] \in Frame
  BY DEF Frame

LEMMA NothingType == Nothing \in View
  BY DEF Nothing, View

\* A queue that takes one more frame.
Takes(q, f) ==
    /\ Len(q) = Len(queue) + 1
    /\ \A i \in DOMAIN queue : i \in DOMAIN q /\ q[i] = queue[i]
    /\ Len(q) \in DOMAIN q /\ q[Len(q)] = f
    /\ \A i \in DOMAIN q : i \in DOMAIN queue \/ i = Len(q)

\* What a broadcast does to the queue of a client's connection.
Broadcasts(e, id) ==
    /\ queue' \in Seq(Frame) /\ Len(queue') <= QueueSize
    /\ closed' \in BOOLEAN /\ overtaken' \in BOOLEAN
    /\ conn' = conn /\ batch' = batch
    /\ \/ /\ queue' = queue /\ closed' = closed /\ overtaken' = overtaken
          /\ KindOf[e] # "state" \/ conn = "down"
       \/ /\ queue' = queue /\ closed'
          /\ KindOf[e] = "state" /\ conn # "down"
          /\ overtaken' = (overtaken \/ conn # "open")
       \/ /\ Takes(queue', EventFrame(e, id)) /\ ~closed' /\ ~closed
          /\ KindOf[e] = "state" /\ conn # "down"
          /\ overtaken' = (overtaken \/ conn # "open")

LEMMA BroadcastFits ==
    ASSUME TypeOK, NEW e \in Events, NEW id \in Nat, Broadcast(e, id)
    PROVE  Broadcasts(e, id)
  <1>1. queue \in Seq(Frame) /\ Len(queue) \in Nat /\ Len(queue) <= QueueSize
    BY LenProperties DEF TypeOK
  <1>2. EventFrame(e, id) \in Frame
    BY NothingType, FrameType DEF EventFrame
  <1>3. CASE ~(KindOf[e] = "state" /\ conn # "down")
    BY <1>1, <1>3 DEF Broadcast, Broadcasts, TypeOK
  <1>4. CASE KindOf[e] = "state" /\ conn # "down" /\ closed
    BY <1>1, <1>4 DEF Broadcast, Broadcasts, Send, TypeOK
  <1>5. CASE KindOf[e] = "state" /\ conn # "down" /\ ~closed
    <2> DEFINE f == EventFrame(e, id)
               s == <<f>>
               over == Len(queue) + Len(s) > QueueSize
    <2>1. s \in Seq(Frame) /\ Len(s) = 1 /\ s[1] = f
      BY <1>2
    <2>2. queue' = queue \o Fitting(s) /\ closed' = over
      BY <1>5 DEF Broadcast, Send
    <2>3. conn' = conn /\ batch' = batch /\ overtaken' = (overtaken \/ conn # "open")
      BY <1>5 DEF Broadcast
    <2>4. QueueSize \in Nat
      BY BoundAssumption
    <2> HIDE DEF s, f, over
    <2>7. over \in BOOLEAN
      BY DEF over
    <2>5. CASE Len(queue) = QueueSize
      <3>1. Fitting(s) = SubSeq(s, 1, 0)
        BY <1>1, <2>1, <2>4, <2>5 DEF Fitting
      <3>2. Fitting(s) = <<>>
        BY <3>1, SubSeqEmpty
      <3>3. queue' = queue
        BY <1>1, <2>2, <3>2, ConcatEmptySeq
      <3>5. over
        BY <1>1, <2>1, <2>4, <2>5 DEF over
      <3>4. closed'
        BY <2>2, <3>5
      <3> QED BY <1>1, <1>5, <2>2, <2>3, <2>7, <3>3, <3>4 DEF Broadcasts, TypeOK
    <2>6. CASE Len(queue) < QueueSize
      <3>1. Fitting(s) = s
        BY <1>1, <2>1, <2>4, <2>6 DEF Fitting
      <3>2. queue' = queue \o s
        BY <2>2, <3>1
      <3>3. /\ queue' \in Seq(Frame) /\ Len(queue') = Len(queue) + 1
            /\ \A i \in 1 .. Len(queue) + 1 :
                 queue'[i] = IF i <= Len(queue) THEN queue[i] ELSE s[i - Len(queue)]
        <4>1. /\ queue \o s \in Seq(Frame) /\ Len(queue \o s) = Len(queue) + Len(s)
              /\ \A i \in 1 .. Len(queue) + Len(s) :
                   (queue \o s)[i] = IF i <= Len(queue) THEN queue[i] ELSE s[i - Len(queue)]
          BY <1>1, <2>1, ConcatProperties
        <4> QED BY <2>1, <3>2, <4>1
      <3>4. DOMAIN queue' = 1 .. Len(queue) + 1 /\ DOMAIN queue = 1 .. Len(queue)
        BY <1>1, <3>3, LenProperties
      <3>5. \A i \in DOMAIN queue : i \in DOMAIN queue' /\ queue'[i] = queue[i]
        BY <1>1, <3>3, <3>4
      <3>6. Len(queue') \in DOMAIN queue' /\ queue'[Len(queue')] = f
        BY <1>1, <2>1, <3>3, <3>4
      <3>7. \A i \in DOMAIN queue' : i \in DOMAIN queue \/ i = Len(queue')
        BY <1>1, <3>3, <3>4
      <3>8. Takes(queue', EventFrame(e, id))
        BY <3>3, <3>5, <3>6, <3>7 DEF Takes, f
      <3>11. ~over
        BY <1>1, <2>1, <2>4, <2>6 DEF over
      <3>9. ~closed'
        BY <2>2, <3>11
      <3>10. Len(queue') <= QueueSize
        BY <1>1, <2>4, <2>6, <3>3
      <3> QED BY <1>5, <2>2, <2>3, <2>7, <3>3, <3>8, <3>9, <3>10 DEF Broadcasts, TypeOK
    <2> QED BY <1>1, <2>4, <2>5, <2>6
  <1> QED BY <1>3, <1>4, <1>5

\* What a replay sends: a snapshot first when it needs one, and the events it
\* has read in their order.
Replays(g) ==
    /\ g \in Seq(Frame)
    /\ \A i \in DOMAIN g : g[i].ev = NoEvent =>
         /\ i = 1 /\ batch.snapshots
         /\ g[i].id = batch.upto /\ g[i].rows = batch.rows
    /\ \A i \in DOMAIN g : g[i].ev # NoEvent =>
         g[i].id \in batch.ids /\ g[i].ev = log[g[i].id]
    /\ \A i, k \in DOMAIN g :
         i < k /\ g[i].ev # NoEvent /\ g[k].ev # NoEvent => g[i].id < g[k].id
    /\ \A n \in batch.ids : KindOf[log[n]] # "internal" =>
         \E i \in DOMAIN g : g[i].ev = log[n] /\ g[i].id = n
    /\ batch.snapshots => \E i \in DOMAIN g : g[i].ev = NoEvent

\* What its frames do to the queue.
Delivers(g) ==
    /\ queue' \in Seq(Frame) /\ Len(queue') <= QueueSize
    /\ closed' \in BOOLEAN
    /\ \A i \in DOMAIN queue' :
         \/ \E k \in DOMAIN queue : queue'[i] = queue[k]
         \/ \E k \in DOMAIN g : queue'[i] = g[k]
    /\ queue = <<>> /\ ~closed =>
         /\ \A i \in DOMAIN queue' : i \in DOMAIN g /\ queue'[i] = g[i]
         /\ ~closed' => DOMAIN g \subseteq DOMAIN queue'

LEMMA DeliveredFrames ==
    ASSUME TypeOK, NEW g \in Seq(Frame), Send(g)
    PROVE  Delivers(g)
  <1>1. queue \in Seq(Frame) /\ Len(queue) \in Nat /\ Len(queue) <= QueueSize
    BY LenProperties DEF TypeOK
  <1>2. Len(g) \in Nat /\ DOMAIN g = 1 .. Len(g) /\ DOMAIN queue = 1 .. Len(queue)
    BY <1>1, LenProperties
  <1>3. QueueSize \in Nat
    BY BoundAssumption
  <1>4. CASE closed
    BY <1>1, <1>4 DEF Send, Delivers, TypeOK
  <1>5. CASE ~closed
    <2> DEFINE over == Len(queue) + Len(g) > QueueSize
               h == Fitting(g)
               room == QueueSize - Len(queue)
    <2>1. queue' = queue \o h /\ closed' = over
      BY <1>5 DEF Send
    <2>2. /\ h \in Seq(Frame) /\ Len(h) \in Nat
          /\ Len(h) <= room /\ Len(h) <= Len(g)
          /\ \A i \in 1 .. Len(h) : h[i] = g[i]
          /\ ~over => Len(h) = Len(g)
      <3>1. CASE Len(g) <= room
        BY <1>2, <3>1 DEF Fitting
      <3>2. CASE ~(Len(g) <= room)
        <4>1. room \in Nat /\ room < Len(g)
          BY <1>1, <1>2, <1>3, <3>2
        <4>2. \A i \in 1 .. room : g[i] \in Frame
          BY <1>2, <4>1, ElementOfSeq
        <4>3. h = SubSeq(g, 1, room)
          BY <3>2 DEF Fitting
        <4> HIDE DEF room, h
        <4>4. /\ SubSeq(g, 1, room) \in Seq(Frame)
              /\ Len(SubSeq(g, 1, room)) = IF 1 <= room THEN room - 1 + 1 ELSE 0
              /\ \A i \in 1 .. room - 1 + 1 : SubSeq(g, 1, room)[i] = g[1 + i - 1]
          BY <4>1, <4>2, SubSeqProperties
        <4>5. h \in Seq(Frame) /\ Len(h) = room /\ \A i \in 1 .. room : h[i] = g[i]
          BY <4>1, <4>3, <4>4
        <4>6. over
          BY <1>1, <1>2, <1>3, <4>1 DEF room, over
        <4> HIDE DEF over
        <4> QED BY <1>2, <4>1, <4>5, <4>6
      <3> QED BY <3>1, <3>2
    <2>3. over \in BOOLEAN
      BY DEF over
    <2> HIDE DEF over, h
    <2>4. /\ queue \o h \in Seq(Frame) /\ Len(queue \o h) = Len(queue) + Len(h)
          /\ \A i \in 1 .. Len(queue) + Len(h) :
               (queue \o h)[i] = IF i <= Len(queue) THEN queue[i] ELSE h[i - Len(queue)]
      BY <1>1, <2>2, ConcatProperties
    <2>5. /\ queue' \in Seq(Frame) /\ Len(queue') = Len(queue) + Len(h)
          /\ \A i \in 1 .. Len(queue) + Len(h) :
               queue'[i] = IF i <= Len(queue) THEN queue[i] ELSE h[i - Len(queue)]
      BY <2>1, <2>4
    <2>6. DOMAIN queue' = 1 .. Len(queue) + Len(h)
      BY <2>5, LenProperties
    <2>7. ASSUME NEW i \in DOMAIN queue'
          PROVE  \/ \E k \in DOMAIN queue : queue'[i] = queue[k]
                 \/ \E k \in DOMAIN g : queue'[i] = g[k]
      <3>1. CASE i <= Len(queue)
        BY <1>1, <1>2, <2>2, <2>5, <2>6, <3>1
      <3>2. CASE ~(i <= Len(queue))
        <4>1. i - Len(queue) \in 1 .. Len(h) /\ queue'[i] = h[i - Len(queue)]
          BY <1>1, <2>2, <2>5, <2>6, <3>2
        <4>2. i - Len(queue) \in DOMAIN g
          BY <1>2, <2>2, <4>1
        <4> QED BY <2>2, <4>1, <4>2
      <3> QED BY <3>1, <3>2
    <2>8. ASSUME queue = <<>>
          PROVE  /\ \A i \in DOMAIN queue' : i \in DOMAIN g /\ queue'[i] = g[i]
                 /\ ~closed' => DOMAIN g \subseteq DOMAIN queue'
      <3>1. Len(queue) = 0
        BY <2>8, EmptySeq
      <3>2. \A i \in DOMAIN queue' : i \in 1 .. Len(h) /\ queue'[i] = h[i]
        BY <2>2, <2>5, <2>6, <3>1
      <3>3. \A i \in DOMAIN queue' : i \in DOMAIN g /\ queue'[i] = g[i]
        BY <1>2, <2>2, <3>2
      <3>4. ~closed' => Len(h) = Len(g)
        BY <2>1, <2>2
      <3>5. ~closed' => DOMAIN g \subseteq DOMAIN queue'
        BY <1>2, <2>6, <3>1, <3>4
      <3> QED BY <3>3, <3>5
    <2>9. Len(queue') <= QueueSize
      BY <1>1, <1>3, <2>2, <2>5
    <2> QED BY <2>1, <2>3, <2>5, <2>7, <2>8, <2>9 DEF Delivers
  <1> QED BY <1>4, <1>5

LEMMA EventFramesAre ==
    ASSUME TypeOK, FramesInv, NEW S \in SUBSET batch.ids, NEW ids \in Ordered(S)
    PROVE  /\ EventFrames(ids) \in Seq(Frame)
           /\ DOMAIN EventFrames(ids) = DOMAIN ids
           /\ \A i \in DOMAIN ids :
                /\ EventFrames(ids)[i].ev = log[ids[i]] /\ EventFrames(ids)[i].id = ids[i]
                /\ ids[i] \in S /\ EventFrames(ids)[i].ev # NoEvent
           /\ \A i, k \in DOMAIN ids : i < k => ids[i] < ids[k]
           /\ \A n \in S : \E i \in DOMAIN ids : ids[i] = n
  <1>1. /\ ids \in [1 .. Cardinality(S) -> S]
        /\ Range(ids) = S
        /\ \A i, k \in DOMAIN ids : i < k => ids[i] < ids[k]
    BY DEF Ordered
  <1>2. cursor \in Nat /\ Len(log) \in Nat /\ DOMAIN log = 1 .. Len(log) /\ log \in Seq(Events)
    BY LenProperties DEF TypeOK
  <1>3. S \subseteq 1 .. Len(log)
    BY <1>2 DEF FramesInv
  <1>4. Cardinality(S) \in Nat
    <2>1. IsFiniteSet(1 .. Len(log))
      BY <1>2, FS_Interval
    <2> QED BY <1>3, <2>1, FS_Subset, FS_CardinalityType
  <1>5. DOMAIN ids = 1 .. Cardinality(S) /\ \A i \in DOMAIN ids : ids[i] \in S
    BY <1>1
  <1>6. \A i \in DOMAIN ids : log[ids[i]] \in Events /\ ids[i] \in Nat
    <2>1. \A n \in 1 .. Len(log) : log[n] \in Events
      BY <1>2, ElementOfSeq
    <2>2. \A i \in DOMAIN ids : ids[i] \in 1 .. Len(log)
      BY <1>3, <1>5
    <2> QED BY <1>2, <2>1, <2>2
  <1>7. \A i \in DOMAIN ids : EventFrame(log[ids[i]], ids[i]) \in Frame
    BY <1>6, NothingType, FrameType DEF EventFrame
  <1>8. EventFrames(ids) \in [1 .. Cardinality(S) -> Frame]
    BY <1>5, <1>7 DEF EventFrames
  <1>9. EventFrames(ids) \in Seq(Frame)
    BY <1>4, <1>8
  <1>10. \A i \in DOMAIN ids :
           /\ EventFrames(ids)[i].ev = log[ids[i]] /\ EventFrames(ids)[i].id = ids[i]
           /\ EventFrames(ids)[i].ev # NoEvent
    BY <1>6, EventAssumption DEF EventFrames, EventFrame, NoEvent
  <1>11. \A n \in S : \E i \in DOMAIN ids : ids[i] = n
    BY <1>1 DEF Range
  <1> QED BY <1>1, <1>5, <1>8, <1>9, <1>10, <1>11

LEMMA ReplayedFrames ==
    ASSUME TypeOK, FramesInv,
           NEW ids \in Ordered({id \in batch.ids : KindOf[log[id]] # "internal"})
    PROVE  Replays(ReplayFrames(ids))
  <1> DEFINE S == {id \in batch.ids : KindOf[log[id]] # "internal"}
             h == EventFrames(ids)
             g == ReplayFrames(ids)
  <1>1. S \in SUBSET batch.ids /\ ids \in Ordered(S)
    OBVIOUS
  <1>2. /\ h \in Seq(Frame) /\ DOMAIN h = DOMAIN ids
        /\ \A i \in DOMAIN h :
             /\ h[i].ev = log[h[i].id] /\ h[i].id = ids[i]
             /\ h[i].id \in batch.ids /\ h[i].ev # NoEvent
        /\ \A i, k \in DOMAIN h : i < k => h[i].id < h[k].id
        /\ \A n \in S : \E i \in DOMAIN h : h[i].id = n /\ h[i].ev = log[n]
    <2>1. /\ h \in Seq(Frame) /\ DOMAIN h = DOMAIN ids
          /\ \A i \in DOMAIN ids :
               /\ h[i].ev = log[ids[i]] /\ h[i].id = ids[i]
               /\ ids[i] \in S /\ h[i].ev # NoEvent
          /\ \A i, k \in DOMAIN ids : i < k => ids[i] < ids[k]
          /\ \A n \in S : \E i \in DOMAIN ids : ids[i] = n
      BY <1>1, EventFramesAre
    <2> HIDE DEF h
    <2>2. \A i \in DOMAIN ids : ids[i] \in batch.ids
      BY <2>1
    <2> QED BY <2>1, <2>2
  <1>3. Len(h) \in Nat /\ DOMAIN h = 1 .. Len(h)
    BY <1>2, LenProperties
  <1> HIDE DEF h
  <1>4. CASE ~batch.snapshots
    <2>1. g = h
      BY <1>4 DEF ReplayFrames, h
    <2> HIDE DEF g
    <2>2. \A n \in batch.ids : KindOf[log[n]] # "internal" =>
            \E i \in DOMAIN g : g[i].ev = log[n] /\ g[i].id = n
      BY <1>2, <2>1
    <2>3. Replays(g)
      BY <1>2, <1>4, <2>1, <2>2 DEF Replays
    <2> QED BY <2>3 DEF g
  <1>5. CASE batch.snapshots
    <2> DEFINE s == Snapshot(batch.rows, batch.upto)
               t == <<s>>
    <2>1. s \in Frame
      BY FrameType DEF Snapshot, TypeOK
    <2>2. t \in Seq(Frame) /\ Len(t) = 1 /\ t[1] = s
      BY <2>1
    <2>3. s.ev = NoEvent /\ s.id = batch.upto /\ s.rows = batch.rows
      BY DEF Snapshot
    <2>4. g = t \o h
      BY <1>5 DEF ReplayFrames, h
    <2> HIDE DEF g, s, t
    <2>5. /\ t \o h \in Seq(Frame) /\ Len(t \o h) = Len(t) + Len(h)
          /\ \A i \in 1 .. Len(t) + Len(h) :
               (t \o h)[i] = IF i <= Len(t) THEN t[i] ELSE h[i - Len(t)]
      <3>1. t \in Seq(Frame) /\ h \in Seq(Frame)
        BY <1>2, <2>2
      <3> QED BY <3>1, ConcatProperties
    <2>6. /\ g \in Seq(Frame) /\ Len(g) = 1 + Len(h)
          /\ \A i \in 1 .. 1 + Len(h) : g[i] = IF i <= 1 THEN t[i] ELSE h[i - 1]
      BY <2>2, <2>4, <2>5
    <2>7. DOMAIN g = 1 .. 1 + Len(h)
      BY <2>6, LenProperties
    <2>8. 1 \in DOMAIN g /\ g[1] = s
      BY <1>3, <2>2, <2>6, <2>7
    <2>9. \A i \in DOMAIN g : i # 1 => i - 1 \in DOMAIN h /\ g[i] = h[i - 1]
      <3> SUFFICES ASSUME NEW i \in DOMAIN g, i # 1
                   PROVE  i - 1 \in DOMAIN h /\ g[i] = h[i - 1]
        OBVIOUS
      <3>1. i \in 1 .. 1 + Len(h) /\ ~(i <= 1) /\ i - 1 \in 1 .. Len(h)
        BY <1>3, <2>7
      <3>2. g[i] = IF i <= 1 THEN t[i] ELSE h[i - 1]
        BY <2>6, <3>1
      <3> QED BY <1>3, <3>1, <3>2
    <2>10. \A i \in DOMAIN h : i + 1 \in DOMAIN g /\ g[i + 1] = h[i]
      BY <1>3, <2>6, <2>7
    <2>11. \A i \in DOMAIN g : g[i].ev = NoEvent =>
             i = 1 /\ g[i].id = batch.upto /\ g[i].rows = batch.rows
      BY <1>2, <2>3, <2>8, <2>9
    <2>12. \A i \in DOMAIN g : g[i].ev # NoEvent =>
             i # 1 /\ g[i].id \in batch.ids /\ g[i].ev = log[g[i].id]
      BY <1>2, <2>3, <2>8, <2>9
    <2>13. ASSUME NEW i \in DOMAIN g, NEW k \in DOMAIN g, i < k,
                  g[i].ev # NoEvent, g[k].ev # NoEvent
           PROVE  g[i].id < g[k].id
      <3>1. i - 1 \in DOMAIN h /\ g[i] = h[i - 1] /\ k - 1 \in DOMAIN h /\ g[k] = h[k - 1]
        BY <2>9, <2>12, <2>13
      <3>2. i - 1 < k - 1
        BY <1>3, <2>7, <2>13
      <3> QED BY <1>2, <3>1, <3>2
    <2>14. \A n \in batch.ids : KindOf[log[n]] # "internal" =>
             \E i \in DOMAIN g : g[i].ev = log[n] /\ g[i].id = n
      BY <1>2, <2>10
    <2>15. \E i \in DOMAIN g : g[i].ev = NoEvent
      BY <2>3, <2>8
    <2>16. Replays(g)
      BY <1>5, <2>6, <2>11, <2>12, <2>13, <2>14, <2>15 DEF Replays
    <2> QED BY <2>16 DEF g
  <1> QED BY <1>4, <1>5

\* The frames of a Deliver step.
LEMMA Deliveries ==
    ASSUME TypeOK, FramesInv, Deliver
    PROVE  \E g \in Seq(Frame) : Replays(g) /\ Delivers(g)
  <1>1. PICK ids \in Ordered({id \in batch.ids : KindOf[log[id]] # "internal"}) :
               Send(ReplayFrames(ids))
    BY DEF Deliver
  <1>2. Replays(ReplayFrames(ids))
    BY ReplayedFrames
  <1>3. ReplayFrames(ids) \in Seq(Frame)
    BY <1>2 DEF Replays
  <1>4. Delivers(ReplayFrames(ids))
    BY <1>1, <1>3, DeliveredFrames
  <1> QED BY <1>2, <1>3, <1>4

-----------------------------------------------------------------------------
(* Types, the table, and what the connection holds: the publishers.        *)

LEMMA LogFacts ==
    ASSUME TypeOK
    PROVE  /\ log \in Seq(Events) /\ Len(log) \in Nat /\ DOMAIN log = 1 .. Len(log)
           /\ \A i \in DOMAIN log : log[i] \in Events /\ i \in Nat /\ i # 0
  BY LenProperties, ElementOfSeq DEF TypeOK

LEMMA QueueFacts ==
    ASSUME TypeOK
    PROVE  /\ queue \in Seq(Frame) /\ Len(queue) \in Nat /\ DOMAIN queue = 1 .. Len(queue)
           /\ \A i \in DOMAIN queue :
                /\ queue[i] \in Frame /\ i \in Nat
                /\ queue[i].ev \in Events \cup {NoEvent} /\ queue[i].id \in Nat
                /\ queue[i].rows \in View
  <1>1. queue \in Seq(Frame) /\ Len(queue) \in Nat /\ DOMAIN queue = 1 .. Len(queue)
    BY LenProperties DEF TypeOK
  <1>2. \A i \in DOMAIN queue : queue[i] \in Frame /\ i \in Nat
    BY <1>1, ElementOfSeq
  <1>3. \A f \in Frame : f.ev \in Events \cup {NoEvent} /\ f.id \in Nat /\ f.rows \in View
    BY DEF Frame
  <1> QED BY <1>1, <1>2, <1>3

LEMMA EventIsNotNoEvent == \A e \in Events : e # NoEvent /\ e \in Nat
  BY EventAssumption DEF NoEvent

\* The table with one more event.
Grown(e) ==
    /\ log' \in Seq(Events)
    /\ Len(log') = Len(log) + 1 /\ DOMAIN log' = 1 .. Len(log) + 1
    /\ log'[Len(log) + 1] = e
    /\ \A i \in DOMAIN log : i \in DOMAIN log' /\ log'[i] = log[i]
    /\ \A i \in DOMAIN log' : i \in DOMAIN log \/ i = Len(log) + 1

LEMMA LogGrows ==
    ASSUME TypeOK, NEW e \in Events, log' = Append(log, e)
    PROVE  Grown(e)
  <1>1. log \in Seq(Events) /\ Len(log) \in Nat /\ DOMAIN log = 1 .. Len(log)
    BY LogFacts
  <1>2. /\ log' \in Seq(Events) /\ Len(log') = Len(log) + 1
        /\ \A i \in 1 .. Len(log) : log'[i] = log[i]
        /\ log'[Len(log) + 1] = e
    BY <1>1, AppendProperties
  <1>3. DOMAIN log' = 1 .. Len(log) + 1
    BY <1>2, LenProperties
  <1> QED BY <1>1, <1>2, <1>3 DEF Grown

\* An event that has just been stored is the last of the table.
LEMMA StoredIsLast ==
    ASSUME TypeInv, NEW e \in Events, pub[e] = "stored"
    PROVE  IdOf(e) = Len(log) /\ Len(log) \in DOMAIN log /\ log[Len(log)] = e
  <1>1. Len(log) \in DOMAIN log /\ log[Len(log)] = e
    BY LogFacts DEF TypeInv, LogInv
  <1>2. \A i \in DOMAIN log : log[i] = e => i = Len(log)
    BY <1>1 DEF TypeInv, LogInv
  <1>3. IdOf(e) \in DOMAIN log /\ log[IdOf(e)] = e
    BY <1>1 DEF IdOf
  <1> QED BY <1>1, <1>2, <1>3

LEMMA WriteRowTypes ==
    ASSUME TypeInv, NEW e \in Events, WriteRow(e)
    PROVE  TypeInv'
  <1>1. pub[e] = "new" /\ pub' = [pub EXCEPT ![e] = "written"]
    BY DEF WriteRow
  <1>2. UNCHANGED <<log, aged, conn, closed, queue, batch, cursor, view, got, since,
                    blind, loaded, overtaken, cut, faults>>
    BY DEF WriteRow, connection, client
  <1>3. row' \in View
    BY EventAssumption DEF WriteRow, TypeInv, TypeOK, View
  <1>4. /\ pub' \in [Events -> {"new", "written", "stored", "dead", "done", "lost", "silent"}]
        /\ pub'[e] = "written" /\ \A f \in Events : f # e => pub'[f] = pub[f]
    BY <1>1 DEF TypeInv, TypeOK
  <1>5. TypeOK'
    BY <1>2, <1>3, <1>4 DEF TypeInv, TypeOK
  <1>6. LogInv'
    BY <1>1, <1>2, <1>4, LogFacts DEF TypeInv, LogInv, InTime
  <1>7. FramesInv'
    BY <1>1, <1>2, <1>4, QueueFacts DEF TypeInv, FramesInv, Honest
  <1>8. ConnInv'
    BY <1>2 DEF TypeInv, ConnInv
  <1> QED BY <1>5, <1>6, <1>7, <1>8 DEF TypeInv

LEMMA StoreTypes ==
    ASSUME TypeInv, NEW e \in Events, Store(e)
    PROVE  TypeInv'
  <1>1. /\ pub[e] = "written" /\ pub' = [pub EXCEPT ![e] = "stored"]
        /\ \A f \in Events : pub[f] # "stored"
        /\ log' = Append(log, e)
    BY DEF Store
  <1>2. UNCHANGED <<row, aged, conn, closed, queue, batch, cursor, view, got, since,
                    blind, loaded, overtaken, cut, faults>>
    BY DEF Store, connection, client
  <1>3. Grown(e)
    BY <1>1, LogGrows DEF TypeInv
  <1>4. /\ pub' \in [Events -> {"new", "written", "stored", "dead", "done", "lost", "silent"}]
        /\ pub'[e] = "stored" /\ \A f \in Events : f # e => pub'[f] = pub[f]
    BY <1>1 DEF TypeInv, TypeOK
  <1>5. /\ Len(log) \in Nat /\ DOMAIN log = 1 .. Len(log)
        /\ \A i \in DOMAIN log : log[i] \in Events
    BY LogFacts DEF TypeInv
  <1>6. TypeOK'
    BY <1>2, <1>3, <1>4, <1>5 DEF TypeInv, TypeOK, Grown
  <1>7. LogInv'
    <2>1. \A i \in DOMAIN log : log[i] # e
      BY <1>1 DEF TypeInv, LogInv
    <2>2. \A i, k \in DOMAIN log' : log'[i] = log'[k] => i = k
      BY <1>3, <2>1 DEF TypeInv, LogInv, Grown
    <2>3. \A i \in DOMAIN log' : pub'[log'[i]] \in {"stored", "done", "lost", "silent"}
      BY <1>3, <1>4, <1>5, <2>1 DEF TypeInv, LogInv, Grown
    <2>4. \A f \in Events : pub'[f] \in {"stored", "done"} =>
            \E i \in DOMAIN log' : log'[i] = f
      <3>1. Len(log) + 1 \in DOMAIN log' /\ log'[Len(log) + 1] = e
        BY <1>3, <1>5 DEF Grown
      <3> QED BY <1>3, <1>4, <3>1 DEF TypeInv, LogInv, InTime, Grown
    <2>5. \A f \in Events : pub'[f] = "stored" => Len(log') > 0 /\ log'[Len(log')] = f
      BY <1>1, <1>3, <1>4, <1>5 DEF Grown
    <2> QED BY <2>2, <2>3, <2>4, <2>5 DEF LogInv, InTime
  <1>8. FramesInv'
    <2>1. \A i \in DOMAIN queue : Honest(queue[i])'
      BY <1>1, <1>2, <1>3, <1>4, <1>5, QueueFacts DEF TypeInv, FramesInv, Honest, Grown
    <2>2. batch'.ids \subseteq cursor' + 1 .. Len(log') /\ batch'.upto <= Len(log')
      BY <1>2, <1>3, <1>5 DEF TypeInv, TypeOK, FramesInv, Grown
    <2> QED BY <1>2, <2>1, <2>2 DEF FramesInv
  <1>9. ConnInv'
    BY <1>2 DEF TypeInv, ConnInv
  <1> QED BY <1>6, <1>7, <1>8, <1>9 DEF TypeInv

LEMMA RetryTypes ==
    ASSUME TypeInv, NEW e \in Events, RetryDeadLetter(e)
    PROVE  TypeInv'
  <1>1. pub[e] = "dead" /\ pub' = [pub EXCEPT ![e] = "lost"]
    BY DEF RetryDeadLetter
  <1>2. UNCHANGED <<row, aged, conn, closed, queue, batch, cursor, view, got, since,
                    blind, loaded, overtaken, cut, faults>>
    BY DEF RetryDeadLetter, connection, client
  <1>3. /\ pub' \in [Events -> {"new", "written", "stored", "dead", "done", "lost", "silent"}]
        /\ pub'[e] = "lost" /\ \A f \in Events : f # e => pub'[f] = pub[f]
    BY <1>1 DEF TypeInv, TypeOK
  <1>4. /\ Len(log) \in Nat /\ DOMAIN log = 1 .. Len(log)
        /\ \A i \in DOMAIN log : log[i] \in Events
    BY LogFacts DEF TypeInv
  <1>5. ConnInv'
    BY <1>2 DEF TypeInv, ConnInv
  <1>6. CASE UNCHANGED log
    <2>1. TypeOK'
      BY <1>2, <1>3, <1>6 DEF TypeInv, TypeOK
    <2>2. LogInv'
      BY <1>1, <1>3, <1>4, <1>6 DEF TypeInv, LogInv, InTime
    <2>3. FramesInv'
      BY <1>1, <1>2, <1>3, <1>6, QueueFacts DEF TypeInv, FramesInv, Honest
    <2> QED BY <1>5, <2>1, <2>2, <2>3 DEF TypeInv
  <1>7. CASE log' = Append(log, e) /\ \A f \in Events : pub[f] # "stored"
    <2>1. Grown(e)
      BY <1>7, LogGrows DEF TypeInv
    <2>2. TypeOK'
      BY <1>2, <1>3, <1>4, <2>1 DEF TypeInv, TypeOK, Grown
    <2>3. \A i \in DOMAIN log : log[i] # e
      BY <1>1 DEF TypeInv, LogInv
    <2>4. LogInv'
      <3>1. \A i, k \in DOMAIN log' : log'[i] = log'[k] => i = k
        BY <2>1, <2>3 DEF TypeInv, LogInv, Grown
      <3>2. \A i \in DOMAIN log' : pub'[log'[i]] \in {"stored", "done", "lost", "silent"}
        BY <1>3, <1>4, <2>1, <2>3 DEF TypeInv, LogInv, Grown
      <3>3. \A f \in Events : pub'[f] \in {"stored", "done"} =>
              \E i \in DOMAIN log' : log'[i] = f
        BY <1>3, <2>1 DEF TypeInv, LogInv, InTime, Grown
      <3>4. \A f \in Events : pub'[f] # "stored"
        BY <1>3, <1>7
      <3> QED BY <3>1, <3>2, <3>3, <3>4 DEF LogInv, InTime
    <2>5. FramesInv'
      <3>1. \A i \in DOMAIN queue : Honest(queue[i])'
        BY <1>1, <1>2, <1>3, <1>4, <2>1, QueueFacts DEF TypeInv, FramesInv, Honest, Grown
      <3>2. batch'.ids \subseteq cursor' + 1 .. Len(log') /\ batch'.upto <= Len(log')
        BY <1>2, <1>4, <2>1 DEF TypeInv, TypeOK, FramesInv, Grown
      <3> QED BY <1>2, <3>1, <3>2 DEF FramesInv
    <2> QED BY <1>5, <2>2, <2>4, <2>5 DEF TypeInv
  <1> QED BY <1>6, <1>7 DEF RetryDeadLetter

\* A frame that is sent keeps the queue honest.
LEMMA BroadcastTypes ==
    ASSUME TypeInv, NEW e \in Events, NEW id \in Nat, Broadcasts(e, id),
           log' = log, cursor' = cursor, loaded' = loaded,
           \A f \in Frame : Honest(f) => Honest(f)',
           Honest(EventFrame(e, id))'
    PROVE  FramesInv' /\ ConnInv'
  <1>1. \A i \in DOMAIN queue : queue[i] \in Frame /\ Honest(queue[i])
    BY QueueFacts DEF TypeInv, FramesInv
  <1>2. ASSUME NEW i \in DOMAIN queue'
        PROVE  \E f \in {queue'[i]} : Honest(f)'
    <2>1. CASE queue' = queue
      BY <1>1, <1>2, <2>1
    <2>2. CASE Takes(queue', EventFrame(e, id))
      BY <1>1, <1>2, <2>2 DEF Takes
    <2> QED BY <2>1, <2>2 DEF Broadcasts
  <1>3. \A i \in DOMAIN queue' : Honest(queue[i])'
    BY <1>2 DEF Honest
  <1>4. FramesInv'
    BY <1>3 DEF TypeInv, FramesInv, Broadcasts
  <1>5. ConnInv'
    BY DEF TypeInv, ConnInv, Broadcasts
  <1> QED BY <1>4, <1>5

LEMMA PublishStoredTypes ==
    ASSUME TypeInv, NEW e \in Events, PublishStored(e)
    PROVE  TypeInv' /\ Broadcasts(e, Len(log))
  <1>1. pub[e] = "stored" /\ pub' = [pub EXCEPT ![e] = "done"]
    BY DEF PublishStored
  <1>2. UNCHANGED <<row, log, aged, cursor, view, got, since, blind, loaded, cut, faults>>
    BY DEF PublishStored, client
  <1>3. Len(log) \in DOMAIN log /\ log[Len(log)] = e /\ IdOf(e) = Len(log)
    BY <1>1, StoredIsLast
  <1>4. /\ Len(log) \in Nat /\ Len(log) # 0
        /\ \A i \in DOMAIN log : log[i] \in Events
    BY <1>3, LogFacts DEF TypeInv
  <1>5. Broadcasts(e, Len(log))
    BY <1>3, <1>4, BroadcastFits DEF PublishStored, TypeInv
  <1>6. /\ pub' \in [Events -> {"new", "written", "stored", "dead", "done", "lost", "silent"}]
        /\ pub'[e] = "done" /\ \A f \in Events : f # e => pub'[f] = pub[f]
    BY <1>1 DEF TypeInv, TypeOK
  <1>7. TypeOK'
    BY <1>2, <1>5, <1>6 DEF TypeInv, TypeOK, Broadcasts
  <1>8. LogInv'
    BY <1>1, <1>2, <1>4, <1>6 DEF TypeInv, LogInv, InTime
  <1>9. \A f \in Frame : Honest(f) => Honest(f)'
    BY <1>1, <1>2, <1>6 DEF Frame, Honest
  <1>10. Honest(EventFrame(e, Len(log)))'
    BY <1>2, <1>3, <1>4, EventIsNotNoEvent DEF Honest, EventFrame
  <1>11. FramesInv' /\ ConnInv'
    BY <1>2, <1>4, <1>5, <1>9, <1>10, BroadcastTypes
  <1> QED BY <1>5, <1>7, <1>8, <1>11 DEF TypeInv

LEMMA PublishUnstoredTypes ==
    ASSUME TypeInv, NEW e \in Events, PublishUnstored(e)
    PROVE  TypeInv' /\ Broadcasts(e, 0)
  <1>1. pub[e] = "written" /\ pub' = [pub EXCEPT ![e] = "dead"]
    BY DEF PublishUnstored
  <1>2. UNCHANGED <<row, log, aged, cursor, view, got, since, blind, loaded, cut>>
    BY DEF PublishUnstored, client
  <1>3. \A i \in DOMAIN log : log[i] \in Events
    BY LogFacts DEF TypeInv
  <1>4. Broadcasts(e, 0)
    BY BroadcastFits DEF PublishUnstored, TypeInv
  <1>5. /\ pub' \in [Events -> {"new", "written", "stored", "dead", "done", "lost", "silent"}]
        /\ pub'[e] = "dead" /\ \A f \in Events : f # e => pub'[f] = pub[f]
    BY <1>1 DEF TypeInv, TypeOK
  <1>6. faults' \in Nat
    BY DEF PublishUnstored, TypeInv, TypeOK
  <1>7. TypeOK'
    BY <1>2, <1>4, <1>5, <1>6 DEF TypeInv, TypeOK, Broadcasts
  <1>8. LogInv'
    BY <1>1, <1>2, <1>3, <1>5 DEF TypeInv, LogInv, InTime
  <1>9. \A f \in Frame : Honest(f) => Honest(f)'
    BY <1>1, <1>2, <1>5 DEF Frame, Honest
  <1>10. Honest(EventFrame(e, 0))'
    BY <1>5, EventIsNotNoEvent DEF Honest, EventFrame
  <1>11. FramesInv' /\ ConnInv'
    BY <1>2, <1>4, <1>9, <1>10, BroadcastTypes
  <1> QED BY <1>4, <1>7, <1>8, <1>11 DEF TypeInv

LEMMA PublishCanceledTypes ==
    ASSUME TypeInv, NEW e \in Events, PublishCanceled(e)
    PROVE  TypeInv'
  <1>1. pub[e] \in {"written", "stored"} /\ pub' = [pub EXCEPT ![e] = "silent"]
    BY DEF PublishCanceled
  <1>2. UNCHANGED <<row, log, aged, conn, closed, queue, batch, cursor, view, got, since,
                    blind, loaded, overtaken, cut>>
    BY DEF PublishCanceled, connection, client
  <1>3. \A i \in DOMAIN log : log[i] \in Events
    BY LogFacts DEF TypeInv
  <1>4. /\ pub' \in [Events -> {"new", "written", "stored", "dead", "done", "lost", "silent"}]
        /\ pub'[e] = "silent" /\ \A f \in Events : f # e => pub'[f] = pub[f]
    BY <1>1 DEF TypeInv, TypeOK
  <1>5. faults' \in Nat
    BY DEF PublishCanceled, TypeInv, TypeOK
  <1>6. TypeOK'
    BY <1>2, <1>4, <1>5 DEF TypeInv, TypeOK
  <1>7. LogInv'
    BY <1>1, <1>2, <1>3, <1>4 DEF TypeInv, LogInv, InTime
  <1>8. FramesInv'
    BY <1>1, <1>2, <1>4, QueueFacts DEF TypeInv, FramesInv, Honest
  <1>9. ConnInv'
    BY <1>2 DEF TypeInv, ConnInv
  <1> QED BY <1>6, <1>7, <1>8, <1>9 DEF TypeInv

-----------------------------------------------------------------------------
(* The same: the connection and the client.                                *)

\* Nothing is published.
Quiet == UNCHANGED <<row, pub, log>>

LEMMA QuietLog == ASSUME TypeInv, Quiet PROVE LogInv'
  BY DEF TypeInv, LogInv, InTime, Quiet

LEMMA ConnectTypes ==
    ASSUME TypeInv, Connect
    PROVE  TypeInv'
  <1>1. /\ UNCHANGED <<row, pub, log, aged, closed, queue, batch, cursor, got,
                       overtaken, cut, faults>>
        /\ conn = "down" /\ conn' \in {"open", "querying"}
        /\ since' \in {since, Len(log)} /\ blind' \in {blind, Len(log)}
        /\ view' \in {view, row} /\ loaded' = TRUE
    BY DEF Connect, server
  <1>2. Len(log) \in Nat
    BY LogFacts DEF TypeInv
  <1>3. TypeOK'
    BY <1>1, <1>2 DEF TypeInv, TypeOK, ConnStates
  <1>4. LogInv'
    BY <1>1, QuietLog DEF Quiet
  <1>5. FramesInv'
    BY <1>1 DEF TypeInv, FramesInv, Honest
  <1>6. ConnInv'
    BY <1>1 DEF TypeInv, ConnInv
  <1> QED BY <1>3, <1>4, <1>5, <1>6 DEF TypeInv

LEMMA QueryTypes ==
    ASSUME TypeInv, Query
    PROVE  TypeInv'
  <1> DEFINE missed == cursor + 1 .. Len(log)
             bounded == {id \in missed : id <= cursor + MaxReplay}
             overflows == Len(log) > cursor + MaxReplay
             snapshots == overflows \/ (missed # {} /\ cursor + 1 <= aged')
             ids == {id \in bounded : snapshots => id > aged'}
  <1>1. /\ UNCHANGED <<row, pub, log, closed, queue, cursor, view, got, since, blind,
                       loaded, overtaken, faults>>
        /\ conn = "querying" /\ conn' = IF snapshots THEN "reading" ELSE "replaying"
        /\ aged' \in IF "age" \in Env THEN aged .. Len(log) ELSE {aged}
        /\ batch' = [NoBatch EXCEPT !.ids = ids, !.snapshots = snapshots]
        /\ cut' = (cut \/ overflows)
    BY DEF Query, client
  <1>2. Len(log) \in Nat /\ cursor \in Nat
    BY LogFacts DEF TypeInv, TypeOK
  <1>3. aged' \in Nat
    BY <1>1, <1>2 DEF TypeInv, TypeOK
  <1>4. ids \in SUBSET (cursor + 1 .. Len(log)) /\ snapshots \in BOOLEAN
        /\ overflows \in BOOLEAN
    OBVIOUS
  <1> HIDE DEF ids, snapshots, overflows
  <1>5. /\ batch'.ids = ids /\ batch'.snapshots = snapshots
        /\ batch'.upto = 0 /\ batch'.rows = Nothing
        /\ batch' \in [ids : {ids}, snapshots : {snapshots}, rows : {Nothing}, upto : {0}]
    BY <1>1 DEF NoBatch
  <1>6. batch' \in [ids : SUBSET Nat, snapshots : BOOLEAN, rows : View, upto : Nat]
    <2>1. ids \in SUBSET Nat
      BY <1>2, <1>4
    <2>2. {ids} \subseteq SUBSET Nat /\ {snapshots} \subseteq BOOLEAN
          /\ {Nothing} \subseteq View /\ {0} \subseteq Nat
      BY <1>4, <2>1, NothingType
    <2> QED BY <1>5, <2>2, Zenon
  <1>7. TypeOK'
    BY <1>1, <1>3, <1>4, <1>6 DEF TypeInv, TypeOK, ConnStates
  <1>8. LogInv'
    BY <1>1, QuietLog DEF Quiet
  <1>9. FramesInv'
    BY <1>1, <1>2, <1>4, <1>5 DEF TypeInv, FramesInv, Honest
  <1>10. ConnInv'
    BY <1>1, <1>5 DEF TypeInv, ConnInv
  <1> QED BY <1>7, <1>8, <1>9, <1>10 DEF TypeInv

LEMMA ReadRowsTypes ==
    ASSUME TypeInv, ReadRows
    PROVE  /\ TypeInv'
           /\ batch'.ids = batch.ids /\ batch'.snapshots = batch.snapshots
           /\ batch'.rows = row /\ batch'.upto = Len(log)
  <1>1. /\ UNCHANGED <<row, pub, log, aged, closed, queue, cursor, view, got, since,
                       blind, loaded, overtaken, cut, faults>>
        /\ conn = "reading" /\ conn' = "replaying"
        /\ batch' = [batch EXCEPT !.rows = row, !.upto = Len(log)]
    BY DEF ReadRows, server, client
  <1>2. Len(log) \in Nat
    BY LogFacts DEF TypeInv
  <1>3. /\ batch' \in [ids : SUBSET Nat, snapshots : BOOLEAN, rows : View, upto : Nat]
        /\ batch'.ids = batch.ids /\ batch'.snapshots = batch.snapshots
        /\ batch'.rows = row /\ batch'.upto = Len(log)
    BY <1>1, <1>2 DEF TypeInv, TypeOK
  <1>4. TypeOK'
    BY <1>1, <1>3 DEF TypeInv, TypeOK, ConnStates
  <1>5. LogInv'
    BY <1>1, QuietLog DEF Quiet
  <1>6. FramesInv'
    BY <1>1, <1>2, <1>3 DEF TypeInv, FramesInv, Honest
  <1>7. ConnInv'
    BY <1>1, <1>3 DEF TypeInv, ConnInv
  <1> QED BY <1>3, <1>4, <1>5, <1>6, <1>7 DEF TypeInv

LEMMA DeliverTypes ==
    ASSUME TypeInv, Deliver
    PROVE  TypeInv'
  <1>1. /\ UNCHANGED <<row, pub, log, aged, cursor, view, got, since, blind, loaded,
                       overtaken, cut, faults>>
        /\ conn = "replaying" /\ conn' = "open" /\ batch' = NoBatch
    BY DEF Deliver, server, client
  <1>2. PICK g \in Seq(Frame) : Replays(g) /\ Delivers(g)
    BY Deliveries DEF TypeInv
  <1>3. /\ Len(log) \in Nat /\ DOMAIN log = 1 .. Len(log)
        /\ \A i \in DOMAIN log : log[i] \in Events
    BY LogFacts DEF TypeInv
  <1>4. batch' \in [ids : SUBSET Nat, snapshots : BOOLEAN, rows : View, upto : Nat]
    BY <1>1, NothingType DEF NoBatch
  <1>5. TypeOK'
    BY <1>1, <1>2, <1>4 DEF TypeInv, TypeOK, ConnStates, Delivers
  <1>6. LogInv'
    BY <1>1, QuietLog DEF Quiet
  <1>7. \A i \in DOMAIN g : Honest(g[i])
    <2> SUFFICES ASSUME NEW i \in DOMAIN g
                 PROVE  Honest(g[i])
      OBVIOUS
    <2>1. CASE g[i].ev = NoEvent
      <3>1. g[i].id = batch.upto
        BY <1>2, <2>1 DEF Replays
      <3> QED BY <2>1, <3>1 DEF Honest, TypeInv, FramesInv
    <2>2. CASE g[i].ev # NoEvent
      <3>1. g[i].id \in batch.ids /\ g[i].ev = log[g[i].id]
        BY <1>2, <2>2 DEF Replays
      <3>2. g[i].id \in DOMAIN log /\ g[i].id # 0
        BY <1>3, <3>1 DEF TypeInv, TypeOK, FramesInv
      <3> QED BY <2>2, <3>1, <3>2 DEF Honest
    <2> QED BY <2>1, <2>2
  <1>8. ASSUME NEW i \in DOMAIN queue'
        PROVE  \E f \in {queue'[i]} : Honest(f)
    BY <1>2, <1>7 DEF Delivers, TypeInv, FramesInv
  <1>9. FramesInv'
    <2>1. \A i \in DOMAIN queue' : Honest(queue[i])'
      BY <1>1, <1>8 DEF Honest
    <2>2. batch'.ids = {} /\ batch'.upto = 0
      BY <1>1 DEF NoBatch
    <2> QED BY <1>1, <1>3, <2>1, <2>2 DEF FramesInv
  <1>10. ConnInv'
    BY <1>1 DEF TypeInv, ConnInv
  <1> QED BY <1>5, <1>6, <1>9, <1>10 DEF TypeInv

\* The queue without the frame that is received.
Shifted ==
    /\ Head(queue) = queue[1] /\ 1 \in DOMAIN queue
    /\ queue' \in Seq(Frame) /\ Len(queue') <= QueueSize
    /\ \A i \in DOMAIN queue' : i + 1 \in DOMAIN queue /\ queue'[i] = queue[i + 1]
    /\ \A i \in DOMAIN queue : i # 1 => i - 1 \in DOMAIN queue' /\ queue'[i - 1] = queue[i]

LEMMA ReceiveShifts ==
    ASSUME TypeInv, Receive
    PROVE  Shifted
  <1>1. queue \in Seq(Frame) /\ Len(queue) \in Nat /\ DOMAIN queue = 1 .. Len(queue)
    BY QueueFacts DEF TypeInv
  <1>2. queue # <<>> /\ queue' = Tail(queue)
    BY DEF Receive
  <1>3. /\ queue' \in Seq(Frame) /\ Len(queue') = Len(queue) - 1
        /\ \A i \in 1 .. Len(queue') : queue'[i] = queue[i + 1]
    BY <1>1, <1>2, HeadTailProperties
  <1>4. Head(queue) = queue[1] /\ Len(queue) # 0
    BY <1>1, <1>2, EmptySeq
  <1>5. DOMAIN queue' = 1 .. Len(queue) - 1
    BY <1>3, LenProperties
  <1>6. QueueSize \in Nat /\ Len(queue) <= QueueSize
    BY BoundAssumption DEF TypeInv, TypeOK
  <1>7. \A i \in DOMAIN queue' : i + 1 \in DOMAIN queue /\ queue'[i] = queue[i + 1]
    BY <1>1, <1>3, <1>5
  <1>8. ASSUME NEW i \in DOMAIN queue, i # 1
        PROVE  i - 1 \in DOMAIN queue' /\ queue'[i - 1] = queue[i]
    <2>1. i - 1 \in 1 .. Len(queue) - 1 /\ (i - 1) + 1 = i
      BY <1>1, <1>8
    <2> QED BY <1>3, <1>5, <2>1
  <1>9. 1 \in DOMAIN queue /\ Len(queue') <= QueueSize
    BY <1>1, <1>3, <1>4, <1>6
  <1> QED BY <1>3, <1>4, <1>7, <1>8, <1>9 DEF Shifted

\* What receiving a frame does to the client.
Receives(f) ==
    /\ f = queue[1] /\ f \in Frame
    /\ \/ /\ f.ev = NoEvent /\ view' = f.rows /\ UNCHANGED <<cursor, got>>
          /\ since' = IF f.id > since THEN f.id ELSE since
       \/ /\ f.ev \in Events /\ UNCHANGED since
          /\ view' = IF KindOf[f.ev] = "state"
                     THEN [view EXCEPT ![JobOf[f.ev]] = f.ev] ELSE view
          /\ cursor' = IF f.id = 0 THEN cursor ELSE f.id
          /\ got' = got \cup {f.ev}

LEMMA ReceiveTypes ==
    ASSUME TypeInv, Receive
    PROVE  TypeInv' /\ Receives(queue[1])
  <1>1. /\ UNCHANGED <<row, pub, log, aged, conn, closed, batch, blind, loaded,
                       overtaken, cut, faults>>
        /\ conn = "open" /\ ~closed
    BY DEF Receive, server
  <1>2. Shifted
    BY ReceiveShifts
  <1> DEFINE f == queue[1]
  <1>3. f \in Frame /\ f.ev \in Events \cup {NoEvent} /\ f.id \in Nat /\ f.rows \in View
    BY <1>2, QueueFacts DEF Shifted, TypeInv
  <1>4. Honest(f) /\ f = Head(queue)
    BY <1>2 DEF Shifted, TypeInv, FramesInv
  <1>5. Receives(f)
    BY <1>3, <1>4, EventIsNotNoEvent DEF Receive, Receives
  <1>6. /\ Len(log) \in Nat /\ DOMAIN log = 1 .. Len(log)
    BY LogFacts DEF TypeInv
  <1>7. f.id <= Len(log)
    BY <1>3, <1>4, <1>6 DEF Honest
  <1> HIDE DEF f
  <1>8. view' \in View /\ got' \subseteq Events
    BY <1>3, <1>5, EventAssumption DEF Receives, TypeInv, TypeOK, View
  <1>9. cursor' \in 0 .. Len(log) /\ since' \in 0 .. Len(log)
    BY <1>3, <1>5, <1>6, <1>7 DEF Receives, TypeInv, TypeOK
  <1>10. TypeOK'
    BY <1>1, <1>2, <1>8, <1>9 DEF TypeInv, TypeOK, Shifted
  <1>11. LogInv'
    BY <1>1, QuietLog DEF Quiet
  <1>12. batch = NoBatch /\ batch' = NoBatch
    BY <1>1 DEF TypeInv, ConnInv
  <1>13. FramesInv'
    <2>1. \A i \in DOMAIN queue' : Honest(queue[i])'
      BY <1>1, <1>2 DEF Shifted, TypeInv, FramesInv, Honest
    <2>2. batch'.ids = {} /\ batch'.upto = 0
      BY <1>12 DEF NoBatch
    <2> QED BY <1>1, <1>6, <2>1, <2>2 DEF FramesInv
  <1>14. ConnInv'
    BY <1>1, <1>12 DEF TypeInv, ConnInv
  <1> QED BY <1>5, <1>10, <1>11, <1>13, <1>14 DEF TypeInv, f

LEMMA DisconnectTypes ==
    ASSUME TypeInv, Disconnect, faults' \in Nat
    PROVE  TypeInv'
  <1>1. /\ UNCHANGED <<row, pub, log, aged, cursor, view, got, since, blind, loaded,
                       overtaken, cut>>
        /\ conn' = "down" /\ closed' = FALSE /\ queue' = <<>> /\ batch' = NoBatch
    BY DEF Disconnect, server, client
  <1>2. batch' \in [ids : SUBSET Nat, snapshots : BOOLEAN, rows : View, upto : Nat]
    BY <1>1, NothingType DEF NoBatch
  <1>3. queue' \in Seq(Frame) /\ Len(queue') = 0 /\ DOMAIN queue' = {}
    BY <1>1, EmptySeq
  <1>4. TypeOK'
    <2>1. Len(queue') <= QueueSize
      BY <1>3, BoundAssumption
    <2>2. conn' \in ConnStates /\ closed' \in BOOLEAN
      BY <1>1 DEF ConnStates
    <2> QED BY <1>1, <1>2, <1>3, <2>1, <2>2 DEF TypeInv, TypeOK
  <1>5. LogInv'
    BY <1>1, QuietLog DEF Quiet
  <1>6. FramesInv'
    <2>1. batch'.ids = {} /\ batch'.upto = 0 /\ Len(log) \in Nat
      BY <1>1, LogFacts DEF NoBatch, TypeInv
    <2> QED BY <1>1, <1>3, <2>1 DEF FramesInv
  <1>7. ConnInv'
    BY <1>1 DEF TypeInv, ConnInv
  <1> QED BY <1>4, <1>5, <1>6, <1>7 DEF TypeInv

-----------------------------------------------------------------------------
(* The order of a queue, and what the client lacks: the publishers.        *)

LEMMA SameQueue ==
    ASSUME QueueInv, UNCHANGED <<queue, conn, batch, cursor, overtaken>>
    PROVE  QueueInv'
  BY DEF QueueInv, FramesInOrder

\* A frame without an id, or with the last one, keeps the order.
LEMMA BroadcastQueue ==
    ASSUME TypeInv, QueueInv, NEW e \in Events, NEW n \in Nat, n = 0 \/ n = Len(log),
           Broadcasts(e, n), cursor' = cursor
    PROVE  QueueInv'
  <1> SUFFICES ASSUME ~overtaken'
               PROVE  QueueInv'
    BY DEF QueueInv, FramesInOrder
  <1>1. ~overtaken /\ conn' = conn /\ batch' = batch
    BY DEF Broadcasts, TypeInv, TypeOK
  <1>2. CASE queue' = queue
    BY <1>1, <1>2 DEF QueueInv, FramesInOrder
  <1>3. CASE Takes(queue', EventFrame(e, n))
    <2>1. /\ Len(log) \in Nat /\ DOMAIN log = 1 .. Len(log) /\ cursor <= Len(log)
          /\ cursor \in Nat
      BY LogFacts DEF TypeInv, TypeOK
    <2>2. /\ Len(queue) \in Nat /\ DOMAIN queue = 1 .. Len(queue)
          /\ \A i \in DOMAIN queue : queue[i].id \in Nat
      BY QueueFacts DEF TypeInv
    <2>3. \A i \in DOMAIN queue : queue[i].ev # NoEvent => queue[i].id <= Len(log)
      <3> SUFFICES ASSUME NEW i \in DOMAIN queue, queue[i].ev # NoEvent
                   PROVE  queue[i].id <= Len(log)
        OBVIOUS
      <3>1. Honest(queue[i]) /\ queue[i].id \in Nat
        BY <2>2 DEF TypeInv, FramesInv
      <3>2. queue[i].id # 0 => queue[i].id \in DOMAIN log
        BY <3>1 DEF Honest
      <3>3. queue[i].id = 0 \/ queue[i].id \in 1 .. Len(log)
        BY <2>1, <3>1, <3>2
      <3>4. Len(log) \in Nat
        BY <2>1
      <3> QED BY <3>1, <3>3, <3>4
    <2> DEFINE m == Len(queue) + 1
    <2>4. /\ \A i \in DOMAIN queue' :
               i # m => i \in DOMAIN queue /\ i < m /\ queue'[i] = queue[i]
          /\ m \in DOMAIN queue'
          /\ queue'[m].ev = e /\ queue'[m].id = n /\ e # NoEvent
      BY <1>3, <2>2, EventIsNotNoEvent DEF Takes, EventFrame
    <2> HIDE DEF m
    <2>5. ASSUME NEW i \in DOMAIN queue', NEW k \in DOMAIN queue', i < k,
                 NoEvent \notin {queue'[i].ev, queue'[k].ev}, queue'[k].id > 0
          PROVE  queue'[i].id <= queue'[k].id
      <3>1. i # m /\ i \in DOMAIN queue /\ queue'[i] = queue[i]
        <4>1. k <= m /\ k \in Nat /\ i \in Nat /\ m \in Nat
          BY <2>2, <2>4 DEF m
        <4> QED BY <2>4, <2>5, <4>1
      <3>2. CASE k \in DOMAIN queue /\ queue'[k] = queue[k]
        BY <1>1, <2>5, <3>1, <3>2 DEF QueueInv, FramesInOrder
      <3>3. CASE k = m
        <4>1. queue'[k].id = Len(log)
          BY <2>4, <2>5, <3>3
        <4>2. queue[i].ev # NoEvent
          BY <2>5, <3>1
        <4> QED BY <2>3, <3>1, <4>1, <4>2
      <3> QED BY <2>4, <3>2, <3>3
    <2>6. ASSUME NEW i \in DOMAIN queue'
          PROVE  /\ queue'[i].ev # NoEvent /\ queue'[i].id > 0 => cursor <= queue'[i].id
                 /\ queue'[i].ev = NoEvent => i = 1 /\ cursor <= queue'[i].id
      <3>1. CASE i \in DOMAIN queue /\ queue'[i] = queue[i]
        BY <1>1, <3>1 DEF QueueInv
      <3>2. CASE i = m
        BY <2>1, <2>4, <3>2
      <3> QED BY <2>4, <3>1, <3>2
    <2>7. FramesInOrder'
      BY <2>5 DEF FramesInOrder
    <2> QED BY <1>1, <2>6, <2>7 DEF QueueInv
  <1> QED BY <1>2, <1>3 DEF Broadcasts

LEMMA WriteRowGap ==
    ASSUME TypeInv, GapInv, NEW e \in Events, WriteRow(e)
    PROVE  GapInv'
  <1>1. pub[e] = "new" /\ pub' = [pub EXCEPT ![e] = "written"]
    BY DEF WriteRow
  <1>2. UNCHANGED <<log, aged, conn, closed, queue, batch, cursor, view, got, since,
                    blind, overtaken>>
    BY DEF WriteRow, connection, client
  <1>3. \A n \in DOMAIN log : log[n] # e /\ log[n] \in Events
    BY <1>1, LogFacts DEF TypeInv, LogInv
  <1>4. \A n \in DOMAIN log : pub'[log[n]] = pub[log[n]]
    BY <1>1, <1>3 DEF TypeInv, TypeOK
  <1> QED BY <1>2, <1>4 DEF GapInv, Due, Told, Read, InTime

LEMMA StoreGap ==
    ASSUME TypeInv, GapInv, NEW e \in Events, Store(e)
    PROVE  GapInv'
  <1>1. /\ pub[e] = "written" /\ pub' = [pub EXCEPT ![e] = "stored"]
        /\ log' = Append(log, e)
    BY DEF Store
  <1>2. UNCHANGED <<aged, conn, closed, queue, batch, cursor, view, got, since, blind, overtaken>>
    BY DEF Store, connection, client
  <1>3. Grown(e)
    BY <1>1, LogGrows DEF TypeInv
  <1>4. /\ Len(log) \in Nat /\ DOMAIN log = 1 .. Len(log)
        /\ \A i \in DOMAIN log : log[i] \in Events
    BY LogFacts DEF TypeInv
  <1>5. \A n \in DOMAIN log : log[n] # e
    BY <1>1 DEF TypeInv, LogInv
  <1>6. \A n \in DOMAIN log : log'[n] = log[n] /\ pub'[log[n]] = pub[log[n]]
    BY <1>1, <1>3, <1>4, <1>5 DEF TypeInv, TypeOK, Grown
  <1>7. pub'[log'[Len(log) + 1]] = "stored"
    BY <1>1, <1>3 DEF TypeInv, TypeOK, Grown
  <1>8. \A n \in DOMAIN log' : Told(n)' => n \in DOMAIN log /\ Told(n)
    BY <1>3, <1>6, <1>7 DEF Told, Grown
  <1>9. \A n \in DOMAIN log : Due(n)' => Due(n)
    BY <1>2, <1>3, <1>4, <1>6 DEF Due, InTime, Grown
  <1>10. \A n \in DOMAIN log' : n \in DOMAIN log \/ cursor < n
    BY <1>3, <1>4 DEF Grown, TypeInv, TypeOK
  <1>11. \A n \in DOMAIN log : Read(n) => Read(n)'
    BY <1>2 DEF Read
  <1> QED BY <1>2, <1>8, <1>9, <1>10, <1>11 DEF GapInv

LEMMA RetryGap ==
    ASSUME TypeInv, GapInv, NEW e \in Events, RetryDeadLetter(e)
    PROVE  GapInv'
  <1>1. pub[e] = "dead" /\ pub' = [pub EXCEPT ![e] = "lost"]
    BY DEF RetryDeadLetter
  <1>2. UNCHANGED <<aged, conn, closed, queue, batch, cursor, view, got, since, blind, overtaken>>
    BY DEF RetryDeadLetter, connection, client
  <1>3. /\ Len(log) \in Nat /\ DOMAIN log = 1 .. Len(log)
        /\ \A i \in DOMAIN log : log[i] \in Events
    BY LogFacts DEF TypeInv
  <1>4. \A n \in DOMAIN log : log[n] # e
    BY <1>1 DEF TypeInv, LogInv
  <1>5. \A n \in DOMAIN log : pub'[log[n]] = pub[log[n]]
    BY <1>1, <1>3, <1>4 DEF TypeInv, TypeOK
  <1>6. CASE UNCHANGED log
    BY <1>2, <1>5, <1>6 DEF GapInv, Due, Told, Read, InTime
  <1>7. CASE log' = Append(log, e)
    <2>1. Grown(e)
      BY <1>7, LogGrows DEF TypeInv
    <2>2. pub'[log'[Len(log) + 1]] = "lost"
      BY <1>1, <2>1 DEF TypeInv, TypeOK, Grown
    <2>3. \A n \in DOMAIN log' : Told(n)' => n \in DOMAIN log /\ Told(n)
      BY <1>5, <2>1, <2>2 DEF Told, Grown
    <2>4. \A n \in DOMAIN log' : Due(n)' => n \in DOMAIN log /\ Due(n)
      BY <1>2, <1>3, <1>5, <2>1, <2>2 DEF Due, InTime, Grown
    <2>5. \A n \in DOMAIN log : Read(n) => Read(n)'
      BY <1>2 DEF Read
    <2> QED BY <1>2, <2>3, <2>4, <2>5 DEF GapInv
  <1> QED BY <1>6, <1>7 DEF RetryDeadLetter

LEMMA PublishStoredGap ==
    ASSUME TypeInv, GapInv, NEW e \in Events, PublishStored(e)
    PROVE  GapInv'
  <1>1. pub[e] = "stored" /\ pub' = [pub EXCEPT ![e] = "done"]
    BY DEF PublishStored
  <1>2. UNCHANGED <<log, cursor, got, since, blind>>
    BY DEF PublishStored, client
  <1>3. Broadcasts(e, Len(log)) /\ Len(log) \in DOMAIN log /\ log[Len(log)] = e
    BY <1>1, PublishStoredTypes, StoredIsLast
  <1>4. \A n \in DOMAIN log : log[n] \in Events
    BY LogFacts DEF TypeInv
  <1>5. \A n \in DOMAIN log : n # Len(log) => log[n] # e /\ pub'[log[n]] = pub[log[n]]
    <2>1. \A n \in DOMAIN log : n # Len(log) => log[n] # e
      BY <1>3 DEF TypeInv, LogInv
    <2> QED BY <1>1, <1>4, <2>1 DEF TypeInv, TypeOK
  <1>6. pub'[e] = "done"
    BY <1>1 DEF TypeInv, TypeOK
  <1>7. \A n \in DOMAIN log : Due(n)' => Due(n)
    BY <1>1, <1>2, <1>3, <1>5 DEF Due, InTime
  <1>8. \A n \in DOMAIN log :
          Told(n)' => Told(n) \/ (n = Len(log) /\ KindOf[e] = "state")
    BY <1>2, <1>3, <1>5 DEF Told
  <1>9. batch' = batch /\ conn' = conn
    BY <1>3 DEF Broadcasts
  <1>10. \A n \in DOMAIN log : Read(n) => Read(n)'
    BY <1>2, <1>9 DEF Read
  <1> SUFFICES ASSUME ~overtaken'
               PROVE  GapInv'
    BY DEF GapInv
  <1>11. ~overtaken
    BY <1>3 DEF Broadcasts, TypeInv, TypeOK
  <1>12. conn \notin {"open", "down"} => KindOf[e] # "state"
    BY <1>3 DEF Broadcasts, TypeInv, TypeOK
  <1>13. conn = "replaying" => \A n \in DOMAIN log : Told(n)' => Read(n)'
    BY <1>8, <1>10, <1>11, <1>12 DEF GapInv
  <1>14. ASSUME conn = "open", ~closed', NEW n \in DOMAIN log, Due(n)', Told(n)'
         PROVE  \E i \in DOMAIN queue' :
                    \/ queue'[i].ev # NoEvent /\ queue'[i].id = n
                    \/ queue'[i].ev = NoEvent /\ n <= queue'[i].id
    <2>1. CASE queue' = queue
      <3>1. ~closed /\ KindOf[e] # "state"
        <4>1. Len(queue) \in Nat /\ Len(queue') = Len(queue)
          BY <2>1, QueueFacts DEF TypeInv
        <4>2. ~Takes(queue', EventFrame(e, Len(log)))
          BY <4>1 DEF Takes
        <4> QED BY <1>3, <1>14, <4>2 DEF Broadcasts
      <3> QED BY <1>7, <1>8, <1>11, <1>14, <2>1, <3>1 DEF GapInv
    <2>2. CASE Takes(queue', EventFrame(e, Len(log))) /\ ~closed
      <3>1. CASE n = Len(log)
        BY <2>2, <3>1, EventIsNotNoEvent DEF Takes, EventFrame
      <3>2. CASE n # Len(log)
        <4>1. Due(n) /\ Told(n)
          BY <1>7, <1>8, <1>14, <3>2
        <4>2. PICK i \in DOMAIN queue :
                    \/ queue[i].ev # NoEvent /\ queue[i].id = n
                    \/ queue[i].ev = NoEvent /\ n <= queue[i].id
          BY <1>11, <1>14, <2>2, <4>1 DEF GapInv
        <4> QED BY <2>2, <4>2 DEF Takes
      <3> QED BY <3>1, <3>2
    <2> QED BY <1>3, <2>1, <2>2 DEF Broadcasts
  <1> QED BY <1>2, <1>7, <1>9, <1>11, <1>13, <1>14 DEF GapInv

LEMMA PublishCanceledGap ==
    ASSUME TypeInv, GapInv, NEW e \in Events, PublishCanceled(e)
    PROVE  GapInv'
  <1>1. pub[e] \in {"written", "stored"} /\ pub' = [pub EXCEPT ![e] = "silent"]
    BY DEF PublishCanceled
  <1>2. UNCHANGED <<log, conn, closed, queue, batch, cursor, got, since, blind, overtaken>>
    BY DEF PublishCanceled, connection, client
  <1>3. \A n \in DOMAIN log : log[n] \in Events
    BY LogFacts DEF TypeInv
  <1>4. \A n \in DOMAIN log : (Due(n)' => Due(n)) /\ (Told(n)' => Told(n))
    BY <1>1, <1>2, <1>3 DEF Due, Told, InTime, TypeInv, TypeOK
  <1>5. \A n \in DOMAIN log : Read(n) => Read(n)'
    BY <1>2 DEF Read
  <1> QED BY <1>2, <1>4, <1>5 DEF GapInv

LEMMA PublishUnstoredGap ==
    ASSUME TypeInv, GapInv, NEW e \in Events, PublishUnstored(e)
    PROVE  GapInv'
  <1>1. pub[e] = "written" /\ pub' = [pub EXCEPT ![e] = "dead"]
    BY DEF PublishUnstored
  <1>2. UNCHANGED <<log, cursor, got, since, blind>>
    BY DEF PublishUnstored, client
  <1>3. Broadcasts(e, 0)
    BY PublishUnstoredTypes
  <1>4. \A n \in DOMAIN log : log[n] \in Events /\ log[n] # e
    BY <1>1, LogFacts DEF TypeInv, LogInv
  <1>5. \A n \in DOMAIN log : pub'[log[n]] = pub[log[n]]
    BY <1>1, <1>4 DEF TypeInv, TypeOK
  <1>6. \A n \in DOMAIN log : (Due(n)' => Due(n)) /\ (Told(n)' => Told(n))
    BY <1>2, <1>5 DEF Due, Told, InTime
  <1>7. batch' = batch /\ conn' = conn
    BY <1>3 DEF Broadcasts
  <1>8. \A n \in DOMAIN log : Read(n) => Read(n)'
    BY <1>2, <1>7 DEF Read
  <1>9. ~overtaken' => ~overtaken
    BY <1>3 DEF Broadcasts, TypeInv, TypeOK
  <1>10. ~closed' => ~closed /\ \A i \in DOMAIN queue : i \in DOMAIN queue' /\ queue'[i] = queue[i]
    BY <1>3 DEF Broadcasts, Takes
  <1> QED BY <1>2, <1>6, <1>7, <1>8, <1>9, <1>10 DEF GapInv

-----------------------------------------------------------------------------
(* The same: the connection and the client.                                *)

LEMMA ConnectQueue ==
    ASSUME TypeInv, QueueInv, GapInv, Connect
    PROVE  QueueInv' /\ GapInv'
  <1>1. /\ UNCHANGED <<row, pub, log, closed, queue, batch, cursor, got, overtaken>>
        /\ conn = "down" /\ conn' = IF cursor = 0 THEN "open" ELSE "querying"
        /\ since' = IF loaded THEN since ELSE Len(log)
        /\ blind' = IF cursor = 0 /\ loaded THEN Len(log) ELSE blind
        /\ ~loaded => cursor = 0
    BY DEF Connect, server, TypeInv, ConnInv
  <1>2. QueueInv'
    BY <1>1 DEF QueueInv, FramesInOrder
  <1>3. CASE cursor = 0
    <2>1. \A n \in DOMAIN log : ~Due(n)'
      BY <1>1, <1>3, LogFacts DEF Due, TypeInv
    <2>2. conn' = "open" /\ log' = log
      BY <1>1, <1>3
    <2>3. GapInv'
      BY <2>1, <2>2 DEF GapInv
    <2> QED BY <1>2, <2>3
  <1>4. CASE cursor # 0
    <2>1. conn' = "querying" /\ since' = since /\ blind' = blind
      BY <1>1, <1>4
    <2>2. \A n \in DOMAIN log : Due(n)' => Due(n)
      BY <1>1, <2>1 DEF Due, InTime
    <2>3. GapInv'
      BY <1>1, <2>1, <2>2 DEF GapInv
    <2> QED BY <1>2, <2>3
  <1> QED BY <1>3, <1>4

LEMMA QueryQueue ==
    ASSUME TypeInv, QueueInv, GapInv, Query
    PROVE  QueueInv' /\ GapInv'
  <1> DEFINE missed == cursor + 1 .. Len(log)
             bounded == {id \in missed : id <= cursor + MaxReplay}
             overflows == Len(log) > cursor + MaxReplay
             snapshots == overflows \/ (missed # {} /\ cursor + 1 <= aged')
             ids == {id \in bounded : snapshots => id > aged'}
  <1>1. /\ UNCHANGED <<row, pub, log, closed, queue, cursor, got, since, blind, overtaken>>
        /\ conn = "querying" /\ conn' = IF snapshots THEN "reading" ELSE "replaying"
        /\ batch' = [NoBatch EXCEPT !.ids = ids, !.snapshots = snapshots]
    BY DEF Query, client
  <1>2. batch'.ids = ids /\ batch'.snapshots = snapshots
    BY <1>1 DEF NoBatch
  <1>3. /\ Len(log) \in Nat /\ cursor \in Nat /\ DOMAIN log = 1 .. Len(log)
        /\ MaxReplay \in Nat
    BY LogFacts, BoundAssumption DEF TypeInv, TypeOK
  <1>4. ASSUME ~snapshots, NEW n \in DOMAIN log
        PROVE  n <= cursor \/ n \in ids
    BY <1>3, <1>4
  <1> HIDE DEF ids, snapshots
  <1>5. conn' = "replaying" => ~batch'.snapshots
    BY <1>1, <1>2
  <1>6. QueueInv'
    BY <1>1, <1>5 DEF QueueInv, FramesInOrder
  <1>7. conn' = "replaying" => \A n \in DOMAIN log : Read(n)'
    BY <1>1, <1>2, <1>4, <1>5 DEF Read
  <1>8. \A n \in DOMAIN log : Due(n)' => Due(n)
    BY <1>1 DEF Due, InTime
  <1>9. conn' # "open"
    BY <1>1
  <1>10. GapInv'
    BY <1>1, <1>7, <1>8, <1>9 DEF GapInv
  <1> QED BY <1>6, <1>10

LEMMA ReadRowsQueue ==
    ASSUME TypeInv, QueueInv, GapInv, ReadRows
    PROVE  QueueInv' /\ GapInv'
  <1>1. /\ UNCHANGED <<row, pub, log, closed, queue, cursor, got, since, blind, overtaken>>
        /\ conn = "reading" /\ conn' = "replaying"
    BY DEF ReadRows, server, client
  <1>2. batch'.snapshots = TRUE /\ batch'.upto = Len(log)
    BY ReadRowsTypes, <1>1 DEF TypeInv, ConnInv, TypeOK
  <1>3. Len(log) \in Nat /\ cursor \in Nat /\ DOMAIN log = 1 .. Len(log) /\ cursor <= Len(log)
    BY LogFacts DEF TypeInv, TypeOK
  <1>4. QueueInv'
    BY <1>1, <1>2, <1>3 DEF QueueInv, FramesInOrder
  <1>5. \A n \in DOMAIN log : Read(n)'
    BY <1>1, <1>2, <1>3 DEF Read
  <1>6. \A n \in DOMAIN log : Due(n)' => Due(n)
    BY <1>1 DEF Due, InTime
  <1>7. GapInv'
    BY <1>1, <1>5, <1>6 DEF GapInv
  <1> QED BY <1>4, <1>7

LEMMA DeliverQueue ==
    ASSUME TypeInv, QueueInv, GapInv, Deliver
    PROVE  QueueInv' /\ GapInv'
  <1>1. /\ UNCHANGED <<row, pub, log, cursor, got, since, blind, overtaken>>
        /\ conn = "replaying" /\ conn' = "open" /\ batch' = NoBatch
    BY DEF Deliver, server, client
  <1>2. PICK g \in Seq(Frame) : Replays(g) /\ Delivers(g)
    BY Deliveries DEF TypeInv
  <1> SUFFICES ASSUME ~overtaken
               PROVE  QueueInv' /\ GapInv'
    BY <1>1 DEF QueueInv, FramesInOrder, GapInv
  <1>3. queue = <<>> /\ ~closed
    BY <1>1 DEF TypeInv, ConnInv
  <1>4. /\ \A i \in DOMAIN queue' : i \in DOMAIN g /\ queue'[i] = g[i]
        /\ ~closed' => DOMAIN g \subseteq DOMAIN queue'
    BY <1>2, <1>3 DEF Delivers
  <1>5. /\ Len(log) \in Nat /\ cursor \in Nat /\ DOMAIN log = 1 .. Len(log)
        /\ since \in Nat
    BY LogFacts DEF TypeInv, TypeOK
  <1>6. \A m \in batch.ids : m \in Nat /\ cursor < m
    BY <1>5 DEF TypeInv, FramesInv
  <1>7. FramesInOrder'
    <2> SUFFICES ASSUME NEW i \in DOMAIN queue', NEW k \in DOMAIN queue', i < k,
                        queue'[i].ev # NoEvent, queue'[k].ev # NoEvent
                 PROVE  queue'[i].id <= queue'[k].id
      BY DEF FramesInOrder
    <2>1. g[i].id < g[k].id /\ g[i].id \in batch.ids /\ g[k].id \in batch.ids
      BY <1>2, <1>4 DEF Replays
    <2>2. g[i].id <= g[k].id
      BY <1>6, <2>1
    <2> QED BY <1>4, <2>2
  <1>8. \A i \in DOMAIN queue' :
          /\ queue'[i].ev # NoEvent => cursor <= queue'[i].id
          /\ queue'[i].ev = NoEvent => i = 1 /\ cursor <= queue'[i].id
    <2> SUFFICES ASSUME NEW i \in DOMAIN g
                 PROVE  /\ g[i].ev # NoEvent => cursor <= g[i].id
                        /\ g[i].ev = NoEvent => i = 1 /\ cursor <= g[i].id
      BY <1>4
    <2>1. CASE g[i].ev # NoEvent
      <3>1. g[i].id \in batch.ids
        BY <1>2, <2>1 DEF Replays
      <3> QED BY <1>5, <1>6, <2>1, <3>1
    <2>2. CASE g[i].ev = NoEvent
      <3>1. i = 1 /\ batch.snapshots /\ g[i].id = batch.upto
        BY <1>2, <2>2 DEF Replays
      <3> QED BY <1>1, <2>2, <3>1 DEF QueueInv
    <2> QED BY <2>1, <2>2
  <1>9. QueueInv'
    BY <1>1, <1>7, <1>8 DEF QueueInv
  <1>10. \A n \in DOMAIN log : (Due(n)' => Due(n)) /\ (Told(n)' => Told(n))
    BY <1>1 DEF Due, Told, InTime
  <1>11. ASSUME ~closed', NEW n \in DOMAIN log, Due(n)', Told(n)'
         PROVE  \E i \in DOMAIN queue' :
                    \/ queue'[i].ev # NoEvent /\ queue'[i].id = n
                    \/ queue'[i].ev = NoEvent /\ n <= queue'[i].id
    <2>1. Read(n) /\ cursor < n /\ KindOf[log[n]] = "state" /\ log[n] # NoEvent
      BY <1>1, <1>10, <1>11, LogFacts, EventIsNotNoEvent DEF GapInv, Told, TypeInv
    <2>2. CASE batch.snapshots
      <3>1. PICK i \in DOMAIN g : g[i].ev = NoEvent
        BY <1>2, <2>2 DEF Replays
      <3>2. g[i].id = batch.upto
        BY <1>2, <3>1 DEF Replays
      <3> QED BY <1>4, <1>11, <2>1, <2>2, <3>1, <3>2 DEF Read
    <2>3. CASE ~batch.snapshots
      <3>1. n \in batch.ids
        BY <1>5, <2>1, <2>3 DEF Read
      <3>2. PICK i \in DOMAIN g : g[i].ev = log[n] /\ g[i].id = n
        BY <1>2, <2>1, <3>1 DEF Replays
      <3> QED BY <1>4, <1>11, <2>1, <3>2
    <2> QED BY <2>2, <2>3
  <1>12. GapInv'
    BY <1>1, <1>10, <1>11 DEF GapInv
  <1> QED BY <1>9, <1>12

LEMMA ReceiveQueue ==
    ASSUME TypeInv, QueueInv, Receive
    PROVE  QueueInv'
  <1>1. UNCHANGED <<conn, batch, overtaken>> /\ conn = "open"
    BY DEF Receive
  <1>2. Shifted /\ Receives(queue[1])
    BY ReceiveShifts, ReceiveTypes
  <1> SUFFICES ASSUME ~overtaken
               PROVE  QueueInv'
    BY <1>1 DEF QueueInv, FramesInOrder
  <1>3. /\ DOMAIN queue = 1 .. Len(queue) /\ Len(queue) \in Nat
        /\ \A i \in DOMAIN queue : queue[i].id \in Nat /\ i \in Nat /\ i >= 1
    BY QueueFacts DEF TypeInv
  <1>4. cursor \in Nat
    BY LogFacts DEF TypeInv, TypeOK
  <1>5. ASSUME NEW i \in DOMAIN queue'
        PROVE  /\ i + 1 \in DOMAIN queue /\ queue'[i] = queue[i + 1] /\ i + 1 # 1
               /\ queue'[i].ev # NoEvent
               /\ i \in Nat
    <2>1. i + 1 \in DOMAIN queue /\ queue'[i] = queue[i + 1]
      BY <1>2 DEF Shifted
    <2>2. i \in DOMAIN queue' /\ queue' \in Seq(Frame)
      BY <1>2 DEF Shifted
    <2>3. i \in Nat /\ i >= 1
      BY <2>2, LenProperties
    <2> QED BY <2>1, <2>3 DEF QueueInv
  <1>6. FramesInOrder'
    <2> SUFFICES ASSUME NEW i \in DOMAIN queue', NEW k \in DOMAIN queue', i < k,
                        queue'[k].id > 0
                 PROVE  queue'[i].id <= queue'[k].id
      BY DEF FramesInOrder
    <2>1. i + 1 < k + 1
      BY <1>5
    <2> QED BY <1>5, <2>1 DEF QueueInv, FramesInOrder
  <1>7. \A i \in DOMAIN queue' : queue'[i].id > 0 => cursor' <= queue'[i].id
    <2> SUFFICES ASSUME NEW i \in DOMAIN queue', queue'[i].id > 0
                 PROVE  cursor' <= queue'[i].id
      OBVIOUS
    <2>1. cursor <= queue'[i].id
      BY <1>5 DEF QueueInv
    <2>2. CASE queue[1].ev = NoEvent
      BY <1>2, <2>1, <2>2, EventIsNotNoEvent DEF Receives
    <2>3. CASE queue[1].ev # NoEvent
      <3>1. queue[1].id <= queue'[i].id
        <4>1. 1 < i + 1 /\ 1 \in DOMAIN queue
          BY <1>2, <1>5 DEF Shifted
        <4> QED BY <1>5, <2>3, <4>1 DEF QueueInv, FramesInOrder
      <3> QED BY <1>2, <2>1, <2>3, <3>1 DEF Receives
    <2> QED BY <2>2, <2>3
  <1>8. conn' # "replaying"
    BY <1>1
  <1> QED BY <1>5, <1>6, <1>7, <1>8 DEF QueueInv

LEMMA ReceiveGap ==
    ASSUME TypeInv, QueueInv, GapInv, Receive
    PROVE  GapInv'
  <1>1. /\ UNCHANGED <<row, pub, log, conn, closed, batch, blind, overtaken>>
        /\ conn = "open" /\ ~closed
    BY DEF Receive, server
  <1>2. Shifted /\ Receives(queue[1])
    BY ReceiveShifts, ReceiveTypes
  <1> SUFFICES ASSUME ~overtaken
               PROVE  GapInv'
    BY <1>1 DEF GapInv
  <1>3. /\ DOMAIN queue = 1 .. Len(queue) /\ Len(queue) \in Nat
        /\ \A i \in DOMAIN queue : queue[i].id \in Nat
    BY QueueFacts DEF TypeInv
  <1>4. /\ cursor \in Nat /\ since \in Nat /\ Len(log) \in Nat
        /\ DOMAIN log = 1 .. Len(log)
        /\ \A n \in DOMAIN log : log[n] \in Events
    BY LogFacts DEF TypeInv, TypeOK
  <1> DEFINE f == queue[1]
  <1>5. 1 \in DOMAIN queue /\ f.id \in Nat /\ Honest(f)
    BY <1>2, <1>3 DEF Shifted, TypeInv, FramesInv
  <1>6. since <= since' /\ got \subseteq got' /\ since' \in Nat
    BY <1>2, <1>4, <1>5 DEF Receives
  <1>7. \A n \in DOMAIN log : (Due(n)' => Due(n)) /\ (Told(n)' => Told(n))
    BY <1>1, <1>4, <1>6 DEF Due, Told, InTime
  <1>8. ASSUME NEW n \in DOMAIN log, Due(n)', Told(n)'
        PROVE  \E i \in DOMAIN queue' :
                    \/ queue'[i].ev # NoEvent /\ queue'[i].id = n
                    \/ queue'[i].ev = NoEvent /\ n <= queue'[i].id
    <2>1. PICK i \in DOMAIN queue :
                    \/ queue[i].ev # NoEvent /\ queue[i].id = n
                    \/ queue[i].ev = NoEvent /\ n <= queue[i].id
      BY <1>1, <1>7, <1>8 DEF GapInv
    <2>2. i # 1
      <3>1. CASE i = 1 /\ f.ev # NoEvent
        <4>1. f.id = n /\ n # 0
          BY <1>4, <2>1, <3>1
        <4>2. f.ev = log[n]
          BY <1>5, <3>1, <4>1 DEF Honest
        <4>3. log[n] \in got'
          BY <1>2, <3>1, <4>2 DEF Receives
        <4> QED BY <1>1, <1>8, <4>3 DEF Due
      <3>2. CASE i = 1 /\ f.ev = NoEvent
        <4>1. n <= f.id
          BY <2>1, <3>2
        <4>2. since' = IF f.id > since THEN f.id ELSE since
          BY <1>2, <3>2, EventIsNotNoEvent DEF Receives
        <4>3. n <= since'
          BY <1>4, <1>5, <4>1, <4>2
        <4>4. since' + 1 <= n
          BY <1>4, <1>6, <1>8 DEF Due
        <4> QED BY <1>4, <1>6, <4>3, <4>4
      <3> QED BY <3>1, <3>2
    <2> QED BY <1>2, <2>1, <2>2 DEF Shifted
  <1>9. ASSUME NEW n \in DOMAIN log, Due(n)'
        PROVE  cursor' < n
    <2>1. cursor < n /\ Due(n)
      BY <1>7, <1>9 DEF GapInv
    <2>2. CASE f.ev = NoEvent \/ f.id = 0
      BY <1>2, <2>1, <2>2, EventIsNotNoEvent DEF Receives
    <2>3. CASE f.ev # NoEvent /\ f.id # 0
      <3>1. cursor' = f.id /\ f.ev \in got' /\ f.id \in DOMAIN log /\ log[f.id] = f.ev
        BY <1>2, <1>5, <2>3 DEF Receives, Honest
      <3>2. f.id # n
        BY <1>1, <1>9, <3>1 DEF Due
      <3>3. CASE pub[log[n]] = "stored"
        <4>1. log[Len(log)] = log[n] /\ Len(log) \in DOMAIN log
          BY <1>4, <3>3 DEF TypeInv, LogInv
        <4>2. n = Len(log)
          BY <4>1 DEF TypeInv, LogInv
        <4> QED BY <1>4, <3>1, <3>2, <4>2
      <3>4. CASE pub[log[n]] = "done"
        <4>1. Told(n)'
          BY <1>1, <2>1, <3>4 DEF Told, Due
        <4>2. PICK i \in DOMAIN queue' :
                    \/ queue'[i].ev # NoEvent /\ queue'[i].id = n
                    \/ queue'[i].ev = NoEvent /\ n <= queue'[i].id
          BY <1>8, <1>9, <4>1
        <4>3. i + 1 \in DOMAIN queue /\ queue'[i] = queue[i + 1]
          BY <1>2 DEF Shifted
        <4>4. i \in Nat /\ i >= 1
          BY <1>2, LenProperties DEF Shifted
        <4>5. queue[i + 1].ev # NoEvent
          BY <4>3, <4>4 DEF QueueInv
        <4>6. queue[i + 1].id = n
          BY <4>2, <4>3, <4>5
        <4>7. f.id <= n
          BY <1>4, <1>5, <2>3, <4>3, <4>4, <4>5, <4>6 DEF QueueInv, FramesInOrder
        <4> QED BY <1>4, <3>1, <3>2, <4>7
      <3> QED BY <2>1, <3>3, <3>4 DEF Due, InTime
    <2> QED BY <2>2, <2>3
  <1>10. conn' # "replaying"
    BY <1>1
  <1> QED BY <1>1, <1>8, <1>9, <1>10 DEF GapInv

LEMMA DisconnectQueue ==
    ASSUME TypeInv, QueueInv, GapInv, Disconnect
    PROVE  QueueInv' /\ GapInv'
  <1>1. /\ UNCHANGED <<row, pub, log, cursor, got, since, blind, overtaken>>
        /\ conn' = "down" /\ queue' = <<>>
    BY DEF Disconnect, server, client
  <1>2. DOMAIN queue' = {}
    BY <1>1
  <1>3. QueueInv'
    BY <1>1, <1>2 DEF QueueInv, FramesInOrder
  <1>4. GapInv'
    BY <1>1 DEF GapInv, Due, InTime
  <1> QED BY <1>3, <1>4

-----------------------------------------------------------------------------
(* The order in which a job's events come to the table.                    *)

LEMMA QuietWriters == ASSUME WriterInv, Quiet PROVE WriterInv'
  BY DEF WriterInv, Quiet

LEMMA WriteRowWriters ==
    ASSUME TypeInv, WriterInv, NEW e \in Events, WriteRow(e)
    PROVE  WriterInv'
  <1>1. /\ pub[e] = "new" /\ pub' = [pub EXCEPT ![e] = "written"]
        /\ \A f \in Events : f < e /\ JobOf[f] = JobOf[e] => pub[f] # "new"
        /\ row' = IF KindOf[e] = "state" THEN [row EXCEPT ![JobOf[e]] = e] ELSE row
    BY DEF WriteRow
  <1>2. /\ pub \in [Events -> {"new", "written", "stored", "dead", "done", "lost", "silent"}]
        /\ row \in View
    BY DEF TypeInv, TypeOK
  <1>3. pub'[e] = "written" /\ \A f \in Events : f # e => pub'[f] = pub[f]
    BY <1>1, <1>2
  <1>5. \A f, g \in Events : g < f /\ JobOf[g] = JobOf[f] /\ pub'[f] # "new"
                                => pub'[g] # "new"
    BY <1>1, <1>3, EventIsNotNoEvent DEF WriterInv
  <1>7. \A j \in Jobs : row'[j] # NoEvent =>
          KindOf[row'[j]] = "state" /\ JobOf[row'[j]] = j /\ pub'[row'[j]] # "new"
    <2> SUFFICES ASSUME NEW j \in Jobs, row'[j] # NoEvent
                 PROVE  KindOf[row'[j]] = "state" /\ JobOf[row'[j]] = j /\ pub'[row'[j]] # "new"
      OBVIOUS
    <2>1. CASE row'[j] = e /\ KindOf[e] = "state" /\ JobOf[e] = j
      BY <1>3, <2>1
    <2>2. CASE row'[j] = row[j]
      <3>1. row[j] \in Events /\ pub[row[j]] # "new"
        BY <1>2, <2>2 DEF View, WriterInv
      <3> QED BY <1>3, <2>2, <3>1 DEF WriterInv
    <2> QED BY <1>1, <1>2, <2>1, <2>2 DEF View
  <1>8. \A f \in Events : KindOf[f] = "state" /\ pub'[f] # "new" => f <= row'[JobOf[f]]
    <2> SUFFICES ASSUME NEW f \in Events, KindOf[f] = "state", pub'[f] # "new"
                 PROVE  f <= row'[JobOf[f]]
      OBVIOUS
    <2>1. f \in Nat /\ e \in Nat /\ JobOf[f] \in Jobs /\ JobOf[e] \in Jobs
      BY EventAssumption
    <2>2. CASE KindOf[e] = "state" /\ JobOf[f] = JobOf[e]
      <3>1. row'[JobOf[f]] = e
        BY <1>1, <1>2, <2>1, <2>2 DEF View
      <3>2. ~(e < f)
        BY <1>1, <1>3, <2>2 DEF WriterInv
      <3> QED BY <2>1, <3>1, <3>2
    <2>3. CASE ~(KindOf[e] = "state" /\ JobOf[f] = JobOf[e])
      <3>1. row'[JobOf[f]] = row[JobOf[f]]
        BY <1>1, <1>2, <2>1, <2>3 DEF View
      <3>2. f # e
        BY <2>3
      <3> QED BY <1>3, <3>1, <3>2 DEF WriterInv
    <2> QED BY <2>2, <2>3
  <1> QED BY <1>5, <1>7, <1>8 DEF WriterInv

LEMMA PublishWriters ==
    ASSUME TypeInv, WriterInv, NEW e \in Events,
           \/ Store(e) \/ PublishStored(e) \/ PublishCanceled(e)
           \/ PublishUnstored(e) \/ RetryDeadLetter(e)
    PROVE  WriterInv'
  <1>1. /\ row' = row /\ pub[e] # "new"
        /\ \E how \in {"stored", "done", "silent", "dead", "lost"} :
             pub' = [pub EXCEPT ![e] = how]
    BY DEF Store, PublishStored, PublishCanceled, PublishUnstored, RetryDeadLetter
  <1>2. pub'[e] # "new" /\ \A f \in Events : f # e => pub'[f] = pub[f]
    BY <1>1 DEF TypeInv, TypeOK
  <1>3. \A f \in Events : pub'[f] = "new" <=> pub[f] = "new"
    BY <1>1, <1>2
  <1>4. \A j \in Jobs : row[j] # NoEvent => row[j] \in Events
    BY DEF TypeInv, TypeOK, View
  <1> QED BY <1>1, <1>3, <1>4 DEF WriterInv

-----------------------------------------------------------------------------
(* Who knows the state of a job: the publishers.                           *)

\* What View needs of the last event of a job.
LEMMA LastFacts ==
    ASSUME TypeInv, WriterInv, NEW j \in Jobs, NEW n \in DOMAIN log, Last(j, n)
    PROVE  /\ row[j] \in Events /\ log[n] = row[j]
           /\ KindOf[row[j]] = "state" /\ JobOf[row[j]] = j
           /\ pub[row[j]] \in {"stored", "done"}
           /\ n \in Nat /\ 0 < n /\ n <= Len(log)
           /\ Told(n) <=> pub[row[j]] = "done"
  <1>1. log[n] \in Events /\ n \in Nat /\ 0 < n /\ n <= Len(log)
    BY LogFacts DEF TypeInv
  <1>2. row[j] \in Events /\ row[j] # NoEvent
    BY <1>1, EventIsNotNoEvent DEF Last
  <1> QED BY <1>1, <1>2 DEF Last, WriterInv, InTime, Told

\* An event of the job that the client would be shown instead is older.
LEMMA OlderEvent ==
    ASSUME TypeInv, WriterInv, NEW j \in Jobs, NEW n \in DOMAIN log, Last(j, n),
           NEW m \in DOMAIN log, KindOf[log[m]] = "state", JobOf[log[m]] = j, m # n
    PROVE  m < n
  <1>1. /\ row[j] \in Events /\ log[n] = row[j] /\ JobOf[row[j]] = j
        /\ pub[row[j]] \in {"stored", "done"}
    BY LastFacts
  <1>2. log[m] \in Events /\ m \in Nat /\ n \in Nat /\ log[m] \in Nat /\ row[j] \in Nat
    BY <1>1, LogFacts, EventIsNotNoEvent DEF TypeInv
  <1>3. pub[log[m]] # "new"
    BY DEF TypeInv, LogInv
  <1>4. log[m] <= row[j]
    BY <1>2, <1>3 DEF WriterInv
  <1>5. ASSUME n < m PROVE FALSE
    <2>1. log[n] < log[m]
      BY <1>1, <1>5, LastFacts DEF Last, InWrittenOrder
    <2> QED BY <1>1, <1>2, <1>4, <2>1
  <1> QED BY <1>2, <1>5

\* A table that grows was in order before.
LEMMA OrderStays ==
    ASSUME NEW j \in Jobs, log' = log \/ \E e \in Events : Grown(e), InWrittenOrder(j)'
    PROVE  InWrittenOrder(j)
  BY DEF InWrittenOrder, Grown

\* Only the row, the view and the queue matter to who knows a state.
LEMMA KnowsStays ==
    ASSUME NEW j \in Jobs, Knows(j), row'[j] = row[j], view'[j] = view[j], queue' = queue
    PROVE  Knows(j)'
  BY DEF Knows, Changes

LEMMA KnowsAfterFrame ==
    ASSUME NEW j \in Jobs, NEW f, Knows(j), row'[j] = row[j], view'[j] = view[j],
           Takes(queue', f), f.ev # NoEvent, ~Changes(f, j)
    PROVE  Knows(j)'
  <1>1. CASE \E i \in DOMAIN queue : queue[i].ev = row[j]
    BY <1>1 DEF Knows, Takes
  <1>2. CASE ~\E i \in DOMAIN queue : queue[i].ev = row[j]
    <2>1. /\ \A i \in DOMAIN queue : ~Changes(queue[i], j)
          /\ \/ \E i \in DOMAIN queue : queue[i].ev = NoEvent /\ queue[i].rows[j] = row[j]
             \/ (\A i \in DOMAIN queue : queue[i].ev # NoEvent) /\ view[j] = row[j]
      BY <1>2 DEF Knows
    <2>2. \A i \in DOMAIN queue' : ~Changes(queue[i], j)'
      BY <2>1 DEF Takes, Changes
    <2>3. \/ \E i \in DOMAIN queue' : queue'[i].ev = NoEvent /\ queue'[i].rows[j] = row[j]
          \/ (\A i \in DOMAIN queue' : queue'[i].ev # NoEvent) /\ view[j] = row[j]
      BY <2>1 DEF Takes
    <2> QED BY <2>2, <2>3 DEF Knows
  <1> QED BY <1>1, <1>2

LEMMA WriteRowView ==
    ASSUME TypeInv, WriterInv, ViewInv, NEW e \in Events, WriteRow(e)
    PROVE  ViewInv'
  <1>1. /\ pub[e] = "new" /\ pub' = [pub EXCEPT ![e] = "written"]
        /\ row' = IF KindOf[e] = "state" THEN [row EXCEPT ![JobOf[e]] = e] ELSE row
    BY DEF WriteRow
  <1>2. UNCHANGED <<log, conn, closed, queue, batch, cursor, view, blind, overtaken, cut>>
    BY DEF WriteRow, connection, client
  <1>3. /\ row \in View
        /\ pub \in [Events -> {"new", "written", "stored", "dead", "done", "lost", "silent"}]
    BY DEF TypeInv, TypeOK
  <1>4. pub'[e] = "written" /\ \A f \in Events : f # e => pub'[f] = pub[f]
    BY <1>1, <1>3
  <1>5. \A n \in DOMAIN log : log[n] \in Events /\ log[n] # e
    BY <1>1, LogFacts DEF TypeInv, LogInv
  <1>6. \A n \in DOMAIN log : Told(n)' <=> Told(n)
    BY <1>2, <1>4, <1>5 DEF Told
  <1> SUFFICES ASSUME ~overtaken, ~cut
               PROVE  ViewInv'
    BY <1>2 DEF ViewInv
  <1>7. ASSUME NEW j \in Jobs, NEW n \in DOMAIN log, Last(j, n)'
        PROVE  Shows(j, n)'
    <2>1. row'[j] = log[n] /\ row'[j] # e
      BY <1>2, <1>5, <1>7 DEF Last
    <2>2. row'[j] = row[j]
      BY <1>1, <1>3, <2>1 DEF View
    <2>3. Clean(j)
      BY <1>1, <1>4, <1>7 DEF Last, Clean
    <2>4. Last(j, n)
      BY <1>2, <1>4, <1>5, <1>7, <2>1, <2>2, <2>3, OrderStays DEF Last, InTime
    <2>5. Shows(j, n)
      BY <2>4 DEF ViewInv
    <2>6. Knows(j) => Knows(j)'
      BY <1>2, <2>2, KnowsStays
    <2> QED BY <1>2, <1>6, <2>2, <2>5, <2>6 DEF Shows, RightFor
  <1>8. Complete'
    BY <1>2, <1>6 DEF ViewInv, Complete
  <1> QED BY <1>2, <1>7, <1>8 DEF ViewInv

\* What a step that only touches the table leaves alone.
LEMMA TableView ==
    ASSUME TypeInv, ViewInv, NEW e \in Events, pub[e] # "done", Grown(e),
           UNCHANGED <<row, conn, closed, queue, batch, cursor, view, blind, overtaken, cut>>,
           \A f \in Events : f # e => pub'[f] = pub[f],
           pub[e] \in {"dead", "lost"} <=> pub'[e] \in {"dead", "lost"},
           pub'[e] \in {"stored", "lost"}, \A n \in DOMAIN log : log[n] # e
    PROVE  ViewInv'
  <1>1. /\ Len(log) \in Nat /\ DOMAIN log = 1 .. Len(log)
        /\ \A i \in DOMAIN log : log[i] \in Events
    BY LogFacts DEF TypeInv
  <1>2. \A n \in DOMAIN log : log'[n] = log[n] /\ pub'[log[n]] = pub[log[n]]
    BY <1>1 DEF Grown
  <1>3. \A n \in DOMAIN log' : Told(n)' => n \in DOMAIN log /\ Told(n)
    BY <1>1, <1>2 DEF Told, Grown
  <1> SUFFICES ASSUME ~overtaken, ~cut
               PROVE  ViewInv'
    BY DEF ViewInv
  <1>4. ASSUME NEW j \in Jobs, NEW n \in DOMAIN log', Last(j, n)'
        PROVE  Shows(j, n)'
    <2>1. CASE n \in DOMAIN log
      <3>1. Clean(j)
        BY <1>4 DEF Last, Clean
      <3>2. Last(j, n)
        BY <1>2, <1>4, <2>1, <3>1, OrderStays DEF Last, InTime
      <3>3. Shows(j, n)
        BY <2>1, <3>2 DEF ViewInv
      <3>4. Knows(j) => Knows(j)'
        BY KnowsStays
      <3> QED BY <1>3, <3>3, <3>4 DEF Shows, RightFor
    <2>2. CASE n = Len(log) + 1
      <3>1. ~(n <= cursor) /\ ~(n <= batch.upto)
        BY <1>1, <2>2 DEF TypeInv, TypeOK, FramesInv
      <3>2. \A i \in DOMAIN queue : RightFor(queue[i], j, n)'
        <4> SUFFICES ASSUME NEW i \in DOMAIN queue, queue[i].ev = NoEvent, n <= queue[i].id
                     PROVE  FALSE
          BY DEF RightFor
        <4>1. queue[i].id <= Len(log) /\ queue[i].id \in Nat
          BY QueueFacts DEF TypeInv, FramesInv, Honest
        <4> QED BY <1>1, <2>2, <4>1
      <3>3. n \notin DOMAIN log
        BY <1>1, <2>2
      <3>4. ~Told(n)'
        BY <1>3, <3>3
      <3> QED BY <3>1, <3>2, <3>4 DEF Shows
    <2> QED BY <2>1, <2>2 DEF Grown
  <1>5. Complete'
    BY <1>3 DEF ViewInv, Complete
  <1> QED BY <1>4, <1>5 DEF ViewInv

LEMMA StoreView ==
    ASSUME TypeInv, ViewInv, NEW e \in Events, Store(e)
    PROVE  ViewInv'
  <1>1. /\ pub[e] = "written" /\ pub' = [pub EXCEPT ![e] = "stored"]
        /\ log' = Append(log, e)
    BY DEF Store
  <1>2. UNCHANGED <<row, conn, closed, queue, batch, cursor, view, blind, overtaken, cut>>
    BY DEF Store, connection, client
  <1>3. Grown(e) /\ \A n \in DOMAIN log : log[n] # e
    BY <1>1, LogGrows DEF TypeInv, LogInv
  <1>4. pub'[e] = "stored" /\ \A f \in Events : f # e => pub'[f] = pub[f]
    BY <1>1 DEF TypeInv, TypeOK
  <1> QED BY <1>1, <1>2, <1>3, <1>4, TableView

LEMMA RetryView ==
    ASSUME TypeInv, ViewInv, NEW e \in Events, RetryDeadLetter(e)
    PROVE  ViewInv'
  <1>1. /\ pub[e] = "dead" /\ pub' = [pub EXCEPT ![e] = "lost"]
        /\ UNCHANGED log \/ log' = Append(log, e)
    BY DEF RetryDeadLetter
  <1>2. UNCHANGED <<row, conn, closed, queue, batch, cursor, view, blind, overtaken, cut>>
    BY DEF RetryDeadLetter, connection, client
  <1>3. pub'[e] = "lost" /\ \A f \in Events : f # e => pub'[f] = pub[f]
    BY <1>1 DEF TypeInv, TypeOK
  <1>4. \A n \in DOMAIN log : log[n] # e /\ log[n] \in Events
    BY <1>1, LogFacts DEF TypeInv, LogInv
  <1>5. CASE log' = Append(log, e)
    <2>1. Grown(e)
      BY <1>5, LogGrows DEF TypeInv
    <2> QED BY <1>1, <1>2, <1>3, <1>4, <2>1, TableView
  <1>6. CASE UNCHANGED log
    <2>1. \A n \in DOMAIN log : Told(n)' <=> Told(n)
      BY <1>3, <1>4, <1>6 DEF Told
    <2>2. \A j \in Jobs : \A n \in DOMAIN log : Last(j, n)' => Last(j, n)
      BY <1>1, <1>2, <1>3, <1>4, <1>6, OrderStays DEF Last, InTime, Clean
    <2>3. \A j \in Jobs : Knows(j) => Knows(j)'
      BY <1>2, KnowsStays
    <2>4. \A j \in Jobs : \A n \in DOMAIN log : Shows(j, n) => Shows(j, n)'
      BY <1>2, <2>1, <2>3 DEF Shows, RightFor
    <2>5. Complete => Complete'
      BY <1>2, <1>6, <2>1 DEF Complete
    <2> QED BY <1>2, <1>6, <2>2, <2>4, <2>5 DEF ViewInv
  <1> QED BY <1>1, <1>5, <1>6

\* A broadcast that moves an event on leaves every job that keeps its last event
\* with a client that knows it, if the frame does not change that job; the
\* stored event's own frame tells it.
LEMMA BroadcastView ==
    ASSUME TypeInv, ViewInv, NEW e \in Events, NEW m \in Nat, Broadcasts(e, m),
           UNCHANGED <<row, log, cursor, view, blind, cut>>,
           \A j \in Jobs : \A n \in DOMAIN log : Last(j, n)' =>
               /\ Last(j, n)
               /\ \/ row[j] = e /\ KindOf[e] = "state"
                  \/ (Told(n)' => Told(n)) /\ ~Changes(EventFrame(e, m), j),
           KindOf[e] # "state" /\ conn \in {"reading", "replaying"} =>
               \A n \in DOMAIN log : Told(n)' => Told(n)
    PROVE  ViewInv'
  <1>1. batch' = batch /\ conn' = conn
    BY DEF Broadcasts
  <1> SUFFICES ASSUME ~overtaken', ~cut
               PROVE  ViewInv'
    BY DEF ViewInv
  <1>2. ~overtaken /\ (KindOf[e] # "state" \/ conn \in {"open", "down"})
    BY DEF Broadcasts, TypeInv, TypeOK
  <1>3. EventFrame(e, m).ev = e /\ e # NoEvent
    BY EventIsNotNoEvent DEF EventFrame
  <1>4. ASSUME NEW j \in Jobs, NEW n \in DOMAIN log, Last(j, n)'
        PROVE  Shows(j, n)'
    <2>1. Last(j, n)
      BY <1>4
    <2>2. Shows(j, n)
      BY <1>2, <2>1 DEF ViewInv
    <2>3. \A i \in DOMAIN queue' : RightFor(queue[i], j, n)'
      <3>1. CASE queue' = queue
        BY <2>2, <3>1 DEF Shows, RightFor
      <3>2. CASE Takes(queue', EventFrame(e, m))
        BY <1>3, <2>2, <3>2 DEF Shows, RightFor, Takes
      <3> QED BY <3>1, <3>2 DEF Broadcasts
    <2>4. ASSUME conn = "open", ~closed', Told(n)'
          PROVE  Knows(j)'
      <3>1. CASE row[j] = e /\ KindOf[e] = "state"
        <4>1. Takes(queue', EventFrame(e, m))
          BY <2>4, <3>1 DEF Broadcasts
        <4>2. \E i \in DOMAIN queue' : queue'[i].ev = row'[j]
          BY <1>3, <3>1, <4>1 DEF Takes
        <4> QED BY <4>2 DEF Knows
      <3>2. CASE (Told(n)' => Told(n)) /\ ~Changes(EventFrame(e, m), j)
        <4>1. ~closed
          BY <2>4 DEF Broadcasts
        <4>2. Knows(j)
          BY <2>2, <2>4, <3>2, <4>1 DEF Shows
        <4>3. CASE queue' = queue
          BY <4>2, <4>3, KnowsStays
        <4>4. CASE Takes(queue', EventFrame(e, m))
          BY <1>3, <3>2, <4>2, <4>4, KnowsAfterFrame
        <4> QED BY <4>3, <4>4 DEF Broadcasts
      <3> QED BY <1>4, <3>1, <3>2
    <2> QED BY <1>1, <2>2, <2>3, <2>4 DEF Shows
  <1>5. Complete'
    BY <1>1, <1>2 DEF ViewInv, Complete
  <1> QED BY <1>4, <1>5 DEF ViewInv

LEMMA PublishStoredView ==
    ASSUME TypeInv, WriterInv, ViewInv, NEW e \in Events, PublishStored(e)
    PROVE  ViewInv'
  <1>1. pub[e] = "stored" /\ pub' = [pub EXCEPT ![e] = "done"]
    BY DEF PublishStored
  <1>2. UNCHANGED <<row, log, cursor, view, blind, cut>>
    BY DEF PublishStored, client
  <1>3. Broadcasts(e, Len(log)) /\ Len(log) \in DOMAIN log /\ log[Len(log)] = e
    BY <1>1, PublishStoredTypes, StoredIsLast
  <1>4. pub'[e] = "done" /\ \A f \in Events : f # e => pub'[f] = pub[f]
    BY <1>1 DEF TypeInv, TypeOK
  <1>5. \A n \in DOMAIN log : log[n] \in Events
    BY LogFacts DEF TypeInv
  <1>6. \A n \in DOMAIN log : log[n] # e => (Told(n)' => Told(n))
    BY <1>2, <1>4, <1>5 DEF Told
  <1>7. KindOf[e] # "state" => \A n \in DOMAIN log : Told(n)' => Told(n)
    BY <1>2, <1>6 DEF Told
  <1>8. ASSUME NEW j \in Jobs, NEW n \in DOMAIN log, Last(j, n)'
        PROVE  /\ Last(j, n)
               /\ \/ row[j] = e /\ KindOf[e] = "state"
                  \/ (Told(n)' => Told(n)) /\ ~Changes(EventFrame(e, Len(log)), j)
    <2>1. Last(j, n)
      <3>1. row[j] \in Events
        BY <1>2, <1>5, <1>8 DEF Last
      <3>2. InTime(row[j])
        BY <1>1, <1>2, <1>4, <1>8, <3>1 DEF Last, InTime
      <3>3. Clean(j)
        BY <1>1, <1>4, <1>8 DEF Last, Clean
      <3> QED BY <1>2, <1>8, <3>2, <3>3, OrderStays DEF Last
    <2>2. /\ row[j] \in Events /\ log[n] = row[j] /\ JobOf[row[j]] = j
          /\ KindOf[row[j]] = "state"
      BY <2>1, LastFacts
    <2>3. CASE row[j] = e
      BY <2>1, <2>2, <2>3
    <2>4. CASE row[j] # e
      <3>1. Told(n)' => Told(n)
        BY <1>6, <2>2, <2>4
      <3>2. ASSUME KindOf[e] = "state", JobOf[e] = j PROVE FALSE
        <4>1. Len(log) < n
          BY <1>3, <2>1, <2>2, <2>4, <3>2, OlderEvent
        <4>2. n <= Len(log) /\ n \in Nat /\ Len(log) \in Nat
          BY LogFacts DEF TypeInv
        <4> QED BY <4>1, <4>2
      <3>3. ~Changes(EventFrame(e, Len(log)), j)
        BY <3>2 DEF Changes, EventFrame
      <3> QED BY <2>1, <3>1, <3>3
    <2> QED BY <2>3, <2>4
  <1>9. Len(log) \in Nat
    BY LogFacts DEF TypeInv
  <1>10. /\ \A j \in Jobs : \A n \in DOMAIN log : Last(j, n)' =>
              /\ Last(j, n)
              /\ \/ row[j] = e /\ KindOf[e] = "state"
                 \/ (Told(n)' => Told(n)) /\ ~Changes(EventFrame(e, Len(log)), j)
         /\ KindOf[e] # "state" /\ conn \in {"reading", "replaying"} =>
              \A n \in DOMAIN log : Told(n)' => Told(n)
    BY <1>7, <1>8
  <1> QED BY <1>2, <1>3, <1>9, <1>10, BroadcastView

LEMMA PublishCanceledView ==
    ASSUME TypeInv, ViewInv, NEW e \in Events, PublishCanceled(e)
    PROVE  ViewInv'
  <1>1. pub[e] \in {"written", "stored"} /\ pub' = [pub EXCEPT ![e] = "silent"]
    BY DEF PublishCanceled
  <1>2. UNCHANGED <<row, log, conn, closed, queue, batch, cursor, view, blind, overtaken, cut>>
    BY DEF PublishCanceled, connection, client
  <1>3. pub'[e] = "silent" /\ \A f \in Events : f # e => pub'[f] = pub[f]
    BY <1>1 DEF TypeInv, TypeOK
  <1>4. \A n \in DOMAIN log : log[n] \in Events
    BY LogFacts DEF TypeInv
  <1>5. \A n \in DOMAIN log : Told(n)' <=> Told(n)
    BY <1>1, <1>2, <1>3, <1>4 DEF Told
  <1>6. \A j \in Jobs : \A n \in DOMAIN log : Last(j, n)' => Last(j, n)
    <2> SUFFICES ASSUME NEW j \in Jobs, NEW n \in DOMAIN log, Last(j, n)'
                 PROVE  Last(j, n)
      OBVIOUS
    <2>1. row[j] \in Events /\ InTime(row[j])
      BY <1>2, <1>3, <1>4 DEF Last, InTime
    <2>2. Clean(j)
      BY <1>1, <1>3 DEF Last, Clean
    <2> QED BY <1>2, <2>1, <2>2, OrderStays DEF Last
  <1>7. \A j \in Jobs : Knows(j) => Knows(j)'
    BY <1>2, KnowsStays
  <1>8. \A j \in Jobs : \A n \in DOMAIN log : Shows(j, n) => Shows(j, n)'
    BY <1>2, <1>5, <1>7 DEF Shows, RightFor
  <1>9. Complete => Complete'
    BY <1>2, <1>5 DEF Complete
  <1> QED BY <1>2, <1>6, <1>8, <1>9 DEF ViewInv

LEMMA PublishUnstoredView ==
    ASSUME TypeInv, ViewInv, NEW e \in Events, PublishUnstored(e)
    PROVE  ViewInv'
  <1>1. pub[e] = "written" /\ pub' = [pub EXCEPT ![e] = "dead"]
    BY DEF PublishUnstored
  <1>2. UNCHANGED <<row, log, cursor, view, blind, cut>>
    BY DEF PublishUnstored, client
  <1>3. Broadcasts(e, 0)
    BY PublishUnstoredTypes
  <1>4. pub'[e] = "dead" /\ \A f \in Events : f # e => pub'[f] = pub[f]
    BY <1>1 DEF TypeInv, TypeOK
  <1>5. \A n \in DOMAIN log : log[n] \in Events /\ log[n] # e
    BY <1>1, LogFacts DEF TypeInv, LogInv
  <1>6. \A n \in DOMAIN log : Told(n)' => Told(n)
    BY <1>2, <1>4, <1>5 DEF Told
  <1>7. ASSUME NEW j \in Jobs, NEW n \in DOMAIN log, Last(j, n)'
        PROVE  Last(j, n) /\ ~Changes(EventFrame(e, 0), j)
    <2>1. JobOf[e] # j /\ row[j] # e
      BY <1>2, <1>4, <1>5, <1>7 DEF Last, Clean
    <2>2. Clean(j)
      BY <1>4, <1>7, <2>1 DEF Last, Clean
    <2>3. InTime(row[j])
      BY <1>2, <1>4, <1>5, <1>7, <2>1 DEF Last, InTime
    <2>4. ~Changes(EventFrame(e, 0), j)
      BY <2>1 DEF Changes, EventFrame
    <2> QED BY <1>2, <1>7, <2>2, <2>3, <2>4, OrderStays DEF Last
  <1>8. /\ \A j \in Jobs : \A n \in DOMAIN log : Last(j, n)' =>
             /\ Last(j, n)
             /\ \/ row[j] = e /\ KindOf[e] = "state"
                \/ (Told(n)' => Told(n)) /\ ~Changes(EventFrame(e, 0), j)
        /\ KindOf[e] # "state" /\ conn \in {"reading", "replaying"} =>
             \A n \in DOMAIN log : Told(n)' => Told(n)
    BY <1>6, <1>7
  <1> QED BY <1>2, <1>3, <1>8, BroadcastView

-----------------------------------------------------------------------------
(* The same: the connection and the client.                                *)

LEMMA ConnectView ==
    ASSUME TypeInv, ViewInv, Connect
    PROVE  ViewInv'
  <1>1. /\ UNCHANGED <<row, pub, log, closed, queue, batch, cursor, overtaken, cut>>
        /\ conn = "down" /\ conn' = IF cursor = 0 THEN "open" ELSE "querying"
        /\ blind' = IF cursor = 0 /\ loaded THEN Len(log) ELSE blind
        /\ view' = IF loaded THEN view ELSE row
    BY DEF Connect, server
  <1>2. queue = <<>> /\ DOMAIN queue = {}
    BY <1>1 DEF TypeInv, ConnInv
  <1>3. /\ DOMAIN log = 1 .. Len(log) /\ Len(log) \in Nat
    BY LogFacts DEF TypeInv
  <1>4. Complete'
    BY <1>1 DEF Complete
  <1> SUFFICES ASSUME ~overtaken, ~cut, NEW j \in Jobs, NEW n \in DOMAIN log, Last(j, n)'
               PROVE  Shows(j, n)'
    BY <1>1, <1>4 DEF ViewInv
  <1>5. conn' # "replaying"
    BY <1>1
  <1>6. CASE cursor = 0 /\ loaded
    BY <1>1, <1>3, <1>6 DEF Last
  <1>7. CASE ~loaded
    <2>1. view' = row
      BY <1>1, <1>7
    <2>2. Knows(j)'
      BY <1>1, <1>2, <2>1 DEF Knows
    <2> QED BY <1>1, <1>2, <1>5, <2>1, <2>2 DEF Shows
  <1>8. CASE loaded /\ cursor # 0
    <2>1. view' = view /\ blind' = blind /\ conn' = "querying"
      BY <1>1, <1>8
    <2>2. Last(j, n)
      BY <1>1, <2>1, OrderStays DEF Last, InTime, Clean
    <2>3. Shows(j, n)
      BY <2>2 DEF ViewInv
    <2> QED BY <1>1, <1>2, <2>1, <2>3 DEF Shows
  <1> QED BY <1>6, <1>7, <1>8

\* What a step of the connection leaves of the last events.
LEMMA SameLast ==
    ASSUME NEW j \in Jobs, NEW n \in Nat, UNCHANGED <<row, pub, log, blind>>
    PROVE  Last(j, n)' <=> Last(j, n)
  BY DEF Last, InTime, Clean, InWrittenOrder

LEMMA QueryView ==
    ASSUME TypeInv, ViewInv, Query
    PROVE  ViewInv'
  <1> DEFINE missed == cursor + 1 .. Len(log)
             bounded == {id \in missed : id <= cursor + MaxReplay}
             overflows == Len(log) > cursor + MaxReplay
             snapshots == overflows \/ (missed # {} /\ cursor + 1 <= aged')
             ids == {id \in bounded : snapshots => id > aged'}
  <1>1. /\ UNCHANGED <<row, pub, log, closed, queue, cursor, view, blind, overtaken>>
        /\ conn = "querying" /\ conn' = IF snapshots THEN "reading" ELSE "replaying"
        /\ aged' \in IF "age" \in Env THEN aged .. Len(log) ELSE {aged}
        /\ batch' = [NoBatch EXCEPT !.ids = ids, !.snapshots = snapshots]
        /\ cut' = (cut \/ overflows)
    BY DEF Query, client
  <1>2. batch'.ids = ids /\ batch'.snapshots = snapshots
    BY <1>1 DEF NoBatch
  <1>3. /\ Len(log) \in Nat /\ cursor \in Nat /\ DOMAIN log = 1 .. Len(log)
        /\ MaxReplay \in Nat
    BY LogFacts, BoundAssumption DEF TypeInv, TypeOK
  <1>4. aged' \in Nat
    BY <1>1, <1>3 DEF TypeInv, TypeOK
  <1>5. ASSUME ~overflows, NEW a \in ids, NEW b \in DOMAIN log, a < b
        PROVE  b \in ids
    <2>1. a \in Nat /\ b \in Nat /\ cursor + 1 <= a /\ b <= Len(log)
      BY <1>3, <1>5
    <2>2. b \in bounded
      BY <1>3, <1>5, <2>1
    <2>3. snapshots => b > aged'
      BY <1>4, <1>5, <2>1
    <2> QED BY <2>2, <2>3
  <1>6. overflows \in BOOLEAN
    OBVIOUS
  <1> HIDE DEF ids, snapshots, overflows
  <1> SUFFICES ASSUME ~overtaken, ~cut'
               PROVE  ViewInv'
    BY <1>1 DEF ViewInv
  <1>7. ~cut /\ ~overflows
    BY <1>1, <1>6 DEF TypeInv, TypeOK
  <1>8. Complete'
    BY <1>1, <1>2, <1>5, <1>7 DEF Complete
  <1>9. (conn' = "replaying" => ~batch'.snapshots) /\ conn' # "open"
    BY <1>1, <1>2
  <1>10. ASSUME NEW j \in Jobs, NEW n \in DOMAIN log, Last(j, n)'
         PROVE  Shows(j, n)'
    <2>1. Last(j, n)
      BY <1>1, <1>3, <1>10, SameLast
    <2>2. Shows(j, n)
      BY <1>7, <2>1 DEF ViewInv
    <2> QED BY <1>1, <1>9, <2>2 DEF Shows, RightFor
  <1> QED BY <1>1, <1>8, <1>10 DEF ViewInv

LEMMA ReadRowsView ==
    ASSUME TypeInv, ViewInv, ReadRows
    PROVE  ViewInv'
  <1>1. /\ UNCHANGED <<row, pub, log, closed, queue, cursor, view, blind, overtaken, cut>>
        /\ conn = "reading" /\ conn' = "replaying"
    BY DEF ReadRows, server, client
  <1>2. batch'.ids = batch.ids /\ batch'.rows = row
    BY ReadRowsTypes
  <1>3. DOMAIN log = 1 .. Len(log) /\ Len(log) \in Nat
    BY LogFacts DEF TypeInv
  <1> SUFFICES ASSUME ~overtaken, ~cut
               PROVE  ViewInv'
    BY <1>1 DEF ViewInv
  <1>4. Complete'
    BY <1>1, <1>2 DEF ViewInv, Complete, Told
  <1>5. ASSUME NEW j \in Jobs, NEW n \in DOMAIN log, Last(j, n)'
        PROVE  Shows(j, n)'
    <2>1. Last(j, n)
      BY <1>1, <1>3, <1>5, SameLast
    <2>2. Shows(j, n)
      BY <2>1 DEF ViewInv
    <2> QED BY <1>1, <1>2, <2>2 DEF Shows, RightFor
  <1> QED BY <1>1, <1>4, <1>5 DEF ViewInv

LEMMA DisconnectView ==
    ASSUME TypeInv, ViewInv, Disconnect
    PROVE  ViewInv'
  <1>1. /\ UNCHANGED <<row, pub, log, cursor, view, blind, overtaken, cut>>
        /\ conn' = "down" /\ queue' = <<>> /\ DOMAIN queue' = {}
    BY DEF Disconnect, server, client
  <1>2. DOMAIN log = 1 .. Len(log) /\ Len(log) \in Nat
    BY LogFacts DEF TypeInv
  <1>3. Complete'
    BY <1>1 DEF Complete
  <1> SUFFICES ASSUME ~overtaken, ~cut, NEW j \in Jobs, NEW n \in DOMAIN log, Last(j, n)'
               PROVE  Shows(j, n)'
    BY <1>1, <1>3 DEF ViewInv
  <1>4. Last(j, n)
    BY <1>1, <1>2, SameLast
  <1>5. Shows(j, n)
    BY <1>4 DEF ViewInv
  <1> QED BY <1>1, <1>5 DEF Shows

LEMMA DeliverView ==
    ASSUME TypeInv, GapInv, WriterInv, ViewInv, Deliver
    PROVE  ViewInv'
  <1>1. /\ UNCHANGED <<row, pub, log, cursor, view, blind, overtaken, cut>>
        /\ conn = "replaying" /\ conn' = "open" /\ batch' = NoBatch
    BY DEF Deliver, server, client
  <1>2. PICK g \in Seq(Frame) : Replays(g) /\ Delivers(g)
    BY Deliveries DEF TypeInv
  <1>3. /\ Len(log) \in Nat /\ cursor \in Nat /\ DOMAIN log = 1 .. Len(log)
        /\ \A m \in DOMAIN log : log[m] \in Events
    BY LogFacts DEF TypeInv, TypeOK
  <1>4. Complete'
    BY <1>1 DEF Complete
  <1> SUFFICES ASSUME ~overtaken, ~cut, NEW j \in Jobs, NEW n \in DOMAIN log, Last(j, n)'
               PROVE  Shows(j, n)'
    BY <1>1, <1>4 DEF ViewInv
  <1>5. queue = <<>> /\ ~closed
    BY <1>1 DEF TypeInv, ConnInv
  <1>6. /\ \A i \in DOMAIN queue' : i \in DOMAIN g /\ queue'[i] = g[i]
        /\ ~closed' => DOMAIN g \subseteq DOMAIN queue'
    BY <1>2, <1>5 DEF Delivers
  <1>7. Last(j, n) /\ n \in Nat
    BY <1>1, <1>3, SameLast
  <1>8. Shows(j, n) /\ Complete
    BY <1>7 DEF ViewInv
  <1>9. /\ row[j] \in Events /\ log[n] = row[j] /\ row[j] # NoEvent
        /\ KindOf[row[j]] = "state" /\ JobOf[row[j]] = j
    BY <1>7, LastFacts, EventIsNotNoEvent
  <1>10. \A i \in DOMAIN queue' : RightFor(queue[i], j, n)'
    <2> SUFFICES ASSUME NEW i \in DOMAIN g, g[i].ev = NoEvent, n <= g[i].id
                 PROVE  g[i].rows[j] = row[j]
      BY <1>1, <1>6 DEF RightFor
    <2>1. batch.snapshots /\ g[i].id = batch.upto /\ g[i].rows = batch.rows
      BY <1>2 DEF Replays
    <2> QED BY <1>1, <1>8, <2>1 DEF Shows
  <1>11. ASSUME ~closed', Told(n)'
         PROVE  Knows(j)'
    <2>1. Told(n) /\ Read(n)
      BY <1>1, <1>11 DEF Told, GapInv
    <2>2. CASE n \in batch.ids
      <3>1. PICK i \in DOMAIN g : g[i].ev = log[n]
        BY <1>2, <1>9, <2>2 DEF Replays
      <3>2. i \in DOMAIN queue' /\ queue'[i].ev = row'[j]
        BY <1>1, <1>6, <1>9, <1>11, <3>1
      <3> QED BY <3>2 DEF Knows
    <2>3. CASE n \notin batch.ids
      <3>1. ASSUME NEW i \in DOMAIN g PROVE ~Changes(g[i], j)
        <4> SUFFICES ASSUME Changes(g[i], j)
                     PROVE  FALSE
          OBVIOUS
        <4> DEFINE m == g[i].id
        <4>1. m \in batch.ids /\ g[i].ev = log[m]
          BY <1>2 DEF Replays, Changes
        <4>2. m \in DOMAIN log /\ KindOf[log[m]] = "state" /\ JobOf[log[m]] = j /\ m # n
          BY <1>3, <2>3, <4>1 DEF Changes, TypeInv, FramesInv
        <4> HIDE DEF m
        <4>3. m < n
          BY <1>7, <4>2, OlderEvent
        <4> QED BY <1>1, <1>8, <2>1, <2>3, <4>1, <4>3 DEF Complete
      <3>2. \A i \in DOMAIN queue' : ~Changes(queue[i], j)'
        BY <1>6, <3>1 DEF Changes
      <3>3. CASE batch.snapshots
        <4>1. PICK i \in DOMAIN g : g[i].ev = NoEvent
          BY <1>2, <3>3 DEF Replays
        <4>2. g[i].rows = batch.rows
          BY <1>2, <4>1 DEF Replays
        <4>3. batch.rows[j] = row[j]
          BY <1>1, <1>8, <2>1, <3>3 DEF Read, Shows
        <4>4. i \in DOMAIN queue' /\ queue'[i].ev = NoEvent /\ queue'[i].rows[j] = row'[j]
          BY <1>1, <1>6, <1>11, <4>1, <4>2, <4>3
        <4> QED BY <3>2, <4>4 DEF Knows
      <3>4. CASE ~batch.snapshots
        <4>1. view'[j] = row'[j]
          BY <1>1, <1>8, <2>1, <2>3, <3>4 DEF Read, Shows
        <4>2. \A i \in DOMAIN queue' : queue'[i].ev # NoEvent
          BY <1>2, <1>6, <3>4 DEF Replays
        <4> QED BY <3>2, <4>1, <4>2 DEF Knows
      <3> QED BY <3>3, <3>4
    <2> QED BY <2>2, <2>3
  <1> QED BY <1>1, <1>8, <1>10, <1>11 DEF Shows

\* What a frame does to what the client shows of a job.
LEMMA ReceivedView ==
    ASSUME TypeInv, NEW j \in Jobs, Receives(queue[1])
    PROVE  /\ queue[1].ev = NoEvent => view'[j] = queue[1].rows[j]
           /\ Changes(queue[1], j) => view'[j] = queue[1].ev
           /\ queue[1].ev # NoEvent /\ ~Changes(queue[1], j) => view'[j] = view[j]
  <1> DEFINE f == queue[1]
  <1>1. view \in [Jobs -> Events \cup {NoEvent}]
    BY DEF TypeInv, TypeOK, View
  <1>2. f.ev \in Events => JobOf[f.ev] \in Jobs
    BY EventAssumption
  <1>3. f.ev = NoEvent \/ f.ev \in Events
    BY DEF Receives
  <1> HIDE DEF f
  <1>4. /\ f.ev = NoEvent => view' = f.rows
        /\ f.ev # NoEvent => view' = IF KindOf[f.ev] = "state"
                             THEN [view EXCEPT ![JobOf[f.ev]] = f.ev] ELSE view
    BY EventIsNotNoEvent DEF Receives, f
  <1>5. f.ev = NoEvent => view'[j] = f.rows[j]
    BY <1>4
  <1>6. Changes(f, j) => view'[j] = f.ev
    BY <1>1, <1>4 DEF Changes
  <1>7. f.ev # NoEvent /\ ~Changes(f, j) => view'[j] = view[j]
    BY <1>1, <1>2, <1>3, <1>4 DEF Changes
  <1> QED BY <1>5, <1>6, <1>7 DEF f

LEMMA ReceiveView ==
    ASSUME TypeInv, QueueInv, WriterInv, ViewInv, Receive
    PROVE  ViewInv'
  <1>1. /\ UNCHANGED <<row, pub, log, conn, closed, batch, blind, overtaken, cut>>
        /\ conn = "open" /\ ~closed
    BY DEF Receive, server
  <1>2. Shifted /\ Receives(queue[1])
    BY ReceiveShifts, ReceiveTypes
  <1>3. /\ Len(log) \in Nat /\ cursor \in Nat /\ DOMAIN log = 1 .. Len(log)
        /\ \A m \in DOMAIN log : log[m] \in Events
    BY LogFacts DEF TypeInv, TypeOK
  <1>4. Complete'
    BY <1>1 DEF Complete
  <1> SUFFICES ASSUME ~overtaken, ~cut, NEW j \in Jobs, NEW n \in DOMAIN log, Last(j, n)'
               PROVE  Shows(j, n)'
    BY <1>1, <1>4 DEF ViewInv
  <1> DEFINE f == queue[1]
  <1>5. Last(j, n) /\ n \in Nat
    BY <1>1, <1>3, SameLast
  <1>6. Shows(j, n)
    BY <1>5 DEF ViewInv
  <1>7. /\ row[j] \in Events /\ log[n] = row[j] /\ row[j] # NoEvent
        /\ KindOf[row[j]] = "state" /\ JobOf[row[j]] = j
        /\ pub[row[j]] \in {"stored", "done"}
        /\ Told(n) <=> pub[row[j]] = "done"
    BY <1>5, LastFacts, EventIsNotNoEvent
  <1>8. /\ 1 \in DOMAIN queue
        /\ \A i \in DOMAIN queue :
             queue[i] \in Frame /\ queue[i].id \in Nat /\ i \in Nat /\ i >= 1 /\ Honest(queue[i])
    BY <1>2, QueueFacts DEF Shifted, TypeInv, FramesInv
  <1>9. /\ f.ev = NoEvent => view'[j] = f.rows[j]
        /\ Changes(f, j) => view'[j] = f.ev
        /\ f.ev # NoEvent /\ ~Changes(f, j) => view'[j] = view[j]
    BY <1>2, ReceivedView
  \* A frame that changes what the client shows of the job.
  <1>10. ASSUME NEW i \in DOMAIN queue, Changes(queue[i], j)
         PROVE  /\ queue[i].id \in DOMAIN log /\ log[queue[i].id] = queue[i].ev
                /\ queue[i].id <= n
                /\ queue[i].id = n <=> queue[i].ev = row[j]
    <2>1. queue[i].ev \in Events
      BY QueueFacts, <1>10 DEF Changes, TypeInv
    <2>2. pub[queue[i].ev] \notin {"dead", "lost"}
      BY <1>5, <1>10, <2>1 DEF Last, Clean, Changes
    <2>3. queue[i].id \in DOMAIN log /\ log[queue[i].id] = queue[i].ev
      BY <1>8, <1>10, <2>2 DEF Honest, Changes
    <2>4. queue[i].id = n \/ queue[i].id < n
      BY <1>5, <1>10, <2>3, OlderEvent DEF Changes
    <2>5. queue[i].id = n <=> queue[i].ev = row[j]
      BY <1>7, <2>3 DEF TypeInv, LogInv
    <2> QED BY <1>5, <1>8, <2>3, <2>4, <2>5
  <1>11. \A i \in DOMAIN queue' : RightFor(queue[i], j, n)'
    BY <1>1, <1>2, <1>6 DEF Shows, RightFor, Shifted
  <1>12. \A i \in DOMAIN queue : queue[i].ev = row[j] => Changes(queue[i], j)
    BY <1>7 DEF Changes
  <1>13. ASSUME n <= cursor'
         PROVE  view'[j] = row[j]
    <2>1. CASE f.ev = NoEvent
      <3>1. cursor' = cursor /\ cursor <= f.id
        BY <1>2, <1>8, <2>1, EventIsNotNoEvent DEF Receives, QueueInv
      <3>2. n <= f.id
        BY <1>3, <1>5, <1>8, <1>13, <3>1
      <3> QED BY <1>6, <1>8, <1>9, <2>1, <3>2 DEF Shows, RightFor
    <2>2. CASE f.ev # NoEvent /\ f.id = 0
      <3>1. cursor' = cursor
        BY <1>2, <2>2 DEF Receives
      <3>2. ~Changes(f, j)
        BY <1>3, <1>8, <1>10, <2>2
      <3> QED BY <1>6, <1>9, <1>13, <2>2, <3>1, <3>2 DEF Shows
    <2>3. CASE f.ev # NoEvent /\ f.id # 0
      <3>1. cursor' = f.id /\ f.id \in DOMAIN log /\ log[f.id] = f.ev
        BY <1>2, <1>8, <2>3 DEF Receives, Honest
      <3>2. CASE f.id = n
        BY <1>7, <1>8, <1>9, <1>12, <3>1, <3>2
      <3>3. CASE f.id # n
        <4>1. n < f.id
          BY <1>5, <1>8, <1>13, <3>1, <3>3
        <4>2. pub[row[j]] = "done"
          <5>1. ASSUME pub[row[j]] = "stored" PROVE FALSE
            <6>1. n = Len(log)
              BY <1>7, <5>1, StoredIsLast DEF TypeInv, LogInv
            <6> QED BY <1>3, <3>1, <4>1, <6>1
          <5> QED BY <1>7, <5>1
        <4>3. Knows(j)
          BY <1>1, <1>6, <1>7, <4>2 DEF Shows
        <4>4. ASSUME NEW i \in DOMAIN queue PROVE queue[i].ev # row[j]
          <5> SUFFICES ASSUME queue[i].ev = row[j]
                       PROVE  FALSE
            OBVIOUS
          <5>1. queue[i].id = n
            BY <1>10, <1>12
          <5>2. i # 1
            BY <3>3, <5>1
          <5>3. f.id <= n
            BY <1>3, <1>5, <1>7, <1>8, <2>3, <5>1, <5>2 DEF QueueInv, FramesInOrder
          <5> QED BY <1>5, <1>8, <4>1, <5>3
        <4>5. /\ ~Changes(f, j)
              /\ \/ \E i \in DOMAIN queue : queue[i].ev = NoEvent
                 \/ view[j] = row[j]
          BY <1>8, <4>3, <4>4 DEF Knows
        <4>6. \A i \in DOMAIN queue : queue[i].ev # NoEvent
          BY <2>3 DEF QueueInv
        <4> QED BY <1>9, <2>3, <4>5, <4>6
      <3> QED BY <3>2, <3>3
    <2> QED BY <2>1, <2>2, <2>3
  <1>14. ASSUME Told(n)
         PROVE  Knows(j)'
    <2>1. Knows(j)
      BY <1>1, <1>6, <1>14 DEF Shows
    <2>2. CASE \E i \in DOMAIN queue' : queue'[i].ev = row[j]
      BY <1>1, <2>2 DEF Knows
    <2>3. CASE ~\E i \in DOMAIN queue' : queue'[i].ev = row[j]
      <3>1. \A i \in DOMAIN queue : i # 1 => queue[i].ev \notin {row[j], NoEvent}
        BY <1>2, <2>3 DEF Shifted, QueueInv
      <3>2. \A i \in DOMAIN queue' : queue'[i].ev # NoEvent
        <4>1. \A i \in DOMAIN queue' : i \in Nat /\ i >= 1
          BY <1>2, LenProperties DEF Shifted
        <4> QED BY <1>2, <3>1, <4>1 DEF Shifted
      <3>3. CASE f.ev = row[j]
        <4>1. Changes(f, j) /\ view'[j] = row[j] /\ f.id = n
          BY <1>8, <1>9, <1>10, <1>12, <3>3
        <4>2. ASSUME NEW i \in DOMAIN queue, i # 1 PROVE ~Changes(queue[i], j)
          <5> SUFFICES ASSUME Changes(queue[i], j)
                       PROVE  FALSE
            OBVIOUS
          <5>1. queue[i].id \in DOMAIN log /\ queue[i].id <= n /\ queue[i].id # n
            BY <1>10, <3>1, <4>2
          <5>2. f.id <= queue[i].id
            BY <1>3, <1>7, <1>8, <3>1, <3>3, <4>2, <5>1 DEF QueueInv, FramesInOrder
          <5> QED BY <1>3, <1>5, <1>8, <4>1, <5>1, <5>2
        <4>3. \A i \in DOMAIN queue' : ~Changes(queue[i], j)'
          <5>1. \A i \in DOMAIN queue' : i + 1 # 1
            BY <1>2, LenProperties DEF Shifted
          <5> QED BY <1>2, <4>2, <5>1 DEF Shifted, Changes
        <4> QED BY <1>1, <3>2, <4>1, <4>3 DEF Knows
      <3>4. CASE f.ev # row[j]
        <4>1. /\ \A i \in DOMAIN queue : ~Changes(queue[i], j)
              /\ \/ \E i \in DOMAIN queue : queue[i].ev = NoEvent /\ queue[i].rows[j] = row[j]
                 \/ (\A i \in DOMAIN queue : queue[i].ev # NoEvent) /\ view[j] = row[j]
          BY <2>1, <3>1, <3>4 DEF Knows
        <4>2. \A i \in DOMAIN queue' : ~Changes(queue[i], j)'
          BY <1>2, <4>1 DEF Shifted, Changes
        <4>3. view'[j] = row[j]
          <5>1. CASE f.ev = NoEvent
            BY <1>8, <1>9, <3>1, <4>1, <5>1
          <5>2. CASE f.ev # NoEvent
            BY <1>8, <1>9, <3>1, <4>1, <5>2
          <5> QED BY <5>1, <5>2
        <4> QED BY <1>1, <3>2, <4>2, <4>3 DEF Knows
      <3> QED BY <3>3, <3>4
    <2> QED BY <2>2, <2>3
  <1>15. Told(n)' <=> Told(n)
    BY <1>1 DEF Told
  <1> QED BY <1>1, <1>11, <1>13, <1>14, <1>15 DEF Shows

-----------------------------------------------------------------------------
(* The invariant, and what it shows.                                       *)

LEMMA InitInv == Init => IInv
  <1> SUFFICES ASSUME Init
               PROVE  IInv
    OBVIOUS
  <1>1. /\ <<>> \in Seq(Events) /\ <<>> \in Seq(Frame) /\ Len(<<>>) = 0 /\ DOMAIN <<>> = {}
    BY EmptySeq
  <1>2. log = <<>> /\ queue = <<>> /\ Len(log) = 0 /\ DOMAIN log = {} /\ DOMAIN queue = {}
    BY <1>1 DEF Init
  <1>3. NoBatch \in [ids : SUBSET Nat, snapshots : BOOLEAN, rows : View, upto : Nat]
    BY NothingType DEF NoBatch
  <1>4. TypeOK
    <2>1. row \in View /\ view \in View /\ conn \in ConnStates /\ closed \in BOOLEAN
      BY NothingType DEF Init, ConnStates
    <2>2. pub \in [Events -> {"new", "written", "stored", "dead", "done", "lost", "silent"}]
      BY DEF Init
    <2>3. log \in Seq(Events) /\ queue \in Seq(Frame) /\ Len(queue) <= QueueSize
      BY <1>1, <1>2, BoundAssumption DEF Init
    <2>4. /\ aged \in Nat /\ cursor \in 0 .. Len(log) /\ got \subseteq Events
          /\ since \in 0 .. Len(log) /\ blind \in 0 .. Len(log) /\ faults \in Nat
      BY <1>2 DEF Init
    <2>6. overtaken \in BOOLEAN /\ cut \in BOOLEAN /\ loaded \in BOOLEAN
      BY DEF Init
    <2>5. batch \in [ids : SUBSET Nat, snapshots : BOOLEAN, rows : View, upto : Nat]
      BY <1>3 DEF Init
    <2> QED BY <2>1, <2>2, <2>3, <2>4, <2>5, <2>6 DEF TypeOK
  <1>5. LogInv
    BY <1>2 DEF Init, LogInv, InTime
  <1>6. FramesInv
    <2>1. NoBatch.ids = {} /\ NoBatch.upto = 0
      BY DEF NoBatch
    <2> QED BY <1>2, <2>1 DEF Init, FramesInv
  <1>7. ConnInv
    BY DEF Init, ConnInv
  <1>8. QueueInv
    BY <1>2 DEF Init, QueueInv, FramesInOrder
  <1>9. GapInv
    BY <1>2 DEF Init, GapInv
  <1>10. WriterInv
    BY <1>2 DEF Init, WriterInv, Nothing
  <1>11. ViewInv
    BY <1>2 DEF Init, ViewInv, Complete
  <1> QED BY <1>4, <1>5, <1>6, <1>7, <1>8, <1>9, <1>10, <1>11 DEF IInv, TypeInv

LEMMA StutterInv == ASSUME IInv, UNCHANGED vars PROVE IInv'
  <1>1. UNCHANGED <<row, pub, log, aged, conn, closed, queue, batch, cursor, view, got,
                    since, blind, loaded, overtaken, cut, faults>>
    BY DEF vars, server, connection, client
  <1>2. TypeInv'
    BY <1>1 DEF IInv, TypeInv, TypeOK, LogInv, InTime, FramesInv, Honest, ConnInv
  <1>3. QueueInv'
    BY <1>1, SameQueue DEF IInv
  <1>4. GapInv'
    BY <1>1 DEF IInv, GapInv, Due, Told, Read, InTime
  <1>5. WriterInv'
    BY <1>1, QuietWriters DEF IInv, Quiet
  <1>6. ViewInv'
    BY <1>1 DEF IInv, ViewInv, Complete, Last, Shows, Knows, RightFor, Changes, Told,
                InTime, Clean, InWrittenOrder
  <1> QED BY <1>2, <1>3, <1>4, <1>5, <1>6 DEF IInv

LEMMA PublishingInv == ASSUME IInv, NEW e \in Events, Publishing(e) PROVE IInv'
  <1>1. CASE WriteRow(e)
    <2>1. QueueInv'
      BY <1>1, SameQueue DEF IInv, WriteRow, connection, client
    <2> QED BY <1>1, <2>1, WriteRowTypes, WriteRowGap, WriteRowWriters, WriteRowView DEF IInv
  <1>2. CASE Store(e)
    <2>1. QueueInv'
      BY <1>2, SameQueue DEF IInv, Store, connection, client
    <2> QED BY <1>2, <2>1, StoreTypes, StoreGap, PublishWriters, StoreView DEF IInv
  <1>3. CASE PublishStored(e)
    <2>1. cursor' = cursor /\ Len(log) \in Nat
      BY <1>3, LogFacts DEF PublishStored, client, IInv, TypeInv
    <2>2. QueueInv'
      BY <1>3, <2>1, PublishStoredTypes, BroadcastQueue DEF IInv
    <2> QED BY <1>3, <2>2, PublishStoredTypes, PublishStoredGap, PublishWriters,
               PublishStoredView DEF IInv
  <1>4. CASE PublishUnstored(e)
    <2>1. cursor' = cursor
      BY <1>4 DEF PublishUnstored, client
    <2>2. QueueInv'
      BY <1>4, <2>1, PublishUnstoredTypes, BroadcastQueue DEF IInv
    <2> QED BY <1>4, <2>2, PublishUnstoredTypes, PublishUnstoredGap, PublishWriters,
               PublishUnstoredView DEF IInv
  <1>5. CASE RetryDeadLetter(e)
    <2>1. QueueInv'
      BY <1>5, SameQueue DEF IInv, RetryDeadLetter, connection, client
    <2> QED BY <1>5, <2>1, RetryTypes, RetryGap, PublishWriters, RetryView DEF IInv
  <1>6. CASE PublishCanceled(e)
    <2>1. QueueInv'
      BY <1>6, SameQueue DEF IInv, PublishCanceled, connection, client
    <2> QED BY <1>6, <2>1, PublishCanceledTypes, PublishCanceledGap, PublishWriters,
               PublishCanceledView DEF IInv
  <1> QED BY <1>1, <1>2, <1>3, <1>4, <1>5, <1>6 DEF Publishing

LEMMA DisconnectInv == ASSUME IInv, Disconnect, faults' \in Nat PROVE IInv'
  <1>1. WriterInv'
    BY QuietWriters DEF IInv, Disconnect, server, Quiet
  <1> QED BY <1>1, DisconnectTypes, DisconnectQueue, DisconnectView DEF IInv

LEMMA ConnectionInv == ASSUME IInv, Connect \/ Streaming \/ Drop PROVE IInv'
  <1>1. CASE Connect
    <2>1. WriterInv'
      BY <1>1, QuietWriters DEF IInv, Connect, server, Quiet
    <2> QED BY <1>1, <2>1, ConnectTypes, ConnectQueue, ConnectView DEF IInv
  <1>2. CASE Query
    <2>1. WriterInv'
      BY <1>2, QuietWriters DEF IInv, Query, Quiet
    <2> QED BY <1>2, <2>1, QueryTypes, QueryQueue, QueryView DEF IInv
  <1>3. CASE ReadRows
    <2>1. WriterInv'
      BY <1>3, QuietWriters DEF IInv, ReadRows, server, Quiet
    <2> QED BY <1>3, <2>1, ReadRowsTypes, ReadRowsQueue, ReadRowsView DEF IInv
  <1>4. CASE Deliver
    <2>1. WriterInv'
      BY <1>4, QuietWriters DEF IInv, Deliver, server, Quiet
    <2> QED BY <1>4, <2>1, DeliverTypes, DeliverQueue, DeliverView DEF IInv
  <1>5. CASE Receive
    <2>1. WriterInv'
      BY <1>5, QuietWriters DEF IInv, Receive, server, Quiet
    <2> QED BY <1>5, <2>1, ReceiveTypes, ReceiveQueue, ReceiveGap, ReceiveView DEF IInv
  <1>6. CASE EndClosed
    BY <1>6, DisconnectInv DEF EndClosed, IInv, TypeInv, TypeOK
  <1>7. CASE Drop
    BY <1>7, DisconnectInv DEF Drop, IInv, TypeInv, TypeOK
  <1> QED BY <1>1, <1>2, <1>3, <1>4, <1>5, <1>6, <1>7 DEF Streaming

\* Every reachable state satisfies the invariant: the table and how far each
\* event has come agree (lifespan.py, _persist_and_broadcast), the queue is in
\* order, and what the client lacks is in the queue or the replay.
THEOREM StreamInv == Spec => []IInv
  <1>1. IInv /\ [Next]_vars => IInv'
    BY StutterInv, PublishingInv, ConnectionInv DEF Next
  <1> QED BY InitInv, <1>1, PTL DEF Spec

\* The types, among them that a queue never holds more than SSEConnection's
\* maxsize and that the client's cursor is an id the table has.
THEOREM StreamTypes == Spec => []TypeOK
  <1>1. IInv => TypeOK
    BY DEF IInv, TypeInv
  <1> QED BY StreamInv, <1>1, PTL

\* The identified frames of a connection leave in the order of their ids, so
\* that lastEventIdRef only grows (sse_manager.py, broadcast_domain_event and
\* replay_events), unless a live frame overtakes a replay.
THEOREM InOrderFrames == Spec => []FramesInOrder
  <1>1. IInv => FramesInOrder
    BY DEF IInv, QueueInv
  <1> QED BY StreamInv, <1>1, PTL

\* What the cursor of useSSE has gone past, the client has or a page load or
\* snapshot has told it, unless it came before a connection without a cursor or
\* its publisher was canceled: a queue that closes, a connection that breaks and
\* a replay that is cut short leave no gap behind the cursor.
THEOREM NoGap == Spec => []NoSilentGap
  <1>1. ASSUME IInv PROVE NoSilentGap
    <2> SUFFICES ASSUME ~overtaken, NEW n \in Owed
                 PROVE  FALSE
      BY DEF NoSilentGap
    <2>1. /\ Len(log) \in Nat /\ DOMAIN log = 1 .. Len(log)
          /\ since \in Nat /\ cursor \in Nat /\ cursor <= Len(log)
      BY <1>1, LogFacts DEF IInv, TypeInv, TypeOK
    <2>2. n \in Nat /\ n <= cursor /\ n \in DOMAIN log /\ Due(n)
      BY <2>1 DEF Owed, Due
    <2>3. cursor < n
      BY <1>1, <2>2 DEF IInv, GapInv
    <2> QED BY <2>1, <2>2, <2>3
  <1> QED BY StreamInv, <1>1, PTL

\* A connected client with nothing left to receive shows the rows of the jobs
\* none of whose publishers outran another, whoever writes them: neither a
\* replay after a snapshot (replay_events) nor a frame sent twice takes what it
\* shows back.
THEOREM CurrentView == Spec => []ViewIsCurrent
  <1>1. ASSUME IInv PROVE ViewIsCurrent
    <2> SUFFICES ASSUME conn = "open", ~closed, queue = <<>>, ~overtaken, ~cut,
                        NEW j \in Jobs, row[j] # NoEvent, pub[row[j]] = "done",
                        IdOf(row[j]) > blind, Clean(j), InWrittenOrder(j)
                 PROVE  view[j] = row[j]
      BY DEF ViewIsCurrent
    <2>1. row[j] \in Events
      BY <1>1 DEF IInv, TypeInv, TypeOK, View
    <2>2. \E n \in DOMAIN log : log[n] = row[j]
      BY <1>1, <2>1 DEF IInv, TypeInv, LogInv, InTime
    <2> DEFINE n == IdOf(row[j])
    <2>3. n \in DOMAIN log /\ log[n] = row[j]
      BY <2>2 DEF IdOf
    <2> HIDE DEF n
    <2>4. Last(j, n)
      BY <2>3 DEF Last, InTime, n
    <2>5. Told(n)
      BY <1>1, <2>3, <2>4, LastFacts DEF IInv
    <2>6. Knows(j)
      BY <1>1, <2>3, <2>4, <2>5 DEF IInv, ViewInv, Shows
    <2> QED BY <2>6 DEF Knows
  <1> QED BY StreamInv, <1>1, PTL
=============================================================================
