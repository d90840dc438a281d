------------------------------ MODULE Indexer ------------------------------
(***************************************************************************)
(* The indexer: IndexerPipeline of services/indexer/src/pipeline.ts with   *)
(* its FirehoseConsumer, its DiscoveryIndexStore and the row that a        *)
(* PostgresCheckpointStore keeps.                                          *)
(*                                                                         *)
(* Consumer and index live in the process and are lost with it; the row    *)
(* survives.  Batches are applied without awaiting, but a checkpoint is a  *)
(* query: the cursor it writes is read before, the counter is reset after, *)
(* and whatever happens meanwhile falls in between.                        *)
(*                                                                         *)
(* External: the firehose, which has the same events in the same order for *)
(* whoever reads it again, and a driver that hands batches on in order.    *)
(***************************************************************************)
EXTENDS Integers, FiniteSets

CONSTANTS
    Uris,           \* record URIs
    LastSeq,        \* bound: the firehose's last sequence number
    Calls,          \* ingestAndCheckpoint and saveCheckpoint calls in flight
    Interval,       \* checkpointInterval
    MaxCount,       \* bound: eventsSinceCheckpoint
    Overlap,        \* whether the driver starts a call while another awaits
    Replays,        \* whether the driver rebuilds the index with replay()
    Failures        \* whether checkpoint queries may fail

ASSUME IndexerConstants ==
    /\ LastSeq \in Nat
    /\ Interval \in Nat \ {0}
    /\ MaxCount \in Nat
    /\ {Overlap, Replays, Failures} \subseteq BOOLEAN

Seqs == 0..LastSeq

\* put: a valid create or update of an aid post or resource; opaque: a valid
\* record of another collection; bad: one that normalizeFirehoseEvent refuses.
Event == [kind : {"put", "delete", "opaque", "bad"}, uri : Uris]

NoSeq == -1         \* the consumer has no checkpoint; no row

VARIABLES
    firehose,       \* the events, by sequence number
    position,       \* the last event of the driver's stream handed to ingest
    resume,         \* the cursor this process found when it booted
    index,          \* DiscoveryIndexStore: the event each record comes from
    checkpointSeq,  \* FirehoseConsumer.checkpointSeq
    eventsSinceCheckpoint,
    saving,         \* the calls in flight: cursor, and whether the row has it
    cursor,         \* the checkpoint row's cursor
    seen,           \* history: events handed to this consumer and index
    handled         \* history: events handed to any

process == <<position, resume, index, checkpointSeq, eventsSinceCheckpoint>>
history == <<seen, handled>>
vars == <<firehose, process, saving, cursor, history>>

Idle == [cursor |-> NoSeq, landed |-> FALSE]

TypeOK ==
    /\ firehose \in [Seqs -> Event]
    /\ position \in Seqs \union {NoSeq}
    /\ resume \in Seqs \union {NoSeq}
    /\ index \in [Uris -> SUBSET Seqs]
    /\ checkpointSeq \in Seqs \union {NoSeq}
    /\ eventsSinceCheckpoint \in 0..MaxCount
    /\ saving \in [Calls -> [cursor : Seqs \union {NoSeq}, landed : BOOLEAN]]
    /\ cursor \in Seqs \union {NoSeq}
    /\ seen \subseteq Seqs /\ handled \subseteq Seqs

Init ==
    /\ firehose \in [Seqs -> Event]
    /\ position = NoSeq
    /\ resume = NoSeq
    /\ index = [u \in Uris |-> {}]
    /\ checkpointSeq = NoSeq
    /\ eventsSinceCheckpoint = 0
    /\ saving = [c \in Calls |-> Idle]
    /\ cursor = NoSeq
    /\ seen = {}
    /\ handled = {}

-----------------------------------------------------------------------------
(* A batch of events *)

normalized(batch) == {q \in batch : firehose[q].kind # "bad"}

\* The events of a batch that change the index at u.
On(batch, u) == {q \in batch : /\ firehose[q].kind \in {"put", "delete"}
                               /\ firehose[q].uri = u}

Latest(batch) == {q \in batch : \A r \in batch : r <= q}

\* What the events of a batch leave at u: the last one's record or nothing.
Left(batch, u) == {q \in Latest(On(batch, u)) : firehose[q].kind = "put"}

\* Faulty variant: a delete leaves the record.
applyPuts(old, batch) ==
    [u \in Uris |->
        IF \E q \in On(batch, u) : firehose[q].kind = "put"
        THEN Latest({q \in On(batch, u) : firehose[q].kind = "put"})
        ELSE old[u]]

applyEvents(old, batch) ==
    [u \in Uris |-> IF On(batch, u) = {} THEN old[u] ELSE Left(batch, u)]

\* IndexerPipeline.ingest, on a consumer and index whose state was base, old
\* and count.
Ingest(batch, base, old, count) ==
    /\ count + Cardinality(normalized(batch)) <= MaxCount
    /\ \E top \in {base} \union normalized(batch) :
          /\ \A q \in {base} \union normalized(batch) : q <= top
          /\ checkpointSeq' = top
    /\ index' = applyEvents(old, batch)
    /\ eventsSinceCheckpoint' = count + Cardinality(normalized(batch))
    /\ handled' = handled \union batch

-----------------------------------------------------------------------------
(* IndexerPipeline *)

\* A driver that awaits its calls does nothing before they return.
Ready == Overlap \/ \A c \in Calls : saving[c] = Idle

\* The driver's stream reaches event q.
Receive(q) ==
    LET batch == (position + 1)..q
    IN  /\ Ready
        /\ position <= q
        /\ Ingest(batch, checkpointSeq, index, eventsSinceCheckpoint)
        /\ position' = q
        /\ seen' = seen \union batch

ingest(q) ==
    /\ Receive(q)
    /\ UNCHANGED <<firehose, resume, saving, cursor>>

\* Faulty variant: the row is given the next event's number.
saveNext(c, seq) == saving' = [saving EXCEPT ![c] = [cursor |-> seq + 1,
                                                     landed |-> FALSE]]

Save(c, seq) == saving' = [saving EXCEPT ![c] = [cursor |-> seq,
                                                 landed |-> FALSE]]

\* Up to the await of ingestAndCheckpoint.
ingestAndCheckpoint(c, q) ==
    /\ saving[c] = Idle
    /\ Receive(q)
    /\ IF checkpointSeq' >= 0 /\ eventsSinceCheckpoint' >= Interval
       THEN Save(c, checkpointSeq')
       ELSE UNCHANGED saving
    /\ UNCHANGED <<firehose, resume, cursor>>

\* Up to the await of saveCheckpoint.
saveCheckpoint(c) ==
    /\ Ready
    /\ saving[c] = Idle
    /\ checkpointSeq >= 0
    /\ Save(c, checkpointSeq)
    /\ UNCHANGED <<firehose, process, cursor, history>>

\* The row takes a call's cursor, whatever it holds.
upsertCheckpoint(c) ==
    /\ saving[c] # Idle /\ ~saving[c].landed
    /\ saving' = [saving EXCEPT ![c].landed = TRUE]
    /\ cursor' = saving[c].cursor
    /\ UNCHANGED <<firehose, process, history>>

\* The rest of ingestAndCheckpoint or saveCheckpoint.
saved(c) ==
    /\ saving[c].landed
    /\ saving' = [saving EXCEPT ![c] = Idle]
    /\ eventsSinceCheckpoint' = 0
    /\ UNCHANGED <<firehose, position, resume, index, checkpointSeq, cursor,
                   history>>

\* Faulty variant: the counter is reset however the query ends.
failureResetsCount(c) ==
    /\ Failures
    /\ saving[c] # Idle
    /\ saving' = [saving EXCEPT ![c] = Idle]
    /\ eventsSinceCheckpoint' = 0
    /\ UNCHANGED <<firehose, position, resume, index, checkpointSeq, cursor,
                   history>>

\* The query is rejected, or its answer is lost: the call throws.
saveFails(c) ==
    /\ Failures
    /\ saving[c] # Idle
    /\ saving' = [saving EXCEPT ![c] = Idle]
    /\ UNCHANGED <<firehose, process, cursor, history>>

\* replay(): a new consumer and index read the events up to q.
replay(q) ==
    /\ Replays
    /\ Ready
    /\ Ingest(0..q, NoSeq, [u \in Uris |-> {}], 0)
    /\ position' = q
    /\ seen' = 0..q
    /\ UNCHANGED <<firehose, resume, saving, cursor>>

\* Faulty variant: the filter skips one event too many.
replayFromNextCursor(q) ==
    LET batch == {r \in 0..q : r > resume + 1}
    IN  /\ Ready
        /\ batch # {}
        /\ Ingest(batch, checkpointSeq, index, eventsSinceCheckpoint)
        /\ position' = q
        /\ seen' = seen \union batch
        /\ UNCHANGED <<firehose, resume, saving, cursor>>

\* Faulty variant: nothing is filtered out.
replayUnfiltered(q) ==
    LET batch == 0..q
    IN  /\ Ready
        /\ Ingest(batch, checkpointSeq, index, eventsSinceCheckpoint)
        /\ position' = q
        /\ seen' = seen \union batch
        /\ UNCHANGED <<firehose, resume, saving, cursor>>

\* The driver hands over the events up to q again, with the loaded cursor; the
\* stream goes on from the last one that passes the filter.
replayFromCursor(q) ==
    LET batch == {r \in 0..q : r > resume}
    IN  /\ Ready
        /\ batch # {}
        /\ Ingest(batch, checkpointSeq, index, eventsSinceCheckpoint)
        /\ position' = q
        /\ seen' = seen \union batch
        /\ UNCHANGED <<firehose, resume, saving, cursor>>

\* The process dies, with the calls it had in flight (the row may have taken
\* them by then), and boots: createPipeline loads the cursor, and the stream
\* goes on from there.
restart ==
    /\ resume' = cursor
    /\ position' = cursor
    /\ index' = [u \in Uris |-> {}]
    /\ checkpointSeq' = NoSeq
    /\ eventsSinceCheckpoint' = 0
    /\ saving' = [c \in Calls |-> Idle]
    /\ seen' = {}
    /\ UNCHANGED <<firehose, cursor, handled>>

Next ==
    \/ \E q \in Seqs :
          \/ ingest(q)
          \/ replay(q)
          \/ replayFromCursor(q)
          \/ \E c \in Calls : ingestAndCheckpoint(c, q)
    \/ \E c \in Calls :
          \/ saveCheckpoint(c)
          \/ upsertCheckpoint(c)
          \/ saved(c)
          \/ saveFails(c)
    \/ restart

Spec == Init /\ [][Next]_vars

-----------------------------------------------------------------------------
(* Properties *)

\* A restart loses no event: whatever is behind the row's cursor was handed to
\* some process's ingest, however saves, failures, replays and crashes
\* interleave.
NothingSkipped == \A q \in Seqs : q <= cursor => q \in handled

\* Whenever the stream has caught up with everything this index ever read, the
\* index holds for each record what the last event about it says, also after
\* events were delivered twice or the index was rebuilt.
IndexMatchesStream ==
    (\A q \in seen : q <= position) =>
        \A u \in Uris : index[u] = Left(seen, u)

\* Of the events this process took in, those the row does not cover are
\* counted, so the interval is honoured (pipeline.ts:25-26), if the driver
\* awaits its calls: otherwise the reset drops what came while a save awaited.
UnsavedAreCounted ==
    Cardinality({q \in normalized(seen) : q > cursor}) <= eventsSinceCheckpoint

\* The cursor is the highest sequence number that was processed
\* (shared/checkpoint.ts:8), so it never goes back, neither within a process
\* nor from one to the next, if the driver awaits its calls: queries that
\* overlap land in any order, and each writes the cursor it was given.
CursorNeverBack == [][cursor' >= cursor]_cursor

\* The indexer implements StreamProgress: the events handed to it have no gap,
\* the row only ever names one with nothing missing before it, and it does not
\* go back if the driver awaits its calls and never rebuilds the index.
Progress == INSTANCE StreamProgress WITH
    taken <- handled, row <- cursor, Ordered <- ~Overlap /\ ~Replays
ProgressSpec == Progress!Spec

\* Once the stream is where it was before a restart, so is the index
\* (shared/checkpoint.ts:4-5).  Refuted: what is behind the cursor is not read
\* again, and the index was in memory only.
IndexResumes ==
    position \in Seqs /\ (\A q \in handled : q <= position) =>
        \A u \in Uris : index[u] = Left(0..position, u)
=============================================================================
