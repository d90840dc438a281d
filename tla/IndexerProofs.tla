--------------------------- MODULE IndexerProofs ---------------------------
(***************************************************************************)
(* Proofs about Indexer, for any records, stream, calls and interval.      *)
(***************************************************************************)
EXTENDS Indexer, FiniteSetTheorems, TLAPS

NumOrNone == Seqs \union {NoSeq}

-----------------------------------------------------------------------------
(* Types *)

\* What ingest leaves of a well-typed consumer and index.
LEMMA IngestType ==
    ASSUME TypeOK, NEW batch \in SUBSET Seqs, NEW base \in NumOrNone,
           NEW old \in [Uris -> SUBSET Seqs], NEW count \in 0..MaxCount,
           Ingest(batch, base, old, count)
    PROVE  /\ checkpointSeq' \in NumOrNone
           /\ index' \in [Uris -> SUBSET Seqs]
           /\ eventsSinceCheckpoint' \in 0..MaxCount
           /\ handled' \subseteq Seqs
<1>1. Cardinality(normalized(batch)) \in Nat
  <2>1. IsFiniteSet(Seqs)
    BY FS_Interval, IndexerConstants DEF Seqs
  <2>2. normalized(batch) \in SUBSET Seqs
    BY DEF normalized
  <2> QED
    BY <2>1, <2>2, FS_Subset, FS_CardinalityType
<1>2. eventsSinceCheckpoint' \in 0..MaxCount
  BY <1>1, IndexerConstants DEF Ingest
<1>3. checkpointSeq' \in NumOrNone
  BY DEF Ingest, normalized, NumOrNone
<1>4. index' \in [Uris -> SUBSET Seqs]
  BY DEF Ingest, applyEvents, Left, Latest, On
<1>5. handled' \subseteq Seqs
  BY DEF Ingest, TypeOK
<1> QED
  BY <1>2, <1>3, <1>4, <1>5

\* Receiving up to q is ingesting a batch of sequence numbers.
LEMMA ReceiveType ==
    ASSUME TypeOK, NEW q \in Seqs, Receive(q)
    PROVE  /\ (position + 1)..q \subseteq Seqs
           /\ checkpointSeq' \in NumOrNone
           /\ index' \in [Uris -> SUBSET Seqs]
           /\ eventsSinceCheckpoint' \in 0..MaxCount
           /\ handled' \subseteq Seqs
           /\ position' \in Seqs /\ seen' \subseteq Seqs
<1>1. (position + 1)..q \in SUBSET Seqs
  BY IndexerConstants DEF TypeOK, Seqs, NoSeq
<1>2. Ingest((position + 1)..q, checkpointSeq, index, eventsSinceCheckpoint)
  BY DEF Receive
<1>3. /\ checkpointSeq' \in NumOrNone
      /\ index' \in [Uris -> SUBSET Seqs]
      /\ eventsSinceCheckpoint' \in 0..MaxCount
      /\ handled' \subseteq Seqs
  BY <1>1, <1>2, IngestType DEF TypeOK, NumOrNone
<1>4. position' \in Seqs /\ seen' \subseteq Seqs
  BY <1>1 DEF Receive, TypeOK
<1> QED
  BY <1>1, <1>3, <1>4

\* A save keeps the calls well-typed.
LEMMA SaveType ==
    ASSUME TypeOK, NEW c \in Calls, NEW seq \in NumOrNone, Save(c, seq)
    PROVE  saving' \in [Calls -> [cursor : NumOrNone, landed : BOOLEAN]]
BY DEF Save, TypeOK, NumOrNone

\* Every reachable state is well-typed: the row, the calls in flight and the
\* consumer never hold a number the firehose did not give.
THEOREM TypeCorrect == Spec => []TypeOK
<1>1. Init => TypeOK
  BY IndexerConstants DEF Init, TypeOK, Idle
<1>2. TypeOK /\ [Next]_vars => TypeOK'
  <2> SUFFICES ASSUME TypeOK, [Next]_vars PROVE TypeOK'
    OBVIOUS
  <2>1. CASE UNCHANGED vars
    BY <2>1 DEF vars, process, history, TypeOK
  <2>2. ASSUME NEW q \in Seqs, ingest(q) PROVE TypeOK'
    <3>1. Receive(q)
      BY <2>2 DEF ingest
    <3> QED
      BY <2>2, <3>1, ReceiveType DEF ingest, TypeOK, NumOrNone
  <2>3. ASSUME NEW q \in Seqs, replay(q) PROVE TypeOK'
    <3>1. 0..q \in SUBSET Seqs
      BY IndexerConstants DEF Seqs
    <3>2. Ingest(0..q, NoSeq, [u \in Uris |-> {}], 0)
      BY <2>3 DEF replay
    <3>3. /\ [u \in Uris |-> {}] \in [Uris -> SUBSET Seqs]
          /\ 0 \in 0..MaxCount /\ NoSeq \in NumOrNone
      BY IndexerConstants DEF NumOrNone
    <3> QED
      BY <2>3, <3>1, <3>2, <3>3, IngestType DEF replay, TypeOK, NumOrNone
  <2>4. ASSUME NEW q \in Seqs, replayFromCursor(q) PROVE TypeOK'
    <3> DEFINE batch == {r \in 0..q : r > resume}
    <3>1. batch \in SUBSET Seqs
      BY IndexerConstants DEF Seqs
    <3>2. Ingest(batch, checkpointSeq, index, eventsSinceCheckpoint)
      BY <2>4 DEF replayFromCursor
    <3>3. /\ checkpointSeq' \in NumOrNone
          /\ index' \in [Uris -> SUBSET Seqs]
          /\ eventsSinceCheckpoint' \in 0..MaxCount
          /\ handled' \subseteq Seqs
      BY <3>1, <3>2, IngestType DEF TypeOK, NumOrNone
    <3> QED
      BY <2>4, <3>1, <3>3 DEF replayFromCursor, TypeOK, NumOrNone
  <2>5. ASSUME NEW q \in Seqs, NEW c \in Calls, ingestAndCheckpoint(c, q)
        PROVE  TypeOK'
    <3>1. Receive(q)
      BY <2>5 DEF ingestAndCheckpoint
    <3>2. saving' \in [Calls -> [cursor : NumOrNone, landed : BOOLEAN]]
      <4>1. checkpointSeq' \in NumOrNone
        BY <3>1, ReceiveType
      <4>2. CASE Save(c, checkpointSeq')
        BY <4>1, <4>2, SaveType
      <4>3. CASE UNCHANGED saving
        BY <4>3 DEF TypeOK, NumOrNone
      <4> QED
        BY <2>5, <4>2, <4>3 DEF ingestAndCheckpoint
    <3> QED
      BY <2>5, <3>1, <3>2, ReceiveType DEF ingestAndCheckpoint, TypeOK, NumOrNone
  <2>6. ASSUME NEW c \in Calls, saveCheckpoint(c) PROVE TypeOK'
    <3>1. saving' \in [Calls -> [cursor : NumOrNone, landed : BOOLEAN]]
      BY <2>6, SaveType DEF saveCheckpoint, TypeOK, NumOrNone
    <3> QED
      BY <2>6, <3>1 DEF saveCheckpoint, process, history, TypeOK, NumOrNone
  <2>7. ASSUME NEW c \in Calls, upsertCheckpoint(c) PROVE TypeOK'
    BY <2>7 DEF upsertCheckpoint, process, history, TypeOK
  <2>8. ASSUME NEW c \in Calls, saved(c) \/ saveFails(c) PROVE TypeOK'
    <3>1. 0 \in 0..MaxCount
      BY IndexerConstants
    <3>2. saving' \in [Calls -> [cursor : NumOrNone, landed : BOOLEAN]]
      <4>1. saving' = [saving EXCEPT ![c] = Idle]
        BY <2>8 DEF saved, saveFails
      <4>2. Idle \in [cursor : NumOrNone, landed : BOOLEAN]
        BY DEF Idle, NumOrNone
      <4> QED
        BY <4>1, <4>2 DEF TypeOK, NumOrNone
    <3>3. eventsSinceCheckpoint' \in 0..MaxCount
      BY <2>8, <3>1 DEF saved, saveFails, process, TypeOK
    <3> QED
      BY <2>8, <3>2, <3>3
      DEF saved, saveFails, process, history, TypeOK, NumOrNone
  <2>9. CASE restart
    <3>1. 0 \in 0..MaxCount
      BY IndexerConstants
    <3> QED
      BY <2>9, <3>1 DEF restart, TypeOK, Idle
  <2> QED
    BY <2>1, <2>2, <2>3, <2>4, <2>5, <2>6, <2>7, <2>8, <2>9 DEF Next
<1> QED
  BY <1>1, <1>2, PTL DEF Spec
-----------------------------------------------------------------------------
(* No event is skipped *)

\* Every event up to c was handed to some process.
Covered(c) == \A q \in Seqs : q <= c => q \in handled

\* It is not enough that the row's cursor is covered: so are the numbers it
\* will be given, and the places from which reading goes on.
SkipInv ==
    /\ Covered(cursor)
    /\ \A c \in Calls : Covered(saving[c].cursor)
    /\ Covered(checkpointSeq)
    /\ Covered(position)
    /\ Covered(resume)

\* Nothing is before the first event.
LEMMA NoneCovered == Covered(NoSeq)
BY DEF Covered, Seqs, NoSeq

\* What is covered stays so, and ingest covers the consumer's new cursor when
\* it covers the end of the batch.
LEMMA IngestCovers ==
    ASSUME TypeOK, NEW q \in Seqs, NEW batch \in SUBSET (0..q),
           NEW base \in NumOrNone, NEW old, NEW count,
           Ingest(batch, base, old, count),
           Covered(base), \A r \in (0..q) \ batch : r \in handled
    PROVE  /\ \A c : Covered(c) => Covered(c)'
           /\ Covered(q)'
           /\ Covered(checkpointSeq)'
<1>1. handled' = handled \union batch
  BY DEF Ingest
<1>2. \A c : Covered(c) => Covered(c)'
  BY <1>1 DEF Covered
<1>3. \A r \in Seqs : r <= q => r \in handled'
  BY <1>1, IndexerConstants DEF Seqs
<1>4. checkpointSeq' = base \/ checkpointSeq' \in batch
  BY DEF Ingest, normalized
<1>5. ASSUME checkpointSeq' = base PROVE Covered(checkpointSeq)'
  BY <1>1, <1>5 DEF Covered
<1>6. ASSUME checkpointSeq' \in batch PROVE Covered(checkpointSeq)'
  <2>1. checkpointSeq' \in Int /\ checkpointSeq' <= q
    BY <1>6, IndexerConstants DEF Seqs
  <2> QED
    BY <1>3, <2>1, IndexerConstants DEF Covered, Seqs
<1>7. Covered(q)'
  BY <1>3 DEF Covered
<1> QED
  BY <1>2, <1>4, <1>5, <1>6, <1>7

\* Receiving up to q covers q, when the stream's position was covered.
LEMMA ReceiveCovers ==
    ASSUME TypeOK, SkipInv, NEW q \in Seqs, Receive(q)
    PROVE  /\ \A c : Covered(c) => Covered(c)'
           /\ Covered(position)'
           /\ Covered(checkpointSeq)'
<1>1. (position + 1)..q \in SUBSET (0..q)
  BY IndexerConstants DEF TypeOK, Seqs, NoSeq
<1>2. \A r \in (0..q) \ ((position + 1)..q) : r \in handled
  BY IndexerConstants DEF SkipInv, Covered, TypeOK, Seqs, NoSeq
<1>3. Ingest((position + 1)..q, checkpointSeq, index, eventsSinceCheckpoint)
      /\ position' = q
  BY DEF Receive
<1>4. checkpointSeq \in NumOrNone /\ Covered(checkpointSeq)
  BY DEF TypeOK, NumOrNone, SkipInv
<1>5. /\ \A c : Covered(c) => Covered(c)'
      /\ Covered(q)'
      /\ Covered(checkpointSeq)'
  BY <1>1, <1>2, <1>3, <1>4, IngestCovers
<1>6. Covered(position)'
  BY <1>3, <1>5 DEF Covered
<1> QED
  BY <1>5, <1>6

\* Reading goes on from places before which nothing is missing.
LEMMA SkipInvariant == Spec => []SkipInv
<1>1. Init => SkipInv
  BY NoneCovered DEF Init, SkipInv, Idle
<1>2. TypeOK /\ SkipInv /\ [Next]_vars => SkipInv'
  <2> SUFFICES ASSUME TypeOK, SkipInv, [Next]_vars PROVE SkipInv'
    OBVIOUS
  <2>1. CASE UNCHANGED vars
    BY <2>1 DEF vars, process, history, SkipInv, Covered
  <2>2. ASSUME NEW q \in Seqs, ingest(q) PROVE SkipInv'
    <3>1. Receive(q)
      BY <2>2 DEF ingest
    <3>2. /\ \A c : Covered(c) => Covered(c)'
          /\ Covered(position)' /\ Covered(checkpointSeq)'
      BY <3>1, ReceiveCovers
    <3> QED
      BY <2>2, <3>2 DEF ingest, SkipInv, Covered
  <2>3. ASSUME NEW q \in Seqs, replay(q) PROVE SkipInv'
    <3>1. Ingest(0..q, NoSeq, [u \in Uris |-> {}], 0)
      BY <2>3 DEF replay
    <3>2. /\ \A c : Covered(c) => Covered(c)'
          /\ Covered(q)' /\ Covered(checkpointSeq)'
      BY <3>1, NoneCovered, IngestCovers DEF NumOrNone
    <3> QED
      BY <2>3, <3>2 DEF replay, SkipInv, Covered
  <2>4. ASSUME NEW q \in Seqs, replayFromCursor(q) PROVE SkipInv'
    <3> DEFINE batch == {r \in 0..q : r > resume}
    <3>1. Ingest(batch, checkpointSeq, index, eventsSinceCheckpoint)
      BY <2>4 DEF replayFromCursor
    <3>2. \A r \in (0..q) \ batch : r \in handled
      BY IndexerConstants DEF SkipInv, Covered, TypeOK, Seqs, NoSeq
    <3>3. checkpointSeq \in NumOrNone /\ Covered(checkpointSeq)
      BY DEF TypeOK, NumOrNone, SkipInv
    <3>4. /\ \A c : Covered(c) => Covered(c)'
          /\ Covered(q)' /\ Covered(checkpointSeq)'
      BY <3>1, <3>2, <3>3, IngestCovers
    <3> QED
      BY <2>4, <3>4 DEF replayFromCursor, SkipInv, Covered
  <2>5. ASSUME NEW q \in Seqs, NEW c \in Calls, ingestAndCheckpoint(c, q)
        PROVE  SkipInv'
    <3>1. Receive(q)
      BY <2>5 DEF ingestAndCheckpoint
    <3>2. /\ \A d : Covered(d) => Covered(d)'
          /\ Covered(position)' /\ Covered(checkpointSeq)'
      BY <3>1, ReceiveCovers
    <3>3. \A d \in Calls : \/ saving'[d] = saving[d]
                            \/ saving'[d].cursor = checkpointSeq'
      BY <2>5 DEF ingestAndCheckpoint, Save, TypeOK
    <3>4. (\A d \in Calls : Covered(saving[d].cursor))'
      BY <3>2, <3>3 DEF SkipInv, Covered
    <3> QED
      BY <2>5, <3>2, <3>4 DEF ingestAndCheckpoint, SkipInv, Covered
  <2>6. ASSUME NEW c \in Calls, saveCheckpoint(c) PROVE SkipInv'
    <3>1. \A d \in Calls : \/ saving'[d] = saving[d]
                            \/ saving'[d].cursor = checkpointSeq
      BY <2>6 DEF saveCheckpoint, Save, TypeOK
    <3> QED
      BY <2>6, <3>1
      DEF saveCheckpoint, process, history, SkipInv, Covered
  <2>7. ASSUME NEW c \in Calls, upsertCheckpoint(c) PROVE SkipInv'
    <3>1. \A d \in Calls : saving'[d].cursor = saving[d].cursor
      BY <2>7 DEF upsertCheckpoint, TypeOK
    <3> QED
      BY <2>7, <3>1
      DEF upsertCheckpoint, process, history, SkipInv, Covered
  <2>8. ASSUME NEW c \in Calls, saved(c) \/ saveFails(c) PROVE SkipInv'
    <3>1. \A d \in Calls : \/ saving'[d] = saving[d]
                            \/ saving'[d].cursor = NoSeq
      BY <2>8 DEF saved, saveFails, TypeOK, Idle
    <3> QED
      BY <2>8, <3>1, NoneCovered
      DEF saved, saveFails, process, history, SkipInv, Covered
  <2>9. CASE restart
    BY <2>9, NoneCovered DEF restart, SkipInv, Covered, Idle
  <2> QED
    BY <2>1, <2>2, <2>3, <2>4, <2>5, <2>6, <2>7, <2>8, <2>9 DEF Next
<1> QED
  BY <1>1, <1>2, TypeCorrect, PTL DEF Spec

\* No restart, failure or order of saves makes the indexer pass over an event:
\* what is behind the persisted cursor was handed to some process.
THEOREM CursorSound == Spec => []NothingSkipped
<1>1. SkipInv => NothingSkipped
  BY DEF SkipInv, Covered, NothingSkipped
<1> QED
  BY <1>1, SkipInvariant, PTL

-----------------------------------------------------------------------------
(* The index *)

\* The events this index read since the place replayFromCursor goes back to.
Again == {q \in seen : resume < q /\ q <= position}

\* replayFromCursor may put the index behind what it once held: it is right
\* about the events of Again, and about the rest once the stream is past
\* every event it read on that record.
IndexInv ==
    /\ \A u \in Uris :
          /\ On(Again, u) # {} => index[u] = Left(Again, u)
          /\ (/\ On(Again, u) = {}
              /\ \A q \in On(seen, u) : q <= position)
             => index[u] = Left(seen, u)
    /\ \A q \in seen : q <= resume => q <= position

\* The latest number is not among those below some others.
LEMMA LatestOfUpper ==
    ASSUME NEW S \in SUBSET Int, NEW T \in SUBSET S, T # {},
           \A x \in S \ T : \A y \in T : x < y
    PROVE  Latest(S) = Latest(T)
<1>1. PICK t \in T : TRUE
  OBVIOUS
<1>2. ASSUME NEW x \in Latest(S) PROVE x \in Latest(T)
  <2>1. x \in S /\ (\A y \in S : y <= x) /\ x \in Int /\ t \in Int
    BY DEF Latest
  <2>2. x \in T
    BY <1>1, <2>1
  <2> QED
    BY <2>1, <2>2 DEF Latest
<1>3. ASSUME NEW x \in Latest(T) PROVE x \in Latest(S)
  <2>1. x \in T /\ (\A y \in T : y <= x) /\ x \in Int
    BY DEF Latest
  <2>2. \A y \in S : y <= x
    BY <2>1
  <2> QED
    BY <2>1, <2>2 DEF Latest
<1> QED
  BY <1>2, <1>3

LEMMA OnIsSubset ==
    ASSUME NEW S, NEW u PROVE On(S, u) \subseteq S
BY DEF On

\* A step that leaves the stream's content alone keeps the invariant if it
\* holds of the new sets.
LEMMA IndexInvNext ==
    ASSUME firehose' = firehose, NEW S, NEW A, seen' = S, Again' = A,
           \A u \in Uris : On(A, u) # {} => index'[u] = Left(A, u),
           \A u \in Uris : On(A, u) = {} /\ (\A q \in On(S, u) : q <= position')
                            => index'[u] = Left(S, u),
           \A q \in S : q <= resume' => q <= position'
    PROVE  IndexInv'
<1>1. \A u \in Uris : /\ On(Again, u)' = On(A, u)
                      /\ On(seen, u)' = On(S, u)
  BY DEF On
<1>2. \A u \in Uris : /\ Left(Again, u)' = Left(A, u)
                      /\ Left(seen, u)' = Left(S, u)
  BY <1>1 DEF Left, Latest
<1> QED
  BY <1>1, <1>2 DEF IndexInv

LEMMA IndexInvSuffices ==
    ASSUME TypeOK, IndexInv PROVE IndexMatchesStream
<1> SUFFICES ASSUME \A q \in seen : q <= position, NEW u \in Uris
             PROVE  index[u] = Left(seen, u)
  BY DEF IndexMatchesStream
<1>1. \A q \in On(seen, u) : q \in seen
  BY DEF On
<1>2. CASE On(Again, u) = {}
  BY <1>1, <1>2 DEF IndexInv
<1>3. CASE On(Again, u) # {}
  <2>1. Latest(On(seen, u)) = Latest(On(Again, u))
    <3>1. /\ seen \in SUBSET Int /\ position \in Int /\ resume \in Int
          /\ \A q \in Again : resume < q
          /\ \A q \in seen \ Again : q <= resume
      BY IndexerConstants DEF TypeOK, Seqs, NoSeq, Again
    <3>2. /\ On(seen, u) \in SUBSET Int
          /\ On(Again, u) \in SUBSET On(seen, u)
          /\ On(Again, u) \subseteq Again
          /\ On(seen, u) \ On(Again, u) \subseteq seen \ Again
      BY <3>1 DEF On, Again
    <3>3. \A x \in On(seen, u) \ On(Again, u) : \A y \in On(Again, u) : x < y
      BY <3>1, <3>2
    <3> QED
      BY <1>3, <3>2, <3>3, LatestOfUpper
  <2> QED
    BY <1>3, <2>1 DEF IndexInv, Left
<1> QED
  BY <1>2, <1>3

\* Reading on from the stream's position.
LEMMA ReceiveIndex ==
    ASSUME TypeOK, IndexInv, NEW q \in Seqs, Receive(q),
           firehose' = firehose, resume' = resume
    PROVE  IndexInv'
<1> DEFINE batch == (position + 1)..q
<1>1. /\ position' = q /\ position <= q
      /\ seen' = seen \union batch
      /\ \A u \in Uris : index'[u] = IF On(batch, u) = {} THEN index[u]
                                                         ELSE Left(batch, u)
  BY DEF Receive, Ingest, applyEvents
<1>2. /\ position \in Int /\ q \in Int /\ resume \in Int
      /\ \A r \in seen : r \in Int
      /\ \A r \in batch : r \in Int /\ position < r /\ r <= q
      /\ \A r \in Int : position < r /\ r <= q => r \in batch
  BY IndexerConstants DEF TypeOK, Seqs, NoSeq
<1> HIDE DEF batch
<1> DEFINE S == seen \union batch
           A == {r \in S : resume < r /\ r <= q}
<1>3. seen' = S /\ Again' = A
  BY <1>1 DEF Again
<1>4. ASSUME NEW u \in Uris, On(A, u) # {} PROVE index'[u] = Left(A, u)
  <2>1. CASE On(batch, u) = {}
    <3>1. On(A, u) = On(Again, u)
      <4>1. \A x \in On(A, u) : x \in seen /\ x \notin batch
        BY <2>1 DEF On
      <4>2. \A x \in On(A, u) : x \in Again
        BY <1>2, <4>1 DEF On, Again
      <4>3. \A x \in On(Again, u) : x \in A
        BY <1>1, <1>2 DEF On, Again
      <4> QED
        BY <4>2, <4>3 DEF On
    <3> QED
      BY <1>1, <1>4, <2>1, <3>1 DEF IndexInv, Left
  <2>2. CASE On(batch, u) # {}
    <3> DEFINE T == {r \in On(batch, u) : resume < r}
    <3>1. T # {}
      <4>1. PICK a \in On(A, u) : TRUE
        BY <1>4
      <4>2. PICK b \in On(batch, u) : TRUE
        BY <2>2
      <4>3. a \in On(batch, u) \/ (a <= position /\ a \in Int)
        BY <1>2, <4>1 DEF On
      <4>4. resume < a /\ b \in batch
        BY <4>1, <4>2 DEF On
      <4> QED
        BY <1>2, <4>2, <4>3, <4>4
    <3>2. /\ On(batch, u) \in SUBSET Int /\ On(A, u) \in SUBSET Int
          /\ T \in SUBSET On(batch, u) /\ T \in SUBSET On(A, u)
      BY <1>2 DEF On
    <3>3. Latest(On(batch, u)) = Latest(T)
      <4>1. \A x \in On(batch, u) \ T : \A y \in T : x < y
        BY <1>2, <3>2
      <4> QED
        BY <3>1, <3>2, <4>1, LatestOfUpper
    <3>4. Latest(On(A, u)) = Latest(T)
      <4>1. \A x \in On(A, u) \ T : x <= position
        BY <1>2 DEF On
      <4>2. \A y \in T : position < y
        BY <1>2 DEF On
      <4>3. \A x \in On(A, u) \ T : \A y \in T : x < y
        BY <1>2, <3>2, <4>1, <4>2
      <4> QED
        BY <3>1, <3>2, <4>3, LatestOfUpper
    <3> QED
      BY <1>1, <2>2, <3>3, <3>4 DEF Left
  <2> QED
    BY <2>1, <2>2
<1>5. ASSUME NEW u \in Uris, On(A, u) = {}, \A r \in On(S, u) : r <= q
      PROVE  index'[u] = Left(S, u)
  <2>1. CASE On(batch, u) = {}
    <3>1. On(S, u) = On(seen, u) /\ On(Again, u) = {}
      BY <1>1, <1>2, <1>5, <2>1 DEF On, Again
    <3>2. \A r \in On(seen, u) : r <= position
      BY <1>2, <1>5, <2>1, <3>1 DEF On
    <3> QED
      BY <1>1, <2>1, <3>1, <3>2 DEF IndexInv, Left
  <2>2. CASE On(batch, u) # {}
    <3>1. /\ On(S, u) \in SUBSET Int /\ On(batch, u) \in SUBSET On(S, u)
          /\ \A y \in On(batch, u) : position < y
      BY <1>2 DEF On
    <3>2. \A x \in On(S, u) \ On(batch, u) : x <= position
      <4>1. \A x \in On(S, u) \ On(batch, u) : /\ x \in seen
                                              /\ x \notin batch
                                              /\ x <= q
        BY <1>5 DEF On
      <4> QED
        BY <1>2, <4>1
    <3>3. \A x \in On(S, u) \ On(batch, u) : \A y \in On(batch, u) : x < y
      BY <1>2, <3>1, <3>2
    <3>4. Latest(On(S, u)) = Latest(On(batch, u))
      BY <2>2, <3>1, <3>3, LatestOfUpper
    <3> QED
      BY <1>1, <2>2, <3>4 DEF Left
  <2> QED
    BY <2>1, <2>2
<1>6. \A r \in S : r <= resume => r <= q
  BY <1>1, <1>2 DEF IndexInv
<1> HIDE DEF S, A
<1>7. \A u \in Uris : On(A, u) = {} /\ (\A r \in On(S, u) : r <= position')
                        => index'[u] = Left(S, u)
  BY <1>1, <1>5
<1>8. \A r \in S : r <= resume' => r <= position'
  BY <1>1, <1>6
<1> QED
  BY <1>3, <1>4, <1>7, <1>8, IndexInvNext

\* A step that leaves index, stream and position alone.
LEMMA IndexUntouched ==
    ASSUME IndexInv,
           UNCHANGED <<firehose, position, resume, index, seen>>
    PROVE  IndexInv'
BY DEF IndexInv, Again, On, Left, Latest

\* Rebuilding the index from the events up to q.
LEMMA ReplayIndex ==
    ASSUME TypeOK, NEW q \in Seqs, replay(q) PROVE IndexInv'
<1> DEFINE S == 0..q
           A == {r \in S : resume < r /\ r <= q}
<1>1. /\ position' = q /\ resume' = resume /\ firehose' = firehose
      /\ seen' = S
      /\ \A u \in Uris : index'[u] = IF On(S, u) = {} THEN {}
                                                     ELSE Left(S, u)
  BY DEF replay, Ingest, applyEvents
<1>2. /\ S \in SUBSET Int /\ resume \in Int
      /\ \A r \in S : r <= q
  BY IndexerConstants DEF TypeOK, Seqs, NoSeq
<1> HIDE DEF S
<1>3. Again' = A
  BY <1>1 DEF Again
<1>4. ASSUME NEW u \in Uris, On(A, u) # {} PROVE index'[u] = Left(A, u)
  <2>1. /\ On(S, u) \in SUBSET Int /\ On(A, u) \in SUBSET On(S, u)
        /\ \A x \in On(S, u) \ On(A, u) : x <= resume
        /\ \A y \in On(A, u) : resume < y
    <3>1. On(S, u) \in SUBSET Int /\ On(A, u) \in SUBSET On(S, u)
      BY <1>2 DEF On
    <3>2. \A x \in On(S, u) \ On(A, u) : x \in S /\ x \notin A
      BY DEF On
    <3>3. \A x \in On(S, u) \ On(A, u) : x <= resume
      <4> SUFFICES ASSUME NEW x \in S, x \notin A PROVE x <= resume
        BY <3>2
      <4>1. x \in Int /\ x <= q /\ q \in Int
        BY <1>2, IndexerConstants DEF Seqs
      <4> QED
        BY <1>2, <4>1
    <3>4. \A y \in On(A, u) : resume < y
      BY DEF On
    <3> QED
      BY <3>1, <3>3, <3>4
  <2>2. \A x \in On(S, u) \ On(A, u) : \A y \in On(A, u) : x < y
    BY <1>2, <2>1
  <2>3. Latest(On(S, u)) = Latest(On(A, u))
    BY <1>4, <2>1, <2>2, LatestOfUpper
  <2> QED
    BY <1>1, <1>4, <2>1, <2>3 DEF Left
<1>5. \A u \in Uris : On(S, u) = {} => Left(S, u) = {}
  BY DEF Left, Latest
<1>6. \A r \in S : r <= resume' => r <= position'
  BY <1>1, <1>2
<1> HIDE DEF A
<1> QED
  BY <1>1, <1>3, <1>4, <1>5, <1>6, IndexInvNext

\* Reading the events between the cursor and q once more.
LEMMA ReplayFromCursorIndex ==
    ASSUME TypeOK, IndexInv, NEW q \in Seqs, replayFromCursor(q)
    PROVE  IndexInv'
<1> DEFINE batch == {r \in 0..q : r > resume}
           S == seen \union batch
<1>1. /\ position' = q /\ resume' = resume /\ firehose' = firehose
      /\ batch # {}
      /\ seen' = S
      /\ \A u \in Uris : index'[u] = IF On(batch, u) = {} THEN index[u]
                                                         ELSE Left(batch, u)
  BY DEF replayFromCursor, Ingest, applyEvents
<1>2. /\ position \in Int /\ q \in Int /\ resume \in Int
      /\ seen \in SUBSET Int
      /\ \A r \in batch : r \in Int /\ resume < r /\ r <= q
      /\ \A r \in seen : resume < r /\ r <= q => r \in batch
      /\ resume <= q
  BY <1>1, IndexerConstants DEF TypeOK, Seqs, NoSeq
<1> HIDE DEF batch
<1>3. Again' = batch
  BY <1>1, <1>2 DEF Again
<1>4. \A u \in Uris : On(batch, u) # {} => index'[u] = Left(batch, u)
  BY <1>1
<1>5. ASSUME NEW u \in Uris, On(batch, u) = {}, \A r \in On(S, u) : r <= q
      PROVE  index'[u] = Left(S, u)
  <2>1. On(S, u) = On(seen, u)
    BY <1>5 DEF On
  <2>2. \A r \in On(seen, u) : r \in seen /\ r \notin batch /\ r <= q
    BY <1>5, <2>1 DEF On
  <2>3. \A r \in On(seen, u) : r <= resume /\ r <= position
    <3>1. \A r \in seen : r <= resume => r <= position
      BY DEF IndexInv
    <3>2. \A r \in On(seen, u) : r \in Int /\ ~(resume < r)
      BY <1>2, <2>2
    <3> QED
      BY <1>2, <2>2, <3>1, <3>2
  <2>4. On(Again, u) = {}
    <3>1. \A r \in On(Again, u) : r \in On(seen, u) /\ resume < r
      BY DEF On, Again
    <3> QED
      BY <1>2, <2>2, <2>3, <3>1
  <2> QED
    BY <1>1, <1>5, <2>1, <2>3, <2>4 DEF IndexInv, Left
<1>6. \A r \in S : r <= resume' => r <= position'
  BY <1>1, <1>2
<1> HIDE DEF S
<1>7. \A u \in Uris : On(batch, u) = {} /\ (\A r \in On(S, u) : r <= position')
                        => index'[u] = Left(S, u)
  BY <1>1, <1>5
<1> QED
  BY <1>1, <1>3, <1>4, <1>6, <1>7, IndexInvNext

\* Once the stream has caught up with all the index read, the index is what
\* the events say, however often they came and wherever reading resumed.
THEOREM IndexCorrect == Spec => []IndexMatchesStream
<1>1. Init => IndexInv
  BY DEF Init, IndexInv, Again, On, Left, Latest
<1>2. TypeOK /\ IndexInv /\ [Next]_vars => IndexInv'
  <2> SUFFICES ASSUME TypeOK, IndexInv, [Next]_vars PROVE IndexInv'
    OBVIOUS
  <2>1. CASE UNCHANGED vars
    BY <2>1, IndexUntouched DEF vars, process, history
  <2>2. ASSUME NEW q \in Seqs, ingest(q) PROVE IndexInv'
    BY <2>2, ReceiveIndex DEF ingest
  <2>3. ASSUME NEW q \in Seqs, replay(q) PROVE IndexInv'
    BY <2>3, ReplayIndex
  <2>4. ASSUME NEW q \in Seqs, replayFromCursor(q) PROVE IndexInv'
    BY <2>4, ReplayFromCursorIndex
  <2>5. ASSUME NEW q \in Seqs, NEW c \in Calls, ingestAndCheckpoint(c, q)
        PROVE  IndexInv'
    BY <2>5, ReceiveIndex DEF ingestAndCheckpoint
  <2>6. ASSUME NEW c \in Calls,
               saveCheckpoint(c) \/ upsertCheckpoint(c) \/ saved(c) \/ saveFails(c)
        PROVE  IndexInv'
    BY <2>6, IndexUntouched
    DEF saveCheckpoint, upsertCheckpoint, saved, saveFails, process, history
  <2>7. CASE restart
    BY <2>7 DEF restart, IndexInv, Again, On, Left, Latest
  <2> QED
    BY <2>1, <2>2, <2>3, <2>4, <2>5, <2>6, <2>7 DEF Next
<1>3. TypeOK /\ IndexInv => IndexMatchesStream
  BY IndexInvSuffices
<1> QED
  BY <1>1, <1>2, <1>3, TypeCorrect, PTL DEF Spec

-----------------------------------------------------------------------------
(* The cursor *)

\* With one call at a time, a call in flight carries the consumer's own
\* number, and a consumer that read nothing yet is where the row is.
SeqInv ==
    /\ resume <= position
    /\ checkpointSeq = NoSeq => cursor = resume
    /\ checkpointSeq # NoSeq => cursor <= checkpointSeq
    /\ \A c \in Calls : saving[c] # Idle =>
          checkpointSeq # NoSeq /\ saving[c].cursor = checkpointSeq

\* Ingesting only events after the position the process booted at.
LEMMA IngestAhead ==
    ASSUME TypeOK, SeqInv, NEW batch \in SUBSET Seqs, NEW old, NEW count,
           Ingest(batch, checkpointSeq, old, count),
           \A r \in batch : resume < r
    PROVE  /\ checkpointSeq' = NoSeq => cursor = resume
           /\ checkpointSeq' # NoSeq => cursor <= checkpointSeq'
<1>1. /\ checkpointSeq' = checkpointSeq \/ checkpointSeq' \in batch
      /\ checkpointSeq <= checkpointSeq'
  BY DEF Ingest, normalized
<1>2. /\ cursor \in Int /\ resume \in Int /\ checkpointSeq \in Int
      /\ batch \in SUBSET Nat
  BY IndexerConstants DEF TypeOK, Seqs, NoSeq
<1>3. CASE checkpointSeq' = checkpointSeq
  BY <1>3 DEF SeqInv
<1>4. CASE checkpointSeq' \in batch
  <2>1. checkpointSeq' \in Nat /\ resume < checkpointSeq'
    BY <1>2, <1>4
  <2> QED
    BY <1>1, <1>2, <2>1 DEF SeqInv, NoSeq
<1> QED
  BY <1>1, <1>3, <1>4

LEMMA ReceiveAhead ==
    ASSUME TypeOK, SeqInv, NEW q \in Seqs, Receive(q)
    PROVE  /\ checkpointSeq' = NoSeq => cursor = resume
           /\ checkpointSeq' # NoSeq => cursor <= checkpointSeq'
           /\ resume <= position'
<1>1. (position + 1)..q \in SUBSET Seqs
  BY ReceiveType
<1>2. \A r \in (position + 1)..q : resume < r
  BY IndexerConstants DEF SeqInv, TypeOK, Seqs, NoSeq
<1>3. /\ Ingest((position + 1)..q, checkpointSeq, index, eventsSinceCheckpoint)
      /\ position' = q /\ position <= q
  BY DEF Receive
<1>4. resume <= position'
  BY <1>3, IndexerConstants DEF SeqInv, TypeOK, Seqs, NoSeq
<1> QED
  BY <1>1, <1>2, <1>3, <1>4, IngestAhead

LEMMA SeqStep ==
    ASSUME ~Overlap, ~Replays, TypeOK, SeqInv, [Next]_vars
    PROVE  SeqInv' /\ [cursor' >= cursor]_cursor
<1>1. CASE UNCHANGED vars
  BY <1>1 DEF vars, process, history, SeqInv
<1>2. ASSUME NEW q \in Seqs, ingest(q)
      PROVE  SeqInv' /\ [cursor' >= cursor]_cursor
  <2>1. Receive(q) /\ UNCHANGED <<resume, saving, cursor>>
    BY <1>2 DEF ingest
  <2>2. \A c \in Calls : saving[c] = Idle
    BY <2>1 DEF Receive, Ready
  <2> QED
    BY <2>1, <2>2, ReceiveAhead DEF SeqInv
<1>3. ASSUME NEW q \in Seqs, replayFromCursor(q)
      PROVE  SeqInv' /\ [cursor' >= cursor]_cursor
  <2> DEFINE batch == {r \in 0..q : r > resume}
  <2>1. /\ Ingest(batch, checkpointSeq, index, eventsSinceCheckpoint)
        /\ UNCHANGED <<resume, saving, cursor>>
        /\ position' = q /\ batch # {}
        /\ \A c \in Calls : saving[c] = Idle
    BY <1>3 DEF replayFromCursor, Ready
  <2>2. batch \in SUBSET Seqs /\ \A r \in batch : resume < r
    BY IndexerConstants DEF TypeOK, Seqs, NoSeq
  <2>3. resume <= position'
    BY <2>1, IndexerConstants DEF TypeOK, Seqs, NoSeq
  <2>4. /\ checkpointSeq' = NoSeq => cursor = resume
        /\ checkpointSeq' # NoSeq => cursor <= checkpointSeq'
    BY <2>1, <2>2, IngestAhead
  <2> QED
    BY <2>1, <2>3, <2>4 DEF SeqInv
<1>4. ASSUME NEW q \in Seqs, NEW c \in Calls, ingestAndCheckpoint(c, q)
      PROVE  SeqInv' /\ [cursor' >= cursor]_cursor
  <2>1. Receive(q) /\ UNCHANGED <<resume, cursor>>
    BY <1>4 DEF ingestAndCheckpoint
  <2>2. \A d \in Calls : saving[d] = Idle
    BY <2>1 DEF Receive, Ready
  <2>3. \A d \in Calls : saving'[d] # Idle =>
            checkpointSeq' # NoSeq /\ saving'[d].cursor = checkpointSeq'
    BY <1>4, <2>2 DEF ingestAndCheckpoint, Save, TypeOK, NoSeq
  <2> QED
    BY <2>1, <2>3, ReceiveAhead DEF SeqInv
<1>5. ASSUME NEW c \in Calls, saveCheckpoint(c)
      PROVE  SeqInv' /\ [cursor' >= cursor]_cursor
  <2>1. /\ UNCHANGED <<position, resume, checkpointSeq, cursor>>
        /\ checkpointSeq # NoSeq
        /\ \A d \in Calls : saving[d] = Idle
    BY <1>5 DEF saveCheckpoint, Ready, process, NoSeq
  <2>2. \A d \in Calls : saving'[d] # Idle => saving'[d].cursor = checkpointSeq
    BY <1>5, <2>1 DEF saveCheckpoint, Save, TypeOK
  <2> QED
    BY <2>1, <2>2 DEF SeqInv
<1>6. ASSUME NEW c \in Calls, upsertCheckpoint(c)
      PROVE  SeqInv' /\ [cursor' >= cursor]_cursor
  <2>1. /\ UNCHANGED <<position, resume, checkpointSeq>>
        /\ checkpointSeq # NoSeq /\ cursor' = checkpointSeq
    BY <1>6 DEF upsertCheckpoint, process, SeqInv
  <2>2. \A d \in Calls : /\ saving'[d].cursor = saving[d].cursor
                         /\ saving'[d] # Idle => saving[d] # Idle
    BY <1>6 DEF upsertCheckpoint, TypeOK
  <2>3. checkpointSeq \in Int /\ cursor \in Int
    BY IndexerConstants DEF TypeOK, Seqs, NoSeq
  <2> QED
    BY <2>1, <2>2, <2>3 DEF SeqInv
<1>7. ASSUME NEW c \in Calls, saved(c) \/ saveFails(c)
      PROVE  SeqInv' /\ [cursor' >= cursor]_cursor
  <2>1. UNCHANGED <<position, resume, checkpointSeq, cursor>>
    BY <1>7 DEF saved, saveFails, process
  <2>2. saving' = [saving EXCEPT ![c] = Idle]
    BY <1>7 DEF saved, saveFails
  <2>3. \A d \in Calls : saving'[d] # Idle => saving'[d] = saving[d]
    BY <2>2 DEF TypeOK
  <2> QED
    BY <2>1, <2>3 DEF SeqInv
<1>8. CASE restart
  <2>1. cursor \in Int
    BY IndexerConstants DEF TypeOK, Seqs, NoSeq
  <2> QED
    BY <1>8, <2>1 DEF restart, SeqInv
<1>9. ASSUME NEW q \in Seqs, replay(q) PROVE FALSE
  BY <1>9 DEF replay
<1> QED
  BY <1>1, <1>2, <1>3, <1>4, <1>5, <1>6, <1>7, <1>8, <1>9 DEF Next

LEMMA SeqInvariant ==
    ASSUME ~Overlap, ~Replays PROVE Spec => []SeqInv
<1>1. Init => SeqInv
  BY DEF Init, SeqInv, NoSeq
<1>2. TypeOK /\ SeqInv /\ [Next]_vars => SeqInv'
  BY SeqStep
<1> QED
  BY <1>1, <1>2, TypeCorrect, PTL DEF Spec

\* A driver that awaits its calls and never calls replay() does not take the
\* cursor back, over any number of restarts and failed saves.
THEOREM SequentialCursor ==
    ASSUME ~Overlap, ~Replays PROVE Spec => CursorNeverBack
<1>1. TypeOK /\ SeqInv /\ [Next]_vars => [cursor' >= cursor]_cursor
  BY SeqStep
<1> QED
  BY <1>1, TypeCorrect, SeqInvariant, PTL DEF Spec, CursorNeverBack

-----------------------------------------------------------------------------
(* The stream's progress *)

\* Handing over what follows covered numbers, up to q, takes in all up to q.
LEMMA IngestTakes ==
    ASSUME NEW q \in Seqs, NEW batch \in SUBSET (0..q), NEW base, NEW old, NEW count,
           Ingest(batch, base, old, count),
           \A r \in (0..q) \ batch : r \in handled, UNCHANGED cursor
    PROVE  Progress!Take(q)
<1>1. handled' = handled \union 0..q
  BY DEF Ingest
<1> QED
  BY <1>1 DEF Progress!Take

LEMMA ReceiveTakes ==
    ASSUME TypeOK, SkipInv, NEW q \in Seqs, Receive(q), UNCHANGED cursor
    PROVE  Progress!Take(q)
<1>1. (position + 1)..q \in SUBSET (0..q)
  BY IndexerConstants DEF TypeOK, Seqs, NoSeq
<1>2. \A r \in (0..q) \ ((position + 1)..q) : r \in handled
  BY IndexerConstants DEF SkipInv, Covered, TypeOK, Seqs, NoSeq
<1>3. Ingest((position + 1)..q, checkpointSeq, index, eventsSinceCheckpoint)
  BY DEF Receive
<1> QED
  BY <1>1, <1>2, <1>3, IngestTakes

\* The row takes the number of a call that is on its way.
LEMMA UpsertSaves ==
    ASSUME TypeOK, SkipInv, ~Overlap /\ ~Replays => SeqInv,
           NEW c \in Calls, upsertCheckpoint(c)
    PROVE  \E q \in Seqs : Progress!Save(q)
<1>1. /\ cursor' = saving[c].cursor /\ UNCHANGED handled
      /\ saving[c] # Idle /\ saving[c].landed = FALSE
      /\ saving[c] \in [cursor : Seqs \union {NoSeq}, landed : BOOLEAN]
  BY DEF upsertCheckpoint, history, TypeOK
<1>2. saving[c].cursor # NoSeq
  BY <1>1 DEF Idle
<1>3. saving[c].cursor \in Seqs
  BY <1>1, <1>2
<1>4. 0..saving[c].cursor \subseteq handled
  BY <1>3, IndexerConstants DEF SkipInv, Covered, Seqs
<1>5. ~Overlap /\ ~Replays => cursor <= saving[c].cursor
  BY <1>1 DEF SeqInv
<1> QED
  BY <1>1, <1>3, <1>4, <1>5 DEF Progress!Save

\* Every step takes a stretch of the stream in, saves a number of one, or is
\* not seen in the progress.
LEMMA ProgressStep ==
    ASSUME TypeOK, SkipInv, ~Overlap /\ ~Replays => SeqInv, [Next]_vars
    PROVE  [Progress!Next]_<<handled, cursor>>
<1>1. ASSUME NEW q \in Seqs, ingest(q) PROVE Progress!Take(q)
  BY <1>1, ReceiveTakes DEF ingest
<1>2. ASSUME NEW q \in Seqs, NEW c \in Calls, ingestAndCheckpoint(c, q)
      PROVE  Progress!Take(q)
  BY <1>2, ReceiveTakes DEF ingestAndCheckpoint
<1>3. ASSUME NEW q \in Seqs, replay(q) PROVE Progress!Take(q)
  <2>1. Ingest(0..q, NoSeq, [u \in Uris |-> {}], 0) /\ UNCHANGED cursor
    BY <1>3 DEF replay
  <2> QED
    BY <2>1, IngestTakes
<1>4. ASSUME NEW q \in Seqs, replayFromCursor(q) PROVE Progress!Take(q)
  <2> DEFINE batch == {r \in 0..q : r > resume}
  <2>1. /\ Ingest(batch, checkpointSeq, index, eventsSinceCheckpoint)
        /\ UNCHANGED cursor
    BY <1>4 DEF replayFromCursor
  <2>2. \A r \in (0..q) \ batch : r \in handled
    BY IndexerConstants DEF SkipInv, Covered, TypeOK, Seqs, NoSeq
  <2>3. batch \in SUBSET (0..q)
    OBVIOUS
  <2> HIDE DEF batch
  <2> QED
    BY <2>1, <2>2, <2>3, IngestTakes
<1>5. ASSUME NEW c \in Calls, upsertCheckpoint(c)
      PROVE  \E q \in Seqs : Progress!Save(q)
  BY <1>5, UpsertSaves
<1>6. ASSUME NEW c \in Calls, saveCheckpoint(c) \/ saved(c) \/ saveFails(c)
      PROVE  UNCHANGED <<handled, cursor>>
  BY <1>6 DEF saveCheckpoint, saved, saveFails, process, history
<1>7. CASE restart
  BY <1>7 DEF restart
<1>8. CASE UNCHANGED vars
  BY <1>8 DEF vars, process, history
<1> QED
  BY <1>1, <1>2, <1>3, <1>4, <1>5, <1>6, <1>7, <1>8
  DEF Next, Progress!Next, Seqs

\* The indexer implements the stream's progress: whatever overlaps, fails or
\* restarts, the events taken in have no gap and the row never names one with
\* something missing before it; and the row only moves on if the driver awaits
\* its calls and never calls replay().
THEOREM ProgressRefinement == Spec => ProgressSpec
<1>1. Init => Progress!Init
  BY DEF Init, Progress!Init, NoSeq
<1>2. TypeOK /\ SkipInv /\ (~Overlap /\ ~Replays => SeqInv) /\ [Next]_vars
        => [Progress!Next]_<<handled, cursor>>
  BY ProgressStep
<1>3. CASE ~Overlap /\ ~Replays
  <2>1. Spec => []SeqInv
    BY <1>3, SeqInvariant
  <2>2. SeqInv => (~Overlap /\ ~Replays => SeqInv)
    OBVIOUS
  <2> QED
    BY <1>1, <1>2, <2>1, <2>2, TypeCorrect, SkipInvariant, PTL
    DEF Spec, ProgressSpec, Progress!Spec
<1>4. CASE ~(~Overlap /\ ~Replays)
  <2>1. TypeOK /\ SkipInv /\ [Next]_vars => [Progress!Next]_<<handled, cursor>>
    BY <1>2, <1>4
  <2> QED
    BY <1>1, <2>1, TypeCorrect, SkipInvariant, PTL
    DEF Spec, ProgressSpec, Progress!Spec
<1> QED
  BY <1>3, <1>4

-----------------------------------------------------------------------------
(* The counter *)

\* Every call in flight carries the number seq, and one that landed gave it to
\* the row.
Covers(calls, seq, row) ==
    \A c \in Calls : /\ calls[c] # Idle => calls[c].cursor = seq
                     /\ calls[c].landed = TRUE => row = seq

\* With one call at a time, what is in flight is the consumer's own number,
\* which is past all that was read, and a query that landed covers it.
CountInv ==
    /\ UnsavedAreCounted
    /\ \A q \in normalized(seen) : q <= checkpointSeq
    /\ Covers(saving, checkpointSeq, cursor)

LEMMA IdleCovers ==
    ASSUME NEW calls, NEW seq, NEW row, \A c \in Calls : calls[c] = Idle
    PROVE  Covers(calls, seq, row)
<1>1. Idle.landed = FALSE
  BY DEF Idle
<1> QED
  BY <1>1 DEF Covers

LEMMA SavedCovers ==
    ASSUME NEW calls, DOMAIN calls = Calls, \A d \in Calls : calls[d] = Idle,
           NEW c \in Calls, NEW seq, NEW row
    PROVE  Covers([calls EXCEPT ![c] = [cursor |-> seq, landed |-> FALSE]], seq, row)
BY DEF Covers, Idle

LEMMA IdledCovers ==
    ASSUME NEW calls, DOMAIN calls = Calls, NEW c \in Calls, NEW seq, NEW row,
           Covers(calls, seq, row)
    PROVE  Covers([calls EXCEPT ![c] = Idle], seq, row)
BY DEF Covers, Idle

\* A row at the consumer's number covers all that was read.
LEMMA AllCovered ==
    ASSUME TypeOK, \A q \in normalized(seen) : q <= checkpointSeq
    PROVE  Cardinality({q \in normalized(seen) : q > checkpointSeq}) = 0
<1>1. checkpointSeq \in Int
  BY IndexerConstants DEF TypeOK, Seqs, NoSeq
<1>2. \A q \in normalized(seen) : q \in Int
  <2>1. \A q \in normalized(seen) : q \in Seqs
    BY DEF normalized, TypeOK
  <2> QED
    BY <2>1, IndexerConstants DEF Seqs
<1>3. {q \in normalized(seen) : q > checkpointSeq} = {}
  BY <1>1, <1>2
<1> QED
  BY <1>3, FS_EmptySet

\* The events past a cursor of two batches are at most those of each.
LEMMA UncoveredSum ==
    ASSUME NEW S \in SUBSET Seqs, NEW T \in SUBSET Seqs, NEW row \in Int
    PROVE  /\ Cardinality({q \in S : q > row}) \in Nat
           /\ Cardinality(T) \in Nat
           /\ Cardinality({q \in S \union T : q > row})
                <= Cardinality({q \in S : q > row}) + Cardinality(T)
<1> DEFINE A == {q \in S : q > row}
           B == {q \in S \union T : q > row}
<1>1. IsFiniteSet(Seqs)
  BY FS_Interval, IndexerConstants DEF Seqs
<1>2. A \in SUBSET Seqs /\ B \in SUBSET (A \union T) /\ A \intersect T \in SUBSET Seqs
  OBVIOUS
<1> HIDE DEF A, B
<1>3. IsFiniteSet(A) /\ IsFiniteSet(T) /\ IsFiniteSet(A \intersect T)
  BY <1>1, <1>2, FS_Subset
<1>4. /\ Cardinality(A) \in Nat /\ Cardinality(T) \in Nat
      /\ Cardinality(A \intersect T) \in Nat
  BY <1>3, FS_CardinalityType
<1>5. /\ IsFiniteSet(A \union T)
      /\ Cardinality(A \union T)
           = Cardinality(A) + Cardinality(T) - Cardinality(A \intersect T)
  BY <1>3, FS_Union
<1>6. /\ Cardinality(B) <= Cardinality(A \union T)
      /\ Cardinality(A \union T) \in Nat /\ Cardinality(B) \in Nat
  BY <1>2, <1>5, FS_Subset, FS_CardinalityType
<1>7. Cardinality(B) <= Cardinality(A) + Cardinality(T)
  BY <1>4, <1>5, <1>6
<1> QED
  BY <1>4, <1>7 DEF A, B

\* Ingesting a batch into a consumer that read the events of S.
LEMMA IngestCounts ==
    ASSUME TypeOK, NEW batch \in SUBSET Seqs, NEW S \in SUBSET Seqs,
           NEW base \in NumOrNone, NEW old, NEW count \in Nat,
           Ingest(batch, base, old, count),
           \A q \in normalized(S) : q <= base,
           Cardinality({q \in normalized(S) : q > cursor}) <= count
    PROVE  /\ \A q \in normalized(S \union batch) : q <= checkpointSeq'
           /\ Cardinality({q \in normalized(S \union batch) : q > cursor})
                <= eventsSinceCheckpoint'
<1>1. normalized(S \union batch) = normalized(S) \union normalized(batch)
  BY DEF normalized
<1>2. /\ normalized(S) \in SUBSET Seqs /\ normalized(batch) \in SUBSET Seqs
      /\ cursor \in Int
  <2>1. normalized(S) \in SUBSET Seqs /\ normalized(batch) \in SUBSET Seqs
    BY DEF normalized
  <2>2. cursor \in Int
    BY IndexerConstants DEF TypeOK, Seqs, NoSeq
  <2> QED
    BY <2>1, <2>2
<1>3. /\ base <= checkpointSeq'
      /\ \A q \in normalized(batch) : q <= checkpointSeq'
      /\ eventsSinceCheckpoint' = count + Cardinality(normalized(batch))
  BY DEF Ingest
<1>4. checkpointSeq' \in Int /\ base \in Int /\ Seqs \subseteq Int
  BY IndexerConstants DEF Ingest, normalized, NumOrNone, Seqs, NoSeq
<1>5. \A q \in normalized(S \union batch) : q <= checkpointSeq'
  <2> SUFFICES ASSUME NEW q \in normalized(S) \union normalized(batch)
               PROVE  q <= checkpointSeq'
    BY <1>1
  <2>1. q \in Int
    BY <1>2, <1>4
  <2> QED
    BY <1>3, <1>4, <2>1
<1>6. /\ Cardinality({q \in normalized(S) : q > cursor}) \in Nat
      /\ Cardinality(normalized(batch)) \in Nat
      /\ Cardinality({q \in normalized(S) \union normalized(batch) : q > cursor})
           <= Cardinality({q \in normalized(S) : q > cursor})
                + Cardinality(normalized(batch))
  BY <1>2, UncoveredSum
<1>7. Cardinality({q \in normalized(S) \union normalized(batch) : q > cursor}) \in Nat
  <2>1. IsFiniteSet(Seqs)
    BY FS_Interval, IndexerConstants DEF Seqs
  <2> QED
    BY <1>2, <2>1, FS_Subset, FS_CardinalityType
<1>8. {q \in normalized(S \union batch) : q > cursor}
        = {q \in normalized(S) \union normalized(batch) : q > cursor}
  BY <1>1
<1>9. Cardinality({q \in normalized(S) \union normalized(batch) : q > cursor})
        <= eventsSinceCheckpoint'
  <2> DEFINE a == Cardinality({q \in normalized(S) : q > cursor})
             b == Cardinality(normalized(batch))
             d == Cardinality({q \in normalized(S) \union normalized(batch) :
                                 q > cursor})
  <2>1. /\ a \in Nat /\ b \in Nat /\ d \in Nat
        /\ d <= a + b /\ a <= count /\ eventsSinceCheckpoint' = count + b
    BY <1>3, <1>6, <1>7
  <2> HIDE DEF a, b, d
  <2>2. d <= eventsSinceCheckpoint'
    BY <2>1
  <2> QED
    BY <2>2 DEF d
<1> QED
  BY <1>5, <1>8, <1>9

\* A batch that continues what the consumer read keeps the count.
LEMMA GrowCounts ==
    ASSUME TypeOK, CountInv, NEW batch \in SUBSET Seqs,
           Ingest(batch, checkpointSeq, index, eventsSinceCheckpoint),
           seen' = seen \union batch, UNCHANGED <<firehose, cursor>>
    PROVE  /\ \A q \in normalized(seen)' : q <= checkpointSeq'
           /\ UnsavedAreCounted'
<1>1. /\ \A q \in normalized(seen \union batch) : q <= checkpointSeq'
      /\ Cardinality({q \in normalized(seen \union batch) : q > cursor})
           <= eventsSinceCheckpoint'
  BY IngestCounts DEF CountInv, UnsavedAreCounted, TypeOK, NumOrNone
<1>2. normalized(seen)' = normalized(seen \union batch)
  BY DEF normalized
<1> QED
  BY <1>1, <1>2 DEF UnsavedAreCounted

\* With a driver that awaits its calls, the events of this process that the
\* row does not cover are counted, over any number of replays, restarts and
\* failed saves (ingestAndCheckpoint, saveCheckpoint).
THEOREM SequentialCount ==
    ASSUME ~Overlap PROVE Spec => []UnsavedAreCounted
<1>1. Init => CountInv
  <2> SUFFICES ASSUME Init PROVE CountInv
    OBVIOUS
  <2>1. normalized(seen) = {} /\ {q \in normalized(seen) : q > cursor} = {}
    BY DEF Init, normalized
  <2>2. Cardinality({q \in normalized(seen) : q > cursor}) = 0
    BY <2>1, FS_EmptySet
  <2> QED
    BY <2>1, <2>2, IdleCovers DEF Init, CountInv, UnsavedAreCounted
<1>2. TypeOK /\ CountInv /\ [Next]_vars => CountInv'
  <2> SUFFICES ASSUME TypeOK, CountInv, [Next]_vars
               PROVE  CountInv'
    OBVIOUS
  <2>1. CASE UNCHANGED vars
    BY <2>1 DEF vars, process, history, CountInv, UnsavedAreCounted, normalized
  <2>2. ASSUME NEW q \in Seqs, ingest(q)
        PROVE  CountInv'
    <3>1. /\ (position + 1)..q \in SUBSET Seqs /\ Receive(q)
          /\ UNCHANGED <<firehose, saving, cursor>>
      BY <2>2, ReceiveType DEF ingest
    <3>2. /\ \A c \in Calls : saving[c] = Idle
          /\ seen' = seen \union (position + 1)..q
          /\ Ingest((position + 1)..q, checkpointSeq, index, eventsSinceCheckpoint)
      BY <3>1 DEF Receive, Ready
    <3>3. /\ \A r \in normalized(seen)' : r <= checkpointSeq'
          /\ UnsavedAreCounted'
      BY <3>1, <3>2, GrowCounts
    <3>4. Covers(saving', checkpointSeq', cursor')
      BY <3>1, <3>2, IdleCovers
    <3> QED
      BY <3>3, <3>4 DEF CountInv
  <2>3. ASSUME NEW q \in Seqs, replayFromCursor(q)
        PROVE  CountInv'
    <3> DEFINE batch == {r \in 0..q : r > resume}
    <3>1. /\ Ingest(batch, checkpointSeq, index, eventsSinceCheckpoint)
          /\ UNCHANGED <<firehose, saving, cursor>>
          /\ seen' = seen \union batch
          /\ \A c \in Calls : saving[c] = Idle
      BY <2>3 DEF replayFromCursor, Ready
    <3>2. batch \in SUBSET Seqs
      BY IndexerConstants DEF Seqs
    <3> HIDE DEF batch
    <3>3. /\ \A r \in normalized(seen)' : r <= checkpointSeq'
          /\ UnsavedAreCounted'
      BY <3>1, <3>2, GrowCounts
    <3>4. Covers(saving', checkpointSeq', cursor')
      BY <3>1, IdleCovers
    <3> QED
      BY <3>3, <3>4 DEF CountInv
  <2>4. ASSUME NEW q \in Seqs, NEW c \in Calls, ingestAndCheckpoint(c, q)
        PROVE  CountInv'
    <3>1. /\ (position + 1)..q \in SUBSET Seqs /\ Receive(q)
          /\ UNCHANGED <<firehose, cursor>>
      BY <2>4, ReceiveType DEF ingestAndCheckpoint
    <3>2. /\ \A d \in Calls : saving[d] = Idle
          /\ seen' = seen \union (position + 1)..q
          /\ Ingest((position + 1)..q, checkpointSeq, index, eventsSinceCheckpoint)
      BY <3>1 DEF Receive, Ready
    <3>3. /\ \A r \in normalized(seen)' : r <= checkpointSeq'
          /\ UnsavedAreCounted'
      BY <3>1, <3>2, GrowCounts
    <3>4. Covers(saving', checkpointSeq', cursor')
      <4>1. CASE saving' = saving
        BY <3>2, <4>1, IdleCovers
      <4>2. CASE Save(c, checkpointSeq')
        BY <3>2, <4>2, SavedCovers DEF Save, TypeOK
      <4> QED
        BY <2>4, <4>1, <4>2 DEF ingestAndCheckpoint
    <3> QED
      BY <3>3, <3>4 DEF CountInv
  <2>5. ASSUME NEW q \in Seqs, replay(q)
        PROVE  CountInv'
    <3>1. /\ Ingest(0..q, NoSeq, [u \in Uris |-> {}], 0)
          /\ UNCHANGED <<firehose, saving, cursor>>
          /\ seen' = {} \union 0..q
          /\ \A c \in Calls : saving[c] = Idle
      BY <2>5 DEF replay, Ready
    <3>2. 0..q \in SUBSET Seqs /\ {} \in SUBSET Seqs /\ NoSeq \in NumOrNone
      BY IndexerConstants DEF Seqs, NumOrNone
    <3>3. /\ \A r \in normalized({}) : r <= NoSeq
          /\ Cardinality({r \in normalized({}) : r > cursor}) <= 0
          /\ 0 \in Nat
      <4>1. normalized({}) = {}
        BY DEF normalized
      <4>2. {r \in normalized({}) : r > cursor} = {}
        BY <4>1
      <4> QED
        BY <4>1, <4>2, FS_EmptySet
    <3>4. /\ \A r \in normalized({} \union 0..q) : r <= checkpointSeq'
          /\ Cardinality({r \in normalized({} \union 0..q) : r > cursor})
               <= eventsSinceCheckpoint'
      BY <3>1, <3>2, <3>3, IngestCounts
    <3>5. normalized(seen)' = normalized({} \union 0..q)
      BY <3>1 DEF normalized
    <3>6. \A r \in normalized(seen)' : r <= checkpointSeq'
      BY <3>4, <3>5
    <3>7. {r \in normalized(seen) : r > cursor}'
            = {r \in normalized({} \union 0..q) : r > cursor}
      BY <3>1, <3>5
    <3>8. UnsavedAreCounted'
      BY <3>4, <3>7 DEF UnsavedAreCounted
    <3>9. Covers(saving', checkpointSeq', cursor')
      BY <3>1, IdleCovers
    <3> QED
      BY <3>6, <3>8, <3>9 DEF CountInv
  <2>6. ASSUME NEW c \in Calls, saveCheckpoint(c)
        PROVE  CountInv'
    <3>1. /\ UNCHANGED <<firehose, checkpointSeq, eventsSinceCheckpoint, cursor, seen>>
          /\ \A d \in Calls : saving[d] = Idle
      BY <2>6 DEF saveCheckpoint, Ready, process, history
    <3>2. Covers(saving', checkpointSeq', cursor')
      BY <2>6, <3>1, SavedCovers DEF saveCheckpoint, Save, TypeOK
    <3>3. UnsavedAreCounted' /\ \A q \in normalized(seen)' : q <= checkpointSeq'
      BY <3>1 DEF CountInv, UnsavedAreCounted, normalized
    <3> QED
      BY <3>2, <3>3 DEF CountInv
  <2>7. ASSUME NEW c \in Calls, upsertCheckpoint(c)
        PROVE  CountInv'
    <3>1. /\ UNCHANGED <<firehose, checkpointSeq, eventsSinceCheckpoint, seen>>
          /\ cursor' = checkpointSeq
      BY <2>7 DEF upsertCheckpoint, process, history, CountInv, Covers
    <3>2. Covers(saving', checkpointSeq', cursor')
      <4>1. \A d \in Calls : /\ saving'[d].cursor = saving[d].cursor
                             /\ saving'[d] # Idle => saving[d] # Idle
        BY <2>7 DEF upsertCheckpoint, TypeOK
      <4> QED
        BY <3>1, <4>1 DEF CountInv, Covers
    <3>3. normalized(seen)' = normalized(seen)
      BY <3>1 DEF normalized
    <3>4. \A q \in normalized(seen)' : q <= checkpointSeq'
      BY <3>1, <3>3 DEF CountInv
    <3>5. UnsavedAreCounted'
      BY <3>1, <3>3, AllCovered DEF CountInv, UnsavedAreCounted, TypeOK
    <3> QED
      BY <3>2, <3>4, <3>5 DEF CountInv
  <2>8. ASSUME NEW c \in Calls, saved(c)
        PROVE  CountInv'
    <3>1. /\ UNCHANGED <<firehose, checkpointSeq, cursor, seen>>
          /\ eventsSinceCheckpoint' = 0
          /\ saving' = [saving EXCEPT ![c] = Idle]
      BY <2>8 DEF saved, history
    <3>2. cursor = checkpointSeq
      BY <2>8 DEF saved, CountInv, Covers, TypeOK
    <3>3. Covers(saving', checkpointSeq', cursor')
      BY <3>1, IdledCovers DEF CountInv, TypeOK
    <3>4. normalized(seen)' = normalized(seen)
      BY <3>1 DEF normalized
    <3>5. \A q \in normalized(seen)' : q <= checkpointSeq'
      BY <3>1, <3>4 DEF CountInv
    <3>6. UnsavedAreCounted'
      BY <3>1, <3>2, <3>4, AllCovered DEF CountInv, UnsavedAreCounted, TypeOK
    <3> QED
      BY <3>3, <3>5, <3>6 DEF CountInv
  <2>9. ASSUME NEW c \in Calls, saveFails(c)
        PROVE  CountInv'
    <3>1. /\ UNCHANGED <<firehose, checkpointSeq, eventsSinceCheckpoint, cursor, seen>>
          /\ saving' = [saving EXCEPT ![c] = Idle]
      BY <2>9 DEF saveFails, process, history
    <3>2. Covers(saving', checkpointSeq', cursor')
      BY <3>1, IdledCovers DEF CountInv, TypeOK
    <3>3. UnsavedAreCounted' /\ \A q \in normalized(seen)' : q <= checkpointSeq'
      BY <3>1 DEF CountInv, UnsavedAreCounted, normalized
    <3> QED
      BY <3>2, <3>3 DEF CountInv
  <2>10. CASE restart
    <3>1. /\ seen' = {} /\ eventsSinceCheckpoint' = 0
          /\ \A c \in Calls : saving'[c] = Idle
      BY <2>10 DEF restart
    <3>2. normalized(seen)' = {}
      BY <3>1 DEF normalized
    <3>3. {q \in normalized(seen) : q > cursor}' = {}
      BY <3>2
    <3>4. UnsavedAreCounted'
      BY <3>1, <3>3, FS_EmptySet DEF UnsavedAreCounted
    <3>5. Covers(saving', checkpointSeq', cursor')
      BY <3>1, IdleCovers
    <3> QED
      BY <3>2, <3>4, <3>5 DEF CountInv
  <2> QED
    BY <2>1, <2>2, <2>3, <2>4, <2>5, <2>6, <2>7, <2>8, <2>9, <2>10 DEF Next
<1>3. CountInv => UnsavedAreCounted
  BY DEF CountInv
<1> QED
  BY <1>1, <1>2, <1>3, TypeCorrect, PTL DEF Spec
=============================================================================
