----------------------------- MODULE Discovery -----------------------------
(***************************************************************************)
(* Aid posts from their creation to the answers of the discovery queries:  *)
(* services/api/src/aid-post-service.ts, the event log of                  *)
(* services/api/src/db/discovery-events.ts, the queries of                 *)
(* services/api/src/query-service.ts and the in-memory index of            *)
(* packages/shared/src/discovery.ts.                                       *)
(*                                                                         *)
(* A record is what the index sorts it by: for every index the keys the    *)
(* record has there.  Distance, freshness and search text test a record    *)
(* alone; a query names the records that pass.  The score of a record is a *)
(* constant.                                                               *)
(***************************************************************************)
EXTENDS Null, Listing, Integers, Sequences, FiniteSets, SequencesExt

CONSTANTS
    Posts, Resources,   \* URIs of aid posts and of directory resources
    Submitted,          \* records the creations submit
    Records,            \* those and the records of the seed
    Score,              \* of each record
    Fixture,            \* the seed: events in the order of their numbers
    Creations,          \* creations that may be under way at once
    Postgres,           \* whether the data source is Postgres
    LastMs,             \* bound: the last millisecond
    MaxRestarts         \* bound: restarts of the server

Uris == Posts \union Resources

\* The filters of the aid queries and of the directory, and the two indexes
\* that no query reads.
Filterable == {"category", "status", "urgency"}
Index == Filterable \union {"geo", "text"}

Keys == UNION {r[i] : r \in Records, i \in Index}

Event == [seq : Int, uri : Uris, action : {"create", "update", "delete"},
          record : Records]

DiscoveryConstants ==
    /\ Uris \subseteq Nat
    /\ Submitted \subseteq Records
    /\ Score \in [Records -> Nat]
    /\ Postgres \in BOOLEAN
    /\ LastMs \in Nat \ {0} /\ MaxRestarts \in Nat
    /\ NULL \notin Records
    /\ IsFiniteSet(Uris)
    \* The numbers of the seed rise, and are smaller than any time.
    /\ Fixture \in Seq(Event)
    /\ \A k \in DOMAIN Fixture :
          /\ Fixture[k].seq < 1
          /\ \A j \in 1..(k - 1) : Fixture[j].seq < Fixture[k].seq

VARIABLES
    log,            \* rows of the table discovery_events
    records,        \* aidRecords and directoryRecords
    indexes,        \* the index maps of both
    creations,      \* each creation under way: its event and how far it is
    acknowledged,   \* posts answered with 201
    ms,             \* the clock
    restarts

discoveryVars == <<log, records, indexes, creations, acknowledged, ms, restarts>>

DiscoveryTypeOK ==
    /\ log \subseteq Event
    /\ records \in [Uris -> Records \union {NULL}]
    /\ indexes \in [Index -> [Keys -> SUBSET Uris]]
    /\ creations \in [Creations ->
          [event : Event, at : {"append", "apply"}] \union {NULL}]
    /\ acknowledged \subseteq Posts
    /\ ms \in 1..LastMs
    /\ restarts \in 0..MaxRestarts

-----------------------------------------------------------------------------
(* The index *)

Store == [records : [Uris -> Records \union {NULL}],
          index : [Index -> [Keys -> SUBSET Uris]]]

emptyStore == [records |-> [u \in Uris |-> NULL],
               index |-> [i \in Index |-> [k \in Keys |-> {}]]]

addToIndex(idx, u, r) ==
    [i \in Index |-> [k \in Keys |->
        IF k \in r[i] THEN idx[i][k] \union {u} ELSE idx[i][k]]]

removeFromIndex(idx, u, r) ==
    [i \in Index |-> [k \in Keys |->
        IF k \in r[i] THEN idx[i][k] \ {u} ELSE idx[i][k]]]

removeRecord(s, u) ==
    IF s.records[u] = NULL THEN s
    ELSE [records |-> [s.records EXCEPT ![u] = NULL],
          index |-> removeFromIndex(s.index, u, s.records[u])]

\* Faulty variant: the entries of the record it replaces stay.
upsertInPlace(s, u, r) ==
    [records |-> [s.records EXCEPT ![u] = r],
     index |-> addToIndex(s.index, u, r)]

upsertRecord(s, u, r) ==
    LET cleared == removeRecord(s, u)
    IN [records |-> [cleared.records EXCEPT ![u] = r],
        index |-> addToIndex(cleared.index, u, r)]

applyEvent(s, e) ==
    IF e.action = "delete" THEN removeRecord(s, e.uri)
    ELSE upsertRecord(s, e.uri, e.record)

\* ORDER BY seq, event_id; the id is made of number, URI and action.
\* "create" < "delete" < "update".
ActionRank == [create |-> 1, delete |-> 2, update |-> 3]
Earlier(d, e) ==
    \/ d.seq < e.seq
    \/ d.seq = e.seq /\ d.uri < e.uri
    \/ d.seq = e.seq /\ d.uri = e.uri /\ ActionRank[d.action] < ActionRank[e.action]

loadDiscoveryEvents(rows) ==
    Listed(rows, {p \in rows \X rows : Earlier(p[1], p[2])})

applyEvents(s, events) ==
    LET after[n \in 0..Len(events)] ==
            IF n = 0 THEN s ELSE applyEvent(after[n - 1], events[n])
    IN after[Len(events)]

\* Faulty variant: the id is made of the number alone.
upsertByNumber(rows, e) == {d \in rows : d.seq # e.seq} \union {e}

\* INSERT ... ON CONFLICT (event_id) DO UPDATE.
upsertDiscoveryEvent(rows, e) ==
    {d \in rows : <<d.seq, d.uri, d.action>> # <<e.seq, e.uri, e.action>>}
        \union {e}

\* What createFixtureQueryService and createPostgresQueryService start from.
queryServiceOf(rows) ==
    applyEvents(emptyStore,
                IF Postgres THEN loadDiscoveryEvents(rows) ELSE Fixture)

-----------------------------------------------------------------------------
(* The queries *)

\* The URIs in every bucket the filter names; all records without a filter.
collectCandidates(s, kind, filter) ==
    {u \in kind : s.records[u] # NULL /\ \A i \in DOMAIN filter :
        u \in s.index[i][filter[i]]}

\* Better score first, then the smaller URI.
RanksBefore(s, u, v) ==
    \/ Score[s.records[u]] > Score[s.records[v]]
    \/ Score[s.records[u]] = Score[s.records[v]] /\ u < v

\* Passing: the records that are near, fresh and hold the text.
matches(s, kind, filter, passing) ==
    LET found == {u \in collectCandidates(s, kind, filter) :
                     s.records[u] \in passing}
    IN Listed(found, {p \in found \X found : RanksBefore(s, p[1], p[2])})

applyPagination(rows, page, pageSize) ==
    LET start == (page - 1) * pageSize
    IN [total |-> Len(rows),
        items |-> SubSeq(rows, start + 1,
                         IF start + pageSize < Len(rows) THEN start + pageSize
                         ELSE Len(rows)),
        hasNextPage |-> start + pageSize < Len(rows)]

queryIndex(s, kind, filter, passing, page, pageSize) ==
    applyPagination(matches(s, kind, filter, passing), page, pageSize)

-----------------------------------------------------------------------------
(* Creations, restarts *)

DiscoveryInit ==
    /\ log = IF Postgres THEN Range(Fixture) ELSE {}
    /\ records = queryServiceOf(log).records
    /\ indexes = queryServiceOf(log).index
    /\ creations = [c \in Creations |-> NULL]
    /\ acknowledged = {}
    /\ ms = 1
    /\ restarts = 0

\* The URI is the author's and the rkey the caller names, or a new one.
createFromInput(c, u, r) ==
    /\ creations[c] = NULL
    /\ creations' = [creations EXCEPT ![c] =
          [event |-> [seq |-> ms, uri |-> u, action |-> "create", record |-> r],
           at |-> IF Postgres THEN "append" ELSE "apply"]]
    /\ UNCHANGED <<log, records, indexes, acknowledged, ms, restarts>>

\* COMMIT has run.
appendDiscoveryEvents(c) ==
    /\ creations[c] # NULL
    /\ creations[c].at = "append"
    /\ log' = upsertDiscoveryEvent(log, creations[c].event)
    /\ creations' = [creations EXCEPT ![c].at = "apply"]
    /\ UNCHANGED <<records, indexes, acknowledged, ms, restarts>>

\* The transaction is rolled back, or committed without the server learning
\* it: 500 WRITE_FAILED.
appendFails(c) ==
    /\ creations[c] # NULL
    /\ creations[c].at = "append"
    /\ \/ UNCHANGED log
       \/ log' = upsertDiscoveryEvent(log, creations[c].event)
    /\ creations' = [creations EXCEPT ![c] = NULL]
    /\ UNCHANGED <<records, indexes, acknowledged, ms, restarts>>

\* The index follows, and the answer is 201.
applyNormalizedEvents(c) ==
    LET e == creations[c].event
        store == applyEvent([records |-> records, index |-> indexes], e)
    IN /\ creations[c] # NULL
       /\ creations[c].at = "apply"
       /\ records' = store.records
       /\ indexes' = store.index
       /\ acknowledged' = acknowledged \union {e.uri}
       /\ creations' = [creations EXCEPT ![c] = NULL]
       /\ UNCHANGED <<log, ms, restarts>>

\* A restart drops what is under way and loads the index from the log.
\* Without one the index starts from the fixture again: posts are lost.
Restart ==
    LET store == queryServiceOf(log)
    IN /\ restarts < MaxRestarts
       /\ restarts' = restarts + 1
       /\ records' = store.records
       /\ indexes' = store.index
       /\ creations' = [c \in Creations |-> NULL]
       /\ UNCHANGED <<log, acknowledged, ms>>

NextMs ==
    /\ ms < LastMs
    /\ ms' = ms + 1
    /\ UNCHANGED <<log, records, indexes, creations, acknowledged, restarts>>

DiscoveryNext ==
    \/ \E c \in Creations :
          \/ \E u \in Posts, r \in Submitted : createFromInput(c, u, r)
          \/ appendDiscoveryEvents(c)
          \/ appendFails(c)
          \/ applyNormalizedEvents(c)
    \/ Restart
    \/ NextMs

DiscoverySpec == DiscoveryInit /\ [][DiscoveryNext]_discoveryVars

-----------------------------------------------------------------------------
\* A query of posts filters by the keys of posts, one of resources by theirs.
KeysOf(kind, i) ==
    UNION ({Fixture[n].record[i] : n \in {m \in DOMAIN Fixture : Fixture[m].uri \in kind}}
           \union {r[i] : r \in IF kind = Posts THEN Submitted ELSE {}})
QueryFilters == [kind \in {Posts, Resources} |->
    UNION {{f \in [fs -> Keys] : \A i \in fs : f[i] \in KeysOf(kind, i)} :
              fs \in SUBSET Filterable}]

\* A query answers with exactly the records that have the keys it filters by.
\* Page after page until hasNextPage is false a caller is shown each of them
\* once.
Complete(s) ==
    \A kind \in {Posts, Resources} : \A f \in QueryFilters[kind] :
        LET wanted == {u \in kind : s.records[u] # NULL /\
                          \A i \in DOMAIN f : f[i] \in s.records[u][i]}
            all == matches(s, kind, f, Records)
            answer(p, size) == queryIndex(s, kind, f, Records, p, size)
        IN /\ ToSet(all) = wanted
           /\ \A size \in 1..2 : \E last \in 1..(Len(all) + 1) :
                 /\ ~answer(last, size).hasNextPage
                 /\ \A p \in 1..(last - 1) : answer(p, size).hasNextPage
                 /\ FlattenSeq([p \in 1..last |-> answer(p, size).items]) = all

(* The answers are complete at the start and after each change of the       *)
(* index: through creations of one post that overtake each other, replacing *)
(* what the post was indexed under, and through restarts                    *)
(* (collectAidCandidates, upsertAid, applyPagination).                      *)
AnswersStayComplete ==
    /\ Complete([records |-> records, index |-> indexes])
    /\ [][<<records, indexes>>' # <<records, indexes>> =>
            Complete([records |-> records', index |-> indexes'])]_discoveryVars

(* With Postgres as the data source a post that was answered with 201 is    *)
(* found from then on, whatever fails or restarts afterwards                *)
(* (createFromInput appends before it applies).                             *)
AcknowledgedAreFound ==
    Postgres => \A u \in acknowledged : records[u] # NULL
=============================================================================
