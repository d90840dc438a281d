-------------------------- MODULE ModerationProofs --------------------------
(***************************************************************************)
(* Theorems about Moderation: its types; an idempotency key acts once,     *)
(* whoever retries it and across restarts; snapshots are kept; the trail   *)
(* tells the story of the item; no appeal is decided twice.                *)
(***************************************************************************)
EXTENDS Moderation, FiniteSetTheorems, TLAPS

-----------------------------------------------------------------------------
(* Types *)

\* What a transition leaves is an item.
LEMMA TransitionType ==
    ASSUME NEW item \in Item, NEW action \in PolicyAction
    PROVE  applyTransition(item, action) \in Item
BY DEF applyTransition, Item, PolicyAction, QueueStatus, Visibility,
       AppealState

\* The current item comes from one of the two copies.
LEMMA CurrentType ==
    ASSUME TypeOK, NEW s \in Subjects
    PROVE  Current(s) \in Item \union {NULL}
BY DEF TypeOK, Current

\* Acting keeps the types, and gives each acted subject one more record.
LEMMA ActType ==
    ASSUME TypeOK, NEW acted \in SUBSET Subjects, NEW action \in PolicyAction,
           NEW keys \in [acted -> IdempotencyKey],
           \A s \in acted : Current(s) # NULL,
           Act(acted, action, keys)
    PROVE  /\ items' \in [Subjects -> Item \union {NULL}]
           /\ cache' \in [Subjects -> Item \union {NULL}]
           /\ audit' \in [Subjects -> Seq(AuditRecord)]
           /\ \A s \in Subjects \ acted : audit'[s] = audit[s]
           /\ \A s \in acted :
                 \E r \in AuditRecord :
                    r.key = keys[s] /\ audit'[s] = Append(audit[s], r)
<1> DEFINE next(s) == applyTransition(Current(s), action)
           record(s) == [action |-> action, key |-> keys[s],
                         previousState |-> Current(s), nextState |-> next(s)]
<1>1. \A s \in acted : Current(s) \in Item /\ next(s) \in Item
  BY CurrentType, TransitionType
<1>2. \A s \in acted : record(s) \in AuditRecord /\ record(s).key = keys[s]
  BY <1>1 DEF AuditRecord
<1>3. /\ items' = [s \in Subjects |-> IF s \in acted THEN next(s) ELSE items[s]]
      /\ cache' = [s \in Subjects |-> IF s \in acted THEN next(s) ELSE cache[s]]
      /\ audit' = [s \in Subjects |-> IF s \in acted
                                      THEN Append(audit[s], record(s))
                                      ELSE audit[s]]
  BY DEF Act
<1> HIDE DEF next, record
<1>4. audit \in [Subjects -> Seq(AuditRecord)]
  BY DEF TypeOK
<1>5. audit' \in [Subjects -> Seq(AuditRecord)]
  <2>1. \A s \in acted : Append(audit[s], record(s)) \in Seq(AuditRecord)
    BY <1>2, <1>4
  <2> QED
    BY <1>3, <1>4, <2>1
<1> QED
  BY <1>1, <1>2, <1>3, <1>4, <1>5 DEF TypeOK

\* The gauge stays within its bounds.
LEMMA DequeueType ==
    ASSUME TypeOK, NEW n \in Nat, recordDequeue(n)
    PROVE  depth' \in 0..MaxDepth
BY ModerationConstants DEF TypeOK, recordDequeue

LEMMA KeyType ==
    ASSUME NEW s \in Subjects, NEW action \in PolicyAction, NEW stamp \in Stamps
    PROVE  toIdempotencyKey(s, action, stamp) \in IdempotencyKey
BY DEF toIdempotencyKey, IdempotencyKey

-----------------------------------------------------------------------------
(* The shape of a step *)

\* The trails of "acted" grow by one record each, under the keys given, and
\* nobody used those before.
Grow(acted, keys) ==
    /\ \A s \in acted : ~Used(keys[s])
    /\ \A s, t \in acted : keys[s] = keys[t] => s = t
    /\ \A s \in acted :
          \E r \in AuditRecord :
             r.key = keys[s] /\ audit'[s] = Append(audit[s], r)
    /\ \A s \in Subjects \ acted : audit'[s] = audit[s]
    /\ UNCHANGED saved

Grows == \E acted \in SUBSET Subjects :
            \E keys \in [acted -> IdempotencyKey] : Grow(acted, keys)

Keeps == UNCHANGED <<audit, saved>>
Snaps == audit' = audit /\ saved'.audit = audit
Restores == audit' = saved.audit /\ saved' = saved

LEMMA PolicyShape ==
    ASSUME TypeOK, NEW s \in Subjects, NEW action \in PolicyAction,
           NEW explicitKey \in Keys \union {NULL}, NEW stamp \in Stamps,
           applyPolicyFromParams(s, action, explicitKey, stamp)
    PROVE  TypeOK' /\ (Keeps \/ Grows)
<1> DEFINE key == IF explicitKey # NULL THEN explicitKey
                                        ELSE toIdempotencyKey(s, action, stamp)
           keys == [t \in {s} |-> key]
<1>1. key \in IdempotencyKey
  BY KeyType DEF IdempotencyKey
<1>2. keys \in [{s} -> IdempotencyKey] /\ keys[s] = key
  BY <1>1
<1>3. depth' \in 0..MaxDepth
  BY DequeueType DEF applyPolicyFromParams
<1>4. CASE Used(key) /\ UNCHANGED <<items, cache, audit>>
  BY <1>3, <1>4 DEF applyPolicyFromParams, TypeOK, Keeps
<1>5. CASE ~Used(key) /\ Act({s}, action, keys)
  <2>1. \A t \in {s} : Current(t) # NULL
    BY DEF applyPolicyFromParams
  <2>5. {s} \in SUBSET Subjects
    OBVIOUS
  <2>2. /\ items' \in [Subjects -> Item \union {NULL}]
        /\ cache' \in [Subjects -> Item \union {NULL}]
        /\ audit' \in [Subjects -> Seq(AuditRecord)]
        /\ \A t \in Subjects \ {s} : audit'[t] = audit[t]
        /\ \A t \in {s} : \E r \in AuditRecord :
              r.key = keys[t] /\ audit'[t] = Append(audit[t], r)
    <3> HIDE DEF keys
    <3> QED
      BY <1>2, <1>5, <2>1, <2>5, ActType
  <2>3. UNCHANGED saved
    BY DEF applyPolicyFromParams
  <2>4. Grow({s}, keys)
    BY <1>2, <1>5, <2>2, <2>3 DEF Grow
  <2>6. Grows
    BY <1>2, <2>4 DEF Grows
  <2> QED
    BY <1>3, <2>2, <2>3, <2>6 DEF TypeOK
<1> QED
  BY <1>4, <1>5 DEF applyPolicyFromParams

LEMMA BulkShape ==
    ASSUME TypeOK, NEW subjects \in SUBSET Subjects, NEW action \in PolicyAction,
           NEW stamp \in Stamps, bulkTriage(subjects, action, stamp)
    PROVE  TypeOK' /\ Grows
<1> DEFINE keyOf(s) == toIdempotencyKey(s, action, stamp)
           found == {s \in subjects : Current(s) # NULL}
           replayed == {s \in found : Used(keyOf(s))}
           acted == {s \in found \ replayed : Applicable(Current(s), action)}
           keys == [s \in acted |-> keyOf(s)]
<1>1. acted \in SUBSET Subjects /\ \A s \in acted : Current(s) # NULL
  OBVIOUS
<1>2. keys \in [acted -> IdempotencyKey]
  BY <1>1, KeyType
<1>3. \A s \in acted : keys[s] = <<s, action, stamp>> /\ ~Used(keys[s])
  BY DEF toIdempotencyKey
<1>4. \A s, t \in acted : keys[s] = keys[t] => s = t
  BY <1>3
<1>5. Act(acted, action, keys) /\ UNCHANGED saved
      /\ recordDequeue(Cardinality(replayed \union acted))
  BY DEF bulkTriage
<1>6. Cardinality(replayed \union acted) \in Nat
  <2>1. IsFiniteSet(Subjects) /\ replayed \union acted \subseteq Subjects
    BY ModerationConstants
  <2>2. IsFiniteSet(replayed \union acted)
    BY <2>1, FS_Subset
  <2> QED
    BY <2>2, FS_CardinalityType
<1>7. depth' \in 0..MaxDepth
  BY <1>5, <1>6, DequeueType
<1> HIDE DEF keys, acted, replayed
<1>8. /\ items' \in [Subjects -> Item \union {NULL}]
      /\ cache' \in [Subjects -> Item \union {NULL}]
      /\ audit' \in [Subjects -> Seq(AuditRecord)]
      /\ \A s \in Subjects \ acted : audit'[s] = audit[s]
      /\ \A s \in acted : \E r \in AuditRecord :
            r.key = keys[s] /\ audit'[s] = Append(audit[s], r)
  BY <1>1, <1>2, <1>5, ActType
<1>9. Grow(acted, keys)
  BY <1>3, <1>4, <1>5, <1>8 DEF Grow
<1> QED
  BY <1>1, <1>2, <1>5, <1>7, <1>8, <1>9 DEF Grows, TypeOK

LEMMA EscalateShape ==
    ASSUME TypeOK, NEW s \in Subjects, NEW stamp \in Stamps,
           escalateItem(s, stamp)
    PROVE  TypeOK' /\ (Keeps \/ Grows)
<1>1. PICK action \in {"open-appeal", "start-appeal-review"} :
        applyPolicyFromParams(s, action, NULL, stamp)
  BY DEF escalateItem
<1>2. action \in PolicyAction
  BY DEF PolicyAction
<1> QED
  BY <1>1, <1>2, PolicyShape

LEMMA EnqueueShape ==
    ASSUME TypeOK, NEW s \in Subjects, enqueueFromParams(s)
    PROVE  TypeOK' /\ Keeps
<1> DEFINE next == IF Current(s) = NULL
                   THEN [queueStatus |-> "queued", visibility |-> "visible",
                         appealState |-> "none"]
                   ELSE [Current(s) EXCEPT !.queueStatus = "queued"]
<1>1. next \in Item
  BY CurrentType DEF Item, QueueStatus, Visibility, AppealState
<1>2. /\ items' = [items EXCEPT ![s] = next]
      /\ cache' = [cache EXCEPT ![s] = next]
      /\ depth < MaxDepth /\ depth' = depth + 1
      /\ UNCHANGED <<audit, saved>>
  BY DEF enqueueFromParams
<1> HIDE DEF next
<1> QED
  BY <1>1, <1>2, ModerationConstants DEF TypeOK, Keeps

LEMMA StoreShape ==
    ASSUME TypeOK, NEW s \in Consumable, ack(s) \/ nack(s) \/ dequeue(s)
    PROVE  TypeOK' /\ Keeps
<1>1. s \in Subjects
  BY ModerationConstants
<1>2. CASE dequeue(s)
  BY <1>1, <1>2 DEF dequeue, TypeOK, Keeps
<1>3. CASE ack(s) \/ nack(s)
  <2>1. PICK queueStatus \in QueueStatus :
            items' = [items EXCEPT ![s].queueStatus = queueStatus]
    BY <1>3 DEF ack, nack, QueueStatus
  <2>2. items[s] \in Item
    BY <1>1, <1>3 DEF ack, nack, TypeOK
  <2>3. [items[s] EXCEPT !.queueStatus = queueStatus] \in Item
    BY <2>2 DEF Item
  <2>4. items' = [items EXCEPT ![s] =
                    [items[s] EXCEPT !.queueStatus = queueStatus]]
    BY <1>1, <2>1 DEF TypeOK
  <2>5. items' \in [Subjects -> Item \union {NULL}]
    BY <2>3, <2>4 DEF TypeOK
  <2> QED
    BY <1>3, <2>5 DEF ack, nack, TypeOK, Keeps
<1> QED
  BY <1>2, <1>3

\* A step leaves the trails and their snapshot alone, adds fresh records, takes
\* a snapshot, or goes back to it.
LEMMA StepShape ==
    ASSUME TypeOK, [Next]_vars
    PROVE  TypeOK' /\ (Keeps \/ Grows \/ Snaps \/ Restores)
<1>1. ASSUME NEW s \in Subjects, enqueueFromParams(s)
      PROVE  TypeOK' /\ Keeps
  BY <1>1, EnqueueShape
<1>2. ASSUME NEW s \in Subjects, NEW action \in PolicyAction,
             NEW key \in Keys \union {NULL}, NEW stamp \in Stamps,
             applyPolicyFromParams(s, action, key, stamp)
      PROVE  TypeOK' /\ (Keeps \/ Grows)
  BY <1>2, PolicyShape
<1>3. ASSUME NEW s \in Subjects, NEW stamp \in Stamps, escalateItem(s, stamp)
      PROVE  TypeOK' /\ (Keeps \/ Grows)
  BY <1>3, EscalateShape
<1>4. ASSUME NEW subjects \in SUBSET Subjects, NEW action \in PolicyAction,
             NEW stamp \in Stamps, bulkTriage(subjects, action, stamp)
      PROVE  TypeOK' /\ Grows
  BY <1>4, BulkShape
<1>5. ASSUME NEW s \in Consumable, ack(s) \/ nack(s) \/ dequeue(s)
      PROVE  TypeOK' /\ Keeps
  BY <1>5, StoreShape
<1>6. CASE snapshot
  BY <1>6 DEF snapshot, TypeOK, Snaps
<1>7. CASE restore
  BY <1>7, ModerationConstants DEF restore, TypeOK, Restores
<1>8. CASE UNCHANGED vars
  BY <1>8 DEF vars, TypeOK, Keeps
<1> QED
  BY <1>1, <1>2, <1>3, <1>4, <1>5, <1>6, <1>7, <1>8 DEF Next

LEMMA InitType == Init => TypeOK
BY ModerationConstants DEF Init, TypeOK

\* Every variable keeps its type: items, copies and records are of the declared
\* kinds, and the gauge is neither negative nor beyond its bound.
THEOREM TypeCorrect == Spec => []TypeOK
<1>1. TypeOK /\ [Next]_vars => TypeOK'
  BY StepShape
<1> QED
  BY InitType, <1>1, PTL DEF Spec

-----------------------------------------------------------------------------
(* A key acts once *)

\* KeyActsOnce of any trails.
OncePerKey(trail) ==
    \A s, t \in Subjects : \A i \in 1..Len(trail[s]), j \in 1..Len(trail[t]) :
        trail[s][i].key = trail[t][j].key => s = t /\ i = j

\* The trails after a restart are those of the snapshot.
KeyInv == TypeOK /\ OncePerKey(audit) /\ OncePerKey(saved.audit)

\* A record of a grown trail is an old one, or the new one at its end.
LEMMA GrowIndex ==
    ASSUME TypeOK, NEW acted \in SUBSET Subjects,
           NEW keys \in [acted -> IdempotencyKey], Grow(acted, keys)
    PROVE  \A s \in Subjects : \A i \in 1..Len(audit'[s]) :
              \/ i \in 1..Len(audit[s]) /\ audit'[s][i] = audit[s][i]
              \/ s \in acted /\ i = Len(audit[s]) + 1 /\ audit'[s][i].key = keys[s]
<1> SUFFICES ASSUME NEW s \in Subjects, NEW i \in 1..Len(audit'[s])
             PROVE  \/ i \in 1..Len(audit[s]) /\ audit'[s][i] = audit[s][i]
                    \/ /\ s \in acted /\ i = Len(audit[s]) + 1
                       /\ audit'[s][i].key = keys[s]
  OBVIOUS
<1>1. audit[s] \in Seq(AuditRecord)
  BY DEF TypeOK
<1>2. CASE s \notin acted
  BY <1>2 DEF Grow
<1>3. CASE s \in acted
  <2>1. PICK r \in AuditRecord : r.key = keys[s] /\ audit'[s] = Append(audit[s], r)
    BY <1>3 DEF Grow
  <2>2. /\ Len(audit'[s]) = Len(audit[s]) + 1
        /\ audit'[s][Len(audit[s]) + 1] = r
        /\ \A k \in 1..Len(audit[s]) : audit'[s][k] = audit[s][k]
    BY <1>1, <2>1
  <2>3. Len(audit[s]) \in Nat
    BY <1>1
  <2> QED
    BY <1>3, <2>1, <2>2, <2>3
<1> QED
  BY <1>2, <1>3

LEMMA GrowOnce ==
    ASSUME TypeOK, OncePerKey(audit), Grows
    PROVE  OncePerKey(audit')
<1>1. PICK acted \in SUBSET Subjects :
        \E keys \in [acted -> IdempotencyKey] : Grow(acted, keys)
  BY DEF Grows
<1>2. PICK keys \in [acted -> IdempotencyKey] : Grow(acted, keys)
  BY <1>1
<1> SUFFICES ASSUME NEW s \in Subjects, NEW t \in Subjects,
                    NEW i \in 1..Len(audit'[s]), NEW j \in 1..Len(audit'[t]),
                    audit'[s][i].key = audit'[t][j].key
             PROVE  s = t /\ i = j
  BY DEF OncePerKey
<1> DEFINE Old(u, k) == k \in 1..Len(audit[u]) /\ audit'[u][k] = audit[u][k]
           New(u, k) == /\ u \in acted /\ k = Len(audit[u]) + 1
                        /\ audit'[u][k].key = keys[u]
<1>3. (Old(s, i) \/ New(s, i)) /\ (Old(t, j) \/ New(t, j))
  <2>1. \A u \in Subjects : \A k \in 1..Len(audit'[u]) :
           Old(u, k) \/ New(u, k)
    BY <1>2, GrowIndex
  <2> QED
    BY <2>1
<1>4. ASSUME NEW u \in Subjects, NEW k, Old(u, k), NEW v \in acted
      PROVE  audit'[u][k].key # keys[v]
  BY <1>2, <1>4 DEF Grow, Used
<1>5. CASE Old(s, i) /\ Old(t, j)
  BY <1>5 DEF OncePerKey
<1>6. CASE New(s, i) /\ New(t, j)
  BY <1>2, <1>6 DEF Grow
<1>7. CASE Old(s, i) /\ New(t, j)
  BY <1>4, <1>7
<1>8. CASE New(s, i) /\ Old(t, j)
  BY <1>4, <1>8
<1> QED
  BY <1>3, <1>5, <1>6, <1>7, <1>8

\* A key acts once, on one subject, whoever retries it and across restarts.
THEOREM KeyOnce == Spec => []KeyActsOnce
<1>1. Init => KeyInv
  <2>1. Init => \A s \in Subjects : audit[s] = <<>> /\ saved.audit[s] = <<>>
    BY DEF Init
  <2> QED
    BY <2>1, InitType DEF KeyInv, OncePerKey
<1>2. KeyInv /\ [Next]_vars => KeyInv'
  <2> SUFFICES ASSUME KeyInv, [Next]_vars PROVE KeyInv'
    OBVIOUS
  <2>1. TypeOK' /\ (Keeps \/ Grows \/ Snaps \/ Restores)
    BY StepShape DEF KeyInv
  <2>2. CASE Keeps
    BY <2>1, <2>2 DEF Keeps, KeyInv, OncePerKey
  <2>3. CASE Grows
    <3>1. OncePerKey(audit')
      BY <2>3, GrowOnce DEF KeyInv
    <3>2. saved' = saved
      BY <2>3 DEF Grows, Grow
    <3> QED
      BY <2>1, <3>1, <3>2 DEF KeyInv, OncePerKey
  <2>4. CASE Snaps
    BY <2>1, <2>4 DEF Snaps, KeyInv, OncePerKey
  <2>5. CASE Restores
    BY <2>1, <2>5 DEF Restores, KeyInv, OncePerKey
  <2> QED
    BY <2>1, <2>2, <2>3, <2>4, <2>5
<1>3. KeyInv => KeyActsOnce
  BY DEF KeyInv, OncePerKey, KeyActsOnce
<1> QED
  BY <1>1, <1>2, <1>3, PTL DEF Spec

-----------------------------------------------------------------------------
(* Snapshots *)

\* What a snapshot holds is never undone, also by the restart that goes back to
\* it.
THEOREM SnapshotsKept == Spec => []SnapshotIsKept
<1>1. Init => SnapshotIsKept
  <2>1. Init => \A s \in Subjects : audit[s] = <<>> /\ saved.audit[s] = <<>>
    BY DEF Init
  <2> QED
    BY <2>1 DEF SnapshotIsKept, IsPrefix
<1>2. TypeOK /\ SnapshotIsKept /\ [Next]_vars => SnapshotIsKept'
  <2> SUFFICES ASSUME TypeOK, SnapshotIsKept, [Next]_vars,
                      NEW s \in Subjects
               PROVE  IsPrefix(saved'.audit[s], audit'[s])
    BY DEF SnapshotIsKept
  <2>1. Keeps \/ Grows \/ Snaps \/ Restores
    BY StepShape
  <2>2. /\ audit[s] \in Seq(AuditRecord) /\ saved.audit[s] \in Seq(AuditRecord)
        /\ IsPrefix(saved.audit[s], audit[s])
    BY DEF TypeOK, SnapshotIsKept
  <2>3. CASE Keeps
    BY <2>2, <2>3 DEF Keeps
  <2>4. CASE Grows
    <3>1. /\ saved' = saved
          /\ \/ audit'[s] = audit[s]
             \/ \E r \in AuditRecord : audit'[s] = Append(audit[s], r)
      BY <2>4 DEF Grows, Grow
    <3> QED
      BY <2>2, <3>1 DEF IsPrefix
  <2>5. CASE Snaps
    BY <2>2, <2>5 DEF Snaps, IsPrefix
  <2>6. CASE Restores
    BY <2>2, <2>6 DEF Restores, IsPrefix
  <2> QED
    BY <2>1, <2>3, <2>4, <2>5, <2>6
<1> QED
  BY <1>1, <1>2, TypeCorrect, PTL DEF Spec

-----------------------------------------------------------------------------
(* The trail tells the story *)

\* What a subject's trail says its item is.
EndState(trail, s) ==
    IF trail[s] = <<>> THEN NewItem ELSE trail[s][Len(trail[s])].nextState

Continuous(trail) ==
    \A s \in Subjects : \A i \in 1..Len(trail[s]) :
        SameDecision(trail[s][i].previousState,
                     IF i = 1 THEN NewItem ELSE trail[s][i - 1].nextState)

\* A copy of the item that agrees with the trail, if it is there at all.
Agrees(copy, trail) ==
    \A s \in Subjects : copy[s] # NULL => SameDecision(copy[s], EndState(trail, s))

\* A copy that has every item the trail is about.
Complete(copy, trail) == \A s \in Subjects : trail[s] # <<>> => copy[s] # NULL

\* Where the process restarts, the store is the copy that can be relied on, and
\* so is the one in the snapshot; where store users take items away, the
\* queue's own map is.
StoryInv ==
    /\ TypeOK
    /\ Continuous(audit) /\ Agrees(items, audit) /\ Agrees(cache, audit)
    /\ Continuous(saved.audit) /\ Agrees(saved.items, saved.audit)
    /\ Restarts => Complete(items, audit) /\ Complete(saved.items, saved.audit)
    /\ ~Restarts => Complete(cache, audit)

\* x is the current item up to its queue status, or a new one.
Follows(s, x) ==
    x # NULL /\ SameDecision(x, IF Current(s) = NULL THEN NewItem ELSE Current(s))

\* A step that acts on s, and one that does not.
Acted(s) ==
    \E r \in AuditRecord :
        /\ audit'[s] = Append(audit[s], r)
        /\ Applicable(r.previousState, r.action)
        /\ r.nextState = applyTransition(r.previousState, r.action)
        /\ Current(s) # NULL /\ r.previousState = Current(s)
        /\ items'[s] = r.nextState /\ cache'[s] = r.nextState

Waited(s) ==
    /\ audit'[s] = audit[s]
    /\ \/ items'[s] = items[s]
       \/ Follows(s, items'[s])
       \/ items'[s] = NULL /\ s \in Consumable
    /\ cache'[s] = cache[s] \/ Follows(s, cache'[s])

\* Acting leaves the subjects it does not act on alone.
LEMMA ActStory ==
    ASSUME TypeOK, NEW acted \in SUBSET Subjects, NEW action \in PolicyAction,
           NEW keys \in [acted -> IdempotencyKey],
           \A s \in acted : Current(s) # NULL /\ Applicable(Current(s), action),
           Act(acted, action, keys)
    PROVE  \A s \in Subjects : Acted(s) \/ Waited(s)
<1> DEFINE next(s) == applyTransition(Current(s), action)
           record(s) == [action |-> action, key |-> keys[s],
                         previousState |-> Current(s), nextState |-> next(s)]
<1>1. \A s \in acted : Current(s) \in Item /\ next(s) \in Item
  BY CurrentType, TransitionType
<1>2. \A s \in acted : record(s) \in AuditRecord
                       /\ record(s).action = action
                       /\ record(s).previousState = Current(s)
                       /\ record(s).nextState = next(s)
  BY <1>1 DEF AuditRecord
<1>6. \A s \in acted : next(s) = applyTransition(Current(s), action)
  OBVIOUS
<1>3. /\ items' = [s \in Subjects |-> IF s \in acted THEN next(s) ELSE items[s]]
      /\ cache' = [s \in Subjects |-> IF s \in acted THEN next(s) ELSE cache[s]]
      /\ audit' = [s \in Subjects |-> IF s \in acted
                                      THEN Append(audit[s], record(s))
                                      ELSE audit[s]]
  BY DEF Act
<1> HIDE DEF next, record
<1>4. ASSUME NEW s \in acted PROVE Acted(s)
  BY <1>2, <1>3, <1>4, <1>6 DEF Acted
<1>5. ASSUME NEW s \in Subjects \ acted PROVE Waited(s)
  BY <1>3, <1>5 DEF Waited
<1> QED
  BY <1>4, <1>5

LEMMA PolicyStory ==
    ASSUME TypeOK, NEW s \in Subjects, NEW action \in PolicyAction,
           NEW explicitKey \in Keys \union {NULL}, NEW stamp \in Stamps,
           applyPolicyFromParams(s, action, explicitKey, stamp)
    PROVE  UNCHANGED saved /\ \A t \in Subjects : Acted(t) \/ Waited(t)
<1> DEFINE key == IF explicitKey # NULL THEN explicitKey
                                        ELSE toIdempotencyKey(s, action, stamp)
           keys == [t \in {s} |-> key]
<1>1. keys \in [{s} -> IdempotencyKey]
  BY KeyType DEF IdempotencyKey
<1>2. UNCHANGED saved
  BY DEF applyPolicyFromParams
<1>3. CASE UNCHANGED <<items, cache, audit>>
  BY <1>2, <1>3 DEF Waited
<1>4. CASE Applicable(Current(s), action) /\ Act({s}, action, keys)
  <2>1. \A t \in {s} : Current(t) # NULL /\ Applicable(Current(t), action)
    BY <1>4 DEF applyPolicyFromParams
  <2>2. {s} \in SUBSET Subjects
    OBVIOUS
  <2> HIDE DEF keys
  <2> QED
    BY <1>1, <1>2, <1>4, <2>1, <2>2, ActStory
<1> QED
  BY <1>3, <1>4 DEF applyPolicyFromParams

LEMMA BulkStory ==
    ASSUME TypeOK, NEW subjects \in SUBSET Subjects, NEW action \in PolicyAction,
           NEW stamp \in Stamps, bulkTriage(subjects, action, stamp)
    PROVE  UNCHANGED saved /\ \A s \in Subjects : Acted(s) \/ Waited(s)
<1> DEFINE keyOf(s) == toIdempotencyKey(s, action, stamp)
           found == {s \in subjects : Current(s) # NULL}
           replayed == {s \in found : Used(keyOf(s))}
           acted == {s \in found \ replayed : Applicable(Current(s), action)}
           keys == [s \in acted |-> keyOf(s)]
<1>1. /\ acted \in SUBSET Subjects
      /\ \A s \in acted : Current(s) # NULL /\ Applicable(Current(s), action)
  OBVIOUS
<1>2. keys \in [acted -> IdempotencyKey]
  BY <1>1, KeyType
<1>3. Act(acted, action, keys) /\ UNCHANGED saved
  BY DEF bulkTriage
<1> HIDE DEF keys, acted
<1> QED
  BY <1>1, <1>2, <1>3, ActStory

LEMMA EnqueueStory ==
    ASSUME TypeOK, NEW s \in Subjects, enqueueFromParams(s)
    PROVE  UNCHANGED saved /\ \A t \in Subjects : Waited(t)
<1> DEFINE next == IF Current(s) = NULL
                   THEN [queueStatus |-> "queued", visibility |-> "visible",
                         appealState |-> "none"]
                   ELSE [Current(s) EXCEPT !.queueStatus = "queued"]
<1>1. next \in Item
  BY CurrentType DEF Item, QueueStatus, Visibility, AppealState
<1>2. Follows(s, next)
  <2>1. next # NULL
    BY <1>1, NullIsNoItem
  <2>2. SameDecision(next, IF Current(s) = NULL THEN NewItem ELSE Current(s))
    BY CurrentType DEF SameDecision, NewItem, Item
  <2> QED
    BY <2>1, <2>2 DEF Follows
<1>3. /\ items' = [items EXCEPT ![s] = next]
      /\ cache' = [cache EXCEPT ![s] = next]
      /\ UNCHANGED <<audit, saved>>
  BY DEF enqueueFromParams
<1> HIDE DEF next
<1> SUFFICES ASSUME NEW t \in Subjects PROVE Waited(t)
  BY <1>3
<1>4. CASE t = s
  <2>1. items'[t] = next /\ cache'[t] = next /\ audit'[t] = audit[t]
    BY <1>3, <1>4 DEF TypeOK
  <2> QED
    BY <1>2, <1>4, <2>1 DEF Waited
<1>5. CASE t # s
  <2>1. items'[t] = items[t] /\ cache'[t] = cache[t] /\ audit'[t] = audit[t]
    BY <1>3, <1>5 DEF TypeOK
  <2> QED
    BY <2>1 DEF Waited
<1> QED
  BY <1>4, <1>5

LEMMA StoreStory ==
    ASSUME TypeOK, NEW s \in Consumable, ack(s) \/ nack(s) \/ dequeue(s)
    PROVE  UNCHANGED saved /\ \A t \in Subjects : Waited(t)
<1>1. s \in Subjects /\ items[s] # NULL /\ items[s] \in Item
  BY ModerationConstants DEF TypeOK, ack, nack, dequeue
<1>2. UNCHANGED <<cache, audit, saved>>
  BY DEF ack, nack, dequeue
<1>3. \A t \in Subjects \ {s} : items'[t] = items[t]
  BY <1>1 DEF TypeOK, ack, nack, dequeue
<1>4. CASE dequeue(s)
  <2>1. items'[s] = NULL
    BY <1>1, <1>4 DEF dequeue, TypeOK
  <2> QED
    BY <1>2, <1>3, <2>1 DEF Waited
<1>5. CASE ack(s) \/ nack(s)
  <2>1. PICK queueStatus \in QueueStatus :
            items' = [items EXCEPT ![s].queueStatus = queueStatus]
    BY <1>5 DEF ack, nack, QueueStatus
  <2>2. items'[s] = [items[s] EXCEPT !.queueStatus = queueStatus]
    BY <1>1, <2>1 DEF TypeOK
  <2>3. items'[s] \in Item /\ SameDecision(items'[s], items[s])
    BY <1>1, <2>2 DEF Item, SameDecision
  <2>4. Follows(s, items'[s])
    BY <1>1, <2>3, NullIsNoItem DEF Follows, Current
  <2> QED
    BY <1>2, <1>3, <2>4 DEF Waited
<1> QED
  BY <1>4, <1>5

\* Between snapshots and restarts every subject is acted on or waits.
StoryStep == UNCHANGED saved /\ \A s \in Subjects : Acted(s) \/ Waited(s)

LEMMA StoryShape ==
    ASSUME TypeOK, [Next]_vars
    PROVE  StoryStep \/ snapshot \/ restore
<1>1. ASSUME NEW s \in Subjects, enqueueFromParams(s) PROVE StoryStep
  BY <1>1, EnqueueStory DEF StoryStep
<1>2. ASSUME NEW s \in Subjects, NEW action \in PolicyAction,
             NEW key \in Keys \union {NULL}, NEW stamp \in Stamps,
             applyPolicyFromParams(s, action, key, stamp)
      PROVE  StoryStep
  BY <1>2, PolicyStory DEF StoryStep
<1>3. ASSUME NEW s \in Subjects, NEW stamp \in Stamps, escalateItem(s, stamp)
      PROVE  StoryStep
  <2>1. PICK action \in {"open-appeal", "start-appeal-review"} :
          applyPolicyFromParams(s, action, NULL, stamp)
    BY <1>3 DEF escalateItem
  <2>2. action \in PolicyAction /\ NULL \in Keys \union {NULL}
    BY DEF PolicyAction
  <2> QED
    BY <1>2, <2>1, <2>2
<1>4. ASSUME NEW subjects \in SUBSET Subjects, NEW action \in PolicyAction,
             NEW stamp \in Stamps, bulkTriage(subjects, action, stamp)
      PROVE  StoryStep
  BY <1>4, BulkStory DEF StoryStep
<1>5. ASSUME NEW s \in Consumable, ack(s) \/ nack(s) \/ dequeue(s)
      PROVE  StoryStep
  BY <1>5, StoreStory DEF StoryStep
<1>6. CASE UNCHANGED vars
  BY <1>6 DEF vars, Waited, StoryStep
<1> QED
  BY <1>1, <1>2, <1>3, <1>4, <1>5, <1>6 DEF Next

-----------------------------------------------------------------------------
(* The ledger *)

\* Growing under fresh keys, by records the policy allows, is entering them.
LEMMA GrowEnters ==
    ASSUME TypeOK, NEW acted \in SUBSET Subjects,
           NEW keys \in [acted -> IdempotencyKey], Grow(acted, keys), StoryStep,
           audit' \in [Subjects -> Seq(AuditRecord)]
    PROVE  Ledger!Enter(acted)
<1> DEFINE entry(s) == audit'[s][Len(audit'[s])]
<1>1. ASSUME NEW s \in acted
      PROVE  /\ audit'[s] # <<>> /\ audit'[s] = Append(audit[s], entry(s))
             /\ entry(s) \in LawfulRecord /\ entry(s).key = keys[s]
  <2>1. audit[s] \in Seq(AuditRecord) /\ Len(audit[s]) \in Nat
    BY DEF TypeOK
  <2>2. PICK r \in AuditRecord : r.key = keys[s] /\ audit'[s] = Append(audit[s], r)
    BY DEF Grow
  <2>3. /\ Len(audit'[s]) = Len(audit[s]) + 1
        /\ audit'[s][Len(audit[s]) + 1] = r
    BY <2>1, <2>2
  <2>4. audit'[s] # audit[s] /\ audit'[s] # <<>>
    <3>1. Len(audit'[s]) # Len(audit[s]) /\ Len(audit'[s]) # 0
      BY <2>1, <2>3
    <3> QED
      BY <3>1
  <2>5. Acted(s)
    BY <2>4 DEF StoryStep, Waited
  <2>6. PICK a \in AuditRecord : /\ audit'[s] = Append(audit[s], a)
                                 /\ Applicable(a.previousState, a.action)
                                 /\ a.nextState = applyTransition(a.previousState, a.action)
    BY <2>5 DEF Acted
  <2>7. audit'[s][Len(audit[s]) + 1] = a
    BY <2>1, <2>6
  <2>8. a \in LawfulRecord
    BY <2>6 DEF LawfulRecord
  <2> QED
    BY <2>2, <2>3, <2>4, <2>7, <2>8
<1>2. ASSUME NEW s \in acted PROVE ~Ledger!Known(entry(s).key)
  BY <1>1 DEF Grow, Used, Ledger!Known
<1>3. ASSUME NEW s \in acted, NEW t \in acted, entry(s).key = entry(t).key
      PROVE  s = t
  BY <1>1, <1>3 DEF Grow
<1>4. \A s \in Subjects : audit'[s] = IF s \in acted THEN Append(audit[s], entry(s))
                                                     ELSE audit[s]
  BY <1>1 DEF Grow
<1>5. audit' = [s \in Subjects |-> IF s \in acted THEN Append(audit[s], entry(s))
                                                  ELSE audit[s]]
  BY <1>4
<1>6. UNCHANGED saved
  BY DEF Grow
<1> QED
  BY <1>1, <1>2, <1>3, <1>5, <1>6 DEF Ledger!Enter

\* Every step enters records, keeps a snapshot, goes back to it, or is not seen
\* in the ledger.
LEMMA LedgerStep ==
    ASSUME TypeOK, [Next]_vars
    PROVE  [Ledger!Next]_<<audit, saved.audit>>
<1>1. TypeOK' /\ (Keeps \/ Grows \/ Snaps \/ Restores)
  BY StepShape
<1>2. StoryStep \/ snapshot \/ restore
  BY StoryShape
<1>3. CASE snapshot
  BY <1>3 DEF snapshot, Ledger!Next, Ledger!Keep
<1>4. CASE restore
  BY <1>4 DEF restore, Ledger!Next, Ledger!Return
<1>5. CASE StoryStep /\ Keeps
  BY <1>5 DEF Keeps
<1>6. CASE StoryStep /\ Grows
  <2>1. PICK acted \in SUBSET Subjects :
          \E keys \in [acted -> IdempotencyKey] : Grow(acted, keys)
    BY <1>6 DEF Grows
  <2>2. Ledger!Enter(acted)
    BY <1>1, <1>6, <2>1, GrowEnters DEF TypeOK
  <2> QED
    BY <2>2 DEF Ledger!Next
<1>7. CASE StoryStep /\ Snaps
  BY <1>7 DEF StoryStep, Snaps
<1>8. CASE StoryStep /\ Restores
  BY <1>8 DEF Restores, Ledger!Next, Ledger!Return
<1> QED
  BY <1>1, <1>2, <1>3, <1>4, <1>5, <1>6, <1>7, <1>8

\* Moderation implements the review ledger, whoever reports, acts, retries,
\* triages in bulk or takes items from the store, with or without restarts:
\* trails only grow, by records the policy allows, under keys nobody used, and
\* a restart goes back to what was kept.
THEOREM LedgerRefinement == Spec => LedgerSpec
<1>1. Init => Ledger!Init
  BY DEF Init, Ledger!Init
<1>2. TypeOK /\ [Next]_vars => [Ledger!Next]_<<audit, saved.audit>>
  BY LedgerStep
<1> QED
  BY <1>1, <1>2, TypeCorrect, PTL DEF Spec, LedgerSpec, Ledger!Spec

-----------------------------------------------------------------------------
(* The item and the end of its trail *)

\* The current item, if there is one, is where the trail ended; without one the
\* subject has no trail yet.
LEMMA CurrentEnds ==
    ASSUME StoryInv, Restarts => Consumable = {}, NEW s \in Subjects
    PROVE  /\ Current(s) # NULL => SameDecision(Current(s), EndState(audit, s))
           /\ Current(s) = NULL => audit[s] = <<>>
BY ModerationConstants DEF StoryInv, Current, Agrees, Complete

\* One subject's share of the invariant after it was acted on.
LEMMA ActedEnds ==
    ASSUME StoryInv, Restarts => Consumable = {}, NEW s \in Subjects, Acted(s)
    PROVE  /\ items'[s] # NULL /\ SameDecision(items'[s], EndState(audit', s))
           /\ cache'[s] # NULL /\ SameDecision(cache'[s], EndState(audit', s))
           /\ \A i \in 1..Len(audit'[s]) :
                 SameDecision(audit'[s][i].previousState,
                     IF i = 1 THEN NewItem ELSE audit'[s][i - 1].nextState)
<1>1. PICK r \in AuditRecord :
        /\ audit'[s] = Append(audit[s], r)
        /\ Current(s) # NULL /\ r.previousState = Current(s)
        /\ items'[s] = r.nextState /\ cache'[s] = r.nextState
  BY DEF Acted
<1>2. audit[s] \in Seq(AuditRecord) /\ Len(audit[s]) \in Nat
  BY DEF StoryInv, TypeOK
<1>3. /\ Len(audit'[s]) = Len(audit[s]) + 1
      /\ audit'[s] # <<>>
      /\ audit'[s][Len(audit[s]) + 1] = r
      /\ \A k \in 1..Len(audit[s]) : audit'[s][k] = audit[s][k]
  <2>1. /\ Len(audit'[s]) = Len(audit[s]) + 1
        /\ audit'[s][Len(audit[s]) + 1] = r
        /\ \A k \in 1..Len(audit[s]) : audit'[s][k] = audit[s][k]
    BY <1>1, <1>2
  <2>2. audit'[s] # <<>>
    <3>1. Len(audit'[s]) # 0
      BY <1>2, <2>1
    <3> QED
      BY <3>1
  <2> QED
    BY <2>1, <2>2
<1>4. r.nextState \in Item /\ r.nextState # NULL
  BY <1>1, NullIsNoItem DEF AuditRecord
<1>5. EndState(audit', s) = r.nextState
  BY <1>3 DEF EndState
<1>6. ASSUME NEW i \in 1..Len(audit'[s])
      PROVE  SameDecision(audit'[s][i].previousState,
                 IF i = 1 THEN NewItem ELSE audit'[s][i - 1].nextState)
  <2>1. CASE i \in 1..Len(audit[s])
    <3>1. audit'[s][i] = audit[s][i]
      BY <1>3, <2>1
    <3>2. i # 1 => audit'[s][i - 1] = audit[s][i - 1]
      <4>1. i # 1 => i - 1 \in 1..Len(audit[s])
        BY <1>2, <2>1
      <4> QED
        BY <1>3, <4>1
    <3> QED
      BY <2>1, <3>1, <3>2 DEF StoryInv, Continuous
  <2>2. CASE i = Len(audit[s]) + 1
    <3>1. audit'[s][i].previousState = Current(s)
          /\ SameDecision(Current(s), EndState(audit, s))
      BY <1>1, <1>3, <2>2, CurrentEnds
    <3>2. CASE audit[s] = <<>>
      BY <2>2, <3>1, <3>2 DEF EndState
    <3>3. CASE audit[s] # <<>>
      <4>1. Len(audit[s]) \in 1..Len(audit[s]) /\ i # 1
            /\ i - 1 = Len(audit[s])
        BY <1>2, <2>2, <3>3
      <4>2. audit'[s][i - 1] = audit[s][Len(audit[s])]
        BY <1>3, <4>1
      <4> QED
        BY <3>1, <3>3, <4>1, <4>2 DEF EndState
    <3> QED
      BY <3>2, <3>3
  <2> QED
    BY <1>2, <1>3, <1>6, <2>1, <2>2
<1> QED
  BY <1>1, <1>4, <1>5, <1>6 DEF SameDecision

\* A copy that follows the current item ends where the trail does.
LEMMA FollowsEnds ==
    ASSUME StoryInv, Restarts => Consumable = {}, NEW s \in Subjects, NEW x,
           Follows(s, x)
    PROVE  x # NULL /\ SameDecision(x, EndState(audit, s))
<1>1. CASE Current(s) = NULL
  <2>1. EndState(audit, s) = NewItem
    BY <1>1, CurrentEnds DEF EndState
  <2> QED
    BY <1>1, <2>1 DEF Follows
<1>2. CASE Current(s) # NULL
  <2>1. SameDecision(Current(s), EndState(audit, s))
    BY <1>2, CurrentEnds
  <2> QED
    BY <1>2, <2>1 DEF Follows, SameDecision
<1> QED
  BY <1>1, <1>2

\* One subject's share of the invariant after it waited.
LEMMA WaitedEnds ==
    ASSUME StoryInv, Restarts => Consumable = {}, NEW s \in Subjects, Waited(s)
    PROVE  /\ items'[s] # NULL => SameDecision(items'[s], EndState(audit', s))
           /\ cache'[s] # NULL => SameDecision(cache'[s], EndState(audit', s))
           /\ Restarts /\ audit'[s] # <<>> => items'[s] # NULL
           /\ ~Restarts /\ audit'[s] # <<>> => cache'[s] # NULL
           /\ \A i \in 1..Len(audit'[s]) :
                 SameDecision(audit'[s][i].previousState,
                     IF i = 1 THEN NewItem ELSE audit'[s][i - 1].nextState)
<1>1. audit'[s] = audit[s] /\ EndState(audit', s) = EndState(audit, s)
  BY DEF Waited, EndState
<1>2. /\ items[s] # NULL => SameDecision(items[s], EndState(audit, s))
      /\ cache[s] # NULL => SameDecision(cache[s], EndState(audit, s))
      /\ Restarts /\ audit[s] # <<>> => items[s] # NULL
      /\ ~Restarts /\ audit[s] # <<>> => cache[s] # NULL
  BY DEF StoryInv, Agrees, Complete
<1>3. Follows(s, items'[s]) => items'[s] # NULL
                               /\ SameDecision(items'[s], EndState(audit, s))
  BY FollowsEnds
<1>4. Follows(s, cache'[s]) => cache'[s] # NULL
                               /\ SameDecision(cache'[s], EndState(audit, s))
  BY FollowsEnds
<1>5. \A i \in 1..Len(audit'[s]) :
         SameDecision(audit'[s][i].previousState,
             IF i = 1 THEN NewItem ELSE audit'[s][i - 1].nextState)
  BY <1>1 DEF StoryInv, Continuous
<1> QED
  BY <1>1, <1>2, <1>3, <1>4, <1>5 DEF Waited

LEMMA StoryInductive ==
    ASSUME StoryInv, Restarts => Consumable = {}, [Next]_vars
    PROVE  StoryInv'
<1>1. TypeOK' /\ (StoryStep \/ snapshot \/ restore)
  BY StepShape, StoryShape DEF StoryInv
<1>2. CASE StoryStep
  <2>1. \A s \in Subjects :
           /\ items'[s] # NULL => SameDecision(items'[s], EndState(audit', s))
           /\ cache'[s] # NULL => SameDecision(cache'[s], EndState(audit', s))
           /\ Restarts /\ audit'[s] # <<>> => items'[s] # NULL
           /\ ~Restarts /\ audit'[s] # <<>> => cache'[s] # NULL
           /\ \A i \in 1..Len(audit'[s]) :
                 SameDecision(audit'[s][i].previousState,
                     IF i = 1 THEN NewItem ELSE audit'[s][i - 1].nextState)
    <3> SUFFICES ASSUME NEW s \in Subjects
                 PROVE  /\ items'[s] # NULL =>
                              SameDecision(items'[s], EndState(audit', s))
                        /\ cache'[s] # NULL =>
                              SameDecision(cache'[s], EndState(audit', s))
                        /\ Restarts /\ audit'[s] # <<>> => items'[s] # NULL
                        /\ ~Restarts /\ audit'[s] # <<>> => cache'[s] # NULL
                        /\ \A i \in 1..Len(audit'[s]) :
                              SameDecision(audit'[s][i].previousState,
                                  IF i = 1 THEN NewItem
                                           ELSE audit'[s][i - 1].nextState)
      OBVIOUS
    <3>1. CASE Acted(s)
      BY <3>1, ActedEnds
    <3>2. CASE Waited(s)
      BY <3>2, WaitedEnds
    <3> QED
      BY <1>2, <3>1, <3>2 DEF StoryStep
  <2>2. saved' = saved
    BY <1>2 DEF StoryStep
  <2>3. Continuous(audit') /\ Agrees(items', audit') /\ Agrees(cache', audit')
    BY <2>1 DEF Continuous, Agrees
  <2>4. /\ Restarts => Complete(items', audit')
        /\ ~Restarts => Complete(cache', audit')
    BY <2>1 DEF Complete
  <2> QED
    BY <1>1, <2>2, <2>3, <2>4 DEF StoryInv
<1>3. CASE snapshot
  BY <1>1, <1>3 DEF snapshot, StoryInv
<1>4. CASE restore
  <2>1. /\ items' = saved.items /\ audit' = saved.audit /\ saved' = saved
        /\ Restarts /\ \A s \in Subjects : cache'[s] = NULL
    BY <1>4 DEF restore
  <2>2. Agrees(cache', audit')
    BY <2>1 DEF Agrees
  <2> QED
    BY <1>1, <2>1, <2>2 DEF StoryInv
<1> QED
  BY <1>1, <1>2, <1>3, <1>4

LEMMA StoryStart == Init => StoryInv
<1> SUFFICES ASSUME Init PROVE StoryInv
  OBVIOUS
<1>1. \A s \in Subjects : /\ audit[s] = <<>> /\ saved.audit[s] = <<>>
                          /\ items[s] = NULL /\ cache[s] = NULL
                          /\ saved.items[s] = NULL
  BY DEF Init
<1> QED
  BY <1>1, InitType DEF StoryInv, Continuous, Agrees, Complete

\* The audit trail of a subject is one story that ends at the item people see,
\* whatever users of the store take away, or however often the process restarts
\* from its snapshots; not both, a restart forgets the copy that makes up for
\* what was taken.
THEOREM StoryTold ==
    ASSUME Restarts => Consumable = {}
    PROVE  Spec => []AuditTellsTheStory
<1>1. Init => StoryInv
  BY StoryStart
<1>2. StoryInv /\ [Next]_vars => StoryInv'
  BY StoryInductive
<1>3. StoryInv => AuditTellsTheStory
  <2> SUFFICES ASSUME StoryInv, NEW s \in Subjects
               PROVE  LET states == <<NewItem>> \o
                                [i \in 1..Len(audit[s]) |->
                                    audit[s][i].nextState]
                      IN  /\ \A i \in 1..Len(audit[s]) :
                                SameDecision(audit[s][i].previousState,
                                             states[i])
                          /\ Current(s) # NULL =>
                                SameDecision(Current(s), states[Len(states)])
    BY DEF AuditTellsTheStory
  <2> DEFINE ends == [i \in 1..Len(audit[s]) |-> audit[s][i].nextState]
             states == <<NewItem>> \o ends
  <2>1. audit[s] \in Seq(AuditRecord) /\ Len(audit[s]) \in Nat
    BY DEF StoryInv, TypeOK
  <2>2. \A i \in 1..Len(audit[s]) : audit[s][i].nextState \in Item
    <3>1. \A i \in 1..Len(audit[s]) : audit[s][i] \in AuditRecord
      BY <2>1
    <3> QED
      BY <3>1 DEF AuditRecord
  <2>3. ends \in Seq(Item) /\ Len(ends) = Len(audit[s])
    BY <2>1, <2>2
  <2>4. /\ Len(states) = Len(audit[s]) + 1
        /\ states[1] = NewItem
        /\ \A i \in 1..Len(audit[s]) : states[i + 1] = ends[i]
    <3>1. NewItem \in Item
      BY DEF NewItem, Item, QueueStatus, Visibility, AppealState
    <3> HIDE DEF ends
    <3> QED
      BY <2>1, <2>3, <3>1
  <2>5. \A i \in 1..Len(audit[s]) :
           states[i] = IF i = 1 THEN NewItem ELSE audit[s][i - 1].nextState
    <3> SUFFICES ASSUME NEW i \in 1..Len(audit[s]), i # 1
                 PROVE  states[i] = audit[s][i - 1].nextState
      BY <2>4
    <3>1. i - 1 \in 1..Len(audit[s]) /\ (i - 1) + 1 = i
      BY <2>1
    <3> HIDE DEF states
    <3> QED
      BY <2>4, <3>1
  <2>6. states[Len(states)] = EndState(audit, s)
    <3>1. CASE audit[s] = <<>>
      BY <2>4, <3>1 DEF EndState
    <3>2. CASE audit[s] # <<>>
      <4>1. Len(audit[s]) \in 1..Len(audit[s])
        BY <2>1, <3>2
      <4> HIDE DEF states
      <4> QED
        BY <2>4, <3>2, <4>1 DEF EndState
    <3> QED
      BY <3>1, <3>2
  <2> HIDE DEF states
  <2>7. \A i \in 1..Len(audit[s]) :
           SameDecision(audit[s][i].previousState, states[i])
    BY <2>5 DEF StoryInv, Continuous
  <2>8. Current(s) # NULL => SameDecision(Current(s), states[Len(states)])
    BY <2>6, CurrentEnds
  <2> QED
    BY <2>7, <2>8 DEF states
<1> QED
  BY <1>1, <1>2, <1>3, PTL DEF Spec

-----------------------------------------------------------------------------
(* Decisions need appeals *)

Decisions == {"resolve-appeal-upheld", "resolve-appeal-rejected"}

\* The records of a trail that are about some actions.
About(trail, s, actions) ==
    {i \in 1..Len(trail[s]) : trail[s][i].action \in actions}

\* Every decision has an opening of its own, and so has the open appeal.
Balanced(trail) ==
    \A s \in Subjects :
        Cardinality(About(trail, s, Decisions))
              + (IF InAppeal(EndState(trail, s)) THEN 1 ELSE 0)
            <= Cardinality(About(trail, s, {"open-appeal"}))

AppealInv == StoryInv /\ Balanced(audit) /\ Balanced(saved.audit)

LEMMA AboutType ==
    ASSUME NEW trail, NEW s, NEW actions, Len(trail[s]) \in Nat
    PROVE  /\ IsFiniteSet(About(trail, s, actions))
           /\ Cardinality(About(trail, s, actions)) \in Nat
<1>1. IsFiniteSet(1..Len(trail[s]))
  BY FS_Interval
<1>2. About(trail, s, actions) \subseteq 1..Len(trail[s])
  BY DEF About
<1>3. IsFiniteSet(About(trail, s, actions))
  BY <1>1, <1>2, FS_Subset
<1> QED
  BY <1>3, FS_CardinalityType

\* One more record counts for the actions it is one of.
LEMMA AboutAppend ==
    ASSUME TypeOK, NEW s \in Subjects, NEW r \in AuditRecord, NEW actions,
           audit'[s] = Append(audit[s], r)
    PROVE  Cardinality(About(audit', s, actions)) =
              Cardinality(About(audit, s, actions))
                  + (IF r.action \in actions THEN 1 ELSE 0)
<1> DEFINE n == Len(audit[s])
<1>1. audit[s] \in Seq(AuditRecord) /\ n \in Nat
  BY DEF TypeOK
<1>2. /\ Len(audit'[s]) = n + 1
      /\ audit'[s][n + 1] = r
      /\ \A k \in 1..n : audit'[s][k] = audit[s][k]
  BY <1>1
<1>3. 1..(n + 1) = (1..n) \union {n + 1} /\ n + 1 \notin 1..n
  BY <1>1
<1>4. IsFiniteSet(About(audit, s, actions))
      /\ Cardinality(About(audit, s, actions)) \in Nat
  BY <1>1, AboutType
<1>5. CASE r.action \in actions
  <2>1. About(audit', s, actions) = About(audit, s, actions) \union {n + 1}
    BY <1>2, <1>3, <1>5 DEF About
  <2>2. n + 1 \notin About(audit, s, actions)
    BY <1>3 DEF About
  <2> QED
    BY <1>4, <1>5, <2>1, <2>2, FS_AddElement
<1>6. CASE r.action \notin actions
  <2>1. About(audit', s, actions) = About(audit, s, actions)
    BY <1>2, <1>3, <1>6 DEF About
  <2> QED
    BY <1>4, <1>6, <2>1
<1> QED
  BY <1>5, <1>6

\* Acting on one subject keeps its balance: a decision ends the appeal it needs.
LEMMA ActedBalance ==
    ASSUME AppealInv, Restarts => Consumable = {}, NEW s \in Subjects, Acted(s)
    PROVE  Cardinality(About(audit', s, Decisions))
                 + (IF InAppeal(EndState(audit', s)) THEN 1 ELSE 0)
               <= Cardinality(About(audit', s, {"open-appeal"}))
<1>1. PICK r \in AuditRecord :
        /\ audit'[s] = Append(audit[s], r)
        /\ Applicable(r.previousState, r.action)
        /\ r.nextState = applyTransition(r.previousState, r.action)
        /\ Current(s) # NULL /\ r.previousState = Current(s)
  BY DEF Acted
<1> DEFINE decided == Cardinality(About(audit, s, Decisions))
           opened == Cardinality(About(audit, s, {"open-appeal"}))
           before == r.previousState
           after == r.nextState
<1>2. TypeOK /\ Len(audit[s]) \in Nat /\ audit[s] \in Seq(AuditRecord)
  BY DEF AppealInv, StoryInv, TypeOK
<1>3. decided \in Nat /\ opened \in Nat
  BY <1>2, AboutType
<1>4. /\ Cardinality(About(audit', s, Decisions)) =
            decided + (IF r.action \in Decisions THEN 1 ELSE 0)
      /\ Cardinality(About(audit', s, {"open-appeal"})) =
            opened + (IF r.action \in {"open-appeal"} THEN 1 ELSE 0)
  BY <1>1, <1>2, AboutAppend
<1>5. InAppeal(EndState(audit, s)) <=> InAppeal(before)
  <2>1. SameDecision(Current(s), EndState(audit, s))
    BY <1>1, CurrentEnds DEF AppealInv
  <2> QED
    BY <1>1, <2>1 DEF SameDecision, InAppeal
<1>6. EndState(audit', s) = after
  <2>1. Len(audit'[s]) = Len(audit[s]) + 1 /\ audit'[s][Len(audit[s]) + 1] = r
    BY <1>1, <1>2
  <2>2. audit'[s] # <<>>
    <3>1. Len(audit'[s]) # 0
      BY <1>2, <2>1
    <3> QED
      BY <3>1
  <2> QED
    BY <2>1, <2>2 DEF EndState
<1>7. decided + (IF InAppeal(before) THEN 1 ELSE 0) <= opened
  BY <1>5 DEF AppealInv, Balanced
<1>8. before \in Item /\ r.action \in PolicyAction
  BY DEF AuditRecord
<1>9. CASE r.action = "open-appeal"
  <2>1. r.action \notin Decisions
    BY <1>9 DEF Decisions
  <2> HIDE DEF decided, opened
  <2> QED
    BY <1>3, <1>4, <1>6, <1>7, <1>9, <2>1
<1>10. CASE r.action \in Decisions
  <2>1. InAppeal(before) /\ r.action # "open-appeal"
    BY <1>1, <1>10 DEF Applicable, Decisions
  <2>2. ~InAppeal(after)
    BY <1>1, <1>8, <1>10
       DEF applyTransition, InAppeal, Decisions, Item
  <2> HIDE DEF decided, opened
  <2> QED
    BY <1>3, <1>4, <1>6, <1>7, <1>10, <2>1, <2>2
<1>11. CASE r.action \notin Decisions /\ r.action # "open-appeal"
  <2>1. InAppeal(after) => InAppeal(before)
    BY <1>1, <1>8, <1>11
       DEF applyTransition, Applicable, InAppeal, Decisions, Item, PolicyAction
  <2> HIDE DEF decided, opened
  <2> QED
    BY <1>3, <1>4, <1>6, <1>7, <1>11, <2>1
<1> QED
  BY <1>9, <1>10, <1>11

LEMMA AppealInductive ==
    ASSUME AppealInv, Restarts => Consumable = {}, [Next]_vars
    PROVE  AppealInv'
<1>1. StoryInv' /\ (StoryStep \/ snapshot \/ restore)
  BY StoryInductive, StoryShape DEF AppealInv, StoryInv
<1>2. CASE StoryStep
  <2>1. saved' = saved
    BY <1>2 DEF StoryStep
  <2>2. ASSUME NEW s \in Subjects
        PROVE  Cardinality(About(audit', s, Decisions))
                     + (IF InAppeal(EndState(audit', s)) THEN 1 ELSE 0)
                   <= Cardinality(About(audit', s, {"open-appeal"}))
    <3>1. CASE Acted(s)
      BY <3>1, ActedBalance
    <3>2. CASE Waited(s)
      <4>1. audit'[s] = audit[s]
        BY <3>2 DEF Waited
      <4>2. /\ About(audit', s, Decisions) = About(audit, s, Decisions)
            /\ About(audit', s, {"open-appeal"}) =
                  About(audit, s, {"open-appeal"})
            /\ EndState(audit', s) = EndState(audit, s)
        BY <4>1 DEF About, EndState
      <4> QED
        BY <4>2 DEF AppealInv, Balanced
    <3> QED
      BY <1>2, <3>1, <3>2 DEF StoryStep
  <2>3. Balanced(audit')
    BY <2>2 DEF Balanced
  <2> QED
    BY <1>1, <2>1, <2>3 DEF AppealInv
<1>3. CASE snapshot
  BY <1>1, <1>3 DEF snapshot, AppealInv
<1>4. CASE restore
  BY <1>1, <1>4 DEF restore, AppealInv
<1> QED
  BY <1>1, <1>2, <1>3, <1>4

\* Nobody's appeal is decided twice: the trail holds at least as many openings
\* as decisions, however escalations, bulk actions and retries interleave.
THEOREM DecisionsAppealed ==
    ASSUME Restarts => Consumable = {}
    PROVE  Spec => []DecisionsNeedAppeals
<1>1. Init => AppealInv
  <2> SUFFICES ASSUME Init PROVE AppealInv
    OBVIOUS
  <2>1. \A s \in Subjects : audit[s] = <<>> /\ saved.audit[s] = <<>>
    BY DEF Init
  <2>2. \A s \in Subjects : \A actions :
           About(audit, s, actions) = {} /\ About(saved.audit, s, actions) = {}
    BY <2>1 DEF About
  <2>3. \A s \in Subjects : ~InAppeal(EndState(audit, s))
                             /\ ~InAppeal(EndState(saved.audit, s))
    BY <2>1 DEF EndState, InAppeal, NewItem
  <2>4. Balanced(audit) /\ Balanced(saved.audit)
    BY <2>2, <2>3, FS_EmptySet DEF Balanced
  <2> QED
    BY <2>4, StoryStart DEF AppealInv
<1>2. AppealInv /\ [Next]_vars => AppealInv'
  BY AppealInductive
<1>3. AppealInv => DecisionsNeedAppeals
  <2> SUFFICES ASSUME AppealInv, NEW s \in Subjects
               PROVE  Count(s, {"resolve-appeal-upheld",
                                "resolve-appeal-rejected"})
                          <= Count(s, {"open-appeal"})
    BY DEF DecisionsNeedAppeals
  <2> DEFINE decided == Cardinality(About(audit, s, Decisions))
             opened == Cardinality(About(audit, s, {"open-appeal"}))
  <2>1. decided \in Nat /\ opened \in Nat
    <3>1. Len(audit[s]) \in Nat
      BY DEF AppealInv, StoryInv, TypeOK
    <3> QED
      BY <3>1, AboutType
  <2>2. /\ Count(s, {"resolve-appeal-upheld", "resolve-appeal-rejected"}) = decided
        /\ Count(s, {"open-appeal"}) = opened
    BY DEF Count, About, Decisions
  <2>3. decided + (IF InAppeal(EndState(audit, s)) THEN 1 ELSE 0) <= opened
    BY DEF AppealInv, Balanced
  <2> HIDE DEF decided, opened
  <2> QED
    BY <2>1, <2>2, <2>3
<1> QED
  BY <1>1, <1>2, <1>3, PTL DEF Spec
=============================================================================
