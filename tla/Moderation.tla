----------------------------- MODULE Moderation -----------------------------
(***************************************************************************)
(* The moderation worker: ModerationReviewQueue of                         *)
(* packages/shared/src/moderation.ts over the queue and audit stores of    *)
(* services/moderation-worker/src, driven by ModerationWorkerService.      *)
(*                                                                         *)
(* No handler awaits anything, so each is one action.  What is hard is the *)
(* sequence: two copies of every item (the store's, which may be taken     *)
(* away, and the queue's own map), an audit trail written after both,      *)
(* retries told apart by idempotency keys, and a restart that starts over  *)
(* from the last snapshots of the two stores.                              *)
(***************************************************************************)
EXTENDS Naturals, Sequences, SequencesExt

CONSTANTS
    Subjects,       \* subject URIs
    Stamps,         \* (actorDid, occurredAt) pairs of policy actions
    Keys,           \* idempotency keys callers make up
    Consumable,     \* subjects that a direct user of the store works on
    Restarts,       \* whether the process may restart
    MaxAudit,       \* bound: audit records per subject
    MaxDepth,       \* bound: the queue-depth gauge
    NULL            \* no item, or no explicit key

ASSUME ModerationConstants ==
    /\ IsFiniteSet(Subjects)
    /\ Consumable \subseteq Subjects
    /\ Restarts \in BOOLEAN
    /\ MaxAudit \in Nat /\ MaxDepth \in Nat
    /\ NULL \notin Keys

VARIABLES
    items,          \* InMemoryQueueStore.items
    cache,          \* ModerationReviewQueue.queueBySubject
    audit,          \* InMemoryAuditStore.records, by subject
    depth,          \* ModerationMetrics.queueDepth
    saved           \* the last snapshot() of both stores

vars == <<items, cache, audit, depth, saved>>

QueueStatus == {"queued", "resolved"}
Visibility == {"visible", "delisted", "suspended"}
AppealState == {"none", "pending", "under-review", "upheld", "rejected"}
PolicyAction ==
    {"delist", "suspend-visibility", "restore-visibility", "open-appeal",
     "start-appeal-review", "resolve-appeal-upheld", "resolve-appeal-rejected"}

Item == [queueStatus : QueueStatus, visibility : Visibility,
         appealState : AppealState]

ASSUME NullIsNoItem == NULL \notin Item

IdempotencyKey == Keys \union (Subjects \X PolicyAction \X Stamps)
AuditRecord == [action : PolicyAction, key : IdempotencyKey,
                previousState : Item, nextState : Item]

TypeOK ==
    /\ items \in [Subjects -> Item \union {NULL}]
    /\ cache \in [Subjects -> Item \union {NULL}]
    /\ audit \in [Subjects -> Seq(AuditRecord)]
    /\ depth \in 0..MaxDepth
    /\ saved.items \in [Subjects -> Item \union {NULL}]
    /\ saved.audit \in [Subjects -> Seq(AuditRecord)]

Init ==
    /\ items = [s \in Subjects |-> NULL]
    /\ cache = [s \in Subjects |-> NULL]
    /\ audit = [s \in Subjects |-> <<>>]
    /\ depth = 0
    /\ saved = [items |-> items, audit |-> audit]

-----------------------------------------------------------------------------
(* One item's policy *)

InAppeal(item) == item.appealState \in {"pending", "under-review"}

\* Faulty variant: any item that ever was under appeal can be decided.
decidableAgain(item, action) ==
    CASE action = "start-appeal-review" -> item.appealState = "pending"
      [] action \in {"resolve-appeal-upheld", "resolve-appeal-rejected"} ->
            item.appealState # "none"
      [] OTHER -> TRUE

\* The actions applyTransition does not throw on.
Applicable(item, action) ==
    CASE action = "start-appeal-review" -> item.appealState = "pending"
      [] action \in {"resolve-appeal-upheld", "resolve-appeal-rejected"} ->
            InAppeal(item)
      [] OTHER -> TRUE

\* Faulty variant: a suspension writes a visibility nobody declared.
suspendsAsHidden(item, action) ==
    IF action = "suspend-visibility"
    THEN [item EXCEPT !.visibility = "hidden", !.queueStatus = "resolved"]
    ELSE [item EXCEPT !.queueStatus = "resolved"]

applyTransition(item, action) ==
    CASE action = "delist" ->
            [item EXCEPT !.visibility = "delisted", !.queueStatus = "resolved"]
      [] action = "suspend-visibility" ->
            [item EXCEPT !.visibility = "suspended", !.queueStatus = "resolved"]
      [] action = "restore-visibility" ->
            [item EXCEPT !.visibility = "visible",
                         !.queueStatus = IF InAppeal(item) THEN "queued"
                                                           ELSE "resolved"]
      [] action = "open-appeal" ->
            [item EXCEPT !.appealState = "pending", !.queueStatus = "queued"]
      [] action = "start-appeal-review" ->
            [item EXCEPT !.appealState = "under-review",
                         !.queueStatus = "queued"]
      [] action = "resolve-appeal-upheld" ->
            [item EXCEPT !.appealState = "upheld", !.queueStatus = "resolved"]
      [] action = "resolve-appeal-rejected" ->
            [item EXCEPT !.appealState = "rejected",
                         !.queueStatus = "resolved"]

\* queueStore.peek(s) ?? queueBySubject.get(s) ?? null
Current(s) == IF items[s] # NULL THEN items[s] ELSE cache[s]

\* Faulty variant: only each subject's latest record is remembered.
usedLast(key) == \E s \in Subjects :
    audit[s] # <<>> /\ audit[s][Len(audit[s])].key = key

Used(key) == \E s \in Subjects : \E i \in 1..Len(audit[s]) :
                audit[s][i].key = key

toIdempotencyKey(s, action, stamp) == <<s, action, stamp>>

\* metrics.recordDequeue, n times.
recordDequeue(n) == depth' = IF depth > n THEN depth - n ELSE 0

\* Faulty variant: the queue's own copy is not brought up to date.
actOnStoreAlone(acted, action, keys) ==
    LET next(s) == applyTransition(Current(s), action)
    IN  /\ \A s \in acted : Len(audit[s]) < MaxAudit
        /\ items' = [s \in Subjects |-> IF s \in acted THEN next(s)
                                                       ELSE items[s]]
        /\ cache' = cache
        /\ audit' = [s \in Subjects |->
                        IF s \in acted
                        THEN Append(audit[s],
                                    [action |-> action, key |-> keys[s],
                                     previousState |-> Current(s),
                                     nextState |-> next(s)])
                        ELSE audit[s]]

\* The items of "acted" change in both copies and each gets an audit record.
Act(acted, action, keys) ==
    LET next(s) == applyTransition(Current(s), action)
    IN  /\ \A s \in acted : Len(audit[s]) < MaxAudit
        /\ items' = [s \in Subjects |-> IF s \in acted THEN next(s)
                                                       ELSE items[s]]
        /\ cache' = [s \in Subjects |-> IF s \in acted THEN next(s)
                                                       ELSE cache[s]]
        /\ audit' = [s \in Subjects |->
                        IF s \in acted
                        THEN Append(audit[s],
                                    [action |-> action, key |-> keys[s],
                                     previousState |-> Current(s),
                                     nextState |-> next(s)])
                        ELSE audit[s]]

-----------------------------------------------------------------------------
(* ModerationWorkerService *)

\* Faulty variant: a new report starts the item over.
reportStartsOver(s) ==
    LET next == [queueStatus |-> "queued", visibility |-> "visible",
                 appealState |-> "none"]
    IN  /\ depth < MaxDepth
        /\ items' = [items EXCEPT ![s] = next]
        /\ cache' = [cache EXCEPT ![s] = next]
        /\ depth' = depth + 1
        /\ UNCHANGED <<audit, saved>>

enqueueFromParams(s) ==
    LET next == IF Current(s) = NULL
                THEN [queueStatus |-> "queued", visibility |-> "visible",
                      appealState |-> "none"]
                ELSE [Current(s) EXCEPT !.queueStatus = "queued"]
    IN  /\ depth < MaxDepth
        /\ items' = [items EXCEPT ![s] = next]
        /\ cache' = [cache EXCEPT ![s] = next]
        /\ depth' = depth + 1
        /\ UNCHANGED <<audit, saved>>

\* A call whose key was used before answers 200 and changes the gauge alone.
applyPolicyFromParams(s, action, explicitKey, stamp) ==
    LET key == IF explicitKey # NULL THEN explicitKey
                                     ELSE toIdempotencyKey(s, action, stamp)
        keys == [t \in {s} |-> key]
    IN  /\ Current(s) # NULL
        /\ \/ Used(key) /\ UNCHANGED <<items, cache, audit>>
           \/ /\ ~Used(key)
              /\ Applicable(Current(s), action)
              /\ Act({s}, action, keys)
        /\ recordDequeue(1)
        /\ UNCHANGED saved

\* One applyPolicyFromParams per subject; a subject that fails is skipped.
bulkTriage(subjects, action, stamp) ==
    LET keyOf(s) == toIdempotencyKey(s, action, stamp)
        found == {s \in subjects : Current(s) # NULL}
        replayed == {s \in found : Used(keyOf(s))}
        acted == {s \in found \ replayed : Applicable(Current(s), action)}
    IN  /\ Act(acted, action, [s \in acted |-> keyOf(s)])
        /\ recordDequeue(Cardinality(replayed \union acted))
        /\ UNCHANGED saved

escalateItem(s, stamp) ==
    /\ Current(s) # NULL
    /\ \/ /\ Current(s).appealState = "none"
          /\ applyPolicyFromParams(s, "open-appeal", NULL, stamp)
       \/ /\ Current(s).appealState = "pending"
          /\ applyPolicyFromParams(s, "start-appeal-review", NULL, stamp)

-----------------------------------------------------------------------------
(* The stores, used directly *)

ack(s) ==
    /\ items[s] # NULL
    /\ items' = [items EXCEPT ![s].queueStatus = "resolved"]
    /\ UNCHANGED <<cache, audit, depth, saved>>

nack(s) ==
    /\ items[s] # NULL
    /\ items' = [items EXCEPT ![s].queueStatus = "queued"]
    /\ UNCHANGED <<cache, audit, depth, saved>>

dequeue(s) ==
    /\ items[s] # NULL
    /\ items' = [items EXCEPT ![s] = NULL]
    /\ UNCHANGED <<cache, audit, depth, saved>>

snapshot ==
    /\ Restarts
    /\ saved' = [items |-> items, audit |-> audit]
    /\ UNCHANGED <<items, cache, audit, depth>>

\* Faulty variant: the queue comes back, the audit store starts empty.
restoreQueueAlone ==
    /\ Restarts
    /\ items' = saved.items
    /\ audit' = [s \in Subjects |-> <<>>]
    /\ cache' = [s \in Subjects |-> NULL]
    /\ depth' = 0
    /\ UNCHANGED saved

\* A new process: fresh stores take the snapshots back, the queue's own map
\* and the gauge start empty.
restore ==
    /\ Restarts
    /\ items' = saved.items
    /\ audit' = saved.audit
    /\ cache' = [s \in Subjects |-> NULL]
    /\ depth' = 0
    /\ UNCHANGED saved

Next ==
    \/ \E s \in Subjects :
          \/ enqueueFromParams(s)
          \/ \E action \in PolicyAction, key \in Keys \union {NULL},
                stamp \in Stamps :
                applyPolicyFromParams(s, action, key, stamp)
          \/ \E stamp \in Stamps : escalateItem(s, stamp)
    \/ \E subjects \in SUBSET Subjects, action \in PolicyAction,
          stamp \in Stamps : bulkTriage(subjects, action, stamp)
    \/ \E s \in Consumable : ack(s) \/ nack(s) \/ dequeue(s)
    \/ snapshot
    \/ restore

Spec == Init /\ [][Next]_vars

-----------------------------------------------------------------------------
(* Properties *)

NewItem == [queueStatus |-> "queued", visibility |-> "visible",
            appealState |-> "none"]

\* Equal but for the queue status, which reports and the store's own users
\* change without an audit record.
SameDecision(a, b) ==
    a.visibility = b.visibility /\ a.appealState = b.appealState

\* The audit trail of a subject is one story: every action starts where the
\* one before it ended, the first from a new item, and the item people see
\* now, from whichever copy, is where the last one ended.
AuditTellsTheStory ==
    \A s \in Subjects :
        LET states == <<NewItem>> \o [i \in 1..Len(audit[s]) |->
                                        audit[s][i].nextState]
        IN  /\ \A i \in 1..Len(audit[s]) :
                  SameDecision(audit[s][i].previousState, states[i])
            /\ Current(s) # NULL =>
                  SameDecision(Current(s), states[Len(states)])

\* A key acts once, on one subject, whoever retries it and across restarts.
KeyActsOnce ==
    \A s, t \in Subjects : \A i \in 1..Len(audit[s]), j \in 1..Len(audit[t]) :
        audit[s][i].key = audit[t][j].key => s = t /\ i = j

Count(s, actions) ==
    Cardinality({i \in 1..Len(audit[s]) : audit[s][i].action \in actions})

\* Nobody's appeal is decided twice: the trail holds at least as many openings
\* as decisions, however escalations, bulk actions and retries interleave.
DecisionsNeedAppeals ==
    \A s \in Subjects :
        Count(s, {"resolve-appeal-upheld", "resolve-appeal-rejected"})
            <= Count(s, {"open-appeal"})

\* What a snapshot holds is never undone: the trail goes on from it, also
\* after a restart.
SnapshotIsKept == \A s \in Subjects : IsPrefix(saved.audit[s], audit[s])

\* A record whose step the policy allows.
LawfulRecord ==
    {r \in AuditRecord :
        /\ Applicable(r.previousState, r.action)
        /\ r.nextState = applyTransition(r.previousState, r.action)}

\* Moderation implements ReviewLedger: trails only grow, by lawful records
\* under fresh keys, and a restart goes back to the snapshot and no further.
Ledger == INSTANCE ReviewLedger WITH
    ledger <- audit, kept <- saved.audit, Lawful <- LawfulRecord
LedgerSpec == Ledger!Spec

\* An item under appeal waits in the queue (docs/operations/moderation-sops.md:
\* 105); refuted, a delisting or suspension during the appeal resolves it.
AppealIsQueued ==
    \A s \in Subjects :
        Current(s) # NULL /\ InAppeal(Current(s)) =>
            Current(s).queueStatus = "queued"

\* A reversed decision restores the content (moderation-sops.md:120); refuted,
\* the visibility stays.
RejectedAppealRestores ==
    \A s \in Subjects : \A i \in 1..Len(audit[s]) :
        audit[s][i].action = "resolve-appeal-rejected" =>
            audit[s][i].nextState.visibility = "visible"

\* The gauge is the number of items in the queue (metrics.ts:125); refuted, it
\* counts calls: an appeal action takes one away and leaves the item queued.
DepthIsQueueLength ==
    depth = Cardinality({s \in Subjects :
                Current(s) # NULL /\ Current(s).queueStatus = "queued"})
=============================================================================
