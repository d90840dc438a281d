--------------------------- MODULE ConnectorSync ----------------------------
(***************************************************************************)
(* services/api/src/connector-service.ts: the instances of one registered  *)
(* connector, and the syncs that callers start on them.                    *)
(*                                                                         *)
(* A sync checks its instance once and then awaits the external system and *)
(* its own timers, attempt after attempt.  Other syncs, health checks,     *)
(* pauses and activations of the same instance run in between.             *)
(*                                                                         *)
(* External: the ConnectorContract implementation of an instance, which    *)
(* answers a call with a result or rejects it.                             *)
(***************************************************************************)
EXTENDS Integers, Sequences, FiniteSets

CONSTANTS
    Instances,      \* instanceIds
    Syncs,          \* bound: executeSyncInbound and executeSyncOutbound calls
    MaxRetries,     \* retryPolicy.maxRetries of the connector
    MaxChecks,      \* bound: health checks of one instance
    NULL            \* no instance, no sync

InstanceStatus == {"configured", "active", "paused"}

\* What syncs and checks read and write of an instance.
ConnectorInstance == [status : InstanceStatus, isHealthy : BOOLEAN]

ASSUME ConnectorConstants ==
    /\ MaxRetries \in Nat
    /\ MaxChecks \in Nat
    /\ NULL \notin Instances \union Syncs \union ConnectorInstance

VARIABLES
    instances,      \* a ConnectorInstance, or none
    connectorImpls, \* the instances with a registered implementation
    sync,           \* each call: where it stands, and its SyncFlowRecord
    checking,       \* health checks of an instance that await an answer
    syncRecords,    \* the calls in the order of their records
    auditTrail      \* the entries about syncs and health

vars == <<instances, connectorImpls, sync, checking, syncRecords, auditTrail>>

\* The statuses of a result; a rejection is not a result.
Result == {"completed", "skipped", "failed"}

NotStarted == [at |-> "idle", instance |-> NULL, attempt |-> 0,
               status |-> "pending", retryCount |-> 0]

Sync == [at : {"idle", "calling", "sleeping", "ended"},
         instance : Instances \union {NULL}, attempt : 0..MaxRetries,
         status : {"pending", "in_progress", "retrying"} \union Result,
         retryCount : 0..(MaxRetries + 1)]

Checks == {"health_check_passed", "health_check_failed"}

Entry == [action : {"sync_started", "sync_retried", "sync_completed",
                    "sync_failed"} \union Checks,
          instance : Instances, sync : Syncs \union {NULL}]

TypeOK ==
    /\ instances \in [Instances -> ConnectorInstance \union {NULL}]
    /\ connectorImpls \subseteq Instances
    /\ sync \in [Syncs -> Sync]
    /\ checking \in [Instances -> 0..MaxChecks]
    /\ syncRecords \in Seq(Syncs)
    /\ auditTrail \in Seq(Entry)

Init ==
    /\ instances = [i \in Instances |-> NULL]
    /\ connectorImpls = {}
    /\ sync = [s \in Syncs |-> NotStarted]
    /\ checking = [i \in Instances |-> 0]
    /\ syncRecords = <<>>
    /\ auditTrail = <<>>

appendAudit(i, s, actions) ==
    auditTrail' = auditTrail \o [k \in 1..Len(actions) |->
        [action |-> actions[k], instance |-> i, sync |-> s]]

-----------------------------------------------------------------------------
(* Instances *)

createInstance(i, healthy) ==
    /\ instances[i] = NULL
    /\ instances' = [instances EXCEPT ![i] = [status |-> "configured",
                                              isHealthy |-> healthy]]
    /\ UNCHANGED <<connectorImpls, sync, checking, syncRecords, auditTrail>>

setStatus(i, status) ==
    /\ instances[i] # NULL
    /\ instances' = [instances EXCEPT ![i].status = status]
    /\ UNCHANGED <<connectorImpls, sync, checking, syncRecords, auditTrail>>

activateInstance(i) == setStatus(i, "active")

pauseInstance(i) == setStatus(i, "paused")

registerImplementation(i) ==
    /\ connectorImpls' = connectorImpls \union {i}
    /\ UNCHANGED <<instances, sync, checking, syncRecords, auditTrail>>

-----------------------------------------------------------------------------
(* Syncs *)

\* With an implementation, up to the await of its first attempt; without, to
\* the end.
executeSync(s, i) ==
    /\ sync[s].at = "idle"
    /\ instances[i] # NULL
    /\ instances[i].status = "active"
    /\ \/ /\ i \in connectorImpls
          /\ sync' = [sync EXCEPT ![s] = [NotStarted EXCEPT
                  !.at = "calling", !.instance = i, !.status = "in_progress"]]
          /\ appendAudit(i, s, <<"sync_started">>)
          /\ UNCHANGED syncRecords
       \/ /\ i \notin connectorImpls
          /\ sync' = [sync EXCEPT ![s] = [NotStarted EXCEPT
                  !.at = "ended", !.instance = i, !.status = "completed"]]
          /\ syncRecords' = Append(syncRecords, s)
          /\ appendAudit(i, s, <<"sync_started", "sync_completed">>)
    /\ UNCHANGED <<instances, connectorImpls, checking>>

\* Faulty variant: a result is recorded under a status of no record.
returnsVerbatim(s, result) ==
    /\ sync[s].at = "calling"
    /\ sync' = [sync EXCEPT ![s] = [@ EXCEPT
            !.at = "ended", !.status = "unknown", !.retryCount = sync[s].attempt]]
    /\ syncRecords' = Append(syncRecords, s)
    /\ appendAudit(sync[s].instance, s, <<>>)
    /\ UNCHANGED <<instances, connectorImpls, checking>>

\* The attempt's call returns a result, whatever its status.
attemptReturns(s, result) ==
    /\ sync[s].at = "calling"
    /\ sync' = [sync EXCEPT ![s] = [@ EXCEPT
            !.at = "ended", !.status = result, !.retryCount = sync[s].attempt]]
    /\ syncRecords' = Append(syncRecords, s)
    /\ appendAudit(sync[s].instance, s,
                   IF result = "completed" THEN <<"sync_completed">> ELSE <<>>)
    /\ UNCHANGED <<instances, connectorImpls, checking>>

\* Faulty variant: the retry that will be slept for is not audited.
rejectedUnaudited(s) ==
    /\ sync[s].at = "calling"
    /\ sync[s].attempt < MaxRetries
    /\ sync' = [sync EXCEPT ![s] = [@ EXCEPT
            !.at = "sleeping", !.status = "retrying", !.retryCount = sync[s].attempt + 1]]
    /\ UNCHANGED <<instances, connectorImpls, checking, syncRecords,
                   auditTrail>>

\* The attempt's call is rejected and there is one more to make.
attemptRejected(s) ==
    /\ sync[s].at = "calling"
    /\ sync[s].attempt < MaxRetries
    /\ sync' = [sync EXCEPT ![s] = [@ EXCEPT
            !.at = "sleeping", !.status = "retrying", !.retryCount = sync[s].attempt + 1]]
    /\ appendAudit(sync[s].instance, s, <<"sync_retried">>)
    /\ UNCHANGED <<instances, connectorImpls, checking, syncRecords>>

\* Faulty variant: the instance keeps its health.
exhaustedUnmarked(s) ==
    /\ sync[s].at = "calling"
    /\ sync[s].attempt = MaxRetries
    /\ sync' = [sync EXCEPT ![s] = [@ EXCEPT
            !.at = "ended", !.status = "failed", !.retryCount = sync[s].attempt + 1]]
    /\ syncRecords' = Append(syncRecords, s)
    /\ appendAudit(sync[s].instance, s, <<"sync_failed">>)
    /\ UNCHANGED <<instances, connectorImpls, checking>>

\* The last attempt's call is rejected.
retriesExhausted(s) ==
    /\ sync[s].at = "calling"
    /\ sync[s].attempt = MaxRetries
    /\ sync' = [sync EXCEPT ![s] = [@ EXCEPT
            !.at = "ended", !.status = "failed", !.retryCount = sync[s].attempt + 1]]
    /\ syncRecords' = Append(syncRecords, s)
    /\ appendAudit(sync[s].instance, s, <<"sync_failed">>)
    /\ instances' = [instances EXCEPT ![sync[s].instance].isHealthy = FALSE]
    /\ UNCHANGED <<connectorImpls, checking>>

\* Faulty variant: the retry is dropped where the instance is not active.
wakeIfActive(s) ==
    /\ sync[s].at = "sleeping"
    /\ instances[sync[s].instance].status = "active"
    /\ sync' = [sync EXCEPT ![s] = [@ EXCEPT
            !.at = "calling", !.attempt = sync[s].attempt + 1]]
    /\ UNCHANGED <<instances, connectorImpls, checking, syncRecords,
                   auditTrail>>

\* The delay is over: the next attempt, without another look at the instance.
wake(s) ==
    /\ sync[s].at = "sleeping"
    /\ sync' = [sync EXCEPT ![s] = [@ EXCEPT
            !.at = "calling", !.attempt = sync[s].attempt + 1]]
    /\ UNCHANGED <<instances, connectorImpls, checking, syncRecords,
                   auditTrail>>

-----------------------------------------------------------------------------
(* Health checks *)

ChecksMade(i) == {k \in 1..Len(auditTrail) : /\ auditTrail[k].action \in Checks
                                             /\ auditTrail[k].instance = i}

\* With an implementation, up to the await of its answer; without, to the end,
\* and it passes whatever the flag says.
checkInstanceHealth(i) ==
    /\ instances[i] # NULL
    /\ Cardinality(ChecksMade(i)) + checking[i] < MaxChecks
    /\ \/ /\ i \in connectorImpls
          /\ checking' = [checking EXCEPT ![i] = @ + 1]
          /\ UNCHANGED auditTrail
       \/ /\ i \notin connectorImpls
          /\ appendAudit(i, NULL, <<"health_check_passed">>)
          /\ UNCHANGED checking
    /\ UNCHANGED <<instances, connectorImpls, sync, syncRecords>>

\* The implementation answers; a rejection counts as unhealthy.
healthAnswered(i, healthy) ==
    /\ checking[i] > 0
    /\ checking' = [checking EXCEPT ![i] = @ - 1]
    /\ instances' = [instances EXCEPT ![i].isHealthy = healthy]
    /\ appendAudit(i, NULL, <<IF healthy THEN "health_check_passed"
                                         ELSE "health_check_failed">>)
    /\ UNCHANGED <<connectorImpls, sync, syncRecords>>

Settles(s) ==
    \/ \E result \in Result : attemptReturns(s, result)
    \/ attemptRejected(s)
    \/ retriesExhausted(s)

Next ==
    \/ \E i \in Instances :
          \/ \E healthy \in BOOLEAN :
                createInstance(i, healthy) \/ healthAnswered(i, healthy)
          \/ activateInstance(i)
          \/ pauseInstance(i)
          \/ registerImplementation(i)
          \/ checkInstanceHealth(i)
          \/ \E s \in Syncs : executeSync(s, i)
    \/ \E s \in Syncs : Settles(s) \/ wake(s)

\* Timers fire, and implementations answer: those of services/api/src/
\* connectors await nothing that might not come.  Nobody has to start a sync.
Fairness == \A s \in Syncs : WF_vars(Settles(s)) /\ WF_vars(wake(s))

Spec == Init /\ [][Next]_vars /\ Fairness

-----------------------------------------------------------------------------
(* Properties *)

\* The entries about one call.
Entries(trail, s) == {k \in 1..Len(trail) : trail[k].sync = s}

\* They are these actions, in this order.
Tells(trail, s, actions) ==
    /\ Cardinality(Entries(trail, s)) = Len(actions)
    /\ \A k \in Entries(trail, s) : trail[k].action =
          actions[Cardinality({j \in Entries(trail, s) : j <= k})]

\* What the trail says of a sync that ended with this record: it started, was
\* retried as often as the record counts, and completed or failed.  A result
\* other than "completed" is the implementation's own and has no entry; only
\* the count tells it from retries that ran out.
Told(record) ==
    LET exhausted == record.retryCount > MaxRetries
        retries == IF exhausted THEN MaxRetries ELSE record.retryCount
    IN  <<"sync_started">>
        \o [k \in 1..retries |-> "sync_retried"]
        \o (IF exhausted THEN <<"sync_failed">>
            ELSE IF record.status = "completed" THEN <<"sync_completed">>
            ELSE <<>>)

\* History and audit trail agree, however the attempts of overlapping syncs
\* interleave: the history has every sync that ended, once, and the trail
\* tells each sync's record from its start to its outcome.
HistoryMatchesAudit ==
    /\ \A s \in Syncs :
          Cardinality({k \in 1..Len(syncRecords) : syncRecords[k] = s})
              = IF sync[s].at = "ended" THEN 1 ELSE 0
    /\ \A s \in Syncs : sync[s].at = "ended" => Tells(auditTrail, s, Told(sync[s]))

\* The entries that say something about an instance's health, and those of
\* them that say it failed.
Evidence(i) ==
    {k \in 1..Len(auditTrail) :
        /\ auditTrail[k].instance = i
        /\ auditTrail[k].action \in {"sync_failed"} \union Checks}

Failures(i) ==
    {k \in Evidence(i) : auditTrail[k].action # "health_check_passed"}

\* Syncs that run out of retries and health checks write one flag: once the
\* trail has a failure of an instance, the instance is as healthy as the last
\* entry about it says, whichever awaited longer and whichever check was
\* passed without an implementation.  (Before, such checks pass although the
\* instance may have been unhealthy from its creation.)
HealthIsLastEvidence ==
    \A i \in Instances : Failures(i) # {} =>
        \A k \in Evidence(i) :
            (\A l \in Evidence(i) : l <= k) =>
                instances[i].isHealthy =
                    (auditTrail[k].action = "health_check_passed")

\* Every sync that was started ends, after finitely many attempts, and shows
\* up in the history.
EverySyncEnds ==
    \A s \in Syncs :
        sync[s].at # "idle" ~> \E k \in 1..Len(syncRecords) : syncRecords[k] = s

\* A paused instance is stopped (docs/architecture/integrations-framework.md:
\* 37), so no attempt begins on it; refuted, only the first attempt of a sync
\* looks at the status.
PausedMakesNoAttempt ==
    [][\A s \in Syncs :
         sync[s].at # "calling" /\ sync'[s].at = "calling" =>
             instances[sync'[s].instance].status = "active"]_vars
=============================================================================
