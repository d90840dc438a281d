-------------------------- MODULE ConnectorProofs ---------------------------
(***************************************************************************)
(* Proofs about ConnectorSync, for any instances, syncs and retries.       *)
(***************************************************************************)
EXTENDS ConnectorSync, FiniteSetTheorems, SequenceTheorems, TLAPS

Action == {"sync_started", "sync_retried", "sync_completed", "sync_failed"}
             \union Checks

-----------------------------------------------------------------------------
(* Types *)

\* A call that runs has an existing instance, and one that sleeps has another
\* attempt to make.
CallsInv ==
    \A s \in Syncs :
        /\ sync[s].at # "idle" => /\ sync[s].instance \in Instances
                                  /\ instances[sync[s].instance] # NULL
        /\ sync[s].at = "sleeping" => sync[s].attempt < MaxRetries

\* Only existing instances are checked.
ChecksInv == \A i \in Instances : checking[i] > 0 => instances[i] # NULL

\* The trail is about existing instances.
TrailInv ==
    \A k \in 1..Len(auditTrail) : instances[auditTrail[k].instance] # NULL

TypeInv == TypeOK /\ CallsInv /\ ChecksInv /\ TrailInv

\* What is appended to the trail keeps the entries before it.
LEMMA Appended ==
    ASSUME auditTrail \in Seq(Entry), NEW i \in Instances,
           NEW s \in Syncs \union {NULL}, NEW actions \in Seq(Action),
           appendAudit(i, s, actions)
    PROVE  /\ auditTrail' \in Seq(Entry)
           /\ Len(auditTrail') = Len(auditTrail) + Len(actions)
           /\ \A k \in 1..Len(auditTrail) : auditTrail'[k] = auditTrail[k]
           /\ \A k \in 1..Len(actions) :
                 auditTrail'[Len(auditTrail) + k] =
                     [action |-> actions[k], instance |-> i, sync |-> s]
<1> DEFINE new == [k \in 1..Len(actions) |->
                      [action |-> actions[k], instance |-> i, sync |-> s]]
<1>1. new \in Seq(Entry)
  <2>1. \A k \in 1..Len(actions) :
            [action |-> actions[k], instance |-> i, sync |-> s] \in Entry
    BY DEF Entry, Action
  <2> QED
    BY <2>1
<1>2. Len(new) = Len(actions)
  OBVIOUS
<1>3. auditTrail' = auditTrail \o new
  BY DEF appendAudit
<1>4. \A k \in 1..Len(actions) :
          new[k] = [action |-> actions[k], instance |-> i, sync |-> s]
  OBVIOUS
<1> HIDE DEF new
<1>5. /\ auditTrail \o new \in Seq(Entry)
      /\ Len(auditTrail \o new) = Len(auditTrail) + Len(new)
      /\ \A k \in 1..(Len(auditTrail) + Len(new)) : (auditTrail \o new)[k] =
            IF k <= Len(auditTrail) THEN auditTrail[k]
                                    ELSE new[k - Len(auditTrail)]
  BY <1>1, ConcatProperties
<1>6. \A k \in 1..Len(auditTrail) : auditTrail'[k] = auditTrail[k]
  <2> TAKE k \in 1..Len(auditTrail)
  <2>1. k \in 1..(Len(auditTrail) + Len(new)) /\ k <= Len(auditTrail)
    BY <1>1, LenProperties
  <2> QED
    BY <1>3, <1>5, <2>1
<1>7. \A k \in 1..Len(actions) : auditTrail'[Len(auditTrail) + k] = new[k]
  <2> TAKE k \in 1..Len(actions)
  <2>1. /\ Len(auditTrail) + k \in 1..(Len(auditTrail) + Len(new))
        /\ ~(Len(auditTrail) + k <= Len(auditTrail))
        /\ Len(auditTrail) + k - Len(auditTrail) = k
    BY <1>2, LenProperties
  <2> QED
    BY <1>3, <1>5, <2>1
<1> QED
  BY <1>2, <1>3, <1>4, <1>5, <1>6, <1>7

LEMMA InitTypeInv == Init => TypeInv
BY ConnectorConstants
   DEF Init, TypeInv, TypeOK, CallsInv, ChecksInv, TrailInv, NotStarted, Sync,
       Entry, Result

\* A trail stays about existing instances where it is left alone or appended to.
LEMMA TrailKept ==
    ASSUME TypeInv,
           instances' \in [Instances -> ConnectorInstance \union {NULL}],
           \A j \in Instances : instances[j] # NULL => instances'[j] # NULL,
           NEW i \in Instances, NEW s \in Syncs \union {NULL},
           NEW actions \in Seq(Action), appendAudit(i, s, actions),
           instances[i] # NULL
    PROVE  auditTrail' \in Seq(Entry) /\ TrailInv'
<1>1. /\ auditTrail' \in Seq(Entry)
      /\ Len(auditTrail') = Len(auditTrail) + Len(actions)
      /\ \A k \in 1..Len(auditTrail) : auditTrail'[k] = auditTrail[k]
      /\ \A k \in 1..Len(actions) :
            auditTrail'[Len(auditTrail) + k] =
                [action |-> actions[k], instance |-> i, sync |-> s]
  BY Appended DEF TypeInv, TypeOK
<1>2. ASSUME NEW k \in 1..Len(auditTrail')
      PROVE  instances'[auditTrail'[k].instance] # NULL
  <2>1. CASE k <= Len(auditTrail)
    <3>1. k \in 1..Len(auditTrail)
      BY <2>1, LenProperties DEF TypeInv, TypeOK
    <3>2. auditTrail[k] \in Entry
      BY <3>1 DEF TypeInv, TypeOK
    <3> QED
      BY <1>1, <3>1, <3>2 DEF TypeInv, TrailInv, Entry
  <2>2. CASE k > Len(auditTrail)
    <3>1. Len(auditTrail) \in Nat /\ Len(actions) \in Nat
      BY LenProperties DEF TypeInv, TypeOK
    <3>2. k - Len(auditTrail) \in 1..Len(actions)
      BY <1>1, <2>2, <3>1
    <3>3. PICK n \in 1..Len(actions) : n = k - Len(auditTrail)
      BY <3>2
    <3>4. auditTrail'[Len(auditTrail) + n] =
              [action |-> actions[n], instance |-> i, sync |-> s]
      BY <1>1, <3>3
    <3>5. Len(auditTrail) + n = k
      BY <3>1, <3>3
    <3>6. auditTrail'[k].instance = i
      BY <3>4, <3>5
    <3> QED
      BY <3>6
  <2>3. k \in Nat /\ Len(auditTrail) \in Nat
    BY <1>1, LenProperties DEF TypeInv, TypeOK
  <2> QED
    BY <2>1, <2>2, <2>3
<1> QED
  BY <1>1, <1>2 DEF TrailInv

\* What is common to the steps that append nothing.
LEMMA TrailUnchanged ==
    ASSUME TypeInv, UNCHANGED auditTrail,
           \A j \in Instances : instances[j] # NULL => instances'[j] # NULL
    PROVE  auditTrail' \in Seq(Entry) /\ TrailInv'
<1>1. \A k \in 1..Len(auditTrail) : auditTrail[k] \in Entry
  BY DEF TypeInv, TypeOK
<1> QED
  BY <1>1 DEF TypeInv, TypeOK, TrailInv, Entry

\* Records that move on are records.
LEMMA RecordMoves ==
    \A record \in Sync, status \in {"retrying"} \union Result,
       count \in 0..(MaxRetries + 1), attempt \in 0..MaxRetries :
        /\ [record EXCEPT !.at = "ended", !.status = status,
                          !.retryCount = count] \in Sync
        /\ [record EXCEPT !.at = "sleeping", !.status = status,
                          !.retryCount = count] \in Sync
        /\ [record EXCEPT !.at = "calling", !.attempt = attempt] \in Sync
BY DEF Sync

\* A call that moves on keeps the calls as they have to be.
LEMMA CallMoves ==
    TypeInv =>
    \A s \in Syncs, record \in Sync :
        /\ sync' = [sync EXCEPT ![s] = record]
        /\ \A j \in Instances : instances[j] # NULL => instances'[j] # NULL
        /\ record.instance \in Instances
        /\ instances[record.instance] # NULL
        /\ record.at = "sleeping" => record.attempt < MaxRetries
        => sync' \in [Syncs -> Sync] /\ CallsInv'
BY DEF TypeInv, TypeOK, CallsInv

LEMMA NextTypeInv ==
    ASSUME TypeInv, [Next]_vars
    PROVE  TypeInv'
<1>1. CASE UNCHANGED vars
  BY <1>1 DEF vars, TypeInv, TypeOK, CallsInv, ChecksInv, TrailInv
<1>2. ASSUME NEW i \in Instances, NEW healthy \in BOOLEAN,
             createInstance(i, healthy)
      PROVE  TypeInv'
  <2>1. /\ instances' \in [Instances -> ConnectorInstance \union {NULL}]
        /\ \A j \in Instances : instances[j] # NULL => instances'[j] # NULL
    BY <1>2 DEF createInstance, TypeInv, TypeOK, ConnectorInstance, InstanceStatus
  <2>2. auditTrail' \in Seq(Entry) /\ TrailInv'
    BY <1>2, <2>1, TrailUnchanged DEF createInstance
  <2> QED
    BY <1>2, <2>1, <2>2
       DEF createInstance, TypeInv, TypeOK, CallsInv, ChecksInv
<1>3. ASSUME NEW i \in Instances, NEW status \in InstanceStatus,
             setStatus(i, status)
      PROVE  TypeInv'
  <2>1. /\ instances' \in [Instances -> ConnectorInstance \union {NULL}]
        /\ \A j \in Instances : instances[j] # NULL => instances'[j] # NULL
    BY <1>3, ConnectorConstants
       DEF setStatus, TypeInv, TypeOK, ConnectorInstance
  <2>2. auditTrail' \in Seq(Entry) /\ TrailInv'
    BY <1>3, <2>1, TrailUnchanged DEF setStatus
  <2> QED
    BY <1>3, <2>1, <2>2 DEF setStatus, TypeInv, TypeOK, CallsInv, ChecksInv
<1>4. ASSUME NEW i \in Instances, registerImplementation(i)
      PROVE  TypeInv'
  BY <1>4 DEF registerImplementation, TypeInv, TypeOK, CallsInv, ChecksInv,
              TrailInv
<1>5. ASSUME NEW i \in Instances, NEW s \in Syncs, executeSync(s, i)
      PROVE  TypeInv'
  <2>1. instances[i] # NULL
    BY <1>5 DEF executeSync
  <2>2. sync' \in [Syncs -> Sync] /\ CallsInv'
    <3>1. PICK record \in {[at |-> "calling", instance |-> i, attempt |-> 0,
                            status |-> "in_progress", retryCount |-> 0],
                           [at |-> "ended", instance |-> i, attempt |-> 0,
                            status |-> "completed", retryCount |-> 0]} :
              sync' = [sync EXCEPT ![s] = record]
      BY <1>5 DEF executeSync, NotStarted
    <3>2. record \in Sync
      BY ConnectorConstants DEF Sync, Result
    <3>3. record.instance = i /\ record.at # "sleeping"
      OBVIOUS
    <3> QED
      BY <1>5, <2>1, <3>1, <3>2, <3>3, CallMoves DEF executeSync
  <2>3. PICK actions \in Seq(Action) : appendAudit(i, s, actions)
    <3>1. <<"sync_started">> \in Seq(Action)
      BY DEF Action
    <3>2. <<"sync_started", "sync_completed">> \in Seq(Action)
      BY DEF Action
    <3> QED
      BY <1>5, <3>1, <3>2 DEF executeSync
  <2>4. auditTrail' \in Seq(Entry) /\ TrailInv'
    BY <1>5, <2>1, <2>3, TrailKept DEF executeSync, TypeInv, TypeOK
  <2>5. syncRecords' \in Seq(Syncs)
    <3>1. syncRecords' = syncRecords \/ syncRecords' = Append(syncRecords, s)
      BY <1>5 DEF executeSync
    <3>2. syncRecords \in Seq(Syncs)
      BY DEF TypeInv, TypeOK
    <3>3. Append(syncRecords, s) \in Seq(Syncs)
      BY <3>2, AppendProperties
    <3> QED
      BY <3>1, <3>2, <3>3
  <2>6. UNCHANGED <<instances, connectorImpls, checking>>
    BY <1>5 DEF executeSync
  <2> QED
    BY <2>2, <2>4, <2>5, <2>6 DEF TypeInv, TypeOK, ChecksInv
<1>6. ASSUME NEW s \in Syncs, NEW result \in Result,
             attemptReturns(s, result)
      PROVE  TypeInv'
  <2>1. /\ sync[s].instance \in Instances
        /\ instances[sync[s].instance] # NULL
    BY <1>6 DEF attemptReturns, TypeInv, CallsInv
  <2>2. sync' \in [Syncs -> Sync] /\ CallsInv'
    <3>1. sync[s] \in Sync
      BY DEF TypeInv, TypeOK
    <3> DEFINE record == [sync[s] EXCEPT
                                   !.at = "ended", !.status = result,
                                   !.retryCount = sync[s].attempt]
    <3>2. sync' = [sync EXCEPT ![s] = record]
      BY <1>6 DEF attemptReturns
    <3>3. record \in Sync
      <4>1. sync[s].attempt \in 0..(MaxRetries + 1)
        BY <3>1, ConnectorConstants DEF Sync
      <4>2. result \in {"retrying"} \union Result /\ 0 \in 0..MaxRetries
        BY ConnectorConstants DEF Result
      <4> QED
        BY <3>1, <4>1, <4>2, RecordMoves
    <3>4. /\ record.instance \in Instances
          /\ instances[record.instance] # NULL
          /\ record.at = "sleeping" => record.attempt < MaxRetries
      BY <1>6, <2>1 DEF attemptReturns
    <3> HIDE DEF record
    <3> QED
      BY <1>6, <3>2, <3>3, <3>4, CallMoves DEF attemptReturns
  <2>3. PICK actions \in Seq(Action) :
            appendAudit(sync[s].instance, s, actions)
    <3>1. <<"sync_completed">> \in Seq(Action) /\ <<>> \in Seq(Action)
      BY DEF Action
    <3> QED
      BY <1>6, <3>1 DEF attemptReturns
  <2>4. auditTrail' \in Seq(Entry) /\ TrailInv'
    BY <1>6, <2>1, <2>3, TrailKept DEF attemptReturns, TypeInv, TypeOK
  <2>5. syncRecords' \in Seq(Syncs)
    BY <1>6 DEF attemptReturns, TypeInv, TypeOK
  <2> QED
    BY <1>6, <2>2, <2>4, <2>5 DEF attemptReturns, TypeInv, TypeOK, ChecksInv
<1>7. ASSUME NEW s \in Syncs, attemptRejected(s)
      PROVE  TypeInv'
  <2>1. /\ sync[s].instance \in Instances
        /\ instances[sync[s].instance] # NULL
    BY <1>7 DEF attemptRejected, TypeInv, CallsInv
  <2>2. sync' \in [Syncs -> Sync] /\ CallsInv'
    <3>1. sync[s] \in Sync
      BY DEF TypeInv, TypeOK
    <3> DEFINE record == [sync[s] EXCEPT
                                   !.at = "sleeping", !.status = "retrying",
                                   !.retryCount = sync[s].attempt + 1]
    <3>2. sync' = [sync EXCEPT ![s] = record]
      BY <1>7 DEF attemptRejected
    <3>3. record \in Sync
      <4>1. sync[s].attempt + 1 \in 0..(MaxRetries + 1)
        BY <3>1, ConnectorConstants DEF Sync
      <4>2. "retrying" \in {"retrying"} \union Result /\ 0 \in 0..MaxRetries
        BY ConnectorConstants DEF Result
      <4> QED
        BY <3>1, <4>1, <4>2, RecordMoves
    <3>4. /\ record.instance \in Instances
          /\ instances[record.instance] # NULL
          /\ record.at = "sleeping" => record.attempt < MaxRetries
      BY <1>7, <2>1 DEF attemptRejected
    <3> HIDE DEF record
    <3> QED
      BY <1>7, <3>2, <3>3, <3>4, CallMoves DEF attemptRejected
  <2>3. <<"sync_retried">> \in Seq(Action)
    BY DEF Action
  <2>4. auditTrail' \in Seq(Entry) /\ TrailInv'
    BY <1>7, <2>1, <2>3, TrailKept DEF attemptRejected, TypeInv, TypeOK
  <2> QED
    BY <1>7, <2>2, <2>4 DEF attemptRejected, TypeInv, TypeOK, ChecksInv
<1>8. ASSUME NEW s \in Syncs, retriesExhausted(s)
      PROVE  TypeInv'
  <2>1. /\ sync[s].instance \in Instances
        /\ instances[sync[s].instance] \in ConnectorInstance
    BY <1>8 DEF retriesExhausted, TypeInv, TypeOK, CallsInv
  <2>2. /\ instances' \in [Instances -> ConnectorInstance \union {NULL}]
        /\ \A j \in Instances : instances[j] # NULL => instances'[j] # NULL
    BY <1>8, <2>1, ConnectorConstants
       DEF retriesExhausted, TypeInv, TypeOK, ConnectorInstance
  <2>3. sync' \in [Syncs -> Sync] /\ CallsInv'
    <3>1. sync[s] \in Sync
      BY DEF TypeInv, TypeOK
    <3> DEFINE record == [sync[s] EXCEPT
                                   !.at = "ended", !.status = "failed",
                                   !.retryCount = sync[s].attempt + 1]
    <3>2. sync' = [sync EXCEPT ![s] = record]
      BY <1>8 DEF retriesExhausted
    <3>3. record \in Sync
      <4>1. sync[s].attempt + 1 \in 0..(MaxRetries + 1)
        BY <3>1, ConnectorConstants DEF Sync
      <4>2. "failed" \in {"retrying"} \union Result /\ 0 \in 0..MaxRetries
        BY ConnectorConstants DEF Result
      <4> QED
        BY <3>1, <4>1, <4>2, RecordMoves
    <3>4. /\ record.instance \in Instances
          /\ instances[record.instance] # NULL
          /\ record.at = "sleeping" => record.attempt < MaxRetries
      BY <2>1, ConnectorConstants
    <3> HIDE DEF record
    <3> QED
      BY <2>2, <3>2, <3>3, <3>4, CallMoves
  <2>4. <<"sync_failed">> \in Seq(Action)
    BY DEF Action
  <2>5. instances[sync[s].instance] # NULL
    BY <2>1, ConnectorConstants
  <2>6. auditTrail' \in Seq(Entry) /\ TrailInv'
    BY <1>8, <2>1, <2>2, <2>4, <2>5, TrailKept DEF retriesExhausted
  <2>7. syncRecords' \in Seq(Syncs)
    BY <1>8 DEF retriesExhausted, TypeInv, TypeOK
  <2> QED
    BY <1>8, <2>2, <2>3, <2>6, <2>7
       DEF retriesExhausted, TypeInv, TypeOK, ChecksInv
<1>9. ASSUME NEW s \in Syncs, wake(s)
      PROVE  TypeInv'
  <2>1. /\ sync[s].instance \in Instances
        /\ instances[sync[s].instance] # NULL
        /\ sync[s].attempt < MaxRetries
    BY <1>9 DEF wake, TypeInv, CallsInv
  <2>2. sync' \in [Syncs -> Sync] /\ CallsInv'
    <3>1. sync[s] \in Sync
      BY DEF TypeInv, TypeOK
    <3> DEFINE record == [sync[s] EXCEPT
                                   !.at = "calling",
                                   !.attempt = sync[s].attempt + 1]
    <3>2. sync' = [sync EXCEPT ![s] = record]
      BY <1>9 DEF wake
    <3>3. record \in Sync
      <4>1. sync[s].attempt + 1 \in 0..MaxRetries
        BY <2>1, <3>1, ConnectorConstants DEF Sync
      <4>2. "retrying" \in {"retrying"} \union Result /\ 0 \in 0..(MaxRetries + 1)
        BY ConnectorConstants
      <4> QED
        BY <3>1, <4>1, <4>2, RecordMoves
    <3>4. /\ record.instance \in Instances
          /\ instances[record.instance] # NULL
          /\ record.at = "sleeping" => record.attempt < MaxRetries
      BY <1>9, <2>1 DEF wake
    <3> HIDE DEF record
    <3> QED
      BY <1>9, <3>2, <3>3, <3>4, CallMoves DEF wake
  <2>3. UNCHANGED <<instances, connectorImpls, checking, syncRecords, auditTrail>>
    BY <1>9 DEF wake
  <2>4. auditTrail' \in Seq(Entry) /\ TrailInv'
    BY <2>3, TrailUnchanged
  <2> QED
    BY <2>2, <2>3, <2>4 DEF TypeInv, TypeOK, ChecksInv
<1>10. ASSUME NEW i \in Instances, checkInstanceHealth(i)
       PROVE  TypeInv'
  <2>1. instances[i] # NULL
    BY <1>10 DEF checkInstanceHealth
  <2>2. Cardinality(ChecksMade(i)) \in Nat
    <3>1. IsFiniteSet(1..Len(auditTrail))
      BY FS_Interval, LenProperties DEF TypeInv, TypeOK
    <3>2. ChecksMade(i) \in SUBSET (1..Len(auditTrail))
      BY DEF ChecksMade
    <3> QED
      BY <3>1, <3>2, FS_Subset, FS_CardinalityType
  <2>3. checking' \in [Instances -> 0..MaxChecks] /\ ChecksInv'
    <3>1. checking[i] \in 0..MaxChecks
      BY DEF TypeInv, TypeOK
    <3>2. checking[i] + 1 \in 0..MaxChecks
      BY <1>10, <2>2, <3>1, ConnectorConstants DEF checkInstanceHealth
    <3>3. \/ checking' = [checking EXCEPT ![i] = checking[i] + 1]
          \/ UNCHANGED checking
      BY <1>10 DEF checkInstanceHealth
    <3>4. UNCHANGED instances
      BY <1>10 DEF checkInstanceHealth
    <3> QED
      BY <2>1, <3>2, <3>3, <3>4 DEF TypeInv, TypeOK, ChecksInv
  <2>4. <<"health_check_passed">> \in Seq(Action)
    BY DEF Action, Checks
  <2>5. auditTrail' \in Seq(Entry) /\ TrailInv'
    <3>1. CASE UNCHANGED auditTrail
      BY <1>10, <3>1, TrailUnchanged DEF checkInstanceHealth
    <3>2. CASE appendAudit(i, NULL, <<"health_check_passed">>)
      BY <1>10, <2>1, <2>4, <3>2, TrailKept
         DEF checkInstanceHealth, TypeInv, TypeOK
    <3> QED
      BY <1>10, <3>1, <3>2 DEF checkInstanceHealth
  <2> QED
    BY <1>10, <2>3, <2>5 DEF checkInstanceHealth, TypeInv, TypeOK, CallsInv
<1>11. ASSUME NEW i \in Instances, NEW healthy \in BOOLEAN,
              healthAnswered(i, healthy)
       PROVE  TypeInv'
  <2>1. instances[i] # NULL /\ instances[i] \in ConnectorInstance
    BY <1>11 DEF healthAnswered, TypeInv, TypeOK, ChecksInv
  <2>2. /\ instances' \in [Instances -> ConnectorInstance \union {NULL}]
        /\ \A j \in Instances : instances[j] # NULL => instances'[j] # NULL
    BY <1>11, <2>1, ConnectorConstants
       DEF healthAnswered, TypeInv, TypeOK, ConnectorInstance
  <2>3. checking' \in [Instances -> 0..MaxChecks] /\ ChecksInv'
    BY <1>11, <2>1, <2>2, ConnectorConstants
       DEF healthAnswered, TypeInv, TypeOK, ChecksInv
  <2>4. <<IF healthy THEN "health_check_passed" ELSE "health_check_failed">>
            \in Seq(Action)
    BY DEF Action, Checks
  <2>5. auditTrail' \in Seq(Entry) /\ TrailInv'
    BY <1>11, <2>1, <2>2, <2>4, TrailKept DEF healthAnswered
  <2> QED
    BY <1>11, <2>2, <2>3, <2>5 DEF healthAnswered, TypeInv, TypeOK, CallsInv
<1> QED
  BY <1>1, <1>2, <1>3, <1>4, <1>5, <1>6, <1>7, <1>8, <1>9, <1>10, <1>11
     DEF Next, Settles, activateInstance, pauseInstance, InstanceStatus

\* Every reachable state is well-typed: no sync makes more attempts than its
\* policy allows, none runs on an instance that does not exist, and no answer
\* is given to a check that nobody made.
THEOREM TypeCorrect == Spec => []TypeOK
<1>1. TypeInv /\ [Next]_vars => TypeInv'
  BY NextTypeInv
<1>2. TypeInv => TypeOK
  BY DEF TypeInv
<1> QED
  BY InitTypeInv, <1>1, <1>2, PTL DEF Spec

-----------------------------------------------------------------------------
(* Health *)

EvidenceAction == {"sync_failed"} \union Checks
FailureAction == {"sync_failed", "health_check_failed"}

\* What waits for an implementation has one, and so does every instance that
\* was found unhealthy: no check of it is passed without asking any more.
ImplementedInv ==
    /\ \A s \in Syncs : sync[s].at \in {"calling", "sleeping"} =>
                             sync[s].instance \in connectorImpls
    /\ \A i \in Instances : checking[i] > 0 => i \in connectorImpls
    /\ \A k \in 1..Len(auditTrail) : auditTrail[k].action \in FailureAction =>
                                         auditTrail[k].instance \in connectorImpls

\* A step that appends nothing about health and leaves the flags of existing
\* instances as they are.
LEMMA HealthLeftAlone ==
    ASSUME TypeInv, HealthIsLastEvidence,
           \A j \in Instances : instances[j] # NULL =>
               instances'[j].isHealthy = instances[j].isHealthy,
           \A k \in 1..Len(auditTrail) :
               k \in 1..Len(auditTrail') /\ auditTrail'[k] = auditTrail[k],
           \A k \in 1..Len(auditTrail') : k \notin 1..Len(auditTrail) =>
               auditTrail'[k].action \notin EvidenceAction
    PROVE  HealthIsLastEvidence'
<1> SUFFICES ASSUME NEW i \in Instances, Failures(i)' # {},
                    NEW k \in Evidence(i)', \A l \in Evidence(i)' : l <= k
             PROVE  instances'[i].isHealthy =
                        (auditTrail'[k].action = "health_check_passed")
  BY DEF HealthIsLastEvidence
<1>1. Evidence(i)' = Evidence(i)
  BY DEF Evidence, EvidenceAction
<1>2. k \in 1..Len(auditTrail) /\ auditTrail[k].instance = i
  BY <1>1 DEF Evidence
<1>3. instances[i] # NULL
  BY <1>2 DEF TypeInv, TrailInv
<1>4. Failures(i) # {}
  BY <1>1 DEF Failures, Evidence
<1>5. instances[i].isHealthy = (auditTrail[k].action = "health_check_passed")
  BY <1>1, <1>4 DEF HealthIsLastEvidence
<1> QED
  BY <1>2, <1>3, <1>5

\* A step that appends one entry about an instance's health and sets its flag
\* to what the entry says.
LEMMA HealthTold ==
    ASSUME TypeInv, HealthIsLastEvidence, NEW i \in Instances,
           Len(auditTrail') = Len(auditTrail) + 1,
           \A k \in 1..Len(auditTrail) : auditTrail'[k] = auditTrail[k],
           auditTrail'[Len(auditTrail) + 1].instance = i,
           auditTrail'[Len(auditTrail) + 1].action \in EvidenceAction,
           \/ instances'[i].isHealthy =
                  (auditTrail'[Len(auditTrail) + 1].action = "health_check_passed")
           \/ Failures(i)' = {},
           \A j \in Instances : j # i => instances'[j] = instances[j]
    PROVE  HealthIsLastEvidence'
<1>0. Len(auditTrail) \in Nat
  BY LenProperties DEF TypeInv, TypeOK
<1> SUFFICES ASSUME NEW j \in Instances, Failures(j)' # {},
                    NEW k \in Evidence(j)', \A l \in Evidence(j)' : l <= k
             PROVE  instances'[j].isHealthy =
                        (auditTrail'[k].action = "health_check_passed")
  BY DEF HealthIsLastEvidence
<1>1. CASE j = i
  <2>1. Len(auditTrail) + 1 \in Evidence(i)'
    BY <1>0 DEF Evidence, EvidenceAction
  <2>2. k = Len(auditTrail) + 1
    BY <1>0, <1>1, <2>1 DEF Evidence
  <2> QED
    BY <1>1, <2>2
<1>2. CASE j # i
  <2>1. Evidence(j)' = Evidence(j)
    BY <1>0, <1>2 DEF Evidence, EvidenceAction
  <2>2. k \in 1..Len(auditTrail)
    BY <2>1 DEF Evidence
  <2>3. Failures(j) # {}
    BY <2>1 DEF Failures, Evidence
  <2>4. instances[j].isHealthy = (auditTrail[k].action = "health_check_passed")
    BY <2>1, <2>3 DEF HealthIsLastEvidence
  <2> QED
    BY <1>2, <2>2, <2>4
<1> QED
  BY <1>1, <1>2

\* Appending actions that say nothing about health.
LEMMA HealthUntold ==
    ASSUME TypeInv, HealthIsLastEvidence, UNCHANGED instances,
           NEW i \in Instances, NEW s \in Syncs \union {NULL},
           NEW actions \in Seq(Action \ EvidenceAction),
           appendAudit(i, s, actions)
    PROVE  HealthIsLastEvidence'
<1>1. actions \in Seq(Action)
  OBVIOUS
<1>2. /\ Len(auditTrail') = Len(auditTrail) + Len(actions)
      /\ \A k \in 1..Len(auditTrail) : auditTrail'[k] = auditTrail[k]
      /\ \A k \in 1..Len(actions) :
            auditTrail'[Len(auditTrail) + k] =
                [action |-> actions[k], instance |-> i, sync |-> s]
  BY <1>1, Appended DEF TypeInv, TypeOK
<1>3. Len(auditTrail) \in Nat /\ Len(actions) \in Nat
  BY LenProperties DEF TypeInv, TypeOK
<1>4. \A k \in 1..Len(auditTrail) : k \in 1..Len(auditTrail')
  BY <1>2, <1>3
<1>5. ASSUME NEW k \in 1..Len(auditTrail'), k \notin 1..Len(auditTrail)
      PROVE  auditTrail'[k].action \notin EvidenceAction
  <2>0. k - Len(auditTrail) \in 1..Len(actions)
    <3>1. k \in 1..(Len(auditTrail) + Len(actions))
      BY <1>2
    <3> QED
      BY <1>3, <1>5, <3>1
  <2>1. PICK n \in 1..Len(actions) : n = k - Len(auditTrail)
    BY <2>0
  <2>2. auditTrail'[Len(auditTrail) + n] =
            [action |-> actions[n], instance |-> i, sync |-> s]
    BY <1>2
  <2>3. Len(auditTrail) + n = k
    BY <1>3, <2>1
  <2>4. actions[n] \notin EvidenceAction
    BY <2>1
  <2> QED
    BY <2>2, <2>3, <2>4
<1> QED
  BY <1>2, <1>4, <1>5, HealthLeftAlone

\* Appending one action.
LEMMA AppendedOne ==
    \A i \in Instances, s \in Syncs \union {NULL}, action \in Action :
        TypeInv /\ appendAudit(i, s, <<action>>) =>
            /\ Len(auditTrail') = Len(auditTrail) + 1
            /\ \A k \in 1..Len(auditTrail) : auditTrail'[k] = auditTrail[k]
            /\ auditTrail'[Len(auditTrail) + 1] =
                  [action |-> action, instance |-> i, sync |-> s]
<1> TAKE i \in Instances, s \in Syncs \union {NULL}, action \in Action
<1> HAVE TypeInv /\ appendAudit(i, s, <<action>>)
<1>1. /\ <<action>> \in Seq(Action)
      /\ Len(<<action>>) = 1
      /\ 1 \in 1..1
      /\ <<action>>[1] = action
  OBVIOUS
<1>2. /\ Len(auditTrail') = Len(auditTrail) + Len(<<action>>)
      /\ \A k \in 1..Len(auditTrail) : auditTrail'[k] = auditTrail[k]
      /\ \A k \in 1..Len(<<action>>) :
            auditTrail'[Len(auditTrail) + k] =
                [action |-> <<action>>[k], instance |-> i, sync |-> s]
  BY <1>1, Appended DEF TypeInv, TypeOK
<1> QED
  BY <1>1, <1>2

LEMMA NextHealth ==
    ASSUME TypeInv, ImplementedInv, HealthIsLastEvidence, [Next]_vars
    PROVE  HealthIsLastEvidence'
<1>1. ASSUME UNCHANGED auditTrail,
             \A j \in Instances : instances[j] # NULL =>
                 instances'[j].isHealthy = instances[j].isHealthy
      PROVE  HealthIsLastEvidence'
  BY <1>1, HealthLeftAlone
<1>2. CASE UNCHANGED vars
  BY <1>1, <1>2 DEF vars
<1>3. ASSUME NEW i \in Instances, NEW healthy \in BOOLEAN,
             createInstance(i, healthy)
      PROVE  HealthIsLastEvidence'
  BY <1>1, <1>3 DEF createInstance, TypeInv, TypeOK
<1>4. ASSUME NEW i \in Instances, NEW status \in InstanceStatus,
             setStatus(i, status)
      PROVE  HealthIsLastEvidence'
  <2>1. \A j \in Instances : instances[j] # NULL =>
            instances'[j].isHealthy = instances[j].isHealthy
    BY <1>4 DEF setStatus, TypeInv, TypeOK, ConnectorInstance
  <2> QED
    BY <1>1, <1>4, <2>1 DEF setStatus
<1>5. ASSUME NEW i \in Instances, registerImplementation(i)
      PROVE  HealthIsLastEvidence'
  BY <1>1, <1>5 DEF registerImplementation
<1>6. ASSUME NEW i \in Instances, NEW s \in Syncs, executeSync(s, i)
      PROVE  HealthIsLastEvidence'
  <2>1. PICK actions \in Seq(Action \ EvidenceAction) :
            appendAudit(i, s, actions)
    <3>1. <<"sync_started">> \in Seq(Action \ EvidenceAction)
      BY DEF Action, EvidenceAction, Checks
    <3>2. <<"sync_started", "sync_completed">> \in Seq(Action \ EvidenceAction)
      BY DEF Action, EvidenceAction, Checks
    <3> QED
      BY <1>6, <3>1, <3>2 DEF executeSync
  <2>2. UNCHANGED instances
    BY <1>6 DEF executeSync
  <2> QED
    BY <2>1, <2>2, HealthUntold
<1>7. ASSUME NEW s \in Syncs, NEW result \in Result, attemptReturns(s, result)
      PROVE  HealthIsLastEvidence'
  <2>1. PICK i \in Instances : i = sync[s].instance
    BY <1>7 DEF attemptReturns, TypeInv, CallsInv
  <2>2. PICK actions \in Seq(Action \ EvidenceAction) :
            appendAudit(i, s, actions)
    <3>1. /\ <<"sync_completed">> \in Seq(Action \ EvidenceAction)
          /\ <<>> \in Seq(Action \ EvidenceAction)
      BY DEF Action, EvidenceAction, Checks
    <3> QED
      BY <1>7, <2>1, <3>1 DEF attemptReturns
  <2>3. UNCHANGED instances
    BY <1>7 DEF attemptReturns
  <2> QED
    BY <2>2, <2>3, HealthUntold
<1>8. ASSUME NEW s \in Syncs, attemptRejected(s)
      PROVE  HealthIsLastEvidence'
  <2>1. PICK i \in Instances : i = sync[s].instance
    BY <1>8 DEF attemptRejected, TypeInv, CallsInv
  <2>2. <<"sync_retried">> \in Seq(Action \ EvidenceAction)
    BY DEF Action, EvidenceAction, Checks
  <2>3. UNCHANGED instances /\ appendAudit(i, s, <<"sync_retried">>)
    BY <1>8, <2>1 DEF attemptRejected
  <2> QED
    BY <2>2, <2>3, HealthUntold
<1>9. ASSUME NEW s \in Syncs, retriesExhausted(s)
      PROVE  HealthIsLastEvidence'
  <2>1. PICK i \in Instances : i = sync[s].instance /\ instances[i] # NULL
    BY <1>9 DEF retriesExhausted, TypeInv, CallsInv
  <2>2. "sync_failed" \in Action
    BY DEF Action
  <2>3. /\ Len(auditTrail') = Len(auditTrail) + 1
        /\ \A k \in 1..Len(auditTrail) : auditTrail'[k] = auditTrail[k]
        /\ auditTrail'[Len(auditTrail) + 1] =
              [action |-> "sync_failed", instance |-> i, sync |-> s]
    <3>1. appendAudit(i, s, <<"sync_failed">>)
      BY <1>9, <2>1 DEF retriesExhausted
    <3> QED
      BY <2>2, <3>1, AppendedOne
  <2>4. /\ instances'[i].isHealthy = FALSE
        /\ \A j \in Instances : j # i => instances'[j] = instances[j]
    BY <1>9, <2>1, ConnectorConstants
       DEF retriesExhausted, TypeInv, TypeOK, ConnectorInstance
  <2>5. /\ auditTrail'[Len(auditTrail) + 1].instance = i
        /\ auditTrail'[Len(auditTrail) + 1].action = "sync_failed"
    BY <2>3
  <2>6. instances'[i].isHealthy =
            (auditTrail'[Len(auditTrail) + 1].action = "health_check_passed")
    BY <2>4, <2>5
  <2> QED
    BY <2>3, <2>4, <2>5, <2>6, HealthTold DEF EvidenceAction, Checks
<1>10. ASSUME NEW s \in Syncs, wake(s)
       PROVE  HealthIsLastEvidence'
  BY <1>1, <1>10 DEF wake
<1>11. ASSUME NEW i \in Instances, checkInstanceHealth(i)
       PROVE  HealthIsLastEvidence'
  <2>1. UNCHANGED instances
    BY <1>11 DEF checkInstanceHealth
  <2>2. CASE UNCHANGED auditTrail
    BY <1>1, <2>1, <2>2
  <2>3. CASE i \notin connectorImpls /\ appendAudit(i, NULL, <<"health_check_passed">>)
    <3>1. "health_check_passed" \in Action
      BY DEF Action, Checks
    <3>2. /\ Len(auditTrail') = Len(auditTrail) + 1
          /\ \A k \in 1..Len(auditTrail) : auditTrail'[k] = auditTrail[k]
          /\ auditTrail'[Len(auditTrail) + 1] =
                [action |-> "health_check_passed", instance |-> i, sync |-> NULL]
      BY <2>3, <3>1, AppendedOne
    <3>3. Len(auditTrail) \in Nat
      BY LenProperties DEF TypeInv, TypeOK
    <3>4. ASSUME NEW k \in Failures(i)'
          PROVE  FALSE
      <4>1. /\ k \in 1..(Len(auditTrail) + 1)
            /\ auditTrail'[k].instance = i
            /\ auditTrail'[k].action \in FailureAction
        BY <3>2, <3>4 DEF Failures, Evidence, FailureAction, Checks
      <4>2. k \in 1..Len(auditTrail)
        BY <3>2, <3>3, <4>1 DEF FailureAction
      <4> QED
        BY <2>3, <3>2, <4>1, <4>2 DEF ImplementedInv
    <3>5. Failures(i)' = {}
      BY <3>4
    <3>6. /\ auditTrail'[Len(auditTrail) + 1].instance = i
          /\ auditTrail'[Len(auditTrail) + 1].action \in EvidenceAction
      BY <3>2 DEF EvidenceAction, Checks
    <3> QED
      BY <2>1, <3>2, <3>5, <3>6, HealthTold
  <2> QED
    BY <1>11, <2>2, <2>3 DEF checkInstanceHealth
<1>12. ASSUME NEW i \in Instances, NEW healthy \in BOOLEAN,
              healthAnswered(i, healthy)
       PROVE  HealthIsLastEvidence'
  <2>1. PICK action \in {"health_check_passed", "health_check_failed"} :
            /\ healthy = (action = "health_check_passed")
            /\ appendAudit(i, NULL, <<action>>)
    BY <1>12 DEF healthAnswered
  <2>2. action \in Action
    BY DEF Action, Checks
  <2>3. /\ Len(auditTrail') = Len(auditTrail) + 1
        /\ \A k \in 1..Len(auditTrail) : auditTrail'[k] = auditTrail[k]
        /\ auditTrail'[Len(auditTrail) + 1] =
              [action |-> action, instance |-> i, sync |-> NULL]
    BY <2>1, <2>2, AppendedOne
  <2>4. instances[i] \in ConnectorInstance
    BY <1>12 DEF healthAnswered, TypeInv, TypeOK, ChecksInv
  <2>5. /\ instances'[i].isHealthy = healthy
        /\ \A j \in Instances : j # i => instances'[j] = instances[j]
    BY <1>12, <2>4 DEF healthAnswered, TypeInv, TypeOK, ConnectorInstance
  <2>6. /\ auditTrail'[Len(auditTrail) + 1].instance = i
        /\ auditTrail'[Len(auditTrail) + 1].action \in EvidenceAction
        /\ instances'[i].isHealthy =
             (auditTrail'[Len(auditTrail) + 1].action = "health_check_passed")
    BY <2>1, <2>3, <2>5 DEF EvidenceAction, Checks
  <2> QED
    BY <2>3, <2>5, <2>6, HealthTold
<1> QED
  BY <1>2, <1>3, <1>4, <1>5, <1>6, <1>7, <1>8, <1>9, <1>10, <1>11, <1>12
     DEF Next, Settles, activateInstance, pauseInstance, InstanceStatus

\* Appending actions keeps the failures of implemented instances.
LEMMA TrailImplemented ==
    ASSUME TypeInv, ImplementedInv, connectorImpls \subseteq connectorImpls',
           NEW i \in Instances, NEW s \in Syncs \union {NULL},
           NEW actions \in Seq(Action), appendAudit(i, s, actions),
           \/ i \in connectorImpls
           \/ actions \in Seq(Action \ FailureAction)
    PROVE  \A k \in 1..Len(auditTrail') : auditTrail'[k].action \in FailureAction =>
                auditTrail'[k].instance \in connectorImpls'
<1>1. /\ Len(auditTrail') = Len(auditTrail) + Len(actions)
      /\ \A k \in 1..Len(auditTrail) : auditTrail'[k] = auditTrail[k]
      /\ \A k \in 1..Len(actions) :
            auditTrail'[Len(auditTrail) + k] =
                [action |-> actions[k], instance |-> i, sync |-> s]
  BY Appended DEF TypeInv, TypeOK
<1>2. Len(auditTrail) \in Nat /\ Len(actions) \in Nat
  BY LenProperties DEF TypeInv, TypeOK
<1> TAKE k \in 1..Len(auditTrail')
<1>3. CASE k \in 1..Len(auditTrail)
  BY <1>1, <1>3 DEF ImplementedInv
<1>4. CASE k \notin 1..Len(auditTrail)
  <2>1. k - Len(auditTrail) \in 1..Len(actions)
    <3>1. k \in 1..(Len(auditTrail) + Len(actions))
      BY <1>1
    <3> QED
      BY <1>2, <1>4, <3>1
  <2>2. PICK n \in 1..Len(actions) : n = k - Len(auditTrail)
    BY <2>1
  <2>3. auditTrail'[Len(auditTrail) + n] =
            [action |-> actions[n], instance |-> i, sync |-> s]
    BY <1>1
  <2>4. Len(auditTrail) + n = k
    BY <1>2, <2>2
  <2>5. auditTrail'[k] = [action |-> actions[n], instance |-> i, sync |-> s]
    BY <2>3, <2>4
  <2>6. CASE actions \in Seq(Action \ FailureAction)
    <3>1. actions[n] \notin FailureAction
      BY <2>6
    <3> QED
      BY <2>5, <3>1
  <2> QED
    BY <2>5, <2>6
<1> QED
  BY <1>3, <1>4

LEMMA NextImplemented ==
    ASSUME TypeInv, ImplementedInv, [Next]_vars
    PROVE  ImplementedInv'
<1> USE DEF ImplementedInv
<1>1. CASE UNCHANGED vars
  BY <1>1 DEF vars
<1>2. ASSUME NEW i \in Instances, NEW healthy \in BOOLEAN,
             createInstance(i, healthy)
      PROVE  ImplementedInv'
  BY <1>2 DEF createInstance
<1>3. ASSUME NEW i \in Instances, NEW status \in InstanceStatus,
             setStatus(i, status)
      PROVE  ImplementedInv'
  BY <1>3 DEF setStatus
<1>4. ASSUME NEW i \in Instances, registerImplementation(i)
      PROVE  ImplementedInv'
  BY <1>4 DEF registerImplementation
<1>5. ASSUME NEW i \in Instances, NEW s \in Syncs, executeSync(s, i)
      PROVE  ImplementedInv'
  <2>1. PICK actions \in Seq(Action \ FailureAction) :
            appendAudit(i, s, actions)
    <3>1. /\ <<"sync_started">> \in Seq(Action \ FailureAction)
          /\ <<"sync_started", "sync_completed">> \in Seq(Action \ FailureAction)
      BY DEF Action, FailureAction, Checks
    <3> QED
      BY <1>5, <3>1 DEF executeSync
  <2>2. UNCHANGED <<connectorImpls, checking>>
    BY <1>5 DEF executeSync
  <2>3. \A k \in 1..Len(auditTrail') : auditTrail'[k].action \in FailureAction =>
            auditTrail'[k].instance \in connectorImpls'
    <3>1. actions \in Seq(Action)
      OBVIOUS
    <3> QED
      BY <2>1, <2>2, <3>1, TrailImplemented
  <2>4. \A t \in Syncs : sync'[t].at \in {"calling", "sleeping"} =>
            sync'[t].instance \in connectorImpls
    <3>1. \A t \in Syncs \ {s} : sync'[t] = sync[t]
      BY <1>5 DEF executeSync, TypeInv, TypeOK
    <3>2. sync'[s].at = "calling" => i \in connectorImpls
      BY <1>5 DEF executeSync, NotStarted, TypeInv, TypeOK
    <3>3. sync'[s].instance = i /\ sync'[s].at # "sleeping"
      BY <1>5 DEF executeSync, NotStarted, TypeInv, TypeOK
    <3> QED
      BY <3>1, <3>2, <3>3
  <2> QED
    BY <2>2, <2>3, <2>4
<1>6. ASSUME NEW s \in Syncs, NEW i \in Instances, NEW actions \in Seq(Action),
             sync[s].at = "calling", i = sync[s].instance,
             appendAudit(i, s, actions), UNCHANGED <<connectorImpls, checking>>,
             \A t \in Syncs : \/ sync'[t].at \notin {"calling", "sleeping"}
                              \/ /\ sync[t].at \in {"calling", "sleeping"}
                                 /\ sync'[t].instance = sync[t].instance
      PROVE  ImplementedInv'
  <2>1. i \in connectorImpls
    BY <1>6
  <2>2. \A k \in 1..Len(auditTrail') : auditTrail'[k].action \in FailureAction =>
            auditTrail'[k].instance \in connectorImpls'
    BY <1>6, <2>1, TrailImplemented
  <2> QED
    BY <1>6, <2>2
<1>7. ASSUME NEW s \in Syncs, NEW result \in Result, attemptReturns(s, result)
      PROVE  ImplementedInv'
  <2>1. PICK i \in Instances : i = sync[s].instance
    BY <1>7 DEF attemptReturns, TypeInv, CallsInv
  <2>2. PICK actions \in Seq(Action) : appendAudit(i, s, actions)
    <3>1. <<"sync_completed">> \in Seq(Action) /\ <<>> \in Seq(Action)
      BY DEF Action
    <3> QED
      BY <1>7, <2>1, <3>1 DEF attemptReturns
  <2>3. \A t \in Syncs : \/ sync'[t].at \notin {"calling", "sleeping"}
                         \/ /\ sync[t].at \in {"calling", "sleeping"}
                            /\ sync'[t].instance = sync[t].instance
    BY <1>7 DEF attemptReturns, TypeInv, TypeOK, Sync
  <2> QED
    BY <1>6, <1>7, <2>1, <2>2, <2>3 DEF attemptReturns
<1>8. ASSUME NEW s \in Syncs, attemptRejected(s)
      PROVE  ImplementedInv'
  <2>1. PICK i \in Instances : i = sync[s].instance
    BY <1>8 DEF attemptRejected, TypeInv, CallsInv
  <2>2. <<"sync_retried">> \in Seq(Action)
    BY DEF Action
  <2>3. \A t \in Syncs : \/ sync'[t].at \notin {"calling", "sleeping"}
                         \/ /\ sync[t].at \in {"calling", "sleeping"}
                            /\ sync'[t].instance = sync[t].instance
    BY <1>8 DEF attemptRejected, TypeInv, TypeOK, Sync
  <2> QED
    BY <1>6, <1>8, <2>1, <2>2, <2>3 DEF attemptRejected
<1>9. ASSUME NEW s \in Syncs, retriesExhausted(s)
      PROVE  ImplementedInv'
  <2>1. PICK i \in Instances : i = sync[s].instance
    BY <1>9 DEF retriesExhausted, TypeInv, CallsInv
  <2>2. <<"sync_failed">> \in Seq(Action)
    BY DEF Action
  <2>3. \A t \in Syncs : \/ sync'[t].at \notin {"calling", "sleeping"}
                         \/ /\ sync[t].at \in {"calling", "sleeping"}
                            /\ sync'[t].instance = sync[t].instance
    BY <1>9 DEF retriesExhausted, TypeInv, TypeOK, Sync
  <2> QED
    BY <1>6, <1>9, <2>1, <2>2, <2>3 DEF retriesExhausted
<1>10. ASSUME NEW s \in Syncs, wake(s)
       PROVE  ImplementedInv'
  <2>1. \A t \in Syncs : sync'[t].at \in {"calling", "sleeping"} =>
            /\ sync[t].at \in {"calling", "sleeping"}
            /\ sync'[t].instance = sync[t].instance
    BY <1>10 DEF wake, TypeInv, TypeOK, Sync
  <2> QED
    BY <1>10, <2>1 DEF wake
<1>11. ASSUME NEW i \in Instances, checkInstanceHealth(i)
       PROVE  ImplementedInv'
  <2>1. UNCHANGED <<connectorImpls, sync>>
    BY <1>11 DEF checkInstanceHealth
  <2>2. CASE /\ i \in connectorImpls /\ UNCHANGED auditTrail
             /\ checking' = [checking EXCEPT ![i] = @ + 1]
    BY <2>1, <2>2 DEF TypeInv, TypeOK
  <2>3. CASE appendAudit(i, NULL, <<"health_check_passed">>) /\ UNCHANGED checking
    <3>1. <<"health_check_passed">> \in Seq(Action \ FailureAction)
      BY DEF Action, Checks, FailureAction
    <3>2. <<"health_check_passed">> \in Seq(Action)
      BY <3>1
    <3>3. \A k \in 1..Len(auditTrail') : auditTrail'[k].action \in FailureAction =>
              auditTrail'[k].instance \in connectorImpls'
      BY <2>1, <2>3, <3>1, <3>2, TrailImplemented
    <3> QED
      BY <2>1, <2>3, <3>3
  <2> QED
    BY <1>11, <2>2, <2>3 DEF checkInstanceHealth
<1>12. ASSUME NEW i \in Instances, NEW healthy \in BOOLEAN,
              healthAnswered(i, healthy)
       PROVE  ImplementedInv'
  <2>1. i \in connectorImpls /\ UNCHANGED <<connectorImpls, sync>>
    BY <1>12 DEF healthAnswered
  <2>2. PICK actions \in Seq(Action) : appendAudit(i, NULL, actions)
    <3>1. <<IF healthy THEN "health_check_passed" ELSE "health_check_failed">>
              \in Seq(Action)
      BY DEF Action, Checks
    <3> QED
      BY <1>12, <3>1 DEF healthAnswered
  <2>3. \A k \in 1..Len(auditTrail') : auditTrail'[k].action \in FailureAction =>
            auditTrail'[k].instance \in connectorImpls'
    BY <2>1, <2>2, TrailImplemented
  <2>4. \A j \in Instances : checking'[j] > 0 => j \in connectorImpls
    BY <1>12, <2>1 DEF healthAnswered, TypeInv, TypeOK
  <2> QED
    BY <2>1, <2>3, <2>4
<1> QED
  BY <1>1, <1>2, <1>3, <1>4, <1>5, <1>7, <1>8, <1>9, <1>10, <1>11, <1>12
     DEF Next, Settles, activateInstance, pauseInstance, InstanceStatus

\* However syncs that run out of retries and health checks overlap, and
\* whenever an implementation is registered: once an instance was found
\* unhealthy, its flag is what the last entry about its health says
\* (checkInstanceHealth and executeWithRetry).
THEOREM HealthCorrect == Spec => []HealthIsLastEvidence
<1>1. Init => ImplementedInv /\ HealthIsLastEvidence
  BY DEF Init, NotStarted, ImplementedInv, HealthIsLastEvidence, Failures, Evidence
<1>2. TypeInv /\ ImplementedInv /\ HealthIsLastEvidence /\ [Next]_vars
          => TypeInv' /\ ImplementedInv' /\ HealthIsLastEvidence'
  BY NextTypeInv, NextImplemented, NextHealth
<1> QED
  BY InitTypeInv, <1>1, <1>2, PTL DEF Spec
-----------------------------------------------------------------------------
(* History *)

\* How many entries of a call there are is a number, also up to one of them.
LEMMA Ranked ==
    ASSUME NEW trail \in Seq(Entry), NEW s, NEW E, E = Entries(trail, s)
    PROVE  /\ IsFiniteSet(E) /\ Cardinality(E) \in Nat /\ E \subseteq 1..Len(trail)
           /\ \A k \in E : Cardinality({j \in E : j <= k}) \in 1..Cardinality(E)
<1>1. E \in SUBSET (1..Len(trail)) /\ Len(trail) \in Nat
  BY LenProperties DEF Entries
<1>2. IsFiniteSet(E) /\ Cardinality(E) \in Nat
  <2>1. IsFiniteSet(1..Len(trail))
    BY <1>1, FS_Interval
  <2>2. IsFiniteSet(E)
    BY <1>1, <2>1, FS_Subset
  <2> QED
    BY <2>2, FS_CardinalityType
<1>3. ASSUME NEW k \in E
      PROVE  Cardinality({j \in E : j <= k}) \in 1..Cardinality(E)
  <2> DEFINE B == {j \in E : j <= k}
  <2>1. B \in SUBSET E /\ k \in B
    BY <1>1
  <2> HIDE DEF B
  <2>2. IsFiniteSet(B) /\ Cardinality(B) <= Cardinality(E) /\ Cardinality(B) \in Nat
    BY <1>2, <2>1, FS_Subset, FS_CardinalityType
  <2>3. Cardinality(B) # 0
    BY <2>1, <2>2, FS_EmptySet
  <2>4. Cardinality(B) \in 1..Cardinality(E)
    BY <1>2, <2>2, <2>3
  <2> QED
    BY <2>4 DEF B
<1> QED
  BY <1>1, <1>2, <1>3

\* Entries of others change nothing that a trail tells of a call.
LEMMA TellsSame ==
    ASSUME NEW trail \in Seq(Entry), NEW next \in Seq(Entry), NEW s,
           NEW actions, Len(next) >= Len(trail),
           \A k \in 1..Len(trail) : next[k] = trail[k],
           \A k \in 1..Len(next) : k > Len(trail) => next[k].sync # s,
           Tells(trail, s, actions)
    PROVE  Tells(next, s, actions)
<1>1. Len(trail) \in Nat /\ Len(next) \in Nat
  BY LenProperties
<1>2. Entries(next, s) = Entries(trail, s)
  BY <1>1 DEF Entries
<1>3. \A k \in Entries(trail, s) : next[k] = trail[k]
  BY DEF Entries
<1> QED
  BY <1>2, <1>3 DEF Tells

\* Entries of a call that are appended go on with what is told of it.
LEMMA TellsMore ==
    ASSUME NEW trail \in Seq(Entry), NEW next \in Seq(Entry), NEW s,
           NEW actions \in Seq(Action), NEW more \in Seq(Action),
           Len(next) = Len(trail) + Len(more),
           \A k \in 1..Len(trail) : next[k] = trail[k],
           \A k \in 1..Len(more) : /\ next[Len(trail) + k].sync = s
                                   /\ next[Len(trail) + k].action = more[k],
           Tells(trail, s, actions)
    PROVE  Tells(next, s, actions \o more)
<1> DEFINE E == Entries(trail, s)
           F == Entries(next, s)
           len == Len(trail)
<1>1. len \in Nat /\ Len(more) \in Nat /\ Len(actions) \in Nat
  BY LenProperties
<1>2. /\ IsFiniteSet(E) /\ Cardinality(E) = Len(actions) /\ E \subseteq 1..len
      /\ \A k \in E : Cardinality({j \in E : j <= k}) \in 1..Len(actions)
  BY Ranked DEF Tells
<1>3. /\ Len(actions \o more) = Len(actions) + Len(more)
      /\ \A k \in 1..(Len(actions) + Len(more)) : (actions \o more)[k] =
            IF k <= Len(actions) THEN actions[k] ELSE more[k - Len(actions)]
  BY ConcatProperties
<1>4. F = E \union (len + 1)..(len + Len(more))
  <2>1. ASSUME NEW k \in 1..(len + Len(more)), k > len
        PROVE  next[k].sync = s
    <3>0. k - len \in 1..Len(more) /\ k \in Int
      BY <1>1, <2>1
    <3>1. PICK n \in 1..Len(more) : n = k - len
      BY <3>0
    <3>2. k = len + n
      BY <1>1, <3>0, <3>1
    <3> QED
      BY <3>2
  <2>2. \A k \in 1..(len + Len(more)) : k \in F <=> (k \in E \/ k > len)
    <3> TAKE k \in 1..(len + Len(more))
    <3>1. CASE k <= len
      BY <1>1, <3>1 DEF Entries
    <3>2. CASE k > len
      BY <1>1, <2>1, <3>2 DEF Entries
    <3> QED
      BY <1>1, <3>1, <3>2
  <2>3. F \subseteq 1..(len + Len(more))
    BY DEF Entries
  <2> HIDE DEF E, F, len
  <2>4. ASSUME NEW k
        PROVE  k \in F <=> k \in E \union (len + 1)..(len + Len(more))
    <3>1. k \in 1..(len + Len(more)) =>
              (k > len <=> k \in (len + 1)..(len + Len(more)))
      BY <1>1
    <3>2. /\ k \in E => k \in 1..(len + Len(more))
          /\ k \in (len + 1)..(len + Len(more)) => k \in 1..(len + Len(more))
      <4>1. 1..len \subseteq 1..(len + Len(more))
        BY <1>1
      <4>2. k \in (len + 1)..(len + Len(more)) => k \in 1..(len + Len(more))
        BY <1>1
      <4> QED
        BY <1>2, <4>1, <4>2
    <3> QED
      BY <2>2, <2>3, <3>1, <3>2
  <2> QED
    BY <2>4
<1>5. \A n \in 0..Len(more) :
         Cardinality(E \union (len + 1)..(len + n)) = Len(actions) + n
  <2> TAKE n \in 0..Len(more)
  <2> DEFINE G == (len + 1)..(len + n)
  <2>1. len + 1 \in Int /\ len + n \in Int
    BY <1>1
  <2>2. IsFiniteSet(G) /\ Cardinality(G) = n
    <3>1. /\ IsFiniteSet(G)
          /\ Cardinality(G) = IF len + 1 > len + n THEN 0
                              ELSE (len + n) - (len + 1) + 1
      BY <2>1, FS_Interval
    <3> HIDE DEF G
    <3> QED
      BY <1>1, <3>1
  <2>3. E \intersect G = {}
    BY <1>1, <1>2
  <2> HIDE DEF E, G
  <2>4. /\ Cardinality(E \union G)
             = Cardinality(E) + Cardinality(G) - Cardinality(E \intersect G)
        /\ Cardinality(E \intersect G) = 0
    BY <1>2, <2>2, <2>3, FS_Union, FS_EmptySet
  <2>5. Cardinality(E \union G) = Len(actions) + n
    BY <1>1, <1>2, <2>2, <2>4
  <2> QED
    BY <2>5 DEF G
<1>6. Cardinality(F) = Len(actions \o more)
  BY <1>1, <1>3, <1>4, <1>5
<1>7. ASSUME NEW k \in E
      PROVE  next[k].action = (actions \o more)[Cardinality({j \in F : j <= k})]
  <2>1. k \in 1..len /\ next[k] = trail[k]
    BY <1>2
  <2>2. {j \in F : j <= k} = {j \in E : j <= k}
    <3> HIDE DEF E, F, len
    <3> QED
      BY <1>1, <1>2, <1>4, <2>1
  <2>3. PICK n \in 1..Len(actions) : n = Cardinality({j \in E : j <= k})
    BY <1>2
  <2>4. trail[k].action = actions[n]
    BY <2>3 DEF Tells
  <2>5. (actions \o more)[n] = actions[n]
    BY <1>1, <1>3, <2>3
  <2> QED
    BY <2>1, <2>2, <2>3, <2>4, <2>5
<1>8. ASSUME NEW n \in 1..Len(more)
      PROVE  next[len + n].action =
                 (actions \o more)[Cardinality({j \in F : j <= len + n})]
  <2>1. {j \in F : j <= len + n} = E \union (len + 1)..(len + n)
    <3> HIDE DEF E, F, len
    <3>1. \A j \in E : j <= len + n
      BY <1>1, <1>2
    <3>2. \A j : (j \in (len + 1)..(len + Len(more)) /\ j <= len + n)
                   <=> j \in (len + 1)..(len + n)
      BY <1>1
    <3> QED
      BY <1>4, <3>1, <3>2
  <2>2. Cardinality({j \in F : j <= len + n}) = Len(actions) + n
    BY <1>1, <1>5, <2>1
  <2>3. (actions \o more)[Len(actions) + n] = more[n]
    <3>1. /\ Len(actions) + n \in 1..(Len(actions) + Len(more))
          /\ ~(Len(actions) + n <= Len(actions))
          /\ Len(actions) + n - Len(actions) = n
      BY <1>1
    <3> QED
      BY <1>3, <3>1
  <2> QED
    BY <2>2, <2>3
<1>9. ASSUME NEW k \in F
      PROVE  next[k].action = (actions \o more)[Cardinality({j \in F : j <= k})]
  <2>1. CASE k \in E
    BY <1>7, <2>1
  <2>2. CASE k \in (len + 1)..(len + Len(more))
    <3>0. k - len \in 1..Len(more) /\ k \in Int
      BY <1>1, <2>2
    <3>1. PICK n \in 1..Len(more) : n = k - len
      BY <3>0
    <3>2. k = len + n
      BY <1>1, <3>0, <3>1
    <3> QED
      BY <1>8, <3>2
  <2> QED
    BY <1>4, <2>1, <2>2
<1> QED
  BY <1>6, <1>9 DEF Tells

\* What the trail tells of a call so far.
Retried(n) == <<"sync_started">> \o [k \in 1..n |-> "sync_retried"]
Expected(record) ==
    IF record.at = "idle" THEN <<>>
    ELSE IF record.at = "ended" THEN Told(record)
    ELSE Retried(record.retryCount)

\* How the two counters of a call go together.
Counted(record) ==
    /\ record.at = "calling" => record.retryCount = record.attempt
    /\ record.at = "sleeping" => record.retryCount = record.attempt + 1

Recorded(records, s) == {k \in 1..Len(records) : records[k] = s}

Ended(record) == IF record.at = "ended" THEN 1 ELSE 0

\* The property, also of the calls that did not end yet.
HistoryInv ==
    \A s \in Syncs :
        /\ Counted(sync[s])
        /\ Tells(auditTrail, s, Expected(sync[s]))
        /\ Cardinality(Recorded(syncRecords, s)) = Ended(sync[s])

LEMMA RetriedMore ==
    ASSUME NEW n \in Nat
    PROVE  /\ Retried(n) \in Seq(Action)
           /\ Retried(n + 1) = Retried(n) \o <<"sync_retried">>
           /\ Retried(0) = <<"sync_started">>
<1> DEFINE R(m) == [k \in 1..m |-> "sync_retried"]
<1>1. \A m \in Nat : R(m) \in Seq(Action) /\ Len(R(m)) = m
  BY DEF Action
<1>2. /\ <<"sync_started">> \in Seq(Action) /\ Len(<<"sync_started">>) = 1
      /\ <<"sync_retried">> \in Seq(Action) /\ Len(<<"sync_retried">>) = 1
      /\ <<"sync_retried">>[1] = "sync_retried"
  BY DEF Action
<1>3. \A m \in Nat : \A k \in 1..m : R(m)[k] = "sync_retried"
  OBVIOUS
<1>4. \A m \in Nat : Retried(m) = <<"sync_started">> \o R(m)
  BY DEF Retried
<1> HIDE DEF R
<1>5. ASSUME NEW m \in Nat
      PROVE  /\ Retried(m) \in Seq(Action) /\ Len(Retried(m)) = m + 1
             /\ \A k \in 1..(m + 1) : Retried(m)[k] =
                   IF k = 1 THEN "sync_started" ELSE "sync_retried"
  <2>1. /\ <<"sync_started">> \o R(m) \in Seq(Action)
        /\ Len(<<"sync_started">> \o R(m)) = Len(<<"sync_started">>) + Len(R(m))
        /\ \A k \in 1..(Len(<<"sync_started">>) + Len(R(m))) :
              (<<"sync_started">> \o R(m))[k] =
                  IF k <= Len(<<"sync_started">>) THEN <<"sync_started">>[k]
                  ELSE R(m)[k - Len(<<"sync_started">>)]
    BY <1>1, <1>2, ConcatProperties
  <2>2. Len(<<"sync_started">> \o R(m)) = m + 1
    BY <1>1, <1>2, <2>1
  <2>3. ASSUME NEW k \in 1..(m + 1)
        PROVE  (<<"sync_started">> \o R(m))[k] =
                   IF k = 1 THEN "sync_started" ELSE "sync_retried"
    <3>1. k # 1 => k - 1 \in 1..m
      OBVIOUS
    <3>2. k \in 1..(Len(<<"sync_started">>) + Len(R(m)))
      BY <1>1, <1>2
    <3>3. (<<"sync_started">> \o R(m))[k] =
              IF k <= 1 THEN <<"sync_started">>[k] ELSE R(m)[k - 1]
      BY <1>2, <2>1, <3>2
    <3>4. CASE k = 1
      BY <3>3, <3>4
    <3>5. CASE k # 1
      <4>1. R(m)[k - 1] = "sync_retried"
        BY <1>3, <3>1, <3>5
      <4>2. ~(k <= 1)
        BY <3>5
      <4> QED
        BY <3>3, <3>5, <4>1, <4>2
    <3> QED
      BY <3>4, <3>5
  <2> QED
    BY <1>4, <2>1, <2>2, <2>3
<1>6. Retried(n + 1) = Retried(n) \o <<"sync_retried">>
  <2> DEFINE old == Retried(n)
             next == Retried(n + 1)
             one == <<"sync_retried">>
  <2>1. /\ old \in Seq(Action) /\ Len(old) = n + 1
        /\ next \in Seq(Action) /\ Len(next) = n + 2
        /\ \A k \in 1..(n + 1) : old[k] = IF k = 1 THEN "sync_started" ELSE "sync_retried"
        /\ \A k \in 1..(n + 2) : next[k] = IF k = 1 THEN "sync_started" ELSE "sync_retried"
    <3>1. n + 1 \in Nat /\ n + 1 + 1 = n + 2
      OBVIOUS
    <3> QED
      BY <1>5, <3>1
  <2>2. one \in Seq(Action) /\ Len(one) = 1 /\ one[1] = "sync_retried"
    BY <1>2
  <2> HIDE DEF old, next, one
  <2>3. /\ old \o one \in Seq(Action)
        /\ Len(old \o one) = Len(old) + Len(one)
        /\ \A k \in 1..(Len(old) + Len(one)) : (old \o one)[k] =
              IF k <= Len(old) THEN old[k] ELSE one[k - Len(old)]
    BY <2>1, <2>2, ConcatProperties
  <2>4. Len(old \o one) = Len(next)
    BY <2>1, <2>2, <2>3
  <2>5. \A k \in 1..Len(next) : next[k] = (old \o one)[k]
    <3> TAKE k \in 1..Len(next)
    <3>1. k \in 1..(Len(old) + Len(one)) /\ k \in 1..(n + 2) /\ k \in Int
      BY <2>1, <2>2
    <3>2. CASE k <= n + 1
      <4>1. k \in 1..(n + 1) /\ k <= Len(old)
        BY <2>1, <3>1, <3>2
      <4> QED
        BY <2>1, <2>3, <3>1, <4>1
    <3>3. CASE k = n + 2
      <4>1. ~(k <= Len(old)) /\ k - Len(old) = 1 /\ k # 1
        BY <2>1, <3>3
      <4> QED
        BY <2>1, <2>2, <2>3, <3>1, <4>1
    <3> QED
      BY <3>1, <3>2, <3>3
  <2>6. next = old \o one
    BY <2>1, <2>3, <2>4, <2>5, SeqEqual
  <2> QED
    BY <2>6 DEF next, old, one
<1>7. Retried(0) = <<"sync_started">>
  <2>1. /\ Retried(0) \in Seq(Action) /\ Len(Retried(0)) = 1
        /\ Retried(0)[1] = "sync_started"
    <3>1. 0 \in Nat /\ 0 + 1 = 1 /\ 1 \in 1..1
      OBVIOUS
    <3> QED
      BY <1>5, <3>1
  <2>2. /\ <<"sync_started">>[1] = "sync_started"
        /\ \A k \in 1..1 : k = 1
    OBVIOUS
  <2>3. \A k \in 1..Len(Retried(0)) : Retried(0)[k] = <<"sync_started">>[k]
    BY <2>1, <2>2
  <2> QED
    BY <1>2, <2>1, <2>3, SeqEqual
<1> QED
  BY <1>5, <1>6, <1>7

\* How a record that ends tells its story.
LEMMA ToldEnds ==
    ASSUME NEW record, record.retryCount \in 0..(MaxRetries + 1)
    PROVE  /\ record.retryCount > MaxRetries =>
                 Told(record) = Retried(MaxRetries) \o <<"sync_failed">>
           /\ record.retryCount <= MaxRetries =>
                 Told(record) = Retried(record.retryCount) \o
                     (IF record.status = "completed" THEN <<"sync_completed">>
                      ELSE <<>>)
<1>1. MaxRetries \in Nat
  BY ConnectorConstants
<1>2. CASE record.retryCount > MaxRetries
  <2>1. Told(record) = Retried(MaxRetries) \o <<"sync_failed">>
    BY <1>2 DEF Told, Retried
  <2> QED
    BY <1>1, <1>2, <2>1
<1>3. CASE ~(record.retryCount > MaxRetries)
  <2>1. Told(record) = Retried(record.retryCount) \o
            (IF record.status = "completed" THEN <<"sync_completed">> ELSE <<>>)
    BY <1>3 DEF Told, Retried
  <2> QED
    BY <1>3, <2>1
<1> QED
  BY <1>2, <1>3

\* One more record.
LEMMA RecordedMore ==
    ASSUME NEW records \in Seq(Syncs), NEW s \in Syncs
    PROVE  /\ \A t \in Syncs : t # s =>
                 Recorded(Append(records, s), t) = Recorded(records, t)
           /\ Cardinality(Recorded(records, s)) = 0 =>
                 Cardinality(Recorded(Append(records, s), s)) = 1
<1> DEFINE len == Len(records)
           next == Append(records, s)
<1>1. /\ len \in Nat /\ Len(next) = len + 1 /\ next[len + 1] = s
      /\ \A k \in 1..len : next[k] = records[k]
  BY LenProperties, AppendProperties
<1> HIDE DEF next, len
<1>2. Len(records) = len
  BY DEF len
<1>3. \A t \in Syncs : t # s => Recorded(next, t) = Recorded(records, t)
  BY <1>1, <1>2 DEF Recorded
<1>4. ASSUME Cardinality(Recorded(records, s)) = 0
      PROVE  Cardinality(Recorded(next, s)) = 1
  <2>1. Recorded(records, s) \in SUBSET (1..len)
    BY <1>2 DEF Recorded
  <2>2. IsFiniteSet(1..len)
    BY <1>1, FS_Interval
  <2>3. Recorded(records, s) = {}
    BY <1>4, <2>1, <2>2, FS_Subset, FS_EmptySet
  <2>4. Recorded(next, s) = {len + 1}
    BY <1>1, <1>2, <2>3 DEF Recorded
  <2> QED
    BY <2>4, FS_Singleton
<1> QED
  BY <1>3, <1>4 DEF next

\* A call that moves on and appends what its record is told by.
LEMMA HistoryMoves ==
    ASSUME TypeInv, auditTrail' \in Seq(Entry), HistoryInv,
           NEW s \in Syncs, NEW i \in Instances, NEW record,
           NEW actions \in Seq(Action), appendAudit(i, s, actions),
           sync' = [sync EXCEPT ![s] = record],
           sync[s].at # "ended", Counted(record),
           Expected(sync[s]) \in Seq(Action),
           Expected(record) = Expected(sync[s]) \o actions,
           \/ record.at # "ended" /\ syncRecords' = syncRecords
           \/ record.at = "ended" /\ syncRecords' = Append(syncRecords, s)
    PROVE  HistoryInv'
<1>1. /\ sync \in [Syncs -> Sync] /\ syncRecords \in Seq(Syncs)
      /\ auditTrail \in Seq(Entry)
  BY DEF TypeInv, TypeOK
<1>2. /\ Len(auditTrail') = Len(auditTrail) + Len(actions)
      /\ \A k \in 1..Len(auditTrail) : auditTrail'[k] = auditTrail[k]
      /\ \A k \in 1..Len(actions) :
            auditTrail'[Len(auditTrail) + k] =
                [action |-> actions[k], instance |-> i, sync |-> s]
  BY <1>1, Appended
<1>3. sync'[s] = record /\ \A t \in Syncs : t # s => sync'[t] = sync[t]
  BY <1>1
<1>4. Tells(auditTrail', s, Expected(record))
  <2>1. \A k \in 1..Len(actions) :
            /\ auditTrail'[Len(auditTrail) + k].sync = s
            /\ auditTrail'[Len(auditTrail) + k].action = actions[k]
    <3> TAKE k \in 1..Len(actions)
    <3>1. auditTrail'[Len(auditTrail) + k] =
              [action |-> actions[k], instance |-> i, sync |-> s]
      BY <1>2
    <3> QED
      BY <3>1
  <2>2. Tells(auditTrail, s, Expected(sync[s]))
    BY DEF HistoryInv
  <2>3. Tells(auditTrail', s, Expected(sync[s]) \o actions)
    BY <1>1, <1>2, <2>1, <2>2, TellsMore
  <2> QED
    BY <2>3
<1>5. ASSUME NEW t \in Syncs, t # s
      PROVE  Tells(auditTrail', t, Expected(sync[t]))
  <2>1. Len(auditTrail) \in Nat /\ Len(actions) \in Nat
    BY <1>1, LenProperties
  <2>2. ASSUME NEW k \in 1..Len(auditTrail'), k > Len(auditTrail)
        PROVE  auditTrail'[k].sync # t
    <3>0. k - Len(auditTrail) \in 1..Len(actions) /\ k \in Int
      BY <1>2, <2>1, <2>2
    <3>1. PICK n \in 1..Len(actions) : n = k - Len(auditTrail)
      BY <3>0
    <3>2. k = Len(auditTrail) + n
      BY <2>1, <3>0, <3>1
    <3>3. auditTrail'[k] = [action |-> actions[n], instance |-> i, sync |-> s]
      BY <1>2, <3>2
    <3> QED
      BY <1>5, <3>3
  <2>3. Len(auditTrail') >= Len(auditTrail)
    BY <1>2, <2>1
  <2>4. Tells(auditTrail, t, Expected(sync[t]))
    BY DEF HistoryInv
  <2> QED
    BY <1>1, <1>2, <2>2, <2>3, <2>4, TellsSame
<1>6. Cardinality(Recorded(syncRecords', s)) = Ended(record)
  <2>1. Cardinality(Recorded(syncRecords, s)) = 0
    BY DEF HistoryInv, Ended
  <2> QED
    BY <1>1, <2>1, RecordedMore DEF Ended
<1>7. \A t \in Syncs : t # s =>
          Cardinality(Recorded(syncRecords', t)) = Ended(sync[t])
  <2>1. \A t \in Syncs : t # s =>
            Recorded(syncRecords', t) = Recorded(syncRecords, t)
    BY <1>1, RecordedMore
  <2> QED
    BY <2>1 DEF HistoryInv
<1>8. \A t \in Syncs : t # s => Counted(sync[t])
  BY DEF HistoryInv
<1>9. ASSUME NEW t \in Syncs
      PROVE  /\ Counted(sync'[t])
             /\ Tells(auditTrail', t, Expected(sync'[t]))
             /\ Cardinality(Recorded(syncRecords', t)) = Ended(sync'[t])
  <2>1. CASE t = s
    BY <1>3, <1>4, <1>6, <2>1
  <2>2. CASE t # s
    BY <1>3, <1>5, <1>7, <1>8, <2>2
  <2> QED
    BY <2>1, <2>2
<1> QED
  BY <1>9 DEF HistoryInv

\* A step that is not one of a sync.
LEMMA HistoryLeft ==
    ASSUME TypeInv, HistoryInv, UNCHANGED <<sync, syncRecords>>,
           \/ UNCHANGED auditTrail
           \/ \E i \in Instances, action \in Action :
                 appendAudit(i, NULL, <<action>>)
    PROVE  HistoryInv'
<1>1. CASE UNCHANGED auditTrail
  BY <1>1 DEF HistoryInv
<1>2. ASSUME NEW i \in Instances, NEW action \in Action,
             appendAudit(i, NULL, <<action>>)
      PROVE  HistoryInv'
  <2>1. auditTrail \in Seq(Entry) /\ Len(auditTrail) \in Nat
    BY LenProperties DEF TypeInv, TypeOK
  <2>2. auditTrail' \in Seq(Entry)
    <3>1. <<action>> \in Seq(Action)
      OBVIOUS
    <3> QED
      BY <1>2, <2>1, <3>1, Appended
  <2>3. /\ Len(auditTrail') = Len(auditTrail) + 1
        /\ \A k \in 1..Len(auditTrail) : auditTrail'[k] = auditTrail[k]
        /\ auditTrail'[Len(auditTrail) + 1] =
              [action |-> action, instance |-> i, sync |-> NULL]
    BY <1>2, AppendedOne
  <2>4. ASSUME NEW s \in Syncs
        PROVE  Tells(auditTrail', s, Expected(sync[s]))
    <3>1. \A k \in 1..Len(auditTrail') : k > Len(auditTrail) =>
              auditTrail'[k].sync # s
      BY <2>1, <2>3, ConnectorConstants
    <3>2. Len(auditTrail') >= Len(auditTrail)
      BY <2>1, <2>3
    <3>3. Tells(auditTrail, s, Expected(sync[s]))
      BY DEF HistoryInv
    <3> QED
      BY <2>1, <2>2, <2>3, <3>1, <3>2, <3>3, TellsSame
  <2> QED
    BY <2>4 DEF HistoryInv
<1> QED
  BY <1>1, <1>2

LEMMA NextHistory ==
    ASSUME TypeInv, TypeInv', HistoryInv, [Next]_vars
    PROVE  HistoryInv'
<1>0. MaxRetries \in Nat /\ auditTrail' \in Seq(Entry)
  BY ConnectorConstants DEF TypeInv, TypeOK
<1>1. CASE UNCHANGED vars
  BY <1>1, HistoryLeft DEF vars
<1>2. ASSUME NEW i \in Instances, NEW healthy \in BOOLEAN,
             createInstance(i, healthy)
      PROVE  HistoryInv'
  BY <1>2, HistoryLeft DEF createInstance
<1>3. ASSUME NEW i \in Instances, NEW status \in InstanceStatus,
             setStatus(i, status)
      PROVE  HistoryInv'
  BY <1>3, HistoryLeft DEF setStatus
<1>4. ASSUME NEW i \in Instances, registerImplementation(i)
      PROVE  HistoryInv'
  BY <1>4, HistoryLeft DEF registerImplementation
<1>5. ASSUME NEW i \in Instances, NEW s \in Syncs, executeSync(s, i)
      PROVE  HistoryInv'
  <2>0. Expected(sync[s]) = <<>> /\ sync[s].at # "ended"
    BY <1>5 DEF executeSync, Expected
  <2>1. CASE /\ sync' = [sync EXCEPT ![s] = [NotStarted EXCEPT
                    !.at = "calling", !.instance = i, !.status = "in_progress"]]
             /\ appendAudit(i, s, <<"sync_started">>)
             /\ UNCHANGED syncRecords
    <3> DEFINE record == [NotStarted EXCEPT
                    !.at = "calling", !.instance = i, !.status = "in_progress"]
    <3>1. /\ record.at = "calling" /\ record.retryCount = 0
          /\ record.attempt = 0
      BY DEF NotStarted
    <3> HIDE DEF record
    <3>2. Expected(record) = <<"sync_started">> /\ Counted(record)
      BY <3>1, RetriedMore DEF Expected, Counted
    <3>3. <<"sync_started">> \in Seq(Action) /\ <<>> \in Seq(Action)
      BY DEF Action
    <3>4. Expected(record) = Expected(sync[s]) \o <<"sync_started">>
      BY <2>0, <3>2, <3>3, ConcatEmptySeq
    <3>5. sync' = [sync EXCEPT ![s] = record]
      BY <2>1 DEF record
    <3> QED
      BY <1>0, <2>0, <2>1, <3>1, <3>2, <3>3, <3>4, <3>5, HistoryMoves
  <2>2. CASE /\ sync' = [sync EXCEPT ![s] = [NotStarted EXCEPT
                    !.at = "ended", !.instance = i, !.status = "completed"]]
             /\ syncRecords' = Append(syncRecords, s)
             /\ appendAudit(i, s, <<"sync_started", "sync_completed">>)
    <3> DEFINE record == [NotStarted EXCEPT
                    !.at = "ended", !.instance = i, !.status = "completed"]
    <3>1. /\ record.at = "ended" /\ record.retryCount = 0
          /\ record.status = "completed"
      BY DEF NotStarted
    <3> HIDE DEF record
    <3>2. Counted(record)
      BY <3>1 DEF Counted
    <3>3. /\ <<"sync_started", "sync_completed">> \in Seq(Action)
          /\ <<>> \in Seq(Action)
      BY DEF Action
    <3>4. Told(record) = <<"sync_started">> \o <<"sync_completed">>
      <4>1. /\ record.retryCount \in 0..(MaxRetries + 1)
            /\ record.retryCount <= MaxRetries /\ 0 \in Nat
        BY <1>0, <3>1
      <4>2. Told(record) = Retried(0) \o <<"sync_completed">>
        BY <3>1, <4>1, ToldEnds
      <4> QED
        BY <4>1, <4>2, RetriedMore
    <3>5. Expected(record) = <<"sync_started", "sync_completed">>
      <4>1. <<"sync_started">> \o <<"sync_completed">>
                = <<"sync_started", "sync_completed">>
        <5> DEFINE one == <<"sync_started">>
                   two == <<"sync_completed">>
                   both == <<"sync_started", "sync_completed">>
        <5>1. /\ one \in Seq(Action) /\ Len(one) = 1 /\ one[1] = "sync_started"
              /\ two \in Seq(Action) /\ Len(two) = 1 /\ two[1] = "sync_completed"
              /\ both \in Seq(Action) /\ Len(both) = 2
              /\ both[1] = "sync_started" /\ both[2] = "sync_completed"
          BY DEF Action
        <5> HIDE DEF one, two, both
        <5>2. /\ one \o two \in Seq(Action)
              /\ Len(one \o two) = Len(one) + Len(two)
              /\ \A k \in 1..(Len(one) + Len(two)) : (one \o two)[k] =
                    IF k <= Len(one) THEN one[k] ELSE two[k - Len(one)]
          BY <5>1, ConcatProperties
        <5>3. \A k \in 1..Len(one \o two) : (one \o two)[k] = both[k]
          BY <5>1, <5>2
        <5>4. one \o two = both
          BY <5>1, <5>2, <5>3, SeqEqual
        <5> QED
          BY <5>4 DEF one, two, both
      <4> QED
        BY <3>1, <3>4, <4>1 DEF Expected
    <3>6. Expected(record) = Expected(sync[s]) \o <<"sync_started", "sync_completed">>
      BY <2>0, <3>3, <3>5, ConcatEmptySeq
    <3>7. sync' = [sync EXCEPT ![s] = record]
      BY <2>2 DEF record
    <3> QED
      BY <1>0, <2>0, <2>2, <3>1, <3>2, <3>3, <3>6, <3>7, HistoryMoves
  <2> QED
    BY <1>5, <2>1, <2>2 DEF executeSync
<1>6. ASSUME NEW s \in Syncs, sync[s].at = "calling"
      PROVE  /\ sync[s].attempt \in 0..MaxRetries
             /\ sync[s].retryCount = sync[s].attempt
             /\ Expected(sync[s]) = Retried(sync[s].attempt)
             /\ Expected(sync[s]) \in Seq(Action)
             /\ sync[s].instance \in Instances
  <2>1. sync[s].attempt \in 0..MaxRetries
    BY DEF TypeInv, TypeOK, Sync
  <2>2. sync[s].retryCount = sync[s].attempt
    BY <1>6 DEF HistoryInv, Counted
  <2>3. Expected(sync[s]) = Retried(sync[s].attempt)
    BY <1>6, <2>2 DEF Expected
  <2>4. sync[s].attempt \in Nat
    BY <1>0, <2>1
  <2> QED
    BY <1>6, <2>1, <2>2, <2>3, <2>4, RetriedMore DEF TypeInv, CallsInv
<1>7. ASSUME NEW s \in Syncs, NEW result \in Result, attemptReturns(s, result)
      PROVE  HistoryInv'
  <2> DEFINE record == [sync[s] EXCEPT !.at = "ended", !.status = result,
                                       !.retryCount = sync[s].attempt]
             more == IF result = "completed" THEN <<"sync_completed">> ELSE <<>>
  <2>1. sync[s].at = "calling" /\ sync[s] \in Sync
    BY <1>7 DEF attemptReturns, TypeInv, TypeOK
  <2>2. /\ record.at = "ended" /\ record.status = result
        /\ record.retryCount = sync[s].attempt
    BY <2>1 DEF Sync
  <2>3. more \in Seq(Action)
    <3>1. <<"sync_completed">> \in Seq(Action) /\ <<>> \in Seq(Action)
      BY DEF Action
    <3> QED
      BY <3>1
  <2>4. /\ sync' = [sync EXCEPT ![s] = record]
        /\ appendAudit(sync[s].instance, s, more)
        /\ syncRecords' = Append(syncRecords, s)
    BY <1>7 DEF attemptReturns
  <2>5. Told(record) = Retried(sync[s].attempt) \o more
    <3>1. /\ record.retryCount \in 0..(MaxRetries + 1)
          /\ record.retryCount <= MaxRetries
      BY <1>0, <1>6, <2>1, <2>2
    <3> HIDE DEF record
    <3> QED
      BY <2>2, <3>1, ToldEnds
  <2> HIDE DEF record, more
  <2>6. Expected(record) = Expected(sync[s]) \o more /\ Counted(record)
    BY <1>6, <2>1, <2>2, <2>5 DEF Expected, Counted
  <2>7. PICK i \in Instances : i = sync[s].instance
    BY <1>6, <2>1
  <2> QED
    BY <1>0, <1>6, <2>1, <2>2, <2>3, <2>4, <2>6, <2>7, HistoryMoves
<1>8. ASSUME NEW s \in Syncs, attemptRejected(s)
      PROVE  HistoryInv'
  <2> DEFINE record == [sync[s] EXCEPT !.at = "sleeping", !.status = "retrying",
                                       !.retryCount = sync[s].attempt + 1]
  <2>1. sync[s].at = "calling" /\ sync[s] \in Sync
    BY <1>8 DEF attemptRejected, TypeInv, TypeOK
  <2>2. /\ record.at = "sleeping" /\ record.attempt = sync[s].attempt
        /\ record.retryCount = sync[s].attempt + 1
    BY <2>1 DEF Sync
  <2>3. <<"sync_retried">> \in Seq(Action)
    BY DEF Action
  <2>4. /\ sync' = [sync EXCEPT ![s] = record]
        /\ appendAudit(sync[s].instance, s, <<"sync_retried">>)
        /\ UNCHANGED syncRecords
    BY <1>8 DEF attemptRejected
  <2> HIDE DEF record
  <2>5. sync[s].attempt \in Nat
    BY <1>0, <1>6, <2>1
  <2>6. /\ Expected(record) = Expected(sync[s]) \o <<"sync_retried">>
        /\ Counted(record)
    BY <1>6, <2>1, <2>2, <2>5, RetriedMore DEF Expected, Counted
  <2>7. PICK i \in Instances : i = sync[s].instance
    BY <1>6, <2>1
  <2> QED
    BY <1>0, <1>6, <2>1, <2>2, <2>3, <2>4, <2>6, <2>7, HistoryMoves
<1>9. ASSUME NEW s \in Syncs, retriesExhausted(s)
      PROVE  HistoryInv'
  <2> DEFINE record == [sync[s] EXCEPT !.at = "ended", !.status = "failed",
                                       !.retryCount = sync[s].attempt + 1]
  <2>1. /\ sync[s].at = "calling" /\ sync[s] \in Sync
        /\ sync[s].attempt = MaxRetries
    BY <1>9 DEF retriesExhausted, TypeInv, TypeOK
  <2>2. record.at = "ended" /\ record.retryCount = sync[s].attempt + 1
    BY <2>1 DEF Sync
  <2>3. <<"sync_failed">> \in Seq(Action)
    BY DEF Action
  <2>4. /\ sync' = [sync EXCEPT ![s] = record]
        /\ appendAudit(sync[s].instance, s, <<"sync_failed">>)
        /\ syncRecords' = Append(syncRecords, s)
    BY <1>9 DEF retriesExhausted
  <2> HIDE DEF record
  <2>5. Told(record) = Retried(MaxRetries) \o <<"sync_failed">>
    <3>1. /\ record.retryCount \in 0..(MaxRetries + 1)
          /\ record.retryCount > MaxRetries
      BY <1>0, <2>1, <2>2
    <3> QED
      BY <3>1, ToldEnds
  <2>6. /\ Expected(record) = Expected(sync[s]) \o <<"sync_failed">>
        /\ Counted(record)
    BY <1>6, <2>1, <2>2, <2>5 DEF Expected, Counted
  <2>7. PICK i \in Instances : i = sync[s].instance
    BY <1>6, <2>1
  <2> QED
    BY <1>0, <1>6, <2>1, <2>2, <2>3, <2>4, <2>6, <2>7, HistoryMoves
<1>10. ASSUME NEW s \in Syncs, wake(s)
       PROVE  HistoryInv'
  <2> DEFINE record == [sync[s] EXCEPT !.at = "calling",
                                       !.attempt = sync[s].attempt + 1]
  <2>1. sync[s].at = "sleeping" /\ sync[s] \in Sync /\ sync \in [Syncs -> Sync]
    BY <1>10 DEF wake, TypeInv, TypeOK
  <2>2. /\ record.at = "calling" /\ record.attempt = sync[s].attempt + 1
        /\ record.retryCount = sync[s].retryCount
    BY <2>1 DEF Sync
  <2>3. /\ sync' = [sync EXCEPT ![s] = record]
        /\ UNCHANGED <<auditTrail, syncRecords>>
    BY <1>10 DEF wake
  <2>4. sync[s].retryCount = sync[s].attempt + 1
    BY <2>1 DEF HistoryInv, Counted
  <2> HIDE DEF record
  <2>5. /\ Counted(record) /\ Expected(record) = Expected(sync[s])
        /\ Ended(record) = Ended(sync[s])
    BY <2>1, <2>2, <2>4 DEF Counted, Expected, Ended
  <2>6. \A t \in Syncs : \/ t = s /\ sync'[t] = record
                         \/ t # s /\ sync'[t] = sync[t]
    BY <2>1, <2>3
  <2>7. \A t \in Syncs :
            /\ Counted(sync'[t])
            /\ Expected(sync'[t]) = Expected(sync[t])
            /\ Ended(sync'[t]) = Ended(sync[t])
    BY <2>5, <2>6 DEF HistoryInv
  <2> QED
    BY <2>3, <2>7 DEF HistoryInv
<1>11. ASSUME NEW i \in Instances, checkInstanceHealth(i)
       PROVE  HistoryInv'
  <2>1. "health_check_passed" \in Action
    BY DEF Action, Checks
  <2> QED
    BY <1>11, <2>1, HistoryLeft DEF checkInstanceHealth
<1>12. ASSUME NEW i \in Instances, NEW healthy \in BOOLEAN,
              healthAnswered(i, healthy)
       PROVE  HistoryInv'
  <2>1. PICK action \in Action : appendAudit(i, NULL, <<action>>)
    BY <1>12 DEF healthAnswered, Action, Checks
  <2> QED
    BY <1>12, <2>1, HistoryLeft DEF healthAnswered
<1> QED
  BY <1>1, <1>2, <1>3, <1>4, <1>5, <1>7, <1>8, <1>9, <1>10, <1>11, <1>12
     DEF Next, Settles, activateInstance, pauseInstance, InstanceStatus

\* History and audit trail agree: every sync that ended is in the history
\* once, and the trail tells its record, however many syncs overlap and
\* however many retries the policy allows.
THEOREM HistoryCorrect == Spec => []HistoryMatchesAudit
<1>1. Init => HistoryInv
  <2> SUFFICES ASSUME Init, NEW s \in Syncs
               PROVE  /\ Counted(sync[s])
                      /\ Tells(auditTrail, s, Expected(sync[s]))
                      /\ Cardinality(Recorded(syncRecords, s)) = Ended(sync[s])
    BY DEF HistoryInv
  <2>1. sync[s].at = "idle" /\ auditTrail = <<>> /\ syncRecords = <<>>
    BY DEF Init, NotStarted
  <2>2. Entries(auditTrail, s) = {} /\ Recorded(syncRecords, s) = {}
    BY <2>1 DEF Entries, Recorded
  <2>3. Expected(sync[s]) = <<>> /\ Ended(sync[s]) = 0 /\ Counted(sync[s])
    BY <2>1 DEF Expected, Ended, Counted
  <2>4. Tells(auditTrail, s, Expected(sync[s]))
    BY <2>2, <2>3, FS_EmptySet DEF Tells
  <2> QED
    BY <2>2, <2>3, <2>4, FS_EmptySet
<1>2. TypeInv /\ HistoryInv /\ [Next]_vars => TypeInv' /\ HistoryInv'
  BY NextTypeInv, NextHistory
<1>3. HistoryInv => HistoryMatchesAudit
  <2> SUFFICES ASSUME HistoryInv, NEW s \in Syncs
               PROVE  /\ Cardinality(Recorded(syncRecords, s)) =
                             IF sync[s].at = "ended" THEN 1 ELSE 0
                      /\ sync[s].at = "ended" =>
                             Tells(auditTrail, s, Told(sync[s]))
    BY DEF HistoryMatchesAudit, Recorded
  <2> QED
    BY DEF HistoryInv, Ended, Expected
<1> QED
  BY InitTypeInv, <1>1, <1>2, <1>3, PTL DEF Spec
=============================================================================
