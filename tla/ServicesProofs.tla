---------------------------- MODULE ServicesProofs ----------------------------
(***************************************************************************)
(* Proofs about MCServices, for any instances that meet the assumptions of *)
(* their modules: running the services side by side, one of them at a      *)
(* time, is running each of them, so every theorem about a service holds   *)
(* of the runs; and what the runs check of all of them together.           *)
(***************************************************************************)
EXTENDS MCServices, CommunityProofs, ListProofs, PlatformProofs, TLAPS

\* The theorems about the instances of Moderation and Indexer.
DirectStoreFacts == INSTANCE ModerationProofs WITH
    Subjects <- {"s1"}, Stamps <- {"t1"}, Keys <- {<<"k1">>}, Consumable <- {"s1"},
    Restarts <- FALSE, MaxAudit <- 3, MaxDepth <- 1
SequentialFacts == INSTANCE IndexerProofs WITH
    Uris <- {"u1"}, LastSeq <- 2, Calls <- {"c1"}, Interval <- 2,
    MaxCount <- 4, Overlap <- FALSE, Replays <- FALSE, Failures <- TRUE

-----------------------------------------------------------------------------
(* Each service *)

LEMMA GroupRuns == Spec => GroupSpec
<1>1. Init => GroupInit
  BY DEF Init
<1>2. [Next]_vars => [GroupNext]_groupVars
  BY DEF Next, OthersRest, vars
<1> QED
  BY <1>1, <1>2, PTL DEF Spec, GroupSpec

LEMMA ChatRuns == Spec => ChatSpec
<1>1. Init => ChatInit
  BY DEF Init
<1>2. [Next]_vars => [ChatNext]_chatVars
  BY DEF Next, OthersRest, vars
<1> QED
  BY <1>1, <1>2, PTL DEF Spec, ChatSpec

LEMMA SafetyRuns == Spec => SafetySpec
<1>1. Init => SafetyInit
  BY DEF Init
<1>2. [Next]_vars => [SafetyNext]_safetyVars
  BY DEF Next, OthersRest, vars
<1> QED
  BY <1>1, <1>2, PTL DEF Spec, SafetySpec

LEMMA ScheduleRuns == Spec => ScheduleSpec
<1>1. Init => ScheduleInit
  BY DEF Init
<1>2. [Next]_vars => [ScheduleNext]_scheduleVars
  BY DEF Next, OthersRest, vars
<1> QED
  BY <1>1, <1>2, PTL DEF Spec, ScheduleSpec

LEMMA NotifyRuns == Spec => NotifySpec
<1>1. Init => NotifyInit
  BY DEF Init
<1>2. [Next]_vars => [NotifyNext]_notifyVars
  BY DEF Next, OthersRest, vars
<1> QED
  BY <1>1, <1>2, PTL DEF Spec, NotifySpec

LEMMA TenancyRuns == Spec => TenancySpec
<1>1. Init => TenancyInit
  BY DEF Init
<1>2. [Next]_vars => [TenancyNext]_tenancyVars
  BY DEF Next, OthersRest, vars
<1> QED
  BY <1>1, <1>2, PTL DEF Spec, TenancySpec

LEMMA RoutingRuns == Spec => RoutingSpec
<1>1. Init => RoutingInit
  BY DEF Init
<1>2. [Next]_vars => [RoutingNext]_routingVars
  BY DEF Next, OthersRest, vars
<1> QED
  BY <1>1, <1>2, PTL DEF Spec, RoutingSpec

LEMMA VerificationRuns == Spec => VerificationSpec
<1>1. Init => VerificationInit
  BY DEF Init
<1>2. [Next]_vars => [VerificationNext]_verificationVars
  BY DEF Next, OthersRest, vars
<1> QED
  BY <1>1, <1>2, PTL DEF Spec, VerificationSpec

LEMMA MatchingRuns == Spec => MatchingSpec
<1>1. Init => MatchingInit
  BY DEF Init
<1>2. [Next]_vars => [MatchingNext]_matchingVars
  BY DEF Next, OthersRest, vars
<1> QED
  BY <1>1, <1>2, PTL DEF Spec, MatchingSpec

LEMMA ShellRuns == Spec => ShellSpec
<1>1. Init => ShellInit
  BY DEF Init
<1>2. [Next]_vars => [ShellNext]_shellVars
  BY DEF Next, OthersRest, vars
<1> QED
  BY <1>1, <1>2, PTL DEF Spec, ShellSpec

LEMMA DiscoveryRuns == Spec => DiscoverySpec
<1>1. Init => DiscoveryInit
  BY DEF Init
<1>2. [Next]_vars => [DiscoveryNext]_discoveryVars
  BY DEF Next, OthersRest, vars
<1> QED
  BY <1>1, <1>2, PTL DEF Spec, DiscoverySpec

LEMMA SettingsRuns == Spec => SettingsSpec
<1>1. Init => SettingsInit
  BY DEF Init
<1>2. [Next]_vars => [SettingsNext]_settingsVars
  BY DEF Next, OthersRest, vars
<1> QED
  BY <1>1, <1>2, PTL DEF Spec, SettingsSpec

LEMMA GatewayRuns == Spec => GatewaySpec
<1>1. Init => GatewayInit
  BY DEF Init
<1>2. [Next]_vars => [GatewayNext]_gatewayVars
  BY DEF Next, OthersRest, vars
<1> QED
  BY <1>1, <1>2, PTL DEF Spec, GatewaySpec

LEMMA OrganisationRuns == Spec => OrganisationSpec
<1>1. Init => OrganisationInit
  BY DEF Init
<1>2. [Next]_vars => [OrganisationNext]_organisationVars
  BY DEF Next, OthersRest, vars
<1> QED
  BY <1>1, <1>2, PTL DEF Spec, OrganisationSpec

LEMMA InboxRuns == Spec => InboxSpec
<1>1. Init => InboxInit
  BY DEF Init
<1>2. [Next]_vars => [InboxNext]_inboxVars
  BY DEF Next, OthersRest, vars
<1> QED
  BY <1>1, <1>2, PTL DEF Spec, InboxSpec

LEMMA CardRuns == Spec => CardSpec
<1>1. Init => CardInit
  BY DEF Init
<1>2. [Next]_vars => [CardNext]_cardVars
  BY DEF Next, OthersRest, vars
<1> QED
  BY <1>1, <1>2, PTL DEF Spec, CardSpec

LEMMA DirectStoreRuns == Spec => DirectStore!Spec
<1>1. Init => DirectStore!Init
  BY DEF Init
<1>2. [Next]_vars => [DirectStore!Next]_store
  BY DEF Next, OthersRest, vars
<1>3. UNCHANGED store => UNCHANGED DirectStore!vars
  BY DEF store, DirectStore!vars
<1>4. [Next]_vars => [DirectStore!Next]_(DirectStore!vars)
  BY <1>2, <1>3
<1> QED
  BY <1>1, <1>4, PTL DEF Spec, DirectStore!Spec

LEMMA SequentialRuns == Spec => Sequential!Spec
<1>1. Init => Sequential!Init
  BY DEF Init
<1>2. [Next]_vars => [Sequential!Next]_sequential
  BY DEF Next, OthersRest, vars
<1>3. UNCHANGED sequential => UNCHANGED Sequential!vars
  BY DEF sequential, Sequential!vars, Sequential!process, Sequential!history
<1>4. [Next]_vars => [Sequential!Next]_(Sequential!vars)
  BY <1>2, <1>3
<1> QED
  BY <1>1, <1>4, PTL DEF Spec, Sequential!Spec


-----------------------------------------------------------------------------
(* The theorems about the instances *)

\* The two instances of Moderation are one: an instance of the proofs brings
\* definitions of its own, which say the same.
LEMMA SameItems ==
    /\ \A s : DirectStore!Current(s) = DirectStoreFacts!Current(s)
    /\ \A item, action : DirectStore!Applicable(item, action)
                            <=> DirectStoreFacts!Applicable(item, action)
    /\ \A item, action : DirectStore!applyTransition(item, action)
                            = DirectStoreFacts!applyTransition(item, action)
BY DEF DirectStore!Current, DirectStoreFacts!Current, DirectStore!Applicable,
       DirectStoreFacts!Applicable, DirectStore!InAppeal,
       DirectStoreFacts!InAppeal, DirectStore!applyTransition,
       DirectStoreFacts!applyTransition

LEMMA SameKeys ==
    /\ \A key : DirectStore!Used(key) <=> DirectStoreFacts!Used(key)
    /\ \A s, action, stamp : DirectStore!toIdempotencyKey(s, action, stamp)
                                = DirectStoreFacts!toIdempotencyKey(s, action, stamp)
    /\ DirectStore!PolicyAction = DirectStoreFacts!PolicyAction
    /\ \A n : DirectStore!recordDequeue(n) <=> DirectStoreFacts!recordDequeue(n)
BY DEF DirectStore!Used, DirectStoreFacts!Used, DirectStore!toIdempotencyKey,
       DirectStoreFacts!toIdempotencyKey, DirectStore!PolicyAction,
       DirectStoreFacts!PolicyAction, DirectStore!recordDequeue,
       DirectStoreFacts!recordDequeue

LEMMA SameAct ==
    ASSUME NEW acted, NEW action, NEW keys
    PROVE  DirectStore!Act(acted, action, keys)
             <=> DirectStoreFacts!Act(acted, action, keys)
BY DEF DirectStore!Act, DirectStoreFacts!Act, DirectStore!Current,
       DirectStoreFacts!Current, DirectStore!applyTransition,
       DirectStoreFacts!applyTransition, DirectStore!InAppeal,
       DirectStoreFacts!InAppeal

LEMMA SamePolicy ==
    ASSUME NEW s, NEW action, NEW key, NEW stamp
    PROVE  DirectStore!applyPolicyFromParams(s, action, key, stamp)
             <=> DirectStoreFacts!applyPolicyFromParams(s, action, key, stamp)
BY SameItems, SameKeys, SameAct DEF DirectStore!applyPolicyFromParams,
       DirectStoreFacts!applyPolicyFromParams

LEMMA SameBulk ==
    ASSUME NEW subjects, NEW action, NEW stamp
    PROVE  DirectStore!bulkTriage(subjects, action, stamp)
             <=> DirectStoreFacts!bulkTriage(subjects, action, stamp)
<1> DEFINE key(s) == DirectStore!toIdempotencyKey(s, action, stamp)
           found == {s \in subjects : DirectStore!Current(s) # NULL}
           replayed == {s \in found : DirectStore!Used(key(s))}
           acted == {s \in found \ replayed :
                       DirectStore!Applicable(DirectStore!Current(s), action)}
           keys == [s \in acted |-> key(s)]
           key2(s) == DirectStoreFacts!toIdempotencyKey(s, action, stamp)
           found2 == {s \in subjects : DirectStoreFacts!Current(s) # NULL}
           replayed2 == {s \in found2 : DirectStoreFacts!Used(key2(s))}
           acted2 == {s \in found2 \ replayed2 :
                        DirectStoreFacts!Applicable(DirectStoreFacts!Current(s), action)}
           keys2 == [s \in acted2 |-> key2(s)]
<1>1. found = found2
  BY SameItems
<1>2. replayed = replayed2
  BY <1>1, SameKeys
<1>3. acted = acted2
  BY <1>1, <1>2, SameItems
<1>4. keys = keys2
  BY <1>3, SameKeys
<1>5. DirectStore!bulkTriage(subjects, action, stamp)
        <=> /\ DirectStore!Act(acted, action, keys)
            /\ DirectStore!recordDequeue(DirectStore!Cardinality(replayed \union acted))
            /\ UNCHANGED saved
  BY DEF DirectStore!bulkTriage
<1>6. DirectStoreFacts!bulkTriage(subjects, action, stamp)
        <=> /\ DirectStoreFacts!Act(acted2, action, keys2)
            /\ DirectStoreFacts!recordDequeue(
                  DirectStoreFacts!Cardinality(replayed2 \union acted2))
            /\ UNCHANGED saved
  BY DEF DirectStoreFacts!bulkTriage
<1>7. DirectStore!Cardinality(replayed \union acted)
        = DirectStoreFacts!Cardinality(replayed \union acted)
  BY DEF DirectStore!Cardinality, DirectStoreFacts!Cardinality
<1> HIDE DEF found, replayed, acted, keys, found2, replayed2, acted2, keys2
<1> QED
  BY <1>2, <1>3, <1>4, <1>5, <1>6, <1>7, SameAct, SameKeys

LEMMA SameStore == DirectStore!Spec <=> DirectStoreFacts!Spec
<1>1. DirectStore!Init <=> DirectStoreFacts!Init
  BY DEF DirectStore!Init, DirectStoreFacts!Init
<1>2. UNCHANGED DirectStore!vars <=> UNCHANGED DirectStoreFacts!vars
  BY DEF DirectStore!vars, DirectStoreFacts!vars
<1>3. ASSUME NEW s
      PROVE  DirectStore!enqueueFromParams(s) <=> DirectStoreFacts!enqueueFromParams(s)
  BY DEF DirectStore!enqueueFromParams, DirectStoreFacts!enqueueFromParams,
         DirectStore!Current, DirectStoreFacts!Current
<1>4. ASSUME NEW s, NEW stamp
      PROVE  DirectStore!escalateItem(s, stamp) <=> DirectStoreFacts!escalateItem(s, stamp)
  BY SameItems, SamePolicy DEF DirectStore!escalateItem,
         DirectStoreFacts!escalateItem
<1>5. ASSUME NEW s
      PROVE  /\ DirectStore!ack(s) <=> DirectStoreFacts!ack(s)
             /\ DirectStore!nack(s) <=> DirectStoreFacts!nack(s)
             /\ DirectStore!dequeue(s) <=> DirectStoreFacts!dequeue(s)
  BY DEF DirectStore!ack, DirectStoreFacts!ack, DirectStore!nack,
         DirectStoreFacts!nack, DirectStore!dequeue, DirectStoreFacts!dequeue
<1>6. /\ DirectStore!snapshot <=> DirectStoreFacts!snapshot
      /\ DirectStore!restore <=> DirectStoreFacts!restore
  BY DEF DirectStore!snapshot, DirectStoreFacts!snapshot,
         DirectStore!restore, DirectStoreFacts!restore
<1>7. DirectStore!Next <=> DirectStoreFacts!Next
  BY <1>3, <1>4, <1>5, <1>6, SameKeys, SamePolicy, SameBulk DEF
         DirectStore!Next, DirectStoreFacts!Next
<1>8. [DirectStore!Next]_(DirectStore!vars)
        <=> [DirectStoreFacts!Next]_(DirectStoreFacts!vars)
  BY <1>2, <1>7
<1> QED
  BY <1>1, <1>8, PTL DEF DirectStore!Spec, DirectStoreFacts!Spec

LEMMA SameStoreClaims ==
    /\ DirectStore!TypeOK <=> DirectStoreFacts!TypeOK
    /\ DirectStore!DecisionsNeedAppeals <=> DirectStoreFacts!DecisionsNeedAppeals
<1>1. DirectStore!TypeOK <=> DirectStoreFacts!TypeOK
  BY DEF DirectStore!TypeOK, DirectStoreFacts!TypeOK, DirectStore!Item,
         DirectStoreFacts!Item, DirectStore!QueueStatus,
         DirectStoreFacts!QueueStatus, DirectStore!Visibility,
         DirectStoreFacts!Visibility, DirectStore!AppealState,
         DirectStoreFacts!AppealState, DirectStore!AuditRecord,
         DirectStoreFacts!AuditRecord, DirectStore!PolicyAction,
         DirectStoreFacts!PolicyAction, DirectStore!IdempotencyKey,
         DirectStoreFacts!IdempotencyKey
<1>2. DirectStore!DecisionsNeedAppeals <=> DirectStoreFacts!DecisionsNeedAppeals
  BY DEF DirectStore!DecisionsNeedAppeals,
         DirectStoreFacts!DecisionsNeedAppeals, DirectStore!Count,
         DirectStoreFacts!Count, DirectStore!Cardinality,
         DirectStoreFacts!Cardinality
<1> QED
  BY <1>1, <1>2

\* The instance meets the assumptions of Moderation.
LEMMA StoreFits == DirectStoreFacts!ModerationConstants /\ DirectStoreFacts!NullIsNoItem
<1>1. DirectStoreFacts!IsFiniteSet({"s1"})
  <2>1. <<"s1">> \in Seq({"s1"}) /\ \A s \in {"s1"} : \E n \in 1..Len(<<"s1">>) : <<"s1">>[n] = s
    OBVIOUS
  <2> QED
    BY <2>1 DEF DirectStoreFacts!IsFiniteSet
<1>2. NULL \notin {<<"k1">>} /\ NULL \notin DirectStore!Item
  BY ServicesConstants
<1>3. DirectStore!Item = DirectStoreFacts!Item
  BY DEF DirectStore!Item, DirectStoreFacts!Item, DirectStore!QueueStatus,
         DirectStoreFacts!QueueStatus, DirectStore!Visibility,
         DirectStoreFacts!Visibility, DirectStore!AppealState,
         DirectStoreFacts!AppealState
<1> QED
  BY <1>1, <1>2, <1>3 DEF DirectStoreFacts!ModerationConstants, DirectStoreFacts!NullIsNoItem

LEMMA StoreHolds == Spec => [](DirectStore!TypeOK /\ DirectStore!DecisionsNeedAppeals)
<1>1. DirectStoreFacts!Spec => []DirectStoreFacts!TypeOK
  BY StoreFits, DirectStoreFacts!TypeCorrect
<1>2. DirectStoreFacts!Spec => []DirectStoreFacts!DecisionsNeedAppeals
  BY StoreFits, DirectStoreFacts!DecisionsAppealed
<1> QED
  BY <1>1, <1>2, DirectStoreRuns, SameStore, SameStoreClaims, PTL

\* The same of the two instances of Indexer.
LEMMA SameBatch ==
    ASSUME NEW batch, NEW base, NEW old, NEW count
    PROVE  Sequential!Ingest(batch, base, old, count)
             <=> SequentialFacts!Ingest(batch, base, old, count)
<1>1. Sequential!normalized(batch) = SequentialFacts!normalized(batch)
  BY DEF Sequential!normalized, SequentialFacts!normalized
<1>2. Sequential!Cardinality(SequentialFacts!normalized(batch))
        = SequentialFacts!Cardinality(SequentialFacts!normalized(batch))
  BY DEF Sequential!Cardinality, SequentialFacts!Cardinality
<1>3. Sequential!applyEvents(old, batch) = SequentialFacts!applyEvents(old, batch)
  BY DEF Sequential!applyEvents, SequentialFacts!applyEvents,
         Sequential!Left, SequentialFacts!Left, Sequential!Latest,
         SequentialFacts!Latest, Sequential!On, SequentialFacts!On
<1> QED
  BY <1>1, <1>2, <1>3 DEF Sequential!Ingest, SequentialFacts!Ingest

LEMMA SameCalls ==
    /\ Sequential!Idle = SequentialFacts!Idle
    /\ Sequential!NoSeq = SequentialFacts!NoSeq
    /\ Sequential!Seqs = SequentialFacts!Seqs
    /\ Sequential!Ready <=> SequentialFacts!Ready
    /\ \A c, seq : Sequential!Save(c, seq) <=> SequentialFacts!Save(c, seq)
BY DEF Sequential!Idle, SequentialFacts!Idle, Sequential!NoSeq,
       SequentialFacts!NoSeq, Sequential!Seqs, SequentialFacts!Seqs,
       Sequential!Ready, SequentialFacts!Ready, Sequential!Save,
       SequentialFacts!Save

LEMMA SameReceive ==
    ASSUME NEW q PROVE Sequential!Receive(q) <=> SequentialFacts!Receive(q)
BY SameBatch, SameCalls DEF Sequential!Receive, SequentialFacts!Receive

LEMMA SameDriver == Sequential!Spec <=> SequentialFacts!Spec
<1>1. Sequential!Init <=> SequentialFacts!Init
  BY DEF Sequential!Init, SequentialFacts!Init, Sequential!Seqs,
         SequentialFacts!Seqs, Sequential!Event, SequentialFacts!Event,
         Sequential!NoSeq, SequentialFacts!NoSeq, Sequential!Idle,
         SequentialFacts!Idle
<1>2. UNCHANGED Sequential!vars <=> UNCHANGED SequentialFacts!vars
  BY DEF Sequential!vars, SequentialFacts!vars, Sequential!process,
         SequentialFacts!process, Sequential!history, SequentialFacts!history
<1>3. ASSUME NEW q
      PROVE  /\ Sequential!ingest(q) <=> SequentialFacts!ingest(q)
             /\ Sequential!replay(q) <=> SequentialFacts!replay(q)
             /\ Sequential!replayFromCursor(q) <=> SequentialFacts!replayFromCursor(q)
  BY SameBatch, SameCalls, SameReceive DEF Sequential!ingest,
         SequentialFacts!ingest, Sequential!replay, SequentialFacts!replay,
         Sequential!replayFromCursor, SequentialFacts!replayFromCursor
<1>4. ASSUME NEW c, NEW q
      PROVE  Sequential!ingestAndCheckpoint(c, q) <=> SequentialFacts!ingestAndCheckpoint(c, q)
  BY SameCalls, SameReceive DEF Sequential!ingestAndCheckpoint,
         SequentialFacts!ingestAndCheckpoint
<1>5. ASSUME NEW c
      PROVE  /\ Sequential!saveCheckpoint(c) <=> SequentialFacts!saveCheckpoint(c)
             /\ Sequential!upsertCheckpoint(c) <=> SequentialFacts!upsertCheckpoint(c)
             /\ Sequential!saved(c) <=> SequentialFacts!saved(c)
             /\ Sequential!saveFails(c) <=> SequentialFacts!saveFails(c)
  BY SameCalls DEF Sequential!saveCheckpoint, SequentialFacts!saveCheckpoint,
         Sequential!upsertCheckpoint, SequentialFacts!upsertCheckpoint,
         Sequential!saved, SequentialFacts!saved, Sequential!saveFails,
         SequentialFacts!saveFails, Sequential!process,
         SequentialFacts!process, Sequential!history, SequentialFacts!history
<1>6. Sequential!restart <=> SequentialFacts!restart
  BY DEF Sequential!restart, SequentialFacts!restart, Sequential!NoSeq,
         SequentialFacts!NoSeq, Sequential!Idle, SequentialFacts!Idle
<1>7. Sequential!Next <=> SequentialFacts!Next
  BY <1>3, <1>4, <1>5, <1>6, SameCalls DEF Sequential!Next,
         SequentialFacts!Next
<1>8. [Sequential!Next]_(Sequential!vars) <=> [SequentialFacts!Next]_(SequentialFacts!vars)
  BY <1>2, <1>7
<1> QED
  BY <1>1, <1>8, PTL DEF Sequential!Spec, SequentialFacts!Spec

LEMMA SameDriverClaims ==
    /\ Sequential!TypeOK <=> SequentialFacts!TypeOK
    /\ Sequential!UnsavedAreCounted <=> SequentialFacts!UnsavedAreCounted
    /\ Sequential!ProgressSpec <=> SequentialFacts!ProgressSpec
<1>1. Sequential!TypeOK <=> SequentialFacts!TypeOK
  BY DEF Sequential!TypeOK, SequentialFacts!TypeOK, Sequential!Seqs,
         SequentialFacts!Seqs, Sequential!Event, SequentialFacts!Event,
         Sequential!NoSeq, SequentialFacts!NoSeq
<1>2. Sequential!UnsavedAreCounted <=> SequentialFacts!UnsavedAreCounted
  BY DEF Sequential!UnsavedAreCounted, SequentialFacts!UnsavedAreCounted,
         Sequential!normalized, SequentialFacts!normalized,
         Sequential!Cardinality, SequentialFacts!Cardinality
<1>3. Sequential!Progress!Init <=> SequentialFacts!Progress!Init
  BY DEF Sequential!Progress!Init, SequentialFacts!Progress!Init
<1>4. [Sequential!Progress!Next]_<<handled, cursor>>
        <=> [SequentialFacts!Progress!Next]_<<handled, cursor>>
  BY DEF Sequential!Progress!Next, SequentialFacts!Progress!Next,
         Sequential!Progress!Take, SequentialFacts!Progress!Take,
         Sequential!Progress!Save, SequentialFacts!Progress!Save
<1>5. Sequential!ProgressSpec <=> SequentialFacts!ProgressSpec
  BY <1>3, <1>4, PTL DEF Sequential!ProgressSpec,
         SequentialFacts!ProgressSpec, Sequential!Progress!Spec,
         SequentialFacts!Progress!Spec
<1> QED
  BY <1>1, <1>2, <1>5

\* The instance meets the assumptions of Indexer.
LEMMA DriverFits == SequentialFacts!IndexerConstants
BY DEF SequentialFacts!IndexerConstants

LEMMA DriverHolds ==
    Spec => /\ [](Sequential!TypeOK /\ Sequential!UnsavedAreCounted)
            /\ Sequential!ProgressSpec
<1>1. SequentialFacts!Spec => []SequentialFacts!TypeOK
  BY DriverFits, SequentialFacts!TypeCorrect
<1>2. SequentialFacts!Spec => []SequentialFacts!UnsavedAreCounted
  BY DriverFits, SequentialFacts!SequentialCount
<1>3. SequentialFacts!Spec => SequentialFacts!ProgressSpec
  BY DriverFits, SequentialFacts!ProgressRefinement
<1> QED
  BY <1>1, <1>2, <1>3, SequentialRuns, SameDriver, SameDriverClaims, PTL

-----------------------------------------------------------------------------
(* What is checked of all of them *)

\* Running the services side by side is running each of them: in every
\* behaviour of the runs each service behaves by its own specification, so
\* what is proved of a service holds in the runs.
THEOREM EveryServiceRuns ==
    Spec => /\ GroupSpec /\ ChatSpec /\ SafetySpec /\ ScheduleSpec
            /\ NotifySpec /\ TenancySpec /\ RoutingSpec /\ VerificationSpec
            /\ MatchingSpec /\ ShellSpec /\ DiscoverySpec /\ SettingsSpec
            /\ GatewaySpec /\ OrganisationSpec /\ InboxSpec /\ CardSpec
            /\ DirectStore!Spec /\ Sequential!Spec
BY GroupRuns, ChatRuns, SafetyRuns, ScheduleRuns, NotifyRuns, TenancyRuns,
   RoutingRuns, VerificationRuns, MatchingRuns, ShellRuns, DiscoveryRuns,
   SettingsRuns, GatewayRuns, OrganisationRuns, InboxRuns, CardRuns,
   DirectStoreRuns, SequentialRuns

LEMMA GroupStays == Spec => []GroupTypeOK
<1>1. GroupSpec => []GroupInv
  BY GroupInvariant, ServicesConstants
<1>2. GroupInv => GroupTypeOK
  BY DEF GroupInv
<1> QED
  BY <1>1, <1>2, GroupRuns, PTL

LEMMA ChatStays == Spec => []ChatTypeOK
<1>1. ChatSpec => []ChatInv
  BY ChatInvariant, ServicesConstants
<1>2. ChatInv => ChatTypeOK
  BY DEF ChatInv
<1> QED
  BY <1>1, <1>2, ChatRuns, PTL

LEMMA SafetyStays == Spec => []SafetyTypeOK
<1>1. SafetySpec => []SafetyInv
  BY SafetyInvariant, ServicesConstants
<1>2. SafetyInv => SafetyTypeOK
  BY DEF SafetyInv
<1> QED
  BY <1>1, <1>2, SafetyRuns, PTL

LEMMA ScheduleStays == Spec => []ScheduleTypeOK
<1>1. ScheduleSpec => []ScheduleInv
  BY ScheduleInvariant, ServicesConstants
<1>2. ScheduleInv => ScheduleTypeOK
  BY DEF ScheduleInv
<1> QED
  BY <1>1, <1>2, ScheduleRuns, PTL

LEMMA NotifyStays == Spec => []NotifyTypeOK
<1>1. NotifySpec => []NotifyInv
  BY NotifyInvariant, ServicesConstants
<1>2. NotifyInv => NotifyTypeOK
  BY DEF NotifyInv
<1> QED
  BY <1>1, <1>2, NotifyRuns, PTL

LEMMA TenancyStays == Spec => []TenancyTypeOK
<1>1. TenancySpec => []TenancyInv
  BY TenancyInvariant, ServicesConstants
<1>2. TenancyInv => TenancyTypeOK
  BY DEF TenancyInv
<1> QED
  BY <1>1, <1>2, TenancyRuns, PTL

LEMMA RoutingStays == Spec => []RoutingTypeOK
<1>1. RoutingSpec => []RoutingInv
  BY RoutingInvHolds, ServicesConstants
<1>2. RoutingInv => RoutingTypeOK
  BY DEF RoutingInv
<1> QED
  BY <1>1, <1>2, RoutingRuns, PTL

LEMMA VerificationStays == Spec => []VerificationTypeOK
<1>1. VerificationSpec => []VerificationInv
  BY VerificationInvariant, ServicesConstants
<1>2. VerificationInv => VerificationTypeOK
  BY DEF VerificationInv
<1> QED
  BY <1>1, <1>2, VerificationRuns, PTL

LEMMA MatchingStays == Spec => []MatchingTypeOK
<1>1. MatchingSpec => []MatchInv
  BY MatchingInvariant, ServicesConstants
<1>2. MatchInv => MatchingTypeOK
  BY DEF MatchInv
<1> QED
  BY <1>1, <1>2, MatchingRuns, PTL

LEMMA ShellStays == Spec => []ShellTypeOK
<1>1. ShellSpec => []ShellInv
  BY ShellInvariant, ServicesConstants
<1>2. ShellInv => ShellTypeOK
  BY DEF ShellInv
<1> QED
  BY <1>1, <1>2, ShellRuns, PTL

LEMMA DiscoveryStays == Spec => []DiscoveryTypeOK
<1>1. DiscoverySpec => []DiscoveryInv
  BY DiscoveryInvariant, ServicesConstants
<1>2. DiscoveryInv => DiscoveryTypeOK
  BY DEF DiscoveryInv
<1> QED
  BY <1>1, <1>2, DiscoveryRuns, PTL

LEMMA SettingsStays == Spec => []SettingsTypeOK
<1>1. SettingsSpec => []SettingsInv
  BY SettingsInvariant, ServicesConstants
<1>2. SettingsInv => SettingsTypeOK
  BY DEF SettingsInv
<1> QED
  BY <1>1, <1>2, SettingsRuns, PTL

LEMMA GatewayStays == Spec => []GatewayTypeOK
BY GatewayTypes, GatewayRuns, ServicesConstants

LEMMA OrganisationStays == Spec => []OrganisationTypeOK
<1>1. OrganisationSpec => [](OrganisationInv /\ OrganisationShape)
  BY OrganisationInvariant, ServicesConstants
<1>2. OrganisationInv /\ OrganisationShape => OrganisationTypeOK
  BY OrganisationTyped
<1> QED
  BY <1>1, <1>2, OrganisationRuns, PTL

LEMMA InboxStays == Spec => []InboxTypeOK
<1>1. InboxSpec => []InboxInv
  BY InboxInvariant, ServicesConstants
<1>2. InboxInv => InboxTypeOK
  BY DEF InboxInv
<1> QED
  BY <1>1, <1>2, InboxRuns, PTL

LEMMA CardStays == Spec => []CardTypeOK
<1>1. CardSpec => []CardInv
  BY CardInvariant, ServicesConstants
<1>2. CardInv => CardTypeOK
  BY DEF CardInv
<1> QED
  BY <1>1, <1>2, CardRuns, PTL

\* The state of the service that runs has its type, whichever it is.
THEOREM TypesHold == Spec => []TypeOK
<1>1. /\ GroupTypeOK /\ ChatTypeOK /\ SafetyTypeOK /\ ScheduleTypeOK
      /\ NotifyTypeOK /\ TenancyTypeOK /\ RoutingTypeOK /\ VerificationTypeOK
      /\ MatchingTypeOK /\ ShellTypeOK /\ DiscoveryTypeOK /\ SettingsTypeOK
      /\ GatewayTypeOK /\ OrganisationTypeOK /\ InboxTypeOK /\ CardTypeOK
      /\ DirectStore!TypeOK /\ Sequential!TypeOK
      => TypeOK
  BY DEF TypeOK
<1>2. Spec => [](DirectStore!TypeOK /\ Sequential!TypeOK)
  BY StoreHolds, DriverHolds, PTL
<1> QED
  BY <1>1, <1>2, GroupStays, ChatStays, SafetyStays, ScheduleStays, NotifyStays,
     TenancyStays, RoutingStays, VerificationStays, MatchingStays, ShellStays,
     DiscoveryStays, SettingsStays, GatewayStays, OrganisationStays, InboxStays,
     CardStays, PTL

\* With direct users of the store and no restarts no appeal is decided twice,
\* and with a driver that awaits each call every event the row does not cover
\* is counted.
THEOREM OtherInstancesStand == Spec => []OtherInstancesHold
<1>1. DirectStore!DecisionsNeedAppeals /\ Sequential!UnsavedAreCounted
        => OtherInstancesHold
  BY DEF OtherInstancesHold
<1> QED
  BY <1>1, StoreHolds, DriverHolds, PTL

\* With a driver that awaits each call the row moves on over a stream that was
\* taken in without a gap, across crashes and failed saves.
THEOREM StreamAdvancing == Spec => StreamAdvances
BY DriverHolds DEF StreamAdvances
==============================================================================
