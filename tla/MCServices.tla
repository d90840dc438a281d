----------------------------- MODULE MCServices -----------------------------
(***************************************************************************)
(* Small instances of the services that keep their state to themselves,    *)
(* for one run of TLC: the service is chosen in the initial state, and     *)
(* every behaviour is one of that service.                                 *)
(***************************************************************************)
EXTENDS GroupCoordination, ChatMessages, ChatSafety, Scheduling, Notifications,
        Tenancy, ChatRouting, Verification, Matching, WebShell, Discovery,
        Settings, Gateway, Organisation, Inbox, FeedCards

VARIABLES
    service,
    \* Moderation
    items, cache, audit, depth, saved,
    \* Indexer
    firehose, position, resume, index, checkpointSeq, eventsSinceCheckpoint,
    saving, cursor, seen, handled

store == <<items, cache, audit, depth, saved>>
sequential == <<firehose, position, resume, index, checkpointSeq,
                eventsSinceCheckpoint, saving, cursor, seen, handled>>

vars == <<service, groupVars, chatVars, safetyVars, scheduleVars, notifyVars,
          tenancyVars, routingVars, verificationVars, matchingVars, shellVars,
          discoveryVars, settingsVars, gatewayVars, organisationVars,
          inboxVars, cardVars, store, sequential>>

-----------------------------------------------------------------------------
(* The instances *)

\* No DID has a capability of its own.
NoCapability == [p \in Participants |-> NULL]

\* A verified tier ends after one day, the others later than the run.
TierDays == [unverified |-> NULL, basic |-> 3, verified |-> 1, trusted |-> 3,
             org_verified |-> 3]

\* Posts beside one resource; the seed moves another status over the
\* first post.
Food == [category |-> {"food"}, status |-> {"open"}, urgency |-> {"low"},
         geo |-> {"g1"}, text |-> {"x"}]
Medical == [Food EXCEPT !.category = {"medical"}, !.urgency = {"critical"},
                        !.text = {"x", "y"}]
Ongoing == [Food EXCEPT !.status = {"in-progress"}, !.urgency = {"high"}]
Bank == [category |-> {"food-bank"}, status |-> {"community-verified"},
         urgency |-> {"limited"}, geo |-> {}, text |-> {"y"}]
SomeSubmitted == {Food, Medical}
SomeRecords == {Food, Medical, Ongoing, Bank}
MedicalFirst == [r \in SomeRecords |-> IF r = Medical THEN 2 ELSE 1]
Seed == <<[seq |-> -2, uri |-> 1, action |-> "create", record |-> Food],
          [seq |-> -1, uri |-> 2, action |-> "create", record |-> Bank],
          [seq |-> 0, uri |-> 1, action |-> "update", record |-> Ongoing]>>

AllZero == [f \in Fields |-> 0]

\* Two limiters that differ in window and limit.
TwoWindows == [auth |-> 3, mutation |-> 2]
TwoLimits == [auth |-> 2, mutation |-> 1]

\* Two posts of one title are created.
OneTitle == [a |-> "t1", b |-> "t1"]

\* One of them is within the radius of the map as well.
TwoRadii == [r \in Lists |-> IF r = "/feed" THEN {"a", "b"} ELSE {"a"}]

\* One item that a direct user of the store takes away and brings back.
DirectStore == INSTANCE Moderation WITH
    Subjects <- {"s1"}, Stamps <- {"t1"}, Keys <- {<<"k1">>}, Consumable <- {"s1"},
    Restarts <- FALSE, MaxAudit <- 3, MaxDepth <- 1

\* A driver that awaits each call, with failing saves and crashes.
Sequential == INSTANCE Indexer WITH
    Uris <- {"u1"}, LastSeq <- 2, Calls <- {"c1"}, Interval <- 2,
    MaxCount <- 4, Overlap <- FALSE, Replays <- FALSE, Failures <- TRUE

ASSUME ServicesConstants ==
    /\ GroupConstants /\ ChatConstants /\ SafetyConstants
    /\ SchedulingConstants /\ NotificationConstants /\ TenancyConstants
    /\ RoutingConstants /\ VerificationConstants /\ MatchingConstants
    /\ ShellConstants /\ DiscoveryConstants /\ SettingsConstants
    /\ GatewayConstants /\ OrganisationConstants /\ InboxConstants
    /\ CardConstants
    /\ NULL \notin {<<"k1">>} \union DirectStore!Item

-----------------------------------------------------------------------------
(* One behaviour of one service *)

Service == {"groups", "rooms", "chat", "safety", "schedule",
            "availability", "notify", "deliver", "regions", "policies",
            "routing", "tiers", "match", "shell", "posts", "settings",
            "limits", "sessions", "portal", "listings", "unread",
            "cards", "store", "sequential"}

Init ==
    /\ service \in Service
    /\ GroupInit /\ ChatInit /\ SafetyInit /\ ScheduleInit /\ NotifyInit
    /\ TenancyInit /\ RoutingInit /\ VerificationInit /\ MatchingInit
    /\ ShellInit /\ DiscoveryInit /\ SettingsInit /\ GatewayInit
    /\ OrganisationInit /\ InboxInit /\ CardInit
    /\ DirectStore!Init /\ Sequential!Init
    /\ service # "shell" =>
          route = "/feed" /\ filters = defaultShellDiscoveryState
    /\ service # "cards" => screen = "/feed"
    /\ service # "sequential" =>
          \A s \in DOMAIN firehose : firehose[s].kind = "put"

\* The variables of every service but the chosen one stay as they are.
OthersRest ==
    /\ UNCHANGED service
    /\ IF service \in {"groups", "rooms"} THEN TRUE ELSE UNCHANGED groupVars
    /\ IF service = "chat" THEN TRUE ELSE UNCHANGED chatVars
    /\ IF service = "safety" THEN TRUE ELSE UNCHANGED safetyVars
    /\ IF service \in {"schedule", "availability"} THEN TRUE
       ELSE UNCHANGED scheduleVars
    /\ IF service \in {"notify", "deliver"} THEN TRUE ELSE UNCHANGED notifyVars
    /\ IF service \in {"regions", "policies"} THEN TRUE ELSE UNCHANGED tenancyVars
    /\ IF service = "routing" THEN TRUE ELSE UNCHANGED routingVars
    /\ IF service = "tiers" THEN TRUE ELSE UNCHANGED verificationVars
    /\ IF service = "match" THEN TRUE ELSE UNCHANGED matchingVars
    /\ IF service = "shell" THEN TRUE ELSE UNCHANGED shellVars
    /\ IF service = "posts" THEN TRUE ELSE UNCHANGED discoveryVars
    /\ IF service = "settings" THEN TRUE ELSE UNCHANGED settingsVars
    /\ IF service \in {"limits", "sessions"} THEN TRUE ELSE UNCHANGED gatewayVars
    /\ IF service \in {"portal", "listings"} THEN TRUE
       ELSE UNCHANGED organisationVars
    /\ IF service = "unread" THEN TRUE ELSE UNCHANGED inboxVars
    /\ IF service = "cards" THEN TRUE ELSE UNCHANGED cardVars
    /\ IF service = "store" THEN TRUE ELSE UNCHANGED store
    /\ IF service = "sequential" THEN TRUE ELSE UNCHANGED sequential

-----------------------------------------------------------------------------
(* The bounds of the services that are run in two parts *)

\* One channel and three people; one person and two rooms.
OneGroup ==
    /\ channels'["c2"] = NULL
    /\ channels'["c1"] # NULL =>
          channels'["c1"].linkedRequestUri = NULL /\ ~channels'["c1"].room
TwoRooms == \A c \in Channels, p \in People \ {"p1"} : members'[c][p] = NULL

\* Nobody checks that a shift ends after it starts; the second one does.
SecondInOrder ==
    shifts'["f2"] # NULL => shifts'["f2"].start < shifts'["f2"].end

\* Two notifications; the deliveries of one.
NothingReported ==
    deliveries' # deliveries => Len(notifications') > Len(notifications)
OneNotification == time' = 0 /\ Len(notifications') <= 1

\* The failovers of an active tenant with two regions, either of which may be
\* listed twice; the statuses and overrides of one region that stays healthy
\* or fails, but not over.
Failovers ==
    /\ policyOverrides' = policyOverrides
    /\ \A t \in Tenants : tenants'[t] # NULL =>
          /\ tenants'[t].residency = "region-preferred"
          /\ tenants'[t].status = "active"
OneRegion ==
    \A t \in Tenants :
        /\ tenants'[t] # NULL =>
              tenants'[t].primary = "g1" /\ tenants'[t].allowed = <<"g1">>
        /\ regionHealth'[t]["g2"] = NULL
        /\ healthyRun'[t]["g1"] <= 1 /\ recoveries'[t] <= 1

\* The second post is created in one way, which leaves the overtaking to the
\* first.
FewPosts == \A c \in Creations : creations'[c] # NULL =>
    \/ creations'[c].event.uri # 3
    \/ /\ c = "c2" /\ creations'[c].event.seq = 1
       /\ creations'[c].event.record = Food

\* One client of two limiters; the sessions of three clients in one
\* millisecond.
OneClient ==
    /\ \A l \in Limiters, c \in Clients \ {"i1"} : admitted'[l][c] = <<>>
    /\ handedOut' = {}
Sessions == clockMs' = 0 /\ \A c \in Clients : admitted'["mutation"][c] = <<>>

\* The members of an organisation; its services.
OnlyMembers == \A o \in Orgs : orgs'[o] # NULL =>
    \A s \in Services : orgs'[o].services[s] = NULL
OnlyServices == \A o \in Orgs : orgs'[o] # NULL =>
    \A p \in Staff \ {"p1"} : orgs'[o].members[p] = NULL

Next ==
    /\ \/ service = "groups" /\ GroupNext /\ OneGroup
       \/ service = "rooms" /\ GroupNext /\ TwoRooms
       \/ service = "chat" /\ ChatNext
       \/ service = "safety" /\ SafetyNext
       \/ service = "schedule" /\ ScheduleNext /\ SecondInOrder
                                  /\ windows' = windows
       \/ service = "availability" /\ ScheduleNext /\ shifts' = shifts
       \/ service = "notify" /\ NotifyNext /\ NothingReported
       \/ service = "deliver" /\ NotifyNext /\ OneNotification
       \/ service = "regions" /\ TenancyNext /\ Failovers
       \/ service = "policies" /\ TenancyNext /\ OneRegion
       \/ service = "routing" /\ RoutingNext
       \/ service = "tiers" /\ VerificationNext
       \/ service = "match" /\ MatchingNext
       \/ service = "shell" /\ ShellNext
       \/ service = "posts" /\ DiscoveryNext /\ FewPosts
       \/ service = "settings" /\ SettingsNext
       \/ service = "limits" /\ GatewayNext /\ OneClient
       \/ service = "sessions" /\ GatewayNext /\ Sessions
       \/ service = "portal" /\ OrganisationNext /\ OnlyMembers
       \/ service = "listings" /\ OrganisationNext /\ OnlyServices
       \/ service = "unread" /\ InboxNext
       \/ service = "cards" /\ CardNext
       \/ service = "store" /\ DirectStore!Next
       \/ service = "sequential" /\ Sequential!Next
    /\ OthersRest

Spec == Init /\ [][Next]_vars

-----------------------------------------------------------------------------
(* The properties are those of the modules; a service that is not run stays *)
(* in its initial state, where they hold.                                   *)

\* The state of the chosen service has its type.
TypeOK ==
    /\ service \in {"groups", "rooms"} => GroupTypeOK
    /\ service = "chat" => ChatTypeOK
    /\ service = "safety" => SafetyTypeOK
    /\ service \in {"schedule", "availability"} => ScheduleTypeOK
    /\ service \in {"notify", "deliver"} => NotifyTypeOK
    /\ service \in {"regions", "policies"} => TenancyTypeOK
    /\ service = "routing" => RoutingTypeOK
    /\ service = "tiers" => VerificationTypeOK
    /\ service = "match" => MatchingTypeOK
    /\ service = "shell" => ShellTypeOK
    /\ service = "posts" => DiscoveryTypeOK
    /\ service = "settings" => SettingsTypeOK
    /\ service \in {"limits", "sessions"} => GatewayTypeOK
    /\ service \in {"portal", "listings"} => OrganisationTypeOK
    /\ service = "unread" => InboxTypeOK
    /\ service = "cards" => CardTypeOK
    /\ service = "store" => DirectStore!TypeOK
    /\ service = "sequential" => Sequential!TypeOK

\* No appeal is decided twice, whatever direct users of the store do to the
\* item; and every event the checkpoint row does not cover is counted, when
\* the driver awaits each call.
OtherInstancesHold ==
    /\ service = "store" => DirectStore!DecisionsNeedAppeals
    /\ service = "sequential" => Sequential!UnsavedAreCounted

\* When the driver awaits each call, the persisted cursor moves on over a
\* stream that was taken in without a gap, and never goes back.
StreamAdvances == Sequential!ProgressSpec
=============================================================================
