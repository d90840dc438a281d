---------------------------- MODULE ChatRouting ----------------------------
(***************************************************************************)
(* The initiation of post-linked chats: createPostLinkedChatContext, the   *)
(* DeterministicRoutingAssistant and the ConversationMetadataStore of      *)
(* packages/shared/src/messaging.ts, as services/api/src/chat-service.ts   *)
(* serves them.                                                            *)
(*                                                                         *)
(* People are numbers in the order of their DIDs.  Scores are whole, as    *)
(* the code rounds them.  The service opens conversations only, so their   *)
(* status is left out, as is the hash that stands for the key.             *)
(***************************************************************************)
EXTENDS Null, Integers, FiniteSets

CONSTANTS
    PostUris,        \* aidPostUris
    Participants,    \* DIDs, in their order
    KnownCapability, \* fixtureCapabilities: supportsAtprotoChat, or NULL
    Trusts,          \* trust scores of volunteers, in twentieths
    Checks,          \* verification checkpoint scores, in tenths
    Urgencies,       \* the urgencies of routed scenarios
    MaxTime          \* bound: the last time given to an initiation

VARIABLES
    conversations,  \* metadata of <<post, first, second>>, or NULL
    decision        \* the last input that was routed and its answer, or NULL

routingVars == <<conversations, decision>>

Availability == {"immediate", "within-24h", "scheduled", "unavailable"}
Verification == {"partner-verified", "community-verified", "unverified"}
Destination == {"post-author", "volunteer-pool", "verified-resource",
                "manual-fallback"}
Transport == {"atproto-direct", "resource-fallback", "manual-fallback"}

\* maxDistanceKm and distanceKm matter by their comparison only.
Volunteer == [availability : Availability, trust : Trusts, checks : Checks,
              matchesCategory : BOOLEAN, preferredCategory : BOOLEAN,
              preferredUrgency : BOOLEAN, tooFar : BOOLEAN]
Resource == [supportsCategory : BOOLEAN, currentlyOpen : BOOLEAN,
             verificationStatus : Verification]

Key == PostUris \X Participants \X Participants
Conversation == [createdAt : 0..MaxTime, updatedAt : 0..MaxTime,
                 initiatedByDid : Participants, recipientDid : Participants,
                 destination : Destination, transportPath : Transport,
                 fallbackNotice : BOOLEAN]

RoutingConstants ==
    /\ Participants \subseteq Nat
    /\ KnownCapability \in [Participants -> BOOLEAN \union {NULL}]
    /\ Trusts \subseteq 0..20
    /\ Checks \subseteq 0..10
    /\ Urgencies \subseteq {"low", "medium", "high", "critical"}
    /\ NULL \notin BOOLEAN \union Int \union Conversation

RoutingTypeOK ==
    /\ conversations \in [Key -> Conversation \union {NULL}]
    /\ decision # NULL => decision.destination \in Destination

RoutingInit ==
    /\ conversations = [k \in Key |-> NULL]
    /\ decision = NULL

-----------------------------------------------------------------------------
(* DeterministicRoutingAssistant *)

AvailabilityBonus(availability) ==
    CASE availability = "immediate" -> 35
      [] availability = "within-24h" -> 20
      [] availability = "scheduled" -> 10

VerificationBonus(status) ==
    CASE status = "partner-verified" -> 25
      [] status = "community-verified" -> 10
      [] status = "unverified" -> 0 - 20

\* NULL for a candidate that is skipped.
volunteerPriority(v, urgency) ==
    IF v.availability = "unavailable" \/ v.tooFar THEN NULL
    ELSE 200 + AvailabilityBonus(v.availability) + v.trust + v.checks
         + (IF v.matchesCategory THEN 12 ELSE 0)
         + (IF v.preferredCategory THEN 10 ELSE 0)
         + (IF v.preferredUrgency THEN 8 ELSE 0)
         + (IF urgency \in {"high", "critical"} THEN 8 ELSE 0)

\* Faulty variant: an open resource counts as available at once.
resourceAvailable(r, urgency) ==
    IF ~r.supportsCategory \/ ~r.currentlyOpen THEN NULL
    ELSE 160 + VerificationBonus(r.verificationStatus)
         + AvailabilityBonus("immediate")
         + (IF urgency = "critical" /\ r.verificationStatus # "unverified"
            THEN 8 ELSE 0)

resourcePriority(r, urgency) ==
    IF ~r.supportsCategory \/ ~r.currentlyOpen THEN NULL
    ELSE 160 + VerificationBonus(r.verificationStatus)
         + (IF urgency = "critical" /\ r.verificationStatus # "unverified"
            THEN 8 ELSE 0)

Candidate(kind, priority) == [kind |-> kind, priority |-> priority]

RoutingCandidates(input) ==
    {c \in {Candidate("post-author",
                      IF input.author \in {NULL, input.requester} THEN NULL
                      ELSE 300)}
           \union {Candidate("volunteer-pool", volunteerPriority(v, input.urgency)) :
                      v \in input.volunteers}
           \union {Candidate("verified-resource", resourcePriority(r, input.urgency)) :
                      r \in input.resources} : c.priority # NULL}

\* The candidate of the highest priority.  Ties go by the candidate's id,
\* which the model leaves open.
RoutingChoices(input) ==
    IF RoutingCandidates(input) = {} THEN {"manual-fallback"}
    ELSE {top.kind : top \in {t \in RoutingCandidates(input) :
             \A c \in RoutingCandidates(input) : c.priority <= t.priority}}

decide(input) ==
    \E destination \in RoutingChoices(input) :
        decision' = [input |-> input, destination |-> destination]

\* The caller names the candidates: the API those of its scenarios.
routeScenario(author, requester, urgency, volunteers, resources) ==
    /\ decide([author |-> author, requester |-> requester,
               urgency |-> urgency, volunteers |-> volunteers,
               resources |-> resources])
    /\ UNCHANGED conversations

-----------------------------------------------------------------------------
(* Initiation *)

Sorted(a, b) == IF a < b THEN <<a, b>> ELSE <<b, a>>

\* Faulty variant: participants in the order of the call.
asGiven(post, a, b) == <<post, a, b>>

conversationKey(post, a, b) == <<post, Sorted(a, b)[1], Sorted(a, b)[2]>>

resolveCapability(recipient, explicitFlag) ==
    IF KnownCapability[recipient] # NULL THEN KnownCapability[recipient]
    ELSE explicitFlag = TRUE

resolveTransportPath(destination, supportsAtprotoChat) ==
    IF supportsAtprotoChat THEN "atproto-direct"
    ELSE IF destination = "verified-resource" THEN "resource-fallback"
    ELSE "manual-fallback"

\* Everything but createdAt is replaced.
upsertConversation(key, from, to, destination, capability, now) ==
    LET existing == conversations[key]
        path == resolveTransportPath(destination, capability)
    IN conversations' = [conversations EXCEPT ![key] =
          [createdAt |-> IF existing = NULL THEN now ELSE existing.createdAt,
           updatedAt |-> now, initiatedByDid |-> from, recipientDid |-> to,
           destination |-> destination, transportPath |-> path,
           fallbackNotice |-> path # "atproto-direct"]]

\* The recipient stands for the author and is the only candidate; without a
\* list everyone is allowed.  now is a parameter of the call, so a later call
\* may name an earlier time.
initiate(post, from, to, allowInitiation, allowed, explicitFlag, now) ==
    /\ from # to
    /\ allowInitiation
    /\ {from, to} \subseteq allowed
    /\ decide([author |-> to, requester |-> from, urgency |-> "medium",
               volunteers |-> {}, resources |-> {}])
    /\ upsertConversation(conversationKey(post, from, to), from, to,
          decision'.destination, resolveCapability(to, explicitFlag), now)

\* Bounds: one scenario, first of all since routing reads no conversation,
\* with at most one volunteer and one resource.
RoutingNext ==
    \/ /\ decision = NULL
       /\ \E author \in Participants \union {NULL}, requester \in Participants,
             urgency \in Urgencies,
             volunteers \in {{}} \union {{v} : v \in Volunteer},
             resources \in {{}} \union {{r} : r \in Resource} :
             routeScenario(author, requester, urgency, volunteers, resources)
    \/ \E post \in PostUris, from, to \in Participants, allowInitiation \in BOOLEAN,
          allowed \in SUBSET Participants,
          explicitFlag \in BOOLEAN \union {NULL}, now \in 0..MaxTime :
          initiate(post, from, to, allowInitiation, allowed, explicitFlag, now)

RoutingSpec == RoutingInit /\ [][RoutingNext]_routingVars

-----------------------------------------------------------------------------
(* A resource is the destination only when no volunteer is available, and   *)
(* a manual fallback only when nothing qualifies at all, whatever the       *)
(* bonuses add up to (ROUTING_PRIORITY_ORDER and the scores of decide).     *)
ResourcesComeLast ==
    decision # NULL =>
        /\ decision.destination = "verified-resource" =>
              \A v \in decision.input.volunteers :
                  v.availability = "unavailable" \/ v.tooFar
        /\ decision.destination = "manual-fallback" =>
              /\ \A v \in decision.input.volunteers :
                    v.availability = "unavailable" \/ v.tooFar
              /\ \A r \in decision.input.resources :
                    ~(r.supportsCategory /\ r.currentlyOpen)

(* docs/architecture/phase5-chat-routing.md:32-37 says 'selects destination *)
(* in strict deterministic priority order: 1. Post author 2. Volunteer pool *)
(* 3. Verified resource 4. Manual fallback'.                                *)
PostAuthorFirst ==
    decision # NULL =>
        \/ decision.input.author \in {NULL, decision.input.requester}
        \/ decision.destination = "post-author"

(* Two people have one conversation about a post, whoever starts it and     *)
(* from wherever, and starting it again keeps the one there is with the     *)
(* time it was created at; a conversation warns exactly when it is not a    *)
(* direct one (createPostLinkedChatContext, upsertConversation).            *)
KeepsConversations ==
    /\ \A k \in Key : conversations[k] # NULL =>
          /\ conversations'[k] # NULL
          /\ conversations'[k].createdAt = conversations[k].createdAt
    /\ \A k, l \in Key :
          /\ conversations'[k] # NULL /\ conversations'[l] # NULL
          /\ k[1] = l[1] /\ {k[2], k[3]} = {l[2], l[3]}
          => k = l
    /\ \A k \in Key : conversations'[k] # NULL =>
          /\ {conversations'[k].initiatedByDid, conversations'[k].recipientDid}
             = {k[2], k[3]}
          /\ conversations'[k].fallbackNotice
             <=> conversations'[k].transportPath # "atproto-direct"

\* No step loses or replaces a conversation (ConversationMetadataStore).
ConversationsKept == [][KeepsConversations]_routingVars
=============================================================================
