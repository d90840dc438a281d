------------------------- MODULE GroupCoordination -------------------------
(***************************************************************************)
(* services/api/src/group-service.ts and the permission functions of       *)
(* packages/shared/src/group-coordination.ts: channels, the rooms of       *)
(* requests, their members and the moderation log.                         *)
(*                                                                         *)
(* Names, descriptions and times are left out.  The log keeps which kinds  *)
(* of action it holds for a channel; warn, mute and remove_message, which  *)
(* run the same lines, are "warn".                                         *)
(***************************************************************************)
EXTENDS Null, Integers, FiniteSets

CONSTANTS
    Channels,       \* bound: channelIds
    People,         \* DIDs
    Requests        \* request URIs

VARIABLES
    channels,       \* channel of each id, NULL before it is created
    members,        \* membership of each person in each channel, or NULL
    moderationLog   \* the actions logged for each channel

groupVars == <<channels, members, moderationLog>>

Role == {"owner", "admin", "member", "viewer"}
MemberStatus == {"active", "invited", "removed", "banned"}
Action == {"invite", "join", "leave", "remove", "ban", "promote", "demote"}

Member == [role : Role, status : MemberStatus]
Channel == [visibility : {"public", "private"}, isArchived : BOOLEAN,
            memberCount : Nat, room : BOOLEAN,
            linkedRequestUri : Requests \union {NULL}]

GroupConstants ==
    /\ IsFiniteSet(People)
    /\ NULL \notin Channels \union People \union Requests
    /\ NULL \notin Channel \union Member \union MemberStatus

GroupTypeOK ==
    /\ channels \in [Channels -> Channel \union {NULL}]
    /\ members \in [Channels -> [People -> Member \union {NULL}]]
    /\ moderationLog \in [Channels -> SUBSET {"warn", "ban_member",
                                              "archive_channel"}]

GroupInit ==
    /\ channels = [c \in Channels |-> NULL]
    /\ members = [c \in Channels |-> [p \in People |-> NULL]]
    /\ moderationLog = [c \in Channels |-> {}]

-----------------------------------------------------------------------------
(* Permissions and the membership state machine *)

\* The status the service looks at, null for someone it has no record of.
StatusOf(c, p) == IF members[c][p] = NULL THEN NULL ELSE members[c][p].status

canManageMembers(c, p) ==
    /\ members[c][p] # NULL
    /\ members[c][p].status = "active"
    /\ members[c][p].role \in {"owner", "admin"}

\* The same condition under another name.
canModerateGroup(c, p) == canManageMembers(c, p)

canJoinGroup(channel, status) ==
    /\ ~channel.isArchived
    /\ status \in IF channel.visibility = "public"
                  THEN {NULL, "removed", "invited"} ELSE {"invited"}

MembershipFrom == [
    invite |-> {NULL, "removed"},
    join |-> {NULL, "invited", "removed"},
    leave |-> {"active", "invited"},
    remove |-> {"active", "invited"},
    ban |-> {"active", "invited", "removed", NULL},
    promote |-> {"active"},
    demote |-> {"active"}]

MembershipTo == [
    invite |-> "invited", join |-> "active", leave |-> "removed",
    remove |-> "removed", ban |-> "banned", promote |-> "active",
    demote |-> "active"]

Rank == [viewer |-> 0, member |-> 1, admin |-> 2, owner |-> 3]

isValidPromotion(from, to) == Rank[to] > Rank[from]
isValidDemotion(from, to) == from # "owner" /\ Rank[to] < Rank[from]

ActiveMembers(c) ==
    {p \in People : members[c][p] # NULL /\ members[c][p].status = "active"}

-----------------------------------------------------------------------------
(* Channels *)

\* The creator is the owner and the one member.
openChannel(c, creator, visibility, room, request) ==
    /\ channels[c] = NULL
    /\ channels' = [channels EXCEPT ![c] =
          [visibility |-> visibility, isArchived |-> FALSE, memberCount |-> 1,
           room |-> room, linkedRequestUri |-> request]]
    /\ members' = [members EXCEPT ![c] = [p \in People |->
          IF p = creator THEN [role |-> "owner", status |-> "active"]
          ELSE NULL]]
    /\ UNCHANGED moderationLog

\* A channel may name a request without being its room.
createChannel(c, creator, visibility, request) ==
    openChannel(c, creator, visibility, FALSE, request)

OpenFor(request) ==
    {c \in Channels : /\ channels[c] # NULL
                      /\ channels[c].linkedRequestUri = request
                      /\ ~channels[c].isArchived}

\* Faulty variant: only a room counts that its own creator opened.
roomUnlessManaged(c, creator, request) ==
    /\ ~\E d \in OpenFor(request) : canManageMembers(d, creator)
    /\ openChannel(c, creator, "private", TRUE, request)

\* An open channel of the request is answered in place of a new one.
createRequestRoom(c, creator, request) ==
    /\ OpenFor(request) = {}
    /\ openChannel(c, creator, "private", TRUE, request)

\* An archived channel can still be updated.
updateChannel(c, actor, visibility) ==
    /\ channels[c] # NULL
    /\ canManageMembers(c, actor)
    /\ channels' = [channels EXCEPT ![c].visibility = visibility]
    /\ UNCHANGED <<members, moderationLog>>

archiveChannel(c, actor) ==
    /\ channels[c] # NULL
    /\ canModerateGroup(c, actor)
    /\ channels' = [channels EXCEPT ![c].isArchived = TRUE]
    /\ moderationLog' = [moderationLog EXCEPT ![c] = @ \union {"archive_channel"}]
    /\ UNCHANGED members

\* The first open channel of the request, in the order of creation: the model
\* leaves open which of several that is.
archiveRequestRoom(request, actor) ==
    \E c \in OpenFor(request) : archiveChannel(c, actor)

-----------------------------------------------------------------------------
(* Members *)

\* findMember, the new status or record, and recalculateMemberCount.
putMember(c, p, member) ==
    /\ members' = [members EXCEPT ![c][p] = member]
    /\ channels' = [channels EXCEPT ![c].memberCount =
          Cardinality(ActiveMembers(c) \ {p})
          + IF member.status = "active" THEN 1 ELSE 0]

\* Faulty variant: the role of the request counts in a join too.
addWithRole(c, p, actor, action, role) ==
    /\ channels[c] # NULL
    /\ action \in {"invite", "remove", "ban"} => canManageMembers(c, actor)
    /\ action = "join" => canJoinGroup(channels[c], StatusOf(c, p))
    /\ StatusOf(c, p) \in MembershipFrom[action]
    /\ putMember(c, p,
          IF members[c][p] # NULL
          THEN [members[c][p] EXCEPT !.status = MembershipTo[action]]
          ELSE [role |-> role, status |-> MembershipTo[action]])
    /\ UNCHANGED moderationLog

\* Anyone may join, leave, promote or demote anyone; promote and demote leave
\* the role alone.  Who is known keeps the role, whatever happened since.
addMember(c, p, actor, action, role) ==
    /\ channels[c] # NULL
    /\ action \in {"invite", "remove", "ban"} => canManageMembers(c, actor)
    /\ action = "join" => canJoinGroup(channels[c], StatusOf(c, p))
    /\ StatusOf(c, p) \in MembershipFrom[action]
    /\ putMember(c, p,
          IF members[c][p] # NULL
          THEN [members[c][p] EXCEPT !.status = MembershipTo[action]]
          ELSE [role |-> IF action = "invite" THEN role ELSE "member",
                status |-> MembershipTo[action]])
    /\ UNCHANGED moderationLog

removeMember(c, p, actor) == addMember(c, p, actor, "remove", "member")

updateMemberRole(c, p, actor, role) ==
    /\ channels[c] # NULL
    /\ canManageMembers(c, actor)
    /\ p \in ActiveMembers(c)
    /\ \/ isValidPromotion(members[c][p].role, role)
       \/ isValidDemotion(members[c][p].role, role)
    /\ members' = [members EXCEPT ![c][p].role = role]
    /\ UNCHANGED <<channels, moderationLog>>

-----------------------------------------------------------------------------
(* Moderation *)

\* Faulty variant: the count of a channel is left alone.
banUncounted(c, p, actor) ==
    /\ channels[c] # NULL
    /\ canModerateGroup(c, actor)
    /\ StatusOf(c, p) \in MembershipFrom.ban
    /\ members' = [members EXCEPT ![c][p] =
          [role |-> "member", status |-> "banned"]]
    /\ moderationLog' = [moderationLog EXCEPT ![c] = @ \union {"ban_member"}]
    /\ UNCHANGED channels

banMember(c, p, actor) ==
    /\ channels[c] # NULL
    /\ canModerateGroup(c, actor)
    /\ StatusOf(c, p) \in MembershipFrom.ban
    /\ putMember(c, p,
          IF members[c][p] # NULL
          THEN [members[c][p] EXCEPT !.status = "banned"]
          ELSE [role |-> "member", status |-> "banned"])
    /\ moderationLog' = [moderationLog EXCEPT ![c] = @ \union {"ban_member"}]

applyModeration(c, actor) ==
    /\ channels[c] # NULL
    /\ canModerateGroup(c, actor)
    /\ moderationLog' = [moderationLog EXCEPT ![c] = @ \union {"warn"}]
    /\ UNCHANGED <<channels, members>>

ChannelStep(c, p) ==
    \/ \E visibility \in {"public", "private"},
          request \in Requests \union {NULL} :
          createChannel(c, p, visibility, request)
    \/ \E request \in Requests : createRequestRoom(c, p, request)
    \/ \E visibility \in {"public", "private"} : updateChannel(c, p, visibility)
    \/ archiveChannel(c, p)
    \/ applyModeration(c, p)

\* No other action looks at the role of the request.
MemberStep(c, p, actor) ==
    \/ \E action \in {"invite", "join"}, role \in Role :
          addMember(c, p, actor, action, role)
    \/ \E action \in Action \ {"invite", "join"} :
          addMember(c, p, actor, action, "member")
    \/ removeMember(c, p, actor)
    \/ \E role \in Role : updateMemberRole(c, p, actor, role)
    \/ banMember(c, p, actor)

GroupNext ==
    \/ \E c \in Channels, p \in People : ChannelStep(c, p)
    \/ \E c \in Channels, p, actor \in People : MemberStep(c, p, actor)
    \/ \E request \in Requests, p \in People : archiveRequestRoom(request, p)

GroupSpec == GroupInit /\ [][GroupNext]_groupVars

-----------------------------------------------------------------------------
(* The count a channel shows is the number of its active members, and a     *)
(* request has at most one open room, whatever sequence of joins, removals, *)
(* bans, archivals and new rooms came before (recalculateMemberCount;       *)
(* createRequestRoomFromParams).                                            *)
GroupsAddUp ==
    /\ \A c \in Channels :
          channels[c] # NULL =>
              channels[c].memberCount = Cardinality(ActiveMembers(c))
    /\ \A c, d \in Channels :
          /\ channels[c] # NULL /\ channels[c].room /\ ~channels[c].isArchived
          /\ channels[d] # NULL /\ channels[d].room /\ ~channels[d].isArchived
          /\ channels[c].linkedRequestUri = channels[d].linkedRequestUri
          => c = d

(* Whoever gets a manager's role in a channel that exists gets it while     *)
(* some manager is active: a group that its managers left, and none of them *)
(* can come back to, is never taken over by joining, by inviting oneself or *)
(* by a role change.  Nobody leaves a ban (MEMBERSHIP_TRANSITIONS and the   *)
(* permission checks of addMemberFromParams).                               *)
Manages(member) == member # NULL /\ member.role \in {"owner", "admin"}
GivesAuthority ==
    \A c \in Channels, p \in People :
        channels[c] # NULL =>
        /\ Manages(members[c]'[p]) =>
              \/ Manages(members[c][p])
              \/ \E q \in People : canManageMembers(c, q)
        /\ StatusOf(c, p) = "banned" => StatusOf(c, p)' = "banned"
AuthorityIsGiven == [][GivesAuthority]_groupVars
=============================================================================
