-------------------------- MODULE CommunityProofs ---------------------------
(***************************************************************************)
(* Proofs about what people do with each other, for any values of the      *)
(* constants that the constants' assumptions allow: groups, verification,  *)
(* schedules, organisations, the routing of chats and the limits on what   *)
(* is sent.                                                                *)
(***************************************************************************)
EXTENDS GroupCoordination, Verification, Scheduling, Organisation,
        ChatRouting, ChatSafety, FiniteSetTheorems, SequenceTheorems, TLAPS

-----------------------------------------------------------------------------
(***************************************************************************)
(* GroupCoordination                                                       *)
(***************************************************************************)

(* Members and counts *)

\* The active members of a channel with the given records.
Active(record) ==
    {p \in People : record[p] # NULL /\ record[p].status = "active"}

\* The channel ch, if there is one, counts its active members.
Counted(ch, record) == ch # NULL => ch.memberCount = Cardinality(Active(record))

IsOpenRoom(ch) == ch # NULL /\ ch.room /\ ~ch.isArchived

\* No two channels are open rooms of one request.
OneRoomEach(chs) ==
    \A c, d \in Channels :
        /\ IsOpenRoom(chs[c]) /\ IsOpenRoom(chs[d])
        /\ chs[c].linkedRequestUri = chs[d].linkedRequestUri
        => c = d

GroupInv ==
    /\ GroupTypeOK
    /\ \A c \in Channels : Counted(channels[c], members[c])
    /\ OneRoomEach(channels)

\* The invariant has the property in it.
LEMMA GroupInvSuffices == GroupInv => GroupsAddUp
BY DEF GroupInv, Counted, Active, ActiveMembers, OneRoomEach, IsOpenRoom,
       GroupsAddUp

\* Sets of people have sizes.
LEMMA Sizes ==
    ASSUME GroupConstants, NEW S \in SUBSET People
    PROVE  IsFiniteSet(S) /\ Cardinality(S) \in Nat
BY FS_Subset, FS_CardinalityType DEF GroupConstants

\* What putting one member's record makes of the active members.
LEMMA CountOfPut ==
    ASSUME GroupConstants, NEW record \in [People -> Member \union {NULL}],
           NEW p \in People, NEW m \in Member
    PROVE  LET rest == Active(record) \ {p}
           IN /\ [record EXCEPT ![p] = m] \in [People -> Member \union {NULL}]
              /\ Cardinality(Active([record EXCEPT ![p] = m]))
                    = Cardinality(rest) + IF m.status = "active" THEN 1 ELSE 0
              /\ Cardinality(rest) \in Nat
<1> DEFINE rest == Active(record) \ {p}
           after == [record EXCEPT ![p] = m]
<1>1. after \in [People -> Member \union {NULL}]
    OBVIOUS
<1>2. /\ after[p] = m
      /\ \A q \in People : q # p => after[q] = record[q]
    OBVIOUS
<1>3. m # NULL
    BY DEF GroupConstants
<1>4. rest \in SUBSET People /\ p \notin rest
    BY DEF Active
<1>5. IsFiniteSet(rest) /\ Cardinality(rest) \in Nat
    BY <1>4, Sizes
<1> HIDE DEF after
<1>6. CASE m.status = "active"
    <2>1. Active(after) = rest \union {p}
        BY <1>2, <1>3, <1>6 DEF Active
    <2> HIDE DEF rest
    <2>2. Cardinality(rest \union {p}) = Cardinality(rest) + 1
        BY <1>4, <1>5, FS_AddElement
    <2> QED
        BY <1>1, <1>5, <1>6, <2>1, <2>2 DEF after, rest
<1>7. CASE m.status # "active"
    <2>1. Active(after) = rest
        BY <1>2, <1>3, <1>7 DEF Active
    <2> HIDE DEF rest
    <2>2. Cardinality(rest) = Cardinality(rest) + 0
        BY <1>5
    <2> QED
        BY <1>1, <1>5, <1>7, <2>1, <2>2 DEF after, rest
<1> QED
    BY <1>6, <1>7

\* Channels that were archived or updated, and no new one, make no new room.
LEMMA NoNewRoom ==
    ASSUME NEW chs, NEW chs2, OneRoomEach(chs),
           \A c \in Channels : IsOpenRoom(chs2[c]) =>
              /\ IsOpenRoom(chs[c])
              /\ chs2[c].linkedRequestUri = chs[c].linkedRequestUri
    PROVE  OneRoomEach(chs2)
BY DEF OneRoomEach

-----------------------------------------------------------------------------
(* Steps of channels *)

\* A channel that replaces another, with the fields the rooms are known by.
LEMMA ReplaceKeeps ==
    ASSUME GroupInv, NEW c \in Channels, NEW new \in Channel,
           channels[c] # NULL,
           new.memberCount = channels[c].memberCount,
           new.room = channels[c].room,
           new.linkedRequestUri = channels[c].linkedRequestUri,
           channels[c].isArchived => new.isArchived,
           channels' = [channels EXCEPT ![c] = new],
           UNCHANGED members,
           moderationLog' \in [Channels -> SUBSET {"warn", "ban_member",
                                                   "archive_channel"}]
    PROVE  GroupInv'
<1>1. /\ channels'[c] = new
      /\ \A d \in Channels : d # c => channels'[d] = channels[d]
    BY DEF GroupInv, GroupTypeOK
<1>2. GroupTypeOK'
    BY DEF GroupInv, GroupTypeOK
<1>3. \A d \in Channels : Counted(channels'[d], members'[d])
    BY <1>1 DEF GroupInv, Counted
<1>4. OneRoomEach(channels')
    <2>1. OneRoomEach(channels)
        BY DEF GroupInv
    <2>2. \A d \in Channels : IsOpenRoom(channels'[d]) =>
              /\ IsOpenRoom(channels[d])
              /\ channels'[d].linkedRequestUri = channels[d].linkedRequestUri
        BY <1>1 DEF IsOpenRoom
    <2> QED
        BY <2>1, <2>2, NoNewRoom
<1> QED
    BY <1>2, <1>3, <1>4 DEF GroupInv

LEMMA OpenKeeps ==
    ASSUME GroupConstants, GroupInv, NEW c \in Channels, NEW creator \in People,
           NEW visibility \in {"public", "private"}, NEW room \in BOOLEAN,
           NEW request \in Requests \union {NULL},
           room => OpenFor(request) = {},
           openChannel(c, creator, visibility, room, request)
    PROVE  GroupInv'
<1> DEFINE ch == [visibility |-> visibility, isArchived |-> FALSE,
                  memberCount |-> 1, room |-> room,
                  linkedRequestUri |-> request]
           owner == [role |-> "owner", status |-> "active"]
           record == [p \in People |-> IF p = creator THEN owner ELSE NULL]
<1>1. /\ channels' = [channels EXCEPT ![c] = ch]
      /\ members' = [members EXCEPT ![c] = record]
      /\ UNCHANGED moderationLog
    BY DEF openChannel
<1>2. ch \in Channel /\ owner \in Member
    BY DEF Channel, Member, Role, MemberStatus
<1>3. record \in [People -> Member \union {NULL}]
    BY <1>2
<1>4. GroupTypeOK'
    <2> HIDE DEF ch, record
    <2> QED
        BY <1>1, <1>2, <1>3 DEF GroupInv, GroupTypeOK
<1>5. /\ channels'[c] = ch
      /\ members'[c] = record
      /\ \A d \in Channels : d # c => /\ channels'[d] = channels[d]
                                     /\ members'[d] = members[d]
    <2> HIDE DEF ch, record
    <2> QED
        BY <1>1 DEF GroupInv, GroupTypeOK
<1>6. Counted(ch, record)
    <2>1. owner # NULL
        BY <1>2 DEF GroupConstants
    <2>2. Active(record) = {creator}
        BY <2>1 DEF Active
    <2>3. Cardinality({creator}) = 1
        BY FS_Singleton
    <2> QED
        BY <2>2, <2>3 DEF Counted
<1>7. \A d \in Channels : Counted(channels'[d], members'[d])
    <2> HIDE DEF ch, record
    <2> QED
        BY <1>5, <1>6 DEF GroupInv
<1>8. OneRoomEach(channels')
    <2>1. OneRoomEach(channels)
        BY DEF GroupInv
    <2>2. ASSUME NEW d \in Channels, d # c, room, IsOpenRoom(channels[d])
          PROVE  channels[d].linkedRequestUri # request
        BY <2>2 DEF OpenFor, IsOpenRoom
    <2>3. ch.linkedRequestUri = request /\ ch.room = room
        OBVIOUS
    <2> HIDE DEF ch, record
    <2> SUFFICES ASSUME NEW d \in Channels, NEW e \in Channels,
                        IsOpenRoom(channels'[d]), IsOpenRoom(channels'[e]),
                        channels'[d].linkedRequestUri
                            = channels'[e].linkedRequestUri,
                        d # e
                 PROVE  FALSE
        BY DEF OneRoomEach
    <2>4. CASE d = c
        BY <1>5, <2>2, <2>3, <2>4 DEF IsOpenRoom
    <2>5. CASE e = c
        BY <1>5, <2>2, <2>3, <2>5 DEF IsOpenRoom
    <2>6. CASE d # c /\ e # c
        BY <1>5, <2>1, <2>6 DEF OneRoomEach
    <2> QED
        BY <2>4, <2>5, <2>6
<1> QED
    BY <1>4, <1>7, <1>8 DEF GroupInv

LEMMA ArchiveKeeps ==
    ASSUME GroupConstants, GroupInv, NEW c \in Channels, NEW p \in People,
           archiveChannel(c, p)
    PROVE  GroupInv'
<1> DEFINE new == [channels[c] EXCEPT !.isArchived = TRUE]
<1>1. channels[c] \in Channel /\ channels[c] # NULL
    BY DEF archiveChannel, GroupInv, GroupTypeOK
<1>2. /\ new \in Channel
      /\ new.memberCount = channels[c].memberCount
      /\ new.room = channels[c].room
      /\ new.linkedRequestUri = channels[c].linkedRequestUri
      /\ new.isArchived
    BY <1>1 DEF Channel
<1>3. channels' = [channels EXCEPT ![c] = new] /\ UNCHANGED members
    BY DEF archiveChannel
<1>4. moderationLog' \in [Channels -> SUBSET {"warn", "ban_member",
                                              "archive_channel"}]
    BY DEF archiveChannel, GroupInv, GroupTypeOK
<1> HIDE DEF new
<1> QED
    BY <1>1, <1>2, <1>3, <1>4, ReplaceKeeps

LEMMA ChannelKeeps ==
    ASSUME GroupConstants, GroupInv, NEW c \in Channels, NEW p \in People,
           ChannelStep(c, p)
    PROVE  GroupInv'
<1>1. ASSUME NEW visibility \in {"public", "private"},
             NEW request \in Requests \union {NULL},
             createChannel(c, p, visibility, request)
      PROVE  GroupInv'
    BY <1>1, OpenKeeps DEF createChannel
<1>2. ASSUME NEW request \in Requests, createRequestRoom(c, p, request)
      PROVE  GroupInv'
    BY <1>2, OpenKeeps DEF createRequestRoom
<1>3. ASSUME NEW visibility \in {"public", "private"},
             updateChannel(c, p, visibility)
      PROVE  GroupInv'
    <2> DEFINE new == [channels[c] EXCEPT !.visibility = visibility]
    <2>1. channels[c] \in Channel /\ channels[c] # NULL
        BY <1>3 DEF updateChannel, GroupInv, GroupTypeOK
    <2>2. /\ new \in Channel
          /\ new.memberCount = channels[c].memberCount
          /\ new.room = channels[c].room
          /\ new.linkedRequestUri = channels[c].linkedRequestUri
          /\ new.isArchived = channels[c].isArchived
        BY <2>1 DEF Channel
    <2>3. channels' = [channels EXCEPT ![c] = new] /\ UNCHANGED members
        BY <1>3 DEF updateChannel
    <2>4. moderationLog' \in [Channels -> SUBSET {"warn", "ban_member",
                                                  "archive_channel"}]
        BY <1>3 DEF updateChannel, GroupInv, GroupTypeOK
    <2> HIDE DEF new
    <2> QED
        BY <2>1, <2>2, <2>3, <2>4, ReplaceKeeps
<1>4. CASE archiveChannel(c, p)
    BY <1>4, ArchiveKeeps
<1>5. CASE applyModeration(c, p)
    <2>1. UNCHANGED <<channels, members>>
        BY <1>5 DEF applyModeration
    <2>2. moderationLog' \in [Channels -> SUBSET {"warn", "ban_member",
                                                  "archive_channel"}]
        BY <1>5 DEF applyModeration, GroupInv, GroupTypeOK
    <2> QED
        BY <2>1, <2>2 DEF GroupInv, GroupTypeOK
<1> QED
    BY <1>1, <1>2, <1>3, <1>4, <1>5 DEF ChannelStep

-----------------------------------------------------------------------------
(* Steps of members *)

LEMMA PutKeeps ==
    ASSUME GroupConstants, GroupInv, NEW c \in Channels, NEW p \in People,
           NEW m \in Member, channels[c] # NULL, putMember(c, p, m),
           moderationLog' \in [Channels -> SUBSET {"warn", "ban_member",
                                                   "archive_channel"}]
    PROVE  GroupInv'
<1> DEFINE count == Cardinality(ActiveMembers(c) \ {p})
                        + IF m.status = "active" THEN 1 ELSE 0
           ch == [channels[c] EXCEPT !.memberCount = count]
           record == [members[c] EXCEPT ![p] = m]
<1>1. /\ channels[c] \in Channel
      /\ members[c] \in [People -> Member \union {NULL}]
    BY DEF GroupInv, GroupTypeOK
<1>2. /\ channels' = [channels EXCEPT ![c] = ch]
      /\ members' = [members EXCEPT ![c] = record]
    BY DEF putMember
<1>3. ActiveMembers(c) = Active(members[c])
    BY DEF ActiveMembers, Active
<1>4. /\ record \in [People -> Member \union {NULL}]
      /\ Cardinality(Active(record)) = count
      /\ Cardinality(ActiveMembers(c) \ {p}) \in Nat
    BY <1>1, <1>3, CountOfPut
<1>5. count \in Nat
    BY <1>4
<1> HIDE DEF count
<1>6. /\ ch \in Channel
      /\ ch.memberCount = count
      /\ ch.room = channels[c].room
      /\ ch.isArchived = channels[c].isArchived
      /\ ch.linkedRequestUri = channels[c].linkedRequestUri
    BY <1>1, <1>5 DEF Channel
<1> HIDE DEF ch, record
<1>7. GroupTypeOK'
    BY <1>2, <1>4, <1>6 DEF GroupInv, GroupTypeOK
<1>8. /\ channels'[c] = ch
      /\ members'[c] = record
      /\ \A d \in Channels : d # c => /\ channels'[d] = channels[d]
                                     /\ members'[d] = members[d]
    BY <1>2 DEF GroupInv, GroupTypeOK
<1>9. \A d \in Channels : Counted(channels'[d], members'[d])
    BY <1>4, <1>6, <1>8 DEF GroupInv, Counted
<1>10. OneRoomEach(channels')
    <2>1. OneRoomEach(channels)
        BY DEF GroupInv
    <2>2. \A d \in Channels : IsOpenRoom(channels'[d]) =>
              /\ IsOpenRoom(channels[d])
              /\ channels'[d].linkedRequestUri = channels[d].linkedRequestUri
        BY <1>6, <1>8 DEF IsOpenRoom
    <2> QED
        BY <2>1, <2>2, NoNewRoom
<1> QED
    BY <1>7, <1>9, <1>10 DEF GroupInv

\* The record that addMember puts.
Added(c, p, action, role) ==
    IF members[c][p] # NULL
    THEN [members[c][p] EXCEPT !.status = MembershipTo[action]]
    ELSE [role |-> IF action = "invite" THEN role ELSE "member",
          status |-> MembershipTo[action]]

Banned(c, p) ==
    IF members[c][p] # NULL
    THEN [members[c][p] EXCEPT !.status = "banned"]
    ELSE [role |-> "member", status |-> "banned"]

LEMMA AddedIsMember ==
    ASSUME GroupInv, NEW c \in Channels, NEW p \in People,
           NEW action \in Action, NEW role \in Role
    PROVE  /\ Added(c, p, action, role) \in Member
           /\ members[c][p] # NULL =>
                 Added(c, p, action, role).role = members[c][p].role
           /\ members[c][p] = NULL =>
                 Added(c, p, action, role).role \in {role, "member"}
           /\ members[c][p] = NULL /\ action # "invite" =>
                 Added(c, p, action, role).role = "member"
<1>1. MembershipTo[action] \in MemberStatus
    BY DEF MembershipTo, Action, MemberStatus
<1>2. members[c][p] \in Member \union {NULL}
    BY DEF GroupInv, GroupTypeOK
<1>3. CASE members[c][p] # NULL
    BY <1>1, <1>2, <1>3 DEF Added, Member
<1>4. CASE members[c][p] = NULL
    <2>1. "member" \in Role
        BY DEF Role
    <2> QED
        BY <1>1, <1>4, <2>1 DEF Added, Member
<1> QED
    BY <1>3, <1>4

LEMMA BannedIsMember ==
    ASSUME GroupInv, NEW c \in Channels, NEW p \in People
    PROVE  /\ Banned(c, p) \in Member
           /\ Banned(c, p).status = "banned"
           /\ members[c][p] # NULL => Banned(c, p).role = members[c][p].role
           /\ members[c][p] = NULL => Banned(c, p).role = "member"
<1>1. "banned" \in MemberStatus /\ "member" \in Role
    BY DEF MemberStatus, Role
<1>2. members[c][p] \in Member \union {NULL}
    BY DEF GroupInv, GroupTypeOK
<1> QED
    BY <1>1, <1>2 DEF Banned, Member

LEMMA AddKeeps ==
    ASSUME GroupConstants, GroupInv, NEW c \in Channels, NEW p \in People,
           NEW actor \in People, NEW action \in Action, NEW role \in Role,
           addMember(c, p, actor, action, role)
    PROVE  GroupInv'
<1>1. /\ channels[c] # NULL
      /\ putMember(c, p, Added(c, p, action, role))
      /\ UNCHANGED moderationLog
    BY DEF addMember, Added
<1>2. Added(c, p, action, role) \in Member
    BY AddedIsMember
<1>3. moderationLog' \in [Channels -> SUBSET {"warn", "ban_member",
                                              "archive_channel"}]
    BY <1>1 DEF GroupInv, GroupTypeOK
<1> QED
    BY <1>1, <1>2, <1>3, PutKeeps

LEMMA BanKeeps ==
    ASSUME GroupConstants, GroupInv, NEW c \in Channels, NEW p \in People,
           NEW actor \in People, banMember(c, p, actor)
    PROVE  GroupInv'
<1>1. channels[c] # NULL /\ putMember(c, p, Banned(c, p))
    BY DEF banMember, Banned
<1>2. Banned(c, p) \in Member
    BY BannedIsMember
<1>3. moderationLog' \in [Channels -> SUBSET {"warn", "ban_member",
                                              "archive_channel"}]
    BY DEF banMember, GroupInv, GroupTypeOK
<1> QED
    BY <1>1, <1>2, <1>3, PutKeeps

LEMMA RoleKeeps ==
    ASSUME GroupConstants, GroupInv, NEW c \in Channels, NEW p \in People,
           NEW actor \in People, NEW role \in Role,
           updateMemberRole(c, p, actor, role)
    PROVE  GroupInv'
<1> DEFINE m == [members[c][p] EXCEPT !.role = role]
           record == [members[c] EXCEPT ![p] = m]
<1>1. /\ members[c][p] # NULL
      /\ members[c] \in [People -> Member \union {NULL}]
    BY DEF updateMemberRole, ActiveMembers, GroupInv, GroupTypeOK
<1>2. members[c][p] \in Member
    BY <1>1
<1>3. m \in Member /\ m.status = members[c][p].status
    BY <1>2 DEF Member
<1>4. members' = [members EXCEPT ![c] = record]
    BY DEF updateMemberRole
<1>5. UNCHANGED <<channels, moderationLog>>
    BY DEF updateMemberRole
<1> HIDE DEF m
<1>6. /\ record \in [People -> Member \union {NULL}]
      /\ record[p] = m
      /\ \A q \in People : q # p => record[q] = members[c][q]
    BY <1>1, <1>3
<1>7. m # NULL
    BY <1>3 DEF GroupConstants
<1>8. Active(record) = Active(members[c])
    BY <1>1, <1>3, <1>6, <1>7 DEF Active
<1> HIDE DEF record
<1>9. GroupTypeOK'
    BY <1>4, <1>5, <1>6 DEF GroupInv, GroupTypeOK
<1>10. /\ members'[c] = record
       /\ \A d \in Channels : d # c => members'[d] = members[d]
    BY <1>4 DEF GroupInv, GroupTypeOK
<1>11. \A d \in Channels : Counted(channels'[d], members'[d])
    BY <1>5, <1>8, <1>10 DEF GroupInv, Counted
<1> QED
    BY <1>5, <1>9, <1>11 DEF GroupInv

LEMMA MemberKeeps ==
    ASSUME GroupConstants, GroupInv, NEW c \in Channels, NEW p \in People,
           NEW actor \in People, MemberStep(c, p, actor)
    PROVE  GroupInv'
<1>1. {"invite", "join", "remove"} \subseteq Action /\ "member" \in Role
    BY DEF Action, Role
<1> QED
    BY <1>1, AddKeeps, BanKeeps, RoleKeeps DEF MemberStep, removeMember

-----------------------------------------------------------------------------
(* Every step keeps the invariant *)

LEMMA GroupInitInv == GroupConstants /\ GroupInit => GroupInv
BY DEF GroupConstants, GroupInit, GroupInv, GroupTypeOK, Counted, OneRoomEach,
       IsOpenRoom

LEMMA GroupStepInv ==
    ASSUME GroupConstants, GroupInv, [GroupNext]_groupVars
    PROVE  GroupInv'
<1>1. ASSUME NEW c \in Channels, NEW p \in People, ChannelStep(c, p)
      PROVE  GroupInv'
    BY <1>1, ChannelKeeps
<1>2. ASSUME NEW c \in Channels, NEW p \in People, NEW actor \in People,
             MemberStep(c, p, actor)
      PROVE  GroupInv'
    BY <1>2, MemberKeeps
<1>3. ASSUME NEW request \in Requests, NEW p \in People,
             archiveRequestRoom(request, p)
      PROVE  GroupInv'
    BY <1>3, ArchiveKeeps DEF archiveRequestRoom, OpenFor
<1>4. CASE UNCHANGED groupVars
    BY <1>4 DEF groupVars, GroupInv, GroupTypeOK, Counted, OneRoomEach
<1> QED
    BY <1>1, <1>2, <1>3, <1>4 DEF GroupNext

LEMMA GroupInvariant ==
    ASSUME GroupConstants
    PROVE  GroupSpec => []GroupInv
<1>1. GroupInit => GroupInv
    BY GroupInitInv
<1>2. GroupInv /\ [GroupNext]_groupVars => GroupInv'
    BY GroupStepInv
<1> QED
    BY <1>1, <1>2, PTL DEF GroupSpec

(* The count a channel shows is the number of its active members, and a     *)
(* request has at most one open room (recalculateMemberCount,               *)
(* createRequestRoomFromParams).                                            *)
THEOREM GroupsCount ==
    ASSUME GroupConstants
    PROVE  GroupSpec => []GroupsAddUp
<1>1. GroupInv => GroupsAddUp
    BY GroupInvSuffices
<1> QED
    BY <1>1, GroupInvariant, PTL

-----------------------------------------------------------------------------
(* Authority *)

\* A step that puts one record p of c, and how the record may look.
LEMMA OnePut ==
    ASSUME GroupConstants, GroupInv, NEW c \in Channels, NEW p \in People,
           NEW m \in Member,
           members' = [members EXCEPT ![c][p] = m],
           Manages(m) => \/ Manages(members[c][p])
                         \/ \E q \in People : canManageMembers(c, q),
           StatusOf(c, p) = "banned" => m.status = "banned"
    PROVE  GivesAuthority
<1>1. /\ members \in [Channels -> [People -> Member \union {NULL}]]
      /\ members'[c][p] = m
      /\ \A d \in Channels, q \in People :
            d # c \/ q # p => members'[d][q] = members[d][q]
    BY DEF GroupInv, GroupTypeOK
<1>2. m # NULL
    BY DEF GroupConstants
<1> SUFFICES ASSUME NEW d \in Channels, NEW q \in People
             PROVE  /\ Manages(members'[d][q]) =>
                          \/ Manages(members[d][q])
                          \/ \E r \in People : canManageMembers(d, r)
                    /\ StatusOf(d, q) = "banned" => StatusOf(d, q)' = "banned"
    BY DEF GivesAuthority
<1>3. CASE d = c /\ q = p
    BY <1>1, <1>2, <1>3 DEF StatusOf
<1>4. CASE d # c \/ q # p
    BY <1>1, <1>4 DEF StatusOf, Manages
<1> QED
    BY <1>3, <1>4

\* A step that leaves the members of every channel there is alone.
LEMMA NoPut ==
    ASSUME \A c \in Channels : channels[c] # NULL => members'[c] = members[c]
    PROVE  GivesAuthority
BY DEF GivesAuthority, StatusOf, Manages

\* Who is banned is in no state a transition starts from.
LEMMA BansHold ==
    ASSUME GroupConstants, NEW action \in Action
    PROVE  "banned" \notin MembershipFrom[action]
<1>1. NULL # "banned"
    BY DEF GroupConstants, MemberStatus
<1> QED
    BY <1>1 DEF MembershipFrom, Action

LEMMA ChannelGives ==
    ASSUME GroupInv, NEW c \in Channels, NEW p \in People, ChannelStep(c, p)
    PROVE  GivesAuthority
<1>1. \A d \in Channels : channels[d] # NULL => members'[d] = members[d]
    BY DEF GroupInv, GroupTypeOK, ChannelStep, createChannel,
           createRequestRoom, openChannel, updateChannel, archiveChannel,
           applyModeration
<1> QED
    BY <1>1, NoPut

LEMMA AddGives ==
    ASSUME GroupConstants, GroupInv, NEW c \in Channels, NEW p \in People,
           NEW actor \in People, NEW action \in Action, NEW role \in Role,
           addMember(c, p, actor, action, role)
    PROVE  GivesAuthority
<1> DEFINE m == Added(c, p, action, role)
<1>1. members' = [members EXCEPT ![c][p] = m]
    BY DEF addMember, putMember, Added
<1>2. /\ action = "invite" => canManageMembers(c, actor)
      /\ StatusOf(c, p) \in MembershipFrom[action]
    BY DEF addMember
<1>3. /\ m \in Member
      /\ members[c][p] # NULL => m.role = members[c][p].role
      /\ members[c][p] = NULL /\ action # "invite" => m.role = "member"
    BY AddedIsMember
<1>4. Manages(m) => \/ Manages(members[c][p])
                    \/ \E q \in People : canManageMembers(c, q)
    BY <1>2, <1>3 DEF Manages
<1>5. StatusOf(c, p) # "banned"
    BY <1>2, BansHold
<1> HIDE DEF m
<1> QED
    BY <1>1, <1>3, <1>4, <1>5, OnePut

LEMMA BanGives ==
    ASSUME GroupConstants, GroupInv, NEW c \in Channels, NEW p \in People,
           NEW actor \in People, banMember(c, p, actor)
    PROVE  GivesAuthority
<1> DEFINE m == Banned(c, p)
<1>1. members' = [members EXCEPT ![c][p] = m]
    BY DEF banMember, putMember, Banned
<1>2. /\ m \in Member
      /\ m.status = "banned"
      /\ members[c][p] # NULL => m.role = members[c][p].role
      /\ members[c][p] = NULL => m.role = "member"
    BY BannedIsMember
<1>3. Manages(m) => Manages(members[c][p])
    BY <1>2 DEF Manages
<1> HIDE DEF m
<1> QED
    BY <1>1, <1>2, <1>3, OnePut

LEMMA RoleGives ==
    ASSUME GroupConstants, GroupInv, NEW c \in Channels, NEW p \in People,
           NEW actor \in People, NEW role \in Role,
           updateMemberRole(c, p, actor, role)
    PROVE  GivesAuthority
<1> DEFINE m == [members[c][p] EXCEPT !.role = role]
<1>1. /\ canManageMembers(c, actor)
      /\ members[c][p] # NULL
      /\ members[c][p].status = "active"
      /\ members' = [members EXCEPT ![c][p] = m]
    BY DEF updateMemberRole, ActiveMembers
<1>2. members[c][p] \in Member
    BY <1>1 DEF GroupInv, GroupTypeOK
<1>3. m \in Member
    BY <1>2 DEF Member
<1>4. StatusOf(c, p) # "banned"
    BY <1>1 DEF StatusOf
<1> HIDE DEF m
<1> QED
    BY <1>1, <1>3, <1>4, OnePut

(* Whoever gets a manager's role in a channel that exists gets it while     *)
(* some manager is active, and nobody leaves a ban (MEMBERSHIP_TRANSITIONS  *)
(* and the permission checks of addMemberFromParams).                       *)
THEOREM AuthorityGiven ==
    ASSUME GroupConstants
    PROVE  GroupSpec => AuthorityIsGiven
<1>1. GroupInv /\ [GroupNext]_groupVars => [GivesAuthority]_groupVars
    <2> SUFFICES ASSUME GroupInv, GroupNext
                 PROVE  GivesAuthority
        OBVIOUS
    <2>1. ASSUME NEW c \in Channels, NEW p \in People, ChannelStep(c, p)
          PROVE  GivesAuthority
        BY <2>1, ChannelGives
    <2>2. ASSUME NEW c \in Channels, NEW p \in People, NEW actor \in People,
                 MemberStep(c, p, actor)
          PROVE  GivesAuthority
        <3>1. {"invite", "join", "remove"} \subseteq Action /\ "member" \in Role
            BY DEF Action, Role
        <3> QED
            BY <2>2, <3>1, AddGives, BanGives, RoleGives
               DEF MemberStep, removeMember
    <2>3. ASSUME NEW request \in Requests, NEW p \in People,
                 archiveRequestRoom(request, p)
          PROVE  GivesAuthority
        BY <2>3, NoPut DEF archiveRequestRoom, archiveChannel
    <2> QED
        BY <2>1, <2>2, <2>3 DEF GroupNext
<1> QED
    BY <1>1, GroupInvariant, PTL DEF GroupSpec, AuthorityIsGiven

-----------------------------------------------------------------------------
(***************************************************************************)
(* Verification                                                            *)
(***************************************************************************)

(* One status *)

\* Tier and trail of a status or of none.
TierOf(st) == IF st = NULL THEN "unverified" ELSE st.tier
TrailOf(st) == IF st = NULL THEN <<>> ELSE st.auditTrail

Granting(trail) == {k \in DOMAIN trail : trail[k].action # "appeal"}

\* Every entry starts at the tier the one before left.
Chained(trail) ==
    \A k \in DOMAIN trail : trail[k].previousTier =
        IF k = 1 THEN "unverified" ELSE trail[k - 1].newTier

\* The last entry that was no appeal gives the day and the expiry.
Dated(st) ==
    \E k \in Granting(st.auditTrail) :
        /\ \A j \in Granting(st.auditTrail) : j <= k
        /\ st.grantedAt = st.auditTrail[k].timestamp
        /\ st.expiresAt = IF Days[st.tier] = NULL THEN NULL
                          ELSE st.auditTrail[k].timestamp + Days[st.tier]

\* An upgrade since the last revocation reached the tier.
Reached(trail, tier) ==
    \E k \in Granting(trail) :
        /\ TierRank[trail[k].newTier] > TierRank[trail[k].previousTier]
        /\ TierRank[trail[k].newTier] >= TierRank[tier]
        /\ \A j \in Granting(trail) : trail[j].action = "revoke" => j < k

Explained(st) ==
    /\ Granting(st.auditTrail) # {}
    /\ Chained(st.auditTrail)
    /\ st.tier = st.auditTrail[Len(st.auditTrail)].newTier
    /\ Dated(st)
    /\ st.tier # "unverified" => Reached(st.auditTrail, st.tier)

\* The property says that of every status.
LEMMA ExplainedEach ==
    AuditExplainsStatus <=>
        \A s \in Subjects : statuses[s] # NULL => Explained(statuses[s])
BY DEF AuditExplainsStatus, Explained, Granting, Chained, Dated, Reached, Trail,
       CurrentTier

\* An entry that starts at the tier held.
NextEntry(st, action, day, tier) ==
    [action |-> action, timestamp |-> day, previousTier |-> TierOf(st),
     newTier |-> tier]

\* What appending an entry does to a trail.
LEMMA Entered ==
    ASSUME NEW st \in Status \union {NULL}, NEW e \in Audit
    PROVE  /\ TrailOf(st) \in Seq(Audit)
           /\ Len(TrailOf(st)) \in Nat
           /\ Append(TrailOf(st), e) \in Seq(Audit)
           /\ Len(Append(TrailOf(st), e)) = Len(TrailOf(st)) + 1
           /\ DOMAIN Append(TrailOf(st), e) = 1..(Len(TrailOf(st)) + 1)
           /\ DOMAIN TrailOf(st) = 1..Len(TrailOf(st))
           /\ \A k \in 1..Len(TrailOf(st)) :
                 Append(TrailOf(st), e)[k] = TrailOf(st)[k]
           /\ Append(TrailOf(st), e)[Len(TrailOf(st)) + 1] = e
<1>1. TrailOf(st) \in Seq(Audit)
  BY DEF TrailOf, Status
<1> HIDE DEF TrailOf
<1> QED
  BY <1>1, AppendProperties, LenProperties

\* A trail stays a chain when the entry starts at the tier held.
LEMMA ChainGrows ==
    ASSUME NEW st \in Status \union {NULL}, st # NULL => Explained(st),
           NEW action, NEW day, NEW tier \in Tier,
           NextEntry(st, action, day, tier) \in Audit
    PROVE  Chained(Append(TrailOf(st), NextEntry(st, action, day, tier)))
<1> DEFINE e == NextEntry(st, action, day, tier)
           trail == TrailOf(st)
           next == Append(trail, e)
<1>1. /\ Len(trail) \in Nat
      /\ DOMAIN next = 1..(Len(trail) + 1)
      /\ DOMAIN trail = 1..Len(trail)
      /\ \A k \in 1..Len(trail) : next[k] = trail[k]
      /\ next[Len(trail) + 1] = e
  BY Entered
<1>2. e.previousTier = TierOf(st)
  BY DEF NextEntry
<1>3. ASSUME NEW k \in 1..(Len(trail) + 1)
      PROVE  next[k].previousTier =
                 IF k = 1 THEN "unverified" ELSE next[k - 1].newTier
  <2>1. CASE k <= Len(trail)
    <3>1. st # NULL
      BY <1>1, <2>1 DEF TrailOf
    <3>2. Chained(trail)
      BY <3>1 DEF Explained, TrailOf
    <3>3. k \in DOMAIN trail /\ (k # 1 => k - 1 \in 1..Len(trail))
      BY <1>1, <2>1
    <3> HIDE DEF trail, next, e
    <3> QED
      BY <1>1, <3>2, <3>3 DEF Chained
  <2>2. CASE k = Len(trail) + 1 /\ Len(trail) = 0
    <3>1. st = NULL
      <4>1. st # NULL => Granting(trail) # {}
        BY DEF Explained, TrailOf
      <4>2. Granting(trail) = {}
        BY <1>1, <2>2 DEF Granting
      <4> QED
        BY <4>1, <4>2
    <3>2. e.previousTier = "unverified"
      BY <1>2, <3>1 DEF TierOf
    <3> HIDE DEF trail, next, e
    <3> QED
      BY <1>1, <2>2, <3>2
  <2>3. CASE k = Len(trail) + 1 /\ Len(trail) # 0
    <3>1. st # NULL
      BY <2>3 DEF TrailOf
    <3>2. TierOf(st) = trail[Len(trail)].newTier
      BY <3>1 DEF Explained, TierOf, TrailOf
    <3>3. k - 1 = Len(trail) /\ k # 1 /\ k - 1 \in 1..Len(trail)
      BY <1>1, <2>3
    <3> HIDE DEF trail, next, e
    <3> QED
      BY <1>1, <1>2, <2>3, <3>2, <3>3
  <2> QED
    BY <1>1, <2>1, <2>2, <2>3
<1> HIDE DEF next
<1> QED
  BY <1>1, <1>3 DEF Chained

\* A grant, a revocation or a renewal leaves a status that its trail explains.
LEMMA PutExplained ==
    ASSUME VerificationConstants, NEW st \in Status \union {NULL},
           st # NULL => Explained(st),
           NEW action \in {"grant", "revoke", "renew"}, NEW day \in Nat,
           NEW tier \in Tier,
           action = "revoke" => tier = "unverified",
           action = "renew" => tier = TierOf(st)
    PROVE  Explained([tier |-> tier, grantedAt |-> day,
                      expiresAt |-> IF Days[tier] = NULL THEN NULL
                                    ELSE day + Days[tier],
                      auditTrail |-> Append(TrailOf(st),
                                        NextEntry(st, action, day, tier))])
<1> DEFINE e == NextEntry(st, action, day, tier)
           trail == TrailOf(st)
           next == Append(trail, e)
           expiry == IF Days[tier] = NULL THEN NULL ELSE day + Days[tier]
           new == [tier |-> tier, grantedAt |-> day, expiresAt |-> expiry,
                   auditTrail |-> next]
<1>0. e \in Audit
  BY DEF NextEntry, Audit, TierOf, Status, Tier
<1>1. /\ Len(trail) \in Nat
      /\ Len(next) = Len(trail) + 1
      /\ DOMAIN next = 1..(Len(trail) + 1)
      /\ DOMAIN trail = 1..Len(trail)
      /\ \A k \in 1..Len(trail) : next[k] = trail[k]
      /\ next[Len(trail) + 1] = e
  BY <1>0, Entered
<1>2. Chained(next)
  BY <1>0, ChainGrows
<1>3. /\ e.action = action /\ e.timestamp = day
      /\ e.previousTier = TierOf(st) /\ e.newTier = tier
  BY DEF NextEntry
<1>4. /\ new.tier = tier /\ new.grantedAt = day /\ new.expiresAt = expiry
      /\ new.auditTrail = next
  OBVIOUS
<1> HIDE DEF e, trail, next, new
<1>5. /\ Len(trail) + 1 \in Granting(next)
      /\ \A j \in Granting(next) : j <= Len(trail) + 1
  BY <1>1, <1>3 DEF Granting
<1>6. Dated(new)
  BY <1>1, <1>3, <1>4, <1>5 DEF Dated
<1>7. tier # "unverified" => Reached(next, tier)
  <2>1. CASE action = "grant" /\ TierRank[tier] > TierRank[TierOf(st)]
    <3>1. \A j \in Granting(next) : next[j].action = "revoke" => j < Len(trail) + 1
      BY <1>1, <1>3, <1>5, <2>1 DEF Granting
    <3>2. TierRank[tier] \in Nat
      BY DEF Tier, TierRank
    <3> QED
      BY <1>1, <1>3, <1>5, <2>1, <3>1, <3>2 DEF Reached
  <2>2. CASE action \in {"grant", "renew"} /\ ~(TierRank[tier] > TierRank[TierOf(st)])
             /\ tier # "unverified"
    <3>1. TierOf(st) \in Tier
      BY DEF TierOf, Status, Tier
    <3>2. TierOf(st) # "unverified" /\ TierRank[TierOf(st)] >= TierRank[tier]
      BY <2>2, <3>1 DEF Tier, TierRank
    <3>3. st # NULL /\ TierOf(st) = st.tier /\ trail = st.auditTrail
      BY <3>2 DEF TierOf, TrailOf, trail
    <3>4. PICK k \in Granting(trail) :
              /\ TierRank[trail[k].newTier] > TierRank[trail[k].previousTier]
              /\ TierRank[trail[k].newTier] >= TierRank[TierOf(st)]
              /\ \A j \in Granting(trail) : trail[j].action = "revoke" => j < k
      BY <3>2, <3>3 DEF Explained, Reached
    <3>5. k \in 1..Len(trail) /\ next[k] = trail[k] /\ k \in Granting(next)
      BY <1>1, <3>4 DEF Granting
    <3>6. \A j \in Granting(next) : next[j].action = "revoke" => j < k
      <4> SUFFICES ASSUME NEW j \in Granting(next), next[j].action = "revoke"
                   PROVE  j < k
        OBVIOUS
      <4>1. j # Len(trail) + 1
        BY <1>1, <1>3, <2>2
      <4>2. j \in Granting(trail) /\ next[j] = trail[j]
        BY <1>1, <4>1 DEF Granting
      <4> QED
        BY <3>4, <4>2
    <3>7. TierRank[trail[k].newTier] >= TierRank[tier]
      <4>1. trail[k] \in Audit
        BY <3>3, <3>5 DEF Status
      <4> QED
        BY <3>1, <3>2, <3>4, <4>1 DEF Audit, Tier, TierRank
    <3> QED
      BY <3>4, <3>5, <3>6, <3>7 DEF Reached
  <2>3. action = "renew" => ~(TierRank[tier] > TierRank[TierOf(st)])
    BY DEF Tier, TierRank
  <2> QED
    BY <2>1, <2>2, <2>3
<1>8. Explained(new)
  BY <1>1, <1>2, <1>3, <1>4, <1>5, <1>6, <1>7 DEF Explained
<1> QED
  BY <1>8 DEF new, next, trail, e

\* An appeal leaves a status that its trail explains.
LEMMA AppealExplained ==
    ASSUME VerificationConstants, NEW st \in Status, st # NULL, Explained(st),
           NEW day \in Nat,
           NEW new \in Status,
           new.tier = st.tier, new.grantedAt = st.grantedAt,
           new.expiresAt = st.expiresAt,
           new.auditTrail = Append(st.auditTrail,
                                NextEntry(st, "appeal", day, TierOf(st)))
    PROVE  Explained(new)
<1> DEFINE e == NextEntry(st, "appeal", day, TierOf(st))
           trail == TrailOf(st)
           next == Append(trail, e)
<1>0. e \in Audit /\ TierOf(st) \in Tier
  BY DEF NextEntry, Audit, TierOf, Status, Tier
<1>1. /\ Len(trail) \in Nat
      /\ Len(next) = Len(trail) + 1
      /\ DOMAIN next = 1..(Len(trail) + 1)
      /\ DOMAIN trail = 1..Len(trail)
      /\ \A k \in 1..Len(trail) : next[k] = trail[k]
      /\ next[Len(trail) + 1] = e
  BY <1>0, Entered
<1>2. Chained(next)
  BY <1>0, ChainGrows
<1>3. e.action = "appeal" /\ e.newTier = st.tier
  BY DEF NextEntry, TierOf
<1>4. trail = st.auditTrail /\ new.auditTrail = next
  BY DEF TrailOf
<1> HIDE DEF e, trail, next
<1>5. Granting(next) = Granting(trail)
  BY <1>1, <1>3 DEF Granting
<1>6. \A k \in Granting(trail) : next[k] = trail[k]
  BY <1>1 DEF Granting
<1>7. Dated(new)
  <2>1. PICK k \in Granting(trail) :
            /\ \A j \in Granting(trail) : j <= k
            /\ st.grantedAt = trail[k].timestamp
            /\ st.expiresAt = IF Days[st.tier] = NULL THEN NULL
                              ELSE trail[k].timestamp + Days[st.tier]
    BY <1>4 DEF Explained, Dated
  <2>2. next[k] = trail[k]
    BY <1>6
  <2> QED
    BY <1>4, <1>5, <2>1, <2>2 DEF Dated
<1>8. st.tier # "unverified" => Reached(next, st.tier)
  BY <1>4, <1>5, <1>6 DEF Explained, Reached
<1>9. Granting(next) # {}
  BY <1>4, <1>5 DEF Explained
<1> QED
  BY <1>1, <1>2, <1>3, <1>4, <1>7, <1>8, <1>9 DEF Explained

\* A status put in its place has its type.
LEMMA PutStatusType ==
    ASSUME VerificationConstants, NEW st \in Status \union {NULL},
           NEW action \in {"grant", "revoke", "renew"}, NEW day \in Nat,
           NEW tier \in Tier
    PROVE  [tier |-> tier, grantedAt |-> day,
            expiresAt |-> IF Days[tier] = NULL THEN NULL ELSE day + Days[tier],
            auditTrail |-> Append(TrailOf(st),
                              NextEntry(st, action, day, tier))] \in Status
<1>1. NextEntry(st, action, day, tier) \in Audit
  BY DEF NextEntry, Audit, TierOf, Status, Tier
<1>2. Append(TrailOf(st), NextEntry(st, action, day, tier)) \in Seq(Audit)
  BY <1>1, Entered
<1>3. Days[tier] = NULL \/ day + Days[tier] \in Nat
  BY DEF VerificationConstants
<1> QED
  BY <1>2, <1>3 DEF Status

\* A status with another trail is one.
LEMMA Retrailed ==
    \A st \in Status, trail \in Seq(Audit) :
        [st EXCEPT !.auditTrail = trail] \in Status
BY DEF Status

-----------------------------------------------------------------------------
(* The steps *)

EachExplained(stats) ==
    \A s \in Subjects : stats[s] # NULL => Explained(stats[s])

VerificationInv == VerificationTypeOK /\ EachExplained(statuses)

LEMMA VerificationInit_Inv ==
    ASSUME VerificationConstants, VerificationInit
    PROVE  VerificationInv
BY DEF VerificationInit, VerificationInv, VerificationTypeOK, EachExplained,
       VerificationConstants

\* A grant, a revocation and a renewal put a status whose expiry is that of
\* its tier.
LEMMA PutStatus_Inv ==
    ASSUME VerificationConstants, VerificationInv,
           NEW s \in Subjects, NEW action \in {"grant", "revoke", "renew"},
           NEW tier \in Tier,
           action = "revoke" => tier = "unverified",
           action = "renew" => tier = CurrentTier(s),
           putStatus(s, action, tier, computeExpiryDate(tier))
    PROVE  VerificationInv'
<1> DEFINE st == statuses[s]
           new == [tier |-> tier, grantedAt |-> today,
                   expiresAt |-> IF Days[tier] = NULL THEN NULL
                                 ELSE today + Days[tier],
                   auditTrail |-> Append(TrailOf(st),
                                     NextEntry(st, action, today, tier))]
<1>1. /\ statuses \in [Subjects -> Status \union {NULL}]
      /\ st \in Status \union {NULL} /\ today \in Nat
      /\ st # NULL => Explained(st)
  BY DEF VerificationInv, VerificationTypeOK, EachExplained
<1>2. statuses' = [statuses EXCEPT ![s] = new] /\ UNCHANGED <<appeals, today>>
  BY DEF putStatus, computeExpiryDate, appendAuditEntry, Trail, TrailOf,
         CurrentTier, TierOf, NextEntry
<1>3. TierOf(st) = CurrentTier(s)
  BY DEF TierOf, CurrentTier
<1>4. new \in Status
  BY <1>1, PutStatusType
<1>5. Explained(new)
  BY <1>1, <1>3, PutExplained
<1> HIDE DEF new, st
<1>6. statuses' \in [Subjects -> Status \union {NULL}]
  BY <1>1, <1>2, <1>4
<1>7. EachExplained(statuses')
  BY <1>1, <1>2, <1>5 DEF VerificationInv, EachExplained
<1> QED
  BY <1>2, <1>6, <1>7 DEF VerificationInv, VerificationTypeOK

LEMMA Appeal_Inv ==
    ASSUME VerificationConstants, VerificationInv,
           NEW s \in Subjects, NEW requested \in Tier, appeal(s, requested)
    PROVE  VerificationInv'
<1> DEFINE st == statuses[s]
           e == NextEntry(st, "appeal", today, TierOf(st))
           asked == [currentTier |-> CurrentTier(s), requestedTier |-> requested]
<1>1. /\ statuses \in [Subjects -> Status \union {NULL}]
      /\ appeals \in [Subjects -> Seq(Appeal)]
      /\ st \in Status \union {NULL} /\ today \in Nat
      /\ st # NULL => Explained(st)
  BY DEF VerificationInv, VerificationTypeOK, EachExplained
<1>2. CurrentTier(s) \in Tier /\ TierOf(st) = CurrentTier(s)
  BY <1>1 DEF CurrentTier, TierOf, Status, Tier
<1>3. appeals' \in [Subjects -> Seq(Appeal)]
  <2>1. asked \in Appeal
    BY <1>2 DEF Appeal
  <2>2. Append(appeals[s], asked) \in Seq(Appeal)
    BY <1>1, <2>1, AppendProperties
  <2>3. appeals' = [appeals EXCEPT ![s] = Append(appeals[s], asked)]
    BY DEF appeal
  <2> HIDE DEF asked
  <2> QED
    BY <1>1, <2>2, <2>3
<1>4. CASE st = NULL
  <2>1. UNCHANGED <<statuses, today>>
    BY <1>4 DEF appeal
  <2> QED
    BY <1>3, <2>1 DEF VerificationInv, VerificationTypeOK, EachExplained
<1>5. CASE st # NULL
  <2> DEFINE new == [st EXCEPT !.auditTrail = Append(st.auditTrail, e)]
  <2>1. st \in Status
    BY <1>1, <1>5
  <2>2. statuses' = [statuses EXCEPT ![s] = new] /\ today' = today
    BY <1>2, <1>5 DEF appeal, appendAuditEntry, Trail, NextEntry
  <2>3. Append(st.auditTrail, e) \in Seq(Audit)
    <3>1. e \in Audit
      BY <1>1, <1>2 DEF NextEntry, Audit
    <3>2. Append(TrailOf(st), e) \in Seq(Audit)
      BY <1>1, <3>1, Entered
    <3> QED
      BY <1>5, <3>2 DEF TrailOf
  <2>4. new \in Status
    BY <2>1, <2>3, Retrailed
  <2>5. /\ new.tier = st.tier /\ new.grantedAt = st.grantedAt
        /\ new.expiresAt = st.expiresAt
        /\ new.auditTrail = Append(st.auditTrail, e)
    BY <2>1 DEF Status
  <2>6. Explained(new)
    BY <1>1, <1>5, <2>1, <2>4, <2>5, AppealExplained
  <2> HIDE DEF new, st, e
  <2>7. statuses' \in [Subjects -> Status \union {NULL}]
    BY <1>1, <2>2, <2>4
  <2>8. EachExplained(statuses')
    BY <1>1, <2>2, <2>6 DEF VerificationInv, EachExplained
  <2> QED
    BY <1>3, <2>2, <2>7, <2>8, <1>1 DEF VerificationInv, VerificationTypeOK
<1> QED
  BY <1>4, <1>5

LEMMA VerificationNext_Inv ==
    ASSUME VerificationConstants, VerificationInv,
           [VerificationNext]_verificationVars
    PROVE  VerificationInv'
<1>1. ASSUME NEW s \in Subjects, NEW target \in Tier,
             NEW passed \in SUBSET Tier, grant(s, target, passed)
      PROVE  VerificationInv'
  BY <1>1, PutStatus_Inv DEF grant
<1>2. ASSUME NEW s \in Subjects, revoke(s)
      PROVE  VerificationInv'
  <2>1. computeExpiryDate("unverified") = NULL
    BY DEF computeExpiryDate, VerificationConstants
  <2>2. "unverified" \in Tier
    BY DEF Tier
  <2> QED
    BY <1>2, <2>1, <2>2, PutStatus_Inv DEF revoke
<1>3. ASSUME NEW s \in Subjects, renew(s)
      PROVE  VerificationInv'
  <2>1. CurrentTier(s) \in Tier
    BY DEF CurrentTier, VerificationInv, VerificationTypeOK, Status, Tier
  <2> QED
    BY <1>3, <2>1, PutStatus_Inv DEF renew
<1>4. ASSUME NEW s \in Subjects, NEW requested \in Tier, appeal(s, requested)
      PROVE  VerificationInv'
  BY <1>4, Appeal_Inv
<1>5. CASE NextDay
  BY <1>5 DEF NextDay, VerificationInv, VerificationTypeOK, EachExplained
<1>6. CASE UNCHANGED verificationVars
  BY <1>6 DEF verificationVars, VerificationInv, VerificationTypeOK,
              EachExplained
<1> QED
  BY <1>1, <1>2, <1>3, <1>4, <1>5, <1>6 DEF VerificationNext

-----------------------------------------------------------------------------
(* The theorems *)

LEMMA VerificationInvariant ==
    ASSUME VerificationConstants
    PROVE  VerificationSpec => []VerificationInv
<1>1. VerificationInit => VerificationInv
  BY VerificationInit_Inv
<1>2. VerificationInv /\ [VerificationNext]_verificationVars => VerificationInv'
  BY VerificationNext_Inv
<1> QED
  BY <1>1, <1>2, PTL DEF VerificationSpec

\* The audit trail tells how every status came about, whatever the subjects,
\* the durations of the tiers and the number of calls (grant, revoke, renew,
\* appeal and appendAuditEntry of VerificationService).
THEOREM StatusExplained ==
    ASSUME VerificationConstants
    PROVE  VerificationSpec => []AuditExplainsStatus
<1>1. VerificationInv => AuditExplainsStatus
  BY ExplainedEach DEF VerificationInv, EachExplained
<1> QED
  BY <1>1, VerificationInvariant, PTL

-----------------------------------------------------------------------------
(***************************************************************************)
(* Scheduling                                                              *)
(***************************************************************************)

(* Clashes *)

Stands(shift) == shift.status \notin {"cancelled", "missed"}

Clash(a, b) ==
    /\ a.volunteer = b.volunteer
    /\ Stands(a) /\ Stands(b)
    /\ a.start < b.end /\ b.start < a.end

\* Every clash of the shifts sh is among the pairs rep.
Covered(sh, rep) ==
    \A s, t \in Shifts :
        /\ sh[s] # NULL /\ sh[t] # NULL /\ s # t
        /\ Clash(sh[s], sh[t])
        => <<s, t>> \in rep \/ <<t, s>> \in rep

\* What was found missed is there, and missed.
Settled(sh, events) == \A s \in events : sh[s] # NULL /\ sh[s].status = "missed"

ScheduleInv ==
    /\ ScheduleTypeOK
    /\ Covered(shifts, reported)
    /\ Settled(shifts, noShowEvents)

\* The invariant has the property in it.
LEMMA ScheduleInvSuffices == ScheduleInv => ClashesWereReported
BY DEF ScheduleInv, ScheduleTypeOK, Covered, Settled, Clash, Stands,
       ClashesWereReported, Assigned

\* A step that keeps people and times and revives nothing makes no new clash.
LEMMA NothingRevived ==
    ASSUME NEW sh, NEW sh2, NEW rep, Covered(sh, rep),
           \A s \in Shifts : sh2[s] # NULL =>
              /\ sh[s] # NULL
              /\ sh2[s].volunteer = sh[s].volunteer
              /\ sh2[s].start = sh[s].start
              /\ sh2[s].end = sh[s].end
              /\ Stands(sh2[s]) => Stands(sh[s])
    PROVE  Covered(sh2, rep)
<1> SUFFICES ASSUME NEW s \in Shifts, NEW t \in Shifts,
                    sh2[s] # NULL, sh2[t] # NULL, s # t,
                    Clash(sh2[s], sh2[t])
             PROVE  <<s, t>> \in rep \/ <<t, s>> \in rep
    BY DEF Covered
<1>1. sh[s] # NULL /\ sh[t] # NULL
    OBVIOUS
<1>2. Clash(sh[s], sh[t])
    BY DEF Clash
<1> QED
    BY <1>1, <1>2 DEF Covered

\* A transition leads out of neither 'cancelled' nor 'missed'.
LEMMA EndsAreFinal ==
    ASSUME NEW from \in ShiftStatus, NEW to \in ShiftStatus,
           isValidShiftTransition(from, to)
    PROVE  from \in {"cancelled", "missed"} => to = from
BY DEF ShiftStatus, isValidShiftTransition, NextStatus

\* Changing the status of a shift makes a shift.
LEMMA StatusSet ==
    ASSUME NEW shift \in Shift, NEW st \in ShiftStatus
    PROVE  LET new == [shift EXCEPT !.status = st]
           IN /\ new \in Shift
              /\ new.volunteer = shift.volunteer
              /\ new.start = shift.start
              /\ new.end = shift.end
              /\ new.status = st
BY DEF Shift

-----------------------------------------------------------------------------
(* Types *)

LEMMA ScheduleInitInv == SchedulingConstants /\ ScheduleInit => ScheduleInv
<1> SUFFICES ASSUME SchedulingConstants, ScheduleInit
             PROVE  ScheduleInv
    OBVIOUS
<1>1. ScheduleTypeOK
    BY DEF SchedulingConstants, ScheduleInit, ScheduleTypeOK, Slot
<1>2. Covered(shifts, reported) /\ Settled(shifts, noShowEvents)
    BY DEF ScheduleInit, Covered, Settled
<1> QED
    BY <1>1, <1>2 DEF ScheduleInv

\* The steps that leave the shifts alone.
Elsewhere ==
    \/ \E w \in Windows : \/ addAvailabilityWindow(w)
                          \/ removeAvailabilityWindow(w)
                          \/ \E active \in {"active", "inactive"} :
                                updateAvailabilityWindow(w, active)
    \/ processDueReminders
    \/ \E s \in Shifts, l \in LeadTimes : acknowledgeReminder(s, l)
    \/ timePasses

LEMMA ElsewhereKeeps ==
    ASSUME SchedulingConstants, ScheduleInv, Elsewhere
    PROVE  ScheduleInv'
<1> USE DEF ScheduleInv, ScheduleTypeOK
<1>1. UNCHANGED <<shifts, noShowEvents, reported>>
    BY DEF Elsewhere, addAvailabilityWindow, removeAvailabilityWindow,
           updateAvailabilityWindow, processDueReminders,
           acknowledgeReminder, timePasses
<1>2. clock' \in Slot
    BY DEF SchedulingConstants, Slot, Elsewhere, addAvailabilityWindow,
           removeAvailabilityWindow, updateAvailabilityWindow,
           processDueReminders, acknowledgeReminder, timePasses
<1>3. windows' \in [Windows -> {NULL, "active", "inactive"}]
    BY DEF Elsewhere, addAvailabilityWindow, removeAvailabilityWindow,
           updateAvailabilityWindow, processDueReminders,
           acknowledgeReminder, timePasses
<1>4. reminders' \in [Shifts -> [LeadTimes ->
                          {NULL, "pending", "sent", "acknowledged"}]]
    <2>1. CASE UNCHANGED reminders
        BY <2>1
    <2>2. CASE processDueReminders
        BY <2>2 DEF processDueReminders
    <2>3. ASSUME NEW s \in Shifts, NEW l \in LeadTimes,
                 acknowledgeReminder(s, l)
          PROVE  reminders' \in [Shifts -> [LeadTimes ->
                          {NULL, "pending", "sent", "acknowledged"}]]
        <3>1. [reminders[s] EXCEPT ![l] = "acknowledged"] \in
                  [LeadTimes -> {NULL, "pending", "sent", "acknowledged"}]
            OBVIOUS
        <3>2. reminders' = [reminders EXCEPT ![s] =
                               [reminders[s] EXCEPT ![l] = "acknowledged"]]
            BY <2>3 DEF acknowledgeReminder
        <3> QED
            BY <3>1, <3>2
    <2> QED
        BY <2>1, <2>2, <2>3 DEF Elsewhere, addAvailabilityWindow,
           removeAvailabilityWindow, updateAvailabilityWindow, timePasses
<1> QED
    BY <1>1, <1>2, <1>3, <1>4

-----------------------------------------------------------------------------
(* Assigning, moving and missing shifts *)

LEMMA AssignKeeps ==
    ASSUME SchedulingConstants, ScheduleInv,
           NEW x \in Shifts, NEW v \in Volunteers, NEW start \in Slot,
           NEW end \in Slot, NEW leads \in SUBSET LeadTimes,
           assignShift(x, v, start, end, leads)
    PROVE  ScheduleInv'
<1> DEFINE new == [volunteer |-> v, start |-> start, end |-> end,
                   status |-> "scheduled"]
<1>1. new \in Shift
    BY DEF Shift, ShiftStatus
<1>2. /\ shifts' = [shifts EXCEPT ![x] = new]
      /\ shifts[x] = NULL
      /\ UNCHANGED <<clock, windows, noShowEvents>>
    BY DEF assignShift
<1>3. reported' = reported \union ({x} \X Conflicts(v, start, end))
    BY DEF assignShift
<1>4. ScheduleTypeOK'
    <2>1. Conflicts(v, start, end) \subseteq Shifts
        BY DEF Conflicts, Assigned
    <2>2. reported' \subseteq Shifts \X Shifts
        BY <1>3, <2>1 DEF ScheduleInv, ScheduleTypeOK
    <2>3. shifts' \in [Shifts -> Shift \union {NULL}]
        BY <1>1, <1>2 DEF ScheduleInv, ScheduleTypeOK
    <2>4. reminders' \in [Shifts -> [LeadTimes ->
                             {NULL, "pending", "sent", "acknowledged"}]]
        BY DEF ScheduleInv, ScheduleTypeOK, assignShift
    <2> QED
        BY <1>2, <2>2, <2>3, <2>4 DEF ScheduleInv, ScheduleTypeOK
<1>5. Covered(shifts', reported')
    <2> SUFFICES ASSUME NEW s \in Shifts, NEW t \in Shifts,
                        shifts'[s] # NULL, shifts'[t] # NULL, s # t,
                        Clash(shifts'[s], shifts'[t])
                 PROVE  <<s, t>> \in reported' \/ <<t, s>> \in reported'
        BY DEF Covered
    <2>1. /\ shifts'[x] = new
          /\ \A u \in Shifts : u # x => shifts'[u] = shifts[u]
        BY <1>2 DEF ScheduleInv, ScheduleTypeOK
    <2>2. ASSUME NEW u \in Shifts, u # x, shifts[u] # NULL,
                 Clash(new, shifts[u]) \/ Clash(shifts[u], new)
          PROVE  <<x, u>> \in reported'
        <3>1. shifts[u] \in Shift
            BY <2>2 DEF ScheduleInv, ScheduleTypeOK
        <3>2. u \in Conflicts(v, start, end)
            BY <2>2, <3>1 DEF Conflicts, Assigned, Clash, Stands, hasTimeOverlap,
               Shift
        <3> QED
            BY <3>2, <1>3
    <2>3. CASE s = x
        BY <2>1, <2>2, <2>3
    <2>4. CASE t = x
        BY <2>1, <2>2, <2>4
    <2>5. CASE s # x /\ t # x
        BY <2>1, <2>5, <1>3 DEF ScheduleInv, Covered
    <2> QED
        BY <2>3, <2>4, <2>5
<1>6. Settled(shifts', noShowEvents')
    BY <1>2 DEF ScheduleInv, Settled, ScheduleTypeOK
<1> QED
    BY <1>4, <1>5, <1>6 DEF ScheduleInv

LEMMA TransitionKeeps ==
    ASSUME SchedulingConstants, ScheduleInv,
           NEW x \in Shifts, NEW st \in ShiftStatus, transitionShift(x, st)
    PROVE  ScheduleInv'
<1> DEFINE new == [shifts[x] EXCEPT !.status = st]
<1>1. /\ shifts[x] \in Shift
      /\ isValidShiftTransition(shifts[x].status, st)
      /\ shifts' = [shifts EXCEPT ![x] = new]
      /\ UNCHANGED <<clock, windows, reminders, noShowEvents, reported>>
    BY DEF transitionShift, Assigned, ScheduleInv, ScheduleTypeOK
<1>2. /\ new \in Shift
      /\ new.volunteer = shifts[x].volunteer
      /\ new.start = shifts[x].start
      /\ new.end = shifts[x].end
      /\ new.status = st
    BY <1>1, StatusSet
<1>3. shifts[x].status \in {"cancelled", "missed"} => st = shifts[x].status
    <2>1. shifts[x].status \in ShiftStatus
        BY <1>1 DEF Shift
    <2> QED
        BY <1>1, <2>1, EndsAreFinal
<1>4. NULL \notin Shift
    BY DEF SchedulingConstants
<1> HIDE DEF new
<1>5. /\ shifts'[x] = new
      /\ \A u \in Shifts : u # x => shifts'[u] = shifts[u]
    BY <1>1 DEF ScheduleInv, ScheduleTypeOK
<1>6. ScheduleTypeOK'
    BY <1>1, <1>2 DEF ScheduleInv, ScheduleTypeOK
<1>7. Covered(shifts', reported')
    <2>1. Covered(shifts, reported') /\ shifts[x] # NULL
        BY <1>1, <1>4 DEF ScheduleInv
    <2>2. Stands(new) => Stands(shifts[x])
        BY <1>2, <1>3 DEF Stands
    <2> QED
        BY <1>2, <1>5, <2>1, <2>2, NothingRevived
<1>8. Settled(shifts', noShowEvents')
    <2> SUFFICES ASSUME NEW s \in noShowEvents
                 PROVE  shifts'[s] # NULL /\ shifts'[s].status = "missed"
        BY <1>1 DEF Settled
    <2>1. s \in Shifts /\ shifts[s] # NULL /\ shifts[s].status = "missed"
        BY DEF ScheduleInv, ScheduleTypeOK, Settled
    <2> QED
        BY <2>1, <1>2, <1>3, <1>4, <1>5
<1> QED
    BY <1>6, <1>7, <1>8 DEF ScheduleInv

LEMMA CheckKeeps ==
    ASSUME SchedulingConstants, ScheduleInv, checkNoShows
    PROVE  ScheduleInv'
<1> DEFINE missed == {s \in Assigned : isNoShow(shifts[s])}
<1>1. /\ shifts' = [s \in Shifts |->
             IF s \in missed THEN [shifts[s] EXCEPT !.status = "missed"]
             ELSE shifts[s]]
      /\ noShowEvents' = noShowEvents \union missed
      /\ UNCHANGED <<clock, windows, reminders, reported>>
    BY DEF checkNoShows
<1>2. ASSUME NEW s \in missed
      PROVE  /\ s \in Shifts
             /\ shifts[s] \in Shift
             /\ Stands(shifts[s])
    BY DEF Assigned, isNoShow, Stands, ScheduleInv, ScheduleTypeOK
<1>3. ASSUME NEW s \in missed
      PROVE  /\ shifts'[s] \in Shift
             /\ shifts'[s].volunteer = shifts[s].volunteer
             /\ shifts'[s].start = shifts[s].start
             /\ shifts'[s].end = shifts[s].end
             /\ shifts'[s].status = "missed"
    <2>1. shifts'[s] = [shifts[s] EXCEPT !.status = "missed"]
        BY <1>1, <1>2
    <2>2. "missed" \in ShiftStatus
        BY DEF ShiftStatus
    <2> QED
        BY <2>1, <2>2, <1>2, StatusSet
<1>4. \A s \in Shifts : s \notin missed => shifts'[s] = shifts[s]
    BY <1>1
<1>5. NULL \notin Shift
    BY DEF SchedulingConstants
<1> HIDE DEF missed
<1>6. ScheduleTypeOK'
    <2>1. shifts' \in [Shifts -> Shift \union {NULL}]
        <3>1. \A s \in Shifts : shifts'[s] \in Shift \union {NULL}
            BY <1>3, <1>4 DEF ScheduleInv, ScheduleTypeOK
        <3> QED
            BY <1>1, <3>1
    <2> QED
        BY <1>1, <1>2, <2>1 DEF ScheduleInv, ScheduleTypeOK
<1>7. Covered(shifts', reported')
    <2>1. Covered(shifts, reported')
        BY <1>1 DEF ScheduleInv
    <2>2. \A s \in Shifts : shifts'[s] # NULL =>
              /\ shifts[s] # NULL
              /\ shifts'[s].volunteer = shifts[s].volunteer
              /\ shifts'[s].start = shifts[s].start
              /\ shifts'[s].end = shifts[s].end
              /\ Stands(shifts'[s]) => Stands(shifts[s])
        BY <1>2, <1>3, <1>4, <1>5
    <2> QED
        BY <2>1, <2>2, NothingRevived
<1>8. Settled(shifts', noShowEvents')
    <2> SUFFICES ASSUME NEW s \in noShowEvents'
                 PROVE  shifts'[s] # NULL /\ shifts'[s].status = "missed"
        BY DEF Settled
    <2>1. CASE s \in missed
        BY <2>1, <1>3, <1>5
    <2>2. CASE s \in noShowEvents /\ s \notin missed
        BY <2>2, <1>4 DEF ScheduleInv, ScheduleTypeOK, Settled
    <2> QED
        BY <1>1, <2>1, <2>2
<1> QED
    BY <1>6, <1>7, <1>8 DEF ScheduleInv

-----------------------------------------------------------------------------
LEMMA ScheduleInvariant ==
    ASSUME SchedulingConstants
    PROVE  ScheduleSpec => []ScheduleInv
<1>1. ScheduleInit => ScheduleInv
    BY ScheduleInitInv
<1>2. ScheduleInv /\ [ScheduleNext]_scheduleVars => ScheduleInv'
    <2> SUFFICES ASSUME ScheduleInv, [ScheduleNext]_scheduleVars
                 PROVE  ScheduleInv'
        OBVIOUS
    <2>1. CASE Elsewhere
        BY <2>1, ElsewhereKeeps
    <2>2. ASSUME NEW s \in Shifts, NEW v \in Volunteers, NEW start \in Slot,
                 NEW end \in Slot, NEW leads \in SUBSET LeadTimes,
                 assignShift(s, v, start, end, leads)
          PROVE  ScheduleInv'
        BY <2>2, AssignKeeps
    <2>3. ASSUME NEW s \in Shifts, NEW st \in ShiftStatus,
                 transitionShift(s, st)
          PROVE  ScheduleInv'
        BY <2>3, TransitionKeeps
    <2>4. CASE checkNoShows
        BY <2>4, CheckKeeps
    <2>5. CASE UNCHANGED scheduleVars
        BY <2>5 DEF scheduleVars, ScheduleInv, ScheduleTypeOK, Covered, Settled
    <2> QED
        BY <2>1, <2>2, <2>3, <2>4, <2>5 DEF ScheduleNext, Elsewhere
<1> QED
    BY <1>1, <1>2, PTL DEF ScheduleSpec

(* Whoever assigned a shift was told of every shift of the volunteer it     *)
(* clashes with and still will, and what was found missed stays missed      *)
(* (detectConflicts, isValidShiftTransition, checkNoShows).                 *)
THEOREM ClashesReported ==
    ASSUME SchedulingConstants
    PROVE  ScheduleSpec => []ClashesWereReported
<1>1. ScheduleInv => ClashesWereReported
    BY ScheduleInvSuffices
<1> QED
    BY <1>1, ScheduleInvariant, PTL

-----------------------------------------------------------------------------
(***************************************************************************)
(* Organisation                                                            *)
(***************************************************************************)

(* The trail and what it explains *)

\* What an entry tells stays told when another one follows.
LEMMA RoleStays ==
    ASSUME NEW trail \in Seq(OrgAuditEntry), NEW e \in OrgAuditEntry,
           NEW k \in 0..Len(trail), NEW p, NEW role
    PROVE  RoleBy(Append(trail, e), k, p, role) <=> RoleBy(trail, k, p, role)
<1>1. \A j \in 1..k : Append(trail, e)[j] = trail[j]
  BY AppendProperties
<1> QED
  BY <1>1 DEF RoleBy

\* The role after another entry.
LEMMA RoleMoves ==
    ASSUME NEW trail \in Seq(OrgAuditEntry), NEW e \in OrgAuditEntry,
           NEW p, NEW role,
           IF Settles(e, p) THEN role = Given(e)
           ELSE RoleBy(trail, Len(trail), p, role)
    PROVE  RoleBy(Append(trail, e), Len(trail) + 1, p, role)
<1> DEFINE n == Len(trail)
           longer == Append(trail, e)
<1>1. n \in Nat
  BY LenProperties
<1>2. longer[n + 1] = e /\ \A j \in 1..n : longer[j] = trail[j]
  BY AppendProperties
<1> HIDE DEF longer, n
<1>3. CASE Settles(e, p)
  <2>1. /\ n + 1 \in 1..(n + 1)
        /\ \A i \in 1..(n + 1) : i <= n + 1
    BY <1>1
  <2> QED
    BY <1>2, <1>3, <2>1 DEF RoleBy, longer, n
<1>4. CASE ~Settles(e, p)
  <2>1. \A j \in 1..(n + 1) : Settles(longer[j], p) => j \in 1..n
    BY <1>1, <1>2, <1>4
  <2>2. RoleBy(trail, n, p, role)
    BY <1>4 DEF n
  <2>3. \A j \in 1..n : j \in 1..(n + 1)
    BY <1>1
  <2>4. RoleBy(longer, n + 1, p, role)
    <3>1. CASE \E j \in 1..n : Settles(trail[j], p)
      <4>1. PICK j \in 1..n : /\ Settles(trail[j], p)
                              /\ \A i \in 1..n : Settles(trail[i], p) => i <= j
                              /\ Given(trail[j]) = role
        BY <2>2, <3>1 DEF RoleBy
      <4>2. /\ Settles(longer[j], p) /\ Given(longer[j]) = role
            /\ \A i \in 1..(n + 1) : Settles(longer[i], p) => i <= j
        BY <1>2, <2>1, <4>1
      <4> QED
        BY <2>3, <4>2 DEF RoleBy
    <3>2. CASE ~\E j \in 1..n : Settles(trail[j], p)
      <4>1. role = NULL
        BY <2>2, <3>2 DEF RoleBy
      <4>2. ~\E j \in 1..(n + 1) : Settles(longer[j], p)
        BY <1>2, <2>1, <3>2
      <4> QED
        BY <4>1, <4>2 DEF RoleBy
    <3> QED
      BY <3>1, <3>2
  <2> QED
    BY <2>4 DEF longer, n
<1> QED
  BY <1>3, <1>4

\* A status that the last entry about a service tells is the service's.
LastStatusHolds(services, trail) ==
    \A s \in Services, j \in DOMAIN trail :
        (/\ trail[j].action = "service_status_changed"
         /\ trail[j].target = s
         /\ \A i \in DOMAIN trail : trail[i].target = s => i <= j)
        => trail[j].to = services[s]

\* Entry k was made by one who had the role for it, and knows what was
\* before.
Entitled(trail, k) ==
    /\ \E role \in {"admin", "owner"} :
          RoleBy(trail, k - 1, trail[k].actor, role)
    /\ trail[k].action = "member_role_changed" =>
          RoleBy(trail, k - 1, trail[k].target, trail[k].from)

StatusFollows(trail, j, k) ==
    (/\ j < k
     /\ trail[j].action = "service_status_changed"
     /\ trail[k].action = "service_status_changed"
     /\ \A i \in j..k : trail[i].target = trail[k].target => i \in {j, k}
     /\ trail[j].target = trail[k].target)
    => trail[j].to = trail[k].from

\* The trail of an organisation explains its profile.
Told(profile, trail) ==
    /\ profile \in OrgProfile
    /\ trail \in Seq(OrgAuditEntry)
    /\ trail # <<>>
    /\ \A p \in Staff : RoleBy(trail, Len(trail), p, profile.members[p])
    /\ {p \in Staff : profile.members[p] = "owner"} = {trail[1].actor}
    /\ \A k \in 2..Len(trail) : Entitled(trail, k)
    /\ LastStatusHolds(profile.services, trail)
    /\ \A j, k \in DOMAIN trail : StatusFollows(trail, j, k)

OrganisationInv ==
    \A o \in Orgs : IF orgs[o] = NULL THEN auditTrails[o] = <<>>
                    ELSE Told(orgs[o], auditTrails[o])

\* What an entry keeps, whatever it is about.
LEMMA EntryKeeps ==
    ASSUME NEW profile, NEW trail, Told(profile, trail),
           NEW e \in OrgAuditEntry,
           profile.members[e.actor] \in {"admin", "owner"},
           e.action = "member_role_changed" =>
               e.target \in Staff /\ e.from = profile.members[e.target],
           e.action = "service_status_changed" =>
               e.target \in Services /\ e.from = profile.services[e.target]
    PROVE  /\ Append(trail, e) \in Seq(OrgAuditEntry)
           /\ Append(trail, e) # <<>>
           /\ Append(trail, e)[1] = trail[1]
           /\ \A k \in 2..Len(Append(trail, e)) : Entitled(Append(trail, e), k)
           /\ \A j, k \in DOMAIN Append(trail, e) :
                 StatusFollows(Append(trail, e), j, k)
<1> DEFINE n == Len(trail)
           longer == Append(trail, e)
<1>0. trail \in Seq(OrgAuditEntry) /\ trail # <<>>
  BY DEF Told
<1>1. n \in Nat /\ n >= 1 /\ DOMAIN trail = 1..n
  BY <1>0, LenProperties, EmptySeq
<1>2. /\ longer \in Seq(OrgAuditEntry)
      /\ longer # <<>>
      /\ Len(longer) = n + 1 /\ DOMAIN longer = 1..(n + 1)
      /\ longer[n + 1] = e
      /\ \A j \in 1..n : longer[j] = trail[j]
  BY <1>0, AppendProperties
<1>3. \A k \in 0..n : \A p, role : RoleBy(longer, k, p, role) <=> RoleBy(trail, k, p, role)
  BY <1>0, RoleStays
<1>4. e.actor \in Staff
  BY DEF OrgAuditEntry
<1> HIDE DEF longer, n
<1>5. ASSUME NEW k \in 2..(n + 1)
      PROVE  Entitled(longer, k)
  <2>1. CASE k = n + 1
    <3>0. k - 1 = n /\ n \in 0..n
      BY <1>1, <2>1
    <3>1. RoleBy(longer, n, e.actor, profile.members[e.actor])
      BY <1>3, <1>4, <3>0 DEF Told, n
    <3>2. e.action = "member_role_changed" => RoleBy(longer, n, e.target, e.from)
      BY <1>3, <3>0 DEF Told, n
    <3> QED
      BY <1>2, <2>1, <3>0, <3>1, <3>2 DEF Entitled
  <2>2. CASE k # n + 1
    <3>1. k \in 2..n /\ k \in 1..n /\ k - 1 \in 0..n
      BY <1>1, <2>2
    <3>2. Entitled(trail, k)
      BY <3>1 DEF Told, n
    <3> QED
      BY <1>2, <1>3, <3>1, <3>2 DEF Entitled
  <2> QED
    BY <2>1, <2>2
<1>6. ASSUME NEW j \in 1..(n + 1), NEW k \in 1..(n + 1)
      PROVE  StatusFollows(longer, j, k)
  <2> SUFFICES ASSUME j < k,
                      longer[j].action = "service_status_changed",
                      longer[k].action = "service_status_changed",
                      \A i \in j..k : longer[i].target = longer[k].target => i \in {j, k},
                      longer[j].target = longer[k].target
               PROVE  longer[j].to = longer[k].from
    BY DEF StatusFollows
  <2>0. j \in 1..n /\ longer[j] = trail[j]
    BY <1>1, <1>2
  <2>1. CASE k = n + 1
    <3>1. \A i \in 1..n : trail[i].target = e.target => i <= j
      <4> SUFFICES ASSUME NEW i \in 1..n, trail[i].target = e.target, ~(i <= j)
                   PROVE  FALSE
        OBVIOUS
      <4>1. i \in j..k /\ i # j /\ i # k
        BY <1>1, <2>0, <2>1
      <4> QED
        BY <1>2, <2>1, <4>1
    <3>2. e.target \in Services /\ e.from = profile.services[e.target]
      BY <1>2, <2>1
    <3>3. trail[j].to = profile.services[e.target]
      BY <1>1, <1>2, <2>0, <2>1, <3>1, <3>2 DEF Told, LastStatusHolds
    <3> QED
      BY <1>2, <2>0, <2>1, <3>2, <3>3
  <2>2. CASE k # n + 1
    <3>1. k \in 1..n /\ longer[k] = trail[k]
      BY <1>1, <1>2, <2>2
    <3>2. \A i \in j..k : i \in 1..n /\ longer[i] = trail[i]
      BY <1>1, <1>2, <2>0, <3>1
    <3>3. StatusFollows(trail, j, k)
      BY <1>1, <2>0, <3>1 DEF Told
    <3> QED
      BY <2>0, <3>1, <3>2, <3>3 DEF StatusFollows
  <2> QED
    BY <2>1, <2>2
<1>7. longer[1] = trail[1]
  BY <1>1, <1>2
<1> QED
  BY <1>2, <1>5, <1>6, <1>7 DEF longer

\* An invitation, a removal or a change of a role.
LEMMA MemberChanges ==
    ASSUME NEW profile, NEW trail, Told(profile, trail),
           NEW e \in OrgAuditEntry,
           profile.members[e.actor] \in {"admin", "owner"},
           e.action \in {"member_invited", "member_role_changed", "member_removed"},
           e.target \in Staff, e.to \in OrgRole \union {NULL},
           e.action = "member_role_changed" => e.from = profile.members[e.target],
           e.to # "owner", profile.members[e.target] # "owner"
    PROVE  Told([profile EXCEPT !.members[e.target] = e.to], Append(trail, e))
<1> DEFINE member == e.target
           after == [profile EXCEPT !.members[member] = e.to]
           longer == Append(trail, e)
<1>0. /\ profile \in OrgProfile /\ trail \in Seq(OrgAuditEntry)
      /\ LastStatusHolds(profile.services, trail)
      /\ \A p \in Staff : RoleBy(trail, Len(trail), p, profile.members[p])
      /\ {p \in Staff : profile.members[p] = "owner"} = {trail[1].actor}
  BY DEF Told
<1>1. /\ after \in OrgProfile /\ after.services = profile.services
      /\ \A p \in Staff : after.members[p] = IF p = member THEN e.to
                                             ELSE profile.members[p]
  BY <1>0 DEF OrgProfile
<1>2. /\ longer \in Seq(OrgAuditEntry) /\ longer # <<>> /\ longer[1] = trail[1]
      /\ \A k \in 2..Len(longer) : Entitled(longer, k)
      /\ \A j, k \in DOMAIN longer : StatusFollows(longer, j, k)
  BY EntryKeeps
<1>3. Len(longer) = Len(trail) + 1
  BY <1>0, AppendProperties
<1>4. ASSUME NEW p \in Staff
      PROVE  RoleBy(longer, Len(trail) + 1, p, after.members[p])
  <2>1. Settles(e, p) <=> p = member
    BY DEF Settles
  <2>2. Given(e) = e.to
    BY DEF Given
  <2>3. IF Settles(e, p) THEN after.members[p] = Given(e)
        ELSE RoleBy(trail, Len(trail), p, after.members[p])
    BY <1>0, <1>1, <2>1, <2>2
  <2> QED
    BY <1>0, <2>3, RoleMoves
<1>5. {p \in Staff : after.members[p] = "owner"}
      = {p \in Staff : profile.members[p] = "owner"}
  BY <1>1
<1>6. LastStatusHolds(after.services, longer)
  <2> SUFFICES ASSUME NEW s \in Services, NEW j \in DOMAIN longer,
                      longer[j].action = "service_status_changed",
                      longer[j].target = s,
                      \A i \in DOMAIN longer : longer[i].target = s => i <= j
               PROVE  longer[j].to = after.services[s]
    BY DEF LastStatusHolds
  <2>1. /\ DOMAIN longer = 1..(Len(trail) + 1) /\ DOMAIN trail = 1..Len(trail)
        /\ longer[Len(trail) + 1] = e /\ Len(trail) \in Nat
        /\ \A i \in 1..Len(trail) : longer[i] = trail[i]
    BY <1>0, AppendProperties, LenProperties
  <2>2. j \in DOMAIN trail /\ longer[j] = trail[j]
    BY <2>1
  <2>3. \A i \in DOMAIN trail : trail[i].target = s => i <= j
    BY <2>1
  <2> QED
    BY <1>0, <1>1, <2>2, <2>3 DEF LastStatusHolds
<1> HIDE DEF after, longer
<1>7. Told(after, longer)
  BY <1>0, <1>1, <1>2, <1>3, <1>4, <1>5, <1>6 DEF Told
<1> QED
  BY <1>7 DEF after, longer

\* A listing that is written or whose status is changed.
LEMMA ServiceChanges ==
    ASSUME NEW profile, NEW trail, Told(profile, trail),
           NEW e \in OrgAuditEntry, NEW service \in Services,
           NEW status \in OrgServiceStatus,
           profile.members[e.actor] \in {"admin", "owner"},
           e.action \in {"service_upserted", "service_status_changed"},
           e.target = service,
           e.action = "service_status_changed" =>
               e.from = profile.services[service] /\ e.to = status
    PROVE  Told([profile EXCEPT !.services[service] = status], Append(trail, e))
<1> DEFINE after == [profile EXCEPT !.services[service] = status]
           longer == Append(trail, e)
<1>0. /\ profile \in OrgProfile /\ trail \in Seq(OrgAuditEntry)
      /\ LastStatusHolds(profile.services, trail)
      /\ \A p \in Staff : RoleBy(trail, Len(trail), p, profile.members[p])
      /\ {p \in Staff : profile.members[p] = "owner"} = {trail[1].actor}
  BY DEF Told
<1>1. /\ after \in OrgProfile /\ after.members = profile.members
      /\ \A s \in Services : after.services[s] = IF s = service THEN status
                                                 ELSE profile.services[s]
  BY <1>0 DEF OrgProfile
<1>2. /\ longer \in Seq(OrgAuditEntry) /\ longer # <<>> /\ longer[1] = trail[1]
      /\ \A k \in 2..Len(longer) : Entitled(longer, k)
      /\ \A j, k \in DOMAIN longer : StatusFollows(longer, j, k)
  BY EntryKeeps
<1>3. Len(longer) = Len(trail) + 1
  BY <1>0, AppendProperties
<1>4. ASSUME NEW p \in Staff
      PROVE  RoleBy(longer, Len(trail) + 1, p, after.members[p])
  <2>1. ~Settles(e, p)
    BY DEF Settles
  <2> QED
    BY <1>0, <1>1, <2>1, RoleMoves
<1>6. LastStatusHolds(after.services, longer)
  <2> SUFFICES ASSUME NEW s \in Services, NEW j \in DOMAIN longer,
                      longer[j].action = "service_status_changed",
                      longer[j].target = s,
                      \A i \in DOMAIN longer : longer[i].target = s => i <= j
               PROVE  longer[j].to = after.services[s]
    BY DEF LastStatusHolds
  <2>1. /\ DOMAIN longer = 1..(Len(trail) + 1) /\ DOMAIN trail = 1..Len(trail)
        /\ longer[Len(trail) + 1] = e /\ Len(trail) \in Nat
        /\ \A i \in 1..Len(trail) : longer[i] = trail[i]
    BY <1>0, AppendProperties, LenProperties
  <2>2. CASE s = service
    <3>1. j = Len(trail) + 1
      BY <2>1, <2>2
    <3> QED
      BY <1>1, <2>1, <2>2, <3>1
  <2>3. CASE s # service
    <3>1. j \in DOMAIN trail /\ longer[j] = trail[j]
      BY <2>1, <2>3
    <3>2. \A i \in DOMAIN trail : trail[i].target = s => i <= j
      BY <2>1
    <3> QED
      BY <1>0, <1>1, <2>3, <3>1, <3>2 DEF LastStatusHolds
  <2> QED
    BY <2>2, <2>3
<1> HIDE DEF after, longer
<1>7. Told(after, longer)
  BY <1>0, <1>1, <1>2, <1>3, <1>4, <1>6 DEF Told
<1> QED
  BY <1>7 DEF after, longer

\* The first entry.
LEMMA OwnerIsTold ==
    ASSUME OrganisationConstants, NEW owner \in Staff, NEW e \in OrgAuditEntry,
           e.action = "org_created", e.actor = owner
    PROVE  Told([members |-> [p \in Staff |-> IF p = owner THEN "owner" ELSE NULL],
                 services |-> [s \in Services |-> NULL]],
                Append(<<>>, e))
<1> DEFINE profile == [members |-> [p \in Staff |-> IF p = owner THEN "owner" ELSE NULL],
                       services |-> [s \in Services |-> NULL]]
           trail == Append(<<>>, e)
<1>1. profile \in OrgProfile
  BY DEF OrgProfile, OrgRole
<1>2. <<>> \in Seq(OrgAuditEntry) /\ Len(<<>>) = 0
  OBVIOUS
<1>3. /\ trail \in Seq(OrgAuditEntry) /\ trail # <<>> /\ Len(trail) = 1
      /\ trail[1] = e /\ DOMAIN trail = 1..1
  BY <1>2, AppendProperties
<1>4. ASSUME NEW p \in Staff
      PROVE  RoleBy(trail, 1, p, profile.members[p])
  <2>1. RoleBy(<<>>, 0, p, NULL)
    BY DEF RoleBy
  <2>2. Settles(e, p) <=> p = owner
    BY DEF Settles
  <2>3. Given(e) = "owner"
    BY DEF Given
  <2>4. IF Settles(e, p) THEN profile.members[p] = Given(e)
        ELSE RoleBy(<<>>, Len(<<>>), p, profile.members[p])
    BY <1>2, <2>1, <2>2, <2>3
  <2>5. RoleBy(Append(<<>>, e), Len(<<>>) + 1, p, profile.members[p])
    BY <1>2, <2>4, RoleMoves
  <2> QED
    BY <1>2, <2>5
<1>5. {p \in Staff : profile.members[p] = "owner"} = {owner}
  BY DEF OrganisationConstants, OrgRole
<1>6. LastStatusHolds(profile.services, trail)
  BY <1>3 DEF LastStatusHolds
<1>7. \A k \in 2..Len(trail) : Entitled(trail, k)
  BY <1>3
<1>8. \A j, k \in DOMAIN trail : StatusFollows(trail, j, k)
  BY <1>3 DEF StatusFollows
<1> HIDE DEF profile, trail
<1>9. Told(profile, trail)
  BY <1>1, <1>3, <1>4, <1>5, <1>6, <1>7, <1>8 DEF Told
<1> QED
  BY <1>9 DEF profile, trail

\* Only admins and owners have the role of an admin.
LEMMA RequiredRole ==
    ASSUME OrganisationInv, NEW o \in Orgs, NEW actor \in Staff,
           requireRole(o, actor, "admin")
    PROVE  orgs[o] # NULL /\ orgs[o].members[actor] \in {"admin", "owner"}
<1>1. orgs[o] # NULL /\ orgs[o] \in OrgProfile
  BY DEF OrganisationInv, requireRole, Told
<1>2. orgs[o].members[actor] \in OrgRole
  BY <1>1 DEF OrgProfile, requireRole
<1>3. ORG_ROLE_RANK[orgs[o].members[actor]] >= 2
  BY DEF requireRole, ORG_ROLE_RANK
<1> QED
  BY <1>1, <1>2, <1>3 DEF OrgRole, ORG_ROLE_RANK

OrganisationShape ==
    /\ DOMAIN orgs = Orgs /\ orgs = [o \in Orgs |-> orgs[o]]
    /\ DOMAIN auditTrails = Orgs /\ auditTrails = [o \in Orgs |-> auditTrails[o]]

\* A step that writes one profile and one entry.
LEMMA OneIsTold ==
    ASSUME OrganisationInv, OrganisationShape, NEW o \in Orgs,
           NEW profile, NEW entry, OrganisationConstants,
           orgs' = [orgs EXCEPT ![o] = profile],
           auditTrails' = [auditTrails EXCEPT ![o] = Append(@, entry)],
           Told(profile, Append(auditTrails[o], entry))
    PROVE  OrganisationInv' /\ OrganisationShape'
<1>1. OrganisationShape'
  BY DEF OrganisationShape
<1>2. profile # NULL
  BY DEF Told, OrganisationConstants
<1>3. orgs'[o] = profile /\ auditTrails'[o] = Append(auditTrails[o], entry)
  BY DEF OrganisationShape
<1>4. \A q \in Orgs \ {o} : orgs'[q] = orgs[q] /\ auditTrails'[q] = auditTrails[q]
  BY DEF OrganisationShape
<1>5. ASSUME NEW q \in Orgs
      PROVE  IF orgs'[q] = NULL THEN auditTrails'[q] = <<>>
             ELSE Told(orgs'[q], auditTrails'[q])
  BY <1>2, <1>3, <1>4, <1>5 DEF OrganisationInv
<1> QED
  BY <1>1, <1>5 DEF OrganisationInv

LEMMA OrganisationStep ==
    ASSUME OrganisationConstants, OrganisationInv, OrganisationShape,
           [OrganisationNext]_organisationVars
    PROVE  OrganisationInv' /\ OrganisationShape'
<1>1. CASE UNCHANGED organisationVars
  BY <1>1 DEF organisationVars, OrganisationInv, OrganisationShape
<1>2. ASSUME NEW o \in Orgs, NEW actor \in Staff, createOrg(o, actor)
      PROVE  OrganisationInv' /\ OrganisationShape'
  <2> DEFINE e == [action |-> "org_created", actor |-> actor, target |-> o,
                   from |-> NULL, to |-> NULL]
             profile == [members |-> [p \in Staff |-> IF p = actor THEN "owner" ELSE NULL],
                         services |-> [s \in Services |-> NULL]]
  <2>1. /\ orgs' = [orgs EXCEPT ![o] = profile]
        /\ auditTrails' = [auditTrails EXCEPT ![o] = Append(@, e)]
        /\ auditTrails[o] = <<>>
    BY <1>2 DEF createOrg, appendAudit, OrganisationInv
  <2>2. e \in OrgAuditEntry /\ e.action = "org_created" /\ e.actor = actor
    BY DEF OrgAuditEntry, OrgAuditAction, Detail
  <2> HIDE DEF e
  <2>3. Told(profile, Append(<<>>, e))
    BY <2>2, OwnerIsTold
  <2> HIDE DEF profile
  <2> QED
    BY <2>1, <2>3, OneIsTold
<1>3. ASSUME NEW o \in Orgs, NEW actor \in Staff, NEW member \in Staff,
             NEW role \in OrgRole \union {NULL}, NEW from \in Detail,
             NEW action \in {"member_invited", "member_role_changed", "member_removed"},
             requireRole(o, actor, "admin"),
             role # "owner", orgs[o].members[member] # "owner",
             action = "member_role_changed" => from = orgs[o].members[member],
             orgs' = [orgs EXCEPT ![o].members[member] = role],
             appendAudit(o, action, actor, member, from, role)
      PROVE  OrganisationInv' /\ OrganisationShape'
  <2> DEFINE e == [action |-> action, actor |-> actor, target |-> member,
                   from |-> from, to |-> role]
             profile == [orgs[o] EXCEPT !.members[member] = role]
  <2>1. /\ orgs' = [orgs EXCEPT ![o] = profile]
        /\ auditTrails' = [auditTrails EXCEPT ![o] = Append(@, e)]
    BY <1>3 DEF appendAudit
  <2>2. e \in OrgAuditEntry
    BY <1>3 DEF OrgAuditEntry, OrgAuditAction, Detail
  <2>3. /\ e.action = action /\ e.actor = actor /\ e.target = member
        /\ e.from = from /\ e.to = role
    OBVIOUS
  <2> HIDE DEF e
  <2>4. orgs[o] # NULL /\ orgs[o].members[actor] \in {"admin", "owner"}
    BY <1>3, RequiredRole
  <2>5. Told(orgs[o], auditTrails[o])
    BY <2>4 DEF OrganisationInv
  <2>6. Told([orgs[o] EXCEPT !.members[e.target] = e.to], Append(auditTrails[o], e))
    BY <1>3, <2>2, <2>3, <2>4, <2>5, MemberChanges
  <2>7. Told(profile, Append(auditTrails[o], e))
    BY <2>3, <2>6
  <2> HIDE DEF profile
  <2> QED
    BY <2>1, <2>7, OneIsTold
<1>4. ASSUME NEW o \in Orgs, NEW actor \in Staff, NEW service \in Services,
             NEW status \in OrgServiceStatus, NEW from \in Detail, NEW to \in Detail,
             NEW action \in {"service_upserted", "service_status_changed"},
             requireRole(o, actor, "admin"),
             action = "service_status_changed" =>
                 from = orgs[o].services[service] /\ to = status,
             orgs' = [orgs EXCEPT ![o].services[service] = status],
             appendAudit(o, action, actor, service, from, to)
      PROVE  OrganisationInv' /\ OrganisationShape'
  <2> DEFINE e == [action |-> action, actor |-> actor, target |-> service,
                   from |-> from, to |-> to]
             profile == [orgs[o] EXCEPT !.services[service] = status]
  <2>1. /\ orgs' = [orgs EXCEPT ![o] = profile]
        /\ auditTrails' = [auditTrails EXCEPT ![o] = Append(@, e)]
    BY <1>4 DEF appendAudit
  <2>2. e \in OrgAuditEntry
    BY <1>4 DEF OrgAuditEntry, OrgAuditAction
  <2>3. /\ e.action = action /\ e.actor = actor /\ e.target = service
        /\ e.from = from /\ e.to = to
    OBVIOUS
  <2> HIDE DEF e
  <2>4. orgs[o] # NULL /\ orgs[o].members[actor] \in {"admin", "owner"}
    BY <1>4, RequiredRole
  <2>5. Told(orgs[o], auditTrails[o])
    BY <2>4 DEF OrganisationInv
  <2>6. Told(profile, Append(auditTrails[o], e))
    BY <1>4, <2>2, <2>3, <2>4, <2>5, ServiceChanges
  <2> HIDE DEF profile
  <2> QED
    BY <2>1, <2>6, OneIsTold
<1>5. ASSUME NEW o \in Orgs, NEW actor \in Staff, requireRole(o, actor, "admin")
      PROVE  /\ \A member \in Staff : orgs[o].members[member] \in Detail
             /\ \A service \in Services : orgs[o].services[service] \in Detail
  BY <1>5, RequiredRole DEF OrganisationInv, Told, OrgProfile, Detail
<1>6. NULL \in Detail /\ OrgRole \subseteq Detail /\ OrgServiceStatus \subseteq Detail
      /\ NULL # "owner"
  BY DEF Detail, OrganisationConstants, OrgRole
<1>7. ASSUME NEW o \in Orgs, NEW actor \in Staff, NEW member \in Staff,
             NEW role \in OrgRole, inviteMember(o, actor, member, role)
      PROVE  OrganisationInv' /\ OrganisationShape'
  <2>1. /\ requireRole(o, actor, "admin") /\ role # "owner"
        /\ orgs[o].members[member] = NULL
        /\ orgs' = [orgs EXCEPT ![o].members[member] = role]
        /\ appendAudit(o, "member_invited", actor, member, NULL, role)
    BY <1>7 DEF inviteMember
  <2> QED
    BY <1>3, <1>6, <2>1
<1>8. ASSUME NEW o \in Orgs, NEW actor \in Staff, NEW member \in Staff,
             removeOrgMember(o, actor, member)
      PROVE  OrganisationInv' /\ OrganisationShape'
  <2>1. /\ requireRole(o, actor, "admin")
        /\ orgs[o].members[member] # "owner"
        /\ orgs' = [orgs EXCEPT ![o].members[member] = NULL]
        /\ appendAudit(o, "member_removed", actor, member, NULL, NULL)
    BY <1>8 DEF removeOrgMember, Changeable
  <2> QED
    BY <1>3, <1>6, <2>1
<1>9. ASSUME NEW o \in Orgs, NEW actor \in Staff, NEW member \in Staff,
             NEW role \in OrgRole, updateOrgMemberRole(o, actor, member, role)
      PROVE  OrganisationInv' /\ OrganisationShape'
  <2>1. /\ requireRole(o, actor, "admin") /\ role # "owner"
        /\ orgs[o].members[member] # "owner"
        /\ orgs' = [orgs EXCEPT ![o].members[member] = role]
        /\ appendAudit(o, "member_role_changed", actor, member,
                       orgs[o].members[member], role)
    BY <1>9 DEF updateOrgMemberRole, Changeable
  <2>2. orgs[o].members[member] \in Detail
    BY <1>5, <2>1
  <2> QED
    BY <1>3, <2>1, <2>2
<1>10. ASSUME NEW o \in Orgs, NEW actor \in Staff, NEW service \in Services,
              NEW status \in OrgServiceStatus,
              upsertServiceListing(o, actor, service, status)
       PROVE  OrganisationInv' /\ OrganisationShape'
  <2>1. /\ requireRole(o, actor, "admin")
        /\ orgs' = [orgs EXCEPT ![o].services[service] = status]
        /\ appendAudit(o, "service_upserted", actor, service, NULL, NULL)
    BY <1>10 DEF upsertServiceListing
  <2> QED
    BY <1>4, <1>6, <2>1
<1>11. ASSUME NEW o \in Orgs, NEW actor \in Staff, NEW service \in Services,
              NEW status \in OrgServiceStatus,
              updateServiceStatus(o, actor, service, status)
       PROVE  OrganisationInv' /\ OrganisationShape'
  <2>1. /\ requireRole(o, actor, "admin")
        /\ orgs' = [orgs EXCEPT ![o].services[service] = status]
        /\ appendAudit(o, "service_status_changed", actor, service,
                       orgs[o].services[service], status)
    BY <1>11 DEF updateServiceStatus
  <2>2. orgs[o].services[service] \in Detail /\ status \in Detail
    BY <1>5, <1>6, <2>1
  <2> QED
    BY <1>4, <2>1, <2>2
<1> QED
  BY <1>1, <1>2, <1>7, <1>8, <1>9, <1>10, <1>11 DEF OrganisationNext

LEMMA OrganisationInvariant ==
    ASSUME OrganisationConstants
    PROVE  OrganisationSpec => [](OrganisationInv /\ OrganisationShape)
<1>1. OrganisationInit => OrganisationInv /\ OrganisationShape
  BY DEF OrganisationInit, OrganisationInv, OrganisationShape
<1>2. OrganisationInv /\ OrganisationShape /\ [OrganisationNext]_organisationVars
      => (OrganisationInv /\ OrganisationShape)'
  BY OrganisationStep
<1> QED
  BY <1>1, <1>2, PTL DEF OrganisationSpec

LEMMA OrganisationTyped ==
    ASSUME OrganisationInv, OrganisationShape PROVE OrganisationTypeOK
<1>1. ASSUME NEW o \in Orgs
      PROVE  orgs[o] \in OrgProfile \union {NULL} /\ auditTrails[o] \in Seq(OrgAuditEntry)
  <2>1. CASE orgs[o] = NULL
    <3>1. auditTrails[o] = <<>>
      BY <2>1 DEF OrganisationInv
    <3> QED
      BY <2>1, <3>1
  <2>2. CASE orgs[o] # NULL
    <3>1. Told(orgs[o], auditTrails[o])
      BY <2>2 DEF OrganisationInv
    <3> QED
      BY <3>1 DEF Told
  <2> QED
    BY <2>1, <2>2
<1> QED
  BY <1>1 DEF OrganisationShape, OrganisationTypeOK

(* Whoever is invited, promoted, demoted or removed by whom, and whichever  *)
(* listings are written: the trail of an organisation explains its members, *)
(* the roles of those who acted and the statuses of its services            *)
(* (org-portal-service.ts, requireRole and appendAudit).                    *)
THEOREM TrailExplainsAlways ==
    ASSUME OrganisationConstants
    PROVE  OrganisationSpec => []TrailExplainsOrganisation
<1>1. OrganisationInv => TrailExplainsOrganisation
  <2> SUFFICES ASSUME OrganisationInv, NEW o \in Orgs
               PROVE  /\ orgs[o] # NULL =>
                          /\ \A p \in Staff : RoleBy(auditTrails[o], Len(auditTrails[o]), p, orgs[o].members[p])
                          /\ {p \in Staff : orgs[o].members[p] = "owner"} = {auditTrails[o][1].actor}
                          /\ \A k \in 2..Len(auditTrails[o]) : Entitled(auditTrails[o], k)
                      /\ \A j, k \in DOMAIN auditTrails[o] : StatusFollows(auditTrails[o], j, k)
    BY DEF TrailExplainsOrganisation, TrailExplainsMembers, StatusesFollow,
           Entitled, StatusFollows
  <2>1. CASE orgs[o] = NULL
    BY <2>1 DEF OrganisationInv
  <2>2. CASE orgs[o] # NULL
    BY <2>2 DEF OrganisationInv, Told
  <2> QED
    BY <2>1, <2>2
<1> QED
  BY <1>1, OrganisationInvariant, PTL

-----------------------------------------------------------------------------
(***************************************************************************)
(* ChatRouting                                                             *)
(***************************************************************************)

(* The assistant *)

Input == [author : Participants \union {NULL}, requester : Participants,
          urgency : Urgencies \union {"medium"},
          volunteers : SUBSET Volunteer, resources : SUBSET Resource]

\* A volunteer who is available and near enough has 200 points or more.
LEMMA VolunteerPriority ==
    ASSUME RoutingConstants, NEW v \in Volunteer, NEW urgency,
           v.availability # "unavailable", ~v.tooFar
    PROVE  /\ volunteerPriority(v, urgency) \in Int
           /\ volunteerPriority(v, urgency) >= 200
<1>1. /\ AvailabilityBonus(v.availability) \in {10, 20, 35}
      /\ v.trust \in 0..20 /\ v.checks \in 0..10
  BY DEF Volunteer, Availability, AvailabilityBonus, RoutingConstants
<1> QED
  BY <1>1 DEF volunteerPriority

\* A resource that qualifies has less than 200.
LEMMA ResourcePriority ==
    ASSUME NEW r \in Resource, NEW urgency
    PROVE  IF r.supportsCategory /\ r.currentlyOpen
           THEN /\ resourcePriority(r, urgency) \in Int
                /\ resourcePriority(r, urgency) < 200
           ELSE resourcePriority(r, urgency) = NULL
<1>1. VerificationBonus(r.verificationStatus) \in {25, 10, -20}
  BY DEF Resource, Verification, VerificationBonus
<1> QED
  BY <1>1 DEF resourcePriority, Resource

\* What the assistant answers is a destination, and a candidate that is not
\* skipped is one of those it chooses from.
LEMMA Candidacy ==
    ASSUME RoutingConstants, NEW input \in Input
    PROVE  /\ \A v \in input.volunteers :
                 v.availability # "unavailable" /\ ~v.tooFar =>
                     Candidate("volunteer-pool", volunteerPriority(v, input.urgency))
                         \in RoutingCandidates(input)
           /\ \A r \in input.resources :
                 r.supportsCategory /\ r.currentlyOpen =>
                     Candidate("verified-resource", resourcePriority(r, input.urgency))
                         \in RoutingCandidates(input)
           /\ \A c \in RoutingCandidates(input) :
                 /\ c.kind \in {"post-author", "volunteer-pool", "verified-resource"}
                 /\ c.kind = "verified-resource" =>
                       \E r \in input.resources :
                           /\ c.priority = resourcePriority(r, input.urgency)
                           /\ c.priority # NULL
<1>1. ASSUME NEW v \in input.volunteers,
             v.availability # "unavailable", ~v.tooFar
      PROVE  Candidate("volunteer-pool", volunteerPriority(v, input.urgency))
                 \in RoutingCandidates(input)
  <2>1. v \in Volunteer
    BY DEF Input
  <2>2. volunteerPriority(v, input.urgency) # NULL
    BY <1>1, <2>1, VolunteerPriority DEF RoutingConstants
  <2> QED
    BY <2>2 DEF RoutingCandidates, Candidate
<1>2. ASSUME NEW r \in input.resources, r.supportsCategory, r.currentlyOpen
      PROVE  Candidate("verified-resource", resourcePriority(r, input.urgency))
                 \in RoutingCandidates(input)
  <2>1. r \in Resource
    BY DEF Input
  <2>2. resourcePriority(r, input.urgency) # NULL
    BY <1>2, <2>1, ResourcePriority DEF RoutingConstants
  <2> QED
    BY <2>2 DEF RoutingCandidates, Candidate
<1>3. ASSUME NEW c \in RoutingCandidates(input)
      PROVE  /\ c.kind \in {"post-author", "volunteer-pool", "verified-resource"}
             /\ c.kind = "verified-resource" =>
                   \E r \in input.resources :
                       /\ c.priority = resourcePriority(r, input.urgency)
                       /\ c.priority # NULL
  BY DEF RoutingCandidates, Candidate
<1> QED
  BY <1>1, <1>2, <1>3

\* What it chooses comes last only where nothing better qualifies.
LEMMA ChoiceIsFair ==
    ASSUME RoutingConstants, NEW input \in Input,
           NEW destination \in RoutingChoices(input)
    PROVE  /\ destination \in Destination
           /\ destination = "verified-resource" =>
                 \A v \in input.volunteers :
                     v.availability = "unavailable" \/ v.tooFar
           /\ destination = "manual-fallback" =>
                 /\ \A v \in input.volunteers :
                       v.availability = "unavailable" \/ v.tooFar
                 /\ \A r \in input.resources :
                       ~(r.supportsCategory /\ r.currentlyOpen)
<1>1. CASE RoutingCandidates(input) = {}
  <2>1. destination = "manual-fallback"
    BY <1>1 DEF RoutingChoices
  <2> QED
    BY <1>1, <2>1, Candidacy DEF Destination
<1>2. CASE RoutingCandidates(input) # {}
  <2>1. PICK top \in RoutingCandidates(input) :
            /\ destination = top.kind
            /\ \A c \in RoutingCandidates(input) : c.priority <= top.priority
    BY <1>2 DEF RoutingChoices
  <2>2. destination \in {"post-author", "volunteer-pool", "verified-resource"}
    BY <2>1, Candidacy
  <2>3. ASSUME destination = "verified-resource", NEW v \in input.volunteers,
               v.availability # "unavailable", ~v.tooFar
        PROVE  FALSE
    <3>1. v \in Volunteer
      BY DEF Input
    <3> DEFINE p == volunteerPriority(v, input.urgency)
    <3>2. p \in Int /\ p >= 200
      BY <2>3, <3>1, VolunteerPriority
    <3>3. p <= top.priority
      <4>1. Candidate("volunteer-pool", p) \in RoutingCandidates(input)
        BY <2>3, Candidacy
      <4>2. Candidate("volunteer-pool", p).priority = p
        BY DEF Candidate
      <4> QED
        BY <2>1, <4>1, <4>2
    <3>4. PICK r \in input.resources :
              /\ top.priority = resourcePriority(r, input.urgency)
              /\ top.priority # NULL
      BY <2>1, <2>3, Candidacy
    <3>5. r \in Resource
      BY DEF Input
    <3>6. top.priority \in Int /\ top.priority < 200
      BY <3>4, <3>5, ResourcePriority
    <3> HIDE DEF p
    <3> QED
      BY <3>2, <3>3, <3>6
  <2> QED
    BY <2>2, <2>3 DEF Destination
<1> QED
  BY <1>1, <1>2

-----------------------------------------------------------------------------
(* The conversations *)

\* A conversation lies under the key its participants sort to, and warns when
\* it is not direct.
Filed ==
    \A k \in Key : conversations[k] # NULL =>
        /\ k[2] < k[3]
        /\ {conversations[k].initiatedByDid, conversations[k].recipientDid}
           = {k[2], k[3]}
        /\ conversations[k].fallbackNotice
           <=> conversations[k].transportPath # "atproto-direct"

RoutingInv == RoutingTypeOK /\ Filed /\ ResourcesComeLast

\* What a key is made of.
LEMMA KeySorts ==
    ASSUME RoutingConstants, NEW post \in PostUris, NEW a \in Participants, NEW b \in Participants,
           a # b
    PROVE  /\ conversationKey(post, a, b) \in Key
           /\ conversationKey(post, a, b)[2] < conversationKey(post, a, b)[3]
           /\ {conversationKey(post, a, b)[2], conversationKey(post, a, b)[3]}
              = {a, b}
<1>1. a \in Nat /\ b \in Nat
  BY DEF RoutingConstants
<1>2. CASE a < b
  BY <1>1, <1>2 DEF conversationKey, Sorted, Key
<1>3. CASE b < a
  BY <1>1, <1>3 DEF conversationKey, Sorted, Key
<1> QED
  BY <1>1, <1>2, <1>3

\* A decision about proper input keeps what is said of decisions.
LEMMA DecisionIsFair ==
    ASSUME RoutingConstants, NEW input \in Input, decide(input)
    PROVE  /\ decision'.destination \in Destination
           /\ ResourcesComeLast'
<1>1. PICK destination \in RoutingChoices(input) :
          decision' = [input |-> input, destination |-> destination]
  BY DEF decide
<1>2. decision'.destination = destination /\ decision'.input = input
  BY <1>1
<1> QED
  BY <1>2, ChoiceIsFair DEF ResourcesComeLast

\* An initiation writes one well-formed conversation under its key.
LEMMA Upserted ==
    ASSUME RoutingConstants, RoutingTypeOK, NEW post \in PostUris,
           NEW a \in Participants, NEW b \in Participants, a # b,
           NEW destination \in Destination, NEW capability, NEW when \in 0..MaxTime,
           upsertConversation(conversationKey(post, a, b), a, b, destination,
                              capability, when)
    PROVE  \E key \in Key, c \in Conversation :
              /\ key[2] < key[3] /\ {key[2], key[3]} = {a, b}
              /\ conversations' = [conversations EXCEPT ![key] = c]
              /\ c.initiatedByDid = a /\ c.recipientDid = b
              /\ c.fallbackNotice <=> c.transportPath # "atproto-direct"
              /\ conversations[key] # NULL =>
                    c.createdAt = conversations[key].createdAt
<1> DEFINE key == conversationKey(post, a, b)
           existing == conversations[key]
           path == resolveTransportPath(destination, capability)
           c == [createdAt |-> IF existing = NULL THEN when
                               ELSE existing.createdAt,
                 updatedAt |-> when, initiatedByDid |-> a, recipientDid |-> b,
                 destination |-> destination, transportPath |-> path,
                 fallbackNotice |-> path # "atproto-direct"]
<1>1. /\ key \in Key
      /\ key[2] < key[3] /\ {key[2], key[3]} = {a, b}
  BY KeySorts
<1>2. conversations' = [conversations EXCEPT ![key] = c]
  BY DEF upsertConversation
<1>3. c \in Conversation
  <2>1. existing # NULL => existing \in Conversation
    BY <1>1 DEF RoutingTypeOK
  <2>2. existing # NULL => existing.createdAt \in 0..MaxTime
    BY <2>1 DEF Conversation
  <2>3. path \in Transport
    BY DEF resolveTransportPath, Transport
  <2> HIDE DEF existing, path
  <2> QED
    BY <2>2, <2>3 DEF Conversation
<1>4. /\ c.initiatedByDid = a /\ c.recipientDid = b
      /\ c.fallbackNotice <=> c.transportPath # "atproto-direct"
      /\ conversations[key] # NULL => c.createdAt = conversations[key].createdAt
  OBVIOUS
<1> HIDE DEF key, c
<1> QED
  BY <1>1, <1>2, <1>3, <1>4

\* Every step either opens or renews one conversation or leaves them alone.
LEMMA RoutingStep ==
    ASSUME RoutingConstants, RoutingInv, [RoutingNext]_routingVars
    PROVE  /\ RoutingInv'
           /\ \A k \in Key : conversations[k] # NULL =>
                 /\ conversations'[k] # NULL
                 /\ conversations'[k].createdAt = conversations[k].createdAt
<1>1. CASE UNCHANGED routingVars
  BY <1>1 DEF routingVars, RoutingInv, RoutingTypeOK, Filed, ResourcesComeLast
<1>2. ASSUME NEW author \in Participants \union {NULL}, NEW requester \in Participants,
             NEW urgency \in Urgencies,
             NEW volunteers \in {{}} \union {{v} : v \in Volunteer},
             NEW resources \in {{}} \union {{r} : r \in Resource},
             routeScenario(author, requester, urgency, volunteers, resources)
      PROVE  RoutingInv' /\ UNCHANGED conversations
  <2> DEFINE input == [author |-> author, requester |-> requester,
                       urgency |-> urgency, volunteers |-> volunteers,
                       resources |-> resources]
  <2>1. input \in Input
    <3>1. volunteers \in SUBSET Volunteer /\ resources \in SUBSET Resource
      OBVIOUS
    <3> QED
      BY <3>1 DEF Input
  <2>2. decide(input) /\ UNCHANGED conversations
    BY <1>2 DEF routeScenario
  <2> HIDE DEF input
  <2> QED
    BY <2>1, <2>2, DecisionIsFair DEF RoutingInv, RoutingTypeOK, Filed
<1>3. ASSUME NEW post \in PostUris, NEW from \in Participants, NEW to \in Participants,
             NEW allowInitiation \in BOOLEAN, NEW allowed \in SUBSET Participants,
             NEW explicitFlag \in BOOLEAN \union {NULL}, NEW when \in 0..MaxTime,
             initiate(post, from, to, allowInitiation, allowed, explicitFlag, when)
      PROVE  /\ RoutingInv'
             /\ \A k \in Key : conversations[k] # NULL =>
                   /\ conversations'[k] # NULL
                   /\ conversations'[k].createdAt = conversations[k].createdAt
  <2> DEFINE input == [author |-> to, requester |-> from, urgency |-> "medium",
                       volunteers |-> {}, resources |-> {}]
  <2>1. input \in Input
    BY DEF Input
  <2>2. decide(input)
    BY <1>3 DEF initiate
  <2>3. decision'.destination \in Destination /\ ResourcesComeLast'
    BY <2>1, <2>2, DecisionIsFair
  <2>4. PICK destination \in Destination, capability \in {resolveCapability(to, explicitFlag)} :
            upsertConversation(conversationKey(post, from, to), from, to,
                               destination, capability, when)
    BY <1>3, <2>3 DEF initiate
  <2>5. PICK key \in Key, c \in Conversation :
            /\ key[2] < key[3] /\ {key[2], key[3]} = {from, to}
            /\ conversations' = [conversations EXCEPT ![key] = c]
            /\ c.initiatedByDid = from /\ c.recipientDid = to
            /\ c.fallbackNotice <=> c.transportPath # "atproto-direct"
            /\ conversations[key] # NULL =>
                  c.createdAt = conversations[key].createdAt
    BY <1>3, <2>4, Upserted DEF RoutingInv, initiate
  <2>6. conversations \in [Key -> Conversation \union {NULL}]
    BY DEF RoutingInv, RoutingTypeOK
  <2>7. RoutingTypeOK'
    BY <2>3, <2>5, <2>6 DEF RoutingTypeOK
  <2>8. Filed'
    BY <2>5, <2>6 DEF RoutingInv, Filed
  <2>9. \A k \in Key : conversations[k] # NULL =>
            /\ conversations'[k] # NULL
            /\ conversations'[k].createdAt = conversations[k].createdAt
    BY <2>5, <2>6 DEF RoutingConstants
  <2> QED
    BY <2>3, <2>7, <2>8, <2>9 DEF RoutingInv
<1>4. CASE RoutingNext
  <2>1. CASE \E author \in Participants \union {NULL}, requester \in Participants,
                urgency \in Urgencies,
                volunteers \in {{}} \union {{v} : v \in Volunteer},
                resources \in {{}} \union {{r} : r \in Resource} :
                routeScenario(author, requester, urgency, volunteers, resources)
    <3>1. RoutingInv' /\ UNCHANGED conversations
      BY <1>2, <2>1
    <3> QED
      BY <3>1
  <2>2. CASE \E post \in PostUris, from, to \in Participants, allowInitiation \in BOOLEAN,
                allowed \in SUBSET Participants,
                explicitFlag \in BOOLEAN \union {NULL}, when \in 0..MaxTime :
                initiate(post, from, to, allowInitiation, allowed, explicitFlag, when)
    BY <1>3, <2>2
  <2> QED
    BY <1>4, <2>1, <2>2 DEF RoutingNext
<1> QED
  BY <1>1, <1>4

\* One key for two people, whoever is named first.
LEMMA KeysOnce ==
    ASSUME RoutingConstants, NEW k \in Key, NEW l \in Key,
           k[2] < k[3], l[2] < l[3],
           k[1] = l[1], {k[2], k[3]} = {l[2], l[3]}
    PROVE  k = l
<1>1. PICK p \in PostUris, a \in Participants, b \in Participants : k = <<p, a, b>>
  BY DEF Key
<1>2. PICK q \in PostUris, c \in Participants, d \in Participants : l = <<q, c, d>>
  BY DEF Key
<1>3. a \in Nat /\ b \in Nat /\ c \in Nat /\ d \in Nat
  BY DEF RoutingConstants
<1>4. p = q /\ a < b /\ c < d /\ {a, b} = {c, d}
  BY <1>1, <1>2
<1>5. a = c /\ b = d
  BY <1>3, <1>4
<1> QED
  BY <1>1, <1>2, <1>4, <1>5

LEMMA RoutingInvHolds ==
    ASSUME RoutingConstants
    PROVE  RoutingSpec => []RoutingInv
<1>1. RoutingInit => RoutingInv
  BY DEF RoutingInit, RoutingInv, RoutingTypeOK, Filed, ResourcesComeLast
<1>2. RoutingInv /\ [RoutingNext]_routingVars => RoutingInv'
  BY RoutingStep
<1> QED
  BY <1>1, <1>2, PTL DEF RoutingSpec

\* A resource is the destination only when no volunteer is available, and a
\* manual fallback only when nothing qualifies: with any trust and checkpoint
\* scores, the bonuses of a resource never lift it over a volunteer.
THEOREM ResourcesLast ==
    ASSUME RoutingConstants
    PROVE  RoutingSpec => []ResourcesComeLast
BY RoutingInvHolds, PTL DEF RoutingInv

\* Two people have one conversation about a post, whoever starts it; starting
\* it again keeps it and its time of creation, and it warns exactly when it is
\* not direct.
THEOREM ConversationsStay ==
    ASSUME RoutingConstants
    PROVE  RoutingSpec => ConversationsKept
<1>1. RoutingInv /\ [RoutingNext]_routingVars => [KeepsConversations]_routingVars
  <2> SUFFICES ASSUME RoutingInv, [RoutingNext]_routingVars
               PROVE  KeepsConversations
    OBVIOUS
  <2>1. RoutingInv' /\ \A k \in Key : conversations[k] # NULL =>
                           /\ conversations'[k] # NULL
                           /\ conversations'[k].createdAt = conversations[k].createdAt
    BY RoutingStep
  <2>2. Filed'
    BY <2>1 DEF RoutingInv
  <2>3. \A k, l \in Key :
            /\ conversations'[k] # NULL /\ conversations'[l] # NULL
            /\ k[1] = l[1] /\ {k[2], k[3]} = {l[2], l[3]}
            => k = l
    BY <2>2, KeysOnce DEF Filed
  <2> QED
    BY <2>1, <2>2, <2>3 DEF KeepsConversations, Filed
<1> QED
  BY <1>1, RoutingInvHolds, PTL DEF RoutingSpec, ConversationsKept
-----------------------------------------------------------------------------
(***************************************************************************)
(* ChatSafety                                                              *)
(***************************************************************************)

(* The limits *)

Evaluation == [sender : Senders, topic : Topics, at : Moment, outcome : Outcome]

\* The allowed messages of a sender, and those of them on a topic.
PassedBy(s) == {e \in Evaluation : e.sender = s /\ Allowed(e.outcome)}
PassedOn(s, t) == {e \in PassedBy(s) : e.topic = t}

\* The places of the messages of a kind in a window of time.
Through(judged, kind, from, width) ==
    {k \in 1..Len(judged) :
        judged[k] \in kind /\ judged[k].at \in from..(from + width)}

LEMMA PlacesAreFinite ==
    ASSUME NEW n \in Nat, NEW T \in SUBSET (1..n)
    PROVE  IsFiniteSet(T) /\ Cardinality(T) \in Nat
<1>1. IsFiniteSet(1..n)
  <2>1. 1 \in Int /\ n \in Int
    OBVIOUS
  <2> QED
    BY <2>1, FS_Interval
<1>2. IsFiniteSet(T)
  BY <1>1, FS_Subset
<1> QED
  BY <1>2, FS_CardinalityType

LEMMA OneMoreCounts ==
    ASSUME NEW S, NEW x, IsFiniteSet(S)
    PROVE  /\ IsFiniteSet(S \union {x})
           /\ Cardinality(S) \in Nat /\ Cardinality(S \union {x}) \in Nat
           /\ Cardinality(S \union {x}) <= Cardinality(S) + 1
<1>1. /\ IsFiniteSet(S \union {x})
      /\ Cardinality(S \union {x}) = IF x \in S THEN Cardinality(S)
                                     ELSE Cardinality(S) + 1
  BY FS_AddElement
<1>2. Cardinality(S) \in Nat
  BY FS_CardinalityType
<1> QED
  BY <1>1, <1>2

LEMMA FewerCount ==
    ASSUME NEW S, IsFiniteSet(S), NEW T \in SUBSET S
    PROVE  /\ IsFiniteSet(T) /\ Cardinality(T) \in Nat
           /\ Cardinality(S) \in Nat /\ Cardinality(T) <= Cardinality(S)
<1>1. IsFiniteSet(T) /\ Cardinality(T) <= Cardinality(S)
  BY FS_Subset
<1> QED
  BY <1>1, FS_CardinalityType

\* A window holds at most max messages after one more, when that one found
\* less than max in a window that misses none of the recent ones.
LEMMA LimitKept ==
    ASSUME NEW judged \in Seq(Evaluation), NEW e \in Evaluation,
           NEW kind, NEW from \in Nat, NEW width \in Nat, NEW max \in Nat,
           Cardinality(Through(judged, kind, from, width)) <= max,
           \A k \in 1..Len(judged) : judged[k].at <= e.at,
           e \in kind => \E window : /\ IsFiniteSet(window)
                                     /\ Cardinality(window) < max
                                     /\ \A k \in 1..Len(judged) :
                                           /\ judged[k] \in kind
                                           /\ e.at - judged[k].at <= width
                                           => k \in window
    PROVE  Cardinality(Through(Append(judged, e), kind, from, width)) <= max
<1> DEFINE n == Len(judged)
           more == Append(judged, e)
           new == Through(more, kind, from, width)
<1>1. /\ n \in Nat /\ Len(more) = n + 1 /\ more[n + 1] = e
      /\ \A k \in 1..n : more[k] = judged[k]
  BY AppendProperties, LenProperties
<1>2. e.at \in Nat /\ \A k \in 1..n : judged[k].at \in Nat
  <2>1. \A k \in 1..n : judged[k] \in Evaluation
    BY ElementOfSeq
  <2> QED
    BY <2>1 DEF Evaluation, Moment
<1>3. CASE e \in kind /\ e.at \in from..(from + width)
  <2>1. PICK window : /\ IsFiniteSet(window)
                      /\ Cardinality(window) < max
                      /\ \A k \in 1..n : /\ judged[k] \in kind
                                         /\ e.at - judged[k].at <= width
                                         => k \in window
    BY <1>3
  <2>2. new \in SUBSET (window \union {n + 1})
    <3> SUFFICES ASSUME NEW k \in new, k # n + 1
                 PROVE  k \in window
      OBVIOUS
    <3>1. k \in 1..(n + 1) /\ more[k] \in kind /\ more[k].at \in from..(from + width)
      BY <1>1 DEF Through
    <3>2. k \in 1..n /\ judged[k] \in kind /\ judged[k].at >= from
      BY <1>1, <1>2, <3>1
    <3>3. e.at - judged[k].at <= width
      BY <1>2, <1>3, <3>2
    <3> QED
      BY <2>1, <3>2, <3>3
  <2>3. /\ IsFiniteSet(window \union {n + 1})
        /\ Cardinality(window \union {n + 1}) <= Cardinality(window) + 1
        /\ Cardinality(window) \in Nat
        /\ Cardinality(window \union {n + 1}) \in Nat
    BY <2>1, OneMoreCounts
  <2> HIDE DEF new, more, n
  <2>4. Cardinality(new) <= Cardinality(window \union {n + 1})
        /\ Cardinality(new) \in Nat
    BY <2>2, <2>3, FewerCount
  <2>5. Cardinality(new) <= max
    BY <2>1, <2>3, <2>4
  <2> QED
    BY <2>5 DEF new, more
<1>4. CASE ~(e \in kind /\ e.at \in from..(from + width))
  <2>1. new = Through(judged, kind, from, width)
    <3>1. \A k \in 1..(n + 1) : k = n + 1 \/ k \in 1..n
      BY <1>1
    <3>2. \A k \in 1..n : k \in 1..(n + 1)
      BY <1>1
    <3> QED
      BY <1>1, <1>4, <3>1, <3>2 DEF Through
  <2> QED
    BY <2>1
<1> QED
  BY <1>3, <1>4

(* The windows of incidents *)

AllOf(w) == UNION {w[q] : q \in Senders}

\* One more incident.
LEMMA IncidentAdds ==
    ASSUME NEW n \in Nat, NEW w \in [Senders -> SUBSET (1..n)],
           NEW s \in Senders, NEW added \in SUBSET (w[s] \union {n + 1}),
           NEW w2, w2 = [w EXCEPT ![s] = added]
    PROVE  Cardinality(AllOf(w2))
               <= Cardinality(AllOf(w)) + 1
<1> DEFINE before == AllOf(w)
           after == AllOf(w2)
<1>1. before \in SUBSET (1..n)
  BY DEF AllOf
<1>2. after \in SUBSET (before \union {n + 1})
  BY DEF AllOf
<1> HIDE DEF before, after
<1>3. IsFiniteSet(before) /\ Cardinality(before) \in Nat
  BY <1>1, PlacesAreFinite
<1>4. /\ IsFiniteSet(before \union {n + 1})
      /\ Cardinality(before \union {n + 1}) <= Cardinality(before) + 1
      /\ Cardinality(before \union {n + 1}) \in Nat
  BY <1>3, OneMoreCounts
<1>5. Cardinality(after) <= Cardinality(before \union {n + 1})
      /\ Cardinality(after) \in Nat
  BY <1>2, <1>4, FewerCount
<1>6. Cardinality(after) <= Cardinality(before) + 1
  BY <1>3, <1>4, <1>5
<1> QED
  BY <1>6 DEF before, after

\* The incidents of one sender are used up.
LEMMA IncidentsUsed ==
    ASSUME NEW n \in Nat, NEW w \in [Senders -> SUBSET (1..n)],
           NEW s \in Senders, NEW w2, w2 = [w EXCEPT ![s] = {}],
           \A q \in Senders \ {s} : \A k \in w[q] : k \notin w[s]
    PROVE  /\ Cardinality(AllOf(w2))
                  + Cardinality(w[s])
                = Cardinality(AllOf(w))
           /\ Cardinality(w[s]) \in Nat
           /\ Cardinality(AllOf(w2)) \in Nat
<1> DEFINE before == AllOf(w)
           after == AllOf(w2)
           own == w[s]
<1>1. before \in SUBSET (1..n) /\ own \in SUBSET (1..n) /\ after \in SUBSET (1..n)
  BY DEF AllOf
<1>2. after \union own = before /\ after \intersect own = {}
  BY DEF AllOf
<1> HIDE DEF before, after, own
<1>3. /\ IsFiniteSet(own) /\ Cardinality(own) \in Nat
      /\ IsFiniteSet(after) /\ Cardinality(after) \in Nat
  BY <1>1, PlacesAreFinite
<1>4. Cardinality(after) + Cardinality(own) = Cardinality(before)
  <2>1. Cardinality(after \union own)
            = Cardinality(after) + Cardinality(own) - Cardinality(after \intersect own)
    BY <1>3, FS_Union
  <2>2. Cardinality(after \intersect own) = 0
    BY <1>2, FS_EmptySet
  <2>3. Cardinality(after \union own) = Cardinality(before)
    BY <1>2, Zenon
  <2> QED
    BY <1>3, <2>1, <2>2, <2>3
<1> QED
  BY <1>3, <1>4 DEF before, after, own

LEMMA WindowCounts ==
    ASSUME NEW n \in Nat, NEW w \in [Senders -> SUBSET (1..n)], NEW s \in Senders
    PROVE  /\ IsFiniteSet(w[s]) /\ Cardinality(w[s]) \in Nat
           /\ Cardinality(AllOf(w)) \in Nat
           /\ Cardinality(w[s]) <= Cardinality(AllOf(w))
<1> DEFINE all == AllOf(w)
           own == w[s]
<1>1. all \in SUBSET (1..n) /\ own \in SUBSET all
  BY DEF AllOf
<1> HIDE DEF all, own
<1>2. IsFiniteSet(all) /\ Cardinality(all) \in Nat
  BY <1>1, PlacesAreFinite
<1>3. IsFiniteSet(own) /\ Cardinality(own) \in Nat /\ Cardinality(own) <= Cardinality(all)
  BY <1>1, <1>2, FewerCount
<1> QED
  BY <1>2, <1>3 DEF all, own

(* The invariant *)

\* Every window holds what its width still covers of what belongs in it.
WindowsKept ==
    /\ \A k \in 1..Len(evaluations) : evaluations[k].at <= now
    /\ \A s \in Senders, k \in 1..Len(evaluations) :
          evaluations[k] \in PassedBy(s) /\ now - evaluations[k].at <= Window
          => k \in sendWindows[s]
    /\ \A s \in Senders, t \in Topics, k \in 1..Len(evaluations) :
          evaluations[k] \in PassedOn(s, t)
          /\ now - evaluations[k].at <= DuplicateWindow
          => k \in duplicateWindows[s][t]
    /\ \A s \in Senders : \A k \in incidentWindows[s] : evaluations[k].sender = s

Limits(judged) ==
    \A s \in Senders, from \in Moment :
        /\ Cardinality(Through(judged, PassedBy(s), from, Window)) <= MaxMessages
        /\ \A t \in Topics :
              Cardinality(Through(judged, PassedOn(s, t), from, DuplicateWindow))
              <= MaxDuplicates

\* The incidents in all windows have not made a signal yet.
Signals ==
    /\ moderationSignals + drained =
          metrics.abuseKeywordFlags + metrics.suspiciousSignals + reports
    /\ \A s \in Senders : Cardinality(incidentWindows[s]) < Threshold
    /\ Threshold * metrics.suspiciousSignals
          + Cardinality(AllOf(incidentWindows))
          <= metrics.evaluated - metrics.ok

SafetyInv == SafetyTypeOK /\ WindowsKept /\ Limits(evaluations) /\ Signals

LEMMA SafetyInvSuffices ==
    ASSUME SafetyConstants, SafetyInv
    PROVE  SafetyHolds
<1>1. \A k \in 1..Len(evaluations) : evaluations[k] \in Evaluation
  BY ElementOfSeq DEF SafetyInv, SafetyTypeOK, Evaluation
<1>2. LimitsHold
  <2> SUFFICES ASSUME NEW s \in Senders, NEW from \in Moment
               PROVE  /\ Cardinality({k \in 1..Len(evaluations) :
                            /\ evaluations[k].sender = s
                            /\ Allowed(evaluations[k].outcome)
                            /\ evaluations[k].at \in from..(from + Window)})
                          <= MaxMessages
                      /\ \A t \in Topics :
                            Cardinality({k \in {j \in 1..Len(evaluations) :
                                 /\ evaluations[j].sender = s
                                 /\ Allowed(evaluations[j].outcome)
                                 /\ evaluations[j].at \in from..(from + DuplicateWindow)} :
                               evaluations[k].topic = t}) <= MaxDuplicates
    BY DEF LimitsHold
  <2>1. {k \in 1..Len(evaluations) :
            /\ evaluations[k].sender = s
            /\ Allowed(evaluations[k].outcome)
            /\ evaluations[k].at \in from..(from + Window)}
        = Through(evaluations, PassedBy(s), from, Window)
    BY <1>1 DEF Through, PassedBy
  <2>2. \A t \in Topics :
          {k \in {j \in 1..Len(evaluations) :
              /\ evaluations[j].sender = s
              /\ Allowed(evaluations[j].outcome)
              /\ evaluations[j].at \in from..(from + DuplicateWindow)} :
            evaluations[k].topic = t}
          = Through(evaluations, PassedOn(s, t), from, DuplicateWindow)
    BY <1>1 DEF Through, PassedBy, PassedOn
  <2> QED
    BY <2>1, <2>2 DEF SafetyInv, Limits
<1>3. SignalsAddUp
  <2> SUFFICES ASSUME NEW s \in Senders
               PROVE  Threshold * metrics.suspiciousSignals
                          + Cardinality(incidentWindows[s])
                      <= metrics.evaluated - metrics.ok
    BY DEF SafetyInv, Signals, SignalsAddUp
  <2>1. /\ Cardinality(incidentWindows[s])
            <= Cardinality(AllOf(incidentWindows))
        /\ Cardinality(incidentWindows[s]) \in Nat
        /\ Cardinality(AllOf(incidentWindows)) \in Nat
    <3>1. /\ Len(evaluations) \in Nat
          /\ incidentWindows \in [Senders -> SUBSET (1..Len(evaluations))]
      BY LenProperties DEF SafetyInv, SafetyTypeOK
    <3> QED
      BY <3>1, WindowCounts
  <2>2. /\ Threshold * metrics.suspiciousSignals \in Nat
        /\ metrics.evaluated - metrics.ok \in Int
    BY DEF SafetyInv, SafetyTypeOK, SafetyConstants, Outcome
  <2> QED
    BY <2>1, <2>2 DEF SafetyInv, Signals
<1> QED
  BY <1>2, <1>3 DEF SafetyHolds

LEMMA SafetyInitially ==
    ASSUME SafetyConstants, SafetyInit
    PROVE  SafetyInv
<1>1. Len(evaluations) = 0 /\ 1..0 = {}
  BY DEF SafetyInit
<1>2. SafetyTypeOK
  <2>1. <<>> \in Seq([sender : Senders, topic : Topics, at : Moment, outcome : Outcome])
    OBVIOUS
  <2>2. 0 \in Moment
    BY DEF Moment, SafetyConstants
  <2> QED
    BY <2>1, <2>2 DEF SafetyInit, SafetyTypeOK
<1>3. WindowsKept
  BY <1>1 DEF WindowsKept, SafetyInit
<1>4. Limits(evaluations)
  <2>1. \A kind, from, width : Through(evaluations, kind, from, width) = {}
    BY <1>1 DEF Through
  <2> QED
    BY <2>1, FS_EmptySet DEF Limits, SafetyConstants
<1>5. Signals
  <2>1. AllOf(incidentWindows) = {}
    BY DEF SafetyInit, AllOf
  <2>2. \A s \in Senders : incidentWindows[s] = {}
    BY DEF SafetyInit
  <2>3. /\ moderationSignals = 0 /\ drained = 0 /\ reports = 0
        /\ metrics.abuseKeywordFlags = 0 /\ metrics.suspiciousSignals = 0
        /\ metrics.evaluated = 0 /\ metrics.ok = 0
    BY DEF SafetyInit, Outcome
  <2>4. Threshold \in Nat /\ Threshold > 0 /\ Threshold * 0 = 0
    BY DEF SafetyConstants
  <2>5. /\ Cardinality(AllOf(incidentWindows)) = 0
        /\ \A s \in Senders : Cardinality(incidentWindows[s]) = 0
    BY <2>1, <2>2, FS_EmptySet
  <2> QED
    BY <2>3, <2>4, <2>5 DEF Signals
<1> QED
  BY <1>2, <1>3, <1>4, <1>5 DEF SafetyInv

(* A message *)

\* What is counted in the windows is finite, and below the limits when the
\* message is allowed.
LEMMA OutcomeTold ==
    ASSUME SafetyConstants, SafetyInv,
           NEW s \in Senders, NEW r \in Senders, NEW t \in Topics
    PROVE  /\ OutcomeOf(s, r, t) \in Outcome
           /\ IsFiniteSet(Duplicates(s, t)) /\ IsFiniteSet(Sends(s))
           /\ Duplicates(s, t) \subseteq duplicateWindows[s][t]
           /\ Sends(s) \subseteq sendWindows[s]
           /\ Allowed(OutcomeOf(s, r, t)) =>
                 /\ Cardinality(Duplicates(s, t)) < MaxDuplicates
                 /\ Cardinality(Sends(s)) < MaxMessages
<1>1. Len(evaluations) \in Nat
  BY LenProperties DEF SafetyInv, SafetyTypeOK
<1>2. /\ Duplicates(s, t) \in SUBSET (1..Len(evaluations))
      /\ Duplicates(s, t) \subseteq duplicateWindows[s][t]
      /\ Sends(s) \in SUBSET (1..Len(evaluations))
      /\ Sends(s) \subseteq sendWindows[s]
  BY DEF Duplicates, Sends, Recent, SafetyInv, SafetyTypeOK
<1>3. /\ IsFiniteSet(Duplicates(s, t)) /\ Cardinality(Duplicates(s, t)) \in Nat
      /\ IsFiniteSet(Sends(s)) /\ Cardinality(Sends(s)) \in Nat
  BY <1>1, <1>2, PlacesAreFinite
<1>4. OutcomeOf(s, r, t) \in Outcome
  BY DEF OutcomeOf, Outcome
<1>5. Allowed(OutcomeOf(s, r, t)) =>
         /\ ~(Cardinality(Duplicates(s, t)) >= MaxDuplicates)
         /\ ~(Cardinality(Sends(s)) >= MaxMessages)
  BY DEF OutcomeOf, Allowed
<1>6. MaxDuplicates \in Nat /\ MaxMessages \in Nat
  BY DEF SafetyConstants
<1> QED
  BY <1>2, <1>3, <1>4, <1>5, <1>6

\* The counters and windows after a message with its outcome.
Tallied(outcome, suspicious) ==
    metrics' = [m \in DOMAIN metrics |->
        IF m \in {"evaluated", outcome}
                  \union (IF suspicious THEN {"suspiciousSignals"} ELSE {})
        THEN metrics[m] + 1 ELSE metrics[m]]

LEMMA CountsMove ==
    ASSUME metrics \in [Outcome \union {"evaluated", "suspiciousSignals"} -> Nat],
           NEW outcome \in Outcome, NEW suspicious \in BOOLEAN,
           Tallied(outcome, suspicious)
    PROVE  /\ metrics' \in [Outcome \union {"evaluated", "suspiciousSignals"} -> Nat]
           /\ metrics'.evaluated = metrics.evaluated + 1
           /\ metrics'.suspiciousSignals = metrics.suspiciousSignals
                                           + (IF suspicious THEN 1 ELSE 0)
           /\ metrics'.ok = metrics.ok + (IF outcome = "ok" THEN 1 ELSE 0)
           /\ metrics'.abuseKeywordFlags = metrics.abuseKeywordFlags
                 + (IF outcome = "abuseKeywordFlags" THEN 1 ELSE 0)
<1> DEFINE Counter == Outcome \union {"evaluated", "suspiciousSignals"}
<1>1. /\ "evaluated" \in Counter /\ "suspiciousSignals" \in Counter
      /\ "ok" \in Counter /\ "abuseKeywordFlags" \in Counter
      /\ outcome # "evaluated" /\ outcome # "suspiciousSignals"
  BY DEF Outcome
<1> HIDE DEF Counter
<1>2. metrics \in [Counter -> Nat]
  BY DEF Counter
<1>3. CASE suspicious
  <2>1. metrics' = [m \in Counter |->
            IF m \in {"evaluated", outcome, "suspiciousSignals"}
            THEN metrics[m] + 1 ELSE metrics[m]]
    BY <1>2, <1>3 DEF Tallied
  <2> QED
    BY <1>1, <1>2, <1>3, <2>1 DEF Counter
<1>4. CASE ~suspicious
  <2>1. metrics' = [m \in Counter |->
            IF m \in {"evaluated", outcome} THEN metrics[m] + 1 ELSE metrics[m]]
    BY <1>2, <1>4 DEF Tallied
  <2> QED
    BY <1>1, <1>2, <1>4, <2>1 DEF Counter
<1> QED
  BY <1>3, <1>4

LEMMA MessageStep ==
    ASSUME SafetyConstants, SafetyInv,
           NEW s \in Senders, NEW r \in Senders, NEW t \in Topics,
           evaluateOutboundMessage(s, r, t)
    PROVE  SafetyInv'
<1> DEFINE outcome == OutcomeOf(s, r, t)
           suspicious == outcome # "ok" /\ Cardinality(Incidents(s)) >= Threshold
           e == [sender |-> s, topic |-> t, at |-> now, outcome |-> outcome]
           n == Len(evaluations)
           sends == Sends(s)
           duplicates == Duplicates(s, t)
           incidents == Incidents(s)
           dup == duplicateWindows'
<1>1. /\ Tallied(outcome, suspicious)
      /\ evaluations' = Append(evaluations, e)
      /\ sendWindows' = IF outcome \in {"blockedByRelationship", "duplicateBlocked"}
                        THEN sendWindows
                        ELSE [sendWindows EXCEPT ![s] =
                              IF Allowed(outcome) THEN sends \union {n + 1} ELSE sends]
      /\ duplicateWindows' =
             IF outcome = "blockedByRelationship" THEN duplicateWindows
             ELSE [duplicateWindows EXCEPT ![s][t] =
                   IF outcome = "duplicateBlocked" THEN duplicates
                   ELSE duplicates \union {n + 1}]
      /\ incidentWindows' = IF outcome = "ok" THEN incidentWindows
                            ELSE [incidentWindows EXCEPT ![s] =
                                  IF suspicious THEN {} ELSE incidents]
      /\ moderationSignals' = moderationSignals
             + (IF outcome = "abuseKeywordFlags" THEN 1 ELSE 0)
             + (IF suspicious THEN 1 ELSE 0)
      /\ UNCHANGED <<now, blockedParticipants, reports, drained>>
  BY DEF evaluateOutboundMessage, Tallied, WindowAfter, Place
<1>2. /\ outcome \in Outcome /\ suspicious \in BOOLEAN
      /\ sends \subseteq sendWindows[s] /\ duplicates \subseteq duplicateWindows[s][t]
      /\ IsFiniteSet(sends) /\ IsFiniteSet(duplicates)
      /\ Allowed(outcome) => /\ Cardinality(duplicates) < MaxDuplicates
                             /\ Cardinality(sends) < MaxMessages
  BY OutcomeTold
<1>3. /\ now \in Moment /\ now \in Nat
      /\ evaluations \in Seq(Evaluation)
      /\ sendWindows \in [Senders -> SUBSET (1..n)]
      /\ duplicateWindows \in [Senders -> [Topics -> SUBSET (1..n)]]
      /\ incidentWindows \in [Senders -> SUBSET (1..n)]
      /\ metrics \in [Outcome \union {"evaluated", "suspiciousSignals"} -> Nat]
      /\ moderationSignals \in Nat /\ drained \in Nat /\ reports \in Nat
  BY DEF SafetyInv, SafetyTypeOK, Evaluation, Moment
<1>4. n \in Nat /\ \A k \in 1..n : evaluations[k] \in Evaluation
  BY <1>3, LenProperties, ElementOfSeq
<1>5. e \in Evaluation /\ e.sender = s /\ e.topic = t /\ e.at = now
      /\ e.outcome = outcome
  BY <1>2, <1>3 DEF Evaluation
<1>6. incidents \subseteq incidentWindows[s] \union {n + 1} /\ n + 1 \in incidents
      /\ incidents \ {n + 1} \subseteq incidentWindows[s]
  BY DEF Incidents, Recent, Place
<1>7. suspicious <=> outcome # "ok" /\ Cardinality(incidents) >= Threshold
  OBVIOUS
<1>8. /\ \A k \in sendWindows[s] : now - evaluations[k].at <= Window => k \in sends
      /\ \A k \in duplicateWindows[s][t] :
            now - evaluations[k].at <= DuplicateWindow => k \in duplicates
  BY DEF Sends, Duplicates, Recent
<1>9. /\ Len(evaluations') = n + 1 /\ evaluations'[n + 1] = e
      /\ evaluations' \in Seq(Evaluation)
      /\ \A k \in 1..n : evaluations'[k] = evaluations[k]
  BY <1>1, <1>3, <1>5, AppendProperties
<1> HIDE DEF outcome, suspicious, e, n, sends, duplicates, incidents
<1>10. /\ \A k \in 1..(n + 1) : k \in 1..n \/ k = n + 1
       /\ n + 1 \in 1..(n + 1) /\ \A k \in 1..n : k \in 1..(n + 1)
       /\ \A T : T \in SUBSET (1..n) => T \in SUBSET (1..(n + 1))
                                       /\ T \union {n + 1} \in SUBSET (1..(n + 1))
  BY <1>4
<1>11. SafetyTypeOK'
  <2>1. sendWindows' \in [Senders -> SUBSET (1..(n + 1))]
    BY <1>1, <1>2, <1>3, <1>10
  <2>2. duplicateWindows' \in [Senders -> [Topics -> SUBSET (1..(n + 1))]]
    <3>1. duplicateWindows \in [Senders -> [Topics -> SUBSET (1..(n + 1))]]
      BY <1>3, <1>10
    <3>2. duplicates \in SUBSET (1..n)
      BY <1>2, <1>3
    <3>3. /\ duplicates \in SUBSET (1..(n + 1))
          /\ duplicates \union {n + 1} \in SUBSET (1..(n + 1))
      BY <1>10, <3>2
    <3> QED
      BY <1>1, <3>1, <3>3
  <2>3. incidentWindows' \in [Senders -> SUBSET (1..(n + 1))]
    BY <1>1, <1>3, <1>6, <1>10
  <2>4. metrics' \in [Outcome \union {"evaluated", "suspiciousSignals"} -> Nat]
    BY <1>1, <1>2, <1>3, CountsMove
  <2>5. moderationSignals' \in Nat
    BY <1>1, <1>3
  <2> QED
    BY <1>1, <1>3, <1>9, <2>1, <2>2, <2>3, <2>4, <2>5
       DEF SafetyInv, SafetyTypeOK, Evaluation
<1>12. WindowsKept'
  <2>1. \A k \in 1..(n + 1) : evaluations'[k].at <= now'
    BY <1>1, <1>3, <1>4, <1>5, <1>9, <1>10 DEF SafetyInv, WindowsKept, n
  <2>2. ASSUME NEW q \in Senders, NEW k \in 1..(n + 1),
               evaluations'[k] \in PassedBy(q), now' - evaluations'[k].at <= Window
        PROVE  k \in sendWindows'[q]
    <3>1. CASE k = n + 1
      <4>1. q = s /\ Allowed(outcome)
        BY <1>5, <1>9, <2>2, <3>1 DEF PassedBy
      <4> QED
        BY <1>1, <1>3, <3>1, <4>1 DEF Allowed
    <3>2. CASE k \in 1..n
      <4>1. k \in sendWindows[q]
        BY <1>1, <1>9, <2>2, <3>2 DEF SafetyInv, WindowsKept, n
      <4>2. q = s => k \in sends
        BY <1>1, <1>8, <1>9, <2>2, <3>2, <4>1
      <4> QED
        BY <1>1, <1>3, <4>1, <4>2
    <3> QED
      BY <1>10, <3>1, <3>2
  <2>3. ASSUME NEW q \in Senders, NEW u \in Topics, NEW k \in 1..(n + 1),
               evaluations'[k] \in PassedOn(q, u),
               now' - evaluations'[k].at <= DuplicateWindow
        PROVE  k \in dup[q][u]
    <3>0. \A v \in Senders, w \in Topics :
            \/ v = s /\ w = t
            \/ dup[v][w] = duplicateWindows[v][w]
      BY <1>1, <1>3
    <3>1. CASE k = n + 1
      <4>1. q = s /\ u = t /\ Allowed(outcome)
        BY <1>5, <1>9, <2>3, <3>1 DEF PassedBy, PassedOn
      <4> QED
        BY <1>1, <1>3, <3>1, <4>1 DEF Allowed
    <3>2. CASE k \in 1..n
      <4>1. k \in duplicateWindows[q][u]
        BY <1>1, <1>9, <2>3, <3>2 DEF SafetyInv, WindowsKept, n
      <4>2. CASE q = s /\ u = t
        <5>1. k \in duplicates
          BY <1>1, <1>8, <1>9, <2>3, <3>2, <4>1, <4>2
        <5> QED
          BY <1>1, <1>3, <4>1, <4>2, <5>1
      <4>3. CASE ~(q = s /\ u = t)
        BY <3>0, <4>1, <4>3
      <4> QED
        BY <4>2, <4>3
    <3> QED
      BY <1>10, <3>1, <3>2
  <2>4. ASSUME NEW q \in Senders, NEW k \in incidentWindows'[q]
        PROVE  evaluations'[k].sender = q
    <3>1. k \in incidentWindows[q] \/ (q = s /\ k = n + 1)
      BY <1>1, <1>3, <1>6, <2>4
    <3>2. CASE k \in incidentWindows[q]
      <4>1. k \in 1..n
        BY <1>3, <3>2
      <4> QED
        BY <1>9, <3>2, <4>1 DEF SafetyInv, WindowsKept
    <3>3. CASE q = s /\ k = n + 1
      BY <1>5, <1>9, <3>3
    <3> QED
      BY <3>1, <3>2, <3>3
  <2> QED
    BY <1>9, <2>1, <2>2, <2>3, <2>4 DEF WindowsKept
<1>13. Limits(evaluations)'
  <2>1. ASSUME NEW q \in Senders, NEW from \in Moment
        PROVE  Cardinality(Through(evaluations', PassedBy(q), from, Window))
                   <= MaxMessages
    <3>1. e \in PassedBy(q) =>
            \E window : /\ IsFiniteSet(window)
                        /\ Cardinality(window) < MaxMessages
                        /\ \A k \in 1..n : /\ evaluations[k] \in PassedBy(q)
                                           /\ e.at - evaluations[k].at <= Window
                                           => k \in window
      <4> SUFFICES ASSUME e \in PassedBy(q)
                   PROVE  /\ IsFiniteSet(sends) /\ Cardinality(sends) < MaxMessages
                          /\ \A k \in 1..n : /\ evaluations[k] \in PassedBy(q)
                                             /\ e.at - evaluations[k].at <= Window
                                             => k \in sends
        OBVIOUS
      <4>1. q = s /\ Allowed(outcome)
        BY <1>5 DEF PassedBy
      <4> QED
        BY <1>2, <1>5, <1>8, <4>1 DEF SafetyInv, WindowsKept, n
    <3>2. /\ from \in Nat /\ Window \in Nat /\ MaxMessages \in Nat
          /\ Cardinality(Through(evaluations, PassedBy(q), from, Window)) <= MaxMessages
          /\ \A k \in 1..n : evaluations[k].at <= e.at
      BY <1>5 DEF SafetyInv, WindowsKept, Limits, SafetyConstants, Moment, n
    <3> QED
      BY <1>1, <1>3, <1>5, <3>1, <3>2, LimitKept DEF n
  <2>2. ASSUME NEW q \in Senders, NEW from \in Moment, NEW u \in Topics
        PROVE  Cardinality(Through(evaluations', PassedOn(q, u), from, DuplicateWindow))
                   <= MaxDuplicates
    <3>1. e \in PassedOn(q, u) =>
            \E window : /\ IsFiniteSet(window)
                        /\ Cardinality(window) < MaxDuplicates
                        /\ \A k \in 1..n : /\ evaluations[k] \in PassedOn(q, u)
                                           /\ e.at - evaluations[k].at <= DuplicateWindow
                                           => k \in window
      <4> SUFFICES ASSUME e \in PassedOn(q, u)
                   PROVE  /\ IsFiniteSet(duplicates)
                          /\ Cardinality(duplicates) < MaxDuplicates
                          /\ \A k \in 1..n : /\ evaluations[k] \in PassedOn(q, u)
                                             /\ e.at - evaluations[k].at <= DuplicateWindow
                                             => k \in duplicates
        OBVIOUS
      <4>1. q = s /\ u = t /\ Allowed(outcome)
        BY <1>5 DEF PassedBy, PassedOn
      <4> QED
        BY <1>2, <1>5, <1>8, <4>1 DEF SafetyInv, WindowsKept, n
    <3>2. /\ from \in Nat /\ DuplicateWindow \in Nat /\ MaxDuplicates \in Nat
          /\ Cardinality(Through(evaluations, PassedOn(q, u), from, DuplicateWindow))
                <= MaxDuplicates
          /\ \A k \in 1..n : evaluations[k].at <= e.at
      BY <1>5 DEF SafetyInv, WindowsKept, Limits, SafetyConstants, Moment, n
    <3> QED
      BY <1>1, <1>3, <1>5, <3>1, <3>2, LimitKept DEF n
  <2> QED
    BY <2>1, <2>2 DEF Limits
<1>14. Signals'
  <2> DEFINE all == Cardinality(AllOf(incidentWindows))
             after == Cardinality(AllOf(incidentWindows'))
             suspects == metrics.suspiciousSignals
             flags == metrics.abuseKeywordFlags
  <2>0. /\ \A q \in Senders : Cardinality(incidentWindows[q]) < Threshold
        /\ Threshold * suspects + all <= metrics.evaluated - metrics.ok
        /\ moderationSignals + drained =
              flags + suspects + reports
    BY DEF SafetyInv, Signals
  <2>1. /\ metrics'.evaluated = metrics.evaluated + 1
        /\ metrics'.suspiciousSignals = suspects + (IF suspicious THEN 1 ELSE 0)
        /\ metrics'.ok = metrics.ok + (IF outcome = "ok" THEN 1 ELSE 0)
        /\ metrics'.abuseKeywordFlags = flags
              + (IF outcome = "abuseKeywordFlags" THEN 1 ELSE 0)
    BY <1>1, <1>2, <1>3, CountsMove
  <2>2. /\ metrics.evaluated \in Nat /\ metrics.ok \in Nat /\ suspects \in Nat
        /\ flags \in Nat
        /\ Threshold \in Nat /\ Threshold * suspects \in Nat
        /\ Threshold * (suspects + 1) = Threshold * suspects + Threshold
    BY <1>3 DEF Outcome, SafetyConstants
  <2>3. all \in Nat
    BY <1>3, <1>4, WindowCounts
  <2> HIDE DEF all, after, suspects, flags
  <2>4. CASE outcome = "ok"
    <3>1. incidentWindows' = incidentWindows /\ ~suspicious
      BY <1>1, <1>7, <2>4
    <3>2. after = all
      BY <3>1 DEF after, all
    <3>3. \A q \in Senders : Cardinality(incidentWindows'[q]) < Threshold
      BY <2>0, <3>1
    <3>4. metrics'.suspiciousSignals = suspects
      BY <2>1, <2>2, <3>1
    <3>5. Threshold * metrics'.suspiciousSignals + after
          <= metrics'.evaluated - metrics'.ok
      BY <2>0, <2>1, <2>2, <2>3, <2>4, <3>2, <3>4
    <3>6. moderationSignals' + drained' = metrics'.abuseKeywordFlags
              + metrics'.suspiciousSignals + reports'
      BY <1>1, <1>3, <2>0, <2>1, <2>2, <2>4, <3>1, <3>4
    <3> QED
      BY <3>3, <3>5, <3>6 DEF Signals, after
  <2>5. CASE outcome # "ok" /\ ~suspicious
    <3>1. incidentWindows' = [incidentWindows EXCEPT ![s] = incidents]
      BY <1>1, <2>5
    <3>2. incidents \in SUBSET (1..(n + 1)) /\ n + 1 \in Nat
      BY <1>3, <1>4, <1>6, <1>10
    <3>3. IsFiniteSet(incidents) /\ Cardinality(incidents) \in Nat
      BY <3>2, PlacesAreFinite
    <3>4. Cardinality(incidents) < Threshold
      BY <1>7, <2>2, <2>5, <3>3
    <3>5. \A q \in Senders : Cardinality(incidentWindows'[q]) < Threshold
      BY <1>3, <2>0, <3>1, <3>4
    <3>6. after <= all + 1
      <4>0. incidents \in SUBSET (incidentWindows[s] \union {n + 1})
        BY <1>6
      <4>1. Cardinality(AllOf(incidentWindows'))
            <= Cardinality(AllOf(incidentWindows)) + 1
        BY <1>3, <1>4, <3>1, <4>0, IncidentAdds
      <4> QED
        BY <3>1, <4>1 DEF after, all
    <3>7. after \in Nat
      <4>1. incidentWindows' \in [Senders -> SUBSET (1..(n + 1))]
        BY <1>3, <1>10, <3>1, <3>2
      <4> QED
        BY <3>2, <4>1, WindowCounts DEF after
    <3>8. metrics'.suspiciousSignals = suspects
      BY <2>1, <2>2, <2>5
    <3>9. Threshold * metrics'.suspiciousSignals + after
          <= metrics'.evaluated - metrics'.ok
      BY <2>0, <2>1, <2>2, <2>3, <2>5, <3>6, <3>7, <3>8
    <3>10. moderationSignals' + drained' = metrics'.abuseKeywordFlags
              + metrics'.suspiciousSignals + reports'
      <4>1. moderationSignals' = moderationSignals
              + (IF outcome = "abuseKeywordFlags" THEN 1 ELSE 0)
        BY <1>1, <1>3, <2>5
      <4>2. drained' = drained /\ reports' = reports
        BY <1>1
      <4>3. /\ moderationSignals + drained =
                  flags + suspects + reports
            /\ moderationSignals \in Nat /\ drained \in Nat /\ reports \in Nat
            /\ suspects \in Nat /\ flags \in Nat
        BY <1>3, <2>0, <2>2
      <4>4. CASE outcome = "abuseKeywordFlags"
        <5>1. metrics'.abuseKeywordFlags = flags + 1
          BY <2>1, <4>4
        <5> QED
          BY <3>8, <4>1, <4>2, <4>3, <4>4, <5>1
      <4>5. CASE outcome # "abuseKeywordFlags"
        <5>1. metrics'.abuseKeywordFlags = flags
          BY <2>1, <4>3, <4>5
        <5> QED
          BY <3>8, <4>1, <4>2, <4>3, <4>5, <5>1
      <4> QED
        BY <4>4, <4>5
    <3> QED
      BY <3>5, <3>9, <3>10 DEF Signals, after
  <2>6. CASE outcome # "ok" /\ suspicious
    <3>1. incidentWindows' = [incidentWindows EXCEPT ![s] = {}]
      BY <1>1, <2>6
    <3>2. /\ after + Cardinality(incidentWindows[s]) = all
          /\ Cardinality(incidentWindows[s]) \in Nat /\ after \in Nat
      <4>1. \A q \in Senders \ {s} : \A k \in incidentWindows[q] :
               k \notin incidentWindows[s]
        BY DEF SafetyInv, WindowsKept
      <4>2. /\ Cardinality(AllOf(incidentWindows'))
                  + Cardinality(incidentWindows[s])
                = Cardinality(AllOf(incidentWindows))
            /\ Cardinality(incidentWindows[s]) \in Nat
            /\ Cardinality(AllOf(incidentWindows')) \in Nat
        BY <1>3, <1>4, <3>1, <4>1, IncidentsUsed
      <4> QED
        BY <3>1, <4>2 DEF after, all
    <3>3. Cardinality(incidents) >= Threshold
          /\ Cardinality(incidents) <= Cardinality(incidentWindows[s]) + 1
          /\ Cardinality(incidents) \in Nat
      <4>1. IsFiniteSet(incidentWindows[s])
        BY <1>3, <1>4, WindowCounts
      <4>2. /\ IsFiniteSet(incidentWindows[s] \union {n + 1})
            /\ Cardinality(incidentWindows[s] \union {n + 1})
                  <= Cardinality(incidentWindows[s]) + 1
            /\ Cardinality(incidentWindows[s] \union {n + 1}) \in Nat
        BY <4>1, OneMoreCounts
      <4>3. incidents \in SUBSET (incidentWindows[s] \union {n + 1})
        BY <1>6
      <4>4. /\ Cardinality(incidents) <= Cardinality(incidentWindows[s] \union {n + 1})
            /\ Cardinality(incidents) \in Nat
        BY <4>2, <4>3, FewerCount
      <4> QED
        BY <1>7, <2>6, <3>2, <4>2, <4>4
    <3>4. Cardinality({}) = 0 /\ Threshold > 0
      BY FS_EmptySet DEF SafetyConstants
    <3>5. \A q \in Senders : Cardinality(incidentWindows'[q]) < Threshold
      BY <1>3, <2>0, <2>2, <3>1, <3>4
    <3>6. metrics'.suspiciousSignals = suspects + 1
      BY <2>1, <2>6
    <3>7. Threshold * metrics'.suspiciousSignals = Threshold * suspects + Threshold
      BY <2>2, <3>6
    <3>8. Threshold * metrics'.suspiciousSignals + after
          <= metrics'.evaluated - metrics'.ok
      BY <2>0, <2>1, <2>2, <2>3, <2>6, <3>2, <3>3, <3>7
    <3>9. moderationSignals' + drained' = metrics'.abuseKeywordFlags
              + metrics'.suspiciousSignals + reports'
      <4>1. moderationSignals' = moderationSignals
              + (IF outcome = "abuseKeywordFlags" THEN 1 ELSE 0) + 1
        BY <1>1, <1>3, <2>6
      <4>2. drained' = drained /\ reports' = reports
        BY <1>1
      <4>3. /\ moderationSignals + drained =
                  flags + suspects + reports
            /\ moderationSignals \in Nat /\ drained \in Nat /\ reports \in Nat
            /\ suspects \in Nat /\ flags \in Nat
        BY <1>3, <2>0, <2>2
      <4>4. CASE outcome = "abuseKeywordFlags"
        <5>1. metrics'.abuseKeywordFlags = flags + 1
          BY <2>1, <4>4
        <5>2. moderationSignals' = moderationSignals + 2
          BY <4>1, <4>3, <4>4
        <5>3. (moderationSignals + 2) + drained =
                  (flags + 1) + (suspects + 1) + reports
          BY <4>3
        <5> QED
          BY <3>6, <4>2, <5>1, <5>2, <5>3
      <4>5. CASE outcome # "abuseKeywordFlags"
        <5>1. metrics'.abuseKeywordFlags = flags
          BY <2>1, <4>3, <4>5
        <5> QED
          BY <3>6, <4>1, <4>2, <4>3, <4>5, <5>1
      <4> QED
        BY <4>4, <4>5
    <3> QED
      BY <3>5, <3>8, <3>9 DEF Signals, after
  <2> QED
    BY <2>4, <2>5, <2>6
<1> QED
  BY <1>11, <1>12, <1>13, <1>14 DEF SafetyInv

(* The other operations *)

\* A step that leaves the messages and windows alone, while the clock does
\* not go back.
LEMMA RestStep ==
    ASSUME SafetyConstants, SafetyInv,
           UNCHANGED <<evaluations, sendWindows, duplicateWindows,
                       incidentWindows, metrics>>,
           now' \in Moment, now' >= now,
           blockedParticipants' \in [Senders -> SUBSET Senders],
           moderationSignals' \in Nat, drained' \in Nat, reports' \in Nat,
           moderationSignals' + drained' + reports
               = moderationSignals + drained + reports'
    PROVE  SafetyInv'
<1>1. SafetyTypeOK'
  BY DEF SafetyInv, SafetyTypeOK
<1>2. WindowsKept'
  <2>1. \A k \in 1..Len(evaluations) : evaluations[k].at \in Nat
    <3>1. \A k \in 1..Len(evaluations) : evaluations[k] \in Evaluation
      BY ElementOfSeq DEF SafetyInv, SafetyTypeOK, Evaluation
    <3> QED
      BY <3>1 DEF Evaluation, Moment
  <2>2. now \in Nat /\ now' \in Nat
    BY DEF SafetyInv, SafetyTypeOK, Moment
  <2>3. Window \in Nat /\ DuplicateWindow \in Nat
    BY DEF SafetyConstants
  <2>4. \A k \in 1..Len(evaluations) :
          /\ evaluations[k].at <= now'
          /\ now' - evaluations[k].at <= Window => now - evaluations[k].at <= Window
          /\ now' - evaluations[k].at <= DuplicateWindow
             => now - evaluations[k].at <= DuplicateWindow
    <3> SUFFICES ASSUME NEW k \in 1..Len(evaluations), NEW width \in Nat
                 PROVE  /\ evaluations[k].at <= now'
                        /\ now' - evaluations[k].at <= width
                           => now - evaluations[k].at <= width
      BY <2>3
    <3>1. evaluations[k].at <= now
      BY DEF SafetyInv, WindowsKept
    <3> QED
      BY <2>1, <2>2, <3>1
  <2> QED
    BY <2>4 DEF SafetyInv, WindowsKept
<1>3. Limits(evaluations)'
  BY DEF SafetyInv, Limits
<1>4. Signals'
  <2> DEFINE flags == metrics.abuseKeywordFlags
             suspects == metrics.suspiciousSignals
  <2>1. /\ moderationSignals \in Nat /\ drained \in Nat /\ reports \in Nat
        /\ flags \in Nat /\ suspects \in Nat
    BY DEF SafetyInv, SafetyTypeOK, Outcome
  <2>2. moderationSignals + drained = flags + suspects + reports
    BY DEF SafetyInv, Signals
  <2> HIDE DEF flags, suspects
  <2>3. moderationSignals' + drained' = flags + suspects + reports'
    BY <2>1, <2>2
  <2> QED
    BY <2>3 DEF SafetyInv, Signals, flags, suspects
<1> QED
  BY <1>1, <1>2, <1>3, <1>4 DEF SafetyInv

LEMMA SafetyStep ==
    ASSUME SafetyConstants, SafetyInv, [SafetyNext]_safetyVars
    PROVE  SafetyInv'
<1>0. /\ now \in Moment /\ now \in Nat
      /\ blockedParticipants \in [Senders -> SUBSET Senders]
      /\ moderationSignals \in Nat /\ drained \in Nat /\ reports \in Nat
  BY DEF SafetyInv, SafetyTypeOK, Moment
<1>1. CASE UNCHANGED safetyVars
  BY <1>0, <1>1, RestStep DEF safetyVars
<1>2. ASSUME NEW s \in Senders, NEW r \in Senders, NEW t \in Topics,
             evaluateOutboundMessage(s, r, t)
      PROVE  SafetyInv'
  BY <1>2, MessageStep
<1>3. ASSUME NEW s \in Senders, NEW r \in Senders, blockParticipant(s, r)
      PROVE  SafetyInv'
  <2>1. blockedParticipants' \in [Senders -> SUBSET Senders]
    BY <1>0, <1>3 DEF blockParticipant
  <2> QED
    BY <1>0, <1>3, <2>1, RestStep DEF blockParticipant
<1>4. CASE reportAbuse
  BY <1>0, <1>4, RestStep DEF reportAbuse
<1>5. CASE drainModerationSignals
  BY <1>0, <1>5, RestStep DEF drainModerationSignals
<1>6. CASE tick
  <2>1. now' \in Moment /\ now' >= now
    BY <1>0, <1>6 DEF tick, Moment, SafetyConstants
  <2> QED
    BY <1>0, <1>6, <2>1, RestStep DEF tick
<1> QED
  BY <1>1, <1>2, <1>3, <1>4, <1>5, <1>6 DEF SafetyNext

LEMMA SafetyInvariant ==
    ASSUME SafetyConstants
    PROVE  SafetySpec => []SafetyInv
<1>1. SafetyInit => SafetyInv
  BY SafetyInitially
<1>2. SafetyInv /\ [SafetyNext]_safetyVars => SafetyInv'
  BY SafetyStep
<1> QED
  BY <1>1, <1>2, PTL DEF SafetySpec

(* Whatever the windows, limits and threshold: no window of time lets more  *)
(* messages pass than configured, and the signals are accounted for by      *)
(* keywords, reports and whole thresholds of incidents                      *)
(* (messaging-safety.ts, evaluateOutboundMessage, trackSuspiciousIncident). *)
THEOREM SafetyHoldsAlways ==
    ASSUME SafetyConstants
    PROVE  SafetySpec => []SafetyHolds
<1>1. SafetyInv => SafetyHolds
  BY SafetyInvSuffices
<1> QED
  BY <1>1, SafetyInvariant, PTL
=============================================================================
