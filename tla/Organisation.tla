---------------------------- MODULE Organisation ----------------------------
(***************************************************************************)
(* The portal of organisations, services/api/src/org-portal-service.ts with *)
(* the roles of packages/shared/src/org-portal.ts.                          *)
(*                                                                         *)
(* Each handler runs to its end before the next.  The DID of an            *)
(* organisation is made from its name, so two names may be one             *)
(* organisation: here a name is its DID.  Names, handles, capacities and   *)
(* times are left out, and the metrics, which are written once.            *)
(***************************************************************************)
EXTENDS Null, Integers, Sequences

CONSTANTS
    Orgs,           \* DIDs of organisations
    Staff,          \* DIDs of actors and members
    Services,       \* serviceIds
    MaxTrail        \* bound: entries of an audit trail

OrgRole == {"owner", "admin", "member", "viewer"}
OrgServiceStatus == {"active", "paused", "discontinued"}

\* A member has one role; a person or a service without one is not listed.
OrgProfile == [members : [Staff -> OrgRole \union {NULL}],
               services : [Services -> OrgServiceStatus \union {NULL}]]

OrganisationConstants ==
    /\ MaxTrail \in Nat
    /\ NULL \notin OrgRole \union OrgServiceStatus
    /\ NULL \notin OrgProfile

VARIABLES
    orgs,           \* of each DID: the profile, or NULL
    auditTrails

organisationVars == <<orgs, auditTrails>>

ORG_ROLE_RANK == [viewer |-> 0, member |-> 1, admin |-> 2, owner |-> 3]
OrgAuditAction == {"member_invited", "member_removed", "member_role_changed",
                   "service_upserted", "service_status_changed", "org_created"}

\* What the details of an entry tell of the role or status before and after.
Detail == OrgRole \union OrgServiceStatus \union {NULL}
OrgAuditEntry == [action : OrgAuditAction, actor : Staff,
                  target : Staff \union Services \union Orgs,
                  from : Detail, to : Detail]

OrganisationTypeOK ==
    /\ orgs \in [Orgs -> OrgProfile \union {NULL}]
    /\ auditTrails \in [Orgs -> Seq(OrgAuditEntry)]

OrganisationInit ==
    /\ orgs = [o \in Orgs |-> NULL]
    /\ auditTrails = [o \in Orgs |-> <<>>]

-----------------------------------------------------------------------------
appendAudit(o, action, actor, target, from, to) ==
    /\ Len(auditTrails[o]) < MaxTrail
    /\ auditTrails' = [auditTrails EXCEPT ![o] = Append(@,
          [action |-> action, actor |-> actor, target |-> target,
           from |-> from, to |-> to])]

\* Faulty variant: every member counts as one with the role asked for.
requireMember(o, actor, minRole) ==
    /\ orgs[o] # NULL
    /\ orgs[o].members[actor] # NULL

\* requireRole found nothing to answer: the organisation exists and the
\* actor's role is high enough.
requireRole(o, actor, minRole) ==
    /\ orgs[o] # NULL
    /\ orgs[o].members[actor] # NULL
    /\ ORG_ROLE_RANK[orgs[o].members[actor]] >= ORG_ROLE_RANK[minRole]

createOrg(o, owner) ==
    /\ orgs[o] = NULL
    /\ orgs' = [orgs EXCEPT ![o] =
          [members |-> [p \in Staff |-> IF p = owner THEN "owner" ELSE NULL],
           services |-> [s \in Services |-> NULL]]]
    /\ appendAudit(o, "org_created", owner, o, NULL, NULL)

inviteMember(o, actor, member, role) ==
    /\ requireRole(o, actor, "admin")
    /\ orgs[o].members[member] = NULL
    /\ role # "owner"
    /\ orgs' = [orgs EXCEPT ![o].members[member] = role]
    /\ appendAudit(o, "member_invited", actor, member, NULL, role)

\* The member is there, and not the owner.
Changeable(o, member) == orgs[o].members[member] \notin {NULL, "owner"}

\* An admin may remove any member, herself included.
removeOrgMember(o, actor, member) ==
    /\ requireRole(o, actor, "admin")
    /\ Changeable(o, member)
    /\ orgs' = [orgs EXCEPT ![o].members[member] = NULL]
    /\ appendAudit(o, "member_removed", actor, member, NULL, NULL)

updateOrgMemberRole(o, actor, member, role) ==
    /\ requireRole(o, actor, "admin")
    /\ Changeable(o, member)
    /\ role # "owner"
    /\ orgs' = [orgs EXCEPT ![o].members[member] = role]
    /\ appendAudit(o, "member_role_changed", actor, member,
                   orgs[o].members[member], role)

\* The entry names the service, and no status.
upsertServiceListing(o, actor, service, status) ==
    /\ requireRole(o, actor, "admin")
    /\ orgs' = [orgs EXCEPT ![o].services[service] = status]
    /\ appendAudit(o, "service_upserted", actor, service, NULL, NULL)

updateServiceStatus(o, actor, service, status) ==
    /\ requireRole(o, actor, "admin")
    /\ orgs[o].services[service] # NULL
    /\ orgs' = [orgs EXCEPT ![o].services[service] = status]
    /\ appendAudit(o, "service_status_changed", actor, service,
                   orgs[o].services[service], status)

OrganisationNext ==
    \E o \in Orgs, actor \in Staff :
        \/ createOrg(o, actor)
        \/ \E member \in Staff :
              \/ removeOrgMember(o, actor, member)
              \/ \E role \in OrgRole :
                    \/ inviteMember(o, actor, member, role)
                    \/ updateOrgMemberRole(o, actor, member, role)
        \/ \E service \in Services, status \in OrgServiceStatus :
              \/ upsertServiceListing(o, actor, service, status)
              \/ updateServiceStatus(o, actor, service, status)

OrganisationSpec == OrganisationInit /\ [][OrganisationNext]_organisationVars

-----------------------------------------------------------------------------
\* The members whose role an entry settles, and the role it leaves them.
Settles(e, p) ==
    \/ e.action = "org_created" /\ e.actor = p
    \/ /\ e.action \in {"member_invited", "member_role_changed", "member_removed"}
       /\ e.target = p
Given(e) == IF e.action = "org_created" THEN "owner" ELSE e.to

\* For one who knows the first k entries only: the role is that of the last
\* entry about the person, and without one there is none.
RoleBy(trail, k, p, role) ==
    IF \E j \in 1..k : Settles(trail[j], p)
    THEN \E j \in 1..k :
            /\ Settles(trail[j], p)
            /\ \A i \in 1..k : Settles(trail[i], p) => i <= j
            /\ Given(trail[j]) = role
    ELSE role = NULL

(* The audit trail of an organisation explains it: read from its start, it   *)
(* gives the members and their roles of now; everyone who acted had by the   *)
(* entries before the role of an admin or owner, given by one who had it     *)
(* before; every role recorded as the previous one was it; and the one owner *)
(* is who created the organisation, through every sequence of invitations,   *)
(* promotions, demotions and removals, those of the actors themselves        *)
(* included (requireRole, appendAudit).                                      *)
TrailExplainsMembers ==
    \A o \in Orgs :
        LET trail == auditTrails[o]
        IN orgs[o] # NULL =>
              /\ \A p \in Staff : RoleBy(trail, Len(trail), p, orgs[o].members[p])
              /\ {p \in Staff : orgs[o].members[p] = "owner"} = {trail[1].actor}
              /\ \A k \in 2..Len(trail) :
                    /\ \E role \in {"admin", "owner"} :
                          RoleBy(trail, k - 1, trail[k].actor, role)
                    /\ trail[k].action = "member_role_changed" =>
                          RoleBy(trail, k - 1, trail[k].target, trail[k].from)

(* A change of a service's status is recorded from the status the service    *)
(* got by the last entry about it, when that entry tells one                 *)
(* (updateServiceStatus).                                                    *)
StatusesFollow ==
    \A o \in Orgs : \A j, k \in DOMAIN auditTrails[o] :
        LET trail == auditTrails[o]
        IN (/\ j < k
            /\ trail[j].action = "service_status_changed"
            /\ trail[k].action = "service_status_changed"
            /\ \A i \in j..k : trail[i].target = trail[k].target =>
                  i \in {j, k}
            /\ trail[j].target = trail[k].target)
           => trail[j].to = trail[k].from

(* The trail explains members and services.                                  *)
TrailExplainsOrganisation == TrailExplainsMembers /\ StatusesFollow
=============================================================================
