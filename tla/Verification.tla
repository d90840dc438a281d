---------------------------- MODULE Verification ----------------------------
(***************************************************************************)
(* services/api/src/verification-service.ts with the tiers of              *)
(* packages/shared/src/verification.ts: grants, revocations, renewals and  *)
(* appeals of verification tiers, each with its audit entry.               *)
(*                                                                         *)
(* Reasons, actors and appeal ids are left out.  A call names checkpoints; *)
(* the model keeps the tiers all of whose checkpoints it names.            *)
(***************************************************************************)
EXTENDS Null, Integers, Sequences, FiniteSets

CONSTANTS
    Subjects,       \* DIDs
    Days,           \* days a tier lasts, NULL for one that never expires
    LastDay,        \* bound: the last day
    MaxAudit,       \* bound: audit entries of a subject
    MaxAppeals      \* bound: appeals of a subject

Tier == {"unverified", "basic", "verified", "trusted", "org_verified"}

VerificationConstants ==
    /\ Days \in [Tier -> Nat \union {NULL}]
    /\ Days["unverified"] = NULL
    /\ {LastDay, MaxAudit, MaxAppeals} \subseteq Nat
    /\ NULL \notin Nat

VARIABLES
    statuses,       \* status of each subject, or NULL
    appeals,        \* appeals of each subject, all of them pending
    today           \* the clock, in days

verificationVars == <<statuses, appeals, today>>

TierRank == [unverified |-> 0, basic |-> 1, verified |-> 2, trusted |-> 3,
              org_verified |-> 4]

Audit == [action : {"grant", "revoke", "renew", "appeal"},
          timestamp : Nat, previousTier : Tier, newTier : Tier]
Appeal == [currentTier : Tier, requestedTier : Tier]
Status == [tier : Tier, grantedAt : Nat, expiresAt : Nat \union {NULL},
           auditTrail : Seq(Audit)]

VerificationTypeOK ==
    /\ statuses \in [Subjects -> Status \union {NULL}]
    /\ appeals \in [Subjects -> Seq(Appeal)]
    /\ today \in Nat

VerificationInit ==
    /\ statuses = [s \in Subjects |-> NULL]
    /\ appeals = [s \in Subjects |-> <<>>]
    /\ today = 0

-----------------------------------------------------------------------------

CurrentTier(s) ==
    IF statuses[s] = NULL THEN "unverified" ELSE statuses[s].tier

Trail(s) == IF statuses[s] = NULL THEN <<>> ELSE statuses[s].auditTrail

\* Only the checkpoints of the target tier count, not those of the tiers in
\* between.
canUpgrade(current, target, passed) ==
    TierRank[target] > TierRank[current] /\ target \in passed

computeExpiryDate(tier) == IF Days[tier] = NULL THEN NULL ELSE today + Days[tier]

appendAuditEntry(s, action, newTier) ==
    Append(Trail(s), [action |-> action, timestamp |-> today,
                      previousTier |-> CurrentTier(s), newTier |-> newTier])

isExpired(s) ==
    /\ statuses[s] # NULL
    /\ statuses[s].expiresAt # NULL
    /\ statuses[s].expiresAt <= today

putStatus(s, action, tier, expiresAt) ==
    /\ Len(Trail(s)) < MaxAudit
    /\ statuses' = [statuses EXCEPT ![s] =
          [tier |-> tier, grantedAt |-> today, expiresAt |-> expiresAt,
           auditTrail |-> appendAuditEntry(s, action, tier)]]
    /\ UNCHANGED <<appeals, today>>

\* A grant of the same or of a lower tier needs no checkpoints.
grant(s, target, passed) ==
    /\ TierRank[target] > TierRank[CurrentTier(s)] =>
          canUpgrade(CurrentTier(s), target, passed)
    /\ putStatus(s, "grant", target, computeExpiryDate(target))

revoke(s) ==
    /\ CurrentTier(s) # "unverified"
    /\ putStatus(s, "revoke", "unverified", NULL)

\* Faulty variant: the days left of the grant are kept.
renewFromExpiry(s) ==
    /\ CurrentTier(s) # "unverified"
    /\ putStatus(s, "renew", CurrentTier(s), statuses[s].expiresAt)

\* No checkpoints, and an expired tier can be renewed.
renew(s) ==
    /\ CurrentTier(s) # "unverified"
    /\ putStatus(s, "renew", CurrentTier(s), computeExpiryDate(CurrentTier(s)))

\* Nobody resolves an appeal.  It enters the trail of a subject that has one.
appeal(s, requested) ==
    /\ TierRank[requested] > TierRank[CurrentTier(s)]
    /\ Len(appeals[s]) < MaxAppeals
    /\ Len(Trail(s)) < MaxAudit
    /\ appeals' = [appeals EXCEPT ![s] = Append(@,
          [currentTier |-> CurrentTier(s), requestedTier |-> requested])]
    /\ statuses' = IF statuses[s] = NULL THEN statuses
          ELSE [statuses EXCEPT ![s].auditTrail =
                   appendAuditEntry(s, "appeal", CurrentTier(s))]
    /\ UNCHANGED today

NextDay ==
    /\ today < LastDay
    /\ today' = today + 1
    /\ UNCHANGED <<statuses, appeals>>

VerificationNext ==
    \/ \E s \in Subjects, target \in Tier, passed \in SUBSET Tier :
          grant(s, target, passed)
    \/ \E s \in Subjects : revoke(s) \/ renew(s)
    \/ \E s \in Subjects, requested \in Tier : appeal(s, requested)
    \/ NextDay

VerificationSpec == VerificationInit /\ [][VerificationNext]_verificationVars

-----------------------------------------------------------------------------
(* The audit trail tells how the status came about: every entry starts at   *)
(* the tier the one before left, the first at 'unverified', the last leads  *)
(* to the tier held, and the day and the expiry of the status are those of  *)
(* the last entry that was no appeal.  A tier held was never above all that *)
(* an upgrade reached since the last revocation (grant, revoke, renew,      *)
(* appeal and appendAuditEntry).                                            *)
AuditExplainsStatus ==
    \A s \in Subjects : statuses[s] # NULL =>
        LET trail == Trail(s)
            granting == {k \in DOMAIN trail : trail[k].action # "appeal"}
        IN /\ granting # {}
           /\ \A k \in DOMAIN trail : trail[k].previousTier =
                 IF k = 1 THEN "unverified" ELSE trail[k - 1].newTier
           /\ CurrentTier(s) = trail[Len(trail)].newTier
           /\ \E k \in granting :
                 /\ \A j \in granting : j <= k
                 /\ statuses[s].grantedAt = trail[k].timestamp
                 /\ statuses[s].expiresAt =
                       IF Days[CurrentTier(s)] = NULL THEN NULL
                       ELSE trail[k].timestamp + Days[CurrentTier(s)]
           /\ CurrentTier(s) # "unverified" =>
                 \E k \in granting :
                     /\ TierRank[trail[k].newTier] > TierRank[trail[k].previousTier]
                     /\ TierRank[trail[k].newTier] >= TierRank[CurrentTier(s)]
                     /\ \A j \in granting : trail[j].action = "revoke" => j < k
=============================================================================
