------------------------------ MODULE Tenancy ------------------------------
(***************************************************************************)
(* services/api/src/tenant-service.ts: tenants, the regions that serve     *)
(* them, health checks with automatic failover, routing, and the policy    *)
(* overrides of regions.                                                   *)
(*                                                                         *)
(* The allowed regions of a tenant are a list that may repeat one; each     *)
(* place of it has an endpoint.  Overrides have no expiry here, and weights *)
(* only an order: the primary region first, then the places as listed.     *)
(***************************************************************************)
EXTENDS Null, Integers, Sequences, FiniteSets, SequencesExt

CONSTANTS
    Tenants,            \* tenantIds
    Regions,            \* VALID_REGIONS
    Overrides,          \* overrideIds
    Residencies,        \* the residency policies tenants are created with
    UnhealthyThreshold, \* of a failover configuration
    HealthyThreshold,   \* of a failover configuration
    MaxListed,          \* bound: places in a list of allowed regions
    MaxChecks,          \* bound: failures and successes counted in a row
    MaxFailovers        \* bound: failovers recorded of a tenant

TenantStatus == {"active", "suspended", "migrating", "deprovisioned"}
FailoverMode == {"automatic", "manual", "disabled"}
Strategy == {"primary-only", "nearest-region", "weighted-round-robin",
             "failover-chain"}

Tenant == [primary : Regions, allowed : Seq(Regions), residency : Residencies,
           status : TenantStatus]
Health == [isHealthy : BOOLEAN, consecutiveFailures : 0..MaxChecks]

TenancyConstants ==
    /\ UnhealthyThreshold \in 1..MaxChecks
    /\ HealthyThreshold \in 1..MaxChecks
    /\ {MaxListed, MaxChecks, MaxFailovers} \subseteq Nat
    /\ Residencies \subseteq {"region-locked", "region-preferred", "global"}
    /\ NULL \notin Regions
    /\ NULL \notin Tenant
    /\ NULL \notin Health

VARIABLES
    tenants,            \* tenant of each id, or NULL
    routingPolicies,    \* strategy of each tenant and the places whose
                        \* endpoints are active
    failoverConfigs,    \* mode of each tenant's configuration, or NULL
    regionHealth,       \* health of each region for each tenant
    healthyRun,         \* successful checks of a region in a row
    failoverEvents,     \* <<from, to>> of each tenant's failovers
    recoveries,         \* number of health_check_recovered events
    policyOverrides     \* region of each override of a tenant, or NULL

tenancyVars == <<tenants, routingPolicies, failoverConfigs, regionHealth,
                 healthyRun, failoverEvents, recoveries, policyOverrides>>

TenancyTypeOK ==
    /\ tenants \in [Tenants -> Tenant \union {NULL}]
    /\ routingPolicies \in [Tenants -> [strategy : Strategy,
                                        active : SUBSET Nat]]
    /\ failoverConfigs \in [Tenants -> FailoverMode \union {NULL}]
    /\ regionHealth \in [Tenants -> [Regions -> Health \union {NULL}]]
    /\ healthyRun \in [Tenants -> [Regions -> 0..MaxChecks]]
    /\ failoverEvents \in [Tenants -> Seq(Regions \X Regions)]
    /\ recoveries \in [Tenants -> Nat]
    /\ policyOverrides \in [Tenants -> [Overrides -> Regions \union {NULL}]]

TenancyInit ==
    /\ tenants = [t \in Tenants |-> NULL]
    /\ routingPolicies = [t \in Tenants |->
                             [strategy |-> "primary-only", active |-> {}]]
    /\ failoverConfigs = [t \in Tenants |-> NULL]
    /\ regionHealth = [t \in Tenants |-> [r \in Regions |-> NULL]]
    /\ healthyRun = [t \in Tenants |-> [r \in Regions |-> 0]]
    /\ failoverEvents = [t \in Tenants |-> <<>>]
    /\ recoveries = [t \in Tenants |-> 0]
    /\ policyOverrides = [t \in Tenants |-> [o \in Overrides |-> NULL]]

-----------------------------------------------------------------------------
(* Tenants *)

\* The primary region need not be among the allowed ones.
createTenant(t, primary, listed, residency, mode) ==
    LET allowed == IF listed = <<>> THEN <<primary>> ELSE listed
        healthy == [isHealthy |-> TRUE, consecutiveFailures |-> 0]
    IN /\ tenants[t] = NULL
       /\ tenants' = [tenants EXCEPT ![t] =
             [primary |-> primary, allowed |-> allowed,
              residency |-> residency, status |-> "active"]]
       /\ routingPolicies' = [routingPolicies EXCEPT ![t] =
             [strategy |-> IF mode = "automatic" THEN "failover-chain"
                           ELSE "primary-only",
              active |-> DOMAIN allowed]]
       /\ regionHealth' = [regionHealth EXCEPT ![t] = [r \in Regions |->
             IF r \in ToSet(allowed) THEN healthy ELSE NULL]]
       /\ UNCHANGED <<failoverConfigs, healthyRun, failoverEvents, recoveries,
                      policyOverrides>>

\* Any status follows any other.
updateTenantStatus(t, status) ==
    /\ tenants[t] # NULL
    /\ tenants' = [tenants EXCEPT ![t].status = status]
    /\ UNCHANGED <<routingPolicies, failoverConfigs, regionHealth, healthyRun,
                   failoverEvents, recoveries, policyOverrides>>

setFailoverConfig(t, mode) ==
    /\ tenants[t] # NULL
    /\ failoverConfigs' = [failoverConfigs EXCEPT ![t] = mode]
    /\ UNCHANGED <<tenants, routingPolicies, regionHealth, healthyRun,
                   failoverEvents, recoveries, policyOverrides>>

updateRoutingStrategy(t, strategy) ==
    /\ tenants[t] # NULL
    /\ routingPolicies' = [routingPolicies EXCEPT ![t].strategy = strategy]
    /\ UNCHANGED <<tenants, failoverConfigs, regionHealth, healthyRun,
                   failoverEvents, recoveries, policyOverrides>>

Boundary(t, r) ==
    IF tenants[t] = NULL THEN "TENANT_NOT_FOUND"
    ELSE IF tenants[t].status = "suspended" THEN "TENANT_SUSPENDED"
    ELSE IF tenants[t].status = "migrating" THEN "TENANT_MIGRATING"
    ELSE IF r \notin ToSet(tenants[t].allowed) THEN "REGION_NOT_ALLOWED"
    ELSE "OK"

DataResidency(t, r) ==
    \/ tenants[t].residency = "global"
    \/ tenants[t].residency = "region-locked" /\ r = tenants[t].primary
    \/ /\ tenants[t].residency = "region-preferred"
       /\ r \in ToSet(tenants[t].allowed)

addPolicyOverride(t, o, r) ==
    /\ tenants[t] # NULL
    /\ r \in ToSet(tenants[t].allowed)
    /\ policyOverrides' = [policyOverrides EXCEPT ![t][o] = r]
    /\ UNCHANGED <<tenants, routingPolicies, failoverConfigs, regionHealth,
                   healthyRun, failoverEvents, recoveries>>

removePolicyOverride(t, o) ==
    /\ policyOverrides[t][o] # NULL
    /\ policyOverrides' = [policyOverrides EXCEPT ![t][o] = NULL]
    /\ UNCHANGED <<tenants, routingPolicies, failoverConfigs, regionHealth,
                   healthyRun, failoverEvents, recoveries>>

-----------------------------------------------------------------------------
(* Health and failover *)

Healthy(health, r) == health[r] = NULL \/ health[r].isHealthy

\* The first of some places of a list of regions.
FirstOf(regions, places) ==
    IF places = {} THEN NULL
    ELSE regions[CHOOSE k \in places : \A j \in places : k <= j]

\* The chain: the places of the allowed regions other than the primary one.
FailoverChain(t) ==
    {k \in DOMAIN tenants[t].allowed : tenants[t].allowed[k] # tenants[t].primary}

\* The first healthy region of the chain, active or not.
Target(t, health) ==
    FirstOf(tenants[t].allowed,
            {k \in FailoverChain(t) : Healthy(health, tenants[t].allowed[k])})

\* Switches off the endpoint at the first place of a region.
SwitchedOff(t, r) ==
    LET places == {k \in DOMAIN tenants[t].allowed : tenants[t].allowed[k] = r}
    IN [routingPolicies EXCEPT ![t].active =
           {k \in @ : k \notin places \/ \E j \in places : j < k}]

\* Faulty variant: the endpoint of the region that takes over is switched off.
failoverOfTarget(t, r, health) ==
    /\ failoverEvents' = [failoverEvents EXCEPT
          ![t] = Append(@, <<r, Target(t, health)>>)]
    /\ routingPolicies' = SwitchedOff(t, Target(t, health))

\* The first endpoint of the failed region is switched off, if it has one.
initiateFailover(t, r, health) ==
    /\ failoverEvents' = [failoverEvents EXCEPT
          ![t] = Append(@, <<r, Target(t, health)>>)]
    /\ routingPolicies' = SwitchedOff(t, r)

\* Every further failure beyond the threshold fails over again.  A recovery
\* is an event where one healthy check is enough, and nothing more.
updateRegionHealth(t, r, healthy) ==
    LET known == regionHealth[t][r]
        failures == IF healthy THEN 0
                    ELSE (IF known = NULL THEN 0
                          ELSE known.consecutiveFailures) + 1
        health == [regionHealth[t] EXCEPT ![r] =
                     [isHealthy |-> healthy, consecutiveFailures |-> failures]]
        failsOver == /\ failoverConfigs[t] = "automatic"
                     /\ ~healthy
                     /\ failures >= UnhealthyThreshold
                     /\ Target(t, health) # NULL
        recovers == /\ failoverConfigs[t] = "automatic"
                    /\ healthy /\ known # NULL
                    /\ ~known.isHealthy
                    /\ 1 >= HealthyThreshold
    IN /\ tenants[t] # NULL
       /\ failures <= MaxChecks
       /\ failsOver => Len(failoverEvents[t]) < MaxFailovers
       /\ recovers => recoveries[t] < MaxFailovers
       /\ regionHealth' = [regionHealth EXCEPT ![t] = health]
       /\ healthyRun' = [healthyRun EXCEPT ![t][r] =
             IF ~healthy THEN 0 ELSE IF @ < MaxChecks THEN @ + 1 ELSE @]
       /\ IF failsOver THEN initiateFailover(t, r, health)
          ELSE UNCHANGED <<failoverEvents, routingPolicies>>
       /\ recoveries' = [recoveries EXCEPT ![t] =
             @ + IF recovers THEN 1 ELSE 0]
       /\ UNCHANGED <<tenants, failoverConfigs, policyOverrides>>

-----------------------------------------------------------------------------
(* Routing *)

\* The places of the endpoints that are active and healthy.
FitEndpoints(t) ==
    {k \in DOMAIN tenants[t].allowed :
        /\ k \in routingPolicies[t].active
        /\ Healthy(regionHealth[t], tenants[t].allowed[k])}

IsFit(t, r) == \E k \in FitEndpoints(t) : tenants[t].allowed[k] = r

FirstFit(t) == FirstOf(tenants[t].allowed, FitEndpoints(t))

\* The first region of the chain that has a fit endpoint, here or further on.
FirstOfChain(t) ==
    FirstOf(tenants[t].allowed,
            {k \in FailoverChain(t) : IsFit(t, tenants[t].allowed[k])})

\* The primary region where it is fit, else another one.
PrimaryElse(t, otherwise) ==
    IF IsFit(t, tenants[t].primary) THEN tenants[t].primary ELSE otherwise

\* The region a request from a region is routed to; NULL for none.  The
\* status and the residency of the tenant play no part.
resolveRoute(t, from) ==
    CASE routingPolicies[t].strategy = "primary-only" -> PrimaryElse(t, NULL)
      [] routingPolicies[t].strategy = "nearest-region" ->
            IF IsFit(t, from) THEN from ELSE FirstFit(t)
      [] routingPolicies[t].strategy = "weighted-round-robin" ->
            PrimaryElse(t, FirstFit(t))
      [] OTHER -> PrimaryElse(t, FirstOfChain(t))

TenancyNext ==
    \E t \in Tenants :
        \/ \E primary \in Regions, listed \in BoundedSeq(Regions, MaxListed),
              residency \in Residencies, mode \in FailoverMode :
              createTenant(t, primary, listed, residency, mode)
        \/ \E status \in TenantStatus : updateTenantStatus(t, status)
        \/ \E mode \in FailoverMode : setFailoverConfig(t, mode)
        \/ \E strategy \in Strategy : updateRoutingStrategy(t, strategy)
        \/ \E r \in Regions, healthy \in BOOLEAN : updateRegionHealth(t, r, healthy)
        \/ \E o \in Overrides, r \in Regions : addPolicyOverride(t, o, r)
        \/ \E o \in Overrides : removePolicyOverride(t, o)

TenancySpec == TenancyInit /\ [][TenancyNext]_tenancyVars

-----------------------------------------------------------------------------
(* Whatever the strategy, and wherever the request comes from, a route      *)
(* leads to an allowed region whose last check passed; and except where     *)
(* only the primary region may serve, a request goes without a route only   *)
(* if each allowed region is failing or the audit trail names a failover    *)
(* from it.  A failover leads to an allowed region other than the one that  *)
(* failed and the primary one (resolveRoute, initiateFailover).             *)
RoutesAvoidFailures ==
    \A t \in Tenants : tenants[t] # NULL =>
        LET allowed == ToSet(tenants[t].allowed)
            left == {failoverEvents[t][k][1] : k \in DOMAIN failoverEvents[t]}
        IN /\ \A from \in Regions \union {NULL} :
                 LET route == resolveRoute(t, from)
                 IN IF route # NULL
                    THEN route \in allowed /\ Healthy(regionHealth[t], route)
                    ELSE routingPolicies[t].strategy # "primary-only" =>
                            \A r \in allowed \ left : ~Healthy(regionHealth[t], r)
           /\ \A k \in DOMAIN failoverEvents[t] :
                 failoverEvents[t][k][2] \in
                    allowed \ {failoverEvents[t][k][1], tenants[t].primary}

(* docs/operations/multi-region-failover.md:25 says 'Failback occurs        *)
(* automatically when the region recovers and passes the healthy threshold  *)
(* (default 2 consecutive healthy checks).'                                 *)
RecoveredRegionServes ==
    \A t \in Tenants : tenants[t] # NULL =>
        \A r \in ToSet(tenants[t].allowed) :
            /\ failoverConfigs[t] = "automatic"
            /\ healthyRun[t][r] >= HealthyThreshold
            => \E k \in routingPolicies[t].active : tenants[t].allowed[k] = r
=============================================================================
