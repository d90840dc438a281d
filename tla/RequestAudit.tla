---------------------------- MODULE RequestAudit ----------------------------
(***************************************************************************)
(* What the lifecycle promises of its audit timeline, with no status,      *)
(* assignment or clock in it: every post has a log that only grows, one    *)
(* entry at a time, and each entry is a transition its role may make.      *)
(***************************************************************************)
EXTENDS Sequences, LifecycleGraph

CONSTANTS Posts, Dids

VARIABLE log

LawfulEntry ==
    {e \in [from : REQUEST_STATUSES, to : REQUEST_STATUSES,
            actor : Dids, role : LIFECYCLE_ROLES] :
        canTransition(e.from, e.to, e.role)}

Init == log = [p \in Posts |-> <<>>]

\* e is the entry this step leaves at the end of p's log.
Record(p) ==
    LET e == log'[p][Len(log'[p])]
    IN  /\ log'[p] # <<>>
        /\ e \in LawfulEntry
        /\ log' = [log EXCEPT ![p] = Append(@, e)]

Next == \E p \in Posts : Record(p)

Spec == Init /\ [][Next]_log
=============================================================================
