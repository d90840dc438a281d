----------------------------- MODULE Lifecycle ------------------------------
(***************************************************************************)
(* services/api/src/lifecycle-service.ts: one record per post, moved by    *)
(* role-checked transitions, by the assignment hand-shake (assign, then    *)
(* accept, decline or time out) and by the hand-off that completes it.     *)
(*                                                                         *)
(* Every handler runs to its end without awaiting anything, so each is one *)
(* action; what interleaves is the calls of different people.  "now" is    *)
(* whatever the request carries, and nothing orders the values of two      *)
(* requests.  A rejected call changes nothing and is a stuttering step,    *)
(* except that executeTransition registers an unknown post first.          *)
(***************************************************************************)
EXTENDS Integers, Sequences, LifecycleGraph

CONSTANTS
    Posts,          \* post URIs
    Dids,           \* people: requesters, volunteers, coordinators
    Roles,          \* the roles callers of the transition route claim
    Times,          \* values of "now" a request may carry
    TimeoutMs,      \* ASSIGNMENT_TIMEOUT_MS
    MaxTimeline,    \* bound: entries one timeline may hold
    NULL            \* an absent record, assignment, answer time or hand-off

ASSUME LifecycleConstants ==
    /\ Roles \subseteq LIFECYCLE_ROLES
    /\ Times \subseteq Int
    /\ TimeoutMs \in Nat
    /\ MaxTimeline \in Nat
    /\ NULL \notin REQUEST_STATUSES
    /\ NULL \notin Dids
    /\ NULL \notin Times

VARIABLES
    status,         \* record.currentStatus, NULL while there is no record
    timeline,       \* record.timeline
    assignment,     \* record.assignment
    handoff         \* record.handoff, its completedBy

vars == <<status, timeline, assignment, handoff>>

Entry == [from : REQUEST_STATUSES, to : REQUEST_STATUSES,
          actor : Dids, role : LIFECYCLE_ROLES]

AssignmentRecord ==
    [assignee : Dids, assigner : Dids, assignedAt : Times,
     state : ASSIGNMENT_STATUSES, respondedAt : Times \union {NULL}]

TypeOK ==
    /\ status \in [Posts -> REQUEST_STATUSES \union {NULL}]
    /\ timeline \in [Posts -> Seq(Entry)]
    /\ assignment \in [Posts -> AssignmentRecord \union {NULL}]
    /\ handoff \in [Posts -> Dids \union {NULL}]

Init ==
    /\ status = [p \in Posts |-> NULL]
    /\ timeline = [p \in Posts |-> <<>>]
    /\ assignment = [p \in Posts |-> NULL]
    /\ handoff = [p \in Posts |-> NULL]

createStatusTransition(from, to, actor, role) ==
    [from |-> from, to |-> to, actor |-> actor, role |-> role]

\* record.currentStatus = e.to; record.timeline.push(e)
Apply(p, e) ==
    /\ Len(timeline[p]) < MaxTimeline
    /\ status' = [status EXCEPT ![p] = e.to]
    /\ timeline' = [timeline EXCEPT ![p] = Append(@, e)]

-----------------------------------------------------------------------------

registerPost(p) ==
    /\ status[p] = NULL
    /\ status' = [status EXCEPT ![p] = "open"]
    /\ UNCHANGED <<timeline, assignment, handoff>>

executeTransition(p, target, actor, role) ==
    LET previous == IF status[p] = NULL THEN "open" ELSE status[p]
    IN  /\ \/ /\ canTransition(previous, target, role)
              /\ Apply(p, createStatusTransition(previous, target, actor, role))
           \/ /\ ~canTransition(previous, target, role)
              /\ status' = [status EXCEPT ![p] = previous]
              /\ UNCHANGED timeline
        /\ UNCHANGED <<assignment, handoff>>

\* Faulty variant: 'open' counts as assignable.
assignFromOpen(p, assignee, assigner, now) ==
    /\ status[p] \in {"open", "triaged", "assigned", "in_progress"}
    /\ Apply(p, createStatusTransition(status[p], "assigned", assigner,
                                       "coordinator"))
    /\ assignment' = [assignment EXCEPT ![p] =
            [assignee |-> assignee, assigner |-> assigner, assignedAt |-> now,
             state |-> "pending", respondedAt |-> NULL]]
    /\ UNCHANGED handoff

\* Faulty variant: a resolved request may be assigned again.
assignResolved(p, assignee, assigner, now) ==
    /\ status[p] \in {"triaged", "in_progress", "resolved"}
    /\ Apply(p, createStatusTransition(status[p], "assigned", assigner,
                                       "coordinator"))
    /\ assignment' = [assignment EXCEPT ![p] =
            [assignee |-> assignee, assigner |-> assigner, assignedAt |-> now,
             state |-> "pending", respondedAt |-> NULL]]
    /\ UNCHANGED handoff

assignRequest(p, assignee, assigner, now) ==
    /\ status[p] \in {"triaged", "assigned", "in_progress"}
    /\ \/ /\ status[p] # "assigned"
          /\ Apply(p, createStatusTransition(status[p], "assigned", assigner,
                                             "coordinator"))
       \/ /\ status[p] = "assigned"
          /\ UNCHANGED <<status, timeline>>
    /\ assignment' = [assignment EXCEPT ![p] =
            [assignee |-> assignee, assigner |-> assigner, assignedAt |-> now,
             state |-> "pending", respondedAt |-> NULL]]
    /\ UNCHANGED handoff

Pending(p) == assignment[p] # NULL /\ assignment[p].state = "pending"

Answer(p, answer, now) ==
    assignment' = [assignment EXCEPT ![p].state = answer, ![p].respondedAt = now]

\* Faulty variant: the status check forgets that a decline is an answer.
acceptTwice(p, assignee, now) ==
    /\ assignment[p] # NULL
    /\ assignment[p].state \in {"pending", "declined"}
    /\ assignment[p].assignee = assignee
    /\ Answer(p, "accepted", now)
    /\ Apply(p, createStatusTransition("assigned", "in_progress", assignee,
                                       "volunteer"))
    /\ UNCHANGED handoff

\* The guard reads the assignment alone, never record.currentStatus, and the
\* recorded "from" is the literal 'assigned'.
acceptAssignment(p, assignee, now) ==
    /\ Pending(p)
    /\ assignment[p].assignee = assignee
    /\ Answer(p, "accepted", now)
    /\ Apply(p, createStatusTransition("assigned", "in_progress", assignee,
                                       "volunteer"))
    /\ UNCHANGED handoff

\* Faulty variant: the timeline entry is pushed, currentStatus is not set.
declineKeepsStatus(p, assignee, now) ==
    /\ Pending(p)
    /\ assignment[p].assignee = assignee
    /\ Answer(p, "declined", now)
    /\ timeline' = [timeline EXCEPT ![p] =
            Append(@, createStatusTransition("assigned", "triaged", assignee,
                                             "volunteer"))]
    /\ UNCHANGED <<status, handoff>>

declineAssignment(p, assignee, now) ==
    /\ Pending(p)
    /\ assignment[p].assignee = assignee
    /\ Answer(p, "declined", now)
    /\ Apply(p, createStatusTransition("assigned", "triaged", assignee,
                                       "volunteer"))
    /\ UNCHANGED handoff

\* Faulty variant: the timeout reverts the status without an audit entry.
timeoutUnaudited(p, now) ==
    /\ Pending(p)
    /\ now - assignment[p].assignedAt >= TimeoutMs
    /\ Answer(p, "timed_out", now)
    /\ status' = [status EXCEPT ![p] = "triaged"]
    /\ UNCHANGED <<timeline, handoff>>

\* Faulty variant: a state name outside ASSIGNMENT_STATUSES.
timeoutMisnamed(p, now) ==
    /\ Pending(p)
    /\ now - assignment[p].assignedAt >= TimeoutMs
    /\ Answer(p, "expired", now)
    /\ Apply(p, createStatusTransition("assigned", "triaged",
                                       assignment[p].assigner, "coordinator"))
    /\ UNCHANGED handoff

checkAssignmentTimeout(p, now) ==
    /\ Pending(p)
    /\ now - assignment[p].assignedAt >= TimeoutMs
    /\ Answer(p, "timed_out", now)
    /\ Apply(p, createStatusTransition("assigned", "triaged",
                                       assignment[p].assigner, "coordinator"))
    /\ UNCHANGED handoff

\* Faulty variant: no check that the request is in progress.
handoffAnytime(p, assignee) ==
    /\ status[p] # NULL
    /\ assignment[p] # NULL
    /\ assignment[p].assignee = assignee
    /\ handoff' = [handoff EXCEPT ![p] = assignee]
    /\ Apply(p, createStatusTransition("in_progress", "resolved", assignee,
                                       "volunteer"))
    /\ UNCHANGED assignment

completeHandoff(p, assignee) ==
    /\ status[p] = "in_progress"
    /\ assignment[p] # NULL
    /\ assignment[p].assignee = assignee
    /\ handoff' = [handoff EXCEPT ![p] = assignee]
    /\ Apply(p, createStatusTransition("in_progress", "resolved", assignee,
                                       "volunteer"))
    /\ UNCHANGED assignment

Next ==
    \E p \in Posts :
        \/ registerPost(p)
        \/ \E target \in REQUEST_STATUSES, actor \in Dids, role \in Roles :
              executeTransition(p, target, actor, role)
        \/ \E assignee, assigner \in Dids, now \in Times :
              assignRequest(p, assignee, assigner, now)
        \/ \E assignee \in Dids, now \in Times :
              \/ acceptAssignment(p, assignee, now)
              \/ declineAssignment(p, assignee, now)
        \/ \E now \in Times : checkAssignmentTimeout(p, now)
        \/ \E assignee \in Dids : completeHandoff(p, assignee)

Spec == Init /\ [][Next]_vars

-----------------------------------------------------------------------------
(* Properties *)

Entries(p) == {timeline[p][i] : i \in 1..Len(timeline[p])}

\* The status shown for a request is the one its timeline ends in, whichever
\* of the six handlers that write both moved it last (and 'open' before the
\* first entry).
TimelineEndsAtStatus ==
    \A p \in Posts :
        IF timeline[p] = <<>> THEN status[p] \in {NULL, "open"}
                              ELSE status[p] = timeline[p][Len(timeline[p])].to

\* The entry an assignment's answer leaves in the timeline: the assignee's
\* own, or the assigner's when the answer is a timeout.
AnswerEntry(a) ==
    CASE a.state = "accepted" ->
            createStatusTransition("assigned", "in_progress", a.assignee,
                                   "volunteer")
      [] a.state = "declined" ->
            createStatusTransition("assigned", "triaged", a.assignee,
                                   "volunteer")
      [] a.state = "timed_out" ->
            createStatusTransition("assigned", "triaged", a.assigner,
                                   "coordinator")

\* No answer is lost from the audit: whatever happened to the request since,
\* an assignment that has been answered has its entry in the timeline, and a
\* hand-off has the entry of the volunteer it names.
AnswersAreAudited ==
    \A p \in Posts :
        /\ assignment[p] # NULL /\ ~Pending(p) =>
              AnswerEntry(assignment[p]) \in Entries(p)
        /\ handoff[p] # NULL =>
              createStatusTransition("in_progress", "resolved", handoff[p],
                                     "volunteer") \in Entries(p)

\* Entry i starts from the status before it.
Chained(p, i) ==
    timeline[p][i].from = (IF i = 1 THEN "open" ELSE timeline[p][i - 1].to)

\* The timeline reads as one walk through the statuses, except where an
\* answer was recorded: accept, decline and timeout write the literal
\* 'assigned' and may follow any status.  No other handler breaks the walk.
GapsOnlyAtAnswers ==
    \A p \in Posts : \A i \in 1..Len(timeline[p]) :
        \/ Chained(p, i)
        \/ /\ timeline[p][i].from = "assigned"
           /\ timeline[p][i].to \in {"in_progress", "triaged"}
           /\ timeline[p][i].role \in {"volunteer", "coordinator"}

\* Accept, decline and timeout race for one assignment and one of them wins:
\* an answered assignment never changes again, until a coordinator replaces
\* it by a new offer.
AnswerIsFinal ==
    [][\A p \in Posts :
         assignment[p] # NULL /\ ~Pending(p) =>
            \/ assignment'[p] = assignment[p]
            \/ assignment'[p].state = "pending" /\ status'[p] = "assigned"]_vars

\* A request that is resolved or archived leaves that status only for the
\* archive, or because an offer that was still pending gets its answer.
OnlyAnAnswerReopens ==
    [][\A p \in Posts :
         status[p] \in {"resolved", "archived"} /\ status'[p] # status[p] =>
            \/ status[p] = "resolved" /\ status'[p] = "archived"
            \/ Pending(p) /\ assignment'[p].state # "pending"]_vars

\* The timeline is the append-only log of lawful entries that RequestAudit
\* describes, also where a handler writes a fixed transition without asking
\* canTransition.
Audit == INSTANCE RequestAudit WITH log <- timeline
AuditSpec == Audit!Spec

\* 'archived' has no way out (lifecycle.ts:55).  Refuted: an offer that was
\* still pending when the request was archived can be answered afterwards.
ArchivedIsTerminal ==
    [][\A p \in Posts : status[p] = "archived" => status'[p] = "archived"]_vars
=============================================================================
