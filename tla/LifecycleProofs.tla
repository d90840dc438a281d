--------------------------- MODULE LifecycleProofs --------------------------
(***************************************************************************)
(* Proofs about Lifecycle, for any posts, people, clock values and bound.  *)
(* Every invariant about the timeline rests on one fact about steps: a     *)
(* step leaves all timelines alone, or appends to one of them an entry     *)
(* that is lawful and that starts either from the current status or from   *)
(* the literal 'assigned' of an answer (StepShape).                        *)
(***************************************************************************)
EXTENDS Lifecycle, TLAPS

IsAnswer(e) ==
    /\ e.from = "assigned"
    /\ e.to \in {"in_progress", "triaged"}
    /\ e.role \in {"volunteer", "coordinator"}

\* Post p's timeline grows by e and its status follows.
Grow(p, e) ==
    /\ e \in Entry
    /\ canTransition(e.from, e.to, e.role)
    /\ \/ e.from = (IF status[p] = NULL THEN "open" ELSE status[p])
       \/ IsAnswer(e)
    /\ status' = [status EXCEPT ![p] = e.to]
    /\ timeline' = [timeline EXCEPT ![p] = Append(@, e)]

\* No timeline grows; at most an unknown post is registered.
Keep ==
    /\ timeline' = timeline
    /\ \A p \in Posts : \/ status'[p] = status[p]
                        \/ /\ status[p] = NULL
                           /\ status'[p] = "open"

-----------------------------------------------------------------------------
(* Types *)

LEMMA EntryType ==
    ASSUME NEW from \in REQUEST_STATUSES, NEW to \in REQUEST_STATUSES,
           NEW actor \in Dids, NEW role \in LIFECYCLE_ROLES
    PROVE  createStatusTransition(from, to, actor, role) \in Entry
BY DEF createStatusTransition, Entry

\* Appending one entry to one post's timeline keeps the two types.
LEMMA ApplyType ==
    ASSUME TypeOK, NEW p \in Posts, NEW e \in Entry, Apply(p, e)
    PROVE  /\ status' \in [Posts -> REQUEST_STATUSES \union {NULL}]
           /\ timeline' \in [Posts -> Seq(Entry)]
<1>1. e.to \in REQUEST_STATUSES
  BY DEF Entry
<1>2. Append(timeline[p], e) \in Seq(Entry)
  BY DEF TypeOK
<1> QED
  BY <1>1, <1>2 DEF TypeOK, Apply

\* An answer changes two fields of a record that is there.
LEMMA AnswerType ==
    ASSUME TypeOK, NEW p \in Posts, Pending(p), NEW now \in Times,
           NEW answer \in ASSIGNMENT_STATUSES, Answer(p, answer, now)
    PROVE  /\ assignment' \in [Posts -> AssignmentRecord \union {NULL}]
           /\ assignment'[p] = [assignment[p] EXCEPT !.state = answer,
                                                    !.respondedAt = now]
           /\ \A q \in Posts \ {p} : assignment'[q] = assignment[q]
<1>1. assignment[p] \in AssignmentRecord
  BY DEF TypeOK, Pending
<1>2. [assignment[p] EXCEPT !.state = answer, !.respondedAt = now]
        \in AssignmentRecord
  BY <1>1 DEF AssignmentRecord
<1>3. assignment' = [assignment EXCEPT ![p] =
            [assignment[p] EXCEPT !.state = answer, !.respondedAt = now]]
  BY <1>1 DEF Answer, TypeOK
<1> QED
  BY <1>2, <1>3 DEF TypeOK

-----------------------------------------------------------------------------
(* The shape of a step *)

\* Apply with a lawful entry is a Grow step, and is of the right type.
LEMMA ApplyGrows ==
    ASSUME TypeOK, NEW p \in Posts,
           NEW from \in REQUEST_STATUSES, NEW to \in REQUEST_STATUSES,
           NEW actor \in Dids, NEW role \in LIFECYCLE_ROLES,
           canTransition(from, to, role),
           \/ from = (IF status[p] = NULL THEN "open" ELSE status[p])
           \/ IsAnswer(createStatusTransition(from, to, actor, role)),
           Apply(p, createStatusTransition(from, to, actor, role))
    PROVE  /\ \E e \in Entry : Grow(p, e)
           /\ status' \in [Posts -> REQUEST_STATUSES \union {NULL}]
           /\ timeline' \in [Posts -> Seq(Entry)]
<1> DEFINE e == createStatusTransition(from, to, actor, role)
<1>1. e \in Entry
  BY EntryType
<1>2. e.from = from /\ e.to = to /\ e.role = role
  BY DEF createStatusTransition
<1>3. Grow(p, e)
  BY <1>1, <1>2 DEF Grow, Apply
<1> QED
  BY <1>1, <1>3, ApplyType

\* The fixed transitions the handlers write without asking canTransition.
LEMMA FixedTransitions ==
    /\ canTransition("triaged", "assigned", "coordinator")
    /\ canTransition("in_progress", "assigned", "coordinator")
    /\ canTransition("assigned", "in_progress", "volunteer")
    /\ canTransition("assigned", "triaged", "volunteer")
    /\ canTransition("assigned", "triaged", "coordinator")
    /\ canTransition("in_progress", "resolved", "volunteer")
<1>1. /\ <<"triaged", "assigned">> \in TRANSITION_GRAPH
      /\ <<"in_progress", "assigned">> \in TRANSITION_GRAPH
      /\ <<"assigned", "in_progress">> \in TRANSITION_GRAPH
      /\ <<"assigned", "triaged">> \in TRANSITION_GRAPH
      /\ <<"in_progress", "resolved">> \in TRANSITION_GRAPH
  BY DEF TRANSITION_GRAPH
<1>2. "volunteer" \in LIFECYCLE_ROLES /\ "coordinator" \in LIFECYCLE_ROLES
  BY DEF LIFECYCLE_ROLES
<1> QED
  BY <1>1, <1>2 DEF canTransition, TRANSITION_PERMISSIONS

LEMMA StepShape ==
    ASSUME TypeOK, [Next]_vars
    PROVE  /\ TypeOK'
           /\ Keep \/ \E p \in Posts, e \in Entry : Grow(p, e)
<1> USE LifecycleConstants
<1> USE DEF REQUEST_STATUSES, ASSIGNMENT_STATUSES
<1>1. ASSUME NEW p \in Posts, registerPost(p)
      PROVE  TypeOK' /\ Keep
  BY <1>1 DEF registerPost, TypeOK, Keep
<1>2. ASSUME NEW p \in Posts, NEW target \in REQUEST_STATUSES,
             NEW actor \in Dids, NEW role \in Roles,
             executeTransition(p, target, actor, role)
      PROVE  TypeOK' /\ (Keep \/ \E e \in Entry : Grow(p, e))
  <2> DEFINE previous == IF status[p] = NULL THEN "open" ELSE status[p]
  <2>1. previous \in REQUEST_STATUSES
    BY DEF TypeOK
  <2>2. CASE ~canTransition(previous, target, role)
    BY <1>2, <2>1, <2>2 DEF executeTransition, TypeOK, Keep
  <2>3. CASE canTransition(previous, target, role)
    <3>1. Apply(p, createStatusTransition(previous, target, actor, role))
      BY <1>2, <2>3 DEF executeTransition
    <3>2. /\ \E e \in Entry : Grow(p, e)
          /\ status' \in [Posts -> REQUEST_STATUSES \union {NULL}]
          /\ timeline' \in [Posts -> Seq(Entry)]
      BY <2>1, <2>3, <3>1, ApplyGrows
    <3> QED
      BY <1>2, <3>2 DEF executeTransition, TypeOK
  <2> QED
    BY <2>2, <2>3
<1>3. ASSUME NEW p \in Posts, NEW assignee \in Dids, NEW assigner \in Dids,
             NEW now \in Times, assignRequest(p, assignee, assigner, now)
      PROVE  TypeOK' /\ (Keep \/ \E e \in Entry : Grow(p, e))
  <2>1. assignment' \in [Posts -> AssignmentRecord \union {NULL}]
    <3>1. [assignee |-> assignee, assigner |-> assigner, assignedAt |-> now,
           state |-> "pending", respondedAt |-> NULL] \in AssignmentRecord
      BY DEF AssignmentRecord
    <3> QED
      BY <1>3, <3>1 DEF assignRequest, TypeOK
  <2>2. CASE status[p] = "assigned"
    BY <1>3, <2>1, <2>2 DEF assignRequest, TypeOK, Keep
  <2>3. CASE status[p] # "assigned"
    <3>1. /\ status[p] \in {"triaged", "in_progress"}
          /\ Apply(p, createStatusTransition(status[p], "assigned", assigner,
                                             "coordinator"))
      BY <1>3, <2>3 DEF assignRequest
    <3>2. /\ status[p] # NULL
          /\ canTransition(status[p], "assigned", "coordinator")
      BY <3>1, FixedTransitions
    <3>3. "coordinator" \in LIFECYCLE_ROLES
      BY DEF LIFECYCLE_ROLES
    <3>4. /\ \E e \in Entry : Grow(p, e)
          /\ status' \in [Posts -> REQUEST_STATUSES \union {NULL}]
          /\ timeline' \in [Posts -> Seq(Entry)]
      BY <3>1, <3>2, <3>3, ApplyGrows
    <3> QED
      BY <1>3, <2>1, <3>4 DEF assignRequest, TypeOK
  <2> QED
    BY <2>2, <2>3
<1>4. ASSUME NEW p \in Posts, NEW actor \in Dids, NEW now \in Times,
             NEW answer \in ASSIGNMENT_STATUSES,
             NEW to \in {"in_progress", "triaged"},
             NEW role \in {"volunteer", "coordinator"},
             to = "in_progress" => role = "volunteer",
             Pending(p), Answer(p, answer, now), UNCHANGED handoff,
             Apply(p, createStatusTransition("assigned", to, actor, role))
      PROVE  TypeOK' /\ \E e \in Entry : Grow(p, e)
  <2>1. canTransition("assigned", to, role)
    BY <1>4, FixedTransitions
  <2>2. IsAnswer(createStatusTransition("assigned", to, actor, role))
    BY DEF IsAnswer, createStatusTransition
  <2>3. role \in LIFECYCLE_ROLES
    BY DEF LIFECYCLE_ROLES
  <2>4. /\ \E e \in Entry : Grow(p, e)
        /\ status' \in [Posts -> REQUEST_STATUSES \union {NULL}]
        /\ timeline' \in [Posts -> Seq(Entry)]
    BY <1>4, <2>1, <2>2, <2>3, ApplyGrows
  <2> QED
    BY <1>4, <2>4, AnswerType DEF TypeOK
<1>5. ASSUME NEW p \in Posts, NEW assignee \in Dids, NEW now \in Times,
             acceptAssignment(p, assignee, now)
      PROVE  TypeOK' /\ \E e \in Entry : Grow(p, e)
  BY <1>5, <1>4 DEF acceptAssignment
<1>6. ASSUME NEW p \in Posts, NEW assignee \in Dids, NEW now \in Times,
             declineAssignment(p, assignee, now)
      PROVE  TypeOK' /\ \E e \in Entry : Grow(p, e)
  BY <1>6, <1>4 DEF declineAssignment
<1>7. ASSUME NEW p \in Posts, NEW now \in Times, checkAssignmentTimeout(p, now)
      PROVE  TypeOK' /\ \E e \in Entry : Grow(p, e)
  <2>1. assignment[p].assigner \in Dids
    BY <1>7 DEF checkAssignmentTimeout, Pending, TypeOK, AssignmentRecord
  <2> QED
    BY <1>7, <1>4, <2>1 DEF checkAssignmentTimeout
<1>8. ASSUME NEW p \in Posts, NEW assignee \in Dids, completeHandoff(p, assignee)
      PROVE  TypeOK' /\ \E e \in Entry : Grow(p, e)
  <2>1. "volunteer" \in LIFECYCLE_ROLES
    BY DEF LIFECYCLE_ROLES
  <2>2. /\ status[p] = "in_progress"
        /\ Apply(p, createStatusTransition("in_progress", "resolved", assignee,
                                           "volunteer"))
    BY <1>8 DEF completeHandoff
  <2>3. /\ \E e \in Entry : Grow(p, e)
        /\ status' \in [Posts -> REQUEST_STATUSES \union {NULL}]
        /\ timeline' \in [Posts -> Seq(Entry)]
    BY <2>1, <2>2, FixedTransitions, ApplyGrows
  <2> QED
    BY <1>8, <2>3 DEF completeHandoff, TypeOK
<1>9. CASE UNCHANGED vars
  BY <1>9 DEF vars, TypeOK, Keep
<1> QED
  BY <1>1, <1>2, <1>3, <1>5, <1>6, <1>7, <1>8, <1>9 DEF Next

\* The initial state has the types.
LEMMA InitType == Init => TypeOK
BY DEF Init, TypeOK

\* Every variable keeps its type, whatever is called in whatever order.
THEOREM TypeCorrect == Spec => []TypeOK
<1>1. TypeOK /\ [Next]_vars => TypeOK'
  BY StepShape
<1> QED
  BY InitType, <1>1, PTL DEF Spec

-----------------------------------------------------------------------------
(* The timeline *)

\* What Append does to a timeline, position by position.
LEMMA AppendFacts ==
    ASSUME NEW s \in Seq(Entry), NEW e \in Entry
    PROVE  /\ Len(Append(s, e)) = Len(s) + 1
           /\ Append(s, e)[Len(s) + 1] = e
           /\ \A i \in 1..Len(s) : Append(s, e)[i] = s[i]
           /\ Append(s, e) # <<>>
           /\ Len(s) \in Nat
           /\ (s = <<>>) <=> (Len(s) = 0)
OBVIOUS

TimelineInv == TypeOK /\ TimelineEndsAtStatus /\ GapsOnlyAtAnswers

LEMMA TimelineStep == TimelineInv /\ [Next]_vars => TimelineInv'
<1> SUFFICES ASSUME TimelineInv, [Next]_vars
             PROVE  TimelineInv'
  OBVIOUS
<1>1. TypeOK /\ TypeOK' /\ (Keep \/ \E p \in Posts, e \in Entry : Grow(p, e))
  BY StepShape DEF TimelineInv
<1>2. CASE Keep
  <2>1. TimelineEndsAtStatus'
    <3> SUFFICES ASSUME NEW q \in Posts
                 PROVE  IF timeline'[q] = <<>>
                        THEN status'[q] \in {NULL, "open"}
                        ELSE status'[q] = timeline'[q][Len(timeline'[q])].to
      BY DEF TimelineEndsAtStatus
    <3>1. CASE timeline[q] = <<>>
      BY <1>2, <3>1 DEF Keep, TimelineInv, TimelineEndsAtStatus
    <3>2. CASE timeline[q] # <<>>
      <4>1. status[q] = timeline[q][Len(timeline[q])].to
        BY <3>2 DEF TimelineInv, TimelineEndsAtStatus
      <4>2. timeline[q][Len(timeline[q])] \in Entry
        BY <1>1, <3>2 DEF TypeOK
      <4>3. status[q] # NULL
        BY <4>1, <4>2, LifecycleConstants DEF Entry
      <4> QED
        BY <1>2, <3>2, <4>1, <4>3 DEF Keep
    <3> QED
      BY <3>1, <3>2
  <2>2. GapsOnlyAtAnswers'
    BY <1>2 DEF Keep, TimelineInv, GapsOnlyAtAnswers, Chained
  <2> QED
    BY <1>1, <2>1, <2>2 DEF TimelineInv
<1>3. ASSUME NEW p \in Posts, NEW e \in Entry, Grow(p, e)
      PROVE  TimelineInv'
  <2>1. /\ timeline'[p] = Append(timeline[p], e)
        /\ status'[p] = e.to
        /\ \A q \in Posts \ {p} : /\ timeline'[q] = timeline[q]
                                  /\ status'[q] = status[q]
        /\ timeline[p] \in Seq(Entry)
    BY <1>1, <1>3 DEF Grow, TypeOK
  <2>2. TimelineEndsAtStatus'
    BY <2>1, AppendFacts DEF TimelineInv, TimelineEndsAtStatus
  <2>3. GapsOnlyAtAnswers'
    <3> SUFFICES ASSUME NEW q \in Posts, NEW i \in 1..Len(timeline'[q])
                 PROVE  Chained(q, i)' \/ IsAnswer(timeline'[q][i])
      BY DEF GapsOnlyAtAnswers, IsAnswer
    <3>1. CASE q # p
      BY <2>1, <3>1 DEF TimelineInv, GapsOnlyAtAnswers, IsAnswer, Chained
    <3>2. CASE q = p /\ i \in 1..Len(timeline[p])
      <4>1. /\ timeline'[p][i] = timeline[p][i]
            /\ i # 1 => timeline'[p][i - 1] = timeline[p][i - 1]
        BY <2>1, <3>2, AppendFacts
      <4>2. Chained(p, i) \/ IsAnswer(timeline[p][i])
        BY <3>2 DEF TimelineInv, GapsOnlyAtAnswers, IsAnswer
      <4> QED
        BY <3>2, <4>1, <4>2 DEF Chained
    <3>3. CASE q = p /\ i = Len(timeline[p]) + 1
      <4>1. timeline'[p][i] = e
        BY <2>1, <3>3, AppendFacts
      <4>2. CASE IsAnswer(e)
        BY <3>3, <4>1, <4>2
      <4>3. CASE e.from = (IF status[p] = NULL THEN "open" ELSE status[p])
        <5>1. CASE timeline[p] = <<>>
          <6>1. i = 1 /\ e.from = "open"
            BY <2>1, <3>3, <4>3, <5>1, AppendFacts
               DEF TimelineInv, TimelineEndsAtStatus
          <6> QED
            BY <3>3, <4>1, <6>1 DEF Chained
        <5>2. CASE timeline[p] # <<>>
          <6>1. /\ i # 1
                /\ i - 1 = Len(timeline[p])
                /\ timeline'[p][i - 1] = timeline[p][Len(timeline[p])]
            BY <2>1, <3>3, <5>2, AppendFacts
          <6>2. /\ status[p] = timeline[p][Len(timeline[p])].to
                /\ timeline[p][Len(timeline[p])] \in Entry
            BY <2>1, <5>2 DEF TimelineInv, TimelineEndsAtStatus
          <6>3. status[p] # NULL
            BY <6>2, LifecycleConstants DEF Entry
          <6> QED
            BY <3>3, <4>1, <4>3, <6>1, <6>2, <6>3 DEF Chained
        <5> QED
          BY <5>1, <5>2
      <4> QED
        BY <1>3, <4>2, <4>3 DEF Grow
    <3> QED
      BY <2>1, <3>1, <3>2, <3>3, AppendFacts
  <2> QED
    BY <1>1, <2>2, <2>3 DEF TimelineInv
<1> QED
  BY <1>1, <1>2, <1>3

\* The status shown is the last entry's.
THEOREM TimelineCorrect == Spec => []TimelineEndsAtStatus
<1>1. Init => TimelineInv
  BY InitType
     DEF Init, TimelineInv, TimelineEndsAtStatus, GapsOnlyAtAnswers
<1>2. TimelineInv => TimelineEndsAtStatus
  BY DEF TimelineInv
<1> QED
  BY <1>1, <1>2, TimelineStep, PTL DEF Spec

\* The timeline is one walk through the statuses but for the entries of
\* assignment answers.
THEOREM TimelineWalks == Spec => []GapsOnlyAtAnswers
<1>1. Init => TimelineInv
  BY InitType
     DEF Init, TimelineInv, TimelineEndsAtStatus, GapsOnlyAtAnswers
<1>2. TimelineInv => GapsOnlyAtAnswers
  BY DEF TimelineInv
<1> QED
  BY <1>1, <1>2, TimelineStep, PTL DEF Spec

\* The lifecycle implements the abstract audit log: its timeline grows by one
\* lawful entry at a time, whoever writes it.
THEOREM AuditRefinement == Spec => AuditSpec
<1>1. Init => Audit!Init
  BY DEF Init, Audit!Init
<1>2. TypeOK /\ [Next]_vars => [Audit!Next]_timeline
  <2> SUFFICES ASSUME TypeOK, [Next]_vars
               PROVE  [Audit!Next]_timeline
    OBVIOUS
  <2>1. CASE Keep
    BY <2>1 DEF Keep
  <2>2. ASSUME NEW p \in Posts, NEW e \in Entry, Grow(p, e)
        PROVE  Audit!Next
    <3>1. /\ timeline'[p] = Append(timeline[p], e)
          /\ timeline[p] \in Seq(Entry)
      BY <2>2 DEF Grow, TypeOK
    <3>2. /\ timeline'[p] # <<>>
          /\ timeline'[p][Len(timeline'[p])] = e
      BY <3>1, AppendFacts
    <3>3. e \in Audit!LawfulEntry
      BY <2>2 DEF Grow, Entry, Audit!LawfulEntry, Audit!canTransition,
                  canTransition, Audit!TRANSITION_PERMISSIONS,
                  TRANSITION_PERMISSIONS, Audit!TRANSITION_GRAPH,
                  TRANSITION_GRAPH, Audit!LIFECYCLE_ROLES, LIFECYCLE_ROLES,
                  Audit!REQUEST_STATUSES, REQUEST_STATUSES,
                  Audit!Moderators, Moderators
    <3>4. Audit!Record(p)
      BY <2>2, <3>2, <3>3 DEF Grow, Audit!Record
    <3> QED
      BY <3>4 DEF Audit!Next
  <2> QED
    BY <2>1, <2>2, StepShape
<1> QED
  BY <1>1, <1>2, TypeCorrect, PTL DEF Spec, AuditSpec, Audit!Spec

-----------------------------------------------------------------------------
(* Answers *)

\* A fixed transition's Apply puts its entry in the timeline and drops none.
LEMMA ApplyEntries ==
    ASSUME TypeOK, NEW p \in Posts, NEW e \in Entry, Apply(p, e)
    PROVE  /\ e \in Entries(p)'
           /\ \A q \in Posts : Entries(q) \subseteq Entries(q)'
<1>1. /\ timeline'[p] = Append(timeline[p], e)
      /\ \A q \in Posts \ {p} : timeline'[q] = timeline[q]
      /\ timeline[p] \in Seq(Entry)
  BY DEF Apply, TypeOK
<1>2. /\ Len(timeline'[p]) = Len(timeline[p]) + 1
      /\ Len(timeline[p]) \in Nat
      /\ timeline'[p][Len(timeline[p]) + 1] = e
      /\ \A i \in 1..Len(timeline[p]) : timeline'[p][i] = timeline[p][i]
  BY <1>1, AppendFacts
<1>3. e \in Entries(p)'
  BY <1>2 DEF Entries
<1>4. Entries(p) \subseteq Entries(p)'
  BY <1>2 DEF Entries
<1>5. \A q \in Posts \ {p} : Entries(q)' = Entries(q)
  BY <1>1 DEF Entries
<1> QED
  BY <1>3, <1>4, <1>5

AnsweredInv == TypeOK /\ AnswersAreAudited

\* The steps that leave all assignments and hand-offs alone.
LEMMA AuditedByGrowth ==
    ASSUME AnswersAreAudited, UNCHANGED <<assignment, handoff>>,
           \A q \in Posts : Entries(q) \subseteq Entries(q)'
    PROVE  AnswersAreAudited'
BY DEF AnswersAreAudited, Pending, AnswerEntry, createStatusTransition

\* Post q's share of AnswersAreAudited.
Audited(q) ==
    /\ assignment[q] # NULL /\ ~Pending(q) =>
          AnswerEntry(assignment[q]) \in Entries(q)
    /\ handoff[q] # NULL =>
          createStatusTransition("in_progress", "resolved", handoff[q],
                                 "volunteer") \in Entries(q)

\* The three ways a pending offer is answered, as one.
LEMMA AnswerStep ==
    ASSUME TypeOK, AnswersAreAudited, NEW p \in Posts, Pending(p),
           NEW now \in Times, NEW answer \in {"accepted", "declined", "timed_out"},
           Answer(p, answer, now), UNCHANGED handoff,
           AnswerEntry([assignment[p] EXCEPT !.state = answer,
                                            !.respondedAt = now]) \in Entry,
           Apply(p, AnswerEntry([assignment[p] EXCEPT !.state = answer,
                                                     !.respondedAt = now]))
    PROVE  AnswersAreAudited'
<1> DEFINE e == AnswerEntry([assignment[p] EXCEPT !.state = answer,
                                                 !.respondedAt = now])
<1>1. /\ e \in Entries(p)'
      /\ \A q \in Posts : Entries(q) \subseteq Entries(q)'
  BY ApplyEntries
<1>2. answer \in ASSIGNMENT_STATUSES
  BY DEF ASSIGNMENT_STATUSES
<1>3. /\ assignment'[p] = [assignment[p] EXCEPT !.state = answer,
                                               !.respondedAt = now]
      /\ \A q \in Posts \ {p} : assignment'[q] = assignment[q]
  BY <1>2, AnswerType
<1>4. AnswerEntry(assignment'[p]) \in Entries(p)'
  BY <1>1, <1>3
<1> SUFFICES ASSUME NEW q \in Posts
             PROVE  Audited(q)'
  BY DEF AnswersAreAudited, Audited
<1>5. Audited(q)
  BY DEF AnswersAreAudited, Audited
<1>6. handoff'[q] # NULL =>
        createStatusTransition("in_progress", "resolved", handoff'[q],
                               "volunteer") \in Entries(q)'
  BY <1>1, <1>5 DEF Audited
<1>7. CASE q = p
  BY <1>4, <1>6, <1>7 DEF Audited, AnswerEntry, createStatusTransition
<1>8. CASE q # p
  BY <1>1, <1>3, <1>5, <1>6, <1>8
     DEF Audited, Pending, AnswerEntry, createStatusTransition
<1> QED
  BY <1>7, <1>8

LEMMA AnsweredStep ==
    ASSUME TypeOK, AnswersAreAudited, [Next]_vars
    PROVE  AnswersAreAudited'
<1> USE LifecycleConstants
<1>1. ASSUME NEW p \in Posts, registerPost(p)
      PROVE  AnswersAreAudited'
  BY <1>1, AuditedByGrowth DEF registerPost, Entries
<1>2. ASSUME NEW p \in Posts, NEW target \in REQUEST_STATUSES,
             NEW actor \in Dids, NEW role \in Roles,
             executeTransition(p, target, actor, role)
      PROVE  AnswersAreAudited'
  <2> DEFINE previous == IF status[p] = NULL THEN "open" ELSE status[p]
             e == createStatusTransition(previous, target, actor, role)
  <2>1. CASE UNCHANGED timeline
    BY <1>2, <2>1, AuditedByGrowth DEF executeTransition, Entries
  <2>2. CASE Apply(p, e)
    <3>1. previous \in REQUEST_STATUSES
      BY DEF TypeOK, REQUEST_STATUSES
    <3>2. e \in Entry
      BY <3>1, EntryType
    <3> QED
      BY <1>2, <2>2, <3>2, ApplyEntries, AuditedByGrowth DEF executeTransition
  <2> QED
    BY <1>2, <2>1, <2>2 DEF executeTransition
<1>3. ASSUME NEW p \in Posts, NEW assignee \in Dids, NEW assigner \in Dids,
             NEW now \in Times, assignRequest(p, assignee, assigner, now)
      PROVE  AnswersAreAudited'
  <2> DEFINE e == createStatusTransition(status[p], "assigned", assigner,
                                         "coordinator")
  <2>1. \A q \in Posts : Entries(q) \subseteq Entries(q)'
    <3>1. CASE UNCHANGED timeline
      BY <3>1 DEF Entries
    <3>2. CASE Apply(p, e)
      <4>1. status[p] \in REQUEST_STATUSES
        BY <1>3 DEF assignRequest, REQUEST_STATUSES
      <4>2. e \in Entry
        BY <4>1, EntryType DEF LIFECYCLE_ROLES, REQUEST_STATUSES
      <4> QED
        BY <3>2, <4>2, ApplyEntries
    <3> QED
      BY <1>3, <3>1, <3>2 DEF assignRequest
  <2>2. /\ assignment'[p].state = "pending"
        /\ \A q \in Posts \ {p} : assignment'[q] = assignment[q]
        /\ handoff' = handoff
    <3>1. assignment'[p] =
            [assignee |-> assignee, assigner |-> assigner, assignedAt |-> now,
             state |-> "pending", respondedAt |-> NULL]
      BY <1>3 DEF assignRequest, TypeOK
    <3> QED
      BY <1>3, <3>1 DEF assignRequest, TypeOK
  <2> SUFFICES ASSUME NEW q \in Posts
               PROVE  Audited(q)'
    BY DEF AnswersAreAudited, Audited
  <2>3. Audited(q)
    BY DEF AnswersAreAudited, Audited
  <2>4. CASE q = p
    BY <2>1, <2>2, <2>3, <2>4 DEF Audited, Pending
  <2>5. CASE q # p
    BY <2>1, <2>2, <2>3, <2>5
       DEF Audited, Pending, AnswerEntry, createStatusTransition
  <2> QED
    BY <2>4, <2>5
<1>4. ASSUME NEW p \in Posts, NEW assignee \in Dids, NEW now \in Times,
             \/ acceptAssignment(p, assignee, now)
             \/ declineAssignment(p, assignee, now)
      PROVE  AnswersAreAudited'
  <2>1. assignment[p] \in AssignmentRecord /\ assignment[p].assignee = assignee
    BY <1>4 DEF acceptAssignment, declineAssignment, Pending, TypeOK
  <2>2. CASE acceptAssignment(p, assignee, now)
    <3>1. AnswerEntry([assignment[p] EXCEPT !.state = "accepted",
                                           !.respondedAt = now])
            = createStatusTransition("assigned", "in_progress", assignee,
                                     "volunteer")
      BY <2>1 DEF AnswerEntry, AssignmentRecord
    <3>2. createStatusTransition("assigned", "in_progress", assignee,
                                 "volunteer") \in Entry
      BY EntryType DEF REQUEST_STATUSES, LIFECYCLE_ROLES
    <3> QED
      BY <2>2, <3>1, <3>2, AnswerStep DEF acceptAssignment
  <2>3. CASE declineAssignment(p, assignee, now)
    <3>1. AnswerEntry([assignment[p] EXCEPT !.state = "declined",
                                           !.respondedAt = now])
            = createStatusTransition("assigned", "triaged", assignee,
                                     "volunteer")
      BY <2>1 DEF AnswerEntry, AssignmentRecord
    <3>2. createStatusTransition("assigned", "triaged", assignee,
                                 "volunteer") \in Entry
      BY EntryType DEF REQUEST_STATUSES, LIFECYCLE_ROLES
    <3> QED
      BY <2>3, <3>1, <3>2, AnswerStep DEF declineAssignment
  <2> QED
    BY <1>4, <2>2, <2>3
<1>5. ASSUME NEW p \in Posts, NEW now \in Times, checkAssignmentTimeout(p, now)
      PROVE  AnswersAreAudited'
  <2>1. assignment[p] \in AssignmentRecord
    BY <1>5 DEF checkAssignmentTimeout, Pending, TypeOK
  <2>2. AnswerEntry([assignment[p] EXCEPT !.state = "timed_out",
                                         !.respondedAt = now])
          = createStatusTransition("assigned", "triaged",
                                   assignment[p].assigner, "coordinator")
    BY <2>1 DEF AnswerEntry, AssignmentRecord
  <2>3. createStatusTransition("assigned", "triaged", assignment[p].assigner,
                               "coordinator") \in Entry
    BY <2>1, EntryType DEF AssignmentRecord, REQUEST_STATUSES, LIFECYCLE_ROLES
  <2> QED
    BY <1>5, <2>2, <2>3, AnswerStep DEF checkAssignmentTimeout
<1>6. ASSUME NEW p \in Posts, NEW assignee \in Dids, completeHandoff(p, assignee)
      PROVE  AnswersAreAudited'
  <2> DEFINE e == createStatusTransition("in_progress", "resolved", assignee,
                                         "volunteer")
  <2>1. e \in Entry
    BY EntryType DEF REQUEST_STATUSES, LIFECYCLE_ROLES
  <2>2. /\ e \in Entries(p)'
        /\ \A q \in Posts : Entries(q) \subseteq Entries(q)'
    BY <1>6, <2>1, ApplyEntries DEF completeHandoff
  <2>3. /\ handoff'[p] = assignee
        /\ \A q \in Posts \ {p} : handoff'[q] = handoff[q]
        /\ assignment' = assignment
    BY <1>6 DEF completeHandoff, TypeOK
  <2> SUFFICES ASSUME NEW q \in Posts
               PROVE  Audited(q)'
    BY DEF AnswersAreAudited, Audited
  <2>4. Audited(q)
    BY DEF AnswersAreAudited, Audited
  <2>5. assignment'[q] # NULL /\ ~Pending(q)' =>
            AnswerEntry(assignment'[q]) \in Entries(q)'
    BY <2>2, <2>3, <2>4 DEF Audited, Pending
  <2>6. handoff'[q] # NULL =>
            createStatusTransition("in_progress", "resolved", handoff'[q],
                                   "volunteer") \in Entries(q)'
    BY <2>2, <2>3, <2>4 DEF Audited
  <2> QED
    BY <2>5, <2>6 DEF Audited, AnswerEntry, createStatusTransition
<1>7. CASE UNCHANGED vars
  BY <1>7, AuditedByGrowth DEF vars, Entries
<1> QED
  BY <1>1, <1>2, <1>3, <1>4, <1>5, <1>6, <1>7 DEF Next

\* No answer and no hand-off is lost from the timeline.
THEOREM AnswersAudited == Spec => []AnswersAreAudited
<1>1. Init => AnsweredInv
  BY InitType DEF Init, AnsweredInv, AnswersAreAudited
<1>2. AnsweredInv /\ [Next]_vars => AnsweredInv'
  BY StepShape, AnsweredStep DEF AnsweredInv
<1>3. AnsweredInv => AnswersAreAudited
  BY DEF AnsweredInv
<1> QED
  BY <1>1, <1>2, <1>3, PTL DEF Spec

-----------------------------------------------------------------------------
(* Steps *)

\* What one step may do to one post's assignment and status.
LEMMA AssignmentStep ==
    ASSUME TypeOK, [Next]_vars, NEW p \in Posts
    PROVE  \/ /\ assignment'[p] = assignment[p]
              /\ \/ status'[p] = status[p]
                 \/ status[p] \notin {"resolved", "archived"}
                 \/ status[p] = "resolved" /\ status'[p] = "archived"
           \/ /\ assignment'[p].state = "pending"
              /\ status'[p] = "assigned"
              /\ status[p] \notin {"resolved", "archived"}
           \/ Pending(p) /\ assignment'[p].state # "pending"
<1> USE LifecycleConstants
<1>1. ASSUME NEW q \in Posts, registerPost(q)
      PROVE  /\ assignment'[p] = assignment[p]
             /\ \/ status'[p] = status[p]
                \/ status[p] \notin {"resolved", "archived"}
  BY <1>1 DEF registerPost, TypeOK, REQUEST_STATUSES
<1>2. ASSUME NEW q \in Posts, NEW target \in REQUEST_STATUSES,
             NEW actor \in Dids, NEW role \in Roles,
             executeTransition(q, target, actor, role)
      PROVE  /\ assignment'[p] = assignment[p]
             /\ \/ status'[p] = status[p]
                \/ status[p] \notin {"resolved", "archived"}
                \/ status[p] = "resolved" /\ status'[p] = "archived"
  <2>1. assignment'[p] = assignment[p]
    BY <1>2 DEF executeTransition
  <2>2. CASE p # q \/ status[q] \notin {"resolved", "archived"}
    BY <1>2, <2>1, <2>2
       DEF executeTransition, Apply, createStatusTransition, TypeOK
  <2>3. CASE p = q /\ status[q] \in {"resolved", "archived"}
    <3>1. status[q] # NULL
      BY <2>3 DEF REQUEST_STATUSES
    <3>2. CASE canTransition(status[q], target, role)
      <4>1. target = status[q] \/ <<status[q], target>> \in TRANSITION_GRAPH
        BY <3>2 DEF canTransition, TRANSITION_PERMISSIONS
      <4>2. \/ target = status[q]
            \/ status[q] = "resolved" /\ target = "archived"
        BY <2>3, <4>1 DEF TRANSITION_GRAPH
      <4>3. status'[q] = target
        BY <1>2, <3>1, <3>2
           DEF executeTransition, Apply, createStatusTransition, TypeOK
      <4> QED
        BY <2>1, <2>3, <4>2, <4>3
    <3>3. CASE ~canTransition(status[q], target, role)
      BY <1>2, <2>1, <2>3, <3>1, <3>3 DEF executeTransition, TypeOK
    <3> QED
      BY <3>2, <3>3
  <2> QED
    BY <2>2, <2>3
<1>3. ASSUME NEW q \in Posts, NEW assignee \in Dids, NEW assigner \in Dids,
             NEW now \in Times, assignRequest(q, assignee, assigner, now)
      PROVE  \/ assignment'[p] = assignment[p] /\ status'[p] = status[p]
             \/ /\ assignment'[p].state = "pending"
                /\ status'[p] = "assigned"
                /\ status[p] \notin {"resolved", "archived"}
  BY <1>3 DEF assignRequest, Apply, createStatusTransition, TypeOK
<1>4. ASSUME NEW q \in Posts, NEW now \in Times, NEW to \in REQUEST_STATUSES,
             NEW answer \in {"accepted", "declined", "timed_out"},
             NEW actor \in Dids, NEW role \in LIFECYCLE_ROLES,
             Pending(q), Answer(q, answer, now),
             Apply(q, createStatusTransition("assigned", to, actor, role))
      PROVE  \/ assignment'[p] = assignment[p] /\ status'[p] = status[p]
             \/ Pending(p) /\ assignment'[p].state # "pending"
  <2>1. answer \in ASSIGNMENT_STATUSES
    BY DEF ASSIGNMENT_STATUSES
  <2>2. /\ assignment'[q] = [assignment[q] EXCEPT !.state = answer,
                                                 !.respondedAt = now]
        /\ \A r \in Posts \ {q} : assignment'[r] = assignment[r]
    BY <1>4, <2>1, AnswerType
  <2>3. assignment[q] \in AssignmentRecord
    BY <1>4 DEF Pending, TypeOK
  <2>4. assignment'[q].state = answer
    BY <2>2, <2>3 DEF AssignmentRecord
  <2> QED
    BY <1>4, <2>2, <2>4 DEF Apply, TypeOK
<1>5. ASSUME NEW q \in Posts, NEW assignee \in Dids, NEW now \in Times,
             \/ acceptAssignment(q, assignee, now)
             \/ declineAssignment(q, assignee, now)
      PROVE  \/ assignment'[p] = assignment[p] /\ status'[p] = status[p]
             \/ Pending(p) /\ assignment'[p].state # "pending"
  BY <1>4, <1>5 DEF acceptAssignment, declineAssignment, REQUEST_STATUSES,
                    LIFECYCLE_ROLES
<1>6. ASSUME NEW q \in Posts, NEW now \in Times, checkAssignmentTimeout(q, now)
      PROVE  \/ assignment'[p] = assignment[p] /\ status'[p] = status[p]
             \/ Pending(p) /\ assignment'[p].state # "pending"
  <2>1. assignment[q].assigner \in Dids
    BY <1>6 DEF checkAssignmentTimeout, Pending, TypeOK, AssignmentRecord
  <2> QED
    BY <1>4, <1>6, <2>1 DEF checkAssignmentTimeout, REQUEST_STATUSES,
                            LIFECYCLE_ROLES
<1>7. ASSUME NEW q \in Posts, NEW assignee \in Dids, completeHandoff(q, assignee)
      PROVE  /\ assignment'[p] = assignment[p]
             /\ \/ status'[p] = status[p]
                \/ status[p] \notin {"resolved", "archived"}
  BY <1>7 DEF completeHandoff, Apply, TypeOK
<1>8. CASE UNCHANGED vars
  BY <1>8 DEF vars
<1> QED
  BY <1>1, <1>2, <1>3, <1>5, <1>6, <1>7, <1>8 DEF Next

\* Of accept, decline and timeout one wins, for good.
THEOREM AnswersFinal == Spec => AnswerIsFinal
<1>1. TypeOK /\ [Next]_vars =>
        [\A p \in Posts :
            assignment[p] # NULL /\ ~Pending(p) =>
               \/ assignment'[p] = assignment[p]
               \/ assignment'[p].state = "pending" /\ status'[p] = "assigned"]_vars
  BY AssignmentStep
<1> QED
  BY <1>1, TypeCorrect, PTL DEF Spec, AnswerIsFinal

\* Only the answer to an offer that is still pending takes a request back from
\* the resolved or the archived status.
THEOREM ReopeningNeedsAnOffer == Spec => OnlyAnAnswerReopens
<1>1. TypeOK /\ [Next]_vars =>
        [\A p \in Posts :
            status[p] \in {"resolved", "archived"} /\ status'[p] # status[p] =>
               \/ status[p] = "resolved" /\ status'[p] = "archived"
               \/ Pending(p) /\ assignment'[p].state # "pending"]_vars
  BY AssignmentStep
<1> QED
  BY <1>1, TypeCorrect, PTL DEF Spec, OnlyAnAnswerReopens
=============================================================================
