--------------------------- MODULE LifecycleGraph ---------------------------
(***************************************************************************)
(* The request lifecycle of packages/shared/src/lifecycle.ts: statuses,     *)
(* roles, the transition graph and the permission table.  The table is a   *)
(* set of triples; a transition the table does not list is disallowed.     *)
(***************************************************************************)

REQUEST_STATUSES ==
    {"open", "triaged", "assigned", "in_progress", "resolved", "archived"}

LIFECYCLE_ROLES ==
    {"requester", "volunteer", "coordinator", "moderator", "admin"}

ASSIGNMENT_STATUSES == {"pending", "accepted", "declined", "timed_out"}

TRANSITION_GRAPH ==
    {<<"open", "triaged">>, <<"open", "resolved">>, <<"open", "archived">>,
     <<"triaged", "assigned">>, <<"triaged", "resolved">>,
     <<"triaged", "archived">>,
     <<"assigned", "in_progress">>, <<"assigned", "resolved">>,
     <<"assigned", "archived">>, <<"assigned", "triaged">>,
     <<"in_progress", "assigned">>, <<"in_progress", "resolved">>,
     <<"in_progress", "archived">>,
     <<"resolved", "archived">>}

Moderators == {"moderator", "admin"}

\* <<from, to, role>>: "role" may take a request from "from" to "to".
TRANSITION_PERMISSIONS ==
    {t \in TRANSITION_GRAPH \X LIFECYCLE_ROLES :
        \/ t[2] \in Moderators
        \/ t[2] = "coordinator" /\ (t[1][2] # "archived" \/ t[1][1] = "resolved")
        \/ t[2] = "volunteer" /\ t[1] \in {<<"assigned", "in_progress">>,
                                           <<"assigned", "resolved">>,
                                           <<"assigned", "triaged">>,
                                           <<"in_progress", "resolved">>}
        \/ t[2] = "requester" /\ t[1] \in {<<"open", "resolved">>,
                                           <<"in_progress", "resolved">>}}

canTransition(current, target, role) ==
    \/ current = target
    \/ <<<<current, target>>, role>> \in TRANSITION_PERMISSIONS
=============================================================================
