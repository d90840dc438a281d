---------------------------- MODULE Notifications ----------------------------
(***************************************************************************)
(* services/api/src/notification-service.ts with the rules it repeats from *)
(* packages/shared/src/notifications.ts: notifications of users, their     *)
(* preferences, the dedupe cache, and delivery attempts with retries.      *)
(*                                                                         *)
(* Preferences are the external channels that are enabled for the types    *)
(* the model sends.  External: who reports that a delivery arrived or      *)
(* failed, as often and as late as it likes.                               *)
(***************************************************************************)
EXTENDS Null, Integers, Sequences, FiniteSets

CONSTANTS
    Users,          \* DIDs
    Types,          \* notification types
    Contexts,       \* contextKeys
    External,       \* the channels besides in_app
    MaxAttempts,    \* retryPolicy.maxAttempts
    DedupeWindow,   \* DEDUPE_WINDOW_MS
    LastTime,       \* bound: the clock
    MaxSent,        \* bound: notifications
    MaxReports      \* bound: failures and confirmations reported

NotificationConstants ==
    /\ {MaxAttempts, DedupeWindow} \subseteq Nat \ {0}
    /\ {LastTime, MaxSent, MaxReports} \subseteq Nat
    /\ IsFiniteSet(External) /\ "in_app" \notin External
    /\ NULL \notin Contexts \union Nat

VARIABLES
    time,           \* the latest time a caller has given
    notifications,  \* in the order they were created, with their attempts
    dedupeCache,    \* time of the last notification of a key, or NULL
    preferences,    \* of each user
    deliveries      \* totals of DeliveryReliabilityMetrics

notifyVars == <<time, notifications, dedupeCache, preferences, deliveries>>

DeliveryChannel == External \union {"in_app"}
Attempt == [channel : DeliveryChannel, attemptNumber : 1..MaxAttempts,
            status : {"pending", "sent", "delivered", "failed"}]
Notification == [user : Users, type : Types,
                 context : Contexts \union {NULL}, urgent : BOOLEAN,
                 read : BOOLEAN, archived : BOOLEAN, at : 0..LastTime,
                 attempts : Seq(Attempt)]
\* An update without channels leaves them undefined: NULL.
Preferences == [channels : (SUBSET External) \union {NULL},
                globalMute : BOOLEAN]

NotifyTypeOK ==
    /\ time \in 0..LastTime
    /\ notifications \in Seq(Notification)
    /\ dedupeCache \in [Users \X Types \X Contexts -> (0..LastTime) \union {NULL}]
    /\ preferences \in [Users -> Preferences]
    /\ deliveries \in [{"sent", "delivered", "failed", "retried"} -> Nat]

NotifyInit ==
    /\ time = 0
    /\ notifications = <<>>
    /\ dedupeCache = [k \in Users \X Types \X Contexts |-> NULL]
    /\ preferences = [u \in Users |-> [channels |-> {}, globalMute |-> FALSE]]
    /\ deliveries = [m \in {"sent", "delivered", "failed", "retried"} |-> 0]

-----------------------------------------------------------------------------
(* Sending *)

\* Without channels the loop over them throws; a global mute answers before
\* the loop, unless the notification is urgent.
Unresolvable(u, urgent) ==
    /\ preferences[u].channels = NULL
    /\ urgent \/ ~preferences[u].globalMute

resolveChannels(u, urgent) ==
    {"in_app"} \union IF preferences[u].globalMute /\ ~urgent THEN {}
                      ELSE preferences[u].channels

\* Faulty variant: one that was read can be sent again.
answeredByUnread(u, t, c) ==
    /\ c # NULL
    /\ dedupeCache[<<u, t, c>>] # NULL
    /\ time - dedupeCache[<<u, t, c>>] < DedupeWindow
    /\ \E n \in 1..Len(notifications) :
          /\ notifications[n].user = u /\ notifications[n].type = t
          /\ ~notifications[n].archived /\ ~notifications[n].read

\* The key was used within the window and the user has some notification of
\* the type that is not archived, of whatever context.
Deduplicated(u, t, c) ==
    /\ c # NULL
    /\ dedupeCache[<<u, t, c>>] # NULL
    /\ time - dedupeCache[<<u, t, c>>] < DedupeWindow
    /\ \E n \in 1..Len(notifications) :
          /\ notifications[n].user = u /\ notifications[n].type = t
          /\ ~notifications[n].archived

\* One attempt per channel; in_app is delivered at once.
FirstAttempt(channel) ==
    [channel |-> channel, attemptNumber |-> 1,
     status |-> IF channel = "in_app" THEN "delivered" ELSE "sent"]

\* in_app first; the order of the others is that of the preferences.
AttemptsFor(channels) ==
    {seq \in [1..Cardinality(channels) -> channels] :
        /\ seq[1] = "in_app"
        /\ \A i, j \in DOMAIN seq : seq[i] = seq[j] => i = j}

\* The notification is stored, and its key cached, before the channels are
\* resolved: where that throws, both stay and no attempt is made.
sendNotification(u, t, c, urgent) ==
    /\ Len(notifications) < MaxSent
    /\ ~Deduplicated(u, t, c)
    /\ dedupeCache' = IF c = NULL THEN dedupeCache
                      ELSE [dedupeCache EXCEPT ![<<u, t, c>>] = time]
    /\ LET new(attempts) ==
              Append(notifications,
                     [user |-> u, type |-> t, context |-> c, urgent |-> urgent,
                      read |-> FALSE, archived |-> FALSE, at |-> time,
                      attempts |-> attempts])
       IN \/ /\ Unresolvable(u, urgent)
             /\ notifications' = new(<<>>)
             /\ UNCHANGED deliveries
          \/ /\ ~Unresolvable(u, urgent)
             /\ \E order \in AttemptsFor(resolveChannels(u, urgent)) :
                   /\ notifications' =
                         new([k \in DOMAIN order |-> FirstAttempt(order[k])])
                   /\ deliveries' = [deliveries EXCEPT
                         !.sent = @ + Len(order), !.delivered = @ + 1]
    /\ UNCHANGED <<time, preferences>>

-----------------------------------------------------------------------------
(* The user's controls *)

markRead(n, read) ==
    /\ notifications' = [notifications EXCEPT ![n].read = read]
    /\ UNCHANGED <<time, dedupeCache, preferences, deliveries>>

markAllRead(u) ==
    /\ notifications' = [n \in 1..Len(notifications) |->
          IF notifications[n].user = u /\ ~notifications[n].archived
          THEN [notifications[n] EXCEPT !.read = TRUE] ELSE notifications[n]]
    /\ UNCHANGED <<time, dedupeCache, preferences, deliveries>>

archiveNotification(n) ==
    /\ notifications' = [notifications EXCEPT ![n].archived = TRUE]
    /\ UNCHANGED <<time, dedupeCache, preferences, deliveries>>

\* The route passes both fields on, absent ones as undefined.
updatePreferences(u, channels, mute) ==
    /\ preferences' = [preferences EXCEPT ![u] =
          [channels |-> channels, globalMute |-> mute]]
    /\ UNCHANGED <<time, notifications, dedupeCache, deliveries>>

-----------------------------------------------------------------------------
(* What is reported of deliveries *)

Reports == deliveries.failed + deliveries.delivered

\* Faulty variant: a retry starts counting from one.
canRetryEach(attemptNumber) == attemptNumber <= MaxAttempts

canRetryDelivery(attemptNumber) == attemptNumber < MaxAttempts

\* Whatever the attempt's status; the retry waits as 'pending'.
failDelivery(n, a) ==
    LET attempt == notifications[n].attempts[a]
        retry == canRetryDelivery(attempt.attemptNumber)
        failed == [notifications[n].attempts EXCEPT ![a].status = "failed"]
    IN /\ Reports < MaxReports
       /\ notifications' = [notifications EXCEPT ![n].attempts =
             IF retry
             THEN Append(failed,
                         [channel |-> attempt.channel, status |-> "pending",
                          attemptNumber |-> attempt.attemptNumber + 1])
             ELSE failed]
       /\ deliveries' = [deliveries EXCEPT
             !.failed = @ + 1, !.retried = @ + IF retry THEN 1 ELSE 0]
       /\ UNCHANGED <<time, dedupeCache, preferences>>

confirmDelivery(n, a) ==
    /\ Reports < MaxReports
    /\ notifications' = [notifications EXCEPT
          ![n].attempts[a].status = "delivered"]
    /\ deliveries' = [deliveries EXCEPT !.delivered = @ + 1]
    /\ UNCHANGED <<time, dedupeCache, preferences>>

clockAdvances ==
    /\ time < LastTime
    /\ time' = time + 1
    /\ UNCHANGED <<notifications, dedupeCache, preferences, deliveries>>

NotifyNext ==
    \/ \E u \in Users, t \in Types, c \in Contexts \union {NULL},
          urgent \in BOOLEAN : sendNotification(u, t, c, urgent)
    \/ \E n \in 1..Len(notifications) :
          \/ \E read \in BOOLEAN : markRead(n, read)
          \/ archiveNotification(n)
          \/ \E a \in 1..Len(notifications[n].attempts) :
                failDelivery(n, a) \/ confirmDelivery(n, a)
    \/ \E u \in Users : markAllRead(u)
    \/ \E u \in Users, channels \in (SUBSET External) \union {NULL},
          mute \in BOOLEAN : updatePreferences(u, channels, mute)
    \/ clockAdvances

NotifySpec == NotifyInit /\ [][NotifyNext]_notifyVars

-----------------------------------------------------------------------------
(* Two notifications of one key that the user still sees are a dedupe       *)
(* window apart, though the cache is one entry per key, is not refreshed by *)
(* what it holds back, and answers only while something of the type is not  *)
(* archived (sendNotification).                                             *)
DuplicatesAreApart ==
    \A m, n \in 1..Len(notifications) :
        LET a == notifications[m]
            b == notifications[n]
        IN /\ m < n /\ a.context # NULL
           /\ <<a.user, a.type, a.context>> = <<b.user, b.type, b.context>>
           /\ ~a.archived
           => b.at - a.at >= DedupeWindow

\* Where the attempts are: first ones and retries.
Places == UNION {{n} \X (1..Len(notifications[n].attempts)) :
                  n \in 1..Len(notifications)}
Firsts == {p \in Places : notifications[p[1]].attempts[p[2]].attemptNumber = 1}
Retries == Places \ Firsts

\* Each attempt but a first one has one before it.
Follow(attempts) ==
    \A a \in 1..Len(attempts) :
        attempts[a].attemptNumber # 1 =>
            /\ attempts[a].attemptNumber <= MaxAttempts
            /\ \E b \in 1..(a - 1) :
                  /\ attempts[b].channel = attempts[a].channel
                  /\ attempts[b].attemptNumber = attempts[a].attemptNumber - 1

(* However often and late failures are reported, a retry follows an attempt *)
(* of the same channel one number below it, no number is beyond the policy, *)
(* and the totals count attempts made (failDelivery, createDeliveryAttempt).*)
RetriesFollowFailures ==
    /\ \A n \in 1..Len(notifications) : Follow(notifications[n].attempts)
    /\ deliveries.sent = Cardinality(Firsts)
    /\ deliveries.retried = Cardinality(Retries)
    /\ deliveries.retried <= deliveries.failed

(* No duplicate is sent, and no attempt is made that the policy forbids.    *)
DeliveriesHold == DuplicatesAreApart /\ RetriesFollowFailures

(* packages/shared/src/notifications.ts:286 says 'Urgent notifications      *)
(* always go to in_app regardless of mute'.                                 *)
UrgentGoesInApp ==
    \A n \in 1..Len(notifications) :
        notifications[n].urgent =>
            \E a \in 1..Len(notifications[n].attempts) :
                notifications[n].attempts[a].channel = "in_app"
=============================================================================
