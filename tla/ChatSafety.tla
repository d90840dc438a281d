----------------------------- MODULE ChatSafety -----------------------------
(***************************************************************************)
(* ChatSafetyControls of packages/shared/src/messaging-safety.ts: blocks,  *)
(* duplicate and rate windows, keyword flags, suspicious patterns and the  *)
(* moderation signals they queue.                                          *)
(*                                                                         *)
(* A topic is a conversation with a normalised text, the key of a          *)
(* duplicate window.  A message is stamped with the clock, as it is when   *)
(* its caller gives no sentAt.  The times in a window are here the places  *)
(* of the messages they are the times of.                                  *)
(***************************************************************************)
EXTENDS Integers, Sequences, FiniteSets

CONSTANTS
    Senders,            \* DIDs
    Topics,             \* a conversation with a text
    Abusive,            \* the topics whose text holds a keyword
    MaxMessages,        \* maxMessagesPerWindow
    Window,             \* windowMs
    MaxDuplicates,      \* maxDuplicateMessages
    DuplicateWindow,    \* duplicateWindowMs
    Threshold,          \* suspiciousSignalThreshold
    LastNow,            \* bound: the clock
    MaxEvaluations      \* bound: messages and reports

SafetyConstants ==
    /\ Abusive \subseteq Topics
    /\ {MaxMessages, MaxDuplicates, Threshold} \subseteq Nat \ {0}
    /\ {Window, DuplicateWindow, LastNow, MaxEvaluations} \subseteq Nat

VARIABLES
    now,                 \* the clock
    blockedParticipants, \* whom each sender has blocked
    evaluations,         \* history: every message that was evaluated
    sendWindows,         \* allowed messages of a sender
    duplicateWindows,    \* a sender's messages on a topic
    incidentWindows,     \* suspiciousIncidentWindows
    moderationSignals,   \* number of signals queued
    metrics,             \* ChatSafetyMetrics
    reports,             \* number of reports
    drained              \* number of signals handed out so far

safetyVars == <<now, blockedParticipants, evaluations, sendWindows,
                duplicateWindows, incidentWindows, moderationSignals, metrics,
                reports, drained>>

Moment == 0..LastNow
Outcome == {"blockedByRelationship", "duplicateBlocked", "rateLimited",
            "abuseKeywordFlags", "ok"}

SafetyTypeOK ==
    /\ now \in Moment
    /\ blockedParticipants \in [Senders -> SUBSET Senders]
    /\ evaluations \in Seq([sender : Senders, topic : Topics, at : Moment,
                         outcome : Outcome])
    /\ sendWindows \in [Senders -> SUBSET (1..Len(evaluations))]
    /\ duplicateWindows \in [Senders -> [Topics -> SUBSET (1..Len(evaluations))]]
    /\ incidentWindows \in [Senders -> SUBSET (1..Len(evaluations))]
    /\ {moderationSignals, reports, drained} \subseteq Nat
    /\ metrics \in [Outcome \union {"evaluated", "suspiciousSignals"} -> Nat]

SafetyInit ==
    /\ now = 0
    /\ blockedParticipants = [s \in Senders |-> {}]
    /\ evaluations = <<>>
    /\ sendWindows = [s \in Senders |-> {}]
    /\ duplicateWindows = [s \in Senders |-> [t \in Topics |-> {}]]
    /\ incidentWindows = [s \in Senders |-> {}]
    /\ moderationSignals = 0
    /\ metrics = [m \in Outcome \union {"evaluated", "suspiciousSignals"} |-> 0]
    /\ reports = 0
    /\ drained = 0

-----------------------------------------------------------------------------
(* The windows *)

Recent(window, width) == {k \in window : now - evaluations[k].at <= width}

Duplicates(s, t) == Recent(duplicateWindows[s][t], DuplicateWindow)

\* Faulty variant: a message leaves the window in the moment it still counts.
sendsBefore(s) == {k \in sendWindows[s] : now - evaluations[k].at < Window}

Sends(s) == Recent(sendWindows[s], Window)

\* The place of the message that is being evaluated.
Place == Len(evaluations) + 1

\* trackSuspiciousIncident: the window with the incident in it.
Incidents(s) ==
    Recent(incidentWindows[s],
           IF Window > DuplicateWindow THEN Window ELSE DuplicateWindow)
        \union {Place}

Blocked(s, r) == r \in blockedParticipants[s] \/ s \in blockedParticipants[r]

\* Faulty variant: the incidents that made a signal stay in their window.
windowKept(s, suspicious) == Incidents(s)

\* The incidents that make a signal are used up.
WindowAfter(s, suspicious) == IF suspicious THEN {} ELSE Incidents(s)

\* The checks in their order; the first that applies decides.
OutcomeOf(s, r, t) ==
    IF Blocked(s, r) THEN "blockedByRelationship"
    ELSE IF Cardinality(Duplicates(s, t)) >= MaxDuplicates THEN "duplicateBlocked"
    ELSE IF Cardinality(Sends(s)) >= MaxMessages THEN "rateLimited"
    ELSE IF t \in Abusive THEN "abuseKeywordFlags" ELSE "ok"

Allowed(outcome) == outcome \in {"abuseKeywordFlags", "ok"}

-----------------------------------------------------------------------------
(* The operations *)

Requested == metrics.evaluated + reports

\* A message that is rate limited has its place in the duplicate window
\* already; one between blocked participants touches neither window.
evaluateOutboundMessage(s, r, t) ==
    LET outcome == OutcomeOf(s, r, t)
        suspicious == outcome # "ok" /\ Cardinality(Incidents(s)) >= Threshold
        counted == {"evaluated", outcome}
            \union IF suspicious THEN {"suspiciousSignals"} ELSE {}
    IN /\ Requested < MaxEvaluations
       /\ metrics' = [m \in DOMAIN metrics |->
             IF m \in counted THEN metrics[m] + 1 ELSE metrics[m]]
       /\ duplicateWindows' =
             IF outcome = "blockedByRelationship" THEN duplicateWindows
             ELSE [duplicateWindows EXCEPT ![s][t] =
                   IF outcome = "duplicateBlocked" THEN Duplicates(s, t)
                   ELSE Duplicates(s, t) \union {Place}]
       /\ sendWindows' =
             IF outcome \in {"blockedByRelationship", "duplicateBlocked"}
             THEN sendWindows
             ELSE [sendWindows EXCEPT ![s] =
                   IF Allowed(outcome) THEN Sends(s) \union {Place}
                   ELSE Sends(s)]
       /\ incidentWindows' =
             IF outcome = "ok" THEN incidentWindows
             ELSE [incidentWindows EXCEPT ![s] = WindowAfter(s, suspicious)]
       /\ moderationSignals' = moderationSignals
             + (IF outcome = "abuseKeywordFlags" THEN 1 ELSE 0)
             + (IF suspicious THEN 1 ELSE 0)
       /\ evaluations' = Append(evaluations, [sender |-> s, topic |-> t, at |-> now,
                                        outcome |-> outcome])
       /\ UNCHANGED <<now, blockedParticipants, reports, drained>>

blockParticipant(s, r) ==
    /\ blockedParticipants' = [blockedParticipants EXCEPT ![s] = @ \union {r}]
    /\ UNCHANGED <<now, evaluations, sendWindows, duplicateWindows,
                   incidentWindows, moderationSignals, metrics, reports, drained>>

reportAbuse ==
    /\ Requested < MaxEvaluations
    /\ reports' = reports + 1
    /\ moderationSignals' = moderationSignals + 1
    /\ UNCHANGED <<now, blockedParticipants, evaluations, sendWindows,
                   duplicateWindows, incidentWindows, metrics, drained>>

\* The route answers with the number of signals; the signals are gone.
drainModerationSignals ==
    /\ drained' = drained + moderationSignals
    /\ moderationSignals' = 0
    /\ UNCHANGED <<now, blockedParticipants, evaluations, sendWindows,
                   duplicateWindows, incidentWindows, metrics, reports>>

tick ==
    /\ now < LastNow
    /\ now' = now + 1
    /\ UNCHANGED <<blockedParticipants, evaluations, sendWindows,
                   duplicateWindows, incidentWindows, moderationSignals, metrics,
                   reports, drained>>

SafetyNext ==
    \/ \E s, r \in Senders, t \in Topics : evaluateOutboundMessage(s, r, t)
    \/ \E s, r \in Senders : blockParticipant(s, r)
    \/ reportAbuse
    \/ drainModerationSignals
    \/ tick

SafetySpec == SafetyInit /\ [][SafetyNext]_safetyVars

-----------------------------------------------------------------------------
(* In no window do more messages of a sender pass, or more of them on one   *)
(* topic, than the configuration allows: the windows, which lose entries    *)
(* and hold messages that did not pass, agree with what really passed.      *)
LimitsHold ==
    \A s \in Senders, from \in Moment :
        LET passed(width) ==
              {k \in 1..Len(evaluations) :
                  /\ evaluations[k].sender = s /\ Allowed(evaluations[k].outcome)
                  /\ evaluations[k].at \in from..(from + width)}
        IN /\ Cardinality(passed(Window)) <= MaxMessages
           /\ \A t \in Topics :
                 Cardinality({k \in passed(DuplicateWindow) : evaluations[k].topic = t})
                 <= MaxDuplicates

(* Every signal has its cause and every cause its signal: a keyword, a      *)
(* report or a whole threshold of incidents of one sender, none of them     *)
(* used twice (trackSuspiciousIncident, drainModerationSignals).            *)
SignalsAddUp ==
    /\ moderationSignals + drained =
          metrics.abuseKeywordFlags + metrics.suspiciousSignals + reports
    /\ \A s \in Senders :
          /\ Cardinality(incidentWindows[s]) < Threshold
          /\ Threshold * metrics.suspiciousSignals + Cardinality(incidentWindows[s])
                <= metrics.evaluated - metrics.ok

(* Both, of one service: limits and signals.                                *)
SafetyHolds == LimitsHold /\ SignalsAddUp
=============================================================================
