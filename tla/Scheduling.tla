----------------------------- MODULE Scheduling -----------------------------
(***************************************************************************)
(* services/api/src/scheduling-service.ts with the rules it repeats from   *)
(* packages/shared/src/scheduling.ts: availability windows, shifts, their  *)
(* reminders, and the check for no-shows.                                  *)
(*                                                                         *)
(* Times are slots.  A caller says what time it is; calls come in the      *)
(* order of their times.                                                   *)
(***************************************************************************)
EXTENDS Null, Integers, FiniteSets

CONSTANTS
    Windows,        \* bound: ids of availability windows
    Shifts,         \* bound: ids of shifts
    Volunteers,     \* DIDs
    LeadTimes,      \* reminder lead times
    Grace,          \* NO_SHOW_GRACE_MS
    LastSlot        \* bound: the clock and the times of shifts

VARIABLES
    clock,          \* the latest time a caller has given
    windows,        \* availability: NULL, "active" or "inactive"
    shifts,         \* the shift of each id, or NULL
    reminders,      \* status of the reminder of a shift for each lead time
    noShowEvents,   \* the shifts found missed
    reported        \* pairs <<candidate, existing>> answered as conflicts

scheduleVars == <<clock, windows, shifts, reminders, noShowEvents, reported>>

Slot == 0..LastSlot
ShiftStatus == {"scheduled", "confirmed", "in_progress", "completed",
                "missed", "cancelled"}
Shift == [volunteer : Volunteers, start : Slot, end : Slot,
          status : ShiftStatus]

SchedulingConstants ==
    /\ LeadTimes \subseteq Nat
    /\ Grace \in Nat
    /\ LastSlot \in Nat
    /\ NULL \notin Shifts \union Volunteers \union Shift

ScheduleTypeOK ==
    /\ clock \in Slot
    /\ windows \in [Windows -> {NULL, "active", "inactive"}]
    /\ shifts \in [Shifts -> Shift \union {NULL}]
    /\ reminders \in [Shifts -> [LeadTimes ->
                          {NULL, "pending", "sent", "acknowledged"}]]
    /\ noShowEvents \subseteq Shifts
    /\ reported \subseteq Shifts \X Shifts

ScheduleInit ==
    /\ clock = 0
    /\ windows = [w \in Windows |-> NULL]
    /\ shifts = [s \in Shifts |-> NULL]
    /\ reminders = [s \in Shifts |-> [l \in LeadTimes |-> NULL]]
    /\ noShowEvents = {}
    /\ reported = {}

Assigned == {s \in Shifts : shifts[s] # NULL}

-----------------------------------------------------------------------------
(* Availability *)

addAvailabilityWindow(w) ==
    /\ windows[w] = NULL
    /\ windows' = [windows EXCEPT ![w] = "active"]
    /\ UNCHANGED <<clock, shifts, reminders, noShowEvents, reported>>

\* An update may activate what was removed.
updateAvailabilityWindow(w, active) ==
    /\ windows[w] # NULL
    /\ windows' = [windows EXCEPT ![w] = active]
    /\ UNCHANGED <<clock, shifts, reminders, noShowEvents, reported>>

removeAvailabilityWindow(w) == updateAvailabilityWindow(w, "inactive")

-----------------------------------------------------------------------------
(* Shifts *)

\* Faulty variant: shifts that touch count as one after the other only if the
\* candidate is the later one.
overlapsLater(start, end, other) == start < other.end /\ other.start <= start

hasTimeOverlap(start, end, other) == start < other.end /\ other.start < end

\* Shifts of the volunteer that are neither cancelled nor missed.
Conflicts(v, start, end) ==
    {s \in Assigned : /\ shifts[s].volunteer = v
                      /\ shifts[s].status \notin {"cancelled", "missed"}
                      /\ hasTimeOverlap(start, end, shifts[s])}

\* The shift is assigned whatever conflicts the answer lists.
assignShift(s, v, start, end, leads) ==
    /\ shifts[s] = NULL
    /\ reported' = reported \union ({s} \X Conflicts(v, start, end))
    /\ shifts' = [shifts EXCEPT ![s] =
          [volunteer |-> v, start |-> start, end |-> end,
           status |-> "scheduled"]]
    /\ reminders' = [reminders EXCEPT ![s] = [l \in LeadTimes |->
          IF l \in leads THEN "pending" ELSE NULL]]
    /\ UNCHANGED <<clock, windows, noShowEvents>>

NextStatus == [
    scheduled |-> {"confirmed", "cancelled", "missed"},
    confirmed |-> {"in_progress", "cancelled", "missed"},
    in_progress |-> {"completed", "cancelled"},
    completed |-> {}, missed |-> {}, cancelled |-> {}]

\* Faulty variant: what was cancelled can be scheduled again.
reschedulable(from, to) ==
    from = to \/ to \in NextStatus[from] \/ <<from, to>> = <<"cancelled", "scheduled">>

isValidShiftTransition(from, to) == from = to \/ to \in NextStatus[from]

transitionShift(s, status) ==
    /\ s \in Assigned
    /\ isValidShiftTransition(shifts[s].status, status)
    /\ shifts' = [shifts EXCEPT ![s].status = status]
    /\ UNCHANGED <<clock, windows, reminders, noShowEvents, reported>>

isNoShow(shift) ==
    /\ shift.status \in {"scheduled", "confirmed"}
    /\ clock > shift.start + Grace

\* One pass over all shifts.
checkNoShows ==
    LET missed == {s \in Assigned : isNoShow(shifts[s])}
    IN /\ shifts' = [s \in Shifts |->
             IF s \in missed THEN [shifts[s] EXCEPT !.status = "missed"]
             ELSE shifts[s]]
       /\ noShowEvents' = noShowEvents \union missed
       /\ UNCHANGED <<clock, windows, reminders, reported>>

-----------------------------------------------------------------------------
(* Reminders *)

\* The status of the shift plays no part.
processDueReminders ==
    /\ reminders' = [s \in Shifts |-> [l \in LeadTimes |->
          IF reminders[s][l] = "pending" /\ clock >= shifts[s].start - l
          THEN "sent" ELSE reminders[s][l]]]
    /\ UNCHANGED <<clock, windows, shifts, noShowEvents, reported>>

acknowledgeReminder(s, l) ==
    /\ reminders[s][l] = "sent"
    /\ reminders' = [reminders EXCEPT ![s][l] = "acknowledged"]
    /\ UNCHANGED <<clock, windows, shifts, noShowEvents, reported>>

timePasses ==
    /\ clock < LastSlot
    /\ clock' = clock + 1
    /\ UNCHANGED <<windows, shifts, reminders, noShowEvents, reported>>

ScheduleNext ==
    \/ \E w \in Windows : \/ addAvailabilityWindow(w)
                          \/ removeAvailabilityWindow(w)
                          \/ \E active \in {"active", "inactive"} :
                                updateAvailabilityWindow(w, active)
    \/ \E s \in Shifts, v \in Volunteers, start, end \in Slot,
          leads \in SUBSET LeadTimes :
          assignShift(s, v, start, end, leads)
    \/ \E s \in Shifts, status \in ShiftStatus : transitionShift(s, status)
    \/ checkNoShows
    \/ processDueReminders
    \/ \E s \in Shifts, l \in LeadTimes : acknowledgeReminder(s, l)
    \/ timePasses

ScheduleSpec == ScheduleInit /\ [][ScheduleNext]_scheduleVars

-----------------------------------------------------------------------------
(* Whoever assigned a shift was told of every shift of the volunteer it     *)
(* still clashes with: the answer of assignShift leaves out what is         *)
(* cancelled or missed, and nothing that was left out can come back.  What  *)
(* was found missed stays missed (detectConflicts, isValidShiftTransition,  *)
(* checkNoShows).                                                           *)
ClashesWereReported ==
    /\ \A s, t \in Assigned :
          /\ s # t
          /\ shifts[s].volunteer = shifts[t].volunteer
          /\ {shifts[s].status, shifts[t].status}
                \intersect {"cancelled", "missed"} = {}
          /\ shifts[s].start < shifts[t].end /\ shifts[t].start < shifts[s].end
          => <<s, t>> \in reported \/ <<t, s>> \in reported
    /\ \A s \in noShowEvents : shifts[s].status = "missed"
=============================================================================
