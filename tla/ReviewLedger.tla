---------------------------- MODULE ReviewLedger ----------------------------
(***************************************************************************)
(* What moderation promises of its audit trail, with no queue, copies of   *)
(* items or gauge in it: a ledger per subject that only grows, by lawful   *)
(* decisions, each under a key nobody used before; and a restart goes back *)
(* to what was kept, never to less.                                        *)
(***************************************************************************)
EXTENDS Integers, Sequences

CONSTANTS
    Subjects,
    Lawful          \* the records of decisions an item's policy allows

VARIABLES ledger, kept

Init ==
    /\ ledger = [s \in Subjects |-> <<>>]
    /\ kept = ledger

Known(key) == \E s \in Subjects : \E i \in 1..Len(ledger[s]) :
                ledger[s][i].key = key

\* Some subjects get a record each, which this step leaves at the end.
Enter(subjects) ==
    LET entry(s) == ledger'[s][Len(ledger'[s])]
    IN  /\ \A s \in subjects : /\ ledger'[s] # <<>>
                               /\ entry(s) \in Lawful
                               /\ ~Known(entry(s).key)
        /\ \A s, t \in subjects : entry(s).key = entry(t).key => s = t
        /\ ledger' = [s \in Subjects |->
                        IF s \in subjects THEN Append(ledger[s], entry(s))
                                          ELSE ledger[s]]
        /\ UNCHANGED kept

Keep == kept' = ledger /\ UNCHANGED ledger

Return == ledger' = kept /\ UNCHANGED kept

Next == (\E subjects \in SUBSET Subjects : Enter(subjects)) \/ Keep \/ Return

Spec == Init /\ [][Next]_<<ledger, kept>>
=============================================================================
