------------------------------- MODULE Inbox --------------------------------
(***************************************************************************)
(* The inbox of a user, services/api/src/inbox-service.ts with the filters *)
(* of packages/shared/src/inbox.ts, and a reader who follows the cursors    *)
(* of one filter from page to page.                                         *)
(*                                                                         *)
(* Nothing in the repository adds items: whoever does gives each an id of   *)
(* its own.  The types of a filter are told apart by nothing, so each       *)
(* filter has one.                                                          *)
(***************************************************************************)
EXTENDS Null, Integers, Sequences, FiniteSets, Functions, Listing

CONSTANTS
    ItemIds,
    limit          \* of the pages

InboxConstants == limit \in 1..100 /\ NULL \notin ItemIds

VARIABLES
    inbox,          \* the user's items, the newest first
    reader,         \* a client that reads on
    shownIds        \* history: what the pages of its run showed, in order

inboxVars == <<inbox, reader, shownIds>>

ItemType == {"requests", "messages", "assignments"}
InboxFilter == ItemType \union {"all", "unread"}
InboxItem == [id : ItemIds, type : ItemType, read : BOOLEAN]

\* owed: what the filter held when the run began.
Reader == [filter : InboxFilter, reading : BOOLEAN,
           cursor : ItemIds \union {NULL}, owed : SUBSET ItemIds]

idsOf(items) == {items[k].id : k \in DOMAIN items}

InboxTypeOK ==
    /\ inbox \in Seq(InboxItem)
    /\ \A j, k \in DOMAIN inbox : inbox[j].id = inbox[k].id => j = k
    /\ reader \in Reader
    /\ shownIds \in Seq(ItemIds)

InboxInit ==
    /\ inbox = <<>>
    /\ reader = [filter |-> "all", reading |-> FALSE, cursor |-> NULL, owed |-> {}]
    /\ shownIds = <<>>

-----------------------------------------------------------------------------
\* Added in front.
addItem(id, type) ==
    /\ id \notin idsOf(inbox)
    /\ inbox' = <<[id |-> id, type |-> type, read |-> FALSE]>> \o inbox
    /\ UNCHANGED <<reader, shownIds>>

markItemRead(id) ==
    /\ id \in idsOf(inbox)
    /\ inbox' = [k \in DOMAIN inbox |->
          [inbox[k] EXCEPT !.read = @ \/ inbox[k].id = id]]
    /\ UNCHANGED <<reader, shownIds>>

markAllItemsRead ==
    /\ inbox' = [k \in DOMAIN inbox |-> [inbox[k] EXCEPT !.read = TRUE]]
    /\ UNCHANGED <<reader, shownIds>>

matchesFilter(item, filter) ==
    CASE filter = "all" -> TRUE
      [] filter = "unread" -> ~item.read
      [] OTHER -> item.type = filter

filtered(filter) ==
    At(inbox, {k \in DOMAIN inbox : matchesFilter(inbox[k], filter)})

\* Faulty variant: a cursor that is gone ends the pages.
startAtEnd(items, cursor) ==
    LET places == {k \in DOMAIN items : items[k].id = cursor}
    IN IF cursor = NULL THEN 0
       ELSE IF places = {} THEN Len(items) ELSE CHOOSE k \in places : TRUE

\* Behind the cursor, and from the start when the filter has lost it.
startIndex(items, cursor) ==
    LET places == {k \in DOMAIN items : items[k].id = cursor}
    IN IF places = {} THEN 0 ELSE CHOOSE k \in places : TRUE

\* One page, and the cursor of the next.
getInbox(filter, cursor) ==
    LET items == filtered(filter)
        start == startIndex(items, cursor)
        page == SubSeq(items, start + 1, IF start + limit <= Len(items)
                                         THEN start + limit ELSE Len(items))
    IN [items |-> [k \in DOMAIN page |-> page[k].id],
        nextCursor |-> IF start + limit < Len(items) THEN page[Len(page)].id ELSE NULL]

\* The reader opens the inbox, or another filter of it, and begins anew.
OpenFilter(filter) ==
    LET answer == getInbox(filter, NULL)
    IN /\ reader' = [filter |-> filter, reading |-> answer.nextCursor # NULL,
                     cursor |-> answer.nextCursor, owed |-> idsOf(filtered(filter))]
       /\ shownIds' = answer.items
       /\ UNCHANGED inbox

NextPage ==
    LET answer == getInbox(reader.filter, reader.cursor)
    IN /\ reader.reading
       /\ reader' = [reader EXCEPT !.reading = answer.nextCursor # NULL,
                                   !.cursor = answer.nextCursor]
       /\ Len(shownIds) < 2 * Cardinality(ItemIds)
       /\ shownIds' = shownIds \o answer.items
       /\ UNCHANGED inbox

InboxNext ==
    \/ \E id \in ItemIds : markItemRead(id) \/ \E type \in ItemType : addItem(id, type)
    \/ markAllItemsRead
    \/ \E filter \in InboxFilter : OpenFilter(filter)
    \/ NextPage

InboxSpec == InboxInit /\ [][InboxNext]_inboxVars

-----------------------------------------------------------------------------
(* A reader who has followed the cursors to the end was shown every item     *)
(* that the filter held when the run began and still holds, although items   *)
(* are added and marked as read between the pages, the one the cursor stands *)
(* for among them (getInbox).                                                *)
ReaderSeesAll ==
    ~reader.reading =>
        \A id \in reader.owed :
            id \in idsOf(filtered(reader.filter)) =>
                \E k \in DOMAIN shownIds : shownIds[k] = id

(* Only a reader of the unread items is shown one twice: elsewhere the       *)
(* cursor's item stays in the filter, and what is added comes before it.     *)
NothingTwice ==
    reader.filter # "unread" => IsInjective(shownIds)

(* A reader is shown what the filter keeps, once.                            *)
InboxIsRead == ReaderSeesAll /\ NothingTwice
=============================================================================
