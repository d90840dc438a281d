---------------------------- MODULE ChatMessages ----------------------------
(***************************************************************************)
(* ConversationMessageStore of packages/shared/src/messaging.ts, which     *)
(* services/api/src/chat-service.ts serves, and the view of one            *)
(* conversation that apps/web/src/chat-ux.ts keeps of its answers.         *)
(*                                                                         *)
(* A page is read from the store when the server answers and shown when    *)
(* the answer arrives; messages are sent, sent again and updated in        *)
(* between.  Texts, senders and times are left out.                        *)
(***************************************************************************)
EXTENDS Null, Integers, Sequences, FiniteSets, Listing

CONSTANTS
    Conversations,  \* conversationUris
    MessageIds,     \* messageIds, given by the sender
    Reported,       \* the statuses that updates report
    PageLimit,      \* limit of a page
    MaxSends,       \* bound: messages sent, resends included
    MaxRetriesSent  \* bound: retries of one message

MessageStatus == {"sending", "sent", "delivered", "read", "failed"}
Cursor == (1..MaxSends) \union {NULL}

Message == [conversation : Conversations, status : MessageStatus,
            seq : 1..MaxSends, retryCount : 0..MaxRetriesSent]
\* covers: the sequence number up to which the page leaves nothing out.
MessagePage == [ids : Seq(MessageIds), nextCursor : Cursor, hasMore : BOOLEAN,
         first : BOOLEAN, covers : 0..MaxSends]
View == [conversation : Conversations, ids : Seq(MessageIds),
         nextCursor : Cursor, hasMore : BOOLEAN, isLoadingMore : BOOLEAN]

ChatConstants ==
    /\ PageLimit \in Nat \ {0}
    /\ MaxSends \in Nat
    /\ MaxRetriesSent \in Nat
    /\ Reported \subseteq {"sending", "sent", "delivered", "read", "failed"}
    /\ NULL \notin Conversations \union MessageIds \union Nat
    /\ NULL \notin Message \union View

VARIABLES
    messages,           \* the message of each id, or NULL
    sequenceCounter,    \* the last sequence number given out
    view,               \* ConversationViewModel of the reader
    page,               \* the page on its way to the reader, or NULL
    readTo              \* the last sequence number the shown pages cover

chatVars == <<messages, sequenceCounter, view, page, readTo>>

ChatTypeOK ==
    /\ messages \in [MessageIds -> Message \union {NULL}]
    /\ sequenceCounter \in 0..MaxSends
    /\ view = NULL \/ view \in View
    /\ page = NULL \/ page \in MessagePage
    /\ readTo \in 0..MaxSends

ChatInit ==
    /\ messages = [m \in MessageIds |-> NULL]
    /\ sequenceCounter = 0
    /\ view = NULL
    /\ page = NULL
    /\ readTo = 0

-----------------------------------------------------------------------------
(* The store *)

Held == {m \in MessageIds : messages[m] # NULL}

\* Faulty variant: a message sent again stays where it was.
addMessageInPlace(m, c) ==
    /\ sequenceCounter < MaxSends
    /\ sequenceCounter' = sequenceCounter + 1
    /\ messages' = [messages EXCEPT ![m] =
          [conversation |-> c, status |-> "sent", retryCount |-> 0,
           seq |-> IF m \in Held THEN messages[m].seq ELSE sequenceCounter']]
    /\ UNCHANGED <<view, page, readTo>>

\* A message of the same id is replaced: it moves to the end, maybe of another
\* conversation, and is 'sent' again.
addMessage(m, c) ==
    /\ sequenceCounter < MaxSends
    /\ sequenceCounter' = sequenceCounter + 1
    /\ messages' = [messages EXCEPT ![m] =
          [conversation |-> c, status |-> "sent", retryCount |-> 0,
           seq |-> sequenceCounter']]
    /\ UNCHANGED <<view, page, readTo>>

\* Any status follows any other.
updateMessageStatus(m, status) ==
    /\ m \in Held
    /\ messages' = [messages EXCEPT ![m].status = status]
    /\ UNCHANGED <<sequenceCounter, view, page, readTo>>

\* The retry succeeds within the call.
retryMessage(m) ==
    /\ m \in Held
    /\ messages[m].status = "failed"
    /\ messages[m].retryCount < MaxRetriesSent
    /\ messages' = [messages EXCEPT ![m].status = "sent", ![m].retryCount = @ + 1]
    /\ UNCHANGED <<sequenceCounter, view, page, readTo>>

\* The ids of a conversation after a cursor, in the order of the store.
After(c, cursor) ==
    LET rest == {m \in Held : /\ messages[m].conversation = c
                              /\ cursor = NULL \/ messages[m].seq > cursor}
    IN Listed(rest, {p \in rest \X rest : messages[p[1]].seq < messages[p[2]].seq})

getConversationHistory(c, cursor) ==
    LET rest == After(c, cursor)
        ids == SubSeq(rest, 1, IF Len(rest) < PageLimit THEN Len(rest)
                               ELSE PageLimit)
        more == Len(rest) > PageLimit
        last == IF more THEN messages[ids[Len(ids)]].seq ELSE NULL
    IN [ids |-> ids, hasMore |-> more, nextCursor |-> last,
        first |-> cursor = NULL,
        covers |-> IF more THEN last ELSE sequenceCounter]

-----------------------------------------------------------------------------
(* The reader *)

\* External: the page that opens a conversation asks for its first page.
openConversation(c) ==
    /\ page = NULL
    /\ view' = [conversation |-> c, ids |-> <<>>, nextCursor |-> NULL,
                hasMore |-> FALSE, isLoadingMore |-> FALSE]
    /\ page' = getConversationHistory(c, NULL)
    /\ readTo' = 0
    /\ UNCHANGED <<messages, sequenceCounter>>

\* Faulty variant: the page after next is asked for.
loadAfterNext ==
    /\ view # NULL /\ page = NULL
    /\ view.hasMore /\ ~view.isLoadingMore
    /\ view' = [view EXCEPT !.isLoadingMore = TRUE]
    /\ page' = getConversationHistory(view.conversation, view.nextCursor + 1)
    /\ UNCHANGED <<messages, sequenceCounter, readTo>>

\* load-more-start, and the server's answer after the cursor of the view.
loadMore ==
    /\ view # NULL /\ page = NULL
    /\ view.hasMore /\ ~view.isLoadingMore
    /\ view' = [view EXCEPT !.isLoadingMore = TRUE]
    /\ page' = getConversationHistory(view.conversation, view.nextCursor)
    /\ UNCHANGED <<messages, sequenceCounter, readTo>>

\* load-page replaces what is shown, load-more-complete adds to it.
showPage ==
    /\ page # NULL
    /\ view' = [view EXCEPT
          !.ids = IF page.first THEN page.ids ELSE @ \o page.ids,
          !.nextCursor = page.nextCursor, !.hasMore = page.hasMore,
          !.isLoadingMore = FALSE]
    /\ readTo' = page.covers
    /\ page' = NULL
    /\ UNCHANGED <<messages, sequenceCounter>>

ChatNext ==
    \/ \E m \in MessageIds, c \in Conversations : addMessage(m, c)
    \/ \E m \in MessageIds, status \in Reported : updateMessageStatus(m, status)
    \/ \E m \in MessageIds : retryMessage(m)
    \/ \E c \in Conversations : openConversation(c)
    \/ loadMore
    \/ showPage

ChatSpec == ChatInit /\ [][ChatNext]_chatVars

-----------------------------------------------------------------------------
(* A reader who follows the cursors misses nothing: every message of the    *)
(* conversation up to the end of the last page is shown, although messages  *)
(* are sent, and sent again under their own id, between two pages           *)
(* (addMessage, getConversationHistory, reduceConversationState).           *)
ReaderMissesNothing ==
    view # NULL =>
        \A m \in Held :
            /\ messages[m].conversation = view.conversation
            /\ messages[m].seq <= readTo
            => \E k \in 1..Len(view.ids) : view.ids[k] = m
=============================================================================
