------------------------------ MODULE FeedCards -----------------------------
(***************************************************************************)
(* The aid posts on the user's screen: feed, map and posting form of       *)
(* apps/web/src/features/frontend-shell.tsx with feed-ux.ts, map-ux.ts and *)
(* posting-form.ts, the calls they make (features/api-client.ts) and the   *)
(* server as they see it.                                                  *)
(*                                                                         *)
(* Discovery models the server, WebShell the URLs.  Aborted fetches have   *)
(* no effect (WebShell), so that only the live one is kept here.  Of a     *)
(* card, its post and its status matter; the escalation of its urgency is  *)
(* left out.  No answer of the API carries a lifecycleStatus, so no card   *)
(* offers a lifecycle transition.                                          *)
(*                                                                         *)
(* The user sets no place, radius or tab here, so every fetch asks for the *)
(* default centre and the radius of its list, 100 km for the feed and 20   *)
(* km for the map.  The 100 posts of a page are taken to be all of them.   *)
(***************************************************************************)
EXTENDS Null, Integers, Sequences, FiniteSets, SequencesExt

CONSTANTS
    Fixtures,       \* posts of initialFeedRecords
    Created,        \* posts the user may create
    Title,          \* of each post
    Near,           \* of each list: the posts within the radius of its fetch
    StatusFilters   \* bound: the statuses that are filtered for

CardPosts == Fixtures \union Created
AidStatus == {"open", "in-progress", "resolved", "closed"}

Lists == {"/feed", "/map"}
CardQuery == [text : {Title[p] : p \in CardPosts} \union {NULL},
              status : StatusFilters \union {NULL}]
Card == [id : CardPosts, status : AidStatus]
CardFetch == [query : CardQuery, answer : {NULL} \union SUBSET CardPosts]

CardConstants ==
    /\ Fixtures \intersect Created = {}
    /\ DOMAIN Title = CardPosts
    /\ Near \in [Lists -> SUBSET CardPosts]
    /\ StatusFilters \subseteq AidStatus
    /\ IsFiniteSet(Fixtures)
    /\ NULL \notin CardPosts \union {Title[p] : p \in CardPosts}
    /\ NULL \notin CardFetch
    /\ \A A \in SUBSET CardPosts : A # NULL

VARIABLES
    screen,         \* the route
    query,          \* discoveryState: text and status
    feedRecords,    \* the cards, in order
    fetch,          \* the live request for the list, or NULL
    aidFailed,      \* aidErrorMessage is set
    selectedId,     \* selectedMapPostId
    submitting,     \* the post the mounted form waits for
    notice,         \* its message
    creating,       \* of each post: how far its creation is
    stored,         \* the posts of the server
    \* Histories:
    promised,       \* a post that was created under the filters of now
    emptied         \* the list is that of an answer without its body

cardVars == <<screen, query, feedRecords, fetch, aidFailed, selectedId,
              submitting, notice, creating, stored, promised, emptied>>

ids(cards) == {cards[k].id : k \in DOMAIN cards}

CardTypeOK ==
    /\ screen \in Lists \union {"/posting"}
    /\ query \in CardQuery
    /\ feedRecords \in Seq(Card)
    /\ fetch \in CardFetch \union {NULL}
    /\ aidFailed \in BOOLEAN
    /\ selectedId \in CardPosts \union {NULL}
    /\ submitting \in Created \union {NULL}
    /\ notice \in {"created", "error", NULL}
    /\ creating \in [Created -> {"no", "sent", "stored", "done", "failed"}]
    /\ stored \subseteq CardPosts
    /\ promised \in Created \union {NULL}
    /\ emptied \in BOOLEAN

OpenCard(p) == [id |-> p, status |-> "open"]

\* The cards that the filters ask for, for server, feed and map.  The server
\* looks within the radius of the fetch besides; feed and map do not.
Matches(card, q) ==
    /\ q.text \in {NULL, Title[card.id]}
    /\ q.status \in {NULL, card.status}

\* Faulty variant: a request that is under way is left to its answer.
effectKeeps(r, q) ==
    /\ fetch' = IF r \notin Lists THEN NULL
                ELSE IF fetch # NULL THEN fetch
                ELSE [query |-> q, answer |-> NULL]
    /\ aidFailed' = (aidFailed /\ r \notin Lists)

\* Route or filters changed: the request under way is aborted, and a list is
\* asked for anew.
effect(r, q) ==
    /\ fetch' = IF r \in Lists THEN [query |-> q, answer |-> NULL] ELSE NULL
    /\ aidFailed' = (aidFailed /\ r \notin Lists)

CardInit ==
    /\ screen \in Lists \union {"/posting"}
    /\ query = [text |-> NULL, status |-> NULL]
    /\ feedRecords = SetToSeq({OpenCard(p) : p \in Fixtures})
    /\ fetch = IF screen \in Lists THEN [query |-> query, answer |-> NULL]
               ELSE NULL
    /\ aidFailed = FALSE
    /\ selectedId = NULL
    /\ submitting = NULL
    /\ notice = NULL
    /\ creating = [p \in Created |-> "no"]
    /\ stored \in SUBSET Fixtures
    /\ promised = NULL
    /\ emptied = FALSE

-----------------------------------------------------------------------------
(* Navigation and filters *)

\* The form keeps its state only while it is mounted.
Mounts(r) ==
    IF r = "/posting" THEN UNCHANGED <<submitting, notice>>
    ELSE submitting' = NULL /\ notice' = NULL

navigateCards(r) ==
    /\ r # screen
    /\ screen' = r
    /\ effect(r, query)
    /\ Mounts(r)
    /\ UNCHANGED <<query, feedRecords, selectedId, creating, stored, promised,
                   emptied>>

\* The user sets filters, which the lists only offer.
patchCardFilters(q) ==
    /\ screen \in Lists
    /\ query' = q
    /\ effect(screen, q)
    /\ promised' = NULL
    /\ UNCHANGED <<screen, feedRecords, selectedId, submitting, notice,
                   creating, stored, emptied>>

\* An entry of the history brings route and filters back.
popCardState(r, q) ==
    /\ screen' = r
    /\ query' = q
    /\ effect(r, q)
    /\ Mounts(r)
    /\ selectedId' = NULL
    /\ promised' = NULL
    /\ UNCHANGED <<feedRecords, creating, stored, emptied>>

-----------------------------------------------------------------------------
(* The list *)

\* The server looks for the posts, within the radius of the list on screen,
\* for which the live request is.
serverAnswers ==
    /\ fetch # NULL
    /\ fetch.answer = NULL
    /\ fetch' = [fetch EXCEPT !.answer =
          {p \in stored \intersect Near[screen] : Matches(OpenCard(p), fetch.query)}]
    /\ UNCHANGED <<screen, query, feedRecords, aidFailed, selectedId,
                   submitting, notice, creating, stored, promised, emptied>>

\* Its answer takes the place of the list, whatever was changed in it.
fetched ==
    /\ fetch # NULL
    /\ fetch.answer # NULL
    /\ feedRecords' = SetToSeq({OpenCard(p) : p \in fetch.answer})
    /\ fetch' = NULL
    /\ emptied' = FALSE
    /\ UNCHANGED <<screen, query, aidFailed, selectedId, submitting, notice,
                   creating, stored, promised>>

\* An answer of which only the head arrives: requestJson goes on without the
\* body, and mapAidPayloadToRecords takes that for an empty list.
bodyLost ==
    /\ fetch # NULL
    /\ fetch.answer # NULL
    /\ feedRecords' = <<>>
    /\ fetch' = NULL
    /\ emptied' = TRUE
    /\ UNCHANGED <<screen, query, aidFailed, selectedId, submitting, notice,
                   creating, stored, promised>>

\* A refusal, or a call without an answer: the list stays as it is.
fetchFails ==
    /\ fetch # NULL
    /\ fetch' = NULL
    /\ aidFailed' = TRUE
    /\ UNCHANGED <<screen, query, feedRecords, selectedId, submitting, notice,
                   creating, stored, promised, emptied>>

\* What feed and map show of the list.
cardsShown == SelectSeq(feedRecords, LAMBDA card : Matches(card, query))

\* Changes of a card are made in the browser only.
applyLifecycleAction(p, status) ==
    /\ feedRecords' = [k \in DOMAIN feedRecords |->
          IF feedRecords[k].id = p
          THEN [feedRecords[k] EXCEPT !.status = status] ELSE feedRecords[k]]
    /\ UNCHANGED <<screen, query, fetch, aidFailed, selectedId, submitting,
                   notice, creating, stored, promised, emptied>>

\* The feed's button, which a skeleton hides while the list is loading.
onCloseCard(card) ==
    /\ screen = "/feed" /\ fetch = NULL
    /\ card.status # "closed"
    /\ applyLifecycleAction(card.id, "closed")

\* The drawer of the map opens for a selected card that is shown, and offers
\* what follows its status.
onTriageAction(card, status) ==
    /\ screen = "/map"
    /\ card.id = selectedId
    /\ \/ card.status = "open" /\ status \in {"in-progress", "resolved"}
       \/ card.status = "in-progress" /\ status = "resolved"
    /\ applyLifecycleAction(card.id, status)

onSelectPost(p) ==
    /\ screen = "/map"
    /\ p \in ids(cardsShown) \union {NULL}
    /\ p # NULL => fetch = NULL
    /\ selectedId' = p
    /\ UNCHANGED <<screen, query, feedRecords, fetch, aidFailed, submitting,
                   notice, creating, stored, promised, emptied>>

-----------------------------------------------------------------------------
(* The form *)

MayPost == screen = "/posting" /\ submitting = NULL

\* A draft that validatePostingDraft turns down.
submitInvalid ==
    /\ MayPost
    /\ notice' = NULL
    /\ UNCHANGED <<screen, query, feedRecords, fetch, aidFailed, selectedId,
                   submitting, creating, stored, promised, emptied>>

handleSubmit(p) ==
    /\ MayPost
    /\ creating[p] = "no"
    /\ creating' = [creating EXCEPT ![p] = "sent"]
    /\ submitting' = p
    /\ notice' = IF notice = "error" THEN NULL ELSE notice
    /\ UNCHANGED <<screen, query, feedRecords, fetch, aidFailed, selectedId,
                   stored, promised, emptied>>

\* The server stores it, be it that the client has given up.
serverStores(p) ==
    /\ creating[p] \in {"sent", "failed"}
    /\ stored' = stored \union {p}
    /\ creating' = [creating EXCEPT ![p] = IF @ = "sent" THEN "stored" ELSE @]
    /\ UNCHANGED <<screen, query, feedRecords, fetch, aidFailed, selectedId,
                   submitting, notice, promised, emptied>>

\* The form's messages, if it is still the one that sent the post.
Tell(p, message) ==
    /\ submitting' = IF submitting = p THEN NULL ELSE submitting
    /\ notice' = IF submitting = p THEN message ELSE notice

\* The post is put in front and searched for by its title, wherever the user
\* is by now.
created(p) ==
    LET search == [query EXCEPT !.text = Title[p]]
    IN /\ creating[p] = "stored"
       /\ creating' = [creating EXCEPT ![p] = "done"]
       /\ feedRecords' = <<OpenCard(p)>> \o feedRecords
       /\ query' = search
       /\ effect(screen, search)
       /\ Tell(p, "created")
       /\ promised' = IF /\ Matches(OpenCard(p), search)
                         /\ \A r \in Lists : p \in Near[r]
                      THEN p ELSE NULL
       /\ emptied' = FALSE
       /\ UNCHANGED <<screen, selectedId, stored>>

\* A refusal, an error or the timeout, of which the last says nothing about
\* the server.
createFails(p) ==
    /\ creating[p] \in {"sent", "stored"}
    /\ creating' = [creating EXCEPT ![p] = "failed"]
    /\ Tell(p, "error")
    /\ UNCHANGED <<screen, query, feedRecords, fetch, aidFailed, selectedId,
                   stored, promised, emptied>>

CardNext ==
    \/ \E r \in Lists \union {"/posting"} :
          navigateCards(r) \/ \E q \in CardQuery : popCardState(r, q)
    \/ \E q \in CardQuery : patchCardFilters(q)
    \/ serverAnswers \/ fetched \/ bodyLost \/ fetchFails
    \/ \E card \in {cardsShown[k] : k \in DOMAIN cardsShown} :
          onCloseCard(card) \/ \E status \in AidStatus : onTriageAction(card, status)
    \/ \E p \in CardPosts \union {NULL} : onSelectPost(p)
    \/ submitInvalid
    \/ \E p \in Created :
          handleSubmit(p) \/ serverStores(p) \/ created(p) \/ createFails(p)

CardSpec == CardInit /\ [][CardNext]_cardVars

-----------------------------------------------------------------------------
(* A post whose creation was confirmed, within the radius of either list,    *)
(* stays in the list until the user changes the filters that were set to     *)
(* find it: no answer to an earlier fetch, no refused one and no navigation  *)
(* takes it away; an answer without its body does, and the next one brings   *)
(* it back (onCreateRecord, the effect over currentRoute and discoveryState).*)
CreatedIsFound == promised # NULL /\ ~emptied => promised \in ids(feedRecords)

(* No card is shown twice, although a post comes by the answer to its        *)
(* creation and by that to a fetch; only when the fetch that follows fails   *)
(* the two may stay (onCreateRecord).                                        *)
NothingDoubled ==
    screen \in Lists /\ fetch = NULL /\ ~aidFailed =>
        Cardinality(ids(feedRecords)) = Len(feedRecords)

(* A post that was created is found, and no card is shown twice.             *)
CardsAgree == CreatedIsFound /\ NothingDoubled
=============================================================================
