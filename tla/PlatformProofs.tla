--------------------------- MODULE PlatformProofs ---------------------------
(***************************************************************************)
(* Proofs about the web application's state, which are its lists and URLs, *)
(* its cards and its settings page with the service behind it, and about   *)
(* what all requests share: the limiter, the sessions, the routes to       *)
(* regions and the notifications.                                          *)
(***************************************************************************)
EXTENDS WebShell, FeedCards, Settings, Gateway, Tenancy, Notifications,
        FiniteSetTheorems, SequenceTheorems, WellFoundedInduction, TLAPS

-----------------------------------------------------------------------------
(***************************************************************************)
(* WebShell                                                                *)
(***************************************************************************)

\* A URL that is the form of some filters, and so of those it reads as.
Canonical(url) == UrlOf(url.route, readDiscoveryStateFromUrl(url)) = url

LEMMA UrlTyped ==
    ASSUME ShellConstants, NEW r \in Routes, NEW f \in Filters
    PROVE  UrlOf(r, f) \in Url
    BY DEF UrlOf, Url, Param, serializeDiscoveryFilterState, Filters

LEMMA ReadTyped ==
    ASSUME ShellConstants, NEW url \in Url
    PROVE  readDiscoveryStateFromUrl(url) \in Filters
    <1> DEFINE in == \E s \in Statuses : <<"st", s>> \in url.params
    <1>1. in => (CHOOSE s \in Statuses : <<"st", s>> \in url.params) \in Statuses
        OBVIOUS
    <1> QED BY <1>1 DEF readDiscoveryStateFromUrl, parseDiscoveryFilterState,
                        defaultShellDiscoveryState, Filters

\* Reading what was written gives the same filters.
LEMMA RoundTrip ==
    ASSUME ShellConstants, NEW r \in Routes, NEW f \in Filters
    PROVE  readDiscoveryStateFromUrl(UrlOf(r, f)) = f
    <1> DEFINE params == serializeDiscoveryFilterState(f)
               read == readDiscoveryStateFromUrl(UrlOf(r, f))
    <1>1. <<"tab", "nearby">> \in params <=> f.feedTab = "nearby"
        BY DEF serializeDiscoveryFilterState, Param
    <1>2. \A s \in Statuses : <<"st", s>> \in params <=> f.status = s
        BY DEF serializeDiscoveryFilterState, Param
    <1>3. read.feedTab = f.feedTab
        BY <1>1 DEF readDiscoveryStateFromUrl, parseDiscoveryFilterState, UrlOf,
                    defaultShellDiscoveryState, Filters
    <1>4. read.status = f.status
        BY <1>2 DEF readDiscoveryStateFromUrl, parseDiscoveryFilterState, UrlOf,
                    defaultShellDiscoveryState, Filters, ShellConstants
    <1>5. /\ read = [feedTab |-> read.feedTab, status |-> read.status]
          /\ f = [feedTab |-> f.feedTab, status |-> f.status]
        BY DEF readDiscoveryStateFromUrl, parseDiscoveryFilterState, Filters
    <1> QED BY <1>3, <1>4, <1>5

LEMMA WrittenIsCanonical ==
    ASSUME ShellConstants, NEW r \in Routes, NEW f \in Filters
    PROVE  Canonical(UrlOf(r, f))
    <1>1. UrlOf(r, f).route = r
        BY DEF UrlOf
    <1> QED BY <1>1, RoundTrip DEF Canonical

\* What the route and the filters of now ask a list for.
Now == [scope |-> route, filters |-> filters]

\* A request that counts asks for what is on the screen, and is the only one
\* of its list.
LiveIsNow ==
    /\ \A q \in requests : ~q.aborted => q.query = Now /\ q.list \in ListOf(route)
    /\ \A q, p \in requests : ~q.aborted /\ ~p.aborted /\ q.list = p.list => q = p

\* A list of the route waits for such a request, or has its answer.
ListsFollow ==
    \A l \in ListOf(route) :
        /\ loading[l] <=> \E q \in requests : ~q.aborted /\ q.list = l
        /\ loading[l] => ~failed[l]
        /\ ~loading[l] => failed[l] \/ shown[l] = Now
        /\ ~loading[l] => (origin[l] = "api" <=> ~failed[l])

UrlsFollow ==
    /\ history[at] = UrlOf(route, filters)
    /\ \A i \in DOMAIN history : Canonical(history[i])

ShellInv == ShellTypeOK /\ LiveIsNow /\ ListsFollow /\ UrlsFollow

LEMMA ShellInvSuffices == ShellInv => ScreenAgrees
    <1> SUFFICES ASSUME ShellInv PROVE ScreenAgrees
        OBVIOUS
    <1>1. UrlTellsState
        BY DEF ShellInv, UrlsFollow, UrlTellsState, Canonical
    <1>2. ASSUME NEW l \in ListOf(route)
          PROVE  LET live == {q \in requests : q.list = l /\ ~q.aborted}
                 IN /\ loading[l] => /\ Cardinality(live) = 1
                                     /\ \A q \in live : q.query = Now
                    /\ ~loading[l] => live = {} /\ (failed[l] \/ shown[l] = Now)
                    /\ ~loading[l] => (origin[l] = "api" <=> ~failed[l])
        <2> DEFINE live == {q \in requests : q.list = l /\ ~q.aborted}
        <2>1. \A q \in live : q.query = Now
            BY DEF ShellInv, LiveIsNow
        <2>2. ASSUME loading[l] PROVE Cardinality(live) = 1
            <3>1. PICK q \in requests : ~q.aborted /\ q.list = l
                BY <1>2, <2>2 DEF ShellInv, ListsFollow
            <3>2. live = {q}
                BY <3>1 DEF ShellInv, LiveIsNow
            <3> QED BY <3>2, FS_Singleton
        <2>3. ~loading[l] => live = {}
            BY <1>2 DEF ShellInv, ListsFollow
        <2> QED BY <1>2, <2>1, <2>2, <2>3 DEF ShellInv, ListsFollow
    <1>3. ShownMatchesFilters
        BY <1>2 DEF ShownMatchesFilters, Now
    <1> QED BY <1>1, <1>3 DEF ScreenAgrees

-----------------------------------------------------------------------------
\* The requests of a route: one for each of its lists.
Fetches(r, f) == {[list |-> l, aborted |-> FALSE,
                   query |-> [scope |-> r, filters |-> f]] : l \in ListOf(r)}

LEMMA FetchTyped ==
    ASSUME NEW r \in Routes, NEW f \in Filters
    PROVE  /\ ListOf(r) \subseteq List
           /\ Fetches(r, f) \subseteq Request
           /\ \A q \in Fetches(r, f) :
                 /\ ~q.aborted /\ q.query = [scope |-> r, filters |-> f]
                 /\ q.list \in ListOf(r)
           /\ \A q, p \in Fetches(r, f) : q.list = p.list => q = p
           /\ \A l \in ListOf(r) : \E q \in Fetches(r, f) : ~q.aborted /\ q.list = l
    <1> DEFINE sentFor(l) == [list |-> l, aborted |-> FALSE,
                              query |-> [scope |-> r, filters |-> f]]
    <1>1. ListOf(r) \subseteq List
        BY DEF ListOf, List
    <1>2. ASSUME NEW l \in ListOf(r)
          PROVE  /\ sentFor(l) \in Request /\ sentFor(l).list = l
                 /\ ~sentFor(l).aborted
                 /\ sentFor(l).query = [scope |-> r, filters |-> f]
        BY <1>1, <1>2 DEF Request, Query
    <1>3. \A q \in Fetches(r, f) : \E l \in ListOf(r) : q = sentFor(l)
        BY DEF Fetches
    <1>4. \A l \in ListOf(r) : sentFor(l) \in Fetches(r, f)
        BY DEF Fetches
    <1> HIDE DEF sentFor
    <1>5. \A q, p \in Fetches(r, f) : q.list = p.list => q = p
        BY <1>2, <1>3
    <1> QED BY <1>1, <1>2, <1>3, <1>4, <1>5

LEMMA ShellInitInv ==
    ASSUME ShellConstants, ShellInit PROVE ShellInv
    <1> USE DEF ShellInit
    <1>0. requests = Fetches(route, filters)
        BY DEF Fetches
    <1>1. ShellTypeOK
        <2>1. history \in Seq(Url) /\ DOMAIN history = {1}
            BY UrlTyped
        <2>2. requests \subseteq Request
            BY <1>0, FetchTyped
        <2> QED BY <2>1, <2>2 DEF ShellTypeOK, List
    <1>2. LiveIsNow
        BY <1>0, FetchTyped DEF LiveIsNow, Now
    <1>3. ListsFollow
        <2> SUFFICES ASSUME NEW l \in ListOf(route)
                     PROVE  /\ loading[l] /\ ~failed[l]
                            /\ \E q \in requests : ~q.aborted /\ q.list = l
            BY DEF ListsFollow
        <2>1. l \in List
            BY FetchTyped
        <2>2. loading[l] /\ ~failed[l]
            BY <2>1
        <2> HIDE DEF ShellInit
        <2>3. route \in Routes /\ filters \in Filters
            BY DEF ShellInit
        <2>4. \A k \in ListOf(route) :
                 \E q \in Fetches(route, filters) : ~q.aborted /\ q.list = k
            BY <2>3, FetchTyped
        <2> QED BY <1>0, <2>2, <2>4
    <1>4. UrlsFollow
        BY WrittenIsCanonical DEF UrlsFollow
    <1> QED BY <1>1, <1>2, <1>3, <1>4 DEF ShellInv

\* After the effects the one live request of each list is for the new state.
LEMMA EffectsFollow ==
    ASSUME ShellConstants, ShellTypeOK, NEW r \in Routes, NEW f \in Filters,
           runEffects(r, f), route' = r, filters' = f
    PROVE  /\ requests' \subseteq Request
           /\ shown' \in [List -> Query \union {NULL}]
           /\ origin' \in [List -> {"api", "fallback"}]
           /\ loading' \in [List -> BOOLEAN]
           /\ failed' \in [List -> BOOLEAN]
           /\ LiveIsNow' /\ ListsFollow'
    <1> DEFINE new == Fetches(r, f)
               old == {[q EXCEPT !.aborted = TRUE] : q \in requests}
    <1>1. ListOf(r) \subseteq List
        BY FetchTyped
    <1>2. new \subseteq Request
        BY FetchTyped
    <1>3. old \subseteq Request
        BY DEF ShellTypeOK, Request
    <1>4. \A q \in old : q.aborted
        BY DEF ShellTypeOK, Request
    <1>5. requests' = old \union new
        BY DEF runEffects, Fetches
    <1> HIDE DEF new, old
    <1>6. LiveIsNow'
        <2>1. Now' = [scope |-> r, filters |-> f]
            BY DEF Now
        <2>2. \A q \in requests' : ~q.aborted => q \in Fetches(r, f)
            BY <1>4, <1>5 DEF new
        <2> QED BY <2>1, <2>2, FetchTyped DEF LiveIsNow
    <1>7. loading' = [l \in List |-> loading[l] \/ l \in ListOf(r)]
        BY DEF runEffects
    <1>8. \A l \in ListOf(r) : \E q \in new : ~q.aborted /\ q.list = l
        BY FetchTyped DEF new
    <1>9. ListsFollow'
        <2>1. \A l \in ListOf(r) : loading'[l] /\ ~failed'[l]
            BY <1>1, <1>7 DEF runEffects
        <2> QED BY <1>5, <1>8, <2>1 DEF ListsFollow
    <1>10. /\ shown' \in [List -> Query \union {NULL}]
           /\ origin' \in [List -> {"api", "fallback"}]
           /\ failed' \in [List -> BOOLEAN]
        BY DEF runEffects, ShellTypeOK
    <1>11. loading' \in [List -> BOOLEAN]
        BY <1>7 DEF ShellTypeOK
    <1> QED BY <1>2, <1>3, <1>5, <1>6, <1>9, <1>10, <1>11

LEMMA NavigateKeeps ==
    ASSUME ShellConstants, ShellInv, NEW r \in Routes, navigate(r)
    PROVE  ShellInv'
    <1> USE DEF ShellInv
    <1> DEFINE url == UrlOf(r, filters)
    <1>1. /\ filters \in Filters /\ filters' = filters /\ route' = r
          /\ route \in Routes /\ history \in Seq(Url) /\ at \in 1..Len(history)
        BY DEF navigate, ShellTypeOK
    <1>2. url \in Url /\ Canonical(url)
        BY <1>1, UrlTyped, WrittenIsCanonical
    <1>3. CASE url = history[at]
        <2>1. UNCHANGED <<history, at>>
            BY <1>3 DEF navigate
        <2>2. r = route
            BY <1>3, <1>1 DEF UrlsFollow, UrlOf
        <2>3. UNCHANGED shellVars
            BY <1>1, <2>1, <2>2 DEF navigate, shellVars
        <2> QED BY <2>3 DEF shellVars, ShellTypeOK, LiveIsNow, ListsFollow,
                            UrlsFollow, Now
    <1>4. CASE url # history[at]
        <2>1. r # route
            BY <1>4 DEF UrlsFollow
        <2>2. runEffects(r, filters)
            BY <2>1 DEF navigate
        <2> DEFINE front == SubSeq(history, 1, at)
        <2>3. /\ history' = Append(front, url)
              /\ at' = at + 1
            BY <1>4 DEF navigate
        <2>4. /\ front \in Seq(Url) /\ Len(front) = at
              /\ \A i \in 1..at : front[i] = history[i]
            BY <1>1, SubSeqProperties
        <2>5. /\ history' \in Seq(Url) /\ DOMAIN history' = 1..(at + 1)
              /\ history'[at + 1] = url
              /\ \A i \in 1..at : history'[i] = history[i]
            BY <1>1, <1>2, <2>3, <2>4, AppendProperties
        <2>6. UrlsFollow'
            BY <1>1, <1>2, <2>3, <2>5 DEF UrlsFollow
        <2>7. at' \in DOMAIN history'
            BY <1>1, <2>3, <2>5
        <2> QED BY <1>1, <2>2, <2>5, <2>6, <2>7, EffectsFollow DEF ShellTypeOK
    <1> QED BY <1>3, <1>4

LEMMA PatchKeeps ==
    ASSUME ShellConstants, ShellInv, NEW f \in Filters, patchDiscoveryState(f)
    PROVE  ShellInv'
    <1> USE DEF ShellInv
    <1>1. /\ route \in Routes /\ route' = route /\ filters' = f /\ at' = at
          /\ history \in Seq(Url) /\ at \in DOMAIN history
          /\ runEffects(route, f)
          /\ history' = [history EXCEPT ![at] = UrlOf(route, f)]
        BY DEF patchDiscoveryState, ShellTypeOK
    <1>2. UrlOf(route, f) \in Url /\ Canonical(UrlOf(route, f))
        BY <1>1, UrlTyped, WrittenIsCanonical
    <1>3. history' \in Seq(Url) /\ DOMAIN history' = DOMAIN history
        BY <1>1, <1>2, ExceptSeq
    <1>4. UrlsFollow'
        BY <1>1, <1>2, <1>3 DEF UrlsFollow
    <1> QED BY <1>1, <1>3, <1>4, EffectsFollow DEF ShellTypeOK

LEMMA PopKeeps ==
    ASSUME ShellConstants, ShellInv, NEW place \in 1..MaxHistory,
           handlePopState(place)
    PROVE  ShellInv'
    <1> USE DEF ShellInv
    <1> DEFINE url == history[place]
               f == readDiscoveryStateFromUrl(url)
    <1>1. /\ place \in DOMAIN history /\ history \in Seq(Url)
          /\ at' = place /\ route' = url.route /\ filters' = f
          /\ history' = [history EXCEPT ![place] = UrlOf(url.route, f)]
          /\ runEffects(url.route, f)
        BY DEF handlePopState, ShellTypeOK
    <1>2. url \in Url
        BY <1>1
    <1>2a. url.route \in Routes /\ f \in Filters
        BY <1>2, ReadTyped DEF Url
    <1>3. history' = history
        BY <1>1 DEF UrlsFollow, Canonical
    <1>4. UrlsFollow'
        BY <1>1, <1>3 DEF UrlsFollow, Canonical
    <1> QED BY <1>1, <1>2a, <1>3, <1>4, EffectsFollow DEF ShellTypeOK

\* An aborted request ends without a trace; the live one of a list leaves its
\* answer or its failure there.
LEMMA AnsweredKeeps ==
    ASSUME ShellConstants, ShellInv, NEW q \in requests, NEW ok \in BOOLEAN,
           answered(q, ok)
    PROVE  ShellInv'
    <1> USE DEF ShellInv
    <1>1. /\ UNCHANGED <<route, filters, history, at>>
          /\ requests' = requests \ {q}
          /\ q \in Request
        BY DEF answered, ShellTypeOK
    <1>2. UrlsFollow'
        BY <1>1 DEF UrlsFollow
    <1>3. LiveIsNow'
        BY <1>1 DEF LiveIsNow, Now
    <1>4. CASE q.aborted
        <2>1. UNCHANGED <<shown, origin, failed, loading>>
            BY <1>4 DEF answered
        <2>2. ListsFollow'
            BY <1>1, <1>4, <2>1 DEF ListsFollow, Now
        <2> QED BY <1>1, <1>2, <1>3, <2>1, <2>2 DEF ShellTypeOK
    <1>5. CASE ~q.aborted
        <2>1. /\ shown' = IF ok THEN [shown EXCEPT ![q.list] = q.query] ELSE shown
              /\ origin' = [origin EXCEPT ![q.list] =
                               IF ok THEN "api" ELSE "fallback"]
              /\ failed' = IF ok THEN failed ELSE [failed EXCEPT ![q.list] = TRUE]
              /\ loading' = [loading EXCEPT ![q.list] = FALSE]
            BY <1>5 DEF answered
        <2>2. q.list \in List /\ q.query = Now
            BY <1>1, <1>5 DEF LiveIsNow, Request
        <2>3. ShellTypeOK'
            BY <1>1, <2>1, <2>2 DEF ShellTypeOK, Request
        <2>4. ASSUME NEW l \in ListOf(route), l # q.list
              PROVE  /\ loading'[l] <=> \E p \in requests' : ~p.aborted /\ p.list = l
                     /\ loading'[l] => ~failed'[l]
                     /\ ~loading'[l] => failed'[l] \/ shown'[l] = Now
                     /\ ~loading'[l] => (origin'[l] = "api" <=> ~failed'[l])
            <3>1. l \in List
                BY DEF ListOf, List
            <3> QED BY <1>1, <2>1, <2>2, <2>4, <3>1 DEF ShellTypeOK, ListsFollow
        <2>5. ~loading'[q.list] /\ ~\E p \in requests' : ~p.aborted /\ p.list = q.list
            BY <1>1, <1>5, <2>1, <2>2 DEF ShellTypeOK, LiveIsNow
        <2>6. failed'[q.list] \/ shown'[q.list] = Now
            <3>1. CASE ok
                BY <2>1, <2>2, <3>1 DEF ShellTypeOK
            <3>2. CASE ~ok
                BY <2>1, <2>2, <3>2 DEF ShellTypeOK
            <3> QED BY <3>1, <3>2
        <2>7. origin'[q.list] = "api" <=> ~failed'[q.list]
            <3>1. ~failed[q.list]
                BY <1>1, <1>5, <2>2 DEF LiveIsNow, ListsFollow
            <3>2. CASE ok
                BY <2>1, <2>2, <3>1, <3>2 DEF ShellTypeOK
            <3>3. CASE ~ok
                BY <2>1, <2>2, <3>3 DEF ShellTypeOK
            <3> QED BY <3>2, <3>3
        <2> QED BY <1>1, <1>2, <1>3, <2>3, <2>4, <2>5, <2>6, <2>7
                DEF ListsFollow, Now
    <1> QED BY <1>4, <1>5

LEMMA ShellInvariant ==
    ASSUME ShellConstants
    PROVE  ShellSpec => []ShellInv
    <1>1. ShellInit => ShellInv
        BY ShellInitInv
    <1>2. ShellInv /\ [ShellNext]_shellVars => ShellInv'
        <2> SUFFICES ASSUME ShellInv, [ShellNext]_shellVars PROVE ShellInv'
            OBVIOUS
        <2>1. ASSUME NEW r \in Routes, navigate(r) PROVE ShellInv'
            BY <2>1, NavigateKeeps
        <2>2. ASSUME NEW f \in Filters, patchDiscoveryState(f) PROVE ShellInv'
            BY <2>2, PatchKeeps
        <2>3. ASSUME NEW place \in 1..MaxHistory, handlePopState(place)
              PROVE  ShellInv'
            BY <2>3, PopKeeps
        <2>4. ASSUME NEW q \in requests, NEW ok \in BOOLEAN, answered(q, ok)
              PROVE  ShellInv'
            BY <2>4, AnsweredKeeps
        <2>5. ASSUME UNCHANGED shellVars PROVE ShellInv'
            BY <2>5 DEF shellVars, ShellInv, ShellTypeOK, LiveIsNow, ListsFollow,
                        UrlsFollow, Now
        <2> QED BY <2>1, <2>2, <2>3, <2>4, <2>5 DEF ShellNext
    <1> QED
        BY <1>1, <1>2, PTL DEF ShellSpec

\* FrontendShell, for any routes, filter values and length of the history:
\* whatever order answers arrive in, what a list shows is the answer to the
\* route and the filters of now, and the URLs tell them.
THEOREM ScreenAgreesAlways ==
    ASSUME ShellConstants
    PROVE  ShellSpec => []ScreenAgrees
    <1>1. ShellInv => ScreenAgrees
        BY ShellInvSuffices
    <1> QED
        BY <1>1, ShellInvariant, PTL

-----------------------------------------------------------------------------
(***************************************************************************)
(* FeedCards                                                               *)
(***************************************************************************)

\* The elements of a finite set in a sequence, each once.
LEMMA SetToSeqLists ==
    ASSUME NEW S, IsFiniteSet(S)
    PROVE  /\ SetToSeq(S) \in Seq(S)
           /\ \A i, j \in DOMAIN SetToSeq(S) :
                 SetToSeq(S)[i] = SetToSeq(S)[j] => i = j
           /\ \A x \in S : \E i \in DOMAIN SetToSeq(S) : SetToSeq(S)[i] = x
    <1> DEFINE n == Cardinality(S)
               s == SetToSeq(S)
    <1>1. n \in Nat /\ ExistsBijection(1..n, S)
        BY FS_CardinalityType
    <1> HIDE DEF n
    <1>2. \E f \in [1..n -> S] : IsInjective(f)
        BY <1>1 DEF ExistsBijection, Bijection, Injection
    <1>3. s \in [1..n -> S] /\ IsInjective(s)
        BY <1>2 DEF SetToSeq, n
    <1>4. IsFiniteSet(1..n) /\ Cardinality(1..n) = n
        BY <1>1, FS_Interval
    <1>5. s \in Injection(1..n, S)
        BY <1>3 DEF Injection
    <1> HIDE DEF s
    <1>6. s \in Surjection(1..n, S)
        BY <1>4, <1>5, FS_Injection DEF n
    <1>7. s \in Seq(S)
        BY <1>1, <1>3
    <1> QED BY <1>3, <1>6, <1>7 DEF IsInjective, Surjection, s

\* An answer of the server as cards.
LEMMA AnswerAsCards ==
    ASSUME NEW A \in SUBSET CardPosts, IsFiniteSet(A),
           NEW cards, cards = SetToSeq({OpenCard(p) : p \in A})
    PROVE  /\ cards \in Seq(Card)
           /\ ids(cards) = A
           /\ \A i, j \in DOMAIN cards : cards[i].id = cards[j].id => i = j
    <1> DEFINE T == {OpenCard(p) : p \in A}
               f == [p \in A |-> OpenCard(p)]
    <1>1. f \in Surjection(A, T)
        BY DEF Surjection
    <1> HIDE DEF f
    <1>2. IsFiniteSet(T)
        BY <1>1, FS_Surjection
    <1>3. \A t \in T : t \in Card /\ t.id \in A /\ t = OpenCard(t.id)
        BY DEF OpenCard, Card, AidStatus
    <1>4. \A p \in A : OpenCard(p) \in T /\ OpenCard(p).id = p
        BY DEF OpenCard
    <1> HIDE DEF T
    <1>5. /\ cards \in Seq(T)
          /\ \A i, j \in DOMAIN cards : cards[i] = cards[j] => i = j
          /\ \A x \in T : \E i \in DOMAIN cards : cards[i] = x
        BY <1>2, SetToSeqLists DEF T
    <1>6. \A i \in DOMAIN cards : cards[i] \in T
        BY <1>5
    <1>7. cards \in Seq(Card)
        BY <1>3, <1>5
    <1>8. \A i, j \in DOMAIN cards : cards[i].id = cards[j].id => i = j
        BY <1>3, <1>5, <1>6
    <1>9. ASSUME NEW p \in A PROVE \E i \in DOMAIN cards : cards[i].id = p
        <2>1. PICK i \in DOMAIN cards : cards[i] = OpenCard(p)
            BY <1>4, <1>5
        <2> QED BY <1>4, <2>1
    <1>10. ids(cards) = A
        BY <1>3, <1>6, <1>9 DEF ids
    <1> QED BY <1>7, <1>8, <1>10

\* No two places of the list hold the same post.
LEMMA PlacesCounted ==
    ASSUME NEW cards \in Seq(Card),
           \A i, j \in DOMAIN cards : cards[i].id = cards[j].id => i = j
    PROVE  Cardinality(ids(cards)) = Len(cards)
    <1> DEFINE n == Len(cards)
               f == [k \in 1..n |-> cards[k].id]
    <1>1. n \in Nat /\ DOMAIN cards = 1..n
        OBVIOUS
    <1> HIDE DEF n
    <1>2. f \in Bijection(1..n, ids(cards))
        BY <1>1 DEF Bijection, Injection, Surjection, IsInjective, ids
    <1> HIDE DEF f
    <1>3. ExistsBijection(1..n, ids(cards))
        BY <1>2 DEF ExistsBijection
    <1>4. Cardinality(ids(cards)) = n
        BY <1>1, <1>3, FS_CountingElements
    <1> QED BY <1>4 DEF n

\* The fetch under way is for the list on screen and the filters of now, which
\* are set to find the post that was promised; the list has it unless it was
\* emptied, and so has every answer.
PromiseKept ==
    /\ fetch # NULL => fetch.query = query /\ screen \in Lists
    /\ promised # NULL =>
          /\ promised \in stored
          /\ ~emptied => promised \in ids(feedRecords)
          /\ Matches(OpenCard(promised), query)
          /\ \A r \in Lists : promised \in Near[r]
          /\ fetch # NULL /\ fetch.answer # NULL => promised \in fetch.answer

\* What is stored, and so an answer, is finite; a post that the server
\* confirmed is stored.
StoredFacts ==
    /\ IsFiniteSet(stored)
    /\ fetch # NULL /\ fetch.answer # NULL => IsFiniteSet(fetch.answer)
    /\ \A p \in Created : creating[p] = "stored" => p \in stored

OncePlaced ==
    screen \in Lists /\ fetch = NULL /\ ~aidFailed =>
        \A i, j \in DOMAIN feedRecords :
            feedRecords[i].id = feedRecords[j].id => i = j

CardInv == CardTypeOK /\ PromiseKept /\ StoredFacts /\ OncePlaced

LEMMA CardInvSuffices ==
    ASSUME CardInv PROVE CardsAgree
    <1>1. CreatedIsFound
        BY DEF CardInv, PromiseKept, CreatedIsFound
    <1>2. NothingDoubled
        BY PlacesCounted DEF CardInv, CardTypeOK, OncePlaced, NothingDoubled
    <1> QED BY <1>1, <1>2 DEF CardsAgree

\* A fetch that starts.
LEMMA FetchStarts ==
    ASSUME NEW q \in CardQuery
    PROVE  [query |-> q, answer |-> NULL] \in CardFetch
    BY DEF CardFetch

LEMMA CardInitInv ==
    ASSUME CardConstants, CardInit PROVE CardInv
    <1> USE DEF CardInit
    <1> DEFINE q == [text |-> NULL, status |-> NULL]
    <1>1. q \in CardQuery /\ query = q
        BY DEF CardQuery
    <1>2. /\ feedRecords \in Seq(Card)
        BY AnswerAsCards DEF CardConstants, CardPosts
    <1>3. fetch \in CardFetch \union {NULL}
        BY <1>1, FetchStarts
    <1>4. CardTypeOK
        BY <1>1, <1>2, <1>3 DEF CardTypeOK, CardPosts
    <1>5. PromiseKept
        BY DEF PromiseKept
    <1>6. IsFiniteSet(stored)
        BY FS_Subset DEF CardConstants
    <1>7. StoredFacts
        BY <1>6 DEF StoredFacts
    <1>8. screen \in Lists => fetch # NULL
        <2>1. [query |-> q, answer |-> NULL] \in CardFetch
            BY <1>1, FetchStarts
        <2>2. NULL \notin CardFetch
            BY DEF CardConstants
        <2> HIDE DEF q
        <2> QED BY <1>1, <2>1, <2>2
    <1>9. OncePlaced
        BY <1>8 DEF OncePlaced
    <1> QED BY <1>4, <1>5, <1>7, <1>9 DEF CardInv

\* After the effect no answer is left, and a list is being asked for.
LEMMA EffectStarts ==
    ASSUME CardConstants, NEW r, NEW q \in CardQuery, effect(r, q)
    PROVE  /\ fetch' \in CardFetch \union {NULL}
           /\ fetch' # NULL => fetch'.query = q /\ fetch'.answer = NULL
           /\ r \in Lists <=> fetch' # NULL
           /\ aidFailed' \in BOOLEAN
    <1>1. [query |-> q, answer |-> NULL] \in CardFetch
        BY FetchStarts
    <1> QED BY <1>1 DEF effect, CardConstants

\* Steps that start a fetch and leave list and server.
LEMMA MovesKeep ==
    ASSUME CardConstants, CardInv,
           NEW r \in Lists \union {"/posting"}, NEW q \in CardQuery,
           screen' = r, query' = q, effect(r, q),
           promised' = NULL \/ (promised' = promised /\ q = query),
           UNCHANGED <<feedRecords, creating, stored, emptied>>,
           selectedId' \in {selectedId, NULL},
           submitting' \in {submitting, NULL}, notice' \in {notice, NULL}
    PROVE  CardInv'
    <1> USE DEF CardInv
    <1>1. /\ fetch' \in CardFetch \union {NULL}
          /\ fetch' # NULL => fetch'.query = q /\ fetch'.answer = NULL
          /\ r \in Lists <=> fetch' # NULL
          /\ aidFailed' \in BOOLEAN
        BY EffectStarts
    <1>2. CardTypeOK'
        BY <1>1 DEF CardTypeOK
    <1>3. PromiseKept'
        BY <1>1 DEF PromiseKept
    <1>4. StoredFacts'
        BY <1>1 DEF StoredFacts
    <1>5. OncePlaced'
        BY <1>1 DEF OncePlaced
    <1> QED BY <1>2, <1>3, <1>4, <1>5

LEMMA ServerAnswersKeeps ==
    ASSUME CardConstants, CardInv, serverAnswers PROVE CardInv'
    <1> USE DEF CardInv
    <1> DEFINE found == {p \in stored \intersect Near[screen] :
                            Matches(OpenCard(p), fetch.query)}
    <1>1. fetch \in CardFetch /\ fetch' = [fetch EXCEPT !.answer = found]
        BY DEF serverAnswers, CardTypeOK
    <1>2. found \in SUBSET CardPosts /\ found \in SUBSET stored
        BY DEF CardTypeOK
    <1>3. IsFiniteSet(found)
        BY <1>2, FS_Subset DEF StoredFacts
    <1>4. promised # NULL => promised \in found
        BY DEF PromiseKept, serverAnswers
    <1> HIDE DEF found
    <1>5. fetch' \in CardFetch /\ fetch'.answer = found /\ fetch'.query = fetch.query
        BY <1>1, <1>2 DEF CardFetch
    <1>6. fetch # NULL /\ fetch' # NULL
        BY <1>5 DEF serverAnswers, CardConstants
    <1>7. UNCHANGED <<screen, query, feedRecords, aidFailed, selectedId,
                      submitting, notice, creating, stored, promised, emptied>>
        BY DEF serverAnswers
    <1>8. CardTypeOK'
        BY <1>5, <1>7 DEF CardTypeOK
    <1>9. PromiseKept'
        BY <1>4, <1>5, <1>6, <1>7 DEF PromiseKept
    <1>10. StoredFacts'
        BY <1>3, <1>5, <1>7 DEF StoredFacts
    <1>11. OncePlaced'
        BY <1>6 DEF OncePlaced
    <1> QED BY <1>8, <1>9, <1>10, <1>11

LEMMA FetchedKeeps ==
    ASSUME CardConstants, CardInv, fetched PROVE CardInv'
    <1> USE DEF CardInv
    <1>1. fetch \in CardFetch /\ fetch.answer \in SUBSET CardPosts
        BY DEF fetched, CardTypeOK, CardFetch
    <1>2. IsFiniteSet(fetch.answer)
        BY DEF fetched, StoredFacts
    <1>3. feedRecords' = SetToSeq({OpenCard(p) : p \in fetch.answer})
        BY DEF fetched
    <1> DEFINE cards == feedRecords'
    <1> HIDE DEF cards
    <1>4. /\ cards \in Seq(Card)
          /\ ids(cards) = fetch.answer
          /\ \A i, j \in DOMAIN cards : cards[i].id = cards[j].id => i = j
        BY <1>1, <1>2, <1>3, AnswerAsCards DEF cards
    <1>5. /\ fetch' = NULL /\ emptied' = FALSE
          /\ UNCHANGED <<screen, query, aidFailed, selectedId, submitting,
                         notice, creating, stored, promised>>
        BY DEF fetched
    <1>6. CardTypeOK'
        BY <1>4, <1>5 DEF CardTypeOK, cards
    <1>7. PromiseKept'
        BY <1>4, <1>5 DEF PromiseKept, cards, fetched
    <1>8. StoredFacts'
        BY <1>5 DEF StoredFacts
    <1>9. OncePlaced'
        BY <1>4 DEF OncePlaced, cards
    <1> QED BY <1>6, <1>7, <1>8, <1>9

LEMMA BodyLostKeeps ==
    ASSUME CardConstants, CardInv, bodyLost PROVE CardInv'
    <1> USE DEF CardInv
    <1>1. /\ fetch' = NULL /\ emptied' = TRUE /\ feedRecords' = <<>>
          /\ UNCHANGED <<screen, query, aidFailed, selectedId, submitting,
                         notice, creating, stored, promised>>
        BY DEF bodyLost
    <1>2. CardTypeOK'
        BY <1>1 DEF CardTypeOK
    <1>3. PromiseKept' /\ StoredFacts'
        BY <1>1 DEF PromiseKept, StoredFacts
    <1>4. OncePlaced'
        BY <1>1 DEF OncePlaced
    <1> QED BY <1>2, <1>3, <1>4

LEMMA FetchFailsKeeps ==
    ASSUME CardConstants, CardInv, fetchFails PROVE CardInv'
    BY DEF CardInv, fetchFails, CardTypeOK, PromiseKept, StoredFacts, OncePlaced

\* Changing the status of cards leaves their posts where they are.
LEMMA LifecycleKeeps ==
    ASSUME CardConstants, CardInv, NEW p, NEW status \in AidStatus,
           applyLifecycleAction(p, status)
    PROVE  CardInv'
    <1> USE DEF CardInv
    <1> DEFINE n == Len(feedRecords)
    <1>1. /\ n \in Nat /\ DOMAIN feedRecords = 1..n
          /\ \A k \in 1..n : feedRecords[k] \in Card
        BY DEF CardTypeOK
    <1> HIDE DEF n
    <1>2. feedRecords' = [k \in 1..n |->
              IF feedRecords[k].id = p
              THEN [feedRecords[k] EXCEPT !.status = status] ELSE feedRecords[k]]
        BY <1>1 DEF applyLifecycleAction
    <1>3. \A k \in 1..n : /\ feedRecords'[k] \in Card
                          /\ feedRecords'[k].id = feedRecords[k].id
        BY <1>1, <1>2 DEF Card
    <1>4. DOMAIN feedRecords' = 1..n
        BY <1>2
    <1>5. feedRecords' \in Seq(Card)
        BY <1>1, <1>2, <1>3
    <1>6. ids(feedRecords') = ids(feedRecords)
        BY <1>1, <1>3, <1>4 DEF ids
    <1>7. UNCHANGED <<screen, query, fetch, aidFailed, selectedId, submitting,
                      notice, creating, stored, promised, emptied>>
        BY DEF applyLifecycleAction
    <1>8. CardTypeOK'
        BY <1>5, <1>7 DEF CardTypeOK
    <1>9. PromiseKept'
        BY <1>6, <1>7 DEF PromiseKept
    <1>10. StoredFacts'
        BY <1>7 DEF StoredFacts
    <1>11. OncePlaced'
        BY <1>1, <1>3, <1>4, <1>7 DEF OncePlaced
    <1> QED BY <1>8, <1>9, <1>10, <1>11

LEMMA FormKeeps ==
    ASSUME CardConstants, CardInv, NEW p \in Created,
           handleSubmit(p) \/ serverStores(p) \/ createFails(p)
    PROVE  CardInv'
    <1> USE DEF CardInv
    <1>1. /\ UNCHANGED <<screen, query, feedRecords, fetch, aidFailed,
                         selectedId, promised, emptied>>
          /\ stored' = stored \/ stored' = stored \union {p}
          /\ submitting' \in {submitting, NULL, p}
          /\ notice' \in {notice, NULL, "error"}
        BY DEF handleSubmit, serverStores, createFails, Tell
    <1>2. creating' \in [Created -> {"no", "sent", "stored", "done", "failed"}]
        BY DEF handleSubmit, serverStores, createFails, CardTypeOK
    <1>3. CardTypeOK'
        BY <1>1, <1>2 DEF CardTypeOK, CardPosts
    <1>4. PromiseKept'
        BY <1>1 DEF PromiseKept
    <1>5. IsFiniteSet(stored')
        BY <1>1, FS_AddElement DEF StoredFacts
    <1>6. \A x \in Created : creating'[x] = "stored" => x \in stored'
        BY <1>1 DEF handleSubmit, serverStores, createFails, CardTypeOK, StoredFacts
    <1>7. StoredFacts'
        BY <1>1, <1>5, <1>6 DEF StoredFacts
    <1>8. OncePlaced'
        BY <1>1 DEF OncePlaced
    <1> QED BY <1>3, <1>4, <1>7, <1>8

\* The post that was confirmed is put in front, and it is stored.
LEMMA CreatedKeeps ==
    ASSUME CardConstants, CardInv, NEW p \in Created, created(p)
    PROVE  CardInv'
    <1> USE DEF CardInv
    <1> DEFINE search == [query EXCEPT !.text = Title[p]]
               card == OpenCard(p)
    <1>1. /\ creating[p] = "stored"
          /\ creating' = [creating EXCEPT ![p] = "done"]
          /\ feedRecords' = <<card>> \o feedRecords
          /\ query' = search
          /\ effect(screen, search)
          /\ Tell(p, "created")
          /\ promised' = IF /\ Matches(card, search)
                            /\ \A r \in Lists : p \in Near[r]
                         THEN p ELSE NULL
          /\ emptied' = FALSE
          /\ UNCHANGED <<screen, selectedId, stored>>
        BY DEF created
    <1>2. p \in stored /\ p \in CardPosts
        BY <1>1 DEF StoredFacts, CardPosts
    <1>3. card \in Card /\ card.id = p
        BY <1>2 DEF OpenCard, Card, AidStatus
    <1>4. search \in CardQuery
        BY <1>2 DEF CardTypeOK, CardQuery
    <1> HIDE DEF card, search
    <1>5. /\ fetch' \in CardFetch \union {NULL}
          /\ fetch' # NULL => fetch'.query = search /\ fetch'.answer = NULL
          /\ screen \in Lists <=> fetch' # NULL
          /\ aidFailed' \in BOOLEAN
        BY <1>1, <1>4, EffectStarts
    <1>6. <<card>> \in Seq(Card) /\ Len(<<card>>) = 1 /\ <<card>>[1] = card
        BY <1>3
    <1>7. feedRecords \in Seq(Card)
        BY DEF CardTypeOK
    <1>8. /\ feedRecords' \in Seq(Card)
          /\ 1 \in DOMAIN feedRecords' /\ feedRecords'[1] = card
        BY <1>1, <1>6, <1>7, ConcatProperties
    <1>9. p \in ids(feedRecords')
        BY <1>3, <1>8 DEF ids
    <1>10. submitting' \in {submitting, NULL} /\ notice' \in {notice, "created"}
        BY <1>1 DEF Tell
    <1>11. CardTypeOK'
        BY <1>1, <1>4, <1>5, <1>8, <1>10 DEF CardTypeOK
    <1>12. PromiseKept'
        BY <1>1, <1>2, <1>5, <1>9 DEF PromiseKept, card
    <1>13. StoredFacts'
        BY <1>1, <1>5 DEF StoredFacts, CardTypeOK
    <1>14. OncePlaced'
        BY <1>1, <1>5 DEF OncePlaced
    <1> QED BY <1>11, <1>12, <1>13, <1>14

LEMMA CardStepInv ==
    ASSUME CardConstants, CardInv, [CardNext]_cardVars PROVE CardInv'
    <1>1. ASSUME NEW r \in Lists \union {"/posting"}, navigateCards(r)
          PROVE  CardInv'
        <2>1. query \in CardQuery
            BY DEF CardInv, CardTypeOK
        <2> QED BY <1>1, <2>1, MovesKeep DEF navigateCards, Mounts
    <1>2. ASSUME NEW r \in Lists \union {"/posting"}, NEW q \in CardQuery,
                 popCardState(r, q)
          PROVE  CardInv'
        BY <1>2, MovesKeep DEF popCardState, Mounts
    <1>3. ASSUME NEW q \in CardQuery, patchCardFilters(q) PROVE CardInv'
        BY <1>3, MovesKeep DEF patchCardFilters
    <1>4. CASE \E card \in {cardsShown[k] : k \in DOMAIN cardsShown} :
                  \/ onCloseCard(card)
                  \/ \E status \in AidStatus : onTriageAction(card, status)
        <2>1. PICK card : \/ onCloseCard(card)
                         \/ \E status \in AidStatus : onTriageAction(card, status)
            BY <1>4
        <2>2. \E status \in AidStatus : applyLifecycleAction(card.id, status)
            BY <2>1 DEF onCloseCard, onTriageAction, AidStatus
        <2> QED BY <2>2, LifecycleKeeps
    <1>5. CASE \/ \E p \in CardPosts \union {NULL} : onSelectPost(p)
               \/ submitInvalid \/ UNCHANGED cardVars
        <2>1. /\ UNCHANGED <<screen, query, feedRecords, fetch, aidFailed,
                             submitting, creating, stored, promised, emptied>>
              /\ selectedId' \in CardPosts \union {NULL}
              /\ notice' \in {notice, NULL}
            BY <1>5 DEF onSelectPost, submitInvalid, cardVars, CardInv, CardTypeOK
        <2> QED BY <2>1 DEF CardInv, CardTypeOK, PromiseKept, StoredFacts, OncePlaced
    <1> QED
        BY <1>1, <1>2, <1>3, <1>4, <1>5, ServerAnswersKeeps, FetchedKeeps,
           BodyLostKeeps,
           FetchFailsKeeps, FormKeeps, CreatedKeeps DEF CardNext

LEMMA CardInvariant ==
    ASSUME CardConstants
    PROVE  CardSpec => []CardInv
    <1>1. CardInit => CardInv
        BY CardInitInv
    <1>2. CardInv /\ [CardNext]_cardVars => CardInv'
        BY CardStepInv
    <1> QED
        BY <1>1, <1>2, PTL DEF CardSpec

(* Whatever the user does while answers are under way, a post that was       *)
(* confirmed, within the radius of either list, stays in the list that was   *)
(* set to find it unless an answer lost its body, and no card is shown twice *)
(* (onCreateRecord and the effect over currentRoute and discoveryState of    *)
(* frontend-shell.tsx).                                                      *)
THEOREM CardsAgreeAlways ==
    ASSUME CardConstants
    PROVE  CardSpec => []CardsAgree
    <1>1. CardInv => CardsAgree
        BY CardInvSuffices
    <1> QED
        BY <1>1, CardInvariant, PTL

-----------------------------------------------------------------------------
(***************************************************************************)
(* Settings: the audit log                                                 *)
(***************************************************************************)

\* A save notes each setting that changes once, with both values.
LEMMA DiffTyped ==
    ASSUME SettingsConstants, NEW old \in UserSettings, NEW new \in UserSettings,
           NEW d, d = diffSettings(old, new)
    PROVE  /\ d \in Seq(Entry)
           /\ \A k \in DOMAIN d : /\ d[k].field \in Fields
                                  /\ d[k].oldValue = old[d[k].field]
                                  /\ d[k].newValue = new[d[k].field]
                                  /\ d[k].oldValue # d[k].newValue
           /\ \A j, k \in DOMAIN d : d[j].field = d[k].field => j = k
           /\ \A f \in Fields : old[f] # new[f] => \E k \in DOMAIN d : d[k].field = f
    <1> DEFINE S == {f \in Fields : old[f] # new[f]}
               changed == SetToSeq(S)
    <1>1. IsFiniteSet(S)
        BY FS_Subset DEF SettingsConstants
    <1>2. \A f \in S : /\ f \in Fields /\ old[f] # new[f]
                      /\ old[f] \in Values /\ new[f] \in Values
        BY DEF UserSettings
    <1>3. \A f \in Fields : old[f] # new[f] => f \in S
        OBVIOUS
    <1>4. d = [k \in DOMAIN changed |-> [field |-> changed[k],
                oldValue |-> old[changed[k]], newValue |-> new[changed[k]]]]
        BY DEF diffSettings
    <1> HIDE DEF S
    <1>5. /\ changed \in Seq(S)
          /\ \A i, j \in DOMAIN changed : changed[i] = changed[j] => i = j
          /\ \A x \in S : \E i \in DOMAIN changed : changed[i] = x
        BY <1>1, SetToSeqLists
    <1> HIDE DEF changed
    <1>6. /\ Len(changed) \in Nat /\ DOMAIN changed = 1..Len(changed)
          /\ \A k \in DOMAIN changed : changed[k] \in S
        BY <1>5
    <1>7. /\ DOMAIN d = DOMAIN changed
          /\ \A k \in DOMAIN d : /\ d[k].field = changed[k]
                                 /\ d[k].oldValue = old[changed[k]]
                                 /\ d[k].newValue = new[changed[k]]
        BY <1>4
    <1>8. \A k \in DOMAIN changed : d[k] \in Entry
        BY <1>2, <1>4, <1>6 DEF Entry
    <1>9. d \in Seq(Entry)
        BY <1>4, <1>6, <1>7, <1>8
    <1> QED BY <1>2, <1>3, <1>5, <1>6, <1>7, <1>9

\* Entries of one field that are added at the end: none, or one from the value
\* before to the value of now.
LEMMA TrailGrows ==
    ASSUME NEW log \in Seq(Entry), NEW d \in Seq(Entry), NEW f, NEW before, NEW now,
           Explains(log, f, before),
           \A j, k \in DOMAIN d : d[j].field = f /\ d[k].field = f => j = k,
           \A k \in DOMAIN d : d[k].field = f =>
               /\ d[k].oldValue = before /\ d[k].newValue = now
               /\ d[k].oldValue # d[k].newValue,
           (\A k \in DOMAIN d : d[k].field # f) => now = before
    PROVE  Explains(log \o d, f, now)
    <1> DEFINE n == Len(log)
               m == Len(d)
               all == log \o d
               about == {k \in DOMAIN log : log[k].field = f}
               after == {k \in DOMAIN all : all[k].field = f}
    <1>1. /\ n \in Nat /\ DOMAIN log = 1..n
          /\ m \in Nat /\ DOMAIN d = 1..m
        OBVIOUS
    <1>2. /\ DOMAIN all = 1..(n + m)
          /\ \A k \in 1..n : all[k] = log[k]
          /\ \A i \in 1..m : all[n + i] = d[i]
        BY <1>1, ConcatProperties
    <1>3. /\ \A k \in about :
                /\ log[k].oldValue # log[k].newValue
                /\ (\A j \in about : j >= k) => log[k].oldValue = Default[f]
                /\ (\A j \in about : j <= k) => log[k].newValue = before
                /\ \A j \in about :
                      j < k /\ (\A i \in about : i <= j \/ i >= k) =>
                          log[k].oldValue = log[j].newValue
          /\ about = {} => before = Default[f]
        BY DEF Explains
    <1>4. about \subseteq 1..n
        BY <1>1
    <1>5. \A k \in 1..n : k \in about <=> k \in after
        BY <1>1, <1>2
    <1>6. \A k \in after : k \in 1..n \/ \E i \in 1..m : k = n + i
        <2> SUFFICES ASSUME NEW k \in 1..(n + m), k \notin 1..n
                     PROVE  \E i \in 1..m : k = n + i
            BY <1>2
        <2>1. k - n \in 1..m /\ k = n + (k - n)
            BY <1>1
        <2> QED BY <2>1
    <1>7. \A i \in 1..m : n + i \in after <=> d[i].field = f
        BY <1>1, <1>2
    <1> SUFFICES
          /\ \A k \in after :
                /\ all[k].oldValue # all[k].newValue
                /\ (\A j \in after : j >= k) => all[k].oldValue = Default[f]
                /\ (\A j \in after : j <= k) => all[k].newValue = now
                /\ \A j \in after :
                      j < k /\ (\A i \in after : i <= j \/ i >= k) =>
                          all[k].oldValue = all[j].newValue
          /\ after = {} => now = Default[f]
        BY DEF Explains
    <1> HIDE DEF about, after, all, n, m
    <1>8. CASE \A i \in 1..m : d[i].field # f
        <2>1. after = about
            BY <1>4, <1>5, <1>6, <1>7, <1>8
        <2>2. now = before
            BY <1>1, <1>8
        <2>3. \A k \in about : all[k] = log[k]
            BY <1>2, <1>4
        <2> HIDE DEF Explains
        <2> QED BY <1>3, <2>1, <2>2, <2>3
    <1>9. CASE \E i \in 1..m : d[i].field = f
        <2>1. PICK i \in 1..m : d[i].field = f
            BY <1>9
        <2> DEFINE last == n + i
        <2>2. /\ last \in after /\ last \in Nat /\ last > n
              /\ all[last].oldValue = before /\ all[last].newValue = now
              /\ before # now
            BY <1>1, <1>2, <1>7, <2>1
        <2>3. ASSUME NEW k \in after PROVE k \in about \/ k = last
            <3>1. CASE k \in 1..n
                BY <1>5, <3>1
            <3>2. CASE \E j \in 1..m : k = n + j
                <4>1. PICK j \in 1..m : k = n + j
                    BY <3>2
                <4>2. d[j].field = f
                    BY <1>7, <4>1
                <4> QED BY <1>1, <2>1, <4>1, <4>2
            <3> QED BY <1>6, <3>1, <3>2
        <2> HIDE DEF last
        <2>4. \A k \in about : k \in after /\ k \in 1..n /\ k < last /\ all[k] = log[k]
            BY <1>1, <1>2, <1>4, <1>5, <2>2
        <2>5. ASSUME NEW k \in about
              PROVE  /\ all[k].oldValue # all[k].newValue
                     /\ (\A j \in after : j >= k) => all[k].oldValue = Default[f]
                     /\ ~(\A j \in after : j <= k)
                     /\ \A j \in after :
                           j < k /\ (\A x \in after : x <= j \/ x >= k) =>
                               all[k].oldValue = all[j].newValue
            <3>1. /\ k \in Nat /\ k < last /\ all[k] = log[k]
                BY <1>1, <2>4
            <3>2. ~(\A j \in after : j <= k)
                BY <2>2, <3>1
            <3>3. (\A j \in after : j >= k) => all[k].oldValue = Default[f]
                BY <1>3, <2>4, <3>1
            <3>4. ASSUME NEW j \in after, j < k, \A x \in after : x <= j \/ x >= k
                  PROVE  all[k].oldValue = all[j].newValue
                <4>1. j \in about
                    BY <2>2, <2>3, <3>1, <3>4
                <4>2. \A x \in about : x <= j \/ x >= k
                    BY <2>4, <3>4
                <4> QED BY <1>3, <2>4, <3>1, <3>4, <4>1, <4>2
            <3> QED BY <1>3, <3>1, <3>2, <3>3, <3>4
        <2>6. (\A j \in after : j >= last) => all[last].oldValue = Default[f]
            <3> SUFFICES ASSUME \A j \in after : j >= last PROVE before = Default[f]
                BY <2>2
            <3>1. about = {}
                BY <1>1, <2>2, <2>4
            <3> QED BY <1>3, <3>1
        <2>7. ASSUME NEW j \in after, j < last, \A x \in after : x <= j \/ x >= last
              PROVE  all[last].oldValue = all[j].newValue
            <3>1. j \in about
                BY <2>2, <2>3, <2>7
            <3>2. \A x \in about : x <= j
                BY <1>1, <2>2, <2>4, <2>7
            <3> QED BY <1>3, <2>2, <2>4, <3>1, <3>2
        <2> QED BY <2>2, <2>3, <2>5, <2>6, <2>7
    <1> QED BY <1>8, <1>9

-----------------------------------------------------------------------------
(***************************************************************************)
(* Settings: the page and its calls                                        *)
(***************************************************************************)

\* A page and the calls under way: the page waits for one load and one save at
\* most, and unless it is in doubt, only its own save can change what is
\* stored, and what was answered and what it takes for saved are stored.
PageAgrees(cs, p, now) ==
    /\ \A c \in cs : c.page # 0 =>
          /\ c.page = p.mount
          /\ c.kind = "load" => p.isLoading
          /\ c.kind = "save" => p.isSaving
    /\ \A c, d \in cs :
          c.page # 0 /\ d.page # 0 /\ c.kind = d.kind /\ c.kind \in {"load", "save"}
              => c = d
    /\ ~(p.isLoading /\ p.isSaving)
    /\ ~p.doubtful =>
          /\ \A c \in cs : c.kind = "save" => c.page # 0
          /\ \A c \in cs : c.kind \in {"load", "save"} /\ c.at = "answered" =>
                c.body = now
          /\ ~p.isLoading /\ ~p.isSaving => p.savedSettings = now

PageInv ==
    /\ \A c \in calls : c.kind = "load" => c.page # 0
    /\ Open => PageAgrees(calls, settingsPage, Stored)
    /\ ~Open => \A c \in calls : c.page = 0

SettingsInv == SettingsTypeOK /\ AuditExplainsSettings /\ PageInv

LEMMA SettingsSuffice ==
    ASSUME SettingsInv PROVE SettingsAgree
    BY DEF SettingsInv, PageInv, PageAgrees, SavedIsStored, formShown, SettingsAgree

\* A call in another state.
LEMMA CallAnswered ==
    ASSUME NEW c \in Call, NEW d, d = [c EXCEPT !.at = "answered"]
    PROVE  /\ d \in Call /\ d.kind = c.kind /\ d.page = c.page
           /\ d.at = "answered" /\ d.body = c.body
    BY DEF Call

LEMMA CallLeft ==
    ASSUME SettingsConstants, NEW c \in Call, NEW d, d = [c EXCEPT !.page = 0]
    PROVE  /\ d \in Call /\ d.kind = c.kind /\ d.page = 0
           /\ d.at = c.at /\ d.body = c.body
    BY DEF Call, SettingsConstants

\* The service answers a call; a save makes its body what is stored.
LEMMA ServiceAnswers ==
    ASSUME NEW cs, NEW p, NEW before, NEW now, NEW c \in cs, NEW d,
           PageAgrees(cs, p, before), \A e \in cs : e.kind = "load" => e.page # 0,
           d.kind = c.kind, d.page = c.page,
           p.isLoading \in BOOLEAN, p.isSaving \in BOOLEAN, p.doubtful \in BOOLEAN,
           IF c.kind = "save" THEN now = d.body ELSE now = before,
           c.kind = "load" => d.body = now
    PROVE  PageAgrees((cs \ {c}) \union {d}, p, now)
    BY DEF PageAgrees

LEMMA ServiceKeeps ==
    ASSUME SettingsConstants, SettingsInv, NEW c \in calls,
           \/ getSettings(c) \/ updateSettings(c)
           \/ getAuditTrail(c) \/ handleAccountAction(c)
    PROVE  SettingsInv'
    <1> USE DEF SettingsInv
    <1>1. /\ c \in Call /\ settingsPage' = settingsPage /\ issued' = issued
          /\ Stored \in UserSettings
        BY DEF SettingsTypeOK, getSettings, updateSettings, getAuditTrail,
               handleAccountAction, Stored, SettingsConstants
    <1>2. PICK d \in Call :
             /\ calls' = (calls \ {c}) \union {d}
             /\ d.kind = c.kind /\ d.page = c.page
             /\ d.body = IF c.kind = "load" THEN Stored ELSE c.body
        <2>1. CASE getSettings(c)
            <3> DEFINE d == [c EXCEPT !.at = "answered", !.body = Stored]
            <3>1. d = [c EXCEPT !.at = "answered", !.body = Stored]
                OBVIOUS
            <3> HIDE DEF d
            <3>2. /\ d \in Call /\ d.kind = c.kind /\ d.page = c.page
                  /\ d.body = Stored
                BY <1>1, <3>1 DEF Call
            <3> QED BY <2>1, <3>1, <3>2 DEF getSettings
        <2>2. CASE \/ updateSettings(c) \/ getAuditTrail(c) \/ handleAccountAction(c)
            <3> DEFINE d == [c EXCEPT !.at = "answered"]
            <3>1. c.body \in UserSettings
                BY <1>1 DEF Call
            <3>2. /\ d \in Call /\ d.kind = c.kind /\ d.page = c.page
                  /\ d.body = c.body
                BY <1>1, CallAnswered
            <3>3. calls' = (calls \ {c}) \union {d} /\ c.kind # "load"
                BY <2>2 DEF updateSettings, getAuditTrail, handleAccountAction, Answered
            <3> QED BY <3>2, <3>3
        <2> QED BY <2>1, <2>2
    <1>3. /\ Stored' = IF c.kind = "save" THEN c.body ELSE Stored
          /\ settingsByDid' \in UserSettings \union {NULL}
        <2>1. CASE updateSettings(c)
            BY <1>1, <2>1 DEF updateSettings, Stored, SettingsConstants, Call
        <2>2. CASE getSettings(c) \/ getAuditTrail(c) \/ handleAccountAction(c)
            BY <2>2 DEF getSettings, getAuditTrail, handleAccountAction, Stored,
                        SettingsTypeOK
        <2> QED BY <2>1, <2>2
    <1>4. auditLog' \in Seq(Entry) /\ AuditExplainsSettings'
        <2>1. CASE getSettings(c) \/ getAuditTrail(c)
            BY <1>3, <2>1 DEF getSettings, getAuditTrail, AuditExplainsSettings,
                              SettingsTypeOK
        <2>2. CASE handleAccountAction(c)
            <3> DEFINE e == [field |-> "account", oldValue |-> NULL, newValue |-> NULL]
                       entries == <<e>>
            <3>1. /\ e \in Entry /\ e.field = "account"
                BY DEF Entry
            <3> HIDE DEF e
            <3>2. /\ entries \in Seq(Entry) /\ DOMAIN entries = {1} /\ entries[1] = e
                BY <3>1
            <3> HIDE DEF entries
            <3>3. auditLog' = auditLog \o entries /\ auditLog \in Seq(Entry)
                BY <2>2, <3>1 DEF handleAccountAction, SettingsTypeOK, entries, e
            <3>4. auditLog' \in Seq(Entry) /\ Stored' = Stored
                BY <1>3, <2>2, <3>2, <3>3, ConcatProperties DEF handleAccountAction
            <3>5. ASSUME NEW f \in Fields PROVE Explains(auditLog', f, Stored[f])
                <4>1. Explains(auditLog, f, Stored[f])
                    BY DEF AuditExplainsSettings
                <4>2. \A k \in DOMAIN entries : entries[k].field # f
                    BY <3>1, <3>2 DEF SettingsConstants
                <4> QED BY <3>2, <3>3, <4>1, <4>2, TrailGrows
            <3> QED BY <3>4, <3>5 DEF AuditExplainsSettings
        <2>3. CASE updateSettings(c)
            <3> DEFINE entries == diffSettings(Stored, c.body)
            <3>1. c.body \in UserSettings
                BY <1>1 DEF Call
            <3>2. /\ entries \in Seq(Entry)
                  /\ \A k \in DOMAIN entries :
                        /\ entries[k].field \in Fields
                        /\ entries[k].oldValue = Stored[entries[k].field]
                        /\ entries[k].newValue = c.body[entries[k].field]
                        /\ entries[k].oldValue # entries[k].newValue
                  /\ \A j, k \in DOMAIN entries :
                        entries[j].field = entries[k].field => j = k
                  /\ \A f \in Fields : Stored[f] # c.body[f] =>
                        \E k \in DOMAIN entries : entries[k].field = f
                BY <1>1, <3>1, DiffTyped
            <3> HIDE DEF entries
            <3>3. /\ auditLog' = auditLog \o entries /\ auditLog \in Seq(Entry)
                  /\ Stored' = c.body
                BY <1>3, <2>3 DEF updateSettings, SettingsTypeOK, entries
            <3>4. auditLog' \in Seq(Entry)
                BY <3>2, <3>3, ConcatProperties
            <3>5. ASSUME NEW f \in Fields PROVE Explains(auditLog', f, c.body[f])
                <4>1. Explains(auditLog, f, Stored[f])
                    BY DEF AuditExplainsSettings
                <4>2. /\ \A j, k \in DOMAIN entries :
                            entries[j].field = f /\ entries[k].field = f => j = k
                      /\ \A k \in DOMAIN entries : entries[k].field = f =>
                            /\ entries[k].oldValue = Stored[f]
                            /\ entries[k].newValue = c.body[f]
                            /\ entries[k].oldValue # entries[k].newValue
                      /\ (\A k \in DOMAIN entries : entries[k].field # f)
                            => c.body[f] = Stored[f]
                    BY <3>2
                <4> QED BY <3>2, <3>3, <4>1, <4>2, TrailGrows
            <3> QED BY <3>3, <3>4, <3>5 DEF AuditExplainsSettings
        <2> QED BY <2>1, <2>2, <2>3
    <1>5. calls' \subseteq Call
        BY <1>2 DEF SettingsTypeOK
    <1>6. SettingsTypeOK'
        BY <1>1, <1>3, <1>4, <1>5 DEF SettingsTypeOK
    <1>7. PageInv'
        <2>1. Open => PageAgrees(calls', settingsPage, Stored')
            <3> SUFFICES ASSUME Open PROVE PageAgrees(calls', settingsPage, Stored')
                OBVIOUS
            <3>1. /\ PageAgrees(calls, settingsPage, Stored)
                  /\ \A e \in calls : e.kind = "load" => e.page # 0
                BY DEF PageInv
            <3>2. /\ settingsPage.isLoading \in BOOLEAN
                  /\ settingsPage.isSaving \in BOOLEAN
                  /\ settingsPage.doubtful \in BOOLEAN
                BY DEF Open, SettingsTypeOK, Page
            <3>3. /\ IF c.kind = "save" THEN Stored' = d.body ELSE Stored' = Stored
                  /\ c.kind = "load" => d.body = Stored'
                BY <1>2, <1>3
            <3> DEFINE now == Stored'
            <3> HIDE DEF now
            <3>4. PageAgrees((calls \ {c}) \union {d}, settingsPage, now)
                BY <1>2, <3>1, <3>2, <3>3, ServiceAnswers DEF now
            <3> QED BY <1>2, <3>4 DEF now
        <2> QED BY <1>1, <1>2, <2>1 DEF PageInv, Open
    <1> QED BY <1>4, <1>6, <1>7

\* Steps of the page leave what is stored and its audit log.
PageOnly == settingsByDid' = settingsByDid /\ auditLog' = auditLog

LEMMA PageOnlyKeeps ==
    ASSUME SettingsInv, PageOnly, settingsPage' \in Page \union {NULL},
           calls' \subseteq Call, issued' \in 0..MaxCalls, PageInv'
    PROVE  SettingsInv'
    BY DEF SettingsInv, PageOnly, SettingsTypeOK, AuditExplainsSettings, Stored

LEMMA MountKeeps ==
    ASSUME SettingsConstants, SettingsInv, MountSettings
    PROVE  SettingsInv'
    <1> USE DEF SettingsInv
    <1> DEFINE n == issued + 1
               call == [id |-> n, kind |-> "load", page |-> n,
                        at |-> "sent", body |-> Default]
               page == [mount |-> n, settings |-> Default,
                        savedSettings |-> Default, isLoading |-> TRUE,
                        isSaving |-> FALSE, entries |-> 0,
                        doubtful |-> \E c \in calls : c.kind = "save"]
    <1>1. /\ ~Open /\ issued' = n /\ calls' = calls \union {call}
          /\ settingsPage' = page /\ PageOnly
        BY DEF MountSettings, IssueCall, PageOnly
    <1>2. n \in 1..MaxCalls /\ n # 0 /\ n \in 0..MaxCalls
        BY DEF MountSettings, IssueCall, SettingsTypeOK, SettingsConstants
    <1> HIDE DEF n
    <1>3. /\ call \in Call /\ call.kind = "load" /\ call.page = n
          /\ call.at = "sent"
        BY <1>2 DEF Call, Kind, SettingsConstants
    <1>4. /\ page \in Page /\ page.mount = n /\ page.isLoading /\ ~page.isSaving
          /\ ~page.doubtful => \A c \in calls : c.kind # "save"
        BY <1>2 DEF Page, SettingsConstants
    <1> HIDE DEF call, page
    <1>5. \A c \in calls : c.page = 0 /\ c.kind # "load"
        BY <1>1 DEF PageInv
    <1>6. page # NULL
        BY <1>4 DEF SettingsConstants
    <1>7. PageAgrees(calls', page, Stored')
        BY <1>1, <1>2, <1>3, <1>4, <1>5 DEF PageAgrees
    <1>8. PageInv'
        BY <1>1, <1>2, <1>3, <1>5, <1>6, <1>7 DEF PageInv, Open
    <1>9. calls' \subseteq Call
        BY <1>1, <1>3 DEF SettingsTypeOK
    <1> QED BY <1>1, <1>2, <1>4, <1>8, <1>9, PageOnlyKeeps

LEMMA UnmountKeeps ==
    ASSUME SettingsConstants, SettingsInv, UnmountSettings
    PROVE  SettingsInv'
    <1> USE DEF SettingsInv
    <1> DEFINE left == {d \in calls : d.kind \in {"save", "action"} /\ d.at = "sent"}
    <1>1. /\ settingsPage' = NULL /\ issued' = issued /\ PageOnly
          /\ calls' = {[c EXCEPT !.page = 0] : c \in left}
        BY DEF UnmountSettings, PageOnly
    <1>2. \A c \in left : c \in Call /\ c.kind # "load"
        BY DEF SettingsTypeOK
    <1> HIDE DEF left
    <1>3. ASSUME NEW e \in calls' PROVE e \in Call /\ e.kind # "load" /\ e.page = 0
        <2>1. PICK c \in left : e = [c EXCEPT !.page = 0]
            BY <1>1
        <2> QED BY <1>2, <2>1, CallLeft
    <1>4. PageInv'
        BY <1>1, <1>3 DEF PageInv, Open
    <1> QED BY <1>1, <1>3, <1>4, PageOnlyKeeps DEF SettingsTypeOK

\* What the user edits plays no part.
LEMMA EditKeeps ==
    ASSUME SettingsConstants, SettingsInv,
           handleCancel \/ \E f \in Fields, v \in Values : handlePatch(f, v)
    PROVE  SettingsInv'
    <1> USE DEF SettingsInv
    <1>1. PICK edited \in UserSettings :
             settingsPage' = [settingsPage EXCEPT !.settings = edited]
        <2>1. settingsPage \in Page
            BY DEF handleCancel, handlePatch, formShown, Open, SettingsTypeOK
        <2>2. CASE handleCancel
            <3>1. settingsPage.savedSettings \in UserSettings
                BY <2>1 DEF Page
            <3> QED BY <2>2, <3>1 DEF handleCancel
        <2>3. CASE \E f \in Fields, v \in Values : handlePatch(f, v)
            <3>1. PICK f \in Fields, v \in Values : handlePatch(f, v)
                BY <2>3
            <3> DEFINE edited == [settingsPage.settings EXCEPT ![f] = v]
            <3>2. edited \in UserSettings
                BY <2>1 DEF Page, UserSettings
            <3>3. settingsPage' = [settingsPage EXCEPT !.settings = edited]
                BY <3>1 DEF handlePatch
            <3> QED BY <3>2, <3>3
        <2> QED BY <2>2, <2>3
    <1>2. /\ Open /\ settingsPage \in Page /\ calls' = calls /\ issued' = issued
          /\ PageOnly
        BY DEF handleCancel, handlePatch, formShown, Open, SettingsTypeOK, PageOnly
    <1>3. /\ settingsPage' \in Page
          /\ settingsPage'.mount = settingsPage.mount
          /\ settingsPage'.savedSettings = settingsPage.savedSettings
          /\ settingsPage'.isLoading = settingsPage.isLoading
          /\ settingsPage'.isSaving = settingsPage.isSaving
          /\ settingsPage'.doubtful = settingsPage.doubtful
        BY <1>1, <1>2 DEF Page
    <1>4. Stored' = Stored
        BY <1>2 DEF PageOnly, Stored
    <1>5. PageAgrees(calls', settingsPage', Stored')
        BY <1>2, <1>3, <1>4 DEF PageInv, PageAgrees
    <1>6. PageInv'
        BY <1>2, <1>3, <1>5 DEF PageInv, Open, SettingsConstants
    <1> QED BY <1>2, <1>3, <1>6, PageOnlyKeeps DEF SettingsTypeOK

LEMMA SaveKeeps ==
    ASSUME SettingsConstants, SettingsInv, handleSave
    PROVE  SettingsInv'
    <1> USE DEF SettingsInv
    <1> DEFINE n == issued + 1
               call == [id |-> n, kind |-> "save", page |-> settingsPage.mount,
                        at |-> "sent", body |-> settingsPage.settings]
    <1>1. /\ Open /\ settingsPage \in Page /\ ~settingsPage.isLoading
          /\ ~settingsPage.isSaving
          /\ issued' = n /\ calls' = calls \union {call} /\ PageOnly
          /\ settingsPage' = [settingsPage EXCEPT !.isSaving = TRUE]
        BY DEF handleSave, IssueCall, PageOnly, formShown, Open, SettingsTypeOK
    <1>2. n \in 1..MaxCalls /\ n \in 0..MaxCalls
        BY DEF handleSave, IssueCall, SettingsTypeOK, SettingsConstants
    <1> HIDE DEF n
    <1>3. /\ call \in Call /\ call.kind = "save" /\ call.page = settingsPage.mount
          /\ call.at = "sent" /\ call.page # 0
        BY <1>1, <1>2 DEF Call, Kind, Page, SettingsConstants
    <1> HIDE DEF call
    <1>4. /\ settingsPage' \in Page
          /\ settingsPage'.mount = settingsPage.mount
          /\ ~settingsPage'.isLoading /\ settingsPage'.isSaving
          /\ settingsPage'.doubtful = settingsPage.doubtful
        BY <1>1 DEF Page
    <1>5. Stored' = Stored
        BY <1>1 DEF PageOnly, Stored
    <1>6. PageAgrees(calls, settingsPage, Stored)
        BY <1>1 DEF PageInv
    <1>7. PageAgrees(calls', settingsPage', Stored')
        BY <1>1, <1>3, <1>4, <1>5, <1>6 DEF PageAgrees
    <1>8. PageInv'
        BY <1>1, <1>3, <1>4, <1>7 DEF PageInv, Open, SettingsConstants
    <1>9. calls' \subseteq Call
        BY <1>1, <1>3 DEF SettingsTypeOK
    <1> QED BY <1>1, <1>2, <1>4, <1>8, <1>9, PageOnlyKeeps

LEMMA AskKeeps ==
    ASSUME SettingsConstants, SettingsInv, NEW kind, Ask(kind)
    PROVE  SettingsInv'
    <1> USE DEF SettingsInv
    <1> DEFINE n == issued + 1
               call == [id |-> n, kind |-> kind, page |-> settingsPage.mount,
                        at |-> "sent", body |-> Default]
    <1>1. /\ Open /\ settingsPage \in Page /\ kind \in {"audit", "action"}
          /\ issued' = n /\ calls' = calls \union {call} /\ PageOnly
          /\ settingsPage' = settingsPage
        BY DEF Ask, IssueCall, PageOnly, formShown, Open, SettingsTypeOK
    <1>2. n \in 1..MaxCalls /\ n \in 0..MaxCalls
        BY DEF Ask, IssueCall, SettingsTypeOK, SettingsConstants
    <1> HIDE DEF n
    <1>3. /\ call \in Call /\ call.kind \in {"audit", "action"}
          /\ call.page = settingsPage.mount /\ call.page # 0
        BY <1>1, <1>2 DEF Call, Kind, Page, SettingsConstants
    <1> HIDE DEF call
    <1>4. Stored' = Stored
        BY <1>1 DEF PageOnly, Stored
    <1>5. PageAgrees(calls, settingsPage, Stored)
        BY <1>1 DEF PageInv
    <1>6. PageAgrees(calls', settingsPage', Stored')
        BY <1>1, <1>3, <1>4, <1>5 DEF PageAgrees
    <1>7. PageInv'
        BY <1>1, <1>3, <1>6 DEF PageInv, Open
    <1>8. calls' \subseteq Call
        BY <1>1, <1>3 DEF SettingsTypeOK
    <1> QED BY <1>1, <1>2, <1>7, <1>8, PageOnlyKeeps

\* The page waits for one load and one save, so that after an answer it waits
\* for none of that kind.
LEMMA AnswerKeeps ==
    ASSUME SettingsConstants, SettingsInv, NEW c \in calls, Answer(c)
    PROVE  SettingsInv'
    <1> USE DEF SettingsInv
    <1>1. /\ Open /\ settingsPage \in Page /\ c \in Call
          /\ c.page = settingsPage.mount /\ c.page # 0 /\ c.at = "answered"
          /\ calls' = calls \ {c} /\ issued' = issued /\ PageOnly
          /\ settingsPage' = shows(settingsPage, c)
        BY DEF Answer, PageOnly, Open, SettingsTypeOK, Page
    <1>2. PageAgrees(calls, settingsPage, Stored) /\ Stored' = Stored
        BY <1>1 DEF PageInv, PageOnly, Stored
    <1>3. c.body \in UserSettings
        BY <1>1 DEF Call
    <1>4. /\ settingsPage' \in Page
          /\ settingsPage'.mount = settingsPage.mount
          /\ settingsPage'.doubtful = settingsPage.doubtful
          /\ settingsPage'.isLoading =
                (settingsPage.isLoading /\ c.kind # "load")
          /\ settingsPage'.isSaving =
                (settingsPage.isSaving /\ c.kind # "save")
          /\ settingsPage'.savedSettings =
                IF c.kind \in {"load", "save"} THEN c.body
                ELSE settingsPage.savedSettings
        <2>1. CASE c.kind = "load"
            BY <1>1, <1>3, <2>1 DEF shows, Page
        <2>2. CASE c.kind = "save"
            BY <1>1, <1>3, <2>2 DEF shows, Page
        <2>3. CASE c.kind = "audit"
            <3>1. settingsPage' = [settingsPage EXCEPT !.entries = Len(auditLog)]
                BY <1>1, <2>3 DEF shows
            <3>2. Len(auditLog) \in Nat
                BY DEF SettingsTypeOK
            <3> QED BY <1>1, <2>3, <3>1, <3>2 DEF Page
        <2>4. CASE c.kind = "action"
            <3>1. settingsPage' = settingsPage
                BY <1>1, <2>4 DEF shows
            <3> QED BY <1>1, <2>4, <3>1 DEF Page
        <2> QED BY <1>1, <2>1, <2>2, <2>3, <2>4 DEF Call, Kind
    <1>5. PageAgrees(calls', settingsPage', Stored')
        BY <1>1, <1>2, <1>4 DEF PageAgrees
    <1>6. PageInv'
        BY <1>1, <1>4, <1>5 DEF PageInv, Open, SettingsConstants
    <1> QED BY <1>1, <1>4, <1>6, PageOnlyKeeps DEF SettingsTypeOK

LEMMA FailKeeps ==
    ASSUME SettingsConstants, SettingsInv, NEW c \in calls, Fail(c)
    PROVE  SettingsInv'
    <1> USE DEF SettingsInv
    <1> DEFINE lost == [c EXCEPT !.page = 0]
    <1>1. /\ Open /\ settingsPage \in Page /\ c \in Call
          /\ c.page = settingsPage.mount /\ c.page # 0
          /\ issued' = issued /\ PageOnly
          /\ settingsPage' = [settingsPage EXCEPT
                !.isLoading = @ /\ c.kind # "load",
                !.isSaving = @ /\ c.kind # "save",
                !.doubtful = @ \/ c.kind \in {"load", "save"}]
          /\ \/ calls' = calls \ {c}
             \/ /\ c.kind \in {"save", "action"}
                /\ calls' = (calls \ {c}) \union {lost}
        BY DEF Fail, PageOnly, Open, SettingsTypeOK, Page
    <1>2. PageAgrees(calls, settingsPage, Stored) /\ Stored' = Stored
        BY <1>1 DEF PageInv, PageOnly, Stored
    <1>3. lost \in Call /\ lost.kind = c.kind /\ lost.page = 0
        BY <1>1, CallLeft
    <1> HIDE DEF lost
    <1>4. /\ settingsPage' \in Page
          /\ settingsPage'.mount = settingsPage.mount
          /\ settingsPage'.savedSettings = settingsPage.savedSettings
          /\ settingsPage'.isLoading = (settingsPage.isLoading /\ c.kind # "load")
          /\ settingsPage'.isSaving = (settingsPage.isSaving /\ c.kind # "save")
          /\ settingsPage'.doubtful =
                (settingsPage.doubtful \/ c.kind \in {"load", "save"})
        BY <1>1 DEF Page
    <1>5. PageAgrees(calls', settingsPage', Stored')
        BY <1>1, <1>2, <1>3, <1>4 DEF PageAgrees
    <1>6. PageInv'
        BY <1>1, <1>3, <1>4, <1>5 DEF PageInv, Open, SettingsConstants
    <1>7. calls' \subseteq Call
        BY <1>1, <1>3 DEF SettingsTypeOK
    <1> QED BY <1>1, <1>4, <1>6, <1>7, PageOnlyKeeps DEF SettingsTypeOK

LEMMA LostKeeps ==
    ASSUME SettingsConstants, SettingsInv, NEW c \in calls, Lost(c)
    PROVE  SettingsInv'
    <1> USE DEF SettingsInv
    <1>1. /\ calls' = calls \ {c} /\ settingsPage' = settingsPage
          /\ issued' = issued /\ PageOnly
        BY DEF Lost, PageOnly
    <1>2. Stored' = Stored
        BY <1>1 DEF PageOnly, Stored
    <1>3. Open => PageAgrees(calls', settingsPage', Stored')
        BY <1>1, <1>2 DEF PageInv, PageAgrees
    <1>4. PageInv'
        BY <1>1, <1>3 DEF PageInv, Open
    <1> QED BY <1>1, <1>4, PageOnlyKeeps DEF SettingsTypeOK

LEMMA SettingsInitInv ==
    ASSUME SettingsConstants, SettingsInit PROVE SettingsInv
    <1> USE DEF SettingsInit
    <1>1. SettingsTypeOK
        BY DEF SettingsTypeOK, SettingsConstants
    <1>2. AuditExplainsSettings
        BY DEF AuditExplainsSettings, Explains, Stored
    <1>3. PageInv
        BY DEF PageInv, Open
    <1> QED BY <1>1, <1>2, <1>3 DEF SettingsInv

LEMMA SettingsInvariant ==
    ASSUME SettingsConstants
    PROVE  SettingsSpec => []SettingsInv
    <1>1. SettingsInit => SettingsInv
        BY SettingsInitInv
    <1>2. SettingsInv /\ [SettingsNext]_settingsVars => SettingsInv'
        <2>1. SettingsInv /\ UNCHANGED settingsVars => SettingsInv'
            BY DEF settingsVars, SettingsInv, SettingsTypeOK,
                   AuditExplainsSettings, PageInv, Open, Stored
        <2>2. SettingsInv /\ SettingsNext => SettingsInv'
            BY ServiceKeeps, AnswerKeeps, FailKeeps, LostKeeps, MountKeeps,
               UnmountKeeps, EditKeeps, SaveKeeps, AskKeeps DEF SettingsNext
        <2> QED BY <2>1, <2>2
    <1> QED
        BY <1>1, <1>2, PTL DEF SettingsSpec

(* Whatever saves are given up, come through late or after newer ones, the   *)
(* audit log leads from the defaults to what is stored, and a page that no   *)
(* failed call has put in doubt takes for saved what is stored               *)
(* (SettingsRoute and settings-service.ts).                                  *)
THEOREM SettingsAgreeAlways ==
    ASSUME SettingsConstants
    PROVE  SettingsSpec => []SettingsAgree
    <1>1. SettingsInv => SettingsAgree
        BY SettingsSuffice
    <1> QED
        BY <1>1, SettingsInvariant, PTL

-----------------------------------------------------------------------------
(***************************************************************************)
(* Gateway: the limiter                                                    *)
(***************************************************************************)

\* The limiter's facts for one client: log are the times of what passed, held
\* the places it remembers, W and M its window and maximum, retry the time it
\* named.  What it forgot is outside the window; the time it named is that at
\* which the last M requests stop filling the window.
LimiterInv(now, log, held, retry, W, M) ==
    /\ \A k \in DOMAIN log : log[k] \in Nat /\ log[k] <= now
    /\ \A j, k \in DOMAIN log : j <= k => log[j] <= log[k]
    /\ held \subseteq DOMAIN log
    /\ \A k \in DOMAIN log : k \notin held => log[k] <= now - W
    /\ \A k \in DOMAIN log : k > M => log[k] - log[k - M] >= W
    /\ retry # NULL => Len(log) >= M /\ retry = log[Len(log) - M + 1] + W

\* The places within the window.
Live(now, log, held, W) == {k \in held : log[k] > now - W}

LEMMA LiveCount ==
    ASSUME NEW log \in Seq(Nat), NEW held, NEW now \in Nat,
           NEW W \in Nat \ {0}, NEW M \in Nat \ {0}, NEW retry,
           LimiterInv(now, log, held, retry, W, M)
    PROVE  /\ IsFiniteSet(Live(now, log, held, W))
           /\ Cardinality(Live(now, log, held, W)) < M <=>
                \/ Len(log) < M
                \/ log[Len(log) - M + 1] <= now - W
    <1> DEFINE live == Live(now, log, held, W)
               n == Len(log)
               c == Cardinality(live)
    <1>1. n \in Nat /\ DOMAIN log = 1..n
        OBVIOUS
    <1>2. live \subseteq 1..n
        BY <1>1 DEF Live, LimiterInv
    <1>3. \A k \in 1..n : k \in live <=> log[k] > now - W
        BY <1>1 DEF Live, LimiterInv
    <1>4. \A k \in 1..n : log[k] \in Nat
        BY <1>1 DEF LimiterInv
    <1>5. \A j, k \in 1..n : j <= k => log[j] <= log[k]
        BY <1>1 DEF LimiterInv
    <1> HIDE DEF live, n
    <1>6. IsFiniteSet(1..n) /\ Cardinality(1..n) = n
        BY <1>1, FS_Interval
    <1>7. IsFiniteSet(live) /\ c <= n /\ c \in Nat
        BY <1>2, <1>6, FS_Subset, FS_CardinalityType
    <1> HIDE DEF c
    <1>8. CASE n < M
        BY <1>1, <1>7, <1>8 DEF n, c, live
    <1>9. CASE n >= M /\ log[n - M + 1] <= now - W
        <2> DEFINE m == n - M + 2
        <2>1. m \in Int /\ m <= n + 1 /\ n - M + 1 \in 1..n /\ m - 1 = n - M + 1
            BY <1>1, <1>9
        <2>2. live \subseteq m..n
            <3> SUFFICES ASSUME NEW k \in live, k < m PROVE FALSE
                BY <1>1, <1>2, <2>1
            <3>1. k \in 1..n /\ k <= n - M + 1
                BY <1>1, <1>2, <2>1
            <3>2. log[k] <= log[n - M + 1]
                BY <1>5, <2>1, <3>1
            <3> QED BY <1>3, <1>4, <1>9, <2>1, <3>1, <3>2
        <2>3. m = n - M + 2
            OBVIOUS
        <2> HIDE DEF m
        <2>0. m \in Int /\ n \in Int
            BY <1>1, <2>1
        <2>4. IsFiniteSet(m..n) /\ Cardinality(m..n) = IF m > n THEN 0 ELSE n - m + 1
            BY <2>0, FS_Interval
        <2>5. Cardinality(m..n) = M - 1
            BY <1>1, <2>3, <2>4
        <2>6. c <= M - 1
            BY <2>2, <2>4, <2>5, FS_Subset DEF c
        <2> QED BY <1>1, <1>7, <1>9, <2>6 DEF n, c, live
    <1>10. CASE n >= M /\ ~(log[n - M + 1] <= now - W)
        <2> DEFINE m == n - M + 1
        <2>1. m \in 1..n /\ log[m] > now - W
            BY <1>1, <1>4, <1>10
        <2>2. m..n \subseteq live
            <3> SUFFICES ASSUME NEW k \in m..n PROVE k \in live
                OBVIOUS
            <3>1. k \in 1..n /\ log[m] <= log[k]
                BY <1>1, <1>5, <2>1
            <3> QED BY <1>3, <1>4, <2>1, <3>1
        <2> DEFINE T == m..n
        <2>3. Cardinality(T) = M
            BY <1>1, <2>1, FS_Interval
        <2>4. T \in SUBSET live
            BY <2>2
        <2> HIDE DEF T
        <2>5. Cardinality(T) <= Cardinality(live)
            BY <1>7, <2>4, FS_Subset
        <2>6. M <= c
            BY <2>3, <2>5 DEF c
        <2> QED BY <1>1, <1>7, <1>10, <2>6 DEF n, c, live
    <1> QED BY <1>1, <1>7, <1>8, <1>9, <1>10 DEF live

LEMMA PassKeepsWindow ==
    ASSUME NEW log \in Seq(Nat), NEW held, NEW now \in Nat,
           NEW W \in Nat \ {0}, NEW M \in Nat \ {0}, NEW retry,
           LimiterInv(now, log, held, retry, W, M),
           Cardinality(Live(now, log, held, W)) < M
    PROVE  LimiterInv(now, Append(log, now),
                      Live(now, log, held, W) \union {Len(log) + 1}, NULL, W, M)
    <1> DEFINE n == Len(log)
               new == Append(log, now)
               live == Live(now, log, held, W) \union {n + 1}
    <1>1. /\ n \in Nat /\ DOMAIN log = 1..n /\ DOMAIN new = 1..(n + 1)
          /\ new[n + 1] = now /\ \A k \in 1..n : new[k] = log[k]
        BY AppendProperties
    <1>2. \/ n < M
          \/ n >= M /\ log[n - M + 1] <= now - W
        BY <1>1, LiveCount
    <1>3. Live(now, log, held, W) \subseteq 1..n
        BY <1>1 DEF Live, LimiterInv
    <1>4. \A k \in 1..n : k \notin live => log[k] <= now - W
        BY <1>1 DEF Live, LimiterInv
    <1> HIDE DEF new, live, n
    <1>5. \A k \in 1..(n + 1) : new[k] \in Nat /\ new[k] <= now
        <2> TAKE k \in 1..(n + 1)
        <2>1. k \in 1..n \/ k = n + 1
            BY <1>1
        <2> QED BY <1>1, <2>1 DEF LimiterInv
    <1>6. ASSUME NEW j \in 1..(n + 1), NEW k \in 1..(n + 1), j <= k
          PROVE  new[j] <= new[k]
        <2>1. k = n + 1 \/ (j \in 1..n /\ k \in 1..n)
            BY <1>1, <1>6
        <2> QED BY <1>1, <1>5, <1>6, <2>1 DEF LimiterInv
    <1>7. live \subseteq 1..(n + 1)
        BY <1>1, <1>3 DEF live
    <1>8. \A k \in 1..(n + 1) : k \notin live => new[k] <= now - W
        <2> SUFFICES ASSUME NEW k \in 1..(n + 1), k \notin live
                     PROVE  new[k] <= now - W
            OBVIOUS
        <2>1. k \in 1..n
            BY <1>1 DEF live
        <2> QED BY <1>1, <1>4, <2>1
    <1>9. ASSUME NEW k \in 1..(n + 1), k > M PROVE new[k] - new[k - M] >= W
        <2>1. k - M \in 1..n
            BY <1>1, <1>9
        <2>2. CASE k = n + 1
            <3>1. k - M = n - M + 1 /\ n >= M
                BY <1>1, <1>9, <2>2
            <3>2. new[k - M] <= now - W
                BY <1>1, <1>2, <2>1, <3>1
            <3> QED BY <1>1, <1>5, <2>1, <2>2, <3>2
        <2>3. CASE k \in 1..n
            BY <1>1, <1>9, <2>1, <2>3 DEF LimiterInv
        <2> QED BY <1>1, <2>2, <2>3
    <1>10. LimiterInv(now, new, live, NULL, W, M)
        BY <1>1, <1>5, <1>6, <1>7, <1>8, <1>9 DEF LimiterInv
    <1> QED BY <1>10 DEF new, live, n

\* The oldest entry of a full window is the last one but M - 1.
LEMMA RefuseKeepsWindow ==
    ASSUME NEW log \in Seq(Nat), NEW held, NEW now \in Nat,
           NEW W \in Nat \ {0}, NEW M \in Nat \ {0}, NEW retry,
           LimiterInv(now, log, held, retry, W, M),
           ~(Cardinality(Live(now, log, held, W)) < M),
           NEW old, old = CHOOSE k \in Live(now, log, held, W) :
                              \A j \in Live(now, log, held, W) : k <= j,
           NEW after, after = log[old] + W - now
    PROVE  /\ now + (IF after > 0 THEN after ELSE 0) \in Nat
           /\ LimiterInv(now, log, Live(now, log, held, W),
                         now + (IF after > 0 THEN after ELSE 0), W, M)
    <1> DEFINE n == Len(log)
               live == Live(now, log, held, W)
               m == n - M + 1
    <1>1. n \in Nat /\ DOMAIN log = 1..n
        OBVIOUS
    <1>2. n >= M /\ ~(log[m] <= now - W)
        BY <1>1, LiveCount
    <1>3. m \in 1..n /\ log[m] \in Nat /\ m \in Int /\ m - 1 = n - M
        BY <1>1, <1>2
    <1>4. /\ live \subseteq 1..n
          /\ \A k \in 1..n : k \in live <=> log[k] > now - W
        <2>1. /\ held \subseteq 1..n
              /\ \A k \in 1..n : k \notin held => log[k] <= now - W
            BY <1>1 DEF LimiterInv
        <2>2. ASSUME NEW k \in 1..n
              PROVE  log[k] \in Int /\ (log[k] > now - W <=> ~(log[k] <= now - W))
            BY <1>1
        <2> HIDE DEF n
        <2>3. ASSUME NEW k
              PROVE  k \in live <=> k \in held /\ log[k] > now - W
            BY DEF Live
        <2> HIDE DEF live
        <2> QED BY <2>1, <2>2, <2>3
    <1>5. m \in live
        BY <1>2, <1>3, <1>4
    <1>6. ASSUME NEW k \in live PROVE m <= k
        <2> HIDE DEF live, m, n
        <2>0. k \in 1..n
            BY <1>4
        <2> SUFFICES ASSUME k < m PROVE FALSE
            BY <1>1, <1>3, <2>0
        <2>1. k \in 1..n /\ n - M \in 1..n /\ k <= n - M /\ n > M /\ n \in 1..n
            BY <1>1, <1>3, <2>0
        <2>2. log[k] > now - W /\ log[k] <= log[n - M]
            BY <1>1, <1>4, <1>6, <2>1 DEF LimiterInv
        <2>3. log[n] - log[n - M] >= W /\ log[n] <= now
            BY <1>1, <2>1 DEF LimiterInv
        <2>4. log[k] \in Nat /\ log[n] \in Nat /\ log[n - M] \in Nat
            BY <1>1, <2>1
        <2> HIDE DEF LimiterInv
        <2>5. W \in Nat /\ now \in Nat
            OBVIOUS
        <2> QED BY <2>2, <2>3, <2>4, <2>5
    <1> HIDE DEF live, m, n
    <1>8. old \in live /\ \A j \in live : old <= j
        <2>1. \E k \in live : \A j \in live : k <= j
            BY <1>5, <1>6
        <2> QED BY <2>1 DEF live
    <1>9. old = m
        <2>0. old \in 1..n
            BY <1>4, <1>8
        <2>1. old \in Int
            BY <2>0, <1>1
        <2>2. old <= m /\ m <= old
            BY <1>5, <1>6, <1>8
        <2> QED BY <1>3, <2>1, <2>2
    <1>10. after \in Int /\ after > 0 /\ now + after = log[m] + W
        <2>1. after = log[m] + W - now
            BY <1>9
        <2> DEFINE t == log[m]
        <2>2. t \in Nat /\ W \in Nat /\ now \in Nat /\ t > now - W
            BY <1>2, <1>3
        <2>3. after = t + W - now
            BY <2>1
        <2> HIDE DEF t
        <2>4. after \in Int /\ after > 0 /\ now + after = t + W
            BY <2>2, <2>3
        <2> QED BY <2>4 DEF t
    <1>11. now + (IF after > 0 THEN after ELSE 0) = log[m] + W
        BY <1>10
    <1>12. log[m] + W \in Nat
        BY <1>3
    <1>13. LimiterInv(now, log, live, log[m] + W, W, M)
        BY <1>1, <1>2, <1>4 DEF LimiterInv, m, n
    <1> QED BY <1>11, <1>12, <1>13 DEF live

LEMMA TimeKeepsWindow ==
    ASSUME NEW log \in Seq(Nat), NEW held, NEW now \in Nat,
           NEW W \in Nat \ {0}, NEW M \in Nat \ {0}, NEW retry,
           LimiterInv(now, log, held, retry, W, M)
    PROVE  LimiterInv(now + 1, log, held, retry, W, M)
    BY DEF LimiterInv

\* Changing one limiter's facts about one client.
LEMMA ClientChanges ==
    ASSUME NEW T, NEW f \in [Limiters -> [Clients -> T]],
           NEW l \in Limiters, NEW c \in Clients, NEW x \in T,
           NEW g, g = [f EXCEPT ![l][c] = x]
    PROVE  /\ g \in [Limiters -> [Clients -> T]]
           /\ g[l][c] = x
           /\ \A i \in Limiters, d \in Clients :
                 <<i, d>> # <<l, c>> => g[i][d] = f[i][d]
    OBVIOUS

LimitersHold ==
    \A l \in Limiters, c \in Clients :
        LimiterInv(clockMs, admitted[l][c], hits[l][c], retryAt[l][c],
                   WindowMs[l], MaxRequests[l])

\* Times and places are natural numbers.
LimitersTyped ==
    /\ clockMs \in Nat
    /\ hits \in [Limiters -> [Clients -> SUBSET (Nat \ {0})]]
    /\ admitted \in [Limiters -> [Clients -> Seq(Nat)]]
    /\ retryAt \in [Limiters -> [Clients -> Nat \union {NULL}]]

\* The window that the code looks at.
LEMMA WindowIsLive ==
    ASSUME NEW l \in Limiters, NEW c \in Clients
    PROVE  InWindow(l, c) = Live(clockMs, admitted[l][c], hits[l][c], WindowMs[l])
    BY DEF InWindow, Live

LEMMA LimitersSuffice ==
    ASSUME GatewayConstants, LimitersTyped, LimitersHold
    PROVE  WindowHolds /\ RetryAfterIsExact
    <1>1. WindowHolds
        BY DEF LimitersHold, LimiterInv, WindowHolds
    <1>2. ASSUME NEW l \in Limiters, NEW c \in Clients, retryAt[l][c] # NULL
          PROVE  Allows(l, c) <=> clockMs >= retryAt[l][c]
        <2> DEFINE log == admitted[l][c]
                   held == hits[l][c]
                   retry == retryAt[l][c]
                   W == WindowMs[l]
                   M == MaxRequests[l]
        <2>1. /\ log \in Seq(Nat) /\ clockMs \in Nat
              /\ W \in Nat \ {0} /\ M \in Nat \ {0}
            BY DEF LimitersTyped, GatewayConstants
        <2>2. LimiterInv(clockMs, log, held, retry, W, M)
            BY DEF LimitersHold
        <2>3. Allows(l, c) <=> Cardinality(Live(clockMs, log, held, W)) < M
            BY WindowIsLive DEF Allows
        <2>4. retry # NULL
            BY <1>2
        <2> HIDE DEF log, held, retry, W, M
        <2>5. Cardinality(Live(clockMs, log, held, W)) < M <=>
                  Len(log) < M \/ log[Len(log) - M + 1] <= clockMs - W
            BY <2>1, <2>2, LiveCount
        <2>6. Len(log) >= M /\ retry = log[Len(log) - M + 1] + W
            BY <2>2, <2>4 DEF LimiterInv
        <2>7. log[Len(log) - M + 1] \in Nat
            BY <2>1, <2>6
        <2>8. Allows(l, c) <=> log[Len(log) - M + 1] <= clockMs - W
            BY <2>1, <2>3, <2>5, <2>6
        <2>9. Allows(l, c) <=> clockMs >= retry
            BY <2>1, <2>6, <2>7, <2>8
        <2> QED BY <2>9 DEF retry
    <1> QED BY <1>1, <1>2 DEF RetryAfterIsExact

LEMMA PassKeepsLimiters ==
    ASSUME GatewayConstants, LimitersTyped, LimitersHold,
           NEW l \in Limiters, NEW c \in Clients, Pass(l, c), clockMs' = clockMs
    PROVE  LimitersTyped' /\ LimitersHold'
    <1> DEFINE log == admitted[l][c]
               held == hits[l][c]
               W == WindowMs[l]
               M == MaxRequests[l]
               live == Live(clockMs, log, held, W)
               left == live \union {Len(log) + 1}
    <1>1. /\ log \in Seq(Nat) /\ clockMs \in Nat /\ held \subseteq Nat \ {0}
          /\ W \in Nat \ {0} /\ M \in Nat \ {0}
        BY DEF LimitersTyped, GatewayConstants
    <1>2. LimiterInv(clockMs, log, held, retryAt[l][c], W, M)
        BY DEF LimitersHold
    <1>3. Cardinality(live) < M
        BY WindowIsLive DEF Pass, Allows
    <1>4. /\ hits' = [hits EXCEPT ![l][c] = left]
          /\ admitted' = [admitted EXCEPT ![l][c] = Append(log, clockMs)]
          /\ retryAt' = [retryAt EXCEPT ![l][c] = NULL]
        BY WindowIsLive DEF Pass, LimitersTyped
    <1>5. left \in SUBSET (Nat \ {0})
        BY <1>1 DEF Live
    <1>6. Append(log, clockMs) \in Seq(Nat)
        BY <1>1
    <1> HIDE DEF log, held, left, W, M
    <1>7. LimiterInv(clockMs, Append(log, clockMs), left, NULL, W, M)
        BY <1>1, <1>2, <1>3, PassKeepsWindow DEF left
    <1>8. /\ hits' \in [Limiters -> [Clients -> SUBSET (Nat \ {0})]]
          /\ hits'[l][c] = left
          /\ \A i \in Limiters, d \in Clients :
                <<i, d>> # <<l, c>> => hits'[i][d] = hits[i][d]
        BY <1>4, <1>5, ClientChanges DEF LimitersTyped
    <1>9. /\ admitted' \in [Limiters -> [Clients -> Seq(Nat)]]
          /\ admitted'[l][c] = Append(log, clockMs)
          /\ \A i \in Limiters, d \in Clients :
                <<i, d>> # <<l, c>> => admitted'[i][d] = admitted[i][d]
        BY <1>4, <1>6, ClientChanges DEF LimitersTyped
    <1>10. /\ retryAt' \in [Limiters -> [Clients -> Nat \union {NULL}]]
           /\ retryAt'[l][c] = NULL
           /\ \A i \in Limiters, d \in Clients :
                 <<i, d>> # <<l, c>> => retryAt'[i][d] = retryAt[i][d]
        BY <1>4, ClientChanges DEF LimitersTyped
    <1>11. LimitersTyped'
        BY <1>8, <1>9, <1>10 DEF LimitersTyped
    <1>12. ASSUME NEW i \in Limiters, NEW d \in Clients
           PROVE  LimiterInv(clockMs', admitted'[i][d], hits'[i][d],
                             retryAt'[i][d], WindowMs[i], MaxRequests[i])
        <2>1. CASE <<i, d>> = <<l, c>>
            BY <1>7, <1>8, <1>9, <1>10, <2>1 DEF W, M
        <2>2. CASE <<i, d>> # <<l, c>>
            BY <1>8, <1>9, <1>10, <2>2 DEF LimitersHold
        <2> QED BY <2>1, <2>2
    <1> QED BY <1>11, <1>12 DEF LimitersHold

LEMMA RefuseKeepsLimiters ==
    ASSUME GatewayConstants, LimitersTyped, LimitersHold,
           NEW l \in Limiters, NEW c \in Clients, Refuse(l, c)
    PROVE  LimitersTyped' /\ LimitersHold'
    <1> DEFINE log == admitted[l][c]
               held == hits[l][c]
               W == WindowMs[l]
               M == MaxRequests[l]
               live == Live(clockMs, log, held, W)
               old == CHOOSE k \in live : \A j \in live : k <= j
               after == log[old] + W - clockMs
               retry == clockMs + (IF after > 0 THEN after ELSE 0)
    <1>1. /\ log \in Seq(Nat) /\ clockMs \in Nat /\ held \subseteq Nat \ {0}
          /\ W \in Nat \ {0} /\ M \in Nat \ {0}
        BY DEF LimitersTyped, GatewayConstants
    <1>2. LimiterInv(clockMs, log, held, retryAt[l][c], W, M)
        BY DEF LimitersHold
    <1>3. ~(Cardinality(live) < M)
        BY WindowIsLive DEF Refuse, Allows
    <1>4. Oldest(l, c) = old
        BY WindowIsLive DEF Oldest
    <1>5. /\ hits' = [hits EXCEPT ![l][c] = live]
          /\ retryAt' = [retryAt EXCEPT ![l][c] = retry]
          /\ UNCHANGED <<clockMs, admitted>>
        BY <1>4, WindowIsLive DEF Refuse
    <1>6. live \in SUBSET (Nat \ {0})
        BY <1>1 DEF Live
    <1> HIDE DEF log, held, W, M
    <1>7. /\ retry \in Nat
          /\ LimiterInv(clockMs, log, live, retry, W, M)
        BY <1>1, <1>2, <1>3, RefuseKeepsWindow
    <1> HIDE DEF live, retry
    <1>8. /\ hits' \in [Limiters -> [Clients -> SUBSET (Nat \ {0})]]
          /\ hits'[l][c] = live
          /\ \A i \in Limiters, d \in Clients :
                <<i, d>> # <<l, c>> => hits'[i][d] = hits[i][d]
        BY <1>5, <1>6, ClientChanges DEF LimitersTyped
    <1>9. /\ retryAt' \in [Limiters -> [Clients -> Nat \union {NULL}]]
          /\ retryAt'[l][c] = retry
          /\ \A i \in Limiters, d \in Clients :
                <<i, d>> # <<l, c>> => retryAt'[i][d] = retryAt[i][d]
        BY <1>5, <1>7, ClientChanges DEF LimitersTyped
    <1>10. LimitersTyped'
        BY <1>5, <1>8, <1>9 DEF LimitersTyped
    <1>11. ASSUME NEW i \in Limiters, NEW d \in Clients
           PROVE  LimiterInv(clockMs', admitted'[i][d], hits'[i][d],
                             retryAt'[i][d], WindowMs[i], MaxRequests[i])
        <2>1. CASE <<i, d>> = <<l, c>>
            BY <1>5, <1>7, <1>8, <1>9, <2>1 DEF W, M, log
        <2>2. CASE <<i, d>> # <<l, c>>
            BY <1>5, <1>8, <1>9, <2>2 DEF LimitersHold
        <2> QED BY <2>1, <2>2
    <1> QED BY <1>10, <1>11 DEF LimitersHold

LEMMA ClockKeepsLimiters ==
    ASSUME GatewayConstants, LimitersTyped, LimitersHold, NextMillisecond
    PROVE  LimitersTyped' /\ LimitersHold'
    <1>1. clockMs' = clockMs + 1 /\ UNCHANGED <<hits, admitted, retryAt>>
        BY DEF NextMillisecond
    <1>2. ASSUME NEW l \in Limiters, NEW c \in Clients
          PROVE  LimiterInv(clockMs + 1, admitted[l][c], hits[l][c],
                            retryAt[l][c], WindowMs[l], MaxRequests[l])
        <2>1. /\ admitted[l][c] \in Seq(Nat) /\ clockMs \in Nat
              /\ WindowMs[l] \in Nat \ {0} /\ MaxRequests[l] \in Nat \ {0}
            BY DEF LimitersTyped, GatewayConstants
        <2>2. LimiterInv(clockMs, admitted[l][c], hits[l][c],
                         retryAt[l][c], WindowMs[l], MaxRequests[l])
            BY DEF LimitersHold
        <2> QED BY <2>1, <2>2, TimeKeepsWindow
    <1> QED BY <1>1, <1>2 DEF LimitersTyped, LimitersHold

-----------------------------------------------------------------------------
(***************************************************************************)
(* Gateway: the sessions                                                   *)
(***************************************************************************)

\* Pairs and logins are numbered up to the number of pairs handed out.
SessionInv ==
    /\ IsFiniteSet(handedOut)
    /\ issuedPairs \in Nat
    /\ handedOut \subseteq [login : 1..issuedPairs, tokens : 1..issuedPairs]
    /\ spent \subseteq handedOut
    /\ loggedOut \subseteq 1..issuedPairs /\ forked \subseteq 1..issuedPairs
    /\ refreshing \in [RefreshCalls -> handedOut \union {NULL}]
    /\ TokensWorkOnce
    /\ OneSessionPerLogin

\* The last session of a login among some.
Newest(s, sessions) ==
    \A r \in sessions : r.login = s.login => r.tokens <= s.tokens

\* OneSessionPerLogin, one session at a time.
LEMMA OneAtATime ==
    OneSessionPerLogin <=>
        \A s : s \in activeSessions /\ s.login \notin forked <=>
               /\ s \in handedOut /\ s.login \notin loggedOut \union forked
               /\ Newest(s, handedOut)
    BY DEF OneSessionPerLogin, Newest

LEMMA SessionsAreLast ==
    ASSUME SessionInv
    PROVE  /\ activeSessions \subseteq handedOut
           /\ \A s, r \in activeSessions :
                 s.login = r.login /\ s.login \notin forked => s = r
    <1>1. activeSessions \subseteq handedOut
        BY DEF SessionInv, TokensWorkOnce
    <1>2. ASSUME NEW s \in activeSessions, NEW r \in activeSessions,
                 s.login = r.login, s.login \notin forked
          PROVE  s = r
        <2>1. Newest(s, handedOut) /\ Newest(r, handedOut)
            BY <1>2, OneAtATime DEF SessionInv
        <2>2. s.tokens <= r.tokens /\ r.tokens <= s.tokens
            BY <1>1, <1>2, <2>1 DEF Newest
        <2>3. /\ s \in [login : Nat, tokens : Nat]
              /\ r \in [login : Nat, tokens : Nat]
            BY <1>1 DEF SessionInv
        <2> QED BY <1>2, <2>2, <2>3
    <1> QED BY <1>1, <1>2

\* A pair that is handed out counts as one more, and is new.
LEMMA IssueCounts ==
    ASSUME SessionInv, NEW login \in 1..(issuedPairs + 1),
           Issue(NewSession(login))
    PROVE  /\ IsFiniteSet(handedOut')
           /\ issuedPairs' = issuedPairs + 1
           /\ handedOut' = handedOut \union {NewSession(login)}
           /\ handedOut' \subseteq [login : 1..issuedPairs', tokens : 1..issuedPairs']
           /\ NewSession(login) \notin handedOut
           /\ 1..issuedPairs \subseteq 1..issuedPairs'
           /\ \A s \in handedOut : s.tokens <= NewSession(login).tokens
    <1> DEFINE n == issuedPairs
               new == [login |-> login, tokens |-> n + 1]
    <1>1. n \in Nat /\ handedOut' = handedOut \union {new} /\ new = NewSession(login)
        BY DEF SessionInv, Issue, NewSession
    <1>2. /\ IsFiniteSet(handedOut)
          /\ handedOut \subseteq [login : 1..n, tokens : 1..n]
          /\ n = Cardinality(handedOut)
          /\ login \in 1..(n + 1)
        BY DEF SessionInv, issuedPairs
    <1>3. \A s \in handedOut : s.tokens \in 1..n /\ s.tokens <= n + 1
        BY <1>1, <1>2
    <1>4. new \notin handedOut
        <2>1. new.tokens \notin 1..n
            BY <1>1
        <2> QED BY <1>3, <2>1
    <1> HIDE DEF new
    <1>5. /\ IsFiniteSet(handedOut')
          /\ Cardinality(handedOut') = n + 1
        BY <1>1, <1>2, <1>4, FS_AddElement
    <1>6. issuedPairs' = n + 1
        BY <1>5 DEF issuedPairs
    <1> HIDE DEF n
    <1>7. 1..n \subseteq 1..(n + 1)
        BY <1>1
    <1>8. new \in [login : 1..(n + 1), tokens : 1..(n + 1)]
        BY <1>1, <1>2 DEF new
    <1>9. handedOut' \subseteq [login : 1..(n + 1), tokens : 1..(n + 1)]
        BY <1>1, <1>2, <1>7, <1>8
    <1>10. new.tokens = n + 1
        BY DEF new
    <1> QED BY <1>1, <1>3, <1>4, <1>5, <1>6, <1>7, <1>9, <1>10 DEF n

LEMMA CreateKeepsSessions ==
    ASSUME SessionInv, NEW c, createSession(c)
    PROVE  SessionInv'
    <1> DEFINE n == issuedPairs
               new == NewSession(n + 1)
    <1>1. /\ n \in Nat /\ n + 1 \in 1..(n + 1) /\ n + 1 \notin 1..n
          /\ Issue(new)
          /\ activeSessions' = activeSessions \union {new}
          /\ UNCHANGED <<refreshing, spent, loggedOut, forked>>
          /\ new.login = n + 1
        BY DEF SessionInv, createSession, NewSession
    <1>2. /\ IsFiniteSet(handedOut')
          /\ issuedPairs' = n + 1
          /\ handedOut' = handedOut \union {new}
          /\ handedOut' \subseteq [login : 1..issuedPairs', tokens : 1..issuedPairs']
          /\ new \notin handedOut
          /\ 1..n \subseteq 1..issuedPairs'
        BY <1>1, IssueCounts
    <1>3. \A s \in handedOut : s.login # n + 1
        BY <1>1 DEF SessionInv
    <1>4. n + 1 \notin loggedOut \union forked
        BY <1>1 DEF SessionInv
    <1> HIDE DEF n, new
    <1>5. TokensWorkOnce'
        BY <1>1, <1>2 DEF SessionInv, TokensWorkOnce
    <1>6. \A s \in handedOut : Newest(s, handedOut') <=> Newest(s, handedOut)
        BY <1>1, <1>2, <1>3 DEF Newest
    <1>7. Newest(new, handedOut')
        <2>1. new.tokens <= new.tokens
            BY <1>1 DEF new, NewSession, n
        <2> QED BY <1>1, <1>2, <1>3, <2>1 DEF Newest
    <1>8. OneSessionPerLogin'
        <2> SUFFICES ASSUME NEW s
                     PROVE  s \in activeSessions' /\ s.login \notin forked <=>
                            /\ s \in handedOut'
                            /\ s.login \notin loggedOut \union forked
                            /\ Newest(s, handedOut')
            BY <1>1 DEF OneSessionPerLogin, Newest
        <2>1. CASE s = new
            BY <1>1, <1>2, <1>4, <1>7, <2>1
        <2>2. CASE s # new
            BY <1>1, <1>2, <1>6, <2>2, OneAtATime, SessionsAreLast DEF SessionInv
        <2> QED BY <2>1, <2>2
    <1>9. refreshing' \in [RefreshCalls -> handedOut' \union {NULL}]
        BY <1>1, <1>2 DEF SessionInv
    <1>10. /\ spent' \subseteq handedOut' /\ issuedPairs' \in Nat
           /\ loggedOut' \subseteq 1..issuedPairs' /\ forked' \subseteq 1..issuedPairs'
        BY <1>1, <1>2 DEF SessionInv, n
    <1> QED BY <1>2, <1>5, <1>8, <1>9, <1>10 DEF SessionInv

\* A refresh that starts, or fails, changes no session.
LEMMA WaitingKeepsSessions ==
    ASSUME SessionInv, refreshing' \in [RefreshCalls -> handedOut \union {NULL}],
           UNCHANGED <<activeSessions, handedOut, spent, loggedOut, forked>>
    PROVE  SessionInv'
    BY DEF SessionInv, TokensWorkOnce, OneSessionPerLogin, issuedPairs

LEMMA AnswerKeepsSessions ==
    ASSUME SessionInv, NEW r \in RefreshCalls, refreshAnswered(r)
    PROVE  SessionInv'
    <1> DEFINE n == issuedPairs
               old == refreshing[r]
               new == NewSession(old.login)
    <1>1. /\ old \in handedOut
          /\ Issue(new)
          /\ activeSessions' = (activeSessions \ {old}) \union {new}
          /\ refreshing' = [refreshing EXCEPT ![r] = NULL]
          /\ spent' = spent \union {old}
          /\ forked' = forked \union (IF old \in activeSessions THEN {}
                                      ELSE {old.login})
          /\ loggedOut' = loggedOut
        BY DEF SessionInv, refreshAnswered, Replaced
    <1>2. n \in Nat /\ old.login \in 1..n /\ old.login \in 1..(n + 1)
        BY <1>1 DEF SessionInv
    <1>3. /\ IsFiniteSet(handedOut')
          /\ issuedPairs' = n + 1
          /\ handedOut' = handedOut \union {new}
          /\ handedOut' \subseteq [login : 1..issuedPairs', tokens : 1..issuedPairs']
          /\ new \notin handedOut
          /\ 1..n \subseteq 1..issuedPairs'
          /\ \A s \in handedOut : s.tokens <= new.tokens
        BY <1>1, <1>2, IssueCounts
    <1>4. new.login = old.login
        BY DEF NewSession
    <1>5. \A s \in handedOut : ~(new.tokens <= s.tokens)
        <2>1. new.tokens = n + 1 /\ n \in Nat
            BY <1>2 DEF NewSession
        <2>2. \A s \in handedOut : s.tokens \in 1..n
            BY DEF SessionInv
        <2> QED BY <2>1, <2>2
    <1>6. new.tokens <= new.tokens
        BY <1>2 DEF NewSession
    <1> HIDE DEF n, new, old
    <1>7. TokensWorkOnce'
        BY <1>1, <1>3 DEF SessionInv, TokensWorkOnce
    <1>8. OneSessionPerLogin'
        <2> SUFFICES ASSUME NEW s
                     PROVE  s \in activeSessions' /\ s.login \notin forked' <=>
                            /\ s \in handedOut'
                            /\ s.login \notin loggedOut \union forked'
                            /\ Newest(s, handedOut')
            BY <1>1 DEF OneSessionPerLogin, Newest
        <2>1. CASE s.login \in forked'
            BY <2>1
        <2>2. CASE s.login \notin forked' /\ s.login # old.login
            <3>1. s # new /\ s # old /\ s.login \notin forked
                BY <1>1, <1>4, <2>2
            <3>2. Newest(s, handedOut') <=> Newest(s, handedOut)
                BY <1>3, <1>4, <2>2 DEF Newest
            <3> QED BY <1>1, <1>3, <2>2, <3>1, <3>2, OneAtATime DEF SessionInv
        <2>3. CASE s.login \notin forked' /\ s.login = old.login
            <3>1. old \in activeSessions /\ forked' = forked
                BY <1>1, <2>3
            <3>2. old.login \notin loggedOut
                BY <2>3, <3>1, OneAtATime DEF SessionInv
            <3>3. CASE s = new
                <4>1. Newest(new, handedOut')
                    BY <1>3, <1>6 DEF Newest
                <4> QED BY <1>1, <1>3, <2>3, <3>2, <3>3, <4>1
            <3>4. CASE s # new
                <4>1. s \in activeSessions => s = old
                    BY <2>3, <3>1, SessionsAreLast
                <4>2. s \notin activeSessions'
                    BY <1>1, <3>4, <4>1
                <4>3. s \in handedOut' => ~Newest(s, handedOut')
                    BY <1>3, <1>4, <1>5, <2>3, <3>4 DEF Newest
                <4> QED BY <4>2, <4>3
            <3> QED BY <3>3, <3>4
        <2> QED BY <2>1, <2>2, <2>3
    <1>9. refreshing' \in [RefreshCalls -> handedOut' \union {NULL}]
        BY <1>1, <1>3 DEF SessionInv
    <1>10. /\ spent' \subseteq handedOut' /\ issuedPairs' \in Nat
           /\ loggedOut' \subseteq 1..issuedPairs' /\ forked' \subseteq 1..issuedPairs'
        <2>1. loggedOut \subseteq 1..n /\ forked \subseteq 1..n
            BY DEF SessionInv, n
        <2>2. forked' \subseteq 1..n
            BY <1>1, <1>2, <2>1
        <2>3. spent' \subseteq handedOut'
            BY <1>1, <1>3 DEF SessionInv
        <2>4. issuedPairs' \in Nat
            BY <1>2, <1>3
        <2> QED BY <1>1, <1>3, <2>1, <2>2, <2>3, <2>4
    <1> QED BY <1>3, <1>7, <1>8, <1>9, <1>10 DEF SessionInv

LEMMA DeleteKeepsSessions ==
    ASSUME SessionInv, NEW c, NEW tokens, deleteSession(c, tokens)
    PROVE  SessionInv'
    <1> DEFINE gone == {s \in activeSessions : s.tokens = tokens}
               ended == {s.login : s \in gone}
    <1>1. /\ activeSessions' = activeSessions \ gone
          /\ spent' = spent \union gone
          /\ loggedOut' = loggedOut \union ended
          /\ UNCHANGED <<refreshing, handedOut, forked>>
          /\ gone \subseteq activeSessions
        BY DEF deleteSession
    <1>2. issuedPairs' = issuedPairs
        BY <1>1 DEF issuedPairs
    <1>3. activeSessions \subseteq handedOut
        BY SessionsAreLast
    <1>4. ended \subseteq 1..issuedPairs
        BY <1>3 DEF SessionInv
    <1>5. \A s \in gone : s.login \in ended
        OBVIOUS
    <1>6. \A e \in ended : \E s \in gone : s.login = e
        OBVIOUS
    <1> HIDE DEF gone, ended
    <1>7. TokensWorkOnce'
        BY <1>1 DEF SessionInv, TokensWorkOnce
    <1>8. OneSessionPerLogin'
        <2> SUFFICES ASSUME NEW s
                     PROVE  s \in activeSessions' /\ s.login \notin forked <=>
                            /\ s \in handedOut
                            /\ s.login \notin loggedOut' \union forked
                            /\ Newest(s, handedOut)
            BY <1>1 DEF OneSessionPerLogin, Newest
        <2>1. s \in activeSessions /\ s.login \notin forked /\ s.login \in ended
              => s \in gone
            BY <1>1, <1>6, SessionsAreLast
        <2> QED BY <1>1, <1>5, <2>1, OneAtATime DEF SessionInv
    <1> QED BY <1>1, <1>2, <1>3, <1>4, <1>7, <1>8 DEF SessionInv

-----------------------------------------------------------------------------
GatewayInv == LimitersTyped /\ LimitersHold /\ SessionInv

LEMMA GatewayInitInv ==
    ASSUME GatewayConstants, GatewayInit PROVE GatewayInv
    <1> USE DEF GatewayInit
    <1>1. LimitersTyped
        BY DEF LimitersTyped
    <1>2. LimitersHold
        BY DEF LimitersHold, LimiterInv
    <1>3. SessionInv
        BY FS_EmptySet DEF SessionInv, TokensWorkOnce, OneSessionPerLogin, issuedPairs
    <1> QED BY <1>1, <1>2, <1>3 DEF GatewayInv

LEMMA SessionsRest ==
    ASSUME SessionInv, UNCHANGED sessionVars
    PROVE  SessionInv'
    BY WaitingKeepsSessions DEF sessionVars, SessionInv

LEMMA LimitersRest ==
    ASSUME LimitersTyped, LimitersHold, UNCHANGED <<clockMs, hits, admitted, retryAt>>
    PROVE  LimitersTyped' /\ LimitersHold'
    BY DEF LimitersTyped, LimitersHold

LEMMA GatewayStepInv ==
    ASSUME GatewayConstants, GatewayInv, [GatewayNext]_gatewayVars
    PROVE  GatewayInv'
    <1> USE DEF GatewayInv
    <1>1. ASSUME NEW l \in Limiters, NEW c \in Clients, Refuse(l, c)
          PROVE  GatewayInv'
        <2>1. SessionInv'
            BY <1>1, SessionsRest DEF Refuse
        <2> QED BY <1>1, <2>1, RefuseKeepsLimiters
    <1>2. ASSUME NEW l \in Limiters, NEW c \in Clients, serve(l, c)
          PROVE  GatewayInv'
        <2>1. SessionInv'
            BY <1>2, SessionsRest DEF serve
        <2> QED BY <1>2, <2>1, PassKeepsLimiters DEF serve
    <1>3. "auth" \in Limiters
        BY DEF GatewayConstants
    <1>4. ASSUME NEW c \in Clients, createSession(c)
          PROVE  GatewayInv'
        <2>1. Pass("auth", c) /\ clockMs' = clockMs
            BY <1>4 DEF createSession
        <2> QED BY <1>3, <1>4, <2>1, PassKeepsLimiters, CreateKeepsSessions
    <1>5. ASSUME NEW c \in Clients, NEW r \in RefreshCalls, NEW tokens,
                 refreshSession(c, r, tokens)
          PROVE  GatewayInv'
        <2>1. /\ Pass("auth", c) /\ clockMs' = clockMs
              /\ UNCHANGED <<activeSessions, handedOut, spent, loggedOut, forked>>
            BY <1>5 DEF refreshSession
        <2>2. \E s \in activeSessions : refreshing' = [refreshing EXCEPT ![r] = s]
            BY <1>5 DEF refreshSession
        <2>3. refreshing' \in [RefreshCalls -> handedOut \union {NULL}]
            BY <2>2, SessionsAreLast DEF SessionInv
        <2> QED BY <1>3, <2>1, <2>3, PassKeepsLimiters, WaitingKeepsSessions
    <1>9. ASSUME NEW r \in RefreshCalls, refreshAnswered(r)
          PROVE  GatewayInv'
        <2>1. UNCHANGED <<clockMs, hits, admitted, retryAt>>
            BY <1>9 DEF refreshAnswered
        <2> QED BY <1>9, <2>1, AnswerKeepsSessions, LimitersRest
    <1>10. ASSUME NEW r \in RefreshCalls, refreshFails(r)
           PROVE  GatewayInv'
        <2>1. UNCHANGED <<clockMs, hits, admitted, retryAt, activeSessions,
                          handedOut, spent, loggedOut, forked>>
            BY <1>10 DEF refreshFails
        <2>2. refreshing' \in [RefreshCalls -> handedOut \union {NULL}]
            BY <1>10 DEF refreshFails, SessionInv
        <2> QED BY <2>1, <2>2, WaitingKeepsSessions, LimitersRest
    <1>6. ASSUME NEW c \in Clients, NEW tokens, deleteSession(c, tokens)
          PROVE  GatewayInv'
        <2>1. Pass("auth", c) /\ clockMs' = clockMs
            BY <1>6 DEF deleteSession
        <2> QED BY <1>3, <1>6, <2>1, PassKeepsLimiters, DeleteKeepsSessions
    <1>7. ASSUME NextMillisecond PROVE GatewayInv'
        <2>1. SessionInv'
            BY <1>7, SessionsRest DEF NextMillisecond
        <2> QED BY <1>7, <2>1, ClockKeepsLimiters
    <1>8. ASSUME UNCHANGED gatewayVars PROVE GatewayInv'
        BY <1>8, SessionsRest, LimitersRest DEF gatewayVars
    <1> QED BY <1>1, <1>2, <1>4, <1>5, <1>6, <1>7, <1>8, <1>9, <1>10 DEF GatewayNext

LEMMA GatewayInvariant ==
    ASSUME GatewayConstants
    PROVE  GatewaySpec => []GatewayInv
    <1>1. GatewayInit => GatewayInv
        BY GatewayInitInv
    <1>2. GatewayInv /\ [GatewayNext]_gatewayVars => GatewayInv'
        BY GatewayStepInv
    <1> QED
        BY <1>1, <1>2, PTL DEF GatewaySpec

\* What the bounds of time and tokens add to it.
GatewayBounds ==
    /\ clockMs \in Time
    /\ admitted \in [Limiters -> [Clients -> Seq(Time)]]
    /\ issuedPairs <= MaxTokens

LEMMA GatewayTyped ==
    ASSUME GatewayConstants, GatewayInv, GatewayBounds
    PROVE  GatewayTypeOK
    <1>1. issuedPairs \in Nat /\ MaxTokens \in Nat /\ issuedPairs <= MaxTokens
        BY DEF GatewayConstants, GatewayInv, SessionInv, GatewayBounds
    <1>2. 1..issuedPairs \subseteq 1..MaxTokens
        BY <1>1
    <1>3. handedOut \subseteq DidSession
        BY <1>2 DEF GatewayInv, SessionInv, DidSession
    <1>4. /\ loggedOut \subseteq 1..MaxTokens /\ forked \subseteq 1..MaxTokens
          /\ refreshing \in [RefreshCalls -> DidSession \union {NULL}]
          /\ spent \subseteq DidSession /\ activeSessions \subseteq DidSession
        BY <1>2, <1>3, SessionsAreLast DEF GatewayInv, SessionInv
    <1> QED BY <1>3, <1>4 DEF GatewayTypeOK, GatewayInv, LimitersTyped, GatewayBounds

LEMMA IssueIsBounded ==
    ASSUME GatewayConstants, SessionInv, NEW s, Issue(s)
    PROVE  issuedPairs' <= MaxTokens
    <1> DEFINE x == s
    <1>1. /\ IsFiniteSet(handedOut) /\ MaxTokens \in Nat
          /\ Cardinality(handedOut) \in Nat
        BY DEF SessionInv, GatewayConstants, issuedPairs
    <1>2. handedOut' = handedOut \union {x} /\ Cardinality(handedOut) < MaxTokens
        BY DEF Issue, issuedPairs
    <1> HIDE DEF x
    <1>3. \/ Cardinality(handedOut \union {x}) = Cardinality(handedOut)
          \/ Cardinality(handedOut \union {x}) = Cardinality(handedOut) + 1
        BY <1>1, FS_AddElement
    <1>4. Cardinality(handedOut \union {x}) <= MaxTokens
        BY <1>1, <1>2, <1>3
    <1> QED BY <1>2, <1>4 DEF issuedPairs

LEMMA PassIsBounded ==
    ASSUME GatewayBounds, NEW l \in Limiters, NEW c \in Clients, Pass(l, c)
    PROVE  admitted' \in [Limiters -> [Clients -> Seq(Time)]]
    <1>1. Append(admitted[l][c], clockMs) \in Seq(Time)
        BY AppendProperties DEF GatewayBounds
    <1> QED BY <1>1 DEF GatewayBounds, Pass

LEMMA GatewayStepBounds ==
    ASSUME GatewayConstants, GatewayInv, GatewayBounds, [GatewayNext]_gatewayVars
    PROVE  GatewayBounds'
    <1> USE DEF GatewayBounds, GatewayInv
    <1>1. ASSUME NEW l \in Limiters, NEW c \in Clients, Refuse(l, c)
          PROVE  GatewayBounds'
        BY <1>1 DEF Refuse, sessionVars, issuedPairs, Time
    <1>2. ASSUME NEW l \in Limiters, NEW c \in Clients, serve(l, c)
          PROVE  GatewayBounds'
        BY <1>2, PassIsBounded DEF serve, sessionVars, issuedPairs, Time
    <1>3. "auth" \in Limiters
        BY DEF GatewayConstants
    <1>4. ASSUME NEW c \in Clients, createSession(c)
          PROVE  GatewayBounds'
        BY <1>3, <1>4, PassIsBounded, IssueIsBounded DEF createSession, Time
    <1>5. ASSUME NEW c \in Clients, NEW r \in RefreshCalls, NEW tokens,
                 refreshSession(c, r, tokens)
          PROVE  GatewayBounds'
        BY <1>3, <1>5, PassIsBounded DEF refreshSession, issuedPairs, Time
    <1>9. ASSUME NEW r \in RefreshCalls, refreshAnswered(r) PROVE GatewayBounds'
        BY <1>9, IssueIsBounded DEF refreshAnswered, Time
    <1>10. ASSUME NEW r \in RefreshCalls, refreshFails(r) PROVE GatewayBounds'
        BY <1>10 DEF refreshFails, issuedPairs, Time
    <1>6. ASSUME NEW c \in Clients, NEW tokens, deleteSession(c, tokens)
          PROVE  GatewayBounds'
        BY <1>3, <1>6, PassIsBounded DEF deleteSession, issuedPairs, Time
    <1>7. ASSUME NextMillisecond PROVE GatewayBounds'
        BY <1>7 DEF NextMillisecond, sessionVars, issuedPairs, Time, GatewayConstants
    <1>8. ASSUME UNCHANGED gatewayVars PROVE GatewayBounds'
        BY <1>8 DEF gatewayVars, sessionVars, issuedPairs, Time
    <1> QED BY <1>1, <1>2, <1>4, <1>5, <1>6, <1>7, <1>8, <1>9, <1>10 DEF GatewayNext

LEMMA GatewayTypes ==
    ASSUME GatewayConstants
    PROVE  GatewaySpec => []GatewayTypeOK
    <1>1. GatewayInit => GatewayBounds
        BY FS_EmptySet DEF GatewayInit, GatewayBounds, GatewayConstants, issuedPairs,
                           Time
    <1>2. GatewayInv /\ GatewayBounds /\ [GatewayNext]_gatewayVars => GatewayBounds'
        BY GatewayStepBounds
    <1>3. GatewayInv /\ GatewayBounds => GatewayTypeOK
        BY GatewayTyped
    <1> QED
        BY <1>1, <1>2, <1>3, GatewayInvariant, PTL DEF GatewaySpec

(* However clients spread their requests, no window lets more than its       *)
(* maximum pass and a refusal names the exact time (RateLimiter.check);      *)
(* however refreshes and logouts overlap, tokens work until they are         *)
(* replaced or deleted and never again, and a login none of whose refreshes  *)
(* was overtaken has one session, that of the tokens handed out last, until  *)
(* it is ended (auth-service.ts).                                            *)
THEOREM GatewayKeepsCountAlways ==
    ASSUME GatewayConstants
    PROVE  GatewaySpec => []GatewayKeepsCount
    <1>1. GatewayInv => GatewayKeepsCount
        BY LimitersSuffice DEF GatewayInv, SessionInv, GatewayKeepsCount
    <1> QED
        BY <1>1, GatewayInvariant, PTL

-----------------------------------------------------------------------------
(***************************************************************************)
(* Tenancy                                                                 *)
(***************************************************************************)

LEMMA LeastNatural ==
    ASSUME NEW S \in SUBSET Nat, S # {}
    PROVE  \E m \in S : \A k \in S : m <= k
    <1> DEFINE R == OpToRel(<, Nat)
    <1>1. IsWellFoundedOn(R, Nat)
        BY NatLessThanWellFounded
    <1>2. \A x, y \in Nat : <<x, y>> \in R <=> x < y
        BY DEF OpToRel
    <1> HIDE DEF R
    <1>3. PICK m \in S : \A k \in S : ~(<<k, m>> \in R)
        BY <1>1, WFMin
    <1>4. ASSUME NEW k \in S PROVE m <= k
        <2>1. k \in Nat /\ m \in Nat
            OBVIOUS
        <2>2. ~(k < m)
            BY <1>2, <1>3, <2>1
        <2> QED BY <2>1, <2>2
    <1> QED BY <1>4

\* The first of some places is at one of them, if there is any.
LEMMA FirstIsPlaced ==
    ASSUME NEW regions \in Seq(Regions), NEW places \in SUBSET (DOMAIN regions)
    PROVE  \/ places = {} /\ FirstOf(regions, places) = NULL
           \/ \E k \in places : FirstOf(regions, places) = regions[k]
    <1>1. places \in SUBSET Nat
        OBVIOUS
    <1>2. CASE places = {}
        BY <1>2 DEF FirstOf
    <1>3. CASE places # {}
        <2>1. \E m \in places : \A k \in places : m <= k
            BY <1>1, <1>3, LeastNatural
        <2> QED BY <1>3, <2>1 DEF FirstOf
    <1> QED BY <1>2, <1>3

\* An endpoint is off only where the trail names a failover from its region.
OffExplained ==
    \A t \in Tenants : tenants[t] # NULL =>
        \A k \in DOMAIN tenants[t].allowed :
            \/ k \in routingPolicies[t].active
            \/ \E j \in DOMAIN failoverEvents[t] :
                  failoverEvents[t][j][1] = tenants[t].allowed[k]

\* A failover leads to another allowed region than the primary one.
FailoversLead ==
    \A t \in Tenants : tenants[t] # NULL =>
        \A k \in DOMAIN failoverEvents[t] :
            failoverEvents[t][k][2] \in
                ToSet(tenants[t].allowed)
                    \ {failoverEvents[t][k][1], tenants[t].primary}

\* A failover needs a tenant.
TenantsFirst ==
    \A t \in Tenants : tenants[t] = NULL => failoverEvents[t] = <<>>

TenancyInv == TenancyTypeOK /\ OffExplained /\ FailoversLead /\ TenantsFirst

LEMMA PlacesOfTenant ==
    ASSUME TenancyTypeOK, NEW t \in Tenants, tenants[t] # NULL
    PROVE  /\ tenants[t].allowed \in Seq(Regions)
           /\ tenants[t].primary \in Regions
           /\ FitEndpoints(t) \in SUBSET (DOMAIN tenants[t].allowed)
           /\ FailoverChain(t) \in SUBSET (DOMAIN tenants[t].allowed)
    BY DEF TenancyTypeOK, Tenant, FitEndpoints, FailoverChain

LEMMA RouteIsFit ==
    ASSUME TenancyTypeOK, NEW t \in Tenants, tenants[t] # NULL, NEW from,
           resolveRoute(t, from) # NULL
    PROVE  IsFit(t, resolveRoute(t, from))
    <1>1. FirstFit(t) # NULL => IsFit(t, FirstFit(t))
        BY PlacesOfTenant, FirstIsPlaced DEF FirstFit, IsFit
    <1>2. FirstOfChain(t) # NULL => IsFit(t, FirstOfChain(t))
        <2> DEFINE fit == {k \in FailoverChain(t) : IsFit(t, tenants[t].allowed[k])}
        <2>1. fit \in SUBSET (DOMAIN tenants[t].allowed)
            BY PlacesOfTenant
        <2>2. \A k \in fit : IsFit(t, tenants[t].allowed[k])
            OBVIOUS
        <2>3. FirstOfChain(t) = FirstOf(tenants[t].allowed, fit)
            BY DEF FirstOfChain
        <2> HIDE DEF fit
        <2> QED BY <2>1, <2>2, <2>3, PlacesOfTenant, FirstIsPlaced
    <1> QED BY <1>1, <1>2 DEF resolveRoute, PrimaryElse

\* Where other regions may serve, no route is found only where none is fit.
LEMMA NoRouteNoneFit ==
    ASSUME TenancyConstants, TenancyTypeOK, NEW t \in Tenants, tenants[t] # NULL,
           NEW from, resolveRoute(t, from) = NULL,
           routingPolicies[t].strategy # "primary-only"
    PROVE  FitEndpoints(t) = {}
    <1> DEFINE allowed == tenants[t].allowed
               fit == {k \in FailoverChain(t) : IsFit(t, allowed[k])}
    <1>1. /\ allowed \in Seq(Regions) /\ tenants[t].primary # NULL
          /\ FitEndpoints(t) \in SUBSET (DOMAIN allowed)
          /\ fit \in SUBSET (DOMAIN allowed)
        BY PlacesOfTenant DEF TenancyConstants
    <1>2. \A k \in DOMAIN allowed : allowed[k] # NULL
        BY <1>1 DEF TenancyConstants
    <1>3. FirstFit(t) = NULL => FitEndpoints(t) = {}
        BY <1>1, <1>2, FirstIsPlaced DEF FirstFit
    <1>4. ~IsFit(t, NULL)
        BY <1>1, <1>2 DEF IsFit
    <1>5. FirstOfChain(t) = NULL /\ ~IsFit(t, tenants[t].primary)
          => FitEndpoints(t) = {}
        <2> SUFFICES ASSUME FirstOfChain(t) = NULL, NEW k \in FitEndpoints(t)
                     PROVE  IsFit(t, tenants[t].primary)
            OBVIOUS
        <2>1. FirstOfChain(t) = FirstOf(allowed, fit)
            BY DEF FirstOfChain
        <2> HIDE DEF fit
        <2>2. fit = {}
            BY <1>1, <1>2, <2>1, FirstIsPlaced
        <2>3. IsFit(t, allowed[k]) /\ k \in DOMAIN allowed
            BY <1>1 DEF IsFit
        <2>4. k \notin FailoverChain(t)
            BY <2>2, <2>3 DEF fit
        <2> QED BY <2>3, <2>4 DEF FailoverChain
    <1> HIDE DEF allowed, fit
    <1> QED BY <1>1, <1>3, <1>4, <1>5 DEF resolveRoute, PrimaryElse

LEMMA TenancySuffices ==
    ASSUME TenancyConstants, TenancyInv PROVE RoutesAvoidFailures
    <1> USE DEF TenancyInv
    <1> SUFFICES ASSUME NEW t \in Tenants, tenants[t] # NULL
                 PROVE  /\ \A from \in Regions \union {NULL} :
                             IF resolveRoute(t, from) # NULL
                             THEN /\ resolveRoute(t, from) \in ToSet(tenants[t].allowed)
                                  /\ Healthy(regionHealth[t], resolveRoute(t, from))
                             ELSE routingPolicies[t].strategy # "primary-only" =>
                                    \A r \in ToSet(tenants[t].allowed) \
                                             {failoverEvents[t][k][1] :
                                                k \in DOMAIN failoverEvents[t]} :
                                        ~Healthy(regionHealth[t], r)
                        /\ \A k \in DOMAIN failoverEvents[t] :
                              failoverEvents[t][k][2] \in
                                ToSet(tenants[t].allowed)
                                  \ {failoverEvents[t][k][1], tenants[t].primary}
        BY DEF RoutesAvoidFailures
    <1>1. ASSUME NEW from, resolveRoute(t, from) # NULL
          PROVE  /\ resolveRoute(t, from) \in ToSet(tenants[t].allowed)
                 /\ Healthy(regionHealth[t], resolveRoute(t, from))
        <2> DEFINE destined == resolveRoute(t, from)
        <2>1. IsFit(t, destined)
            BY <1>1, RouteIsFit
        <2> HIDE DEF destined
        <2>2. PICK k \in DOMAIN tenants[t].allowed :
                 /\ tenants[t].allowed[k] = destined
                 /\ Healthy(regionHealth[t], destined)
            BY <2>1 DEF IsFit, FitEndpoints
        <2>3. destined \in ToSet(tenants[t].allowed)
            BY <2>2 DEF ToSet
        <2> QED BY <2>2, <2>3 DEF destined
    <1>2. ASSUME NEW from, resolveRoute(t, from) = NULL,
                 routingPolicies[t].strategy # "primary-only",
                 NEW r \in ToSet(tenants[t].allowed),
                 \A j \in DOMAIN failoverEvents[t] : failoverEvents[t][j][1] # r
          PROVE  ~Healthy(regionHealth[t], r)
        <2>1. PICK k \in DOMAIN tenants[t].allowed : tenants[t].allowed[k] = r
            BY DEF ToSet
        <2>2. k \in routingPolicies[t].active
            BY <1>2, <2>1 DEF OffExplained
        <2>3. k \notin FitEndpoints(t)
            BY <1>2, NoRouteNoneFit
        <2> QED BY <2>1, <2>2, <2>3 DEF FitEndpoints
    <1> QED BY <1>1, <1>2 DEF FailoversLead

LEMMA CreateTenantKeeps ==
    ASSUME TenancyConstants, TenancyInv, NEW t \in Tenants,
           NEW primary \in Regions, NEW listed \in Seq(Regions),
           NEW residency \in Residencies, NEW mode \in FailoverMode,
           createTenant(t, primary, listed, residency, mode)
    PROVE  TenancyInv'
    <1> USE DEF TenancyInv
    <1> DEFINE allowed == IF listed = <<>> THEN <<primary>> ELSE listed
               new == [primary |-> primary, allowed |-> allowed,
                       residency |-> residency, status |-> "active"]
               policy == [strategy |-> IF mode = "automatic" THEN "failover-chain"
                                       ELSE "primary-only",
                          active |-> DOMAIN allowed]
               health == [r \in Regions |->
                            IF r \in ToSet(allowed)
                            THEN [isHealthy |-> TRUE, consecutiveFailures |-> 0]
                            ELSE NULL]
    <1>1. /\ tenants[t] = NULL
          /\ tenants' = [tenants EXCEPT ![t] = new]
          /\ routingPolicies' = [routingPolicies EXCEPT ![t] = policy]
          /\ regionHealth' = [regionHealth EXCEPT ![t] = health]
          /\ UNCHANGED <<failoverConfigs, healthyRun, failoverEvents, recoveries,
                         policyOverrides>>
        BY DEF createTenant
    <1>2. allowed \in Seq(Regions)
        OBVIOUS
    <1>3. new \in Tenant
        BY <1>2 DEF Tenant, TenantStatus
    <1>4. DOMAIN allowed \in SUBSET Nat
        BY <1>2
    <1>5. /\ policy \in [strategy : Strategy, active : SUBSET Nat]
          /\ new # NULL
          /\ policy.active = DOMAIN new.allowed
        BY <1>3, <1>4 DEF Strategy, TenancyConstants
    <1>6. health \in [Regions -> Health \union {NULL}]
        <2>1. 0 \in 0..MaxChecks
            BY DEF TenancyConstants
        <2> QED BY <2>1 DEF Health
    <1> HIDE DEF new, policy, health, allowed
    <1>7. TenancyTypeOK'
        BY <1>1, <1>3, <1>5, <1>6 DEF TenancyTypeOK
    <1>8. failoverEvents[t] = <<>>
        BY <1>1 DEF TenantsFirst
    <1>9. OffExplained'
        <2> SUFFICES ASSUME NEW u \in Tenants, tenants'[u] # NULL,
                            NEW k \in DOMAIN tenants'[u].allowed
                     PROVE  \/ k \in routingPolicies'[u].active
                            \/ \E j \in DOMAIN failoverEvents[u] :
                                  failoverEvents[u][j][1] = tenants'[u].allowed[k]
            BY <1>1 DEF OffExplained
        <2>1. CASE u = t
            BY <1>1, <1>5, <2>1 DEF TenancyTypeOK
        <2>2. CASE u # t
            BY <1>1, <2>2 DEF TenancyTypeOK, OffExplained
        <2> QED BY <2>1, <2>2
    <1>10. \A u \in Tenants \ {t} : tenants'[u] = tenants[u]
        BY <1>1 DEF TenancyTypeOK
    <1>11. FailoversLead'
        <2> SUFFICES ASSUME NEW u \in Tenants, tenants'[u] # NULL,
                            NEW k \in DOMAIN failoverEvents[u]
                     PROVE  failoverEvents[u][k][2] \in
                              ToSet(tenants'[u].allowed)
                                \ {failoverEvents[u][k][1], tenants'[u].primary}
            BY <1>1 DEF FailoversLead
        <2>1. u # t
            BY <1>8
        <2> QED BY <1>10, <2>1 DEF FailoversLead
    <1>12. TenantsFirst'
        BY <1>1, <1>8, <1>10 DEF TenantsFirst
    <1> QED BY <1>7, <1>9, <1>11, <1>12

\* Steps that leave endpoints and failovers as they are.
LEMMA SettingsOfTenantKeep ==
    ASSUME TenancyConstants, TenancyInv, NEW t \in Tenants,
           \/ \E status \in TenantStatus : updateTenantStatus(t, status)
           \/ \E mode \in FailoverMode : setFailoverConfig(t, mode)
           \/ \E strategy \in Strategy : updateRoutingStrategy(t, strategy)
           \/ \E o \in Overrides, r \in Regions : addPolicyOverride(t, o, r)
           \/ \E o \in Overrides : removePolicyOverride(t, o)
    PROVE  TenancyInv'
    <1> USE DEF TenancyInv
    <1>1. CASE \E status \in TenantStatus : updateTenantStatus(t, status)
        <2>1. PICK status \in TenantStatus : updateTenantStatus(t, status)
            BY <1>1
        <2>2. tenants[t] \in Tenant
            BY <2>1 DEF updateTenantStatus, TenancyTypeOK
        <2>3. [tenants[t] EXCEPT !.status = status] \in Tenant
            BY <2>2 DEF Tenant
        <2>4. tenants' = [tenants EXCEPT ![t] = [tenants[t] EXCEPT !.status = status]]
            BY <2>1 DEF updateTenantStatus
        <2>5. tenants' \in [Tenants -> Tenant \union {NULL}]
            BY <2>3, <2>4 DEF TenancyTypeOK
        <2>6. UNCHANGED <<routingPolicies, failoverConfigs, regionHealth,
                          healthyRun, failoverEvents, recoveries, policyOverrides>>
            BY <2>1 DEF updateTenantStatus
        <2>7. \A u \in Tenants :
                 /\ tenants'[u] = NULL <=> tenants[u] = NULL
                 /\ tenants[u] # NULL => /\ tenants'[u].allowed = tenants[u].allowed
                                         /\ tenants'[u].primary = tenants[u].primary
            <3>1. [tenants[t] EXCEPT !.status = status] # NULL /\ tenants[t] # NULL
                BY <2>1, <2>3 DEF TenancyConstants, updateTenantStatus
            <3>2. /\ [tenants[t] EXCEPT !.status = status].allowed = tenants[t].allowed
                  /\ [tenants[t] EXCEPT !.status = status].primary = tenants[t].primary
                BY <2>2 DEF Tenant
            <3> QED BY <2>4, <3>1, <3>2 DEF TenancyTypeOK
        <2>8. TenancyTypeOK'
            BY <2>5, <2>6 DEF TenancyTypeOK
        <2>9. OffExplained'
            BY <2>6, <2>7 DEF OffExplained
        <2>10. FailoversLead'
            BY <2>6, <2>7 DEF FailoversLead
        <2>11. TenantsFirst'
            BY <2>6, <2>7 DEF TenantsFirst
        <2> QED BY <2>8, <2>9, <2>10, <2>11
    <1>2. CASE \E mode \in FailoverMode : setFailoverConfig(t, mode)
        BY <1>2 DEF setFailoverConfig, TenancyTypeOK, OffExplained, FailoversLead, TenantsFirst
    <1>3. CASE \E strategy \in Strategy : updateRoutingStrategy(t, strategy)
        <2>1. PICK strategy \in Strategy : updateRoutingStrategy(t, strategy)
            BY <1>3
        <2> DEFINE policy == [routingPolicies[t] EXCEPT !.strategy = strategy]
        <2>2. /\ policy \in [strategy : Strategy, active : SUBSET Nat]
              /\ policy.active = routingPolicies[t].active
            BY DEF TenancyTypeOK
        <2>3. /\ routingPolicies' = [routingPolicies EXCEPT ![t] = policy]
              /\ UNCHANGED <<tenants, failoverConfigs, regionHealth, healthyRun,
                             failoverEvents, recoveries, policyOverrides>>
            BY <2>1 DEF updateRoutingStrategy
        <2> HIDE DEF policy
        <2>4. TenancyTypeOK'
            BY <2>2, <2>3 DEF TenancyTypeOK
        <2>5. \A u \in Tenants : routingPolicies'[u].active = routingPolicies[u].active
            BY <2>2, <2>3 DEF TenancyTypeOK
        <2> QED BY <2>3, <2>4, <2>5 DEF OffExplained, FailoversLead, TenantsFirst
    <1>4. CASE \E o \in Overrides, r \in Regions : addPolicyOverride(t, o, r)
        BY <1>4 DEF addPolicyOverride, TenancyTypeOK, OffExplained, FailoversLead, TenantsFirst
    <1>5. CASE \E o \in Overrides : removePolicyOverride(t, o)
        BY <1>5 DEF removePolicyOverride, TenancyTypeOK, OffExplained, FailoversLead, TenantsFirst
    <1> QED BY <1>1, <1>2, <1>3, <1>4, <1>5

\* The region a failover leads to is allowed, not the primary one, and healthy.
LEMMA TargetIsHealthy ==
    ASSUME TenancyTypeOK, NEW t \in Tenants, tenants[t] # NULL, NEW health,
           Target(t, health) # NULL
    PROVE  /\ Target(t, health) \in Regions /\ Healthy(health, Target(t, health))
           /\ Target(t, health) \in ToSet(tenants[t].allowed)
           /\ Target(t, health) # tenants[t].primary
    <1> DEFINE allowed == tenants[t].allowed
               fit == {k \in FailoverChain(t) : Healthy(health, allowed[k])}
    <1>1. allowed \in Seq(Regions) /\ fit \in SUBSET (DOMAIN allowed)
        BY DEF TenancyTypeOK, Tenant, FailoverChain
    <1>2. Target(t, health) = FirstOf(allowed, fit)
        BY DEF Target
    <1>3. \A k \in fit : Healthy(health, allowed[k]) /\ allowed[k] # tenants[t].primary
        BY DEF FailoverChain
    <1> HIDE DEF fit
    <1>4. PICK k \in fit : Target(t, health) = allowed[k]
        BY <1>1, <1>2, FirstIsPlaced
    <1>5. allowed[k] \in ToSet(allowed) /\ allowed[k] \in Regions
        BY <1>1, <1>4 DEF ToSet
    <1> QED BY <1>3, <1>4, <1>5

LEMMA HealthKeeps ==
    ASSUME TenancyConstants, TenancyInv, NEW t \in Tenants, NEW r \in Regions,
           NEW healthy \in BOOLEAN, updateRegionHealth(t, r, healthy)
    PROVE  TenancyInv'
    <1> USE DEF TenancyInv
    <1> DEFINE known == regionHealth[t][r]
               failures == IF healthy THEN 0
                           ELSE (IF known = NULL THEN 0
                                 ELSE known.consecutiveFailures) + 1
               found == [isHealthy |-> healthy, consecutiveFailures |-> failures]
               health == [regionHealth[t] EXCEPT ![r] = found]
               failsOver == /\ failoverConfigs[t] = "automatic"
                            /\ ~healthy
                            /\ failures >= UnhealthyThreshold
                            /\ Target(t, health) # NULL
    <1>1. /\ tenants[t] # NULL
          /\ failures <= MaxChecks
          /\ regionHealth' = [regionHealth EXCEPT ![t] = health]
          /\ UNCHANGED <<tenants, failoverConfigs, policyOverrides>>
        BY DEF updateRegionHealth
    <1>2. failsOver => initiateFailover(t, r, health)
        BY DEF updateRegionHealth
    <1>3. ~failsOver => UNCHANGED <<failoverEvents, routingPolicies>>
        BY DEF updateRegionHealth
    <1>4. failures \in 0..MaxChecks
        <2>1. known = NULL \/ known.consecutiveFailures \in Nat
            BY DEF TenancyTypeOK, Health
        <2> QED BY <1>1, <2>1 DEF TenancyConstants
    <1>5. healthyRun' \in [Tenants -> [Regions -> 0..MaxChecks]]
        <2> DEFINE run == IF ~healthy THEN 0
                          ELSE IF healthyRun[t][r] < MaxChecks
                               THEN healthyRun[t][r] + 1 ELSE healthyRun[t][r]
        <2>1. healthyRun' = [healthyRun EXCEPT ![t][r] = run]
            BY DEF updateRegionHealth, TenancyTypeOK
        <2>2. healthyRun[t][r] \in 0..MaxChecks /\ MaxChecks \in Nat
            BY DEF TenancyTypeOK, TenancyConstants
        <2>3. run \in 0..MaxChecks
            BY <2>2
        <2> HIDE DEF run
        <2> QED BY <2>1, <2>3 DEF TenancyTypeOK
    <1>6. recoveries' \in [Tenants -> Nat]
        <2>1. PICK b \in {0, 1} : recoveries' = [recoveries EXCEPT ![t] = @ + b]
            BY DEF updateRegionHealth
        <2> QED BY <2>1 DEF TenancyTypeOK
    <1>7. found \in Health
        BY <1>4 DEF Health
    <1>8. health \in [Regions -> Health \union {NULL}]
        BY <1>7 DEF TenancyTypeOK
    <1>9. regionHealth' \in [Tenants -> [Regions -> Health \union {NULL}]]
        BY <1>1, <1>8 DEF TenancyTypeOK
    <1>10. ~healthy => ~Healthy(health, r)
        <2>1. health[r] = found /\ found # NULL
            BY <1>7 DEF TenancyTypeOK, TenancyConstants
        <2> QED BY <2>1 DEF Healthy
    <1> HIDE DEF health, found, failures, known
    <1>11. CASE ~failsOver
        BY <1>1, <1>3, <1>5, <1>6, <1>9, <1>11
           DEF TenancyTypeOK, OffExplained, FailoversLead, TenantsFirst
    <1>12. CASE failsOver
        <2> DEFINE to == Target(t, health)
                   event == <<r, to>>
                   places == {k \in DOMAIN tenants[t].allowed :
                                tenants[t].allowed[k] = r}
                   policy == [routingPolicies[t] EXCEPT !.active =
                                {k \in @ : k \notin places \/ \E j \in places : j < k}]
        <2>1. /\ to \in Regions /\ to # r
              /\ to \in ToSet(tenants[t].allowed) \ {tenants[t].primary}
            BY <1>1, <1>10, <1>12, TargetIsHealthy
        <2>2. /\ failoverEvents' = [failoverEvents EXCEPT
                                       ![t] = Append(failoverEvents[t], event)]
              /\ routingPolicies' = [routingPolicies EXCEPT ![t] = policy]
            BY <1>2, <1>12 DEF initiateFailover, SwitchedOff, TenancyTypeOK
        <2>3. /\ policy \in [strategy : Strategy, active : SUBSET Nat]
              /\ \A k \in routingPolicies[t].active : k \in policy.active \/ k \in places
            BY DEF TenancyTypeOK
        <2>4. /\ event \in Regions \X Regions /\ event[1] = r /\ event[2] = to
              /\ \A k \in places : tenants[t].allowed[k] = r
            BY <2>1
        <2> HIDE DEF to, event, policy, places
        <2>5. failoverEvents[t] \in Seq(Regions \X Regions)
            BY DEF TenancyTypeOK
        <2> DEFINE trail == Append(failoverEvents[t], event)
        <2>14. /\ trail \in Seq(Regions \X Regions)
               /\ Len(trail) = Len(failoverEvents[t]) + 1
               /\ trail[Len(failoverEvents[t]) + 1] = event
               /\ \A j \in 1..Len(failoverEvents[t]) : trail[j] = failoverEvents[t][j]
            BY <2>4, <2>5, AppendProperties
        <2>15. /\ DOMAIN trail = 1..(Len(failoverEvents[t]) + 1)
               /\ DOMAIN failoverEvents[t] = 1..Len(failoverEvents[t])
               /\ Len(failoverEvents[t]) \in Nat
            BY <2>5, <2>14
        <2> HIDE DEF trail
        <2>6. /\ trail \in Seq(Regions \X Regions)
              /\ \A k \in DOMAIN trail :
                    trail[k] = event \/ \E j \in DOMAIN failoverEvents[t] :
                                          trail[k] = failoverEvents[t][j]
              /\ \A j \in DOMAIN failoverEvents[t] :
                    j \in DOMAIN trail /\ trail[j] = failoverEvents[t][j]
              /\ \E k \in DOMAIN trail : trail[k] = event
            <3> DEFINE n == Len(failoverEvents[t])
            <3>1. /\ \A j \in 1..n : j \in 1..(n + 1) /\ trail[j] = failoverEvents[t][j]
                  /\ n + 1 \in 1..(n + 1) /\ trail[n + 1] = event
                  /\ \A k \in 1..(n + 1) : k = n + 1 \/ k \in 1..n
                BY <2>14, <2>15
            <3>2. DOMAIN trail = 1..(n + 1) /\ DOMAIN failoverEvents[t] = 1..n
                BY <2>15
            <3> HIDE DEF n
            <3>3. \A k \in DOMAIN trail :
                    trail[k] = event \/ \E j \in DOMAIN failoverEvents[t] :
                                          trail[k] = failoverEvents[t][j]
                <4> SUFFICES ASSUME NEW k \in 1..(n + 1)
                             PROVE  trail[k] = event \/ \E j \in 1..n :
                                       trail[k] = failoverEvents[t][j]
                    BY <3>2
                <4>1. k = n + 1 \/ k \in 1..n
                    BY <3>1
                <4> QED BY <3>1, <4>1
            <3>4. \E k \in DOMAIN trail : trail[k] = event
                BY <3>1, <3>2
            <3> QED BY <2>14, <3>1, <3>2, <3>3, <3>4
        <2>7. failoverEvents' = [failoverEvents EXCEPT ![t] = trail]
            BY <2>2 DEF trail
        <2>8. TenancyTypeOK'
            <3>1. failoverEvents' \in [Tenants -> Seq(Regions \X Regions)]
                BY <2>6, <2>7 DEF TenancyTypeOK
            <3>2. routingPolicies' \in [Tenants -> [strategy : Strategy,
                                                   active : SUBSET Nat]]
                BY <2>2, <2>3 DEF TenancyTypeOK
            <3> QED BY <1>1, <1>5, <1>6, <1>9, <3>1, <3>2 DEF TenancyTypeOK
        <2>9. \A u \in Tenants \ {t} : /\ failoverEvents'[u] = failoverEvents[u]
                                       /\ routingPolicies'[u] = routingPolicies[u]
            BY <2>2, <2>7 DEF TenancyTypeOK
        <2>10. failoverEvents'[t] = trail /\ routingPolicies'[t] = policy
            BY <2>2, <2>7 DEF TenancyTypeOK
        <2>11. OffExplained'
            <3> SUFFICES ASSUME NEW u \in Tenants, tenants[u] # NULL,
                                NEW k \in DOMAIN tenants[u].allowed
                         PROVE  \/ k \in routingPolicies'[u].active
                                \/ \E j \in DOMAIN failoverEvents'[u] :
                                      failoverEvents'[u][j][1] = tenants[u].allowed[k]
                BY <1>1 DEF OffExplained
            <3>1. CASE u # t
                BY <2>9, <3>1 DEF OffExplained
            <3>2. CASE u = t
                <4>1. CASE k \in routingPolicies[t].active
                    BY <2>3, <2>4, <2>6, <2>10, <3>2, <4>1
                <4>2. CASE k \notin routingPolicies[t].active
                    <5>1. PICK j \in DOMAIN failoverEvents[t] :
                             failoverEvents[t][j][1] = tenants[t].allowed[k]
                        BY <3>2, <4>2 DEF OffExplained
                    <5> QED BY <2>6, <2>10, <3>2, <5>1
                <4> QED BY <4>1, <4>2
            <3> QED BY <3>1, <3>2
        <2>12. FailoversLead'
            <3> SUFFICES ASSUME NEW u \in Tenants, tenants[u] # NULL,
                                NEW k \in DOMAIN failoverEvents'[u]
                         PROVE  failoverEvents'[u][k][2] \in
                                  ToSet(tenants[u].allowed)
                                    \ {failoverEvents'[u][k][1], tenants[u].primary}
                BY <1>1 DEF FailoversLead
            <3>1. CASE u # t
                BY <2>9, <3>1 DEF FailoversLead
            <3>2. CASE u = t
                <4>1. k \in DOMAIN trail
                    BY <2>10, <3>2
                <4>2. CASE trail[k] = event
                    BY <2>1, <2>4, <2>10, <3>2, <4>2
                <4>3. CASE \E j \in DOMAIN failoverEvents[t] :
                              trail[k] = failoverEvents[t][j]
                    BY <2>10, <3>2, <4>3 DEF FailoversLead
                <4> QED BY <2>6, <4>1, <4>2, <4>3
            <3> QED BY <3>1, <3>2
        <2>13. TenantsFirst'
            BY <1>1, <2>7 DEF TenantsFirst, TenancyTypeOK
        <2> QED BY <2>8, <2>11, <2>12, <2>13
    <1> QED BY <1>11, <1>12

LEMMA TenancyStepInv ==
    ASSUME TenancyConstants, TenancyInv, [TenancyNext]_tenancyVars
    PROVE  TenancyInv'
    <1>1. ASSUME NEW t \in Tenants, NEW primary \in Regions,
                 NEW listed \in BoundedSeq(Regions, MaxListed),
                 NEW residency \in Residencies, NEW mode \in FailoverMode,
                 createTenant(t, primary, listed, residency, mode)
          PROVE  TenancyInv'
        <2>1. listed \in Seq(Regions)
            <3>1. PICK m \in 0..MaxListed : listed \in [1..m -> Regions]
                BY DEF BoundedSeq, SeqOf
            <3> QED BY <3>1
        <2> QED BY <1>1, <2>1, CreateTenantKeeps
    <1>2. ASSUME UNCHANGED tenancyVars PROVE TenancyInv'
        BY <1>2 DEF tenancyVars, TenancyInv, TenancyTypeOK, OffExplained, FailoversLead, TenantsFirst
    <1>3. ASSUME TenancyNext PROVE TenancyInv'
        BY <1>1, <1>3, SettingsOfTenantKeep, HealthKeeps DEF TenancyNext
    <1> QED BY <1>2, <1>3

LEMMA TenancyInvariant ==
    ASSUME TenancyConstants
    PROVE  TenancySpec => []TenancyInv
    <1>1. TenancyInit => TenancyInv
        <2> USE DEF TenancyInit
        <2>1. 0 \in 0..MaxChecks
            BY DEF TenancyConstants
        <2>2. TenancyInit => TenancyTypeOK
            BY <2>1 DEF TenancyTypeOK, Strategy
        <2> QED BY <2>2 DEF TenancyInv, OffExplained, FailoversLead, TenantsFirst
    <1>2. TenancyInv /\ [TenancyNext]_tenancyVars => TenancyInv'
        BY TenancyStepInv
    <1> QED
        BY <1>1, <1>2, PTL DEF TenancySpec

(* Whatever the strategy, however checks, failovers and routes follow each   *)
(* other, and however often a region is listed: a route leads to an allowed  *)
(* region whose last check passed; where other regions than the primary may  *)
(* serve, only failing regions and regions failed over are left out; and a   *)
(* failover leads to another allowed region (resolveRoute, initiateFailover  *)
(* of tenant-service.ts).                                                    *)
THEOREM RoutesAvoidFailuresAlways ==
    ASSUME TenancyConstants
    PROVE  TenancySpec => []RoutesAvoidFailures
    <1>1. TenancyInv => RoutesAvoidFailures
        BY TenancySuffices
    <1> QED
        BY <1>1, TenancyInvariant, PTL

-----------------------------------------------------------------------------
(***************************************************************************)
(* Notifications                                                           *)
(***************************************************************************)

(* The attempts *)

\* The places of the attempts of some notifications.
PlacesIn(ns) == UNION {{n} \X (1..Len(ns[n].attempts)) : n \in 1..Len(ns)}
FirstsIn(ns) == {p \in PlacesIn(ns) : ns[p[1]].attempts[p[2]].attemptNumber = 1}
RetriesIn(ns) == PlacesIn(ns) \ FirstsIn(ns)

LEMMA PlaceIs ==
    ASSUME NEW ns
    PROVE  /\ \A n \in 1..Len(ns) : \A a \in 1..Len(ns[n].attempts) :
                 <<n, a>> \in PlacesIn(ns)
           /\ \A p \in PlacesIn(ns) :
                 \E n \in 1..Len(ns) : \E a \in 1..Len(ns[n].attempts) :
                    p = <<n, a>>
BY DEF PlacesIn

LEMMA AttemptIs ==
    ASSUME NEW attempts \in Seq(Attempt), NEW a \in 1..Len(attempts)
    PROVE  /\ attempts[a] \in Attempt
           /\ attempts[a].channel \in DeliveryChannel
           /\ attempts[a].attemptNumber \in 1..MaxAttempts
<1>1. attempts[a] \in Attempt
  BY ElementOfSeq
<1> QED
  BY <1>1 DEF Attempt

LEMMA NotificationIs ==
    ASSUME NEW ns \in Seq(Notification), NEW n \in 1..Len(ns)
    PROVE  /\ ns[n] \in Notification
           /\ ns[n].attempts \in Seq(Attempt)
           /\ Len(ns[n].attempts) \in Nat
<1>1. ns[n] \in Notification
  BY ElementOfSeq
<1>2. ns[n].attempts \in Seq(Attempt)
  BY <1>1 DEF Notification
<1> QED
  BY <1>1, <1>2, LenProperties

\* Where no attempt is made and none gets another number, the places stay.
LEMMA NoAttempt ==
    ASSUME NEW ns, NEW ms, Len(ms) = Len(ns),
           \A n \in 1..Len(ns) :
              /\ Len(ms[n].attempts) = Len(ns[n].attempts)
              /\ \A a \in 1..Len(ns[n].attempts) :
                    ms[n].attempts[a].attemptNumber
                       = ns[n].attempts[a].attemptNumber
    PROVE  FirstsIn(ms) = FirstsIn(ns) /\ RetriesIn(ms) = RetriesIn(ns)
<1>1. PlacesIn(ms) = PlacesIn(ns)
  BY DEF PlacesIn
<1>2. ASSUME NEW p \in PlacesIn(ns)
      PROVE  ms[p[1]].attempts[p[2]].attemptNumber
                = ns[p[1]].attempts[p[2]].attemptNumber
  BY PlaceIs
<1> QED
  BY <1>1, <1>2 DEF FirstsIn, RetriesIn

\* A new notification adds its first attempts.
LEMMA FirstAttempts ==
    ASSUME NEW ns \in Seq(Notification), NEW x \in Notification, NEW k \in Nat,
           Len(x.attempts) = k,
           \A a \in 1..k : x.attempts[a].attemptNumber = 1
    PROVE  /\ FirstsIn(Append(ns, x))
                 = FirstsIn(ns) \union ({Len(ns) + 1} \X (1..k))
           /\ RetriesIn(Append(ns, x)) = RetriesIn(ns)
<1> DEFINE ms == Append(ns, x)
           L == Len(ns) + 1
<1>1. /\ Len(ns) \in Nat /\ Len(ms) = L
      /\ \A n \in 1..Len(ns) : ms[n] = ns[n] /\ n # L
      /\ ms[L] = x
  BY AppendProperties
<1> HIDE DEF ms
<1>2. PlacesIn(ms) = PlacesIn(ns) \union ({L} \X (1..k))
  <2>1. ASSUME NEW p \in PlacesIn(ms)
        PROVE  p \in PlacesIn(ns) \union ({L} \X (1..k))
    <3>1. PICK n \in 1..L : \E a \in 1..Len(ms[n].attempts) : p = <<n, a>>
      BY <1>1, PlaceIs
    <3>2. n = L \/ n \in 1..Len(ns)
      BY <1>1
    <3> QED
      BY <3>1, <3>2, <1>1, PlaceIs
  <2>2. ASSUME NEW p \in PlacesIn(ns)
        PROVE  p \in PlacesIn(ms)
    <3>1. PICK n \in 1..Len(ns) : \E a \in 1..Len(ns[n].attempts) : p = <<n, a>>
      BY PlaceIs
    <3>2. n \in 1..Len(ms) /\ ms[n] = ns[n]
      BY <1>1
    <3> QED
      BY <3>1, <3>2, PlaceIs
  <2>3. ASSUME NEW a \in 1..k
        PROVE  <<L, a>> \in PlacesIn(ms)
    <3>1. L \in 1..Len(ms) /\ a \in 1..Len(ms[L].attempts)
      BY <1>1
    <3> QED
      BY <3>1, PlaceIs
  <2> QED
    BY <2>1, <2>2, <2>3
<1>3. ASSUME NEW p \in PlacesIn(ns)
      PROVE  /\ ms[p[1]].attempts[p[2]] = ns[p[1]].attempts[p[2]]
             /\ p \notin {L} \X (1..k)
  BY <1>1, PlaceIs
<1>4. ASSUME NEW p \in {L} \X (1..k)
      PROVE  ms[p[1]].attempts[p[2]].attemptNumber = 1
  BY <1>1
<1> HIDE DEF L
<1>5. FirstsIn(ms) = FirstsIn(ns) \union ({L} \X (1..k))
  BY <1>2, <1>3, <1>4 DEF FirstsIn
<1>6. RetriesIn(ms) = RetriesIn(ns)
  BY <1>2, <1>3, <1>5 DEF RetriesIn
<1> QED
  BY <1>5, <1>6 DEF ms, L

\* A retry adds itself.
LEMMA OneRetry ==
    ASSUME NEW ns \in Seq(Notification), NEW ms, NEW n \in 1..Len(ns),
           Len(ms) = Len(ns),
           \A m \in 1..Len(ns) : m # n => ms[m].attempts = ns[m].attempts,
           Len(ms[n].attempts) = Len(ns[n].attempts) + 1,
           \A a \in 1..Len(ns[n].attempts) :
              ms[n].attempts[a].attemptNumber = ns[n].attempts[a].attemptNumber,
           ms[n].attempts[Len(ns[n].attempts) + 1].attemptNumber # 1
    PROVE  /\ FirstsIn(ms) = FirstsIn(ns)
           /\ <<n, Len(ns[n].attempts) + 1>> \notin RetriesIn(ns)
           /\ RetriesIn(ms)
                 = RetriesIn(ns) \union {<<n, Len(ns[n].attempts) + 1>>}
<1> DEFINE L == Len(ns[n].attempts)
           new == <<n, L + 1>>
<1>1. L \in Nat
  BY NotificationIs
<1>2. PlacesIn(ms) = PlacesIn(ns) \union {new}
  <2>1. ASSUME NEW p \in PlacesIn(ms)
        PROVE  p \in PlacesIn(ns) \union {new}
    <3>1. PICK m \in 1..Len(ns) : \E a \in 1..Len(ms[m].attempts) : p = <<m, a>>
      BY PlaceIs
    <3>0. PICK a \in 1..Len(ms[m].attempts) : p = <<m, a>>
      BY <3>1
    <3>2. CASE m # n
      BY <3>0, <3>2, PlaceIs
    <3>3. CASE m = n
      <4>1. a = L + 1 \/ a \in 1..L
        BY <3>3, <1>1
      <4> QED
        BY <4>1, <3>0, <3>3, PlaceIs
    <3> QED
      BY <3>2, <3>3
  <2>2. ASSUME NEW p \in PlacesIn(ns)
        PROVE  p \in PlacesIn(ms)
    <3>1. PICK m \in 1..Len(ns) : \E a \in 1..Len(ns[m].attempts) : p = <<m, a>>
      BY PlaceIs
    <3>0. PICK a \in 1..Len(ns[m].attempts) : p = <<m, a>>
      BY <3>1
    <3>2. a \in 1..Len(ms[m].attempts)
      BY <1>1
    <3> QED
      BY <3>0, <3>2, PlaceIs
  <2>3. new \in PlacesIn(ms)
    <3>1. L + 1 \in 1..Len(ms[n].attempts)
      BY <1>1
    <3> QED
      BY <3>1, PlaceIs
  <2> QED
    BY <2>1, <2>2, <2>3
<1>3. ASSUME NEW p \in PlacesIn(ns)
      PROVE  /\ ms[p[1]].attempts[p[2]].attemptNumber
                   = ns[p[1]].attempts[p[2]].attemptNumber
             /\ p # new
  <2>0. PICK m \in 1..Len(ns) : \E a \in 1..Len(ns[m].attempts) : p = <<m, a>>
    BY PlaceIs
  <2>1. PICK a \in 1..Len(ns[m].attempts) : p = <<m, a>>
    BY <2>0
  <2>2. m = n => a # L + 1
    BY <1>1
  <2> QED
    BY <2>1, <2>2
<1>4. ms[new[1]].attempts[new[2]].attemptNumber # 1
  OBVIOUS
<1> HIDE DEF new
<1>5. FirstsIn(ms) = FirstsIn(ns)
  BY <1>2, <1>3, <1>4 DEF FirstsIn
<1>6. RetriesIn(ms) = RetriesIn(ns) \union {new} /\ new \notin RetriesIn(ns)
  BY <1>2, <1>3, <1>4, <1>5 DEF RetriesIn, FirstsIn
<1> QED
  BY <1>5, <1>6 DEF new

(* The invariant *)

\* The cache has the time of the last notification of a key, or a later one.
Cached ==
    \A n \in 1..Len(notifications) :
        LET x == notifications[n]
            k == <<x.user, x.type, x.context>>
        IN /\ x.at <= time
           /\ x.context # NULL =>
                 dedupeCache[k] # NULL /\ x.at <= dedupeCache[k]

TotalsKept ==
    /\ IsFiniteSet(Firsts) /\ IsFiniteSet(Retries)
    /\ RetriesFollowFailures

NotifyInv == NotifyTypeOK /\ Cached /\ DuplicatesAreApart /\ TotalsKept

\* What reading, archiving and reports leave of a notification.
Same(x, y) ==
    /\ y.user = x.user /\ y.type = x.type /\ y.context = x.context
    /\ y.at = x.at /\ (x.archived => y.archived)

LEMMA PlacesAre ==
    /\ Firsts = FirstsIn(notifications)
    /\ Retries = RetriesIn(notifications)
BY DEF Firsts, Retries, Places, FirstsIn, RetriesIn, PlacesIn

LEMMA PlacesBecome ==
    /\ Firsts' = FirstsIn(notifications')
    /\ Retries' = RetriesIn(notifications')
BY DEF Firsts, Retries, Places, FirstsIn, RetriesIn, PlacesIn

\* Where notifications stay the same, their times and keys still agree.
LEMMA SameApart ==
    ASSUME NotifyInv, notifications' \in Seq(Notification),
           Len(notifications') = Len(notifications),
           \A n \in 1..Len(notifications) : Same(notifications[n], notifications'[n]),
           dedupeCache' = dedupeCache, time' \in 0..LastTime, time' >= time,
           NotificationConstants
    PROVE  Cached' /\ DuplicatesAreApart'
<1>1. ASSUME NEW n \in 1..Len(notifications)
      PROVE  /\ notifications[n].at \in Nat
             /\ time \in Nat /\ time' \in Nat
             /\ Same(notifications[n], notifications'[n])
  <2>1. /\ notifications \in Seq(Notification) /\ time \in 0..LastTime
        /\ LastTime \in Nat
    BY DEF NotifyInv, NotifyTypeOK, NotificationConstants
  <2>2. notifications[n] \in Notification
    BY <2>1, NotificationIs
  <2>3. notifications[n].at \in 0..LastTime
    BY <2>2 DEF Notification
  <2> QED
    BY <2>1, <2>3
<1>2. Cached'
  <2> SUFFICES ASSUME NEW n \in 1..Len(notifications)
               PROVE  LET y == notifications'[n]
                          k == <<y.user, y.type, y.context>>
                      IN /\ y.at <= time'
                         /\ y.context # NULL =>
                               dedupeCache[k] # NULL /\ y.at <= dedupeCache[k]
    BY DEF Cached
  <2>1. /\ notifications'[n].user = notifications[n].user
        /\ notifications'[n].type = notifications[n].type
        /\ notifications'[n].context = notifications[n].context
        /\ notifications'[n].at = notifications[n].at
    BY <1>1 DEF Same
  <2>2. /\ notifications[n].at <= time
        /\ notifications[n].context # NULL =>
              LET x == notifications[n]
                  k == <<x.user, x.type, x.context>>
              IN dedupeCache[k] # NULL /\ x.at <= dedupeCache[k]
    BY DEF Cached, NotifyInv
  <2>3. notifications[n].at <= time'
    BY <1>1, <2>2
  <2> QED
    BY <2>1, <2>2, <2>3
<1>3. DuplicatesAreApart'
  BY <1>1 DEF DuplicatesAreApart, NotifyInv, Same
<1> QED
  BY <1>2, <1>3

-----------------------------------------------------------------------------
(* Sending *)

LEMMA OrderIs ==
    ASSUME NotificationConstants, NEW channels \in SUBSET DeliveryChannel,
           NEW order \in AttemptsFor(channels)
    PROVE  LET attempts == [k \in DOMAIN order |-> FirstAttempt(order[k])]
           IN /\ Len(order) \in Nat
              /\ attempts \in Seq(Attempt) /\ Len(attempts) = Len(order)
              /\ \A k \in 1..Len(order) : attempts[k].attemptNumber = 1
<1> DEFINE attempts == [k \in DOMAIN order |-> FirstAttempt(order[k])]
           n == Cardinality(channels)
<1>1. n \in Nat
  <2>1. IsFiniteSet(DeliveryChannel)
    BY FS_AddElement DEF DeliveryChannel, NotificationConstants
  <2>2. IsFiniteSet(channels)
    BY <2>1, FS_Subset
  <2> QED
    BY <2>2, FS_CardinalityType
<1> HIDE DEF n
<1>2. order \in [1..n -> channels]
  BY DEF AttemptsFor, n
<1>3. order \in Seq(channels) /\ Len(order) = n
  BY <1>1, <1>2
<1>4. ASSUME NEW k \in 1..n
      PROVE  FirstAttempt(order[k]) \in Attempt /\ FirstAttempt(order[k]).attemptNumber = 1
  <2>1. order[k] \in DeliveryChannel
    BY <1>2
  <2>2. 1 \in 1..MaxAttempts
    BY DEF NotificationConstants
  <2> QED
    BY <2>1, <2>2 DEF FirstAttempt, Attempt
<1>5. attempts \in [1..n -> Attempt]
  BY <1>2, <1>4
<1>6. attempts \in Seq(Attempt) /\ Len(attempts) = n
  BY <1>1, <1>5
<1> QED
  BY <1>1, <1>2, <1>3, <1>4, <1>6

\* One more notification, whose attempts are first ones.
LEMMA OneSent ==
    ASSUME NotificationConstants, NotifyInv,
           NEW u \in Users, NEW t \in Types, NEW c \in Contexts \union {NULL},
           NEW urgent \in BOOLEAN, NEW attempts \in Seq(Attempt),
           \A k \in 1..Len(attempts) : attempts[k].attemptNumber = 1,
           ~Deduplicated(u, t, c),
           notifications' = Append(notifications,
              [user |-> u, type |-> t, context |-> c, urgent |-> urgent,
               read |-> FALSE, archived |-> FALSE, at |-> time,
               attempts |-> attempts]),
           dedupeCache' = IF c = NULL THEN dedupeCache
                          ELSE [dedupeCache EXCEPT ![<<u, t, c>>] = time],
           deliveries' \in [{"sent", "delivered", "failed", "retried"} -> Nat],
           deliveries'.sent = deliveries.sent + Len(attempts),
           deliveries'.retried = deliveries.retried,
           deliveries'.failed = deliveries.failed,
           UNCHANGED <<time, preferences>>
    PROVE  NotifyInv'
<1> DEFINE x == [user |-> u, type |-> t, context |-> c, urgent |-> urgent,
                 read |-> FALSE, archived |-> FALSE, at |-> time,
                 attempts |-> attempts]
           L == Len(notifications)
<1>1. /\ notifications \in Seq(Notification) /\ time \in 0..LastTime
      /\ time \in Nat
      /\ dedupeCache \in
            [Users \X Types \X Contexts -> (0..LastTime) \union {NULL}]
  BY DEF NotifyInv, NotifyTypeOK, NotificationConstants
<1>2. x \in Notification /\ x.attempts = attempts
  BY <1>1 DEF Notification
<1>3. /\ x.user = u /\ x.type = t /\ x.context = c /\ x.at = time /\ ~x.archived
  OBVIOUS
<1>4. notifications' = Append(notifications, x)
  OBVIOUS
<1> HIDE DEF x
<1>5. /\ L \in Nat /\ Len(notifications') = L + 1
      /\ notifications' \in Seq(Notification)
      /\ \A n \in 1..L : notifications'[n] = notifications[n]
      /\ notifications'[L + 1] = x
  BY <1>1, <1>2, <1>4, AppendProperties
<1>6. ASSUME NEW n \in 1..(L + 1)
      PROVE  n = L + 1 \/ (n \in 1..L /\ notifications'[n] = notifications[n])
  BY <1>5
<1>7. ASSUME NEW n \in 1..L
      PROVE  /\ notifications[n].at \in Nat
             /\ notifications[n].user \in Users
             /\ notifications[n].type \in Types
             /\ notifications[n].context \in Contexts \union {NULL}
             /\ notifications[n].archived \in BOOLEAN
  <2>1. notifications[n] \in Notification
    BY <1>1, NotificationIs
  <2> QED
    BY <2>1, <1>1 DEF Notification
<1>8. NULL \notin Nat /\ DedupeWindow \in Nat /\ NULL \notin Contexts
      /\ LastTime \in Nat
  BY DEF NotificationConstants
<1>9. NotifyTypeOK'
  <2>1. dedupeCache' \in [Users \X Types \X Contexts -> (0..LastTime) \union {NULL}]
    BY <1>1
  <2> QED
    BY <2>1, <1>5 DEF NotifyTypeOK, NotifyInv
<1>10. Cached'
  <2> SUFFICES ASSUME NEW n \in 1..(L + 1)
               PROVE  LET y == notifications'[n]
                          k == <<y.user, y.type, y.context>>
                      IN /\ y.at <= time
                         /\ y.context # NULL =>
                               dedupeCache'[k] # NULL /\ y.at <= dedupeCache'[k]
    BY <1>5 DEF Cached
  <2>1. CASE n = L + 1
    BY <2>1, <1>1, <1>3, <1>5, <1>8
  <2>2. CASE n \in 1..L /\ notifications'[n] = notifications[n]
    <3> DEFINE y == notifications[n]
               k == <<y.user, y.type, y.context>>
    <3>1. /\ y.at <= time
          /\ y.context # NULL => dedupeCache[k] # NULL /\ y.at <= dedupeCache[k]
      BY <2>2 DEF Cached, NotifyInv
    <3>2. y.context # NULL => k \in Users \X Types \X Contexts
      BY <2>2, <1>7
    <3> HIDE DEF k
    <3>3. y.context # NULL => dedupeCache'[k] = dedupeCache[k] \/ dedupeCache'[k] = time
      BY <3>2, <1>1
    <3>4. y.context # NULL => dedupeCache'[k] # NULL /\ y.at <= dedupeCache'[k]
      BY <3>1, <3>3, <1>1, <1>8
    <3> QED
      BY <3>1, <3>4, <2>2 DEF k
  <2> QED
    BY <2>1, <2>2, <1>6
<1>11. DuplicatesAreApart'
  <2> SUFFICES ASSUME NEW m \in 1..L, ~notifications[m].archived,
                      notifications[m].context # NULL,
                      <<notifications[m].user, notifications[m].type,
                        notifications[m].context>> = <<u, t, c>>
               PROVE  time - notifications[m].at >= DedupeWindow
    <3> SUFFICES ASSUME NEW m \in 1..(L + 1), NEW n \in 1..(L + 1), m < n,
                        notifications'[m].context # NULL,
                        <<notifications'[m].user, notifications'[m].type,
                          notifications'[m].context>>
                           = <<notifications'[n].user, notifications'[n].type,
                               notifications'[n].context>>,
                        ~notifications'[m].archived
                 PROVE  notifications'[n].at - notifications'[m].at >= DedupeWindow
      BY <1>5 DEF DuplicatesAreApart
    <3>1. m \in 1..L /\ notifications'[m] = notifications[m]
      BY <1>5
    <3>2. CASE n = L + 1
      BY <3>1, <3>2, <1>3, <1>5
    <3>3. CASE n \in 1..L
      BY <3>1, <3>3, <1>5 DEF DuplicatesAreApart, NotifyInv
    <3> QED
      BY <3>2, <3>3, <1>6
  <2>1. c # NULL /\ notifications[m].user = u /\ notifications[m].type = t
    OBVIOUS
  <2>2. dedupeCache[<<u, t, c>>] # NULL /\ notifications[m].at <= dedupeCache[<<u, t, c>>]
    BY DEF Cached, NotifyInv
  <2>3. ~(time - dedupeCache[<<u, t, c>>] < DedupeWindow)
    BY <2>1, <2>2 DEF Deduplicated
  <2>4. dedupeCache[<<u, t, c>>] \in Nat
    BY <2>1, <2>2, <1>1, <1>8
  <2> QED
    BY <2>2, <2>3, <2>4, <1>1, <1>7, <1>8
<1>12. TotalsKept'
  <2> DEFINE k == Len(attempts)
             new == {L + 1} \X (1..k)
  <2>1. k \in Nat
    BY LenProperties
  <2>2. /\ FirstsIn(notifications') = FirstsIn(notifications) \union new
        /\ RetriesIn(notifications') = RetriesIn(notifications)
    <3>1. /\ x \in Notification /\ Len(x.attempts) = k
          /\ \A a \in 1..k : x.attempts[a].attemptNumber = 1
      BY <1>2
    <3> HIDE DEF k
    <3> QED
      BY <3>1, <1>1, <1>4, <2>1, FirstAttempts
  <2>3. IsFiniteSet(new) /\ Cardinality(new) = k
    <3>1. 1 \in Int /\ k \in Int
      BY <2>1
    <3>2. IsFiniteSet(1..k) /\ Cardinality(1..k) = k
      <4>1. /\ IsFiniteSet(1..k)
            /\ Cardinality(1..k) = IF 1 > k THEN 0 ELSE k - 1 + 1
        BY <3>1, FS_Interval
      <4> QED
        BY <4>1, <2>1
    <3>3. IsFiniteSet({L + 1}) /\ Cardinality({L + 1}) = 1
      BY FS_Singleton
    <3>4. IsFiniteSet(new) /\ Cardinality(new) = 1 * k
      BY <3>2, <3>3, FS_Product
    <3> QED
      BY <3>4, <2>1
  <2>4. FirstsIn(notifications) \intersect new = {}
    BY <1>5, PlaceIs DEF FirstsIn
  <2> HIDE DEF new
  <2>5. /\ IsFiniteSet(FirstsIn(notifications))
        /\ Cardinality(FirstsIn(notifications)) = deliveries.sent
        /\ IsFiniteSet(RetriesIn(notifications))
        /\ Cardinality(RetriesIn(notifications)) = deliveries.retried
        /\ deliveries.retried <= deliveries.failed
        /\ deliveries.sent \in Nat
    BY PlacesAre DEF NotifyInv, TotalsKept, RetriesFollowFailures, NotifyTypeOK
  <2>6. /\ IsFiniteSet(FirstsIn(notifications'))
        /\ Cardinality(FirstsIn(notifications')) = deliveries.sent + k
    <3>1. /\ IsFiniteSet(FirstsIn(notifications) \union new)
          /\ Cardinality(FirstsIn(notifications) \union new)
                = deliveries.sent + k - Cardinality({})
      BY <2>3, <2>4, <2>5, FS_Union
    <3>2. Cardinality({}) = 0
      BY FS_EmptySet
    <3> DEFINE sent == deliveries.sent
               none == Cardinality({})
               all == FirstsIn(notifications) \union new
    <3>3. sent \in Nat /\ none = 0 /\ Cardinality(all) = sent + k - none
      BY <3>1, <3>2, <2>5
    <3> HIDE DEF k, sent, none, all
    <3>4. Cardinality(all) = sent + k
      BY <3>3, <2>1
    <3> QED
      BY <3>1, <3>4, <2>2 DEF sent, all
  <2>7. \A n \in 1..(L + 1) : Follow(notifications'[n].attempts)
    <3>1. Follow(attempts)
      BY DEF Follow
    <3> QED
      BY <3>1, <1>2, <1>5, <1>6 DEF NotifyInv, TotalsKept, RetriesFollowFailures
  <2> QED
    BY <2>2, <2>5, <2>6, <2>7, <1>5, PlacesBecome DEF TotalsKept, RetriesFollowFailures
<1> QED
  BY <1>9, <1>10, <1>11, <1>12 DEF NotifyInv

LEMMA SendStep ==
    ASSUME NotificationConstants, NotifyInv,
           NEW u \in Users, NEW t \in Types, NEW c \in Contexts \union {NULL},
           NEW urgent \in BOOLEAN, sendNotification(u, t, c, urgent)
    PROVE  NotifyInv'
<1>1. /\ deliveries \in [{"sent", "delivered", "failed", "retried"} -> Nat]
      /\ preferences \in [Users -> Preferences]
  BY DEF NotifyInv, NotifyTypeOK
<1>2. CASE /\ Unresolvable(u, urgent)
           /\ notifications' = Append(notifications,
                 [user |-> u, type |-> t, context |-> c, urgent |-> urgent,
                  read |-> FALSE, archived |-> FALSE, at |-> time,
                  attempts |-> <<>>])
           /\ UNCHANGED deliveries
  <2>1. <<>> \in Seq(Attempt) /\ Len(<<>>) = 0
    OBVIOUS
  <2>2. deliveries.sent + 0 = deliveries.sent
    BY <1>1
  <2> DEFINE attempts == <<>>
  <2>3. /\ notifications' = Append(notifications,
              [user |-> u, type |-> t, context |-> c, urgent |-> urgent,
               read |-> FALSE, archived |-> FALSE, at |-> time,
               attempts |-> attempts])
        /\ attempts \in Seq(Attempt)
        /\ \A k \in 1..Len(attempts) : attempts[k].attemptNumber = 1
        /\ deliveries' = deliveries
        /\ deliveries.sent = deliveries.sent + Len(attempts)
    BY <1>2, <2>1, <2>2
  <2> HIDE DEF attempts
  <2> QED
    BY <1>1, <2>3, OneSent DEF sendNotification
<1>3. CASE /\ ~Unresolvable(u, urgent)
           /\ \E order \in AttemptsFor(resolveChannels(u, urgent)) :
                 /\ notifications' = Append(notifications,
                       [user |-> u, type |-> t, context |-> c, urgent |-> urgent,
                        read |-> FALSE, archived |-> FALSE, at |-> time,
                        attempts |-> [k \in DOMAIN order |->
                                         FirstAttempt(order[k])]])
                 /\ deliveries' = [deliveries EXCEPT
                       !.sent = @ + Len(order), !.delivered = @ + 1]
  <2> DEFINE channels == resolveChannels(u, urgent)
  <2>1. channels \in SUBSET DeliveryChannel
    BY <1>1, <1>3 DEF resolveChannels, Unresolvable, Preferences, DeliveryChannel
  <2> HIDE DEF channels
  <2>2. PICK order \in AttemptsFor(channels) :
              /\ notifications' = Append(notifications,
                    [user |-> u, type |-> t, context |-> c, urgent |-> urgent,
                     read |-> FALSE, archived |-> FALSE, at |-> time,
                     attempts |-> [k \in DOMAIN order |->
                                      FirstAttempt(order[k])]])
              /\ deliveries' = [deliveries EXCEPT
                    !.sent = @ + Len(order), !.delivered = @ + 1]
    BY <1>3 DEF channels
  <2> DEFINE attempts == [k \in DOMAIN order |-> FirstAttempt(order[k])]
  <2>3. /\ Len(order) \in Nat
        /\ attempts \in Seq(Attempt) /\ Len(attempts) = Len(order)
        /\ \A k \in 1..Len(order) : attempts[k].attemptNumber = 1
    BY <2>1, OrderIs
  <2>4. notifications' = Append(notifications,
           [user |-> u, type |-> t, context |-> c, urgent |-> urgent,
            read |-> FALSE, archived |-> FALSE, at |-> time,
            attempts |-> attempts])
    BY <2>2
  <2>6. Len(attempts) = Len(order)
    BY <2>3
  <2> HIDE DEF attempts
  <2>5. /\ deliveries' \in [{"sent", "delivered", "failed", "retried"} -> Nat]
        /\ deliveries'.sent = deliveries.sent + Len(attempts)
        /\ deliveries'.retried = deliveries.retried
        /\ deliveries'.failed = deliveries.failed
    <3> DEFINE sent == deliveries.sent + Len(order)
               delivered == deliveries.delivered + 1
    <3>1. deliveries' = [deliveries EXCEPT !.sent = sent, !.delivered = delivered]
      BY <2>2
    <3>2. sent \in Nat /\ delivered \in Nat
      BY <1>1, <2>3
    <3>3. sent = deliveries.sent + Len(attempts)
      BY <2>6
    <3> HIDE DEF sent, delivered
    <3> QED
      BY <1>1, <3>1, <3>2, <3>3
  <2> QED
    BY <2>3, <2>4, <2>5, OneSent DEF sendNotification
<1> QED
  BY <1>2, <1>3 DEF sendNotification

-----------------------------------------------------------------------------
(* The user's controls, and the clock *)

\* Where the attempts stay as they are, so do the totals.
LEMMA UserStep ==
    ASSUME NotificationConstants, NotifyInv,
           notifications' \in Seq(Notification),
           Len(notifications') = Len(notifications),
           \A n \in 1..Len(notifications) :
              /\ Same(notifications[n], notifications'[n])
              /\ notifications'[n].attempts = notifications[n].attempts,
           preferences' \in [Users -> Preferences],
           time' \in 0..LastTime, time' >= time,
           UNCHANGED <<dedupeCache, deliveries>>
    PROVE  NotifyInv'
<1>1. Cached' /\ DuplicatesAreApart'
  BY SameApart
<1>2. NotifyTypeOK'
  BY DEF NotifyInv, NotifyTypeOK
<1>3. /\ FirstsIn(notifications') = FirstsIn(notifications)
      /\ RetriesIn(notifications') = RetriesIn(notifications)
  BY NoAttempt
<1>4. TotalsKept'
  BY <1>3, PlacesAre, PlacesBecome DEF NotifyInv, TotalsKept, RetriesFollowFailures
<1> QED
  BY <1>1, <1>2, <1>4 DEF NotifyInv

\* One notification is replaced by another.
LEMMA OneReplaced ==
    ASSUME NEW ns \in Seq(Notification), NEW n \in 1..Len(ns),
           NEW y \in Notification
    PROVE  LET ms == [ns EXCEPT ![n] = y]
           IN /\ ms \in Seq(Notification) /\ Len(ms) = Len(ns)
              /\ ms[n] = y
              /\ \A m \in 1..Len(ns) : m # n => ms[m] = ns[m]
BY ExceptSeq

\* What the actions write over a notification.
LEMMA Written ==
    ASSUME NEW x \in Notification, NEW read \in BOOLEAN,
           NEW attempts \in Seq(Attempt)
    PROVE  /\ [x EXCEPT !.read = read] \in Notification
           /\ Same(x, [x EXCEPT !.read = read])
           /\ [x EXCEPT !.read = read].attempts = x.attempts
           /\ [x EXCEPT !.archived = TRUE] \in Notification
           /\ Same(x, [x EXCEPT !.archived = TRUE])
           /\ [x EXCEPT !.archived = TRUE].attempts = x.attempts
           /\ [x EXCEPT !.attempts = attempts] \in Notification
           /\ Same(x, [x EXCEPT !.attempts = attempts])
           /\ [x EXCEPT !.attempts = attempts].attempts = attempts
BY DEF Notification, Same

LEMMA ControlStep ==
    ASSUME NotificationConstants, NotifyInv,
           \/ \E n \in 1..Len(notifications) :
                 \/ \E read \in BOOLEAN : markRead(n, read)
                 \/ archiveNotification(n)
           \/ \E u \in Users : markAllRead(u)
           \/ \E u \in Users, channels \in (SUBSET External) \union {NULL},
                 mute \in BOOLEAN : updatePreferences(u, channels, mute)
           \/ clockAdvances
           \/ UNCHANGED notifyVars
    PROVE  NotifyInv'
<1>1. /\ notifications \in Seq(Notification)
      /\ preferences \in [Users -> Preferences]
      /\ time \in 0..LastTime /\ LastTime \in Nat
  BY DEF NotifyInv, NotifyTypeOK, NotificationConstants
<1>2. ASSUME NEW n \in 1..Len(notifications)
      PROVE  /\ notifications[n] \in Notification
             /\ Same(notifications[n], notifications[n])
  BY <1>1, NotificationIs DEF Same
<1>3. ASSUME NEW n \in 1..Len(notifications), NEW y \in Notification,
             Same(notifications[n], y),
             y.attempts = notifications[n].attempts,
             notifications' = [notifications EXCEPT ![n] = y],
             UNCHANGED <<time, dedupeCache, preferences, deliveries>>
      PROVE  NotifyInv'
  <2>1. /\ notifications' \in Seq(Notification)
        /\ Len(notifications') = Len(notifications)
        /\ \A m \in 1..Len(notifications) :
              /\ Same(notifications[m], notifications'[m])
              /\ notifications'[m].attempts = notifications[m].attempts
    BY <1>1, <1>2, <1>3, OneReplaced
  <2>2. time' \in 0..LastTime /\ time' >= time
    BY <1>1, <1>3
  <2> QED
    BY <1>1, <1>3, <2>1, <2>2, UserStep
<1>4. ASSUME NEW n \in 1..Len(notifications), NEW read \in BOOLEAN, markRead(n, read)
      PROVE  NotifyInv'
  <2>1. notifications' =
           [notifications EXCEPT ![n] = [notifications[n] EXCEPT !.read = read]]
    BY <1>4 DEF markRead
  <2>2. /\ [notifications[n] EXCEPT !.read = read] \in Notification
        /\ Same(notifications[n], [notifications[n] EXCEPT !.read = read])
        /\ [notifications[n] EXCEPT !.read = read].attempts
              = notifications[n].attempts
    BY <1>2, Written, EmptySeq
  <2> QED
    BY <1>3, <1>4, <2>1, <2>2 DEF markRead
<1>5. ASSUME NEW n \in 1..Len(notifications), archiveNotification(n)
      PROVE  NotifyInv'
  <2>1. notifications' =
           [notifications EXCEPT ![n] = [notifications[n] EXCEPT !.archived = TRUE]]
    BY <1>5 DEF archiveNotification
  <2>2. /\ [notifications[n] EXCEPT !.archived = TRUE] \in Notification
        /\ Same(notifications[n], [notifications[n] EXCEPT !.archived = TRUE])
        /\ [notifications[n] EXCEPT !.archived = TRUE].attempts
              = notifications[n].attempts
    BY <1>2, Written, EmptySeq
  <2> QED
    BY <1>3, <1>5, <2>1, <2>2 DEF archiveNotification
<1>6. ASSUME NEW u \in Users, markAllRead(u)
      PROVE  NotifyInv'
  <2> DEFINE L == Len(notifications)
             after(n) == IF notifications[n].user = u /\ ~notifications[n].archived
                         THEN [notifications[n] EXCEPT !.read = TRUE]
                         ELSE notifications[n]
  <2>1. notifications' = [n \in 1..L |-> after(n)]
    BY <1>6 DEF markAllRead
  <2>2. ASSUME NEW n \in 1..L
        PROVE  /\ after(n) \in Notification
               /\ Same(notifications[n], after(n))
               /\ after(n).attempts = notifications[n].attempts
    BY <1>2, Written, EmptySeq
  <2>3. L \in Nat
    BY <1>1
  <2> HIDE DEF L, after
  <2>4. /\ notifications' \in Seq(Notification)
        /\ Len(notifications') = L
        /\ \A n \in 1..L : notifications'[n] = after(n)
    BY <2>1, <2>2, <2>3
  <2>5. time' \in 0..LastTime /\ time' >= time
    BY <1>1, <1>6 DEF markAllRead
  <2> QED
    BY <1>1, <1>6, <2>2, <2>4, <2>5, UserStep DEF markAllRead, L
<1>7. ASSUME NEW u \in Users, NEW channels \in (SUBSET External) \union {NULL},
             NEW mute \in BOOLEAN, updatePreferences(u, channels, mute)
      PROVE  NotifyInv'
  <2>1. /\ preferences' \in [Users -> Preferences]
        /\ time' \in 0..LastTime /\ time' >= time
    BY <1>1, <1>7 DEF updatePreferences, Preferences
  <2> QED
    BY <1>1, <1>2, <1>7, <2>1, UserStep DEF updatePreferences
<1>8. ASSUME clockAdvances \/ UNCHANGED notifyVars
      PROVE  NotifyInv'
  <2>1. /\ preferences' \in [Users -> Preferences]
        /\ time' \in 0..LastTime /\ time' >= time
        /\ UNCHANGED <<notifications, dedupeCache, deliveries>>
    BY <1>1, <1>8 DEF clockAdvances, notifyVars
  <2> QED
    BY <1>1, <1>2, <2>1, UserStep
<1> QED
  BY <1>4, <1>5, <1>6, <1>7, <1>8

-----------------------------------------------------------------------------
(* What is reported of deliveries *)

LEMMA ConfirmStep ==
    ASSUME NotificationConstants, NotifyInv,
           NEW n \in 1..Len(notifications),
           NEW a \in 1..Len(notifications[n].attempts), confirmDelivery(n, a)
    PROVE  NotifyInv'
<1> DEFINE x == notifications[n]
           attempts == x.attempts
           confirmed == [attempts[a] EXCEPT !.status = "delivered"]
           after == [attempts EXCEPT ![a] = confirmed]
           y == [x EXCEPT !.attempts = after]
<1>1. /\ notifications \in Seq(Notification)
      /\ deliveries \in [{"sent", "delivered", "failed", "retried"} -> Nat]
      /\ time \in 0..LastTime /\ LastTime \in Nat
  BY DEF NotifyInv, NotifyTypeOK, NotificationConstants
<1>2. x \in Notification /\ attempts \in Seq(Attempt) /\ attempts[a] \in Attempt
  BY <1>1, NotificationIs, AttemptIs
<1>3. /\ confirmed \in Attempt
      /\ confirmed.attemptNumber = attempts[a].attemptNumber
      /\ confirmed.channel = attempts[a].channel
  BY <1>2 DEF Attempt
<1>4. notifications' = [notifications EXCEPT ![n] = y]
  BY DEF confirmDelivery
<1> HIDE DEF confirmed
<1>5. /\ after \in Seq(Attempt) /\ Len(after) = Len(attempts)
      /\ \A k \in 1..Len(attempts) :
            /\ after[k].attemptNumber = attempts[k].attemptNumber
            /\ after[k].channel = attempts[k].channel
  BY <1>2, <1>3, ExceptSeq
<1> HIDE DEF after
<1>6. y \in Notification /\ Same(x, y) /\ y.attempts = after
  BY <1>2, <1>5, Written
<1> HIDE DEF y
<1>7. /\ notifications' \in Seq(Notification)
      /\ Len(notifications') = Len(notifications)
      /\ notifications'[n] = y
      /\ \A m \in 1..Len(notifications) :
            m # n => notifications'[m] = notifications[m]
  BY <1>1, <1>4, <1>6, OneReplaced
<1>8. \A m \in 1..Len(notifications) : Same(notifications[m], notifications'[m])
  BY <1>6, <1>7 DEF Same
<1>9. Cached' /\ DuplicatesAreApart'
  <2>1. time' \in 0..LastTime /\ time' >= time /\ dedupeCache' = dedupeCache
    BY <1>1 DEF confirmDelivery
  <2> QED
    BY <1>1, <1>7, <1>8, <2>1, SameApart
<1>10. /\ deliveries' \in [{"sent", "delivered", "failed", "retried"} -> Nat]
       /\ deliveries'.sent = deliveries.sent
       /\ deliveries'.failed = deliveries.failed
       /\ deliveries'.retried = deliveries.retried
  BY <1>1 DEF confirmDelivery
<1>11. NotifyTypeOK'
  BY <1>7, <1>10 DEF confirmDelivery, NotifyTypeOK, NotifyInv
<1>12. \A m \in 1..Len(notifications) :
          /\ Len(notifications'[m].attempts) = Len(notifications[m].attempts)
          /\ \A k \in 1..Len(notifications[m].attempts) :
                /\ notifications'[m].attempts[k].attemptNumber
                      = notifications[m].attempts[k].attemptNumber
                /\ notifications'[m].attempts[k].channel
                      = notifications[m].attempts[k].channel
  BY <1>5, <1>6, <1>7
<1>13. /\ FirstsIn(notifications') = FirstsIn(notifications)
       /\ RetriesIn(notifications') = RetriesIn(notifications)
  BY <1>7, <1>12, NoAttempt
<1>14. ASSUME NEW m \in 1..Len(notifications)
       PROVE  Follow(notifications'[m].attempts)
  <2> DEFINE before == notifications[m].attempts
             then == notifications'[m].attempts
  <2>1. Follow(before)
    BY DEF NotifyInv, TotalsKept, RetriesFollowFailures
  <2>2. /\ Len(then) = Len(before)
        /\ \A k \in 1..Len(before) :
              /\ then[k].attemptNumber = before[k].attemptNumber
              /\ then[k].channel = before[k].channel
    BY <1>12
  <2>3. Len(before) \in Nat
    BY <1>1, NotificationIs
  <2> HIDE DEF before, then
  <2>4. Follow(then)
    BY <2>1, <2>2, <2>3 DEF Follow
  <2> QED
    BY <2>4 DEF then
<1>15. TotalsKept'
  BY <1>7, <1>10, <1>13, <1>14, PlacesAre, PlacesBecome
  DEF NotifyInv, TotalsKept, RetriesFollowFailures
<1> QED
  BY <1>9, <1>11, <1>15 DEF NotifyInv

LEMMA FailStep ==
    ASSUME NotificationConstants, NotifyInv,
           NEW n \in 1..Len(notifications),
           NEW a \in 1..Len(notifications[n].attempts), failDelivery(n, a)
    PROVE  NotifyInv'
<1> DEFINE x == notifications[n]
           attempts == x.attempts
           L == Len(attempts)
           number == attempts[a].attemptNumber
           retry == canRetryDelivery(number)
           failing == [attempts[a] EXCEPT !.status = "failed"]
           broken == [attempts EXCEPT ![a] = failing]
           next == [channel |-> attempts[a].channel, status |-> "pending",
                    attemptNumber |-> number + 1]
           after == IF retry THEN Append(broken, next) ELSE broken
           y == [x EXCEPT !.attempts = after]
<1>1. /\ notifications \in Seq(Notification)
      /\ deliveries \in [{"sent", "delivered", "failed", "retried"} -> Nat]
      /\ time \in 0..LastTime /\ LastTime \in Nat /\ MaxAttempts \in Nat
  BY DEF NotifyInv, NotifyTypeOK, NotificationConstants
<1>2. /\ x \in Notification /\ attempts \in Seq(Attempt)
      /\ attempts[a] \in Attempt /\ L \in Nat
      /\ attempts[a].channel \in DeliveryChannel /\ number \in 1..MaxAttempts
  BY <1>1, NotificationIs, AttemptIs
<1>3. /\ failing \in Attempt
      /\ failing.attemptNumber = number
      /\ failing.channel = attempts[a].channel
  BY <1>2 DEF Attempt
<1>4. notifications' = [notifications EXCEPT ![n] = y]
  BY DEF failDelivery
<1>5. /\ deliveries' \in [{"sent", "delivered", "failed", "retried"} -> Nat]
      /\ deliveries'.sent = deliveries.sent
      /\ deliveries'.failed = deliveries.failed + 1
      /\ deliveries'.retried = deliveries.retried + IF retry THEN 1 ELSE 0
  <2> DEFINE f == deliveries.failed + 1
             r == deliveries.retried + IF retry THEN 1 ELSE 0
  <2>1. deliveries' = [deliveries EXCEPT !.failed = f, !.retried = r]
    BY DEF failDelivery
  <2>2. f \in Nat /\ r \in Nat
    BY <1>1
  <2> HIDE DEF f, r
  <2>3. /\ deliveries' \in [{"sent", "delivered", "failed", "retried"} -> Nat]
        /\ deliveries'.sent = deliveries.sent
        /\ deliveries'.failed = f /\ deliveries'.retried = r
    BY <1>1, <2>1, <2>2
  <2> QED
    BY <2>3 DEF f, r
<1> HIDE DEF failing
<1>6. /\ broken \in Seq(Attempt) /\ Len(broken) = L
      /\ \A k \in 1..L :
            /\ broken[k].attemptNumber = attempts[k].attemptNumber
            /\ broken[k].channel = attempts[k].channel
  BY <1>2, <1>3, ExceptSeq
<1> HIDE DEF broken
<1>7. /\ retry => /\ next \in Attempt /\ number + 1 <= MaxAttempts
      /\ next.channel = attempts[a].channel
      /\ next.attemptNumber = number + 1
  <2>1. /\ next.channel = attempts[a].channel
        /\ next.attemptNumber = number + 1
        /\ next.status = "pending"
    OBVIOUS
  <2>2. ASSUME retry
        PROVE  number + 1 \in 1..MaxAttempts
    <3>1. number < MaxAttempts
      BY <2>2 DEF canRetryDelivery
    <3>2. number \in 1..MaxAttempts /\ MaxAttempts \in Nat
      BY <1>1, <1>2
    <3> HIDE DEF number, retry
    <3> QED
      BY <3>1, <3>2
  <2>3. attempts[a].channel \in DeliveryChannel
    BY <1>2
  <2>4. ASSUME retry
        PROVE  next \in Attempt /\ number + 1 <= MaxAttempts
    <3>1. number + 1 \in 1..MaxAttempts /\ MaxAttempts \in Nat
      BY <2>2, <2>4, <1>1
    <3> HIDE DEF number, retry, attempts, x
    <3> QED
      BY <3>1, <2>3 DEF Attempt
  <2> QED
    BY <2>1, <2>4
<1> HIDE DEF next
<1>8. /\ after \in Seq(Attempt)
      /\ Len(after) = IF retry THEN L + 1 ELSE L
      /\ \A k \in 1..L :
            /\ after[k].attemptNumber = attempts[k].attemptNumber
            /\ after[k].channel = attempts[k].channel
      /\ retry => after[L + 1] = next
  <2>1. CASE retry
    <3>1. next \in Attempt
      BY <2>1, <1>7
    <3>2. /\ Append(broken, next) \in Seq(Attempt)
          /\ Len(Append(broken, next)) = L + 1
          /\ \A k \in 1..L : Append(broken, next)[k] = broken[k]
          /\ Append(broken, next)[L + 1] = next
      <4> HIDE DEF attempts, L, retry, x, number
      <4>1. broken \in Seq(Attempt) /\ Len(broken) = L
        BY <1>6
      <4> QED
        BY <3>1, <4>1, AppendProperties
    <3>3. after = Append(broken, next)
      BY <2>1
    <3> HIDE DEF after, attempts, L
    <3> QED
      BY <2>1, <3>2, <3>3, <1>6
  <2>2. CASE ~retry
    BY <2>2, <1>6
  <2> QED
    BY <2>1, <2>2
<1> HIDE DEF after
<1>9. y \in Notification /\ Same(x, y) /\ y.attempts = after
  BY <1>2, <1>8, Written
<1> HIDE DEF y
<1>10. /\ notifications' \in Seq(Notification)
       /\ Len(notifications') = Len(notifications)
       /\ notifications'[n] = y
       /\ \A m \in 1..Len(notifications) :
             m # n => notifications'[m] = notifications[m]
  BY <1>1, <1>4, <1>9, OneReplaced
<1>11. \A m \in 1..Len(notifications) : Same(notifications[m], notifications'[m])
  BY <1>9, <1>10 DEF Same
<1>12. Cached' /\ DuplicatesAreApart'
  <2>1. time' \in 0..LastTime /\ time' >= time /\ dedupeCache' = dedupeCache
    BY <1>1 DEF failDelivery
  <2> QED
    BY <1>1, <1>10, <1>11, <2>1, SameApart
<1>13. NotifyTypeOK'
  BY <1>5, <1>10 DEF failDelivery, NotifyTypeOK, NotifyInv
<1>14. Follow(attempts)
  BY DEF NotifyInv, TotalsKept, RetriesFollowFailures
<1>15. Follow(after)
  <2> SUFFICES ASSUME NEW k \in 1..Len(after), after[k].attemptNumber # 1
               PROVE  /\ after[k].attemptNumber <= MaxAttempts
                      /\ \E b \in 1..(k - 1) :
                            /\ after[b].channel = after[k].channel
                            /\ after[b].attemptNumber = after[k].attemptNumber - 1
    BY DEF Follow
  <2>1. CASE k \in 1..L
    <3>1. PICK b \in 1..(k - 1) :
             /\ attempts[k].attemptNumber <= MaxAttempts
             /\ attempts[b].channel = attempts[k].channel
             /\ attempts[b].attemptNumber = attempts[k].attemptNumber - 1
      BY <2>1, <1>8, <1>14 DEF Follow
    <3>2. b \in 1..L
      BY <2>1, <1>2
    <3> QED
      BY <3>1, <3>2, <2>1, <1>8
  <2>2. CASE retry /\ k = L + 1
    <3>1. a \in 1..(k - 1) /\ a \in 1..L
      BY <2>2, <1>2
    <3>2. /\ after[k].channel = attempts[a].channel
          /\ after[k].attemptNumber = number + 1
      BY <2>2, <1>7, <1>8
    <3>3. after[a].channel = after[k].channel
      BY <3>1, <3>2, <1>8
    <3>4. after[a].attemptNumber = after[k].attemptNumber - 1
      BY <3>1, <3>2, <1>2, <1>8
    <3> QED
      BY <3>1, <3>2, <3>3, <3>4, <2>2, <1>7
  <2> QED
    BY <2>1, <2>2, <1>2, <1>8
<1>16. \A m \in 1..Len(notifications') : Follow(notifications'[m].attempts)
  BY <1>9, <1>10, <1>15 DEF NotifyInv, TotalsKept, RetriesFollowFailures
<1>17. /\ IsFiniteSet(FirstsIn(notifications))
       /\ Cardinality(FirstsIn(notifications)) = deliveries.sent
       /\ IsFiniteSet(RetriesIn(notifications))
       /\ Cardinality(RetriesIn(notifications)) = deliveries.retried
       /\ deliveries.retried <= deliveries.failed
       /\ deliveries.retried \in Nat /\ deliveries.failed \in Nat
  BY <1>1, PlacesAre DEF NotifyInv, TotalsKept, RetriesFollowFailures
<1>18. deliveries'.retried <= deliveries'.failed
  BY <1>5, <1>17
<1>19. TotalsKept'
  <2>1. CASE retry
    <3> DEFINE new == <<n, L + 1>>
    <3>1. Len(notifications'[n].attempts) = L + 1
      BY <2>1, <1>8, <1>9, <1>10
    <3>2. \A k \in 1..L :
             notifications'[n].attempts[k].attemptNumber = attempts[k].attemptNumber
      BY <1>8, <1>9, <1>10
    <3>3. notifications'[n].attempts[L + 1].attemptNumber # 1
      BY <2>1, <1>2, <1>7, <1>8, <1>9, <1>10
    <3>4. \A m \in 1..Len(notifications) :
             m # n => notifications'[m].attempts = notifications[m].attempts
      BY <1>10
    <3>5. /\ FirstsIn(notifications') = FirstsIn(notifications)
          /\ new \notin RetriesIn(notifications)
          /\ RetriesIn(notifications') = RetriesIn(notifications) \union {new}
      BY <3>1, <3>2, <3>3, <3>4, <1>1, <1>10, OneRetry
    <3> HIDE DEF new
    <3>6. /\ IsFiniteSet(RetriesIn(notifications'))
          /\ Cardinality(RetriesIn(notifications')) = deliveries.retried + 1
      BY <3>5, <1>17, FS_AddElement
    <3> QED
      BY <2>1, <3>5, <3>6, <1>5, <1>16, <1>17, <1>18, PlacesBecome
      DEF TotalsKept, RetriesFollowFailures
  <2>2. CASE ~retry
    <3>1. \A m \in 1..Len(notifications) :
             /\ Len(notifications'[m].attempts) = Len(notifications[m].attempts)
             /\ \A k \in 1..Len(notifications[m].attempts) :
                   notifications'[m].attempts[k].attemptNumber
                      = notifications[m].attempts[k].attemptNumber
      BY <2>2, <1>8, <1>9, <1>10
    <3>2. /\ FirstsIn(notifications') = FirstsIn(notifications)
          /\ RetriesIn(notifications') = RetriesIn(notifications)
      BY <3>1, <1>10, NoAttempt
    <3>3. deliveries'.retried = deliveries.retried
      BY <2>2, <1>5, <1>17
    <3> QED
      BY <3>2, <3>3, <1>5, <1>16, <1>17, <1>18, PlacesBecome
      DEF TotalsKept, RetriesFollowFailures
  <2> QED
    BY <2>1, <2>2
<1> QED
  BY <1>12, <1>13, <1>19 DEF NotifyInv

-----------------------------------------------------------------------------
LEMMA NotifyInitially ==
    ASSUME NotificationConstants, NotifyInit
    PROVE  NotifyInv
<1>1. notifications = <<>> /\ Len(notifications) = 0
  BY DEF NotifyInit
<1>2. NotifyTypeOK
  <2>1. /\ 0 \in 0..LastTime /\ notifications \in Seq(Notification)
        /\ preferences \in [Users -> Preferences]
    BY <1>1 DEF NotifyInit, NotificationConstants, Preferences
  <2> QED
    BY <2>1 DEF NotifyInit, NotifyTypeOK
<1>3. Cached /\ DuplicatesAreApart
  BY <1>1 DEF Cached, DuplicatesAreApart
<1>4. Firsts = {} /\ Retries = {}
  BY <1>1 DEF Firsts, Retries, Places
<1>5. TotalsKept
  BY <1>1, <1>4, FS_EmptySet DEF TotalsKept, RetriesFollowFailures, NotifyInit
<1> QED
  BY <1>2, <1>3, <1>5 DEF NotifyInv

LEMMA NotifyInvariant ==
    ASSUME NotificationConstants
    PROVE  NotifySpec => []NotifyInv
<1>1. NotifyInit => NotifyInv
  BY NotifyInitially
<1>2. NotifyInv /\ [NotifyNext]_notifyVars => NotifyInv'
  BY SendStep, ControlStep, ConfirmStep, FailStep DEF NotifyNext
<1> QED
  BY <1>1, <1>2, PTL DEF NotifySpec

(* Whatever is sent, muted, read, archived, reported late or twice: what    *)
(* the user still sees of one key is a dedupe window apart, and a retry     *)
(* follows an attempt one number below it, within the policy, and is        *)
(* counted.                                                                 *)
THEOREM DeliveriesHoldAlways ==
    ASSUME NotificationConstants
    PROVE  NotifySpec => []DeliveriesHold
<1>1. NotifyInv => DeliveriesHold
  BY DEF NotifyInv, TotalsKept, DeliveriesHold
<1> QED
  BY <1>1, NotifyInvariant, PTL
=============================================================================
