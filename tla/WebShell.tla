------------------------------ MODULE WebShell ------------------------------
(***************************************************************************)
(* FrontendShell of apps/web/src/features/frontend-shell.tsx: the route,   *)
(* the discovery filters, the browser's history that carries both, and the *)
(* fetches of feed and directory that follow them, with the requests of    *)
(* features/api-client.ts and the URL form of discovery-filters.ts.        *)
(*                                                                         *)
(* One step is an event with the effects that React runs after it.  The    *)
(* filters keep the tab and one optional filter.  Of an answer only the    *)
(* query it belongs to is kept: requestJson takes one whose body fails for *)
(* an answer, which shows an empty list (FeedCards has that case).         *)
(***************************************************************************)
EXTENDS Null, Integers, Sequences, FiniteSets

CONSTANTS
    Routes,         \* the routes that are visited
    Statuses,       \* values of the status filter
    MaxHistory,     \* bound: entries of the browser's history
    MaxInFlight     \* bound: requests without an answer

ShellConstants ==
    /\ Routes \subseteq {"/map", "/feed", "/resources", "/posting"}
    /\ MaxHistory \in Nat \ {0}
    /\ MaxInFlight \in Nat
    /\ NULL \notin Statuses

VARIABLES
    route,          \* currentRoute
    filters,        \* discoveryState
    history,        \* URLs of the browser's history
    at,             \* the place of the current one
    requests,       \* fetches without an answer
    shown,          \* what each list answers: a query, or NULL at first
    origin,         \* aidDataOrigin, directoryDataOrigin
    loading,        \* isAidLoading, isDirectoryLoading
    failed          \* whether aidErrorMessage, directoryErrorMessage is set

shellVars == <<route, filters, history, at, requests, shown, origin, loading,
               failed>>

List == {"aid", "directory"}
Filters == [feedTab : {"latest", "nearby"}, status : Statuses \union {NULL}]
Query == [scope : Routes, filters : Filters]
Request == [list : List, query : Query, aborted : BOOLEAN]

\* Parameters of a URL.
Param == ({"tab"} \X {"nearby"}) \union ({"st"} \X Statuses)
Url == [route : Routes, params : SUBSET Param]

ShellTypeOK ==
    /\ route \in Routes
    /\ filters \in Filters
    /\ history \in Seq(Url)
    /\ at \in DOMAIN history
    /\ requests \subseteq Request
    /\ shown \in [List -> Query \union {NULL}]
    /\ origin \in [List -> {"api", "fallback"}]
    /\ loading \in [List -> BOOLEAN]
    /\ failed \in [List -> BOOLEAN]

-----------------------------------------------------------------------------
(* URLs *)

defaultShellDiscoveryState ==
    [feedTab |-> "latest", status |-> NULL]

\* What is not set, and the tab 'latest', leave no parameter.
serializeDiscoveryFilterState(f) ==
    {p \in Param : \/ p[1] = "tab" /\ f.feedTab = p[2]
                   \/ p[1] = "st" /\ f.status = p[2]}

\* A parameter that is missing falls back to the default.
parseDiscoveryFilterState(params, fallback) ==
    [feedTab |-> IF <<"tab", "nearby">> \in params THEN "nearby"
                 ELSE fallback.feedTab,
     status |-> IF \E s \in Statuses : <<"st", s>> \in params
                THEN CHOOSE s \in Statuses : <<"st", s>> \in params
                ELSE fallback.status]

UrlOf(r, f) == [route |-> r, params |-> serializeDiscoveryFilterState(f)]

\* Faulty variant: the filters of an empty URL are those of a new session.
readFreshState(url) ==
    parseDiscoveryFilterState(url.params,
        [defaultShellDiscoveryState EXCEPT !.feedTab = "nearby"])

readDiscoveryStateFromUrl(url) ==
    parseDiscoveryFilterState(url.params, defaultShellDiscoveryState)

-----------------------------------------------------------------------------
(* Fetches *)

ListOf(r) == IF r \in {"/map", "/feed"} THEN {"aid"}
             ELSE IF r = "/resources" THEN {"directory"} ELSE {}

\* A dependency of both effects changed: their requests are aborted, and the
\* list of the route, if it has one, is asked for.
runEffects(r, f) ==
    /\ Cardinality(requests) < MaxInFlight
    /\ requests' = {[q EXCEPT !.aborted = TRUE] : q \in requests}
          \union {[list |-> l, aborted |-> FALSE,
                   query |-> [scope |-> r, filters |-> f]] : l \in ListOf(r)}
    /\ loading' = [l \in List |-> loading[l] \/ l \in ListOf(r)]
    /\ failed' = [l \in List |-> failed[l] /\ l \notin ListOf(r)]
    /\ UNCHANGED <<shown, origin>>

\* Any URL may open the application.
ShellInit ==
    /\ route \in Routes
    /\ filters \in Filters
    /\ history = <<UrlOf(route, filters)>>
    /\ at = 1
    /\ requests = {[list |-> l, aborted |-> FALSE,
                    query |-> [scope |-> route, filters |-> filters]] :
                      l \in ListOf(route)}
    /\ shown = [l \in List |-> NULL]
    /\ origin = [l \in List |-> "fallback"]
    /\ loading = [l \in List |-> l \in ListOf(route)]
    /\ failed = [l \in List |-> FALSE]

-----------------------------------------------------------------------------
(* Events *)

\* The URL is pushed with the filters of now, unless it is the current one.
navigate(r) ==
    /\ route' = r
    /\ IF UrlOf(r, filters) = history[at]
       THEN UNCHANGED <<history, at>>
       ELSE /\ at < MaxHistory
            /\ history' = Append(SubSeq(history, 1, at), UrlOf(r, filters))
            /\ at' = at + 1
    /\ IF r # route THEN runEffects(r, filters)
       ELSE UNCHANGED <<requests, shown, origin, loading, failed>>
    /\ UNCHANGED filters

\* The current URL is replaced; the effects run for equal filters as well.
patchDiscoveryState(f) ==
    /\ filters' = f
    /\ history' = [history EXCEPT ![at] = UrlOf(route, f)]
    /\ runEffects(route, f)
    /\ UNCHANGED <<route, at>>

\* The browser goes back or forward.
handlePopState(place) ==
    /\ place \in DOMAIN history \ {at}
    /\ at' = place
    /\ route' = history[place].route
    /\ filters' = readDiscoveryStateFromUrl(history[place])
    /\ history' = [history EXCEPT ![place] = UrlOf(route', filters')]
    /\ runEffects(route', filters')

\* Faulty variant: an answer counts although its request was aborted.
answeredAnyway(q, ok) ==
    /\ q \in requests
    /\ requests' = requests \ {q}
    /\ shown' = IF ok THEN [shown EXCEPT ![q.list] = q.query] ELSE shown
    /\ origin' = [origin EXCEPT ![q.list] = IF ok THEN "api" ELSE "fallback"]
    /\ failed' = IF ok THEN failed ELSE [failed EXCEPT ![q.list] = TRUE]
    /\ loading' = [loading EXCEPT ![q.list] = FALSE]
    /\ UNCHANGED <<route, filters, history, at>>

\* An answer, an error or the timeout; nothing of it counts once aborted.
answered(q, ok) ==
    /\ q \in requests
    /\ requests' = requests \ {q}
    /\ IF q.aborted THEN UNCHANGED <<shown, origin, failed, loading>>
       ELSE /\ shown' = IF ok THEN [shown EXCEPT ![q.list] = q.query] ELSE shown
            /\ origin' = [origin EXCEPT ![q.list] =
                             IF ok THEN "api" ELSE "fallback"]
            /\ failed' = IF ok THEN failed ELSE [failed EXCEPT ![q.list] = TRUE]
            /\ loading' = [loading EXCEPT ![q.list] = FALSE]
    /\ UNCHANGED <<route, filters, history, at>>

ShellNext ==
    \/ \E r \in Routes : navigate(r)
    \/ \E f \in Filters : patchDiscoveryState(f)
    \/ \E place \in 1..MaxHistory : handlePopState(place)
    \/ \E q \in requests, ok \in BOOLEAN : answered(q, ok)

ShellSpec == ShellInit /\ [][ShellNext]_shellVars

-----------------------------------------------------------------------------
(* Whatever order answers arrive in, a list that is neither loading nor     *)
(* failed shows the answer to the filters and the route of now; a list of   *)
(* the route that loads has its one live request under way                  *)
(* (frontend-shell.tsx, the effects over currentRoute and discoveryState).  *)
ShownMatchesFilters ==
    \A l \in ListOf(route) :
        LET now == [scope |-> route, filters |-> filters]
            live == {q \in requests : q.list = l /\ ~q.aborted}
        IN /\ loading[l] => /\ Cardinality(live) = 1
                            /\ \A q \in live : q.query = now
           /\ ~loading[l] => live = {} /\ (failed[l] \/ shown[l] = now)
           /\ ~loading[l] => (origin[l] = "api" <=> ~failed[l])

(* The current URL tells the route and the filters, and going back or      *)
(* forward to any entry of the history finds the state that was left there: *)
(* reading an entry and writing it again changes nothing                    *)
(* (serializeDiscoveryFilterState and parseDiscoveryFilterState with the    *)
(* default that readDiscoveryStateFromUrl gives it).                        *)
UrlTellsState ==
    /\ history[at] = UrlOf(route, filters)
    /\ \A i \in DOMAIN history :
          UrlOf(history[i].route, readDiscoveryStateFromUrl(history[i]))
              = history[i]

(* What is shown answers the filters and the route of now, which URL and    *)
(* history tell.                                                            *)
ScreenAgrees == ShownMatchesFilters /\ UrlTellsState
=============================================================================
