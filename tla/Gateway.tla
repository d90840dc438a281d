------------------------------ MODULE Gateway ------------------------------
(***************************************************************************)
(* What every request to the API passes first, and the sessions:           *)
(* services/api/src/index.ts with rate-limiter.ts, and auth-service.ts     *)
(* with DidAuthService and the in-memory provider of                       *)
(* packages/shared/src/identity.ts.                                        *)
(*                                                                         *)
(* A refresh awaits the provider between finding its session and replacing *)
(* it, and other calls come in between.  The services behind the other     *)
(* routes have modules of their own.  The tokens are random; here they are *)
(* numbers that are used once.                                             *)
(***************************************************************************)
EXTENDS Null, Integers, Sequences, FiniteSets

CONSTANTS
    Clients,               \* what extractClientIp tells apart
    Limiters,              \* generalLimiter, authLimiter, mutationLimiter
    WindowMs, MaxRequests, \* of each limiter
    RefreshCalls,          \* bound: refreshes that await the provider
    LastClockMs,           \* bound: the last millisecond
    MaxTokens              \* bound: pairs of tokens issued

\* The tokens of a session are one pair, named by its number; the first pair
\* names the login.  The expiry of a session changes what validation answers
\* and no state.
DidSession == [login : 1..MaxTokens, tokens : 1..MaxTokens]

GatewayConstants ==
    /\ "auth" \in Limiters
    /\ WindowMs \in [Limiters -> Nat \ {0}]
    /\ MaxRequests \in [Limiters -> Nat \ {0}]
    /\ {LastClockMs, MaxTokens} \subseteq Nat
    /\ NULL \notin Nat /\ NULL \notin [login : Nat, tokens : Nat]

VARIABLES
    clockMs,        \* Date.now
    hits,           \* of each limiter: the entries it keeps of a client, by
                    \* their places among the requests that passed
    activeSessions, \* a set: the map is keyed by access token
    refreshing,     \* the session each call found that awaits the provider
    admitted,       \* times of all requests that passed
    \* Histories:
    retryAt,        \* when the last refusal said to come back
    handedOut,      \* sessions that were answered
    spent,          \* those that a refresh replaced or a logout deleted
    loggedOut,      \* logins that a logout ended
    forked          \* logins with a refresh that found its session gone when
                    \* the provider answered

sessionVars == <<activeSessions, refreshing, handedOut, spent, loggedOut, forked>>
gatewayVars == <<clockMs, hits, admitted, retryAt, sessionVars>>

Time == 0..LastClockMs

GatewayTypeOK ==
    /\ clockMs \in Time
    /\ hits \in [Limiters -> [Clients -> SUBSET (Nat \ {0})]]
    /\ activeSessions \subseteq DidSession
    /\ refreshing \in [RefreshCalls -> DidSession \union {NULL}]
    /\ admitted \in [Limiters -> [Clients -> Seq(Time)]]
    /\ retryAt \in [Limiters -> [Clients -> Nat \union {NULL}]]
    /\ handedOut \subseteq DidSession /\ spent \subseteq DidSession
    /\ loggedOut \subseteq 1..MaxTokens /\ forked \subseteq 1..MaxTokens

GatewayInit ==
    /\ clockMs = 0
    /\ hits = [l \in Limiters |-> [c \in Clients |-> {}]]
    /\ activeSessions = {}
    /\ refreshing = [r \in RefreshCalls |-> NULL]
    /\ admitted = [l \in Limiters |-> [c \in Clients |-> <<>>]]
    /\ retryAt = [l \in Limiters |-> [c \in Clients |-> NULL]]
    /\ handedOut = {} /\ spent = {}
    /\ loggedOut = {} /\ forked = {}

-----------------------------------------------------------------------------
(* The limiter *)

\* Faulty variant: an entry as old as the window still counts.
inclusiveWindow(l, c) ==
    {k \in hits[l][c] : admitted[l][c][k] >= clockMs - WindowMs[l]}

\* What is left when the entries outside the window are pruned.
InWindow(l, c) ==
    {k \in hits[l][c] : admitted[l][c][k] > clockMs - WindowMs[l]}

\* Faulty variant: one more.
allowsOneMore(l, c) == Cardinality(InWindow(l, c)) <= MaxRequests[l]

Allows(l, c) == Cardinality(InWindow(l, c)) < MaxRequests[l]

\* A request that passes is recorded.
Pass(l, c) ==
    /\ Allows(l, c)
    /\ hits' = [hits EXCEPT ![l][c] =
                   InWindow(l, c) \union {Len(admitted[l][c]) + 1}]
    /\ admitted' = [admitted EXCEPT ![l][c] = Append(@, clockMs)]
    /\ retryAt' = [retryAt EXCEPT ![l][c] = NULL]

\* The entry in front of the list.
Oldest(l, c) ==
    CHOOSE k \in InWindow(l, c) : \A j \in InWindow(l, c) : k <= j

\* 429, with the time after which the oldest entry leaves the window.
Refuse(l, c) ==
    LET retryAfterMs == admitted[l][c][Oldest(l, c)] + WindowMs[l] - clockMs
    IN /\ ~Allows(l, c)
       /\ hits' = [hits EXCEPT ![l][c] = InWindow(l, c)]
       /\ retryAt' = [retryAt EXCEPT ![l][c] =
             clockMs + (IF retryAfterMs > 0 THEN retryAfterMs ELSE 0)]
       /\ UNCHANGED <<clockMs, admitted, sessionVars>>

-----------------------------------------------------------------------------
(* The sessions *)

\* A route of another service, a session call that fails, or one that only
\* looks: validateSessionFromParams.
serve(l, c) ==
    /\ Pass(l, c)
    /\ UNCHANGED <<clockMs, sessionVars>>

issuedPairs == Cardinality(handedOut)

\* A new pair of tokens for the login.
Issue(s) ==
    /\ issuedPairs < MaxTokens
    /\ handedOut' = handedOut \union {s}

NewSession(login) == [login |-> login, tokens |-> issuedPairs + 1]

createSession(c) ==
    LET session == NewSession(issuedPairs + 1)
    IN /\ Pass("auth", c)
       /\ Issue(session)
       /\ activeSessions' = activeSessions \union {session}
       /\ UNCHANGED <<clockMs, refreshing, spent, loggedOut, forked>>

\* The session is found by its refresh token, whatever its age: refreshIfNeeded
\* is given a time just before expiresAt, and asks the provider.
refreshSession(c, r, tokens) ==
    /\ Pass("auth", c)
    /\ refreshing[r] = NULL
    /\ \E s \in activeSessions :
          s.tokens = tokens /\ refreshing' = [refreshing EXCEPT ![r] = s]
    /\ UNCHANGED <<clockMs, activeSessions, handedOut, spent, loggedOut, forked>>

\* Faulty variant: the session it replaces stays.
kept(old, new) == activeSessions \union {new}

\* The refreshed session takes the place of the old one, which may be gone.
Replaced(old, new) == (activeSessions \ {old}) \union {new}

\* The provider answers, and the session is not looked up again.
refreshAnswered(r) ==
    LET old == refreshing[r]
        session == NewSession(old.login)
    IN /\ old # NULL
       /\ Issue(session)
       /\ activeSessions' = Replaced(old, session)
       /\ refreshing' = [refreshing EXCEPT ![r] = NULL]
       /\ spent' = spent \union {old}
       /\ forked' = forked \union (IF old \in activeSessions THEN {}
                                   ELSE {old.login})
       /\ UNCHANGED <<clockMs, hits, admitted, retryAt, loggedOut>>

\* SESSION_REFRESH_FAILED.
refreshFails(r) ==
    /\ refreshing[r] # NULL
    /\ refreshing' = [refreshing EXCEPT ![r] = NULL]
    /\ UNCHANGED <<clockMs, hits, admitted, retryAt, activeSessions, handedOut,
                   spent, loggedOut, forked>>

\* Access tokens that were replaced or deleted before delete nothing.
deleteSession(c, tokens) ==
    LET deleted == {s \in activeSessions : s.tokens = tokens}
    IN /\ Pass("auth", c)
       /\ activeSessions' = activeSessions \ deleted
       /\ spent' = spent \union deleted
       /\ loggedOut' = loggedOut \union {s.login : s \in deleted}
       /\ UNCHANGED <<clockMs, refreshing, handedOut, forked>>

NextMillisecond ==
    /\ clockMs < LastClockMs
    /\ clockMs' = clockMs + 1
    /\ UNCHANGED <<hits, admitted, retryAt, sessionVars>>

GatewayNext ==
    \/ \E c \in Clients :
          \/ \E l \in Limiters : Refuse(l, c) \/ serve(l, c)
          \/ createSession(c)
          \/ \E tokens \in 1..issuedPairs :
                \/ \E r \in RefreshCalls : refreshSession(c, r, tokens)
                \/ deleteSession(c, tokens)
    \/ \E r \in RefreshCalls : refreshAnswered(r) \/ refreshFails(r)
    \/ NextMillisecond

GatewaySpec == GatewayInit /\ [][GatewayNext]_gatewayVars

-----------------------------------------------------------------------------
(* However a client spreads its requests, no window of windowMs that ends    *)
(* with one of them holds more than maxRequests that passed, although the    *)
(* limiter forgets as it goes (RateLimiter.check).                           *)
WindowHolds ==
    \A l \in Limiters, c \in Clients :
        \A k \in DOMAIN admitted[l][c] :
            k > MaxRequests[l] =>
                admitted[l][c][k] - admitted[l][c][k - MaxRequests[l]] >= WindowMs[l]

(* The time a refusal names is exact: until a request passes again, one      *)
(* made before that time is refused and one made at it passes, whatever      *)
(* other requests are refused in between (retryAfterMs).                     *)
RetryAfterIsExact ==
    \A l \in Limiters, c \in Clients :
        retryAt[l][c] # NULL => (Allows(l, c) <=> clockMs >= retryAt[l][c])

(* The tokens that were handed out are exactly the ones that work, but for   *)
(* those that were replaced or deleted, which never work again: this also    *)
(* holds where refreshes overlap each other or a logout.                     *)
TokensWorkOnce == activeSessions = handedOut \ spent

(* A login has one session until it is ended and none afterwards, and that   *)
(* session goes by the tokens handed out last: late calls with earlier       *)
(* tokens do not revive, fork or lose it.  Left out are the logins with a    *)
(* refresh that was overtaken by another or by a logout: each such refresh   *)
(* adds a session (refreshSessionFromParams, deleteSessionFromParams).       *)
OneSessionPerLogin ==
    {s \in activeSessions : s.login \notin forked} =
        {s \in handedOut : s.login \notin loggedOut \union forked /\
            \A r \in handedOut : r.login = s.login => r.tokens <= s.tokens}

(* Limiter and sessions together.                                            *)
GatewayKeepsCount ==
    WindowHolds /\ RetryAfterIsExact /\ TokensWorkOnce /\ OneSessionPerLogin
=============================================================================
