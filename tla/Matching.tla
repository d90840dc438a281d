------------------------------ MODULE Matching ------------------------------
(***************************************************************************)
(* services/api/src/matching-service.ts: the recommendations of a request, *)
(* their ranks, and the operators' overrides and the feedback on them.     *)
(*                                                                         *)
(* A candidate's signals, weights and policy are kept as the score they    *)
(* add up to and whether the candidate qualifies; traces, explanations and *)
(* fairness reports, which change nothing, are left out.                   *)
(***************************************************************************)
EXTENDS Null, Integers, Sequences, FiniteSets, SequencesExt, Listing

CONSTANTS
    RequestUris,    \* requestUris
    Candidates,     \* candidateDids, in their order
    Scores,         \* overall scores
    MaxResults,     \* of the policy
    MaxRecs,        \* bound: recommendations made
    MaxOverrides,   \* bound: overrides applied
    MaxFeedback     \* bound: feedback submitted

RecId == 1..MaxRecs
OverrideAction == {"boost", "suppress", "pin", "exclude"}
FeedbackOutcome == {"accepted", "declined", "no_response", "successful", "unsuccessful"}

Recommendation == [candidate : Candidates, request : RequestUris, rank : Nat \ {0}]
Override == [rec : RecId, action : OverrideAction]

MatchingConstants ==
    /\ Candidates \subseteq Nat
    /\ IsFiniteSet(Candidates)
    /\ Scores \subseteq Nat
    /\ MaxResults \in Nat \ {0}
    /\ {MaxRecs, MaxOverrides, MaxFeedback} \subseteq Nat
    /\ NULL \notin Recommendation

VARIABLES
    recommendations,            \* recommendation of each id, or NULL
    recommendationsByRequest,   \* ids of each request's latest list
    overrides,                  \* what was applied, in order
    feedback                    \* what was submitted, in order

matchingVars == <<recommendations, recommendationsByRequest, overrides, feedback>>

MatchingTypeOK ==
    /\ recommendations \in [RecId -> Recommendation \union {NULL}]
    /\ recommendationsByRequest \in [RequestUris -> Seq(RecId)]
    /\ overrides \in Seq(Override)
    /\ feedback \in Seq([rec : RecId, outcome : FeedbackOutcome])

MatchingInit ==
    /\ recommendations = [i \in RecId |-> NULL]
    /\ recommendationsByRequest = [r \in RequestUris |-> <<>>]
    /\ overrides = <<>>
    /\ feedback = <<>>

Known(i) == recommendations[i] # NULL

\* The next ids of idCounter.
Made == Cardinality({i \in RecId : Known(i)})

-----------------------------------------------------------------------------
(* Ranking *)

\* The candidates that qualify by score, then in the order of their DIDs, up
\* to the policy's limit.
Ranked(scored) ==
    LET better == {p \in (DOMAIN scored) \X (DOMAIN scored) :
                      \/ scored[p[1]] > scored[p[2]]
                      \/ scored[p[1]] = scored[p[2]] /\ p[1] < p[2]}
        sorted == Listed(DOMAIN scored, better)
    IN SubSeq(sorted, 1, IF Len(sorted) < MaxResults THEN Len(sorted)
                         ELSE MaxResults)

\* An earlier list of the request is no longer listed, but still known.
generateRecommendations(request, scored) ==
    LET ranked == Ranked(scored)
        ids == [k \in DOMAIN ranked |-> Made + k]
    IN /\ Made + Len(ranked) <= MaxRecs
       /\ recommendations' = [i \in RecId |->
             IF i - Made \in DOMAIN ranked
             THEN [candidate |-> ranked[i - Made], request |-> request,
                   rank |-> i - Made]
             ELSE recommendations[i]]
       /\ recommendationsByRequest' =
             [recommendationsByRequest EXCEPT ![request] = ids]
       /\ UNCHANGED <<overrides, feedback>>

-----------------------------------------------------------------------------
(* Overrides *)

Half(n) == (n + 1) \div 2

\* The list with the element at place k moved to place p.
Moved(list, k, p) == InsertAt(RemoveAt(list, k), p, list[k])

\* Faulty variant: an excluded recommendation keeps its place.
placeKept(list, i) == list

Without(list, i) == At(list, {k \in DOMAIN list : list[k] # i})

\* The order an override gives the listed ids; the list itself where the
\* override changes no rank.
applyOperatorOverride(list, i, action) ==
    IF action = "exclude" THEN Without(list, i)
    ELSE IF i \notin ToSet(list) THEN list
    ELSE LET k == CHOOSE k \in DOMAIN list : list[k] = i
             jump == Half(Len(list) - 1)
         IN CASE action = "pin" -> Moved(list, k, 1)
              [] action = "boost" ->
                    Moved(list, k, IF k - jump < 1 THEN 1 ELSE k - jump)
              [] action = "suppress" ->
                    Moved(list, k, IF k + jump > Len(list) THEN Len(list)
                                   ELSE k + jump)

\* Whether ranks are given out again: not for an id that is not listed, nor
\* for a boost of the first or a suppression of the last one listed.
Reranks(list, i, action) ==
    \/ action = "exclude"
    \/ /\ i \in ToSet(list)
       /\ action = "boost" => list[1] # i
       /\ action = "suppress" => list[Len(list)] # i

\* Those in the order are ranked by their places in it.
reranked(recs, order) ==
    [i \in RecId |->
        IF \E k \in DOMAIN order : order[k] = i
        THEN [recs[i] EXCEPT !.rank = CHOOSE k \in DOMAIN order : order[k] = i]
        ELSE recs[i]]

\* Overrides start from the order of the list, which only exclusion changes:
\* the ranks of earlier overrides play no part.
applyOverride(i, action) ==
    LET request == recommendations[i].request
        list == recommendationsByRequest[request]
        order == applyOperatorOverride(list, i, action)
    IN /\ Known(i)
       /\ Len(overrides) < MaxOverrides
       /\ overrides' = Append(overrides, [rec |-> i, action |-> action])
       /\ recommendations' =
             IF ~Reranks(list, i, action) THEN recommendations
             ELSE reranked(recommendations, order)
       /\ recommendationsByRequest' =
             IF action = "exclude"
             THEN [recommendationsByRequest EXCEPT ![request] = Without(@, i)]
             ELSE recommendationsByRequest
       /\ UNCHANGED feedback

submitFeedback(i, outcome) ==
    /\ Known(i)
    /\ Len(feedback) < MaxFeedback
    /\ feedback' = Append(feedback, [rec |-> i, outcome |-> outcome])
    /\ UNCHANGED <<recommendations, recommendationsByRequest, overrides>>

MatchingNext ==
    \/ \E request \in RequestUris, qualified \in SUBSET Candidates :
          \E scored \in [qualified -> Scores] :
              generateRecommendations(request, scored)
    \/ \E i \in RecId, action \in OverrideAction : applyOverride(i, action)
    \/ \E i \in RecId, outcome \in FeedbackOutcome : submitFeedback(i, outcome)

MatchingSpec == MatchingInit /\ [][MatchingNext]_matchingVars

-----------------------------------------------------------------------------
(* However recommendations are made, moved, excluded and made again, those  *)
(* listed for a request are its own and their ranks are the places 1 to n;  *)
(* one that was excluded never comes back (generateRecommendations,         *)
(* localApplyOperatorOverride, applyOverride).                              *)
RanksArePlaces ==
    /\ \A request \in RequestUris :
          LET list == recommendationsByRequest[request]
          IN /\ \A k \in DOMAIN list :
                   /\ Known(list[k])
                   /\ recommendations[list[k]].request = request
             /\ {recommendations[list[k]].rank : k \in DOMAIN list} = 1..Len(list)
    /\ \A n \in DOMAIN overrides :
          overrides[n].action = "exclude" =>
              \A request \in RequestUris :
                  overrides[n].rec \notin ToSet(recommendationsByRequest[request])

(* packages/shared/src/matching.test.ts:374 says 'boosts a recommendation   *)
(* higher', and applyOverride that it 're-ranks affected recommendations':  *)
(* a listed recommendation that is boosted and is not the first one rises.  *)
BoostRaises ==
    [][\A i \in RecId :
          /\ overrides' = Append(overrides, [rec |-> i, action |-> "boost"])
          /\ i \in ToSet(recommendationsByRequest[recommendations[i].request])
          /\ recommendations[i].rank > 1
          => recommendations'[i].rank < recommendations[i].rank]_matchingVars
=============================================================================
