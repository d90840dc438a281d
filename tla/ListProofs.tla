---------------------------- MODULE ListProofs -----------------------------
(***************************************************************************)
(* Proofs about what is shown in lists: the pages of a conversation and of *)
(* an inbox, the recommendations of a request, and the answers of the      *)
(* discovery queries with the log behind them.                             *)
(***************************************************************************)
EXTENDS ChatMessages, Inbox, Matching, Discovery, FiniteSetTheorems,
        SequenceTheorems, WellFoundedInduction, TLAPS

-----------------------------------------------------------------------------
(***************************************************************************)
(* Listing                                                                 *)
(***************************************************************************)

Below(S, R, x) == {y \in S : <<y, x>> \in R}

StrictOrder(S, R) ==
    /\ \A x \in S : <<x, x>> \notin R
    /\ \A x, y, z \in S : <<x, y>> \in R /\ <<y, z>> \in R => <<x, z>> \in R
    /\ \A x, y \in S : x # y => <<x, y>> \in R \/ <<y, x>> \in R

\* The number of elements before one tells its place.
LEMMA RankIs ==
    ASSUME NEW S, IsFiniteSet(S), NEW R, StrictOrder(S, R)
    PROVE  /\ \A x \in S : Cardinality(Below(S, R, x)) \in 0..(Cardinality(S) - 1)
           /\ \A x, y \in S : <<x, y>> \in R =>
                 Cardinality(Below(S, R, x)) < Cardinality(Below(S, R, y))
<1>1. ASSUME NEW x \in S
      PROVE  /\ IsFiniteSet(Below(S, R, x))
             /\ Cardinality(Below(S, R, x)) \in Nat
             /\ IsFiniteSet(Below(S, R, x) \union {x})
             /\ Cardinality(Below(S, R, x) \union {x})
                   = Cardinality(Below(S, R, x)) + 1
  <2>1. Below(S, R, x) \in SUBSET S /\ x \notin Below(S, R, x)
    BY DEF Below, StrictOrder
  <2>2. IsFiniteSet(Below(S, R, x))
    BY <2>1, FS_Subset
  <2> QED
    BY <2>1, <2>2, FS_AddElement, FS_CardinalityType
<1>2. ASSUME NEW x \in S
      PROVE  Cardinality(Below(S, R, x)) \in 0..(Cardinality(S) - 1)
  <2>1. (Below(S, R, x) \union {x}) \in SUBSET S
    BY DEF Below
  <2>2. Cardinality(Below(S, R, x) \union {x}) <= Cardinality(S)
    BY <2>1, FS_Subset
  <2>3. Cardinality(S) \in Nat
    BY FS_CardinalityType
  <2> QED
    BY <1>1, <2>2, <2>3
<1>3. ASSUME NEW x \in S, NEW y \in S, <<x, y>> \in R
      PROVE  Cardinality(Below(S, R, x)) < Cardinality(Below(S, R, y))
  <2>1. (Below(S, R, x) \union {x}) \in SUBSET Below(S, R, y)
    BY <1>3 DEF Below, StrictOrder
  <2>2. Cardinality(Below(S, R, x) \union {x}) <= Cardinality(Below(S, R, y))
    BY <1>1, <2>1, FS_Subset
  <2> DEFINE a == Cardinality(Below(S, R, x))
             b == Cardinality(Below(S, R, y))
  <2>3. a \in Nat /\ b \in Nat /\ a + 1 <= b
    BY <1>1, <2>2
  <2> HIDE DEF a, b
  <2>4. a < b
    BY <2>3
  <2> QED
    BY <2>4 DEF a, b
<1> QED
  BY <1>2, <1>3

\* A sorted list has every element once, in order.
LEMMA ListedIs ==
    ASSUME NEW S, IsFiniteSet(S), NEW R, StrictOrder(S, R)
    PROVE  /\ Cardinality(S) \in Nat
           /\ Listed(S, R) \in [1..Cardinality(S) -> S]
           /\ \A j, k \in 1..Cardinality(S) :
                 j < k => <<Listed(S, R)[j], Listed(S, R)[k]>> \in R
           /\ \A x \in S : \E k \in 1..Cardinality(S) : Listed(S, R)[k] = x
<1> DEFINE N == Cardinality(S)
           rank == [x \in S |-> Cardinality(Below(S, R, x)) + 1]
<1>1. N \in Nat
  BY FS_CardinalityType
<1>2. \A x \in S : rank[x] \in 1..N /\ Cardinality(Below(S, R, x)) = rank[x] - 1
  <2>1. ASSUME NEW x \in S
        PROVE  rank[x] \in 1..N /\ Cardinality(Below(S, R, x)) = rank[x] - 1
    <3> DEFINE c == Cardinality(Below(S, R, x))
    <3>1. c \in 0..(N - 1) /\ rank[x] = c + 1
      BY RankIs
    <3> HIDE DEF c, rank, N
    <3>2. rank[x] \in 1..N /\ c = rank[x] - 1
      BY <3>1, <1>1
    <3> QED
      BY <3>2 DEF c
  <2> QED
    BY <2>1
<1>3. \A x, y \in S : <<x, y>> \in R => rank[x] < rank[y]
  <2> SUFFICES ASSUME NEW x \in S, NEW y \in S, <<x, y>> \in R
               PROVE  rank[x] < rank[y]
    OBVIOUS
  <2>1. Cardinality(Below(S, R, x)) < Cardinality(Below(S, R, y))
    BY RankIs
  <2> HIDE DEF rank
  <2> QED
    BY <1>1, <1>2, <2>1
<1>4. rank \in [S -> 1..N]
  BY <1>2
<1> HIDE DEF rank, N
<1>5. \A x, y \in S : rank[x] = rank[y] => x = y
  <2> SUFFICES ASSUME NEW x \in S, NEW y \in S, rank[x] = rank[y], x # y
               PROVE  FALSE
    OBVIOUS
  <2>1. rank[x] \in Int /\ ~(rank[x] < rank[x])
    BY <1>1, <1>4
  <2>2. <<x, y>> \in R \/ <<y, x>> \in R
    BY DEF StrictOrder
  <2> QED
    BY <1>3, <2>1, <2>2
<1>6. rank \in Injection(S, 1..N)
  BY <1>4, <1>5 DEF Injection, IsInjective
<1>7. IsFiniteSet(1..N) /\ Cardinality(1..N) = N
  <2>1. 1 \in Int /\ N \in Int
    BY <1>1
  <2>2. /\ IsFiniteSet(1..N)
        /\ Cardinality(1..N) = IF 1 > N THEN 0 ELSE N - 1 + 1
    BY <2>1, FS_Interval
  <2> QED
    BY <2>2, <1>1
<1>8. rank \in Surjection(S, 1..N)
  BY <1>6, <1>7, FS_Injection DEF N
<1>9. \A k \in 1..N : \E x \in S : rank[x] = k
  BY <1>8 DEF Surjection
<1> DEFINE list == Listed(S, R)
<1>10. ASSUME NEW k \in 1..N
       PROVE  list[k] \in S /\ rank[list[k]] = k
  <2>1. list[k] = CHOOSE x \in S : Cardinality(Below(S, R, x)) = k - 1
    BY DEF Listed, N, Below
  <2>2. \E x \in S : Cardinality(Below(S, R, x)) = k - 1
    BY <1>2, <1>9
  <2>3. list[k] \in S /\ Cardinality(Below(S, R, list[k])) = k - 1
    BY <2>1, <2>2
  <2>4. rank[list[k]] \in 1..N /\ k - 1 = rank[list[k]] - 1
    BY <2>3, <1>2
  <2> HIDE DEF list
  <2> QED
    BY <2>3, <2>4, <1>1
<1>11. list \in [1..N -> S]
  <2> DEFINE at(k) == CHOOSE x \in S : Cardinality({y \in S : <<y, x>> \in R}) = k - 1
  <2>2. list = [k \in 1..N |-> at(k)]
    BY DEF Listed, N
  <2> HIDE DEF at
  <2>1. list = [k \in 1..N |-> list[k]]
    BY <2>2
  <2> HIDE DEF list
  <2> QED
    BY <2>1, <1>10
<1> HIDE DEF list
<1>12. ASSUME NEW j \in 1..N, NEW k \in 1..N, j < k
       PROVE  <<list[j], list[k]>> \in R
  <2>1. list[j] # list[k]
    BY <1>10, <1>12, <1>1
  <2>2. <<list[k], list[j]>> \notin R
    BY <1>3, <1>10, <1>12, <1>1
  <2> QED
    BY <2>1, <2>2, <1>10 DEF StrictOrder
<1>13. ASSUME NEW x \in S
       PROVE  \E k \in 1..N : list[k] = x
  BY <1>2, <1>5, <1>10
<1> QED
  BY <1>1, <1>11, <1>12, <1>13 DEF list, N

Chosen(to, list, places) ==
    \E at \in [1..Len(to) -> places] :
       /\ \A k \in 1..Len(to) : to[k] = list[at[k]]
       /\ \A j, k \in 1..Len(to) : j < k => at[j] < at[k]
       /\ \A p \in places : \E k \in 1..Len(to) : at[k] = p

\* What is filtered comes in its order.
LEMMA AtIs ==
    ASSUME NEW S, NEW list \in Seq(S), NEW places \in SUBSET (1..Len(list)),
           NEW to, to = At(list, places)
    PROVE  /\ to \in Seq(S)
           /\ Chosen(to, list, places)
<1> DEFINE R == {p \in places \X places : p[1] < p[2]}
           N == Cardinality(places)
           n == Len(list)
           at == Listed(places, R)
<1>0. n \in Nat /\ places \in SUBSET (1..n) /\ \A k \in 1..n : list[k] \in S
  BY LenProperties, ElementOfSeq
<1> HIDE DEF n
<1>1. IsFiniteSet(places) /\ places \subseteq Int
  <2>1. IsFiniteSet(places)
    <3>1. 1 \in Int /\ n \in Int
      BY <1>0
    <3> QED
      BY <3>1, <1>0, FS_Interval, FS_Subset
  <2> QED
    BY <2>1, <1>0
<1>2. \A p, q : <<p, q>> \in R <=> p \in places /\ q \in places /\ p < q
  OBVIOUS
<1> HIDE DEF R
<1>3. StrictOrder(places, R)
  BY <1>1, <1>2 DEF StrictOrder
<1>4. /\ N \in Nat /\ at \in [1..N -> places]
      /\ \A j, k \in 1..N : j < k => <<at[j], at[k]>> \in R
      /\ \A p \in places : \E k \in 1..N : at[k] = p
  BY <1>1, <1>3, ListedIs
<1>5. \A j, k \in 1..N : j < k => at[j] < at[k]
  BY <1>2, <1>4
<1>6. ASSUME NEW k \in 1..N
      PROVE  at[k] = CHOOSE p \in places :
                        Cardinality({q \in places : q < p}) = k - 1
  <2>1. at[k] = CHOOSE p \in places :
                   Cardinality({q \in places : <<q, p>> \in R}) = k - 1
    BY DEF Listed
  <2>2. ASSUME NEW p \in places
        PROVE  {q \in places : <<q, p>> \in R} = {q \in places : q < p}
    BY <1>2
  <2> QED
    BY <2>1, <2>2
<1>7. At(list, places) = [k \in 1..N |-> list[at[k]]]
  <2> DEFINE place(k) == CHOOSE p \in places :
                            Cardinality({q \in places : q < p}) = k - 1
  <2>1. At(list, places) = [k \in 1..N |-> list[place(k)]]
    BY DEF At
  <2>2. \A k \in 1..N : place(k) = at[k]
    BY <1>6
  <2> HIDE DEF place, at, N
  <2> QED
    BY <2>1, <2>2
<1> HIDE DEF at, N
<1>8. \A k \in 1..N : at[k] \in places /\ list[at[k]] \in S
  BY <1>0, <1>4
<1>9. to = [k \in 1..N |-> list[at[k]]]
  BY <1>7
<1>10. /\ to \in Seq(S) /\ Len(to) = N
       /\ \A k \in 1..N : to[k] = list[at[k]]
  BY <1>4, <1>8, <1>9
<1> QED
  BY <1>4, <1>5, <1>10 DEF Chosen

-----------------------------------------------------------------------------
(***************************************************************************)
(* Counting up                                                             *)
(***************************************************************************)

\* A set of numbers has a least one.
LEMMA LeastOf ==
    ASSUME NEW T \in SUBSET Nat, T # {}
    PROVE  \E n \in T : \A m \in T : n <= m
<1>1. PICK k \in T : TRUE
  OBVIOUS
<1> DEFINE R == {p \in Nat \X Nat : p[1] < p[2]}
<1>2. IsWellFoundedOn(R, Nat)
  BY NatLessThanWellFounded DEF OpToRel
<1>3. \A p, q \in Nat : <<p, q>> \in R <=> p < q
  OBVIOUS
<1> HIDE DEF R
<1>4. PICK n \in T : \A m \in T : <<m, n>> \notin R
  BY <1>1, <1>2, WFMin
<1>5. \A m \in T : n \in Nat /\ m \in Nat /\ ~(m < n)
  BY <1>3, <1>4
<1> QED
  BY <1>5

\* What holds at one number and of the next with each, up to the last, holds
\* of all in between.
LEMMA Upward ==
    ASSUME NEW S, NEW m \in Nat, NEW n \in Nat, m \in S,
           \A k \in m..(n - 1) : k \in S => k + 1 \in S
    PROVE  \A k \in m..n : k \in S
<1> DEFINE T == {k \in m..n : k \notin S}
<1> SUFFICES ASSUME T # {}
             PROVE  FALSE
  OBVIOUS
<1>1. T \in SUBSET Nat
  OBVIOUS
<1>2. PICK k \in T : \A j \in T : k <= j
  <2> HIDE DEF T
  <2> QED
    BY <1>1, LeastOf
<1>3. k \in m..n /\ k \notin S /\ k # m
  OBVIOUS
<1>4. k - 1 \in m..(n - 1) /\ (k - 1) + 1 = k
  BY <1>3
<1>5. k - 1 \in S
  BY <1>2, <1>4
<1> QED
  BY <1>3, <1>4, <1>5

-----------------------------------------------------------------------------
(***************************************************************************)
(* ChatMessages                                                            *)
(***************************************************************************)

\* No two messages have one place, and the page on its way covers what the
\* ones before it left.
ChatInv ==
    /\ ChatTypeOK
    /\ IsFiniteSet(Held)
    /\ \A m \in Held : messages[m].seq <= sequenceCounter
    /\ \A m, n \in Held : messages[m].seq = messages[n].seq => m = n
    /\ readTo <= sequenceCounter
    /\ view # NULL /\ view.hasMore => view.nextCursor = readTo
    /\ ReaderMissesNothing
    /\ page # NULL =>
          /\ view # NULL
          /\ page.covers <= sequenceCounter
          /\ page.hasMore => page.nextCursor = page.covers
          /\ \A m \in Held :
                /\ messages[m].conversation = view.conversation
                /\ page.first \/ messages[m].seq > readTo
                /\ messages[m].seq <= page.covers
                => \E k \in 1..Len(page.ids) : page.ids[k] = m

\* A page is what comes after the cursor up to where it ends.
LEMMA PageCovers ==
    ASSUME ChatConstants, ChatInv, NEW c \in Conversations,
           NEW cursor \in (0..MaxSends) \union {NULL},
           NEW p, p = getConversationHistory(c, cursor)
    PROVE  /\ p \in MessagePage
           /\ p.covers <= sequenceCounter
           /\ p.hasMore => p.nextCursor = p.covers
           /\ p.first <=> cursor = NULL
           /\ \A m \in Held :
                 /\ messages[m].conversation = c
                 /\ cursor = NULL \/ messages[m].seq > cursor
                 /\ messages[m].seq <= p.covers
                 => \E k \in 1..Len(p.ids) : p.ids[k] = m
<1> DEFINE rest == {m \in Held : /\ messages[m].conversation = c
                                 /\ cursor = NULL \/ messages[m].seq > cursor}
           R == {q \in rest \X rest : messages[q[1]].seq < messages[q[2]].seq}
           N == Cardinality(rest)
           list == Listed(rest, R)
           more == Len(list) > PageLimit
           shown == IF Len(list) < PageLimit THEN Len(list) ELSE PageLimit
           ids == SubSeq(list, 1, shown)
           last == IF more THEN messages[ids[Len(ids)]].seq ELSE NULL
<1>1. \A m \in Held : messages[m] \in Message /\ messages[m].seq \in 1..MaxSends
  BY DEF ChatInv, ChatTypeOK, Held, Message
<1>2. /\ sequenceCounter \in 0..MaxSends /\ MaxSends \in Nat
      /\ PageLimit \in Nat \ {0} /\ NULL \notin Nat
  BY DEF ChatInv, ChatTypeOK, ChatConstants
<1>3. /\ rest \subseteq Held /\ rest \subseteq MessageIds
      /\ \A m \in rest : messages[m].seq \in Nat
      /\ \A m, n \in rest : messages[m].seq = messages[n].seq => m = n
  BY <1>1, <1>2 DEF ChatInv, Held
<1>4. IsFiniteSet(rest)
  BY <1>3, FS_Subset DEF ChatInv
<1>5. \A m, n : <<m, n>> \in R <=>
         m \in rest /\ n \in rest /\ messages[m].seq < messages[n].seq
  OBVIOUS
<1>0. p = [ids |-> ids, hasMore |-> more, nextCursor |-> last,
           first |-> cursor = NULL,
           covers |-> IF more THEN last ELSE sequenceCounter]
  BY DEF getConversationHistory, After
<1>6. \A m \in Held :
         /\ messages[m].conversation = c
         /\ cursor = NULL \/ messages[m].seq > cursor
         => m \in rest
  OBVIOUS
<1> HIDE DEF R, rest
<1>7. StrictOrder(rest, R)
  BY <1>3, <1>5 DEF StrictOrder
<1>8. /\ N \in Nat /\ list \in [1..N -> rest]
      /\ \A j, k \in 1..N : j < k => <<list[j], list[k]>> \in R
      /\ \A m \in rest : \E k \in 1..N : list[k] = m
  BY <1>4, <1>7, ListedIs
<1> HIDE DEF list, N
<1>9. list \in Seq(rest) /\ Len(list) = N
  BY <1>8
<1>10. /\ shown \in 0..N /\ shown \in Nat
       /\ more => shown = PageLimit /\ shown \in 1..N
       /\ ~more => shown = N
  BY <1>2, <1>8, <1>9
<1> HIDE DEF shown, more
<1>11. /\ ids \in Seq(rest) /\ Len(ids) = shown
       /\ \A k \in 1..shown : ids[k] = list[k]
  <2>1. \A k \in 1..shown : list[k] \in rest
    BY <1>8, <1>10
  <2>2. 1 \in Int /\ shown \in Int
    BY <1>10
  <2>3. /\ ids \in Seq(rest)
        /\ Len(ids) = IF 1 <= shown THEN shown - 1 + 1 ELSE 0
        /\ \A k \in 1..(shown - 1 + 1) : ids[k] = list[1 + k - 1]
    BY <2>1, <2>2, SubSeqProperties
  <2> QED
    BY <2>3, <1>10
<1> HIDE DEF ids
<1>12. more => /\ ids[Len(ids)] = list[shown] /\ list[shown] \in rest
               /\ last = messages[list[shown]].seq /\ last \in 1..sequenceCounter
  <2> SUFFICES ASSUME more
               PROVE  /\ ids[Len(ids)] = list[shown] /\ list[shown] \in rest
                      /\ messages[list[shown]].seq \in 1..sequenceCounter
    OBVIOUS
  <2>1. ids[Len(ids)] = list[shown] /\ list[shown] \in rest
    BY <1>8, <1>10, <1>11
  <2>2. /\ messages[list[shown]].seq <= sequenceCounter
        /\ messages[list[shown]].seq \in 1..MaxSends
    BY <2>1, <1>1, <1>3 DEF ChatInv
  <2> QED
    BY <2>1, <2>2, <1>2
<1>13. more \in BOOLEAN /\ (~more => last = NULL)
  BY DEF more
<1> HIDE DEF last
<1>14. p \in MessagePage
  <2>1. ids \in Seq(MessageIds)
    BY <1>3, <1>11
  <2>2. last \in Cursor
    BY <1>2, <1>12, <1>13 DEF Cursor
  <2>3. (IF more THEN last ELSE sequenceCounter) \in 0..MaxSends
    BY <1>2, <1>12
  <2> QED
    BY <1>0, <2>1, <2>2, <2>3, <1>13 DEF MessagePage
<1>15. ASSUME NEW m \in Held, messages[m].conversation = c,
              cursor = NULL \/ messages[m].seq > cursor,
              messages[m].seq <= p.covers
       PROVE  \E k \in 1..Len(p.ids) : p.ids[k] = m
  <2>1. PICK k \in 1..N : list[k] = m
    BY <1>6, <1>8, <1>15
  <2>2. k <= shown
    <3>1. CASE ~more
      BY <3>1, <1>10, <2>1, <1>8
    <3>2. CASE more
      <4>1. messages[m].seq <= messages[list[shown]].seq
        BY <3>2, <1>0, <1>12, <1>15
      <4>2. SUFFICES ASSUME shown < k PROVE FALSE
        BY <1>8, <1>10
      <4>3. messages[list[shown]].seq < messages[m].seq
        BY <4>2, <3>2, <2>1, <1>5, <1>8, <1>10
      <4> QED
        BY <4>1, <4>3, <3>2, <1>1, <1>12, <1>3
    <3> QED
      BY <3>1, <3>2
  <2>3. k \in 1..shown
    BY <2>2, <1>8, <1>10
  <2> QED
    BY <2>1, <2>3, <1>0, <1>11
<1>16. p.covers <= sequenceCounter
  BY <1>0, <1>2, <1>12
<1>17. p.hasMore => p.nextCursor = p.covers
  BY <1>0
<1>18. p.first <=> cursor = NULL
  <2> DEFINE begins == cursor = NULL
             covered == IF more THEN last ELSE sequenceCounter
  <2>1. p = [ids |-> ids, hasMore |-> more, nextCursor |-> last,
             first |-> begins, covers |-> covered]
    BY <1>0
  <2> HIDE DEF begins, covered
  <2>2. p.first = begins
    BY <2>1
  <2> QED
    BY <2>2 DEF begins
<1> QED
  BY <1>14, <1>15, <1>16, <1>17, <1>18

\* What the store does between two pages leaves what a reader was shown, and
\* what a page covers: messages stay where they are or move to the end.
LEMMA StoreStep ==
    ASSUME ChatConstants, ChatInv,
           messages' \in [MessageIds -> Message \union {NULL}],
           IsFiniteSet(Held'),
           sequenceCounter' \in 0..MaxSends, sequenceCounter' >= sequenceCounter,
           UNCHANGED <<view, page, readTo>>,
           \A m \in Held' : messages'[m].seq <= sequenceCounter',
           \A m, n \in Held' : messages'[m].seq = messages'[n].seq => m = n,
           \A m \in Held' :
              \/ /\ m \in Held /\ messages'[m].seq = messages[m].seq
                 /\ messages'[m].conversation = messages[m].conversation
              \/ messages'[m].seq > sequenceCounter
    PROVE  ChatInv'
<1>1. /\ sequenceCounter \in Nat /\ sequenceCounter' \in Nat /\ readTo \in Nat
      /\ page # NULL => page.covers \in Nat
      /\ \A m \in Held' : messages'[m].seq \in Nat
  BY DEF ChatInv, ChatTypeOK, ChatConstants, MessagePage, Message, Held
<1>2. ASSUME NEW m \in Held', messages'[m].seq <= sequenceCounter
      PROVE  /\ m \in Held /\ messages'[m].seq = messages[m].seq
             /\ messages'[m].conversation = messages[m].conversation
  BY <1>1, <1>2
<1>3. ReaderMissesNothing'
  <2> SUFFICES ASSUME view # NULL, NEW m \in Held',
                      messages'[m].conversation = view.conversation,
                      messages'[m].seq <= readTo
               PROVE  \E k \in 1..Len(view.ids) : view.ids[k] = m
    BY DEF ReaderMissesNothing
  <2>1. messages'[m].seq <= sequenceCounter
    BY <1>1 DEF ChatInv
  <2> QED
    BY <2>1, <1>2 DEF ChatInv, ReaderMissesNothing
<1>4. ASSUME page # NULL, NEW m \in Held',
             messages'[m].conversation = view.conversation,
             page.first \/ messages'[m].seq > readTo,
             messages'[m].seq <= page.covers
      PROVE  \E k \in 1..Len(page.ids) : page.ids[k] = m
  <2>1. messages'[m].seq <= sequenceCounter
    BY <1>1, <1>4 DEF ChatInv
  <2> QED
    BY <2>1, <1>2, <1>4 DEF ChatInv
<1>5. ChatTypeOK'
  BY DEF ChatInv, ChatTypeOK
<1>6. /\ readTo' <= sequenceCounter'
      /\ page' # NULL => page'.covers <= sequenceCounter'
  BY <1>1 DEF ChatInv
<1> QED
  BY <1>3, <1>4, <1>5, <1>6 DEF ChatInv

LEMMA AddStep ==
    ASSUME ChatConstants, ChatInv, NEW m \in MessageIds, NEW c \in Conversations,
           addMessage(m, c)
    PROVE  ChatInv'
<1> DEFINE x == [conversation |-> c, status |-> "sent", retryCount |-> 0,
                 seq |-> sequenceCounter']
<1>1. /\ sequenceCounter \in Nat /\ sequenceCounter' = sequenceCounter + 1
      /\ sequenceCounter' \in 1..MaxSends
      /\ messages \in [MessageIds -> Message \union {NULL}]
      /\ messages' = [messages EXCEPT ![m] = x]
      /\ UNCHANGED <<view, page, readTo>>
  BY DEF ChatInv, ChatTypeOK, ChatConstants, addMessage
<1>2. x \in Message
  <2>1. 0 \in 0..MaxRetriesSent
    BY DEF ChatConstants
  <2> QED
    BY <1>1, <2>1 DEF Message, MessageStatus
<1>3. x.seq = sequenceCounter'
  OBVIOUS
<1> HIDE DEF x
<1>4. /\ messages' \in [MessageIds -> Message \union {NULL}]
      /\ messages'[m] = x
      /\ \A n \in MessageIds : n # m => messages'[n] = messages[n]
  BY <1>1, <1>2
<1>5. /\ Held' \subseteq Held \union {m}
      /\ \A n \in Held' : n # m => n \in Held /\ messages'[n] = messages[n]
  BY <1>4 DEF Held
<1>6. IsFiniteSet(Held')
  BY <1>5, FS_AddElement, FS_Subset DEF ChatInv
<1>7. \A n \in Held : messages[n].seq \in Nat /\ messages[n].seq <= sequenceCounter
  BY <1>1 DEF ChatInv, Held, Message
<1>8. \A n \in Held' : messages'[n].seq <= sequenceCounter'
  BY <1>1, <1>3, <1>4, <1>5, <1>7
<1>9. ASSUME NEW n \in Held', NEW o \in Held', messages'[n].seq = messages'[o].seq
      PROVE  n = o
  <2>1. CASE n = m /\ o # m
    BY <2>1, <1>1, <1>3, <1>4, <1>5, <1>7, <1>9
  <2>2. CASE n # m /\ o = m
    BY <2>2, <1>1, <1>3, <1>4, <1>5, <1>7, <1>9
  <2>3. CASE n # m /\ o # m
    BY <2>3, <1>5, <1>9 DEF ChatInv
  <2> QED
    BY <2>1, <2>2, <2>3
<1>10. \A n \in Held' :
          \/ /\ n \in Held /\ messages'[n].seq = messages[n].seq
             /\ messages'[n].conversation = messages[n].conversation
          \/ messages'[n].seq > sequenceCounter
  BY <1>1, <1>3, <1>4, <1>5
<1>11. sequenceCounter' >= sequenceCounter /\ sequenceCounter' \in 0..MaxSends
  BY <1>1
<1> QED
  BY <1>1, <1>4, <1>6, <1>8, <1>9, <1>10, <1>11, StoreStep

\* An update or a retry changes neither place nor conversation.
LEMMA RestatusStep ==
    ASSUME ChatConstants, ChatInv, NEW m \in Held, NEW x \in Message,
           x.seq = messages[m].seq, x.conversation = messages[m].conversation,
           messages' = [messages EXCEPT ![m] = x],
           UNCHANGED <<sequenceCounter, view, page, readTo>>
    PROVE  ChatInv'
<1>1. /\ messages \in [MessageIds -> Message \union {NULL}]
      /\ m \in MessageIds /\ messages[m] # NULL
      /\ sequenceCounter \in 0..MaxSends
  BY DEF ChatInv, ChatTypeOK, Held
<1>2. x # NULL
  BY DEF ChatConstants
<1>3. /\ messages' \in [MessageIds -> Message \union {NULL}]
      /\ messages'[m] = x
      /\ \A n \in MessageIds : n # m => messages'[n] = messages[n]
  BY <1>1
<1>4. Held' = Held
  BY <1>1, <1>2, <1>3 DEF Held
<1>5. \A n \in Held : /\ messages'[n].seq = messages[n].seq
                      /\ messages'[n].conversation = messages[n].conversation
  BY <1>3 DEF Held
<1>6. sequenceCounter' >= sequenceCounter
  BY <1>1 DEF ChatConstants
<1> QED
  BY <1>1, <1>3, <1>4, <1>5, <1>6, StoreStep DEF ChatInv

LEMMA OpenStep ==
    ASSUME ChatConstants, ChatInv, NEW c \in Conversations, openConversation(c)
    PROVE  ChatInv'
<1> DEFINE p == getConversationHistory(c, NULL)
           v == [conversation |-> c, ids |-> <<>>, nextCursor |-> NULL,
                 hasMore |-> FALSE, isLoadingMore |-> FALSE]
<1>1. page' = p /\ view' = v /\ readTo' = 0
      /\ UNCHANGED <<messages, sequenceCounter>>
  BY DEF openConversation
<1>0. NULL \in (0..MaxSends) \union {NULL} /\ p = getConversationHistory(c, NULL)
  OBVIOUS
<1> HIDE DEF p
<1>2. /\ p \in MessagePage /\ p.covers <= sequenceCounter
      /\ p.hasMore => p.nextCursor = p.covers
      /\ \A m \in Held :
            messages[m].conversation = c /\ messages[m].seq <= p.covers
            => \E k \in 1..Len(p.ids) : p.ids[k] = m
  <2>1. PICK cursor \in (0..MaxSends) \union {NULL} : cursor = NULL
    OBVIOUS
  <2>2. p = getConversationHistory(c, cursor)
    BY <1>0, <2>1
  <2>3. /\ p \in MessagePage
        /\ p.covers <= sequenceCounter
        /\ p.hasMore => p.nextCursor = p.covers
        /\ \A m \in Held :
              /\ messages[m].conversation = c
              /\ cursor = NULL \/ messages[m].seq > cursor
              /\ messages[m].seq <= p.covers
              => \E k \in 1..Len(p.ids) : p.ids[k] = m
    BY <2>2, PageCovers
  <2> QED
    BY <2>1, <2>3
<1>3. v \in View /\ v.conversation = c /\ ~v.hasMore
  BY DEF View, Cursor
<1> HIDE DEF v
<1>4. v # NULL
  BY <1>3 DEF ChatConstants
<1>5. Held' = Held
  BY <1>1 DEF Held
<1>6. ChatTypeOK'
  BY <1>1, <1>2, <1>3 DEF ChatInv, ChatTypeOK, ChatConstants
<1>7. /\ sequenceCounter \in Nat
      /\ \A m \in Held : messages[m].seq \in Nat /\ messages[m].seq # 0
  BY DEF ChatInv, ChatTypeOK, ChatConstants, Held, Message
<1>8. ReaderMissesNothing'
  BY <1>1, <1>5, <1>7 DEF ReaderMissesNothing
<1> QED
  BY <1>1, <1>2, <1>3, <1>4, <1>5, <1>6, <1>7, <1>8 DEF ChatInv

LEMMA LoadStep ==
    ASSUME ChatConstants, ChatInv, loadMore
    PROVE  ChatInv'
<1> DEFINE p == getConversationHistory(view.conversation, view.nextCursor)
           v == [view EXCEPT !.isLoadingMore = TRUE]
<1>1. /\ page' = p /\ view' = v /\ view # NULL /\ view.hasMore
      /\ UNCHANGED <<messages, sequenceCounter, readTo>>
  BY DEF loadMore
<1>2. /\ view \in View /\ view.conversation \in Conversations
      /\ view.nextCursor = readTo /\ readTo \in 0..MaxSends
      /\ NULL \notin Nat
  BY <1>1 DEF ChatInv, ChatTypeOK, View, ChatConstants
<1>3. /\ p \in MessagePage /\ p.covers <= sequenceCounter
      /\ p.hasMore => p.nextCursor = p.covers
      /\ ~p.first
      /\ \A m \in Held :
            /\ messages[m].conversation = view.conversation
            /\ messages[m].seq > readTo
            /\ messages[m].seq <= p.covers
            => \E k \in 1..Len(p.ids) : p.ids[k] = m
  BY <1>2, PageCovers
<1>4. /\ v \in View /\ v.conversation = view.conversation
      /\ v.ids = view.ids /\ v.hasMore = view.hasMore
      /\ v.nextCursor = view.nextCursor
  BY <1>2 DEF View
<1> HIDE DEF p, v
<1>5. v # NULL
  BY <1>4 DEF ChatConstants
<1>6. Held' = Held
  BY <1>1 DEF Held
<1>7. ChatTypeOK'
  BY <1>1, <1>3, <1>4 DEF ChatInv, ChatTypeOK
<1>8. ReaderMissesNothing'
  BY <1>1, <1>4, <1>6 DEF ChatInv, ReaderMissesNothing
<1> QED
  BY <1>1, <1>2, <1>3, <1>4, <1>5, <1>6, <1>7, <1>8 DEF ChatInv

LEMMA ShowStep ==
    ASSUME ChatConstants, ChatInv, showPage
    PROVE  ChatInv'
<1> DEFINE ids == IF page.first THEN page.ids ELSE view.ids \o page.ids
           v == [view EXCEPT !.ids = ids, !.nextCursor = page.nextCursor,
                             !.hasMore = page.hasMore, !.isLoadingMore = FALSE]
<1>1. /\ view' = v /\ page # NULL /\ view # NULL /\ page' = NULL
      /\ readTo' = page.covers
      /\ UNCHANGED <<messages, sequenceCounter>>
  BY DEF showPage, ChatInv
<1>2. view \in View /\ page \in MessagePage
  BY <1>1 DEF ChatInv, ChatTypeOK
<1>3. /\ page.ids \in Seq(MessageIds) /\ view.ids \in Seq(MessageIds)
      /\ page.covers \in 0..MaxSends /\ page.nextCursor \in Cursor
      /\ page.hasMore \in BOOLEAN
  BY <1>2 DEF View, MessagePage
<1>4. /\ ids \in Seq(MessageIds)
      /\ \A k \in 1..Len(page.ids) : \E j \in 1..Len(ids) : ids[j] = page.ids[k]
      /\ ~page.first => \A k \in 1..Len(view.ids) : \E j \in 1..Len(ids) :
                           ids[j] = view.ids[k]
  <2>1. CASE page.first
    BY <2>1, <1>3
  <2>2. CASE ~page.first
    <3> DEFINE a == view.ids
               b == page.ids
    <3>1. /\ a \in Seq(MessageIds) /\ b \in Seq(MessageIds) /\ ids = a \o b
      BY <2>2, <1>3
    <3> HIDE DEF a, b, ids
    <3>2. /\ Len(a) \in Nat /\ Len(b) \in Nat
          /\ ids \in Seq(MessageIds) /\ Len(ids) = Len(a) + Len(b)
          /\ \A k \in 1..(Len(a) + Len(b)) :
                ids[k] = IF k <= Len(a) THEN a[k] ELSE b[k - Len(a)]
      BY <3>1, ConcatProperties, LenProperties
    <3>3. ASSUME NEW k \in 1..Len(a)
          PROVE  k \in 1..Len(ids) /\ ids[k] = a[k]
      BY <3>2
    <3>4. ASSUME NEW k \in 1..Len(b)
          PROVE  k + Len(a) \in 1..Len(ids) /\ ids[k + Len(a)] = b[k]
      <4>1. /\ k + Len(a) \in 1..(Len(a) + Len(b)) /\ ~(k + Len(a) <= Len(a))
            /\ (k + Len(a)) - Len(a) = k
        BY <3>2
      <4> QED
        BY <4>1, <3>2
    <3> QED
      BY <3>2, <3>3, <3>4 DEF a, b
  <2> QED
    BY <2>1, <2>2
<1> HIDE DEF ids
<1>5. /\ v \in View /\ v.conversation = view.conversation
      /\ v.ids = ids /\ v.nextCursor = page.nextCursor
      /\ v.hasMore = page.hasMore
  BY <1>2, <1>3, <1>4 DEF View
<1> HIDE DEF v
<1>6. Held' = Held
  BY <1>1 DEF Held
<1>7. ChatTypeOK'
  BY <1>1, <1>3, <1>5 DEF ChatInv, ChatTypeOK
<1>8. ReaderMissesNothing'
  <2> SUFFICES ASSUME NEW m \in Held,
                      messages[m].conversation = view.conversation,
                      messages[m].seq <= page.covers
               PROVE  \E j \in 1..Len(ids) : ids[j] = m
    BY <1>1, <1>5, <1>6 DEF ReaderMissesNothing
  <2>1. messages[m].seq \in Nat /\ readTo \in Nat
    BY DEF ChatInv, ChatTypeOK, ChatConstants, Held, Message
  <2>2. CASE page.first \/ messages[m].seq > readTo
    <3>1. \E k \in 1..Len(page.ids) : page.ids[k] = m
      BY <2>2, <1>1 DEF ChatInv
    <3> QED
      BY <3>1, <1>4
  <2>3. CASE ~page.first /\ messages[m].seq <= readTo
    <3>1. \E k \in 1..Len(view.ids) : view.ids[k] = m
      BY <2>3, <1>1 DEF ChatInv, ReaderMissesNothing
    <3> QED
      BY <3>1, <2>3, <1>4
  <2> QED
    BY <2>1, <2>2, <2>3
<1>9. /\ readTo' <= sequenceCounter
      /\ page.hasMore => page.nextCursor = page.covers
  BY <1>1 DEF ChatInv
<1> QED
  BY <1>1, <1>5, <1>6, <1>7, <1>8, <1>9 DEF ChatInv

LEMMA ChatInvariant ==
    ASSUME ChatConstants
    PROVE  ChatSpec => []ChatInv
<1>1. ChatInit => ChatInv
  <2> SUFFICES ASSUME ChatInit PROVE ChatInv
    OBVIOUS
  <2>1. Held = {} /\ IsFiniteSet(Held)
    BY FS_EmptySet DEF Held, ChatInit
  <2>2. ChatTypeOK
    BY DEF ChatInit, ChatTypeOK, ChatConstants
  <2> QED
    BY <2>1, <2>2 DEF ChatInit, ChatInv, ReaderMissesNothing
<1>2. ChatInv /\ [ChatNext]_chatVars => ChatInv'
  <2> SUFFICES ASSUME ChatInv, [ChatNext]_chatVars PROVE ChatInv'
    OBVIOUS
  <2>1. ASSUME NEW m \in MessageIds, NEW status \in Reported,
               updateMessageStatus(m, status)
        PROVE  ChatInv'
    <3>1. m \in Held /\ messages[m] \in Message
      BY <2>1 DEF updateMessageStatus, ChatInv, ChatTypeOK, Held
    <3> DEFINE x == [messages[m] EXCEPT !.status = status]
    <3>2. /\ x \in Message /\ x.seq = messages[m].seq
          /\ x.conversation = messages[m].conversation
      BY <3>1 DEF Message, MessageStatus, ChatConstants
    <3>3. messages' = [messages EXCEPT ![m] = x]
      BY <2>1 DEF updateMessageStatus
    <3> QED
      BY <2>1, <3>1, <3>2, <3>3, RestatusStep DEF updateMessageStatus
  <2>2. ASSUME NEW m \in MessageIds, retryMessage(m)
        PROVE  ChatInv'
    <3>1. /\ m \in Held /\ messages[m] \in Message
          /\ messages[m].retryCount \in 0..MaxRetriesSent
          /\ messages[m].retryCount < MaxRetriesSent
          /\ messages \in [MessageIds -> Message \union {NULL}]
      BY <2>2 DEF retryMessage, ChatInv, ChatTypeOK, Held, Message
    <3> DEFINE x == [messages[m] EXCEPT !.status = "sent", !.retryCount = @ + 1]
    <3>2. /\ x \in Message /\ x.seq = messages[m].seq
          /\ x.conversation = messages[m].conversation
      <4> DEFINE count == messages[m].retryCount
      <4>2. /\ count \in 0..MaxRetriesSent /\ count < MaxRetriesSent
            /\ MaxRetriesSent \in Nat
        BY <3>1 DEF ChatConstants
      <4> HIDE DEF count
      <4>3. count + 1 \in 0..MaxRetriesSent
        BY <4>2
      <4>1. messages[m].retryCount + 1 \in 0..MaxRetriesSent
        BY <4>3 DEF count
      <4> QED
        BY <3>1, <4>1 DEF Message, MessageStatus
    <3>3. messages' = [messages EXCEPT ![m] = x]
      BY <2>2, <3>1 DEF retryMessage
    <3> QED
      BY <2>2, <3>1, <3>2, <3>3, RestatusStep DEF retryMessage
  <2>3. CASE UNCHANGED chatVars
    <3>1. /\ messages' = messages /\ sequenceCounter' = sequenceCounter
          /\ view' = view /\ page' = page /\ readTo' = readTo
      BY <2>3 DEF chatVars
    <3> QED
      BY <3>1 DEF ChatInv, ChatTypeOK, ReaderMissesNothing, Held
  <2> QED
    BY <2>1, <2>2, <2>3, AddStep, OpenStep, LoadStep, ShowStep DEF ChatNext
<1> QED
  BY <1>1, <1>2, PTL DEF ChatSpec

(* Whatever messages are sent, sent again under their own id, reported and  *)
(* retried between the answers and the showing of pages: a reader who       *)
(* follows the cursors is shown every message up to the end of the last     *)
(* page.                                                                    *)
THEOREM ReaderMissesNothingEver ==
    ASSUME ChatConstants
    PROVE  ChatSpec => []ReaderMissesNothing
<1>1. ChatInv => ReaderMissesNothing
  BY DEF ChatInv
<1> QED
  BY <1>1, ChatInvariant, PTL

-----------------------------------------------------------------------------
(***************************************************************************)
(* Inbox                                                                   *)
(***************************************************************************)

Distinct(items) == \A j, k \in 1..Len(items) : items[j].id = items[k].id => j = k

\* One item is newer than another.
Newer(items, a, b) ==
    \E j, k \in 1..Len(items) : j < k /\ items[j].id = a /\ items[k].id = b

Within(items, filter) ==
    {items[k].id : k \in {n \in 1..Len(items) : matchesFilter(items[n], filter)}}

\* What is owed and not shown yet is behind the cursor, unless the filter has
\* lost it; where none is lost, what was shown is not.
InboxInv ==
    /\ InboxTypeOK
    /\ reader.owed \subseteq idsOf(inbox)
    /\ reader.reading => reader.cursor \in idsOf(inbox)
    /\ \A id \in reader.owed :
          /\ id \in Within(inbox, reader.filter)
          /\ reader.reading => reader.cursor \in Within(inbox, reader.filter)
          => \/ \E k \in 1..Len(shownIds) : shownIds[k] = id
             \/ reader.reading /\ Newer(inbox, reader.cursor, id)
    /\ reader.filter # "unread" =>
          /\ \A j, k \in 1..Len(shownIds) : shownIds[j] = shownIds[k] => j = k
          /\ reader.reading =>
                /\ reader.cursor \in Within(inbox, reader.filter)
                /\ \A k \in 1..Len(shownIds) :
                      \/ shownIds[k] = reader.cursor
                      \/ Newer(inbox, shownIds[k], reader.cursor)

LEMMA NewerIs ==
    ASSUME NEW items \in Seq(InboxItem), Distinct(items)
    PROVE  /\ \A j, k \in 1..Len(items) :
                 Newer(items, items[j].id, items[k].id) <=> j < k
           /\ \A a : ~Newer(items, a, a)
           /\ \A a, b, c : Newer(items, a, b) /\ Newer(items, b, c) => Newer(items, a, c)
<1>1. Len(items) \in Nat
  BY LenProperties
<1>2. \A j, k \in 1..Len(items) : Newer(items, items[j].id, items[k].id) <=> j < k
  BY <1>1 DEF Newer, Distinct
<1>3. \A a : ~Newer(items, a, a)
  BY <1>1 DEF Newer, Distinct
<1>4. ASSUME NEW a, NEW b, NEW c, Newer(items, a, b), Newer(items, b, c)
      PROVE  Newer(items, a, c)
  <2>1. PICK i, j \in 1..Len(items) : i < j /\ items[i].id = a /\ items[j].id = b
    BY <1>4 DEF Newer
  <2>2. PICK k, l \in 1..Len(items) : k < l /\ items[k].id = b /\ items[l].id = c
    BY <1>4 DEF Newer
  <2>3. j = k
    BY <2>1, <2>2 DEF Distinct
  <2>4. i < l
    BY <1>1, <2>1, <2>2, <2>3
  <2> QED
    BY <2>1, <2>2, <2>4 DEF Newer
<1> QED
  BY <1>2, <1>3, <1>4

\* A filter keeps the order of the inbox.
LEMMA FilteredIs ==
    ASSUME InboxTypeOK, NEW filter, NEW list, list = filtered(filter)
    PROVE  /\ list \in Seq(InboxItem)
           /\ \A k \in 1..Len(list) :
                 list[k].id \in Within(inbox, filter) /\ list[k].id \in ItemIds
           /\ \A j, k \in 1..Len(list) :
                 /\ Newer(inbox, list[j].id, list[k].id) <=> j < k
                 /\ list[j].id = list[k].id => j = k
           /\ \A id \in Within(inbox, filter) : \E k \in 1..Len(list) : list[k].id = id
           /\ idsOf(list) = Within(inbox, filter)
<1> DEFINE places == {k \in DOMAIN inbox : matchesFilter(inbox[k], filter)}
           N == Len(inbox)
           M == Len(list)
<1>1. /\ inbox \in Seq(InboxItem) /\ DOMAIN inbox = 1..N /\ N \in Nat
      /\ Distinct(inbox)
  BY LenProperties DEF InboxTypeOK, Distinct
<1>2. list = At(inbox, places) /\ places \in SUBSET (1..Len(inbox))
  BY <1>1 DEF filtered
<1>3. \A k : k \in places <=> k \in 1..N /\ matchesFilter(inbox[k], filter)
  BY <1>1
<1> HIDE DEF places
<1>4. list \in Seq(InboxItem) /\ Chosen(list, inbox, places)
  <2>1. inbox \in Seq(InboxItem)
    BY <1>1
  <2> QED
    BY <2>1, <1>2, AtIs
<1>5. PICK at \in [1..M -> places] :
         /\ \A k \in 1..M : list[k] = inbox[at[k]]
         /\ \A j, k \in 1..M : j < k => at[j] < at[k]
         /\ \A p \in places : \E k \in 1..M : at[k] = p
  BY <1>4 DEF Chosen
<1>6. M \in Nat /\ DOMAIN list = 1..M
  BY <1>4, LenProperties
<1> HIDE DEF M, N
<1>7. \A k \in 1..M : at[k] \in places /\ at[k] \in 1..N
  BY <1>3, <1>5
<1>8. \A id : id \in Within(inbox, filter) <=> \E p \in places : inbox[p].id = id
  BY <1>3 DEF Within, N
<1>9. ASSUME NEW k \in 1..M
      PROVE  list[k].id \in Within(inbox, filter) /\ list[k].id \in ItemIds
  <2>1. list[k] \in InboxItem
    BY <1>4, ElementOfSeq DEF M
  <2> QED
    BY <2>1, <1>5, <1>7, <1>8 DEF InboxItem
<1>10. ASSUME NEW j \in 1..M, NEW k \in 1..M
       PROVE  j < k <=> at[j] < at[k]
  <2>1. at[j] \in Int /\ at[k] \in Int
    BY <1>1, <1>7
  <2>2. k < j => at[k] < at[j]
    BY <1>5
  <2>3. j < k => at[j] < at[k]
    BY <1>5
  <2>4. j = k \/ j < k \/ k < j
    BY <1>6
  <2> QED
    BY <2>1, <2>2, <2>3, <2>4, <1>6
<1>11. ASSUME NEW j \in 1..M, NEW k \in 1..M
       PROVE  /\ Newer(inbox, list[j].id, list[k].id) <=> j < k
              /\ list[j].id = list[k].id => j = k
  <2>1. list[j].id = inbox[at[j]].id /\ list[k].id = inbox[at[k]].id
    BY <1>5
  <2>2. Newer(inbox, list[j].id, list[k].id) <=> at[j] < at[k]
    BY <2>1, <1>1, <1>7, NewerIs DEF N
  <2>3. list[j].id = list[k].id => at[j] = at[k]
    BY <2>1, <1>1, <1>7 DEF Distinct, N
  <2>4. at[j] = at[k] => j = k
    <3>1. at[j] = at[k] => ~(j < k) /\ ~(k < j)
      BY <1>1, <1>7, <1>10
    <3> QED
      BY <3>1, <1>6
  <2> QED
    BY <2>2, <2>3, <2>4, <1>10
<1>12. ASSUME NEW id \in Within(inbox, filter)
       PROVE  \E k \in 1..M : list[k].id = id
  BY <1>5, <1>8
<1>13. idsOf(list) = Within(inbox, filter)
  BY <1>6, <1>9, <1>12 DEF idsOf
<1> QED
  BY <1>4, <1>9, <1>11, <1>12, <1>13 DEF M

\* A page goes on behind the cursor, up to the next one.
LEMMA PageIs ==
    ASSUME InboxConstants, InboxTypeOK, NEW filter, NEW cursor,
           NEW answer, answer = getInbox(filter, cursor)
    PROVE  /\ answer.items \in Seq(ItemIds)
           /\ answer.nextCursor # NULL =>
                 /\ answer.nextCursor \in Within(inbox, filter)
                 /\ \E k \in 1..Len(answer.items) : answer.items[k] = answer.nextCursor
           /\ answer.nextCursor \in ItemIds \union {NULL}
           /\ \A j, k \in 1..Len(answer.items) : answer.items[j] = answer.items[k] => j = k
           /\ \A k \in 1..Len(answer.items) :
                 /\ cursor \in Within(inbox, filter) => Newer(inbox, cursor, answer.items[k])
                 /\ answer.nextCursor # NULL =>
                       \/ answer.items[k] = answer.nextCursor
                       \/ Newer(inbox, answer.items[k], answer.nextCursor)
           /\ \A id \in Within(inbox, filter) :
                 (cursor \in Within(inbox, filter) => Newer(inbox, cursor, id)) =>
                    \/ \E k \in 1..Len(answer.items) : answer.items[k] = id
                    \/ answer.nextCursor # NULL /\ Newer(inbox, answer.nextCursor, id)
<1> DEFINE list == filtered(filter)
           N == Len(list)
           start == startIndex(list, cursor)
           end == IF start + limit <= N THEN start + limit ELSE N
           shown == SubSeq(list, start + 1, end)
           items == [k \in DOMAIN shown |-> shown[k].id]
           next == IF start + limit < N THEN shown[Len(shown)].id ELSE NULL
           W == Within(inbox, filter)
<1>1. answer = [items |-> items, nextCursor |-> next]
  BY DEF getInbox
<1>2. answer.items = items /\ answer.nextCursor = next
  <2> HIDE DEF items, next
  <2> QED
    BY <1>1
<1>3. /\ list \in Seq(InboxItem)
      /\ \A k \in 1..N : list[k].id \in W /\ list[k].id \in ItemIds
      /\ \A j, k \in 1..N : /\ Newer(inbox, list[j].id, list[k].id) <=> j < k
                            /\ list[j].id = list[k].id => j = k
      /\ \A id \in W : \E k \in 1..N : list[k].id = id
  BY FilteredIs
<1>4. N \in Nat /\ DOMAIN list = 1..N /\ limit \in Nat \ {0}
  BY <1>3, LenProperties DEF InboxConstants
<1>5. /\ start \in 0..N
      /\ cursor \in W => start \in 1..N /\ list[start].id = cursor
      /\ cursor \notin W => start = 0
  <2> DEFINE places == {k \in DOMAIN list : list[k].id = cursor}
  <2>1. start = IF places = {} THEN 0 ELSE CHOOSE k \in places : TRUE
    BY DEF startIndex
  <2>2. cursor \in W <=> places # {}
    BY <1>3, <1>4
  <2>3. places # {} => start \in places
    <3> HIDE DEF places
    <3> QED
      BY <2>1
  <2>4. \A k \in places : k \in 1..N /\ list[k].id = cursor
    BY <1>4
  <2> HIDE DEF places, start, N, list
  <2> QED
    BY <2>1, <2>2, <2>3, <2>4, <1>4
<1> HIDE DEF list, N, start, W
<1>6. /\ end \in start..N
      /\ start + limit < N => end = start + limit /\ end > start
      /\ ~(start + limit < N) => end = N
  BY <1>4, <1>5
<1> HIDE DEF end
<1>7. \A k \in 1..N : list[k] \in InboxItem
  BY <1>3, ElementOfSeq DEF N
<1>8. /\ shown \in Seq(InboxItem) /\ Len(shown) = end - start
      /\ \A k \in 1..(end - start) : shown[k] = list[start + k]
  <2>1. \A k \in (start + 1)..end : list[k] \in InboxItem
    BY <1>4, <1>5, <1>6, <1>7
  <2>2. start + 1 \in Int /\ end \in Int
    BY <1>4, <1>5, <1>6
  <2>3. /\ shown \in Seq(InboxItem)
        /\ Len(shown) = IF start + 1 <= end THEN end - (start + 1) + 1 ELSE 0
        /\ \A k \in 1..(end - (start + 1) + 1) : shown[k] = list[start + 1 + k - 1]
    BY <2>1, <2>2, SubSeqProperties
  <2>4. Len(shown) = end - start
    BY <2>2, <2>3, <1>5, <1>6
  <2>5. ASSUME NEW k \in 1..(end - start)
        PROVE  shown[k] = list[start + k]
    <3>1. k \in 1..(end - (start + 1) + 1) /\ start + 1 + k - 1 = start + k
      BY <2>2, <1>4, <1>5
    <3> QED
      BY <2>3, <3>1
  <2> QED
    BY <2>3, <2>4, <2>5
<1> DEFINE L == end - start
<1>9. /\ L \in Nat /\ end = start + L /\ start \in Nat
      /\ \A k \in 1..L : start + k \in 1..N
  BY <1>4, <1>5, <1>6
<1>10. /\ items = [k \in 1..L |-> shown[k].id]
       /\ next = IF start + limit < N THEN shown[L].id ELSE NULL
  BY <1>8, LenProperties
<1> HIDE DEF shown, L, items, next
<1>11. /\ \A k \in 1..L : items[k] = list[start + k].id /\ items[k] \in ItemIds
       /\ items \in Seq(ItemIds) /\ Len(items) = L
  <2>1. \A k \in 1..L : items[k] = list[start + k].id
    BY <1>8, <1>10 DEF L
  <2>2. \A k \in 1..L : items[k] \in ItemIds
    BY <2>1, <1>3, <1>9
  <2>3. items \in [1..L -> ItemIds]
    BY <2>2, <1>10
  <2> QED
    BY <2>1, <2>2, <2>3, <1>9
<1>12. next # NULL => /\ start + limit < N /\ end \in 1..N /\ end < N
                      /\ next = list[end].id
  <2> SUFFICES ASSUME next # NULL
               PROVE  /\ start + limit < N /\ end \in 1..N /\ end < N
                      /\ next = list[end].id
    OBVIOUS
  <2>1. start + limit < N /\ next = shown[L].id
    BY <1>10
  <2>2. end = start + limit /\ end > start /\ end \in 1..N /\ end < N /\ L \in 1..L
    BY <2>1, <1>4, <1>5, <1>6, <1>9
  <2> QED
    BY <2>1, <2>2, <1>8, <1>9 DEF L
<1>13. next = NULL => end = N
  <2> SUFFICES ASSUME start + limit < N PROVE next # NULL
    BY <1>6
  <2>1. L \in 1..L /\ next = shown[L].id
    BY <1>4, <1>5, <1>6, <1>9, <1>10
  <2>2. next = items[L]
    BY <2>1, <1>10
  <2> QED
    BY <2>1, <2>2, <1>11 DEF InboxConstants
<1>14. ASSUME NEW j \in 1..L, NEW k \in 1..L, items[j] = items[k]
       PROVE  j = k
  <2> DEFINE p == start + j
             q == start + k
  <2>2. p \in 1..N /\ q \in 1..N /\ list[p].id = list[q].id
    BY <1>9, <1>11, <1>14
  <2> HIDE DEF p, q
  <2>3. p = q
    BY <2>2, <1>3
  <2>1. start + j = start + k
    BY <2>3 DEF p, q
  <2> QED
    BY <2>1, <1>9
<1>15. ASSUME NEW k \in 1..L
       PROVE  /\ cursor \in W => Newer(inbox, cursor, items[k])
              /\ next # NULL => items[k] = next \/ Newer(inbox, items[k], next)
  <2> DEFINE p == start + k
  <2>1. p \in 1..N /\ start < p /\ p <= end /\ items[k] = list[p].id
    <3>1. start < start + k /\ start + k <= start + L
      BY <1>9
    <3> QED
      BY <3>1, <1>9, <1>11
  <2> HIDE DEF p
  <2>2. cursor \in W => Newer(inbox, cursor, items[k])
    BY <2>1, <1>3, <1>5
  <2>3. CASE next # NULL /\ p = end
    BY <2>1, <2>2, <2>3, <1>12
  <2>4. CASE next # NULL /\ p < end
    BY <2>1, <2>2, <2>4, <1>3, <1>12
  <2>5. p = end \/ p < end
    BY <2>1, <1>9
  <2> QED
    BY <2>2, <2>3, <2>4, <2>5
<1>16. ASSUME NEW id \in W, cursor \in W => Newer(inbox, cursor, id)
       PROVE  \/ \E k \in 1..L : items[k] = id
              \/ next # NULL /\ Newer(inbox, next, id)
  <2>1. PICK p \in 1..N : list[p].id = id
    BY <1>3
  <2>2. start < p
    <3>1. CASE cursor \in W
      BY <3>1, <2>1, <1>3, <1>5, <1>16
    <3>2. CASE cursor \notin W
      BY <3>2, <2>1, <1>4, <1>5
    <3> QED
      BY <3>1, <3>2
  <2>3. CASE p <= end
    <3>1. p - start \in 1..L /\ start + (p - start) = p
      BY <2>2, <2>3, <1>4, <1>9
    <3> DEFINE k == p - start
    <3>2. k \in 1..L /\ start + k = p
      BY <3>1
    <3> HIDE DEF k
    <3>3. items[k] = id
      BY <3>2, <2>1, <1>11
    <3> QED
      BY <3>2, <3>3
  <2>4. CASE end < p
    <3>1. next # NULL
      BY <2>4, <1>4, <1>13
    <3> QED
      BY <3>1, <2>1, <2>4, <1>3, <1>12
  <2> QED
    BY <2>3, <2>4, <1>4, <1>9
<1>17. next # NULL => next \in W /\ next \in ItemIds
  BY <1>3, <1>12
<1>18. next # NULL => \E k \in 1..L : items[k] = next
  <2> SUFFICES ASSUME next # NULL PROVE \E k \in 1..L : items[k] = next
    OBVIOUS
  <2>1. L \in 1..L /\ next = shown[L].id
    BY <1>4, <1>6, <1>9, <1>10, <1>12
  <2> QED
    BY <2>1, <1>10
<1> QED
  BY <1>2, <1>11, <1>14, <1>15, <1>16, <1>17, <1>18 DEF W

\* Items that come in front, and are read, leave the order and the run.
LEMMA KeepStep ==
    ASSUME InboxInv, InboxTypeOK', UNCHANGED <<reader, shownIds>>,
           NEW d \in Nat, Len(inbox') = Len(inbox) + d,
           \A k \in 1..Len(inbox) :
              /\ inbox'[k + d].id = inbox[k].id
              /\ inbox'[k + d].type = inbox[k].type
              /\ inbox[k].read => inbox'[k + d].read
    PROVE  InboxInv'
<1> DEFINE N == Len(inbox)
           W(filter) == Within(inbox, filter)
           W2(filter) == Within(inbox', filter)
<1>1. /\ inbox \in Seq(InboxItem) /\ inbox' \in Seq(InboxItem)
      /\ N \in Nat /\ DOMAIN inbox = 1..N
      /\ DOMAIN inbox' = 1..Len(inbox')
      /\ Distinct(inbox) /\ Distinct(inbox')
      /\ \A k \in 1..N : k + d \in 1..(N + d)
  <2>1. /\ inbox \in Seq(InboxItem) /\ inbox' \in Seq(InboxItem)
    BY DEF InboxInv, InboxTypeOK
  <2>2. /\ N \in Nat /\ DOMAIN inbox = 1..N /\ DOMAIN inbox' = 1..Len(inbox')
    BY <2>1, LenProperties
  <2>3. Distinct(inbox) /\ Distinct(inbox')
    BY <2>2 DEF InboxInv, InboxTypeOK, Distinct
  <2>4. \A k \in 1..N : k + d \in 1..(N + d)
    BY <2>2
  <2> QED
    BY <2>1, <2>2, <2>3, <2>4
<1>2. \A a, b : Newer(inbox, a, b) => Newer(inbox', a, b)
  <2> SUFFICES ASSUME NEW a, NEW b, Newer(inbox, a, b)
               PROVE  Newer(inbox', a, b)
    OBVIOUS
  <2>1. PICK j, k \in 1..N : j < k /\ inbox[j].id = a /\ inbox[k].id = b
    BY DEF Newer
  <2>2. /\ j + d \in 1..Len(inbox') /\ k + d \in 1..Len(inbox') /\ j + d < k + d
        /\ inbox'[j + d].id = a /\ inbox'[k + d].id = b
    BY <2>1, <1>1
  <2> QED
    BY <2>2 DEF Newer
<1>3. idsOf(inbox) \subseteq idsOf(inbox')
  <2> SUFFICES ASSUME NEW k \in 1..N PROVE inbox[k].id \in idsOf(inbox')
    BY <1>1 DEF idsOf
  <2>1. k + d \in DOMAIN inbox' /\ inbox'[k + d].id = inbox[k].id
    BY <1>1
  <2> QED
    BY <2>1 DEF idsOf
<1>4. ASSUME NEW filter, NEW k \in 1..N, matchesFilter(inbox'[k + d], filter)
      PROVE  matchesFilter(inbox[k], filter)
  BY <1>4 DEF matchesFilter
<1>5. ASSUME NEW filter, NEW k \in 1..N, filter # "unread", matchesFilter(inbox[k], filter)
      PROVE  matchesFilter(inbox'[k + d], filter)
  BY <1>5 DEF matchesFilter
\* What the filter holds of the earlier items, it held.
<1>6. ASSUME NEW filter, NEW id \in idsOf(inbox), id \in W2(filter)
      PROVE  id \in W(filter)
  <2>1. PICK k \in 1..N : inbox[k].id = id
    BY <1>1 DEF idsOf
  <2>2. PICK n \in 1..Len(inbox') :
           matchesFilter(inbox'[n], filter) /\ inbox'[n].id = id
    BY <1>6 DEF Within
  <2>3. /\ k + d \in 1..Len(inbox') /\ inbox'[k + d].id = inbox[k].id
    BY <1>1
  <2>4. n = k + d
    BY <2>1, <2>2, <2>3, <1>1 DEF Distinct
  <2> QED
    BY <2>1, <2>2, <2>4, <1>4 DEF Within
<1>7. ASSUME NEW filter, filter # "unread", NEW id \in W(filter)
      PROVE  id \in W2(filter)
  <2>1. PICK k \in 1..N : matchesFilter(inbox[k], filter) /\ inbox[k].id = id
    BY DEF Within
  <2>2. /\ k + d \in 1..Len(inbox') /\ inbox'[k + d].id = id
        /\ matchesFilter(inbox'[k + d], filter)
    BY <2>1, <1>1, <1>5, <1>7
  <2> QED
    BY <2>2 DEF Within
<1> HIDE DEF W, W2
<1>8. /\ reader.owed \subseteq idsOf(inbox')
      /\ reader.reading => reader.cursor \in idsOf(inbox')
  BY <1>3 DEF InboxInv
<1>9. ASSUME NEW id \in reader.owed, id \in W2(reader.filter),
             reader.reading => reader.cursor \in W2(reader.filter)
      PROVE  \/ \E k \in 1..Len(shownIds) : shownIds[k] = id
             \/ reader.reading /\ Newer(inbox', reader.cursor, id)
  <2>1. id \in W(reader.filter)
    BY <1>6, <1>9 DEF InboxInv
  <2>2. reader.reading => reader.cursor \in W(reader.filter)
    BY <1>6, <1>9 DEF InboxInv
  <2>3. \/ \E k \in 1..Len(shownIds) : shownIds[k] = id
        \/ reader.reading /\ Newer(inbox, reader.cursor, id)
    BY <2>1, <2>2 DEF InboxInv, W
  <2> QED
    BY <2>3, <1>2
<1>10. ASSUME reader.filter # "unread", reader.reading
       PROVE  /\ reader.cursor \in W2(reader.filter)
              /\ \A k \in 1..Len(shownIds) :
                    \/ shownIds[k] = reader.cursor
                    \/ Newer(inbox', shownIds[k], reader.cursor)
  BY <1>2, <1>7, <1>10 DEF InboxInv, W
<1> QED
  BY <1>8, <1>9, <1>10 DEF InboxInv, W2

LEMMA AddItemStep ==
    ASSUME InboxInv, NEW id \in ItemIds, NEW type \in ItemType, addItem(id, type)
    PROVE  InboxInv'
<1> DEFINE item == [id |-> id, type |-> type, read |-> FALSE]
           front == <<item>>
<1>1. /\ id \notin idsOf(inbox) /\ inbox' = front \o inbox
      /\ UNCHANGED <<reader, shownIds>>
  BY DEF addItem
<1>2. /\ inbox \in Seq(InboxItem) /\ Len(inbox) \in Nat
      /\ DOMAIN inbox = 1..Len(inbox) /\ Distinct(inbox)
  BY LenProperties DEF InboxInv, InboxTypeOK, Distinct
<1>3. item \in InboxItem /\ item.id = id
  BY DEF InboxItem
<1> HIDE DEF item
<1>4. front \in Seq(InboxItem) /\ Len(front) = 1 /\ front[1] = item
  BY <1>3
<1> HIDE DEF front
<1>5. /\ inbox' \in Seq(InboxItem) /\ Len(inbox') = Len(front) + Len(inbox)
      /\ \A k \in 1..(Len(front) + Len(inbox)) :
            inbox'[k] = IF k <= Len(front) THEN front[k] ELSE inbox[k - Len(front)]
  BY <1>1, <1>2, <1>4, ConcatProperties
<1>6. Len(inbox') = Len(inbox) + 1 /\ inbox'[1] = item
  BY <1>2, <1>4, <1>5
<1>7. ASSUME NEW k \in 1..Len(inbox)
      PROVE  inbox'[k + 1] = inbox[k]
  <2>1. /\ k + 1 \in 1..(1 + Len(inbox)) /\ ~(k + 1 <= 1) /\ (k + 1) - 1 = k
    BY <1>2
  <2> QED
    BY <2>1, <1>4, <1>5
<1>8. \A k \in 1..Len(inbox) : inbox[k].id # id
  BY <1>1, <1>2 DEF idsOf
<1>9. ASSUME NEW k \in 1..Len(inbox')
      PROVE  \/ k = 1 /\ inbox'[k] = item
             \/ \E j \in 1..Len(inbox) : k = j + 1 /\ inbox'[k] = inbox[j]
  <2>1. CASE k = 1
    BY <2>1, <1>6
  <2>2. CASE k # 1
    <3> DEFINE j == k - 1
    <3>1. j \in 1..Len(inbox) /\ k = j + 1
      BY <2>2, <1>2, <1>6
    <3> HIDE DEF j
    <3> QED
      BY <3>1, <1>7
  <2> QED
    BY <2>1, <2>2
<1>10. Distinct(inbox')
  <2> SUFFICES ASSUME NEW j \in 1..Len(inbox'), NEW k \in 1..Len(inbox'),
                      inbox'[j].id = inbox'[k].id
               PROVE  j = k
    BY DEF Distinct
  <2> QED
    BY <1>2, <1>3, <1>8, <1>9 DEF Distinct
<1>11. InboxTypeOK'
  <2>1. DOMAIN inbox' = 1..Len(inbox')
    BY <1>5, LenProperties
  <2> QED
    BY <2>1, <1>1, <1>5, <1>10 DEF InboxInv, InboxTypeOK, Distinct
<1> QED
  BY <1>1, <1>6, <1>7, <1>11, KeepStep

\* Items that are read stay where they are.
LEMMA ReadStep ==
    ASSUME InboxInv, UNCHANGED <<reader, shownIds>>,
           inbox' \in [1..Len(inbox) -> InboxItem],
           \A k \in 1..Len(inbox) :
              /\ inbox'[k].id = inbox[k].id
              /\ inbox'[k].type = inbox[k].type
              /\ inbox[k].read => inbox'[k].read
    PROVE  InboxInv'
<1>1. /\ Len(inbox) \in Nat /\ DOMAIN inbox = 1..Len(inbox) /\ Distinct(inbox)
  BY LenProperties DEF InboxInv, InboxTypeOK, Distinct
<1>2. /\ inbox' \in Seq(InboxItem) /\ Len(inbox') = Len(inbox)
      /\ DOMAIN inbox' = 1..Len(inbox)
  BY <1>1
<1>3. InboxTypeOK'
  BY <1>1, <1>2 DEF InboxInv, InboxTypeOK, Distinct
<1>4. /\ Len(inbox') = Len(inbox) + 0
      /\ \A k \in 1..Len(inbox) : k + 0 = k
  BY <1>1, <1>2
<1>5. \A k \in 1..Len(inbox) :
         /\ inbox'[k + 0].id = inbox[k].id
         /\ inbox'[k + 0].type = inbox[k].type
         /\ inbox[k].read => inbox'[k + 0].read
  BY <1>4
<1>6. PICK d \in Nat : d = 0
  OBVIOUS
<1> QED
  BY <1>3, <1>4, <1>5, <1>6, KeepStep

LEMMA OpenFilterStep ==
    ASSUME InboxConstants, InboxInv, NEW filter \in InboxFilter, OpenFilter(filter)
    PROVE  InboxInv'
<1> DEFINE answer == getInbox(filter, NULL)
           W == Within(inbox, filter)
           list == filtered(filter)
<1>1. /\ reader' = [filter |-> filter, reading |-> answer.nextCursor # NULL,
                    cursor |-> answer.nextCursor, owed |-> idsOf(list)]
      /\ shownIds' = answer.items
      /\ inbox' = inbox
  BY DEF OpenFilter
<1>2. /\ answer.items \in Seq(ItemIds)
      /\ answer.nextCursor # NULL =>
            /\ answer.nextCursor \in W
            /\ \E k \in 1..Len(answer.items) : answer.items[k] = answer.nextCursor
      /\ answer.nextCursor \in ItemIds \union {NULL}
      /\ \A j, k \in 1..Len(answer.items) : answer.items[j] = answer.items[k] => j = k
      /\ \A k \in 1..Len(answer.items) :
            /\ NULL \in W => Newer(inbox, NULL, answer.items[k])
            /\ answer.nextCursor # NULL =>
                  \/ answer.items[k] = answer.nextCursor
                  \/ Newer(inbox, answer.items[k], answer.nextCursor)
      /\ \A id \in W :
            (NULL \in W => Newer(inbox, NULL, id)) =>
               \/ \E k \in 1..Len(answer.items) : answer.items[k] = id
               \/ answer.nextCursor # NULL /\ Newer(inbox, answer.nextCursor, id)
  BY PageIs DEF InboxInv
<1>3. /\ inbox \in Seq(InboxItem) /\ DOMAIN inbox = 1..Len(inbox)
      /\ W \subseteq ItemIds /\ W \subseteq idsOf(inbox)
  <2>1. inbox \in Seq(InboxItem) /\ DOMAIN inbox = 1..Len(inbox)
    BY LenProperties DEF InboxInv, InboxTypeOK
  <2>2. \A k \in 1..Len(inbox) : inbox[k] \in InboxItem
    BY <2>1, ElementOfSeq
  <2>3. \A k \in 1..Len(inbox) : inbox[k].id \in ItemIds
    BY <2>2 DEF InboxItem
  <2>4. W \subseteq ItemIds
    BY <2>3 DEF Within
  <2>5. W \subseteq idsOf(inbox)
    BY <2>1 DEF Within, idsOf
  <2> QED
    BY <2>1, <2>4, <2>5
<1>4. idsOf(list) = W /\ NULL \notin W
  <2>1. InboxTypeOK
    BY DEF InboxInv
  <2>2. idsOf(list) = W
    BY <2>1, FilteredIs
  <2> QED
    BY <2>2, <1>3 DEF InboxConstants
<1> DEFINE reading == answer.nextCursor # NULL
<1>5. /\ reader' = [filter |-> filter, reading |-> reading,
                    cursor |-> answer.nextCursor, owed |-> W]
      /\ reading \in BOOLEAN
  BY <1>1, <1>4
<1> HIDE DEF reading, W, answer, list
<1>6. /\ reader'.filter = filter /\ reader'.reading = reading
      /\ reader'.cursor = answer.nextCursor /\ reader'.owed = W
  BY <1>5
<1>7. reader' \in Reader
  BY <1>2, <1>3, <1>5 DEF Reader
<1>8. InboxTypeOK'
  BY <1>1, <1>2, <1>7 DEF InboxInv, InboxTypeOK
<1>9. reading <=> answer.nextCursor # NULL
  BY DEF reading
<1>10. /\ reader'.owed \subseteq idsOf(inbox')
       /\ reader'.reading => reader'.cursor \in idsOf(inbox')
  BY <1>1, <1>2, <1>3, <1>6, <1>9
<1>11. \A id \in reader'.owed :
          \/ \E k \in 1..Len(shownIds') : shownIds'[k] = id
          \/ reader'.reading /\ Newer(inbox', reader'.cursor, id)
  BY <1>1, <1>2, <1>4, <1>6, <1>9
<1>12. /\ \A j, k \in 1..Len(shownIds') : shownIds'[j] = shownIds'[k] => j = k
       /\ reader'.reading =>
             /\ reader'.cursor \in Within(inbox', reader'.filter)
             /\ \A k \in 1..Len(shownIds') :
                   \/ shownIds'[k] = reader'.cursor
                   \/ Newer(inbox', shownIds'[k], reader'.cursor)
  BY <1>1, <1>2, <1>6, <1>9 DEF W
<1> QED
  BY <1>8, <1>10, <1>11, <1>12 DEF InboxInv

LEMMA NextPageStep ==
    ASSUME InboxConstants, InboxInv, NextPage
    PROVE  InboxInv'
<1> DEFINE cursor == reader.cursor
           answer == getInbox(reader.filter, cursor)
           W == Within(inbox, reader.filter)
           items == answer.items
           next == answer.nextCursor
           reading == answer.nextCursor # NULL
<1>1. /\ reader.reading
      /\ reader' = [reader EXCEPT !.reading = reading, !.cursor = next]
      /\ shownIds' = shownIds \o items
      /\ inbox' = inbox
  BY DEF NextPage
<1>2. /\ items \in Seq(ItemIds)
      /\ next # NULL =>
            next \in W /\ \E k \in 1..Len(items) : items[k] = next
      /\ next \in ItemIds \union {NULL}
      /\ \A j, k \in 1..Len(items) : items[j] = items[k] => j = k
      /\ \A k \in 1..Len(items) :
            /\ cursor \in W => Newer(inbox, cursor, items[k])
            /\ next # NULL => items[k] = next \/ Newer(inbox, items[k], next)
      /\ \A id \in W : (cursor \in W => Newer(inbox, cursor, id)) =>
            \/ \E k \in 1..Len(items) : items[k] = id
            \/ next # NULL /\ Newer(inbox, next, id)
  BY PageIs DEF InboxInv
<1>3. /\ inbox \in Seq(InboxItem) /\ DOMAIN inbox = 1..Len(inbox)
      /\ Distinct(inbox) /\ W \subseteq idsOf(inbox)
      /\ shownIds \in Seq(ItemIds) /\ reader \in Reader
  <2>1. /\ inbox \in Seq(InboxItem) /\ DOMAIN inbox = 1..Len(inbox)
        /\ Distinct(inbox) /\ shownIds \in Seq(ItemIds) /\ reader \in Reader
    BY LenProperties DEF InboxInv, InboxTypeOK, Distinct
  <2>2. W \subseteq idsOf(inbox)
    BY <2>1 DEF Within, idsOf
  <2> QED
    BY <2>1, <2>2
<1>4. reading \in BOOLEAN /\ (reading <=> next # NULL)
  OBVIOUS
<1> HIDE DEF cursor, W, answer, items, next, reading
<1>5. /\ reader' \in Reader
      /\ reader'.filter = reader.filter /\ reader'.reading = reading
      /\ reader'.cursor = next /\ reader'.owed = reader.owed
  BY <1>1, <1>2, <1>3, <1>4 DEF Reader
<1>6. /\ Len(shownIds) \in Nat /\ Len(items) \in Nat
      /\ shownIds' \in Seq(ItemIds) /\ Len(shownIds') = Len(shownIds) + Len(items)
      /\ \A k \in 1..(Len(shownIds) + Len(items)) :
            shownIds'[k] = IF k <= Len(shownIds) THEN shownIds[k]
                           ELSE items[k - Len(shownIds)]
  BY <1>1, <1>2, <1>3, ConcatProperties, LenProperties
<1>7. \A k \in 1..Len(shownIds) : k \in 1..Len(shownIds') /\ shownIds'[k] = shownIds[k]
  BY <1>6
<1>8. ASSUME NEW k \in 1..Len(items)
      PROVE  k + Len(shownIds) \in 1..Len(shownIds')
             /\ shownIds'[k + Len(shownIds)] = items[k]
  <2>1. /\ k + Len(shownIds) \in 1..(Len(shownIds) + Len(items))
        /\ ~(k + Len(shownIds) <= Len(shownIds))
        /\ (k + Len(shownIds)) - Len(shownIds) = k
    BY <1>6
  <2> QED
    BY <2>1, <1>6
<1>9. ASSUME NEW k \in 1..Len(shownIds')
      PROVE  \/ k \in 1..Len(shownIds) /\ shownIds'[k] = shownIds[k]
             \/ \E j \in 1..Len(items) : k = j + Len(shownIds) /\ shownIds'[k] = items[j]
  <2>1. CASE k <= Len(shownIds)
    BY <2>1, <1>6
  <2>2. CASE ~(k <= Len(shownIds))
    <3> DEFINE j == k - Len(shownIds)
    <3>1. j \in 1..Len(items) /\ k = j + Len(shownIds) /\ shownIds'[k] = items[j]
      BY <2>2, <1>6
    <3> HIDE DEF j
    <3> QED
      BY <3>1
  <2> QED
    BY <2>1, <2>2
<1>10. InboxTypeOK'
  BY <1>1, <1>5, <1>6 DEF InboxInv, InboxTypeOK
<1>11. /\ reader'.owed \subseteq idsOf(inbox')
       /\ reader'.reading => reader'.cursor \in idsOf(inbox')
  BY <1>1, <1>2, <1>3, <1>4, <1>5 DEF InboxInv
<1>12. ASSUME NEW id \in reader.owed, id \in W
       PROVE  \/ \E k \in 1..Len(shownIds') : shownIds'[k] = id
              \/ reading /\ Newer(inbox, next, id)
  <2>1. CASE cursor \in W => Newer(inbox, cursor, id)
    <3>1. \/ \E k \in 1..Len(items) : items[k] = id
          \/ next # NULL /\ Newer(inbox, next, id)
      BY <2>1, <1>2, <1>12
    <3> QED
      BY <3>1, <1>4, <1>8
  <2>2. CASE cursor \in W /\ ~Newer(inbox, cursor, id)
    <3>1. \E k \in 1..Len(shownIds) : shownIds[k] = id
      BY <2>2, <1>1, <1>12 DEF InboxInv, W, cursor
    <3> QED
      BY <3>1, <1>7
  <2> QED
    BY <2>1, <2>2
<1>13. ASSUME reader.filter # "unread"
       PROVE  /\ \A j, k \in 1..Len(shownIds') : shownIds'[j] = shownIds'[k] => j = k
              /\ reading =>
                    /\ next \in W
                    /\ \A k \in 1..Len(shownIds') :
                          shownIds'[k] = next \/ Newer(inbox, shownIds'[k], next)
  <2>1. /\ \A j, k \in 1..Len(shownIds) : shownIds[j] = shownIds[k] => j = k
        /\ cursor \in W
        /\ \A k \in 1..Len(shownIds) :
              shownIds[k] = cursor \/ Newer(inbox, shownIds[k], cursor)
    BY <1>1, <1>13 DEF InboxInv, W, cursor
  <2>2. /\ \A a : ~Newer(inbox, a, a)
        /\ \A a, b, c : Newer(inbox, a, b) /\ Newer(inbox, b, c) => Newer(inbox, a, c)
    BY <1>3, NewerIs
  <2>3. \A j \in 1..Len(shownIds), k \in 1..Len(items) :
           Newer(inbox, shownIds[j], items[k])
    BY <2>1, <2>2, <1>2
  <2>4. ASSUME NEW j \in 1..Len(shownIds'), NEW k \in 1..Len(shownIds'),
               shownIds'[j] = shownIds'[k]
        PROVE  j = k
    BY <2>1, <2>2, <2>3, <2>4, <1>2, <1>9
  <2>5. ASSUME reading, NEW k \in 1..Len(shownIds')
        PROVE  shownIds'[k] = next \/ Newer(inbox, shownIds'[k], next)
    <3>1. CASE \E j \in 1..Len(items) : shownIds'[k] = items[j]
      BY <3>1, <2>5, <1>2, <1>4
    <3>2. CASE k \in 1..Len(shownIds) /\ shownIds'[k] = shownIds[k]
      <4>1. PICK j \in 1..Len(items) : items[j] = next
        BY <2>5, <1>2, <1>4
      <4> QED
        BY <4>1, <3>2, <2>3
    <3> QED
      BY <3>1, <3>2, <1>9
  <2> QED
    BY <2>4, <2>5, <1>2, <1>4
<1> QED
  BY <1>1, <1>5, <1>10, <1>11, <1>12, <1>13 DEF InboxInv, W

LEMMA InboxInvariant ==
    ASSUME InboxConstants
    PROVE  InboxSpec => []InboxInv
<1>1. InboxInit => InboxInv
  <2> SUFFICES ASSUME InboxInit PROVE InboxInv
    OBVIOUS
  <2>1. /\ inbox = <<>> /\ shownIds = <<>>
        /\ reader = [filter |-> "all", reading |-> FALSE, cursor |-> NULL, owed |-> {}]
    BY DEF InboxInit
  <2>2. reader \in Reader
    BY <2>1 DEF Reader, InboxFilter
  <2>3. InboxTypeOK
    BY <2>1, <2>2 DEF InboxTypeOK
  <2> QED
    BY <2>1, <2>3 DEF InboxInv
<1>2. InboxInv /\ [InboxNext]_inboxVars => InboxInv'
  <2> SUFFICES ASSUME InboxInv, [InboxNext]_inboxVars PROVE InboxInv'
    OBVIOUS
  <2>0. /\ inbox \in Seq(InboxItem) /\ DOMAIN inbox = 1..Len(inbox)
        /\ \A k \in 1..Len(inbox) : inbox[k] \in InboxItem
    BY LenProperties, ElementOfSeq DEF InboxInv, InboxTypeOK
  <2>1. ASSUME NEW id \in ItemIds, markItemRead(id)
        PROVE  InboxInv'
    <3>1. /\ inbox' = [k \in 1..Len(inbox) |->
                [inbox[k] EXCEPT !.read = @ \/ inbox[k].id = id]]
          /\ UNCHANGED <<reader, shownIds>>
      BY <2>0, <2>1 DEF markItemRead
    <3> DEFINE read(k) == inbox[k].read \/ inbox[k].id = id
               item(k) == [inbox[k] EXCEPT !.read = read(k)]
    <3>2. \A k \in 1..Len(inbox) :
             /\ item(k) \in InboxItem
             /\ item(k).id = inbox[k].id /\ item(k).type = inbox[k].type
             /\ inbox[k].read => item(k).read
      <4> SUFFICES ASSUME NEW k \in 1..Len(inbox)
                   PROVE  /\ item(k) \in InboxItem
                          /\ item(k).id = inbox[k].id /\ item(k).type = inbox[k].type
                          /\ inbox[k].read => item(k).read
        OBVIOUS
      <4>1. inbox[k] \in InboxItem /\ read(k) \in BOOLEAN /\ (inbox[k].read => read(k))
        BY <2>0
      <4> HIDE DEF read
      <4> QED
        BY <4>1 DEF InboxItem
    <3>3. inbox' = [k \in 1..Len(inbox) |-> item(k)]
      BY <3>1
    <3> HIDE DEF item
    <3> QED
      BY <3>1, <3>2, <3>3, ReadStep
  <2>2. ASSUME NEW id \in ItemIds, NEW type \in ItemType, addItem(id, type)
        PROVE  InboxInv'
    BY <2>2, AddItemStep
  <2>3. CASE markAllItemsRead
    <3>1. /\ inbox' = [k \in 1..Len(inbox) |-> [inbox[k] EXCEPT !.read = TRUE]]
          /\ UNCHANGED <<reader, shownIds>>
      BY <2>0, <2>3 DEF markAllItemsRead
    <3> DEFINE item(k) == [inbox[k] EXCEPT !.read = TRUE]
    <3>2. \A k \in 1..Len(inbox) :
             /\ item(k) \in InboxItem
             /\ item(k).id = inbox[k].id /\ item(k).type = inbox[k].type
             /\ item(k).read
      BY <2>0 DEF InboxItem
    <3>3. inbox' = [k \in 1..Len(inbox) |-> item(k)]
      BY <3>1
    <3> HIDE DEF item
    <3> QED
      BY <3>1, <3>2, <3>3, ReadStep
  <2>4. ASSUME NEW filter \in InboxFilter, OpenFilter(filter)
        PROVE  InboxInv'
    BY <2>4, OpenFilterStep
  <2>5. CASE NextPage
    BY <2>5, NextPageStep
  <2>6. CASE UNCHANGED inboxVars
    <3>1. inbox' = inbox /\ reader' = reader /\ shownIds' = shownIds
      BY <2>6 DEF inboxVars
    <3> QED
      BY <3>1 DEF InboxInv, InboxTypeOK
  <2> QED
    BY <2>1, <2>2, <2>3, <2>4, <2>5, <2>6 DEF InboxNext
<1> QED
  BY <1>1, <1>2, PTL DEF InboxSpec

(* For any items and page size: a reader who has followed the cursors to    *)
(* the end was shown all that the filter held and still holds, and outside  *)
(* of the unread items nothing twice, however items arrive and are read.    *)
THEOREM InboxIsReadAlways ==
    ASSUME InboxConstants
    PROVE  InboxSpec => []InboxIsRead
<1>1. InboxInv => InboxIsRead
  <2> SUFFICES ASSUME InboxInv PROVE InboxIsRead
    OBVIOUS
  <2>1. DOMAIN shownIds = 1..Len(shownIds)
    BY LenProperties DEF InboxInv, InboxTypeOK
  <2>2. idsOf(filtered(reader.filter)) = Within(inbox, reader.filter)
    BY FilteredIs DEF InboxInv
  <2>3. ReaderSeesAll
    BY <2>1, <2>2 DEF InboxInv, ReaderSeesAll
  <2>4. NothingTwice
    BY <2>1 DEF InboxInv, NothingTwice, IsInjective
  <2> QED
    BY <2>3, <2>4 DEF InboxIsRead
<1> QED
  BY <1>1, InboxInvariant, PTL

-----------------------------------------------------------------------------
(***************************************************************************)
(* Matching                                                                *)
(***************************************************************************)

LEMMA RemovedIs ==
    ASSUME NEW S, NEW list \in Seq(S), NEW k \in 1..Len(list)
    PROVE  /\ RemoveAt(list, k) \in Seq(S)
           /\ Len(RemoveAt(list, k)) = Len(list) - 1
           /\ \A n \in 1..(Len(list) - 1) :
                 RemoveAt(list, k)[n] = list[IF n < k THEN n ELSE n + 1]
<1> DEFINE N == Len(list)
           a == SubSeq(list, 1, k - 1)
           b == SubSeq(list, k + 1, N)
<1>1. N \in Nat /\ k \in 1..N /\ \A n \in 1..N : list[n] \in S
  BY LenProperties, ElementOfSeq
<1> HIDE DEF N
<1>2. /\ a \in Seq(S) /\ Len(a) = k - 1
      /\ \A n \in 1..(k - 1) : a[n] = list[n]
  <2>1. \A n \in 1..(k - 1) : list[n] \in S
    BY <1>1
  <2>2. 1 \in Int /\ k - 1 \in Int
    BY <1>1
  <2>3. /\ a \in Seq(S) /\ Len(a) = IF 1 <= k - 1 THEN k - 1 - 1 + 1 ELSE 0
        /\ \A n \in 1..(k - 1 - 1 + 1) : a[n] = list[1 + n - 1]
    BY <2>1, <2>2, SubSeqProperties
  <2> QED
    BY <2>3, <1>1
<1>3. /\ b \in Seq(S) /\ Len(b) = N - k
      /\ \A n \in 1..(N - k) : b[n] = list[k + n]
  <2>1. \A n \in (k + 1)..N : list[n] \in S
    BY <1>1
  <2>2. k + 1 \in Int /\ N \in Int
    BY <1>1
  <2>3. /\ b \in Seq(S)
        /\ Len(b) = IF k + 1 <= N THEN N - (k + 1) + 1 ELSE 0
        /\ \A n \in 1..(N - (k + 1) + 1) : b[n] = list[k + 1 + n - 1]
    BY <2>1, <2>2, SubSeqProperties
  <2> QED
    BY <2>3, <1>1
<1> HIDE DEF a, b
<1>4. /\ a \o b \in Seq(S) /\ Len(a \o b) = Len(a) + Len(b)
      /\ \A n \in 1..(Len(a) + Len(b)) :
            (a \o b)[n] = IF n <= Len(a) THEN a[n] ELSE b[n - Len(a)]
  BY <1>2, <1>3, ConcatProperties
<1>5. RemoveAt(list, k) = a \o b
  BY DEF RemoveAt, a, b, N
<1> DEFINE c == a \o b
<1>6. /\ c \in Seq(S) /\ Len(c) = N - 1
      /\ \A n \in 1..(N - 1) : c[n] = IF n < k THEN a[n] ELSE b[n - (k - 1)]
  <2> HIDE DEF c
  <2>1. /\ c \in Seq(S) /\ Len(c) = (k - 1) + (N - k)
        /\ \A n \in 1..((k - 1) + (N - k)) :
              c[n] = IF n <= k - 1 THEN a[n] ELSE b[n - (k - 1)]
    BY <1>2, <1>3, <1>4 DEF c
  <2>2. (k - 1) + (N - k) = N - 1 /\ \A n \in 1..(N - 1) : n <= k - 1 <=> n < k
    BY <1>1
  <2> QED
    BY <2>1, <2>2
<1> HIDE DEF c
<1>7. ASSUME NEW n \in 1..(N - 1)
      PROVE  c[n] = list[IF n < k THEN n ELSE n + 1]
  <2>1. CASE n < k
    BY <2>1, <1>1, <1>2, <1>6
  <2>2. CASE ~(n < k)
    <3>1. n - (k - 1) \in 1..(N - k) /\ k + (n - (k - 1)) = n + 1
      BY <2>2, <1>1
    <3> QED
      BY <2>2, <3>1, <1>3, <1>6
  <2> QED
    BY <2>1, <2>2
<1> QED
  BY <1>5, <1>6, <1>7 DEF c, N

LEMMA InsertedIs ==
    ASSUME NEW S, NEW list \in Seq(S), NEW x \in S,
           NEW p \in 1..(Len(list) + 1), NEW to, to = InsertAt(list, p, x)
    PROVE  /\ to \in Seq(S)
           /\ Len(to) = Len(list) + 1
           /\ \A n \in 1..(Len(list) + 1) :
                 to[n] = IF n = p THEN x ELSE list[IF n < p THEN n ELSE n - 1]
<1> DEFINE N == Len(list)
           a == SubSeq(list, 1, p - 1)
           b == SubSeq(list, p, N)
<1>1. N \in Nat /\ p \in 1..(N + 1) /\ \A n \in 1..N : list[n] \in S
  BY LenProperties, ElementOfSeq
<1> HIDE DEF N
<1>2. /\ a \in Seq(S) /\ Len(a) = p - 1
      /\ \A n \in 1..(p - 1) : a[n] = list[n]
  <2>1. \A n \in 1..(p - 1) : list[n] \in S
    BY <1>1
  <2>2. 1 \in Int /\ p - 1 \in Int
    BY <1>1
  <2>3. /\ a \in Seq(S) /\ Len(a) = IF 1 <= p - 1 THEN p - 1 - 1 + 1 ELSE 0
        /\ \A n \in 1..(p - 1 - 1 + 1) : a[n] = list[1 + n - 1]
    BY <2>1, <2>2, SubSeqProperties
  <2> QED
    BY <2>3, <1>1
<1>3. /\ b \in Seq(S) /\ Len(b) = N + 1 - p
      /\ \A n \in 1..(N + 1 - p) : b[n] = list[p + n - 1]
  <2>1. \A n \in p..N : list[n] \in S
    BY <1>1
  <2>2. p \in Int /\ N \in Int
    BY <1>1
  <2>3. /\ b \in Seq(S)
        /\ Len(b) = IF p <= N THEN N - p + 1 ELSE 0
        /\ \A n \in 1..(N - p + 1) : b[n] = list[p + n - 1]
    BY <2>1, <2>2, SubSeqProperties
  <2> QED
    BY <2>3, <1>1
<1> HIDE DEF a, b
<1>4. <<x>> \in Seq(S) /\ Len(<<x>>) = 1 /\ <<x>>[1] = x
  OBVIOUS
<1> DEFINE o == <<x>>
           ao == a \o o
           c == ao \o b
<1>5. /\ ao \in Seq(S) /\ Len(ao) = Len(a) + Len(o)
      /\ \A n \in 1..(Len(a) + Len(o)) :
            ao[n] = IF n <= Len(a) THEN a[n] ELSE o[n - Len(a)]
  <2> HIDE DEF o
  <2> QED
    BY <1>2, <1>4, ConcatProperties DEF o
<1> HIDE DEF o
<1>6. /\ ao \in Seq(S) /\ Len(ao) = p
      /\ \A n \in 1..p : ao[n] = IF n = p THEN x ELSE a[n]
  <2> HIDE DEF ao
  <2>1. Len(o) = 1 /\ o[1] = x
    BY <1>4 DEF o
  <2>2. /\ Len(ao) = (p - 1) + 1
        /\ \A n \in 1..((p - 1) + 1) :
              ao[n] = IF n <= p - 1 THEN a[n] ELSE o[n - (p - 1)]
    BY <1>2, <1>5, <2>1
  <2>3. ASSUME NEW n \in 1..p
        PROVE  ao[n] = IF n = p THEN x ELSE a[n]
    <3>1. n = p => n - (p - 1) = 1 /\ ~(n <= p - 1)
      BY <1>1
    <3>2. n # p => n <= p - 1
      BY <1>1
    <3>3. n \in 1..((p - 1) + 1)
      BY <1>1
    <3> QED
      BY <2>1, <2>2, <3>1, <3>2, <3>3
  <2>4. Len(ao) = p
    BY <2>2, <1>1
  <2> QED
    BY <1>5, <2>3, <2>4
<1> HIDE DEF ao
<1>7. /\ c \in Seq(S) /\ Len(c) = Len(ao) + Len(b)
      /\ \A n \in 1..(Len(ao) + Len(b)) :
            c[n] = IF n <= Len(ao) THEN ao[n] ELSE b[n - Len(ao)]
  BY <1>3, <1>6, ConcatProperties
<1>8. InsertAt(list, p, x) = c
  BY DEF InsertAt, a, b, N, ao, o
<1> HIDE DEF c
<1>9. /\ Len(c) = N + 1
      /\ \A n \in 1..(N + 1) : c[n] = IF n <= p THEN ao[n] ELSE b[n - p]
  <2>1. Len(ao) + Len(b) = N + 1
    BY <1>1, <1>3, <1>6
  <2> QED
    BY <1>6, <1>7, <2>1
<1>10. ASSUME NEW n \in 1..(N + 1)
       PROVE  c[n] = IF n = p THEN x ELSE list[IF n < p THEN n ELSE n - 1]
  <2>1. CASE n = p
    BY <2>1, <1>1, <1>6, <1>9
  <2>2. CASE n < p
    BY <2>2, <1>1, <1>2, <1>6, <1>9
  <2>3. CASE n > p
    <3> DEFINE d == n - p
    <3>1. d \in 1..(N + 1 - p) /\ p + d - 1 = n - 1
      BY <2>3, <1>1
    <3>2. c[n] = b[d]
      BY <2>3, <1>1, <1>9
    <3> HIDE DEF d
    <3>3. b[d] = list[n - 1]
      BY <3>1, <1>3
    <3> QED
      BY <2>3, <3>2, <3>3, <1>1
  <2> QED
    BY <2>1, <2>2, <2>3, <1>1
<1> QED
  BY <1>7, <1>8, <1>9, <1>10 DEF N

Apart(list) == \A j, k \in 1..Len(list) : list[j] = list[k] => j = k

\* A move keeps what is listed.
LEMMA MovedIs ==
    ASSUME NEW S, NEW list \in Seq(S), Apart(list),
           NEW k \in 1..Len(list), NEW p \in 1..Len(list)
    PROVE  /\ Moved(list, k, p) \in Seq(S)
           /\ Len(Moved(list, k, p)) = Len(list)
           /\ Apart(Moved(list, k, p))
           /\ \A n \in 1..Len(list) :
                 \E m \in 1..Len(list) : Moved(list, k, p)[n] = list[m]
           /\ \A m \in 1..Len(list) :
                 \E n \in 1..Len(list) : Moved(list, k, p)[n] = list[m]
<1> DEFINE N == Len(list)
           rest == RemoveAt(list, k)
           to == Moved(list, k, p)
           g(n) == IF n = p THEN k
                   ELSE IF n < p THEN IF n < k THEN n ELSE n + 1
                   ELSE IF n - 1 < k THEN n - 1 ELSE n
<1>1. N \in Nat /\ k \in 1..N /\ p \in 1..N /\ list[k] \in S
  BY LenProperties, ElementOfSeq
<1>2. /\ rest \in Seq(S) /\ Len(rest) = N - 1
      /\ \A n \in 1..(N - 1) : rest[n] = list[IF n < k THEN n ELSE n + 1]
  BY RemovedIs
<1>3. to = InsertAt(rest, p, list[k])
  BY DEF Moved
<1> HIDE DEF to, rest, N
<1>4. p \in 1..(Len(rest) + 1) /\ Len(rest) + 1 = N
  BY <1>1, <1>2
<1>5. /\ to \in Seq(S) /\ Len(to) = N
      /\ \A n \in 1..N :
            to[n] = IF n = p THEN list[k] ELSE rest[IF n < p THEN n ELSE n - 1]
  <2> DEFINE x == list[k]
  <2>2. x \in S /\ to = InsertAt(rest, p, x)
    BY <1>1, <1>3
  <2>4. rest \in Seq(S) /\ p \in 1..(Len(rest) + 1)
    BY <1>2, <1>4
  <2> HIDE DEF x, g
  <2>3. /\ to \in Seq(S) /\ Len(to) = Len(rest) + 1
        /\ \A n \in 1..(Len(rest) + 1) :
              to[n] = IF n = p THEN x ELSE rest[IF n < p THEN n ELSE n - 1]
    BY <2>2, <2>4, InsertedIs
  <2>1. /\ to \in Seq(S) /\ Len(to) = Len(rest) + 1
        /\ \A n \in 1..(Len(rest) + 1) :
              to[n] = IF n = p THEN list[k] ELSE rest[IF n < p THEN n ELSE n - 1]
    BY <2>2, <2>3 DEF x
  <2> QED
    BY <2>1, <1>4
<1>6. ASSUME NEW n \in 1..N
      PROVE  g(n) \in 1..N /\ to[n] = list[g(n)]
  <2>1. CASE n = p
    BY <2>1, <1>1, <1>5
  <2>2. CASE n < p
    <3>1. n \in 1..(N - 1) /\ n # p
      BY <2>2, <1>1
    <3>2. to[n] = rest[n] /\ rest[n] = list[IF n < k THEN n ELSE n + 1]
      BY <2>2, <3>1, <1>2, <1>5
    <3>3. g(n) = (IF n < k THEN n ELSE n + 1) /\ g(n) \in 1..N
      BY <2>2, <3>1, <1>1
    <3> QED
      BY <3>2, <3>3
  <2>3. CASE n > p
    <3>1. n - 1 \in 1..(N - 1) /\ n # p /\ ~(n < p) /\ (n - 1) + 1 = n
      BY <2>3, <1>1
    <3> DEFINE m == n - 1
    <3>2. to[n] = rest[m]
      BY <2>3, <3>1, <1>5
    <3>3. m \in 1..(N - 1) /\ m + 1 = n
      BY <3>1
    <3>4. g(n) = (IF m < k THEN m ELSE n) /\ g(n) \in 1..N
      BY <2>3, <3>1, <1>1
    <3> HIDE DEF m, g
    <3>5. rest[m] = list[IF m < k THEN m ELSE n]
      BY <3>3, <1>2
    <3> QED
      BY <3>2, <3>4, <3>5
  <2> QED
    BY <2>1, <2>2, <2>3, <1>1
<1>7. \A m, n \in 1..N : g(m) = g(n) => m = n
  BY <1>1
<1>9. ASSUME NEW m \in 1..N
      PROVE  \E n \in 1..N : g(n) = m
  <2>1. CASE m = k
    BY <2>1, <1>1
  <2>2. CASE m < k /\ m < p
    BY <2>2, <1>1
  <2>3. CASE m < k /\ ~(m < p)
    <3>1. m + 1 \in 1..N /\ g(m + 1) = m
      BY <2>3, <1>1
    <3> QED
      BY <3>1
  <2>4. CASE m > k /\ m - 1 < p
    <3>1. m - 1 \in 1..N /\ g(m - 1) = m
      BY <2>4, <1>1
    <3> QED
      BY <3>1
  <2>5. CASE m > k /\ ~(m - 1 < p)
    <3>1. g(m) = m
      BY <2>5, <1>1
    <3> QED
      BY <3>1
  <2> QED
    BY <2>1, <2>2, <2>3, <2>4, <2>5, <1>1
<1> HIDE DEF g
<1>8. Apart(to)
  <2> SUFFICES ASSUME NEW m \in 1..N, NEW n \in 1..N, to[m] = to[n]
               PROVE  m = n
    BY <1>5 DEF Apart
  <2>1. g(m) \in 1..N /\ g(n) \in 1..N /\ list[g(m)] = list[g(n)]
    BY <1>6
  <2>2. g(m) = g(n)
    BY <2>1 DEF Apart, N
  <2> QED
    BY <2>2, <1>7
<1> QED
  BY <1>5, <1>6, <1>8, <1>9 DEF to, N

\* An exclusion leaves the others.
LEMMA WithoutIs ==
    ASSUME NEW S, NEW list \in Seq(S), Apart(list), NEW i
    PROVE  /\ Without(list, i) \in Seq(S)
           /\ Apart(Without(list, i))
           /\ \A n \in 1..Len(Without(list, i)) :
                 /\ Without(list, i)[n] # i
                 /\ \E m \in 1..Len(list) : Without(list, i)[n] = list[m]
<1> DEFINE N == Len(list)
           places == {k \in DOMAIN list : list[k] # i}
           to == Without(list, i)
<1>1. N \in Nat /\ places \in SUBSET (1..N) /\ \A n \in 1..N : list[n] \in S
  BY LenProperties, ElementOfSeq
<1>2. to = At(list, places)
  BY DEF Without
<1>3. \A k \in places : list[k] # i
  OBVIOUS
<1> HIDE DEF N, places, to
<1> DEFINE M == Len(to)
<1>4. to \in Seq(S) /\ Chosen(to, list, places)
  BY <1>1, <1>2, AtIs DEF N
<1>5. PICK at \in [1..M -> places] :
         /\ \A k \in 1..M : to[k] = list[at[k]]
         /\ \A j, k \in 1..M : j < k => at[j] < at[k]
  BY <1>4 DEF Chosen
<1>6. to \in Seq(S) /\ Len(to) = M /\ M \in Nat
  BY <1>4, LenProperties
<1> HIDE DEF M
<1>7. \A n \in 1..M : at[n] \in places /\ at[n] \in 1..N /\ to[n] = list[at[n]]
  BY <1>1, <1>5
<1>8. ASSUME NEW j \in 1..M, NEW k \in 1..M, to[j] = to[k]
      PROVE  j = k
  <2>1. at[j] = at[k]
    BY <1>7, <1>8 DEF Apart, N
  <2>2. ~(j < k) /\ ~(k < j)
    BY <2>1, <1>1, <1>5, <1>7
  <2> QED
    BY <2>2, <1>6
<1>9. Apart(to)
  BY <1>6, <1>8 DEF Apart
<1>10. \A n \in 1..M : to[n] # i /\ \E m \in 1..Len(list) : to[n] = list[m]
  BY <1>3, <1>7 DEF N
<1> QED
  BY <1>6, <1>9, <1>10 DEF to

\* Every rank is a place, and every place a rank.
Placed(recs, list) ==
    /\ \A k \in 1..Len(list) : recs[list[k]].rank \in 1..Len(list)
    /\ \A n \in 1..Len(list) : \E k \in 1..Len(list) : recs[list[k]].rank = n

RankedList(recs, list, request) ==
    /\ Apart(list)
    /\ \A k \in 1..Len(list) : /\ recs[list[k]] # NULL
                               /\ recs[list[k]].request = request
    /\ Placed(recs, list)

\* The ids are given out in order, and what was excluded is listed nowhere.
MatchInv ==
    /\ MatchingTypeOK
    /\ \A i \in RecId : Known(i) <=> i <= Made
    /\ \A request \in RequestUris :
          RankedList(recommendations, recommendationsByRequest[request], request)
    /\ \A n \in 1..Len(overrides) :
          /\ Known(overrides[n].rec)
          /\ overrides[n].action = "exclude" =>
                \A request \in RequestUris :
                   \A k \in 1..Len(recommendationsByRequest[request]) :
                      recommendationsByRequest[request][k] # overrides[n].rec

LEMMA MatchInvSuffices ==
    MatchInv => RanksArePlaces
<1> SUFFICES ASSUME MatchInv PROVE RanksArePlaces
  OBVIOUS
<1>1. \A request \in RequestUris :
         recommendationsByRequest[request] \in Seq(RecId)
  BY DEF MatchInv, MatchingTypeOK
<1>2. ASSUME NEW request \in RequestUris
      PROVE  LET list == recommendationsByRequest[request]
             IN /\ \A k \in DOMAIN list :
                      /\ Known(list[k])
                      /\ recommendations[list[k]].request = request
                /\ {recommendations[list[k]].rank : k \in DOMAIN list} = 1..Len(list)
  <2> DEFINE list == recommendationsByRequest[request]
  <2>1. list \in Seq(RecId) /\ DOMAIN list = 1..Len(list)
    BY <1>1, LenProperties
  <2>2. RankedList(recommendations, list, request)
    BY DEF MatchInv
  <2> HIDE DEF list
  <2>3. \A k \in DOMAIN list : /\ Known(list[k])
                               /\ recommendations[list[k]].request = request
    BY <2>1, <2>2 DEF RankedList, Known
  <2>4. {recommendations[list[k]].rank : k \in DOMAIN list} = 1..Len(list)
    <3> DEFINE rank(k) == recommendations[list[k]].rank
    <3>1. /\ \A k \in DOMAIN list : rank(k) \in 1..Len(list)
          /\ \A n \in 1..Len(list) : \E k \in DOMAIN list : rank(k) = n
      BY <2>1, <2>2 DEF RankedList, Placed
    <3> HIDE DEF rank
    <3>2. {rank(k) : k \in DOMAIN list} = 1..Len(list)
      BY <3>1
    <3> QED
      BY <3>2 DEF rank
  <2> QED
    BY <2>3, <2>4 DEF list
<1>3. ASSUME NEW n \in DOMAIN overrides, overrides[n].action = "exclude",
             NEW request \in RequestUris
      PROVE  overrides[n].rec \notin ToSet(recommendationsByRequest[request])
  <2>1. n \in 1..Len(overrides)
    BY LenProperties DEF MatchInv, MatchingTypeOK
  <2>2. DOMAIN recommendationsByRequest[request] = 1..Len(recommendationsByRequest[request])
    BY <1>1, LenProperties
  <2> QED
    BY <2>1, <2>2, <1>3 DEF ToSet, MatchInv
<1> QED
  BY <1>2, <1>3 DEF RanksArePlaces

LEMMA RankedIs ==
    ASSUME MatchingConstants, NEW qualified \in SUBSET Candidates,
           NEW scored \in [qualified -> Scores]
    PROVE  Ranked(scored) \in Seq(Candidates)
<1> DEFINE S == DOMAIN scored
           better == {p \in S \X S :
                         \/ scored[p[1]] > scored[p[2]]
                         \/ scored[p[1]] = scored[p[2]] /\ p[1] < p[2]}
           sorted == Listed(S, better)
           N == Cardinality(S)
           shown == IF Len(sorted) < MaxResults THEN Len(sorted) ELSE MaxResults
<1>1. /\ S = qualified /\ S \subseteq Nat /\ S \subseteq Candidates
      /\ \A c \in S : scored[c] \in Nat
      /\ MaxResults \in Nat
  BY DEF MatchingConstants
<1>2. IsFiniteSet(S)
  BY <1>1, FS_Subset DEF MatchingConstants
<1>3. \A x, y : <<x, y>> \in better <=>
         /\ x \in S /\ y \in S
         /\ scored[x] > scored[y] \/ (scored[x] = scored[y] /\ x < y)
  OBVIOUS
<1>6. Ranked(scored) = SubSeq(sorted, 1, shown)
  BY DEF Ranked
<1> HIDE DEF better, S
<1>4. StrictOrder(S, better)
  <2>1. \A x \in S : <<x, x>> \notin better
    BY <1>1, <1>3
  <2>2. \A x, y, z \in S :
           <<x, y>> \in better /\ <<y, z>> \in better => <<x, z>> \in better
    BY <1>1, <1>3
  <2>3. \A x, y \in S : x # y => <<x, y>> \in better \/ <<y, x>> \in better
    BY <1>1, <1>3
  <2> QED
    BY <2>1, <2>2, <2>3 DEF StrictOrder
<1>5. N \in Nat /\ sorted \in [1..N -> S]
  BY <1>2, <1>4, ListedIs
<1> HIDE DEF sorted, N
<1>10. Len(sorted) = N
  BY <1>5
<1>7. shown \in Int /\ shown <= N
  BY <1>1, <1>5, <1>10
<1> HIDE DEF shown
<1>8. ASSUME NEW k \in 1..shown
      PROVE  sorted[k] \in Candidates
  <2>1. k \in 1..N
    BY <1>5, <1>7
  <2>2. sorted[k] \in S
    BY <2>1, <1>5
  <2> QED
    BY <2>2, <1>1
<1>9. SubSeq(sorted, 1, shown) \in Seq(Candidates)
  <2>1. 1 \in Int
    OBVIOUS
  <2> QED
    BY <2>1, <1>7, <1>8, SubSeqProperties
<1> QED
  BY <1>6, <1>9

\* The number of the ids given out.
LEMMA MadeIs ==
    ASSUME MatchingConstants, NEW recs, NEW n \in 0..MaxRecs,
           \A i \in RecId : recs[i] # NULL <=> i <= n
    PROVE  Cardinality({i \in RecId : recs[i] # NULL}) = n
<1>1. MaxRecs \in Nat
  BY DEF MatchingConstants
<1>2. {i \in RecId : recs[i] # NULL} = 1..n
  BY <1>1 DEF RecId
<1>3. 1 \in Int /\ n \in Int
  BY <1>1
<1>4. Cardinality(1..n) = IF 1 > n THEN 0 ELSE n - 1 + 1
  BY <1>3, FS_Interval
<1>5. Cardinality(1..n) = n
  BY <1>1, <1>4
<1> QED
  BY <1>2, <1>5

LEMMA GenerateStep ==
    ASSUME MatchingConstants, MatchInv, NEW request \in RequestUris,
           NEW qualified \in SUBSET Candidates, NEW scored \in [qualified -> Scores],
           generateRecommendations(request, scored)
    PROVE  MatchInv'
<1> DEFINE ranked == Ranked(scored)
           N == Len(ranked)
           M == Made
           ids == [k \in DOMAIN ranked |-> M + k]
           new(i) == [candidate |-> ranked[i - M], request |-> request, rank |-> i - M]
<1>1. /\ M + N <= MaxRecs
      /\ recommendations' = [i \in RecId |->
            IF i - M \in DOMAIN ranked THEN new(i) ELSE recommendations[i]]
      /\ recommendationsByRequest' =
            [recommendationsByRequest EXCEPT ![request] = ids]
      /\ overrides' = overrides /\ feedback' = feedback
  BY DEF generateRecommendations
<1>2. /\ ranked \in Seq(Candidates) /\ N \in Nat /\ DOMAIN ranked = 1..N
      /\ \A k \in 1..N : ranked[k] \in Candidates
  BY RankedIs, LenProperties, ElementOfSeq
<1>3. MaxRecs \in Nat /\ NULL \notin Recommendation
  BY DEF MatchingConstants
<1>4. M \in Nat
  <2>1. 1 \in Int /\ MaxRecs \in Int
    BY <1>3
  <2>2. IsFiniteSet(RecId)
    BY <2>1, FS_Interval DEF RecId
  <2>3. {i \in RecId : Known(i)} \in SUBSET RecId
    OBVIOUS
  <2> QED
    BY <2>2, <2>3, FS_Subset, FS_CardinalityType DEF Made
<1>5. /\ recommendations \in [RecId -> Recommendation \union {NULL}]
      /\ recommendationsByRequest \in [RequestUris -> Seq(RecId)]
      /\ \A i \in RecId : Known(i) <=> i <= M
  BY DEF MatchInv, MatchingTypeOK
<1> HIDE DEF M, ranked, N
<1>6. ASSUME NEW i \in RecId, i - M \in 1..N
      PROVE  new(i) \in Recommendation /\ new(i) # NULL
  <2>1. i - M \in Nat \ {0}
    BY <1>6, <1>2
  <2>2. ranked[i - M] \in Candidates
    BY <1>6, <1>2
  <2> QED
    BY <2>1, <2>2, <1>3 DEF Recommendation
<1>7. ASSUME NEW k \in 1..N
      PROVE  /\ M + k \in RecId /\ ids[k] = M + k
             /\ recommendations'[M + k] # NULL
             /\ recommendations'[M + k].request = request
             /\ recommendations'[M + k].rank = k
  <2> DEFINE i == M + k
  <2>1. i \in RecId /\ i - M = k /\ ids[k] = i
    BY <1>1, <1>2, <1>3, <1>4 DEF RecId
  <2> HIDE DEF i
  <2>2. recommendations'[i] = new(i)
    <3> HIDE DEF new
    <3> QED
      BY <2>1, <1>1, <1>2
  <2>3. new(i) # NULL
    BY <2>1, <1>6
  <2>4. new(i).request = request /\ new(i).rank = i - M
    OBVIOUS
  <2> HIDE DEF new
  <2> QED
    BY <2>1, <2>2, <2>3, <2>4 DEF i
<1>8. ASSUME NEW i \in RecId, recommendations[i] # NULL
      PROVE  recommendations'[i] = recommendations[i]
  <2>1. i <= M /\ i \in Nat
    BY <1>3, <1>5, <1>8 DEF Known, RecId
  <2>2. i - M \notin 1..N
    BY <2>1, <1>4
  <2> QED
    BY <2>2, <1>1, <1>2
<1>9. recommendations' \in [RecId -> Recommendation \union {NULL}]
  <2>1. ASSUME NEW i \in RecId
        PROVE  (IF i - M \in DOMAIN ranked THEN new(i) ELSE recommendations[i])
                  \in Recommendation \union {NULL}
    BY <1>2, <1>5, <1>6
  <2> HIDE DEF new
  <2> QED
    BY <2>1, <1>1
<1>10. ids \in Seq(RecId) /\ Len(ids) = N /\ DOMAIN ids = 1..N
  BY <1>2, <1>7
<1>11. /\ recommendationsByRequest' \in [RequestUris -> Seq(RecId)]
       /\ recommendationsByRequest'[request] = ids
       /\ \A r \in RequestUris : r # request =>
             recommendationsByRequest'[r] = recommendationsByRequest[r]
  <2> HIDE DEF ids
  <2> QED
    BY <1>1, <1>5, <1>10
<1>12. MatchingTypeOK'
  BY <1>1, <1>9, <1>11 DEF MatchInv, MatchingTypeOK
<1>13. M + N \in 0..MaxRecs
  BY <1>1, <1>2, <1>4
<1>14. \A i \in RecId : recommendations'[i] # NULL <=> i <= M + N
  <2> SUFFICES ASSUME NEW i \in RecId
               PROVE  recommendations'[i] # NULL <=> i <= M + N
    OBVIOUS
  <2>0. i \in Int /\ i >= 1
    BY <1>3 DEF RecId
  <2>1. CASE i - M \in 1..N
    <3>1. recommendations'[i] # NULL
      BY <2>1, <1>1, <1>2, <1>6
    <3> QED
      BY <3>1, <2>0, <2>1, <1>2, <1>4
  <2>2. CASE i - M \notin 1..N
    <3>1. recommendations'[i] = recommendations[i]
      BY <2>2, <1>1, <1>2
    <3>2. recommendations[i] # NULL <=> i <= M
      BY <1>5 DEF Known
    <3>3. i <= M <=> i <= M + N
      BY <2>0, <2>2, <1>2, <1>4
    <3> QED
      BY <3>1, <3>2, <3>3
  <2> QED
    BY <2>1, <2>2
<1>15. \A i \in RecId : Known(i)' <=> i <= Made'
  <2>1. Cardinality({i \in RecId : recommendations'[i] # NULL}) = M + N
    BY <1>13, <1>14, MadeIs
  <2>2. Made' = M + N
    BY <2>1 DEF Made, Known
  <2> QED
    BY <2>2, <1>14 DEF Known
<1>16. ASSUME NEW r \in RequestUris
       PROVE  RankedList(recommendations', recommendationsByRequest'[r], r)
  <2>1. CASE r = request
    <3> HIDE DEF ids
    <3>1. Apart(ids)
      BY <1>2, <1>4, <1>7, <1>10 DEF Apart
    <3>2. \A k \in 1..N : recommendations'[ids[k]].rank = k
      BY <1>7
    <3>3. Placed(recommendations', ids)
      BY <1>10, <3>2 DEF Placed
    <3> QED
      BY <2>1, <3>1, <3>3, <1>7, <1>10, <1>11 DEF RankedList
  <2>2. CASE r # request
    <3> DEFINE list == recommendationsByRequest[r]
    <3>1. RankedList(recommendations, list, r) /\ list \in Seq(RecId)
      BY <1>5 DEF MatchInv
    <3> HIDE DEF list
    <3>2. \A k \in 1..Len(list) : recommendations'[list[k]] = recommendations[list[k]]
      BY <3>1, <1>8, ElementOfSeq DEF RankedList
    <3>3. RankedList(recommendations', list, r)
      BY <3>1, <3>2 DEF RankedList, Placed
    <3> QED
      BY <3>3, <2>2, <1>11 DEF list
  <2> QED
    BY <2>1, <2>2
<1>17. ASSUME NEW n \in 1..Len(overrides)
       PROVE  /\ Known(overrides[n].rec)'
              /\ overrides[n].action = "exclude" =>
                    \A r \in RequestUris :
                       \A k \in 1..Len(recommendationsByRequest'[r]) :
                          recommendationsByRequest'[r][k] # overrides[n].rec
  <2>1. overrides[n].rec \in RecId /\ Known(overrides[n].rec)
    <3>1. overrides[n] \in Override
      BY ElementOfSeq DEF MatchInv, MatchingTypeOK
    <3> QED
      BY <3>1 DEF MatchInv, Override
  <2>2. Known(overrides[n].rec)'
    BY <2>1, <1>1, <1>8 DEF Known
  <2>3. overrides[n].rec <= M /\ overrides[n].rec \in Int
    BY <2>1, <1>3, <1>5 DEF RecId
  <2>4. ASSUME overrides[n].action = "exclude", NEW r \in RequestUris,
               NEW k \in 1..Len(recommendationsByRequest'[r])
        PROVE  recommendationsByRequest'[r][k] # overrides[n].rec
    <3>1. CASE r = request
      <4>1. k \in 1..N /\ recommendationsByRequest'[r] = ids
        BY <3>1, <1>10, <1>11
      <4>2. recommendationsByRequest'[r][k] = M + k
        BY <4>1, <1>7
      <4> QED
        BY <4>1, <4>2, <2>3, <1>2, <1>4
    <3>2. CASE r # request
      BY <3>2, <2>4, <1>11 DEF MatchInv
    <3> QED
      BY <3>1, <3>2
  <2> QED
    BY <2>2, <2>4
<1>18. \A r \in RequestUris :
          RankedList(recommendations', recommendationsByRequest'[r], r)
  BY <1>16
<1>19. \A n \in 1..Len(overrides') :
          /\ recommendations'[overrides'[n].rec] # NULL
          /\ overrides'[n].action = "exclude" =>
                \A r \in RequestUris :
                   \A k \in 1..Len(recommendationsByRequest'[r]) :
                      recommendationsByRequest'[r][k] # overrides'[n].rec
  BY <1>1, <1>17 DEF Known
<1> QED
  BY <1>12, <1>15, <1>18, <1>19 DEF MatchInv, Known

\* What an override lists is what was listed, but for what it excludes.
LEMMA OverriddenIs ==
    ASSUME NEW S, NEW list \in Seq(S), Apart(list), NEW i,
           NEW action \in OverrideAction,
           NEW order, order = applyOperatorOverride(list, i, action)
    PROVE  /\ order \in Seq(S) /\ Apart(order)
           /\ \A n \in 1..Len(order) : \E m \in 1..Len(list) : order[n] = list[m]
           /\ action = "exclude" =>
                 order = Without(list, i) /\ \A n \in 1..Len(order) : order[n] # i
           /\ action # "exclude" =>
                 /\ Len(order) = Len(list)
                 /\ \A m \in 1..Len(list) : \E n \in 1..Len(order) : order[n] = list[m]
<1> DEFINE N == Len(list)
<1>1. N \in Nat /\ DOMAIN list = 1..N
  BY LenProperties
<1>2. CASE action = "exclude"
  <2>1. order = Without(list, i)
    BY <1>2 DEF applyOperatorOverride
  <2> QED
    BY <1>2, <2>1, WithoutIs
<1>3. CASE action # "exclude" /\ i \notin ToSet(list)
  <2>1. order = list
    BY <1>3 DEF applyOperatorOverride
  <2> QED
    BY <1>3, <2>1
<1>4. CASE action # "exclude" /\ i \in ToSet(list)
  <2> DEFINE k == CHOOSE k \in DOMAIN list : list[k] = i
             jump == Half(N - 1)
             up == IF k - jump < 1 THEN 1 ELSE k - jump
             down == IF k + jump > N THEN N ELSE k + jump
  <2>1. k \in 1..N
    BY <1>1, <1>4 DEF ToSet
  <2>2. \/ order = Moved(list, k, 1)
        \/ order = Moved(list, k, up)
        \/ order = Moved(list, k, down)
    BY <1>4 DEF applyOperatorOverride, OverrideAction
  <2>3. jump \in Nat
    BY <1>1, <2>1 DEF Half
  <2> HIDE DEF k, jump, N
  <2>4. 1 \in 1..N /\ up \in 1..N /\ down \in 1..N
    BY <1>1, <2>1, <2>3
  <2> HIDE DEF up, down
  <2>5. PICK p \in 1..N : order = Moved(list, k, p)
    BY <2>2, <2>4
  <2> QED
    <3>1. /\ Moved(list, k, p) \in Seq(S) /\ Len(Moved(list, k, p)) = Len(list)
          /\ Apart(Moved(list, k, p))
          /\ \A n \in 1..Len(list) :
                \E m \in 1..Len(list) : Moved(list, k, p)[n] = list[m]
          /\ \A m \in 1..Len(list) :
                \E n \in 1..Len(list) : Moved(list, k, p)[n] = list[m]
      BY <2>1, MovedIs DEF N
    <3> QED
      BY <1>4, <2>5, <3>1
<1> QED
  BY <1>2, <1>3, <1>4

\* New ranks for the listed, and nothing else.
LEMMA RerankedIs ==
    ASSUME MatchingConstants,
           NEW recs \in [RecId -> Recommendation \union {NULL}],
           NEW order \in Seq(RecId), Apart(order),
           \A k \in 1..Len(order) : recs[order[k]] # NULL,
           NEW to, to = reranked(recs, order)
    PROVE  /\ to \in [RecId -> Recommendation \union {NULL}]
           /\ \A j \in RecId : recs[j] = NULL => to[j] = NULL
           /\ \A j \in RecId : recs[j] # NULL =>
                 to[j] # NULL /\ to[j].request = recs[j].request
           /\ \A j \in RecId : (\A k \in 1..Len(order) : order[k] # j) => to[j] = recs[j]
           /\ \A k \in 1..Len(order) : to[order[k]].rank = k
<1> DEFINE place(j) == CHOOSE k \in DOMAIN order : order[k] = j
           listed(j) == \E k \in DOMAIN order : order[k] = j
           x(j) == [recs[j] EXCEPT !.rank = place(j)]
<1>1. DOMAIN order = 1..Len(order) /\ Len(order) \in Nat
  BY LenProperties
<1>2. \A j : listed(j) => place(j) \in 1..Len(order) /\ order[place(j)] = j
  BY <1>1
<1>3. \A k \in 1..Len(order) : order[k] \in RecId /\ listed(order[k])
  BY <1>1, ElementOfSeq
<1>4. \A k \in 1..Len(order) : place(order[k]) = k
  <2> HIDE DEF place, listed
  <2> QED
    BY <1>2, <1>3 DEF Apart
<1>5. \A j \in RecId : /\ listed(j) => to[j] = x(j)
                       /\ ~listed(j) => to[j] = recs[j]
  BY DEF reranked
<1>6. to = [j \in RecId |-> to[j]]
  BY DEF reranked
<1>7. \A j \in RecId : listed(j) => recs[j] \in Recommendation
  BY <1>1
<1>8. ASSUME NEW j \in RecId, listed(j)
      PROVE  /\ x(j) \in Recommendation /\ x(j) # NULL
             /\ x(j).request = recs[j].request /\ x(j).rank = place(j)
  <2>1. recs[j] \in Recommendation /\ place(j) \in Nat \ {0}
    BY <1>1, <1>2, <1>7, <1>8
  <2> HIDE DEF place, listed
  <2>2. /\ x(j) \in Recommendation
        /\ x(j).request = recs[j].request /\ x(j).rank = place(j)
    BY <2>1 DEF Recommendation
  <2> QED
    BY <2>2 DEF MatchingConstants
<1>9. \A j \in RecId : (\A k \in 1..Len(order) : order[k] # j) => ~listed(j)
  BY <1>1
<1>10. \A j \in RecId : recs[j] = NULL => ~listed(j)
  BY <1>1
<1> HIDE DEF place, listed, x
<1>11. to \in [RecId -> Recommendation \union {NULL}]
  <2>1. \A j \in RecId : to[j] \in Recommendation \union {NULL}
    <3> SUFFICES ASSUME NEW j \in RecId
                 PROVE  to[j] \in Recommendation \union {NULL}
      OBVIOUS
    <3>1. CASE listed(j)
      BY <3>1, <1>5, <1>8
    <3>2. CASE ~listed(j)
      BY <3>2, <1>5
    <3> QED
      BY <3>1, <3>2
  <2> QED
    BY <1>6, <2>1
<1>12. \A j \in RecId : recs[j] # NULL =>
          to[j] # NULL /\ to[j].request = recs[j].request
  <2> SUFFICES ASSUME NEW j \in RecId, recs[j] # NULL
               PROVE  to[j] # NULL /\ to[j].request = recs[j].request
    OBVIOUS
  <2>1. CASE listed(j)
    BY <2>1, <1>5, <1>8
  <2>2. CASE ~listed(j)
    BY <2>2, <1>5
  <2> QED
    BY <2>1, <2>2
<1>13. \A k \in 1..Len(order) : to[order[k]].rank = k
  BY <1>3, <1>4, <1>5, <1>8
<1>14. /\ \A j \in RecId : recs[j] = NULL => to[j] = NULL
       /\ \A j \in RecId : (\A k \in 1..Len(order) : order[k] # j) => to[j] = recs[j]
  BY <1>5, <1>9, <1>10
<1> QED
  BY <1>11, <1>12, <1>13, <1>14

LEMMA OverrideStep ==
    ASSUME MatchingConstants, MatchInv, NEW i \in RecId,
           NEW action \in OverrideAction, applyOverride(i, action)
    PROVE  MatchInv'
<1> DEFINE request == recommendations[i].request
           list == recommendationsByRequest[request]
           order == applyOperatorOverride(list, i, action)
           reranks == Reranks(list, i, action)
           entry == [rec |-> i, action |-> action]
<1>1. /\ Known(i)
      /\ overrides' = Append(overrides, entry)
      /\ ~reranks => recommendations' = recommendations
      /\ reranks => recommendations' = reranked(recommendations, order)
      /\ recommendationsByRequest' =
            IF action = "exclude"
            THEN [recommendationsByRequest EXCEPT ![request] = Without(list, i)]
            ELSE recommendationsByRequest
      /\ feedback' = feedback
  BY DEF applyOverride
<1>2. /\ recommendations \in [RecId -> Recommendation \union {NULL}]
      /\ recommendationsByRequest \in [RequestUris -> Seq(RecId)]
      /\ overrides \in Seq(Override)
      /\ \A j \in RecId : Known(j) <=> j <= Made
      /\ \A r \in RequestUris : RankedList(recommendations, recommendationsByRequest[r], r)
  BY DEF MatchInv, MatchingTypeOK
<1>3. request \in RequestUris
  BY <1>1, <1>2 DEF Known, Recommendation
<1>4. /\ list \in Seq(RecId) /\ RankedList(recommendations, list, request)
      /\ Apart(list)
  BY <1>2, <1>3 DEF RankedList
<1>5. entry \in Override /\ entry.rec = i /\ entry.action = action
  BY DEF Override
<1>6. action = "exclude" => reranks
  BY DEF Reranks
<1> HIDE DEF request, list, order, reranks, entry
<1>7. /\ order \in Seq(RecId) /\ Apart(order)
      /\ \A n \in 1..Len(order) : \E m \in 1..Len(list) : order[n] = list[m]
      /\ action = "exclude" =>
            order = Without(list, i) /\ \A n \in 1..Len(order) : order[n] # i
      /\ action # "exclude" =>
            /\ Len(order) = Len(list)
            /\ \A m \in 1..Len(list) : \E n \in 1..Len(order) : order[n] = list[m]
  BY <1>4, OverriddenIs DEF order
<1>8. \A k \in 1..Len(order) : /\ recommendations[order[k]] # NULL
                               /\ recommendations[order[k]].request = request
  <2>1. \A m \in 1..Len(list) : /\ recommendations[list[m]] # NULL
                                /\ recommendations[list[m]].request = request
    BY <1>4 DEF RankedList
  <2>2. \A k \in 1..Len(order) : \E m \in 1..Len(list) : order[k] = list[m]
    BY <1>7
  <2> QED
    BY <2>1, <2>2
<1>9. /\ recommendations' \in [RecId -> Recommendation \union {NULL}]
      /\ \A j \in RecId : recommendations[j] = NULL <=> recommendations'[j] = NULL
      /\ \A j \in RecId : recommendations[j] # NULL =>
            recommendations'[j].request = recommendations[j].request
      /\ \A j \in RecId : (\A k \in 1..Len(order) : order[k] # j) =>
            recommendations'[j] = recommendations[j]
      /\ reranks => \A k \in 1..Len(order) : recommendations'[order[k]].rank = k
  <2>1. CASE ~reranks
    BY <2>1, <1>1, <1>2
  <2>2. CASE reranks
    <3>1. \A k \in 1..Len(order) : recommendations[order[k]] # NULL
      BY <1>8
    <3>2. recommendations' = reranked(recommendations, order)
      BY <2>2, <1>1
    <3>3. /\ recommendations \in [RecId -> Recommendation \union {NULL}]
          /\ order \in Seq(RecId) /\ Apart(order)
      BY <1>2, <1>7
    <3>4. /\ recommendations' \in [RecId -> Recommendation \union {NULL}]
          /\ \A j \in RecId : recommendations[j] = NULL => recommendations'[j] = NULL
          /\ \A j \in RecId : recommendations[j] # NULL =>
                /\ recommendations'[j] # NULL
                /\ recommendations'[j].request = recommendations[j].request
          /\ \A j \in RecId : (\A k \in 1..Len(order) : order[k] # j) =>
                recommendations'[j] = recommendations[j]
          /\ \A k \in 1..Len(order) : recommendations'[order[k]].rank = k
      BY <3>1, <3>2, <3>3, RerankedIs
    <3> QED
      BY <3>4
  <2> QED
    BY <2>1, <2>2
<1>10. /\ recommendationsByRequest' \in [RequestUris -> Seq(RecId)]
       /\ \A r \in RequestUris : r # request =>
             recommendationsByRequest'[r] = recommendationsByRequest[r]
       /\ recommendationsByRequest'[request] =
             IF action = "exclude" THEN order ELSE list
  <2>1. CASE action = "exclude"
    BY <2>1, <1>1, <1>2, <1>3, <1>7
  <2>2. CASE action # "exclude"
    BY <2>2, <1>1, <1>2 DEF list
  <2> QED
    BY <2>1, <2>2
<1>11. /\ overrides' \in Seq(Override) /\ Len(overrides') = Len(overrides) + 1
       /\ \A n \in 1..Len(overrides) : overrides'[n] = overrides[n]
       /\ overrides'[Len(overrides) + 1] = entry
       /\ Len(overrides) \in Nat
  BY <1>1, <1>2, <1>5, AppendProperties, LenProperties
<1>12. MatchingTypeOK'
  BY <1>1, <1>9, <1>10, <1>11 DEF MatchInv, MatchingTypeOK
<1>13. \A j \in RecId : Known(j)' <=> j <= Made'
  <2>1. {j \in RecId : recommendations[j] # NULL}
           = {j \in RecId : recommendations'[j] # NULL}
    BY <1>9
  <2>2. Made' = Made
    BY <2>1 DEF Made, Known
  <2> QED
    BY <2>2, <1>2, <1>9 DEF Known
<1>14. ASSUME NEW r \in RequestUris
       PROVE  RankedList(recommendations', recommendationsByRequest'[r], r)
  <2>1. CASE r # request
    <3> DEFINE other == recommendationsByRequest[r]
    <3>1. RankedList(recommendations, other, r) /\ other \in Seq(RecId)
      BY <1>2
    <3> HIDE DEF other
    <3>2. ASSUME NEW k \in 1..Len(other)
          PROVE  recommendations'[other[k]] = recommendations[other[k]]
      <4>1. other[k] \in RecId /\ recommendations[other[k]].request = r
        BY <3>1, ElementOfSeq DEF RankedList
      <4> QED
        BY <4>1, <2>1, <1>8, <1>9
    <3>3. RankedList(recommendations', other, r)
      BY <3>1, <3>2 DEF RankedList, Placed
    <3> QED
      BY <3>3, <2>1, <1>10 DEF other
  <2>2. CASE r = request /\ action = "exclude"
    <3>1. \A k \in 1..Len(order) : order[k] \in RecId
      BY <1>7, ElementOfSeq
    <3>2. /\ \A k \in 1..Len(order) : recommendations'[order[k]].rank = k
          /\ \A k \in 1..Len(order) : /\ recommendations'[order[k]] # NULL
                                      /\ recommendations'[order[k]].request = request
      BY <3>1, <2>2, <1>6, <1>8, <1>9
    <3>3. RankedList(recommendations', order, request)
      BY <3>2, <1>7 DEF RankedList, Placed
    <3> QED
      BY <3>3, <2>2, <1>10
  <2>3. CASE r = request /\ action # "exclude" /\ ~reranks
    <3>1. recommendations' = recommendations /\ recommendationsByRequest'[r] = list
      BY <2>3, <1>1, <1>10
    <3> QED
      BY <3>1, <2>3, <1>4
  <2>4. CASE r = request /\ action # "exclude" /\ reranks
    <3>1. \A k \in 1..Len(list) : list[k] \in RecId
      BY <1>4, ElementOfSeq
    <3>2. \A k \in 1..Len(list) : /\ recommendations'[list[k]] # NULL
                                  /\ recommendations'[list[k]].request = request
      BY <3>1, <1>4, <1>9 DEF RankedList
    <3>3. \A n \in 1..Len(list) : recommendations'[order[n]].rank = n
      BY <2>4, <1>7, <1>9
    <3>4. /\ \A m \in 1..Len(list) : \E n \in 1..Len(list) : order[n] = list[m]
          /\ \A n \in 1..Len(list) : \E m \in 1..Len(list) : order[n] = list[m]
      BY <2>4, <1>7
    <3>5. Placed(recommendations', list)
      <4>1. ASSUME NEW m \in 1..Len(list)
            PROVE  recommendations'[list[m]].rank \in 1..Len(list)
        <5>1. PICK n \in 1..Len(list) : order[n] = list[m]
          BY <3>4
        <5> QED
          BY <5>1, <3>3
      <4>2. ASSUME NEW n \in 1..Len(list)
            PROVE  \E m \in 1..Len(list) : recommendations'[list[m]].rank = n
        <5>1. PICK m \in 1..Len(list) : order[n] = list[m]
          BY <3>4
        <5>2. recommendations'[list[m]].rank = n
          BY <5>1, <3>3
        <5> QED
          BY <5>2
      <4> QED
        BY <4>1, <4>2 DEF Placed
    <3>6. RankedList(recommendations', list, request)
      BY <3>2, <3>5, <1>4 DEF RankedList
    <3> QED
      BY <3>6, <2>4, <1>10
  <2> QED
    BY <2>1, <2>2, <2>3, <2>4
\* The lists have lost at most what is excluded.
<1>15. ASSUME NEW r \in RequestUris, NEW k \in 1..Len(recommendationsByRequest'[r])
       PROVE  \E m \in 1..Len(recommendationsByRequest[r]) :
                 recommendationsByRequest'[r][k] = recommendationsByRequest[r][m]
  <2>1. CASE r = request /\ action = "exclude"
    BY <2>1, <1>7, <1>10, <1>15 DEF list
  <2>2. CASE ~(r = request /\ action = "exclude")
    <3>1. recommendationsByRequest'[r] = recommendationsByRequest[r]
      BY <2>2, <1>10 DEF list
    <3> QED
      BY <3>1, <1>15
  <2> QED
    BY <2>1, <2>2
<1>16. ASSUME action = "exclude", NEW r \in RequestUris,
              NEW k \in 1..Len(recommendationsByRequest'[r])
       PROVE  recommendationsByRequest'[r][k] # i
  <2>1. CASE r = request
    BY <2>1, <1>7, <1>10, <1>16
  <2>2. CASE r # request
    <3> DEFINE other == recommendationsByRequest[r]
    <3>1. /\ RankedList(recommendations, other, r) /\ k \in 1..Len(other)
          /\ recommendationsByRequest'[r] = other
      BY <2>2, <1>2, <1>10, <1>16
    <3>2. recommendations[other[k]].request = r
      BY <3>1 DEF RankedList
    <3> QED
      BY <3>1, <3>2, <2>2 DEF request
  <2> QED
    BY <2>1, <2>2
<1>17. ASSUME NEW n \in 1..Len(overrides')
       PROVE  /\ recommendations'[overrides'[n].rec] # NULL
              /\ overrides'[n].action = "exclude" =>
                    \A r \in RequestUris :
                       \A k \in 1..Len(recommendationsByRequest'[r]) :
                          recommendationsByRequest'[r][k] # overrides'[n].rec
  <2>1. CASE n = Len(overrides) + 1
    <3>1. overrides'[n] = entry
      BY <2>1, <1>11
    <3>2. recommendations'[i] # NULL
      BY <1>1, <1>9 DEF Known
    <3> QED
      BY <3>1, <3>2, <1>5, <1>16
  <2>2. CASE n \in 1..Len(overrides)
    <3>1. overrides'[n] = overrides[n] /\ overrides[n] \in Override
      BY <2>2, <1>2, <1>11, ElementOfSeq
    <3>2. overrides[n].rec \in RecId
      BY <3>1 DEF Override
    <3>3. /\ Known(overrides[n].rec)
          /\ overrides[n].action = "exclude" =>
                \A r \in RequestUris :
                   \A k \in 1..Len(recommendationsByRequest[r]) :
                      recommendationsByRequest[r][k] # overrides[n].rec
      BY <2>2 DEF MatchInv
    <3>4. recommendations'[overrides[n].rec] # NULL
      BY <3>2, <3>3, <1>9 DEF Known
    <3>5. overrides[n].action = "exclude" =>
             \A r \in RequestUris :
                \A k \in 1..Len(recommendationsByRequest'[r]) :
                   recommendationsByRequest'[r][k] # overrides[n].rec
      BY <3>3, <1>15
    <3> QED
      BY <3>1, <3>4, <3>5
  <2>3. n = Len(overrides) + 1 \/ n \in 1..Len(overrides)
    BY <1>11
  <2> QED
    BY <2>1, <2>2, <2>3
<1> QED
  BY <1>12, <1>13, <1>14, <1>17 DEF MatchInv, Known

LEMMA MatchingInvariant ==
    ASSUME MatchingConstants
    PROVE  MatchingSpec => []MatchInv
<1>1. MatchingInit => MatchInv
  <2> SUFFICES ASSUME MatchingInit PROVE MatchInv
    OBVIOUS
  <2>1. /\ recommendations = [i \in RecId |-> NULL]
        /\ recommendationsByRequest = [r \in RequestUris |-> <<>>]
        /\ overrides = <<>> /\ feedback = <<>>
    BY DEF MatchingInit
  <2>2. MatchingTypeOK
    BY <2>1 DEF MatchingTypeOK
  <2>3. MaxRecs \in Nat /\ 0 \in 0..MaxRecs
    BY DEF MatchingConstants
  <2>4. \A i \in RecId : ~Known(i) /\ ~(i <= 0)
    BY <2>1, <2>3 DEF Known, RecId
  <2>5. \A i \in RecId : recommendations[i] # NULL <=> i <= 0
    BY <2>4 DEF Known
  <2>6. Made = 0
    BY <2>3, <2>5, MadeIs DEF Made, Known
  <2>7. \A r \in RequestUris : RankedList(recommendations, recommendationsByRequest[r], r)
    BY <2>1 DEF RankedList, Apart, Placed
  <2> QED
    BY <2>1, <2>2, <2>4, <2>6, <2>7 DEF MatchInv
<1>2. MatchInv /\ [MatchingNext]_matchingVars => MatchInv'
  <2> SUFFICES ASSUME MatchInv, [MatchingNext]_matchingVars PROVE MatchInv'
    OBVIOUS
  <2>1. ASSUME NEW request \in RequestUris, NEW qualified \in SUBSET Candidates,
               NEW scored \in [qualified -> Scores],
               generateRecommendations(request, scored)
        PROVE  MatchInv'
    BY <2>1, GenerateStep
  <2>2. ASSUME NEW i \in RecId, NEW action \in OverrideAction, applyOverride(i, action)
        PROVE  MatchInv'
    BY <2>2, OverrideStep
  <2>3. ASSUME NEW i \in RecId, NEW outcome \in FeedbackOutcome,
               submitFeedback(i, outcome)
        PROVE  MatchInv'
    <3>1. /\ feedback' = Append(feedback, [rec |-> i, outcome |-> outcome])
          /\ UNCHANGED <<recommendations, recommendationsByRequest, overrides>>
      BY <2>3 DEF submitFeedback
    <3>2. [rec |-> i, outcome |-> outcome] \in [rec : RecId, outcome : FeedbackOutcome]
      OBVIOUS
    <3>3. feedback' \in Seq([rec : RecId, outcome : FeedbackOutcome])
      BY <3>1, <3>2, AppendProperties DEF MatchInv, MatchingTypeOK
    <3> QED
      BY <3>1, <3>3 DEF MatchInv, MatchingTypeOK, Known, Made
  <2>4. CASE UNCHANGED matchingVars
    BY <2>4 DEF matchingVars, MatchInv, MatchingTypeOK, Known, Made
  <2> QED
    BY <2>1, <2>2, <2>3, <2>4 DEF MatchingNext
<1> QED
  BY <1>1, <1>2, PTL DEF MatchingSpec

(* For any candidates, scores and limits: however recommendations are made,  *)
(* moved, excluded and made again, the ranks of those listed for a request   *)
(* are the places 1 to n, and one that was excluded is listed nowhere again. *)
THEOREM RanksArePlacesAlways ==
    ASSUME MatchingConstants
    PROVE  MatchingSpec => []RanksArePlaces
BY MatchingInvariant, MatchInvSuffices, PTL

-----------------------------------------------------------------------------
(***************************************************************************)
(* Discovery: the index                                                    *)
(***************************************************************************)

\* The index holds a record under its keys, and nothing else.
Indexed(s) ==
    /\ s \in Store
    /\ \A i \in Index, k \in Keys :
          s.index[i][k] = {u \in Uris : s.records[u] # NULL /\ k \in s.records[u][i]}

LEMMA EmptyIndexed == Indexed(emptyStore)
<1>1. emptyStore \in Store
  BY DEF emptyStore, Store
<1> QED
  BY <1>1 DEF Indexed, emptyStore

\* A removal takes a record away from where it was found.
LEMMA RemovedIndexed ==
    ASSUME DiscoveryConstants, NEW s, Indexed(s), NEW u \in Uris,
           NEW to, to = removeRecord(s, u)
    PROVE  /\ Indexed(to)
           /\ to.records[u] = NULL
           /\ \A v \in Uris \ {u} : to.records[v] = s.records[v]
<1> USE DEF Store, Indexed
<1>1. CASE s.records[u] = NULL
  BY <1>1 DEF removeRecord
<1>2. CASE s.records[u] # NULL
  <2> DEFINE r == s.records[u]
  <2>1. /\ to.records = [s.records EXCEPT ![u] = NULL]
        /\ to.index = [i \in Index |-> [k \in Keys |->
              IF k \in r[i] THEN s.index[i][k] \ {u} ELSE s.index[i][k]]]
        /\ to = [records |-> to.records, index |-> to.index]
    BY <1>2 DEF removeRecord, removeFromIndex
  <2>2. /\ to.records \in [Uris -> Records \union {NULL}]
        /\ to.records[u] = NULL
        /\ \A v \in Uris \ {u} : to.records[v] = s.records[v]
    BY <2>1
  <2> HIDE DEF Indexed
  <2>3. ASSUME NEW i \in Index, NEW k \in Keys
        PROVE  to.index[i][k] =
                  {v \in Uris : to.records[v] # NULL /\ k \in to.records[v][i]}
    <3>1. to.index[i][k] = IF k \in r[i] THEN s.index[i][k] \ {u} ELSE s.index[i][k]
      BY <2>1
    <3>2. s.index[i][k] = {v \in Uris : s.records[v] # NULL /\ k \in s.records[v][i]}
      BY DEF Indexed
    <3> QED
      BY <1>2, <2>2, <3>1, <3>2
  <2>4. to.index \in [Index -> [Keys -> SUBSET Uris]]
    <3>1. \A i \in Index, k \in Keys : s.index[i][k] \in SUBSET Uris
      BY DEF Indexed
    <3> QED
      BY <2>1, <3>1
  <2> QED
    BY <2>1, <2>2, <2>3, <2>4 DEF Indexed
<1> QED
  BY <1>1, <1>2

\* What replaces a record is found under its own keys, and the old one under
\* none.
LEMMA UpsertedIndexed ==
    ASSUME DiscoveryConstants, NEW s, Indexed(s), NEW u \in Uris, NEW r \in Records,
           NEW to, to = upsertRecord(s, u, r)
    PROVE  /\ Indexed(to)
           /\ to.records[u] = r
           /\ \A v \in Uris \ {u} : to.records[v] = s.records[v]
<1>1. PICK c : c = removeRecord(s, u)
  OBVIOUS
<1>2. /\ Indexed(c)
      /\ c.records[u] = NULL
      /\ \A v \in Uris \ {u} : c.records[v] = s.records[v]
  BY <1>1, RemovedIndexed
<1>3. /\ to.records = [c.records EXCEPT ![u] = r]
      /\ to.index = [i \in Index |-> [k \in Keys |->
            IF k \in r[i] THEN c.index[i][k] \union {u} ELSE c.index[i][k]]]
      /\ to = [records |-> to.records, index |-> to.index]
  BY <1>1 DEF upsertRecord, addToIndex
<1>4. c.records \in [Uris -> Records \union {NULL}]
  BY <1>2 DEF Indexed, Store
<1>5. /\ to.records \in [Uris -> Records \union {NULL}]
      /\ to.records[u] = r
      /\ \A v \in Uris \ {u} : to.records[v] = c.records[v]
  BY <1>3, <1>4
<1>6. ASSUME NEW i \in Index, NEW k \in Keys
      PROVE  to.index[i][k] =
                {v \in Uris : to.records[v] # NULL /\ k \in to.records[v][i]}
  <2>1. to.index[i][k] = IF k \in r[i] THEN c.index[i][k] \union {u} ELSE c.index[i][k]
    BY <1>3
  <2>2. c.index[i][k] = {v \in Uris : c.records[v] # NULL /\ k \in c.records[v][i]}
    BY <1>2 DEF Indexed
  <2>3. r # NULL
    BY DEF DiscoveryConstants
  <2> QED
    BY <1>2, <1>5, <2>1, <2>2, <2>3
<1>7. to.index \in [Index -> [Keys -> SUBSET Uris]]
  <2>1. \A i \in Index, k \in Keys : c.index[i][k] \in SUBSET Uris
    BY <1>2 DEF Indexed
  <2> QED
    BY <1>3, <2>1
<1> QED
  BY <1>2, <1>3, <1>5, <1>6, <1>7 DEF Indexed, Store

\* An event leaves every post but its own, and its own unless it deletes it.
LEMMA OneApplied ==
    ASSUME DiscoveryConstants, NEW s, Indexed(s), NEW e \in Event,
           NEW to, to = applyEvent(s, e)
    PROVE  /\ Indexed(to)
           /\ \A v \in Uris \ {e.uri} : to.records[v] = s.records[v]
           /\ e.action # "delete" => to.records[e.uri] = e.record
<1>1. e.uri \in Uris /\ e.record \in Records
  BY DEF Event
<1> QED
  BY <1>1, RemovedIndexed, UpsertedIndexed DEF applyEvent

-----------------------------------------------------------------------------
(***************************************************************************)
(* Discovery: events one after the other                                   *)
(***************************************************************************)

Run(run, s, events) ==
    /\ run[0] = s
    /\ \A n \in 1..Len(events) : run[n] = applyEvent(run[n - 1], events[n])

\* The states that applyEvents goes through exist.
LEMMA RunExists ==
    ASSUME NEW s, NEW events, Len(events) \in Nat,
           NEW to, to = applyEvents(s, events)
    PROVE  \E run : Run(run, s, events) /\ to = run[Len(events)]
<1> DEFINE N == Len(events)
           is(f, n) == f = [k \in 0..n |->
                              IF k = 0 THEN s ELSE applyEvent(f[k - 1], events[k])]
           S == {n \in 0..N : \E f : is(f, n)}
<1>1. 0 \in S
  <2> DEFINE f == [k \in 0..0 |-> s]
  <2>1. is(f, 0)
    OBVIOUS
  <2> HIDE DEF f, is
  <2> QED
    BY <2>1
<1>2. ASSUME NEW n \in 0..(N - 1), n \in S
      PROVE  n + 1 \in S
  <2>1. PICK f : is(f, n)
    BY <1>2
  <2> DEFINE next == applyEvent(f[n], events[n + 1])
             g == [k \in 0..(n + 1) |-> IF k = n + 1 THEN next ELSE f[k]]
             h == [k \in 0..(n + 1) |->
                     IF k = 0 THEN s ELSE applyEvent(g[k - 1], events[k])]
  <2>2. \A k \in 0..n : g[k] = f[k]
    OBVIOUS
  <2>3. \A k \in 0..n : f[k] = IF k = 0 THEN s ELSE applyEvent(f[k - 1], events[k])
    <3> DEFINE at(k) == IF k = 0 THEN s ELSE applyEvent(f[k - 1], events[k])
    <3>1. f = [k \in 0..n |-> at(k)]
      BY <2>1
    <3> HIDE DEF at
    <3>2. \A k \in 0..n : f[k] = at(k)
      BY <3>1
    <3> QED
      BY <3>2 DEF at
  <2>4. ASSUME NEW k \in 0..(n + 1)
        PROVE  g[k] = h[k]
    <3>1. h[k] = IF k = 0 THEN s ELSE applyEvent(g[k - 1], events[k])
      OBVIOUS
    <3>2. CASE k = n + 1
      <4>1. g[k] = next /\ k - 1 = n /\ k # 0 /\ n \in 0..n
        BY <3>2
      <4>2. g[k - 1] = f[n]
        BY <4>1, <2>2
      <4> HIDE DEF g, h
      <4> QED
        BY <3>1, <3>2, <4>1, <4>2
    <3>3. CASE k # n + 1
      <4>1. k \in 0..n /\ (k # 0 => k - 1 \in 0..n)
        BY <3>3
      <4> HIDE DEF g, h
      <4> QED
        BY <2>2, <2>3, <3>1, <4>1
    <3> QED
      BY <3>2, <3>3
  <2>5. g = h
    <3> DEFINE a(k) == IF k = n + 1 THEN next ELSE f[k]
               b(k) == IF k = 0 THEN s ELSE applyEvent(g[k - 1], events[k])
    <3>1. h = [k \in 0..(n + 1) |-> b(k)]
      OBVIOUS
    <3>2. g = [k \in 0..(n + 1) |-> a(k)]
      OBVIOUS
    <3> HIDE DEF a, b, g, h
    <3> QED
      BY <2>4, <3>1, <3>2
  <2>6. is(g, n + 1)
    BY <2>5
  <2>7. n + 1 \in 0..N
    OBVIOUS
  <2> HIDE DEF g, is
  <2> QED
    BY <2>6, <2>7
<1>3. N \in S
  <2>1. 0 \in Nat /\ N \in Nat /\ N \in 0..N
    OBVIOUS
  <2> HIDE DEF S, N
  <2> QED
    BY <1>1, <1>2, <2>1, Upward
<1>4. PICK f : is(f, N)
  BY <1>3
<1> DEFINE run == CHOOSE g : is(g, N)
<1>5. is(run, N)
  <2> HIDE DEF is
  <2> QED
    BY <1>4
<1>6. to = run[N]
  BY DEF applyEvents
<1>7. ASSUME NEW n \in 0..N
      PROVE  run[n] = IF n = 0 THEN s ELSE applyEvent(run[n - 1], events[n])
  <2> DEFINE at(k) == IF k = 0 THEN s ELSE applyEvent(run[k - 1], events[k])
  <2>1. run = [k \in 0..N |-> at(k)]
    <3> HIDE DEF run
    <3> QED
      BY <1>5
  <2> HIDE DEF at, run
  <2>2. run[n] = at(n)
    BY <2>1
  <2> QED
    BY <2>2 DEF at
<1> HIDE DEF run
<1>8. Run(run, s, events)
  <2>1. 0 \in 0..N /\ \A n \in 1..N : n \in 0..N /\ n # 0
    OBVIOUS
  <2> QED
    BY <1>7, <2>1 DEF Run
<1> QED
  BY <1>6, <1>8

\* The index stays right through any events, and a post stays in it from an
\* event that writes it, unless a later one deletes it.
LEMMA AllApplied ==
    ASSUME DiscoveryConstants, NEW s, Indexed(s), NEW events \in Seq(Event),
           NEW to, to = applyEvents(s, events)
    PROVE  /\ Indexed(to)
           /\ \A m \in 1..Len(events) :
                 (\A n \in m..Len(events) :
                     events[n].uri = events[m].uri => events[n].action # "delete")
                 => to.records[events[m].uri] # NULL
<1> DEFINE N == Len(events)
<1>1. N \in Nat /\ \A n \in 1..N : events[n] \in Event
  BY LenProperties, ElementOfSeq
<1>2. PICK run : Run(run, s, events) /\ to = run[N]
  BY <1>1, RunExists
<1> HIDE DEF N
<1>3. run[0] = s /\ \A n \in 1..N : run[n] = applyEvent(run[n - 1], events[n])
  BY <1>2 DEF Run, N
<1>4. \A n \in 0..N : Indexed(run[n])
  <2> DEFINE S == {n \in 0..N : Indexed(run[n])}
  <2>1. 0 \in S
    BY <1>1, <1>3
  <2>2. ASSUME NEW n \in 0..(N - 1), n \in S
        PROVE  n + 1 \in S
    <3>1. n + 1 \in 1..N /\ n + 1 \in 0..N /\ (n + 1) - 1 = n
      BY <1>1
    <3>2. run[n + 1] = applyEvent(run[n], events[n + 1])
      BY <1>3, <3>1
    <3>3. Indexed(run[n]) /\ events[n + 1] \in Event
      BY <1>1, <2>2, <3>1
    <3> QED
      BY <3>1, <3>2, <3>3, OneApplied
  <2>3. 0 \in Nat
    OBVIOUS
  <2> HIDE DEF S
  <2>4. \A n \in 0..N : n \in S
    BY <1>1, <2>1, <2>2, <2>3, Upward
  <2> QED
    BY <2>4 DEF S
<1>5. ASSUME NEW m \in 1..N,
             \A n \in m..N : events[n].uri = events[m].uri =>
                 events[n].action # "delete"
      PROVE  to.records[events[m].uri] # NULL
  <2> DEFINE u == events[m].uri
             S == {n \in m..N : run[n].records[u] # NULL}
  <2>1. ASSUME NEW n \in m..N, events[n].uri = u
        PROVE  run[n].records[u] # NULL
    <3>1. n \in 1..N /\ n - 1 \in 0..N
      BY <1>1
    <3>2. Indexed(run[n - 1]) /\ run[n] = applyEvent(run[n - 1], events[n])
      BY <1>3, <1>4, <3>1
    <3>3. events[n] \in Event /\ events[n].action # "delete"
      BY <1>1, <1>5, <2>1, <3>1
    <3>4. run[n].records[events[n].uri] = events[n].record
      BY <3>2, <3>3, OneApplied
    <3>5. events[n].record \in Records
      BY <3>3 DEF Event
    <3> QED
      BY <2>1, <3>4, <3>5 DEF DiscoveryConstants
  <2>2. m \in S
    BY <1>1, <2>1
  <2>3. ASSUME NEW n \in m..(N - 1), n \in S
        PROVE  n + 1 \in S
    <3>1. /\ n + 1 \in m..N /\ n + 1 \in 1..N /\ (n + 1) - 1 = n
          /\ n \in 0..N
      BY <1>1
    <3>2. CASE events[n + 1].uri = u
      BY <2>1, <3>1, <3>2
    <3>3. CASE events[n + 1].uri # u
      <4>1. Indexed(run[n]) /\ run[n + 1] = applyEvent(run[n], events[n + 1])
        BY <1>3, <1>4, <3>1
      <4>2. events[n + 1] \in Event /\ u \in Uris
        BY <1>1, <3>1 DEF Event
      <4>3. run[n + 1].records[u] = run[n].records[u]
        <5> DEFINE e == events[n + 1]
                   after == run[n + 1]
        <5>1. e \in Event /\ u \in Uris \ {e.uri} /\ after = applyEvent(run[n], e)
          BY <3>3, <4>1, <4>2
        <5>2. \A v \in Uris \ {e.uri} : after.records[v] = run[n].records[v]
          <6> HIDE DEF e, after
          <6> QED
            BY <4>1, <5>1, OneApplied
        <5> QED
          BY <5>1, <5>2
      <4> QED
        BY <2>3, <3>1, <4>3
    <3> QED
      BY <3>2, <3>3
  <2>4. m \in Nat /\ N \in m..N
    BY <1>1
  <2> HIDE DEF S
  <2>5. \A n \in m..N : n \in S
    BY <1>1, <2>2, <2>3, <2>4, Upward
  <2> QED
    BY <1>2, <2>4, <2>5 DEF S
<1>6. Indexed(to)
  <2>1. N \in 0..N
    BY <1>1
  <2> QED
    BY <1>2, <1>4, <2>1
<1> QED
  BY <1>5, <1>6 DEF N

\* Rows that differ in what their ids are made of.
Keyed(rows) ==
    /\ rows \in SUBSET Event
    /\ IsFiniteSet(rows)
    /\ \A d, e \in rows :
          d.seq = e.seq /\ d.uri = e.uri /\ d.action = e.action => d = e

\* Rows with ids of their own come in one order.
LEMMA EarlierOrders ==
    ASSUME DiscoveryConstants, NEW rows, Keyed(rows),
           NEW R, R = {p \in rows \X rows : Earlier(p[1], p[2])}
    PROVE  /\ StrictOrder(rows, R)
           /\ \A d, e \in rows : <<d, e>> \in R <=> Earlier(d, e)
<1>1. \A d, e \in rows : <<d, e>> \in R <=> Earlier(d, e)
  OBVIOUS
<1>2. \A e \in rows : e.seq \in Int /\ e.uri \in Int /\
          e.action \in {"create", "update", "delete"}
  <2>1. \A u \in Uris : u \in Int
    <3>1. \A u \in Uris : u \in Nat
      BY DEF DiscoveryConstants
    <3> QED
      BY <3>1
  <2>2. ASSUME NEW e \in rows
        PROVE  e.seq \in Int /\ e.uri \in Int /\
               e.action \in {"create", "update", "delete"}
    <3>1. e \in Event
      BY DEF Keyed
    <3>2. e.uri \in Uris
      BY <3>1 DEF Event
    <3>3. e.uri \in Int
      BY <2>1, <3>2
    <3> QED
      BY <3>1, <3>3 DEF Event
  <2> QED
    BY <2>2
<1>3. \A e \in rows : ActionRank[e.action] \in Int
  BY <1>2 DEF ActionRank
<1>4. \A d, e \in rows : ActionRank[d.action] = ActionRank[e.action] =>
          d.action = e.action
  BY <1>2 DEF ActionRank
<1>5. ASSUME NEW d \in rows
      PROVE  ~Earlier(d, d)
  BY <1>2, <1>3 DEF Earlier
<1>6. ASSUME NEW d \in rows, NEW e \in rows, NEW f \in rows,
             Earlier(d, e), Earlier(e, f)
      PROVE  Earlier(d, f)
  BY <1>2, <1>3, <1>6 DEF Earlier
<1>7. ASSUME NEW d \in rows, NEW e \in rows, d # e
      PROVE  Earlier(d, e) \/ Earlier(e, d)
  <2>1. ~(d.seq = e.seq /\ d.uri = e.uri /\ ActionRank[d.action] = ActionRank[e.action])
    BY <1>4, <1>7 DEF Keyed
  <2> QED
    BY <1>2, <1>3, <2>1 DEF Earlier
<1> QED
  BY <1>1, <1>5, <1>6, <1>7 DEF StrictOrder

\* The index that is built from the rows is right, and it has the post of a
\* row that comes after every deletion.
LEMMA Loaded ==
    ASSUME DiscoveryConstants, NEW rows, Keyed(rows),
           NEW to, to = applyEvents(emptyStore, loadDiscoveryEvents(rows))
    PROVE  /\ Indexed(to)
           /\ \A e \in rows :
                 /\ e.action = "create"
                 /\ \A d \in rows : d.action = "delete" => d.seq < e.seq
                 => to.records[e.uri] # NULL
<1> DEFINE R == {p \in rows \X rows : Earlier(p[1], p[2])}
           events == Listed(rows, R)
           N == Cardinality(rows)
<1>1. /\ StrictOrder(rows, R)
      /\ \A d, e \in rows : <<d, e>> \in R <=> Earlier(d, e)
  <2> HIDE DEF R
  <2>1. R = {p \in rows \X rows : Earlier(p[1], p[2])}
    BY DEF R
  <2> QED
    BY <2>1, EarlierOrders
<1> HIDE DEF R
<1>2. /\ N \in Nat
      /\ events \in [1..N -> rows]
      /\ \A j, k \in 1..N : j < k => <<events[j], events[k]>> \in R
      /\ \A e \in rows : \E k \in 1..N : events[k] = e
  BY <1>1, ListedIs DEF Keyed
<1>3. loadDiscoveryEvents(rows) = events
  BY DEF loadDiscoveryEvents, R
<1> HIDE DEF events, N
<1>4. rows \in SUBSET Event
  BY DEF Keyed
<1>5. events \in Seq(Event) /\ Len(events) = N
  BY <1>2, <1>4
<1>6. /\ Indexed(to)
      /\ \A m \in 1..N :
            (\A n \in m..N :
                events[n].uri = events[m].uri => events[n].action # "delete")
            => to.records[events[m].uri] # NULL
  BY <1>3, <1>5, EmptyIndexed, AllApplied
<1>7. ASSUME NEW e \in rows, e.action = "create",
             \A d \in rows : d.action = "delete" => d.seq < e.seq
      PROVE  to.records[e.uri] # NULL
  <2>1. PICK m \in 1..N : events[m] = e
    BY <1>2
  <2>2. ASSUME NEW n \in m..N, events[n].action = "delete"
        PROVE  FALSE
    <3>1. n \in 1..N /\ m # n
      BY <1>2, <1>7, <2>1, <2>2
    <3>2. m < n
      BY <1>2, <3>1
    <3>3. events[n] \in rows /\ <<e, events[n]>> \in R
      BY <1>2, <2>1, <3>1, <3>2
    <3>4. events[n].seq < e.seq /\ Earlier(e, events[n])
      BY <1>1, <1>7, <2>2, <3>3
    <3>5. e.seq \in Int /\ events[n].seq \in Int
      BY <1>4, <3>3 DEF Event
    <3> QED
      BY <3>4, <3>5 DEF Earlier
  <2> QED
    BY <1>6, <2>1, <2>2
<1> QED
  BY <1>6, <1>7

LEMMA ServiceIs ==
    ASSUME DiscoveryConstants, NEW rows, Keyed(rows),
           NEW to, to = queryServiceOf(rows)
    PROVE  /\ Indexed(to)
           /\ Postgres => \A e \in rows :
                 /\ e.action = "create"
                 /\ \A d \in rows : d.action = "delete" => d.seq < e.seq
                 => to.records[e.uri] # NULL
<1>1. CASE Postgres
  <2>1. to = applyEvents(emptyStore, loadDiscoveryEvents(rows))
    BY <1>1 DEF queryServiceOf
  <2> QED
    BY <2>1, Loaded
<1>2. CASE ~Postgres
  <2>1. to = applyEvents(emptyStore, Fixture)
    BY <1>2 DEF queryServiceOf
  <2>2. Fixture \in Seq(Event)
    BY DEF DiscoveryConstants
  <2>3. Indexed(to)
    BY <2>1, <2>2, EmptyIndexed, AllApplied
  <2> QED
    BY <1>2, <2>3
<1> QED
  BY <1>1, <1>2

\* The row of an event replaces the one of its id.
LEMMA RowAdded ==
    ASSUME NEW rows, Keyed(rows), NEW e \in Event,
           NEW to, to = upsertDiscoveryEvent(rows, e)
    PROVE  /\ Keyed(to)
           /\ e \in to
           /\ to \subseteq rows \union {e}
           /\ \A d \in rows : \E f \in to :
                 f.seq = d.seq /\ f.uri = d.uri /\ f.action = d.action
<1> DEFINE kept == {d \in rows : <<d.seq, d.uri, d.action>> # <<e.seq, e.uri, e.action>>}
<1>1. to = kept \union {e}
  BY DEF upsertDiscoveryEvent
<1>2. \A d : d \in kept <=>
          d \in rows /\ ~(d.seq = e.seq /\ d.uri = e.uri /\ d.action = e.action)
  OBVIOUS
<1> HIDE DEF kept
<1>3. kept \in SUBSET rows
  BY <1>2
<1>4. IsFiniteSet(to)
  <2>1. IsFiniteSet(kept)
    BY <1>3, FS_Subset DEF Keyed
  <2> QED
    BY <1>1, <2>1, FS_AddElement
<1>5. \A d, f \in to :
          d.seq = f.seq /\ d.uri = f.uri /\ d.action = f.action => d = f
  BY <1>1, <1>2 DEF Keyed
<1>6. ASSUME NEW d \in rows
      PROVE  \E f \in to : f.seq = d.seq /\ f.uri = d.uri /\ f.action = d.action
  BY <1>1, <1>2
<1> QED
  BY <1>1, <1>3, <1>4, <1>5, <1>6 DEF Keyed

-----------------------------------------------------------------------------
(***************************************************************************)
(* Discovery: acknowledged posts                                           *)
(***************************************************************************)

\* A row of a post that no deletion follows: the seed alone has deletions.
WrittenIn(rows, u) ==
    \E e \in rows : e.uri = u /\ e.action = "create" /\ e.seq >= 1

DeletionsAreOld(rows) == \A e \in rows : e.action = "delete" => e.seq < 1

\* What is acknowledged, or about to be, is in the log; the index agrees with
\* its records.
DiscoveryInv ==
    /\ DiscoveryTypeOK
    /\ Indexed([records |-> records, index |-> indexes])
    /\ Keyed(log)
    /\ DeletionsAreOld(log)
    /\ \A c \in Creations : creations[c] # NULL =>
          /\ creations[c].event.uri \in Posts
          /\ creations[c].event.action = "create"
          /\ creations[c].event.seq >= 1
          /\ Postgres /\ creations[c].at = "apply" =>
                WrittenIn(log, creations[c].event.uri)
    /\ Postgres => \A u \in acknowledged : WrittenIn(log, u)
    /\ AcknowledgedAreFound

LEMMA RowsGrow ==
    ASSUME NEW rows, Keyed(rows), DeletionsAreOld(rows), NEW e \in Event,
           e.action = "create", e.seq >= 1,
           NEW to, to = upsertDiscoveryEvent(rows, e)
    PROVE  /\ Keyed(to)
           /\ DeletionsAreOld(to)
           /\ WrittenIn(to, e.uri)
           /\ \A u : WrittenIn(rows, u) => WrittenIn(to, u)
<1>1. /\ Keyed(to)
      /\ e \in to
      /\ to \subseteq rows \union {e}
      /\ \A d \in rows : \E f \in to :
            f.seq = d.seq /\ f.uri = d.uri /\ f.action = d.action
  BY RowAdded
<1>2. DeletionsAreOld(to)
  BY <1>1 DEF DeletionsAreOld
<1>3. WrittenIn(to, e.uri)
  BY <1>1 DEF WrittenIn
<1>4. ASSUME NEW u, WrittenIn(rows, u)
      PROVE  WrittenIn(to, u)
  BY <1>1, <1>4 DEF WrittenIn
<1> QED
  BY <1>1, <1>2, <1>3, <1>4

\* A service that is started has every post that was written.
LEMMA WrittenIsFound ==
    ASSUME DiscoveryConstants, Postgres, NEW rows, Keyed(rows),
           DeletionsAreOld(rows), NEW u, WrittenIn(rows, u),
           NEW to, to = queryServiceOf(rows)
    PROVE  to.records[u] # NULL
<1>1. PICK e \in rows : e.uri = u /\ e.action = "create" /\ e.seq >= 1
  BY DEF WrittenIn
<1>2. \A d \in rows : d.seq \in Int
  BY DEF Keyed, Event
<1>3. \A d \in rows : d.action = "delete" => d.seq < e.seq
  BY <1>1, <1>2 DEF DeletionsAreOld
<1> QED
  BY <1>1, <1>3, ServiceIs

LEMMA SeedIs ==
    ASSUME DiscoveryConstants
    PROVE  /\ Keyed(Range(Fixture)) /\ DeletionsAreOld(Range(Fixture))
           /\ Keyed({}) /\ DeletionsAreOld({})
<1> DEFINE N == Len(Fixture)
           rows == Range(Fixture)
<1>1. Fixture \in Seq(Event)
  BY DEF DiscoveryConstants
<1>2. N \in Nat /\ DOMAIN Fixture = 1..N /\ \A k \in 1..N : Fixture[k] \in Event
  BY <1>1, LenProperties, ElementOfSeq
<1>3. /\ \A k \in 1..N : Fixture[k].seq < 1
      /\ \A k \in 1..N : \A j \in 1..(k - 1) : Fixture[j].seq < Fixture[k].seq
  BY <1>2 DEF DiscoveryConstants
<1>4. \A e : e \in rows <=> \E k \in 1..N : e = Fixture[k]
  BY <1>2 DEF Range
<1>5. IsFiniteSet(rows)
  <2> HIDE DEF rows, N
  <2>1. Fixture \in [1..N -> rows]
    <3>1. Fixture \in [1..N -> Event]
      BY <1>1, LenProperties DEF N
    <3> QED
      BY <3>1, <1>4
  <2>2. Fixture \in Surjection(1..N, rows)
    BY <2>1, <1>4 DEF Surjection
  <2>3. 1 \in Int /\ N \in Int
    BY <1>2
  <2>4. IsFiniteSet(1..N)
    BY <2>3, FS_Interval
  <2> QED
    BY <2>2, <2>4, FS_Surjection
<1> HIDE DEF rows, N
<1>6. \A k \in 1..N : Fixture[k].seq \in Int
  BY <1>2 DEF Event
<1>7. ASSUME NEW j \in 1..N, NEW k \in 1..N, Fixture[j].seq = Fixture[k].seq
      PROVE  j = k
  <2>1. ~(j \in 1..(k - 1)) /\ ~(k \in 1..(j - 1))
    BY <1>3, <1>6, <1>7
  <2> QED
    BY <1>2, <2>1
<1>8. Keyed(rows)
  BY <1>2, <1>4, <1>5, <1>7 DEF Keyed
<1>9. DeletionsAreOld(rows)
  BY <1>3, <1>4 DEF DeletionsAreOld
<1>10. Keyed({}) /\ DeletionsAreOld({})
  BY FS_EmptySet DEF Keyed, DeletionsAreOld
<1> QED
  BY <1>8, <1>9, <1>10 DEF rows

LEMMA DiscoveryInitially ==
    ASSUME DiscoveryConstants, DiscoveryInit
    PROVE  DiscoveryInv
<1> USE DEF DiscoveryInit
<1>1. Keyed(log) /\ DeletionsAreOld(log)
  BY SeedIs
<1> DEFINE to == queryServiceOf(log)
<1>2. Indexed(to)
  BY <1>1, ServiceIs
<1>3. records = to.records /\ indexes = to.index
  OBVIOUS
<1> HIDE DEF to
<1>4. /\ Indexed([records |-> records, index |-> indexes])
      /\ records \in [Uris -> Records \union {NULL}]
      /\ indexes \in [Index -> [Keys -> SUBSET Uris]]
  BY <1>2, <1>3 DEF Indexed, Store
<1>5. DiscoveryTypeOK
  <2>1. 1 \in 1..LastMs /\ 0 \in 0..MaxRestarts
    BY DEF DiscoveryConstants
  <2> QED
    BY <1>1, <1>4, <2>1 DEF DiscoveryTypeOK, Keyed
<1> QED
  BY <1>1, <1>4, <1>5 DEF DiscoveryInv, AcknowledgedAreFound

LEMMA CreateStep ==
    ASSUME DiscoveryConstants, DiscoveryInv, NEW c \in Creations, NEW u \in Posts,
           NEW r \in Submitted, createFromInput(c, u, r)
    PROVE  DiscoveryInv'
<1> DEFINE e == [seq |-> ms, uri |-> u, action |-> "create", record |-> r]
           new == [event |-> e, at |-> IF Postgres THEN "append" ELSE "apply"]
<1> USE DEF createFromInput
<1>1. u \in Uris /\ r \in Records
  BY DEF Uris, DiscoveryConstants
<1>2. ms \in Int /\ ms >= 1
  BY DEF DiscoveryInv, DiscoveryTypeOK
<1>3. e \in Event
  BY <1>1, <1>2 DEF Event
<1>4. /\ e.uri = u /\ e.action = "create" /\ e.seq = ms
      /\ new.event = e
      /\ new.at = IF Postgres THEN "append" ELSE "apply"
  OBVIOUS
<1>5. creations' = [creations EXCEPT ![c] = new]
  OBVIOUS
<1>6. new \in [event : Event, at : {"append", "apply"}]
  BY <1>3
<1> HIDE DEF new, e
<1>7. /\ creations' \in [Creations ->
             [event : Event, at : {"append", "apply"}] \union {NULL}]
      /\ creations'[c] = new
      /\ \A d \in Creations \ {c} : creations'[d] = creations[d]
  BY <1>5, <1>6 DEF DiscoveryInv, DiscoveryTypeOK
<1>8. DiscoveryTypeOK'
  BY <1>7 DEF DiscoveryInv, DiscoveryTypeOK
<1>9. ASSUME NEW d \in Creations, creations'[d] # NULL
      PROVE  /\ creations'[d].event.uri \in Posts
             /\ creations'[d].event.action = "create"
             /\ creations'[d].event.seq >= 1
             /\ Postgres /\ creations'[d].at = "apply" =>
                   WrittenIn(log', creations'[d].event.uri)
  <2>1. CASE d = c
    BY <1>2, <1>4, <1>7, <2>1
  <2>2. CASE d # c
    BY <1>7, <1>9, <2>2 DEF DiscoveryInv
  <2> QED
    BY <2>1, <2>2
<1> QED
  BY <1>8, <1>9 DEF DiscoveryInv, AcknowledgedAreFound

\* The log gets the row of a creation, or fails and may have got it.
LEMMA AppendStep ==
    ASSUME DiscoveryConstants, DiscoveryInv, NEW c \in Creations,
           appendDiscoveryEvents(c) \/ appendFails(c)
    PROVE  DiscoveryInv'
<1> DEFINE e == creations[c].event
<1>1. /\ creations[c] # NULL /\ creations[c].at = "append"
      /\ UNCHANGED <<records, indexes, acknowledged, ms, restarts>>
      /\ log' = log \/ log' = upsertDiscoveryEvent(log, e)
      /\ \/ /\ creations' = [creations EXCEPT ![c].at = "apply"]
            /\ log' = upsertDiscoveryEvent(log, e)
         \/ creations' = [creations EXCEPT ![c] = NULL]
  BY DEF appendDiscoveryEvents, appendFails
<1>2. /\ creations[c] \in [event : Event, at : {"append", "apply"}]
      /\ e \in Event /\ e.uri \in Posts /\ e.action = "create" /\ e.seq >= 1
  BY <1>1 DEF DiscoveryInv, DiscoveryTypeOK
<1> HIDE DEF e
<1>3. Keyed(log) /\ DeletionsAreOld(log)
  BY DEF DiscoveryInv
<1>4. PICK to : to = upsertDiscoveryEvent(log, e)
  OBVIOUS
<1>5. /\ Keyed(to)
      /\ DeletionsAreOld(to)
      /\ WrittenIn(to, e.uri)
      /\ \A u : WrittenIn(log, u) => WrittenIn(to, u)
  BY <1>2, <1>3, <1>4, RowsGrow
<1>6. /\ Keyed(log') /\ DeletionsAreOld(log')
      /\ \A u : WrittenIn(log, u) => WrittenIn(log', u)
  BY <1>1, <1>3, <1>4, <1>5
<1>7. /\ creations' \in [Creations ->
             [event : Event, at : {"append", "apply"}] \union {NULL}]
      /\ \A d \in Creations \ {c} : creations'[d] = creations[d]
      /\ \/ creations'[c] = NULL
         \/ creations'[c].event = e /\ WrittenIn(log', e.uri)
  <2>1. creations \in [Creations ->
             [event : Event, at : {"append", "apply"}] \union {NULL}]
    BY DEF DiscoveryInv, DiscoveryTypeOK
  <2>2. CASE creations' = [creations EXCEPT ![c] = NULL]
    BY <2>1, <2>2
  <2>3. CASE /\ creations' = [creations EXCEPT ![c].at = "apply"]
             /\ log' = upsertDiscoveryEvent(log, e)
    <3> DEFINE new == [creations[c] EXCEPT !.at = "apply"]
    <3>1. new \in [event : Event, at : {"append", "apply"}] /\ new.event = e
      BY <1>2 DEF e
    <3>2. creations' = [creations EXCEPT ![c] = new]
      BY <2>3
    <3> HIDE DEF new
    <3> QED
      BY <1>4, <1>5, <2>1, <2>3, <3>1, <3>2
  <2> QED
    BY <1>1, <2>2, <2>3
<1>8. DiscoveryTypeOK'
  BY <1>1, <1>6, <1>7 DEF DiscoveryInv, DiscoveryTypeOK, Keyed
<1>9. ASSUME NEW d \in Creations, creations'[d] # NULL
      PROVE  /\ creations'[d].event.uri \in Posts
             /\ creations'[d].event.action = "create"
             /\ creations'[d].event.seq >= 1
             /\ Postgres /\ creations'[d].at = "apply" =>
                   WrittenIn(log', creations'[d].event.uri)
  <2>1. CASE d = c
    BY <1>2, <1>7, <1>9, <2>1
  <2>2. CASE d # c
    BY <1>6, <1>7, <1>9, <2>2 DEF DiscoveryInv
  <2> QED
    BY <2>1, <2>2
<1> QED
  BY <1>1, <1>6, <1>8, <1>9 DEF DiscoveryInv, AcknowledgedAreFound

\* What is acknowledged was written before.
LEMMA ApplyStep ==
    ASSUME DiscoveryConstants, DiscoveryInv, NEW c \in Creations,
           applyNormalizedEvents(c)
    PROVE  DiscoveryInv'
<1> DEFINE e == creations[c].event
           old == [records |-> records, index |-> indexes]
           to == applyEvent(old, e)
<1>1. /\ creations[c] # NULL /\ creations[c].at = "apply"
      /\ records' = to.records /\ indexes' = to.index
      /\ acknowledged' = acknowledged \union {e.uri}
      /\ creations' = [creations EXCEPT ![c] = NULL]
      /\ UNCHANGED <<log, ms, restarts>>
  BY DEF applyNormalizedEvents
<1>2. /\ e \in Event /\ e.uri \in Posts /\ e.action = "create"
      /\ Postgres => WrittenIn(log, e.uri)
  BY <1>1 DEF DiscoveryInv, DiscoveryTypeOK
<1>3. Indexed(old) /\ old.records = records
  BY DEF DiscoveryInv
<1> HIDE DEF e, old
<1>4. /\ Indexed(to)
      /\ \A v \in Uris \ {e.uri} : to.records[v] = old.records[v]
      /\ to.records[e.uri] = e.record
  BY <1>2, <1>3, OneApplied
<1> HIDE DEF to
<1>5. /\ Indexed([records |-> records', index |-> indexes'])
      /\ records' \in [Uris -> Records \union {NULL}]
      /\ indexes' \in [Index -> [Keys -> SUBSET Uris]]
  BY <1>1, <1>4 DEF Indexed, Store
<1>6. /\ creations' \in [Creations ->
             [event : Event, at : {"append", "apply"}] \union {NULL}]
      /\ \A d \in Creations : creations'[d] # NULL => creations'[d] = creations[d]
  BY <1>1 DEF DiscoveryInv, DiscoveryTypeOK
<1>7. DiscoveryTypeOK'
  BY <1>1, <1>2, <1>5, <1>6 DEF DiscoveryInv, DiscoveryTypeOK
<1>8. \A d \in Creations : creations'[d] # NULL =>
          /\ creations'[d].event.uri \in Posts
          /\ creations'[d].event.action = "create"
          /\ creations'[d].event.seq >= 1
          /\ Postgres /\ creations'[d].at = "apply" =>
                WrittenIn(log', creations'[d].event.uri)
  BY <1>1, <1>6 DEF DiscoveryInv
<1>9. Postgres => \A u \in acknowledged' : WrittenIn(log', u)
  BY <1>1, <1>2 DEF DiscoveryInv
<1>10. AcknowledgedAreFound'
  <2>1. acknowledged \subseteq Uris /\ e.record \in Records
    BY <1>2 DEF DiscoveryInv, DiscoveryTypeOK, Uris, Event
  <2>2. e.record # NULL
    BY <2>1 DEF DiscoveryConstants
  <2> QED
    BY <1>1, <1>3, <1>4, <2>1, <2>2 DEF DiscoveryInv, AcknowledgedAreFound
<1> QED
  BY <1>1, <1>5, <1>7, <1>8, <1>9, <1>10 DEF DiscoveryInv

\* What was acknowledged is in the log a restart loads.
LEMMA RestartStep ==
    ASSUME DiscoveryConstants, DiscoveryInv, Restart
    PROVE  DiscoveryInv'
<1> DEFINE to == queryServiceOf(log)
<1>1. /\ restarts < MaxRestarts /\ restarts' = restarts + 1
      /\ records' = to.records /\ indexes' = to.index
      /\ creations' = [d \in Creations |-> NULL]
      /\ UNCHANGED <<log, acknowledged, ms>>
  BY DEF Restart
<1>2. Keyed(log) /\ DeletionsAreOld(log)
  BY DEF DiscoveryInv
<1>3. Indexed(to)
  BY <1>2, ServiceIs
<1>4. AcknowledgedAreFound'
  <2>1. ASSUME Postgres, NEW u \in acknowledged
        PROVE  to.records[u] # NULL
    <3>1. WrittenIn(log, u)
      BY <2>1 DEF DiscoveryInv
    <3> QED
      BY <1>2, <2>1, <3>1, WrittenIsFound
  <2> QED
    BY <1>1, <2>1 DEF AcknowledgedAreFound
<1> HIDE DEF to
<1>5. /\ Indexed([records |-> records', index |-> indexes'])
      /\ records' \in [Uris -> Records \union {NULL}]
      /\ indexes' \in [Index -> [Keys -> SUBSET Uris]]
  BY <1>1, <1>3 DEF Indexed, Store
<1>6. DiscoveryTypeOK'
  BY <1>1, <1>5 DEF DiscoveryInv, DiscoveryTypeOK, DiscoveryConstants
<1> QED
  BY <1>1, <1>4, <1>5, <1>6 DEF DiscoveryInv

LEMMA DiscoveryStep ==
    ASSUME DiscoveryConstants, DiscoveryInv, [DiscoveryNext]_discoveryVars
    PROVE  DiscoveryInv'
<1>1. CASE UNCHANGED discoveryVars
  BY <1>1 DEF discoveryVars, DiscoveryInv, DiscoveryTypeOK, AcknowledgedAreFound
<1>2. CASE NextMs
  BY <1>2 DEF NextMs, DiscoveryInv, DiscoveryTypeOK, AcknowledgedAreFound,
              DiscoveryConstants
<1>3. CASE Restart
  BY <1>3, RestartStep
<1>4. ASSUME NEW c \in Creations,
             \/ \E u \in Posts, r \in Submitted : createFromInput(c, u, r)
             \/ appendDiscoveryEvents(c)
             \/ appendFails(c)
             \/ applyNormalizedEvents(c)
      PROVE  DiscoveryInv'
  BY <1>4, CreateStep, AppendStep, ApplyStep
<1> QED
  BY <1>1, <1>2, <1>3, <1>4 DEF DiscoveryNext

LEMMA DiscoveryInvariant ==
    ASSUME DiscoveryConstants
    PROVE  DiscoverySpec => []DiscoveryInv
<1>1. DiscoveryInit => DiscoveryInv
  BY DiscoveryInitially
<1>2. DiscoveryInv /\ [DiscoveryNext]_discoveryVars => DiscoveryInv'
  BY DiscoveryStep
<1> QED
  BY <1>1, <1>2, PTL DEF DiscoverySpec

(* With Postgres, whatever posts are created at once, and whatever fails or  *)
(* restarts: a post that was answered with 201 is found from then on         *)
(* (AcknowledgedAreFound).                                                   *)
THEOREM AcknowledgedAreFoundAlways ==
    ASSUME DiscoveryConstants
    PROVE  DiscoverySpec => []AcknowledgedAreFound
<1>1. DiscoveryInv => AcknowledgedAreFound
  BY DEF DiscoveryInv
<1> QED
  BY <1>1, DiscoveryInvariant, PTL

-----------------------------------------------------------------------------
(***************************************************************************)
(* Discovery: pages                                                        *)
(***************************************************************************)

Joining(run, seqs) ==
    /\ run[1] = seqs[1]
    /\ \A n \in 2..Len(seqs) : run[n] = run[n - 1] \o seqs[n]

\* The lists that are joined one after the other exist.
LEMMA JoiningExists ==
    ASSUME NEW seqs, Len(seqs) \in Nat \ {0}, NEW to, to = FlattenSeq(seqs)
    PROVE  \E run : Joining(run, seqs) /\ to = run[Len(seqs)]
<1> DEFINE N == Len(seqs)
           is(f, n) == f = [k \in 1..n |->
                              IF k = 1 THEN seqs[k] ELSE f[k - 1] \o seqs[k]]
           S == {n \in 1..N : \E f : is(f, n)}
<1>1. 1 \in S
  <2> DEFINE f == [k \in 1..1 |-> seqs[k]]
  <2>1. is(f, 1)
    OBVIOUS
  <2> HIDE DEF f, is
  <2> QED
    BY <2>1
<1>2. ASSUME NEW n \in 1..(N - 1), n \in S
      PROVE  n + 1 \in S
  <2>1. PICK f : is(f, n)
    BY <1>2
  <2> DEFINE next == f[n] \o seqs[n + 1]
             g == [k \in 1..(n + 1) |-> IF k = n + 1 THEN next ELSE f[k]]
             h == [k \in 1..(n + 1) |->
                     IF k = 1 THEN seqs[k] ELSE g[k - 1] \o seqs[k]]
  <2>2. \A k \in 1..n : g[k] = f[k]
    OBVIOUS
  <2>3. \A k \in 1..n : f[k] = IF k = 1 THEN seqs[k] ELSE f[k - 1] \o seqs[k]
    <3> DEFINE at(k) == IF k = 1 THEN seqs[k] ELSE f[k - 1] \o seqs[k]
    <3>1. f = [k \in 1..n |-> at(k)]
      BY <2>1
    <3> HIDE DEF at
    <3>2. \A k \in 1..n : f[k] = at(k)
      BY <3>1
    <3> QED
      BY <3>2 DEF at
  <2>4. ASSUME NEW k \in 1..(n + 1)
        PROVE  g[k] = h[k]
    <3>1. h[k] = IF k = 1 THEN seqs[k] ELSE g[k - 1] \o seqs[k]
      OBVIOUS
    <3>2. CASE k = n + 1
      <4> HIDE DEF next
      <4>1. g[k] = next /\ k - 1 = n /\ k # 1 /\ n \in 1..n
        BY <3>2
      <4>2. g[k - 1] = f[n]
        BY <4>1, <2>2
      <4> HIDE DEF g, h
      <4> QED
        BY <3>1, <3>2, <4>1, <4>2 DEF next
    <3>3. CASE k # n + 1
      <4>1. k \in 1..n /\ (k # 1 => k - 1 \in 1..n)
        BY <3>3
      <4> HIDE DEF g, h
      <4> QED
        BY <2>2, <2>3, <3>1, <4>1
    <3> QED
      BY <3>2, <3>3
  <2>5. g = h
    <3> DEFINE a(k) == IF k = n + 1 THEN next ELSE f[k]
               b(k) == IF k = 1 THEN seqs[k] ELSE g[k - 1] \o seqs[k]
    <3>1. h = [k \in 1..(n + 1) |-> b(k)]
      OBVIOUS
    <3>2. g = [k \in 1..(n + 1) |-> a(k)]
      OBVIOUS
    <3> HIDE DEF a, b, g, h
    <3> QED
      BY <2>4, <3>1, <3>2
  <2>6. is(g, n + 1)
    BY <2>5
  <2>7. n + 1 \in 1..N
    OBVIOUS
  <2> HIDE DEF g, is
  <2> QED
    BY <2>6, <2>7
<1>3. N \in S
  <2>1. 1 \in Nat /\ N \in Nat /\ N \in 1..N
    OBVIOUS
  <2> HIDE DEF S, N
  <2> QED
    BY <1>1, <1>2, <2>1, Upward
<1>4. PICK f : is(f, N)
  BY <1>3
<1> DEFINE run == CHOOSE g : is(g, N)
<1>5. is(run, N)
  <2> HIDE DEF is
  <2> QED
    BY <1>4
<1>6. to = run[N]
  BY DEF FlattenSeq
<1>7. ASSUME NEW n \in 1..N
      PROVE  run[n] = IF n = 1 THEN seqs[n] ELSE run[n - 1] \o seqs[n]
  <2> DEFINE at(k) == IF k = 1 THEN seqs[k] ELSE run[k - 1] \o seqs[k]
  <2>1. run = [k \in 1..N |-> at(k)]
    <3> HIDE DEF run
    <3> QED
      BY <1>5
  <2> HIDE DEF at, run
  <2>2. run[n] = at(n)
    BY <2>1
  <2> QED
    BY <2>2 DEF at
<1> HIDE DEF run
<1>8. Joining(run, seqs)
  <2>1. 1 \in 1..N /\ \A n \in 2..N : n \in 1..N /\ n # 1
    OBVIOUS
  <2> QED
    BY <1>7, <2>1 DEF Joining
<1> QED
  BY <1>6, <1>8

\* Asked page by page until none is said to follow, a list is shown as it is.
LEMMA PagesCover ==
    ASSUME NEW S, NEW all \in Seq(S), NEW size \in 1..2
    PROVE  \E last \in 1..(Len(all) + 1) :
              /\ ~applyPagination(all, last, size).hasNextPage
              /\ \A p \in 1..(last - 1) : applyPagination(all, p, size).hasNextPage
              /\ FlattenSeq([p \in 1..last |-> applyPagination(all, p, size).items])
                    = all
<1> DEFINE N == Len(all)
           T == {p \in 1..(N + 1) : p * size >= N}
           end(p) == IF p * size < N THEN p * size ELSE N
           answer(p) == applyPagination(all, p, size)
<1>1. N \in Nat /\ (size = 1 \/ size = 2)
  BY LenProperties
<1> HIDE DEF N
<1>2. T \in SUBSET Nat /\ N + 1 \in T
  BY <1>1
<1>3. PICK last \in T : \A p \in T : last <= p
  <2> HIDE DEF T
  <2> QED
    BY <1>2, LeastOf
<1>4. /\ last \in 1..(N + 1) /\ last * size >= N
      /\ \A p \in 1..(last - 1) : p * size < N
  BY <1>1, <1>3
<1>5. ASSUME NEW p \in 1..last
      PROVE  /\ answer(p).hasNextPage <=> p * size < N
             /\ answer(p).items = SubSeq(all, (p - 1) * size + 1, end(p))
  <2>1. (p - 1) * size + size = p * size
    BY <1>1, <1>4
  <2> QED
    BY <2>1 DEF applyPagination, N
<1> DEFINE pages == [p \in 1..last |-> answer(p).items]
<1>6. /\ Len(pages) = last
      /\ \A p \in 1..last : pages[p] = SubSeq(all, (p - 1) * size + 1, end(p))
  <2>1. last \in Nat
    BY <1>4
  <2> HIDE DEF answer
  <2> QED
    BY <1>5, <2>1
<1> HIDE DEF pages
<1>7. PICK run : Joining(run, pages) /\ FlattenSeq(pages) = run[last]
  BY <1>4, <1>6, JoiningExists
<1>8. \A p \in 1..last : run[p] = SubSeq(all, 1, end(p))
  <2> DEFINE S1 == {p \in 1..last : run[p] = SubSeq(all, 1, end(p))}
  <2>1. 1 \in S1
    <3>1. (1 - 1) * size + 1 = 1 /\ 1 \in 1..last
      BY <1>1, <1>4
    <3> QED
      BY <1>6, <1>7, <3>1 DEF Joining
  <2>2. ASSUME NEW p \in 1..(last - 1), p \in S1
        PROVE  p + 1 \in S1
    <3>1. p + 1 \in 2..last /\ p + 1 \in 1..last /\ (p + 1) - 1 = p
      BY <1>4
    <3>2. p * size < N
      BY <1>4
    <3>3. end(p) = p * size /\ run[p] = SubSeq(all, 1, end(p))
      BY <2>2, <3>2
    <3>4. pages[p + 1] = SubSeq(all, p * size + 1, end(p + 1))
      BY <1>6, <3>1
    <3>5. run[p + 1] = run[p] \o pages[p + 1]
      BY <1>6, <1>7, <3>1 DEF Joining
    <3>6. /\ 1 \in 1..(N + 1)
          /\ p * size \in (1 - 1)..N
          /\ end(p + 1) \in (p * size)..N
      BY <1>1, <1>4, <3>1, <3>2
    <3> DEFINE k == p * size
               n == end(p + 1)
    <3>7. k \in (1 - 1)..N /\ n \in k..N
      BY <3>6
    <3>8. run[p + 1] = SubSeq(all, 1, k) \o SubSeq(all, k + 1, n)
      BY <3>3, <3>4, <3>5
    <3>9. run[p + 1] = SubSeq(all, 1, n)
      <4> HIDE DEF k, n
      <4> QED
        BY <3>6, <3>7, <3>8, ConcatAdjacentSubSeq DEF N
    <3> QED
      BY <3>1, <3>9
  <2>3. 1 \in Nat /\ last \in Nat
    BY <1>4
  <2> HIDE DEF S1
  <2>4. \A p \in 1..last : p \in S1
    BY <2>1, <2>2, <2>3, Upward
  <2> QED
    BY <2>4 DEF S1
<1>9. FlattenSeq(pages) = all
  <2>1. last \in 1..last /\ end(last) = N
    BY <1>1, <1>4
  <2>2. run[last] = SubSeq(all, 1, N)
    BY <1>8, <2>1
  <2> QED
    BY <1>7, <2>2, SubSeqFull DEF N
<1>10. ~answer(last).hasNextPage
  BY <1>1, <1>4, <1>5
<1>11. ASSUME NEW p \in 1..(last - 1)
       PROVE  answer(p).hasNextPage
  <2>1. p \in 1..last /\ p * size < N
    BY <1>4
  <2> QED
    BY <1>5, <2>1
<1> QED
  BY <1>4, <1>9, <1>10, <1>11 DEF N, pages

\* An index that agrees with its records answers completely.
LEMMA IndexedAnswers ==
    ASSUME DiscoveryConstants, NEW s, Indexed(s)
    PROVE  Complete(s)
<1>1. ASSUME NEW kind \in {Posts, Resources}, NEW f \in QueryFilters[kind]
      PROVE  LET wanted == {u \in kind : s.records[u] # NULL /\
                               \A i \in DOMAIN f : f[i] \in s.records[u][i]}
                 all == matches(s, kind, f, Records)
                 answer(p, size) == queryIndex(s, kind, f, Records, p, size)
             IN /\ ToSet(all) = wanted
                /\ \A size \in 1..2 : \E last \in 1..(Len(all) + 1) :
                      /\ ~answer(last, size).hasNextPage
                      /\ \A p \in 1..(last - 1) : answer(p, size).hasNextPage
                      /\ FlattenSeq([p \in 1..last |-> answer(p, size).items]) = all
  <2> DEFINE wanted == {u \in kind : s.records[u] # NULL /\
                           \A i \in DOMAIN f : f[i] \in s.records[u][i]}
             all == matches(s, kind, f, Records)
             R == {p \in wanted \X wanted : RanksBefore(s, p[1], p[2])}
             N == Cardinality(wanted)
  <2>1. kind \subseteq Uris /\ \A i \in DOMAIN f : i \in Index /\ f[i] \in Keys
    <3>1. f \in UNION {{g \in [fs -> Keys] : \A i \in fs : g[i] \in KeysOf(kind, i)} :
                          fs \in SUBSET Filterable}
      BY DEF QueryFilters
    <3>2. PICK fs \in SUBSET Filterable : f \in [fs -> Keys]
      BY <3>1
    <3> QED
      BY <3>2 DEF Index, Uris
  <2>2. {u \in collectCandidates(s, kind, f) : s.records[u] \in Records} = wanted
    <3>1. ASSUME NEW u \in kind, NEW i \in DOMAIN f
          PROVE  s.records[u] # NULL =>
                    (u \in s.index[i][f[i]] <=> f[i] \in s.records[u][i])
      <4>1. u \in Uris /\ i \in Index /\ f[i] \in Keys
        BY <2>1
      <4>2. s.index[i][f[i]] =
               {v \in Uris : s.records[v] # NULL /\ f[i] \in s.records[v][i]}
        BY <4>1 DEF Indexed
      <4> QED
        BY <4>1, <4>2
    <3>2. \A u \in kind : s.records[u] # NULL => s.records[u] \in Records
      BY <2>1 DEF Indexed, Store
    <3> QED
      BY <3>1, <3>2 DEF collectCandidates
  <2>3. all = Listed(wanted, R)
    BY <2>2 DEF matches
  <2>4. wanted \in SUBSET Uris /\ \A u \in wanted : s.records[u] \in Records
    BY <2>1 DEF Indexed, Store
  <2> HIDE DEF wanted
  <2>5. IsFiniteSet(wanted)
    BY <2>4, FS_Subset DEF DiscoveryConstants
  <2>6. StrictOrder(wanted, R)
    <3>1. \A u, v : <<u, v>> \in R <=>
              u \in wanted /\ v \in wanted /\ RanksBefore(s, u, v)
      OBVIOUS
    <3>2. \A u \in wanted : u \in Int
      <4>1. \A u \in Uris : u \in Nat
        BY DEF DiscoveryConstants
      <4> QED
        BY <2>4, <4>1
    <3>3. \A u \in wanted : Score[s.records[u]] \in Int
      BY <2>4 DEF DiscoveryConstants
    <3> HIDE DEF R
    <3> QED
      BY <3>1, <3>2, <3>3 DEF StrictOrder, RanksBefore
  <2> HIDE DEF R
  <2>7. /\ N \in Nat /\ all \in [1..N -> wanted]
        /\ \A u \in wanted : \E k \in 1..N : all[k] = u
    BY <2>3, <2>5, <2>6, ListedIs
  <2> HIDE DEF N, all
  <2>8. all \in Seq(wanted)
    BY <2>7
  <2>9. ToSet(all) = wanted
    BY <2>7 DEF ToSet
  <2>10. \A size \in 1..2 : \E last \in 1..(Len(all) + 1) :
            /\ ~applyPagination(all, last, size).hasNextPage
            /\ \A p \in 1..(last - 1) : applyPagination(all, p, size).hasNextPage
            /\ FlattenSeq([p \in 1..last |-> applyPagination(all, p, size).items]) = all
    BY <2>8, PagesCover
  <2> QED
    BY <2>9, <2>10 DEF all, wanted, queryIndex
<1> QED
  BY <1>1 DEF Complete

(* For any posts, resources, records and creations under way: whatever is    *)
(* created, overtaken or restarted, a query answers with exactly the records *)
(* that have the keys it filters by, and shows each of them once, page after *)
(* page (AnswersStayComplete).                                               *)
THEOREM AnswersStayCompleteAlways ==
    ASSUME DiscoveryConstants
    PROVE  DiscoverySpec => AnswersStayComplete
<1> DEFINE Now == Complete([records |-> records, index |-> indexes])
<1>1. DiscoveryInv => Now
  BY IndexedAnswers DEF DiscoveryInv
<1>2. DiscoveryInv' =>
         (<<records, indexes>>' # <<records, indexes>> =>
             Complete([records |-> records', index |-> indexes']))
  <2>1. DiscoveryInv' => Indexed([records |-> records', index |-> indexes'])
    BY DEF DiscoveryInv
  <2> QED
    BY <2>1, IndexedAnswers
<1> QED
  BY <1>1, <1>2, DiscoveryInvariant, PTL DEF DiscoverySpec, AnswersStayComplete
=============================================================================
