---------------------------- MODULE RingWalkProofs ----------------------------
(***************************************************************************)
(* The walk of preferenceList (ring.hpp) returns what Placement says it    *)
(* returns, in the order of the ring, and for one owner the nearest node   *)
(* that is not rejected: for every ring, key and set of rejected nodes.    *)
(***************************************************************************)
EXTENDS RingWalk, FiniteSetTheorems, WellFoundedInduction, TLAPS

-----------------------------------------------------------------------------
(* The tokens in the order of the walk.                                    *)

LEMMA LeastExists ==
  ASSUME NEW S \in SUBSET Nat, S # {}
  PROVE  \E i \in S : \A j \in S : i <= j
<1> DEFINE less == OpToRel(<, Nat)
<1>1. IsWellFoundedOn(less, Nat)
  BY NatLessThanWellFounded
<1>2. \A i, j \in Nat : j < i => <<j, i>> \in less
  BY DEF OpToRel
<1> HIDE DEF less
<1>3. PICK i \in S : \A j \in S : <<j, i>> \notin less
  BY <1>1, WFMin, Zenon
<1>4. ASSUME NEW j \in S PROVE i <= j
  <2>1. ~(j < i)
    BY <1>2, <1>3
  <2> QED
    BY <2>1
<1> QED
  BY <1>4

LEMMA FirstIsLeast ==
  ASSUME NEW S \in SUBSET Nat, S # {}
  PROVE  First(S) \in S /\ \A u \in S : First(S) <= u
BY LeastExists DEF First

\* The arguments of preferenceList are of their types.
Arguments == ring \in Rings /\ key \in 0 .. MaxToken /\ n \in {1, N} /\ bad \subseteq Node

LEMMA RingFacts ==
  ASSUME Arguments
  PROVE  /\ IsFiniteSet(DOMAIN ring) /\ DOMAIN ring \subseteq Token /\ DOMAIN ring \in SUBSET Nat
         /\ Cardinality(DOMAIN ring) \in 0 .. MaxRing
         /\ \A t \in DOMAIN ring : ring[t] \in Node
         /\ OnRing \subseteq Node /\ IsFiniteSet(OnRing) /\ n \in Nat \ {0}
<1>1. PICK S \in SUBSET Token : Cardinality(S) <= MaxRing /\ ring \in [S -> Node]
  BY DEF Arguments, Rings
<1>2. IsFiniteSet(Token)
  BY TokenAssumption, FS_Interval DEF Token
<1>3. IsFiniteSet(S) /\ Cardinality(S) \in Nat
  BY <1>2, FS_Subset, FS_CardinalityType
<1>4. OnRing \subseteq Node /\ IsFiniteSet(OnRing)
  BY <1>1, NodeAssumption, FS_Subset DEF OnRing
<1>5. n \in Nat \ {0}
  BY QuorumAssumption DEF Arguments
<1> QED
  BY <1>1, <1>3, <1>4, <1>5, TokenAssumption DEF Token

LEMMA DistanceFacts ==
  ASSUME Arguments, NEW t \in DOMAIN ring
  PROVE  /\ Distance(t) \in 1 .. MaxToken /\ Distance(t) \in Nat
         /\ \A u \in DOMAIN ring : Distance(t) = Distance(u) => t = u
<1>1. /\ MaxToken \in Nat /\ key \in 0 .. MaxToken /\ t \in 1 .. MaxToken
      /\ \A u \in DOMAIN ring : u \in 1 .. MaxToken
  BY RingFacts, TokenAssumption DEF Arguments, Token
<1> QED
  BY <1>1 DEF Distance

\* The walk starts at the nearest token.
LEMMA WalkStarts ==
  ASSUME Arguments, DOMAIN ring # {}
  PROVE  /\ After(key) \in DOMAIN ring
         /\ \A u \in DOMAIN ring : Distance(After(key)) <= Distance(u)
<1> DEFINE above == {u \in DOMAIN ring : u > key}
           a == After(key)
<1>1. /\ MaxToken \in Nat /\ key \in 0 .. MaxToken
      /\ \A u \in DOMAIN ring : u \in 1 .. MaxToken
      /\ DOMAIN ring \in SUBSET Nat /\ above \in SUBSET Nat
  BY RingFacts, TokenAssumption DEF Arguments, Token
<1>2. CASE above = {}
  <2>1. a \in DOMAIN ring /\ \A u \in DOMAIN ring : a <= u
    BY <1>1, <1>2, FirstIsLeast DEF After
  <2>2. \A u \in DOMAIN ring : ~(u > key)
    BY <1>2
  <2> HIDE DEF a
  <2> QED
    BY <1>1, <2>1, <2>2 DEF Distance, a
<1>3. CASE above # {}
  <2>1. a \in above /\ \A u \in above : a <= u
    BY <1>1, <1>3, FirstIsLeast DEF After
  <2> HIDE DEF a
  <2>2. ASSUME NEW u \in DOMAIN ring PROVE Distance(a) <= Distance(u)
    <3>1. CASE u > key
      BY <1>1, <2>1, <3>1 DEF Distance
    <3>2. CASE ~(u > key)
      BY <1>1, <2>1, <3>2 DEF Distance
    <3> QED
      BY <3>1, <3>2
  <2> QED
    BY <2>1, <2>2 DEF a
<1> QED
  BY <1>2, <1>3

\* It goes on to the next, as long as there is one further on.
LEMMA WalkGoesOn ==
  ASSUME Arguments, NEW t \in DOMAIN ring, NEW v \in DOMAIN ring, Distance(t) < Distance(v)
  PROVE  /\ After(t) \in DOMAIN ring /\ Distance(t) < Distance(After(t))
         /\ \A u \in DOMAIN ring : Distance(t) < Distance(u) => Distance(After(t)) <= Distance(u)
<1> DEFINE above == {u \in DOMAIN ring : u > t}
           a == After(t)
<1>1. /\ MaxToken \in Nat /\ key \in 0 .. MaxToken
      /\ \A u \in DOMAIN ring : u \in 1 .. MaxToken
      /\ DOMAIN ring \in SUBSET Nat /\ above \in SUBSET Nat
  BY RingFacts, TokenAssumption DEF Arguments, Token
<1>2. CASE above = {}
  <2>1. a \in DOMAIN ring /\ \A u \in DOMAIN ring : a <= u
    BY <1>1, <1>2, FirstIsLeast DEF After
  <2>2. \A u \in DOMAIN ring : u <= t
    BY <1>1, <1>2
  <2>3. v <= key /\ key < t
    BY <1>1, <2>2 DEF Distance
  <2> HIDE DEF a
  <2>4. Distance(t) < Distance(a)
    BY <1>1, <2>1, <2>2, <2>3 DEF Distance
  <2>5. ASSUME NEW u \in DOMAIN ring, Distance(t) < Distance(u) PROVE Distance(a) <= Distance(u)
    BY <1>1, <2>1, <2>2, <2>3, <2>5 DEF Distance
  <2> QED
    BY <2>1, <2>4, <2>5 DEF a
<1>3. CASE above # {}
  <2>1. a \in above /\ \A u \in above : a <= u
    BY <1>1, <1>3, FirstIsLeast DEF After
  <2> HIDE DEF a
  <2>2. a \in DOMAIN ring /\ t < a /\ \A u \in DOMAIN ring : t < u => a <= u
    BY <1>1, <2>1
  <2>3. CASE t > key
    <3>1. Distance(t) < Distance(a)
      BY <1>1, <2>2, <2>3 DEF Distance
    <3>2. ASSUME NEW u \in DOMAIN ring, Distance(t) < Distance(u) PROVE Distance(a) <= Distance(u)
      <4>1. CASE u > key
        BY <1>1, <2>2, <2>3, <3>2, <4>1 DEF Distance
      <4>2. CASE ~(u > key)
        BY <1>1, <2>2, <2>3, <4>2 DEF Distance
      <4> QED
        BY <4>1, <4>2
    <3> QED
      BY <2>2, <3>1, <3>2 DEF a
  <2>4. CASE ~(t > key)
    <3>1. ASSUME NEW u \in DOMAIN ring, Distance(t) < Distance(u) PROVE t < u /\ u <= key
      BY <1>1, <2>4, <3>1 DEF Distance
    <3>2. a <= key
      BY <1>1, <2>2, <3>1
    <3>3. Distance(t) < Distance(a)
      BY <1>1, <2>2, <2>4, <3>2 DEF Distance
    <3>4. ASSUME NEW u \in DOMAIN ring, Distance(t) < Distance(u) PROVE Distance(a) <= Distance(u)
      BY <1>1, <2>2, <3>1, <3>2, <3>4 DEF Distance
    <3> QED
      BY <2>2, <3>3, <3>4 DEF a
  <2> QED
    BY <2>3, <2>4
<1> QED
  BY <1>2, <1>3

\* The tokens before t.
Passed(t) == {u \in DOMAIN ring : Distance(u) < Distance(t)}

LEMMA PassedStarts == ASSUME Arguments, DOMAIN ring # {} PROVE Passed(After(key)) = {}
<1>1. \A u \in DOMAIN ring : Distance(u) \in Nat
  BY DistanceFacts
<1> QED
  BY <1>1, WalkStarts DEF Passed

LEMMA PassedGrows ==
  ASSUME Arguments, NEW t \in DOMAIN ring, NEW v \in DOMAIN ring, v \notin Passed(t) \cup {t}
  PROVE  After(t) \in DOMAIN ring /\ Passed(After(t)) = Passed(t) \cup {t}
<1>1. \A u \in DOMAIN ring : /\ Distance(u) \in Nat
                             /\ Distance(u) = Distance(t) => u = t
  BY DistanceFacts
<1>2. Distance(t) < Distance(v)
  BY <1>1 DEF Passed
<1>3. /\ After(t) \in DOMAIN ring /\ Distance(t) < Distance(After(t))
      /\ \A u \in DOMAIN ring : Distance(t) < Distance(u) => Distance(After(t)) <= Distance(u)
  BY <1>2, WalkGoesOn
<1> DEFINE a == After(t)
<1> HIDE DEF a
<1>4. ASSUME NEW u \in DOMAIN ring PROVE Distance(u) < Distance(a) <=> (Distance(u) < Distance(t) \/ u = t)
  BY <1>1, <1>3 DEF a
<1> QED
  BY <1>3, <1>4 DEF Passed, a

-----------------------------------------------------------------------------
(* The nodes in the order of the walk.                                     *)

LEMMA PositionIsItsFirst ==
  ASSUME Arguments, NEW x \in OnRing
  PROVE  \E t \in DOMAIN ring : /\ ring[t] = x /\ Position[x] = Distance(t)
                                /\ \A u \in DOMAIN ring : ring[u] = x => Distance(t) <= Distance(u)
<1> DEFINE own == {Distance(t) : t \in {u \in DOMAIN ring : ring[u] = x}}
<1>1. \A u \in DOMAIN ring : Distance(u) \in Nat
  BY DistanceFacts
<1>2. x \in Node /\ own \in SUBSET Nat /\ own # {}
  BY <1>1, RingFacts DEF OnRing
<1>3. Position[x] = First(own)
  BY <1>2 DEF Position
<1>4. First(own) \in own /\ \A d \in own : First(own) <= d
  BY <1>2, FirstIsLeast
<1>5. PICK t \in DOMAIN ring : ring[t] = x /\ First(own) = Distance(t)
  BY <1>4
<1>6. ASSUME NEW u \in DOMAIN ring, ring[u] = x PROVE Distance(t) <= Distance(u)
  <2>1. Distance(u) \in own
    BY <1>6
  <2> HIDE DEF own
  <2> QED
    BY <1>4, <1>5, <2>1
<1> HIDE DEF own
<1> QED
  BY <1>3, <1>5, <1>6

LEMMA PositionFacts ==
  ASSUME Arguments
  PROVE  /\ \A x \in OnRing : Position[x] \in Nat
         /\ \A x, y \in OnRing : Position[x] = Position[y] => x = y
<1>1. ASSUME NEW x \in OnRing PROVE Position[x] \in Nat
  BY PositionIsItsFirst, DistanceFacts
<1>2. ASSUME NEW x \in OnRing, NEW y \in OnRing, Position[x] = Position[y] PROVE x = y
  <2>1. PICK t \in DOMAIN ring : ring[t] = x /\ Position[x] = Distance(t)
    BY PositionIsItsFirst
  <2>2. PICK u \in DOMAIN ring : ring[u] = y /\ Position[y] = Distance(u)
    BY PositionIsItsFirst
  <2>3. t = u
    BY <1>2, <2>1, <2>2, DistanceFacts
  <2> QED
    BY <2>1, <2>2, <2>3
<1> QED
  BY <1>1, <1>2

\* S is on the ring, and the rest of the ring comes after it.
ComesFirst(S) == S \subseteq OnRing /\ \A x \in S, y \in OnRing \ S : Position[x] < Position[y]

\* The nodes of the tokens of T.
NodesAt(T) == {ring[u] : u \in T}

LEMMA NodesComeFirst ==
  ASSUME Arguments, NEW T \in SUBSET (DOMAIN ring),
         \A u \in T, v \in DOMAIN ring \ T : Distance(u) < Distance(v)
  PROVE  ComesFirst(NodesAt(T))
<1>1. NodesAt(T) \subseteq OnRing
  BY DEF NodesAt, OnRing
<1>2. ASSUME NEW x \in NodesAt(T), NEW y \in OnRing \ NodesAt(T) PROVE Position[x] < Position[y]
  <2>1. PICK u \in T : ring[u] = x
    BY DEF NodesAt
  <2>2. PICK t \in DOMAIN ring : Position[x] = Distance(t) /\ Distance(t) <= Distance(u)
    BY <1>1, <2>1, PositionIsItsFirst
  <2>3. PICK v \in DOMAIN ring : ring[v] = y /\ Position[y] = Distance(v)
    BY PositionIsItsFirst
  <2>4. v \notin T
    BY <2>3 DEF NodesAt
  <2>5. Distance(u) \in Nat /\ Distance(t) \in Nat /\ Distance(v) \in Nat /\ Distance(u) < Distance(v)
    BY <2>4, DistanceFacts
  <2> QED
    BY <2>2, <2>3, <2>5
<1> QED
  BY <1>1, <1>2 DEF ComesFirst

LEMMA PassedComesFirst ==
  ASSUME Arguments, NEW t \in DOMAIN ring
  PROVE  ComesFirst(NodesAt(Passed(t))) /\ ComesFirst(NodesAt(Passed(t) \cup {t}))
<1>1. \A u \in DOMAIN ring : /\ Distance(u) \in Nat
                             /\ Distance(u) = Distance(t) => u = t
  BY DistanceFacts
<1>2. \A u \in Passed(t), v \in DOMAIN ring \ Passed(t) : Distance(u) < Distance(v)
  BY <1>1 DEF Passed
<1>3. \A u \in Passed(t) \cup {t}, v \in DOMAIN ring \ (Passed(t) \cup {t}) : Distance(u) < Distance(v)
  BY <1>1 DEF Passed
<1>4. Passed(t) \in SUBSET (DOMAIN ring)
  BY DEF Passed
<1> QED
  BY <1>2, <1>3, <1>4, NodesComeFirst

-----------------------------------------------------------------------------
(* Ranks among the nodes, as Placement counts them.                        *)

Rank(S, x) == Cardinality({y \in S : Position[y] < Position[x]})

LEMMA RankType ==
  ASSUME Arguments, NEW T \in SUBSET OnRing, NEW x PROVE Rank(T, x) \in Nat
<1> DEFINE before == {y \in T : Position[y] < Position[x]}
<1>1. IsFiniteSet(before)
  BY RingFacts, FS_Subset
<1> QED
  BY <1>1, FS_CardinalityType DEF Rank

LEMMA PartType ==
  ASSUME Arguments, NEW T \in SUBSET OnRing
  PROVE  IsFiniteSet(T) /\ Cardinality(T) \in Nat
BY RingFacts, FS_Subset, FS_CardinalityType

\* The next node of the walk has before it what was seen.
LEMMA RankOfNext ==
  ASSUME Arguments, NEW S, NEW T \in SUBSET OnRing, NEW c \in OnRing \ S,
         ComesFirst(S), ComesFirst(S \cup {c})
  PROVE  Rank(T, c) = Cardinality(T \cap S)
<1>1. \A x \in OnRing : Position[x] \in Nat
  BY PositionFacts
<1>2. ASSUME NEW y \in T PROVE Position[y] < Position[c] <=> y \in S
  <2>1. CASE y \in S
    BY <2>1 DEF ComesFirst
  <2>2. CASE y = c
    BY <1>1, <2>2
  <2>3. CASE y \notin S /\ y # c
    <3>1. Position[c] < Position[y]
      BY <2>3 DEF ComesFirst
    <3> QED
      BY <1>1, <2>3, <3>1
  <2> QED
    BY <2>1, <2>2, <2>3
<1>3. {y \in T : Position[y] < Position[c]} = T \cap S
  BY <1>2
<1> QED
  BY <1>3 DEF Rank

\* A node not seen yet has at least that before it.
LEMMA RankOfUnseen ==
  ASSUME Arguments, NEW S, NEW T \in SUBSET OnRing, NEW y \in OnRing \ S, ComesFirst(S)
  PROVE  Cardinality(T \cap S) <= Rank(T, y)
<1> DEFINE before == {x \in T : Position[x] < Position[y]}
<1>1. T \cap S \in SUBSET before
  BY DEF ComesFirst
<1>2. IsFiniteSet(before)
  BY PartType
<1> QED
  BY <1>1, <1>2, FS_Subset DEF Rank

\* A node that was seen has less.
LEMMA RankOfSeen ==
  ASSUME Arguments, NEW S, NEW T \in SUBSET OnRing, NEW x \in T \cap S, ComesFirst(S)
  PROVE  Rank(T, x) < Cardinality(T \cap S)
<1> DEFINE before == {y \in T : Position[y] < Position[x]}
           others == (T \cap S) \ {x}
<1>1. \A y \in OnRing : Position[y] \in Nat
  BY PositionFacts
<1>2. ASSUME NEW y \in before PROVE y \in others
  <2>1. y \in T /\ Position[y] < Position[x] /\ y # x
    BY <1>1
  <2>2. CASE y \notin S
    <3>1. Position[x] < Position[y]
      BY <2>1, <2>2 DEF ComesFirst
    <3> QED
      BY <1>1, <2>1, <3>1
  <2> QED
    BY <2>1, <2>2
<1>3. before \in SUBSET others
  BY <1>2
<1>4. IsFiniteSet(T \cap S) /\ Cardinality(T \cap S) \in Nat
  BY PartType
<1>5. IsFiniteSet(others) /\ Cardinality(others) = Cardinality(T \cap S) - 1
  BY <1>4, FS_RemoveElement
<1> HIDE DEF others, before
<1>6. Cardinality(before) <= Cardinality(others) /\ IsFiniteSet(before)
  BY <1>3, <1>5, FS_Subset
<1>7. Cardinality(before) \in Nat
  BY <1>6, FS_CardinalityType
<1> QED
  BY <1>4, <1>5, <1>6, <1>7 DEF Rank, before

LEMMA RankMonotone ==
  ASSUME Arguments, NEW T \in SUBSET OnRing, NEW x \in T, NEW y \in T, Position[x] < Position[y]
  PROVE  Rank(T, x) < Rank(T, y)
<1> DEFINE S == {z \in OnRing : Position[z] < Position[y]}
<1>1. \A z \in OnRing : Position[z] \in Nat
  BY PositionFacts
<1>2. ComesFirst(S)
  BY <1>1 DEF ComesFirst
<1>3. x \in T \cap S
  OBVIOUS
<1>4. T \cap S = {z \in T : Position[z] < Position[y]}
  OBVIOUS
<1> HIDE DEF S
<1>5. Rank(T, x) < Cardinality(T \cap S)
  BY <1>2, <1>3, RankOfSeen
<1> QED
  BY <1>4, <1>5 DEF Rank

LEMMA RankInjective ==
  ASSUME Arguments, NEW T \in SUBSET OnRing, NEW x \in T, NEW y \in T, Rank(T, x) = Rank(T, y)
  PROVE  x = y
<1>1. Position[x] \in Nat /\ Position[y] \in Nat /\ (Position[x] = Position[y] => x = y)
  BY PositionFacts
<1>2. Rank(T, x) \in Nat /\ Rank(T, y) \in Nat
  BY RankType
<1>3. ~(Position[x] < Position[y]) /\ ~(Position[y] < Position[x])
  BY <1>2, RankMonotone
<1> QED
  BY <1>1, <1>3

-----------------------------------------------------------------------------
(* What the list holds when the nodes of S have been seen.                 *)

owners  == {x \in OnRing : Rank(OnRing, x) < n}
waiting == owners \cap bad
spare   == (OnRing \ owners) \ bad

Covers(S) ==
  {e \in [node : spare \cap S, hint : {{x} : x \in waiting \cap S}] :
     \A x \in e.hint : Rank(spare, e.node) = Rank(waiting, x)}

Entries(S) == [node : (owners \cap S) \ bad, hint : {{}}] \cup Covers(S)

LEMMA PlacementEntries == P(Position, n)!PreferenceList(OnRing, bad) = Entries(OnRing)
<1>1. ASSUME NEW S PROVE P(Position, n)!Cardinality(S) = Cardinality(S)
  BY DEF P!Cardinality, Cardinality
<1>2. ASSUME NEW S, NEW x PROVE P(Position, n)!Rank(S, x) = Rank(S, x)
  BY <1>1 DEF P!Rank, Rank
<1>3. P(Position, n)!NaturalOwners(OnRing, n) = owners
  BY <1>2 DEF P!NaturalOwners, owners
<1> QED
  BY <1>2, <1>3 DEF P!PreferenceList, Entries, Covers, waiting, spare, owners

LEMMA NextEntry ==
  ASSUME NEW S, NEW c \in OnRing \ S
  PROVE  /\ c \in owners \ bad => Entries(S \cup {c}) = Entries(S) \cup {[node |-> c, hint |-> {}]}
         /\ c \in waiting /\ spare \cap S = {} => Entries(S \cup {c}) = Entries(S)
         /\ \A x \in waiting \cap S :
              c \in spare /\ (\A y \in waiting \cap S : Rank(spare, c) = Rank(waiting, y) <=> y = x)
                => Entries(S \cup {c}) = Entries(S) \cup {[node |-> c, hint |-> {x}]}
         /\ c \notin owners /\ (c \in bad \/ \A y \in waiting \cap S : Rank(spare, c) # Rank(waiting, y))
              => Entries(S \cup {c}) = Entries(S)
<1> DEFINE T == S \cup {c}
<1>1. CASE c \in owners \ bad
  <2>1. waiting \cap T = waiting \cap S /\ spare \cap T = spare \cap S
    BY <1>1 DEF waiting, spare
  <2>2. Covers(T) = Covers(S)
    BY <2>1 DEF Covers
  <2>3. (owners \cap T) \ bad = ((owners \cap S) \ bad) \cup {c}
    BY <1>1
  <2>4. Entries(T) = Entries(S) \cup {[node |-> c, hint |-> {}]}
    BY <2>2, <2>3 DEF Entries
  <2> QED
    BY <1>1, <2>4 DEF waiting, spare
<1>2. CASE c \in waiting
  <2>1. (owners \cap T) \ bad = (owners \cap S) \ bad /\ spare \cap T = spare \cap S
    BY <1>2 DEF waiting, spare
  <2>2. spare \cap S = {} => Covers(T) = {} /\ Covers(S) = {}
    BY <2>1 DEF Covers
  <2>3. spare \cap S = {} => Entries(T) = Entries(S)
    BY <2>1, <2>2 DEF Entries
  <2> QED
    BY <1>2, <2>3 DEF waiting, spare
<1>3. CASE c \in spare
  <2>1. /\ (owners \cap T) \ bad = (owners \cap S) \ bad /\ waiting \cap T = waiting \cap S
        /\ spare \cap T = (spare \cap S) \cup {c} /\ c \notin owners /\ c \notin bad
    BY <1>3 DEF waiting, spare
  <2>2. Covers(T) = Covers(S) \cup {e \in [node : {c}, hint : {{x} : x \in waiting \cap S}] :
                                     \A x \in e.hint : Rank(spare, c) = Rank(waiting, x)}
    BY <2>1 DEF Covers
  <2>3. ASSUME NEW x \in waiting \cap S,
               \A y \in waiting \cap S : Rank(spare, c) = Rank(waiting, y) <=> y = x
        PROVE  Entries(T) = Entries(S) \cup {[node |-> c, hint |-> {x}]}
    <3>1. Covers(T) = Covers(S) \cup {[node |-> c, hint |-> {x}]}
      BY <2>2, <2>3
    <3> QED
      BY <2>1, <3>1 DEF Entries
  <2>4. ASSUME \A y \in waiting \cap S : Rank(spare, c) # Rank(waiting, y)
        PROVE  Entries(T) = Entries(S)
    <3>1. Covers(T) = Covers(S)
      BY <2>2, <2>4
    <3> QED
      BY <2>1, <3>1 DEF Entries
  <2> QED
    BY <2>1, <2>3, <2>4 DEF waiting
<1>4. CASE c \notin owners /\ c \in bad
  <2>1. /\ (owners \cap T) \ bad = (owners \cap S) \ bad /\ waiting \cap T = waiting \cap S
        /\ spare \cap T = spare \cap S
    BY <1>4 DEF waiting, spare
  <2>2. Entries(T) = Entries(S)
    BY <2>1 DEF Entries, Covers
  <2> QED
    BY <1>4, <2>2 DEF waiting, spare
<1> QED
  BY <1>1, <1>2, <1>3, <1>4 DEF waiting, spare

-----------------------------------------------------------------------------
(* The state of a walk: S is seen, k of the owners are counted, Q waits    *)
(* for a cover and L is the list.                                          *)

Typed(k, Q, L) == k \in 0 .. n /\ Q \in Seq(Node) /\ L \in Seq([node : Node, hint : SUBSET Node])

Counted(S, k, Q, L) ==
  /\ k < n => k = Cardinality(S)
  /\ k = n => n <= Cardinality(S)
  /\ Len(L) + Len(Q) = k

\* As many covers are given as owners have left the queue.
Queued(S, Q) ==
  LET given == Cardinality(waiting \cap S) - Len(Q)
  IN  /\ \A i \in 1 .. Len(Q) : Q[i] \in waiting \cap S /\ Rank(waiting, Q[i]) = given + i - 1
      /\ given <= Cardinality(spare \cap S)
      /\ Q # <<>> => given = Cardinality(spare \cap S)

Listed(S, L) == {L[i] : i \in DOMAIN L} = Entries(S)

Ordered(L) ==
  \A i, j \in DOMAIN L : i < j =>
    \/ L[i].hint = {} /\ L[j].hint # {}
    \/ /\ L[i].hint = {} <=> L[j].hint = {}
       /\ Position[L[i].node] < Position[L[j].node]

Good(S, k, Q, L) ==
  ComesFirst(S) /\ Typed(k, Q, L) /\ Counted(S, k, Q, L) /\ Queued(S, Q) /\ Listed(S, L) /\ Ordered(L)

LEMMA PartsOfRing ==
  ASSUME Arguments
  PROVE  owners \in SUBSET OnRing /\ waiting \in SUBSET OnRing /\ spare \in SUBSET OnRing
BY DEF owners, waiting, spare

\* What is known of the node the walk meets next.
LEMMA NextNode ==
  ASSUME Arguments, NEW S, NEW k, NEW Q, NEW L, Good(S, k, Q, L), NEW c \in OnRing \ S,
         ComesFirst(S \cup {c})
  PROVE  /\ c \in owners <=> k < n
         /\ Rank(waiting, c) = Cardinality(waiting \cap S)
         /\ Rank(spare, c) = Cardinality(spare \cap S)
         /\ k < n => spare \cap S = {}
         /\ Cardinality(S) \in Nat /\ Cardinality(S \cup {c}) = Cardinality(S) + 1
<1>1. ComesFirst(S) /\ S \in SUBSET OnRing /\ OnRing \cap S = S
  BY DEF Good, ComesFirst
<1>2. Rank(OnRing, c) = Cardinality(S)
  BY <1>1, RankOfNext
<1>3. IsFiniteSet(S) /\ Cardinality(S) \in Nat
  BY <1>1, PartType
<1>4. n \in Nat /\ k \in 0 .. n
  BY RingFacts DEF Good, Typed
<1>5. c \in owners <=> k < n
  BY <1>2, <1>3, <1>4 DEF Good, Counted, owners
<1>6. Rank(waiting, c) = Cardinality(waiting \cap S) /\ Rank(spare, c) = Cardinality(spare \cap S)
  BY <1>1, PartsOfRing, RankOfNext
<1>7. ASSUME k < n, NEW x \in spare \cap S PROVE FALSE
  <2>1. x \in OnRing \cap S
    BY <1>1
  <2>2. Rank(OnRing, x) < Cardinality(S)
    BY <1>1, <2>1, RankOfSeen
  <2>3. Rank(OnRing, x) \in Nat
    BY RankType
  <2>4. x \in owners
    BY <1>3, <1>4, <1>7, <2>1, <2>2, <2>3 DEF Good, Counted, owners
  <2> QED
    BY <2>4 DEF spare
<1>8. Cardinality(S \cup {c}) = Cardinality(S) + 1
  BY <1>3, FS_AddElement
<1> QED
  BY <1>3, <1>5, <1>6, <1>7, <1>8

\* How the counts of the parts change.
LEMMA PartGrows ==
  ASSUME Arguments, NEW T \in SUBSET OnRing, NEW S \in SUBSET OnRing, NEW c \in OnRing \ S
  PROVE  /\ Cardinality(T \cap S) \in Nat
         /\ c \in T => Cardinality(T \cap (S \cup {c})) = Cardinality(T \cap S) + 1
         /\ c \notin T => T \cap (S \cup {c}) = T \cap S
<1>1. IsFiniteSet(T \cap S) /\ Cardinality(T \cap S) \in Nat
  BY PartType
<1>2. c \in T => T \cap (S \cup {c}) = (T \cap S) \cup {c}
  OBVIOUS
<1>3. Cardinality((T \cap S) \cup {c}) = Cardinality(T \cap S) + 1
  BY <1>1, FS_AddElement
<1> QED
  BY <1>1, <1>2, <1>3

\* The list with one more entry.
LEMMA ListGrows ==
  ASSUME Arguments, NEW S, NEW k, NEW Q, NEW L, Good(S, k, Q, L), NEW c \in OnRing \ S,
         ComesFirst(S \cup {c}), NEW x \in SUBSET Node,
         x = {} => spare \cap S = {}, Entries(S \cup {c}) = Entries(S) \cup {[node |-> c, hint |-> x]}
  PROVE  LET M == Append(L, [node |-> c, hint |-> x])
         IN  /\ M \in Seq([node : Node, hint : SUBSET Node]) /\ Len(M) = Len(L) + 1
             /\ Listed(S \cup {c}, M) /\ Ordered(M)
<1> DEFINE e == [node |-> c, hint |-> x]
           M == Append(L, e)
<1>1. e \in [node : Node, hint : SUBSET Node] /\ L \in Seq([node : Node, hint : SUBSET Node])
  BY RingFacts DEF Good, Typed
<1>2. e.node = c /\ e.hint = x
  OBVIOUS
<1> HIDE DEF e
<1>3. /\ M \in Seq([node : Node, hint : SUBSET Node]) /\ Len(M) = Len(L) + 1 /\ Len(L) \in Nat
      /\ DOMAIN M = 1 .. Len(L) + 1 /\ DOMAIN L = 1 .. Len(L)
      /\ \A i \in 1 .. Len(L) : M[i] = L[i]
      /\ M[Len(L) + 1] = e
  BY <1>1
<1> HIDE DEF M
<1>4. {M[i] : i \in DOMAIN M} = {L[i] : i \in DOMAIN L} \cup {e}
  <2>1. \A i \in DOMAIN M : i \in DOMAIN L \/ i = Len(L) + 1
    BY <1>3
  <2>2. \A i \in DOMAIN L : i \in DOMAIN M
    BY <1>3
  <2> QED
    BY <1>3, <2>1, <2>2
<1>5. Listed(S \cup {c}, M)
  BY <1>4 DEF Listed, Good, e
<1>6. ASSUME NEW i \in DOMAIN L
      PROVE  Position[L[i].node] < Position[c] /\ (x = {} => L[i].hint = {})
  <2>1. L[i] \in Entries(S)
    BY DEF Good, Listed
  <2>2. L[i].node \in S /\ (spare \cap S = {} => L[i].hint = {})
    BY <2>1 DEF Entries, Covers
  <2>3. Position[L[i].node] < Position[c]
    BY <2>2 DEF Good, ComesFirst
  <2> QED
    BY <2>2, <2>3
<1>7. ASSUME NEW i \in DOMAIN M, NEW j \in DOMAIN M, i < j
      PROVE  \/ M[i].hint = {} /\ M[j].hint # {}
             \/ /\ M[i].hint = {} <=> M[j].hint = {}
                /\ Position[M[i].node] < Position[M[j].node]
  <2>1. i \in DOMAIN L /\ M[i] = L[i]
    BY <1>3, <1>7
  <2>2. CASE j \in DOMAIN L
    <3>1. M[j] = L[j]
      BY <1>3, <2>2
    <3> QED
      BY <1>7, <2>1, <2>2, <3>1 DEF Good, Ordered
  <2>3. CASE j = Len(L) + 1
    BY <1>2, <1>3, <1>6, <2>1, <2>3
  <2> QED
    BY <1>3, <2>2, <2>3
<1>8. Ordered(M)
  BY <1>7 DEF Ordered
<1> QED
  BY <1>3, <1>5, <1>8 DEF M, e

LEMMA QueuedAs ==
  ASSUME NEW S, NEW Q, NEW given, Cardinality(waiting \cap S) - Len(Q) = given,
         \A i \in 1 .. Len(Q) : Q[i] \in waiting \cap S /\ Rank(waiting, Q[i]) = given + i - 1,
         given <= Cardinality(spare \cap S), Q # <<>> => given = Cardinality(spare \cap S)
  PROVE  Queued(S, Q)
BY DEF Queued

\* An owner that is not rejected stands for itself.
LEMMA OwnerListed ==
  ASSUME Arguments, NEW S, NEW k, NEW Q, NEW L, Good(S, k, Q, L), NEW c \in OnRing \ S,
         ComesFirst(S \cup {c}), k < n, c \notin bad
  PROVE  Good(S \cup {c}, k + 1, Q, Append(L, [node |-> c, hint |-> {}]))
<1> DEFINE T == S \cup {c}
           M == Append(L, [node |-> c, hint |-> {}])
<1>1. /\ n \in Nat /\ k \in 0 .. n /\ Q \in Seq(Node) /\ S \in SUBSET OnRing
      /\ L \in Seq([node : Node, hint : SUBSET Node])
  BY RingFacts DEF Good, Typed, ComesFirst
<1>2. /\ c \in owners \ bad /\ spare \cap S = {}
      /\ Cardinality(S) \in Nat /\ Cardinality(T) = Cardinality(S) + 1
  BY NextNode
<1>3. Entries(T) = Entries(S) \cup {[node |-> c, hint |-> {}]}
  BY <1>2, NextEntry
<1>4. /\ M \in Seq([node : Node, hint : SUBSET Node]) /\ Len(M) = Len(L) + 1
      /\ Listed(T, M) /\ Ordered(M)
  <2>1. {} \in SUBSET Node
    OBVIOUS
  <2> QED
    BY <1>2, <1>3, <2>1, ListGrows
<1> HIDE DEF M
<1>5. waiting \cap T = waiting \cap S /\ spare \cap T = spare \cap S
  BY <1>2 DEF waiting, spare
<1> HIDE DEF T
<1>6. Queued(T, Q)
  BY <1>5 DEF Good, Queued
<1>7. Typed(k + 1, Q, M)
  BY <1>1, <1>4 DEF Typed
<1>8. Len(L) \in Nat /\ Len(Q) \in Nat
  BY <1>1
<1>9. Counted(T, k + 1, Q, M)
  BY <1>1, <1>2, <1>4, <1>8 DEF Good, Counted
<1> QED
  BY <1>4, <1>6, <1>7, <1>9 DEF Good, T, M

\* One that is rejected waits at the end of the queue.
LEMMA OwnerWaits ==
  ASSUME Arguments, NEW S, NEW k, NEW Q, NEW L, Good(S, k, Q, L), NEW c \in OnRing \ S,
         ComesFirst(S \cup {c}), k < n, c \in bad
  PROVE  Good(S \cup {c}, k + 1, Append(Q, c), L)
<1> DEFINE T == S \cup {c}
           Z == Append(Q, c)
           w == Cardinality(waiting \cap S)
           given == w - Len(Q)
<1>1. /\ n \in Nat /\ k \in 0 .. n /\ Q \in Seq(Node) /\ S \in SUBSET OnRing /\ c \in Node
      /\ L \in Seq([node : Node, hint : SUBSET Node])
  BY RingFacts DEF Good, Typed, ComesFirst
<1>2. /\ c \in waiting /\ spare \cap S = {} /\ Rank(waiting, c) = w
      /\ Cardinality(S) \in Nat /\ Cardinality(T) = Cardinality(S) + 1
  BY NextNode DEF waiting
<1>3. Entries(T) = Entries(S)
  BY <1>2, NextEntry
<1>4. /\ Z \in Seq(Node) /\ Len(Z) = Len(Q) + 1 /\ Len(Q) \in Nat
      /\ \A i \in 1 .. Len(Q) : Z[i] = Q[i]
      /\ Z[Len(Q) + 1] = c
  BY <1>1
<1>5. w \in Nat /\ Cardinality(waiting \cap T) = w + 1 /\ spare \cap T = spare \cap S
  BY <1>1, <1>2, PartsOfRing, PartGrows DEF waiting, spare
<1>6. Cardinality(spare \cap S) = 0
  BY <1>2, FS_EmptySet
<1>7. /\ \A i \in 1 .. Len(Q) : Q[i] \in waiting \cap S /\ Rank(waiting, Q[i]) = given + i - 1
      /\ given <= 0
      /\ Q # <<>> => given = 0
  BY <1>6 DEF Good, Queued
<1>8. Q = <<>> <=> Len(Q) = 0
  BY <1>1
<1>9. given = 0
  BY <1>4, <1>5, <1>7, <1>8
<1> HIDE DEF Z, w
<1>10. ASSUME NEW i \in 1 .. Len(Z)
       PROVE  Z[i] \in waiting \cap T /\ Rank(waiting, Z[i]) = 0 + i - 1
  <2>1. CASE i \in 1 .. Len(Q)
    BY <1>4, <1>7, <1>9, <2>1 DEF T
  <2>2. CASE i = Len(Q) + 1
    BY <1>2, <1>4, <1>5, <1>9, <2>2 DEF T
  <2> QED
    BY <1>4, <2>1, <2>2
<1>11. Cardinality(waiting \cap T) - Len(Z) = 0
  BY <1>4, <1>5, <1>9
<1> HIDE DEF T
<1>12. Queued(T, Z)
  <2>1. 0 <= Cardinality(spare \cap T) /\ (Z # <<>> => 0 = Cardinality(spare \cap T))
    BY <1>5, <1>6
  <2> QED
    BY <1>10, <1>11, <2>1, QueuedAs
<1>13. Typed(k + 1, Z, L)
  BY <1>1, <1>4 DEF Typed
<1>14. Counted(T, k + 1, Z, L)
  <2>1. Len(L) \in Nat
    BY <1>1
  <2> QED
    BY <1>1, <1>2, <1>4, <2>1 DEF Good, Counted
<1>15. Listed(T, L)
  BY <1>3 DEF Good, Listed, T
<1> QED
  BY <1>12, <1>13, <1>14, <1>15 DEF Good, T, Z

\* A node after the owners covers the one that waits longest.
LEMMA CoverGiven ==
  ASSUME Arguments, NEW S, NEW k, NEW Q, NEW L, Good(S, k, Q, L), NEW c \in OnRing \ S,
         ComesFirst(S \cup {c}), k >= n, c \notin bad, Q # <<>>
  PROVE  Good(S \cup {c}, k, Tail(Q), Append(L, [node |-> c, hint |-> {Head(Q)}]))
<1> DEFINE T == S \cup {c}
           Z == Tail(Q)
           x == Head(Q)
           M == Append(L, [node |-> c, hint |-> {x}])
           w == Cardinality(waiting \cap S)
           given == w - Len(Q)
           p == Cardinality(spare \cap S)
<1>1. /\ n \in Nat /\ k \in 0 .. n /\ Q \in Seq(Node) /\ S \in SUBSET OnRing
      /\ L \in Seq([node : Node, hint : SUBSET Node]) /\ Len(Q) \in Nat /\ Len(L) \in Nat
  BY RingFacts DEF Good, Typed, ComesFirst
<1>2. k = n /\ c \notin owners
  <2>1. k = n /\ ~(k < n)
    BY <1>1
  <2> QED
    BY <2>1, NextNode
<1>3. c \in spare /\ Rank(spare, c) = p /\ Cardinality(S) \in Nat /\ Cardinality(T) = Cardinality(S) + 1
  BY <1>2, NextNode DEF spare
<1>4. /\ Z \in Seq(Node) /\ Len(Q) >= 1 /\ Len(Z) = Len(Q) - 1 /\ x = Q[1] /\ x \in Node
      /\ \A i \in 1 .. Len(Q) - 1 : Z[i] = Q[i + 1]
  BY <1>1
<1>5. /\ \A i \in 1 .. Len(Q) : Q[i] \in waiting \cap S /\ Rank(waiting, Q[i]) = given + i - 1
      /\ given = p
  BY DEF Good, Queued
<1>6. w \in Nat /\ p \in Nat /\ waiting \cap T = waiting \cap S /\ Cardinality(spare \cap T) = p + 1
  BY <1>1, <1>3, PartsOfRing, PartGrows DEF waiting, spare
<1> HIDE DEF Z, x, w, p
<1>7. x \in waiting \cap S /\ Rank(waiting, x) = p
  BY <1>1, <1>4, <1>5, <1>6
<1>8. \A y \in waiting \cap S : Rank(spare, c) = Rank(waiting, y) <=> y = x
  BY <1>3, <1>7, PartsOfRing, RankInjective
<1>9. Entries(T) = Entries(S) \cup {[node |-> c, hint |-> {x}]}
  BY <1>3, <1>7, <1>8, NextEntry
<1>10. /\ M \in Seq([node : Node, hint : SUBSET Node]) /\ Len(M) = Len(L) + 1
       /\ Listed(T, M) /\ Ordered(M)
  <2>1. {x} \in SUBSET Node /\ {x} # {}
    BY <1>4
  <2> QED
    BY <1>9, <2>1, ListGrows
<1> HIDE DEF M, T
<1>11. Queued(T, Z)
  <2>1. Cardinality(waiting \cap T) - Len(Z) = p + 1
    <3>1. Cardinality(waiting \cap T) = w
      BY <1>6 DEF w
    <3>2. w - Len(Q) = p
      BY <1>5
    <3> QED
      BY <1>1, <1>4, <1>6, <3>1, <3>2
  <2>2. ASSUME NEW i \in 1 .. Len(Z)
        PROVE  Z[i] \in waiting \cap T /\ Rank(waiting, Z[i]) = (p + 1) + i - 1
    <3>1. i \in 1 .. Len(Q) - 1 /\ i + 1 \in 1 .. Len(Q)
      BY <1>1, <1>4
    <3>2. Z[i] = Q[i + 1] /\ Q[i + 1] \in waiting \cap S /\ Rank(waiting, Q[i + 1]) = p + (i + 1) - 1
      BY <1>4, <1>5, <3>1
    <3> QED
      BY <1>6, <3>1, <3>2
  <2> QED
    <3>1. p + 1 <= Cardinality(spare \cap T) /\ (Z # <<>> => p + 1 = Cardinality(spare \cap T))
      BY <1>6
    <3> QED
      BY <2>1, <2>2, <3>1, QueuedAs
<1>12. Typed(k, Z, M)
  BY <1>1, <1>4, <1>10 DEF Typed
<1>13. Counted(T, k, Z, M)
  <2>1. n <= Cardinality(S) /\ Len(L) + Len(Q) = k
    BY <1>2 DEF Good, Counted
  <2>2. n <= Cardinality(T)
    BY <1>1, <1>3, <2>1
  <2>3. Len(M) + Len(Z) = k
    <3>1. Len(M) = Len(L) + 1 /\ Len(Z) = Len(Q) - 1
      BY <1>4, <1>10
    <3> QED
      BY <1>1, <2>1, <3>1
  <2>4. ~(k < n)
    BY <1>1, <1>2
  <2> QED
    BY <2>2, <2>3, <2>4 DEF Counted
<1> QED
  BY <1>10, <1>11, <1>12, <1>13 DEF Good, T, Z, M, x

\* A node after the owners that is rejected, or has nobody to cover.
LEMMA NodePassed ==
  ASSUME Arguments, NEW S, NEW k, NEW Q, NEW L, Good(S, k, Q, L), NEW c \in OnRing \ S,
         ComesFirst(S \cup {c}), k >= n, c \in bad \/ Q = <<>>
  PROVE  Good(S \cup {c}, k, Q, L)
<1> DEFINE T == S \cup {c}
           w == Cardinality(waiting \cap S)
           p == Cardinality(spare \cap S)
<1>1. /\ n \in Nat /\ k \in 0 .. n /\ Q \in Seq(Node) /\ S \in SUBSET OnRing
      /\ L \in Seq([node : Node, hint : SUBSET Node]) /\ Len(Q) \in Nat
  BY RingFacts DEF Good, Typed, ComesFirst
<1>2. k = n /\ c \notin owners /\ c \notin waiting
  <2>1. k = n /\ ~(k < n)
    BY <1>1
  <2>2. c \notin owners
    BY <2>1, NextNode
  <2> QED
    BY <2>1, <2>2 DEF waiting
<1>3. Rank(spare, c) = p /\ Cardinality(S) \in Nat /\ Cardinality(T) = Cardinality(S) + 1
  BY NextNode
<1>4. w \in Nat /\ p \in Nat /\ waiting \cap T = waiting \cap S
  BY <1>1, <1>2, PartsOfRing, PartGrows
<1>5. Counted(T, k, Q, L)
  BY <1>1, <1>2, <1>3 DEF Good, Counted
<1>6. CASE c \in bad
  <2>1. spare \cap T = spare \cap S
    BY <1>6 DEF spare
  <2>2. Entries(T) = Entries(S)
    BY <1>2, <1>6, NextEntry
  <2> HIDE DEF T
  <2>3. Queued(T, Q) /\ Listed(T, L)
    BY <1>4, <2>1, <2>2 DEF Good, Queued, Listed
  <2> QED
    BY <1>5, <2>3 DEF Good, T
<1>7. CASE c \notin bad /\ Q = <<>>
  <2>1. c \in spare /\ Len(Q) = 0
    BY <1>2, <1>7 DEF spare
  <2>2. Cardinality(spare \cap T) = p + 1
    BY <1>1, <2>1, PartsOfRing, PartGrows
  <2>3. w <= p
    BY <1>4, <2>1 DEF Good, Queued
  <2>4. ASSUME NEW y \in waiting \cap S PROVE Rank(spare, c) # Rank(waiting, y)
    <3>1. Rank(waiting, y) < w /\ Rank(waiting, y) \in Nat
      BY PartsOfRing, RankOfSeen, RankType DEF Good
    <3> HIDE DEF w, p
    <3> QED
      BY <1>3, <1>4, <2>3, <3>1
  <2>5. Entries(T) = Entries(S)
    BY <1>2, <2>4, NextEntry
  <2> HIDE DEF T
  <2>6. Queued(T, Q)
    <3>1. Cardinality(waiting \cap T) - Len(Q) = w
      <4>1. Cardinality(waiting \cap T) = w
        BY <1>4
      <4> HIDE DEF w
      <4> QED
        BY <1>4, <2>1, <4>1
    <3>2. \A i \in 1 .. Len(Q) : Q[i] \in waiting \cap T /\ Rank(waiting, Q[i]) = w + i - 1
      BY <2>1
    <3> HIDE DEF w, p
    <3>3. w <= Cardinality(spare \cap T)
      BY <1>4, <2>2, <2>3
    <3>4. Q # <<>> => w = Cardinality(spare \cap T)
      BY <1>7
    <3> QED
      BY <3>1, <3>2, <3>3, <3>4, QueuedAs
  <2>7. Listed(T, L)
    BY <2>5 DEF Good, Listed
  <2> QED
    BY <1>5, <2>6, <2>7 DEF Good, T
<1> QED
  BY <1>6, <1>7

\* Whoever has n entries, or has seen the whole ring, has them all.
LEMMA ListComplete ==
  ASSUME Arguments, NEW S, NEW k, NEW Q, NEW L, Good(S, k, Q, L), Len(L) = n \/ S = OnRing
  PROVE  Entries(S) = Entries(OnRing)
<1> SUFFICES ASSUME Len(L) = n PROVE Entries(S) = Entries(OnRing)
  OBVIOUS
<1>1. /\ n \in Nat /\ k \in 0 .. n /\ Q \in Seq(Node) /\ Len(Q) \in Nat
      /\ ComesFirst(S) /\ S \in SUBSET OnRing /\ OnRing \cap S = S
  BY RingFacts DEF Good, Typed, ComesFirst
<1>2. k = n /\ Len(Q) = 0 /\ n <= Cardinality(S) /\ Q = <<>>
  BY <1>1 DEF Good, Counted
<1>3. Cardinality(S) \in Nat /\ Cardinality(waiting \cap S) \in Nat /\ Cardinality(spare \cap S) \in Nat
  BY <1>1, PartsOfRing, PartType
<1>4. Cardinality(waiting \cap S) <= Cardinality(spare \cap S)
  BY <1>2, <1>3 DEF Good, Queued
<1>5. ASSUME NEW y \in OnRing \ S PROVE y \notin owners
  <2>1. Cardinality(S) <= Rank(OnRing, y) /\ Rank(OnRing, y) \in Nat
    BY <1>1, RankOfUnseen, RankType
  <2> QED
    BY <1>1, <1>2, <1>3, <2>1 DEF owners
<1>6. owners \cap S = owners /\ owners \cap OnRing = owners
      /\ waiting \cap S = waiting /\ waiting \cap OnRing = waiting
  BY <1>5, PartsOfRing DEF waiting
<1>7. ASSUME NEW y \in spare \ S, NEW x \in waiting PROVE Rank(spare, y) # Rank(waiting, x)
  <2>1. Cardinality(spare \cap S) <= Rank(spare, y) /\ Rank(spare, y) \in Nat
    BY <1>1, PartsOfRing, RankOfUnseen, RankType
  <2>2. Rank(waiting, x) < Cardinality(waiting \cap S) /\ Rank(waiting, x) \in Nat
    BY <1>1, <1>6, PartsOfRing, RankOfSeen, RankType
  <2> QED
    BY <1>3, <1>4, <2>1, <2>2
<1>8. Covers(S) = Covers(OnRing)
  <2>1. spare \cap OnRing = spare
    BY PartsOfRing
  <2> QED
    BY <1>6, <1>7, <2>1 DEF Covers
<1> QED
  BY <1>6, <1>8 DEF Entries

-----------------------------------------------------------------------------
(* The invariant of the walk.                                              *)

WalkGood == Good(seen, natural_count, pending_hints, preference_list)

WalkInv ==
  /\ Arguments /\ WalkGood
  /\ it \in DOMAIN ring \cup {0} /\ visited \in 0 .. MaxRing /\ pc \in {"start", "walk", "done"}
  /\ pc = "start" => visited = 0 /\ seen = {}
  /\ pc = "walk" => /\ it \in DOMAIN ring /\ visited = Cardinality(Passed(it))
                    /\ seen = NodesAt(Passed(it))
  /\ pc = "done" => Len(preference_list) = n \/ seen = OnRing

LEMMA ArgumentsStay ==
  ASSUME UNCHANGED arguments
  PROVE  /\ Arguments' <=> Arguments
         /\ Position' = Position /\ OnRing' = OnRing
         /\ owners' = owners /\ waiting' = waiting /\ spare' = spare
<1>1. Arguments' <=> Arguments
  BY DEF arguments, Arguments, Rings
<1>2. Position' = Position /\ OnRing' = OnRing
  BY DEF arguments, Position, OnRing, Distance, First
<1>3. owners' = owners
  BY <1>2 DEF arguments, owners, Rank
<1>4. waiting' = waiting /\ spare' = spare
  BY <1>2, <1>3 DEF arguments, waiting, spare
<1> QED
  BY <1>1, <1>2, <1>3, <1>4

LEMMA GoodStays ==
  ASSUME UNCHANGED arguments,
         NEW S, S = seen', NEW k, k = natural_count', NEW Q, Q = pending_hints',
         NEW L, L = preference_list', Good(S, k, Q, L)
  PROVE  WalkGood'
<1>1. /\ Position' = Position /\ OnRing' = OnRing /\ n' = n /\ bad' = bad
      /\ owners' = owners /\ waiting' = waiting /\ spare' = spare
  BY ArgumentsStay DEF arguments
<1>2. ComesFirst(seen)'
  BY <1>1 DEF Good, ComesFirst
<1>3. Typed(natural_count, pending_hints, preference_list)'
  BY <1>1 DEF Good, Typed
<1>4. Counted(seen, natural_count, pending_hints, preference_list)'
  BY <1>1 DEF Good, Counted
<1>5. Queued(seen, pending_hints)'
  BY <1>1 DEF Good, Queued, Rank
<1>6. Listed(seen, preference_list)'
  BY <1>1 DEF Good, Listed, Entries, Covers, Rank
<1>7. Ordered(preference_list)'
  BY <1>1 DEF Good, Ordered
<1> QED
  BY <1>2, <1>3, <1>4, <1>5, <1>6, <1>7 DEF WalkGood, Good

LEMMA EmptyGood == ASSUME Arguments PROVE Good({}, 0, <<>>, <<>>)
<1>1. Cardinality({}) = 0
  BY FS_EmptySet
<1>2. ComesFirst({})
  BY DEF ComesFirst
<1>3. Typed(0, <<>>, <<>>) /\ Counted({}, 0, <<>>, <<>>)
  BY <1>1, RingFacts DEF Typed, Counted
<1>4. waiting \cap {} = {} /\ spare \cap {} = {}
  OBVIOUS
<1>5. Queued({}, <<>>)
  BY <1>1, <1>4 DEF Queued
<1>6. Entries({}) = {}
  BY DEF Entries, Covers
<1>7. Listed({}, <<>>) /\ Ordered(<<>>)
  BY <1>6 DEF Listed, Ordered
<1> QED
  BY <1>2, <1>3, <1>5, <1>7 DEF Good

LEMMA WalkInit == Init => WalkInv
<1> SUFFICES ASSUME Init PROVE WalkInv
  OBVIOUS
<1>1. Arguments
  BY DEF Init, Arguments
<1>2. WalkGood
  BY <1>1, EmptyGood DEF Init, WalkGood
<1> QED
  BY <1>1, <1>2, TokenAssumption DEF Init, WalkInv

LEMMA BeginStep == ASSUME WalkInv, Begin PROVE WalkInv'
<1>1. /\ UNCHANGED arguments /\ Arguments /\ seen = {} /\ visited = 0 /\ pc = "start"
      /\ UNCHANGED <<visited, seen, natural_count, pending_hints, preference_list>>
  BY DEF Begin, WalkInv
<1>2. Arguments' /\ WalkGood' /\ OnRing' = OnRing /\ ring' = ring
  BY <1>1, ArgumentsStay, GoodStays DEF WalkInv, WalkGood, arguments
<1>3. CASE DOMAIN ring = {}
  <2>1. pc' = "done" /\ it' = it /\ OnRing = {}
    BY <1>3 DEF Begin, OnRing
  <2> QED
    BY <1>1, <1>2, <2>1 DEF WalkInv
<1>4. CASE DOMAIN ring # {}
  <2>1. pc' = "walk" /\ it' = After(key)
    BY <1>4 DEF Begin
  <2>2. After(key) \in DOMAIN ring /\ Passed(After(key)) = {}
    BY <1>1, <1>4, WalkStarts, PassedStarts
  <2>3. Passed(it)' = {}
    BY <1>1, <2>1, <2>2 DEF Passed, Distance, arguments
  <2>4. (Cardinality(Passed(it)) = 0)' /\ (NodesAt(Passed(it)) = {})'
    BY <2>3, FS_EmptySet DEF NodesAt
  <2> QED
    BY <1>1, <1>2, <2>1, <2>2, <2>4 DEF WalkInv
<1> QED
  BY <1>3, <1>4

\* The node under the iterator is seen, and the lists follow.
LEMMA VisitGood ==
  ASSUME WalkInv, Visit
  PROVE  /\ seen' = seen \cup {ring[it]}
         /\ Good(seen', natural_count', pending_hints', preference_list')
<1> DEFINE c == ring[it]
<1>1. /\ Arguments /\ it \in DOMAIN ring /\ seen = NodesAt(Passed(it))
      /\ Good(seen, natural_count, pending_hints, preference_list)
  BY DEF WalkInv, WalkGood, Visit
<1>2. c \in OnRing /\ ComesFirst(seen \cup {c})
  <2>1. NodesAt(Passed(it) \cup {it}) = NodesAt(Passed(it)) \cup {c}
    BY DEF NodesAt
  <2> QED
    BY <1>1, <2>1, PassedComesFirst DEF OnRing
<1>3. natural_count \in 0 .. n /\ n \in Nat
  BY <1>1, RingFacts DEF Good, Typed
<1> HIDE DEF c
<1>4. CASE Repeated(c)
  BY <1>1, <1>4 DEF Repeated, c
<1>5. CASE Natural(c)
  <2>1. c \in OnRing \ seen /\ seen' = seen \cup {c} /\ natural_count < n
        /\ natural_count' = natural_count + 1
    BY <1>2, <1>5 DEF Natural
  <2>2. CASE c \in bad
    <3>1. pending_hints' = Append(pending_hints, c) /\ preference_list' = preference_list
      BY <1>5, <2>2 DEF Natural
    <3> QED
      BY <1>1, <1>2, <2>1, <2>2, <3>1, OwnerWaits DEF c
  <2>3. CASE c \notin bad
    <3>1. /\ pending_hints' = pending_hints
          /\ preference_list' = Append(preference_list, [node |-> c, hint |-> {}])
      BY <1>5, <2>3 DEF Natural, Push
    <3> QED
      BY <1>1, <1>2, <2>1, <2>3, <3>1, OwnerListed DEF c
  <2> QED
    BY <2>2, <2>3
<1>6. CASE Cover(c)
  <2>1. /\ c \in OnRing \ seen /\ seen' = seen \cup {c} /\ natural_count >= n
        /\ natural_count' = natural_count /\ c \notin bad /\ pending_hints # <<>>
        /\ pending_hints' = Tail(pending_hints)
        /\ preference_list' = Append(preference_list, [node |-> c, hint |-> {Head(pending_hints)}])
    BY <1>2, <1>6 DEF Cover, Push
  <2> QED
    BY <1>1, <1>2, <2>1, CoverGiven DEF c
<1>7. CASE Pass(c)
  <2>1. /\ c \in OnRing \ seen /\ seen' = seen \cup {c} /\ natural_count >= n
        /\ natural_count' = natural_count /\ (c \in bad \/ pending_hints = <<>>)
        /\ pending_hints' = pending_hints /\ preference_list' = preference_list
    BY <1>2, <1>7 DEF Pass
  <2> QED
    BY <1>1, <1>2, <2>1, NodePassed DEF c
<1> QED
  BY <1>4, <1>5, <1>6, <1>7 DEF Visit, c

LEMMA VisitStep == ASSUME WalkInv, Visit PROVE WalkInv'
<1> DEFINE T == Passed(it) \cup {it}
<1>1. /\ UNCHANGED arguments /\ ring' = ring /\ Arguments /\ it \in DOMAIN ring
      /\ visited = Cardinality(Passed(it)) /\ seen = NodesAt(Passed(it)) /\ visited' = visited + 1
  BY DEF WalkInv, Visit, arguments
<1>2. /\ seen' = seen \cup {ring[it]}
      /\ Good(seen', natural_count', pending_hints', preference_list')
  BY VisitGood
<1>3. Arguments' /\ WalkGood' /\ OnRing' = OnRing /\ n' = n
  BY <1>1, <1>2, ArgumentsStay, GoodStays DEF arguments
<1>4. seen' = NodesAt(T)
  BY <1>1, <1>2 DEF NodesAt
<1>5. /\ IsFiniteSet(DOMAIN ring) /\ T \in SUBSET (DOMAIN ring) /\ it \notin Passed(it)
      /\ Cardinality(DOMAIN ring) \in 0 .. MaxRing
  <2>1. Distance(it) \in Nat
    BY <1>1, DistanceFacts
  <2> QED
    BY <1>1, <2>1, RingFacts DEF Passed
<1>6. Cardinality(T) = visited'
  <2>1. IsFiniteSet(Passed(it))
    BY <1>5, FS_Subset
  <2> QED
    BY <1>1, <1>5, <2>1, FS_AddElement
<1> HIDE DEF T
<1>7. IsFiniteSet(T) /\ visited' \in Nat /\ visited' <= Cardinality(DOMAIN ring)
      /\ (visited' = Cardinality(DOMAIN ring) => T = DOMAIN ring)
  <2>1. IsFiniteSet(T) /\ Cardinality(T) <= Cardinality(DOMAIN ring)
        /\ (Cardinality(DOMAIN ring) = Cardinality(T) => DOMAIN ring = T)
    BY <1>5, FS_Subset
  <2> QED
    BY <1>6, <2>1, FS_CardinalityType
<1>8. visited' \in 0 .. MaxRing
  BY <1>5, <1>7, TokenAssumption
<1>9. CASE Len(preference_list') = n \/ visited' >= Cardinality(DOMAIN ring)
  <2>1. pc' = "done" /\ it' = it
    BY <1>9 DEF Visit
  <2>2. Len(preference_list') = n \/ seen' = OnRing
    <3>1. CASE visited' >= Cardinality(DOMAIN ring)
      <4>1. T = DOMAIN ring
        BY <1>5, <1>7, <3>1
      <4> QED
        BY <1>4, <4>1 DEF NodesAt, OnRing
    <3> QED
      BY <1>9, <3>1
  <2> QED
    BY <1>1, <1>3, <1>8, <2>1, <2>2 DEF WalkInv
<1>10. CASE ~(Len(preference_list') = n \/ visited' >= Cardinality(DOMAIN ring))
  <2>1. pc' = "walk" /\ it' = After(it)
    BY <1>10 DEF Visit
  <2>2. PICK v \in DOMAIN ring : v \notin T
    <3>1. T # DOMAIN ring
      BY <1>5, <1>6, <1>7, <1>10
    <3> QED
      BY <1>5, <3>1
  <2>3. After(it) \in DOMAIN ring /\ Passed(After(it)) = T
    BY <1>1, <2>2, PassedGrows DEF T
  <2>4. Passed(it)' = T
    BY <1>1, <2>1, <2>3 DEF Passed, Distance, arguments
  <2>5. NodesAt(Passed(it))' = seen' /\ Cardinality(Passed(it))' = visited'
    BY <1>1, <1>4, <1>6, <2>4 DEF NodesAt
  <2> QED
    BY <1>1, <1>3, <1>8, <2>1, <2>3, <2>5 DEF WalkInv
<1> QED
  BY <1>9, <1>10

\* After every turn: the nodes seen come first on the ring, and the list, the
\* queue and the count are what they should be for them.
THEOREM WalkInvariant == Spec => []WalkInv
<1>1. WalkInv /\ [Next]_vars => WalkInv'
  <2> SUFFICES ASSUME WalkInv, [Next]_vars PROVE WalkInv'
    OBVIOUS
  <2>1. CASE UNCHANGED vars
    <3>1. /\ UNCHANGED arguments
          /\ UNCHANGED <<it, visited, seen, natural_count, pending_hints, preference_list, pc>>
      BY <2>1 DEF vars, arguments
    <3>2. Arguments' /\ WalkGood' /\ OnRing' = OnRing
      BY <3>1, ArgumentsStay, GoodStays DEF WalkInv, WalkGood
    <3>3. Passed(it)' = Passed(it)
      BY <3>1 DEF Passed, Distance, arguments
    <3>4. NodesAt(Passed(it))' = NodesAt(Passed(it)) /\ Cardinality(Passed(it))' = Cardinality(Passed(it))
      BY <3>1, <3>3 DEF NodesAt, arguments
    <3> QED
      BY <3>1, <3>2, <3>4 DEF WalkInv, arguments
  <2> QED
    BY <2>1, BeginStep, VisitStep DEF Next
<1> QED
  BY <1>1, WalkInit, PTL DEF Spec

-----------------------------------------------------------------------------
(* What the walk promises.                                                 *)

\* The state of preferenceList's loop is well formed: the iterator is on the
\* ring, it has not turned more often than a ring has tokens, and at most n
\* owners are counted.
THEOREM WalkTypes == Spec => []TypeOK
<1>1. WalkInv => TypeOK
  <2> SUFFICES ASSUME WalkInv PROVE TypeOK
    OBVIOUS
  <2>1. Arguments /\ ComesFirst(seen) /\ Typed(natural_count, pending_hints, preference_list)
    BY DEF WalkInv, WalkGood, Good
  <2>2. seen \subseteq Node
    BY <2>1, RingFacts DEF ComesFirst
  <2> QED
    BY <2>1, <2>2 DEF WalkInv, Arguments, Typed, TypeOK
<1> QED
  BY <1>1, WalkInvariant, PTL

\* At every moment of the walk the list has its owners first and then its
\* covers, and each in the order in which preferenceList meets them.
THEOREM WalkKeepsOrder == Spec => []ListInWalkOrder
<1>1. WalkInv => ListInWalkOrder
  BY DEF WalkInv, WalkGood, Good, Ordered, ListInWalkOrder
<1> QED
  BY <1>1, WalkInvariant, PTL

LEMMA NodesOfEntries ==
  ASSUME Arguments, NEW S, NEW e \in Entries(S) PROVE e.node \in OnRing
BY PartsOfRing DEF Entries, Covers

\* No entry is listed twice.
LEMMA EntriesDiffer ==
  ASSUME Arguments, NEW S, NEW k, NEW Q, NEW L, Good(S, k, Q, L)
  PROVE  Cardinality({L[i] : i \in DOMAIN L}) = Len(L)
<1> DEFINE E == {L[i] : i \in DOMAIN L}
<1>1. L \in Seq([node : Node, hint : SUBSET Node]) /\ Len(L) \in Nat /\ DOMAIN L = 1 .. Len(L)
  BY DEF Good, Typed
<1>2. L \in [1 .. Len(L) -> E]
  BY <1>1
<1>3. ASSUME NEW i \in DOMAIN L PROVE L[i].node \in OnRing
  <2>1. L[i] \in Entries(S)
    BY DEF Good, Listed
  <2> QED
    BY <2>1, NodesOfEntries
<1>4. ASSUME NEW i \in DOMAIN L, NEW j \in DOMAIN L, i < j PROVE L[i] # L[j]
  <2>1. Position[L[i].node] \in Nat
    BY <1>3, PositionFacts
  <2>2. \/ L[i].hint = {} /\ L[j].hint # {}
        \/ Position[L[i].node] < Position[L[j].node]
    BY <1>4 DEF Good, Ordered
  <2> QED
    BY <2>1, <2>2
<1>5. ASSUME NEW i \in 1 .. Len(L), NEW j \in 1 .. Len(L), L[i] = L[j] PROVE i = j
  <2>1. ~(i < j) /\ ~(j < i)
    BY <1>1, <1>4, <1>5
  <2> QED
    BY <1>1, <2>1
<1>6. \A e \in E : \E i \in 1 .. Len(L) : L[i] = e
  BY <1>1
<1> HIDE DEF E
<1>7. L \in Bijection(1 .. Len(L), E)
  BY <1>2, <1>5, <1>6 DEF Bijection, Injection, Surjection, IsInjective
<1>8. ExistsBijection(1 .. Len(L), E)
  BY <1>7 DEF ExistsBijection
<1> QED
  BY <1>1, <1>8, FS_CountingElements DEF E

\* When the walk is over its list holds what Placement says preferenceList
\* returns, and nothing of it twice, for every ring, key and set of nodes that
\* is_reachable rejects.
THEOREM WalkReturnsPlacement == Spec => []WalkIsPlacement
<1>1. WalkInv => WalkIsPlacement
  <2> SUFFICES ASSUME WalkInv, pc = "done"
               PROVE  /\ {preference_list[i] : i \in DOMAIN preference_list}
                           = P(Position, n)!PreferenceList(OnRing, bad)
                      /\ Cardinality({preference_list[i] : i \in DOMAIN preference_list})
                           = Len(preference_list)
    BY DEF WalkIsPlacement
  <2>1. /\ Arguments /\ Good(seen, natural_count, pending_hints, preference_list)
        /\ Len(preference_list) = n \/ seen = OnRing
    BY DEF WalkInv, WalkGood
  <2>2. Entries(seen) = Entries(OnRing)
    BY <2>1, ListComplete
  <2>3. {preference_list[i] : i \in DOMAIN preference_list} = Entries(OnRing)
    BY <2>1, <2>2 DEF Good, Listed
  <2> QED
    BY <2>1, <2>3, PlacementEntries, EntriesDiffer
<1> QED
  BY <1>1, WalkInvariant, PTL

LEMMA RankOfLeast ==
  ASSUME Arguments, NEW T \in SUBSET OnRing, NEW x \in T
  PROVE  Rank(T, x) = 0 <=> \A y \in T : Position[x] <= Position[y]
<1>1. \A y \in OnRing : Position[y] \in Nat
  BY PositionFacts
<1>2. ASSUME Rank(T, x) = 0, NEW y \in T PROVE Position[x] <= Position[y]
  <2>1. Rank(T, y) \in Nat
    BY RankType
  <2>2. ~(Rank(T, y) < Rank(T, x))
    BY <1>2, <2>1
  <2>3. ~(Position[y] < Position[x])
    BY <2>2, RankMonotone
  <2> QED
    BY <1>1, <2>3
<1>3. ASSUME \A y \in T : Position[x] <= Position[y] PROVE Rank(T, x) = 0
  <2>1. {y \in T : Position[y] < Position[x]} = {}
    BY <1>1, <1>3
  <2> QED
    BY <2>1, FS_EmptySet DEF Rank
<1> QED
  BY <1>2, <1>3

\* For one owner the list names the nearest node that is not rejected.
LEMMA OneEntry ==
  ASSUME Arguments, n = 1
  PROVE  {e.node : e \in Entries(OnRing)} = P(Position, 1)!Nearest(OnRing \ bad)
<1> DEFINE T == OnRing \ bad
<1>1. \A x \in OnRing : Position[x] \in Nat /\ Rank(OnRing, x) \in Nat
  BY PositionFacts, RankType
<1>2. \A x \in owners : x \in OnRing /\ \A y \in OnRing : Position[x] <= Position[y]
  <2> SUFFICES ASSUME NEW x \in owners PROVE x \in OnRing /\ \A y \in OnRing : Position[x] <= Position[y]
    OBVIOUS
  <2>1. x \in OnRing /\ Rank(OnRing, x) = 0
    BY <1>1 DEF owners
  <2> QED
    BY <2>1, RankOfLeast
<1>3. ASSUME NEW x \in waiting PROVE Rank(waiting, x) = 0 /\ T = spare
  <2>1. \A y \in owners : y = x
    BY <1>1, <1>2, PositionFacts DEF waiting
  <2>2. T = spare
    BY <2>1 DEF waiting, spare
  <2>3. \A y \in waiting : Position[x] <= Position[y]
    BY <1>2 DEF waiting
  <2> QED
    BY <2>2, <2>3, PartsOfRing, RankOfLeast
<1>4. ASSUME NEW e \in Entries(OnRing) PROVE e.node \in T /\ \A y \in T : Position[e.node] <= Position[y]
  <2>1. CASE e \in [node : owners \ bad, hint : {{}}]
    BY <1>2, <2>1
  <2>2. CASE e \in Covers(OnRing)
    <3>1. PICK x \in waiting : e.hint = {x}
      BY <2>2 DEF Covers
    <3>2. e.node \in spare /\ Rank(spare, e.node) = 0
      BY <1>3, <2>2, <3>1 DEF Covers
    <3>3. \A y \in spare : Position[e.node] <= Position[y]
      BY <3>2, PartsOfRing, RankOfLeast
    <3> QED
      BY <1>3, <3>1, <3>2, <3>3
  <2> QED
    BY <2>1, <2>2 DEF Entries
<1>5. ASSUME NEW x \in T, \A y \in T : Position[x] <= Position[y] PROVE \E e \in Entries(OnRing) : e.node = x
  <2>1. CASE x \in owners
    <3>1. [node |-> x, hint |-> {}] \in Entries(OnRing)
      BY <2>1 DEF Entries
    <3> QED
      BY <3>1
  <2>2. CASE x \notin owners
    <3> DEFINE D == {Position[y] : y \in OnRing}
    <3>1. D \in SUBSET Nat /\ D # {}
      BY <1>1
    <3>2. PICK d \in D : \A c \in D : d <= c
      BY <3>1, LeastExists
    <3>3. PICK z \in OnRing : Position[z] = d
      BY <3>2
    <3>4. \A y \in OnRing : Position[z] <= Position[y]
      BY <3>2, <3>3
    <3>5. z \in owners
      <4>1. Rank(OnRing, z) = 0
        BY <3>4, RankOfLeast
      <4> QED
        BY <4>1 DEF owners
    <3>6. z \in waiting
      <4>1. z # x
        BY <2>2, <3>5
      <4>2. ~(z \in T)
        <5>1. Position[z] # Position[x]
          BY <4>1, PositionFacts
        <5> QED
          BY <1>1, <1>5, <3>4, <5>1
      <4> QED
        BY <3>5, <4>2 DEF waiting
    <3>7. x \in spare /\ Rank(spare, x) = 0
      <4>1. x \in spare
        BY <2>2 DEF spare
      <4>2. \A y \in spare : Position[x] <= Position[y]
        BY <1>3, <1>5, <3>6
      <4> QED
        BY <4>1, <4>2, PartsOfRing, RankOfLeast
    <3>8. Rank(waiting, z) = 0
      BY <1>3, <3>6
    <3> DEFINE e == [node |-> x, hint |-> {z}]
    <3>9. e \in Covers(OnRing)
      BY <3>3, <3>6, <3>7, <3>8 DEF Covers
    <3> QED
      BY <3>9 DEF Entries
  <2> QED
    BY <2>1, <2>2
<1>6. P(Position, 1)!Nearest(T) = {x \in T : \A y \in T : Position[x] <= Position[y]}
  BY DEF P!Nearest
<1> QED
  BY <1>4, <1>5, <1>6

\* findSubstitute walks for one owner, and what it gets is the nearest node it
\* did not exclude: at hand or as the cover of an owner it passed over.
THEOREM WalkReturnsNearest == Spec => []WalkFindsNearest
<1>1. WalkInv => WalkFindsNearest
  <2> SUFFICES ASSUME WalkInv, pc = "done", n = 1
               PROVE  {preference_list[i].node : i \in DOMAIN preference_list}
                        = P(Position, 1)!Nearest(OnRing \ bad)
    BY DEF WalkFindsNearest
  <2>1. /\ Arguments /\ Good(seen, natural_count, pending_hints, preference_list)
        /\ Len(preference_list) = n \/ seen = OnRing
    BY DEF WalkInv, WalkGood
  <2>2. Entries(seen) = Entries(OnRing)
    BY <2>1, ListComplete
  <2>3. {preference_list[i] : i \in DOMAIN preference_list} = Entries(OnRing)
    BY <2>1, <2>2 DEF Good, Listed
  <2>4. {preference_list[i].node : i \in DOMAIN preference_list} = {e.node : e \in Entries(OnRing)}
    BY <2>3
  <2> QED
    BY <2>1, <2>4, OneEntry
<1> QED
  BY <1>1, WalkInvariant, PTL
===============================================================================
