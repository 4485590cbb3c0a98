------------------------------ MODULE DigestProofs ------------------------------
(* What is proved about Listing for every store, page size and bound, and about   *)
(* Digest for every window, schedule, page and number of restarts.                *)
EXTENDS Listing, Digest, FiniteSetTheorems, NaturalsInduction, WellFoundedInduction, TLAPS

-----------------------------------------------------------------------------
(* Ranks.                                                                     *)

\* How many of S come before i; Rank(i) is Before(store, i).
Before(S, i) == {j \in S : j < i}

\* A set that misses an element of another is smaller by one, and one that has at most
\* one element more is larger by at most one.
LEMMA OneLess ==
  ASSUME NEW S, IsFiniteSet(S), NEW x \in S, NEW T \in SUBSET (S \ {x})
  PROVE  Cardinality(T) <= Cardinality(S) - 1
<1>1. IsFiniteSet(S \ {x}) /\ Cardinality(S \ {x}) = Cardinality(S) - 1
  BY FS_RemoveElement
<1>2. Cardinality(T) <= Cardinality(S \ {x})
  BY <1>1, FS_Subset
<1> QED
  BY <1>1, <1>2

LEMMA OneMore ==
  ASSUME NEW S, IsFiniteSet(S), NEW x, NEW T \in SUBSET (S \cup {x})
  PROVE  Cardinality(T) <= Cardinality(S) + 1
<1>1. /\ IsFiniteSet(S \cup {x}) /\ Cardinality(S) \in Nat
      /\ Cardinality(S \cup {x}) = IF x \in S THEN Cardinality(S) ELSE Cardinality(S) + 1
  BY FS_AddElement, FS_CardinalityType
<1>2. Cardinality(T) <= Cardinality(S \cup {x}) /\ Cardinality(T) \in Nat
  BY <1>1, FS_Subset, FS_CardinalityType
<1> QED
  BY <1>1, <1>2

\* Sets of memories are finite.
LEMMA IdsFinite ==
  ASSUME NEW S \in SUBSET Ids
  PROVE  /\ IsFiniteSet(S) /\ Cardinality(S) \in Nat
         /\ \A i \in S : i \in Nat
         /\ \A i : IsFiniteSet(Before(S, i)) /\ Cardinality(Before(S, i)) \in Nat
<1>1. \A T \in SUBSET Ids : IsFiniteSet(T) /\ Cardinality(T) \in Nat
  BY IdsAssumption, FS_Subset, FS_CardinalityType
<1>2. \A i : Before(S, i) \subseteq Ids
  BY DEF Before
<1> QED
  BY <1>1, <1>2, IdsAssumption

\* An earlier memory has a lower rank.
LEMMA RankIncreases ==
  ASSUME NEW S \in SUBSET Ids, NEW i \in S, NEW k \in S, i < k
  PROVE  Cardinality(Before(S, i)) < Cardinality(Before(S, k))
<1>1. i \in Before(S, k) /\ Before(S, i) \subseteq Before(S, k) \ {i}
  BY IdsFinite DEF Before
<1>2. /\ IsFiniteSet(Before(S, k)) /\ Cardinality(Before(S, k)) \in Nat
      /\ Cardinality(Before(S, i)) \in Nat
  BY IdsFinite
<1>3. Cardinality(Before(S, i)) <= Cardinality(Before(S, k)) - 1
  BY <1>1, <1>2, OneLess
<1> QED
  BY <1>2, <1>3

\* So different memories have different ranks.
LEMMA RankIsOwn ==
  ASSUME NEW S \in SUBSET Ids, NEW i \in S, NEW k \in S,
         Cardinality(Before(S, i)) = Cardinality(Before(S, k))
  PROVE  i = k
<1>1. i \in Nat /\ k \in Nat /\ Cardinality(Before(S, i)) \in Nat /\ Cardinality(Before(S, k)) \in Nat
  BY IdsFinite
<1>2. i < k \/ k < i \/ i = k
  BY <1>1
<1> QED
  BY <1>1, <1>2, RankIncreases

\* A memory that is added or deleted moves the others by one place at most.
LEMMA RankMoves ==
  ASSUME NEW S \in SUBSET Ids, NEW x \in Ids, NEW i \in Ids
  PROVE  /\ Cardinality(Before(S, i)) <= Cardinality(Before(S \cup {x}, i))
         /\ Cardinality(Before(S \cup {x}, i)) <= Cardinality(Before(S, i)) + 1
<1>1. /\ Before(S, i) \subseteq Before(S \cup {x}, i)
      /\ Before(S \cup {x}, i) \subseteq Before(S, i) \cup {x}
  BY DEF Before
<1>2. IsFiniteSet(Before(S, i)) /\ IsFiniteSet(Before(S \cup {x}, i))
  <2>1. S \cup {x} \in SUBSET Ids
    OBVIOUS
  <2> QED
    BY <2>1, IdsFinite
<1> QED
  BY <1>1, <1>2, OneMore, FS_Subset

\* Every nonempty set of numbers has a least one.
LEMMA LeastElement ==
  ASSUME NEW B \in SUBSET Nat, B # {}
  PROVE  \E x \in B : \A y \in B : x <= y
<1> DEFINE R == OpToRel(<, Nat)
<1>1. IsWellFoundedOn(R, Nat)
  BY NatLessThanWellFounded
<1>2. \A x, y \in Nat : y < x => <<y, x>> \in R
  BY DEF OpToRel
<1> HIDE DEF R
<1>3. PICK x \in B : \A y \in B : <<y, x>> \notin R
  BY <1>1, WFMin
<1>4. \A y \in B : ~(y < x)
  BY <1>2, <1>3
<1> QED
  BY <1>4

\* The first n memories are all there are, or n of them.
LEMMA FirstAreEnough ==
  ASSUME NEW S \in SUBSET Ids, NEW n \in Nat,
         NEW i \in S, n <= Cardinality(Before(S, i)) + 1
  PROVE  n <= Cardinality({k \in S : Cardinality(Before(S, k)) < n})
<1> DEFINE F == {k \in S : Cardinality(Before(S, k)) < n}
<1>1. /\ IsFiniteSet(F) /\ Cardinality(F) \in Nat /\ IsFiniteSet(S) /\ S \subseteq Nat
      /\ \A k : IsFiniteSet(Before(S, k)) /\ Cardinality(Before(S, k)) \in Nat
  BY IdsFinite
<1>2. CASE F = S
  <2>1. i \in S /\ Before(S, i) \subseteq S \ {i}
    BY <1>1 DEF Before
  <2>2. Cardinality(Before(S, i)) <= Cardinality(S) - 1 /\ Cardinality(S) \in Nat
    BY <1>1, <2>1, OneLess, FS_CardinalityType
  <2>3. Cardinality(F) = Cardinality(S) /\ Cardinality(Before(S, i)) \in Nat
    BY <1>1, <1>2
  <2> HIDE DEF F
  <2>4. n <= Cardinality(F)
    BY <2>2, <2>3
  <2> QED
    BY <2>4 DEF F
<1>3. CASE F # S
  <2>1. PICK k \in S \ F : \A y \in S \ F : k <= y
    BY <1>1, <1>3, LeastElement
  <2>2. Before(S, k) \subseteq F
    <3> SUFFICES ASSUME NEW j \in S, j < k, j \notin F PROVE FALSE
      BY DEF Before
    <3>1. k <= j /\ j \in Nat /\ k \in Nat
      BY <1>1, <2>1
    <3> QED
      BY <3>1
  <2>3. Cardinality(Before(S, k)) <= Cardinality(F)
    BY <1>1, <2>2, FS_Subset
  <2>4. n <= Cardinality(Before(S, k))
    BY <1>1, <2>1
  <2> QED
    BY <1>1, <2>3, <2>4
<1> QED
  BY <1>2, <1>3

-----------------------------------------------------------------------------
(* Enumerating the store (Listing).                                           *)

\* The memories a running enumeration has gone past without giving them, and those it has
\* given more than once or may give again.
Missed    == {i \in stable \ given : Rank(i) < offset}
GivenMore == twice \cup {i \in store \cap given : Rank(i) >= offset}

ListInv ==
  /\ ListTypeOK
  /\ unborn \cap given = {}
  /\ Running => Cardinality(Missed) <= removed /\ Cardinality(GivenMore) <= added
  /\ EnumerationBounded

\* The sets that are counted are finite.
LEMMA CountedFinite ==
  ASSUME ListTypeOK
  PROVE  /\ Missed \subseteq Ids /\ GivenMore \subseteq Ids /\ twice \subseteq Ids
         /\ IsFiniteSet(Missed) /\ IsFiniteSet(GivenMore)
         /\ Cardinality(Missed) \in Nat /\ Cardinality(GivenMore) \in Nat
         /\ Cardinality(twice) <= Cardinality(GivenMore) /\ Cardinality(twice) \in Nat
         /\ \A i \in Ids : Rank(i) = Cardinality(Before(store, i)) /\ Rank(i) \in Nat
<1>1. Missed \subseteq Ids /\ GivenMore \subseteq Ids /\ twice \subseteq Ids /\ store \subseteq Ids
  BY DEF ListTypeOK, Missed, GivenMore
<1>2. twice \subseteq GivenMore
  BY DEF GivenMore
<1>3. \A i \in Ids : Rank(i) = Cardinality(Before(store, i))
  BY DEF Rank, Before
<1>4. /\ IsFiniteSet(Missed) /\ IsFiniteSet(GivenMore)
      /\ Cardinality(Missed) \in Nat /\ Cardinality(GivenMore) \in Nat
      /\ Cardinality(twice) \in Nat
  BY <1>1, IdsFinite
<1>5. Cardinality(twice) <= Cardinality(GivenMore)
  BY <1>2, <1>4, FS_Subset
<1>6. \A i \in Ids : Rank(i) = Cardinality(Before(store, i)) /\ Rank(i) \in Nat
  BY <1>1, <1>3, IdsFinite
<1> QED
  BY <1>1, <1>4, <1>5, <1>6

\* Every step keeps the types.
LEMMA ListTypeStep == ASSUME ListTypeOK, [ListNext]_listVars PROVE ListTypeOK'
<1> USE DEF ListTypeOK, caller
<1>1. ASSUME NEW i \in Ids, Add(i) \/ Delete(i) \/ Expire(i) PROVE ListTypeOK'
  BY <1>1 DEF Add, Delete, Expire
<1>2. CASE GetPage
  <2>1. FreshPage \subseteq Ids /\ offset + Limit \in Nat
    BY PageAssumption DEF FreshPage, Slice, Fetched, FirstN
  <2> QED
    BY <1>2, <2>1 DEF GetPage, Running, NextOffset
<1>3. CASE Refuse \/ UNCHANGED listVars
  BY <1>3 DEF Refuse, listVars
<1> QED
  BY <1>1, <1>2, <1>3 DEF ListNext

\* An added memory pushes at most one given memory to where the caller will look next.
LEMMA AddStep ==
  ASSUME ListInv, NEW x \in Ids, Add(x) PROVE ListInv'
<1>0. /\ ListTypeOK /\ unborn \cap given = {} /\ Running
      /\ Cardinality(Missed) <= removed /\ Cardinality(GivenMore) <= added
      /\ store \subseteq Ids /\ offset \in Nat /\ added \in Nat /\ removed \in Nat
      /\ given \subseteq Ids /\ stable \subseteq store
  BY DEF ListInv, ListTypeOK, Add
<1>1. /\ store' = store \cup {x} /\ unborn' = unborn \ {x} /\ added' = added + 1
      /\ expired' = expired /\ stable' = stable /\ removed' = removed /\ offset' = offset
      /\ outcome' = outcome /\ given' = given /\ twice' = twice /\ x \in unborn
  BY DEF Add, caller
<1>2. ListTypeOK'
  BY <1>0, ListTypeStep DEF ListNext
<1>3. \A i \in Ids : /\ Rank(i) \in Nat /\ Rank(i)' \in Nat
                     /\ Rank(i) <= Rank(i)' /\ Rank(i)' <= Rank(i) + 1
  <2> SUFFICES ASSUME NEW i \in Ids
               PROVE  /\ Rank(i) \in Nat /\ Rank(i)' \in Nat
                      /\ Rank(i) <= Rank(i)' /\ Rank(i)' <= Rank(i) + 1
    OBVIOUS
  <2>1. Rank(i) = Cardinality(Before(store, i)) /\ Rank(i)' = Cardinality(Before(store \cup {x}, i))
    BY <1>1 DEF Rank, Before
  <2>2. store \cup {x} \in SUBSET Ids
    BY <1>0
  <2>3. /\ Cardinality(Before(store, i)) <= Cardinality(Before(store \cup {x}, i))
        /\ Cardinality(Before(store \cup {x}, i)) <= Cardinality(Before(store, i)) + 1
    BY <1>0, RankMoves
  <2>4. Cardinality(Before(store, i)) \in Nat /\ Cardinality(Before(store \cup {x}, i)) \in Nat
    BY <1>0, <2>2, IdsFinite
  <2> QED
    BY <2>1, <2>3, <2>4
<1>4. Missed' \subseteq Missed
  <2> SUFFICES ASSUME NEW i \in stable \ given, Rank(i)' < offset PROVE Rank(i) < offset
    BY <1>1 DEF Missed
  <2> QED
    BY <1>0, <1>3
<1>5. \E y : GivenMore' \subseteq GivenMore \cup {y}
  <2>1. CASE \E y \in store : Rank(y) = offset - 1
    <3>1. PICK y \in store : Rank(y) = offset - 1
      BY <2>1
    <3>2. GivenMore' \subseteq GivenMore \cup {y}
      <4> SUFFICES ASSUME NEW i \in store \cup {x}, i \in given, Rank(i)' >= offset
                   PROVE  i = y \/ (i \in store /\ Rank(i) >= offset)
        BY <1>1 DEF GivenMore
      <4>1. i \in store /\ Rank(i) \in Nat /\ Rank(i)' <= Rank(i) + 1 /\ Rank(i)' \in Nat
        BY <1>0, <1>1, <1>3
      <4>2. Rank(i) >= offset \/ Rank(i) = offset - 1
        BY <1>0, <4>1
      <4>3. Rank(i) = Rank(y) => i = y
        BY <1>0, <4>1, RankIsOwn, CountedFinite
      <4> QED
        BY <3>1, <4>1, <4>2, <4>3
    <3> QED
      BY <3>2
  <2>2. CASE ~\E y \in store : Rank(y) = offset - 1
    <3>1. GivenMore' \subseteq GivenMore
      <4> SUFFICES ASSUME NEW i \in store \cup {x}, i \in given, Rank(i)' >= offset
                   PROVE  i \in store /\ Rank(i) >= offset
        BY <1>1 DEF GivenMore
      <4>1. i \in store /\ Rank(i) \in Nat /\ Rank(i)' <= Rank(i) + 1 /\ Rank(i)' \in Nat
        BY <1>0, <1>1, <1>3
      <4> QED
        BY <1>0, <2>2, <4>1
    <3> QED
      BY <3>1
  <2> QED
    BY <2>1, <2>2
<1>6. Cardinality(Missed') <= removed' /\ Cardinality(GivenMore') <= added'
  <2>1. Cardinality(GivenMore') <= Cardinality(GivenMore) + 1 /\ Cardinality(Missed') <= Cardinality(Missed)
    BY <1>0, <1>4, <1>5, CountedFinite, OneMore, FS_Subset
  <2>2. Cardinality(GivenMore') \in Nat /\ Cardinality(Missed') \in Nat
        /\ Cardinality(GivenMore) \in Nat /\ Cardinality(Missed) \in Nat
    <3>1. GivenMore' \subseteq Ids /\ Missed' \subseteq Ids
      BY <1>2 DEF ListTypeOK, GivenMore, Missed
    <3> QED
      BY <1>0, <3>1, CountedFinite, IdsFinite
  <2> QED
    BY <1>0, <1>1, <2>1, <2>2
<1>7. EnumerationBounded'
  <2>1. Cardinality(twice) <= Cardinality(GivenMore) /\ Cardinality(twice) \in Nat
        /\ Cardinality(GivenMore) \in Nat
    BY <1>0, CountedFinite
  <2> QED
    BY <1>0, <1>1, <2>1 DEF EnumerationBounded, Running
<1> QED
  BY <1>0, <1>1, <1>2, <1>6, <1>7 DEF ListInv

\* A deleted memory pulls at most one memory past where the caller will look next.
LEMMA DeleteStep ==
  ASSUME ListInv, NEW x \in Ids, Delete(x) PROVE ListInv'
<1>0. /\ ListTypeOK /\ unborn \cap given = {} /\ Running
      /\ Cardinality(Missed) <= removed /\ Cardinality(GivenMore) <= added
      /\ store \subseteq Ids /\ offset \in Nat /\ added \in Nat /\ removed \in Nat
      /\ given \subseteq Ids /\ stable \subseteq store /\ x \in store
  BY DEF ListInv, ListTypeOK, Delete
<1>1. /\ store' = store \ {x} /\ unborn' = unborn /\ removed' = removed + 1
      /\ stable' = stable \ {x} /\ added' = added /\ offset' = offset
      /\ outcome' = outcome /\ given' = given /\ twice' = twice
  BY DEF Delete, caller
<1>2. ListTypeOK'
  BY <1>0, ListTypeStep DEF ListNext
<1>3. \A i \in Ids : /\ Rank(i) \in Nat /\ Rank(i)' \in Nat
                     /\ Rank(i)' <= Rank(i) /\ Rank(i) <= Rank(i)' + 1
  <2> SUFFICES ASSUME NEW i \in Ids
               PROVE  /\ Rank(i) \in Nat /\ Rank(i)' \in Nat
                      /\ Rank(i)' <= Rank(i) /\ Rank(i) <= Rank(i)' + 1
    OBVIOUS
  <2>1. PICK S \in SUBSET Ids : S = store \ {x} /\ store = S \cup {x}
    BY <1>0
  <2>2. Rank(i) = Cardinality(Before(S \cup {x}, i)) /\ Rank(i)' = Cardinality(Before(S, i))
    BY <1>1, <2>1 DEF Rank, Before
  <2>3. S \cup {x} \in SUBSET Ids
    BY <1>0, <2>1
  <2> QED
    BY <2>2, <2>3, RankMoves, IdsFinite
<1>4. \E y : Missed' \subseteq Missed \cup {y}
  <2>1. CASE \E y \in store : Rank(y) = offset
    <3>1. PICK y \in store : Rank(y) = offset
      BY <2>1
    <3>2. Missed' \subseteq Missed \cup {y}
      <4> SUFFICES ASSUME NEW i \in stable \ given, Rank(i)' < offset
                   PROVE  i = y \/ Rank(i) < offset
        BY <1>1 DEF Missed
      <4>1. i \in store /\ Rank(i) \in Nat /\ Rank(i) <= Rank(i)' + 1 /\ Rank(i)' \in Nat
        BY <1>0, <1>3
      <4>2. Rank(i) < offset \/ Rank(i) = offset
        BY <1>0, <4>1
      <4>3. Rank(i) = Rank(y) => i = y
        BY <1>0, <4>1, RankIsOwn, CountedFinite
      <4> QED
        BY <3>1, <4>1, <4>2, <4>3
    <3> QED
      BY <3>2
  <2>2. CASE ~\E y \in store : Rank(y) = offset
    <3>1. Missed' \subseteq Missed
      <4> SUFFICES ASSUME NEW i \in stable \ given, Rank(i)' < offset PROVE Rank(i) < offset
        BY <1>1 DEF Missed
      <4>1. i \in store /\ Rank(i) \in Nat /\ Rank(i) <= Rank(i)' + 1 /\ Rank(i)' \in Nat
        BY <1>0, <1>3
      <4> QED
        BY <1>0, <2>2, <4>1
    <3> QED
      BY <3>1
  <2> QED
    BY <2>1, <2>2
<1>5. GivenMore' \subseteq GivenMore
  <2> SUFFICES ASSUME NEW i \in store, i \in given, Rank(i)' >= offset PROVE Rank(i) >= offset
    BY <1>1 DEF GivenMore
  <2>1. i \in Ids
    BY <1>0
  <2> QED
    BY <1>0, <1>3, <2>1
<1>6. Cardinality(Missed') <= removed' /\ Cardinality(GivenMore') <= added'
  <2>1. Cardinality(Missed') <= Cardinality(Missed) + 1 /\ Cardinality(GivenMore') <= Cardinality(GivenMore)
    BY <1>0, <1>4, <1>5, CountedFinite, OneMore, FS_Subset
  <2>2. Cardinality(GivenMore') \in Nat /\ Cardinality(Missed') \in Nat
        /\ Cardinality(GivenMore) \in Nat /\ Cardinality(Missed) \in Nat
    <3>1. GivenMore' \subseteq Ids /\ Missed' \subseteq Ids
      BY <1>2 DEF ListTypeOK, GivenMore, Missed
    <3> QED
      BY <1>0, <3>1, CountedFinite, IdsFinite
  <2> QED
    BY <1>0, <1>1, <2>1, <2>2
<1>7. EnumerationBounded'
  <2>1. Cardinality(twice) <= Cardinality(GivenMore) /\ Cardinality(twice) \in Nat
        /\ Cardinality(GivenMore) \in Nat
    BY <1>0, CountedFinite
  <2> QED
    BY <1>0, <1>1, <2>1 DEF EnumerationBounded, Running
<1> QED
  BY <1>0, <1>1, <1>2, <1>6, <1>7 DEF ListInv

\* A memory that expires is none the caller has to be given.
LEMMA ExpireStep ==
  ASSUME ListInv, NEW x \in Ids, Expire(x) PROVE ListInv'
<1>1. /\ ListTypeOK' /\ ListTypeOK /\ stable' = stable \ {x}
      /\ UNCHANGED <<store, unborn, offset, outcome, given, twice, added, removed>>
  BY ListTypeStep DEF ListInv, ListNext, Expire, caller
<1>2. Missed' \subseteq Missed /\ GivenMore' = GivenMore
  BY <1>1 DEF Missed, GivenMore, Rank
<1>3. Cardinality(Missed') <= Cardinality(Missed) /\ Cardinality(Missed') \in Nat
  <2>1. Missed' \subseteq Ids
    BY <1>1 DEF Missed, ListTypeOK
  <2> QED
    BY <1>1, <1>2, <2>1, IdsFinite, CountedFinite, FS_Subset
<1>4. Running /\ Cardinality(Missed) <= removed /\ removed \in Nat /\ Cardinality(Missed) \in Nat
  BY <1>1, CountedFinite DEF ListInv, Expire, ListTypeOK
<1> QED
  BY <1>1, <1>2, <1>3, <1>4 DEF ListInv, EnumerationBounded, Running

\* What the caller has gone past with one more page it had gone past before, or is
\* given now.
LEMMA PageGives ==
  ASSUME ListTypeOK, NEW i \in stable \ (given \cup FreshPage), Rank(i) < offset + Limit
  PROVE  i \in Missed
<1>1. i \in store \ expired /\ i \in Ids /\ offset \in Nat /\ Limit \in Nat \ {0}
  BY PageAssumption DEF ListTypeOK
<1>2. Rank(i) \in Nat
  BY <1>1, CountedFinite
<1>3. CASE Rank(i) >= offset
  <2>1. i \in Fetched
    BY <1>1, <1>2 DEF Fetched, FirstN
  <2> QED
    BY <1>1, <1>3, <2>1 DEF FreshPage, Slice
<1>4. CASE Rank(i) < offset
  BY <1>4 DEF Missed
<1> QED
  BY <1>1, <1>2, <1>3, <1>4

\* A page that is the last one reaches the end of the store.
LEMMA LastPageReaches ==
  ASSUME ListTypeOK, ~HasMore, NEW i \in store
  PROVE  Rank(i) < offset + Limit
<1>1. /\ offset \in Nat /\ Limit \in Nat \ {0} /\ store \subseteq Ids
  BY PageAssumption DEF ListTypeOK
<1>2. PICK n \in Nat : n = offset + Limit + 1
  BY <1>1
<1>3. Fetched = {k \in store : Cardinality(Before(store, k)) < n}
  BY <1>1, <1>2, CountedFinite DEF Fetched, FirstN
<1>4. ~(n <= Cardinality(Fetched))
  <2>1. Cardinality(Fetched) \in Nat /\ ~(Cardinality(Fetched) > offset + Limit)
    BY <1>1, IdsFinite DEF HasMore, Fetched, FirstN
  <2> QED
    BY <1>1, <1>2, <2>1
<1>5. ~(n <= Rank(i) + 1) /\ Rank(i) \in Nat
  BY <1>1, <1>3, <1>4, FirstAreEnough, CountedFinite
<1> QED
  BY <1>1, <1>2, <1>5

\* A page gives what the caller would otherwise have gone past.
LEMMA PageStep ==
  ASSUME ListInv, GetPage PROVE ListInv'
<1>0. /\ ListTypeOK /\ unborn \cap given = {} /\ Running
      /\ Cardinality(Missed) <= removed /\ Cardinality(GivenMore) <= added
      /\ store \subseteq Ids /\ offset \in Nat /\ added \in Nat /\ removed \in Nat
      /\ store \cap unborn = {} /\ stable \subseteq store /\ Limit \in Nat \ {0}
  BY PageAssumption DEF ListInv, ListTypeOK, GetPage
<1>1. /\ given' = given \cup FreshPage /\ twice' = twice \cup (FreshPage \cap given)
      /\ UNCHANGED <<store, expired, unborn, stable, added, removed>>
      /\ \/ HasMore /\ offset' = offset + Limit /\ outcome' = outcome
         \/ ~HasMore /\ offset' = offset /\ outcome' = "all"
  BY DEF GetPage, NextOffset
<1>2. ListTypeOK'
  BY <1>0, ListTypeStep DEF ListNext
<1>3. FreshPage \subseteq store /\ \A i \in FreshPage : Rank(i) >= offset
  BY DEF FreshPage, Slice, Fetched, FirstN
<1>4. unborn' \cap given' = {}
  BY <1>0, <1>1, <1>3
<1>5. twice' \subseteq GivenMore
  BY <1>1, <1>3 DEF GivenMore
<1>6. /\ Cardinality(Missed) \in Nat /\ Cardinality(GivenMore) \in Nat
      /\ IsFiniteSet(Missed) /\ IsFiniteSet(GivenMore)
  BY <1>0, CountedFinite
<1>7. Cardinality(twice') <= added'
  <2>1. Cardinality(twice') <= Cardinality(GivenMore) /\ Cardinality(twice') \in Nat
    BY <1>5, <1>6, FS_Subset, FS_CardinalityType
  <2> QED
    BY <1>0, <1>1, <1>6, <2>1
<1>8. CASE HasMore
  <2>1. Missed' \subseteq Missed
    <3> SUFFICES ASSUME NEW i \in stable \ (given \cup FreshPage), Rank(i) < offset + Limit
                 PROVE  i \in Missed
      BY <1>1, <1>8 DEF Missed, Rank
    <3> QED
      BY <1>0, PageGives
  <2>2. GivenMore' \subseteq GivenMore
    <3> SUFFICES ASSUME NEW i \in store, i \in given \cup FreshPage, Rank(i) >= offset + Limit
                 PROVE  i \in GivenMore
      BY <1>1, <1>5, <1>8 DEF GivenMore, Rank
    <3>1. Rank(i) \in Nat
      BY <1>0, CountedFinite
    <3>2. i \notin FreshPage
      BY <1>0, <3>1 DEF FreshPage, Slice
    <3>3. Rank(i) >= offset
      BY <1>0, <3>1
    <3> QED
      BY <3>2, <3>3 DEF GivenMore
  <2>3. /\ Cardinality(Missed') <= Cardinality(Missed) /\ Cardinality(Missed') \in Nat
        /\ Cardinality(GivenMore') <= Cardinality(GivenMore) /\ Cardinality(GivenMore') \in Nat
    BY <1>6, <2>1, <2>2, FS_Subset, FS_CardinalityType
  <2>4. Cardinality(Missed') <= removed' /\ Cardinality(GivenMore') <= added'
    BY <1>0, <1>1, <1>6, <2>3
  <2>5. outcome' # "all"
    BY <1>0, <1>1, <1>8 DEF Running
  <2> QED
    BY <1>2, <1>4, <1>7, <2>4, <2>5 DEF ListInv, EnumerationBounded
<1>9. CASE ~HasMore
  <2>1. stable' \ given' \subseteq Missed
    <3> SUFFICES ASSUME NEW i \in stable \ (given \cup FreshPage) PROVE i \in Missed
      BY <1>1
    <3> QED
      BY <1>0, <1>9, LastPageReaches, PageGives
  <2>2. Cardinality(stable' \ given') <= Cardinality(Missed) /\ Cardinality(stable' \ given') \in Nat
    BY <1>6, <2>1, FS_Subset, FS_CardinalityType
  <2>3. Cardinality(stable' \ given') <= removed'
    BY <1>0, <1>1, <1>6, <2>2
  <2>4. ~Running'
    BY <1>1, <1>9 DEF Running
  <2> QED
    BY <1>2, <1>4, <1>7, <2>3, <2>4 DEF ListInv, EnumerationBounded
<1> QED
  BY <1>8, <1>9

\* The invariant of an enumeration holds of every behaviour.
LEMMA ListInvariant == ListSpec => []ListInv
<1>1. ListInit => ListInv
  <2> SUFFICES ASSUME ListInit PROVE ListInv
    OBVIOUS
  <2>1. ListTypeOK
    BY DEF ListInit, ListTypeOK
  <2>2. Missed = {} /\ GivenMore = {} /\ twice = {} /\ given = {} /\ outcome = "more"
    <3>1. \A i \in stable : ~(Rank(i) < 0)
      BY <2>1, CountedFinite DEF ListTypeOK
    <3> QED
      BY <3>1 DEF ListInit, Missed, GivenMore
  <2>3. Cardinality({}) = 0
    BY FS_EmptySet
  <2> QED
    BY <2>1, <2>2, <2>3 DEF ListInit, ListInv, EnumerationBounded
<1>2. ListInv /\ [ListNext]_listVars => ListInv'
  <2> SUFFICES ASSUME ListInv, [ListNext]_listVars PROVE ListInv'
    OBVIOUS
  <2>1. CASE Refuse
    <3>1. ListTypeOK'
      BY <2>1, ListTypeStep DEF ListInv, ListNext
    <3> QED
      BY <2>1, <3>1 DEF ListInv, Refuse, EnumerationBounded, Running
  <2>2. CASE UNCHANGED listVars
    <3>1. ListTypeOK'
      BY <2>2, ListTypeStep DEF ListInv
    <3>2. Missed' = Missed /\ GivenMore' = GivenMore
      BY <2>2 DEF listVars, Missed, GivenMore, Rank
    <3> QED
      BY <2>2, <3>1, <3>2 DEF listVars, ListInv, EnumerationBounded, Running
  <2> QED
    BY <2>1, <2>2, AddStep, DeleteStep, ExpireStep, PageStep DEF ListNext
<1> QED
  BY <1>1, <1>2, PTL DEF ListSpec

\* Types of an enumeration: what is expired or stable is stored, and what was given
\* twice was given.
THEOREM ListTypeCorrect == ListSpec => []ListTypeOK
BY ListInvariant, PTL DEF ListInv

\* An enumeration that runs to its end misses no more of what was there all the time
\* than was deleted meanwhile, and gives no more twice than was added meanwhile, for any
\* store, any page size and any order of writes and pages.
THEOREM Enumerated == ListSpec => []EnumerationBounded
BY ListInvariant, PTL DEF ListInv

-----------------------------------------------------------------------------
(* Digests: the clock.                                                        *)

LooksAt == step \in {"filter", "deliver"}

\* Cron is late by Slack at most, and the next run it starts is the next one.  Only a
\* run at start has fetched before its turn, which has passed meanwhile.
ClockInv ==
  /\ due - Period <= now /\ now <= due + Slack
  /\ LooksAt /\ fetchTime < due - Period => worst > 0

-----------------------------------------------------------------------------
(* Digests: everything is told.                                               *)

\* What a run has fetched, and kept, is all that was touched before it fetched, and
\* since the start of its window.
FetchedInv ==
  /\ LooksAt => \A m \in Stored \ leftOff : stamp[m] < fetchTime => <<m, stamp[m]>> \in fetched
  /\ step = "deliver" =>
       /\ \A m \in Stored \ leftOff :
            cutoff <= stamp[m] /\ stamp[m] < fetchTime => <<m, stamp[m]>> \in kept
       /\ \A f \in kept : f[1] \in Untimed \/ f[2] >= cutoff

-----------------------------------------------------------------------------
(* Digests: windows that join.                                                *)

\* How long k runs in a row are.
Runs(k) == k * Period

\* The last run that succeeded fetched no earlier than cron had it start, and every
\* run since then is one that was missed, or the one that is under way.
SeenInv ==
  \/ due - Runs(missed + 1) <= seen
  \/ /\ step # "idle" /\ deadline <= due - Period + Slack
     /\ due - Runs(missed + 2) <= seen

\* A window that is as long as the worst lapse starts before the last run has fetched,
\* so that the windows join.
Long    == Window >= Runs(worst + 1) + Slack
WideInv == step = "deliver" /\ Long => cutoff <= seen
JoinInv == Long => \A t \in Int : 1 <= t /\ t < seen => t \in covered

-----------------------------------------------------------------------------
(* Digests: repeats.                                                          *)

\* t posts fit in a time of x, with a period between any two of them; k are exempt.
Within(t, k, x) == t <= k \/ Period * (t - k - 1) <= x

\* Memory m has been posted by runs of cron that started from its last touch to d, and k
\* times besides; and within one window.
PostedBy(m, d, k) == Within(times[m], k, d - stamp[m] + Slack)
PostedIn(m, k)    == Within(times[m], k, Window + Slack)

\* When the run under way was to start, and that it is cron's, or the container's own.
Begun    == deadline - Slack
FromCron == Begun <= due - Period
BegunInv ==
  step # "idle" =>
    /\ Begun <= now
    /\ LooksAt => Begun <= fetchTime
    /\ step = "deliver" => Begun <= cutoff + Window

RepeatInv(m) ==
  IF step = "idle"
  THEN PostedBy(m, due - Period, starts) /\ PostedIn(m, starts)
  ELSE \/ starts >= 1 /\ PostedBy(m, due - Period, starts - 1) /\ PostedIn(m, starts - 1)
       \/ FromCron /\ PostedBy(m, Begun - Period, starts) /\ PostedIn(m, starts)

DigestInv ==
  /\ TypeOK /\ ClockInv
  /\ FetchedInv /\ WindowTold
  /\ SeenInv /\ WideInv /\ JoinInv
  /\ BegunInv /\ \A m \in Memories \ Untimed : RepeatInv(m)

-----------------------------------------------------------------------------
(* Digests: types and the clock.                                              *)

\* The lengths of time are numbers.
LEMMA Times ==
  /\ Window \in Nat \ {0} /\ Period \in Nat \ {0} /\ Slack \in Nat \ {0} /\ Slack < Period
  /\ MaxFetched \in Nat \ {0} /\ MaxStarts \in Nat /\ MaxTime \in Nat \ {0}
BY TimesAssumption, BoundsAssumption

\* Types as they are used.
LEMMA Typed ==
  ASSUME TypeOK
  PROVE  /\ now \in Nat /\ due \in Nat /\ deadline \in Nat /\ fetchTime \in Nat /\ cutoff \in Int
         /\ starts \in Nat /\ seen \in Nat /\ missed \in Nat /\ worst \in Nat
         /\ missed <= worst /\ (\A t \in covered : t \in Int /\ t < now)
         /\ seen <= now /\ fetchTime <= now /\ (LooksAt => fetchTime > 0)
         /\ (step # "idle" => now <= deadline)
         /\ \A m \in Memories : times[m] \in Nat /\ stamp[m] \in Nat /\ stamp[m] <= now
         /\ stamp \in [Memories -> Nat] /\ times \in [Memories -> Nat]
         /\ \A f \in fetched : f \in Memories \X Nat /\ f[2] > 0 /\ f[2] <= fetchTime
         /\ kept \subseteq fetched /\ leftOff \subseteq Memories
BY DEF TypeOK, LooksAt

\* The end of a run leaves nothing of it.
LEMMA EndTyped ==
  ASSUME End
  PROVE  /\ step' = "idle" /\ deadline' = 0 /\ fetched' = {} /\ fetchTime' = 0
         /\ kept' = {} /\ cutoff' = 0
BY DEF End

\* Every step keeps the types, and cron is never late by more than Slack.
LEMMA DigestTypeStep ==
  ASSUME TypeOK, ClockInv, [Next]_vars PROVE TypeOK' /\ ClockInv'
<1> USE DEF TypeOK, ClockInv, told, runVars, lapses, LooksAt
<1>0. /\ Period \in Nat \ {0} /\ Slack \in Nat \ {0} /\ Window \in Nat \ {0}
      /\ now \in Nat /\ now > 0 /\ due \in Nat
  BY Times
<1>1. ASSUME NEW m \in Memories, Save(m) PROVE TypeOK' /\ ClockInv'
  <2>1. stamp' \in [Memories -> 0 .. now] /\ times' \in [Memories -> Nat]
    BY <1>0, <1>1 DEF Save
  <2> QED
    BY <1>1, <2>1 DEF Save
<1>2. ASSUME NEW m \in Memories, Remove(m) PROVE TypeOK' /\ ClockInv'
  <2>1. stamp' \in [Memories -> 0 .. now]
    BY <1>0, <1>2 DEF Remove
  <2> QED
    BY <1>2, <2>1 DEF Remove
<1>0a. Lapse => missed' \in 0 .. worst' /\ worst' \in Nat /\ worst' > 0 /\ worst' >= worst
  BY DEF Lapse
<1>3. CASE Tick
  <2>1. /\ now' = now + 1 /\ now' \in 1 .. MaxTime /\ now' <= due + Slack
        /\ step # "idle" => now' <= deadline
    BY <1>0, <1>3, Times DEF Tick
  <2>2. \A x \in 0 .. now : x \in 0 .. now'
    BY <1>0, <2>1
  <2>3. /\ stamp \in [Memories -> 0 .. now'] /\ fetchTime \in 0 .. now' /\ seen \in 1 .. now'
        /\ \A t \in covered : t < now'
    BY <1>0, <2>1, <2>2
  <2> QED
    BY <1>0, <1>3, <2>1, <2>3 DEF Tick
<1>4. CASE Start
  BY <1>0, <1>4 DEF Start
<1>5. CASE Miss
  <2>1. due' \in Nat /\ due' - Period <= now /\ now <= due' + Slack
    BY <1>0, <1>5 DEF Miss
  <2>2. Lapse /\ UNCHANGED <<stamp, now, runVars, starts, told, leftOff>>
    BY <1>5 DEF Miss
  <2> QED
    BY <1>0a, <2>1, <2>2
<1>6. ASSUME NEW onStart \in BOOLEAN, Restart(onStart) PROVE TypeOK' /\ ClockInv'
  <2>1. /\ fetched' = {} /\ fetchTime' = 0 /\ kept' = {} /\ cutoff' = 0
        /\ \/ step' = "fetch" /\ deadline' = now + Slack
           \/ step' = "idle" /\ deadline' = 0
        /\ starts' \in 0 .. MaxStarts /\ missed' \in 0 .. worst' /\ worst' \in Nat
        /\ UNCHANGED <<stamp, now, due, told, leftOff>>
    BY <1>0a, <1>6, Times DEF Restart, End
  <2> QED
    BY <1>0, <2>1
<1>7. CASE Fetch
  <2>1. fetched' \subseteq Memories \X (1 .. now)
    <3>1. \A m \in Page : m \in Memories /\ stamp[m] \in 1 .. now
      BY <1>0 DEF Page, Stored
    <3> QED
      BY <1>7, <3>1 DEF Fetch
  <2>2. leftOff' \subseteq Memories
    BY <1>7 DEF Fetch, Beyond, Stored
  <2>3. /\ fetchTime' = now /\ step' = "filter" /\ kept' = {} /\ step # "idle"
        /\ UNCHANGED <<stamp, now, due, deadline, cutoff, starts, told, lapses>>
    BY <1>7 DEF Fetch
  <2> QED
    BY <1>0, <2>1, <2>2, <2>3
<1>8. ASSUME NEW c \in Int, LooksAt, fetchTime \in 1 .. now, Succeed(c, fetchTime)
      PROVE  /\ seen' \in 1 .. now /\ missed' \in 0 .. worst' /\ worst' \in Nat
             /\ \A t \in covered' : t \in Int /\ t < now
  BY <1>0, <1>8 DEF Succeed
<1>9. CASE Filter
  <2>1. fetchTime \in 1 .. now /\ Since \in Int /\ Recent(Since) \subseteq fetched
    BY <1>0, <1>9 DEF Filter, Since, Recent
  <2>2. CASE Nothing
    <3>1. End /\ Succeed(Since, fetchTime) /\ UNCHANGED <<times, stamp, now, due, starts, leftOff>>
      BY <1>9, <2>2 DEF Filter
    <3>2. LooksAt
      BY <1>9 DEF Filter
    <3> QED
      BY <1>0, <1>8, <2>1, <3>1, <3>2 DEF End
  <2>3. CASE ~Nothing
    BY <1>0, <1>9, <2>1, <2>3 DEF Filter
  <2> QED
    BY <2>2, <2>3
<1>10. CASE Deliver \/ DeliverUnanswered
  <2>1. times' \in [Memories -> Nat]
    <3>1. \A m \in Memories : times[m] + 1 \in Nat /\ times[m] \in Nat
      OBVIOUS
    <3>2. Post
      BY <1>10 DEF Deliver, DeliverUnanswered
    <3> QED
      BY <3>1, <3>2 DEF Post
  <2>2. /\ seen' \in 1 .. now /\ missed' \in 0 .. worst' /\ worst' \in Nat
        /\ \A t \in covered' : t \in Int /\ t < now
    <3>1. fetchTime \in 1 .. now /\ LooksAt /\ cutoff \in Int
      BY <1>0, <1>10 DEF Deliver, DeliverUnanswered
    <3> QED
      BY <1>0a, <1>8, <1>10, <3>1 DEF Deliver, DeliverUnanswered
  <2>3. End /\ UNCHANGED <<stamp, now, due, starts, leftOff>>
    BY <1>10 DEF Deliver, DeliverUnanswered
  <2> QED
    BY <1>0, <2>1, <2>2, <2>3 DEF End
<1>11. CASE Fail
  <2>1. End /\ Lapse /\ UNCHANGED <<stamp, now, due, starts, told, leftOff>>
    BY <1>11 DEF Fail
  <2> QED
    BY <1>0, <1>0a, <2>1 DEF End
<1>12. CASE UNCHANGED vars
  BY <1>12 DEF vars
<1> QED
  BY <1>1, <1>2, <1>3, <1>4, <1>5, <1>6, <1>7, <1>9, <1>10, <1>11, <1>12 DEF Next

-----------------------------------------------------------------------------
(* Digests: everything is told.                                               *)

\* A memory that a run did not fetch was beyond its page.
LEMMA FetchesAll ==
  ASSUME NEW m \in Stored, m \notin Beyond
  PROVE  m \in Page
<1> DEFINE K == {k \in Stored : k < m}
<1>1. K \in SUBSET Memories
  BY DEF Stored
<1> HIDE DEF K
<1>2. Cardinality(K) \in Nat
  BY <1>1, MemoriesAssumption, FS_Subset, FS_CardinalityType
<1>3. ~(Cardinality(K) >= MaxFetched)
  BY DEF Beyond, K
<1>4. Cardinality(K) < MaxFetched
  BY <1>2, <1>3, Times
<1> QED
  BY <1>4 DEF Page, K

\* What a post adds.
LEMMA Posted ==
  ASSUME TypeOK, Post, NEW m \in Memories
  PROVE  /\ times'[m] \in Nat /\ times[m] \in Nat
         /\ times'[m] = IF <<m, stamp[m]>> \in kept THEN times[m] + 1 ELSE times[m]
BY Typed DEF Post

\* Every step keeps what is fetched, kept and told.
LEMMA ToldStep ==
  ASSUME TypeOK, FetchedInv, WindowTold, [Next]_vars PROVE FetchedInv' /\ WindowTold'
<1> USE DEF told, runVars, lapses
<1>0. \A m \in Memories : stamp[m] \in Nat /\ stamp[m] <= now
  BY Typed
<1>1. ASSUME NEW m \in Memories, Save(m) PROVE FetchedInv' /\ WindowTold'
  <2>1. /\ stamp'[m] = now /\ now \in Nat /\ fetchTime \in Nat /\ seen \in Nat
        /\ ~(now < fetchTime) /\ now \notin covered
    BY <1>1, Typed DEF Save, TypeOK
  <2>2. ASSUME NEW k \in Stored', k # m
        PROVE  k \in Stored /\ stamp'[k] = stamp[k] /\ times'[k] = times[k]
    BY <1>1, <2>2 DEF Save, Stored, TypeOK
  <2>3. UNCHANGED <<step, fetched, fetchTime, kept, cutoff, covered>> /\ leftOff' = leftOff \ {m}
    BY <1>1 DEF Save
  <2>4. ASSUME LooksAt', NEW k \in Stored' \ leftOff', stamp'[k] < fetchTime'
        PROVE  <<k, stamp'[k]>> \in fetched'
    BY <2>1, <2>2, <2>3, <2>4 DEF FetchedInv, LooksAt
  <2>5. ASSUME step' = "deliver", NEW k \in Stored' \ leftOff', stamp'[k] < fetchTime',
               cutoff' <= stamp'[k]
        PROVE  <<k, stamp'[k]>> \in kept'
    BY <2>1, <2>2, <2>3, <2>5 DEF FetchedInv
  <2>6. WindowTold'
    BY <2>1, <2>2, <2>3 DEF WindowTold
  <2> QED
    BY <2>3, <2>4, <2>5, <2>6 DEF FetchedInv
<1>2. ASSUME NEW m \in Memories, Remove(m) PROVE FetchedInv' /\ WindowTold'
  <2>1. ASSUME NEW k \in Stored'
        PROVE  k \in Stored /\ stamp'[k] = stamp[k] /\ times'[k] = times[k]
    <3>1. k # m
      BY <1>2 DEF Remove, Stored, TypeOK
    <3> QED
      BY <1>2, <3>1 DEF Remove, Stored, TypeOK
  <2>2. UNCHANGED <<step, fetched, fetchTime, kept, cutoff, covered, leftOff>>
    BY <1>2 DEF Remove
  <2> QED
    BY <2>1, <2>2 DEF FetchedInv, WindowTold, LooksAt
<1>3. CASE Tick \/ Miss \/ UNCHANGED vars
  BY <1>3 DEF Tick, Miss, vars, FetchedInv, WindowTold, LooksAt, Stored
<1>4. ASSUME UNCHANGED <<stamp, told, leftOff>>, ~LooksAt'
      PROVE  FetchedInv' /\ WindowTold'
  BY <1>4 DEF FetchedInv, WindowTold, LooksAt, Stored
<1>5. CASE Start \/ Fail \/ \E onStart \in BOOLEAN : Restart(onStart)
  BY <1>4, <1>5 DEF Start, Fail, Restart, End, LooksAt
<1>6. CASE Fetch
  <2>1. /\ step' = "filter" /\ fetched' = {<<m, stamp[m]>> : m \in Page}
        /\ leftOff' = leftOff \cup Beyond
        /\ UNCHANGED <<stamp, told>>
    BY <1>6 DEF Fetch
  <2>2. \A m \in Stored' \ leftOff' : <<m, stamp'[m]>> \in fetched'
    BY <2>1, FetchesAll DEF Stored
  <2> QED
    BY <2>1, <2>2 DEF FetchedInv, WindowTold, Stored
<1>7. CASE Filter /\ Nothing
  <2>1. /\ step = "filter" /\ Recent(Since) = {} /\ Succeed(Since, fetchTime)
        /\ step' = "idle" /\ UNCHANGED <<stamp, times, leftOff>>
    BY <1>7 DEF Filter, Nothing, End
  <2>2. Since \in Int /\ fetchTime \in Int /\ covered' = covered \cup (Since .. fetchTime - 1)
    BY <2>1, Typed, Times DEF Since, Succeed
  <2>3. ASSUME NEW m \in Stored \ leftOff, stamp[m] \in covered'
        PROVE  times[m] > 0
    <3>1. CASE stamp[m] \in covered
      BY <3>1 DEF WindowTold
    <3>2. CASE stamp[m] >= Since /\ stamp[m] < fetchTime
      <4>1. <<m, stamp[m]>> \in fetched
        BY <2>1, <3>2 DEF FetchedInv, LooksAt
      <4> QED
        BY <2>1, <3>2, <4>1 DEF Recent
    <3>3. stamp[m] \in Nat
      BY <1>0 DEF Stored
    <3> QED
      BY <2>2, <2>3, <3>1, <3>2, <3>3
  <2>4. WindowTold'
    BY <2>1, <2>3 DEF WindowTold, Stored
  <2> QED
    BY <2>1, <2>4 DEF FetchedInv, LooksAt
<1>8. CASE Filter /\ ~Nothing
  <2>1. /\ step = "filter" /\ kept' = Recent(Since) /\ cutoff' = Since
        /\ UNCHANGED <<stamp, fetched, fetchTime, told, leftOff>>
    BY <1>8 DEF Filter
  <2>2. \A m \in Stored \ leftOff : stamp[m] < fetchTime => <<m, stamp[m]>> \in fetched
    BY <2>1 DEF FetchedInv, LooksAt
  <2>3. \A f \in kept' : f[1] \in Untimed \/ f[2] >= cutoff'
    BY <2>1 DEF Recent
  <2>4. \A m \in Stored' \ leftOff' :
          /\ stamp'[m] < fetchTime' => <<m, stamp'[m]>> \in fetched'
          /\ cutoff' <= stamp'[m] /\ stamp'[m] < fetchTime' => <<m, stamp'[m]>> \in kept'
    <3> SUFFICES ASSUME NEW m \in Stored' \ leftOff', stamp'[m] < fetchTime'
                 PROVE  /\ <<m, stamp'[m]>> \in fetched'
                        /\ cutoff' <= stamp'[m] => <<m, stamp'[m]>> \in kept'
      OBVIOUS
    <3>1. m \in Stored \ leftOff /\ stamp[m] \in Nat /\ Since \in Int /\ stamp' = stamp
      BY <1>0, <2>1, Typed, Times DEF Stored, Since
    <3>2. <<m, stamp[m]>> \in fetched
      BY <2>1, <2>2, <3>1
    <3>3. stamp[m] >= Since => <<m, stamp[m]>> \in Recent(Since)
      BY <3>2 DEF Recent
    <3>4. cutoff' <= stamp[m] => stamp[m] >= Since
      BY <2>1, <3>1
    <3> QED
      BY <2>1, <3>1, <3>2, <3>3, <3>4
  <2> QED
    BY <2>1, <2>3, <2>4 DEF FetchedInv, LooksAt, WindowTold, Stored
<1>9. CASE Deliver
  <2>1. /\ step = "deliver" /\ Post /\ Succeed(cutoff, fetchTime)
        /\ step' = "idle" /\ UNCHANGED <<stamp, leftOff>>
    BY <1>9 DEF Deliver, End
  <2>2. cutoff \in Int /\ fetchTime \in Int /\ covered' = covered \cup (cutoff .. fetchTime - 1)
    BY <2>1, Typed DEF Succeed
  <2>3. ASSUME NEW m \in Stored \ leftOff, stamp[m] \in covered'
        PROVE  times'[m] > 0
    <3>1. /\ times'[m] \in Nat /\ times[m] \in Nat /\ m \in Memories
          /\ times'[m] = IF <<m, stamp[m]>> \in kept THEN times[m] + 1 ELSE times[m]
      BY <2>1, Posted DEF Stored
    <3>2. CASE cutoff <= stamp[m] /\ stamp[m] < fetchTime
      BY <2>1, <3>1, <3>2 DEF FetchedInv
    <3>3. CASE stamp[m] \in covered
      BY <3>1, <3>3 DEF WindowTold
    <3>4. stamp[m] \in Nat
      BY <1>0 DEF Stored
    <3> QED
      BY <2>2, <2>3, <3>2, <3>3, <3>4
  <2>4. WindowTold'
    BY <2>1, <2>3 DEF WindowTold, Stored
  <2> QED
    BY <2>1, <2>4 DEF FetchedInv, LooksAt
<1>10. CASE DeliverUnanswered
  <2>1. Post /\ step' = "idle" /\ UNCHANGED <<stamp, covered, leftOff>>
    BY <1>10 DEF DeliverUnanswered, End
  <2>2. ASSUME NEW m \in Memories, times[m] > 0 PROVE times'[m] > 0
    <3>1. times'[m] \in Nat /\ times[m] \in Nat /\ (times'[m] = times[m] + 1 \/ times'[m] = times[m])
      BY <2>1, Posted
    <3> QED
      BY <2>2, <3>1
  <2>3. WindowTold'
    BY <2>1, <2>2 DEF WindowTold, Stored
  <2> QED
    BY <2>1, <2>3 DEF FetchedInv, LooksAt
<1> QED
  BY <1>1, <1>2, <1>3, <1>5, <1>6, <1>7, <1>8, <1>9, <1>10 DEF Next

-----------------------------------------------------------------------------
(* Digests: windows that join.                                                *)

LEMMA RunsGrow ==
  ASSUME NEW k \in Nat
  PROVE  /\ Runs(k) \in Nat /\ Runs(k + 1) = Runs(k) + Period /\ Runs(k + 2) = Runs(k + 1) + Period
         /\ Runs(1) = Period
BY Times DEF Runs

LEMMA RunsMonotone ==
  ASSUME NEW k \in Nat, NEW n \in Nat, k <= n
  PROVE  Runs(k + 1) \in Nat /\ Runs(n + 1) \in Nat /\ Runs(k + 1) <= Runs(n + 1)
BY Times DEF Runs

\* One more lapse is one more run, and a window that is long enough for more of them is
\* long enough for fewer.
LEMMA Lapsed ==
  ASSUME TypeOK, Lapse
  PROVE  /\ missed' = missed + 1 /\ missed' + 1 = missed + 2 /\ missed' + 2 = missed + 3
         /\ Runs(missed' + 1) = Runs(missed + 1) + Period
         /\ Runs(missed' + 1) = Runs(missed + 2)
         /\ Runs(missed' + 2) = Runs(missed + 2) + Period
         /\ Long' => Long
<1>1. missed \in Nat /\ worst \in Nat /\ missed + 1 \in Nat
  BY Typed
<1>2. /\ missed' = missed + 1 /\ missed' + 1 = missed + 2 /\ missed' + 2 = missed + 3
      /\ worst' \in Nat /\ worst <= worst'
  BY <1>1 DEF Lapse
<1>3. /\ Runs(missed + 1) \in Nat /\ Runs(missed + 2) = Runs(missed + 1) + Period
      /\ Runs(missed + 3) = Runs(missed + 2) + Period
  <2>1. (missed + 1) + 1 = missed + 2 /\ (missed + 1) + 2 = missed + 3
    BY <1>1
  <2> QED
    BY <1>1, <2>1, RunsGrow
<1>4. Long' => Long
  <2>1. /\ Runs(worst + 1) <= Runs(worst' + 1)
        /\ Runs(worst + 1) \in Nat /\ Runs(worst' + 1) \in Nat
    BY <1>1, <1>2, RunsMonotone
  <2>2. Long' => Window >= Runs(worst' + 1) + Slack
    BY DEF Long, Runs
  <2> QED
    BY <2>1, <2>2, Times DEF Long
<1> QED
  BY <1>2, <1>3, <1>4

\* A window that is long enough starts before the last run that succeeded has fetched.
LEMMA Reaches ==
  ASSUME TypeOK, ClockInv, SeenInv, Long, step # "idle"
  PROVE  Since <= seen
<1>1. /\ now \in Nat /\ due \in Nat /\ deadline \in Nat /\ seen \in Nat
      /\ missed \in Nat /\ worst \in Nat /\ missed <= worst
      /\ now <= deadline /\ now <= due + Slack
  BY Typed DEF ClockInv
<1>2. Window \in Nat /\ Period \in Nat /\ Slack \in Nat
  BY Times
<1>3. /\ Runs(missed + 1) \in Nat /\ Runs(worst + 1) \in Nat
      /\ Runs(missed + 1) <= Runs(worst + 1)
      /\ Runs(missed + 2) = Runs(missed + 1) + Period
  <2>1. Runs(missed + 2) = Runs(missed + 1) + Period
    BY <1>1, RunsGrow
  <2> QED
    BY <1>1, <2>1, RunsMonotone
<1>4. Window >= Runs(worst + 1) + Slack
  BY DEF Long
<1>5. CASE due - Runs(missed + 1) <= seen
  BY <1>1, <1>2, <1>3, <1>4, <1>5 DEF Since
<1>6. CASE deadline <= due - Period + Slack /\ due - Runs(missed + 2) <= seen
  BY <1>1, <1>2, <1>3, <1>4, <1>6 DEF Since
<1> QED
  BY <1>5, <1>6 DEF SeenInv

\* Every step keeps how far back the last success lies, and that the windows join.
LEMMA SeenStep ==
  ASSUME TypeOK, ClockInv, SeenInv, WideInv, JoinInv, BegunInv, [Next]_vars
  PROVE  SeenInv' /\ WideInv' /\ JoinInv'
<1> USE DEF told, runVars, lapses
<1>0. /\ Period \in Nat \ {0} /\ Slack \in Nat /\ Slack < Period /\ Window \in Nat
      /\ now \in Nat /\ due \in Nat /\ deadline \in Nat /\ seen \in Nat /\ fetchTime \in Nat
      /\ missed \in Nat /\ worst \in Nat /\ cutoff \in Int
      /\ due - Period <= now
  BY Times, Typed DEF ClockInv
<1>r. /\ Runs(missed + 1) \in Nat /\ Runs(missed + 2) = Runs(missed + 1) + Period
  BY <1>0, RunsGrow
<1>1. ASSUME UNCHANGED <<due, step, deadline, cutoff, covered, seen, lapses>>
      PROVE  SeenInv' /\ WideInv' /\ JoinInv'
  BY <1>1 DEF SeenInv, WideInv, JoinInv, Long, Runs
<1>2. CASE Tick \/ UNCHANGED vars \/ \E m \in Memories : Save(m) \/ Remove(m)
  BY <1>1, <1>2 DEF Tick, Save, Remove, vars
<1>3. CASE Start
  <2>1. /\ step = "idle" /\ step' = "fetch" /\ deadline' = due + Slack /\ due' = due + Period
        /\ UNCHANGED <<covered, seen, missed, worst>>
    BY <1>3 DEF Start
  <2>2. due - Runs(missed + 1) <= seen
    BY <2>1 DEF SeenInv
  <2>3. deadline' <= due' - Period + Slack /\ due' - Runs(missed + 2) <= seen
    BY <1>0, <1>r, <2>1, <2>2
  <2>4. SeenInv'
    BY <2>1, <2>3 DEF SeenInv, Runs
  <2> QED
    BY <2>1, <2>4 DEF WideInv, JoinInv, Long, Runs
<1>4. ASSUME Lapse, UNCHANGED <<covered, seen>>
      PROVE  /\ Runs(missed' + 1) = Runs(missed + 2)
             /\ Runs(missed' + 2) = Runs(missed + 2) + Period
             /\ Long' => Long
             /\ JoinInv'
  BY <1>4, Lapsed DEF JoinInv
<1>5. CASE Miss
  <2>1. /\ Lapse /\ due' = due + Period
        /\ UNCHANGED <<step, deadline, cutoff, covered, seen>>
    BY <1>5 DEF Miss
  <2>2. /\ due' - Runs(missed' + 1) = due - Runs(missed + 1)
        /\ due' - Runs(missed' + 2) = due - Runs(missed + 2)
        /\ deadline <= due - Period + Slack => deadline <= due' - Period + Slack
    BY <1>0, <1>r, <1>4, <2>1
  <2>3. SeenInv'
    BY <2>1, <2>2 DEF SeenInv, Runs
  <2> QED
    BY <1>4, <2>1, <2>3 DEF WideInv
<1>6. ASSUME Lapse, UNCHANGED <<due, covered, seen>>, step' # "deliver"
      PROVE  SeenInv' /\ WideInv' /\ JoinInv'
  <2>1. due - Runs(missed + 2) <= seen
    BY <1>0, <1>r DEF SeenInv
  <2>2. due' - Runs(missed' + 1) <= seen'
    BY <1>4, <1>6, <2>1
  <2>3. SeenInv'
    BY <2>2 DEF SeenInv, Runs
  <2> QED
    BY <1>4, <1>6, <2>3 DEF WideInv
<1>7. CASE Fail \/ DeliverUnanswered
  BY <1>6, <1>7 DEF Fail, DeliverUnanswered, End
<1>8. ASSUME NEW onStart \in BOOLEAN, Restart(onStart) PROVE SeenInv' /\ WideInv' /\ JoinInv'
  <2>1. /\ step' \in {"idle", "fetch"} /\ UNCHANGED <<due, covered, seen>>
        /\ IF step = "idle" THEN UNCHANGED lapses ELSE Lapse
    BY <1>8 DEF Restart, End
  <2>2. CASE step = "idle"
    <3>1. due - Runs(missed + 1) <= seen /\ UNCHANGED <<missed, worst>>
      BY <2>1, <2>2 DEF SeenInv
    <3> QED
      BY <2>1, <3>1 DEF SeenInv, WideInv, JoinInv, Long, Runs
  <2>3. CASE step # "idle"
    BY <1>6, <2>1, <2>3
  <2> QED
    BY <2>2, <2>3
<1>9. CASE Fetch
  <2>1. /\ step = "fetch" /\ step' = "filter"
        /\ UNCHANGED <<due, deadline, covered, seen, missed, worst>>
    BY <1>9 DEF Fetch
  <2> QED
    BY <2>1 DEF SeenInv, WideInv, JoinInv, Long, Runs
<1>10. CASE Filter /\ ~Nothing
  <2>1. /\ step = "filter" /\ step' = "deliver" /\ cutoff' = Since
        /\ UNCHANGED <<due, deadline, covered, seen, missed, worst>>
    BY <1>10 DEF Filter
  <2>2. Long => cutoff' <= seen
    BY <2>1, Reaches
  <2> QED
    BY <2>1, <2>2 DEF SeenInv, WideInv, JoinInv, Long, Runs
<1>11. ASSUME NEW c \in Int, Succeed(c, fetchTime), LooksAt, step' = "idle", due' = due,
              Long => c <= seen
       PROVE  SeenInv' /\ WideInv' /\ JoinInv'
  <2>1. /\ seen' = fetchTime /\ covered' = covered \cup (c .. fetchTime - 1)
        /\ missed' = IF fetchTime < due - Period THEN 1 ELSE 0
        /\ worst' = worst
    BY <1>11 DEF Succeed
  <2>2. fetchTime >= due - Period - Slack
    <3>1. deadline - Slack <= fetchTime /\ now <= deadline
      BY <1>11, Typed DEF BegunInv, Begun, LooksAt
    <3> QED
      BY <1>0, <3>1
  <2>3. Runs(0 + 1) = Period /\ Runs(1 + 1) = Period + Period
    BY RunsGrow
  <2>4. due' - Runs(missed' + 1) <= seen'
    <3>1. CASE fetchTime < due - Period
      BY <1>0, <1>11, <2>1, <2>2, <2>3, <3>1
    <3>2. CASE ~(fetchTime < due - Period)
      BY <1>0, <1>11, <2>1, <2>3, <3>2
    <3> QED
      BY <3>1, <3>2
  <2>5. SeenInv'
    BY <2>4 DEF SeenInv, Runs
  <2>6. Long' <=> Long
    BY <2>1 DEF Long, Runs
  <2>7. JoinInv'
    <3> SUFFICES ASSUME Long, NEW t \in Int, 1 <= t, t < fetchTime PROVE t \in covered'
      BY <2>1, <2>6 DEF JoinInv
    <3>1. CASE t < seen
      BY <2>1, <3>1 DEF JoinInv
    <3>2. CASE t >= c
      BY <1>0, <2>1, <3>2
    <3> QED
      BY <1>0, <1>11, <3>1, <3>2
  <2> QED
    BY <1>11, <2>5, <2>7 DEF WideInv
<1>12. CASE Filter /\ Nothing
  <2>1. /\ LooksAt /\ step # "idle" /\ Succeed(Since, fetchTime) /\ step' = "idle"
        /\ due' = due /\ Since \in Int
    BY <1>0, <1>12 DEF Filter, End, LooksAt, Since
  <2>2. Long => Since <= seen
    BY <2>1, Reaches
  <2> QED
    BY <1>11, <2>1, <2>2
<1>13. CASE Deliver
  <2>1. /\ LooksAt /\ step = "deliver" /\ Succeed(cutoff, fetchTime) /\ step' = "idle"
        /\ due' = due /\ cutoff \in Int
    BY <1>0, <1>13 DEF Deliver, End, LooksAt
  <2>2. Long => cutoff <= seen
    BY <2>1 DEF WideInv
  <2> QED
    BY <1>11, <2>1, <2>2
<1> QED
  BY <1>2, <1>3, <1>5, <1>7, <1>8, <1>9, <1>10, <1>12, <1>13 DEF Next

-----------------------------------------------------------------------------
(* Digests: repeats.                                                          *)

\* One period more.
LEMMA Periods ==
  ASSUME NEW a \in Int
  PROVE  Period * a \in Int /\ Period * (a + 1) = Period * a + Period
<1>1. Period \in Int
  BY Times
<1> QED
  BY <1>1

\* What fits in a time fits in a longer one, ...
LEMMA WithinLonger ==
  ASSUME NEW t \in Nat, NEW k \in Nat, NEW x \in Int, NEW y \in Int, x <= y, Within(t, k, x)
  PROVE  Within(t, k, y)
<1>1. t - k - 1 \in Int
  OBVIOUS
<1>2. Period * (t - k - 1) \in Int
  BY <1>1, Periods
<1>3. CASE t <= k
  BY <1>3 DEF Within
<1>4. CASE Period * (t - k - 1) <= x
  <2> HIDE DEF Within
  <2> DEFINE p == Period * (t - k - 1)
  <2>1. p \in Int /\ p <= x
    BY <1>2, <1>4
  <2>2. p <= y
    <3> HIDE DEF p
    <3> QED
      BY <2>1
  <2> QED
    BY <2>2 DEF Within
<1> QED
  BY <1>3, <1>4 DEF Within

\* ... and so it does with one exempt more, ...
LEMMA WithinMore ==
  ASSUME NEW t \in Nat, NEW k \in Nat, NEW x \in Int, Within(t, k, x)
  PROVE  Within(t, k + 1, x)
<1>1. CASE t <= k
  BY <1>1 DEF Within
<1>2. CASE Period * (t - k - 1) <= x
  <2> DEFINE a == t - k - 2
             p == Period * a
  <2>1. a \in Int /\ a + 1 = t - k - 1 /\ a = t - (k + 1) - 1
    OBVIOUS
  <2>2. p \in Int /\ Period * (a + 1) = p + Period
    <3> HIDE DEF a
    <3> QED
      BY <2>1, Periods
  <2>3. p + Period <= x
    BY <1>2, <2>1, <2>2
  <2>4. p <= x
    <3> HIDE DEF p
    <3> QED
      BY <2>2, <2>3, Times
  <2> QED
    BY <2>1, <2>4 DEF Within
<1> QED
  BY <1>1, <1>2 DEF Within

\* ... one more and one exempt more, ...
LEMMA WithinBoth ==
  ASSUME NEW t \in Nat, NEW k \in Nat, NEW x \in Int, Within(t, k, x)
  PROVE  Within(t + 1, k + 1, x)
<1>1. (t + 1) - (k + 1) - 1 = t - k - 1
  OBVIOUS
<1> QED
  BY <1>1 DEF Within

\* ... and one more in a time that is a period longer.
LEMMA WithinNext ==
  ASSUME NEW t \in Nat, NEW k \in Nat, NEW x \in Int, Within(t, k, x), x + Period >= 0
  PROVE  Within(t + 1, k, x + Period)
<1>1. CASE t < k
  BY <1>1 DEF Within
<1>2. CASE t = k
  <2>1. (t + 1) - k - 1 = 0 /\ Period * 0 = 0
    BY <1>2, Times
  <2> QED
    BY <2>1 DEF Within
<1>3. CASE t > k
  <2> DEFINE a == t - k - 1
             p == Period * a
  <2>1. a \in Int /\ (t + 1) - k - 1 = a + 1
    OBVIOUS
  <2>2. p \in Int /\ Period * (a + 1) = p + Period
    <3> HIDE DEF a
    <3> QED
      BY <2>1, Periods
  <2>3. p <= x
    BY <1>3 DEF Within
  <2>4. p + Period <= x + Period
    <3> HIDE DEF p
    <3> QED
      BY <2>2, <2>3, Times
  <2>5. Period * ((t + 1) - k - 1) <= x + Period
    BY <2>1, <2>2, <2>4
  <2> QED
    BY <2>5 DEF Within
<1> QED
  BY <1>1, <1>2, <1>3

\* How many that are.
LEMMA WithinCount ==
  ASSUME NEW t \in Nat, NEW k \in Nat, NEW x \in Nat, Within(t, k, x)
  PROVE  t <= x \div Period + 1 + k
<1> DEFINE q == x \div Period
           r == x % Period
<1>1. q \in Nat /\ r \in Nat /\ r < Period /\ x = Period * q + r
  BY Times
<1> SUFFICES t <= q + 1 + k
  OBVIOUS
<1>2. CASE t <= k
  <2> HIDE DEF q
  <2> QED
    BY <1>1, <1>2
<1>3. CASE Period * (t - k - 1) <= x /\ t > q + 1 + k
  <2> DEFINE d == t - k - 1 - q - 1
  <2>1. d \in Nat /\ t - k - 1 = q + 1 + d
    <3> HIDE DEF q
    <3> QED
      BY <1>1, <1>3
  <2>2. Period * (t - k - 1) = Period * q + Period + Period * d /\ Period * d >= 0
    <3> HIDE DEF q, d
    <3> QED
      BY <1>1, <2>1, Times
  <2>3. Period * q + Period + Period * d <= Period * q + r
    BY <1>1, <1>3, <2>2
  <2>4. FALSE
    <3> DEFINE u == Period * q
               v == Period * d
    <3>1. u \in Int /\ v \in Int /\ v >= 0 /\ u + Period + v <= u + r
      <4> HIDE DEF q, d, r
      <4> QED
        BY <1>1, <2>1, <2>2, <2>3, Times
    <3> HIDE DEF u, v, q, r
    <3> QED
      BY <1>1, <3>1, Times
  <2> QED
    BY <2>4
<1> HIDE DEF q
<1> QED
  BY <1>1, <1>2, <1>3 DEF Within

\* Whatever a run is at: what a memory was posted by cron's runs, and by the container's.
LEMMA RepeatWeak ==
  ASSUME TypeOK, NEW m \in Memories, RepeatInv(m)
  PROVE  PostedBy(m, due - Period, starts) /\ PostedIn(m, starts)
<1>0. /\ times[m] \in Nat /\ stamp[m] \in Nat /\ due \in Nat /\ starts \in Nat /\ deadline \in Nat
      /\ Period \in Nat /\ Slack \in Nat /\ Window \in Nat
  BY Typed, Times
<1>1. CASE step = "idle"
  BY <1>1 DEF RepeatInv
<1>2. CASE starts >= 1 /\ PostedBy(m, due - Period, starts - 1) /\ PostedIn(m, starts - 1)
  <2>1. starts - 1 \in Nat /\ (starts - 1) + 1 = starts
    BY <1>0, <1>2
  <2>2. due - Period - stamp[m] + Slack \in Int /\ Window + Slack \in Int
    BY <1>0
  <2>3. Within(times[m], starts, due - Period - stamp[m] + Slack)
    BY <1>0, <1>2, <2>1, <2>2, WithinMore DEF PostedBy
  <2>4. Within(times[m], starts, Window + Slack)
    BY <1>0, <1>2, <2>1, <2>2, WithinMore DEF PostedIn
  <2> QED
    BY <2>3, <2>4 DEF PostedBy, PostedIn
<1>3. CASE FromCron /\ PostedBy(m, Begun - Period, starts) /\ PostedIn(m, starts)
  <2>1. /\ Begun - Period - stamp[m] + Slack \in Int
        /\ due - Period - stamp[m] + Slack \in Int
        /\ Begun - Period - stamp[m] + Slack <= due - Period - stamp[m] + Slack
    BY <1>0, <1>3 DEF Begun, FromCron
  <2>2. Within(times[m], starts, due - Period - stamp[m] + Slack)
    BY <1>0, <1>3, <2>1, WithinLonger DEF PostedBy
  <2> QED
    BY <1>3, <2>2 DEF PostedBy
<1> QED
  BY <1>1, <1>2, <1>3 DEF RepeatInv

\* Time that passes allows no fewer posts.
LEMMA PostedLater ==
  ASSUME TypeOK, NEW m \in Memories, NEW d \in Int, NEW e \in Int, d <= e,
         NEW k \in Nat, PostedBy(m, d, k)
  PROVE  PostedBy(m, e, k)
<1>1. /\ times[m] \in Nat /\ d - stamp[m] + Slack \in Int /\ e - stamp[m] + Slack \in Int
      /\ d - stamp[m] + Slack <= e - stamp[m] + Slack
  BY Typed, Times
<1> QED
  BY <1>1, WithinLonger DEF PostedBy

\* A post of a memory that is in the window: it is one of cron's, or of the container's.
LEMMA PostCounted ==
  ASSUME TypeOK, BegunInv, step = "deliver", NEW m \in Memories, RepeatInv(m),
         stamp[m] >= cutoff
  PROVE  /\ Within(times[m] + 1, starts, due - Period - stamp[m] + Slack)
         /\ Within(times[m] + 1, starts, Window + Slack)
<1>0. /\ times[m] \in Nat /\ stamp[m] \in Nat /\ due \in Nat /\ starts \in Nat /\ deadline \in Nat
      /\ Period \in Nat /\ Slack \in Nat /\ Window \in Nat /\ cutoff \in Int /\ now \in Nat
      /\ stamp[m] <= now /\ now <= deadline
  BY Typed, Times
<1>1. CASE starts >= 1 /\ PostedBy(m, due - Period, starts - 1) /\ PostedIn(m, starts - 1)
  <2>1. starts - 1 \in Nat /\ (starts - 1) + 1 = starts
    BY <1>0, <1>1
  <2>2. due - Period - stamp[m] + Slack \in Int /\ Window + Slack \in Int
    BY <1>0
  <2>3. Within(times[m] + 1, starts, due - Period - stamp[m] + Slack)
    BY <1>0, <1>1, <2>1, <2>2, WithinBoth DEF PostedBy
  <2>4. Within(times[m] + 1, starts, Window + Slack)
    BY <1>0, <1>1, <2>1, <2>2, WithinBoth DEF PostedIn
  <2> QED
    BY <2>3, <2>4
<1>2. CASE FromCron /\ PostedBy(m, Begun - Period, starts) /\ PostedIn(m, starts)
  <2> DEFINE x == Begun - Period - stamp[m] + Slack
             y == due - Period - stamp[m] + Slack
  <2>1. /\ x \in Int /\ y \in Int /\ x + Period \in Int /\ Window + Slack \in Int
        /\ x + Period >= 0 /\ x + Period <= y /\ x + Period <= Window + Slack
    BY <1>0, <1>2 DEF Begun, FromCron, BegunInv
  <2>2. Within(times[m], starts, x)
    BY <1>2 DEF PostedBy
  <2>3. Within(times[m] + 1, starts, x + Period)
    <3> HIDE DEF x
    <3> QED
      BY <1>0, <2>1, <2>2, WithinNext
  <2>4. times[m] + 1 \in Nat
    BY <1>0
  <2>5. Within(times[m] + 1, starts, y) /\ Within(times[m] + 1, starts, Window + Slack)
    <3> HIDE DEF x, y
    <3> QED
      BY <1>0, <2>1, <2>3, <2>4, WithinLonger
  <2> QED
    BY <2>5
<1> QED
  BY <1>1, <1>2 DEF RepeatInv

\* Every step keeps when the run under way began.
LEMMA BegunStep ==
  ASSUME TypeOK, ClockInv, BegunInv, [Next]_vars PROVE BegunInv'
<1> USE DEF told, runVars, lapses
<1>0. /\ now \in Nat /\ due \in Nat /\ deadline \in Nat /\ fetchTime \in Nat /\ cutoff \in Int
      /\ Slack \in Nat /\ Window \in Nat
  BY Typed, Times
<1>1. ASSUME UNCHANGED <<step, deadline, fetchTime, cutoff>>, now <= now', now' \in Nat
      PROVE  BegunInv'
  BY <1>0, <1>1 DEF BegunInv, Begun, LooksAt
<1>2. CASE Tick
  <2>1. now <= now' /\ now' \in Nat /\ UNCHANGED <<step, deadline, fetchTime, cutoff>>
    BY <1>0, <1>2 DEF Tick
  <2> QED
    BY <1>1, <2>1
<1>3. CASE Miss \/ UNCHANGED vars \/ \E m \in Memories : Save(m) \/ Remove(m)
  <2>1. now' = now /\ UNCHANGED <<step, deadline, fetchTime, cutoff>>
    BY <1>3 DEF Miss, vars, Save, Remove
  <2> QED
    BY <1>0, <1>1, <2>1
<1>4. CASE Start \/ \E onStart \in BOOLEAN : Restart(onStart)
  BY <1>0, <1>4 DEF Start, Restart, End, BegunInv, Begun, LooksAt
<1>5. CASE Fetch
  BY <1>0, <1>5 DEF Fetch, BegunInv, Begun
<1>6. CASE Filter
  BY <1>0, <1>6 DEF Filter, Since, End, BegunInv, Begun, LooksAt
<1>7. CASE Deliver \/ DeliverUnanswered \/ Fail
  BY <1>7 DEF Deliver, DeliverUnanswered, Fail, End, BegunInv
<1> QED
  BY <1>2, <1>3, <1>4, <1>5, <1>6, <1>7 DEF Next

\* Every step keeps how often a memory with a timestamp was posted.
LEMMA RepeatStep ==
  ASSUME TypeOK, FetchedInv, BegunInv, NEW m \in Memories \ Untimed, RepeatInv(m), [Next]_vars
  PROVE  RepeatInv(m)'
<1> USE DEF told, runVars, lapses
<1>0. /\ times[m] \in Nat /\ stamp[m] \in Nat /\ due \in Nat /\ starts \in Nat /\ deadline \in Nat
      /\ Period \in Nat /\ Slack \in Nat /\ Window \in Nat /\ m \in Memories
  BY Typed, Times
<1>1. PostedBy(m, due - Period, starts) /\ PostedIn(m, starts)
  BY RepeatWeak
<1>2. ASSUME UNCHANGED <<due, step, deadline, starts>>, times'[m] = times[m], stamp'[m] = stamp[m]
      PROVE  RepeatInv(m)'
  BY <1>2 DEF RepeatInv, PostedBy, PostedIn, FromCron, Begun
<1>3. CASE Tick \/ Fetch \/ UNCHANGED vars \/ (Filter /\ ~Nothing)
  <2>1. CASE Tick \/ UNCHANGED vars
    BY <1>2, <2>1 DEF Tick, vars
  <2>2. CASE Fetch \/ (Filter /\ ~Nothing)
    <3>1. /\ step # "idle" /\ step' # "idle"
          /\ UNCHANGED <<due, deadline, starts, times, stamp>>
      BY <2>2 DEF Fetch, Filter
    <3> QED
      BY <3>1 DEF RepeatInv, PostedBy, PostedIn, FromCron, Begun
  <2> QED
    BY <1>3, <2>1, <2>2
<1>4. ASSUME NEW j \in Memories, Save(j) PROVE RepeatInv(m)'
  <2>1. CASE j # m
    <3>1. times'[m] = times[m] /\ stamp'[m] = stamp[m] /\ UNCHANGED <<due, step, deadline, starts>>
      BY <1>0, <1>4, <2>1 DEF Save, TypeOK
    <3> QED
      BY <1>2, <3>1
  <2>2. CASE j = m
    <3>1. times'[m] = 0 /\ UNCHANGED <<due, step, deadline, starts>>
      BY <1>0, <1>4, <2>2 DEF Save, TypeOK
    <3>2. \A k \in Nat, x \in Int : Within(times'[m], k, x)
      BY <3>1 DEF Within
    <3>3. /\ stamp'[m] = now /\ now \in Nat
      BY <1>0, <1>4, <2>2 DEF Save, TypeOK
    <3>4. \A k \in Nat, d \in Int : Within(times'[m], k, d - stamp'[m] + Slack)
      BY <1>0, <3>2, <3>3
    <3>5. /\ due - Period \in Int /\ Begun - Period \in Int /\ Window + Slack \in Int
          /\ starts >= 1 => starts - 1 \in Nat
      BY <1>0 DEF Begun
    <3>6. /\ Within(times'[m], starts, due - Period - stamp'[m] + Slack)
          /\ Within(times'[m], starts, Begun - Period - stamp'[m] + Slack)
          /\ Within(times'[m], starts, Window + Slack)
          /\ starts >= 1 => /\ Within(times'[m], starts - 1, due - Period - stamp'[m] + Slack)
                            /\ Within(times'[m], starts - 1, Window + Slack)
      BY <1>0, <3>2, <3>4, <3>5
    <3> QED
      BY <3>1, <3>6 DEF RepeatInv, PostedBy, PostedIn, FromCron, Begun
  <2> QED
    BY <2>1, <2>2
<1>5. ASSUME NEW j \in Memories, Remove(j) PROVE RepeatInv(m)'
  <2>1. /\ times'[m] = times[m] /\ UNCHANGED <<due, step, deadline, starts>>
        /\ stamp'[m] \in Nat /\ stamp'[m] <= stamp[m]
    BY <1>0, <1>5 DEF Remove, TypeOK
  <2>2. ASSUME NEW k \in Nat, NEW d \in Int, Within(times[m], k, d - stamp[m] + Slack)
        PROVE  Within(times[m], k, d - stamp'[m] + Slack)
    <3>1. /\ d - stamp[m] + Slack \in Int /\ d - stamp'[m] + Slack \in Int
          /\ d - stamp[m] + Slack <= d - stamp'[m] + Slack
      BY <1>0, <2>1
    <3> QED
      BY <1>0, <2>2, <3>1, WithinLonger
  <2>3. /\ due - Period \in Int /\ Begun - Period \in Int
        /\ starts >= 1 => starts - 1 \in Nat
    BY <1>0 DEF Begun
  <2> QED
    BY <1>0, <2>1, <2>2, <2>3 DEF RepeatInv, PostedBy, PostedIn, FromCron, Begun
<1>6. CASE Start
  <2>1. /\ step' = "fetch" /\ step = "idle" /\ deadline' = due + Slack /\ due' = due + Period
        /\ UNCHANGED <<stamp, starts, times>>
    BY <1>6 DEF Start
  <2>2. deadline' - Slack = due /\ deadline' - Slack <= due' - Period
    BY <1>0, <2>1
  <2> QED
    BY <1>1, <2>1, <2>2 DEF RepeatInv, PostedBy, PostedIn, FromCron, Begun
<1>7. CASE Miss
  <2>1. due' = due + Period /\ UNCHANGED <<step, deadline, stamp, starts, times>>
    BY <1>7 DEF Miss
  <2>2. due - Period \in Int /\ due' - Period \in Int /\ due - Period <= due' - Period
    BY <1>0, <2>1
  <2>3. ASSUME NEW k \in Nat, PostedBy(m, due - Period, k)
        PROVE  Within(times[m], k, due' - Period - stamp[m] + Slack)
    <3>1. PostedBy(m, due' - Period, k)
      BY <1>0, <2>2, <2>3, PostedLater
    <3> QED
      BY <3>1 DEF PostedBy
  <2>4. FromCron => FromCron'
    BY <1>0, <2>1, <2>2 DEF FromCron, Begun
  <2>5. starts >= 1 => starts - 1 \in Nat
    BY <1>0
  <2> QED
    BY <1>0, <2>1, <2>3, <2>4, <2>5 DEF RepeatInv, PostedBy, PostedIn, Begun
<1>8. ASSUME NEW onStart \in BOOLEAN, Restart(onStart) PROVE RepeatInv(m)'
  <2>1. starts' = starts + 1 /\ starts' - 1 = starts /\ starts' >= 1 /\ UNCHANGED <<stamp, due, times>>
    BY <1>0, <1>8 DEF Restart
  <2>2. due - Period - stamp[m] + Slack \in Int /\ Window + Slack \in Int
    BY <1>0
  <2>3. /\ Within(times[m], starts', due - Period - stamp[m] + Slack)
        /\ Within(times[m], starts', Window + Slack)
    BY <1>0, <1>1, <2>1, <2>2, WithinMore DEF PostedBy, PostedIn
  <2> QED
    BY <1>1, <2>1, <2>3 DEF RepeatInv, PostedBy, PostedIn
<1>9. CASE (Filter /\ Nothing) \/ Fail
  <2>1. step' = "idle" /\ UNCHANGED <<stamp, due, starts, times>>
    BY <1>9 DEF Filter, Fail, End
  <2> QED
    BY <1>1, <2>1 DEF RepeatInv, PostedBy, PostedIn
<1>10. CASE Deliver \/ DeliverUnanswered
  <2>1. /\ step = "deliver" /\ Post /\ step' = "idle" /\ UNCHANGED <<stamp, due, starts>>
    BY <1>10 DEF Deliver, DeliverUnanswered, End
  <2>2. CASE <<m, stamp[m]>> \notin kept
    <3>1. times'[m] = times[m]
      BY <1>0, <2>1, <2>2, Posted
    <3> QED
      BY <1>1, <2>1, <3>1 DEF RepeatInv, PostedBy, PostedIn
  <2>3. CASE <<m, stamp[m]>> \in kept /\ stamp[m] >= cutoff
    <3>1. times'[m] = times[m] + 1
      BY <1>0, <2>1, <2>3, Posted
    <3>2. /\ Within(times[m] + 1, starts, due - Period - stamp[m] + Slack)
          /\ Within(times[m] + 1, starts, Window + Slack)
      BY <1>0, <2>1, <2>3, PostCounted
    <3> QED
      BY <2>1, <3>1, <3>2 DEF RepeatInv, PostedBy, PostedIn
  <2>4. <<m, stamp[m]>> \in kept => stamp[m] >= cutoff
    BY <2>1 DEF FetchedInv
  <2> QED
    BY <2>2, <2>3, <2>4
<1> QED
  BY <1>3, <1>4, <1>5, <1>6, <1>7, <1>8, <1>9, <1>10 DEF Next

-----------------------------------------------------------------------------
(* Digests: the invariant.                                                    *)

\* The invariant of the digest holds of every behaviour.
LEMMA DigestInvariant == Spec => []DigestInv
<1>1. Init => DigestInv
  <2> SUFFICES ASSUME Init PROVE DigestInv
    OBVIOUS
  <2>1. TypeOK /\ ClockInv
    BY Times DEF Init, TypeOK, ClockInv, LooksAt
  <2>2. FetchedInv /\ WindowTold /\ WideInv /\ JoinInv /\ BegunInv
    BY DEF Init, FetchedInv, WindowTold, WideInv, JoinInv, BegunInv, LooksAt, Stored
  <2>3. SeenInv
    BY Times, RunsGrow DEF Init, SeenInv
  <2>4. ASSUME NEW m \in Memories PROVE RepeatInv(m)
    BY DEF Init, RepeatInv, PostedBy, PostedIn, Within
  <2> QED
    BY <2>1, <2>2, <2>3, <2>4 DEF DigestInv
<1>2. DigestInv /\ [Next]_vars => DigestInv'
  <2> SUFFICES ASSUME DigestInv, [Next]_vars PROVE DigestInv'
    OBVIOUS
  <2>1. \A m \in Memories \ Untimed : RepeatInv(m)'
    BY RepeatStep DEF DigestInv
  <2> QED
    BY <2>1, DigestTypeStep, ToldStep, SeenStep, BegunStep DEF DigestInv
<1> QED
  BY <1>1, <1>2, PTL DEF Spec

\* Types of the digest: what a run keeps is what it has fetched, and it has fetched only
\* what was touched until then.
THEOREM DigestTypeCorrect == Spec => []TypeOK
BY DigestInvariant, PTL DEF DigestInv

\* What was touched in the window of a run that succeeded has been posted, if it was
\* on the page, for any window, schedule and page, whatever fails before or after it.
THEOREM ToldInWindow == Spec => []WindowTold
BY DigestInvariant, PTL DEF DigestInv

\* Everything on the page that was touched before the last run that succeeded has been
\* posted, for any window that is longer than the worst lapse of runs by what a run takes:
\* any number of runs may fail in a row, the window has to make up for them.  A window
\* that is shorter, and a memory beyond the page, are promised nothing.
THEOREM Told == Spec => []ToldAll
<1>1. DigestInv => ToldAll
  <2> SUFFICES ASSUME DigestInv, Window >= (worst + 1) * Period + Slack,
                      NEW m \in Stored \ leftOff, stamp[m] < seen
               PROVE  times[m] > 0
    BY DEF ToldAll
  <2>1. Long
    BY DEF Long, Runs
  <2>2. stamp[m] \in Int /\ 1 <= stamp[m]
    BY Typed DEF DigestInv, Stored
  <2>3. stamp[m] \in covered
    BY <2>1, <2>2 DEF DigestInv, JoinInv
  <2> QED
    BY <2>3 DEF DigestInv, WindowTold
<1> QED
  BY <1>1, DigestInvariant, PTL

\* How often a memory is posted at most: as often as windows overlap, and once more for
\* every restart.
THEOREM RepeatsFew == Spec => []RepeatsBounded
<1>1. DigestInv => RepeatsBounded
  <2> SUFFICES ASSUME DigestInv, NEW m \in Memories \ Untimed
               PROVE  times[m] <= (Window + Slack) \div Period + 1 + starts
    BY DEF RepeatsBounded
  <2>1. TypeOK /\ RepeatInv(m) /\ m \in Memories
    BY DEF DigestInv
  <2>2. Within(times[m], starts, Window + Slack)
    BY <2>1, RepeatWeak DEF PostedIn
  <2>3. times[m] \in Nat /\ starts \in Nat /\ Window + Slack \in Nat
    BY <2>1, Typed, Times
  <2> QED
    BY <2>2, <2>3, WithinCount
<1> QED
  BY <1>1, DigestInvariant, PTL

=============================================================================
