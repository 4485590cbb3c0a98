-------------------------------- MODULE Ranking --------------------------------
(***************************************************************************)
(* Semantic search: the order that POST /api/v1/memories/search and the MCP*)
(* tool search_memories give to the memories the vector store found        *)
(* (src/app/ranking.py rerank_by_recency).                                 *)
(*                                                                         *)
(* A result has a score and, with a usable timestamp, an age.  The weight  *)
(* is a number of Units, Unit of them being 1.0; so are recencies, and     *)
(* Decay is the code's 2 ^ (-age / half-life) as far as the order of the   *)
(* blended scores can tell: a decreasing function of the age.  Blended     *)
(* scores are compared as integers, all multiplied by the same factor, so  *)
(* rounding is not modelled.                                               *)
(***************************************************************************)
EXTENDS Integers, Sequences, FiniteSets

CONSTANTS
  Unit,     \* 1.0
  Decay,    \* age -> recency
  Undated   \* the age of a result without a usable timestamp

ASSUME DecayAssumption ==
  /\ Unit \in Nat \ {0}
  /\ Undated \notin DOMAIN Decay /\ DOMAIN Decay \subseteq Nat
  /\ \A a \in DOMAIN Decay : Decay[a] \in 1 .. Unit
  /\ \A a, b \in DOMAIN Decay : a < b => Decay[a] > Decay[b]

\* A missing score counts as 0.
Items == [score : Nat, age : DOMAIN Decay \cup {Undated}]

\* The weight that counts: what exceeds 1.0 is cut.
Weight(recency_weight) == IF recency_weight > Unit THEN Unit ELSE recency_weight

\* _recency.
Recency(item) == IF item.age = Undated THEN 0 ELSE Decay[item.age]

Lowest(items)  == CHOOSE s \in {items[i].score : i \in DOMAIN items} :
                    \A i \in DOMAIN items : s <= items[i].score
Highest(items) == CHOOSE s \in {items[i].score : i \in DOMAIN items} :
                    \A i \in DOMAIN items : s >= items[i].score
Span(items)    == Highest(items) - Lowest(items)

\* _similarity, times the span where there is one.
Similarity(items, i) == IF Span(items) = 0 THEN 1 ELSE items[i].score - Lowest(items)

\* rerank_score, times Unit * Unit and the span.
Blend(items, w, i) ==
  LET span == IF Span(items) = 0 THEN 1 ELSE Span(items)
  IN  (Unit - w) * (Unit * Similarity(items, i)) + w * (Recency(items[i]) * span)

\* The sort is by falling score, and stable.
Ahead(items, w, i, j) ==
  \/ Blend(items, w, i) > Blend(items, w, j)
  \/ Blend(items, w, i) = Blend(items, w, j) /\ i < j

\* Where the item at place i of the list comes to stand.
Place(items, w, i) == 1 + Cardinality({j \in DOMAIN items : Ahead(items, w, j, i)})

\* rerank_by_recency.
Rerank(items, recency_weight) ==
  LET w == Weight(recency_weight)
  IN  IF w <= 0 \/ Len(items) < 2 THEN items
      ELSE [p \in DOMAIN items |-> items[CHOOSE i \in DOMAIN items : Place(items, w, i) = p]]
=============================================================================
