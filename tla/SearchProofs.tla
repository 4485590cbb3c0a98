----------------------------- MODULE SearchProofs -----------------------------
(* Proofs about KeywordSearch, for any store, cap and number of queries, and about *)
(* Ranking, for lists of any length and any scores, ages and weights.              *)
EXTENDS KeywordSearch, Ranking, FiniteSetTheorems, WellFoundedInduction, TLAPS

USE MemoriesAssumption, SearchesAssumption, LimitsAssumption

\* The lock: one search of a worker at a time creates the index.
OneCreator ==
  \A s, t \in Searches :
    phase[s] = "create" /\ phase[t] = "create" /\ On[s] = On[t] => s = t

IndexInv == TypeOK /\ OneCreator

LEMMA InitIndexInv == Init => IndexInv
  BY DEF Init, IndexInv, TypeOK, OneCreator, Stored, Phases, Ended, Texts

\* Only the creator of an index, who is alone, gives it an outcome, and only what was
\* unknown gets one.
LEMMA StepIndexInv == IndexInv /\ [Next]_vars => IndexInv'
<1> SUFFICES ASSUME IndexInv, [Next]_vars PROVE IndexInv'
  OBVIOUS
<1> USE DEF IndexInv, TypeOK, OneCreator
<1>1. ASSUME NEW m \in Memories, NEW t \in Texts \ {"absent"}, Write(m, t) PROVE IndexInv'
  BY <1>1 DEF Write, Touch, Stored, Texts
<1>2. ASSUME NEW m \in Memories, Delete(m) PROVE IndexInv'
  BY <1>2 DEF Delete, Touch, Stored, Texts
<1>3. ASSUME NEW s \in Searches, Begin(s) PROVE IndexInv'
  BY <1>3 DEF Begin, Goto, writes, Stored, Phases
<1>4. ASSUME NEW s \in Searches, Ensure(s) PROVE IndexInv'
  <2>1. On[s] \in Workers
    OBVIOUS
  <2>2. phase' = [phase EXCEPT ![s] = phase'[s]] /\ phase'[s] \in {"create", "query", "scan"}
    BY <1>4, <2>1 DEF Ensure, Goto
  <2>3. phase'[s] = "create" => index[On[s]] = "unknown"
    BY <1>4, <2>1 DEF Ensure, Goto
  <2>4. \A t \in Searches : phase[t] = "create" => On[t] # On[s]
    BY <1>4 DEF Ensure, Locked
  <2> QED
    BY <1>4, <2>1, <2>2, <2>3, <2>4 DEF Ensure, writes, Stored, Phases
<1>5. ASSUME NEW s \in Searches, NEW outcome \in {"yes", "no"}, Create(s, outcome)
      PROVE IndexInv'
  BY <1>5 DEF Create, Goto, writes, Stored, Phases
<1>6. ASSUME NEW s \in Searches, Query(s) \/ QueryFails(s) PROVE IndexInv'
  <2>1. /\ phase' \in [Searches -> Phases]
        /\ \A t \in Searches : phase'[t] = "create" => phase[t] = "create"
    BY <1>6 DEF Query, QueryFails, Answer, Goto, Phases, Ended
  <2>2. Matches(Candidates) \in SUBSET Memories
    BY DEF Matches, Containing, Candidates, First
  <2>3. found' \in [Searches -> SUBSET Memories]
    BY <1>6, <2>2 DEF Query, QueryFails, Answer
  <2>4. UNCHANGED <<text, stamp, now, index, steady, ever>>
    BY <1>6 DEF Query, QueryFails, writes
  <2> QED
    BY <2>1, <2>3, <2>4 DEF Stored
<1>7. ASSUME NEW s \in Searches, Scan(s) \/ ScanFails(s) PROVE IndexInv'
  <2>1. /\ phase' \in [Searches -> Phases]
        /\ \A t \in Searches : phase'[t] = "create" => phase[t] = "create"
    BY <1>7 DEF Scan, ScanFails, Answer, Goto, Phases, Ended
  <2>2. Matches(First(Stored)) \in SUBSET Memories
    BY DEF Matches, Containing, First, Stored
  <2>3. found' \in [Searches -> SUBSET Memories]
    BY <1>7, <2>2 DEF Scan, ScanFails, Answer
  <2>4. UNCHANGED <<text, stamp, now, index, steady, ever>>
    BY <1>7 DEF Scan, ScanFails, writes
  <2> QED
    BY <2>1, <2>3, <2>4 DEF Stored
<1>8. ASSUME NEW w \in Workers, Reset(w) PROVE IndexInv'
  BY <1>8 DEF Reset, writes, Stored
<1>9. ASSUME NEW w \in Workers, Restart(w) PROVE IndexInv'
  BY <1>9 DEF Restart, Running, writes, Stored, Phases, Ended
<1>10. CASE UNCHANGED vars
  BY <1>10 DEF vars, Stored
<1> QED
  BY <1>1, <1>2, <1>3, <1>4, <1>5, <1>6, <1>7, <1>8, <1>9, <1>10 DEF Next, Step

\* The variables stay within their types, and an index is unknown while it is created.
THEOREM TypeCorrect == Spec => []TypeOK
<1>1. IndexInv => TypeOK
  BY DEF IndexInv
<1> QED
  BY <1>1, InitIndexInv, StepIndexInv, PTL DEF Spec

\* What a worker knows of the index is never overwritten, for any number of searches
\* that come first, and whatever the store answers them.
THEOREM Settled == Spec => IndexSettled
<1>1. IndexInv /\ [Next]_vars =>
        [\A w \in Workers : index[w] # "unknown" => index'[w] \in {index[w], "unknown"}]_vars
  <2> SUFFICES ASSUME IndexInv, Next, NEW w \in Workers, index[w] # "unknown"
               PROVE  index'[w] \in {index[w], "unknown"}
    OBVIOUS
  <2>1. ASSUME NEW s \in Searches, NEW outcome \in {"yes", "no"}, Create(s, outcome)
        PROVE  index'[w] = index[w]
    BY <2>1 DEF Create, IndexInv, TypeOK
  <2>2. ASSUME NEW v \in Workers, Reset(v) \/ Restart(v)
        PROVE  index'[w] \in {index[w], "unknown"}
    BY <2>2 DEF Reset, Restart, IndexInv, TypeOK
  <2>3. ASSUME NEW s \in Searches,
               Begin(s) \/ Ensure(s) \/ Query(s) \/ QueryFails(s) \/ Scan(s) \/ ScanFails(s)
        PROVE  index' = index
    BY <2>3 DEF Begin, Ensure, Query, QueryFails, Scan, ScanFails
  <2>4. ASSUME NEW m \in Memories, (\E t \in Texts \ {"absent"} : Write(m, t)) \/ Delete(m)
        PROVE  index' = index
    BY <2>4 DEF Write, Delete, Touch
  <2> QED
    BY <2>1, <2>2, <2>3, <2>4 DEF Next, Step
<1> QED
  BY <1>1, InitIndexInv, StepIndexInv, PTL DEF Spec, IndexSettled

-----------------------------------------------------------------------------
(* The order of the results.                                                 *)

\* A nonempty set of numbers has a least one.
LEMMA LeastNumber ==
  ASSUME NEW T \in SUBSET Nat, T # {}
  PROVE  \E x \in T : \A y \in T : x <= y
<1> DEFINE R == OpToRel(<, Nat)
<1>1. IsWellFoundedOn(R, Nat)
  BY NatLessThanWellFounded
<1>2. \A x, y \in Nat : y < x => <<y, x>> \in R
  BY DEF OpToRel
<1> HIDE DEF R
<1>3. PICK x \in T : \A y \in T : <<y, x>> \notin R
  BY <1>1, WFMin
<1>4. \A y \in T : ~(y < x)
  BY <1>2, <1>3
<1> QED
  BY <1>3, <1>4

\* How many of the memories C are newer than m.
Rank(C, m) == Cardinality({k \in C : Newer(k, m)})

\* Newer orders the memories, so ranks order them as it does.
LEMMA RanksOrder ==
  ASSUME TypeOK, NEW C \in SUBSET Memories
  PROVE  /\ \A k \in C : Rank(C, k) \in Nat
         /\ \A k, m \in C : Newer(k, m) <=> Rank(C, k) < Rank(C, m)
         /\ \A k, m \in C : k # m => Newer(k, m) \/ Newer(m, k)
<1>1. \A k \in C : k \in Nat /\ stamp[k] \in Nat
  BY DEF TypeOK
<1>2. /\ \A k \in C : ~Newer(k, k)
      /\ \A k, m \in C : k # m => Newer(k, m) \/ Newer(m, k)
      /\ \A j, k, m \in C : Newer(j, k) /\ Newer(k, m) => Newer(j, m)
  BY <1>1 DEF Newer
<1>3. ASSUME NEW m \in C
      PROVE  IsFiniteSet({k \in C : Newer(k, m)}) /\ Rank(C, m) \in Nat
  <2>1. {k \in C : Newer(k, m)} \in SUBSET Memories
    OBVIOUS
  <2> QED
    BY <2>1, FS_Subset, FS_CardinalityType DEF Rank
<1>4. \A m \in C : Rank(C, m) \in Nat
  BY <1>3
<1>5. ASSUME NEW k \in C, NEW m \in C, Newer(k, m) PROVE Rank(C, k) < Rank(C, m)
  <2> DEFINE K == {j \in C : Newer(j, k)}
             M == {j \in C : Newer(j, m)}
  <2>1. K \in SUBSET M /\ k \in M /\ k \notin K
    BY <1>2, <1>5
  <2>2. Cardinality(K) = Rank(C, k) /\ Cardinality(M) = Rank(C, m) /\ IsFiniteSet(M)
    BY <1>3 DEF Rank
  <2> HIDE DEF K, M
  <2>3. Cardinality(K) <= Cardinality(M) /\ Cardinality(M) # Cardinality(K)
    BY <2>1, <2>2, FS_Subset
  <2> QED
    BY <1>4, <2>2, <2>3
<1>6. ASSUME NEW k \in C, NEW m \in C, Rank(C, k) < Rank(C, m) PROVE Newer(k, m)
  <2>1. k # m
    BY <1>4, <1>6
  <2>2. ~Newer(m, k)
    <3> SUFFICES ASSUME Newer(m, k) PROVE FALSE
      OBVIOUS
    <3>1. Rank(C, m) < Rank(C, k)
      BY <1>5
    <3> QED
      BY <1>4, <1>6, <3>1
  <2> QED
    BY <1>2, <2>1, <2>2
<1> QED
  BY <1>2, <1>4, <1>5, <1>6

\* What is left out gives way to Limit newer ones.
LEMMA LeftOutForNewer ==
  ASSUME TypeOK, NEW P \in SUBSET Memories, NEW m \in Containing(P), m \notin Matches(P)
  PROVE  Cardinality(Matches(P)) = Limit /\ \A k \in Matches(P) : Newer(k, m)
<1> DEFINE C == Containing(P)
           M == Matches(P)
<1>1. C \in SUBSET Memories /\ IsFiniteSet(C)
  BY FS_Subset DEF Containing
<1>2. M = {k \in C : Rank(C, k) < Limit}
  BY DEF Matches, Rank
<1>3. m \in C /\ m \notin M
  OBVIOUS
<1> HIDE DEF C, M
<1>4. /\ \A k \in C : Rank(C, k) \in Nat
      /\ \A k, n \in C : Newer(k, n) <=> Rank(C, k) < Rank(C, n)
      /\ \A k, n \in C : k # n => Newer(k, n) \/ Newer(n, k)
  BY <1>1, RanksOrder
<1>5. IsFiniteSet(M) /\ Cardinality(M) \in Nat
  <2>1. M \in SUBSET C
    BY <1>2
  <2> QED
    BY <1>1, <2>1, FS_Subset, FS_CardinalityType
<1>6. \A k \in M : Newer(k, m)
  BY <1>2, <1>3, <1>4
\* The first memory that is left out: those before it are the results.
<1>7. PICK x \in C \ M : \A y \in C \ M : Rank(C, x) <= Rank(C, y)
  <2> DEFINE Out == {Rank(C, k) : k \in C \ M}
  <2>1. Out \in SUBSET Nat /\ Out # {}
    BY <1>3, <1>4
  <2>2. PICK r \in Out : \A o \in Out : r <= o
    <3> HIDE DEF Out
    <3> QED
      BY <2>1, LeastNumber
  <2> QED
    BY <2>2
<1>8. M = {k \in C : Newer(k, x)}
  BY <1>2, <1>4, <1>7
<1>9. Cardinality(M) = Rank(C, x)
  BY <1>8 DEF Rank
<1>10. Cardinality(M) >= Limit
  BY <1>2, <1>4, <1>7, <1>9
\* The last of the results: those before it are all the others.
<1>11. PICK z \in M : \A y \in M : Rank(C, y) <= Rank(C, z)
  <2> DEFINE Gaps == {Limit - Rank(C, k) : k \in M}
  <2>1. M # {}
    BY <1>10, FS_EmptySet
  <2>2. Gaps \in SUBSET Nat /\ Gaps # {}
    BY <1>2, <1>4, <2>1
  <2>3. PICK g \in Gaps : \A h \in Gaps : g <= h
    <3> HIDE DEF Gaps
    <3> QED
      BY <2>2, LeastNumber
  <2>4. PICK z \in M : \A y \in M : Limit - Rank(C, z) <= Limit - Rank(C, y)
    BY <2>3
  <2>5. \A y \in M : Rank(C, y) \in Nat
    BY <1>2, <1>4
  <2> QED
    BY <2>4, <2>5
<1>12. M \ {z} = {k \in C : Newer(k, z)}
  BY <1>2, <1>4, <1>11
<1>13. Cardinality(M \ {z}) = Rank(C, z)
  BY <1>12 DEF Rank
<1>14. Cardinality(M \ {z}) = Cardinality(M) - 1
  BY <1>5, <1>11, FS_RemoveElement
<1>15. Cardinality(M) = Limit
  BY <1>2, <1>4, <1>5, <1>10, <1>11, <1>13, <1>14
<1> QED
  BY <1>6, <1>15 DEF M

-----------------------------------------------------------------------------
(* What a search promises about the memories it was to find.                 *)

Promise(s) ==
  FromStore(s) =>
    \A m \in steady[s] : InReach(s, m) =>
      /\ text[m] = "whole" /\ m \notin found[s] =>
           Cardinality(found[s]) = Limit /\ \A k \in found[s] : stamp[k] >= stamp[m]
      /\ found[s] = {} => text[m] \notin {"whole", "inside"}

\* A search that runs has taken note of all that is stored.
SearchInv ==
  /\ IndexInv
  /\ \A s \in Searches : Running(s) => Stored \subseteq ever[s]
  /\ \A s \in Searches : Promise(s)

\* A read of the first memories does not miss what is in reach.
LEMMA FirstReaches ==
  ASSUME TypeOK, NEW s \in Searches, NEW P \in SUBSET ever[s], NEW m \in P, InReach(s, m)
  PROVE  m \in First(P)
<1> DEFINE E == {k \in ever[s] : k < m}
           Q == {k \in P : k < m}
<1>1. E \in SUBSET Memories /\ Q \in SUBSET E
  BY DEF TypeOK
<1>2. Cardinality(E) < ScanLimit
  BY DEF InReach
<1> HIDE DEF E, Q
<1>3. /\ IsFiniteSet(E) /\ Cardinality(E) \in Nat /\ Cardinality(Q) \in Nat
      /\ Cardinality(Q) <= Cardinality(E)
  BY <1>1, FS_Subset, FS_CardinalityType
<1>4. Cardinality(Q) < ScanLimit
  BY <1>2, <1>3
<1> QED
  BY <1>4 DEF First, Q

\* A step that writes nothing and answers nothing keeps every promise.
LEMMA NoAnswer ==
  ASSUME SearchInv, UNCHANGED <<text, stamp, steady, ever, found>>,
         \A s \in Searches : /\ FromStore(s)' => FromStore(s)
                             /\ Running(s)' => Running(s)
  PROVE  /\ \A s \in Searches : Running(s)' => Stored' \subseteq ever'[s]
         /\ \A s \in Searches : Promise(s)'
<1>1. \A s \in Searches, m \in Memories : InReach(s, m)' <=> InReach(s, m)
  BY DEF InReach
<1>2. \A s \in Searches : steady[s] \subseteq Memories
  BY DEF SearchInv, IndexInv, TypeOK, Stored
<1> QED
  BY <1>1, <1>2 DEF SearchInv, Stored, Promise

\* An answer from all that a path reads of the memories in reach.
LEMMA AnswerPromises ==
  ASSUME SearchInv, NEW s \in Searches, Running(s), NEW P \in SUBSET Memories,
         \A m \in Stored : InReach(s, m) /\ text[m] = "whole" => m \in P,
         Matches(P) # {} \/ \A m \in Stored : InReach(s, m) => m \in P,
         NEW p \in {"indexed", "scanned"}, Answer(s, p, P),
         UNCHANGED <<text, stamp, steady, ever>>
  PROVE  /\ \A t \in Searches : Running(t)' => Stored' \subseteq ever'[t]
         /\ \A t \in Searches : Promise(t)'
<1> USE DEF SearchInv, IndexInv, TypeOK
<1>1. /\ phase' = [phase EXCEPT ![s] = p]
      /\ found' = [found EXCEPT ![s] = Matches(P)]
  BY DEF Answer, Goto
<1>2. \A t \in Searches, m \in Memories : InReach(t, m)' <=> InReach(t, m)
  BY DEF InReach
<1>3. \A t \in Searches : Running(t)' => Stored' \subseteq ever'[t]
  BY <1>1 DEF Running, Stored, Ended
<1>4. ASSUME NEW t \in Searches, t # s PROVE Promise(t)'
  BY <1>1, <1>2, <1>4 DEF Promise, FromStore, Stored
<1>5. ASSUME NEW m \in steady[s], text[m] \in {"whole", "inside"},
             m \in P, m \notin Matches(P)
      PROVE  Cardinality(Matches(P)) = Limit /\ \A k \in Matches(P) : stamp[k] >= stamp[m]
  <2>1. m \in Containing(P)
    BY <1>5 DEF Containing
  <2>2. Cardinality(Matches(P)) = Limit /\ \A k \in Matches(P) : Newer(k, m)
    BY <1>5, <2>1, LeftOutForNewer
  <2>3. m \in Memories /\ stamp[m] \in Nat
    BY <1>5
  <2>4. ASSUME NEW k \in Matches(P) PROVE stamp[k] >= stamp[m]
    <3>1. k \in Memories
      BY DEF Matches, Containing
    <3>2. stamp[k] \in Nat
      BY <3>1
    <3>3. stamp[k] > stamp[m] \/ stamp[k] = stamp[m]
      BY <2>2 DEF Newer
    <3> QED
      BY <2>3, <3>2, <3>3
  <2> QED
    BY <2>2, <2>4
<1>6. ASSUME Matches(P) = {}, NEW m \in steady[s], InReach(s, m)
      PROVE  text[m] \notin {"whole", "inside"}
  <2> SUFFICES ASSUME text[m] \in {"whole", "inside"} PROVE FALSE
    OBVIOUS
  <2>1. m \in P
    BY <1>6
  <2>2. Cardinality({}) = Limit
    BY <1>5, <1>6, <2>1
  <2> QED
    BY <2>2, FS_EmptySet
<1>7. Promise(s)'
  <2> SUFFICES ASSUME NEW m \in steady[s], InReach(s, m)
               PROVE  /\ text[m] = "whole" /\ m \notin Matches(P) =>
                           /\ Cardinality(Matches(P)) = Limit
                           /\ \A k \in Matches(P) : stamp[k] >= stamp[m]
                      /\ Matches(P) = {} => text[m] \notin {"whole", "inside"}
    BY <1>1, <1>2 DEF Promise, Stored
  <2>1. m \in Stored
    OBVIOUS
  <2> QED
    BY <1>5, <1>6, <2>1
<1> QED
  BY <1>3, <1>4, <1>7

LEMMA InitSearchInv == Init => SearchInv
  BY InitIndexInv DEF Init, SearchInv, Promise, FromStore, Running, Ended

LEMMA StepSearchInv == SearchInv /\ [Next]_vars => SearchInv'
<1> SUFFICES ASSUME SearchInv, [Next]_vars PROVE SearchInv'
  OBVIOUS
<1>0. IndexInv'
  BY StepIndexInv DEF SearchInv
<1> DEFINE Goal == /\ \A s \in Searches : Running(s)' => Stored' \subseteq ever'[s]
                   /\ \A s \in Searches : Promise(s)'
<1> SUFFICES Goal
  BY <1>0 DEF SearchInv
<1> USE DEF SearchInv, IndexInv, TypeOK
<1> HIDE DEF Goal
<1>1. ASSUME NEW m \in Memories, NEW t \in Texts, Touch(m, t), now' \in Nat, now' >= now,
             UNCHANGED stamp \/ stamp' = [stamp EXCEPT ![m] = now']
      PROVE  Goal
  <2>1. /\ phase' = phase /\ found' = found /\ text' = [text EXCEPT ![m] = t]
        /\ \A s \in Searches : steady'[s] = steady[s] \ {m}
        /\ \A s \in Searches : ~Running(s) => ever'[s] = ever[s]
    BY <1>1 DEF Touch
  <2>2. ASSUME NEW s \in Searches, Running(s)' PROVE Stored' \subseteq ever'[s]
    BY <1>1, <2>1, <2>2 DEF Running, Stored, Touch
  <2>3. ASSUME NEW s \in Searches, FromStore(s)', NEW k \in steady'[s], InReach(s, k)'
        PROVE  /\ FromStore(s) /\ InReach(s, k) /\ k \in steady[s]
               /\ text'[k] = text[k] /\ stamp'[k] = stamp[k]
    <3>1. FromStore(s) /\ ~Running(s)
      BY <2>1, <2>3 DEF FromStore, Running, Ended
    <3>2. InReach(s, k)
      BY <2>1, <2>3, <3>1 DEF InReach
    <3>3. k \in steady[s] /\ k # m
      BY <2>1, <2>3
    <3>4. k \in Memories
      BY <3>3 DEF Stored
    <3> QED
      BY <1>1, <2>1, <3>1, <3>2, <3>3, <3>4
  <2>4. \A k \in Memories : stamp[k] \in Nat /\ stamp'[k] \in Nat /\ stamp'[k] >= stamp[k]
    BY <1>1
  <2>5. ASSUME NEW s \in Searches PROVE Promise(s)'
    <3> SUFFICES ASSUME FromStore(s)', NEW k \in steady'[s], InReach(s, k)'
                 PROVE  /\ text'[k] = "whole" /\ k \notin found[s] =>
                              /\ Cardinality(found[s]) = Limit
                              /\ \A n \in found[s] : stamp'[n] >= stamp'[k]
                        /\ found[s] = {} => text'[k] \notin {"whole", "inside"}
      BY <2>1 DEF Promise
    <3>1. /\ FromStore(s) /\ InReach(s, k) /\ k \in steady[s]
          /\ text'[k] = text[k] /\ stamp'[k] = stamp[k]
      BY <2>3
    <3>2. /\ text[k] = "whole" /\ k \notin found[s] =>
                Cardinality(found[s]) = Limit /\ \A n \in found[s] : stamp[n] >= stamp[k]
          /\ found[s] = {} => text[k] \notin {"whole", "inside"}
      BY <3>1 DEF Promise
    <3>3. k \in Memories /\ found[s] \in SUBSET Memories
      BY <3>1 DEF Stored
    <3>4. ASSUME NEW n \in found[s], stamp[n] >= stamp[k] PROVE stamp'[n] >= stamp'[k]
      BY <2>4, <3>1, <3>3, <3>4
    <3> QED
      BY <3>1, <3>2, <3>4
  <2> QED
    BY <2>2, <2>5 DEF Goal
<1>2. ASSUME NEW m \in Memories, NEW t \in Texts \ {"absent"}, Write(m, t) PROVE Goal
  <2>1. /\ Touch(m, t) /\ t \in Texts /\ now' \in Nat /\ now' >= now
        /\ stamp' = [stamp EXCEPT ![m] = now']
    BY <1>2 DEF Write
  <2> QED
    BY <1>1, <2>1
<1>3. ASSUME NEW m \in Memories, Delete(m) PROVE Goal
  <2>1. Touch(m, "absent") /\ UNCHANGED <<stamp, now>> /\ "absent" \in Texts
    BY <1>3 DEF Delete, Texts
  <2> QED
    BY <1>1, <2>1
<1>4. ASSUME NEW s \in Searches, Begin(s) PROVE Goal
  BY <1>4 DEF Begin, Goto, writes, Running, Stored, Promise, FromStore, InReach, Ended, Goal
<1>5. ASSUME NEW s \in Searches, Ensure(s) PROVE Goal
  <2>1. phase' = [phase EXCEPT ![s] = phase'[s]] /\ phase'[s] \in {"create", "query", "scan"}
    BY <1>5 DEF Ensure, Goto
  <2>2. \A t \in Searches : (FromStore(t)' => FromStore(t)) /\ (Running(t)' => Running(t))
    BY <1>5, <2>1 DEF Ensure, FromStore, Running, Ended
  <2> QED
    BY <1>5, <2>2, NoAnswer DEF Ensure, writes, Goal
<1>6. ASSUME NEW s \in Searches, NEW outcome \in {"yes", "no"}, Create(s, outcome) PROVE Goal
  <2>1. \A t \in Searches : (FromStore(t)' => FromStore(t)) /\ (Running(t)' => Running(t))
    BY <1>6 DEF Create, Goto, FromStore, Running, Ended
  <2> QED
    BY <1>6, <2>1, NoAnswer DEF Create, writes, Goal
<1>7. ASSUME NEW s \in Searches, Query(s) PROVE Goal
  <2>1. CASE Matches(Candidates) = {}
    <3>1. \A t \in Searches : (FromStore(t)' => FromStore(t)) /\ (Running(t)' => Running(t))
      BY <1>7, <2>1 DEF Query, Goto, FromStore, Running, Ended
    <3> QED
      BY <1>7, <2>1, <3>1, NoAnswer DEF Query, writes, Goal
  <2>2. CASE Matches(Candidates) # {}
    <3> DEFINE P == {m \in Memories : text[m] \in {"whole", "apart"}}
    <3>1. Running(s)
      BY <1>7 DEF Query, Running, Ended
    <3>2. P \in SUBSET ever[s]
      BY <3>1 DEF Stored
    <3>3. Candidates = First(P)
      BY DEF Candidates
    <3>4. ASSUME NEW m \in Stored, InReach(s, m), text[m] = "whole" PROVE m \in Candidates
      <4>1. m \in P
        BY <3>4 DEF Stored
      <4> HIDE DEF P
      <4> QED
        BY <3>2, <3>3, <3>4, <4>1, FirstReaches
    <3>5. Candidates \in SUBSET Memories
      BY DEF Candidates, First
    <3> HIDE DEF P
    <3> QED
      BY <1>7, <2>2, <3>1, <3>4, <3>5, AnswerPromises DEF Query, writes, Goal
  <2> QED
    BY <2>1, <2>2
<1>8. ASSUME NEW s \in Searches, QueryFails(s) \/ ScanFails(s) PROVE Goal
  <2>1. \A t \in Searches : (FromStore(t)' => FromStore(t)) /\ (Running(t)' => Running(t))
    BY <1>8 DEF QueryFails, ScanFails, Goto, FromStore, Running, Ended
  <2> QED
    BY <1>8, <2>1, NoAnswer DEF QueryFails, ScanFails, writes, Goal
<1>9. ASSUME NEW s \in Searches, Scan(s) PROVE Goal
  <2>1. Running(s)
    BY <1>9 DEF Scan, Running, Ended
  <2>2. Stored \in SUBSET ever[s]
    BY <2>1
  <2>3. \A m \in Stored : InReach(s, m) => m \in First(Stored)
    BY <2>2, FirstReaches
  <2>4. First(Stored) \in SUBSET Memories
    BY DEF First, Stored
  <2> QED
    BY <1>9, <2>1, <2>3, <2>4, AnswerPromises DEF Scan, writes, Goal
<1>10. ASSUME NEW w \in Workers, Reset(w) \/ Restart(w) PROVE Goal
  <2>1. \A t \in Searches : (FromStore(t)' => FromStore(t)) /\ (Running(t)' => Running(t))
    BY <1>10 DEF Reset, Restart, FromStore, Running, Ended
  <2> QED
    BY <1>10, <2>1, NoAnswer DEF Reset, Restart, writes, Goal
<1>11. CASE UNCHANGED vars
  BY <1>11, NoAnswer DEF vars, FromStore, Running, Goal
<1> QED
  BY <1>2, <1>3, <1>4, <1>5, <1>6, <1>7, <1>8, <1>9, <1>10, <1>11 DEF Next, Step

\* A memory that has the query as whole words, is left alone and is within the reach of
\* a search is found or gives way to newer ones, for any numbers of memories, searches
\* and results, and a store of any size.
THEOREM WholeWords == Spec => []WholeWordsFound
<1>1. SearchInv => WholeWordsFound
  BY DEF SearchInv, Promise, WholeWordsFound
<1> QED
  BY <1>1, InitSearchInv, StepSearchInv, PTL DEF Spec

\* An answer of nothing has overlooked no match, in a store of any size, unless the
\* scan has failed or the match lies behind the memories that a scan looks at.
THEOREM Nothing == Spec => []NothingMeansNothing
<1>1. SearchInv => NothingMeansNothing
  BY DEF SearchInv, Promise, NothingMeansNothing, FromStore, FailOpen
<1> QED
  BY <1>1, InitSearchInv, StepSearchInv, PTL DEF Spec

-----------------------------------------------------------------------------
(* The order of search results (Ranking).                                     *)

\* The order of the list is a strict total order of its places.
LEMMA AheadIsTotal ==
  ASSUME NEW items, NEW w, NEW D, D = DOMAIN items, D \subseteq Nat,
         \A i \in D : Blend(items, w, i) \in Int
  PROVE  /\ \A i \in D : ~Ahead(items, w, i, i)
         /\ \A i, j \in D : i # j => Ahead(items, w, i, j) \/ Ahead(items, w, j, i)
         /\ \A i, j, k \in D : Ahead(items, w, i, j) /\ Ahead(items, w, j, k)
                                 => Ahead(items, w, i, k)
BY DEF Ahead

LEMMA ProperSubsetIsSmaller ==
  ASSUME NEW B, IsFiniteSet(B), NEW A \in SUBSET B, NEW x \in B, x \notin A
  PROVE  /\ Cardinality(A) \in Nat /\ Cardinality(B) \in Nat
         /\ Cardinality(A) < Cardinality(B)
BY FS_Subset, FS_CardinalityType

\* A nonempty finite set of numbers has a greatest one: the one with fewest above it.
LEMMA GreatestNatural ==
  ASSUME NEW S \in SUBSET Nat, S # {}, IsFiniteSet(S)
  PROVE  \E x \in S : \A y \in S : x >= y
<1> DEFINE Above(x) == {y \in S : y > x}
           Counts   == {Cardinality(Above(x)) : x \in S}
<1>1. ASSUME NEW x \in S PROVE IsFiniteSet(Above(x)) /\ Cardinality(Above(x)) \in Nat
  BY FS_Subset, FS_CardinalityType
<1>2. Counts \in SUBSET Nat /\ Counts # {}
  BY <1>1
<1>3. PICK n \in Counts : \A k \in Counts : n <= k
  <2> HIDE DEF Counts
  <2> QED
    BY <1>2, LeastNumber
<1>4. PICK x \in S : n = Cardinality(Above(x))
  OBVIOUS
<1>5. ASSUME NEW y \in S PROVE x >= y
  <2> SUFFICES ASSUME y > x PROVE FALSE
    OBVIOUS
  <2>1. Above(y) \in SUBSET Above(x) /\ y \in Above(x) /\ y \notin Above(y)
    <3>1. \A z \in S : z \in Nat
      OBVIOUS
    <3>2. \A z \in Above(y) : z > x
      BY <3>1
    <3>3. y \notin Above(y)
      BY <3>1
    <3> QED
      BY <3>2, <3>3
  <2>2. Cardinality(Above(y)) < Cardinality(Above(x)) /\ Cardinality(Above(y)) \in Nat
    <3> HIDE DEF Above
    <3> QED
      BY <1>1, <2>1, ProperSubsetIsSmaller
  <2>3. n <= Cardinality(Above(y))
    BY <1>3
  <2> QED
    BY <1>1, <1>4, <2>2, <2>3
<1> QED
  BY <1>5

\* The scores of a list lie between its lowest and its highest.
LEMMA ScoresSpan ==
  ASSUME NEW items \in Seq(Items), items # << >>
  PROVE  /\ Lowest(items) \in Nat /\ Highest(items) \in Nat /\ Span(items) \in Nat
         /\ \A i \in DOMAIN items : items[i].score \in Lowest(items) .. Highest(items)
<1> DEFINE D == DOMAIN items
           S == {items[i].score : i \in D}
<1>1. /\ D = 1 .. Len(items) /\ Len(items) \in Nat /\ IsFiniteSet(D)
      /\ \A i \in D : items[i] \in Items /\ items[i].score \in Nat
  <2>1. D = 1 .. Len(items) /\ Len(items) \in Nat /\ \A i \in D : items[i] \in Items
    OBVIOUS
  <2> QED
    BY <2>1, FS_Interval DEF Items
<1>2. S \in SUBSET Nat /\ S # {}
  BY <1>1
<1>3. IsFiniteSet(S)
  <2> DEFINE f == [i \in D |-> items[i].score]
  <2>1. f \in Surjection(D, S)
    BY DEF Surjection
  <2> HIDE DEF f, S
  <2> QED
    BY <1>1, <2>1, FS_Surjection
<1>4. /\ \E x \in S : \A y \in S : x <= y
      /\ \E x \in S : \A y \in S : x >= y
  <2> HIDE DEF S
  <2> QED
    BY <1>2, <1>3, LeastNumber, GreatestNatural
<1>5. /\ Lowest(items) \in S /\ \A i \in D : Lowest(items) <= items[i].score
  BY <1>4 DEF Lowest
<1>6. /\ Highest(items) \in S /\ \A i \in D : Highest(items) >= items[i].score
  BY <1>4 DEF Highest
<1>7. Lowest(items) \in Nat /\ Highest(items) \in Nat
  BY <1>2, <1>5, <1>6
<1>8. PICK i \in D : TRUE
  BY <1>2
<1>9. Span(items) \in Nat
  BY <1>1, <1>5, <1>6, <1>7, <1>8 DEF Span
<1> QED
  BY <1>1, <1>5, <1>6, <1>7, <1>9

LEMMA TimesMonotone ==
  ASSUME NEW a \in Nat, NEW b \in Nat, NEW c \in Nat, a >= b
  PROVE  /\ c * a \in Nat /\ c * b \in Nat /\ c * a >= c * b
         /\ c > 0 /\ a > b => c * a > c * b
OBVIOUS

LEMMA BlendTyped ==
  ASSUME NEW items \in Seq(Items), NEW w \in 0 .. Unit, NEW i \in DOMAIN items
  PROVE  /\ Similarity(items, i) \in Nat /\ Recency(items[i]) \in Nat
         /\ Blend(items, w, i) \in Nat
<1>1. items[i] \in Items
  OBVIOUS
<1>2. Recency(items[i]) \in Nat
  BY <1>1, DecayAssumption DEF Recency, Items
<1>3. Span(items) \in Nat /\ Similarity(items, i) \in Nat
  <2>1. items # << >>
    OBVIOUS
  <2> QED
    BY <2>1, ScoresSpan DEF Similarity
<1>4. Unit \in Nat /\ Unit - w \in Nat /\ w \in Nat
  BY DecayAssumption
<1>5. /\ Unit * Similarity(items, i) \in Nat
      /\ \A s \in Nat : Recency(items[i]) * s \in Nat
  BY <1>2, <1>3, <1>4, TimesMonotone
<1>6. \A a, b \in Nat : (Unit - w) * a + w * b \in Nat
  BY <1>4, TimesMonotone
<1> QED
  BY <1>2, <1>3, <1>5, <1>6 DEF Blend

LEMMA PlacesCounted ==
  ASSUME NEW n \in Nat
  PROVE  IsFiniteSet(1 .. n) /\ Cardinality(1 .. n) = n
<1>1. /\ IsFiniteSet(1 .. n)
      /\ Cardinality(1 .. n) = IF 1 > n THEN 0 ELSE n - 1 + 1
  BY FS_Interval
<1> QED
  BY <1>1

LEMMA ListTyped ==
  ASSUME NEW items \in Seq(Items), NEW w \in 0 .. Unit
  PROVE  /\ DOMAIN items = 1 .. Len(items) /\ DOMAIN items \subseteq Nat
         /\ IsFiniteSet(DOMAIN items) /\ Cardinality(DOMAIN items) = Len(items)
         /\ \A i \in DOMAIN items : Blend(items, w, i) \in Int
<1>1. DOMAIN items = 1 .. Len(items) /\ Len(items) \in Nat
  OBVIOUS
<1>2. IsFiniteSet(1 .. Len(items)) /\ Cardinality(1 .. Len(items)) = Len(items)
  BY <1>1, PlacesCounted
<1>3. ASSUME NEW i \in DOMAIN items PROVE Blend(items, w, i) \in Int
  BY BlendTyped
<1> QED
  BY <1>1, <1>2, <1>3

\* A sum of products grows with what is multiplied.
LEMMA BlendMonotone ==
  ASSUME NEW u \in Nat, NEW v \in Nat, NEW a \in Nat, NEW b \in Nat, NEW c \in Nat,
         NEW d \in Nat, a >= b, c >= d
  PROVE  /\ u * a + v * c >= u * b + v * d
         /\ (u > 0 /\ a > b) \/ (v > 0 /\ c > d) => u * a + v * c > u * b + v * d
<1>1. /\ u * a \in Nat /\ u * b \in Nat /\ u * a >= u * b
      /\ u > 0 /\ a > b => u * a > u * b
  BY TimesMonotone
<1>2. /\ v * c \in Nat /\ v * d \in Nat /\ v * c >= v * d
      /\ v > 0 /\ c > d => v * c > v * d
  BY TimesMonotone
<1> QED
  BY <1>1, <1>2

\* Where memories stand in the ranked list follows Ahead.
LEMMA PlaceFollowsAhead ==
  ASSUME NEW items \in Seq(Items), NEW w \in 0 .. Unit,
         NEW i \in DOMAIN items, NEW j \in DOMAIN items, Ahead(items, w, i, j)
  PROVE  Place(items, w, i) < Place(items, w, j)
<1> DEFINE D == DOMAIN items
           Before(k) == {h \in D : Ahead(items, w, h, k)}
<1>1. D \subseteq Nat /\ IsFiniteSet(D) /\ \A k \in D : Blend(items, w, k) \in Int
  BY ListTyped
<1>2. /\ ~Ahead(items, w, i, i)
      /\ \A h \in D : Ahead(items, w, h, i) => Ahead(items, w, h, j)
  BY <1>1, AheadIsTotal
<1>3. Before(i) \in SUBSET Before(j) /\ i \in Before(j) /\ i \notin Before(i)
  BY <1>2
<1>4. IsFiniteSet(Before(j))
  BY <1>1, FS_Subset
<1>5. /\ Cardinality(Before(i)) \in Nat /\ Cardinality(Before(j)) \in Nat
      /\ Cardinality(Before(i)) < Cardinality(Before(j))
  <2> HIDE DEF Before
  <2> QED
    BY <1>3, <1>4, ProperSubsetIsSmaller
<1> QED
  BY <1>5 DEF Place

LEMMA PlacesTyped ==
  ASSUME NEW items \in Seq(Items), NEW w \in 0 .. Unit, NEW i \in DOMAIN items
  PROVE  Place(items, w, i) \in DOMAIN items
<1> DEFINE D == DOMAIN items
           Before == {h \in D : Ahead(items, w, h, i)}
<1>1. D = 1 .. Len(items) /\ Len(items) \in Nat
  OBVIOUS
<1>2. D \subseteq Nat /\ IsFiniteSet(D) /\ Cardinality(D) = Len(items)
      /\ \A k \in D : Blend(items, w, k) \in Int
  BY ListTyped
<1>3. Before \in SUBSET D /\ i \notin Before
  BY <1>2, AheadIsTotal
<1>4. Cardinality(Before) \in Nat /\ Cardinality(Before) < Cardinality(D)
  <2>1. i \in D /\ IsFiniteSet(D)
    BY <1>2
  <2> HIDE DEF Before, D
  <2> QED
    BY <1>3, <2>1, ProperSubsetIsSmaller
<1> QED
  BY <1>1, <1>2, <1>4 DEF Place

-----------------------------------------------------------------------------
\* Re-ranking by recency (rerank_by_recency) changes the order of the memories that
\* were found and nothing else: each stands at one place of the result, its own, and
\* every place is taken.
THEOREM Permutes ==
  ASSUME NEW items \in Seq(Items), Len(items) >= 2, NEW recency_weight \in Nat \ {0}
  PROVE  LET w     == Weight(recency_weight)
             place == [i \in DOMAIN items |-> Place(items, w, i)]
         IN  /\ place \in Bijection(DOMAIN items, DOMAIN items)
             /\ DOMAIN Rerank(items, recency_weight) = DOMAIN items
             /\ \A i \in DOMAIN items : Rerank(items, recency_weight)[place[i]] = items[i]
<1> DEFINE w     == Weight(recency_weight)
           D     == DOMAIN items
           place == [i \in D |-> Place(items, w, i)]
<1>1. w \in 1 .. Unit
  BY DecayAssumption DEF Weight
<1>2. /\ D \subseteq Nat /\ IsFiniteSet(D)
      /\ \A i \in D : Blend(items, w, i) \in Int
  BY <1>1, ListTyped
<1> HIDE DEF w
<1>3. \A i \in D : Place(items, w, i) \in D
  BY <1>1, PlacesTyped
<1>4. \A i, j \in D : Place(items, w, i) = Place(items, w, j) => i = j
  <2> SUFFICES ASSUME NEW i \in D, NEW j \in D, i # j
               PROVE  Place(items, w, i) # Place(items, w, j)
    OBVIOUS
  <2>1. Ahead(items, w, i, j) \/ Ahead(items, w, j, i)
    BY <1>2, AheadIsTotal
  <2>2. Place(items, w, i) \in Nat /\ Place(items, w, j) \in Nat
    BY <1>2, <1>3
  <2> QED
    BY <1>1, <2>1, <2>2, PlaceFollowsAhead
<1>5. place \in Injection(D, D)
  BY <1>3, <1>4 DEF Injection, IsInjective
<1>6. place \in Bijection(D, D)
  <2>1. place \in Surjection(D, D)
    <3> HIDE DEF place, D
    <3> QED
      BY <1>2, <1>5, FS_Injection
  <2> QED
    BY <1>5, <2>1 DEF Bijection
<1>7. Rerank(items, recency_weight) =
        [p \in D |-> items[CHOOSE i \in D : Place(items, w, i) = p]]
  BY <1>1 DEF Rerank, w
<1>8. ASSUME NEW i \in D
      PROVE  Rerank(items, recency_weight)[Place(items, w, i)] = items[i]
  <2>1. (CHOOSE k \in D : Place(items, w, k) = Place(items, w, i)) = i
    BY <1>4
  <2> QED
    BY <1>3, <1>7, <2>1
<1> QED
  BY <1>6, <1>7, <1>8 DEF w

\* A memory that matches at least as well and is at least as recent as another one never
\* falls behind it: not if it came first, and not wherever it came if it is better in
\* what the weight counts.  In particular one without a usable timestamp, whose recency
\* is 0, is never boosted over another.
THEOREM BetterStaysAhead ==
  ASSUME NEW items \in Seq(Items), NEW w \in 0 .. Unit,
         NEW i \in DOMAIN items, NEW j \in DOMAIN items,
         items[i].score >= items[j].score, Recency(items[i]) >= Recency(items[j]),
         \/ i < j
         \/ w < Unit /\ items[i].score > items[j].score
         \/ w > 0 /\ Recency(items[i]) > Recency(items[j])
  PROVE  Place(items, w, i) < Place(items, w, j)
<1> DEFINE U    == Unit - w
           span == IF Span(items) = 0 THEN 1 ELSE Span(items)
<1>1. /\ items # << >> /\ i \in Nat /\ j \in Nat
      /\ items[i].score \in Nat /\ items[j].score \in Nat
  <2>1. items[i] \in Items /\ items[j] \in Items
    OBVIOUS
  <2> QED
    BY <2>1 DEF Items
<1>2. /\ Lowest(items) \in Nat /\ Highest(items) \in Nat /\ Span(items) \in Nat
      /\ items[i].score \in Lowest(items) .. Highest(items)
      /\ items[j].score \in Lowest(items) .. Highest(items)
  BY <1>1, ScoresSpan
<1>3. /\ Similarity(items, i) \in Nat /\ Recency(items[i]) \in Nat
      /\ Similarity(items, j) \in Nat /\ Recency(items[j]) \in Nat
  BY BlendTyped
<1>4. /\ Similarity(items, i) >= Similarity(items, j)
      /\ items[i].score > items[j].score => Similarity(items, i) > Similarity(items, j)
  <2>1. Span(items) = Highest(items) - Lowest(items)
    BY DEF Span
  <2> QED
    BY <1>1, <1>2, <2>1 DEF Similarity
<1>5. Unit \in Nat \ {0} /\ U \in Nat /\ w \in Nat /\ span \in Nat \ {0}
      /\ (w < Unit => U > 0)
  BY <1>2, DecayAssumption
<1>6. /\ Unit * Similarity(items, i) \in Nat /\ Unit * Similarity(items, j) \in Nat
      /\ Unit * Similarity(items, i) >= Unit * Similarity(items, j)
      /\ items[i].score > items[j].score
           => Unit * Similarity(items, i) > Unit * Similarity(items, j)
  <2> HIDE DEF U, span
  <2> QED
    BY <1>3, <1>4, <1>5, TimesMonotone
<1>7. /\ Recency(items[i]) * span \in Nat /\ Recency(items[j]) * span \in Nat
      /\ Recency(items[i]) * span >= Recency(items[j]) * span
      /\ Recency(items[i]) > Recency(items[j])
           => Recency(items[i]) * span > Recency(items[j]) * span
  <2> HIDE DEF span
  <2>1. \A x \in Nat : x * span = span * x
    BY <1>5
  <2>2. /\ span * Recency(items[i]) \in Nat /\ span * Recency(items[j]) \in Nat
        /\ span * Recency(items[i]) >= span * Recency(items[j])
        /\ Recency(items[i]) > Recency(items[j])
             => span * Recency(items[i]) > span * Recency(items[j])
    BY <1>3, <1>5, TimesMonotone
  <2> QED
    BY <1>3, <2>1, <2>2
<1>8. /\ Blend(items, w, i) = U * (Unit * Similarity(items, i)) + w * (Recency(items[i]) * span)
      /\ Blend(items, w, j) = U * (Unit * Similarity(items, j)) + w * (Recency(items[j]) * span)
  BY DEF Blend
<1>9. /\ Blend(items, w, i) >= Blend(items, w, j)
      /\ Blend(items, w, i) > Blend(items, w, j) \/ i < j
  <2> DEFINE a == Unit * Similarity(items, i)
             b == Unit * Similarity(items, j)
             c == Recency(items[i]) * span
             d == Recency(items[j]) * span
  <2>1. a \in Nat /\ b \in Nat /\ c \in Nat /\ d \in Nat /\ a >= b /\ c >= d
    BY <1>6, <1>7
  <2>2. i < j \/ (U > 0 /\ a > b) \/ (w > 0 /\ c > d)
    BY <1>5, <1>6, <1>7
  <2>3. Blend(items, w, i) = U * a + w * c /\ Blend(items, w, j) = U * b + w * d
    BY <1>8
  <2> HIDE DEF U, span, a, b, c, d
  <2>4. /\ U * a + w * c >= U * b + w * d
        /\ (U > 0 /\ a > b) \/ (w > 0 /\ c > d) => U * a + w * c > U * b + w * d
    BY <1>5, <2>1, BlendMonotone
  <2> QED
    BY <2>2, <2>3, <2>4
<1>10. Blend(items, w, i) \in Nat /\ Blend(items, w, j) \in Nat
  BY BlendTyped
<1>11. Ahead(items, w, i, j)
  BY <1>9, <1>10 DEF Ahead
<1> QED
  BY <1>11, PlaceFollowsAhead

LEMMA ShiftingWeight ==
  ASSUME NEW u \in Nat, NEW t \in Nat, NEW w \in Nat, NEW v \in Nat,
         NEW a \in Nat, NEW b \in Nat, NEW c \in Nat, NEW d \in Nat,
         t <= u, w < v, c > d, u * a + w * c >= u * b + w * d
  PROVE  t * a + v * c > t * b + v * d
<1>1. CASE a >= b
  BY <1>1, BlendMonotone
<1>2. CASE a < b
  <2> DEFINE e == b - a
             f == c - d
  <2>1. e \in Nat /\ f \in Nat /\ f > 0 /\ b = a + e /\ c = d + f
    BY <1>2
  <2> HIDE DEF e, f
  <2>2. /\ u * b = u * a + u * e /\ t * b = t * a + t * e
        /\ w * c = w * d + w * f /\ v * c = v * d + v * f
    BY <2>1
  <2>3. /\ u * a \in Nat /\ u * e \in Nat /\ t * a \in Nat /\ t * e \in Nat
        /\ w * d \in Nat /\ w * f \in Nat /\ v * d \in Nat /\ v * f \in Nat
    BY <2>1, TimesMonotone
  <2>4. u * e <= w * f
    BY <2>2, <2>3
  <2>5. t * e <= u * e /\ w * f < v * f
    <3>1. e * u >= e * t /\ f * v > f * w
      BY <2>1, TimesMonotone
    <3> QED
      BY <2>1, <3>1
  <2> QED
    BY <2>2, <2>3, <2>4, <2>5
<1> QED
  BY <1>1, <1>2

\* More weight on recency never moves a memory behind an older one that it stood
\* before: as recency_weight grows, the ranking only ever shifts towards the recent.
THEOREM MoreWeightFavoursRecent ==
  ASSUME NEW items \in Seq(Items), NEW w \in 0 .. Unit, NEW v \in 0 .. Unit, w <= v,
         NEW i \in DOMAIN items, NEW j \in DOMAIN items,
         Recency(items[i]) > Recency(items[j]), Place(items, w, i) < Place(items, w, j)
  PROVE  Place(items, v, i) < Place(items, v, j)
<1> SUFFICES ASSUME w < v PROVE Place(items, v, i) < Place(items, v, j)
  OBVIOUS
<1> DEFINE span == IF Span(items) = 0 THEN 1 ELSE Span(items)
           a == Unit * Similarity(items, i)
           b == Unit * Similarity(items, j)
           c == Recency(items[i]) * span
           d == Recency(items[j]) * span
<1>1. Ahead(items, w, i, j)
  <2>1. Place(items, w, i) \in Nat /\ Place(items, w, j) \in Nat
    BY ListTyped, PlacesTyped
  <2>2. i # j /\ ~Ahead(items, w, j, i)
    BY <2>1, PlaceFollowsAhead
  <2> QED
    BY <2>2, ListTyped, AheadIsTotal
<1>2. Unit \in Nat /\ w \in Nat /\ v \in Nat /\ Unit - w \in Nat /\ Unit - v \in Nat
      /\ Unit - v <= Unit - w
  BY DecayAssumption
<1>3. /\ Similarity(items, i) \in Nat /\ Recency(items[i]) \in Nat
      /\ Similarity(items, j) \in Nat /\ Recency(items[j]) \in Nat
  BY BlendTyped
<1>4. span \in Nat \ {0}
  <2>1. items # << >>
    OBVIOUS
  <2> QED
    BY <2>1, ScoresSpan
<1>5. a \in Nat /\ b \in Nat /\ c \in Nat /\ d \in Nat /\ c > d
  <2> HIDE DEF span
  <2>1. a \in Nat /\ b \in Nat
    BY <1>2, <1>3, TimesMonotone
  <2>2. \A x \in Nat : x * span = span * x
    BY <1>4
  <2>3. /\ span * Recency(items[i]) \in Nat /\ span * Recency(items[j]) \in Nat
        /\ span * Recency(items[i]) > span * Recency(items[j])
    BY <1>3, <1>4, TimesMonotone
  <2> QED
    BY <1>3, <2>1, <2>2, <2>3
<1>6. /\ Blend(items, w, i) = (Unit - w) * a + w * c
      /\ Blend(items, w, j) = (Unit - w) * b + w * d
      /\ Blend(items, v, i) = (Unit - v) * a + v * c
      /\ Blend(items, v, j) = (Unit - v) * b + v * d
  BY DEF Blend
<1> HIDE DEF span, a, b, c, d
<1>7. Blend(items, w, i) >= Blend(items, w, j)
  <2>1. Blend(items, w, i) \in Nat /\ Blend(items, w, j) \in Nat
    BY BlendTyped
  <2> QED
    BY <1>1, <2>1 DEF Ahead
<1>8. (Unit - v) * a + v * c > (Unit - v) * b + v * d
  <2> DEFINE u == Unit - w
             t == Unit - v
  <2>1. u \in Nat /\ t \in Nat /\ t <= u /\ u * a + w * c >= u * b + w * d
    BY <1>2, <1>6, <1>7
  <2> HIDE DEF u, t
  <2>2. t * a + v * c > t * b + v * d
    BY <1>2, <1>5, <2>1, ShiftingWeight
  <2> QED
    BY <2>2 DEF t
<1>9. Ahead(items, v, i, j)
  BY <1>6, <1>8 DEF Ahead
<1> QED
  BY <1>9, PlaceFollowsAhead
=============================================================================
