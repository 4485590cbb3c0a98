---------------------------- MODULE MemoriesProofs ----------------------------
(* Proofs about BulkDelete and about Memories, which contains it, for any store, *)
(* any number of purging callers and of single requests, and any cap.            *)
EXTENDS Memories, FiniteSetTheorems, TLAPS

-----------------------------------------------------------------------------
(* Purges (BulkDelete).                                                       *)

\* TypeOK bounds what a call counts, and DonePurged speaks of the last call only;
\* what makes them true is what a call has still to do.
CallInv(c) ==
  /\ points[c] \subseteq listed[c] /\ listed[c] \cap unborn = {}
  /\ phase[c] = "delete" /\ ~has_more[c] => listed[c] \cap store \subseteq points[c]
  /\ phase[c] = "done" => listed[c] \cap store = {}

PurgeInv == TypeOK /\ CallBounded /\ \A c \in Callers : CallInv(c)

\* What one call looks like right after its list.
LEMMA ListCounts ==
  ASSUME store \subseteq Memories, NEW P \in Fetch, NEW Q \in Cut(P)
  PROVE  /\ Q \subseteq store
         /\ Cardinality(P) > MaxDelete <=> Cardinality(store) > MaxDelete
         /\ Cardinality(Q) = IF Cardinality(P) > MaxDelete
                             THEN MaxDelete ELSE Cardinality(store)
         /\ Cardinality(P) > MaxDelete \/ Q = store
<1>1. Cardinality(store) \in Nat
  BY MemoriesAssumption, FS_Subset, FS_CardinalityType
<1>2. P \subseteq store /\ Q \subseteq P
  BY DEF Fetch, Cut
<1>3. CASE Cardinality(store) <= MaxDelete + 1
  <2>1. P = store
    BY <1>3 DEF Fetch
  <2> QED
    BY <1>1, <2>1, BoundsAssumption DEF Cut
<1>4. CASE ~(Cardinality(store) <= MaxDelete + 1)
  <2>1. Cardinality(P) = MaxDelete + 1
    BY <1>4 DEF Fetch
  <2> QED
    BY <1>1, <1>2, <1>4, <2>1, BoundsAssumption DEF Cut
<1> QED
  BY <1>3, <1>4

LEMMA ListStep ==
  ASSUME PurgeInv, NEW c \in Callers, List(c) PROVE PurgeInv'
<1>0. PICK P \in Fetch : \E Q \in Cut(P) :
        /\ points' = [points EXCEPT ![c] = Q]
        /\ has_more' = [has_more EXCEPT ![c] = Cardinality(P) > MaxDelete]
  BY DEF List
<1>1. PICK Q \in Cut(P) :
        /\ points' = [points EXCEPT ![c] = Q]
        /\ has_more' = [has_more EXCEPT ![c] = Cardinality(P) > MaxDelete]
  BY <1>0
<1>2. /\ phase' = [phase EXCEPT ![c] = "delete"]
      /\ deleted' = [deleted EXCEPT ![c] = 0]
      /\ listed' = [listed EXCEPT ![c] = store]
      /\ store' = store /\ unborn' = unborn /\ failures' = failures
  BY DEF List
<1>3. store \subseteq Memories /\ TypeOK /\ CallBounded /\ \A d \in Callers : CallInv(d)
  BY DEF PurgeInv, TypeOK
<1>4. /\ Q \subseteq store
      /\ Cardinality(P) > MaxDelete <=> Cardinality(store) > MaxDelete
      /\ Cardinality(Q) = IF Cardinality(P) > MaxDelete THEN MaxDelete ELSE Cardinality(store)
      /\ Cardinality(P) > MaxDelete \/ Q = store
  BY <1>3, ListCounts
<1>5. Cardinality(Q) \in Nat
  BY <1>3, <1>4, MemoriesAssumption, FS_Subset, FS_CardinalityType
<1>6. TypeOK'
  BY <1>1, <1>2, <1>3, <1>4, BoundsAssumption DEF TypeOK
<1>7. CallBounded'
  <2> SUFFICES ASSUME NEW d \in Callers, phase'[d] = "delete"
               PROVE  /\ deleted'[d] + Cardinality(points'[d]) =
                           IF has_more'[d] THEN MaxDelete ELSE Cardinality(listed'[d])
                      /\ has_more'[d] <=> Cardinality(listed'[d]) > MaxDelete
    BY DEF CallBounded
  <2>1. CASE d = c
    <3>1. /\ deleted'[c] = 0 /\ points'[c] = Q /\ listed'[c] = store
          /\ has_more'[c] = (Cardinality(P) > MaxDelete)
      BY <1>1, <1>2, <1>3 DEF TypeOK
    <3>2. 0 + Cardinality(Q) = Cardinality(Q)
      BY <1>5
    <3> QED
      BY <1>4, <2>1, <3>1, <3>2
  <2>2. CASE d # c
    BY <1>1, <1>2, <1>3, <2>2 DEF TypeOK, CallBounded
  <2> QED
    BY <2>1, <2>2
<1>8. ASSUME NEW d \in Callers PROVE CallInv(d)'
  <2>1. CASE d = c
    BY <1>1, <1>2, <1>3, <1>4, <2>1 DEF TypeOK, CallInv
  <2>2. CASE d # c
    BY <1>1, <1>2, <1>3, <2>2 DEF TypeOK, CallInv
  <2> QED
    BY <2>1, <2>2
<1> QED
  BY <1>6, <1>7, <1>8 DEF PurgeInv

LEMMA DeleteStep ==
  ASSUME PurgeInv, NEW c \in Callers, NEW m \in Memories, Delete(c, m) PROVE PurgeInv'
<1>1. TypeOK /\ CallBounded /\ \A d \in Callers : CallInv(d)
  BY DEF PurgeInv
<1>2. /\ phase[c] = "delete" /\ m \in points[c]
      /\ store' = store \ {m}
      /\ points' = [points EXCEPT ![c] = @ \ {m}]
      /\ deleted' = [deleted EXCEPT ![c] = @ + 1]
      /\ unborn' = unborn /\ phase' = phase /\ has_more' = has_more
      /\ listed' = listed /\ failures' = failures
  BY DEF Delete
<1>3. /\ Cardinality(points[c] \ {m}) = Cardinality(points[c]) - 1
      /\ Cardinality(points[c]) \in Nat /\ Cardinality(points[c]) - 1 \in Nat
  <2>1. IsFiniteSet(points[c]) /\ IsFiniteSet(points[c] \ {m})
    BY <1>1, MemoriesAssumption, FS_Subset DEF TypeOK
  <2> QED
    BY <1>2, <2>1, FS_RemoveElement, FS_CardinalityType
<1>4. deleted[c] \in Nat /\ deleted[c] + Cardinality(points[c]) <= MaxDelete
  <2>1. Cardinality(listed[c]) \in Nat
    BY <1>1, MemoriesAssumption, FS_Subset, FS_CardinalityType DEF TypeOK
  <2> QED
    BY <1>1, <1>2, <1>3, <2>1, BoundsAssumption DEF CallBounded, TypeOK
<1>5. deleted[c] + 1 \in 0 .. MaxDelete
  BY <1>3, <1>4, BoundsAssumption
<1>6. TypeOK'
  BY <1>1, <1>2, <1>5 DEF TypeOK
<1>7. CallBounded'
  <2> SUFFICES ASSUME NEW d \in Callers, phase'[d] = "delete"
               PROVE  /\ deleted'[d] + Cardinality(points'[d]) =
                           IF has_more'[d] THEN MaxDelete ELSE Cardinality(listed'[d])
                      /\ has_more'[d] <=> Cardinality(listed'[d]) > MaxDelete
    BY DEF CallBounded
  <2>1. CASE d = c
    <3>1. /\ deleted'[c] = deleted[c] + 1
          /\ Cardinality(points'[c]) = Cardinality(points[c]) - 1
      BY <1>1, <1>2, <1>3 DEF TypeOK
    <3>2. deleted'[c] + Cardinality(points'[c]) = deleted[c] + Cardinality(points[c])
      BY <1>3, <1>4, <3>1
    <3> QED
      BY <1>1, <1>2, <2>1, <3>2 DEF CallBounded
  <2>2. CASE d # c
    BY <1>1, <1>2, <2>2 DEF TypeOK, CallBounded
  <2> QED
    BY <2>1, <2>2
<1>8. ASSUME NEW d \in Callers PROVE CallInv(d)'
  BY <1>1, <1>2 DEF TypeOK, CallInv
<1> QED
  BY <1>6, <1>7, <1>8 DEF PurgeInv

LEMMA PurgeStep == ASSUME PurgeInv, [Next]_vars PROVE PurgeInv'
<1>0. TypeOK /\ CallBounded /\ \A d \in Callers : CallInv(d)
  BY DEF PurgeInv
<1>1. ASSUME NEW m \in Memories, Add(m) \/ DeleteOne(m) PROVE PurgeInv'
  BY <1>0, <1>1 DEF Add, DeleteOne, PurgeInv, TypeOK, CallBounded, CallInv
<1>2. ASSUME NEW c \in Callers, BreakOff(c), failures' \in 0 .. MaxFailures PROVE PurgeInv'
  BY <1>0, <1>2 DEF BreakOff, PurgeInv, TypeOK, CallBounded, CallInv
<1>3. ASSUME NEW c \in Callers, DeleteRefused(c) PROVE PurgeInv'
  BY <1>0, <1>2, <1>3, BoundsAssumption DEF DeleteRefused, TypeOK
<1>4. ASSUME NEW c \in Callers, NEW m \in Memories, DeleteGone(c, m) PROVE PurgeInv'
  BY <1>0, <1>2, <1>4 DEF DeleteGone, TypeOK
<1>5. ASSUME NEW c \in Callers, Answer(c) PROVE PurgeInv'
  BY <1>0, <1>5 DEF Answer, Repeat, PurgeInv, TypeOK, CallBounded, CallInv
<1>6. CASE UNCHANGED vars
  BY <1>0, <1>6 DEF vars, PurgeInv, TypeOK, CallBounded, CallInv
<1> QED
  BY <1>1, <1>3, <1>4, <1>5, <1>6, ListStep, DeleteStep DEF Next, Call

LEMMA PurgeInvariant == Spec => []PurgeInv
<1>1. Init => PurgeInv
  BY BoundsAssumption DEF Init, PurgeInv, TypeOK, CallBounded, CallInv
<1> QED
  BY <1>1, PurgeStep, PTL DEF Spec

\* The variables keep their types, and no call counts more deletions than the cap.
THEOREM TypeCorrect == Spec => []TypeOK
<1>1. PurgeInv => TypeOK
  BY DEF PurgeInv
<1> QED
  BY <1>1, PurgeInvariant, PTL

\* A call deletes what it listed, cut at the cap, and has_more says when it was cut.
THEOREM Bounded == Spec => []CallBounded
<1>1. PurgeInv => CallBounded
  BY DEF PurgeInv
<1> QED
  BY <1>1, PurgeInvariant, PTL

\* A caller that stops when has_more is false has purged all its last call listed.
THEOREM Purged == Spec => []DonePurged
<1>1. PurgeInv => DonePurged
  BY DEF PurgeInv, CallInv, DonePurged
<1> QED
  BY <1>1, PurgeInvariant, PTL

-----------------------------------------------------------------------------
(* Single requests next to purges (Memories).                                 *)

LEMMA PurgeOrNot == ASSUME [MNext]_allVars PROVE [Next]_vars
<1>1. ASSUME NEW r \in Requests, Serve(r) PROVE [Next]_vars
  <2>1. CASE DeleteStored(r)
    BY <2>1, RequestAssumption DEF DeleteStored, Next
  <2> QED
    BY <1>1, <2>1 DEF Serve, Look, Update, ActOnNothing, Break
<1> QED
  BY <1>1 DEF MNext, allVars, Next

\* Towards the store, single requests are deletions like any other: purges next to
\* them behave as BulkDelete specifies.
THEOREM DrivesPurges == MSpec => Spec
<1>1. MInit => Init
  BY DEF MInit
<1> QED
  BY <1>1, PurgeOrNot, PTL DEF MSpec, Spec

\* So a caller that stopped has purged all that matched when its last call looked,
\* whatever single memories were updated and deleted meanwhile.
THEOREM PurgedAnyway == MSpec => []DonePurged
  BY DrivesPurges, Purged, PTL

-----------------------------------------------------------------------------
(* What single requests are answered.                                        *)

\* An answer was true when it was given because of what the look-up saw, and stays
\* true because a memory that is gone does not come back.
RequestInv(r) ==
  /\ stage[r] = "look" => answer[r] = "none"
  /\ stage[r] = "act" => answer[r] = "none" /\ "stored" \in held[r] /\ Target[r] \notin unborn
  /\ stage[r] = "over" => answer[r] # "none"
  /\ answer[r] = "not_found" => "missing" \in held[r]
  /\ answer[r] \in {"updated", "deleted"} => "stored" \in held[r] /\ Target[r] \notin unborn
  /\ answer[r] = "updated" => Target[r] \in edited \/ Target[r] \notin store
  /\ answer[r] = "deleted" => Target[r] \notin store

Typed ==
  /\ answer \in [Requests -> {"none", "not_found", "updated", "deleted", "error"}]
  /\ stage \in [Requests -> {"look", "act", "over"}]
  /\ edited \subseteq Memories \ unborn
  /\ held \in [Requests -> SUBSET {"stored", "missing"}]

SingleInv == TypeOK /\ Typed /\ \A r \in Requests : RequestInv(r)

LEMMA SingleTyped ==
  ASSUME TypeOK, Typed, [MNext]_allVars PROVE Typed'
<1> USE DEF Typed
<1>0. unborn' \subseteq unborn
  BY PurgeOrNot DEF Next, vars, Add, DeleteOne, Call, List, Delete, DeleteRefused, DeleteGone, BreakOff, Answer
<1>1. CASE UNCHANGED allVars
  BY <1>1 DEF allVars, single, vars
<1>2. CASE MNext
  <2>1. held' \in [Requests -> SUBSET {"stored", "missing"}]
    BY <1>2 DEF MNext, Observe
  <2>2. CASE UNCHANGED single
    BY <1>0, <2>1, <2>2 DEF single
  <2>3. ASSUME NEW r \in Requests, Serve(r) PROVE Typed'
    <3>1. Update(r) => Target[r] \notin unborn
      BY DEF Update, TypeOK
    <3> QED
      BY <1>0, <2>1, <2>3, <3>1, RequestAssumption DEF Serve, Look, Update, DeleteStored, ActOnNothing, Break, Finish
  <2> QED
    BY <1>2, <2>2, <2>3 DEF MNext
<1> QED
  BY <1>1, <1>2

LEMMA RequestStep ==
  ASSUME SingleInv, MNext, NEW r \in Requests PROVE RequestInv(r)'
<1>0. TypeOK /\ Typed /\ RequestInv(r) /\ Target[r] \in Memories
  BY RequestAssumption DEF SingleInv
<1>1. /\ unborn' \subseteq unborn /\ edited \subseteq edited'
      /\ Target[r] \notin store \cup unborn => Target[r] \notin store'
  <2>1. UNCHANGED single \/ \E p \in Requests : Serve(p)
    BY DEF MNext
  <2>2. edited \subseteq edited'
    BY <2>1 DEF single, Serve, Look, Update, DeleteStored, ActOnNothing, Break
  <2>3. unborn' \subseteq unborn /\ store' \subseteq store \cup unborn
    BY PurgeOrNot DEF Next, vars, Add, DeleteOne, Call, List, Delete, DeleteRefused,
                      DeleteGone, BreakOff, Answer
  <2> QED
    BY <2>2, <2>3
<1>2. held'[r] = IF stage[r] = "over" \/ stage'[r] = "look" THEN held[r]
                 ELSE held[r] \cup {IF Target[r] \in store THEN "stored" ELSE "missing"}
  BY DEF MNext, Observe
<1>a. held[r] \subseteq held'[r]
  BY <1>2
<1>3. CASE answer'[r] = answer[r] /\ stage'[r] = stage[r]
  BY <1>0, <1>1, <1>a, <1>3 DEF RequestInv, Typed
<1>4. ASSUME Serve(r) PROVE RequestInv(r)'
  <2>1. CASE Look(r)
    <3>1. CASE Target[r] \in store
      <4>1. stage'[r] = "act" /\ answer'[r] = "none" /\ unborn' = unborn
        BY <1>0, <2>1, <3>1 DEF Look, Typed, RequestInv, vars
      <4>2. "stored" \in held'[r]
        BY <1>0, <1>2, <2>1, <3>1, <4>1 DEF Look
      <4>3. Target[r] \notin unborn
        BY <1>0, <3>1 DEF TypeOK
      <4> QED
        BY <4>1, <4>2, <4>3 DEF RequestInv
    <3>2. CASE Target[r] \notin store
      <4>1. stage'[r] = "over" /\ answer'[r] = "not_found"
        BY <1>0, <2>1, <3>2 DEF Look, Finish, Typed
      <4>2. "missing" \in held'[r]
        BY <1>2, <2>1, <3>2, <4>1 DEF Look
      <4> QED
        BY <4>1, <4>2 DEF RequestInv
    <3> QED
      BY <3>1, <3>2
  <2>2. CASE Update(r)
    <3>1. stage'[r] = "over" /\ answer'[r] = "updated" /\ Target[r] \in edited' /\ unborn' = unborn
      BY <1>0, <2>2 DEF Update, Finish, Typed, vars
    <3> QED
      BY <1>0, <1>a, <2>2, <3>1 DEF RequestInv, Update
  <2>3. CASE DeleteStored(r) \/ ActOnNothing(r)
    <3>1. stage'[r] = "over" /\ answer'[r] \in {"updated", "deleted"} /\ unborn' = unborn
      BY <1>0, <2>3, RequestAssumption DEF DeleteStored, DeleteOne, ActOnNothing, Finish, Typed, vars
    <3>2. Target[r] \notin store' /\ stage[r] = "act"
      BY <2>3 DEF DeleteStored, DeleteOne, ActOnNothing, vars
    <3> QED
      BY <1>0, <1>a, <3>1, <3>2 DEF RequestInv
  <2>4. CASE Break(r)
    <3>1. stage'[r] = "over" /\ answer'[r] = "error"
      BY <1>0, <2>4 DEF Break, Finish, Typed
    <3> QED
      BY <3>1 DEF RequestInv
  <2> QED
    BY <1>4, <2>1, <2>2, <2>3, <2>4 DEF Serve
<1>5. ASSUME NEW p \in Requests, p # r, Serve(p) PROVE RequestInv(r)'
  BY <1>0, <1>3, <1>5 DEF Serve, Look, Update, DeleteStored, ActOnNothing, Break, Finish, Typed
<1>6. CASE UNCHANGED single
  BY <1>3, <1>6 DEF single
<1> QED
  BY <1>4, <1>5, <1>6 DEF MNext

LEMMA SingleInvariant == MSpec => []SingleInv
<1>1. MInit /\ TypeOK => SingleInv
  BY DEF MInit, SingleInv, Typed, RequestInv
<1>2. SingleInv /\ TypeOK' /\ [MNext]_allVars => SingleInv'
  <2> SUFFICES ASSUME SingleInv, TypeOK', [MNext]_allVars PROVE SingleInv'
    OBVIOUS
  <2>1. Typed'
    BY SingleTyped DEF SingleInv
  <2>2. CASE MNext
    BY <2>1, <2>2, RequestStep DEF SingleInv
  <2>3. CASE UNCHANGED allVars
    BY <2>1, <2>3 DEF SingleInv, RequestInv, allVars, single, vars
  <2> QED
    BY <2>2, <2>3
<1>3. MSpec => []TypeOK
  BY DrivesPurges, TypeCorrect, PTL
<1> QED
  BY <1>1, <1>2, <1>3, PTL DEF MSpec

\* The variables of purges and single requests keep their types.
THEOREM MTypeCorrect == MSpec => []MTypeOK
<1>1. SingleInv => MTypeOK
  BY DEF SingleInv, Typed, RequestInv, MTypeOK
<1> QED
  BY <1>1, SingleInvariant, PTL

\* A request was answered what was true of its memory while it ran, for any number of
\* requests, purges and adds next to it.
THEOREM AnsweredTrue == MSpec => []AnswersTrue
<1>1. SingleInv => AnswersTrue
  BY DEF SingleInv, RequestInv, AnswersTrue
<1> QED
  BY <1>1, SingleInvariant, PTL
=============================================================================
