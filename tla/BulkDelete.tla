------------------------------ MODULE BulkDelete ------------------------------
(***************************************************************************)
(* Deleting many memories: src/app/memory.py bulk_delete behind POST       *)
(* /api/v1/memories/delete_bulk, and the callers that post it again until  *)
(* has_more is false, as the user guide tells them to.  Next to them       *)
(* memories are added, and deleted one by one.                             *)
(*                                                                         *)
(* A call lists the memories that match its filters, at most one more than *)
(* it will delete, and then deletes them one round trip after the other;   *)
(* the list is not looked at again.  The first deletion that fails ends    *)
(* the call.  Memories is the set of the memories that match the filters:  *)
(* the server's one update replaces a memory's text (Memories.tla).        *)
(***************************************************************************)
EXTENDS Integers, FiniteSets

CONSTANTS
  Memories,    \* the memories that match, stored or still to be stored
  Callers,     \* the callers that purge them
  MaxDelete,   \* BULK_DELETE_MAX
  MaxFailures  \* bound: deletions the store refuses

ASSUME MemoriesAssumption == IsFiniteSet(Memories)
ASSUME BoundsAssumption   == MaxDelete \in Nat \ {0} /\ MaxFailures \in Nat

VARIABLES
  store,     \* the memories that are stored
  unborn,    \* the memories that have not been stored yet
  phase,     \* caller -> between calls, in one, done with its loop
  points,    \* caller -> the listed memories its call has still to delete
  deleted,   \* caller -> the deletions its call counts
  has_more,  \* caller -> what its call will answer, or answered
  listed,    \* history: caller -> all that matched when its call looked
  failures   \* how many deletions the store has refused

vars == <<store, unborn, phase, points, deleted, has_more, listed, failures>>

Init ==
  /\ store \in SUBSET Memories
  /\ unborn = Memories \ store
  /\ phase = [c \in Callers |-> "ready"]
  /\ points = [c \in Callers |-> {}]
  /\ deleted = [c \in Callers |-> 0]
  /\ has_more = [c \in Callers |-> TRUE]
  /\ listed = [c \in Callers |-> {}]
  /\ failures = 0

\* An add stores a memory that matches.
Add(m) ==
  /\ m \in unborn
  /\ unborn' = unborn \ {m}
  /\ store' = store \cup {m}
  /\ UNCHANGED <<phase, points, deleted, has_more, listed, failures>>

\* A single memory is deleted.
DeleteOne(m) ==
  /\ m \in store
  /\ store' = store \ {m}
  /\ UNCHANGED <<unborn, phase, points, deleted, has_more, listed, failures>>

\* vector_store.list with top_k = max_delete + 1: all that match, or that many of them.
Fetch ==
  {P \in SUBSET store : IF Cardinality(store) <= MaxDelete + 1
                        THEN P = store ELSE Cardinality(P) = MaxDelete + 1}

\* Faulty: the list is not cut, and the extra memory is deleted with the others.
Uncut(P) == {P}

\* points[:max_delete]
Cut(P) == IF Cardinality(P) <= MaxDelete
          THEN {P} ELSE {Q \in SUBSET P : Cardinality(Q) = MaxDelete}

\* Without confirm the call answers after the list, and changes nothing; a listing that
\* raises changes nothing either, and the caller, who has no answer, calls again.  Every
\* point of the store has an id, so each of those listed is deleted.
List(c) ==
  /\ phase[c] = "ready"
  /\ \E P \in Fetch : \E Q \in Cut(P) :
       /\ points' = [points EXCEPT ![c] = Q]
       /\ has_more' = [has_more EXCEPT ![c] = Cardinality(P) > MaxDelete]
  /\ phase' = [phase EXCEPT ![c] = "delete"]
  /\ deleted' = [deleted EXCEPT ![c] = 0]
  /\ listed' = [listed EXCEPT ![c] = store]
  /\ UNCHANGED <<store, unborn, failures>>

\* Faulty: the deletion is counted, but the memory stays.
DeleteNothing(c, m) ==
  /\ phase[c] = "delete" /\ m \in points[c]
  /\ points' = [points EXCEPT ![c] = @ \ {m}]
  /\ deleted' = [deleted EXCEPT ![c] = @ + 1]
  /\ UNCHANGED <<store, unborn, phase, has_more, listed, failures>>

\* Memory.delete of one listed memory.  If it is gone by now mem0 may say nothing.
Delete(c, m) ==
  /\ phase[c] = "delete" /\ m \in points[c]
  /\ store' = store \ {m}
  /\ points' = [points EXCEPT ![c] = @ \ {m}]
  /\ deleted' = [deleted EXCEPT ![c] = @ + 1]
  /\ UNCHANGED <<unborn, phase, has_more, listed, failures>>

\* Faulty: a failure is answered with the has_more of the list.
BreakOffQuietly(c) ==
  /\ phase' = [phase EXCEPT ![c] = IF has_more[c] THEN "ready" ELSE "done"]
  /\ points' = [points EXCEPT ![c] = {}]
  /\ UNCHANGED <<store, unborn, deleted, has_more, listed>>

\* The loop breaks: the call answers with an error and has_more, and is repeated.
BreakOff(c) ==
  /\ phase' = [phase EXCEPT ![c] = "ready"]
  /\ points' = [points EXCEPT ![c] = {}]
  /\ has_more' = [has_more EXCEPT ![c] = TRUE]
  /\ UNCHANGED <<store, unborn, deleted, listed>>

\* The store refuses a deletion.
DeleteRefused(c) ==
  /\ phase[c] = "delete" /\ points[c] # {}
  /\ failures < MaxFailures
  /\ failures' = failures + 1
  /\ BreakOff(c)

\* Or mem0 raises, the memory being gone by now.
DeleteGone(c, m) ==
  /\ phase[c] = "delete" /\ m \in points[c] \ store
  /\ BreakOff(c)
  /\ UNCHANGED failures

\* The caller repeats the call while has_more.
Repeat(c) == has_more[c]

Answer(c) ==
  /\ phase[c] = "delete" /\ points[c] = {}
  /\ phase' = [phase EXCEPT ![c] = IF Repeat(c) THEN "ready" ELSE "done"]
  /\ UNCHANGED <<store, unborn, points, deleted, has_more, listed, failures>>

Call(c) ==
  \/ List(c)
  \/ \E m \in Memories : Delete(c, m) \/ DeleteGone(c, m)
  \/ DeleteRefused(c)
  \/ Answer(c)

Next ==
  \/ \E m \in Memories : Add(m) \/ DeleteOne(m)
  \/ \E c \in Callers : Call(c)

Spec == Init /\ [][Next]_vars

-----------------------------------------------------------------------------
(* Correctness.                                                              *)

TypeOK ==
  /\ store \subseteq Memories /\ unborn \subseteq Memories
  /\ store \cap unborn = {}
  /\ phase \in [Callers -> {"ready", "delete", "done"}]
  /\ points \in [Callers -> SUBSET Memories]
  /\ deleted \in [Callers -> 0 .. MaxDelete]
  /\ has_more \in [Callers -> BOOLEAN]
  /\ listed \in [Callers -> SUBSET Memories]
  /\ failures \in 0 .. MaxFailures

\* A caller whose loop has ended has purged the store: all that matched when its last
\* call looked is gone, however many calls it took, whichever of them failed, and
\* whatever was deleted by others meanwhile.  (bulk_delete; USER_GUIDE.md, Bulk delete)
DonePurged == \A c \in Callers : phase[c] = "done" => listed[c] \cap store = {}

\* No call touches more memories than the cap, and none it did not list: what a call
\* has counted and what it has still to do make up what it listed, cut at the cap.
CallBounded ==
  \A c \in Callers : phase[c] = "delete" =>
    /\ deleted[c] + Cardinality(points[c]) =
         IF has_more[c] THEN MaxDelete ELSE Cardinality(listed[c])
    /\ has_more[c] <=> Cardinality(listed[c]) > MaxDelete

\* Every loop ends, although calls fail, memories are added, and the callers delete
\* what the others have listed.
LoopEnds == \A c \in Callers : <>(phase[c] = "done")
=============================================================================
