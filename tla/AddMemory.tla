------------------------------ MODULE AddMemory ------------------------------
(***************************************************************************)
(* Adding a memory: src/app/memory.py add_memory, as POST /api/v1/memories *)
(* and the MCP tool add_memory call it, on the thread pools of all workers *)
(* and over one shared vector store.                                       *)
(*                                                                         *)
(* An add looks for a stored memory with the fingerprint of its content    *)
(* and, when there is none, has mem0 extract facts from the content and    *)
(* store them one by one.  The look-up and the first insertion are calls   *)
(* over the network with an LLM call in between, and nothing is held from  *)
(* the one to the other.                                                   *)
(***************************************************************************)
EXTENDS Integers, FiniteSets

CONSTANTS
  Requests,       \* the calls that reach the server
  Contents,
  Fingerprints,
  ContentOf,      \* request -> the content it adds
  FingerprintOf,  \* content_fingerprint: contents that differ in case or spacing share one
  DedupOn,        \* request -> its dedup flag (always on over MCP)
  MaxFacts,       \* bound, content -> the facts mem0 finds in it at most
  NoFingerprint

ASSUME ContentAssumption == /\ ContentOf \in [Requests -> Contents]
                            /\ FingerprintOf \in [Contents -> Fingerprints]
                            /\ DedupOn \in [Requests -> BOOLEAN]
ASSUME FactsAssumption   == MaxFacts \in [Contents -> Nat]
ASSUME NoneAssumption    == NoFingerprint \notin Fingerprints

VARIABLES
  store,    \* the points of the vector store
  phase,    \* request -> how far it has got
  result,   \* request -> what it was answered
  facts,    \* history: request -> how many facts were extracted for it
  left,     \* request -> how many of them are not stored yet
  blind,    \* history: request -> its look-up failed
  known     \* history: request -> its content had been stored when it came

history == <<blind, known>>
addVars == <<store, phase, result, facts, left, blind, known>>

Fp(q) == FingerprintOf[ContentOf[q]]

\* The fact number `part` that request `by` stored; `fp` is its content_fp.
Points == [by : Requests, part : Nat \ {0}, fp : Fingerprints \cup {NoFingerprint}]

\* The content_fp a fact is stored with.
Mark(q) == IF DedupOn[q] THEN Fp(q) ELSE NoFingerprint

Phases  == {"new", "check", "extract", "insert", "done"}
Results == {"none", "stored", "deduplicated", "error", "refused"}

Done(q) == phase[q] = "done"

AddInit ==
  /\ store = {}
  /\ phase = [q \in Requests |-> "new"]
  /\ result = [q \in Requests |-> "none"]
  /\ facts = [q \in Requests |-> 0]
  /\ left = [q \in Requests |-> 0]
  /\ blind = [q \in Requests |-> FALSE]
  /\ known = [q \in Requests |-> FALSE]

Move(q, p)   == phase' = [phase EXCEPT ![q] = p]
Answer(q, a) == Move(q, "done") /\ result' = [result EXCEPT ![q] = a]

\* What dedup is about: an add with dedup has stored facts of the same content.
AlreadyStored(q) == \E m \in store : DedupOn[m.by] /\ Fp(m.by) = Fp(q)

\* A faulty look-up that finds any memory.
SeenAny(q) == store # {}

\* A faulty look-up that finds nothing.
SeenNever(q) == FALSE

\* _existing_fingerprint_id, when the store answers.
Seen(q) == \E m \in store : m.fp = Fp(q)

\* A request arrives.  Without dedup there is no look-up.
Arrive(q) ==
  /\ phase[q] = "new"
  /\ Move(q, IF DedupOn[q] THEN "check" ELSE "extract")
  /\ known' = [known EXCEPT ![q] = AlreadyStored(q)]
  /\ UNCHANGED <<store, result, facts, left, blind>>

\* A request is answered 4xx before add_memory is called.
Refuse(q) ==
  /\ phase[q] = "new"
  /\ Answer(q, "refused")
  /\ UNCHANGED <<store, facts, left, history>>

Check(q) ==
  /\ phase[q] = "check"
  /\ IF Seen(q) THEN Answer(q, "deduplicated") ELSE Move(q, "extract") /\ UNCHANGED result
  /\ UNCHANGED <<store, facts, left, history>>

\* A faulty look-up that takes an error for a hit.
CheckFailsClosed(q) ==
  /\ phase[q] = "check"
  /\ Answer(q, "deduplicated")
  /\ blind' = [blind EXCEPT ![q] = TRUE]
  /\ UNCHANGED <<store, facts, left, known>>

\* _existing_fingerprint_id, when the store does not: the add goes on.
CheckFails(q) ==
  /\ phase[q] = "check"
  /\ Move(q, "extract")
  /\ blind' = [blind EXCEPT ![q] = TRUE]
  /\ UNCHANGED <<store, result, facts, left, known>>

\* mem0 asks the LLM for the facts in the content; there may be none.
Extract(q, n) ==
  /\ phase[q] = "extract"
  /\ facts' = [facts EXCEPT ![q] = n]
  /\ left' = [left EXCEPT ![q] = n]
  /\ IF n = 0 THEN Answer(q, "stored") ELSE Move(q, "insert") /\ UNCHANGED result
  /\ UNCHANGED <<store, history>>

\* mem0 stores one fact, with the metadata it was given.
Insert(q) ==
  /\ phase[q] = "insert"
  /\ store' = store \cup {[by |-> q, part |-> left[q], fp |-> Mark(q)]}
  /\ left' = [left EXCEPT ![q] = @ - 1]
  /\ IF left[q] = 1 THEN Answer(q, "stored") ELSE UNCHANGED <<phase, result>>
  /\ UNCHANGED <<facts, history>>

\* The LLM or the store fails, or the worker is killed: answered 5xx or not at all,
\* and what has been stored stays.
Break(q) ==
  /\ phase[q] \in {"check", "extract", "insert"}
  /\ Answer(q, "error")
  /\ UNCHANGED <<store, facts, left, history>>

Serve(q) ==
  \/ Check(q) \/ CheckFails(q)
  \/ \E n \in 0 .. MaxFacts[ContentOf[q]] : Extract(q, n)
  \/ Insert(q)
  \/ Break(q)

AddNext == \E q \in Requests : Arrive(q) \/ Refuse(q) \/ Serve(q)

AddSpec == AddInit /\ [][AddNext]_addVars

-----------------------------------------------------------------------------
(* Correctness.                                                              *)

AddTypeOK ==
  /\ store \subseteq Points
  /\ \A m \in store : m.fp = Mark(m.by)
  /\ phase \in [Requests -> Phases]
  /\ result \in [Requests -> Results]
  /\ \A q \in Requests : Done(q) <=> result[q] # "none"
  /\ facts \in [Requests -> Nat]
  /\ left \in [Requests -> Nat]
  /\ \A q \in Requests : phase[q] = "insert" => left[q] > 0
  /\ blind \in [Requests -> BOOLEAN]
  /\ known \in [Requests -> BOOLEAN]

\* Request q left in the store what its answer says: every fact found in its
\* content, or facts that another add has found in the same content.
Kept(q) ==
  \/ result[q] = "stored" /\ \A i \in 1 .. facts[q] : \E m \in store : m.by = q /\ m.part = i
  \/ result[q] = "deduplicated" /\ AlreadyStored(q)

\* Dedup only ever saves work, it never swallows a write (memory.py:138): a request
\* answered with success has stored all its facts, or an add of the same content has
\* stored some, and all of them unless it is still at it or has failed half way, which
\* its retry then does not repair; a look-up that fails is never taken for a hit.
AnsweredIsStored ==
  \A q \in Requests : result[q] \in {"stored", "deduplicated"} => Kept(q)

\* The same content is extracted twice only by adds that overlap, or when the
\* look-up failed: what an add stored before a request came keeps that request
\* from the LLM, however long ago and by whatever caller.  (add_memory)
ExtractedTwiceOnlyWhenOverlapping ==
  \A q \in Requests : DedupOn[q] /\ known[q] /\ (phase[q] = "extract" \/ facts[q] > 0) => blind[q]

=============================================================================
