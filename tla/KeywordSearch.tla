----------------------------- MODULE KeywordSearch -----------------------------
(***************************************************************************)
(* Keyword search: src/app/memory.py keyword_search and the lazily created *)
(* full-text index of each worker (_ensure_keyword_index), next to writes  *)
(* to the store.                                                           *)
(*                                                                         *)
(* A search makes sure of the index, asks the store for the memories that  *)
(* contain every word of the query, and keeps those that contain the query *)
(* itself; when none is left, or the query fails, it scans the store.      *)
(* The store may change between any two of these steps.                    *)
(*                                                                         *)
(* One query is followed.  Of a memory's text only its relation to that    *)
(* query matters: it contains it as whole words, or inside longer words    *)
(* only, or has its words apart from each other, or does not match at all. *)
(***************************************************************************)
EXTENDS Integers, FiniteSets

CONSTANTS
  Memories,    \* the ids of all memories, stored or not
  Workers,     \* the uvicorn worker processes
  Searches,    \* the searches, each on a thread of its worker
  On,          \* search -> the worker that runs it
  Limit,       \* the number of results asked for
  ScanLimit,   \* DEFAULT_KEYWORD_SCAN_LIMIT
  MaxTime      \* bound: the last moment at which a memory is written

ASSUME MemoriesAssumption == Memories \subseteq Nat /\ IsFiniteSet(Memories)
ASSUME SearchesAssumption == On \in [Searches -> Workers]
ASSUME LimitsAssumption   == Limit \in Nat \ {0} /\ ScanLimit \in Nat /\ MaxTime \in Nat

VARIABLES
  text,     \* memory -> how its text relates to the query
  stamp,    \* memory -> when it was last touched; 0 without a timestamp
  now,
  index,    \* worker -> _keyword_index_state
  phase,    \* search -> how far it has got
  found,    \* search -> its results
  steady,   \* history: search -> the memories stored and untouched ever since it began
  ever      \* history: search -> the memories stored at some moment of it

writes == <<text, stamp, now>>
vars   == <<text, stamp, now, index, phase, found, steady, ever>>

Texts  == {"whole", "inside", "apart", "other", "absent"}
Ended  == {"indexed", "scanned", "failed", "lost"}
Phases == {"new", "ensure", "create", "query", "scan"} \cup Ended

Stored == {m \in Memories : text[m] # "absent"}

Init ==
  /\ text \in [Memories -> Texts]
  /\ stamp \in [Memories -> 0 .. 1]
  /\ now = 1
  /\ index = [w \in Workers |-> "unknown"]
  /\ phase = [s \in Searches |-> "new"]
  /\ found = [s \in Searches |-> {}]
  /\ steady = [s \in Searches |-> {}]
  /\ ever = [s \in Searches |-> {}]

Goto(s, p) == phase' = [phase EXCEPT ![s] = p]

Running(s) == phase[s] \notin Ended \cup {"new"}

-----------------------------------------------------------------------------
(* Writes to the store.                                                      *)

\* What a write of m to text t means for the searches that are on their way.
Touch(m, t) ==
  /\ text' = [text EXCEPT ![m] = t]
  /\ steady' = [s \in Searches |-> steady[s] \ {m}]
  /\ ever' = [s \in Searches |-> IF Running(s) /\ t # "absent" THEN ever[s] \cup {m} ELSE ever[s]]
  /\ UNCHANGED <<index, phase, found>>

\* POST or PUT: memory m is stored or its text is replaced.
Write(m, t) ==
  /\ now < MaxTime
  /\ now' = now + 1
  /\ stamp' = [stamp EXCEPT ![m] = now + 1]
  /\ Touch(m, t)

Delete(m) ==
  /\ m \in Stored
  /\ Touch(m, "absent")
  /\ UNCHANGED <<stamp, now>>

-----------------------------------------------------------------------------
(* The index.                                                                *)

\* A search begins.
Begin(s) ==
  /\ phase[s] = "new"
  /\ Goto(s, "ensure")
  /\ steady' = [steady EXCEPT ![s] = Stored]
  /\ ever' = [ever EXCEPT ![s] = Stored]
  /\ UNCHANGED <<writes, index, found>>

\* Faulty: no lock.
NoLock(w) == FALSE

\* _keyword_index_lock is held during the creation of the index, and only there for
\* longer than a step.
Locked(w) == \E s \in Searches : On[s] = w /\ phase[s] = "create"

\* _ensure_keyword_index: the first search of a worker creates the index, the others
\* wait for it and then go by its outcome.
Ensure(s) ==
  /\ phase[s] = "ensure" /\ ~Locked(On[s])
  /\ Goto(s, CASE index[On[s]] = "unknown" -> "create"
               [] index[On[s]] = "yes" -> "query"
               [] index[On[s]] = "no" -> "scan")
  /\ UNCHANGED <<writes, index, found, steady, ever>>

Create(s, outcome) ==
  /\ phase[s] = "create"
  /\ index' = [index EXCEPT ![On[s]] = outcome]
  /\ Goto(s, IF outcome = "yes" THEN "query" ELSE "scan")
  /\ UNCHANGED <<writes, found, steady, ever>>

\* reset_keyword_index_state.
Reset(w) ==
  /\ ~Locked(w)
  /\ index' = [index EXCEPT ![w] = "unknown"]
  /\ UNCHANGED <<writes, phase, found, steady, ever>>

\* A worker is replaced: its searches are lost, and it knows of no index.
Restart(w) ==
  /\ index' = [index EXCEPT ![w] = "unknown"]
  /\ phase' = [s \in Searches |-> IF On[s] = w /\ Running(s) THEN "lost" ELSE phase[s]]
  /\ UNCHANGED <<writes, found, steady, ever>>

-----------------------------------------------------------------------------
(* The search.                                                               *)

\* Scrolling the store: the first of the memories P, by id.
First(P) == {m \in P : Cardinality({k \in P : k < m}) < ScanLimit}

\* Newer by _point_recency; the sort is stable, and memories come ordered by id.
Newer(k, m) == stamp[k] > stamp[m] \/ (stamp[k] = stamp[m] /\ k < m)

Containing(P) == {m \in P : text[m] \in {"whole", "inside"}}

\* Faulty: cut before the sort.
MatchesByID(P) == {m \in Containing(P) : Cardinality({k \in Containing(P) : k < m}) < Limit}

\* _substring_matches: the newest of those that contain the query.
Matches(P) == {m \in Containing(P) : Cardinality({k \in Containing(P) : Newer(k, m)}) < Limit}

\* _indexed_keyword_points: Qdrant's MatchText.
Candidates == First({m \in Memories : text[m] \in {"whole", "apart"}})

Answer(s, p, P) == Goto(s, p) /\ found' = [found EXCEPT ![s] = Matches(P)]

\* Faulty: the index has the last word.
QueryOnly(s) ==
  /\ phase[s] = "query"
  /\ Answer(s, "indexed", Candidates)
  /\ UNCHANGED <<writes, index, steady, ever>>

Query(s) ==
  /\ phase[s] = "query"
  /\ IF Matches(Candidates) = {}
     THEN Goto(s, "scan") /\ UNCHANGED found
     ELSE Answer(s, "indexed", Candidates)
  /\ UNCHANGED <<writes, index, steady, ever>>

\* Faulty: a query that fails is repeated.
QueryAgain(s) ==
  /\ phase[s] = "query"
  /\ Goto(s, "ensure")
  /\ UNCHANGED <<writes, index, found, steady, ever>>

\* Faulty: fail-open without a scan.
QueryFailsOpen(s) ==
  /\ phase[s] = "query"
  /\ Answer(s, "indexed", {})
  /\ UNCHANGED <<writes, index, steady, ever>>

QueryFails(s) ==
  /\ phase[s] = "query"
  /\ Goto(s, "scan")
  /\ UNCHANGED <<writes, index, found, steady, ever>>

\* _scanned_points: the first memories of all.
Scan(s) ==
  /\ phase[s] = "scan"
  /\ Answer(s, "scanned", First(Stored))
  /\ UNCHANGED <<writes, index, steady, ever>>

\* The store fails: answered with no results.
ScanFails(s) ==
  /\ phase[s] = "scan"
  /\ Goto(s, "failed")
  /\ UNCHANGED <<writes, index, found, steady, ever>>

Step(s) ==
  \/ Begin(s) \/ Ensure(s)
  \/ \E outcome \in {"yes", "no"} : Create(s, outcome)
  \/ Query(s) \/ QueryFails(s)
  \/ Scan(s) \/ ScanFails(s)

Next ==
  \/ \E m \in Memories, t \in Texts \ {"absent"} : Write(m, t)
  \/ \E m \in Memories : Delete(m)
  \/ \E s \in Searches : Step(s)
  \/ \E w \in Workers : Reset(w) \/ Restart(w)

\* Every call to the store returns, and a thread that waits for a free lock takes it.
Fairness == \A s \in Searches : WF_vars(Step(s))

Spec == Init /\ [][Next]_vars /\ Fairness

-----------------------------------------------------------------------------
(* Correctness.                                                              *)

TypeOK ==
  /\ text \in [Memories -> Texts]
  /\ stamp \in [Memories -> 0 .. now]
  /\ now \in Nat
  /\ index \in [Workers -> {"unknown", "yes", "no"}]
  /\ phase \in [Searches -> Phases]
  /\ found \in [Searches -> SUBSET Memories]
  /\ steady \in [Searches -> SUBSET Stored]
  /\ ever \in [Searches -> SUBSET Memories]
  /\ \A s \in Searches : phase[s] = "create" => index[On[s]] = "unknown"

\* The two ways a search is answered with 200: from what it has read, or, when the
\* scan fails too, with nothing all the same ("fail-open").
FromStore(s) == phase[s] \in {"indexed", "scanned"}
FailOpen(s)  == phase[s] = "failed"

\* A search gets to see memory m whatever the store holds: of the memories that come
\* before m, fewer were stored at any moment of the search than it looks at.
InReach(s, m) == Cardinality({k \in ever[s] : k < m}) < ScanLimit

\* A memory in reach that contains the query as whole words, and is not touched during
\* the search, is among the results or gives way to newer ones, whichever of the two
\* ways answers and whatever else is written meanwhile.  (keyword_search)
WholeWordsFound ==
  \A s \in Searches : FromStore(s) =>
    \A m \in steady[s] : InReach(s, m) /\ text[m] = "whole" /\ m \notin found[s] =>
      Cardinality(found[s]) = Limit /\ \A k \in found[s] : stamp[k] >= stamp[m]

\* A search that is answered with nothing has overlooked no match, but for two
\* exceptions: the scan itself has failed, which its caller cannot tell from a search
\* without matches, or the match is beyond the memories a scan looks at.  An index that
\* is missing, or fails, or does not see inside of words, is no excuse.  (keyword_search)
NothingMeansNothing ==
  \A s \in Searches : (FromStore(s) \/ FailOpen(s)) /\ found[s] = {} =>
    FailOpen(s) \/ \A m \in steady[s] : InReach(s, m) => text[m] \notin {"whole", "inside"}

\* What a worker has found out about the index stays until it forgets it: no search
\* that comes late overwrites it with an outcome of its own.  (_ensure_keyword_index)
IndexSettled ==
  [][\A w \in Workers : index[w] # "unknown" => index'[w] \in {index[w], "unknown"}]_vars

\* Every search ends, although it may have to wait for another's creation of the index.
EverySearchEnds == \A s \in Searches : <>(phase[s] \in Ended)

\* memory.py:309-312: when nothing survives, a scan runs instead, so recall is never
\* worse than it was with the scan alone.
RecallNeverWorse ==
  \A s \in Searches : FromStore(s) =>
    \A m \in steady[s] :
      InReach(s, m) /\ text[m] \in {"whole", "inside"} /\ m \notin found[s] =>
        Cardinality(found[s]) = Limit
=============================================================================
