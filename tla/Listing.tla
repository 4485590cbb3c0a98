-------------------------------- MODULE Listing --------------------------------
(***************************************************************************)
(* Enumerating the store: src/app/memory.py list_paginated and             *)
(* drop_expired behind GET /api/v1/memories, and a caller that advances    *)
(* offset by limit while has_more is true, as the user guide tells it to.  *)
(* Meanwhile memories are added and deleted, and expire.                   *)
(*                                                                         *)
(* A page is the slice of the first offset + limit + 1 memories in the     *)
(* order of their ids; a new memory gets an id anywhere in that order.     *)
(***************************************************************************)
EXTENDS Integers, FiniteSets

CONSTANTS
  Ids,         \* the ids of all memories, stored or still to be stored
  Limit,       \* the caller's page size
  MaxOffset    \* MAX_LIST_OFFSET

ASSUME IdsAssumption  == Ids \subseteq Nat /\ IsFiniteSet(Ids)
ASSUME PageAssumption == Limit \in Nat \ {0} /\ MaxOffset \in Nat

VARIABLES
  store,      \* the ids of the stored memories
  expired,    \* those of them whose expires_at has passed
  unborn,     \* the ids that have not been given out yet
  offset,     \* where the caller's next page starts
  outcome,    \* "more", or how the enumeration ended: "all", "refused"
  given,      \* history: the memories the caller was given
  twice,      \* history: those it was given more than once
  stable,     \* history: the memories stored and fresh ever since the caller started
  added,      \* history: how many were added meanwhile
  removed     \* history: how many were deleted meanwhile

caller   == <<offset, outcome, given, twice>>
listVars   == <<store, expired, unborn, offset, outcome, given, twice, stable, added, removed>>

ListInit ==
  /\ store \in SUBSET Ids
  /\ unborn = Ids \ store
  /\ expired \in SUBSET store
  /\ offset = 0
  /\ outcome = "more"
  /\ given = {} /\ twice = {}
  /\ stable = store \ expired
  /\ added = 0 /\ removed = 0

\* What happens in the store after the enumeration does not matter to it.
Running == outcome = "more"

Add(i) ==
  /\ Running /\ i \in unborn
  /\ store' = store \cup {i}
  /\ unborn' = unborn \ {i}
  /\ added' = added + 1
  /\ UNCHANGED <<expired, stable, removed, caller>>

Delete(i) ==
  /\ Running /\ i \in store
  /\ store' = store \ {i}
  /\ expired' = expired \ {i}
  /\ stable' = stable \ {i}
  /\ removed' = removed + 1
  /\ UNCHANGED <<unborn, added, caller>>

Expire(i) ==
  /\ Running /\ i \in store \ expired
  /\ expired' = expired \cup {i}
  /\ stable' = stable \ {i}
  /\ UNCHANGED <<store, unborn, added, removed, caller>>

\* How many stored memories come before memory i.
Rank(i) == Cardinality({j \in store : j < i})

\* Memory.get_all with top_k = n: the first n memories by id.
FirstN(n) == {i \in store : Rank(i) < n}

Fetched == FirstN(offset + Limit + 1)

\* items[offset : offset + limit]
Slice == {i \in Fetched : Rank(i) >= offset /\ Rank(i) < offset + Limit}

\* Faulty: a page that has lost an expired memory counts as the last one.
MoreAfterDrop == Cardinality(Fetched \ expired) > offset + Limit

HasMore == Cardinality(Fetched) > offset + Limit

\* drop_expired, after the page is cut.
FreshPage == Slice \ expired

\* The caller advances offset by limit.
NextOffset == offset + Limit

\* Faulty: any offset is answered.
GetPageAnywhere ==
  /\ Running
  /\ given' = given \cup FreshPage
  /\ twice' = twice \cup (FreshPage \cap given)
  /\ IF HasMore
     THEN offset' = NextOffset /\ UNCHANGED outcome
     ELSE outcome' = "all" /\ UNCHANGED offset
  /\ UNCHANGED <<store, expired, unborn, stable, added, removed>>

\* One page: GET /memories?offset=..&limit=..&exclude_expired=true
GetPage ==
  /\ Running /\ offset <= MaxOffset
  /\ given' = given \cup FreshPage
  /\ twice' = twice \cup (FreshPage \cap given)
  /\ IF HasMore
     THEN offset' = NextOffset /\ UNCHANGED outcome
     ELSE outcome' = "all" /\ UNCHANGED offset
  /\ UNCHANGED <<store, expired, unborn, stable, added, removed>>

\* An offset beyond the bound is answered 422.
Refuse ==
  /\ Running /\ offset > MaxOffset
  /\ outcome' = "refused"
  /\ UNCHANGED <<store, expired, unborn, offset, given, twice, stable, added, removed>>

ListNext ==
  \/ \E i \in Ids : Add(i) \/ Delete(i) \/ Expire(i)
  \/ GetPage
  \/ Refuse

ListSpec == ListInit /\ [][ListNext]_listVars

-----------------------------------------------------------------------------
(* Correctness.                                                              *)

ListTypeOK ==
  /\ store \subseteq Ids /\ unborn \subseteq Ids /\ store \cap unborn = {}
  /\ expired \subseteq store /\ stable \subseteq store \ expired
  /\ offset \in Nat
  /\ outcome \in {"more", "all", "refused"} /\ (outcome = "all" => offset <= MaxOffset)
  /\ given \subseteq Ids /\ twice \subseteq given
  /\ added \in Nat /\ removed \in Nat

\* An enumeration that ran to its end misses a memory that was stored and fresh all
\* the time only if another was deleted meanwhile, and no more of them than that:
\* every deletion moves the pages by one memory.  Expiry and additions lose nothing.
\* And a memory is given twice only if another was added meanwhile, once per addition.
\* (list_paginated: "pages are consistent as long as the store isn't being written")
EnumerationBounded ==
  /\ outcome = "all" => Cardinality(stable \ given) <= removed
  /\ Cardinality(twice) <= added
=============================================================================
