------------------------------- MODULE Memories -------------------------------
(***************************************************************************)
(* Updating and deleting a single memory, next to the purges of BulkDelete:*)
(* PUT and DELETE /api/v1/memories/{id} (src/app/rest.py) and the MCP tools*)
(* update_memory and delete_memory (src/app/mcp_server.py), which differ in*)
(* the form of a miss only, a 404 or {"error": "not_found"}.               *)
(*                                                                         *)
(* A request looks the memory up, to answer a miss, and then has mem0      *)
(* change it; nothing is held in between.  If the memory is gone by then,  *)
(* mem0 raises or silently does nothing (rest.py:250).  GET and get_memory *)
(* are the look-up alone, and change nothing.                              *)
(***************************************************************************)
EXTENDS BulkDelete

CONSTANTS
  Requests,  \* the calls
  Op,        \* request -> "update" or "delete"
  Target     \* request -> the memory it names

ASSUME RequestAssumption == /\ Op \in [Requests -> {"update", "delete"}]
                            /\ Target \in [Requests -> Memories]

VARIABLES
  answer,  \* request -> "none" until it is answered
  stage,   \* request -> about to look, about to act, or over
  edited,  \* the memories whose text an update has replaced
  held     \* history: request -> what its memory was while it ran

single == <<answer, stage, edited>>
allVars == <<vars, single, held>>

MInit ==
  /\ Init
  /\ answer = [r \in Requests |-> "none"]
  /\ stage = [r \in Requests |-> "look"]
  /\ edited = {}
  /\ held = [r \in Requests |-> {}]

Finish(r, a) == /\ answer' = [answer EXCEPT ![r] = a]
                /\ stage' = [stage EXCEPT ![r] = "over"]

\* Faulty: no look-up, the update or deletion is left to mem0.
LookNot(r) ==
  /\ stage[r] = "look"
  /\ stage' = [stage EXCEPT ![r] = "act"]
  /\ UNCHANGED <<vars, answer, edited>>

\* _get_or_404, and the look-ups of the tools.
Look(r) ==
  /\ stage[r] = "look"
  /\ IF Target[r] \in store
     THEN stage' = [stage EXCEPT ![r] = "act"] /\ UNCHANGED answer
     ELSE Finish(r, "not_found")
  /\ UNCHANGED <<vars, edited>>

\* Memory.update replaces the text.
Update(r) ==
  /\ stage[r] = "act" /\ Op[r] = "update" /\ Target[r] \in store
  /\ edited' = edited \cup {Target[r]}
  /\ Finish(r, "updated")
  /\ UNCHANGED vars

\* Memory.delete of a memory that is there.
DeleteStored(r) ==
  /\ stage[r] = "act" /\ Op[r] = "delete"
  /\ DeleteOne(Target[r])
  /\ Finish(r, "deleted")
  /\ UNCHANGED edited

\* The memory is gone by now, and mem0 says nothing.
ActOnNothing(r) ==
  /\ stage[r] = "act" /\ Target[r] \notin store
  /\ Finish(r, IF Op[r] = "update" THEN "updated" ELSE "deleted")
  /\ UNCHANGED <<vars, edited>>

\* mem0 raises, over a memory that is gone or a store that fails, or the worker is lost.
Break(r) ==
  /\ stage[r] # "over"
  /\ Finish(r, "error")
  /\ UNCHANGED <<vars, edited>>

Serve(r) == Look(r) \/ Update(r) \/ DeleteStored(r) \/ ActOnNothing(r) \/ Break(r)

\* Whether its memory is stored is recorded for every request that takes or is under
\* way in this step.
Observe ==
  held' = [r \in Requests |->
             IF stage[r] = "over" \/ stage'[r] = "look" THEN held[r]
             ELSE held[r] \cup {IF Target[r] \in store THEN "stored" ELSE "missing"}]

MNext ==
  /\ \/ \E m \in Memories : Add(m) /\ UNCHANGED single
     \/ \E c \in Callers : Call(c) /\ UNCHANGED single
     \/ \E r \in Requests : Serve(r)
  /\ Observe

\* A caller posts again, and a call it has posted runs to its answer.
MFairness == \A c \in Callers : WF_allVars(Call(c) /\ UNCHANGED single /\ Observe)

MSpec == MInit /\ [][MNext]_allVars /\ MFairness

-----------------------------------------------------------------------------
(* Correctness.                                                              *)

MTypeOK ==
  /\ TypeOK
  /\ answer \in [Requests -> {"none", "not_found", "updated", "deleted", "error"}]
  /\ stage \in [Requests -> {"look", "act", "over"}]
  /\ edited \subseteq Memories \ unborn
  /\ held \in [Requests -> SUBSET {"stored", "missing"}]
  /\ \A r \in Requests : stage[r] = "over" <=> answer[r] # "none"

\* What an answer says was true of the memory while the request ran, whatever purges,
\* adds and other requests did between its look-up and its act: a miss was a miss, what
\* was updated was there, and has a new text or is gone, and what was deleted was there
\* and is gone for good.  (_get_or_404; update_memory, delete_memory)
AnswersTrue ==
  \A r \in Requests :
    /\ answer[r] = "not_found" => "missing" \in held[r]
    /\ answer[r] \in {"updated", "deleted"} => "stored" \in held[r]
    /\ answer[r] = "updated" => Target[r] \in edited \/ Target[r] \notin store
    /\ answer[r] = "deleted" => Target[r] \notin store \cup unborn
=============================================================================
