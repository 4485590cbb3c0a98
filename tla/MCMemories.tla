------------------------------ MODULE MCMemories ------------------------------
(* A small instance of Memories: two callers that purge the same memories, more *)
(* of them than one call deletes, next to an update and a deletion of one of    *)
(* them.                                                                        *)
EXTENDS Memories, TLC

MCOp     == "put" :> "update" @@ "del" :> "delete"
MCTarget == [r \in {"put", "del"} |-> "m1"]
=============================================================================
