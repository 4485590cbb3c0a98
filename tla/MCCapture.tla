------------------------------- MODULE MCCapture -------------------------------
(* A small instance of Capture: a call for help from a chat that is not   *)
(* allowed, a note from one that is, a picture, and a note from the other *)
(* chat.  The bot is restarted once, so a note may be posted twice.       *)
EXTENDS Capture, TLC

MCKind == 1 :> "help" @@ 2 :> "note" @@ 3 :> "none" @@ 4 :> "note"
MCChat == 1 :> "theirs" @@ 2 :> "mine" @@ 3 :> "mine" @@ 4 :> "theirs"

MCRequests == {"p1", "p2"}
MCPost == [u \in Updates |-> <<"p1", "p2">>]

MCContentOf     == [q \in MCRequests |-> "text"]
MCFingerprintOf == "text" :> "f1"
MCDedupOn       == [q \in MCRequests |-> TRUE]
MCMaxFacts      == "text" :> 1
=============================================================================
