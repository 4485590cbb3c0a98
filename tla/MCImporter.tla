------------------------------ MODULE MCImporter ------------------------------
(* A small instance of Importer: an import that tries its one record twice at *)
(* most, and an agent that adds two contents once each: the first has the     *)
(* fingerprint of the import's record (it differs in case), the second is     *)
(* another one, added without dedup.                                          *)
EXTENDS Importer, TLC

MCRequests == {"i1", "i2", "a1", "b1"}

MCScript  == "import" :> 1 @@ "agent" :> 2
MCRetries == "import" :> 2 @@ "agent" :> 1

MCRequestOf == "import" :> << <<"i1", "i2">> >> @@ "agent" :> << <<"a1">>, <<"b1">> >>

MCContentOf == "i1" :> "text" @@ "i2" :> "text" @@ "a1" :> "TEXT" @@ "b1" :> "other"
MCFingerprintOf == "text" :> "f1" @@ "TEXT" :> "f1" @@ "other" :> "f2"

MCMaxFacts == "text" :> 2 @@ "TEXT" :> 1 @@ "other" :> 1

MCDedupOn == [q \in MCRequests |-> q # "b1"]
=============================================================================
