---------------------------- MODULE MCKeywordSearch ----------------------------
(* Searching by words and by meaning.  A small instance of KeywordSearch: two *)
(* searches on one worker, and three memories of which a search looks at two. *)
(* The first two are of the same age, and the first does not match to begin   *)
(* with.  Ranking has no state; its assumptions are evaluated here.           *)
EXTENDS KeywordSearch, Ranking, TLC

MCOn == "s1" :> "w" @@ "s2" :> "w"
MCDecay == 0 :> 3 @@ 1 :> 1

MCInit == Init /\ text[1] = "other" /\ stamp[1] = 0 /\ stamp[2] = 0
MCSpec == MCInit /\ [][Next]_vars /\ Fairness
=============================================================================
