----------------------------- MODULE MCRateLimit -----------------------------
(* A small instance of RateLimit: one worker, two surfaces of which one counts *)
(* 400s and both have a fractional number of seconds for a window, two         *)
(* addresses, a map that is full as soon as one of them is tracked.            *)
EXTENDS RateLimit, TLC

MCMaxFailures == "rest" :> 2 @@ "oauth_token" :> 1
MCWindowTicks == "rest" :> 3 @@ "oauth_token" :> 1

Symmetry == Permutations(Keys) \cup Permutations(Slots)
=============================================================================
