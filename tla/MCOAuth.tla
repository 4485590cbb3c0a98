------------------------------- MODULE MCOAuth -------------------------------
(* A small instance of OAuth: two clients, two threads. *)
EXTENDS OAuth, TLC

Symmetry ==
  Permutations(Clients) \cup Permutations(Challenges) \cup Permutations(Codes)
    \cup Permutations(Tokens) \cup Permutations(Slots)
=============================================================================
