------------------------------- MODULE MCListing -------------------------------
(* A small instance of Listing: up to five memories in pages of two. *)
EXTENDS Listing
=============================================================================
