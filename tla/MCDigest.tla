-------------------------------- MODULE MCDigest --------------------------------
(* A small instance of Digest: runs every two moments over a window of five, which *)
(* makes up for one lapse, five of them and one more after a restart, and two      *)
(* memories of which a page holds the first that is stored; the second has no      *)
(* timestamp.                                                                      *)
EXTENDS Digest
=============================================================================
