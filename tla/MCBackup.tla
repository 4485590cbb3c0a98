------------------------------- MODULE MCBackup -------------------------------
(* A small instance of Backup: four nights, and runs that may last long enough for *)
(* the three later ones to rotate their file away.                                 *)
EXTENDS Backup
=============================================================================
