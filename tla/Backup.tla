-------------------------------- MODULE Backup --------------------------------
(***************************************************************************)
(* The nightly backup: src/backup/backup.sh, started by cron once a night  *)
(* in a container that may be restarted.  A run snapshots the collection on*)
(* the Qdrant server, downloads the snapshot, uploads it to S3, deletes it *)
(* from the server, and then removes old copies here and in S3.  The first *)
(* step that fails ends the run (set -euo pipefail).                       *)
(*                                                                         *)
(* Runs are named by the night they start in, which is also the date in    *)
(* their S3 key.  Nothing keeps the next night's run from starting while an*)
(* earlier one still goes on.                                              *)
(***************************************************************************)
EXTENDS Integers, Sequences

CONSTANTS
  LastNight,       \* nights are 1 .. LastNight
  RETENTION_DAYS,
  MaxRunDays       \* a run is over this many days after the night it started

ASSUME NightsAssumption    == LastNight \in Nat \ {0}
\* Nothing in the script limits how long a run takes; one that takes longer than
\* RETENTION_DAYS prunes its own upload.
ASSUME RetentionAssumption == RETENTION_DAYS \in Nat /\ MaxRunDays \in 0 .. RETENTION_DAYS

Nights == 1 .. LastNight
Kept   == 3    \* local files that the rotation keeps

VARIABLES
  today,    \* the night it is, or the day after it
  step,     \* each run's next step, or how it ended: "done", "failed"
  server,   \* the runs whose snapshot is on the Qdrant server
  local,    \* the files in LOCAL_DIR, by the run that wrote them, latest first
  s3,       \* the runs whose upload is in the bucket
  doomed,   \* what each run still has to prune, and the CUTOFF it computed
  cutoff,
  taken,    \* history: the runs whose snapshot was ever taken
  uploaded  \* history: the runs that ever uploaded

copies == <<server, local, s3, taken, uploaded>>
prune  == <<doomed, cutoff>>
vars   == <<today, step, copies, prune>>

Init ==
  /\ today = 1
  /\ step = [n \in Nights |-> "due"]
  /\ server = {} /\ local = << >> /\ s3 = {} /\ taken = {} /\ uploaded = {}
  /\ doomed = [n \in Nights |-> {}] /\ cutoff = [n \in Nights |-> 0]

Running(n) == step[n] \notin {"due", "done", "failed"}

Goto(n, s) == step' = [step EXCEPT ![n] = s]

\* cron, at 03:00; a night at which the container is down has no run.
Start(n) ==
  /\ n = today /\ step[n] = "due"
  /\ Goto(n, "snapshot")
  /\ UNCHANGED <<today, copies, prune>>

\* The answer that names the snapshot may be lost.
Snapshot(n) ==
  /\ step[n] = "snapshot"
  /\ server' = server \cup {n} /\ taken' = taken \cup {n}
  /\ Goto(n, "download") \/ Goto(n, "failed")
  /\ UNCHANGED <<today, local, s3, uploaded, prune>>

\* A download that breaks off leaves what it got.
Download(n) ==
  /\ step[n] = "download"
  /\ local' = <<n>> \o local
  /\ Goto(n, "upload") \/ Goto(n, "failed")
  /\ UNCHANGED <<today, server, s3, taken, uploaded, prune>>

InLocal(n) == \E i \in DOMAIN local : local[i] = n

\* Needs the local file; what was stored may be reported as failed.
Upload(n) ==
  /\ step[n] = "upload" /\ InLocal(n)
  /\ s3' = s3 \cup {n} /\ uploaded' = uploaded \cup {n}
  /\ Goto(n, "delete") \/ Goto(n, "failed")
  /\ UNCHANGED <<today, server, local, taken, prune>>

DeleteSnapshot(n) ==
  /\ step[n] = "delete"
  /\ server' = server \ {n}
  /\ Goto(n, "rotate") \/ Goto(n, "failed")
  /\ UNCHANGED <<today, local, s3, taken, uploaded, prune>>

\* Keeps the latest files, whichever runs wrote them.
Rotate(n) ==
  /\ step[n] = "rotate"
  /\ local' = IF Len(local) > Kept THEN SubSeq(local, 1, Kept) ELSE local
  /\ Goto(n, "list")
  /\ UNCHANGED <<today, server, s3, taken, uploaded, prune>>

\* Faulty: the night of the cutoff is pruned too.
ListOneTooMany(n) ==
  /\ step[n] = "list"
  /\ cutoff' = [cutoff EXCEPT ![n] = today - RETENTION_DAYS]
  /\ doomed' = [doomed EXCEPT ![n] = {k \in s3 : k <= today - RETENTION_DAYS}]
  /\ Goto(n, "prune")
  /\ UNCHANGED <<today, copies>>

\* The CUTOFF is of the day the run has come to, and the bucket is listed once.
List(n) ==
  /\ step[n] = "list"
  /\ cutoff' = [cutoff EXCEPT ![n] = today - RETENTION_DAYS]
  /\ doomed' = [doomed EXCEPT ![n] = {k \in s3 : k < today - RETENTION_DAYS}]
  /\ Goto(n, "prune")
  /\ UNCHANGED <<today, copies>>

\* aws s3 rm, key by key in their order; removing a key that is gone is no error.
Prune(n) ==
  /\ step[n] = "prune"
  /\ \E k \in doomed[n] :
       /\ \A j \in doomed[n] : k <= j
       /\ s3' = s3 \ {k}
       /\ doomed' = [doomed EXCEPT ![n] = @ \ {k}]
  /\ UNCHANGED <<today, step, server, local, taken, uploaded, cutoff>>

\* Faulty: a key that could not be removed is skipped.
CompleteAnyway(n) ==
  /\ step[n] = "prune"
  /\ Goto(n, "done")
  /\ UNCHANGED <<today, copies, prune>>

Complete(n) ==
  /\ step[n] = "prune" /\ doomed[n] = {}
  /\ Goto(n, "done")
  /\ UNCHANGED <<today, copies, prune>>

\* Faulty: the script goes on after an error.
GoOn(n) ==
  /\ Running(n)
  /\ step' = [step EXCEPT ![n] = IF @ = "upload" THEN "delete" ELSE "failed"]
  /\ UNCHANGED <<today, copies, prune>>

\* A step fails and has changed nothing.
Fail(n) ==
  /\ Running(n)
  /\ Goto(n, "failed")
  /\ UNCHANGED <<today, copies, prune>>

\* The container is replaced: its runs end, its files are gone.
Restart ==
  /\ step' = [n \in Nights |-> IF Running(n) THEN "failed" ELSE step[n]]
  /\ local' = << >>
  /\ UNCHANGED <<today, server, s3, taken, uploaded, prune>>

Tick ==
  /\ today < LastNight + MaxRunDays
  /\ \A n \in Nights : Running(n) => today < n + MaxRunDays
  /\ today' = today + 1
  /\ UNCHANGED <<step, copies, prune>>

Run(n) ==
  \/ Start(n) \/ Snapshot(n) \/ Download(n) \/ Upload(n) \/ DeleteSnapshot(n)
  \/ Rotate(n) \/ List(n) \/ Prune(n) \/ Complete(n) \/ Fail(n)

Next == (\E n \in Nights : Run(n)) \/ Restart \/ Tick

Spec == Init /\ [][Next]_vars

-----------------------------------------------------------------------------
(* Correctness.                                                              *)

TypeOK ==
  /\ today \in Nat
  /\ step \in [Nights -> {"due", "snapshot", "download", "upload", "delete", "rotate",
                          "list", "prune", "done", "failed"}]
  /\ local \in Seq(Nights)
  /\ uploaded \subseteq taken /\ taken \subseteq Nights
  /\ server \subseteq taken /\ s3 \subseteq uploaded
  /\ doomed \in [Nights -> SUBSET Nights] /\ cutoff \in [Nights -> Int]
  /\ \A n \in Nights : \A k \in doomed[n] : k < cutoff[n]

\* The memories can be restored, however many nights fail, at whichever step, and
\* however runs overlap: a snapshot that has not been uploaded is still on the server,
\* where a failed run leaves it for good, and the latest upload is in the bucket, as only
\* a run that has uploaded prunes, and only what is older than its own upload.
Restorable ==
  /\ taken \subseteq server \cup uploaded
  /\ \A n \in uploaded : (\A k \in uploaded : k <= n) => n \in s3

\* A run that completes makes up for those that failed before they had pruned: nothing
\* is left in the bucket from before its cutoff.
CatchesUp == \A n \in Nights : step[n] = "done" => \A k \in s3 : k >= cutoff[n]
=============================================================================
