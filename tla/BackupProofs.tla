----------------------------- MODULE BackupProofs -----------------------------
(* Proofs about Backup, for any number of nights, any retention and runs of any *)
(* length up to it.                                                             *)
EXTENDS Backup, TLAPS

USE NightsAssumption, RetentionAssumption

\* How far a run has come says what it has done, and what it will prune is older than
\* its own upload, because it is over within the retention.
RunInv(n) ==
  /\ step[n] # "due" => n <= today
  /\ Running(n) => today <= n + MaxRunDays
  /\ step[n] \notin {"due", "snapshot", "failed"} => n \in taken
  /\ step[n] \in {"delete", "rotate", "list", "prune", "done"} => n \in uploaded
  /\ n \in taken /\ n \notin server => n \in uploaded
  /\ doomed[n] # {} => n \in uploaded
  /\ \A k \in doomed[n] : k < n
  /\ step[n] \in {"prune", "done"} =>
       /\ cutoff[n] <= today - RETENTION_DAYS
       /\ \A k \in s3 : k >= cutoff[n] \/ k \in doomed[n]
  /\ step[n] = "done" => doomed[n] = {}
  /\ n \in uploaded /\ n \notin s3 => \E k \in uploaded : k > n

BackupInv == TypeOK /\ \A n \in Nights : RunInv(n)

\* A file that is gone from LOCAL_DIR is all that a rotation changes there.
LEMMA RotationTyped ==
  ASSUME local \in Seq(Nights)
  PROVE  (IF Len(local) > Kept THEN SubSeq(local, 1, Kept) ELSE local) \in Seq(Nights)
BY DEF Kept

LEMMA TypeStep == ASSUME BackupInv, [Next]_vars PROVE TypeOK'
<1> USE DEF TypeOK, Goto, copies, prune
<1>0. TypeOK
  BY DEF BackupInv
<1>1. ASSUME NEW n \in Nights, Start(n) \/ Complete(n) \/ Fail(n) PROVE TypeOK'
  BY <1>0, <1>1 DEF Start, Complete, Fail
<1>2. ASSUME NEW n \in Nights, Snapshot(n) PROVE TypeOK'
  BY <1>0, <1>2 DEF Snapshot
<1>3. ASSUME NEW n \in Nights, Download(n) PROVE TypeOK'
  <2>1. <<n>> \o local \in Seq(Nights)
    BY <1>0
  <2> QED
    BY <1>0, <1>3, <2>1 DEF Download
<1>4. ASSUME NEW n \in Nights, Upload(n) PROVE TypeOK'
  <2>1. n \in taken
    BY <1>4 DEF Upload, BackupInv, RunInv
  <2> QED
    BY <1>0, <1>4, <2>1 DEF Upload
<1>5. ASSUME NEW n \in Nights, DeleteSnapshot(n) PROVE TypeOK'
  BY <1>0, <1>5 DEF DeleteSnapshot
<1>6. ASSUME NEW n \in Nights, Rotate(n) PROVE TypeOK'
  BY <1>0, <1>6, RotationTyped DEF Rotate
<1>7. ASSUME NEW n \in Nights, List(n) PROVE TypeOK'
  <2> DEFINE c == today - RETENTION_DAYS
             D == {k \in s3 : k < c}
  <2>1. /\ cutoff' = [cutoff EXCEPT ![n] = c] /\ doomed' = [doomed EXCEPT ![n] = D]
        /\ step' = [step EXCEPT ![n] = "prune"] /\ UNCHANGED <<today, copies>>
    BY <1>7 DEF List
  <2>2. c \in Int /\ D \subseteq Nights /\ \A k \in D : k < c
    BY <1>0
  <2> HIDE DEF c, D
  <2> QED
    BY <1>0, <2>1, <2>2
<1>8. ASSUME NEW n \in Nights, Prune(n) PROVE TypeOK'
  BY <1>0, <1>8 DEF Prune
<1>9. CASE Restart
  BY <1>0, <1>9 DEF Restart
<1>10. CASE Tick
  BY <1>0, <1>10 DEF Tick
<1>11. CASE UNCHANGED vars
  BY <1>0, <1>11 DEF vars
<1> QED
  BY <1>1, <1>2, <1>3, <1>4, <1>5, <1>6, <1>7, <1>8, <1>9, <1>10, <1>11 DEF Next, Run

LEMMA RunStep ==
  ASSUME BackupInv, [Next]_vars, NEW r \in Nights PROVE RunInv(r)'
<1> USE DEF Goto, copies, prune, Running, Nights
<1>0. TypeOK /\ RunInv(r) /\ \A n \in Nights : RunInv(n)
  BY DEF BackupInv
<1>1. ASSUME NEW n \in Nights, Start(n) PROVE RunInv(r)'
  BY <1>0, <1>1 DEF Start, TypeOK, RunInv
<1>2. ASSUME NEW n \in Nights, Snapshot(n) PROVE RunInv(r)'
  BY <1>0, <1>2 DEF Snapshot, TypeOK, RunInv
<1>3. ASSUME NEW n \in Nights, Download(n) PROVE RunInv(r)'
  BY <1>0, <1>3 DEF Download, TypeOK, RunInv
<1>4. ASSUME NEW n \in Nights, Upload(n) PROVE RunInv(r)'
  <2>1. /\ n <= today /\ today <= n + MaxRunDays /\ n \in taken /\ step[n] = "upload"
        /\ today \in Nat /\ n \in Nat /\ cutoff[r] \in Int
    BY <1>0, <1>4 DEF Upload, RunInv, TypeOK
  <2>2. today - RETENTION_DAYS <= n
    BY <2>1
  <2>3. /\ s3' = s3 \cup {n} /\ uploaded' = uploaded \cup {n}
        /\ step'[n] \in {"delete", "failed"} /\ \A k \in Nights : k # n => step'[k] = step[k]
        /\ today' = today /\ server' = server /\ taken' = taken
        /\ doomed' = doomed /\ cutoff' = cutoff
    BY <1>0, <1>4 DEF Upload, TypeOK
  <2>4. CASE r = n
    BY <1>0, <2>1, <2>3, <2>4 DEF RunInv
  <2>5. CASE r # n
    <3>1. step[r] \in {"prune", "done"} => \A k \in s3' : k >= cutoff[r] \/ k \in doomed[r]
      BY <1>0, <2>1, <2>2, <2>3 DEF RunInv
    <3> QED
      BY <1>0, <2>3, <2>5, <3>1 DEF RunInv
  <2> QED
    BY <2>4, <2>5
<1>5. ASSUME NEW n \in Nights, DeleteSnapshot(n) PROVE RunInv(r)'
  BY <1>0, <1>5 DEF DeleteSnapshot, TypeOK, RunInv
<1>6. ASSUME NEW n \in Nights, Rotate(n) PROVE RunInv(r)'
  BY <1>0, <1>6 DEF Rotate, TypeOK, RunInv
<1>7. ASSUME NEW n \in Nights, List(n) PROVE RunInv(r)'
  BY <1>0, <1>7 DEF List, TypeOK, RunInv
<1>8. ASSUME NEW n \in Nights, Prune(n) PROVE RunInv(r)'
  BY <1>0, <1>8 DEF Prune, TypeOK, RunInv
<1>9. ASSUME NEW n \in Nights, Complete(n) \/ Fail(n) PROVE RunInv(r)'
  BY <1>0, <1>9 DEF Complete, Fail, TypeOK, RunInv
<1>10. CASE Restart
  BY <1>0, <1>10 DEF Restart, TypeOK, RunInv
<1>11. CASE Tick
  BY <1>0, <1>11 DEF Tick, TypeOK, RunInv
<1>12. CASE UNCHANGED vars
  BY <1>0, <1>12 DEF vars, TypeOK, RunInv
<1> QED
  BY <1>1, <1>2, <1>3, <1>4, <1>5, <1>6, <1>7, <1>8, <1>9, <1>10, <1>11, <1>12 DEF Next, Run

LEMMA BackupInvariant == Spec => []BackupInv
<1>1. Init => BackupInv
  BY DEF Init, BackupInv, TypeOK, RunInv, Running, Nights
<1>2. BackupInv /\ [Next]_vars => BackupInv'
  BY TypeStep, RunStep DEF BackupInv
<1> QED
  BY <1>1, <1>2, PTL DEF Spec

\* The variables of the backup keep their types.
THEOREM TypeCorrect == Spec => []TypeOK
<1>1. BackupInv => TypeOK
  BY DEF BackupInv
<1> QED
  BY <1>1, BackupInvariant, PTL

\* A snapshot that was taken is on the server until it has been uploaded, and the latest
\* upload is never pruned, for any retention no shorter than a run.
THEOREM NeverLost == Spec => []Restorable
<1>1. BackupInv => Restorable
  BY DEF BackupInv, TypeOK, RunInv, Restorable, Nights
<1> QED
  BY <1>1, BackupInvariant, PTL

\* A completed run leaves nothing in the bucket from before its cutoff.
THEOREM CaughtUp == Spec => []CatchesUp
<1>1. BackupInv => CatchesUp
  BY DEF BackupInv, TypeOK, RunInv, CatchesUp
<1> QED
  BY <1>1, BackupInvariant, PTL
=============================================================================
