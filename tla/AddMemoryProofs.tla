---------------------------- MODULE AddMemoryProofs ----------------------------
(* Theorems about AddMemory, for any number of requests, contents and facts: *)
(* what holds of the server whoever calls it.  And about Importer, which     *)
(* drives it, for any number of callers, records and retries.                *)
EXTENDS Importer, TLAPS

-----------------------------------------------------------------------------
(* Type correctness.                                                         *)

LEMMA ArrivalTyped ==
  ASSUME AddTypeOK, NEW q \in Requests, Arrive(q) \/ Refuse(q) PROVE AddTypeOK'
BY DEF AddTypeOK, Arrive, Refuse, Answer, Move, history, Phases, Results, AlreadyStored, Done

LEMMA ServeTyped ==
  ASSUME AddTypeOK, NEW q \in Requests, Serve(q) PROVE AddTypeOK'
<1> USE DEF AddTypeOK, Phases, Results, Answer, Move, history, Done
<1>1. CASE Check(q)
  BY <1>1 DEF Check
<1>2. CASE CheckFails(q)
  BY <1>2 DEF CheckFails
<1>3. ASSUME NEW n \in 0 .. MaxFacts[ContentOf[q]], Extract(q, n) PROVE AddTypeOK'
  <2>1. n \in Nat
    BY FactsAssumption, ContentAssumption
  <2> QED
    BY <1>3, <2>1 DEF Extract
<1>4. CASE Insert(q)
  <2>1. left[q] \in Nat
    OBVIOUS
  <2>2. left[q] # 0 /\ left[q] - 1 \in Nat
    BY <1>4, <2>1 DEF Insert
  <2>3. [by |-> q, part |-> left[q], fp |-> Mark(q)] \in Points
    BY <2>1, <2>2, ContentAssumption DEF Points, Fp, Mark
  <2> DEFINE m == [by |-> q, part |-> left[q], fp |-> Mark(q)]
  <2>4. store' = store \cup {m}
    BY <1>4 DEF Insert
  <2>5. m.fp = Mark(m.by)
    OBVIOUS
  <2> HIDE DEF m
  <2>6. \A x \in store' : x.fp = Mark(x.by)
    BY <2>4, <2>5
  <2> QED
    BY <1>4, <2>2, <2>3, <2>6 DEF Insert
<1>5. CASE Break(q)
  BY <1>5 DEF Break
<1> QED
  BY <1>1, <1>2, <1>3, <1>4, <1>5 DEF Serve

THEOREM AddTypeCorrect == AddSpec => []AddTypeOK
<1>1. AddInit => AddTypeOK
  BY DEF AddInit, AddTypeOK, Phases, Results, Done
<1>2. AddTypeOK /\ [AddNext]_addVars => AddTypeOK'
  <2> SUFFICES ASSUME AddTypeOK, [AddNext]_addVars PROVE AddTypeOK'
    OBVIOUS
  <2>1. CASE UNCHANGED addVars
    BY <2>1 DEF addVars, AddTypeOK, Done
  <2> QED
    BY <2>1, ArrivalTyped, ServeTyped DEF AddNext
<1> QED
  BY <1>1, <1>2, PTL DEF AddSpec

-----------------------------------------------------------------------------
(* What an answer promises.                                                  *)

\* The first facts[q] - left[q] facts of a request, counted from the last, are stored.
Stored(q, i) == \E m \in store : m.by = q /\ m.part = i

\* AnsweredIsStored is not inductive: an answer is right because of what was stored
\* on the way to it.
AnswerInv ==
  /\ AnsweredIsStored
  /\ \A q \in Requests :
       phase[q] = "insert" => \A i \in 1 .. facts[q] : i > left[q] => Stored(q, i)

\* An answer, once given, is kept: it stays what it is and so does what it stands on.
LEMMA KeptIsStable ==
  ASSUME AddTypeOK, NEW q \in Requests, Kept(q), [AddNext]_addVars PROVE Kept(q)'
<1>1. phase[q] = "done"
  BY DEF Kept, AddTypeOK, Done
<1>2. CASE UNCHANGED addVars
  BY <1>2 DEF addVars, Kept, AlreadyStored
<1>3. ASSUME NEW p \in Requests, Arrive(p) \/ Refuse(p) \/ Serve(p)
      PROVE  store \subseteq store' /\ result'[q] = result[q] /\ facts'[q] = facts[q]
  <2>1. p # q
    BY <1>1, <1>3 DEF Arrive, Refuse, Serve, Check, CheckFails, Extract, Insert, Break
  <2> QED
    BY <1>3, <2>1 DEF AddTypeOK, Arrive, Refuse, Serve, Check, CheckFails, Extract, Insert,
                      Break, Answer, Move
<1> QED
  BY <1>2, <1>3 DEF AddNext, Kept, AlreadyStored

LEMMA AnswerStep ==
  ASSUME AddTypeOK, AnswerInv, NEW q \in Requests, Arrive(q) \/ Refuse(q) \/ Serve(q),
         \A p \in Requests : Kept(p) => Kept(p)'
  PROVE  AnswerInv'
<1> DEFINE P(p) == /\ result[p] \in {"stored", "deduplicated"} => Kept(p)
                   /\ phase[p] = "insert" => \A i \in 1 .. facts[p] : i > left[p] => Stored(p, i)
<1>0. \A p \in Requests : P(p)
  BY DEF AnswerInv, AnsweredIsStored
<1> SUFFICES ASSUME NEW p \in Requests PROVE P(p)'
  BY DEF AnswerInv, AnsweredIsStored
<1> USE DEF Answer, Move
<1>1. store \subseteq store'
  BY DEF Arrive, Refuse, Serve, Check, CheckFails, Extract, Insert, Break
<1>2. CASE p # q
  <2>1. /\ result'[p] = result[p] /\ phase'[p] = phase[p]
        /\ facts'[p] = facts[p] /\ left'[p] = left[p]
    BY <1>2 DEF AddTypeOK, Arrive, Refuse, Serve, Check, CheckFails, Extract, Insert, Break
  <2> QED
    BY <1>0, <1>1, <2>1 DEF Stored
<1>3. CASE p = q
  <2>1. CASE Arrive(q) \/ Refuse(q) \/ CheckFails(q) \/ Break(q)
    BY <1>3, <2>1, <1>0 DEF AddTypeOK, Arrive, Refuse, CheckFails, Break, Done
  <2>2. CASE Check(q)
    <3>1. Seen(q) => AlreadyStored(q)
      BY NoneAssumption, ContentAssumption DEF AddTypeOK, Seen, AlreadyStored, Mark, Points, Fp
    <3> QED
      BY <1>3, <2>2, <3>1, <1>0 DEF AddTypeOK, Check, Kept, AlreadyStored, Done
  <2>3. ASSUME NEW n \in 0 .. MaxFacts[ContentOf[q]], Extract(q, n) PROVE P(p)'
    <3>1. n \in Nat
      BY FactsAssumption, ContentAssumption
    <3>2. facts'[q] = n /\ left'[q] = n
      BY <2>3 DEF AddTypeOK, Extract
    <3>3. CASE n = 0
      BY <1>3, <2>3, <3>2, <3>3 DEF AddTypeOK, Extract, Kept
    <3>4. CASE n # 0
      BY <1>3, <2>3, <3>1, <3>2, <3>4 DEF AddTypeOK, Extract, Kept, Done
    <3> QED
      BY <3>3, <3>4
  <2>4. CASE Insert(q)
    <3>1. /\ phase[q] = "insert" /\ left[q] \in Nat /\ left[q] > 0 /\ left'[q] = left[q] - 1
          /\ facts' = facts /\ facts[q] \in Nat
      BY <2>4 DEF Insert, AddTypeOK
    <3> DEFINE m == [by |-> q, part |-> left[q],
                     fp |-> Mark(q)]
    <3>a. m \in store'
      BY <2>4 DEF Insert
    <3>b. m.by = q /\ m.part = left[q]
      OBVIOUS
    <3> HIDE DEF m
    <3>2. \E x \in store' : x.by = q /\ x.part = left[q]
      BY <3>a, <3>b
    <3>3. \A i \in 1 .. facts[q] : i > left'[q] => \E x \in store' : x.by = q /\ x.part = i
      BY <1>0, <1>1, <3>1, <3>2 DEF Stored
    <3>4. CASE left[q] = 1
      <4>1. result'[q] = "stored" /\ phase'[q] = "done"
        BY <2>4, <3>4 DEF Insert, AddTypeOK
      <4> QED
        BY <1>3, <3>1, <3>3, <3>4, <4>1 DEF Kept
    <3>5. CASE left[q] # 1
      <4>1. result'[q] = "none" /\ phase'[q] = "insert"
        BY <2>4, <3>1, <3>5 DEF Insert, AddTypeOK, Done
      <4> QED
        BY <1>3, <3>1, <3>3, <4>1 DEF Stored
    <3> QED
      BY <3>4, <3>5
  <2> QED
    BY <2>1, <2>2, <2>3, <2>4 DEF Serve
<1> QED
  BY <1>2, <1>3

\* A request answered with success left in the store what its answer says, for any
\* number of overlapping adds: dedup never swallows a write.
THEOREM AnsweredStored == AddSpec => []AnsweredIsStored
<1>1. AddInit => AnswerInv
  BY DEF AddInit, AnswerInv, AnsweredIsStored
<1>2. AddTypeOK /\ AnswerInv /\ [AddNext]_addVars => AnswerInv'
  <2> SUFFICES ASSUME AddTypeOK, AnswerInv, [AddNext]_addVars PROVE AnswerInv'
    OBVIOUS
  <2>1. \A p \in Requests : Kept(p) => Kept(p)'
    BY KeptIsStable
  <2>2. CASE AddNext
    BY <2>1, <2>2, AnswerStep DEF AddNext
  <2>3. CASE UNCHANGED addVars
    BY <2>3 DEF addVars, AnswerInv, AnsweredIsStored, Kept, AlreadyStored, Stored
  <2> QED
    BY <2>2, <2>3
<1>3. AnswerInv => AnsweredIsStored
  BY DEF AnswerInv
<1> QED
  BY <1>1, <1>2, <1>3, AddTypeCorrect, PTL DEF AddSpec

-----------------------------------------------------------------------------
(* What the look-up saves.                                                   *)

\* What ExtractedTwiceOnlyWhenOverlapping rests on: nothing is forgotten, and a request
\* that has not passed its look-up has extracted nothing.
KnownInv ==
  /\ ExtractedTwiceOnlyWhenOverlapping
  /\ \A q \in Requests : known[q] => AlreadyStored(q)
  /\ \A q \in Requests : phase[q] \in {"new", "check"} => facts[q] = 0

LEMMA KnownStep ==
  ASSUME AddTypeOK, KnownInv, NEW q \in Requests, Arrive(q) \/ Refuse(q) \/ Serve(q)
  PROVE  KnownInv'
<1> DEFINE P(p) == /\ DedupOn[p] /\ known[p] /\ (phase[p] = "extract" \/ facts[p] > 0) => blind[p]
                   /\ known[p] => AlreadyStored(p)
                   /\ phase[p] \in {"new", "check"} => facts[p] = 0
<1>0. \A p \in Requests : P(p)
  BY DEF KnownInv, ExtractedTwiceOnlyWhenOverlapping
<1> SUFFICES ASSUME NEW p \in Requests PROVE P(p)'
  BY DEF KnownInv, ExtractedTwiceOnlyWhenOverlapping
<1> USE DEF Answer, Move, history
<1>1. store \subseteq store'
  BY DEF Arrive, Refuse, Serve, Check, CheckFails, Extract, Insert, Break
<1>3. AlreadyStored(p) => AlreadyStored(p)'
  BY <1>1 DEF AlreadyStored
<1>4. CASE p # q
  <2>1. /\ known'[p] = known[p] /\ phase'[p] = phase[p]
        /\ facts'[p] = facts[p] /\ blind'[p] = blind[p]
    BY <1>4 DEF AddTypeOK, Arrive, Refuse, Serve, Check, CheckFails, Extract, Insert, Break
  <2> QED
    BY <1>0, <1>3, <2>1
<1>5. CASE p = q
  <2>0. P(q)
    BY <1>0
  <2>1. CASE Arrive(q)
    <3>1. /\ phase'[q] = IF DedupOn[q] THEN "check" ELSE "extract"
          /\ known'[q] = AlreadyStored(q) /\ facts'[q] = facts[q] /\ facts[q] = 0
      BY <1>0, <2>1 DEF Arrive, AddTypeOK
    <3> QED
      BY <1>3, <1>5, <3>1
  <2>2. CASE Refuse(q) \/ Break(q) \/ Insert(q)
    <3>1. /\ \/ phase'[q] \in {"insert", "done"} /\ phase[q] # "check"
             \/ phase'[q] = "done"
          /\ known'[q] = known[q] /\ facts'[q] = facts[q] /\ blind'[q] = blind[q]
      BY <2>2 DEF Refuse, Break, Insert, AddTypeOK
    <3> QED
      BY <1>3, <1>5, <2>0, <3>1
  <2>3. CASE Check(q)
    <3>1. Seen(q) \/ ~AlreadyStored(q) \/ ~DedupOn[q]
      BY DEF AddTypeOK, Mark, Seen, AlreadyStored
    <3>2. /\ phase[q] = "check" /\ phase'[q] = IF Seen(q) THEN "done" ELSE "extract"
          /\ known'[q] = known[q] /\ facts'[q] = facts[q] /\ blind'[q] = blind[q]
      BY <2>3 DEF Check, AddTypeOK
    <3> QED
      BY <1>3, <1>5, <2>0, <3>1, <3>2
  <2>4. CASE CheckFails(q)
    <3>1. phase'[q] = "extract" /\ known'[q] = known[q] /\ blind'[q] /\ phase[q] = "check"
      BY <2>4 DEF CheckFails, AddTypeOK
    <3> QED
      BY <1>3, <1>5, <2>0, <3>1
  <2>5. ASSUME NEW n \in 0 .. MaxFacts[ContentOf[q]], Extract(q, n) PROVE P(q)'
    <3>1. /\ phase[q] = "extract" /\ phase'[q] \in {"insert", "done"}
          /\ known'[q] = known[q] /\ blind'[q] = blind[q]
      BY <2>5 DEF Extract, AddTypeOK
    <3> QED
      BY <1>3, <1>5, <2>0, <3>1
  <2> QED
    BY <1>5, <2>1, <2>2, <2>3, <2>4, <2>5 DEF Serve
<1> QED
  BY <1>4, <1>5

\* Content that was stored before a request came is not extracted again for it, unless
\* its look-up failed, for any number of requests and contents.
THEOREM ExtractedTwiceRarely == AddSpec => []ExtractedTwiceOnlyWhenOverlapping
<1>1. AddInit => KnownInv
  BY DEF AddInit, KnownInv, ExtractedTwiceOnlyWhenOverlapping
<1>2. AddTypeOK /\ KnownInv /\ [AddNext]_addVars => KnownInv'
  <2> SUFFICES ASSUME AddTypeOK, KnownInv, [AddNext]_addVars PROVE KnownInv'
    OBVIOUS
  <2>1. CASE AddNext
    BY <2>1, KnownStep DEF AddNext
  <2>2. CASE UNCHANGED addVars
    BY <2>2 DEF addVars, KnownInv, ExtractedTwiceOnlyWhenOverlapping, AlreadyStored
  <2> QED
    BY <2>1, <2>2
<1>3. KnownInv => ExtractedTwiceOnlyWhenOverlapping
  BY DEF KnownInv
<1> QED
  BY <1>1, <1>2, <1>3, AddTypeCorrect, PTL DEF AddSpec

-----------------------------------------------------------------------------
(* Type correctness of the importer.                                         *)

\* The attempt a caller is at is a request.
LEMMA RequestsAreTyped ==
  ASSUME CallerTypeOK, NEW c \in Callers, ~Over(c) PROVE Current(c) \in Requests
BY CallerAssumption DEF CallerTypeOK, Over, Current

\* A caller that goes on after an answer or a timeout counts its record, or repeats it.
LEMMA OutcomeTyped ==
  ASSUME CallerTypeOK, NEW c \in Callers, waiting[c],
         waiting' = [waiting EXCEPT ![c] = FALSE],
         CountSent(c) \/ CountFailed(c) \/ RetryOrFail(c)
  PROVE  CallerTypeOK'
<1>0. /\ record[c] \in Nat \ {0} /\ Retries[c] \in Nat \ {0} /\ attempt[c] \in Nat \ {0}
      /\ sent[c] \subseteq Nat /\ failed[c] \subseteq Nat
      /\ sent[c] \cup failed[c] = 1 .. record[c] - 1 /\ sent[c] \cap failed[c] = {}
  BY CallerAssumption DEF CallerTypeOK
<1>a. record[c] + 1 <= Script[c] + 1
  <2>1. Script[c] \in Nat /\ record[c] \in Nat /\ (waiting[c] => ~Over(c))
    BY CallerAssumption DEF CallerTypeOK
  <2>2. ~(record[c] > Script[c])
    BY <2>1, <1>0 DEF Over, CallerTypeOK
  <2> QED
    BY <2>1, <2>2
<1>1. CASE CountSent(c)
  <2>1. /\ record' = [record EXCEPT ![c] = @ + 1] /\ attempt' = [attempt EXCEPT ![c] = 1]
        /\ sent' = [sent EXCEPT ![c] = @ \cup {record[c]}] /\ failed' = failed
    BY <1>1 DEF CountSent, NextRecord
  <2> QED
    BY <1>0, <1>a, <2>1 DEF CallerTypeOK, Over
<1>2. CASE CountFailed(c)
  <2>1. /\ record' = [record EXCEPT ![c] = @ + 1] /\ attempt' = [attempt EXCEPT ![c] = 1]
        /\ failed' = [failed EXCEPT ![c] = @ \cup {record[c]}] /\ sent' = sent
    BY <1>2 DEF CountFailed, NextRecord
  <2> QED
    BY <1>0, <1>a, <2>1 DEF CallerTypeOK, Over
<1>3. CASE RetryOrFail(c) /\ attempt[c] < Retries[c]
  <2>1. /\ attempt' = [attempt EXCEPT ![c] = @ + 1]
        /\ record' = record /\ sent' = sent /\ failed' = failed
    BY <1>3 DEF RetryOrFail
  <2> QED
    BY <1>0, <1>3, <2>1 DEF CallerTypeOK, Over
<1> QED
  BY <1>1, <1>2, <1>3 DEF RetryOrFail

LEMMA ImportTypeStep == ASSUME ImportTypeOK, [ImportNext]_importVars PROVE ImportTypeOK'
<1> SUFFICES ASSUME AddTypeOK, CallerTypeOK, [ImportNext]_importVars PROVE AddTypeOK' /\ CallerTypeOK'
  BY DEF ImportTypeOK
<1>0. CallerTypeOK => \A c \in Callers : waiting[c] => ~Over(c)
  BY DEF CallerTypeOK
<1>1. ASSUME NEW c \in Callers, Send(c) PROVE AddTypeOK' /\ CallerTypeOK'
  <2>1. AddTypeOK'
    BY <1>1, RequestsAreTyped, ArrivalTyped DEF Send
  <2>2. CallerTypeOK'
    BY <1>1 DEF Send, CallerTypeOK, Over
  <2> QED
    BY <2>1, <2>2
<1>2. ASSUME NEW c \in Callers, Receive(c) PROVE AddTypeOK' /\ CallerTypeOK'
  <2>1. AddTypeOK'
    BY <1>2 DEF Receive, addVars, AddTypeOK, Done
  <2>2. Current(c) \in Requests
    BY <1>2, <1>0, RequestsAreTyped DEF Receive
  <2>3. result[Current(c)] \in {"stored", "deduplicated", "refused", "error"}
    BY <1>2, <2>2 DEF Receive, AddTypeOK, Results
  <2> QED
    BY <1>2, <2>1, <2>3, OutcomeTyped DEF Receive
<1>3. ASSUME NEW c \in Callers, TimeOut(c) PROVE AddTypeOK' /\ CallerTypeOK'
  <2>1. AddTypeOK'
    BY <1>3 DEF TimeOut, addVars, AddTypeOK, Done
  <2> QED
    BY <1>3, <2>1, OutcomeTyped DEF TimeOut
<1>6. ASSUME NEW c \in Callers, ReceiveUnreadable(c) PROVE AddTypeOK' /\ CallerTypeOK'
  <2>1. AddTypeOK'
    BY <1>6 DEF ReceiveUnreadable, addVars, AddTypeOK, Done
  <2> QED
    BY <1>6, <2>1, OutcomeTyped DEF ReceiveUnreadable
<1>4. ASSUME NEW q \in Requests, Serve(q), UNCHANGED callerVars
      PROVE  AddTypeOK' /\ CallerTypeOK'
  BY <1>4, ServeTyped DEF callerVars, CallerTypeOK, Over
<1>5. CASE UNCHANGED importVars
  BY <1>5 DEF importVars, addVars, callerVars, AddTypeOK, Done, CallerTypeOK, Over
<1> QED
  BY <1>1, <1>2, <1>3, <1>6, <1>4, <1>5 DEF ImportNext

\* Every record tried so far is counted exactly once, as sent or as failed, and the
\* variables keep their types.
THEOREM ImportTypeCorrect == ImportSpec => []ImportTypeOK
<1>1. ImportInit => ImportTypeOK
  <2> SUFFICES ASSUME ImportInit PROVE ImportTypeOK
    OBVIOUS
  <2>1. AddTypeOK
    BY DEF ImportInit, AddInit, AddTypeOK, Phases, Results, Done
  <2>2. CallerTypeOK
    BY CallerAssumption DEF ImportInit, CallerTypeOK
  <2> QED
    BY <2>1, <2>2 DEF ImportTypeOK
<1>2. ImportTypeOK /\ [ImportNext]_importVars => ImportTypeOK'
  BY ImportTypeStep
<1> QED
  BY <1>1, <1>2, PTL DEF ImportSpec

-----------------------------------------------------------------------------
(* What a caller does to the server.                                         *)

\* A step of the callers and the server together is a step of the server, or leaves
\* it alone.
LEMMA ImportServerStep == ASSUME ImportTypeOK, [ImportNext]_importVars PROVE [AddNext]_addVars
<1>0. CallerTypeOK /\ \A c \in Callers : waiting[c] => ~Over(c)
  BY DEF ImportTypeOK, CallerTypeOK
<1>1. ASSUME NEW c \in Callers, Send(c) PROVE AddNext
  <2>1. Current(c) \in Requests
    BY <1>0, <1>1, RequestsAreTyped DEF Send
  <2> QED
    BY <1>1, <2>1 DEF Send, AddNext
<1>2. ASSUME NEW c \in Callers, Receive(c) \/ ReceiveUnreadable(c) \/ TimeOut(c)
      PROVE  UNCHANGED addVars
  BY <1>2 DEF Receive, ReceiveUnreadable, TimeOut
<1>3. ASSUME NEW q \in Requests, Serve(q) PROVE AddNext
  BY <1>3 DEF AddNext
<1>4. CASE UNCHANGED importVars
  BY <1>4 DEF importVars
<1> QED
  BY <1>1, <1>2, <1>3, <1>4 DEF ImportNext

\* Whatever the callers do, the server behaves as AddMemory specifies: retries and
\* abandoned attempts are calls like any other.
THEOREM ImportDrivesAddMemory == ImportSpec => AddSpec
<1>1. ImportInit => AddInit
  BY DEF ImportInit
<1> QED
  BY <1>1, ImportServerStep, ImportTypeCorrect, PTL DEF ImportSpec, AddSpec

\* So what holds of the server holds of it here: dedup never swallows a write, for any
\* number of overlapping adds, retries and abandoned attempts among them.
THEOREM Answered == ImportSpec => []AnsweredIsStored
  BY ImportDrivesAddMemory, AnsweredStored, PTL

\* And content that was stored before a request came is not extracted again for it,
\* unless its look-up failed.
THEOREM ExtractedOnce == ImportSpec => []ExtractedTwiceOnlyWhenOverlapping
  BY ImportDrivesAddMemory, ExtractedTwiceRarely, PTL

-----------------------------------------------------------------------------
(* What an import reports.                                                   *)

\* What one step does to the sent set of any caller: it stays, or its record was
\* answered with success.
LEMMA SentStep ==
  ASSUME ImportTypeOK, AnsweredIsStored, [ImportNext]_importVars, NEW c \in Callers, NEW i \in sent'[c]
  PROVE  i \in sent[c] \/ \E q \in Attempts(c, i) : Kept(q)
<1>0. CallerTypeOK /\ AddTypeOK /\ \A d \in Callers : waiting[d] => ~Over(d)
  BY DEF ImportTypeOK, CallerTypeOK
<1>1. ASSUME NEW d \in Callers, Receive(d) PROVE i \in sent[c] \/ \E q \in Attempts(c, i) : Kept(q)
  <2>1. Current(d) \in Requests /\ attempt[d] \in 1 .. Retries[d]
    BY <1>0, <1>1, RequestsAreTyped, CallerAssumption DEF Receive, CallerTypeOK
  <2>2. CASE result[Current(d)] \in {"stored", "deduplicated"}
    <3>1. sent' = [sent EXCEPT ![d] = @ \cup {record[d]}]
      BY <1>1, <2>2 DEF Receive, CountSent
    <3>2. Kept(Current(d))
      BY <2>1, <2>2 DEF AnsweredIsStored
    <3>3. Current(d) \in Attempts(d, record[d])
      BY <2>1 DEF Current, Attempts
    <3>4. CASE c = d /\ i \notin sent[c]
      <4>1. i = record[c]
        BY <1>0, <3>1, <3>4 DEF CallerTypeOK
      <4> QED
        BY <3>2, <3>3, <3>4, <4>1
    <3>5. CASE c # d
      BY <1>0, <3>1, <3>5 DEF CallerTypeOK
    <3> QED
      BY <3>4, <3>5
  <2>3. CASE result[Current(d)] \in {"refused", "error"}
    BY <1>1, <2>3 DEF Receive, CountFailed, RetryOrFail
  <2> QED
    BY <1>0, <1>1, <2>1, <2>2, <2>3 DEF Receive, AddTypeOK, Results
<1>2. ASSUME NEW d \in Callers, Send(d) \/ ReceiveUnreadable(d) \/ TimeOut(d)
      PROVE  i \in sent[c]
  BY <1>2 DEF Send, ReceiveUnreadable, TimeOut, RetryOrFail, CountFailed
<1>3. CASE UNCHANGED callerVars
  BY <1>3 DEF callerVars
<1> QED
  BY <1>1, <1>2, <1>3 DEF ImportNext, importVars

\* A record counted as sent is in the store, for any number of retries and of
\* attempts that outlive the client's patience.
THEOREM SentStored == ImportSpec => []SentIsStored
<1>1. ImportInit => SentIsStored
  BY DEF ImportInit, SentIsStored
<1>2. ImportTypeOK /\ AnsweredIsStored /\ SentIsStored /\ [ImportNext]_importVars => SentIsStored'
  <2> SUFFICES ASSUME ImportTypeOK, AnsweredIsStored, SentIsStored, [ImportNext]_importVars,
                      NEW c \in Callers, NEW i \in sent'[c]
               PROVE  \E q \in Attempts(c, i) : Kept(q)'
    BY DEF SentIsStored, Attempts
  <2>1. PICK q \in Attempts(c, i) : Kept(q)
    BY SentStep DEF SentIsStored
  <2>2. i \in 1 .. Script[c]
    <3>1. CallerTypeOK'
      BY ImportTypeStep DEF ImportTypeOK
    <3>2. /\ record'[c] \in Nat /\ record'[c] <= Script[c] + 1 /\ Script[c] \in Nat
          /\ i \in 1 .. record'[c] - 1
      BY <3>1, CallerAssumption DEF CallerTypeOK
    <3> QED
      BY <3>2
  <2>3. q \in Requests
    BY <2>2, CallerAssumption DEF Attempts
  <2>4. Kept(q)'
    BY <2>1, <2>3, ImportServerStep, KeptIsStable DEF ImportTypeOK
  <2> QED
    BY <2>4
<1> QED
  BY <1>1, <1>2, ImportTypeCorrect, Answered, PTL DEF ImportSpec
=============================================================================
