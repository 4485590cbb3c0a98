------------------------------- MODULE Importer -------------------------------
(***************************************************************************)
(* The callers of AddMemory: the import scripts (src/importers/cli.py run  *)
(* and the retrying client src/importers/client.py), and callers that post *)
(* once, like an agent.  A caller takes its records in order; an attempt   *)
(* that ends with a server error, or with no answer within the client's    *)
(* timeout, is repeated; the server is not told that nobody waits any      *)
(* more, so an abandoned attempt runs on next to its successor.            *)
(***************************************************************************)
EXTENDS AddMemory

CONSTANTS
  Callers,
  Script,    \* caller -> how many records it sends
  Retries,   \* caller -> max_retries, at least 1
  RequestOf    \* caller, record, attempt -> the request it is

ASSUME CallerAssumption ==
  /\ Script \in [Callers -> Nat]
  /\ Retries \in [Callers -> Nat \ {0}]
  /\ \A c \in Callers : \A i \in 1 .. Script[c], a \in 1 .. Retries[c] :
       RequestOf[c][i][a] \in Requests

VARIABLES
  record,    \* caller -> the record it is at
  attempt,   \* caller -> the attempt it is at
  waiting,   \* caller -> whether a request of it is out
  sent,      \* caller -> the records counted as sent
  failed     \* caller -> the records counted as failed

callerVars == <<record, attempt, waiting, sent, failed>>
importVars == <<addVars, callerVars>>

Current(c) == RequestOf[c][record[c]][attempt[c]]
Over(c)    == record[c] > Script[c]

ImportInit ==
  /\ AddInit
  /\ record = [c \in Callers |-> 1]
  /\ attempt = [c \in Callers |-> 1]
  /\ waiting = [c \in Callers |-> FALSE]
  /\ sent = [c \in Callers |-> {}]
  /\ failed = [c \in Callers |-> {}]

\* The next attempt at the current record leaves for the server, which takes it in
\* or refuses it.
Send(c) ==
  /\ ~Over(c) /\ ~waiting[c]
  /\ Arrive(Current(c)) \/ Refuse(Current(c))
  /\ waiting' = [waiting EXCEPT ![c] = TRUE]
  /\ UNCHANGED <<record, attempt, sent, failed>>

\* A faulty loop that stays at a record it has given up.
StayAt(c) == record' = record /\ attempt' = attempt

\* The loop goes on to the next record.
NextRecord(c) ==
  /\ record' = [record EXCEPT ![c] = @ + 1]
  /\ attempt' = [attempt EXCEPT ![c] = 1]

CountSent(c)   == NextRecord(c) /\ sent' = [sent EXCEPT ![c] = @ \cup {record[c]}]
                                /\ UNCHANGED failed
CountFailed(c) == NextRecord(c) /\ failed' = [failed EXCEPT ![c] = @ \cup {record[c]}]
                                /\ UNCHANGED sent

\* A faulty client that takes the last failure for a success.
GiveUpQuietly(c) ==
  IF attempt[c] < Retries[c]
  THEN attempt' = [attempt EXCEPT ![c] = @ + 1] /\ UNCHANGED <<record, sent, failed>>
  ELSE CountSent(c)

\* A transient failure: another attempt, if one is left.
RetryOrFail(c) ==
  IF attempt[c] < Retries[c]
  THEN attempt' = [attempt EXCEPT ![c] = @ + 1] /\ UNCHANGED <<record, sent, failed>>
  ELSE CountFailed(c)

\* The answer to the current attempt arrives.
Receive(c) ==
  /\ waiting[c] /\ Done(Current(c))
  /\ waiting' = [waiting EXCEPT ![c] = FALSE]
  /\ CASE result[Current(c)] \in {"stored", "deduplicated"} -> CountSent(c)
       [] result[Current(c)] = "refused" -> CountFailed(c)
       [] result[Current(c)] = "error" -> RetryOrFail(c)
  /\ UNCHANGED addVars

\* The answer is a success, but its body is not JSON (a proxy may have replaced it): that
\* is no transport error, so the record is failed at once.
ReceiveUnreadable(c) ==
  /\ waiting[c] /\ Done(Current(c))
  /\ result[Current(c)] \in {"stored", "deduplicated"}
  /\ waiting' = [waiting EXCEPT ![c] = FALSE]
  /\ CountFailed(c)
  /\ UNCHANGED addVars

\* No answer within the timeout, or the connection is lost, the answer with it.
TimeOut(c) ==
  /\ waiting[c]
  /\ waiting' = [waiting EXCEPT ![c] = FALSE]
  /\ RetryOrFail(c)
  /\ UNCHANGED addVars

ImportNext ==
  \/ \E c \in Callers : Send(c) \/ Receive(c) \/ ReceiveUnreadable(c) \/ TimeOut(c)
  \/ (\E q \in Requests : Serve(q)) /\ UNCHANGED callerVars

\* httpx returns, with an answer or a timeout, and the loop goes on; the server owes
\* nothing.
ImportFairness ==
  \A c \in Callers : /\ WF_importVars(Send(c))
                      /\ WF_importVars(Receive(c) \/ ReceiveUnreadable(c) \/ TimeOut(c))

ImportSpec == ImportInit /\ [][ImportNext]_importVars /\ ImportFairness

-----------------------------------------------------------------------------
(* Correctness.                                                              *)

CallerTypeOK ==
  /\ record \in [Callers -> Nat \ {0}]
  /\ attempt \in [Callers -> Nat \ {0}]
  /\ waiting \in [Callers -> BOOLEAN]
  /\ sent \in [Callers -> SUBSET Nat]
  /\ failed \in [Callers -> SUBSET Nat]
  /\ \A c \in Callers : /\ sent[c] \cup failed[c] = 1 .. record[c] - 1
                        /\ sent[c] \cap failed[c] = {}
                        /\ record[c] <= Script[c] + 1 /\ attempt[c] <= Retries[c]
                        /\ waiting[c] => ~Over(c)

ImportTypeOK == AddTypeOK /\ CallerTypeOK

Attempts(c, i) == {RequestOf[c][i][a] : a \in 1 .. Retries[c]}

\* A record the importer reports as sent is in the store: an attempt at it was
\* answered with success and has stored what it found, or an add of the same
\* content has.  Retries, lost answers and attempts that overlap
\* never turn a failure into a success.  (MemoryClient._post, run)
SentIsStored == \A c \in Callers : \A i \in sent[c] : \E q \in Attempts(c, i) : Kept(q)

\* A failed record does not stop an import: every record is tried and counted, and
\* every import ends, whatever the server does.  (run)
EveryImportEnds == \A c \in Callers : <>(Over(c))
=============================================================================
