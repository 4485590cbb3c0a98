-------------------------------- MODULE Capture --------------------------------
(***************************************************************************)
(* The capture bot: src/capture/capture.py run and process_update, between *)
(* Telegram, which keeps every message until the bot asks for a later one, *)
(* and the memory server of AddMemory.                                     *)
(*                                                                         *)
(* The bot moves its offset past a message before it deals with it, but    *)
(* Telegram hears of the offset with the next poll only, and a bot that is *)
(* restarted has forgotten it.  Posts and replies may fail, or time out    *)
(* although they arrive; an abandoned post runs on in the server.          *)
(***************************************************************************)
EXTENDS AddMemory

CONSTANTS
  Updates,      \* the update ids of the messages, in the order they are sent
  Kind,         \* update -> what extract_message and classify make of it
  Chat,         \* update -> the chat it comes from
  Allowed,      \* allowed_ids; empty in discovery mode
  Post,         \* update, number of the post -> the request it is
  BatchSize,    \* how many updates Telegram hands out at once
  MaxRestarts   \* bound: restarts of the bot

Kinds == {"note", "empty", "help", "none"}

ASSUME UpdatesAssumption == Updates \subseteq Nat \ {0} /\ Kind \in [Updates -> Kinds]
ASSUME PostAssumption    == /\ BatchSize \in Nat \ {0} /\ MaxRestarts \in Nat
                            /\ \A u \in Updates : \A i \in 1 .. MaxRestarts + 1 :
                                 Post[u][i] \in Requests

VARIABLES
  pending,   \* the updates Telegram keeps for the bot
  dropped,   \* the updates Telegram has dropped as confirmed
  offset,    \* the bot's offset; 0 for None
  batch,     \* the updates of the last poll that are still to be processed
  current,   \* the update being processed, 0 for none
  step,      \* what the bot is at
  verdict,   \* the reply that is due
  told,      \* update -> the replies its sender got
  mute,      \* history: the updates a reply to which was lost
  posts,     \* update -> how many times it was posted
  restarts   \* how many times the bot was restarted

telegram == <<pending, dropped>>
botVars  == <<offset, batch, current, step, verdict>>
notes    == <<told, mute, posts>>
vars     == <<addVars, telegram, botVars, notes, restarts>>

Init ==
  /\ AddInit
  /\ pending = {} /\ dropped = {}
  /\ offset = 0 /\ batch = {} /\ current = 0 /\ step = "idle" /\ verdict = "none"
  /\ told = [u \in Updates |-> {}]
  /\ mute = {}
  /\ posts = [u \in Updates |-> 0]
  /\ restarts = 0

\* Someone sends the next message.
Message(u) ==
  /\ u \notin pending \cup dropped
  /\ \A v \in Updates : v < u => v \in pending \cup dropped
  /\ pending' = pending \cup {u}
  /\ UNCHANGED <<addVars, dropped, botVars, notes, restarts>>

\* What an offset confirms, and what it asks for.
Confirmed == {u \in pending : u < offset}
Asked     == {u \in pending : u >= offset}

Confirm == dropped' = dropped \cup Confirmed /\ pending' = Asked

Polling == step = "idle" /\ batch = {}

\* getUpdates; without an offset nothing is confirmed.
Poll ==
  /\ Polling
  /\ Confirm
  /\ batch' = {u \in Asked : Cardinality({v \in Asked : v < u}) < BatchSize}
  /\ UNCHANGED <<addVars, offset, current, step, verdict, notes, restarts>>

\* The poll reaches Telegram but its answer is lost; the bot waits and polls again.
PollFails ==
  /\ Polling
  /\ Confirm
  /\ UNCHANGED <<addVars, botVars, notes, restarts>>

\* process_update up to its first call: whether it posts, replies or ignores u.
Verdict(u) ==
  CASE Kind[u] = "none"                                                -> "ignore"
    [] Kind[u] = "help"                                                -> "help"
    [] Kind[u] \in {"note", "empty"} /\ Allowed = {}                   -> "chat id"
    [] Kind[u] \in {"note", "empty"} /\ Allowed # {} /\ Chat[u] \notin Allowed -> "refused"
    [] Kind[u] = "empty" /\ Chat[u] \in Allowed                        -> "usage"
    [] Kind[u] = "note" /\ Chat[u] \in Allowed                         -> "post"

Earliest(B) == CHOOSE u \in B : \A v \in B : u <= v

\* Faulty: the offset moves past the updates the bot does something about.
OffsetHandled(u) == IF Verdict(u) = "ignore" THEN offset ELSE u + 1

OffsetPast(u) == u + 1

\* The next update of the batch, and the offset past it.
Take ==
  /\ step = "idle" /\ batch # {}
  /\ LET u == Earliest(batch) IN
       /\ batch' = batch \ {u}
       /\ offset' = OffsetPast(u)
       /\ verdict' = Verdict(u)
       /\ step' = CASE Verdict(u) = "ignore" -> "idle"
                    [] Verdict(u) = "post"   -> "post"
                    [] OTHER                 -> "reply"
       /\ current' = IF Verdict(u) = "ignore" THEN 0 ELSE u
  /\ UNCHANGED <<addVars, telegram, notes, restarts>>

Request == Post[current][posts[current]]

\* post_memory: the request reaches the server, which takes it in or refuses it.
PostMemory ==
  /\ step = "post"
  /\ LET q == Post[current][posts[current] + 1] IN Arrive(q) \/ Refuse(q)
  /\ posts' = [posts EXCEPT ![current] = @ + 1]
  /\ step' = "wait"
  /\ UNCHANGED <<telegram, offset, batch, current, verdict, told, mute, restarts>>

Due(v) == step' = "reply" /\ verdict' = v

\* Faulty: any answer of the server is a success.
AnswerUnread ==
  /\ step = "wait" /\ Done(Request)
  /\ Due("saved")
  /\ UNCHANGED <<addVars, telegram, offset, batch, current, notes, restarts>>

\* The server answers.
PostAnswered ==
  /\ step = "wait" /\ Done(Request)
  /\ Due(IF result[Request] \in {"stored", "deduplicated"} THEN "saved" ELSE "failed")
  /\ UNCHANGED <<addVars, telegram, offset, batch, current, notes, restarts>>

\* No connection, or no answer in time (the client's default of five seconds).
PostFails ==
  /\ step \in {"post", "wait"}
  /\ Due("failed")
  /\ UNCHANGED <<addVars, telegram, offset, batch, current, notes, restarts>>

\* send_message: the reply reaches the sender.
Reply ==
  /\ step = "reply"
  /\ told' = [told EXCEPT ![current] = @ \cup {verdict}]
  /\ step' = "idle" /\ current' = 0
  /\ UNCHANGED <<addVars, telegram, offset, batch, verdict, mute, posts, restarts>>

\* Faulty: an update whose reply fails is left for the next poll.
ReplyAgain ==
  /\ step = "reply"
  /\ mute' = mute \cup {current}
  /\ step' = "idle" /\ current' = 0
  /\ offset' = current /\ batch' = {}
  /\ UNCHANGED <<addVars, telegram, verdict, told, posts, restarts>>

\* Or it does not; the exception is logged, and the loop goes on.
ReplyFails ==
  /\ step = "reply"
  /\ mute' = mute \cup {current}
  /\ step' = "idle" /\ current' = 0
  /\ UNCHANGED <<addVars, telegram, offset, batch, verdict, told, posts, restarts>>

\* Faulty: the offset survives, on a disk perhaps.
KeptOffset == offset

\* Faulty: a bot starts with the last update.
LastOffset == -1

\* The offset a bot starts with.
FirstOffset == 0

\* The container is restarted, whatever the bot is at.
Restart ==
  /\ restarts < MaxRestarts
  /\ restarts' = restarts + 1
  /\ offset' = FirstOffset /\ batch' = {} /\ current' = 0 /\ step' = "idle" /\ verdict' = "none"
  /\ UNCHANGED <<addVars, telegram, notes>>

Process == PostMemory \/ PostAnswered \/ PostFails \/ Reply \/ ReplyFails

Next ==
  \/ \E u \in Updates : Message(u)
  \/ Poll \/ PollFails
  \/ Take
  \/ Process
  \/ Restart
  \/ \E q \in Requests : Serve(q) /\ UNCHANGED <<telegram, botVars, notes, restarts>>

\* The loop goes on, and every call returns (httpx has timeouts); of the polls, which
\* are repeated for ever, some succeed.  Nothing is assumed of posts and replies.
Fairness == WF_vars(Take) /\ WF_vars(Process) /\ SF_vars(Poll)

Spec == Init /\ [][Next]_vars /\ Fairness

-----------------------------------------------------------------------------
(* Correctness.                                                              *)

BotTypeOK ==
  /\ pending \subseteq Updates /\ dropped \subseteq Updates /\ pending \cap dropped = {}
  /\ offset \in Nat
  /\ batch \subseteq pending
  /\ step \in {"idle", "post", "wait", "reply"}
  /\ IF step = "idle" THEN current = 0 ELSE current \in pending
  /\ verdict \in {"none", "ignore", "help", "chat id", "refused", "usage", "post", "saved", "failed"}
  /\ told \in [Updates -> SUBSET {"help", "chat id", "refused", "usage", "saved", "failed"}]
  /\ mute \subseteq Updates
  /\ posts \in [Updates -> 0 .. MaxRestarts + 1]
  /\ restarts \in 0 .. MaxRestarts

TypeOK == AddTypeOK /\ BotTypeOK

Posts(u) == {Post[u][i] : i \in 1 .. posts[u]}

\* A sender who was told "Saved" has the note in the store: one of the posts of it was
\* answered with success and kept what it found, however often the bot was restarted
\* and the note posted again.  (process_update)
SavedIsStored ==
  \A u \in Updates : "saved" \in told[u] => \E q \in Posts(u) : Kept(q)

\* A message that Telegram has dropped has been dealt with: its sender was told what
\* became of it, or the reply was lost on the way.  The bot may be restarted at any
\* moment, and moves its offset before it has dealt with a message.  (run)
NoneLostSilently ==
  \A u \in dropped : Kind[u] # "none" => told[u] # {} \/ u \in mute

\* A run of the bot posts a note once at most, whatever fails: a note is posted again
\* only after a restart.  (run: "never let one bad update kill the loop")
PostedOncePerRun == \A u \in Updates : posts[u] <= restarts + 1

\* Every message is dealt with in the end: no message, and no failure of a reply to it,
\* keeps the bot from those that come after it.  (run)
EveryMessageDropped == \A u \in Updates : u \in pending ~> u \in dropped
=============================================================================
