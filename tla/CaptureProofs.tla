----------------------------- MODULE CaptureProofs -----------------------------
(* Proofs about Capture, for any number of messages, chats, restarts and posts, *)
(* whatever batches Telegram hands out and whatever it and the server fail at.  *)
EXTENDS Capture, AddMemoryProofs, FiniteSetTheorems, NaturalsInduction, WellFoundedInduction

Replies == {"help", "chat id", "refused", "usage", "saved", "failed"}

LEMMA UpdatesAreNumbers == \A u \in Updates : u \in Nat /\ u # 0
BY UpdatesAssumption

LEMMA OffsetSplits ==
  ASSUME BotTypeOK
  PROVE  Asked \subseteq pending /\ Confirmed \subseteq pending /\ Asked \cap Confirmed = {}
<1>1. pending \subseteq Updates /\ offset \in Nat
  BY DEF BotTypeOK
<1>2. \A u \in pending : ~(u >= offset /\ u < offset)
  BY <1>1, UpdatesAreNumbers
<1> QED
  BY <1>2 DEF Asked, Confirmed

LEMMA LeastOfBatch ==
  ASSUME NEW B \in SUBSET Nat, B # {}
  PROVE  Earliest(B) \in B /\ \A v \in B : Earliest(B) <= v
<1> DEFINE R == OpToRel(<, Nat)
<1>1. IsWellFoundedOn(R, Nat)
  BY NatLessThanWellFounded
<1>a. \A x, y \in Nat : y < x => <<y, x>> \in R
  BY DEF OpToRel
<1> HIDE DEF R
<1>2. PICK x \in B : \A y \in B : <<y, x>> \notin R
  BY <1>1, WFMin
<1>3. \A v \in B : x <= v
  <2>1. \A v \in B : ~(v < x)
    BY <1>a, <1>2
  <2> QED
    BY <2>1
<1> QED
  BY <1>3 DEF Earliest

LEMMA VerdictTyped ==
  ASSUME NEW u \in Updates
  PROVE  /\ Verdict(u) \in {"ignore", "help", "chat id", "refused", "usage", "post"}
         /\ Verdict(u) = "ignore" <=> Kind[u] = "none"
<1>1. Kind[u] \in {"note", "empty", "help", "none"}
  BY UpdatesAssumption DEF Kinds
<1>2. CASE Kind[u] = "none"
  BY <1>2 DEF Verdict
<1>3. CASE Kind[u] = "help"
  BY <1>3 DEF Verdict
<1>4. CASE Kind[u] \in {"note", "empty"} /\ Allowed = {}
  BY <1>4 DEF Verdict
<1>5. CASE Kind[u] \in {"note", "empty"} /\ Allowed # {} /\ Chat[u] \notin Allowed
  BY <1>5 DEF Verdict
<1>6. CASE Kind[u] = "note" /\ Chat[u] \in Allowed
  BY <1>6 DEF Verdict
<1>7. CASE Kind[u] = "empty" /\ Chat[u] \in Allowed
  BY <1>7 DEF Verdict
<1> QED
  BY <1>1, <1>2, <1>3, <1>4, <1>5, <1>6, <1>7

-----------------------------------------------------------------------------
(* The bot's own state.                                                      *)

\* What a run of the bot knows: an update at or past the offset has not been posted in
\* this run, and the batch and the update that is about to be posted are such.
RunInv ==
  /\ \A u \in Updates : posts[u] <= restarts + 1
  /\ \A u \in Updates : u >= offset => posts[u] <= restarts
  /\ \A u \in batch : u >= offset
  /\ step = "post" => posts[current] <= restarts
  /\ step = "wait" => posts[current] >= 1
  /\ step # "idle" => current < offset
  /\ step = "reply" => verdict \in Replies

BotInv == TypeOK /\ RunInv

LEMMA PostIsRequest ==
  ASSUME BotInv, step = "post"
  PROVE  /\ current \in Updates /\ posts[current] \in Nat
         /\ posts[current] + 1 \in 1 .. MaxRestarts + 1
         /\ Post[current][posts[current] + 1] \in Requests
<1>1. /\ current \in Updates /\ posts[current] \in 0 .. MaxRestarts + 1
      /\ posts[current] <= restarts /\ restarts \in 0 .. MaxRestarts /\ MaxRestarts \in Nat
  BY PostAssumption DEF BotInv, TypeOK, BotTypeOK, RunInv
<1>2. posts[current] + 1 \in 1 .. MaxRestarts + 1 /\ posts[current] \in Nat
  BY <1>1
<1> QED
  BY <1>1, <1>2, PostAssumption

LEMMA WaitedIsRequest ==
  ASSUME BotInv, step = "wait"
  PROVE  current \in Updates /\ Request \in Requests /\ Request \in Posts(current)
<1>1. /\ current \in Updates /\ posts[current] \in 0 .. MaxRestarts + 1
      /\ posts[current] >= 1 /\ MaxRestarts \in Nat
  BY PostAssumption DEF BotInv, TypeOK, BotTypeOK, RunInv
<1>2. posts[current] \in 1 .. posts[current] /\ posts[current] \in 1 .. MaxRestarts + 1
  BY <1>1
<1> QED
  BY <1>1, <1>2, PostAssumption DEF Request, Posts

LEMMA TakeStep ==
  ASSUME BotInv, Take
  PROVE  /\ BotTypeOK' /\ RunInv'
         /\ \E u \in batch :
              /\ \A v \in batch : u <= v
              /\ batch' = batch \ {u} /\ offset' = u + 1
              /\ IF Kind[u] = "none" THEN current' = 0 /\ step' = "idle"
                                     ELSE current' = u /\ step' \in {"post", "reply"}
              /\ verdict' = Verdict(u)
<1> DEFINE e == Earliest(batch)
<1>1. batch \subseteq Updates /\ batch \subseteq Nat /\ batch # {}
  BY UpdatesAssumption DEF BotInv, TypeOK, BotTypeOK, Take
<1>2. e \in batch /\ \A v \in batch : e <= v
  BY <1>1, LeastOfBatch
<1>3. /\ Verdict(e) \in {"ignore", "help", "chat id", "refused", "usage", "post"}
      /\ Verdict(e) = "ignore" <=> Kind[e] = "none"
  BY <1>1, <1>2, VerdictTyped
<1>4. /\ batch' = batch \ {e} /\ offset' = e + 1 /\ verdict' = Verdict(e)
      /\ step' = CASE Verdict(e) = "ignore" -> "idle"
                   [] Verdict(e) = "post"   -> "post"
                   [] OTHER                 -> "reply"
      /\ current' = IF Verdict(e) = "ignore" THEN 0 ELSE e
      /\ UNCHANGED <<pending, dropped, told, mute, posts, restarts>>
  BY DEF Take, OffsetPast, telegram, notes
<1> HIDE DEF e
<1>b. batch' = batch \ {e} /\ offset' = e + 1 /\ pending' = pending
  BY <1>4
<1>5. /\ Verdict(e) = "ignore" => step' = "idle"
      /\ Verdict(e) = "post" => step' = "post"
      /\ Verdict(e) \notin {"ignore", "post"} => step' = "reply"
  BY <1>4
<1>6. BotTypeOK'
  <2>1. BotTypeOK
    BY DEF BotInv, TypeOK
  <2>2. batch' \subseteq pending' /\ offset' \in Nat /\ e \in pending /\ e # 0
    <3>1. e \in pending /\ e \in Nat /\ e # 0
      BY <1>1, <1>2, <2>1, UpdatesAreNumbers DEF BotTypeOK
    <3> QED
      <4>1. batch \subseteq pending
        BY <2>1 DEF BotTypeOK
      <4>2. e + 1 \in Nat
        BY <3>1
      <4> QED
        BY <1>b, <3>1, <4>1, <4>2
  <2>3. /\ step' \in {"idle", "post", "wait", "reply"}
        /\ IF step' = "idle" THEN current' = 0 ELSE current' \in pending'
    BY <1>3, <1>4, <1>5, <2>2
  <2> QED
    BY <1>3, <1>4, <2>1, <2>2, <2>3 DEF BotTypeOK
<1>7. RunInv'
  <2>1. e >= offset /\ e \in Updates /\ e \in Nat /\ posts[e] <= restarts /\ offset \in Nat
    BY <1>1, <1>2 DEF BotInv, RunInv, TypeOK, BotTypeOK
  <2>2. \A u \in Updates : u \in Nat
    BY UpdatesAssumption
  <2>3. \A v \in batch' : v >= e + 1
    BY <1>1, <1>2, <1>4
  <2>4. \A u \in Updates : u >= e + 1 => u >= offset
    BY <2>1, <2>2
  <2>5. step' # "wait"
    BY <1>3, <1>5
  <2>6. step' = "post" => current' = e
    BY <1>3, <1>4, <1>5
  <2>7. step' = "reply" => verdict' \in Replies
    BY <1>3, <1>4, <1>5 DEF Replies
  <2>8. step' # "idle" => current' < e + 1
    BY <1>4, <1>5, <2>1
  <2> QED
    BY <1>4, <2>1, <2>3, <2>4, <2>5, <2>6, <2>7, <2>8 DEF BotInv, RunInv
<1> QED
  BY <1>2, <1>3, <1>4, <1>5, <1>6, <1>7

LEMMA BotStep == ASSUME BotInv, [Next]_vars PROVE BotInv'
<1> SUFFICES AddTypeOK' /\ BotTypeOK' /\ RunInv'
  BY DEF BotInv, TypeOK
<1> USE DEF telegram, botVars, notes, Confirm, Due
<1>0. AddTypeOK /\ BotTypeOK /\ RunInv
  BY DEF BotInv, TypeOK
<1>a. UNCHANGED addVars => AddTypeOK'
  BY <1>0 DEF addVars, AddTypeOK, Done
<1>1. ASSUME NEW u \in Updates, Message(u) PROVE AddTypeOK' /\ BotTypeOK' /\ RunInv'
  BY <1>0, <1>1, <1>a DEF Message, BotTypeOK, RunInv
<1>2. CASE Poll
  <2>1. /\ step = "idle" /\ batch' \subseteq Asked /\ pending' = Asked
        /\ dropped' = dropped \cup Confirmed
        /\ UNCHANGED <<offset, current, step, verdict, told, mute, posts, restarts>>
    BY <1>2 DEF Poll, Polling
  <2>2. AddTypeOK'
    BY <1>2, <1>a DEF Poll
  <2>3. BotTypeOK'
    BY <1>0, <2>1, OffsetSplits DEF BotTypeOK
  <2>4. RunInv'
    BY <1>0, <2>1 DEF RunInv, Asked
  <2> QED
    BY <2>2, <2>3, <2>4
<1>3. CASE PollFails
  <2>1. /\ step = "idle" /\ batch = {} /\ pending' = Asked
        /\ dropped' = dropped \cup Confirmed
        /\ UNCHANGED <<offset, batch, current, step, verdict, told, mute, posts, restarts>>
    BY <1>3 DEF PollFails, Polling
  <2>2. Asked \subseteq pending /\ Confirmed \subseteq pending /\ Asked \cap Confirmed = {}
    BY <1>0, OffsetSplits
  <2>3. BotTypeOK' /\ RunInv'
    BY <1>0, <2>1, <2>2 DEF BotTypeOK, RunInv
  <2> QED
    BY <1>3, <1>a, <2>3 DEF PollFails
<1>4. CASE Take
  BY <1>4, <1>a, TakeStep DEF Take
<1>5. CASE PostMemory
  <2> DEFINE q == Post[current][posts[current] + 1]
  <2>1. /\ current \in Updates /\ posts[current] \in Nat
        /\ posts[current] + 1 \in 1 .. MaxRestarts + 1 /\ q \in Requests
    BY <1>5, PostIsRequest DEF PostMemory
  <2>2. AddTypeOK'
    BY <1>0, <1>5, <2>1, ArrivalTyped DEF PostMemory
  <2>3. /\ posts' = [posts EXCEPT ![current] = @ + 1] /\ step' = "wait" /\ step = "post"
        /\ UNCHANGED <<pending, dropped, offset, batch, current, verdict, told, mute, restarts>>
    BY <1>5 DEF PostMemory
  <2>4. current \in pending /\ current # 0
    BY <1>0, <2>3, UpdatesAssumption DEF BotTypeOK
  <2>5. posts' \in [Updates -> 0 .. MaxRestarts + 1]
    <3>1. posts[current] + 1 \in 0 .. MaxRestarts + 1
      BY <2>1
    <3>2. posts \in [Updates -> 0 .. MaxRestarts + 1]
      BY <1>0 DEF BotTypeOK
    <3> QED
      BY <2>1, <2>3, <3>1, <3>2
  <2>6. BotTypeOK'
    BY <1>0, <2>3, <2>4, <2>5 DEF BotTypeOK
  <2>7. RunInv'
    <3>1. /\ posts[current] <= restarts /\ restarts \in Nat /\ current < offset
          /\ current \in Nat /\ offset \in Nat
      <4>1. restarts \in 0 .. MaxRestarts /\ offset \in Nat
        BY <1>0 DEF BotTypeOK
      <4>2. posts[current] <= restarts /\ current < offset
        BY <1>0, <2>3 DEF RunInv
      <4> QED
        BY <2>1, <4>1, <4>2, PostAssumption, UpdatesAreNumbers
    <3>2. /\ posts'[current] = posts[current] + 1
          /\ \A u \in Updates : u # current => posts'[u] = posts[u]
      BY <1>0, <2>1, <2>3 DEF BotTypeOK
    <3>3. ASSUME NEW u \in Updates
          PROVE  posts'[u] <= restarts + 1 /\ (u >= offset => posts'[u] <= restarts)
      <4>1. posts[u] <= restarts + 1 /\ (u >= offset => posts[u] <= restarts) /\ u \in Nat
        BY <1>0, UpdatesAreNumbers DEF RunInv
      <4>2. CASE u = current
        <5>1. posts'[u] = posts[current] + 1 /\ ~(u >= offset)
          BY <3>1, <3>2, <4>2
        <5> QED
          BY <2>1, <3>1, <5>1
      <4>3. CASE u # current
        BY <3>2, <4>1, <4>3
      <4> QED
        BY <4>2, <4>3
    <3>5. posts'[current] >= 1
      BY <2>1, <3>2
    <3> QED
      BY <1>0, <2>3, <3>3, <3>5 DEF RunInv
  <2> QED
    BY <2>2, <2>6, <2>7
<1>6. CASE PostAnswered
  BY <1>0, <1>6, <1>a DEF PostAnswered, BotTypeOK, RunInv, Replies
<1>7. CASE PostFails
  BY <1>0, <1>7, <1>a DEF PostFails, BotTypeOK, RunInv, Replies
<1>8. CASE Reply
  BY <1>0, <1>8, <1>a DEF Reply, BotTypeOK, RunInv, Replies
<1>9. CASE ReplyFails
  BY <1>0, <1>9, <1>a DEF ReplyFails, BotTypeOK, RunInv
<1>10. CASE Restart
  <2>1. /\ restarts < MaxRestarts /\ restarts' = restarts + 1 /\ step' = "idle"
        /\ offset' = 0 /\ batch' = {} /\ current' = 0 /\ verdict' = "none"
        /\ UNCHANGED <<pending, dropped, told, mute, posts>>
    BY <1>10 DEF Restart, FirstOffset
  <2>2. /\ restarts \in Nat /\ MaxRestarts \in Nat /\ restarts + 1 \in 0 .. MaxRestarts
        /\ \A u \in Updates : posts[u] \in Nat
    <3>1. restarts \in 0 .. MaxRestarts /\ posts \in [Updates -> 0 .. MaxRestarts + 1]
      BY <1>0 DEF BotTypeOK
    <3>2. \A u \in Updates : posts[u] \in 0 .. MaxRestarts + 1
      BY <3>1
    <3> QED
      BY <2>1, <3>1, <3>2, PostAssumption
  <2>3. BotTypeOK'
    BY <1>0, <2>1, <2>2 DEF BotTypeOK
  <2>4. RunInv'
    BY <1>0, <2>1, <2>2 DEF RunInv
  <2> QED
    BY <1>10, <1>a, <2>3, <2>4 DEF Restart
<1>11. ASSUME NEW q \in Requests, Serve(q), UNCHANGED <<telegram, botVars, notes, restarts>>
       PROVE  AddTypeOK' /\ BotTypeOK' /\ RunInv'
  BY <1>0, <1>11, ServeTyped DEF BotTypeOK, RunInv
<1>12. CASE UNCHANGED vars
  BY <1>0, <1>12, <1>a DEF vars, BotTypeOK, RunInv
<1> QED
  BY <1>1, <1>2, <1>3, <1>4, <1>5, <1>6, <1>7, <1>8, <1>9, <1>10, <1>11, <1>12 DEF Next, Process

LEMMA BotInvariant == Spec => []BotInv
<1>1. Init => BotInv
  <2> SUFFICES ASSUME Init PROVE BotInv
    OBVIOUS
  <2>1. AddTypeOK
    BY DEF Init, AddInit, AddTypeOK, Phases, Results, Done
  <2>2. BotTypeOK
    BY PostAssumption DEF Init, BotTypeOK
  <2>3. RunInv
    BY DEF Init, RunInv
  <2> QED
    BY <2>1, <2>2, <2>3 DEF BotInv, TypeOK
<1> QED
  BY <1>1, BotStep, PTL DEF Spec

\* The variables of bot, Telegram and server keep their types; an update being dealt
\* with has not been confirmed.
THEOREM TypeCorrect == Spec => []TypeOK
<1>1. BotInv => TypeOK
  BY DEF BotInv
<1> QED
  BY <1>1, BotInvariant, PTL

\* A run of the bot posts a note once at most, for any number of failures and restarts.
THEOREM PostedOnce == Spec => []PostedOncePerRun
<1>1. BotInv => PostedOncePerRun
  BY DEF BotInv, RunInv, PostedOncePerRun
<1> QED
  BY <1>1, BotInvariant, PTL

-----------------------------------------------------------------------------
(* What the bot does to the server, and what it may tell a sender.           *)

LEMMA ServerStep == ASSUME BotInv, [Next]_vars PROVE [AddNext]_addVars
<1>1. CASE PostMemory
  BY <1>1, PostIsRequest DEF PostMemory, AddNext
<1>2. ASSUME NEW q \in Requests, Serve(q) PROVE AddNext
  BY <1>2 DEF AddNext
<1>3. ASSUME NEW u \in Updates, Message(u) PROVE UNCHANGED addVars
  BY <1>3 DEF Message
<1>4. CASE Poll \/ PollFails \/ Take \/ PostAnswered \/ PostFails \/ Reply \/ ReplyFails \/ Restart
  BY <1>4 DEF Poll, PollFails, Take, PostAnswered, PostFails, Reply, ReplyFails, Restart
<1>5. CASE UNCHANGED vars
  BY <1>5 DEF vars
<1> QED
  BY <1>1, <1>2, <1>3, <1>4, <1>5 DEF Next, Process

\* Whatever the bot does, and however often it is restarted, the server behaves as
\* AddMemory specifies.
THEOREM DrivesAddMemory == Spec => AddSpec
<1>1. Init => AddInit
  BY DEF Init
<1> QED
  BY <1>1, ServerStep, BotInvariant, PTL DEF Spec, AddSpec

\* The reply that is due is as true as one that was sent.
SavedInv ==
  /\ SavedIsStored
  /\ step = "reply" /\ verdict = "saved" => \E q \in Posts(current) : Kept(q)

\* The posts of an update stay, and a post that kept what it found keeps it.
LEMMA PostsStay ==
  ASSUME BotInv, [Next]_vars, NEW u \in Updates, \E q \in Posts(u) : Kept(q)
  PROVE  \E q \in Posts(u)' : Kept(q)'
<1>1. PICK i \in 1 .. posts[u] : Kept(Post[u][i])
  BY DEF Posts
<1>2. posts[u] \in 0 .. MaxRestarts + 1 /\ MaxRestarts \in Nat
  BY PostAssumption DEF BotInv, TypeOK, BotTypeOK
<1>3. Post[u][i] \in Requests
  BY <1>1, <1>2, PostAssumption
<1>4. posts'[u] \in Nat /\ posts'[u] >= posts[u]
  <2>1. posts \in [Updates -> 0 .. MaxRestarts + 1]
    BY DEF BotInv, TypeOK, BotTypeOK
  <2>2. CASE PostMemory
    BY <1>2, <2>1, <2>2 DEF PostMemory
  <2>3. CASE UNCHANGED posts
    BY <1>2, <2>3
  <2> QED
    BY <2>2, <2>3 DEF Next, Process, vars, notes, Message, Poll, PollFails, Take, PostAnswered,
                      PostFails, Reply, ReplyFails, Restart
<1>5. Kept(Post[u][i])'
  <2> DEFINE q == Post[u][i]
  <2>1. q \in Requests /\ Kept(q)
    BY <1>1, <1>3
  <2>2. AddTypeOK /\ [AddNext]_addVars
    BY ServerStep DEF BotInv, TypeOK
  <2> HIDE DEF q
  <2>3. Kept(q)'
    BY <2>1, <2>2, KeptIsStable
  <2> QED
    BY <2>3 DEF q
<1>6. i \in 1 .. posts'[u]
  BY <1>2, <1>4
<1> QED
  BY <1>5, <1>6 DEF Posts

LEMMA SavedStep == ASSUME BotInv, AnsweredIsStored, SavedInv, [Next]_vars PROVE SavedInv'
<1> DEFINE Saved(u) == \E q \in Posts(u) : Kept(q)
<1>0. /\ BotTypeOK /\ AddTypeOK
      /\ \A u \in Updates : "saved" \in told[u] => Saved(u)
      /\ step = "reply" /\ verdict = "saved" => Saved(current)
  BY DEF BotInv, TypeOK, SavedInv, SavedIsStored
<1>a. \A u \in Updates : Saved(u) => Saved(u)'
  BY PostsStay
<1> SUFFICES /\ \A u \in Updates : "saved" \in told'[u] => Saved(u)'
             /\ step' = "reply" /\ verdict' = "saved" => Saved(current)'
  BY DEF SavedInv, SavedIsStored
<1>1. CASE PostAnswered
  <2>1. /\ current \in Updates /\ Request \in Requests /\ Request \in Posts(current)
    BY <1>1, WaitedIsRequest DEF PostAnswered
  <2>2. /\ current' = current /\ told' = told
        /\ verdict' = "saved" => result[Request] \in {"stored", "deduplicated"}
    BY <1>1 DEF PostAnswered, Due, notes
  <2>3. result[Request] \in {"stored", "deduplicated"} => Saved(current)
    BY <2>1 DEF AnsweredIsStored
  <2> HIDE DEF Saved
  <2>4. verdict' = "saved" => Saved(current)'
    BY <1>a, <2>1, <2>2, <2>3
  <2> QED
    BY <1>0, <1>a, <2>2, <2>4
<1>2. CASE Reply
  <2>1. /\ step = "reply" /\ step' = "idle" /\ current \in Updates
        /\ told' = [told EXCEPT ![current] = @ \cup {verdict}]
        /\ told \in [Updates -> SUBSET {"help", "chat id", "refused", "usage", "saved", "failed"}]
    BY <1>0, <1>2 DEF Reply, BotTypeOK
  <2>2. ASSUME NEW u \in Updates, "saved" \in told'[u] PROVE Saved(u)
    <3>1. CASE u = current
      BY <1>0, <2>1, <2>2, <3>1
    <3>2. CASE u # current
      BY <1>0, <2>1, <2>2, <3>2
    <3> QED
      BY <3>1, <3>2
  <2> HIDE DEF Saved
  <2> QED
    BY <1>a, <2>1, <2>2
<1>3. CASE step' # "reply" /\ told' = told
  <2> HIDE DEF Saved
  <2> QED
    BY <1>0, <1>a, <1>3
<1>4. CASE verdict' # "saved" /\ told' = told
  <2> HIDE DEF Saved
  <2> QED
    BY <1>0, <1>a, <1>4
<1>5. CASE UNCHANGED <<step, verdict, current, told>>
  <2>1. step = "reply" => current \in Updates
    BY <1>0 DEF BotTypeOK
  <2> HIDE DEF Saved
  <2> QED
    BY <1>0, <1>a, <1>5, <2>1
<1>6. CASE Take
  <2>1. batch \subseteq Updates
    BY <1>0 DEF BotTypeOK
  <2>2. PICK u \in batch : verdict' = Verdict(u)
    BY <1>6, TakeStep
  <2>3. verdict' # "saved"
    BY <2>1, <2>2, VerdictTyped
  <2>4. told' = told
    BY <1>6 DEF Take, notes
  <2> QED
    BY <1>4, <2>3, <2>4
<1>7. ASSUME NEW u \in Updates, Message(u) PROVE UNCHANGED <<step, verdict, current, told>>
  BY <1>7 DEF Message, botVars, notes
<1>8. CASE Poll \/ PollFails
  BY <1>5, <1>8 DEF Poll, PollFails, botVars, notes
<1>9. CASE PostMemory \/ ReplyFails \/ Restart
  BY <1>3, <1>9 DEF PostMemory, ReplyFails, Restart, notes
<1>10. CASE PostFails
  BY <1>4, <1>10 DEF PostFails, Due, notes
<1>11. CASE UNCHANGED <<botVars, notes>>
  BY <1>5, <1>11 DEF botVars, notes
<1> QED
  BY <1>1, <1>2, <1>5, <1>6, <1>7, <1>8, <1>9, <1>10, <1>11 DEF Next, Process, vars

\* A sender who was told "Saved" has the note in the store, for any number of posts,
\* lost replies and restarts.
THEOREM SavedStored == Spec => []SavedIsStored
<1>1. Init => SavedInv
  BY DEF Init, SavedInv, SavedIsStored
<1>2. BotInv /\ AnsweredIsStored /\ SavedInv /\ [Next]_vars => SavedInv'
  BY SavedStep
<1>3. SavedInv => SavedIsStored
  BY DEF SavedInv
<1>4. Spec => []AnsweredIsStored
  BY DrivesAddMemory, AnsweredStored, PTL
<1> QED
  BY <1>1, <1>2, <1>3, <1>4, BotInvariant, PTL DEF Spec

-----------------------------------------------------------------------------
(* Nothing is lost silently.                                                 *)

Dealt(u) == Kind[u] = "none" \/ told[u] # {} \/ u \in mute

\* The offset moves past a message before it is dealt with, so what it is past is dealt
\* with or in hand; and it moves past no message that has not been handed out, because
\* messages come in order and a batch is the first of what Telegram has.
LostInv ==
  /\ NoneLostSilently
  /\ \A u \in pending : u < offset => Dealt(u) \/ u = current
  /\ \A u \in batch : \A v \in pending : v >= offset /\ v < u => v \in batch
  /\ \A u \in pending \cup dropped : \A v \in Updates : v < u => v \in pending \cup dropped
  /\ offset # 0 => \E u \in pending \cup dropped : offset = u + 1

LEMMA FirstOfAskedClosed ==
  ASSUME BotTypeOK, NEW u \in Asked, NEW v \in Asked, v < u,
         Cardinality({w \in Asked : w < u}) < BatchSize
  PROVE  Cardinality({w \in Asked : w < v}) < BatchSize
<1> DEFINE Before(x) == {w \in Asked : w < x}
<1>1. Asked \subseteq Updates /\ u \in Nat /\ v \in Nat /\ \A w \in Asked : w \in Nat
  BY UpdatesAreNumbers DEF Asked, BotTypeOK
<1>a. \A x, w : w \in Before(x) <=> w \in Asked /\ w < x
  OBVIOUS
<1>2. IsFiniteSet(Before(u))
  <2>1. Before(u) \subseteq 0 .. u
    <3> HIDE DEF Before
    <3> SUFFICES ASSUME NEW w \in Before(u) PROVE w \in 0 .. u
      OBVIOUS
    <3>1. w \in Asked /\ w < u
      BY <1>a
    <3>2. w \in Nat
      BY <1>1, <3>1
    <3> QED
      BY <1>1, <3>1, <3>2
  <2>2. IsFiniteSet(0 .. u)
    BY <1>1, FS_Interval
  <2> HIDE DEF Before
  <2> QED
    BY <2>1, <2>2, FS_Subset
<1>3. Before(v) \subseteq Before(u)
  <2> HIDE DEF Before
  <2> SUFFICES ASSUME NEW w \in Before(v) PROVE w \in Before(u)
    OBVIOUS
  <2>1. w \in Asked /\ w < v
    BY <1>a
  <2>2. w < u
    BY <1>1, <2>1
  <2> QED
    BY <1>a, <2>1, <2>2
<1> HIDE DEF Before
<1>4. Cardinality(Before(v)) <= Cardinality(Before(u)) /\ IsFiniteSet(Before(v))
  BY <1>2, <1>3, FS_Subset
<1>5. Cardinality(Before(u)) \in Nat /\ Cardinality(Before(v)) \in Nat
  BY <1>2, <1>4, FS_CardinalityType
<1>6. Cardinality(Before(u)) < BatchSize
  BY DEF Before
<1>7. Cardinality(Before(v)) < BatchSize
  BY <1>4, <1>5, <1>6, PostAssumption
<1> QED
  BY <1>7 DEF Before

LEMMA LostStep == ASSUME BotInv, LostInv, [Next]_vars PROVE LostInv'
<1> DEFINE S == pending \cup dropped
           Fate(u) == told[u] # {} \/ u \in mute
           L1 == \A u \in dropped : Kind[u] # "none" => Fate(u)
           L2 == \A u \in pending : u < offset => Kind[u] = "none" \/ Fate(u) \/ u = current
           L3 == \A u \in batch : \A v \in pending : v >= offset /\ v < u => v \in batch
           L4 == \A u \in S : \A v \in Updates : v < u => v \in S
           L5 == offset # 0 => \E u \in S : offset = u + 1
<1>0. L1 /\ L2 /\ L3 /\ L4 /\ L5 /\ BotTypeOK
  BY DEF LostInv, NoneLostSilently, Dealt, BotInv, TypeOK
<1>a. /\ pending \subseteq Updates /\ dropped \subseteq Updates /\ batch \subseteq pending
      /\ offset \in Nat /\ \A u \in Updates : u \in Nat /\ u # 0
      /\ step = "idle" => current = 0
  BY <1>0, UpdatesAreNumbers DEF BotTypeOK
<1> SUFFICES L1' /\ L2' /\ L3' /\ L4' /\ L5'
  BY DEF LostInv, NoneLostSilently, Dealt
<1>1. ASSUME NEW w \in Updates, Message(w) PROVE L1' /\ L2' /\ L3' /\ L4' /\ L5'
  <2>1. /\ w \notin S /\ \A v \in Updates : v < w => v \in S
        /\ pending' = pending \cup {w}
        /\ UNCHANGED <<dropped, offset, batch, current, told, mute>>
    BY <1>1 DEF Message, botVars, notes
  <2>2. \A u \in S : ~(w < u)
    BY <1>0, <2>1
  <2>3. ~(w < offset)
    <3>1. CASE offset = 0
      BY <1>a, <3>1
    <3>2. CASE offset # 0
      <4>1. PICK u \in S : offset = u + 1
        BY <1>0, <3>2
      <4>2. u \in Nat /\ w \in Nat /\ w # u /\ ~(w < u)
        BY <1>a, <2>1, <2>2
      <4> QED
        BY <4>1, <4>2
    <3> QED
      BY <3>1, <3>2
  <2>4. L1' /\ L2'
    BY <1>0, <2>1, <2>3
  <2>5. L3'
    BY <1>0, <1>a, <2>1, <2>2
  <2>6. L4' /\ L5'
    BY <1>0, <2>1
  <2> QED
    BY <2>4, <2>5, <2>6
<1>2. CASE Poll \/ PollFails
  <2>1. /\ step = "idle" /\ pending' = Asked /\ dropped' = dropped \cup Confirmed
        /\ UNCHANGED <<offset, current, told, mute>>
    BY <1>2 DEF Poll, PollFails, Polling, Confirm, botVars, notes
  <2>2. S' = S
    BY <1>a, <2>1 DEF Asked, Confirmed
  <2>3. L1'
    <3>1. \A u \in Confirmed : u \in pending /\ u < offset /\ u # current
      BY <1>a, <2>1 DEF Confirmed
    <3> QED
      BY <1>0, <2>1, <3>1
  <2>4. L2'
    BY <1>0, <2>1 DEF Asked
  <2>5. L3'
    <3>1. CASE Poll
      <4>1. batch' = {u \in Asked : Cardinality({v \in Asked : v < u}) < BatchSize}
        BY <3>1 DEF Poll
      <4> QED
        BY <1>0, <2>1, <4>1, FirstOfAskedClosed
    <3>2. CASE PollFails
      BY <3>2 DEF PollFails, Polling, botVars
    <3> QED
      BY <1>2, <3>1, <3>2
  <2>6. L4'
    BY <1>0, <2>2
  <2>7. L5'
    BY <1>0, <2>1, <2>2
  <2> QED
    BY <2>3, <2>4, <2>5, <2>6, <2>7
<1>3. CASE Take
  <2>1. PICK e \in batch :
          /\ \A v \in batch : e <= v
          /\ batch' = batch \ {e} /\ offset' = e + 1
          /\ Kind[e] # "none" => current' = e
    BY <1>3, TakeStep
  <2>2. step = "idle" /\ UNCHANGED <<pending, dropped, told, mute>>
    BY <1>3 DEF Take, telegram, notes
  <2>3. e \in Nat /\ e \in pending /\ e >= offset
    BY <1>a DEF BotInv, RunInv
  <2>4. L2'
    <3> SUFFICES ASSUME NEW u \in pending, u < e + 1
                 PROVE  Kind[u] = "none" \/ Fate(u) \/ u = current'
      BY <2>1, <2>2
    <3>0. u \in Nat /\ u # 0
      BY <1>a
    <3>1. CASE u = e
      BY <2>1, <3>1
    <3>2. CASE u < offset
      BY <1>0, <1>a, <2>2, <3>0, <3>2
    <3>3. CASE u # e /\ ~(u < offset)
      <4>1. u >= offset /\ u < e
        BY <1>a, <2>3, <3>0, <3>3
      <4>2. u \in batch
        BY <1>0, <4>1
      <4> QED
        BY <2>1, <2>3, <3>0, <4>1, <4>2
    <3> QED
      BY <3>1, <3>2, <3>3
  <2>5. L3'
    <3> SUFFICES ASSUME NEW u \in batch, NEW v \in pending, v >= e + 1, v < u
                 PROVE  v \in batch /\ v # e
      BY <2>1, <2>2
    <3>1. v \in Nat /\ v >= offset /\ v # e
      BY <1>a, <2>3
    <3> QED
      BY <1>0, <3>1
  <2>6. L1' /\ L4' /\ L5'
    BY <1>0, <2>1, <2>2, <2>3
  <2> QED
    BY <2>4, <2>5, <2>6
<1>4. CASE Reply \/ ReplyFails
  <2>1. /\ step = "reply" /\ UNCHANGED <<pending, dropped, offset, batch>>
        /\ \/ told' = [told EXCEPT ![current] = @ \cup {verdict}] /\ mute' = mute
           \/ told' = told /\ mute' = mute \cup {current}
    BY <1>4 DEF Reply, ReplyFails, telegram
  <2>2. /\ current \in Updates
        /\ told \in [Updates -> SUBSET {"help", "chat id", "refused", "usage", "saved", "failed"}]
    BY <1>0, <2>1 DEF BotTypeOK
  <2>3. ASSUME NEW u \in Updates, u = current PROVE Fate(u)'
    <3>1. CASE told' = [told EXCEPT ![current] = @ \cup {verdict}]
      <4>1. verdict \in told'[u]
        BY <2>2, <2>3, <3>1
      <4> QED
        BY <4>1
    <3>2. CASE mute' = mute \cup {current}
      BY <2>3, <3>2
    <3> QED
      BY <2>1, <3>1, <3>2
  <2>4. \A u \in Updates : Fate(u) => Fate(u)'
    BY <2>1, <2>2
  <2> HIDE DEF Fate
  <2>5. L1' /\ L2'
    BY <1>0, <1>a, <2>1, <2>3, <2>4
  <2>6. L3' /\ L4' /\ L5'
    BY <1>0, <2>1
  <2> QED
    BY <2>5, <2>6
<1>5. CASE Restart
  <2>1. offset' = 0 /\ batch' = {} /\ UNCHANGED <<pending, dropped, told, mute>>
    BY <1>5 DEF Restart, FirstOffset, telegram, notes
  <2> QED
    BY <1>0, <1>a, <2>1
<1>6. CASE UNCHANGED <<pending, dropped, offset, batch, current, told, mute>>
  BY <1>0, <1>6
<1>7. CASE PostMemory \/ PostAnswered \/ PostFails
  BY <1>6, <1>7 DEF PostMemory, PostAnswered, PostFails, Due, telegram, notes
<1>8. CASE UNCHANGED <<telegram, botVars, notes, restarts>>
  BY <1>6, <1>8 DEF telegram, botVars, notes
<1> QED
  BY <1>1, <1>2, <1>3, <1>4, <1>5, <1>7, <1>8 DEF Next, Process, vars

\* A message that Telegram has dropped was answered, or its answer was lost on the way,
\* for any batches, failures and restarts.
THEOREM NoneLost == Spec => []NoneLostSilently
<1>1. Init => LostInv
  BY DEF Init, LostInv, NoneLostSilently
<1>2. LostInv => NoneLostSilently
  BY DEF LostInv
<1> QED
  BY <1>1, <1>2, LostStep, BotInvariant, PTL DEF Spec
=============================================================================
