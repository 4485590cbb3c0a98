--------------------------------- MODULE Digest ---------------------------------
(***************************************************************************)
(* The digest: src/digest/digest.py main, which cron starts in the digest  *)
(* container (src/digest/entrypoint.sh), next to writes to the store.      *)
(*                                                                         *)
(* A run fetches one page of memories, keeps those touched in the window   *)
(* that ends when it looks at the clock, and posts them, summarised or as  *)
(* a list.  Runs share no state: what a run that fails has not posted is   *)
(* posted by a later one only if it is still in the window.  The page is   *)
(* taken by id, before anything is known of the age of a memory: what lies *)
(* beyond it is not posted, however recent it is.                          *)
(*                                                                         *)
(* A moment may see several steps; Slack is how many moments a run takes   *)
(* at most from the minute cron starts it (its HTTP calls have timeouts).  *)
(***************************************************************************)
EXTENDS Integers, FiniteSets

CONSTANTS
  Memories,    \* the ids of all memories, stored or not
  Untimed,     \* those whose timestamps cannot be parsed
  MaxFetched,  \* DIGEST_MAX_MEMORIES
  Window,      \* DIGEST_WINDOW_DAYS
  Period,      \* the distance of two runs in DIGEST_CRON
  Slack,
  SendEmpty,   \* DIGEST_SEND_WHEN_EMPTY
  Webhook,     \* DIGEST_WEBHOOK_URL is set
  MaxStarts,   \* bound: how often the container is restarted
  MaxTime      \* bound: the last moment

ASSUME MemoriesAssumption == /\ Memories \subseteq Nat /\ IsFiniteSet(Memories)
                             /\ Untimed \subseteq Memories
ASSUME TimesAssumption == /\ {Window, Period, Slack, MaxFetched} \subseteq Nat \ {0}
                          /\ Slack < Period
ASSUME BoundsAssumption == MaxStarts \in Nat /\ MaxTime \in Nat \ {0}
ASSUME SettingsAssumption == SendEmpty \in BOOLEAN /\ Webhook \in BOOLEAN

VARIABLES
  stamp,      \* memory -> when it was last touched; 0 when it is not stored
  now,
  due,        \* when cron starts the next run
  step,       \* how far the run has got
  deadline,   \* the moment by which it has ended
  fetched,    \* the memories it fetched, with their timestamps
  fetchTime,  \* history: when it fetched them
  kept,       \* those of them that are in the window
  cutoff,     \* the start of the window
  starts,     \* how often the container was restarted
  times,      \* history: memory -> how often it was posted since it was touched
  leftOff,    \* history: the memories that, as they are now, were beyond the page of a run
  covered,    \* history: the moments of which some successful run told what was touched
  seen,       \* history: when the last run that succeeded fetched
  missed,     \* history: how many runs failed or did not take place since then
  worst       \* history: the most of them in a row

runVars == <<step, deadline, fetched, fetchTime, kept, cutoff>>
lapses  == <<missed, worst>>
told    == <<times, covered, seen>>
vars    == <<stamp, now, due, runVars, starts, told, leftOff, lapses>>

Stored == {m \in Memories : stamp[m] > 0}

Init ==
  /\ stamp = [m \in Memories |-> 0]
  /\ now = 1 /\ due = Period
  /\ step = "idle" /\ deadline = 0
  /\ fetched = {} /\ fetchTime = 0 /\ kept = {} /\ cutoff = 0
  /\ starts = 0
  /\ times = [m \in Memories |-> 0]
  /\ leftOff = {} /\ covered = {}
  /\ seen = 1 /\ missed = 0 /\ worst = 0

\* Another run that has failed or not taken place.
Lapse ==
  /\ missed' = missed + 1
  /\ worst' = IF missed < worst THEN worst ELSE missed + 1

-----------------------------------------------------------------------------
(* The world around a run.                                                   *)

\* POST or PUT.
Save(m) ==
  /\ stamp' = [stamp EXCEPT ![m] = now]
  /\ times' = [times EXCEPT ![m] = 0]
  /\ leftOff' = leftOff \ {m}
  /\ UNCHANGED <<now, due, runVars, starts, covered, seen, lapses>>

\* DELETE.  A memory that expires stays: the run does not ask for exclude_expired, so it
\* is listed, takes its place on the page and is posted like any other.
Remove(m) ==
  /\ m \in Stored
  /\ stamp' = [stamp EXCEPT ![m] = 0]
  /\ UNCHANGED <<now, due, runVars, starts, told, leftOff, lapses>>

\* Time passes, but neither a run nor cron is late by more than Slack.
Tick ==
  /\ now < MaxTime
  /\ now < due + Slack
  /\ step # "idle" => now < deadline
  /\ now' = now + 1
  /\ UNCHANGED <<stamp, due, runVars, starts, told, leftOff, lapses>>

-----------------------------------------------------------------------------
(* A run.                                                                    *)

\* Cron starts a run.
Start ==
  /\ step = "idle" /\ now >= due
  /\ step' = "fetch"
  /\ deadline' = due + Slack
  /\ due' = due + Period
  /\ UNCHANGED <<stamp, now, fetched, fetchTime, kept, cutoff, starts, told, leftOff, lapses>>

\* Or it does not: the container is down, or still in the run it began with.
Miss ==
  /\ now >= due
  /\ due' = due + Period
  /\ Lapse
  /\ UNCHANGED <<stamp, now, runVars, starts, told, leftOff>>

\* The process ends, and nothing of the run is left.
End == /\ step' = "idle" /\ deadline' = 0
       /\ fetched' = {} /\ fetchTime' = 0 /\ kept' = {} /\ cutoff' = 0

\* The container is restarted, whatever a run is at, and begins with a run of its own
\* if DIGEST_RUN_ON_START says so.
Restart(onStart) ==
  /\ starts < MaxStarts
  /\ starts' = starts + 1
  /\ IF step = "idle" THEN UNCHANGED lapses ELSE Lapse
  /\ IF onStart
     THEN /\ step' = "fetch" /\ deadline' = now + Slack
          /\ fetched' = {} /\ fetchTime' = 0 /\ kept' = {} /\ cutoff' = 0
     ELSE End
  /\ UNCHANGED <<stamp, now, due, told, leftOff>>

\* Faulty: the page is one short.
PageShort == {m \in Stored : Cardinality({k \in Stored : k < m}) < MaxFetched - 1}

\* The first of the memories, by id.
Page == {m \in Stored : Cardinality({k \in Stored : k < m}) < MaxFetched}

\* What the settings keep off the page: there are MaxFetched memories before it.
Beyond == {m \in Stored : Cardinality({k \in Stored : k < m}) >= MaxFetched}

\* fetch_memories: the first page of the listing.
Fetch ==
  /\ step = "fetch"
  /\ fetched' = {<<m, stamp[m]>> : m \in Page}
  /\ fetchTime' = now
  /\ leftOff' = leftOff \cup Beyond
  /\ step' = "filter"
  /\ UNCHANGED <<stamp, now, due, deadline, kept, cutoff, starts, told, lapses>>

\* Faulty: the window is applied to what the store holds by then.
RecentReread(c) == {f \in {<<m, stamp[m]>> : m \in Page} : f[1] \in Untimed \/ f[2] >= c}

\* Faulty: no window.
RecentAll(c) == fetched

\* filter_recent: those touched since c; those without a timestamp are kept.
Recent(c) == {f \in fetched : f[1] \in Untimed \/ f[2] >= c}

\* A run has succeeded that told what was touched since c and before it fetched.  (A run
\* at start may have fetched before cron's turn came, and have cost it.)
Succeed(c, at) ==
  /\ covered' = covered \cup (c .. at - 1)
  /\ seen' = at
  /\ missed' = IF at < due - Period THEN 1 ELSE 0
  /\ UNCHANGED worst

\* Faulty: the window is a moment short.
SinceLate == now - Window + 1

\* The start of the window.
Since == now - Window

Nothing == Recent(Since) = {} /\ ~SendEmpty

\* main: the memories in the window; without any there is nothing to post.
Filter ==
  /\ step = "filter"
  /\ IF Nothing
     THEN End /\ Succeed(Since, fetchTime) /\ UNCHANGED times
     ELSE /\ kept' = Recent(Since)
          /\ cutoff' = Since
          /\ step' = "deliver"
          /\ UNCHANGED <<deadline, fetched, fetchTime, told, lapses>>
  /\ UNCHANGED <<stamp, now, due, starts, leftOff>>

\* The digest is out: in the channel, or, without a webhook, in the container's log.
Post ==
  times' = [m \in Memories |-> IF <<m, stamp[m]>> \in kept THEN times[m] + 1 ELSE times[m]]

\* build_digest and deliver: a summary, or the list of them if the LLM fails.
Deliver ==
  /\ step = "deliver"
  /\ Post /\ Succeed(cutoff, fetchTime)
  /\ End
  /\ UNCHANGED <<stamp, now, due, starts, leftOff>>

\* The post is made, but its answer is lost or an error.
DeliverUnanswered ==
  /\ step = "deliver" /\ Webhook
  /\ Post /\ UNCHANGED <<covered, seen>>
  /\ Lapse
  /\ End
  /\ UNCHANGED <<stamp, now, due, starts, leftOff>>

\* The listing or the post fails, and the run with it.
Fail ==
  /\ step = "fetch" \/ (step = "deliver" /\ Webhook)
  /\ Lapse
  /\ End
  /\ UNCHANGED <<stamp, now, due, starts, told, leftOff>>

Next ==
  \/ \E m \in Memories : Save(m) \/ Remove(m)
  \/ Tick
  \/ Start \/ Miss
  \/ \E onStart \in BOOLEAN : Restart(onStart)
  \/ Fetch \/ Filter
  \/ Deliver \/ DeliverUnanswered \/ Fail

Spec == Init /\ [][Next]_vars

-----------------------------------------------------------------------------
(* Correctness.                                                              *)

TypeOK ==
  /\ stamp \in [Memories -> 0 .. now]
  /\ now \in 1 .. MaxTime /\ due \in Nat
  /\ step \in {"idle", "fetch", "filter", "deliver"}
  /\ deadline \in Nat /\ (step # "idle" => now <= deadline)
  /\ fetched \subseteq Memories \X (1 .. fetchTime)
  /\ fetchTime \in 0 .. now /\ (step \in {"filter", "deliver"} => fetchTime > 0)
  /\ kept \subseteq fetched /\ (step # "deliver" => kept = {})
  /\ cutoff \in Int
  /\ starts \in 0 .. MaxStarts
  /\ times \in [Memories -> Nat]
  /\ leftOff \subseteq Memories
  /\ seen \in 1 .. now /\ (\A t \in covered : t \in Int /\ t < now)
  /\ missed \in 0 .. worst /\ worst \in Nat

\* What was touched in the window of a run that succeeded, and before it fetched, has
\* been posted as it is now, whatever was saved or deleted while the run was at it, and
\* unless so many memories come before it that the page of a run ended before it.
\* (main, fetch_memories, filter_recent)
WindowTold ==
  \A m \in Stored \ leftOff : stamp[m] \in covered => times[m] > 0

\* The windows of the runs that succeed join, so that everything on the page that was
\* touched before the last of them has been posted, if a window is as long as the worst
\* lapse: one period for every run in a row that failed or did not take place, one more,
\* and what a run takes.  A shorter window loses what falls between two of them; so does
\* one that matches the schedule, as docs/USER_GUIDE.md:536 advises, even if no run ever
\* fails.  (main, entrypoint.sh)
ToldAll ==
  Window >= (worst + 1) * Period + Slack =>
    \A m \in Stored \ leftOff : stamp[m] < seen => times[m] > 0

\* A memory is posted no more often than windows overlap, and once more for every
\* restart of the container, unless it has no timestamp.  (filter_recent)
RepeatsBounded ==
  \A m \in Memories \ Untimed :
    times[m] <= (Window + Slack) \div Period + 1 + starts
=============================================================================
