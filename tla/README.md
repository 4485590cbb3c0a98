# A verification project for the memory server

This directory models the memory server of this repository in TLA+, checks the
models with TLC and proves theorems about them with TLAPS. Source paths below are
relative to the repository root.

## 1. The system

The server (`app/`) is a FastAPI application run by several uvicorn workers. It
offers one person's memories over REST (`app/rest.py`) and MCP
(`app/mcp_server.py`), guarded by an API key or by access tokens of its own OAuth
server (`app/auth.py`, `app/oauth.py`). Memories are kept by mem0, a library, in a
Qdrant vector store; both are external. Around the server there are import scripts
(`importers/`), a Telegram capture bot (`capture/`), a daily digest (`digest/`) and
a backup script (`backup/`), which talk to it, or to Qdrant, over HTTP.

| Component | State it keeps | Operations | What is hard | What makes it correct |
|---|---|---|---|---|
| Rate limiter `app/ratelimit.py` | per process, surface and address: window start and failure count | check before a request, count after it, prune | an awaited handler between check and count; a full map; fractional windows; worker restarts | bursts overshoot by the requests in flight only; live windows survive; an obedient caller is let in; a lockout has one deadline |
| Authorization server `app/oauth.py`, `app/oauth_store.py` | SQLite tables of clients, codes, refresh tokens | register, consent, exchange, refresh | several processes and threads over one database, several transactions to a request, failure between any two | codes single-use, rotation never forks, tokens go back to a consent, nobody's live code or chain is lost to another request |
| Adding memories `app/memory.py` | the vector store | look up the fingerprint, extract facts with an LLM, store them | seconds of LLM work between look-up and store | dedup never swallows a write, and works for adds that do not overlap |
| Importers `importers/` | position in the records, retries left, tallies | send, retry, count | timeouts that race the answer | what is counted as sent is stored; the import ends |
| Bulk delete `app/memory.py` | the vector store; a call's list of points | list, delete one by one, tell whether there is more | concurrent purges, single requests and adds, failure half way, the cap | a loop that ends has purged; it does end; no call exceeds the cap |
| Listing `app/memory.py`, `app/rest.py` | none; the caller's offset | one page by offset and limit | pages cut by position in a store that changes; expiry after the cut; the bound on the offset | little is missed or repeated, in proportion to what changed |
| Keyword search `app/memory.py` | per process: whether the index exists | create the index once, indexed search, scan fallback | first searches race; transient failures; the fallback's condition | whole words are found; an answer of nothing overlooks nothing a scan would see, unless the scan itself failed |
| Ranking `app/ranking.py` | none | re-rank by recency | ties, missing scores and timestamps, weights out of range; floating point | a permutation of the results; what is better in both respects stays ahead; more weight never favours the older |
| Single-memory endpoints, MCP tools `app/rest.py`, `app/mcp_server.py` | the vector store | get, update, delete | a look-up, then an act on what may be gone by then | what an answer says was true while the request ran |
| Authentication `app/auth.py` | none | verify a bearer | expired access tokens are counted as failures by the limiter before it | an honest client is never locked out by the expiry of its tokens |
| Application shell `app/main.py` and others | none | start-up warm-up, logging, error mapping | a warm-up that outlives its timeout | a worker always starts |
| Capture bot `capture/capture.py` | the Telegram offset | poll, post, answer | at-least-once delivery, failure after the offset has moved | no message is lost silently, "Saved" is true, one message never blocks the next |
| Digest `digest/digest.py` | none | fetch a page, filter, summarise, deliver | a page in the order of ids, not of time; runs that share no state; a window that ends after the fetch | what is on the page of a run and in its window is told; windows that outlast the lapses between runs leave nothing out; repeats are bounded |
| Backup `backup/backup.sh` | snapshots on the server, locally, in S3 | snapshot, download, upload, delete, rotate, prune | stops at the first error, at any step; runs that overlap; restarts | no snapshot is lost before it is uploaded, the latest upload is never pruned, a completed run makes up for failed ones |

Interactions: the middleware of the rate limiter runs around every request; the OAuth
endpoints share tables only with each other; adds, bulk deletes, listings and
single-memory endpoints share the vector store and nothing else (no lock, no
transaction); the bearer check runs behind the limiter, which counts what it refuses; the importers, the capture bot and the digest are HTTP clients.

## 2. The plan

In order of importance; all of it is done but the last item.

1. `RateLimit`, its abstract specification `Lockout`, proofs.
2. `OAuth`, proofs.
3. `AddMemory`, composed with its callers in `Importer`, proofs.
4. `BulkDelete`, composed with single updates and deletions in `Memories`, proofs.
5. `Listing`, proofs.
6. The disagreements met on the way, each as a run of its own or as a bound that holds.
7. `KeywordSearch`: the cached outcome of creating the index, the index and scan
   paths, next to writes; proofs. `Ranking`, proofs.
8. `Capture`: offsets, redelivery, failure of the post and of the answer, over
   `AddMemory`; proofs.
9. `Digest`: successive runs over a store that changes; proofs.
10. `Gate`: the bearer check behind the limiter; proofs.
11. `Backup` with failures between its steps, proofs.
12. Still to come: deletion next to adds with dedup; the start-up of the application.

## 3. The modules

Every module has a header that says what it stands for; every definition that models
code is listed with its lines in `PROJECT.json`. Definitions introduced as *faulty*
are not part of any specification: each is a plausible bug in the definition that
follows, used to confirm that a property can fail.

**`RateLimit`** - `windows` is `RateLimiter._windows` of every limiter (one per worker
and surface, `_limiter` being cached per process), `req` the requests inside the
middleware, `now` the monotonic clock in ticks. `Admit` and `Refuse` are the code up
to the `await` (`retry_after`, which drops a window that is over), `Respond` the code
after it (`record_failure` with `_prune`), `Raise` a handler that raises, `Restart` a
worker that is replaced. The two halves contain no `await` and the class takes a lock,
so each is one step. A second is several ticks, because windows are floating-point
numbers of seconds and `Retry-After` is rounded up to a whole one.

**`Lockout`** - what the limiter promises without windows and counts: a deadline per
address. `RateLimit!Promise` instantiates it with the mapping "the end of a window
that has reached the limit".

**`OAuth`** - `clients`, `codes`, `tokens` are the SQLite tables, `req` the requests and
how far they have got. Each `with _conn()` block is one action. The exception is
`consume_code`: Python's `sqlite3` begins a transaction at the first statement that
writes, so its `SELECT` runs outside the transaction of its `DELETE` and they are two
actions, `ReadCode` and `DeleteCode`. `consume_refresh_token` is a single
`DELETE ... RETURNING`, hence `TakeToken`. `consent`, `redeemed` and `origin` are
history variables: no action reads them in a guard except to draw codes and tokens
that were never drawn before (they are 32 random bytes in the code).

**`AddMemory`** - `store` is the vector store; a request goes from the look-up (`Check`,
or `CheckFails` when the store answers with an error) to `Extract` (the LLM call) and one
`Insert` for each fact. `Break` is any failure on the way, a killed worker included.
Contents are abstract values; `FingerprintOf` is `content_fingerprint`, which gives the
same value to contents that differ in case and spacing only. The scope of `user_id` is
one user. What mem0 does with a content is external: it stores some number of facts,
with the metadata it was given, not necessarily all at once.

**`Importer`** - extends `AddMemory` with its callers: `Send`, `Receive` and `TimeOut` are
`MemoryClient._post` (and `ReceiveUnreadable`, for an answer that is not JSON), `NextRecord` and the
two tallies are `run`. A caller with one
attempt is any client that does not retry. A timeout leaves the request behind, and the
server goes on with it.

**`BulkDelete`** - the calls of several callers that loop on `has_more`: `List`, one
deletion after the other, and the answer, with adds next to them. `Memories` are the
memories that match the filter. The order of the list is not modelled: a call picks any
memories up to the cap.

**`Memories`** - extends `BulkDelete` with `PUT` and `DELETE` of a single memory and the two
MCP tools of the same effect. `Look` is `_get_or_404` (and the look-up of the tools),
`Update`, `DeleteStored` and `ActOnNothing` what mem0 then does, to a memory that is
there or to one that has gone in between, and `Break` any failure. `held` is history: whether
a request's memory was stored, at some moment of it. `GET` is the look-up alone.

**`Listing`** - one caller that pages through the store while it changes. Ids are numbers
and the store lists by id; a new memory may get any id that was not used. `given` is what the
caller has seen, `twice` what it has seen twice; `FreshPage` is a page after `drop_expired`.

**`KeywordSearch`** - `index` is `_keyword_index_state` of every worker, a search goes from
`Begin` over `Ensure` and `Create` (`_ensure_keyword_index`, where the lock is held while
the index is created, so `Locked` is "a search of this worker is creating it") to `Query`
(the indexed query and its verification, which touch nothing in between but the answer
of one call) and `Scan`. `QueryFails` and `ScanFails` are the two `except` clauses; after the second the
caller is answered 200 with no results (`FailOpen`), as it is when there are no matches. A scan, and
the indexed query, look at the first `ScanLimit` memories only, in the order of ids, so what can be promised
is about memories that this reaches whatever is written meanwhile (`InReach`). One
query is followed, and of a text only its relation to it is kept: "whole" (the
query is there as words), "inside" (only inside longer words), "apart" (its words are
there, not together), "other". `steady` and `ever` are history: what was stored all
through a search, and at some moment of it.

**`Capture`** - extends `AddMemory` with the bot and with Telegram, which keeps `pending`
updates until a poll names a later `offset`. `Poll`, `PollFails`, `Take` and `Restart` are
`run`; `Verdict` is `process_update` up to its first call, which decides whether the
update is ignored, replied to or posted; `PostMemory`, `PostAnswered`, `PostFails`, `Reply`
and `ReplyFails` are its calls, with what becomes of them. A poll whose answer is lost
has told Telegram the offset. A post that fails may have reached the server, which goes on:
a sender told "Couldn't save that" may have the note stored all the same (a post that
takes longer than the client's five seconds), so only "Saved" can be relied on.

**`Digest`** - `main` as the steps `Start` (cron), `Fetch`, `Filter`, `Deliver`; a run takes
time, up to `Slack` moments, and anything may be written between its steps. `Page` is the first
page of the listing, by id; expired memories are on it like any others, because the run does not ask for
`exclude_expired` (and the server would drop them after the page is cut), so they keep their
places and are posted. `Recent` is
`filter_recent`, whose window ends at the clock of the filter. A failure ends the
run (`Fail`; `DeliverUnanswered` when only the answer of the webhook is lost), and a summary that fails
falls back to the list, which says the same, so both are `Deliver`. Without `DIGEST_WEBHOOK_URL`
a digest goes to the container's log, and `Deliver` cannot fail. History, which no guard reads: `covered`,
the moments told by some successful run (from the start of its window to its fetch); `seen`, the
fetch of the last of them; `missed`, how many runs in a row failed or did not take place since then, and
`worst`, the most there ever were; `leftOff`, the memories that a page did not reach
(`Beyond`, stated apart from `Page`), until they are saved again.

**`Gate`** - extends `RateLimit` with what its requests carry. `Enter` is the middleware,
`Verify` is `require_bearer` or `CompositeVerifier.verify_token`, `AnswerCall` the 200 or 401 the
middleware then sees, `Issue` the token endpoint. The honest client makes `Honest` calls at
once, learns from a 401 that its token is refused, renews it and goes on. Others have the
key or nothing of use, and call from other addresses: a lockout is by address, so whoever shares the
client's address can lock it out. The 401 that a client without any token gets
first is part of the model (`access` is 0): it is how MCP clients discover OAuth.

**`Ranking`** - `rerank_by_recency` as operators over a list of scores and ages; no state.
The recency of an age is any decreasing function (`Decay`), scores are integers, and blended
scores are compared multiplied by a common factor.

**`Backup`** - a run is named by its night and goes through the steps of the script; each may
fail, before or (`Snapshot`, `Download`, `Upload`, `DeleteSnapshot`) after its effect. Nothing keeps
two runs apart, so they overlap. `cutoff` and `doomed` are the `CUTOFF` of a run and the
keys it listed and has not removed. Local files are lost with the container.

**`MC*`** modules give the constants of the instances. **`*Proofs`** modules hold the
theorems: `RateLimitProofs` those of `RateLimit` and `Gate`, `OAuthProofs`, `AddMemoryProofs` those of
`AddMemory` and `Importer`, `MemoriesProofs` those of `BulkDelete` and `Memories`, `SearchProofs` those of
`KeywordSearch` and `Ranking`, `CaptureProofs`, `BackupProofs`, and `DigestProofs` those of
`Listing` and `Digest`.

## 4. What is model-checked

| Run | Shows | Bounds |
|---|---|---|
| `rate_limit` | `OvershootBounded`, `RetryAfterHonest`, `LiveWindowsKept`, `ImplementsLockout` | one worker, two surfaces (limits 2 and 1, windows of 1.5 s and 0.5 s), two addresses, two callers, a map that is full with one address, five ticks |
| `oauth` | `CodeReuseBounded`, `ChainIsSingle`, `TokensAsConsented`, `LiveCodesKept`, `ChainsEndForAReason` | two clients, two URIs of which one is allowed, two codes, three tokens, two threads, two moments of time |
| `oauth_single_use` | *violated*: `CodeSingleUse` | one client, one code, two threads |
| `importer` | `AnsweredIsStored`, `ExtractedTwiceOnlyWhenOverlapping`, `SentIsStored`, `EveryImportEnds` | an import with one record and two attempts, an agent with two records, of which one equals the import's up to case and the other goes without dedup; up to two facts from the import's content, one from the others |
| `memories` | `DonePurged`, `AnswersTrue`, `LoopEnds` | three memories, cap one, two callers that purge, one refused deletion, an update and a deletion of the same memory |
| `listing` | `EnumerationBounded` | five memories, pages of two, greatest offset two |
| `keyword_search` | `WholeWordsFound`, `NothingMeansNothing`, `EverySearchEnds` | three memories, the first without the query to begin with and the others with any texts, the first two of the same age, one worker, two searches, one result, a scan of two, one write and any deletions |
| `keyword_recall` | *violated*: `RecallNeverWorse` | the same with two memories and room for two results |
| `capture` | `SavedIsStored`, `NoneLostSilently`, `PostedOncePerRun`, `EveryMessageDropped` | four messages (help, a note, a picture, a note from another chat), batches of two, one restart |
| `digest` | `WindowTold`, `ToldAll`, `RepeatsBounded` | two memories, one to a page, one without a timestamp; a run every two moments, a window of five, a run takes at most one; a webhook; one restart; ten moments |
| `gate` | `HonestNeverLocked` | two calls of the client at once and one other caller, a limit of four, windows and tokens of two ticks, a map that is full with one address, six ticks, one worker that restarts |
| `backup` | `Restorable`, `CatchesUp` | four nights, three days of retention, runs of up to three days |

Every run also checks the type invariant of its module.

Why these bounds. A race in this code needs two actors, so there are two callers or
threads everywhere (and, for adds, three requests of the same fingerprint that may
overlap). The limiter needs one window to end and another to begin while a request is
inside and the map is full; five ticks and a window of three allow that. A lifetime of 0
ticks in `oauth` makes a row live in the tick of its issue and expired in the next, so
two moments suffice for expiry between any two steps; three tokens are an exchange
with two rotations, or two exchanges with one. In `memories` a call meets the
cap with none, one and two memories left over, and the memory of the two single requests can be
deleted by any of four between their look-ups and their acts. In `listing` an enumeration takes one to three pages.
In `keyword_search` two searches race for the index, one result makes
the cut by recency matter, a memory can be written or deleted between any two steps, and a scan of two of three
memories puts the last one out of reach while the others are stored, and within reach while one of them is not. A worker's
index state is its own, so one worker is enough. In `capture` a batch can be
cut by a restart after its first message, and a note can be posted before and after it.
In `gate` the
limit is the least that leaves room for two failures of each call, and tokens live just as long
as a window; three tokens expire. With a limit of three, or tokens that live for one tick, the client is
locked out, so both assumptions of `RoomAssumption` are needed. With the default limit of 10 they hold for up
to five calls at once. In `backup` the last night's run can prune the uploads of the first
three, and all four runs can overlap.
In `digest` up to five scheduled runs and one after a restart take place, and a memory can be touched
between any two steps of a run. The window is just long enough to make up for one run that
fails or is missed, `(1 + 1) * 2 + 1` moments; two in a row make the premise of `ToldAll` false, and
`WindowTold` still speaks of what the remaining runs tell. With one memory to a page the other
one is beyond it while the first is stored.

`rate_limit`, `oauth` and `gate` use symmetry over addresses, callers, clients, codes, tokens;
none of their properties is a liveness property. Runs other than `rate_limit` and `gate`
switch the deadlock check off, because their systems come to rest: imports,
loops and enumerations end, nights are over, and the codes, tokens and moments of the `oauth` instance
run out.

**Fairness.** Only liveness properties use any. `Importer` assumes that a caller's loop
goes on and that an outstanding call returns, with an answer or a timeout
(`httpx.post` is given a timeout); nothing is assumed of the server. `Memories`
assumes that a call that has been posted runs and that the caller posts again; it is
weak fairness of a caller's steps, refused deletions are bounded by `MaxFailures`, and
adds by the memories there are. If a deletion could fail for ever the loop would not
end. `KeywordSearch` assumes that every call to the store returns and that a thread
waiting for a lock that is free gets it (weak fairness of each search's steps; writes are
bounded by `MaxTime`, but resets and replacements of the worker are not). `Capture` assumes that
the bot's loop goes on and its calls return (weak fairness of `Take` and of `Process`;
httpx has timeouts), and that of the polls, which are repeated for ever, some succeed
(strong fairness of `Poll`, as failing polls and restarts interrupt it). Nothing is assumed of
posts and replies: they may all fail, and messages are dealt with all the same.

## 5. What is proved

For every value of the constants that satisfies the named assumptions:

* **`RateLimitProofs`**, about `RateLimit` - `TypeCorrect`; `Overshoot`: the invariant is
  inductive once it is kept for the count and the set of requests inside together, because a
  request is admitted only below the limit and moves from the set into the count;
  `LiveWindows`, action by action; `KeepsPromise`: every action implements a step of `Lockout` or none;
  `HonestRetryAfter`: rounding up to seconds never falls short (`HeaderCovers`), and the window a
  refused caller was shown is still its address's until it ends, after which any other
  one began no earlier (`Shown`).
* **`RateLimitProofs`**, about `Gate` - `GateTypeCorrect`; `DrivesLimiter`: every step is one of the
  limiter's or none, so all of the above holds behind the bearer check; `NeverLocked`. The
  property is far from inductive. Its invariant bounds a potential: the failures counted in a live
  window, the calls under way with a token that was replaced (`Stale`: each fails once more), and the
  calls that can still fail with the current token before the window ends (`MayFail`: none, if the token
  outlives the window) are at most `2 * |Honest| - 1` together (`RoomInv`). A failure
  moves a call from one of these sets into the count; a new token makes calls stale, but it is issued only
  after one call has learnt that the old one was refused, so not all of them, and
  it outlives the window.
* **`OAuthProofs`** - `TypeCorrect`; `Consented` (the row a request carries is the consent,
  codes are drawn once); `SingleChain` (the chain is in one table row or in one request, and
  each rotation hands it on); `ReuseBounded` (as `Overshoot`: requests that may still
  redeem are counted with the redemptions); the action properties `LiveCodes` (what a cleaning up
  deletes has expired) and `ChainsLast` (where a chain is alive before a step it is alive after it, in the
  same place or in the one the step hands it to, `StaysAlive`).
* **`AddMemoryProofs`**, about the server alone, whoever calls it - `AddTypeCorrect`;
  `AnsweredStored`, strengthened by what an add in progress has stored so far;
  `ExtractedTwiceRarely`, strengthened by "facts carry the fingerprint of their content"
  and "before its look-up a request has extracted nothing".
* **`AddMemoryProofs`**, about `Importer` - `ImportTypeCorrect`; `ImportDrivesAddMemory`: callers and
  server together implement the specification of the server alone, so `Answered` and `ExtractedOnce`
  follow from the theorems above; `SentStored` from the stability of an answer (`KeptIsStable`).
* **`CaptureProofs`** - `TypeCorrect` and `PostedOnce` from one invariant: an update at or past
  the offset has not been posted in this run, and those of the batch are such;
  `DrivesAddMemory`, as for the importers; `SavedStored` from it; `NoneLost`: the offset
  has moved only past messages that were dealt with or are in hand, because messages
  come in order and a batch is the first of what Telegram has.
* **`SearchProofs`** - about `KeywordSearch`, `TypeCorrect`; `Settled`: the index is created by one search of
  a worker at a time, and only while its state is unknown; `WholeWords` and
  `Nothing`: what an answer leaves out gives way to newer results, an argument about the
  ranks of memories under recency (`LeftOutForNewer`), carried along with the fact that
  the untouched memories of a search keep their texts and the others only get newer. Both speak of memories within
  the reach of a scan, in a store of any size: what comes before such a memory is not enough to fill a
  scan (`FirstReaches`). `Nothing` makes one exception, the search whose scan has failed.
* **`SearchProofs`**, about `Ranking`, for lists of any length - `Permutes`: the result is the
  list in another order, because places are distinct numbers from one to the length (`Place` counts
  what is ahead under a total order); `BetterStaysAhead`: a result with no lower score and no less
  recency, that comes no later in the list, stays ahead; `MoreWeightFavoursRecent`:
  when a more recent result is ahead of another, a greater weight leaves it ahead.
* **`MemoriesProofs`** - about `BulkDelete` alone, `TypeCorrect`, `Bounded` and `Purged` from one
  invariant: what a call has still to do contains all that it listed and that is still stored,
  unless the list was cut. `DrivesPurges`: with single updates and deletions next to it, every step
  is one of `BulkDelete` or leaves it alone, so `PurgedAnyway` follows. `AnsweredTrue`, strengthened
  by "a request about to act has seen its memory stored" and "what is gone is never born again".
* **`DigestProofs`**, about `Listing` - `ListTypeCorrect`; `Enumerated`. The offset is a rank, and a
  change of the store moves the ranks behind it by one, so it carries at most one memory across the
  boundary between what was and what is still to be listed. The invariant therefore bounds, from the first page
  on, what lies on the wrong side of the boundary: `Missed` (stable, not given, ranked before the
  offset) by the deletions, `GivenMore` (given twice, or given and ranked behind it) by the
  additions. A page moves the boundary past exactly what it holds.
* **`DigestProofs`**, about `Digest` - `DigestTypeCorrect`; `ToldInWindow`: what a run has fetched and kept
  is all on its page that was touched before its fetch and since its cutoff, whatever is written
  meanwhile (`FetchedInv`); `Told`: the last successful run fetched no more than one period, and one more
  for each run that failed or was missed since, before the next is due (`SeenInv`), and cron and runs are
  late by `Slack` at most (`ClockInv`), so a window that outlasts the worst lapse reaches back to
  the last fetch (`WideInv`) and the windows told join (`JoinInv`);
  `RepeatsFew`: posts of a memory since its last touch are a period apart (`PostedBy`) and,
  since the last of them still found it in its window, fit in a window (`PostedIn`), but for one for every restart. A run
  is cron's or the container's own, and the invariant (`RepeatInv`) keeps both possibilities until it posts.
* **`BackupProofs`** - `TypeCorrect`, `NeverLost`, `CaughtUp` from one invariant on each run
  (`RunInv`): what it has taken is on the server until it has uploaded, it prunes only after its
  own upload, its cutoff is not past its own night, and what is in the bucket from before the cutoff is among
  what it has still to remove.

The assumptions are on the constants only: finite sets of slots and memories, natural
numbers for limits and times, positive window lengths and caps, typed scripts. One of them is about
the code's surroundings: `Backup` assumes that a run takes no longer than `RETENTION_DAYS`, which nothing in
the script enforces. A run that takes longer prunes its own upload, and the latest
backup with it (TLC shows so when `MaxRunDays` exceeds `RETENTION_DAYS`).

`Gate` assumes (`RoomAssumption`) that a token lives at least as long as a window and that the limit has
room for two failures of each of the client's calls; the theorems about `RateLimit` do
not depend on it. The bounds of the runs (`MaxTime`, `MaxStarts` and so on) are any
numbers in the theorems.

Every invariant and every action property of a passing run, and the refinement of `Lockout`, is
a theorem. Only model-checked are the liveness properties `EveryImportEnds`, `LoopEnds`,
`EverySearchEnds` and `EveryMessageDropped`: they are about fairness, which the proofs leave to TLC. The modules use
no recursion over data: counts are cardinalities of sets, and lists are sets with an order.

## 6. Disagreements between code and documentation

1. **A code can be redeemed twice** (`oauth_single_use`). `consume_code` reads, deletes
   and does not look at how many rows it deleted (`app/oauth_store.py:89-95`), so two
   exchanges that overlap both succeed, against its docstring and `docs/PRD.md:587`.
   `CodeReuseBounded` says what does hold; a `DELETE ... RETURNING`, as for refresh
   tokens, would give single use.
2. **The index changes what a keyword search finds** (`keyword_recall`). When a memory with
   the query as whole words is found, no scan runs, and memories with the query inside a
   word are left out (`app/memory.py:333-335`), against the docstring (lines 309-312) and
   `docs/USER_GUIDE.md:1085-1087`. `WholeWordsFound` and `NothingMeansNothing` say what
   does hold, within what a scan looks at; a scan that fails is answered with nothing, as the docstring says (line 315).

Some more statements of the documentation hold only within bounds, and the runs state the
bounds rather than the violations. `docs/USER_GUIDE.md:69-70` calls retries idempotent: the fingerprint is stored
with the extracted facts, after the LLM call, so they are when the first attempt has
finished (`ExtractedTwiceOnlyWhenOverlapping`), and a retry after the client's own timeout may store a content
twice. `docs/USER_GUIDE.md:1098-1100` says the full store can be enumerated: `offset` is bounded by
10000 (`app/rest.py:193`), `has_more` is not, so an enumeration ends there (`EnumerationBounded`
speaks of the enumerations that need no greater offset). `docs/USER_GUIDE.md:544` and the docstring of `digest/digest.py`
say that a run fetches recent memories: it fetches the first page by id, and in a store larger than a
page the recent ones behind it are never posted, while old and expired ones take up its places (`WindowTold` and `ToldAll` except
what is in `leftOff`). `docs/USER_GUIDE.md:536` advises to match the window to the schedule: what is touched
between the fetch of a run and the start of the next one's window is then lost, and so is a window of
every run that fails (`ToldAll` asks for `(worst + 1) * Period + Slack`).

## 7. What is not modelled

* mem0, Qdrant, the LLM providers, Telegram and S3: external, modelled by what the code
  expects of them. mem0 may merge or drop facts; it is assumed not to delete a
  memory on its own when another is added.
* Deletion next to adds with dedup: `AddMemory` has no deletions, so its properties speak of
  memories nobody deleted. In `Memories`, adds are of memories and have no fingerprints.
* An update of mem0's is taken as atomic: it reads the memory and writes it back, and a deletion
  in between would bring the memory back. That is mem0's code and not in this repository.
* Floating-point rounding in `Ranking`, which may swap results whose blended scores are equal.
* The start-up of the application (`app/main.py`): the warm-up, a search in a thread that is left behind after
  its timeout, shares with the requests only the mem0 client, which is external, and its outcome is
  logged and ignored. Request logging, error mapping, health, metrics and settings keep no state.
* Signatures and the encoding of access tokens: a token is its expiry.
* The parsers of the importers (pure functions from files to records), formatting, logging.
* Telegram's limit on how long it keeps updates (a day): a bot that is down for longer
  loses what it was sent.
* In the backup, snapshots that failed runs leave on the server for good, where only disk space
  would tell; sizes; the restore drill.
