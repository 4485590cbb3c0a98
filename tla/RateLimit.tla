------------------------------ MODULE RateLimit ------------------------------
(***************************************************************************)
(* The failed-attempt limiter of src/app/ratelimit.py and the middleware   *)
(* that consults it.  Each uvicorn worker keeps, for each rate-limited     *)
(* surface, one RateLimiter: a map from client address to a fixed window   *)
(* (start of the window, failures counted in it).                          *)
(*                                                                         *)
(* The middleware asks the limiter before it awaits the handler and counts *)
(* the failure after it, so the requests admitted in between all fail on   *)
(* top of one another: the hazard this module is about.  Both halves run   *)
(* without an await, hence one action each.                                *)
(*                                                                         *)
(* Time is counted in ticks, TicksPerSecond to a second, because a window  *)
(* may be any real number of seconds while Retry-After is a whole one.     *)
(***************************************************************************)
EXTENDS Integers, FiniteSets

CONSTANTS
  Workers,        \* uvicorn worker processes; they share no limiter state
  Surfaces,       \* the rate-limited surfaces this deployment receives calls on
  Keys,           \* client addresses, as client_ip() reports them
  Slots,          \* callers: each has at most one request outstanding
  MaxFailures,    \* surface -> failures allowed in one window; 0 disables
  WindowTicks,    \* surface -> length of a window in ticks
  MaxTracked,     \* _MAX_TRACKED_KEYS
  TicksPerSecond,
  MaxTime         \* bound: the clock stops here

\* _FAILURE_STATUSES: the response statuses that count, per surface.
FailureStatuses ==
  [rest |-> {401}, mcp |-> {401}, oauth_consent |-> {401}, oauth_token |-> {400, 401}]

\* The statuses a handler answers with, as far as the middleware tells them apart.
Statuses == {200, 400, 401}

ASSUME SurfacesAssumption == Surfaces \subseteq DOMAIN FailureStatuses
ASSUME SlotsAssumption    == IsFiniteSet(Slots)
ASSUME LimitsAssumption   == /\ MaxFailures \in [Surfaces -> Nat]
                             /\ WindowTicks \in [Surfaces -> Nat \ {0}]
                             /\ MaxTracked \in Nat
ASSUME ClockAssumption    == TicksPerSecond \in Nat \ {0} /\ MaxTime \in Nat

VARIABLES
  windows,  \* limiter -> key -> [start, count]: RateLimiter._windows
  req,      \* slot -> its request: idle, inside the handler, or refused with 429
  now       \* time.monotonic(), in ticks

vars == <<windows, req, now>>

-----------------------------------------------------------------------------
(* Limiters and windows.                                                     *)

\* _limiter(surface) is cached once per process.
Limiters   == Workers \X Surfaces
Limit(l)   == MaxFailures[l[2]]
Length(l)  == WindowTicks[l[2]]
Enabled(l) == Limit(l) >= 1

\* No entry for the key.  An entry's count is never 0, so this value is free.
Absent == [start |-> 0, count |-> 0]
Window == [start : Nat, count : Nat]

Over(l, w)    == now - w.start >= Length(l)
Live(l, w)    == w # Absent /\ ~Over(l, w)
Limited(l, k) == Enabled(l) /\ Live(l, windows[l][k]) /\ windows[l][k].count >= Limit(l)

Tracked(ws) == {k \in Keys : ws[k] # Absent}

-----------------------------------------------------------------------------
(* record_failure and _prune, and the ways they could plausibly be wrong.    *)

\* A faulty _prune that makes room by forgetting every window.
PruneAll(l, ws) == [k \in Keys |-> Absent]

Prune(l, ws) == [k \in Keys |-> IF Live(l, ws[k]) THEN ws[k] ELSE Absent]

\* A faulty record_failure that opens a window without counting its failure.
CountedLate(l, w) ==
  IF Live(l, w) THEN [w EXCEPT !.count = @ + 1] ELSE [start |-> now, count |-> 0]

\* A faulty record_failure that restarts the window at each failure.
CountedSliding(l, w) ==
  [start |-> now, count |-> IF Live(l, w) THEN w.count + 1 ELSE 1]

Counted(l, w) ==
  IF Live(l, w) THEN [w EXCEPT !.count = @ + 1] ELSE [start |-> now, count |-> 1]

\* RateLimiter.record_failure: make room, then count against the key's window.
Recorded(l, k) ==
  LET ws == IF Cardinality(Tracked(windows[l])) >= MaxTracked
            THEN Prune(l, windows[l])
            ELSE windows[l]
  IN  [ws EXCEPT ![k] = Counted(l, ws[k])]

-----------------------------------------------------------------------------
(* The middleware.                                                           *)

Idle            == [phase |-> "idle"]
Inside(l, k)    == [phase |-> "inside", lim |-> l, key |-> k]
Refused(l, k, s, u) ==
  [phase |-> "refused", lim |-> l, key |-> k, start |-> s, until |-> u]

\* A faulty Retry-After that truncates instead of rounding up.
FloorSeconds(t) == LET s == t \div TicksPerSecond IN IF s < 1 THEN 1 ELSE s

\* max(1, math.ceil(retry_after)), the value of the Retry-After header.
HeaderSeconds(t) ==
  LET s == (t + TicksPerSecond - 1) \div TicksPerSecond IN IF s < 1 THEN 1 ELSE s

Init ==
  /\ windows = [l \in Limiters |-> [k \in Keys |-> Absent]]
  /\ req = [r \in Slots |-> Idle]
  /\ now = 0

\* A faulty middleware that skips the limiter for a window it has seen start.
AdmitUnchecked(r, l, k) ==
  /\ req[r].phase = "idle"
  /\ windows' = windows
  /\ req' = [req EXCEPT ![r] = Inside(l, k)]
  /\ UNCHANGED now

\* retry_after returned None (dropping a window that is over): the handler runs.
Admit(r, l, k) ==
  /\ req[r].phase = "idle"
  /\ ~Limited(l, k)
  /\ windows' = IF Enabled(l) /\ Over(l, windows[l][k])
                THEN [windows EXCEPT ![l][k] = Absent]
                ELSE windows
  /\ req' = [req EXCEPT ![r] = Inside(l, k)]
  /\ UNCHANGED now

\* retry_after returned the rest of the window: 429, and the caller learns when
\* to come back.
Refuse(r, l, k) ==
  /\ req[r].phase = "idle"
  /\ Limited(l, k)
  /\ LET w == windows[l][k]
         rest == Length(l) - (now - w.start)
     IN  req' = [req EXCEPT ![r] =
                   Refused(l, k, w.start, now + TicksPerSecond * HeaderSeconds(rest))]
  /\ UNCHANGED <<windows, now>>

\* The handler answered; an authentication failure is counted.
Respond(r, status) ==
  /\ req[r].phase = "inside"
  /\ LET l == req[r].lim
         fails == status \in FailureStatuses[l[2]] /\ Enabled(l)
     IN  windows' = IF fails
                    THEN [windows EXCEPT ![l] = Recorded(l, req[r].key)]
                    ELSE windows
  /\ req' = [req EXCEPT ![r] = Idle]
  /\ UNCHANGED now

\* The handler raised, or the caller is gone: nothing is counted.
Raise(r) ==
  /\ req[r].phase = "inside"
  /\ req' = [req EXCEPT ![r] = Idle]
  /\ UNCHANGED <<windows, now>>

\* A refused caller stops waiting, sooner or later than it was told to.
ComeBack(r) ==
  /\ req[r].phase = "refused"
  /\ req' = [req EXCEPT ![r] = Idle]
  /\ UNCHANGED <<windows, now>>

\* A worker is replaced: its limiters and its requests are lost, and what it
\* told the callers it refused is void.
Restart(w) ==
  /\ windows' = [l \in Limiters |-> IF l[1] = w THEN [k \in Keys |-> Absent]
                                               ELSE windows[l]]
  /\ req' = [r \in Slots |-> IF req[r].phase # "idle" /\ req[r].lim[1] = w
                             THEN Idle ELSE req[r]]
  /\ UNCHANGED now

Tick ==
  /\ now < MaxTime
  /\ now' = now + 1
  /\ UNCHANGED <<windows, req>>

Next ==
  \/ \E r \in Slots, l \in Limiters, k \in Keys : Admit(r, l, k) \/ Refuse(r, l, k)
  \/ \E r \in Slots, status \in Statuses : Respond(r, status)
  \/ \E r \in Slots : Raise(r) \/ ComeBack(r)
  \/ \E w \in Workers : Restart(w)
  \/ Tick

Spec == Init /\ [][Next]_vars

-----------------------------------------------------------------------------
(* Correctness.                                                              *)

Requests ==
  {Idle}
  \cup [phase : {"inside"}, lim : Limiters, key : Keys]
  \cup [phase : {"refused"}, lim : Limiters, key : Keys, start : Nat, until : Nat]

\* Every entry is a window that has started and has counted something.
TypeOK ==
  /\ windows \in [Limiters -> [Keys -> Window]]
  /\ \A l \in Limiters, k \in Keys :
       windows[l][k] # Absent => windows[l][k].count >= 1 /\ windows[l][k].start <= now
  /\ req \in [Slots -> Requests]
  /\ now \in Nat

InFlight(l, k) == {r \in Slots : req[r].phase = "inside" /\ req[r].lim = l /\ req[r].key = k}

\* The check and the count are separated by an await, so a burst can fail more
\* often than the limit: but only by the requests that were already inside, and
\* those that may still fail are included here.  (rate_limit_middleware)
OvershootBounded ==
  \A l \in Limiters, k \in Keys :
    Enabled(l) =>
      windows[l][k].count + Cardinality(InFlight(l, k)) <= Limit(l) - 1 + Cardinality(Slots)

\* A caller that waits as long as Retry-After told it is never refused again on
\* account of the failures it was refused for: if its address is limited, it is
\* by a window that began after the one it was shown had ended.
RetryAfterHonest ==
  \A r \in Slots :
    req[r].phase = "refused" /\ now >= req[r].until =>
      LET l == req[r].lim
          k == req[r].key
      IN  Limited(l, k) => windows[l][k].start >= req[r].start + Length(l)

LiveKept ==
  \A l \in Limiters :
    \/ Restart(l[1])
    \/ \A k \in Keys :
         Live(l, windows[l][k]) =>
           /\ windows'[l][k].start = windows[l][k].start
           /\ windows'[l][k].count >= windows[l][k].count

\* A window that is not over is neither forgotten (by pruning for another
\* address, by an admission, by an overflow of the map) nor restarted, and it
\* never loses a failure, as long as its worker lives.
LiveWindowsKept == [][LiveKept]_vars

\* A window that has reached the limit is a lockout that ends with the window; a
\* request in the handler is inside.
LockedUntil ==
  [l \in Limiters |-> [k \in Keys |->
     IF Limited(l, k) THEN windows[l][k].start + Length(l) ELSE 0]]
ServedFor ==
  [r \in Slots |-> IF req[r].phase = "inside" THEN <<req[r].lim, req[r].key>> ELSE <<>>]

Promise == INSTANCE Lockout WITH until <- LockedUntil, inside <- ServedFor

\* The limiter keeps the promise of Lockout: nobody gets in while locked out, the
\* deadline is never moved, and only an address's own failures lock it out.
ImplementsLockout == Promise!Spec
=============================================================================
