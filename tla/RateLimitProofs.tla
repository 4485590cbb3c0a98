--------------------------- MODULE RateLimitProofs ---------------------------
(* What is proved about RateLimit, and about Gate, for every number of        *)
(* workers, surfaces, addresses and callers, every limit and every window.    *)
EXTENDS Gate, FiniteSetTheorems, TLAPS

-----------------------------------------------------------------------------
(* The operators on windows.                                                  *)

\* Limits and window lengths are numbers, and windows have a length.
LEMMA LimiterParameters ==
  ASSUME NEW l \in Limiters
  PROVE  /\ l[1] \in Workers
         /\ l[2] \in Surfaces
         /\ Limit(l) \in Nat
         /\ Length(l) \in Nat \ {0}
BY LimitsAssumption DEF Limiters, Limit, Length

\* record_failure changes the key's own entry by Counted, whether or not the map
\* was pruned first, and drops at most entries whose window is over.
LEMMA RecordedEntries ==
  ASSUME TypeOK, NEW l \in Limiters, NEW k \in Keys
  PROVE  /\ Recorded(l, k) \in [Keys -> Window]
         /\ Recorded(l, k)[k] = Counted(l, windows[l][k])
         /\ \A j \in Keys \ {k} :
              \/ Recorded(l, k)[j] = windows[l][j]
              \/ Recorded(l, k)[j] = Absent /\ ~Live(l, windows[l][j])
<1> DEFINE ws == IF Cardinality(Tracked(windows[l])) >= MaxTracked
                 THEN Prune(l, windows[l]) ELSE windows[l]
<1>1. windows[l] \in [Keys -> Window] /\ now \in Nat
  BY DEF TypeOK
<1>2. Absent \in Window
  BY DEF Absent, Window
<1>3. Prune(l, windows[l]) \in [Keys -> Window]
  BY <1>1, <1>2 DEF Prune
<1>4. ws \in [Keys -> Window]
  BY <1>1, <1>3
<1>5. \A j \in Keys : ws[j] = windows[l][j]
                      \/ (ws[j] = Absent /\ ~Live(l, windows[l][j]))
  BY DEF Prune
<1>6. Counted(l, ws[k]) = Counted(l, windows[l][k])
  BY <1>5 DEF Counted, Live
<1>7. Counted(l, ws[k]) \in Window
  BY <1>1, <1>4 DEF Counted, Window
<1>8. Recorded(l, k) = [ws EXCEPT ![k] = Counted(l, ws[k])]
  BY DEF Recorded
<1> QED
  BY <1>4, <1>5, <1>6, <1>7, <1>8

\* Counting a failure leaves a window that has started and is not empty.
LEMMA CountedWindow ==
  ASSUME TypeOK, NEW l \in Limiters, NEW k \in Keys
  PROVE  /\ Counted(l, windows[l][k]) \in Window
         /\ Counted(l, windows[l][k]).count >= 1
         /\ Counted(l, windows[l][k]).start <= now
<1>1. windows[l][k] \in Window /\ now \in Nat
  BY DEF TypeOK
<1>2. CASE Live(l, windows[l][k])
  <2>1. windows[l][k].count >= 1 /\ windows[l][k].start <= now
    BY <1>2 DEF Live, TypeOK
  <2> QED
    BY <1>1, <1>2, <2>1 DEF Counted, Window
<1>3. CASE ~Live(l, windows[l][k])
  BY <1>1, <1>3 DEF Counted, Window
<1> QED
  BY <1>2, <1>3

-----------------------------------------------------------------------------
(* Type correctness.                                                          *)

\* A header's number of seconds is a number.
LEMMA HeaderSecondsType ==
  ASSUME NEW t \in Nat
  PROVE  HeaderSeconds(t) \in Nat
BY ClockAssumption DEF HeaderSeconds

\* Every step keeps the types.
LEMMA TypeStep == ASSUME TypeOK, [Next]_vars PROVE TypeOK'
<1> USE DEF TypeOK
<1>1. ASSUME NEW r \in Slots, NEW l \in Limiters, NEW k \in Keys, Admit(r, l, k)
      PROVE  TypeOK'
  <2>1. req' \in [Slots -> Requests]
    BY <1>1 DEF Admit, Inside, Requests
  <2>2. Absent \in Window
    BY DEF Absent, Window
  <2> QED
    BY <1>1, <2>1, <2>2 DEF Admit
<1>2. ASSUME NEW r \in Slots, NEW l \in Limiters, NEW k \in Keys, Refuse(r, l, k)
      PROVE  TypeOK'
  <2> DEFINE w == windows[l][k]
             rest == Length(l) - (now - w.start)
  <2>1. w \in Window /\ w.start <= now /\ now - w.start < Length(l)
    BY <1>2, LimiterParameters DEF Refuse, Limited, Live, Over, Window
  <2>2. w.start \in Nat /\ rest \in Nat
    BY <2>1, LimiterParameters DEF Window
  <2>3. now + TicksPerSecond * HeaderSeconds(rest) \in Nat
    <3>1. HeaderSeconds(rest) \in Nat
      BY <2>2, HeaderSecondsType
    <3> HIDE DEF rest
    <3> QED
      BY <3>1, ClockAssumption
  <2>4. Refused(l, k, w.start, now + TicksPerSecond * HeaderSeconds(rest)) \in Requests
    BY <2>2, <2>3 DEF Refused, Requests
  <2> QED
    BY <1>2, <2>4 DEF Refuse
<1>3. ASSUME NEW r \in Slots, NEW status \in Statuses, Respond(r, status)
      PROVE  TypeOK'
  <2> DEFINE l == req[r].lim
             k == req[r].key
  <2>1. l \in Limiters /\ k \in Keys
    BY <1>3 DEF Respond, Requests, Idle
  <2>2. req' \in [Slots -> Requests]
    BY <1>3 DEF Respond, Requests
  <2>3. CASE windows' = windows
    BY <1>3, <2>2, <2>3 DEF Respond
  <2>4. CASE windows' = [windows EXCEPT ![l] = Recorded(l, k)]
    <3>1. windows' \in [Limiters -> [Keys -> Window]]
      BY <2>1, <2>4, RecordedEntries
    <3>2. \A m \in Limiters, j \in Keys :
            windows'[m][j] # Absent => windows'[m][j].count >= 1 /\ windows'[m][j].start <= now
      <4> SUFFICES ASSUME NEW m \in Limiters, NEW j \in Keys, windows'[m][j] # Absent
                   PROVE  windows'[m][j].count >= 1 /\ windows'[m][j].start <= now
        OBVIOUS
      <4>1. CASE m = l /\ j = k
        BY <2>1, <2>4, <4>1, RecordedEntries, CountedWindow
      <4>2. CASE m = l /\ j # k
        <5>1. windows'[m][j] = Recorded(l, k)[j]
          BY <2>1, <2>4, <4>2
        <5>2. windows'[m][j] = windows[m][j]
          BY <2>1, <4>2, <5>1, RecordedEntries
        <5> QED
          BY <5>2
      <4>3. CASE m # l
        BY <2>4, <4>3
      <4> QED
        BY <4>1, <4>2, <4>3
    <3> QED
      BY <1>3, <2>2, <3>1, <3>2 DEF Respond
  <2> QED
    BY <1>3, <2>3, <2>4 DEF Respond
<1>4. ASSUME NEW r \in Slots, Raise(r) \/ ComeBack(r)
      PROVE  TypeOK'
  BY <1>4 DEF Raise, ComeBack, Requests
<1>5. ASSUME NEW w \in Workers, Restart(w)
      PROVE  TypeOK'
  <2>1. Absent \in Window
    BY DEF Absent, Window
  <2>2. req' \in [Slots -> Requests]
    BY <1>5 DEF Restart, Requests
  <2> QED
    BY <1>5, <2>1, <2>2 DEF Restart
<1>6. CASE Tick
  <2>1. now' \in Nat /\ now <= now'
    BY <1>6 DEF Tick
  <2>2. windows' = windows /\ req' = req
    BY <1>6 DEF Tick
  <2> QED
    BY <2>1, <2>2 DEF Window
<1>7. CASE UNCHANGED vars
  BY <1>7 DEF vars
<1> QED
  BY <1>1, <1>2, <1>3, <1>4, <1>5, <1>6, <1>7 DEF Next

\* TypeOK holds of every behaviour of the limiter: in particular no entry is
\* stored empty or with a start in the future.
THEOREM TypeCorrect == Spec => []TypeOK
<1>1. Init => TypeOK
  BY DEF Init, TypeOK, Absent, Window, Requests, Idle
<1> QED
  BY <1>1, TypeStep, PTL DEF Spec

-----------------------------------------------------------------------------
(* How far a burst can overshoot the limit.                                   *)

\* The requests inside are callers, so there are no more of them than callers.
LEMMA InFlightFinite ==
  ASSUME NEW l, NEW k
  PROVE  /\ IsFiniteSet(Slots) /\ Cardinality(Slots) \in Nat
         /\ IsFiniteSet(InFlight(l, k)) /\ Cardinality(InFlight(l, k)) \in Nat
         /\ Cardinality(InFlight(l, k)) <= Cardinality(Slots)
<1>1. IsFiniteSet(Slots)
  BY SlotsAssumption
<1>2. InFlight(l, k) \subseteq Slots
  BY DEF InFlight
<1> QED
  BY <1>1, <1>2, FS_Subset, FS_CardinalityType

\* The same of the requests inside after a step.
LEMMA InFlightFiniteNext ==
  ASSUME NEW l, NEW k
  PROVE  /\ IsFiniteSet(InFlight(l, k)') /\ Cardinality(InFlight(l, k)') \in Nat
         /\ Cardinality(InFlight(l, k)') <= Cardinality(Slots)
<1>1. InFlight(l, k)' \subseteq Slots
  BY DEF InFlight
<1> QED
  BY <1>1, SlotsAssumption, FS_Subset, FS_CardinalityType

\* The bound for one address on one surface.
Bounded(l, k) ==
  Enabled(l) =>
    windows[l][k].count + Cardinality(InFlight(l, k)) <= Limit(l) - 1 + Cardinality(Slots)

\* A step after which no more requests are inside and no more failures are
\* counted keeps the bound.
LEMMA FewerKeepsBound ==
  ASSUME TypeOK, TypeOK', NEW l \in Limiters, NEW k \in Keys, Bounded(l, k),
         InFlight(l, k)' \subseteq InFlight(l, k),
         windows'[l][k].count <= windows[l][k].count
  PROVE  Bounded(l, k)'
<1>1. Cardinality(InFlight(l, k)') <= Cardinality(InFlight(l, k))
  BY InFlightFinite, FS_Subset
<1>2. windows[l][k].count \in Nat /\ windows'[l][k].count \in Nat
  BY DEF TypeOK, Window
<1>3. /\ Cardinality(InFlight(l, k)) \in Nat /\ Cardinality(InFlight(l, k)') \in Nat
      /\ Cardinality(Slots) \in Nat /\ Limit(l) \in Nat
  BY InFlightFinite, InFlightFiniteNext, LimiterParameters
<1> QED
  BY <1>1, <1>2, <1>3 DEF Bounded, Enabled, Limit

\* Whatever the interleaving, an address is counted at most one failure short of
\* the limit plus one for each request that can be in flight at a time.
THEOREM Overshoot == Spec => []OvershootBounded
<1>1. Init => OvershootBounded
  <2> SUFFICES ASSUME Init, NEW l \in Limiters, NEW k \in Keys, Enabled(l)
               PROVE  windows[l][k].count + Cardinality(InFlight(l, k))
                        <= Limit(l) - 1 + Cardinality(Slots)
    BY DEF OvershootBounded
  <2>1. windows[l][k].count = 0
    BY DEF Init, Absent
  <2>2. /\ Cardinality(InFlight(l, k)) \in Nat /\ Cardinality(Slots) \in Nat
        /\ Cardinality(InFlight(l, k)) <= Cardinality(Slots)
    BY InFlightFinite
  <2> QED
    BY <2>1, <2>2, LimiterParameters DEF Enabled
<1>2. TypeOK /\ TypeOK' /\ OvershootBounded /\ [Next]_vars => OvershootBounded'
  <2> SUFFICES ASSUME TypeOK, TypeOK', OvershootBounded, [Next]_vars,
                      NEW m \in Limiters, NEW j \in Keys
               PROVE  Bounded(m, j)'
    BY DEF OvershootBounded, Bounded, Enabled, Limit
  <2>0. Bounded(m, j)
    BY DEF OvershootBounded, Bounded
  <2>a. windows[m][j] \in Window /\ windows'[m][j] \in Window
    BY DEF TypeOK
  <2>1. ASSUME NEW r \in Slots, NEW l \in Limiters, NEW k \in Keys, Admit(r, l, k)
        PROVE  Bounded(m, j)'
    <3>1. CASE l = m /\ k = j
      <4>1. Enabled(m) => windows'[m][j].count <= Limit(m) - 1
        <5>1. CASE Enabled(m) /\ Over(m, windows[m][j])
          <6>1. windows'[m][j] = Absent
            BY <2>1, <3>1, <5>1 DEF Admit, TypeOK
          <6> QED
            BY <6>1, <5>1, LimiterParameters DEF Absent, Enabled
        <5>2. CASE Enabled(m) /\ ~Over(m, windows[m][j])
          <6>1. windows'[m][j] = windows[m][j]
            BY <2>1, <3>1, <5>2 DEF Admit
          <6>2. windows[m][j] = Absent \/ ~(windows[m][j].count >= Limit(m))
            BY <2>1, <3>1, <5>2 DEF Admit, Limited, Live
          <6> QED
            BY <2>a, <6>1, <6>2, <5>2, LimiterParameters DEF Absent, Enabled, Window
        <5> QED
          BY <5>1, <5>2
      <4>2. /\ Cardinality(InFlight(m, j)') \in Nat /\ Cardinality(Slots) \in Nat
            /\ Cardinality(InFlight(m, j)') <= Cardinality(Slots)
        BY InFlightFinite, InFlightFiniteNext
      <4> QED
        BY <2>a, <4>1, <4>2, LimiterParameters DEF Bounded, Window, Enabled, Limit
    <3>2. CASE ~(l = m /\ k = j)
      <4>1. windows'[m][j] = windows[m][j]
        BY <2>1, <3>2 DEF Admit, TypeOK
      <4>2. InFlight(m, j)' \subseteq InFlight(m, j)
        BY <2>1, <3>2 DEF Admit, TypeOK, InFlight, Inside
      <4> QED
        BY <2>0, <2>a, <4>1, <4>2, FewerKeepsBound DEF Window
    <3> QED
      BY <3>1, <3>2
  <2>2. ASSUME NEW r \in Slots, NEW l \in Limiters, NEW k \in Keys, Refuse(r, l, k)
        PROVE  Bounded(m, j)'
    <3>1. windows' = windows
      BY <2>2 DEF Refuse
    <3>2. InFlight(m, j)' \subseteq InFlight(m, j)
      BY <2>2 DEF Refuse, Refused, TypeOK, InFlight
    <3> QED
      BY <2>0, <2>a, <3>1, <3>2, FewerKeepsBound DEF Window
  <2>3. ASSUME NEW r \in Slots, NEW status \in Statuses, Respond(r, status)
        PROVE  Bounded(m, j)'
    <3> DEFINE l == req[r].lim
               k == req[r].key
    <3>1. l \in Limiters /\ k \in Keys
      BY <2>3 DEF Respond, TypeOK, Requests, Idle
    <3>2. InFlight(m, j)' = InFlight(m, j) \ {r}
      BY <2>3 DEF Respond, TypeOK, InFlight, Idle
    <3>3. CASE windows'[m][j].count <= windows[m][j].count
      BY <2>0, <3>2, <3>3, FewerKeepsBound
    <3>4. CASE ~(windows'[m][j].count <= windows[m][j].count)
      <4>1. windows' = [windows EXCEPT ![l] = Recorded(l, k)]
        BY <2>a, <2>3, <3>4 DEF Respond, Window
      <4>2. m = l /\ windows'[m][j] = Recorded(l, k)[j]
        BY <2>a, <3>1, <3>4, <4>1 DEF TypeOK, Window
      <4>3. j = k /\ windows'[m][j] = Counted(m, windows[m][j])
        BY <2>a, <3>1, <3>4, <4>2, RecordedEntries DEF Absent, Window
      <4>4. \/ windows'[m][j].count = windows[m][j].count + 1
            \/ windows'[m][j].count = 1
        BY <2>a, <4>3 DEF Counted, Window
      <4>5. r \in InFlight(m, j)
        BY <2>3, <4>2, <4>3 DEF Respond, InFlight
      <4>6. Cardinality(InFlight(m, j)') = Cardinality(InFlight(m, j)) - 1
        BY <3>2, <4>5, InFlightFinite, FS_RemoveElement
      <4>7. /\ Cardinality(InFlight(m, j)) \in Nat /\ Cardinality(Slots) \in Nat
            /\ Cardinality(InFlight(m, j)) <= Cardinality(Slots)
        BY InFlightFinite
      <4> QED
        BY <2>0, <2>a, <4>4, <4>6, <4>7, LimiterParameters DEF Bounded, Window, Enabled, Limit
    <3> QED
      BY <3>3, <3>4
  <2>4. ASSUME NEW r \in Slots, Raise(r) \/ ComeBack(r)
        PROVE  Bounded(m, j)'
    <3>1. windows' = windows
      BY <2>4 DEF Raise, ComeBack
    <3>2. InFlight(m, j)' \subseteq InFlight(m, j)
      BY <2>4 DEF Raise, ComeBack, TypeOK, InFlight, Idle
    <3> QED
      BY <2>0, <2>a, <3>1, <3>2, FewerKeepsBound DEF Window
  <2>5. ASSUME NEW w \in Workers, Restart(w)
        PROVE  Bounded(m, j)'
    <3>1. windows'[m][j].count <= windows[m][j].count
      BY <2>5, <2>a DEF Restart, Absent, Window
    <3>2. InFlight(m, j)' \subseteq InFlight(m, j)
      BY <2>5 DEF Restart, TypeOK, InFlight, Idle
    <3> QED
      BY <2>0, <3>1, <3>2, FewerKeepsBound
  <2>6. CASE Tick
    <3>1. windows' = windows /\ InFlight(m, j)' = InFlight(m, j)
      BY <2>6 DEF Tick, InFlight
    <3> QED
      BY <2>0, <2>a, <3>1, FewerKeepsBound DEF Window
  <2>7. CASE UNCHANGED vars
    <3>1. windows' = windows /\ InFlight(m, j)' = InFlight(m, j)
      BY <2>7 DEF vars, InFlight
    <3> QED
      BY <2>0, <2>a, <3>1, FewerKeepsBound DEF Window
  <2> QED
    BY <2>1, <2>2, <2>3, <2>4, <2>5, <2>6, <2>7 DEF Next
<1> QED
  BY <1>1, <1>2, TypeCorrect, PTL DEF Spec

-----------------------------------------------------------------------------
(* Live windows.                                                              *)

\* No step but the replacement of its worker takes anything from a live window.
THEOREM LiveWindows == Spec => LiveWindowsKept
<1>1. TypeOK /\ [Next]_vars => [LiveKept]_vars
  <2> SUFFICES ASSUME TypeOK, Next, NEW m \in Limiters, ~Restart(m[1]),
                      NEW j \in Keys, Live(m, windows[m][j])
               PROVE  /\ windows'[m][j].start = windows[m][j].start
                      /\ windows'[m][j].count >= windows[m][j].count
    BY DEF LiveKept
  <2>0. windows[m][j] \in Window /\ ~Over(m, windows[m][j])
    BY DEF TypeOK, Live
  <2>1. CASE windows'[m][j] = windows[m][j]
    BY <2>0, <2>1 DEF Window
  <2>2. ASSUME NEW r \in Slots, NEW l \in Limiters, NEW k \in Keys, Admit(r, l, k)
        PROVE  windows'[m][j] = windows[m][j]
    BY <2>0, <2>2 DEF Admit, TypeOK
  <2>3. ASSUME NEW r \in Slots, NEW status \in Statuses, Respond(r, status),
               ~(windows'[m][j] = windows[m][j])
        PROVE  /\ windows'[m][j].start = windows[m][j].start
               /\ windows'[m][j].count >= windows[m][j].count
    <3> DEFINE l == req[r].lim
               k == req[r].key
    <3>1. l \in Limiters /\ k \in Keys
      BY <2>3 DEF Respond, TypeOK, Requests, Idle
    <3>2. windows' = [windows EXCEPT ![l] = Recorded(l, k)]
      BY <2>3 DEF Respond
    <3>3. m = l /\ windows'[m][j] = Recorded(l, k)[j]
      BY <2>3, <3>1, <3>2 DEF TypeOK
    <3>4. windows'[m][j] = Counted(m, windows[m][j])
      BY <2>3, <3>1, <3>3, RecordedEntries
    <3> QED
      BY <2>0, <3>4 DEF Counted, Window
  <2>4. ASSUME NEW w \in Workers, Restart(w)
        PROVE  windows'[m][j] = windows[m][j]
    <3>1. w # m[1]
      BY <2>4
    <3> QED
      BY <2>4, <3>1 DEF Restart
  <2>5. ASSUME \/ \E r \in Slots, l \in Limiters, k \in Keys : Refuse(r, l, k)
               \/ \E r \in Slots : Raise(r) \/ ComeBack(r)
               \/ Tick
        PROVE  windows'[m][j] = windows[m][j]
    BY <2>5 DEF Refuse, Raise, ComeBack, Tick
  <2> QED
    BY <2>1, <2>2, <2>3, <2>4, <2>5 DEF Next
<1> QED
  BY <1>1, TypeCorrect, PTL DEF Spec, LiveWindowsKept

-----------------------------------------------------------------------------
(* The limiter implements Lockout.                                            *)

\* Two tables that differ in one entry.
LEMMA OneEntryChanged ==
  ASSUME NEW f, NEW g, NEW l \in Limiters, NEW k \in Keys,
         f = [m \in Limiters |-> [j \in Keys |-> f[m][j]]],
         g = [m \in Limiters |-> [j \in Keys |-> g[m][j]]],
         \A m \in Limiters, j \in Keys : ~(m = l /\ j = k) => g[m][j] = f[m][j]
  PROVE  g = [f EXCEPT ![l][k] = g[l][k]]
<1> DEFINE h == [f EXCEPT ![l][k] = g[l][k]]
<1>1. \A m \in Limiters : h[m] = [j \in Keys |-> g[m][j]]
  <2> SUFFICES ASSUME NEW m \in Limiters PROVE h[m] = [j \in Keys |-> g[m][j]]
    OBVIOUS
  <2>1. CASE m = l
    <3>1. h[m] = [f[m] EXCEPT ![k] = g[l][k]]
      BY <2>1
    <3>2. f[m] = [j \in Keys |-> f[m][j]]
      OBVIOUS
    <3> QED
      BY <2>1, <3>1, <3>2
  <2>2. CASE m # l
    BY <2>2
  <2> QED
    BY <2>1, <2>2
<1>2. h = [m \in Limiters |-> h[m]]
  OBVIOUS
<1> QED
  BY <1>1, <1>2

\* A step that leaves the limited addresses and their windows alone leaves the
\* deadlines alone.
LEMMA SameDeadlines ==
  ASSUME \A l \in Limiters, k \in Keys :
           /\ Limited(l, k)' <=> Limited(l, k)
           /\ Limited(l, k) => windows'[l][k].start = windows[l][k].start
  PROVE  LockedUntil' = LockedUntil
<1>1. \A l \in Limiters, k \in Keys :
        (IF Limited(l, k)' THEN windows'[l][k].start + Length(l) ELSE 0)
          = (IF Limited(l, k) THEN windows[l][k].start + Length(l) ELSE 0)
  OBVIOUS
<1>2. LockedUntil' = [l \in Limiters |-> [k \in Keys |->
                        IF Limited(l, k)' THEN windows'[l][k].start + Length(l) ELSE 0]]
  BY DEF LockedUntil, Length
<1> QED
  BY <1>1, <1>2 DEF LockedUntil

\* The limiter that counts failures in windows keeps the promise stated without
\* them: every behaviour of it is, through LockedUntil and ServedFor, one of
\* Lockout.
THEOREM KeepsPromise == Spec => ImplementsLockout
<1>1. Init => Promise!Init
  <2> SUFFICES ASSUME Init PROVE Promise!Init
    OBVIOUS
  <2>1. \A l \in Limiters, k \in Keys : ~Limited(l, k)
    BY DEF Init, Limited, Live
  <2>2. LockedUntil = [l \in Limiters |-> [k \in Keys |-> 0]]
    BY <2>1 DEF LockedUntil
  <2>3. ServedFor = [r \in Slots |-> <<>>]
    BY DEF Init, ServedFor, Idle
  <2> QED
    BY <2>2, <2>3 DEF Init, Promise!Init, Promise!Limiters, Promise!Nobody, Limiters
<1>2. TypeOK /\ TypeOK' /\ [Next]_vars => [Promise!Next]_(Promise!vars)
  <2> SUFFICES ASSUME TypeOK, TypeOK', [Next]_vars
               PROVE  Promise!Next \/ UNCHANGED Promise!vars
    OBVIOUS
  <2> USE DEF Promise!Limiters, Promise!Nobody
  <2>1. ASSUME NEW r \in Slots, NEW l \in Limiters, NEW k \in Keys, Admit(r, l, k)
        PROVE  Promise!Enter(r, l, k)
    <3>1. LockedUntil' = LockedUntil
      <4>1. ASSUME NEW m \in Limiters, NEW j \in Keys
            PROVE  /\ Limited(m, j)' <=> Limited(m, j)
                   /\ Limited(m, j) => windows'[m][j].start = windows[m][j].start
        <5>1. \/ windows'[m][j] = windows[m][j]
              \/ windows'[m][j] = Absent /\ Over(m, windows[m][j])
          BY <2>1 DEF Admit, TypeOK
        <5>2. now' = now
          BY <2>1 DEF Admit
        <5> QED
          BY <5>1, <5>2 DEF Limited, Live, Over, Enabled, Limit, Length
      <4> QED
        BY <4>1, SameDeadlines
    <3>2. ServedFor[r] = <<>> /\ LockedUntil[l][k] = 0
      BY <2>1 DEF Admit, ServedFor, LockedUntil
    <3>3. ServedFor' = [ServedFor EXCEPT ![r] = <<l, k>>]
      BY <2>1 DEF Admit, ServedFor, Inside, TypeOK
    <3> QED
      BY <2>1, <3>1, <3>2, <3>3 DEF Promise!Enter, Admit
  <2>2. ASSUME NEW r \in Slots, NEW l \in Limiters, NEW k \in Keys, Refuse(r, l, k)
        PROVE  UNCHANGED Promise!vars
    <3>1. ServedFor' = ServedFor
      BY <2>2 DEF Refuse, Refused, ServedFor, TypeOK
    <3>2. LockedUntil' = LockedUntil
      BY <2>2, SameDeadlines DEF Refuse, Limited, Live, Over, Enabled, Limit, Length
    <3> QED
      BY <2>2, <3>1, <3>2 DEF Refuse, Promise!vars
  <2>3. ASSUME NEW r \in Slots, NEW status \in Statuses, Respond(r, status)
        PROVE  Promise!Leave(r)
    <3>1. PICK l \in Limiters, k \in Keys : l = req[r].lim /\ k = req[r].key
      BY <2>3 DEF Respond, TypeOK, Requests, Idle
    <3>2. ServedFor[r] = <<l, k>> /\ ServedFor' = [ServedFor EXCEPT ![r] = <<>>]
      BY <2>3, <3>1 DEF Respond, ServedFor, Idle, TypeOK
    <3>3. now' = now
      BY <2>3 DEF Respond
    <3>4. ASSUME NEW m \in Limiters, NEW j \in Keys, ~(m = l /\ j = k)
          PROVE  /\ Limited(m, j)' <=> Limited(m, j)
                 /\ Limited(m, j) => windows'[m][j].start = windows[m][j].start
      <4>1. \/ windows'[m][j] = windows[m][j]
            \/ windows'[m][j] = Absent /\ ~Live(m, windows[m][j])
        <5>1. CASE windows' = windows
          BY <5>1
        <5>2. CASE windows' = [windows EXCEPT ![l] = Recorded(l, k)]
          BY <3>1, <3>4, <5>2, RecordedEntries DEF TypeOK
        <5> QED
          BY <2>3, <3>1, <5>1, <5>2 DEF Respond
      <4> QED
        BY <3>3, <4>1 DEF Limited, Live, Over, Enabled, Limit, Length
    <3>5. CASE LockedUntil' = LockedUntil
      BY <3>2, <3>3, <3>5 DEF Promise!Leave
    <3>6. CASE LockedUntil' # LockedUntil
      <4>1. ~(/\ Limited(l, k)' <=> Limited(l, k)
              /\ Limited(l, k) => windows'[l][k].start = windows[l][k].start)
        BY <3>4, <3>6, SameDeadlines
      <4>2. windows'[l][k] # windows[l][k]
        BY <3>3, <4>1 DEF Limited, Live, Over, Enabled, Limit, Length
      <4>3. /\ windows'[l][k] = Counted(l, windows[l][k])
            /\ Enabled(l)
        BY <2>3, <3>1, <4>2, RecordedEntries DEF Respond, TypeOK
      <4>4. windows[l][k] \in Window /\ now \in Nat /\ Length(l) \in Nat \ {0} /\ Limit(l) \in Nat
        BY <3>1, LimiterParameters DEF TypeOK
      <4>5. ~Limited(l, k)
        BY <3>3, <4>1, <4>3, <4>4 DEF Limited, Live, Over, Counted, Window, Absent, Enabled, Limit, Length
      <4>6. Limited(l, k)'
        BY <4>1, <4>5
      <4>7. windows'[l][k].start + Length(l) \in now + 1 .. now + Length(l)
        <5>1. windows'[l][k].start <= now /\ windows'[l][k] \in Window
          BY <3>1, <3>3, <4>3, CountedWindow
        <5>2. ~(now - windows'[l][k].start >= Length(l))
          BY <3>3, <4>6 DEF Limited, Live, Over, Length
        <5> QED
          BY <4>4, <5>1, <5>2 DEF Window
      <4> DEFINE d == windows'[l][k].start + Length(l)
      <4>8. LockedUntil[l][k] = 0 /\ LockedUntil'[l][k] = d
        BY <3>1, <4>5, <4>6 DEF LockedUntil, Length
      <4>9. \A m \in Limiters, j \in Keys :
              ~(m = l /\ j = k) => LockedUntil'[m][j] = LockedUntil[m][j]
        BY <3>4 DEF LockedUntil, Length
      <4>10. LockedUntil' = [LockedUntil EXCEPT ![l][k] = d]
        <5>1. /\ LockedUntil = [m \in Limiters |-> [j \in Keys |-> LockedUntil[m][j]]]
              /\ LockedUntil' = [m \in Limiters |-> [j \in Keys |-> LockedUntil'[m][j]]]
          BY DEF LockedUntil
        <5>2. LockedUntil' = [LockedUntil EXCEPT ![l][k] = LockedUntil'[l][k]]
          BY <4>9, <5>1, OneEntryChanged
        <5> QED
          BY <4>8, <5>2
      <4> QED
        <5>1. d \in now + 1 .. now + WindowTicks[l[2]]
          BY <4>7 DEF Length
        <5> HIDE DEF d
        <5>2. \E e \in now + 1 .. now + WindowTicks[l[2]] :
                LockedUntil' = [LockedUntil EXCEPT ![l][k] = e]
          BY <4>10, <5>1
        <5>3. ServedFor[r][1] = l /\ ServedFor[r][2] = k /\ ServedFor[r] # <<>>
          BY <3>2
        <5> QED
          BY <3>2, <3>3, <4>8, <5>2, <5>3 DEF Promise!Leave
    <3> QED
      BY <3>5, <3>6
  <2>4. ASSUME NEW r \in Slots, Raise(r)
        PROVE  Promise!Leave(r)
    <3>1. ServedFor[r] # <<>> /\ ServedFor' = [ServedFor EXCEPT ![r] = <<>>]
      BY <2>4 DEF Raise, ServedFor, Idle, TypeOK
    <3>2. LockedUntil' = LockedUntil
      BY <2>4, SameDeadlines DEF Raise, Limited, Live, Over, Enabled, Limit, Length
    <3> QED
      BY <2>4, <3>1, <3>2 DEF Promise!Leave, Raise
  <2>5. ASSUME NEW r \in Slots, ComeBack(r)
        PROVE  UNCHANGED Promise!vars
    <3>1. ServedFor' = ServedFor
      BY <2>5 DEF ComeBack, Idle, ServedFor, TypeOK
    <3>2. LockedUntil' = LockedUntil
      BY <2>5, SameDeadlines DEF ComeBack, Limited, Live, Over, Enabled, Limit, Length
    <3> QED
      BY <2>5, <3>1, <3>2 DEF ComeBack, Promise!vars
  <2>6. ASSUME NEW w \in Workers, Restart(w)
        PROVE  Promise!Restart(w)
    <3>1. LockedUntil' = [l \in Limiters |-> [k \in Keys |->
                            IF l[1] = w THEN 0 ELSE LockedUntil[l][k]]]
      <4>1. ASSUME NEW l \in Limiters, NEW k \in Keys
            PROVE  LockedUntil'[l][k] = IF l[1] = w THEN 0 ELSE LockedUntil[l][k]
        BY <2>6 DEF Restart, LockedUntil, Limited, Live, Over, Enabled, Limit, Length
      <4> QED
        BY <4>1 DEF LockedUntil
    <3>2. ServedFor' = [r \in Slots |->
                          IF ServedFor[r] # <<>> /\ ServedFor[r][1][1] = w
                          THEN <<>> ELSE ServedFor[r]]
      BY <2>6 DEF Restart, ServedFor, Idle, TypeOK
    <3> QED
      BY <2>6, <3>1, <3>2 DEF Promise!Restart, Restart, Limiters
  <2>7. CASE Tick
    <3>1. ASSUME NEW l \in Limiters, NEW k \in Keys
          PROVE  LockedUntil'[l][k] = IF LockedUntil[l][k] <= now + 1 THEN 0 ELSE LockedUntil[l][k]
      <4>1. windows[l][k] \in Window /\ now \in Nat /\ Length(l) \in Nat \ {0}
        BY LimiterParameters DEF TypeOK
      <4>2. Limited(l, k)' <=> Limited(l, k) /\ ~(windows[l][k].start + Length(l) <= now + 1)
        BY <2>7, <4>1 DEF Tick, Limited, Live, Over, Enabled, Limit, Length, Window
      <4>3. windows' = windows
        BY <2>7 DEF Tick
      <4> QED
        BY <4>1, <4>2, <4>3 DEF LockedUntil, Length
    <3>2. LockedUntil' = [l \in Limiters |-> [k \in Keys |->
                            IF LockedUntil[l][k] <= now + 1 THEN 0 ELSE LockedUntil[l][k]]]
      BY <3>1 DEF LockedUntil
    <3>3. ServedFor' = ServedFor
      BY <2>7 DEF Tick, ServedFor
    <3>4. now' = now + 1
      BY <2>7 DEF Tick
    <3>5. Promise!Tick
      BY <3>2, <3>3, <3>4 DEF Promise!Tick, Limiters
    <3> QED
      BY <3>5 DEF Promise!Next
  <2>8. CASE UNCHANGED vars
    <3>1. ServedFor' = ServedFor
      BY <2>8 DEF vars, ServedFor
    <3>2. LockedUntil' = LockedUntil
      BY <2>8, SameDeadlines DEF vars, Limited, Live, Over, Enabled, Limit, Length
    <3> QED
      BY <2>8, <3>1, <3>2 DEF vars, Promise!vars
  <2> QED
    BY <2>1, <2>2, <2>3, <2>4, <2>5, <2>6, <2>7, <2>8 DEF Next, Promise!Next, Limiters
<1> QED
  BY <1>1, <1>2, TypeCorrect, PTL DEF Spec, ImplementsLockout, Promise!Spec

-----------------------------------------------------------------------------
(* Retry-After.                                                               *)

\* Rounding up a number of ticks to seconds loses none of them.
LEMMA HeaderCovers ==
  ASSUME NEW t \in Nat
  PROVE  TicksPerSecond * HeaderSeconds(t) >= t
<1> DEFINE n == TicksPerSecond
           q == (t + n - 1) \div n
           r == (t + n - 1) % n
<1>1. n \in Nat \ {0} /\ t + n - 1 \in Nat
  BY ClockAssumption
<1>2. q \in Nat /\ r \in 0 .. n - 1 /\ t + n - 1 = n * q + r
  BY <1>1
<1>3. HeaderSeconds(t) = IF q < 1 THEN 1 ELSE q
  BY DEF HeaderSeconds
<1> HIDE DEF n, q, r
<1>4. CASE q < 1
  <2>1. q = 0
    BY <1>2, <1>4
  <2>2. n * q = 0 /\ n * 1 = n
    BY <1>1, <2>1
  <2>3. t + n - 1 <= n - 1 /\ HeaderSeconds(t) = 1
    BY <1>1, <1>2, <1>3, <1>4, <2>2
  <2>4. TicksPerSecond * 1 = n
    BY <1>1 DEF n
  <2> QED
    BY <1>1, <2>3, <2>4
<1>5. CASE ~(q < 1)
  <2>1. HeaderSeconds(t) = q
    BY <1>3, <1>5
  <2>2. n * q \in Nat
    BY <1>1, <1>2
  <2>3. n * q >= t
    BY <1>1, <1>2, <2>2
  <2> QED
    BY <2>1, <2>3 DEF n
<1> QED
  BY <1>4, <1>5

\* When the window that a refused caller was shown ends.
End(q) == q.start + Length(q.lim)

\* A refused caller was told to wait for the end of its window at least.  Until that end
\* the window is its address's, and afterwards another may be, that began no earlier.
Shown(r) ==
  req[r].phase = "refused" =>
    /\ End(req[r]) <= req[r].until
    /\ LET w == windows[req[r].lim][req[r].key]
       IN  IF w = Absent THEN End(req[r]) <= now
                         ELSE w.start = req[r].start \/ End(req[r]) <= w.start

ShownInv == \A r \in Slots : Shown(r)

\* A request that stays refused keeps what it was told, if its window stays, is over
\* when it is dropped, and gives way to later ones only.
LEMMA ShownStays ==
  ASSUME TypeOK, TypeOK', now <= now', NEW r \in Slots, Shown(r), req'[r] = req[r],
         req[r].phase = "refused" =>
           LET l == req[r].lim
               k == req[r].key
           IN  \/ windows'[l][k] = windows[l][k]
               \/ windows'[l][k] = Absent /\ Over(l, windows[l][k])
               \/ /\ windows'[l][k].start = windows[l][k].start
                  /\ windows[l][k] # Absent /\ windows'[l][k] # Absent
               \/ windows'[l][k].start = now /\ ~Live(l, windows[l][k])
  PROVE  Shown(r)'
<1> SUFFICES ASSUME req[r].phase = "refused" PROVE Shown(r)'
  BY DEF Shown
<1> DEFINE l == req[r].lim
           k == req[r].key
           w == windows[l][k]
           v == windows'[l][k]
<1>1. /\ l \in Limiters /\ k \in Keys /\ req[r].start \in Nat /\ req[r].until \in Nat
      /\ now \in Nat /\ now' \in Nat /\ w \in Window /\ v \in Window
  BY DEF TypeOK, Requests, Idle
<1>2. Length(l) \in Nat \ {0}
  BY <1>1, LimiterParameters
<1>3. End(req[r]) \in Nat /\ End(req[r])' = End(req[r])
  BY <1>1, <1>2 DEF End, Length
<1>4. /\ End(req[r]) <= req[r].until
      /\ w = Absent => End(req[r]) <= now
      /\ w # Absent => w.start = req[r].start \/ End(req[r]) <= w.start
  BY DEF Shown
<1>5. w # Absent /\ Over(l, w) => End(req[r]) <= now
  BY <1>1, <1>2, <1>4, TypeOK DEF Over, End, Window, TypeOK
<1>6. /\ v = Absent => End(req[r]) <= now'
      /\ v # Absent => v.start = req[r].start \/ End(req[r]) <= v.start
  <2>1. CASE v = w
    BY <1>1, <1>3, <1>4, <2>1
  <2>2. CASE v = Absent /\ Over(l, w)
    BY <1>1, <1>3, <1>4, <1>5, <2>2
  <2>3. CASE v.start = w.start /\ w # Absent /\ v # Absent
    BY <1>4, <2>3
  <2>4. CASE v.start = now /\ ~Live(l, w)
    <3>1. End(req[r]) <= now
      BY <1>4, <1>5, <2>4 DEF Live
    <3> QED
      BY <1>1, <1>3, <2>4, <3>1
  <2> QED
    BY <2>1, <2>2, <2>3, <2>4
<1> QED
  BY <1>3, <1>4, <1>6 DEF Shown

\* Every step keeps what refused callers were told.
LEMMA ShownStep ==
  ASSUME TypeOK, TypeOK', [Next]_vars, NEW r \in Slots, Shown(r)
  PROVE  Shown(r)'
<1>0. now \in Nat /\ now' \in Nat
  BY DEF TypeOK
<1>1. ASSUME NEW s \in Slots, NEW l \in Limiters, NEW k \in Keys, Admit(s, l, k)
      PROVE  Shown(r)'
  <2>1. CASE s = r
    BY <1>1, <2>1 DEF Admit, Inside, TypeOK, Shown
  <2>2. CASE s # r
    <3>1. req'[r] = req[r] /\ now' = now
      BY <1>1, <2>2 DEF Admit
    <3>2. \A m \in Limiters, j \in Keys :
            \/ windows'[m][j] = windows[m][j]
            \/ windows'[m][j] = Absent /\ Over(m, windows[m][j])
      BY <1>1 DEF Admit, TypeOK
    <3>3. req[r].phase = "refused" => req[r].lim \in Limiters /\ req[r].key \in Keys
      BY DEF TypeOK, Requests, Idle
    <3> QED
      BY <1>0, <3>1, <3>2, <3>3, ShownStays
  <2> QED
    BY <2>1, <2>2
<1>2. ASSUME NEW s \in Slots, NEW l \in Limiters, NEW k \in Keys, Refuse(s, l, k)
      PROVE  Shown(r)'
  <2> DEFINE w == windows[l][k]
             rest == Length(l) - (now - w.start)
  <2>1. CASE s = r
    <3>1. w \in Window /\ w # Absent /\ w.start <= now /\ now - w.start < Length(l)
      BY <1>2, LimiterParameters DEF Refuse, Limited, Live, Over, TypeOK, Window
    <3>2. rest \in Nat /\ now + rest = w.start + Length(l) /\ HeaderSeconds(rest) \in Nat
      BY <1>0, <3>1, LimiterParameters, HeaderSecondsType DEF Window
    <3>3. req'[r] = Refused(l, k, w.start, now + TicksPerSecond * HeaderSeconds(rest))
      BY <1>2, <2>1 DEF Refuse, TypeOK
    <3>4. End(req[r])' = w.start + Length(l)
      BY <3>3 DEF End, Refused, Length
    <3>5. req'[r].until >= now + rest
      <4>1. TicksPerSecond * HeaderSeconds(rest) >= rest
        BY <3>2, HeaderCovers
      <4>2. TicksPerSecond * HeaderSeconds(rest) \in Nat
        BY <3>2, ClockAssumption
      <4>3. req'[r].until = now + TicksPerSecond * HeaderSeconds(rest)
        BY <3>3 DEF Refused
      <4> HIDE DEF rest
      <4> QED
        BY <1>0, <3>2, <4>1, <4>2, <4>3
    <3>6. windows' = windows
      BY <1>2 DEF Refuse
    <3> QED
      BY <3>1, <3>2, <3>3, <3>4, <3>5, <3>6 DEF Shown, Refused
  <2>2. CASE s # r
    BY <1>0, <1>2, <2>2, ShownStays DEF Refuse
  <2> QED
    BY <2>1, <2>2
<1>3. ASSUME NEW s \in Slots, NEW status \in Statuses, Respond(s, status)
      PROVE  Shown(r)'
  <2>1. CASE s = r
    BY <1>3, <2>1 DEF Respond, Idle, TypeOK, Shown
  <2>2. CASE s # r
    <3> DEFINE l == req[s].lim
               k == req[s].key
    <3>1. l \in Limiters /\ k \in Keys
      BY <1>3 DEF Respond, TypeOK, Requests, Idle
    <3>2. req'[r] = req[r] /\ now' = now
      BY <1>3, <2>2 DEF Respond
    <3>3. ASSUME NEW m \in Limiters, NEW j \in Keys
          PROVE  \/ windows'[m][j] = windows[m][j]
                 \/ windows'[m][j] = Absent /\ Over(m, windows[m][j])
                 \/ /\ windows'[m][j].start = windows[m][j].start
                    /\ windows[m][j] # Absent /\ windows'[m][j] # Absent
                 \/ windows'[m][j].start = now /\ ~Live(m, windows[m][j])
      <4>1. CASE windows' = windows
        BY <4>1
      <4>2. CASE windows' = [windows EXCEPT ![l] = Recorded(l, k)]
        <5>1. CASE m = l /\ j = k
          <6>1. windows'[m][j] = Counted(m, windows[m][j])
            BY <3>1, <4>2, <5>1, RecordedEntries DEF TypeOK
          <6>2. windows[m][j] \in Window /\ Counted(m, windows[m][j]) # Absent
            BY CountedWindow DEF TypeOK, Absent
          <6> QED
            BY <6>1, <6>2 DEF Counted, Live, Window
        <5>2. CASE ~(m = l /\ j = k)
          <6>1. \/ windows'[m][j] = windows[m][j]
                \/ windows'[m][j] = Absent /\ ~Live(m, windows[m][j])
            BY <3>1, <4>2, <5>2, RecordedEntries DEF TypeOK
          <6> QED
            BY <6>1 DEF Live
        <5> QED
          BY <5>1, <5>2
      <4> QED
        BY <1>3, <4>1, <4>2 DEF Respond
    <3>4. req[r].phase = "refused" => req[r].lim \in Limiters /\ req[r].key \in Keys
      BY DEF TypeOK, Requests, Idle
    <3> QED
      BY <1>0, <3>2, <3>3, <3>4, ShownStays
  <2> QED
    BY <2>1, <2>2
<1>4. ASSUME NEW s \in Slots, Raise(s) \/ ComeBack(s)
      PROVE  Shown(r)'
  <2>1. CASE s = r
    BY <1>4, <2>1 DEF Raise, ComeBack, Idle, TypeOK, Shown
  <2>2. CASE s # r
    <3>1. req'[r] = req[r] /\ windows' = windows /\ now' = now
      BY <1>4, <2>2 DEF Raise, ComeBack, TypeOK
    <3> QED
      BY <1>0, <3>1, ShownStays
  <2> QED
    BY <2>1, <2>2
<1>5. ASSUME NEW w \in Workers, Restart(w)
      PROVE  Shown(r)'
  <2>1. CASE req'[r] = Idle
    BY <2>1 DEF Idle, Shown
  <2>2. CASE req'[r] # Idle
    <3>1. req'[r] = req[r] /\ ~(req[r].phase # "idle" /\ req[r].lim[1] = w) /\ now' = now
      BY <1>5, <2>2 DEF Restart
    <3>2. req[r].phase = "refused" => windows'[req[r].lim] = windows[req[r].lim]
      <4>1. req[r].phase = "refused" => req[r].lim \in Limiters
        BY DEF TypeOK, Requests, Idle
      <4> QED
        BY <1>5, <3>1, <4>1 DEF Restart
    <3> QED
      BY <1>0, <3>1, <3>2, ShownStays
  <2> QED
    BY <2>1, <2>2
<1>6. CASE Tick
  BY <1>0, <1>6, ShownStays DEF Tick
<1>7. CASE UNCHANGED vars
  BY <1>0, <1>7, ShownStays DEF vars
<1> QED
  BY <1>1, <1>2, <1>3, <1>4, <1>5, <1>6, <1>7 DEF Next

\* A caller that waits as long as it was told is not refused again for the same
\* failures, whatever the lengths of windows and seconds.
THEOREM HonestRetryAfter == Spec => []RetryAfterHonest
<1>1. Init => ShownInv
  BY DEF Init, Idle, Shown, ShownInv
<1>2. TypeOK /\ TypeOK' /\ ShownInv /\ [Next]_vars => ShownInv'
  BY ShownStep DEF ShownInv
<1>3. TypeOK /\ ShownInv => RetryAfterHonest
  <2> SUFFICES ASSUME TypeOK, NEW r \in Slots, Shown(r),
                      req[r].phase = "refused", now >= req[r].until,
                      Limited(req[r].lim, req[r].key)
               PROVE  windows[req[r].lim][req[r].key].start >= req[r].start + Length(req[r].lim)
    BY DEF RetryAfterHonest, ShownInv
  <2> DEFINE l == req[r].lim
             w == windows[l][req[r].key]
  <2>1. /\ l \in Limiters /\ w \in Window /\ now \in Nat
        /\ req[r].start \in Nat /\ req[r].until \in Nat
    BY DEF TypeOK, Requests, Idle
  <2>2. Length(l) \in Nat
    BY <2>1, LimiterParameters
  <2>3. w # Absent /\ ~(now - w.start >= Length(l))
    BY DEF Limited, Live, Over
  <2>4. w.start # req[r].start
    BY <2>1, <2>2, <2>3 DEF Shown, End, Window
  <2> QED
    BY <2>1, <2>2, <2>3, <2>4 DEF Shown, End, Window
<1> QED
  BY <1>1, <1>2, <1>3, TypeCorrect, PTL DEF Spec

-----------------------------------------------------------------------------
(* The gate: the invariant of its calls.                                      *)

\* The honest client's calls under way with a token it has replaced since, and those
\* that can still fail with the one it has, before the moment `end`.
Stale        == {r \in Honest : req[r].phase = "inside" /\ bearer[r].exp < access}
MayFail(end) == {r \in Honest : /\ access < end
                                /\ refused => req[r].phase = "inside" /\ bearer[r].exp = access}

\* The honest client calls MCP from its address with a token it has or had, and only an
\* expired one is refused; others call from elsewhere.
CallInv(r) ==
  req[r].phase = "inside" =>
    IF r \in Honest
    THEN /\ req[r].lim[2] = "mcp" /\ req[r].key = Home
         /\ bearer[r].kind = "jwt"
         /\ verdict[r] = 401 => bearer[r].exp <= now
    ELSE req[r].key # Home

\* A token is refused after it has expired, to a call that is over; not every call is
\* under way with a token that was replaced, as one had learnt that it was refused.
RefusedInv == refused => access <= now /\ \E r \in Honest : req[r].phase # "inside"
StaleInv   == Honest # {} => \E r \in Honest : r \notin Stale

GateInv == GateTypeOK /\ (\A r \in Slots : CallInv(r)) /\ RefusedInv /\ StaleInv

\* A step of the gate is one of the limiter, or the limiter does not notice it.
LEMMA LimiterStep == ASSUME GateTypeOK, [GateNext]_gateVars PROVE [Next]_vars
<1>1. ASSUME NEW r \in Slots, NEW l \in Limiters, CallMcp(r, l) PROVE [Next]_vars
  BY <1>1, HonestAssumption DEF CallMcp, Enter, Next
<1>2. ASSUME NEW r \in Slots, NEW l \in Limiters, NEW k \in Keys, CallAny(r, l, k)
      PROVE  [Next]_vars
  BY <1>2 DEF CallAny, Enter, Next
<1>3. ASSUME NEW r \in Slots, AnswerCall(r) PROVE [Next]_vars
  <2>1. verdict[r] \in Statuses
    BY <1>3 DEF AnswerCall, GateTypeOK, Statuses
  <2> QED
    BY <1>3, <2>1 DEF AnswerCall, Next
<1>4. ASSUME NEW r \in Slots, Verify(r) \/ Drop(r) \/ ComeBack(r) PROVE [Next]_vars
  BY <1>4 DEF Verify, Drop, Next
<1>5. ASSUME NEW w \in Workers, RestartWorker(w) PROVE [Next]_vars
  BY <1>5 DEF RestartWorker, Next
<1>6. CASE Issue \/ Tick \/ UNCHANGED gateVars
  BY <1>6 DEF Issue, gateVars, Next
<1> QED
  BY <1>1, <1>2, <1>3, <1>4, <1>5, <1>6 DEF GateNext

\* A request that is let in or refused, seen from the slots.
LEMMA EnterSlots ==
  ASSUME TypeOK, NEW r \in Slots, NEW l \in Limiters, NEW k \in Keys, NEW c, Enter(r, l, k, c),
         bearer \in [Slots -> [kind : {"key", "none", "jwt"}, exp : Nat]]
  PROVE  /\ req'[r].key = k /\ req'[r].lim = l
         /\ \/ req'[r].phase = "inside" /\ bearer'[r] = c
            \/ req'[r].phase = "refused" /\ bearer'[r] = bearer[r]
         /\ \A s \in Slots \ {r} : req'[s] = req[s] /\ bearer'[s] = bearer[s]
         /\ verdict' = verdict /\ access' = access /\ refused' = refused /\ now' = now
         /\ req[r].phase = "idle"
BY DEF Enter, Admit, Refuse, Inside, Refused, TypeOK

\* Every step keeps the types of the gate.
LEMMA GateTypeStep == ASSUME GateInv, [GateNext]_gateVars PROVE GateTypeOK'
<1>0. GateTypeOK /\ TypeOK'
  BY LimiterStep, TypeStep DEF GateInv, GateTypeOK
<1> USE DEF GateTypeOK
<1>a. TypeOK /\ now \in Nat
  BY <1>0 DEF TypeOK
<1>1. ASSUME NEW r \in Slots, NEW l \in Limiters, CallMcp(r, l) PROVE GateTypeOK'
  <2>1. Enter(r, l, Home, Jwt(access)) /\ r \in Honest
    BY <1>1 DEF CallMcp
  <2>2. bearer' \in [Slots -> [kind : {"key", "none", "jwt"}, exp : Nat]]
    BY <1>0, <2>1 DEF Enter, Jwt
  <2>3. Jwt(access).exp = access
    BY DEF Jwt
  <2>4. /\ req'[r].key = Home /\ bearer'[r].exp <= access
        /\ req[r].phase = "idle"
        /\ \A s \in Slots \ {r} : req'[s] = req[s] /\ bearer'[s] = bearer[s]
        /\ verdict' = verdict /\ access' = access /\ refused' = refused
    BY <1>0, <1>a, <2>1, <2>3, EnterSlots, HonestAssumption
  <2> QED
    BY <1>0, <2>2, <2>4, HonestAssumption
<1>2. ASSUME NEW r \in Slots, NEW l \in Limiters, NEW k \in Keys, CallAny(r, l, k)
      PROVE  GateTypeOK'
  <2>1. PICK c \in {Key, Nothing} : Enter(r, l, k, c)
    BY <1>2 DEF CallAny
  <2>2. bearer' \in [Slots -> [kind : {"key", "none", "jwt"}, exp : Nat]]
    BY <1>0, <2>1 DEF Enter, Key, Nothing
  <2>3. /\ req[r].phase = "idle" /\ r \notin Honest
        /\ \A s \in Slots \ {r} : req'[s] = req[s] /\ bearer'[s] = bearer[s]
        /\ verdict' = verdict /\ access' = access /\ refused' = refused
    BY <1>0, <1>2, <1>a, <2>1, EnterSlots DEF CallAny
  <2> QED
    BY <1>0, <2>2, <2>3, HonestAssumption
<1>3. ASSUME NEW r \in Slots, Verify(r) PROVE GateTypeOK'
  BY <1>0, <1>3 DEF Verify, vars
<1>4. ASSUME NEW r \in Slots, AnswerCall(r) \/ Drop(r) PROVE GateTypeOK'
  <2>1. /\ req' = [req EXCEPT ![r] = Idle]
        /\ verdict' = [verdict EXCEPT ![r] = 0]
        /\ bearer' = [bearer EXCEPT ![r] = Nothing]
        /\ access' = access /\ refused' \in BOOLEAN
    BY <1>0, <1>4 DEF AnswerCall, Drop, Respond, Raise
  <2>2. \A s \in Slots : IF s = r THEN req'[s] = Idle /\ verdict'[s] = 0 /\ bearer'[s] = Nothing
                                  ELSE req'[s] = req[s] /\ verdict'[s] = verdict[s] /\ bearer'[s] = bearer[s]
    BY <1>0, <1>a, <2>1 DEF TypeOK
  <2> QED
    BY <1>0, <2>1, <2>2, HonestAssumption DEF Nothing, Idle
<1>5. ASSUME NEW r \in Slots, ComeBack(r), UNCHANGED gate PROVE GateTypeOK'
  <2>1. /\ req' = [req EXCEPT ![r] = Idle] /\ req[r].phase = "refused"
        /\ verdict' = verdict /\ bearer' = bearer /\ access' = access /\ refused' = refused
    BY <1>5 DEF ComeBack, gate
  <2>2. \A s \in Slots : IF s = r THEN req'[s] = Idle ELSE req'[s] = req[s]
    BY <1>a, <2>1 DEF TypeOK
  <2> QED
    BY <1>0, <2>1, <2>2, HonestAssumption DEF Idle
<1>6. ASSUME NEW w \in Workers, RestartWorker(w) PROVE GateTypeOK'
  <2>1. /\ \A s \in Slots : req'[s] = Idle \/ req'[s] = req[s]
        /\ verdict' = [s \in Slots |-> IF req'[s].phase = "inside" THEN verdict[s] ELSE 0]
        /\ bearer' = [s \in Slots |-> IF req'[s].phase = "inside" THEN bearer[s] ELSE Nothing]
        /\ access' = access /\ refused' = refused
    BY <1>6 DEF RestartWorker, Restart
  <2>2. Nothing \in [kind : {"key", "none", "jwt"}, exp : Nat] /\ Nothing.exp = 0
    BY DEF Nothing
  <2> QED
    BY <1>0, <2>1, <2>2, HonestAssumption DEF Idle
<1>7. CASE Issue
  <2>1. access' = now + Ttl /\ access <= now
    BY <1>7 DEF Issue, GateInv, RefusedInv
  <2>2. access' \in Nat /\ access <= access'
    BY <1>0, <1>a, <2>1, RoomAssumption
  <2>3. \A r \in Honest : bearer'[r].exp \in Nat /\ bearer'[r].exp <= access'
    BY <1>0, <1>7, <2>2, HonestAssumption DEF Issue
  <2> QED
    BY <1>0, <1>7, <2>2, <2>3 DEF Issue, vars
<1>8. CASE (Tick /\ UNCHANGED gate) \/ UNCHANGED gateVars
  BY <1>0, <1>8 DEF Tick, gate, gateVars, vars
<1> QED
  BY <1>1, <1>2, <1>3, <1>4, <1>5, <1>6, <1>7, <1>8 DEF GateNext

\* Every step keeps the invariant of a call.
LEMMA CallStep ==
  ASSUME GateInv, [GateNext]_gateVars, NEW s \in Slots
  PROVE  CallInv(s)'
<1>0. /\ GateTypeOK /\ TypeOK /\ CallInv(s) /\ now \in Nat /\ access \in Nat
      /\ bearer \in [Slots -> [kind : {"key", "none", "jwt"}, exp : Nat]]
      /\ verdict \in [Slots -> {0, 200, 401}]
  BY DEF GateInv, GateTypeOK, TypeOK
<1> USE DEF CallInv
<1>1. ASSUME NEW r \in Slots, NEW l \in Limiters, CallMcp(r, l) PROVE CallInv(s)'
  <2>1. Enter(r, l, Home, Jwt(access)) /\ r \in Honest /\ l[2] = "mcp"
    BY <1>1 DEF CallMcp
  <2>2. verdict[r] = 0
    BY <1>0, <2>1, EnterSlots, HonestAssumption DEF GateTypeOK
  <2>3. CASE s = r
    BY <1>0, <2>1, <2>2, <2>3, EnterSlots, HonestAssumption DEF Jwt
  <2>4. CASE s # r
    BY <1>0, <2>1, <2>4, EnterSlots, HonestAssumption
  <2> QED
    BY <2>3, <2>4
<1>2. ASSUME NEW r \in Slots, NEW l \in Limiters, NEW k \in Keys, CallAny(r, l, k)
      PROVE  CallInv(s)'
  <2>1. PICK c \in {Key, Nothing} : Enter(r, l, k, c)
    BY <1>2 DEF CallAny
  <2>2. CASE s = r
    BY <1>0, <1>2, <2>1, <2>2, EnterSlots DEF CallAny
  <2>3. CASE s # r
    BY <1>0, <2>1, <2>3, EnterSlots
  <2> QED
    BY <2>2, <2>3
<1>3. ASSUME NEW r \in Slots, Verify(r) PROVE CallInv(s)'
  <2>1. /\ req' = req /\ bearer' = bearer /\ now' = now /\ req[r].phase = "inside"
        /\ verdict' = [verdict EXCEPT ![r] = IF Verified(req[r].lim, bearer[r]) THEN 200 ELSE 401]
    BY <1>3 DEF Verify, vars
  <2>2. CASE s = r
    BY <1>0, <2>1, <2>2 DEF Verified
  <2>3. CASE s # r
    BY <1>0, <2>1, <2>3
  <2> QED
    BY <2>2, <2>3
<1>4. ASSUME NEW r \in Slots, AnswerCall(r) \/ Drop(r) PROVE CallInv(s)'
  <2>1. /\ req' = [req EXCEPT ![r] = Idle] /\ now' = now
        /\ verdict' = [verdict EXCEPT ![r] = 0]
        /\ bearer' = [bearer EXCEPT ![r] = Nothing]
    BY <1>4 DEF AnswerCall, Drop, Respond, Raise
  <2>2. CASE s = r
    BY <1>0, <2>1, <2>2 DEF Idle, TypeOK
  <2>3. CASE s # r
    BY <1>0, <2>1, <2>3 DEF TypeOK
  <2> QED
    BY <2>2, <2>3
<1>5. ASSUME NEW r \in Slots, ComeBack(r), UNCHANGED gate PROVE CallInv(s)'
  <2>1. /\ req' = [req EXCEPT ![r] = Idle] /\ now' = now
        /\ verdict' = verdict /\ bearer' = bearer
    BY <1>5 DEF ComeBack, gate
  <2>2. CASE s = r
    BY <1>0, <2>1, <2>2 DEF Idle, TypeOK
  <2>3. CASE s # r
    BY <1>0, <2>1, <2>3 DEF TypeOK
  <2> QED
    BY <2>2, <2>3
<1>6. ASSUME NEW w \in Workers, RestartWorker(w) PROVE CallInv(s)'
  <2>1. /\ req'[s] = Idle \/ req'[s] = req[s]
        /\ req'[s].phase = "inside" => verdict'[s] = verdict[s] /\ bearer'[s] = bearer[s]
        /\ now' = now
    BY <1>6 DEF RestartWorker, Restart
  <2> QED
    BY <1>0, <2>1 DEF Idle
<1>7. CASE Issue \/ (Tick /\ UNCHANGED gate) \/ UNCHANGED gateVars
  <2>1. /\ req' = req /\ bearer' = bearer /\ verdict' = verdict
        /\ now' \in Nat /\ now <= now'
    BY <1>0, <1>7 DEF Issue, Tick, gate, gateVars, vars
  <2>2. bearer[s].exp \in Nat
    BY <1>0
  <2> QED
    BY <1>0, <2>1, <2>2
<1> QED
  BY <1>1, <1>2, <1>3, <1>4, <1>5, <1>6, <1>7 DEF GateNext

\* What a step may do to the calls of the client, as far as its potential to fail goes:
\* unless a token is issued, no call becomes stale and none may fail that could not.
LEMMA PotentialStep ==
  ASSUME GateInv, [GateNext]_gateVars, ~Issue
  PROVE  /\ Stale' \subseteq Stale
         /\ \A end \in Nat : MayFail(end)' \subseteq MayFail(end)
         /\ access' = access /\ now <= now' /\ (refused => refused')
         /\ refused => \A h \in Honest : req[h].phase # "inside" => req'[h].phase # "inside"
<1>0. /\ GateTypeOK /\ TypeOK /\ now \in Nat /\ Honest \subseteq Slots
      /\ bearer \in [Slots -> [kind : {"key", "none", "jwt"}, exp : Nat]]
  BY HonestAssumption DEF GateInv, GateTypeOK, TypeOK
<1> USE DEF Stale, MayFail
<1>1. ASSUME NEW r \in Slots, NEW l \in Limiters, CallMcp(r, l)
      PROVE  /\ ~refused /\ refused' = refused /\ access' = access /\ now' = now
             /\ \A h \in Honest : \/ req'[h] = req[h] /\ bearer'[h] = bearer[h]
                                  \/ req'[h].phase # "inside" \/ bearer'[h].exp = access
  <2>1. Enter(r, l, Home, Jwt(access)) /\ ~refused
    BY <1>1 DEF CallMcp
  <2> QED
    BY <1>0, <2>1, EnterSlots, HonestAssumption DEF Jwt
<1>2. ASSUME NEW r \in Slots, NEW l \in Limiters, NEW k \in Keys, CallAny(r, l, k)
      PROVE  /\ refused' = refused /\ access' = access /\ now' = now
             /\ \A h \in Honest : req'[h] = req[h] /\ bearer'[h] = bearer[h]
  <2>1. PICK c \in {Key, Nothing} : Enter(r, l, k, c)
    BY <1>2 DEF CallAny
  <2> QED
    BY <1>0, <1>2, <2>1, EnterSlots DEF CallAny
<1>3. ASSUME NEW r \in Slots, AnswerCall(r) \/ Drop(r) \/ (ComeBack(r) /\ UNCHANGED gate)
      PROVE  /\ (refused => refused') /\ access' = access /\ now' = now
             /\ \A h \in Honest : \/ req'[h] = req[h] /\ bearer'[h] = bearer[h]
                                  \/ req'[h].phase # "inside"
  <2>1. /\ req' = [req EXCEPT ![r] = Idle] /\ now' = now /\ access' = access
        /\ bearer' = bearer \/ bearer' = [bearer EXCEPT ![r] = Nothing]
    BY <1>3 DEF AnswerCall, Drop, ComeBack, Respond, Raise, gate
  <2>2. req'[r].phase # "inside"
    BY <1>0, <2>1 DEF TypeOK, Idle
  <2>3. \A h \in Honest \ {r} : req'[h] = req[h] /\ bearer'[h] = bearer[h]
    BY <1>0, <2>1 DEF TypeOK
  <2>4. refused => refused'
    BY <1>3 DEF AnswerCall, Drop, gate
  <2> QED
    BY <2>1, <2>2, <2>3, <2>4
<1>4. ASSUME NEW w \in Workers, RestartWorker(w)
      PROVE  /\ refused' = refused /\ access' = access /\ now' = now
             /\ \A h \in Honest : \/ req'[h] = req[h] /\ bearer'[h] = bearer[h]
                                  \/ req'[h].phase # "inside"
  BY <1>0, <1>4 DEF RestartWorker, Restart, Idle
<1>5. ASSUME \/ \E r \in Slots : Verify(r)
             \/ Tick /\ UNCHANGED gate
             \/ UNCHANGED gateVars
      PROVE  /\ refused' = refused /\ access' = access /\ now <= now'
             /\ req' = req /\ bearer' = bearer
  BY <1>0, <1>5 DEF Verify, Tick, gate, gateVars, vars
<1>6. /\ access' = access /\ now <= now' /\ (refused => refused')
      /\ \A h \in Honest : \/ req'[h] = req[h] /\ bearer'[h] = bearer[h]
                           \/ req'[h].phase # "inside"
                           \/ ~refused /\ bearer'[h].exp = access
  <2>1. CASE \E r \in Slots, l \in Limiters : CallMcp(r, l)
    BY <1>0, <1>1, <2>1
  <2>2. CASE \E r \in Slots, l \in Limiters, k \in Keys : CallAny(r, l, k)
    BY <1>0, <1>2, <2>2
  <2>3. CASE \E r \in Slots : AnswerCall(r) \/ Drop(r) \/ (ComeBack(r) /\ UNCHANGED gate)
    BY <1>0, <1>3, <2>3
  <2>4. CASE \E w \in Workers : RestartWorker(w)
    BY <1>0, <1>4, <2>4
  <2>5. CASE (\E r \in Slots : Verify(r)) \/ (Tick /\ UNCHANGED gate) \/ UNCHANGED gateVars
    BY <1>0, <1>5, <2>5
  <2> QED
    BY <2>1, <2>2, <2>3, <2>4, <2>5 DEF GateNext
<1>7. Stale' \subseteq Stale
  <2> SUFFICES ASSUME NEW h \in Stale' PROVE h \in Stale
    OBVIOUS
  <2>1. h \in Honest /\ req'[h].phase = "inside" /\ bearer'[h].exp < access' /\ access \in Nat
    BY <1>0 DEF GateTypeOK
  <2>2. req'[h] = req[h] /\ bearer'[h] = bearer[h]
    BY <1>6, <2>1
  <2> QED
    BY <1>6, <2>1, <2>2
<1>8. \A end \in Nat : MayFail(end)' \subseteq MayFail(end)
  BY <1>0, <1>6
<1> QED
  BY <1>0, <1>6, <1>7, <1>8

\* Every step keeps the other two parts.
LEMMA TokenStep ==
  ASSUME GateInv, [GateNext]_gateVars
  PROVE  RefusedInv' /\ StaleInv'
<1>0. /\ GateTypeOK /\ TypeOK /\ now \in Nat /\ now' \in Nat /\ Honest \subseteq Slots
      /\ access \in Nat /\ refused \in BOOLEAN
  BY GateTypeStep, HonestAssumption DEF GateInv, GateTypeOK, TypeOK
<1>1. CASE Issue
  <2>1. PICK h \in Honest : req[h].phase # "inside"
    BY <1>1 DEF Issue, GateInv, RefusedInv
  <2>2. ~refused' /\ req'[h].phase # "inside"
    BY <1>1, <2>1 DEF Issue, vars
  <2> QED
    BY <2>1, <2>2 DEF RefusedInv, StaleInv, Stale
<1>2. CASE ~Issue
  <2>1. StaleInv'
    BY <1>2, PotentialStep DEF GateInv, StaleInv
  <2>2. ASSUME refused PROVE RefusedInv'
    <3>1. PICK h \in Honest : req[h].phase # "inside" /\ access <= now
      BY <2>2 DEF GateInv, RefusedInv
    <3>2. req'[h].phase # "inside" /\ access' <= now'
      BY <1>0, <1>2, <2>2, <3>1, PotentialStep
    <3> QED
      BY <3>2 DEF RefusedInv
  <2>3. ASSUME ~refused, refused' PROVE RefusedInv'
    <3>1. PICK r \in Honest : AnswerCall(r) /\ verdict[r] = 401 /\ bearer[r] = Jwt(access)
      <4>1. ASSUME NEW r \in Slots, NEW l \in Limiters, NEW k \in Keys,
                   CallMcp(r, l) \/ CallAny(r, l, k)
            PROVE  FALSE
        BY <2>3, <4>1 DEF CallMcp, CallAny, Enter
      <4>2. ASSUME NEW r \in Slots, Verify(r) \/ Drop(r) \/ (ComeBack(r) /\ UNCHANGED gate)
            PROVE  FALSE
        BY <2>3, <4>2 DEF Verify, Drop, gate
      <4>3. ASSUME NEW w \in Workers, RestartWorker(w) PROVE FALSE
        BY <2>3, <4>3 DEF RestartWorker
      <4>4. ~(Tick /\ UNCHANGED gate) /\ ~UNCHANGED gateVars
        BY <2>3 DEF gate, gateVars
      <4>5. PICK r \in Slots : AnswerCall(r)
        BY <1>2, <4>1, <4>2, <4>3, <4>4, HonestAssumption DEF GateNext
      <4> QED
        BY <2>3, <4>5 DEF AnswerCall
    <3>2. req'[r].phase # "inside" /\ req[r].phase = "inside"
      BY <1>0, <3>1 DEF AnswerCall, Respond, Idle, TypeOK
    <3>3. access <= now /\ access' = access /\ now' = now
      BY <1>0, <3>1, <3>2 DEF GateInv, CallInv, Jwt, AnswerCall, Respond
    <3> QED
      BY <3>2, <3>3 DEF RefusedInv
  <2> QED
    BY <1>0, <2>1, <2>2, <2>3 DEF RefusedInv
<1> QED
  BY <1>1, <1>2

-----------------------------------------------------------------------------
(* The gate: the room that is left in the window of the client.               *)

\* The failures counted in the client's window and those its calls can still add to it.
RoomIn(l) ==
  LET win == windows[l][Home]
  IN  Live(l, win) =>
        win.count + Cardinality(Stale) + Cardinality(MayFail(win.start + Length(l)))
          <= 2 * Cardinality(Honest) - 1
RoomInv == \A w \in Workers : RoomIn(<<w, "mcp">>)

\* The calls that are counted are calls of the client.
LEMMA CallsFinite ==
  ASSUME NEW end
  PROVE  /\ IsFiniteSet(Honest) /\ Cardinality(Honest) \in Nat
         /\ IsFiniteSet(Stale) /\ Cardinality(Stale) \in Nat
         /\ IsFiniteSet(MayFail(end)) /\ Cardinality(MayFail(end)) \in Nat
         /\ Cardinality(Stale) <= Cardinality(Honest)
         /\ Cardinality(MayFail(end)) <= Cardinality(Honest)
<1>1. IsFiniteSet(Honest)
  BY SlotsAssumption, HonestAssumption, FS_Subset
<1>2. Stale \subseteq Honest /\ MayFail(end) \subseteq Honest
  BY DEF Stale, MayFail
<1> QED
  BY <1>1, <1>2, FS_Subset, FS_CardinalityType

\* A window of the client that is live after a step was live before it and is unchanged,
\* or the step answers one of its calls with 401 and counts that.
LEMMA WindowStep ==
  ASSUME GateInv, [GateNext]_gateVars, NEW w \in Workers,
         Live(<<w, "mcp">>, windows[<<w, "mcp">>][Home])'
  PROVE  LET l == <<w, "mcp">>
         IN  \/ /\ Live(l, windows[l][Home]) /\ windows'[l][Home] = windows[l][Home]
             \/ \E r \in Honest : /\ AnswerCall(r) /\ verdict[r] = 401
                                  /\ windows'[l][Home] = Counted(l, windows[l][Home])
<1> DEFINE l == <<w, "mcp">>
<1>0. /\ GateTypeOK /\ TypeOK /\ l \in Limiters /\ Home \in Keys /\ Honest \subseteq Slots
      /\ windows \in [Limiters -> [Keys -> Window]] /\ now \in Nat /\ l[2] = "mcp"
  BY HonestAssumption, RoomAssumption DEF GateInv, GateTypeOK, TypeOK, Limiters
<1>1. Length(l) \in Nat \ {0} /\ windows[l][Home] \in Window
  BY <1>0, LimiterParameters
<1>2. windows'[l][Home] # Absent
  BY DEF Live
<1>3. windows'[l][Home].start = windows[l][Home].start /\ now <= now' /\ now' \in Nat
        => ~Over(l, windows[l][Home])
  BY <1>0, <1>1 DEF Live, Over, Window
<1> DEFINE Same == now <= now' /\ now' \in Nat /\ windows'[l][Home] = windows[l][Home]
<1>4. Same => Live(l, windows[l][Home]) /\ windows'[l][Home] = windows[l][Home]
  BY <1>2, <1>3 DEF Live
<1>5. ASSUME NEW r \in Slots, NEW m \in Limiters, NEW k \in Keys, NEW c, Enter(r, m, k, c)
      PROVE  Same
  BY <1>0, <1>2, <1>5 DEF Enter, Admit, Refuse
<1>6. ASSUME NEW w2 \in Workers, RestartWorker(w2) PROVE Same
  BY <1>0, <1>2, <1>6 DEF RestartWorker, Restart
<1>7. ASSUME \/ \E r \in Slots : Verify(r) \/ Drop(r) \/ ComeBack(r)
             \/ Issue \/ Tick \/ UNCHANGED gateVars
      PROVE  Same
  BY <1>0, <1>7 DEF Verify, Drop, Raise, ComeBack, Issue, Tick, gateVars, vars
<1>8. ASSUME NEW r \in Slots, AnswerCall(r)
      PROVE  Same \/ (r \in Honest /\ verdict[r] = 401
                      /\ windows'[l][Home] = Counted(l, windows[l][Home]))
  <2> DEFINE m == req[r].lim
             k == req[r].key
  <2>1. /\ req[r].phase = "inside" /\ verdict[r] \in {0, 200, 401} /\ now' = now
        /\ m \in Limiters /\ k \in Keys
    BY <1>0, <1>8 DEF AnswerCall, Respond, GateTypeOK, TypeOK, Requests, Idle
  <2>2. CASE windows' = windows
    BY <1>0, <2>1, <2>2
  <2>3. CASE windows' # windows
    <3>1. windows' = [windows EXCEPT ![m] = Recorded(m, k)] /\ verdict[r] \in FailureStatuses[m[2]]
      BY <1>8, <2>3 DEF AnswerCall, Respond
    <3>2. CASE m # l
      BY <1>0, <2>1, <3>1, <3>2
    <3>3. CASE m = l /\ k # Home
      <4>1. windows'[l][Home] = Recorded(m, k)[Home]
        BY <1>0, <2>1, <3>1, <3>3
      <4> QED
        BY <1>0, <1>2, <2>1, <3>3, <4>1, RecordedEntries
    <3>4. CASE m = l /\ k = Home
      <4>1. windows'[l][Home] = Counted(l, windows[l][Home])
        BY <1>0, <2>1, <3>1, <3>4, RecordedEntries
      <4>2. r \in Honest
        BY <2>1, <3>4 DEF GateInv, CallInv
      <4>3. verdict[r] = 401
        BY <1>0, <3>1, <3>4 DEF FailureStatuses
      <4> QED
        BY <4>1, <4>2, <4>3
    <3> QED
      BY <3>2, <3>3, <3>4
  <2> QED
    BY <2>2, <2>3
<1>9. Same \/ \E r \in Honest : AnswerCall(r) /\ verdict[r] = 401
                                /\ windows'[l][Home] = Counted(l, windows[l][Home])
  <2>1. CASE \E r \in Slots, m \in Limiters :
               CallMcp(r, m) \/ \E k \in Keys : CallAny(r, m, k)
    BY <1>0, <1>5, <2>1 DEF CallMcp, CallAny
  <2>2. CASE \E r \in Slots : AnswerCall(r)
    BY <1>8, <2>2
  <2>3. CASE \E w2 \in Workers : RestartWorker(w2)
    BY <1>6, <2>3
  <2> HIDE DEF Same
  <2> QED
    BY <1>7, <2>1, <2>2, <2>3 DEF GateNext
<1> QED
  BY <1>4, <1>9

\* A set that misses an element of another is smaller by one.
LEMMA WithoutOne ==
  ASSUME NEW S, IsFiniteSet(S), NEW x \in S, NEW T \in SUBSET (S \ {x})
  PROVE  Cardinality(T) <= Cardinality(S) - 1
<1>1. IsFiniteSet(S \ {x}) /\ Cardinality(S \ {x}) = Cardinality(S) - 1
  BY FS_RemoveElement
<1>2. Cardinality(T) <= Cardinality(S \ {x})
  BY <1>1, FS_Subset
<1> QED
  BY <1>1, <1>2

\* A union is at most as large as its parts together.
LEMMA UnionBound ==
  ASSUME NEW S, IsFiniteSet(S), NEW T, IsFiniteSet(T)
  PROVE  /\ IsFiniteSet(S \cup T)
         /\ Cardinality(S \cup T) \in Nat
         /\ Cardinality(S \cup T) <= Cardinality(S) + Cardinality(T)
         /\ S \cap T = {} => Cardinality(S \cup T) = Cardinality(S) + Cardinality(T)
<1>1. /\ IsFiniteSet(S \cup T)
      /\ Cardinality(S \cup T) = Cardinality(S) + Cardinality(T) - Cardinality(S \cap T)
  BY FS_Union
<1>2. IsFiniteSet(S \cap T)
  <2>1. S \cap T \in SUBSET S
    OBVIOUS
  <2> QED
    BY <2>1, FS_Subset
<1>3. /\ Cardinality(S) \in Nat /\ Cardinality(T) \in Nat
      /\ Cardinality(S \cap T) \in Nat /\ Cardinality(S \cup T) \in Nat
  BY <1>1, <1>2, FS_CardinalityType
<1>4. S \cap T = {} => Cardinality(S \cap T) = 0
  BY FS_EmptySet
<1> QED
  BY <1>1, <1>3, <1>4

\* The room is kept by a step, for one worker and a window that ends at `end`.
LEMMA RoomStep ==
  ASSUME GateInv, [GateNext]_gateVars, NEW w \in Workers, RoomIn(<<w, "mcp">>)
  PROVE  RoomIn(<<w, "mcp">>)'
<1> DEFINE l == <<w, "mcp">>
           H == Cardinality(Honest)
<1>0. /\ GateTypeOK /\ TypeOK /\ l \in Limiters /\ Home \in Keys /\ Honest \subseteq Slots
      /\ windows \in [Limiters -> [Keys -> Window]] /\ now \in Nat /\ access \in Nat
      /\ windows' \in [Limiters -> [Keys -> Window]] /\ now' \in Nat
      /\ bearer \in [Slots -> [kind : {"key", "none", "jwt"}, exp : Nat]]
      /\ \A h \in Honest : bearer[h].exp <= access
  BY GateTypeStep, HonestAssumption, RoomAssumption DEF GateInv, GateTypeOK, TypeOK, Limiters
<1>1. /\ Length(l) \in Nat \ {0} /\ Ttl \in Nat /\ Length(l) <= Ttl
      /\ windows[l][Home] \in Window /\ windows'[l][Home] \in Window
  BY <1>0, LimiterParameters, RoomAssumption DEF Length
<1> SUFFICES ASSUME Live(l, windows[l][Home])'
             PROVE  windows'[l][Home].count + Cardinality(Stale')
                      + Cardinality(MayFail(windows[l][Home].start + Length(l))') <= 2 * H - 1
  BY DEF RoomIn, Length
<1> DEFINE end == windows'[l][Home].start + Length(l)
<1>2. PICK e \in Nat : e = end
  BY <1>1 DEF Window
<1>3. MayFail(windows[l][Home].start + Length(l))' = MayFail(e)'
  BY <1>2 DEF MayFail, Length
<1>4. /\ H \in Nat /\ IsFiniteSet(Honest)
      /\ Cardinality(Stale) \in Nat /\ Cardinality(Stale) <= H /\ IsFiniteSet(Stale)
      /\ Cardinality(MayFail(e)) \in Nat /\ Cardinality(MayFail(e)) <= H
      /\ IsFiniteSet(MayFail(e))
  BY CallsFinite
<1>5. Stale' \subseteq Honest /\ MayFail(e)' \subseteq Honest
  BY DEF Stale, MayFail
<1>6. /\ IsFiniteSet(Stale') /\ Cardinality(Stale') \in Nat
      /\ IsFiniteSet(MayFail(e)') /\ Cardinality(MayFail(e)') \in Nat
  BY <1>4, <1>5, FS_Subset, FS_CardinalityType
<1>7. now' < e
  BY <1>0, <1>1, <1>2 DEF Live, Over, Window
<1> SUFFICES windows'[l][Home].count + Cardinality(Stale') + Cardinality(MayFail(e)') <= 2 * H - 1
  BY <1>3
<1>8. ASSUME Live(l, windows[l][Home]), windows'[l][Home].start = windows[l][Home].start
      PROVE  windows[l][Home].count + Cardinality(Stale) + Cardinality(MayFail(e)) <= 2 * H - 1
  BY <1>2, <1>8 DEF RoomIn, Length
<1>9. windows[l][Home].count \in Nat /\ windows'[l][Home].count \in Nat
  BY <1>1 DEF Window
<1>10. CASE /\ Live(l, windows[l][Home]) /\ windows'[l][Home] = windows[l][Home]
            /\ ~Issue
  <2>1. Cardinality(Stale') <= Cardinality(Stale) /\ Cardinality(MayFail(e)') <= Cardinality(MayFail(e))
    BY <1>4, <1>10, PotentialStep, FS_Subset
  <2> QED
    BY <1>4, <1>6, <1>8, <1>9, <1>10, <2>1
<1>11. CASE /\ Live(l, windows[l][Home]) /\ windows'[l][Home] = windows[l][Home]
            /\ Issue
  <2>1. /\ req' = req /\ bearer' = bearer /\ now' = now /\ access' = now + Ttl
        /\ refused /\ access <= now
    BY <1>11 DEF Issue, vars, GateInv, RefusedInv
  <2>2. e <= access'
    <3>1. windows[l][Home].start <= now
      BY <1>0, <1>11 DEF TypeOK, Live
    <3> QED
      BY <1>0, <1>1, <1>2, <1>11, <2>1, <3>1 DEF Window
  <2>3. MayFail(e)' = {}
    BY <1>0, <1>1, <2>1, <2>2 DEF MayFail
  <2>4. Stale' \subseteq Stale \cup MayFail(e)
    <3> SUFFICES ASSUME NEW h \in Honest, req[h].phase = "inside"
                 PROVE  bearer[h].exp < access \/ (bearer[h].exp = access /\ access < e)
      BY <2>1 DEF Stale, MayFail
    <3>1. bearer[h].exp \in Nat /\ bearer[h].exp <= access /\ access \in Nat /\ now \in Nat
      BY <1>0
    <3>2. access < e
      BY <1>7, <2>1, <3>1
    <3> QED
      BY <3>1, <3>2
  <2>5. Cardinality(Stale') <= Cardinality(Stale) + Cardinality(MayFail(e))
    <3>1. IsFiniteSet(Stale \cup MayFail(e))
          /\ Cardinality(Stale \cup MayFail(e)) \in Nat
          /\ Cardinality(Stale \cup MayFail(e)) <= Cardinality(Stale) + Cardinality(MayFail(e))
      BY <1>4, UnionBound
    <3>2. Cardinality(Stale') <= Cardinality(Stale \cup MayFail(e))
      BY <2>4, <3>1, FS_Subset
    <3> QED
      BY <1>4, <1>6, <3>1, <3>2
  <2>6. Cardinality(MayFail(e)') = 0
    BY <2>3, FS_EmptySet
  <2> QED
    BY <1>4, <1>6, <1>8, <1>9, <1>11, <2>5, <2>6
<1>12. ASSUME NEW r \in Honest, AnswerCall(r), verdict[r] = 401,
              windows'[l][Home] = Counted(l, windows[l][Home])
       PROVE  windows'[l][Home].count + Cardinality(Stale') + Cardinality(MayFail(e)') <= 2 * H - 1
  <2>1. /\ req[r].phase = "inside" /\ req'[r] = Idle /\ now' = now /\ access' = access
    BY <1>0, <1>12 DEF AnswerCall, Respond, TypeOK
  <2>a. bearer[r] = Jwt(access) => refused'
    BY <1>12 DEF AnswerCall
  <2>b. bearer[r] \in [kind : {"key", "none", "jwt"}, exp : Nat] /\ bearer[r].exp <= access
    BY <1>0
  <2>c. bearer[r].exp < access \/ bearer[r].exp = access
    <3>1. bearer[r].exp \in Nat /\ access \in Nat /\ bearer[r].exp <= access
      BY <1>0, <2>b
    <3> QED
      BY <3>1
  <2>2. req'[r].phase # "inside"
    BY <2>1 DEF Idle
  <2>3. Stale' \subseteq Stale \ {r} /\ MayFail(e)' \subseteq MayFail(e)
    <3>1. ~Issue
      BY <2>1, <2>2 DEF Issue, vars
    <3> QED
      BY <2>2, <3>1, PotentialStep DEF Stale
  <2>4. bearer[r].kind = "jwt" /\ bearer[r].exp <= now
    BY <1>0, <1>12, <2>1 DEF GateInv, CallInv
  <2>5. Cardinality(Stale') <= Cardinality(Stale) /\ Cardinality(MayFail(e)') <= Cardinality(MayFail(e))
    BY <1>4, <2>3, FS_Subset
  <2>6. CASE bearer[r].exp < access
    <3>1. r \in Stale
      BY <2>1, <2>6 DEF Stale
    <3>2. Cardinality(Stale') <= Cardinality(Stale) - 1
      BY <1>4, <2>3, <3>1, WithoutOne
    <3>3. CASE Live(l, windows[l][Home])
      <4>1. /\ windows'[l][Home].start = windows[l][Home].start
            /\ windows'[l][Home].count = windows[l][Home].count + 1
        BY <1>1, <1>12, <3>3 DEF Counted, Window
      <4> QED
        BY <1>4, <1>6, <1>8, <1>9, <2>5, <3>2, <3>3, <4>1
    <3>4. CASE ~Live(l, windows[l][Home])
      <4>1. windows'[l][Home].count = 1
        BY <1>12, <3>4 DEF Counted
      <4>2. PICK x \in Honest : x \notin Stale
        BY DEF GateInv, StaleInv
      <4>3. Cardinality(Stale) <= H - 1
        <5>1. Stale \subseteq Honest \ {x}
          BY <4>2 DEF Stale
        <5> QED
          BY <1>4, <5>1, WithoutOne
      <4> QED
        BY <1>4, <1>6, <2>5, <3>2, <4>1, <4>3
    <3> QED
      BY <3>3, <3>4
  <2>7. CASE bearer[r].exp = access
    <3>1. refused' /\ access <= now
      BY <2>a, <2>b, <2>4, <2>7 DEF Jwt
    <3>2. MayFail(e)' = {h \in Honest : access' < e /\ req'[h].phase = "inside" /\ bearer'[h].exp = access'}
      BY <3>1 DEF MayFail
    <3>3. CASE Live(l, windows[l][Home])
      <4>1. /\ windows'[l][Home].start = windows[l][Home].start
            /\ windows'[l][Home].count = windows[l][Home].count + 1
        BY <1>1, <1>12, <3>3 DEF Counted, Window
      <4>2. r \in MayFail(e)
        BY <1>0, <1>7, <2>1, <2>7, <3>1 DEF MayFail
      <4>3. MayFail(e)' \subseteq MayFail(e) \ {r}
        BY <2>2, <2>3, <3>2
      <4>4. Cardinality(MayFail(e)') <= Cardinality(MayFail(e)) - 1
        BY <1>4, <4>2, <4>3, WithoutOne
      <4> QED
        BY <1>4, <1>6, <1>8, <1>9, <2>5, <3>3, <4>1, <4>4
    <3>4. CASE ~Live(l, windows[l][Home])
      <4>1. windows'[l][Home].count = 1
        BY <1>12, <3>4 DEF Counted
      <4>2. Stale' \cap MayFail(e)' = {} /\ Stale' \cup MayFail(e)' \subseteq Honest \ {r}
        <5>1. bearer' \in [Slots -> [kind : {"key", "none", "jwt"}, exp : Nat]] /\ access' \in Nat
          BY GateTypeStep DEF GateTypeOK
        <5> QED
          BY <1>0, <1>5, <2>2, <3>2, <5>1 DEF Stale
      <4>3. Cardinality(Stale') + Cardinality(MayFail(e)') = Cardinality(Stale' \cup MayFail(e)')
        BY <1>6, <4>2, UnionBound
      <4>4. Cardinality(Stale' \cup MayFail(e)') <= H - 1
        BY <1>4, <4>2, WithoutOne
      <4> QED
        BY <1>4, <1>6, <4>1, <4>3, <4>4
    <3> QED
      BY <3>3, <3>4
  <2> QED
    BY <2>c, <2>6, <2>7
<1> QED
  BY <1>10, <1>11, <1>12, WindowStep

-----------------------------------------------------------------------------
(* The gate: theorems.                                                        *)

\* The invariant of the gate holds of every behaviour of it.
LEMMA GateInvariant == GateSpec => [](GateInv /\ RoomInv)
<1>1. GateInit => GateInv /\ RoomInv
  <2> SUFFICES ASSUME GateInit PROVE GateInv /\ RoomInv
    OBVIOUS
  <2>1. TypeOK
    BY DEF GateInit, Init, TypeOK, Absent, Window, Requests, Idle
  <2>2. \A r \in Slots : req[r].phase = "idle"
    BY DEF GateInit, Init, Idle
  <2>3. GateTypeOK
    <3>1. /\ bearer = [r \in Slots |-> Nothing] /\ verdict = [r \in Slots |-> 0]
          /\ access = 0 /\ refused \in BOOLEAN
      BY DEF GateInit
    <3>2. Nothing \in [kind : {"key", "none", "jwt"}, exp : Nat] /\ Nothing.exp = 0
      BY DEF Nothing
    <3> QED
      BY <2>1, <2>2, <3>1, <3>2, HonestAssumption DEF GateTypeOK
  <2>4. \A r \in Slots : CallInv(r)
    BY <2>2 DEF CallInv
  <2>5. RefusedInv /\ StaleInv
    BY <2>2, HonestAssumption DEF RefusedInv, StaleInv, Stale, GateInit
  <2>6. RoomInv
    <3>1. \A w \in Workers : windows[<<w, "mcp">>][Home] = Absent
      BY HonestAssumption, RoomAssumption DEF GateInit, Init, Limiters
    <3> QED
      BY <3>1 DEF RoomInv, RoomIn, Live
  <2> QED
    BY <2>3, <2>4, <2>5, <2>6 DEF GateInv
<1>2. GateInv /\ RoomInv /\ [GateNext]_gateVars => (GateInv /\ RoomInv)'
  <2> SUFFICES ASSUME GateInv, RoomInv, [GateNext]_gateVars PROVE (GateInv /\ RoomInv)'
    OBVIOUS
  <2>1. GateInv'
    BY GateTypeStep, CallStep, TokenStep DEF GateInv
  <2>2. RoomInv'
    BY RoomStep DEF RoomInv
  <2> QED
    BY <2>1, <2>2
<1> QED
  BY <1>1, <1>2, PTL DEF GateSpec

\* Types of the gate: a verdict belongs to a request that is inside, and the client's
\* calls carry no token newer than the one it has.
THEOREM GateTypeCorrect == GateSpec => []GateTypeOK
BY GateInvariant, PTL DEF GateInv

\* Behind the gate the limiter is the one of RateLimit, so every theorem about that
\* holds of it.
THEOREM DrivesLimiter == GateSpec => Spec
<1>1. GateInit => Init
  BY DEF GateInit
<1>2. GateTypeOK /\ [GateNext]_gateVars => [Next]_vars
  BY LimiterStep
<1> QED
  BY <1>1, <1>2, GateTypeCorrect, PTL DEF GateSpec, Spec

\* A client that renews its token when told to is never locked out, however many calls
\* it makes at once, whatever the others do and however late it is answered.
THEOREM NeverLocked == GateSpec => []HonestNeverLocked
<1>1. GateInv /\ RoomInv => HonestNeverLocked
  <2> SUFFICES ASSUME GateInv, RoomInv, NEW w \in Workers, Limited(<<w, "mcp">>, Home)
               PROVE  FALSE
    BY DEF HonestNeverLocked
  <2> DEFINE l == <<w, "mcp">>
             win == windows[l][Home]
  <2>1. Live(l, win) /\ win.count >= MaxFailures["mcp"] /\ RoomIn(l)
    BY DEF Limited, RoomInv, Limit
  <2>2. win.count \in Nat /\ MaxFailures["mcp"] \in Nat
    BY HonestAssumption, RoomAssumption, LimitsAssumption
       DEF GateInv, GateTypeOK, TypeOK, Limiters, Window
  <2>3. PICK e : e = win.start + Length(l)
    OBVIOUS
  <2>4. win.count + Cardinality(Stale) + Cardinality(MayFail(e)) <= 2 * Cardinality(Honest) - 1
    BY <2>1, <2>3 DEF RoomIn
  <2>5. /\ Cardinality(Stale) \in Nat /\ Cardinality(MayFail(e)) \in Nat
        /\ Cardinality(Honest) \in Nat
    BY CallsFinite
  <2>6. MaxFailures["mcp"] >= 2 * Cardinality(Honest)
    BY RoomAssumption
  <2> QED
    BY <2>1, <2>2, <2>4, <2>5, <2>6
<1> QED
  BY <1>1, GateInvariant, PTL

=============================================================================
