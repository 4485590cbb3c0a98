------------------------------- MODULE Lockout -------------------------------
(***************************************************************************)
(* What the limiter of src/app/ratelimit.py promises, without saying how:  *)
(* an address is locked out of one surface of one worker until a deadline  *)
(* that is set once, no further away than a window; while it is locked no  *)
(* request of it gets in; and nothing but one of its own requests, on its  *)
(* way out, can lock it.  The deadline is never moved: failures of         *)
(* requests already inside do not prolong it, activity of other addresses  *)
(* does not end it.                                                        *)
(***************************************************************************)
EXTENDS Integers

CONSTANTS Workers, Surfaces, Keys, Slots, WindowTicks

Limiters == Workers \X Surfaces

VARIABLES
  until,   \* limiter -> key -> the deadline of its lockout, 0 when it has none
  inside,  \* slot -> <<limiter, key>> of the request being served, or Nobody
  now

vars == <<until, inside, now>>

\* The slot has no request in a handler.
Nobody == <<>>

Init ==
  /\ until = [l \in Limiters |-> [k \in Keys |-> 0]]
  /\ inside = [r \in Slots |-> Nobody]
  /\ now = 0

Enter(r, l, k) ==
  /\ inside[r] = Nobody
  /\ until[l][k] = 0
  /\ inside' = [inside EXCEPT ![r] = <<l, k>>]
  /\ UNCHANGED <<until, now>>

\* The way out, which may lock the request's own address on its own surface.
Leave(r) ==
  /\ inside[r] # Nobody
  /\ inside' = [inside EXCEPT ![r] = Nobody]
  /\ LET l == inside[r][1]
         k == inside[r][2]
     IN  \/ UNCHANGED until
         \/ /\ until[l][k] = 0
            /\ \E d \in now + 1 .. now + WindowTicks[l[2]] :
                 until' = [until EXCEPT ![l][k] = d]
  /\ UNCHANGED now

\* A lockout ends at its deadline and not before.
Tick ==
  /\ now' = now + 1
  /\ until' = [l \in Limiters |-> [k \in Keys |->
                 IF until[l][k] <= now + 1 THEN 0 ELSE until[l][k]]]
  /\ UNCHANGED inside

\* A worker forgets its lockouts, and drops its requests, only by being replaced.
Restart(w) ==
  /\ until' = [l \in Limiters |-> [k \in Keys |-> IF l[1] = w THEN 0 ELSE until[l][k]]]
  /\ inside' = [r \in Slots |-> IF inside[r] # Nobody /\ inside[r][1][1] = w
                                THEN Nobody ELSE inside[r]]
  /\ UNCHANGED now

Next ==
  \/ \E r \in Slots, l \in Limiters, k \in Keys : Enter(r, l, k)
  \/ \E r \in Slots : Leave(r)
  \/ \E w \in Workers : Restart(w)
  \/ Tick

Spec == Init /\ [][Next]_vars
=============================================================================
