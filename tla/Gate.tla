--------------------------------- MODULE Gate ---------------------------------
(***************************************************************************)
(* What stands before every handler: the limiter of RateLimit and behind it*)
(* the check of the bearer (src/app/auth.py), the API key on REST, the key *)
(* or an access token of the server's own on MCP.  Limiter and check do not*)
(* know of each other: an access token that has expired is refused with the*)
(* same 401 as a guess, and counts.                                        *)
(*                                                                         *)
(* One honest MCP client makes several calls at once with the access token *)
(* it has, learns from a 401 that it needs another, and gets one at the    *)
(* token endpoint.  The other callers have any credentials.                *)
(***************************************************************************)
EXTENDS RateLimit

CONSTANTS
  Honest,  \* the slots of the honest client: it makes that many calls at once
  Home,    \* its address, which it shares with nobody
  Ttl      \* TOKEN_TTL, in ticks

ASSUME HonestAssumption == Honest \subseteq Slots /\ Home \in Keys
\* A token lives at least as long as a window (TOKEN_TTL is a day, a window a minute),
\* and the limit leaves room for two failures of each call.
ASSUME RoomAssumption ==
  /\ "mcp" \in Surfaces
  /\ Ttl \in Nat /\ Ttl >= WindowTicks["mcp"]
  /\ MaxFailures["mcp"] >= 2 * Cardinality(Honest)

VARIABLES
  bearer,   \* slot -> the credential of its request
  verdict,  \* slot -> the status the check has settled, 0 while it has not
  access,   \* the expiry of the client's access token; 0: it has had none yet
  refused   \* the client knows that this token is refused

gate == <<bearer, verdict, access, refused>>
gateVars == <<vars, gate>>

Key     == [kind |-> "key", exp |-> 0]
Nothing == [kind |-> "none", exp |-> 0]
Jwt(e)  == [kind |-> "jwt", exp |-> e]

\* Faulty: the verifier is built without the key the tokens are signed with.
VerifiedKeyOnly(l, c) == c.kind = "key"

\* require_bearer on REST, CompositeVerifier.verify_token on MCP.
Verified(l, c) ==
  \/ c.kind = "key"
  \/ c.kind = "jwt" /\ l[2] = "mcp" /\ now < c.exp

GateInit ==
  /\ Init
  /\ bearer = [r \in Slots |-> Nothing]
  /\ verdict = [r \in Slots |-> 0]
  /\ access = 0 /\ refused = FALSE

\* The middleware stops a request, or lets it in.
Enter(r, l, k, c) ==
  /\ \/ Admit(r, l, k) /\ bearer' = [bearer EXCEPT ![r] = c]
     \/ Refuse(r, l, k) /\ UNCHANGED bearer
  /\ UNCHANGED <<verdict, access, refused>>

\* The client calls with the token it has, unless it knows that it is refused.
CallMcp(r, l) ==
  /\ r \in Honest /\ l[2] = "mcp" /\ ~refused
  /\ Enter(r, l, Home, Jwt(access))

\* Anybody else calls from elsewhere, with the key or nothing of use.
CallAny(r, l, k) ==
  /\ r \notin Honest /\ k # Home
  /\ \E c \in {Key, Nothing} : Enter(r, l, k, c)

\* The bearer is checked, some time after the request was let in.
Verify(r) ==
  /\ req[r].phase = "inside" /\ verdict[r] = 0
  /\ verdict' = [verdict EXCEPT ![r] = IF Verified(req[r].lim, bearer[r]) THEN 200 ELSE 401]
  /\ UNCHANGED <<vars, bearer, access, refused>>

\* The answer: the client learns from a 401 that its token, if it is still the one it
\* has, is refused.
AnswerCall(r) ==
  /\ verdict[r] # 0
  /\ Respond(r, verdict[r])
  /\ refused' = (refused \/ (r \in Honest /\ verdict[r] = 401 /\ bearer[r] = Jwt(access)))
  /\ verdict' = [verdict EXCEPT ![r] = 0]
  /\ bearer' = [bearer EXCEPT ![r] = Nothing]
  /\ UNCHANGED access

\* The handler raises, or the call is cut off.
Drop(r) ==
  /\ Raise(r)
  /\ verdict' = [verdict EXCEPT ![r] = 0]
  /\ bearer' = [bearer EXCEPT ![r] = Nothing]
  /\ UNCHANGED <<access, refused>>

\* The token endpoint issues an access token, for a code or a refresh token.
Issue ==
  /\ refused
  /\ access' = now + Ttl /\ refused' = FALSE
  /\ UNCHANGED <<vars, bearer, verdict>>

RestartWorker(w) ==
  /\ Restart(w)
  /\ verdict' = [r \in Slots |-> IF req'[r].phase = "inside" THEN verdict[r] ELSE 0]
  /\ bearer' = [r \in Slots |-> IF req'[r].phase = "inside" THEN bearer[r] ELSE Nothing]
  /\ UNCHANGED <<access, refused>>

GateNext ==
  \/ \E r \in Slots, l \in Limiters : CallMcp(r, l) \/ \E k \in Keys : CallAny(r, l, k)
  \/ \E r \in Slots : Verify(r) \/ AnswerCall(r) \/ Drop(r)
  \/ \E r \in Slots : ComeBack(r) /\ UNCHANGED gate
  \/ \E w \in Workers : RestartWorker(w)
  \/ Issue
  \/ Tick /\ UNCHANGED gate

GateSpec == GateInit /\ [][GateNext]_gateVars

-----------------------------------------------------------------------------
(* Correctness.                                                              *)

GateTypeOK ==
  /\ TypeOK
  /\ bearer \in [Slots -> [kind : {"key", "none", "jwt"}, exp : Nat]]
  /\ verdict \in [Slots -> {0, 200, 401}]
  /\ access \in Nat /\ refused \in BOOLEAN
  /\ \A r \in Slots : verdict[r] # 0 => req[r].phase = "inside"
  /\ \A r \in Honest : bearer[r].exp <= access /\ (req[r].phase # "idle" => req[r].key = Home)

\* A client that renews its token when it is told to is never locked out of its own
\* memories by the expiry of its tokens, however many of its calls are under way when
\* one expires, however late they are answered, and whatever others fail at:
\* every call fails once for a token, and of three tokens at most two can fail in one
\* window.  (rate_limit_middleware over CompositeVerifier)
HonestNeverLocked == \A w \in Workers : ~Limited(<<w, "mcp">>, Home)
=============================================================================
