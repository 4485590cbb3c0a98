-------------------------------- MODULE OAuth --------------------------------
(***************************************************************************)
(* The authorization server: the endpoints of src/app/oauth.py over the    *)
(* SQLite tables of src/app/oauth_store.py.                                *)
(*                                                                         *)
(* The endpoints are synchronous, so requests run side by side in the      *)
(* thread pools of all workers and share one database file.  Every         *)
(* `with _conn()` block is a transaction of its own; a request is the      *)
(* sequence of its transactions and anything may happen between two of     *)
(* them.  One action is one transaction, or one decision taken between     *)
(* two, with one exception kept as two actions: consume_code reads the row *)
(* before the implicit transaction of its DELETE begins.                   *)
(***************************************************************************)
EXTENDS Integers, FiniteSets

CONSTANTS
  Clients,      \* the client ids register() can hand out
  Uris,         \* redirect URIs a client may ask for
  AllowedUris,  \* those _redirect_uri_allowed accepts
  Challenges,   \* PKCE challenges; the verifier of a challenge is named like it
  Codes,        \* the codes authorize_submit can draw
  Tokens,       \* the refresh tokens _issue_tokens can draw
  Slots,        \* threads that serve a request
  CodeTTL, TokenTTL,
  MaxTime,      \* bound: the clock stops here
  None

ASSUME AllowedAssumption == AllowedUris \subseteq Uris
ASSUME NoneAssumption    == None \notin Tokens
ASSUME SlotsAssumption   == IsFiniteSet(Slots)
ASSUME ClockAssumption   == CodeTTL \in Nat /\ TokenTTL \in Nat /\ MaxTime \in Nat

VARIABLES
  clients,   \* table clients: client -> its redirect URIs, {} when not registered
  codes,     \* table auth_codes: code -> its row, NoRow when there is none
  tokens,    \* table refresh_tokens: token -> its row, NoRow when there is none
  req,       \* slot -> the request it serves and how far it has got
  now,       \* time.time()
  consent,   \* history: code -> what the owner approved when it was issued, or NoRow
  redeemed,  \* history: code -> how often tokens were issued for it
  origin     \* history: token -> where it comes from, NoRow when not issued

tables  == <<clients, codes, tokens>>
history == <<consent, redeemed, origin>>
vars    == <<tables, req, now, history>>

-----------------------------------------------------------------------------
(* Rows, requests and histories.                                             *)

NoRow == [kind |-> "none"]

\* What a code is bound to, and what a token request presents for it.
Bindings == [client : Clients, uri : Uris, challenge : Challenges]
CodeRow  == [kind : {"code"}, bind : Bindings, expires : Nat]
TokenRow == [kind : {"token"}, client : Clients, expires : Nat]

\* The exchange a token descends from: its code, what was presented for it, and
\* the first token issued by it, which names the chain of rotated tokens.
Origins  == [kind : {"origin"}, code : Codes, proof : Bindings, line : Tokens \cup {None}]

Idle == [phase |-> "idle"]

Requests ==
  {Idle}
  \cup [phase : {"prune_codes", "insert_code"}, bind : Bindings]
  \cup [phase : {"delete_code", "check_code"}, code : Codes, proof : Bindings, row : CodeRow]
  \cup [phase : {"check_token"}, row : TokenRow, origin : Origins]
  \cup [phase : {"prune_tokens", "insert_token"}, client : Clients, origin : Origins]

Goto(r, phase) == req' = [req EXCEPT ![r].phase = phase]
Finish(r)      == req' = [req EXCEPT ![r] = Idle]

Expired(row) == row.expires < now

Init ==
  /\ clients = [c \in Clients |-> {}]
  /\ codes = [x \in Codes |-> NoRow]
  /\ tokens = [t \in Tokens |-> NoRow]
  /\ req = [r \in Slots |-> Idle]
  /\ now = 0
  /\ consent = [x \in Codes |-> NoRow]
  /\ redeemed = [x \in Codes |-> 0]
  /\ origin = [t \in Tokens |-> NoRow]

-----------------------------------------------------------------------------
(* POST /oauth/register and POST /oauth/authorize.                           *)

\* A public client registers; a URI outside the allowlist fails the request.
Register(c, uris) ==
  /\ clients[c] = {}
  /\ uris # {} /\ uris \subseteq AllowedUris
  /\ clients' = [clients EXCEPT ![c] = uris]
  /\ UNCHANGED <<codes, tokens, req, now, history>>

\* The owner submits the consent form with the right key for a registered client
\* and one of its URIs (anything else is answered 400 or 401 and changes nothing).
Authorize(r, b) ==
  /\ req[r] = Idle
  /\ b.uri \in clients[b.client]
  /\ req' = [req EXCEPT ![r] = [phase |-> "prune_codes", bind |-> b]]
  /\ UNCHANGED <<tables, now, history>>

\* A faulty delete_expired_codes that takes a code in its last moment for expired.
PruneCodesEarly(r) ==
  /\ req[r].phase = "prune_codes"
  /\ codes' = [x \in Codes |-> IF codes[x] # NoRow /\ codes[x].expires <= now
                               THEN NoRow ELSE codes[x]]
  /\ Goto(r, "insert_code")
  /\ UNCHANGED <<clients, tokens, now, history>>

\* save_code, first transaction: delete_expired_codes.
PruneCodes(r) ==
  /\ req[r].phase = "prune_codes"
  /\ codes' = [x \in Codes |-> IF codes[x] # NoRow /\ Expired(codes[x])
                               THEN NoRow ELSE codes[x]]
  /\ Goto(r, "insert_code")
  /\ UNCHANGED <<clients, tokens, now, history>>

\* save_code, second transaction; the redirect carries the fresh code.
InsertCode(r, x) ==
  /\ req[r].phase = "insert_code"
  /\ consent[x] = NoRow
  /\ codes' = [codes EXCEPT ![x] =
                 [kind |-> "code", bind |-> req[r].bind, expires |-> now + CodeTTL]]
  /\ consent' = [consent EXCEPT ![x] = req[r].bind]
  /\ Finish(r)
  /\ UNCHANGED <<clients, tokens, now, redeemed, origin>>

-----------------------------------------------------------------------------
(* POST /oauth/token with grant_type authorization_code.                     *)

\* consume_code reads the row.  (No row: 400.)
ReadCode(r, x, proof) ==
  /\ req[r] = Idle
  /\ codes[x] # NoRow
  /\ req' = [req EXCEPT ![r] =
               [phase |-> "delete_code", code |-> x, proof |-> proof, row |-> codes[x]]]
  /\ UNCHANGED <<tables, now, history>>

\* A faulty consume_code that leaves the row where it is.
KeepCode(r) ==
  /\ req[r].phase = "delete_code"
  /\ codes' = codes
  /\ Goto(r, "check_code")
  /\ UNCHANGED <<clients, tokens, now, history>>

\* A faulty token endpoint that goes on without looking at the row.
DeleteUnchecked(r) ==
  /\ req[r].phase = "delete_code"
  /\ codes' = [codes EXCEPT ![req[r].code] = NoRow]
  /\ Goto(r, "prune_tokens")
  /\ UNCHANGED <<clients, tokens, now, history>>

\* consume_code deletes it, whether or not it is still there, and commits.
DeleteCode(r) ==
  /\ req[r].phase = "delete_code"
  /\ codes' = [codes EXCEPT ![req[r].code] = NoRow]
  /\ Goto(r, "check_code")
  /\ UNCHANGED <<clients, tokens, now, history>>

\* A faulty token endpoint that compares the client only.
SameClient(row, proof) == ~Expired(row) /\ row.bind.client = proof.client

\* The expiry, the client and its URI, and the PKCE verifier, all on the copy of
\* the row that was read.
Accepted(row, proof) ==
  /\ ~Expired(row)
  /\ row.bind.client = proof.client
  /\ row.bind.uri = proof.uri
  /\ row.bind.challenge = proof.challenge

CheckCode(r) ==
  /\ req[r].phase = "check_code"
  /\ LET x == req[r].code
         proof == req[r].proof
     IN  IF Accepted(req[r].row, proof)
         THEN req' = [req EXCEPT ![r] =
                [phase |-> "prune_tokens", client |-> proof.client,
                 origin |-> [kind |-> "origin", code |-> x, proof |-> proof, line |-> None]]]
         ELSE Finish(r)
  /\ UNCHANGED <<tables, now, history>>

-----------------------------------------------------------------------------
(* POST /oauth/token with grant_type refresh_token, and _issue_tokens.       *)

\* A faulty consume_refresh_token that reads the row without deleting it.
ReadToken(r, t) ==
  /\ req[r] = Idle
  /\ tokens[t] # NoRow
  /\ req' = [req EXCEPT ![r] =
               [phase |-> "check_token", row |-> tokens[t], origin |-> origin[t]]]
  /\ tokens' = tokens
  /\ UNCHANGED <<clients, codes, now, history>>

\* consume_refresh_token: DELETE ... RETURNING, one statement.  (No row: 400.)
TakeToken(r, t) ==
  /\ req[r] = Idle
  /\ tokens[t] # NoRow
  /\ req' = [req EXCEPT ![r] =
               [phase |-> "check_token", row |-> tokens[t], origin |-> origin[t]]]
  /\ tokens' = [tokens EXCEPT ![t] = NoRow]
  /\ UNCHANGED <<clients, codes, now, history>>

\* The expiry is looked at once the row is gone.
CheckToken(r) ==
  /\ req[r].phase = "check_token"
  /\ IF Expired(req[r].row)
     THEN Finish(r)
     ELSE req' = [req EXCEPT ![r] = [phase |-> "prune_tokens",
                    client |-> req[r].row.client, origin |-> req[r].origin]]
  /\ UNCHANGED <<tables, now, history>>

\* A faulty delete_expired_refresh_tokens that takes one in its last moment for expired.
PruneTokensEarly(r) ==
  /\ req[r].phase = "prune_tokens"
  /\ tokens' = [t \in Tokens |-> IF tokens[t] # NoRow /\ tokens[t].expires <= now
                                 THEN NoRow ELSE tokens[t]]
  /\ Goto(r, "insert_token")
  /\ UNCHANGED <<clients, codes, now, history>>

\* save_refresh_token, first transaction: delete_expired_refresh_tokens.
PruneTokens(r) ==
  /\ req[r].phase = "prune_tokens"
  /\ tokens' = [t \in Tokens |-> IF tokens[t] # NoRow /\ Expired(tokens[t])
                                 THEN NoRow ELSE tokens[t]]
  /\ Goto(r, "insert_token")
  /\ UNCHANGED <<clients, codes, now, history>>

\* save_refresh_token, second transaction; the answer carries the new token.
InsertToken(r, t) ==
  /\ req[r].phase = "insert_token"
  /\ origin[t] = NoRow
  /\ LET o == req[r].origin
         first == o.line = None
     IN  /\ origin' = [origin EXCEPT ![t] = IF first THEN [o EXCEPT !.line = t] ELSE o]
         /\ redeemed' = IF first THEN [redeemed EXCEPT ![o.code] = @ + 1] ELSE redeemed
  /\ tokens' = [tokens EXCEPT ![t] =
                  [kind |-> "token", client |-> req[r].client, expires |-> now + TokenTTL]]
  /\ Finish(r)
  /\ UNCHANGED <<clients, codes, now, consent>>

-----------------------------------------------------------------------------

\* A request dies where it is: the database is locked or full, or the worker is
\* killed.  What it has committed stays.
Fail(r) ==
  /\ req[r] # Idle
  /\ Finish(r)
  /\ UNCHANGED <<tables, now, history>>

Tick ==
  /\ now < MaxTime
  /\ now' = now + 1
  /\ UNCHANGED <<tables, req, history>>

Next ==
  \/ \E c \in Clients, uris \in SUBSET Uris : Register(c, uris)
  \/ \E r \in Slots :
       \/ \E b \in Bindings : Authorize(r, b)
       \/ PruneCodes(r)
       \/ \E x \in Codes : InsertCode(r, x)
       \/ \E x \in Codes, proof \in Bindings : ReadCode(r, x, proof)
       \/ DeleteCode(r)
       \/ CheckCode(r)
       \/ \E t \in Tokens : TakeToken(r, t)
       \/ CheckToken(r)
       \/ PruneTokens(r)
       \/ \E t \in Tokens : InsertToken(r, t)
       \/ Fail(r)
  \/ Tick

Spec == Init /\ [][Next]_vars

-----------------------------------------------------------------------------
(* Correctness.                                                              *)

\* Tables, requests and histories hold what they should, a row exists only for a
\* code or a token that was issued, and a token's row knows its chain.
TypeOK ==
  /\ clients \in [Clients -> SUBSET Uris]
  /\ codes \in [Codes -> CodeRow \cup {NoRow}]
  /\ tokens \in [Tokens -> TokenRow \cup {NoRow}]
  /\ req \in [Slots -> Requests]
  /\ now \in Nat
  /\ consent \in [Codes -> Bindings \cup {NoRow}]
  /\ redeemed \in [Codes -> Nat]
  /\ origin \in [Tokens -> Origins \cup {NoRow}]
  /\ \A x \in Codes : codes[x] # NoRow => consent[x] # NoRow
  /\ \A t \in Tokens : tokens[t] # NoRow => origin[t] # NoRow
  /\ \A t \in Tokens : origin[t] # NoRow => origin[t].line \in Tokens

\* The slots that may still issue tokens for a code they have read.
Redeeming(x) ==
  {r \in Slots :
     \/ req[r].phase \in {"delete_code", "check_code"} /\ req[r].code = x
     \/ /\ req[r].phase \in {"prune_tokens", "insert_token"}
        /\ req[r].origin.line = None /\ req[r].origin.code = x}

\* Reading and deleting a code are two steps, so it may be redeemed more than
\* once, but only by requests that were under way together: once it has been
\* redeemed, no later request can redeem it.  (consume_code)
CodeReuseBounded ==
  \A x \in Codes : redeemed[x] + Cardinality(Redeeming(x)) <= Cardinality(Slots)

\* oauth_store.py:87 and PRD.md:587: a code is single-use.
CodeSingleUse == \A x \in Codes : redeemed[x] <= 1

\* The chain a slot will continue, None for a slot that continues none.
Continues(r) ==
  IF req[r].phase \in {"check_token", "prune_tokens", "insert_token"}
  THEN req[r].origin.line ELSE None

Stored(t) == tokens[t] # NoRow

\* Rotation never forks: of the tokens that descend from one exchange at most one
\* can still be redeemed, or one request is about to issue it, never both.
\* (consume_refresh_token, _issue_tokens)
ChainIsSingle ==
  /\ \A t, u \in Tokens :
       Stored(t) /\ Stored(u) /\ origin[t].line = origin[u].line => t = u
  /\ \A r \in Slots, t \in Tokens : Stored(t) => Continues(r) # origin[t].line
  /\ \A r, s \in Slots : Continues(r) # None /\ Continues(r) = Continues(s) => r = s

\* Every token ever issued goes back to a consent of the owner, was obtained by
\* presenting exactly what that consent was bound to, and belongs to its client,
\* however often it was rotated.
TokensAsConsented ==
  \A t \in Tokens :
    origin[t] # NoRow =>
      /\ origin[t].proof = consent[origin[t].code]
      /\ Stored(t) => tokens[t].client = consent[origin[t].code].client

LiveCodesStay ==
  \A x \in Codes :
    codes[x] # NoRow /\ ~Expired(codes[x]) /\ codes'[x] = NoRow =>
      \E r \in Slots : req[r].phase = "delete_code" /\ req[r].code = x /\ DeleteCode(r)

\* A code that has not expired leaves the table only because the token endpoint
\* consumed it; issuing another one, or cleaning up, never takes it.
LiveCodesKept == [][LiveCodesStay]_vars

\* The token of a chain that can be redeemed, or the request about to issue it.
Alive(line) ==
  \/ \E t \in Tokens : Stored(t) /\ origin[t].line = line /\ ~Expired(tokens[t])
  \/ \E r \in Slots : Continues(r) = line
                      /\ (req[r].phase = "check_token" => ~Expired(req[r].row))

OnlyCutByReason ==
  \A line \in Tokens : Alive(line) /\ ~Alive(line)' => Tick \/ \E r \in Slots : Fail(r)

\* A chain of rotated tokens ends only by time or with a request that fails half
\* way: no step of another request, whatever it is doing, cuts a client off.
ChainsEndForAReason == [][OnlyCutByReason]_vars
=============================================================================
