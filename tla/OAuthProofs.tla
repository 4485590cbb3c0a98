----------------------------- MODULE OAuthProofs -----------------------------
(* What is proved about OAuth for every number of clients, codes, tokens and  *)
(* threads, and every time to live.                                           *)
EXTENDS OAuth, FiniteSetTheorems, TLAPS

-----------------------------------------------------------------------------
(* Type correctness.                                                          *)

\* What a request in each phase carries.
LEMMA Carried ==
  ASSUME TypeOK, NEW r \in Slots
  PROVE  /\ req[r].phase \in {"prune_codes", "insert_code"} => req[r].bind \in Bindings
         /\ req[r].phase \in {"delete_code", "check_code"} =>
              /\ req[r].code \in Codes
              /\ req[r].proof \in Bindings
              /\ req[r].row \in CodeRow
         /\ req[r].phase = "check_token" =>
              req[r].row \in TokenRow /\ req[r].origin \in Origins
         /\ req[r].phase \in {"prune_tokens", "insert_token"} =>
              req[r].client \in Clients /\ req[r].origin \in Origins
         /\ req[r].phase = "idle" => req[r] = Idle
BY DEF TypeOK, Requests, Idle

\* Moving on to the next transaction of the same kind of work.
LEMMA GotoType ==
  ASSUME TypeOK, NEW r \in Slots, NEW phase, Goto(r, phase),
         \/ req[r].phase = "prune_codes" /\ phase = "insert_code"
         \/ req[r].phase = "delete_code" /\ phase = "check_code"
         \/ req[r].phase = "prune_tokens" /\ phase = "insert_token"
  PROVE  /\ req' \in [Slots -> Requests]
         /\ req'[r].phase = phase
<1>1. req \in [Slots -> Requests]
  BY DEF TypeOK
<1>2. /\ [req[r] EXCEPT !.phase = phase] \in Requests
      /\ [req[r] EXCEPT !.phase = phase].phase = phase
  <2>1. CASE req[r].phase = "prune_codes"
    <3>1. req[r] \in [phase : {"prune_codes", "insert_code"}, bind : Bindings]
      BY <1>1, <2>1 DEF Requests, Idle
    <3> QED
      BY <2>1, <3>1 DEF Requests
  <2>2. CASE req[r].phase = "delete_code"
    <3>1. req[r] \in [phase : {"delete_code", "check_code"}, code : Codes,
                      proof : Bindings, row : CodeRow]
      BY <1>1, <2>2 DEF Requests, Idle
    <3> QED
      BY <2>2, <3>1 DEF Requests
  <2>3. CASE req[r].phase = "prune_tokens"
    <3>1. req[r] \in [phase : {"prune_tokens", "insert_token"}, client : Clients,
                      origin : Origins]
      BY <1>1, <2>3 DEF Requests, Idle
    <3> QED
      BY <2>3, <3>1 DEF Requests
  <2> QED
    BY <2>1, <2>2, <2>3
<1> QED
  BY <1>1, <1>2 DEF Goto

\* Ending a request leaves requests behind.
LEMMA FinishType ==
  ASSUME TypeOK, NEW r \in Slots, Finish(r)
  PROVE  req' \in [Slots -> Requests]
BY DEF TypeOK, Finish, Requests

\* Every behaviour is type-correct; no row outlives the knowledge of where it
\* comes from.
THEOREM TypeCorrect == Spec => []TypeOK
<1>1. Init => TypeOK
  <2> SUFFICES ASSUME Init PROVE TypeOK
    OBVIOUS
  <2>1. Idle \in Requests
    BY DEF Requests
  <2> QED
    BY <2>1 DEF Init, TypeOK
<1>2. TypeOK /\ [Next]_vars => TypeOK'
  <2> SUFFICES ASSUME TypeOK, [Next]_vars PROVE TypeOK'
    OBVIOUS
  <2>1. ASSUME NEW c \in Clients, NEW uris \in SUBSET Uris, Register(c, uris)
        PROVE  TypeOK'
    BY <2>1 DEF TypeOK, Register, history
  <2>2. ASSUME NEW r \in Slots, NEW b \in Bindings, Authorize(r, b)
        PROVE  TypeOK'
    <3>1. req' \in [Slots -> Requests]
      BY <2>2 DEF TypeOK, Authorize, Requests
    <3> QED
      BY <2>2, <3>1 DEF TypeOK, Authorize, tables, history
  <2>3. ASSUME NEW r \in Slots, PruneCodes(r)
        PROVE  TypeOK'
    <3>1. req' \in [Slots -> Requests]
      BY <2>3, GotoType DEF PruneCodes
    <3> QED
      BY <2>3, <3>1 DEF TypeOK, PruneCodes, history
  <2>4. ASSUME NEW r \in Slots, NEW x \in Codes, InsertCode(r, x)
        PROVE  TypeOK'
    <3>1. req' \in [Slots -> Requests]
      BY <2>4, FinishType DEF InsertCode
    <3>2. req[r].bind \in Bindings
      BY <2>4, Carried DEF InsertCode
    <3>3. [kind |-> "code", bind |-> req[r].bind, expires |-> now + CodeTTL] \in CodeRow
      BY <3>2, ClockAssumption DEF TypeOK, CodeRow
    <3>4. codes' \in [Codes -> CodeRow \cup {NoRow}] /\ consent' \in [Codes -> Bindings \cup {NoRow}]
      BY <2>4, <3>2, <3>3 DEF TypeOK, InsertCode
    <3>5. req[r].bind # NoRow
      BY <3>2 DEF Bindings, NoRow
    <3>6. \A y \in Codes : codes'[y] # NoRow => consent'[y] # NoRow
      BY <2>4, <3>5 DEF TypeOK, InsertCode
    <3> QED
      BY <2>4, <3>1, <3>4, <3>6 DEF TypeOK, InsertCode
  <2>5. ASSUME NEW r \in Slots, NEW x \in Codes, NEW proof \in Bindings, ReadCode(r, x, proof)
        PROVE  TypeOK'
    <3>1. codes[x] \in CodeRow
      BY <2>5 DEF TypeOK, ReadCode
    <3>2. [phase |-> "delete_code", code |-> x, proof |-> proof, row |-> codes[x]] \in Requests
      BY <3>1 DEF Requests
    <3>3. req' \in [Slots -> Requests]
      BY <2>5, <3>2 DEF TypeOK, ReadCode
    <3> QED
      BY <2>5, <3>3 DEF TypeOK, ReadCode, tables, history
  <2>6. ASSUME NEW r \in Slots, DeleteCode(r)
        PROVE  TypeOK'
    <3>1. req' \in [Slots -> Requests]
      BY <2>6, GotoType DEF DeleteCode
    <3> QED
      BY <2>6, <3>1 DEF TypeOK, DeleteCode, history
  <2>7. ASSUME NEW r \in Slots, CheckCode(r)
        PROVE  TypeOK'
    <3> DEFINE o == [kind |-> "origin", code |-> req[r].code, proof |-> req[r].proof,
                     line |-> None]
    <3>1. req[r].code \in Codes /\ req[r].proof \in Bindings
      BY <2>7, Carried DEF CheckCode
    <3>2. o \in Origins
      BY <3>1 DEF Origins
    <3>3. req[r].proof.client \in Clients
      BY <3>1 DEF Bindings
    <3>4. [phase |-> "prune_tokens", client |-> req[r].proof.client, origin |-> o] \in Requests
      BY <3>2, <3>3 DEF Requests
    <3>5. Idle \in Requests
      BY DEF Requests
    <3>6. req' \in [Slots -> Requests]
      <4>1. CASE Accepted(req[r].row, req[r].proof)
        BY <2>7, <3>4, <4>1 DEF TypeOK, CheckCode
      <4>2. CASE ~Accepted(req[r].row, req[r].proof)
        BY <2>7, <3>5, <4>2 DEF TypeOK, CheckCode, Finish
      <4> QED
        BY <4>1, <4>2
    <3> QED
      BY <2>7, <3>6 DEF TypeOK, CheckCode, tables, history
  <2>8. ASSUME NEW r \in Slots, NEW t \in Tokens, TakeToken(r, t)
        PROVE  TypeOK'
    <3>1. tokens[t] \in TokenRow /\ origin[t] \in Origins
      BY <2>8 DEF TypeOK, TakeToken
    <3>2. [phase |-> "check_token", row |-> tokens[t], origin |-> origin[t]] \in Requests
      BY <3>1 DEF Requests
    <3>3. req' \in [Slots -> Requests]
      BY <2>8, <3>2 DEF TypeOK, TakeToken
    <3> QED
      BY <2>8, <3>3 DEF TypeOK, TakeToken, history
  <2>9. ASSUME NEW r \in Slots, CheckToken(r)
        PROVE  TypeOK'
    <3>1. req[r].row.client \in Clients /\ req[r].origin \in Origins
      BY <2>9, Carried DEF CheckToken, TokenRow
    <3>2. [phase |-> "prune_tokens", client |-> req[r].row.client, origin |-> req[r].origin]
            \in Requests
      BY <3>1 DEF Requests
    <3>3. req' \in [Slots -> Requests]
      BY <2>9, <3>2, FinishType DEF TypeOK, CheckToken
    <3> QED
      BY <2>9, <3>3 DEF TypeOK, CheckToken, tables, history
  <2>10. ASSUME NEW r \in Slots, PruneTokens(r)
         PROVE  TypeOK'
    <3>1. req' \in [Slots -> Requests]
      BY <2>10, GotoType DEF PruneTokens
    <3> QED
      BY <2>10, <3>1 DEF TypeOK, PruneTokens, history
  <2>11. ASSUME NEW r \in Slots, NEW t \in Tokens, InsertToken(r, t)
         PROVE  TypeOK'
    <3> DEFINE o == req[r].origin
               n == IF o.line = None THEN [o EXCEPT !.line = t] ELSE o
    <3>1. req' \in [Slots -> Requests]
      BY <2>11, FinishType DEF InsertToken
    <3>2. o \in Origins /\ req[r].client \in Clients
      BY <2>11, Carried DEF InsertToken
    <3>3. n \in Origins /\ n.line \in Tokens
      BY <3>2 DEF Origins
    <3>4. n # NoRow
      BY <3>3 DEF Origins, NoRow
    <3>5. origin' = [origin EXCEPT ![t] = n]
      BY <2>11 DEF InsertToken
    <3>6. origin' \in [Tokens -> Origins \cup {NoRow}]
      BY <3>3, <3>5 DEF TypeOK
    <3>7. o.code \in Codes
      BY <3>2 DEF Origins
    <3>8. redeemed' \in [Codes -> Nat]
      BY <2>11, <3>7 DEF TypeOK, InsertToken
    <3>9. [kind |-> "token", client |-> req[r].client, expires |-> now + TokenTTL] \in TokenRow
      BY <3>2, ClockAssumption DEF TypeOK, TokenRow
    <3>10. tokens' \in [Tokens -> TokenRow \cup {NoRow}]
      BY <2>11, <3>9 DEF TypeOK, InsertToken
    <3>11. \A u \in Tokens : /\ tokens'[u] # NoRow => origin'[u] # NoRow
                             /\ origin'[u] # NoRow => origin'[u].line \in Tokens
      BY <2>11, <3>3, <3>4, <3>5 DEF TypeOK, InsertToken
    <3> HIDE DEF n, o
    <3> QED
      BY <2>11, <3>1, <3>6, <3>8, <3>10, <3>11 DEF TypeOK, InsertToken
  <2>12. ASSUME NEW r \in Slots, Fail(r)
         PROVE  TypeOK'
    <3>1. req' \in [Slots -> Requests]
      BY <2>12, FinishType DEF Fail
    <3> QED
      BY <2>12, <3>1 DEF TypeOK, Fail, tables, history
  <2>13. CASE Tick
    BY <2>13 DEF TypeOK, Tick, tables, history
  <2>14. CASE UNCHANGED vars
    BY <2>14 DEF TypeOK, vars, tables, history
  <2> QED
    BY <2>1, <2>2, <2>3, <2>4, <2>5, <2>6, <2>7, <2>8, <2>9, <2>10, <2>11, <2>12, <2>13, <2>14
    DEF Next
<1> QED
  BY <1>1, <1>2, PTL DEF Spec

-----------------------------------------------------------------------------
(* What every token goes back to.                                             *)

\* A request that is going to issue a token.
Issues(r) == req[r].phase \in {"check_token", "prune_tokens", "insert_token"}

\* Rows are bound to what the owner approved, and so is every copy a request made
\* of one and every token it is about to issue.
ConsentInv ==
  /\ \A x \in Codes : codes[x] # NoRow => codes[x].bind = consent[x]
  /\ \A r \in Slots :
       /\ req[r].phase \in {"delete_code", "check_code"} =>
            req[r].row.bind = consent[req[r].code]
       /\ Issues(r) => req[r].origin.proof = consent[req[r].origin.code]
       /\ req[r].phase = "check_token" =>
            req[r].row.client = consent[req[r].origin.code].client
       /\ req[r].phase \in {"prune_tokens", "insert_token"} =>
            req[r].client = consent[req[r].origin.code].client
  /\ TokensAsConsented

\* What is bound is known, so a code that is issued later is another one.
LEMMA ConsentKnown ==
  ASSUME TypeOK, ConsentInv
  PROVE  /\ \A r \in Slots :
              /\ req[r].phase \in {"delete_code", "check_code"} => consent[req[r].code] # NoRow
              /\ Issues(r) => consent[req[r].origin.code] # NoRow
         /\ \A t \in Tokens : origin[t] # NoRow => consent[origin[t].code] # NoRow
<1>1. \A b \in Bindings : b # NoRow
  BY DEF Bindings, NoRow
<1>2. ASSUME NEW r \in Slots, req[r].phase \in {"delete_code", "check_code"}
      PROVE  consent[req[r].code] # NoRow
  <2>1. req[r].row.bind \in Bindings
    BY <1>2, Carried DEF CodeRow
  <2> QED
    BY <1>1, <1>2, <2>1 DEF ConsentInv
<1>3. ASSUME NEW r \in Slots, Issues(r)
      PROVE  consent[req[r].origin.code] # NoRow
  <2>1. req[r].origin.proof \in Bindings
    BY <1>3, Carried DEF Issues, Origins
  <2> QED
    BY <1>1, <1>3, <2>1 DEF ConsentInv
<1>4. ASSUME NEW t \in Tokens, origin[t] # NoRow
      PROVE  consent[origin[t].code] # NoRow
  <2>1. origin[t].proof \in Bindings
    BY <1>4 DEF TypeOK, Origins
  <2> QED
    BY <1>1, <1>4, <2>1 DEF ConsentInv, TokensAsConsented
<1> QED
  BY <1>2, <1>3, <1>4

\* Every token descends from a consent of the owner and was obtained by presenting
\* exactly what that consent was bound to, through any number of rotations and
\* next to any number of other requests.
THEOREM Consented == Spec => []TokensAsConsented
<1>1. Init => ConsentInv
  BY DEF Init, ConsentInv, TokensAsConsented, Idle, Issues, Stored
<1>2. TypeOK /\ TypeOK' /\ ConsentInv /\ [Next]_vars => ConsentInv'
  <2> SUFFICES ASSUME TypeOK, TypeOK', ConsentInv, [Next]_vars PROVE ConsentInv'
    OBVIOUS
  <2> USE DEF ConsentInv, TokensAsConsented, Stored, Issues
  <2>0. req \in [Slots -> Requests]
    BY DEF TypeOK
  <2>1. ASSUME NEW c \in Clients, NEW uris \in SUBSET Uris, Register(c, uris)
        PROVE  ConsentInv'
    BY <2>1 DEF Register, history
  <2>2. ASSUME NEW r \in Slots, NEW b \in Bindings, Authorize(r, b)
        PROVE  ConsentInv'
    BY <2>0, <2>2 DEF Authorize, tables, history
  <2>3. ASSUME NEW r \in Slots, PruneCodes(r)
        PROVE  ConsentInv'
    BY <2>0, <2>3 DEF PruneCodes, Goto, history
  <2>4. ASSUME NEW r \in Slots, NEW x \in Codes, InsertCode(r, x)
        PROVE  ConsentInv'
    <3>1. /\ codes \in [Codes -> CodeRow \cup {NoRow}]
          /\ consent \in [Codes -> Bindings \cup {NoRow}]
      BY DEF TypeOK
    <3>2. /\ codes' = [codes EXCEPT ![x] =
                [kind |-> "code", bind |-> req[r].bind, expires |-> now + CodeTTL]]
          /\ consent' = [consent EXCEPT ![x] = req[r].bind]
          /\ consent[x] = NoRow
          /\ req' = [req EXCEPT ![r] = Idle]
          /\ tokens' = tokens /\ origin' = origin
      BY <2>4 DEF InsertCode, Finish
    <3>3. \A y \in Codes : consent[y] # NoRow => consent'[y] = consent[y]
      BY <3>1, <3>2
    <3>4. \A y \in Codes : codes'[y] # NoRow => codes'[y].bind = consent'[y]
      BY <3>1, <3>2
    <3>5. ASSUME NEW s \in Slots
          PROVE  /\ req'[s].phase \in {"delete_code", "check_code"} =>
                      req'[s].row.bind = consent'[req'[s].code]
                 /\ Issues(s)' => req'[s].origin.proof = consent'[req'[s].origin.code]
                 /\ req'[s].phase = "check_token" =>
                      req'[s].row.client = consent'[req'[s].origin.code].client
                 /\ req'[s].phase \in {"prune_tokens", "insert_token"} =>
                      req'[s].client = consent'[req'[s].origin.code].client
      <4>1. CASE s = r
        BY <2>0, <3>2, <4>1 DEF Idle
      <4>2. CASE s # r
        <5>1. req'[s] = req[s]
          BY <2>0, <3>2, <4>2
        <5>2. req[s].phase \in {"delete_code", "check_code"} =>
                req[s].code \in Codes /\ consent[req[s].code] # NoRow
          BY Carried, ConsentKnown
        <5>3. Issues(s) => req[s].origin.code \in Codes /\ consent[req[s].origin.code] # NoRow
          BY Carried, ConsentKnown DEF Origins
        <5> QED
          BY <3>3, <5>1, <5>2, <5>3
      <4> QED
        BY <4>1, <4>2
    <3>6. \A t \in Tokens : origin[t] # NoRow =>
            origin[t].code \in Codes /\ consent'[origin[t].code] = consent[origin[t].code]
      BY <3>3, ConsentKnown DEF TypeOK, Origins
    <3> QED
      BY <3>2, <3>4, <3>5, <3>6 DEF TypeOK
  <2>5. ASSUME NEW r \in Slots, NEW x \in Codes, NEW proof \in Bindings, ReadCode(r, x, proof)
        PROVE  ConsentInv'
    BY <2>0, <2>5 DEF ReadCode, tables, history
  <2>6. ASSUME NEW r \in Slots, DeleteCode(r)
        PROVE  ConsentInv'
    BY <2>0, <2>6 DEF TypeOK, DeleteCode, Goto, history
  <2>7. ASSUME NEW r \in Slots, CheckCode(r)
        PROVE  ConsentInv'
    <3>1. CASE Accepted(req[r].row, req[r].proof)
      <4>1. /\ req[r].row \in CodeRow /\ req[r].proof \in Bindings /\ req[r].code \in Codes
            /\ req[r].row.bind = consent[req[r].code]
        BY <2>7, Carried DEF CheckCode
      <4>2. req[r].row.bind = req[r].proof
        BY <3>1, <4>1 DEF Accepted, Bindings, CodeRow
      <4>3. req' = [req EXCEPT ![r] =
                [phase |-> "prune_tokens", client |-> req[r].proof.client,
                 origin |-> [kind |-> "origin", code |-> req[r].code,
                             proof |-> req[r].proof, line |-> None]]]
        BY <2>7, <3>1 DEF CheckCode
      <4> QED
        BY <2>0, <2>7, <4>1, <4>2, <4>3 DEF CheckCode, tables, history
    <3>2. CASE ~Accepted(req[r].row, req[r].proof)
      BY <2>0, <2>7, <3>2 DEF CheckCode, Finish, Idle, tables, history
    <3> QED
      BY <3>1, <3>2
  <2>8. ASSUME NEW r \in Slots, NEW t \in Tokens, TakeToken(r, t)
        PROVE  ConsentInv'
    BY <2>0, <2>8 DEF TypeOK, TakeToken, history
  <2>9. ASSUME NEW r \in Slots, CheckToken(r)
        PROVE  ConsentInv'
    BY <2>0, <2>9 DEF CheckToken, Finish, Idle, tables, history
  <2>10. ASSUME NEW r \in Slots, PruneTokens(r)
         PROVE  ConsentInv'
    BY <2>0, <2>10 DEF PruneTokens, Goto, history
  <2>11. ASSUME NEW r \in Slots, NEW t \in Tokens, InsertToken(r, t)
         PROVE  ConsentInv'
    <3> DEFINE o == req[r].origin
               n == IF o.line = None THEN [o EXCEPT !.line = t] ELSE o
    <3>1. o \in Origins
      BY <2>11, Carried DEF InsertToken
    <3>2. n.proof = o.proof /\ n.code = o.code
      BY <3>1 DEF Origins
    <3>3. origin' = [origin EXCEPT ![t] = n]
      BY <2>11 DEF InsertToken
    <3>4. /\ o.proof = consent[o.code]
          /\ req[r].client = consent[o.code].client
      BY <2>11 DEF InsertToken
    <3>5. /\ tokens' = [tokens EXCEPT ![t] =
                  [kind |-> "token", client |-> req[r].client, expires |-> now + TokenTTL]]
          /\ codes' = codes /\ consent' = consent
          /\ req' = [req EXCEPT ![r] = Idle]
      BY <2>11 DEF InsertToken, Finish
    <3> HIDE DEF n, o
    <3>6. \A u \in Tokens :
            origin'[u] # NoRow =>
              /\ origin'[u].proof = consent[origin'[u].code]
              /\ tokens'[u] # NoRow => tokens'[u].client = consent[origin'[u].code].client
      BY <3>2, <3>3, <3>4, <3>5 DEF TypeOK
    <3> QED
      BY <2>0, <3>5, <3>6 DEF Idle
  <2>12. ASSUME NEW r \in Slots, Fail(r)
         PROVE  ConsentInv'
    BY <2>0, <2>12 DEF Fail, Finish, Idle, tables, history
  <2>13. CASE Tick
    BY <2>13 DEF Tick, tables, history
  <2>14. CASE UNCHANGED vars
    BY <2>14 DEF vars, tables, history
  <2> QED
    BY <2>1, <2>2, <2>3, <2>4, <2>5, <2>6, <2>7, <2>8, <2>9, <2>10, <2>11, <2>12, <2>13, <2>14
    DEF Next
<1>3. ConsentInv => TokensAsConsented
  BY DEF ConsentInv
<1> QED
  BY <1>1, <1>2, <1>3, TypeCorrect, PTL DEF Spec

-----------------------------------------------------------------------------
(* Rotation never forks.                                                      *)

\* A chain is named by a token that has been issued, so the first token of a new
\* chain gives it a new name.
ChainInv ==
  /\ ChainIsSingle
  /\ \A t \in Tokens : origin[t] # NoRow => origin[origin[t].line] # NoRow
  /\ \A r \in Slots : Continues(r) # None => origin[Continues(r)] # NoRow

\* A step that stores no token, and after which requests continue at most the
\* chains they continued, keeps the chains single.
LEMMA FewerKeepChains ==
  ASSUME TypeOK, ChainInv, UNCHANGED origin,
         \A t \in Tokens : tokens'[t] # NoRow => tokens[t] # NoRow,
         \A r \in Slots : Continues(r)' \in {Continues(r), None}
  PROVE  ChainInv'
<1>1. \A t \in Tokens : Stored(t)' => Stored(t)
  BY DEF Stored
<1>2. ChainIsSingle'
  <2>1. \A t, u \in Tokens :
          Stored(t)' /\ Stored(u)' /\ origin'[t].line = origin'[u].line => t = u
    BY <1>1 DEF ChainInv, ChainIsSingle
  <2>2. \A r \in Slots, t \in Tokens : Stored(t)' => Continues(r)' # origin'[t].line
    <3> SUFFICES ASSUME NEW r \in Slots, NEW t \in Tokens, Stored(t)'
                 PROVE  Continues(r)' # origin[t].line
      OBVIOUS
    <3>1. origin[t].line \in Tokens
      BY <1>1 DEF TypeOK, Stored
    <3> QED
      BY <1>1, <3>1, NoneAssumption DEF ChainInv, ChainIsSingle
  <2>3. \A r, s \in Slots : Continues(r)' # None /\ Continues(r)' = Continues(s)' => r = s
    BY DEF ChainInv, ChainIsSingle
  <2> QED
    BY <2>1, <2>2, <2>3 DEF ChainIsSingle
<1> QED
  BY <1>2 DEF ChainInv

\* However requests interleave and wherever they fail, of the tokens descending
\* from one exchange at most one is redeemable or about to be issued.
THEOREM SingleChain == Spec => []ChainIsSingle
<1>1. Init => ChainInv
  BY DEF Init, ChainInv, ChainIsSingle, Continues, Stored, Idle
<1>2. TypeOK /\ TypeOK' /\ ChainInv /\ [Next]_vars => ChainInv'
  <2> SUFFICES ASSUME TypeOK, TypeOK', ChainInv, [Next]_vars PROVE ChainInv'
    OBVIOUS
  <2>0. req \in [Slots -> Requests]
    BY DEF TypeOK
  <2>1. ASSUME NEW r \in Slots,
               \/ \E b \in Bindings : Authorize(r, b)
               \/ \E x \in Codes, proof \in Bindings : ReadCode(r, x, proof)
               \/ \E x \in Codes : InsertCode(r, x)
               \/ Fail(r)
        PROVE  ChainInv'
    <3>1. tokens' = tokens /\ origin' = origin
      BY <2>1 DEF Authorize, ReadCode, InsertCode, Fail, tables, history
    <3>2. \A s \in Slots : Continues(s)' \in {Continues(s), None}
      BY <2>0, <2>1 DEF Authorize, ReadCode, InsertCode, Fail, Finish, Continues, Idle
    <3> QED
      BY <3>1, <3>2, FewerKeepChains
  <2>2. ASSUME NEW r \in Slots, PruneCodes(r) \/ DeleteCode(r)
        PROVE  ChainInv'
    <3>1. tokens' = tokens /\ origin' = origin
      BY <2>2 DEF PruneCodes, DeleteCode, history
    <3>2. \A s \in Slots : Continues(s)' \in {Continues(s), None}
      <4>1. req'[r].phase \in {"insert_code", "check_code"}
        BY <2>2, GotoType DEF PruneCodes, DeleteCode
      <4>2. \A s \in Slots \ {r} : req'[s] = req[s]
        BY <2>0, <2>2 DEF PruneCodes, DeleteCode, Goto
      <4> QED
        BY <4>1, <4>2 DEF Continues
    <3> QED
      BY <3>1, <3>2, FewerKeepChains
  <2>3. ASSUME NEW r \in Slots, CheckCode(r)
        PROVE  ChainInv'
    <3>1. tokens' = tokens /\ origin' = origin
      BY <2>3 DEF CheckCode, tables, history
    <3>2. \A s \in Slots : Continues(s)' \in {Continues(s), None}
      BY <2>0, <2>3 DEF CheckCode, Finish, Continues, Idle
    <3> QED
      BY <3>1, <3>2, FewerKeepChains
  <2>4. ASSUME NEW r \in Slots, NEW t \in Tokens, TakeToken(r, t)
        PROVE  ChainInv'
    <3>1. /\ Stored(t) /\ origin[t].line \in Tokens /\ origin' = origin
          /\ Continues(r)' = origin[t].line
      BY <2>0, <2>4 DEF TypeOK, TakeToken, Stored, Continues, history
    <3>2. \A s \in Slots \ {r} : Continues(s)' = Continues(s)
      BY <2>0, <2>4 DEF TakeToken, Continues
    <3>3. \A u \in Tokens : Stored(u)' <=> Stored(u) /\ u # t
      BY <2>4 DEF TypeOK, TakeToken, Stored
    <3>4. ChainIsSingle'
      <4>1. \A u, v \in Tokens :
              Stored(u)' /\ Stored(v)' /\ origin'[u].line = origin'[v].line => u = v
        BY <3>1, <3>3 DEF ChainInv, ChainIsSingle
      <4>2. \A s \in Slots, u \in Tokens : Stored(u)' => Continues(s)' # origin'[u].line
        BY <3>1, <3>2, <3>3 DEF ChainInv, ChainIsSingle
      <4>3. \A s, q \in Slots : Continues(s)' # None /\ Continues(s)' = Continues(q)' => s = q
        BY <3>1, <3>2 DEF ChainInv, ChainIsSingle
      <4> QED
        BY <4>1, <4>2, <4>3 DEF ChainIsSingle
    <3>5. origin[t] # NoRow
      BY <3>1 DEF TypeOK, Stored
    <3> QED
      BY <3>1, <3>2, <3>4, <3>5 DEF ChainInv
  <2>5. ASSUME NEW r \in Slots, CheckToken(r)
        PROVE  ChainInv'
    <3>1. tokens' = tokens /\ origin' = origin
      BY <2>5 DEF CheckToken, tables, history
    <3>2. \A s \in Slots : Continues(s)' \in {Continues(s), None}
      BY <2>0, <2>5 DEF CheckToken, Finish, Continues, Idle
    <3> QED
      BY <3>1, <3>2, FewerKeepChains
  <2>6. ASSUME NEW r \in Slots, PruneTokens(r)
        PROVE  ChainInv'
    <3>1. origin' = origin /\ \A t \in Tokens : tokens'[t] # NoRow => tokens[t] # NoRow
      BY <2>6 DEF PruneTokens, history
    <3>2. \A s \in Slots : Continues(s)' \in {Continues(s), None}
      BY <2>0, <2>6 DEF PruneTokens, Goto, Continues
    <3> QED
      BY <3>1, <3>2, FewerKeepChains
  <2>7. ASSUME NEW r \in Slots, NEW t \in Tokens, InsertToken(r, t)
        PROVE  ChainInv'
    <3> DEFINE o == req[r].origin
               n == IF o.line = None THEN [o EXCEPT !.line = t] ELSE o
    <3>1. o \in Origins
      BY <2>7, Carried DEF InsertToken
    <3>2. n \in Origins /\ n # NoRow
      BY <3>1 DEF Origins, NoRow
    <3>3. \/ o.line = None /\ n.line = t
          \/ o.line # None /\ n.line = o.line /\ Continues(r) = o.line
      BY <2>7, <3>1 DEF Origins, InsertToken, Continues
    <3>4. origin' = [origin EXCEPT ![t] = n] /\ origin[t] = NoRow
      BY <2>7 DEF InsertToken
    <3>5. /\ Continues(r)' = None
          /\ \A s \in Slots \ {r} : Continues(s)' = Continues(s)
      BY <2>0, <2>7 DEF InsertToken, Finish, Continues, Idle
    <3>6. \A u \in Tokens : Stored(u)' => u = t \/ Stored(u)
      BY <2>7 DEF TypeOK, InsertToken, Stored
    <3> HIDE DEF n, o
    <3>7. /\ \A u \in Tokens \ {t} : origin'[u] = origin[u]
          /\ origin'[t] = n
      BY <3>4 DEF TypeOK
    <3>8. \A u \in Tokens : Stored(u) => u # t /\ origin[u] # NoRow /\ origin[u].line # n.line
      <4> SUFFICES ASSUME NEW u \in Tokens, Stored(u)
                   PROVE  u # t /\ origin[u] # NoRow /\ origin[u].line # n.line
        OBVIOUS
      <4>1. origin[u] # NoRow /\ u # t
        BY <3>4 DEF TypeOK, Stored
      <4> QED
        BY <3>3, <3>4, <4>1 DEF ChainInv, ChainIsSingle
    <3>9. \A s \in Slots \ {r} : Continues(s) # n.line
      BY <3>3, <3>4, NoneAssumption DEF ChainInv, ChainIsSingle
    <3>10. n.line \in Tokens
      BY <3>1, <3>3 DEF Origins
    <3>11. ChainIsSingle'
      <4>1. \A u, v \in Tokens :
              Stored(u)' /\ Stored(v)' /\ origin'[u].line = origin'[v].line => u = v
        BY <3>6, <3>7, <3>8 DEF ChainInv, ChainIsSingle
      <4>2. \A s \in Slots, u \in Tokens : Stored(u)' => Continues(s)' # origin'[u].line
        <5> SUFFICES ASSUME NEW s \in Slots, NEW u \in Tokens, Stored(u)'
                     PROVE  Continues(s)' # origin'[u].line
          OBVIOUS
        <5>1. origin'[u].line \in Tokens
          BY <3>6, <3>7, <3>8, <3>10 DEF TypeOK
        <5> QED
          BY <3>5, <3>6, <3>7, <3>8, <3>9, <5>1, NoneAssumption DEF ChainInv, ChainIsSingle
      <4>3. \A s, q \in Slots : Continues(s)' # None /\ Continues(s)' = Continues(q)' => s = q
        BY <3>5 DEF ChainInv, ChainIsSingle
      <4> QED
        BY <4>1, <4>2, <4>3 DEF ChainIsSingle
    <3>12. \A u \in Tokens : origin'[u] # NoRow => origin'[origin'[u].line] # NoRow
      <4> SUFFICES ASSUME NEW u \in Tokens, origin'[u] # NoRow
                   PROVE  origin'[origin'[u].line] # NoRow
        OBVIOUS
      <4>1. CASE u # t
        BY <3>2, <3>7, <4>1 DEF ChainInv, TypeOK
      <4>2. CASE u = t
        BY <3>2, <3>3, <3>7, <3>10, <4>2 DEF ChainInv
      <4> QED
        BY <4>1, <4>2
    <3>13. \A s \in Slots : Continues(s)' # None => origin'[Continues(s)'] # NoRow
      <4> SUFFICES ASSUME NEW s \in Slots, Continues(s)' # None
                   PROVE  origin'[Continues(s)'] # NoRow
        OBVIOUS
      <4>1. s # r /\ Continues(s)' = Continues(s)
        BY <3>5
      <4>2. Continues(s) \in Tokens
        BY <4>1, Carried DEF Continues, Origins
      <4> QED
        BY <3>4, <3>7, <4>1, <4>2 DEF ChainInv
    <3> QED
      BY <3>11, <3>12, <3>13 DEF ChainInv
  <2>8. ASSUME \/ \E c \in Clients, uris \in SUBSET Uris : Register(c, uris)
               \/ Tick
               \/ UNCHANGED vars
        PROVE  ChainInv'
    <3>1. req' = req /\ tokens' = tokens /\ origin' = origin
      BY <2>8 DEF Register, Tick, vars, tables, history
    <3>2. \A s \in Slots : Continues(s)' \in {Continues(s), None}
      BY <3>1 DEF Continues
    <3> QED
      BY <3>1, <3>2, FewerKeepChains
  <2> QED
    BY <2>1, <2>2, <2>3, <2>4, <2>5, <2>6, <2>7, <2>8 DEF Next
<1>3. ChainInv => ChainIsSingle
  BY DEF ChainInv
<1> QED
  BY <1>1, <1>2, <1>3, TypeCorrect, PTL DEF Spec

-----------------------------------------------------------------------------
(* How often a code can be redeemed.                                          *)

\* While a code's row is there nobody has redeemed it, and those who have read it
\* have yet to delete it.
ReuseInv ==
  /\ CodeReuseBounded
  /\ \A x \in Codes :
       /\ consent[x] = NoRow => redeemed[x] = 0 /\ Redeeming(x) = {}
       /\ codes[x] # NoRow =>
            redeemed[x] = 0 /\ \A r \in Redeeming(x) : req[r].phase = "delete_code"
  /\ \A r \in Slots : req[r].phase = "check_token" => req[r].origin.line # None

\* Requests that redeem a code are threads: there are finitely many.
LEMMA RedeemingFinite ==
  ASSUME NEW x
  PROVE  /\ Cardinality(Slots) \in Nat
         /\ IsFiniteSet(Redeeming(x)) /\ Cardinality(Redeeming(x)) \in Nat
         /\ Cardinality(Redeeming(x)) <= Cardinality(Slots)
         /\ Cardinality(Redeeming(x)') \in Nat
         /\ Cardinality(Redeeming(x)') <= Cardinality(Slots)
<1>1. Redeeming(x) \subseteq Slots /\ Redeeming(x)' \subseteq Slots
  BY DEF Redeeming
<1> QED
  BY <1>1, SlotsAssumption, FS_Subset, FS_CardinalityType

\* A step that redeems nothing, stores no code and lets no new request redeem one
\* keeps the bound.
LEMMA FewerKeepBound ==
  ASSUME TypeOK, ReuseInv, UNCHANGED <<redeemed, consent>>,
         \A x \in Codes : codes'[x] # NoRow => codes[x] # NoRow,
         \A x \in Codes : Redeeming(x)' \subseteq Redeeming(x),
         \A x \in Codes : codes'[x] # NoRow =>
           \A r \in Redeeming(x)' : req[r].phase = "delete_code" => req'[r].phase = "delete_code",
         \A r \in Slots : req'[r].phase = "check_token" => req'[r].origin.line # None
  PROVE  ReuseInv'
<1>1. ASSUME NEW x \in Codes
      PROVE  redeemed'[x] + Cardinality(Redeeming(x)') <= Cardinality(Slots)
  <2>1. Cardinality(Redeeming(x)') <= Cardinality(Redeeming(x))
    BY RedeemingFinite, FS_Subset
  <2>2. redeemed[x] + Cardinality(Redeeming(x)) <= Cardinality(Slots) /\ redeemed[x] \in Nat
    BY DEF ReuseInv, CodeReuseBounded, TypeOK
  <2> QED
    BY <2>1, <2>2, RedeemingFinite
<1>2. CodeReuseBounded'
  BY <1>1 DEF CodeReuseBounded
<1>3. ASSUME NEW x \in Codes
      PROVE  /\ consent'[x] = NoRow => redeemed'[x] = 0 /\ Redeeming(x)' = {}
             /\ codes'[x] # NoRow =>
                  redeemed'[x] = 0 /\ \A r \in Redeeming(x)' : req'[r].phase = "delete_code"
  BY DEF ReuseInv
<1> QED
  BY <1>2, <1>3 DEF ReuseInv

\* A code may be redeemed more than once, but never more often than there are
\* threads that can have read it before the first of them deleted it.
THEOREM ReuseBounded == Spec => []CodeReuseBounded
<1>1. Init => ReuseInv
  <2> SUFFICES ASSUME Init PROVE ReuseInv
    OBVIOUS
  <2>1. \A x \in Codes : Redeeming(x) = {}
    BY DEF Init, Redeeming, Idle
  <2>2. Cardinality({}) = 0
    BY FS_EmptySet
  <2> QED
    BY <2>1, <2>2, RedeemingFinite DEF Init, ReuseInv, CodeReuseBounded, Idle
<1>2. TypeOK /\ ReuseInv /\ [Next]_vars => ReuseInv'
  <2> SUFFICES ASSUME TypeOK, ReuseInv, [Next]_vars PROVE ReuseInv'
    OBVIOUS
  <2>0. req \in [Slots -> Requests]
    BY DEF TypeOK
  <2>1. ASSUME NEW r \in Slots,
               \/ \E b \in Bindings : Authorize(r, b)
               \/ Fail(r)
               \/ CheckToken(r)
               \/ CheckCode(r)
        PROVE  ReuseInv'
    <3>1. UNCHANGED <<redeemed, consent, codes>>
      BY <2>1 DEF Authorize, Fail, CheckToken, CheckCode, tables, history
    <3>2. \A s \in Slots \ {r} : req'[s] = req[s]
      BY <2>0, <2>1 DEF Authorize, Fail, CheckToken, CheckCode, Finish
    <3>3. req'[r].phase \in {"prune_codes", "idle", "prune_tokens"}
      BY <2>0, <2>1 DEF Authorize, Fail, CheckToken, CheckCode, Finish, Idle
    <3>4. \A x \in Codes : r \in Redeeming(x)' => r \in Redeeming(x) /\ req[r].phase = "check_code"
      <4> SUFFICES ASSUME NEW x \in Codes, r \in Redeeming(x)'
                   PROVE  r \in Redeeming(x) /\ req[r].phase = "check_code"
        OBVIOUS
      <4>1. /\ req'[r].phase = "prune_tokens"
            /\ req'[r].origin.line = None /\ req'[r].origin.code = x
        BY <3>3 DEF Redeeming
      <4>2. CASE CheckToken(r)
        <5>1. req'[r].origin = req[r].origin
          BY <2>0, <4>1, <4>2 DEF CheckToken, Finish, Idle
        <5> QED
          BY <4>1, <4>2, <5>1 DEF CheckToken, ReuseInv
      <4>3. CASE CheckCode(r)
        BY <2>0, <4>1, <4>3 DEF CheckCode, Finish, Idle, Redeeming
      <4> QED
        BY <2>0, <2>1, <4>1, <4>2, <4>3 DEF Authorize, Fail, Finish, Idle
    <3>5. \A x \in Codes : Redeeming(x)' \subseteq Redeeming(x)
      BY <3>2, <3>4 DEF Redeeming
    <3>6. \A s \in Slots : req'[s].phase = "check_token" => req'[s].origin.line # None
      BY <3>2, <3>3 DEF ReuseInv
    <3>7. \A x \in Codes : codes'[x] # NoRow =>
            \A s \in Redeeming(x)' : req[s].phase = "delete_code" => req'[s].phase = "delete_code"
      BY <3>2, <3>4 DEF Redeeming
    <3> QED
      BY <3>1, <3>5, <3>6, <3>7, FewerKeepBound
  <2>2. ASSUME NEW r \in Slots, PruneCodes(r) \/ PruneTokens(r)
        PROVE  ReuseInv'
    <3>1. /\ UNCHANGED <<redeemed, consent>>
          /\ \A x \in Codes : codes'[x] # NoRow => codes[x] # NoRow
      BY <2>2 DEF PruneCodes, PruneTokens, history
    <3>2. \A s \in Slots \ {r} : req'[s] = req[s]
      BY <2>0, <2>2 DEF PruneCodes, PruneTokens, Goto
    <3>3. \/ req[r].phase = "prune_codes" /\ req'[r].phase = "insert_code"
          \/ /\ req[r].phase = "prune_tokens" /\ req'[r].phase = "insert_token"
             /\ req'[r].origin = req[r].origin
      <4>1. CASE PruneCodes(r)
        BY <4>1, GotoType DEF PruneCodes
      <4>2. CASE PruneTokens(r)
        BY <2>0, <4>2, GotoType DEF PruneTokens, Goto
      <4> QED
        BY <2>2, <4>1, <4>2
    <3>4. \A x \in Codes : Redeeming(x)' \subseteq Redeeming(x)
      BY <3>2, <3>3 DEF Redeeming
    <3>5. \A s \in Slots : req'[s].phase = "check_token" => req'[s].origin.line # None
      BY <3>2, <3>3 DEF ReuseInv
    <3>6. \A x \in Codes : codes'[x] # NoRow =>
            \A s \in Redeeming(x)' : req[s].phase = "delete_code" => req'[s].phase = "delete_code"
      BY <3>2, <3>3 DEF Redeeming
    <3> QED
      BY <3>1, <3>4, <3>5, <3>6, FewerKeepBound
  <2>3. ASSUME NEW r \in Slots, NEW y \in Codes, InsertCode(r, y)
        PROVE  ReuseInv'
    <3>1. /\ redeemed' = redeemed /\ req' = [req EXCEPT ![r] = Idle]
          /\ consent[y] = NoRow
          /\ \A x \in Codes \ {y} : codes'[x] = codes[x] /\ consent'[x] = consent[x]
      BY <2>3 DEF TypeOK, InsertCode, Finish
    <3>2. \A x \in Codes : Redeeming(x)' \subseteq Redeeming(x)
      BY <2>0, <3>1 DEF Redeeming, Idle
    <3>3. redeemed[y] = 0 /\ Redeeming(y)' = {}
      BY <3>1, <3>2 DEF ReuseInv
    <3>4. CodeReuseBounded'
      <4> SUFFICES ASSUME NEW x \in Codes
                   PROVE  redeemed[x] + Cardinality(Redeeming(x)') <= Cardinality(Slots)
        BY <3>1 DEF CodeReuseBounded
      <4>1. Cardinality(Redeeming(x)') <= Cardinality(Redeeming(x))
        BY <3>2, RedeemingFinite, FS_Subset
      <4>2. redeemed[x] + Cardinality(Redeeming(x)) <= Cardinality(Slots) /\ redeemed[x] \in Nat
        BY DEF ReuseInv, CodeReuseBounded, TypeOK
      <4> QED
        BY <4>1, <4>2, RedeemingFinite
    <3>5. ASSUME NEW x \in Codes
          PROVE  /\ consent'[x] = NoRow => redeemed'[x] = 0 /\ Redeeming(x)' = {}
                 /\ codes'[x] # NoRow =>
                      redeemed'[x] = 0 /\ \A s \in Redeeming(x)' : req'[s].phase = "delete_code"
      <4>1. CASE x = y
        BY <3>1, <3>3, <4>1
      <4>2. CASE x # y
        <5>1. \A s \in Redeeming(x)' : s # r
          BY <2>0, <3>1 DEF Redeeming, Idle
        <5> QED
          BY <2>0, <3>1, <3>2, <4>2, <5>1 DEF ReuseInv, Redeeming
      <4> QED
        BY <4>1, <4>2
    <3> QED
      BY <2>0, <3>1, <3>4, <3>5 DEF ReuseInv, Idle
  <2>4. ASSUME NEW r \in Slots, NEW y \in Codes, NEW proof \in Bindings, ReadCode(r, y, proof)
        PROVE  ReuseInv'
    <3>1. /\ UNCHANGED <<redeemed, consent, codes>>
          /\ codes[y] # NoRow
          /\ req'[r].phase = "delete_code" /\ req'[r].code = y
          /\ \A s \in Slots \ {r} : req'[s] = req[s]
      BY <2>0, <2>4 DEF ReadCode, tables, history
    <3>2. \A x \in Codes \ {y} : Redeeming(x)' \subseteq Redeeming(x)
      BY <3>1 DEF Redeeming
    <3>3. CodeReuseBounded'
      <4> SUFFICES ASSUME NEW x \in Codes
                   PROVE  redeemed[x] + Cardinality(Redeeming(x)') <= Cardinality(Slots)
        BY <3>1 DEF CodeReuseBounded
      <4>1. CASE x = y
        BY <3>1, <4>1, RedeemingFinite DEF ReuseInv
      <4>2. CASE x # y
        <5>1. Cardinality(Redeeming(x)') <= Cardinality(Redeeming(x))
          BY <3>2, <4>2, RedeemingFinite, FS_Subset
        <5>2. redeemed[x] + Cardinality(Redeeming(x)) <= Cardinality(Slots) /\ redeemed[x] \in Nat
          BY DEF ReuseInv, CodeReuseBounded, TypeOK
        <5> QED
          BY <5>1, <5>2, RedeemingFinite
      <4> QED
        BY <4>1, <4>2
    <3>4. ASSUME NEW x \in Codes
          PROVE  /\ consent'[x] = NoRow => redeemed'[x] = 0 /\ Redeeming(x)' = {}
                 /\ codes'[x] # NoRow =>
                      redeemed'[x] = 0 /\ \A s \in Redeeming(x)' : req'[s].phase = "delete_code"
      <4>1. \A s \in Redeeming(x)' : s = r \/ s \in Redeeming(x)
        BY <3>1 DEF Redeeming
      <4>2. consent[y] # NoRow
        BY <3>1 DEF TypeOK
      <4> QED
        BY <3>1, <3>2, <4>1, <4>2 DEF ReuseInv, Redeeming
    <3>5. \A s \in Slots : req'[s].phase = "check_token" => req'[s].origin.line # None
      BY <3>1 DEF ReuseInv
    <3> QED
      BY <3>3, <3>4, <3>5 DEF ReuseInv
  <2>5. ASSUME NEW r \in Slots, DeleteCode(r)
        PROVE  ReuseInv'
    <3>1. /\ UNCHANGED <<redeemed, consent>>
          /\ req[r].phase = "delete_code" /\ req[r].code \in Codes
          /\ codes' = [codes EXCEPT ![req[r].code] = NoRow]
      BY <2>5, Carried DEF DeleteCode, history
    <3>2. /\ req'[r].phase = "check_code" /\ req'[r].code = req[r].code
          /\ \A s \in Slots \ {r} : req'[s] = req[s]
      BY <2>0, <2>5, GotoType DEF DeleteCode, Goto
    <3>3. \A x \in Codes : Redeeming(x)' \subseteq Redeeming(x)
      BY <3>1, <3>2 DEF Redeeming
    <3>4. \A x \in Codes : codes'[x] # NoRow => codes[x] # NoRow /\ x # req[r].code
      BY <3>1 DEF TypeOK
    <3>5. \A x \in Codes : codes'[x] # NoRow =>
            \A s \in Redeeming(x)' : req[s].phase = "delete_code" => req'[s].phase = "delete_code"
      BY <3>2, <3>4 DEF Redeeming
    <3>6. \A s \in Slots : req'[s].phase = "check_token" => req'[s].origin.line # None
      BY <3>2 DEF ReuseInv
    <3> QED
      BY <3>1, <3>3, <3>4, <3>5, <3>6, FewerKeepBound
  <2>6. ASSUME NEW r \in Slots, NEW t \in Tokens, TakeToken(r, t)
        PROVE  ReuseInv'
    <3>1. /\ UNCHANGED <<redeemed, consent, codes>>
          /\ req'[r].phase = "check_token" /\ req'[r].origin = origin[t]
          /\ \A s \in Slots \ {r} : req'[s] = req[s]
      BY <2>0, <2>6 DEF TakeToken, history
    <3>2. origin[t].line # None
      BY <2>6, NoneAssumption DEF TypeOK, TakeToken
    <3>3. \A x \in Codes : Redeeming(x)' \subseteq Redeeming(x)
      BY <3>1 DEF Redeeming
    <3>4. \A x \in Codes : \A s \in Redeeming(x)' : req'[s] = req[s]
      BY <3>1 DEF Redeeming
    <3>5. \A s \in Slots : req'[s].phase = "check_token" => req'[s].origin.line # None
      BY <3>1, <3>2 DEF ReuseInv
    <3> QED
      BY <3>1, <3>3, <3>4, <3>5, FewerKeepBound
  <2>7. ASSUME NEW r \in Slots, NEW t \in Tokens, InsertToken(r, t)
        PROVE  ReuseInv'
    <3>1. /\ req[r].origin \in Origins /\ req[r].origin.code \in Codes
          /\ UNCHANGED <<codes, consent>>
          /\ req' = [req EXCEPT ![r] = Idle] /\ req[r].phase = "insert_token"
      BY <2>7, Carried DEF InsertToken, Finish, Origins
    <3>2. PICK y \in Codes : y = req[r].origin.code
      BY <3>1
    <3>3. \A x \in Codes : Redeeming(x)' = Redeeming(x) \ {r}
      BY <2>0, <3>1 DEF Redeeming, Idle
    <3>4. \A x \in Codes : Redeeming(x)' \subseteq Redeeming(x)
      BY <3>3
    <3>5. \A s \in Slots : req'[s].phase = "check_token" => req'[s].origin.line # None
      BY <2>0, <3>1 DEF ReuseInv, Idle
    <3>6. \A x \in Codes : \A s \in Redeeming(x)' : req'[s] = req[s]
      BY <2>0, <3>1, <3>3 DEF Redeeming
    <3>7. CASE req[r].origin.line # None
      <4>1. redeemed' = redeemed
        BY <2>7, <3>7 DEF InsertToken
      <4> QED
        BY <3>1, <3>4, <3>5, <3>6, <4>1, FewerKeepBound
    <3>8. CASE req[r].origin.line = None
      <4>1. redeemed' = [redeemed EXCEPT ![y] = @ + 1]
        BY <2>7, <3>2, <3>8 DEF InsertToken
      <4>2. r \in Redeeming(y)
        BY <3>1, <3>2, <3>8 DEF Redeeming
      <4>3. codes[y] = NoRow /\ consent[y] # NoRow
        BY <3>1, <4>2 DEF ReuseInv
      <4>4. CodeReuseBounded'
        <5> SUFFICES ASSUME NEW x \in Codes
                     PROVE  redeemed'[x] + Cardinality(Redeeming(x)') <= Cardinality(Slots)
          BY DEF CodeReuseBounded
        <5>1. redeemed[x] + Cardinality(Redeeming(x)) <= Cardinality(Slots) /\ redeemed[x] \in Nat
          BY DEF ReuseInv, CodeReuseBounded, TypeOK
        <5>2. CASE x = y
          <6>1. Cardinality(Redeeming(x)') = Cardinality(Redeeming(x)) - 1
            BY <3>3, <4>2, <5>2, RedeemingFinite, FS_RemoveElement
          <6>2. redeemed'[x] = redeemed[x] + 1
            BY <4>1, <5>2 DEF TypeOK
          <6> QED
            BY <5>1, <6>1, <6>2, RedeemingFinite
        <5>3. CASE x # y
          <6>1. Cardinality(Redeeming(x)') <= Cardinality(Redeeming(x))
            BY <3>4, RedeemingFinite, FS_Subset
          <6>2. redeemed'[x] = redeemed[x]
            BY <4>1, <5>3 DEF TypeOK
          <6> QED
            BY <5>1, <6>1, <6>2, RedeemingFinite
        <5> QED
          BY <5>2, <5>3
      <4>5. \A x \in Codes \ {y} : redeemed'[x] = redeemed[x]
        BY <4>1 DEF TypeOK
      <4>6. ASSUME NEW x \in Codes
            PROVE  /\ consent'[x] = NoRow => redeemed'[x] = 0 /\ Redeeming(x)' = {}
                   /\ codes'[x] # NoRow =>
                        redeemed'[x] = 0 /\ \A s \in Redeeming(x)' : req'[s].phase = "delete_code"
        <5>1. CASE x = y
          BY <3>1, <4>3, <5>1
        <5>2. CASE x # y
          BY <3>1, <3>4, <3>6, <4>5, <5>2 DEF ReuseInv
        <5> QED
          BY <5>1, <5>2
      <4> QED
        BY <3>5, <4>4, <4>6 DEF ReuseInv
    <3> QED
      BY <3>7, <3>8
  <2>8. ASSUME \/ \E c \in Clients, uris \in SUBSET Uris : Register(c, uris)
               \/ Tick
               \/ UNCHANGED vars
        PROVE  ReuseInv'
    <3>1. req' = req /\ codes' = codes /\ consent' = consent /\ redeemed' = redeemed
      BY <2>8 DEF Register, Tick, vars, tables, history
    <3> QED
      BY <3>1 DEF ReuseInv, CodeReuseBounded, Redeeming
  <2> QED
    BY <2>1, <2>2, <2>3, <2>4, <2>5, <2>6, <2>7, <2>8 DEF Next
<1>3. ReuseInv => CodeReuseBounded
  BY DEF ReuseInv
<1> QED
  BY <1>1, <1>2, <1>3, TypeCorrect, PTL DEF Spec

-----------------------------------------------------------------------------
(* What is never taken away.                                                  *)

\* No step but the consumption of a code takes it from the table while it is valid,
\* whichever codes are being issued and cleaned up next to it.
THEOREM LiveCodes == Spec => LiveCodesKept
<1>1. TypeOK /\ [Next]_vars => [LiveCodesStay]_vars
  <2> SUFFICES ASSUME TypeOK, Next, NEW x \in Codes, codes[x] # NoRow, ~Expired(codes[x]),
                      codes'[x] = NoRow
               PROVE  \E r \in Slots : req[r].phase = "delete_code" /\ req[r].code = x
                                       /\ DeleteCode(r)
    BY DEF LiveCodesStay
  <2>1. codes' # codes /\ codes \in [Codes -> CodeRow \cup {NoRow}]
    BY DEF TypeOK
  <2>2. ASSUME NEW r \in Slots, PruneCodes(r) PROVE FALSE
    BY <2>2 DEF PruneCodes
  <2>3. ASSUME NEW r \in Slots, NEW y \in Codes, InsertCode(r, y) PROVE FALSE
    BY <2>1, <2>3 DEF InsertCode, NoRow
  <2>4. ASSUME NEW r \in Slots, DeleteCode(r)
        PROVE  req[r].phase = "delete_code" /\ req[r].code = x
    BY <2>1, <2>4 DEF DeleteCode
  <2>5. PICK r \in Slots : PruneCodes(r) \/ (\E y \in Codes : InsertCode(r, y)) \/ DeleteCode(r)
    BY <2>1 DEF Next, Register, Authorize, ReadCode, CheckCode, TakeToken, CheckToken,
                PruneTokens, InsertToken, Fail, Tick, tables
  <2> QED
    BY <2>2, <2>3, <2>4, <2>5
<1> QED
  BY <1>1, TypeCorrect, PTL DEF Spec, LiveCodesKept

\* A chain stays alive when what keeps it alive is left as it is.
LEMMA StaysAlive ==
  ASSUME NEW line \in Tokens, now' = now, Alive(line),
         \A t \in Tokens : Stored(t) /\ ~Expired(tokens[t]) /\ origin[t].line = line =>
           tokens'[t] = tokens[t] /\ origin'[t] = origin[t],
         \A r \in Slots : Continues(r) = line => req'[r] = req[r]
  PROVE  Alive(line)'
<1>1. CASE \E t \in Tokens : Stored(t) /\ origin[t].line = line /\ ~Expired(tokens[t])
  BY <1>1 DEF Alive, Stored, Expired
<1>2. CASE \E r \in Slots : Continues(r) = line
                            /\ (req[r].phase = "check_token" => ~Expired(req[r].row))
  BY <1>2 DEF Alive, Continues, Expired
<1> QED
  BY <1>1, <1>2 DEF Alive

\* No step but the passing of time and the failure of a request ends a chain: a
\* rotation hands it over, and cleaning up leaves it alone.
THEOREM ChainsLast == Spec => ChainsEndForAReason
<1>1. TypeOK /\ [Next]_vars => [OnlyCutByReason]_vars
  <2> SUFFICES ASSUME TypeOK, Next, NEW line \in Tokens, Alive(line),
                      ~Tick, \A r \in Slots : ~Fail(r)
               PROVE  Alive(line)'
    BY DEF OnlyCutByReason
  <2>0. /\ req \in [Slots -> Requests] /\ tokens \in [Tokens -> TokenRow \cup {NoRow}]
        /\ origin \in [Tokens -> Origins \cup {NoRow}] /\ now \in Nat /\ line # None
    BY NoneAssumption DEF TypeOK
  <2>1. ASSUME NEW c \in Clients, NEW uris \in SUBSET Uris, Register(c, uris)
        PROVE  Alive(line)'
    BY <2>1, StaysAlive DEF Register, history
  <2>2. ASSUME NEW r \in Slots, Continues(r) # line,
               tokens' = tokens, origin' = origin, now' = now,
               \A s \in Slots \ {r} : req'[s] = req[s]
        PROVE  Alive(line)'
    BY <2>2, StaysAlive
  <2>3. ASSUME NEW r \in Slots,
               \/ \E b \in Bindings : Authorize(r, b)
               \/ PruneCodes(r)
               \/ \E x \in Codes : InsertCode(r, x)
               \/ \E x \in Codes, proof \in Bindings : ReadCode(r, x, proof)
               \/ DeleteCode(r)
               \/ CheckCode(r)
        PROVE  Alive(line)'
    <3>1. req[r].phase \notin {"check_token", "prune_tokens", "insert_token"}
      BY <2>3 DEF Authorize, PruneCodes, InsertCode, ReadCode, DeleteCode, CheckCode, Idle
    <3>2. Continues(r) # line
      BY <2>0, <3>1 DEF Continues
    <3>3. tokens' = tokens /\ origin' = origin /\ now' = now
      BY <2>3 DEF Authorize, PruneCodes, InsertCode, ReadCode, DeleteCode, CheckCode,
                  tables, history
    <3>4. \A s \in Slots \ {r} : req'[s] = req[s]
      BY <2>0, <2>3 DEF Authorize, PruneCodes, InsertCode, ReadCode, DeleteCode, CheckCode,
                        Goto, Finish
    <3> QED
      BY <2>2, <3>2, <3>3, <3>4
  <2>4. ASSUME NEW r \in Slots, NEW t \in Tokens, TakeToken(r, t)
        PROVE  Alive(line)'
    <3>1. /\ req' = [req EXCEPT ![r] =
                 [phase |-> "check_token", row |-> tokens[t], origin |-> origin[t]]]
          /\ tokens' = [tokens EXCEPT ![t] = NoRow] /\ origin' = origin /\ now' = now
          /\ req[r] = Idle
      BY <2>4 DEF TakeToken, history
    <3>2. req'[r].phase = "check_token" /\ req'[r].row = tokens[t] /\ req'[r].origin = origin[t]
      BY <2>0, <3>1
    <3>3. CASE origin[t].line = line /\ ~Expired(tokens[t])
      BY <3>1, <3>2, <3>3 DEF Alive, Continues, Expired
    <3>4. CASE ~(origin[t].line = line /\ ~Expired(tokens[t]))
      <4>1. \A u \in Tokens : Stored(u) /\ ~Expired(tokens[u]) /\ origin[u].line = line =>
              tokens'[u] = tokens[u] /\ origin'[u] = origin[u]
        BY <2>0, <3>1, <3>4
      <4>2. \A s \in Slots : Continues(s) = line => req'[s] = req[s]
        BY <2>0, <3>1 DEF Continues, Idle
      <4> QED
        BY <3>1, <4>1, <4>2, StaysAlive
    <3> QED
      BY <3>3, <3>4
  <2>5. ASSUME NEW r \in Slots, CheckToken(r) \/ PruneTokens(r)
        PROVE  Alive(line)'
    <3>1. /\ now' = now /\ origin' = origin
          /\ \A s \in Slots \ {r} : req'[s] = req[s]
          /\ \A u \in Tokens : Stored(u) /\ ~Expired(tokens[u]) => tokens'[u] = tokens[u]
      BY <2>0, <2>5 DEF CheckToken, PruneTokens, Goto, Finish, tables, history, Stored
    <3>2. CASE /\ Continues(r) = line
               /\ req[r].phase = "check_token" => ~Expired(req[r].row)
      <4>1. /\ req'[r].phase \in {"prune_tokens", "insert_token"}
            /\ req'[r].origin = req[r].origin
        <5>1. CASE CheckToken(r)
          BY <2>0, <3>2, <5>1 DEF CheckToken
        <5>2. CASE PruneTokens(r)
          <6>1. req' = [req EXCEPT ![r].phase = "insert_token"] /\ req[r].phase = "prune_tokens"
            BY <5>2 DEF PruneTokens, Goto
          <6>2. req[r] \in [phase : {"prune_tokens", "insert_token"}, client : Clients,
                            origin : Origins]
            BY <2>0, <6>1 DEF Requests, Idle
          <6> QED
            BY <2>0, <6>1, <6>2
        <5> QED
          BY <2>5, <5>1, <5>2
      <4>2. req[r].origin.line = line
        BY <2>0, <3>2 DEF Continues
      <4>3. Continues(r)' = line /\ req'[r].phase # "check_token"
        BY <4>1, <4>2 DEF Continues
      <4> QED
        BY <4>3 DEF Alive
    <3>3. CASE /\ Continues(r) = line
               /\ req[r].phase = "check_token" /\ Expired(req[r].row)
      <4>1. CASE \E t \in Tokens : Stored(t) /\ origin[t].line = line /\ ~Expired(tokens[t])
        BY <3>1, <4>1 DEF Alive, Stored, Expired
      <4>2. CASE \E s \in Slots : Continues(s) = line
                    /\ (req[s].phase = "check_token" => ~Expired(req[s].row))
        BY <3>1, <3>3, <4>2 DEF Alive, Continues, Expired
      <4> QED
        BY <4>1, <4>2 DEF Alive
    <3>4. CASE Continues(r) # line
      BY <3>1, <3>4, StaysAlive
    <3> QED
      BY <3>2, <3>3, <3>4
  <2>6. ASSUME NEW r \in Slots, NEW t \in Tokens, InsertToken(r, t)
        PROVE  Alive(line)'
    <3> DEFINE o == req[r].origin
               n == IF o.line = None THEN [o EXCEPT !.line = t] ELSE o
    <3>1. /\ origin' = [origin EXCEPT ![t] = n] /\ now' = now
          /\ tokens' = [tokens EXCEPT ![t] =
                  [kind |-> "token", client |-> req[r].client, expires |-> now + TokenTTL]]
          /\ req' = [req EXCEPT ![r] = Idle]
          /\ origin[t] = NoRow /\ req[r].phase = "insert_token"
      BY <2>6 DEF InsertToken, Finish
    <3>2. CASE Continues(r) = line
      <4>1. o.line = line /\ n = o
        BY <2>0, <3>1, <3>2 DEF Continues
      <4>2. tokens'[t].expires = now + TokenTTL /\ tokens'[t] # NoRow /\ origin'[t].line = line
        <5>1. tokens'[t] = [kind |-> "token", client |-> req[r].client, expires |-> now + TokenTTL]
          BY <2>0, <3>1
        <5>2. origin'[t] = o
          BY <2>0, <3>1, <4>1
        <5> QED
          BY <4>1, <5>1, <5>2 DEF NoRow
      <4>3. ~Expired(tokens[t])'
        BY <2>0, <3>1, <4>2, ClockAssumption DEF Expired
      <4> QED
        BY <4>2, <4>3 DEF Alive, Stored
    <3>3. CASE Continues(r) # line
      <4>1. tokens[t] = NoRow
        BY <3>1 DEF TypeOK
      <4> HIDE DEF n, o
      <4>2. \A u \in Tokens : Stored(u) => tokens'[u] = tokens[u] /\ origin'[u] = origin[u]
        BY <2>0, <3>1, <4>1 DEF Stored
      <4>3. \A s \in Slots : Continues(s) = line => req'[s] = req[s]
        BY <2>0, <3>1, <3>3
      <4> QED
        BY <3>1, <4>2, <4>3, StaysAlive
    <3> QED
      BY <3>2, <3>3
  <2> QED
    BY <2>1, <2>3, <2>4, <2>5, <2>6 DEF Next
<1> QED
  BY <1>1, TypeCorrect, PTL DEF Spec, ChainsEndForAReason

=============================================================================
