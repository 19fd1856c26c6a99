-------------------------- MODULE AdminTokenProofs --------------------------
(***************************************************************************)
(* Proofs about AdminToken, for any number of callers and of tokens.       *)
(***************************************************************************)
EXTENDS AdminToken, TLAPS

\* The mutex is held by the one caller that requests a token, and only while the
\* cache has none to use.
MutexInv ==
  \A c \in Callers :
    /\ pc[c] = "grant" => mu = {c} /\ ~Usable
    /\ c \in mu => pc[c] = "grant"

\* Whoever repeats a request finds a cache that is empty or younger than the token
\* that was refused.
FreshInv ==
  \A c \in Callers : rejected[c] # 0 =>
    /\ pc[c] \in {"lock", "grant"} => cached = 0 \/ cached > rejected[c]
    /\ pc[c] = "send" => token[c] > rejected[c]

TokenInv == TokenTypeOK /\ MutexInv /\ FreshInv

\* The steps of a caller and of its environment, for the case splits.
LEMMA TokenNextCases ==
  ASSUME [TokenNext]_tokenVars
  PROVE  \/ \E c \in Callers :
              \/ Begin(c) \/ getAdminToken(c) \/ Grant(c) \/ GrantFails(c)
              \/ Unauthorized(c) \/ invalidateToken(c)
              \/ Accepted(c) \/ Lost(c) \/ Return(c)
         \/ Restart \/ SessionEnds \/ TokenAges
         \/ UNCHANGED tokenVars
BY DEF TokenNext, Request, TokenStep

\* stale is set and reset, or left alone.
LEMMA StaleStep ==
  ASSUME stale \in BOOLEAN, [TokenNext]_tokenVars
  PROVE  stale' \in BOOLEAN
<1>1. \/ stale' = stale \/ stale' = TRUE \/ stale' = FALSE
  BY TokenNextCases, Zenon DEF Begin, getAdminToken, Grant, GrantFails, Unauthorized,
     invalidateToken, Accepted, Lost, Return, Restart, SessionEnds, TokenAges, tokenVars, cache
<1> QED
  BY <1>1, Zenon

LEMMA TokenTypeStep == TokenTypeOK /\ [TokenNext]_tokenVars => TokenTypeOK'
<1> SUFFICES ASSUME TokenTypeOK, [TokenNext]_tokenVars
             PROVE  TokenTypeOK'
  OBVIOUS
<1>0. stale' \in BOOLEAN
  BY StaleStep DEF TokenTypeOK
<1> USE TokensAssumption, <1>0 DEF TokenTypeOK, Tokens
<1>1. ASSUME NEW c \in Callers, Begin(c) PROVE TokenTypeOK'
  BY <1>1 DEF Begin, keycloak, cache
<1>2. ASSUME NEW c \in Callers, getAdminToken(c) PROVE TokenTypeOK'
  BY <1>2 DEF getAdminToken, keycloak, cache
<1>3. ASSUME NEW c \in Callers, Grant(c) PROVE TokenTypeOK'
  <2>1. issued' = issued + 1 /\ issued' \in 0 .. MaxTokens
    BY <1>3 DEF Grant
  <2>2. valid' \subseteq 1 .. issued'
    BY <1>3, <2>1 DEF Grant
  <2>3. cached' \in 0 .. issued' /\ stale' \in BOOLEAN /\ mu' \subseteq Callers
    BY <1>3, <2>1 DEF Grant
  <2>4. pc' \in [Callers -> {"idle", "lock", "grant", "send", "invalidate", "ok", "error"}]
    BY <1>3 DEF Grant
  <2>5. token' \in [Callers -> 0 .. issued'] /\ rejected' \in [Callers -> 0 .. issued']
    BY <1>3, <2>1 DEF Grant
  <2> QED BY <2>1, <2>2, <2>3, <2>4, <2>5
<1>4. ASSUME NEW c \in Callers, GrantFails(c) PROVE TokenTypeOK'
  BY <1>4 DEF GrantFails, keycloak, cache
<1>5. ASSUME NEW c \in Callers, Unauthorized(c) PROVE TokenTypeOK'
  BY <1>5 DEF Unauthorized, keycloak, cache
<1>6. ASSUME NEW c \in Callers, invalidateToken(c) PROVE TokenTypeOK'
  BY <1>6 DEF invalidateToken, keycloak
<1>7. ASSUME NEW c \in Callers, Accepted(c) \/ Lost(c) \/ Return(c) PROVE TokenTypeOK'
  BY <1>7 DEF Accepted, Lost, Return, keycloak, cache
<1>8. ASSUME Restart \/ SessionEnds \/ TokenAges PROVE TokenTypeOK'
  <2>1. CASE Restart
    BY <2>1 DEF Restart, keycloak
  <2>2. CASE SessionEnds
    BY <2>2 DEF SessionEnds, cache, local
  <2>3. CASE TokenAges
    <3>1. UNCHANGED <<valid, issued, cached, mu, pc, token, rejected>>
      BY <2>3, Zenon DEF TokenAges, keycloak, local
    <3> QED BY <3>1
  <2> QED BY <1>8, <2>1, <2>2, <2>3
<1>9. ASSUME UNCHANGED tokenVars PROVE TokenTypeOK'
  BY <1>9 DEF tokenVars, keycloak, cache, local
<1> QED
  BY <1>1, <1>2, <1>3, <1>4, <1>5, <1>6, <1>7, <1>8, <1>9, TokenNextCases

LEMMA MutexStep == TokenTypeOK /\ MutexInv /\ [TokenNext]_tokenVars => MutexInv'
<1> SUFFICES ASSUME TokenTypeOK, MutexInv, [TokenNext]_tokenVars
             PROVE  MutexInv'
  OBVIOUS
<1> USE DEF TokenTypeOK, MutexInv, Usable
<1>1. ASSUME NEW c \in Callers, Begin(c) PROVE MutexInv'
  BY <1>1 DEF Begin, keycloak, cache
<1>2. ASSUME NEW c \in Callers, getAdminToken(c) PROVE MutexInv'
  BY <1>2 DEF getAdminToken, keycloak, cache
<1>3. ASSUME NEW c \in Callers, Grant(c) PROVE MutexInv'
  <2>1. pc[c] = "grant" /\ mu' = {} /\ pc'[c] = "send"
    BY <1>3 DEF Grant
  <2>2. \A d \in Callers \ {c} : pc[d] # "grant" /\ pc'[d] = pc[d]
    BY <1>3, <2>1 DEF Grant
  <2> QED BY <2>1, <2>2
<1>4. ASSUME NEW c \in Callers, GrantFails(c) PROVE MutexInv'
  <2>1. pc[c] = "grant" /\ mu' = {} /\ pc'[c] = "error"
    BY <1>4 DEF GrantFails
  <2>2. \A d \in Callers \ {c} : pc[d] # "grant" /\ pc'[d] = pc[d]
    BY <1>4, <2>1 DEF GrantFails
  <2> QED BY <2>1, <2>2
<1>5. ASSUME NEW c \in Callers, Unauthorized(c) PROVE MutexInv'
  BY <1>5 DEF Unauthorized, keycloak, cache
<1>6. ASSUME NEW c \in Callers, invalidateToken(c) PROVE MutexInv'
  BY <1>6 DEF invalidateToken, keycloak
<1>7. ASSUME NEW c \in Callers, Accepted(c) \/ Lost(c) \/ Return(c) PROVE MutexInv'
  BY <1>7 DEF Accepted, Lost, Return, keycloak, cache
<1>8. ASSUME Restart \/ SessionEnds \/ TokenAges PROVE MutexInv'
  BY <1>8 DEF Restart, SessionEnds, TokenAges, keycloak, cache, local
<1>9. ASSUME UNCHANGED tokenVars PROVE MutexInv'
  BY <1>9 DEF tokenVars, keycloak, cache, local
<1> QED
  BY <1>1, <1>2, <1>3, <1>4, <1>5, <1>6, <1>7, <1>8, <1>9, TokenNextCases

LEMMA FreshStep == TokenInv /\ [TokenNext]_tokenVars => FreshInv'
<1> SUFFICES ASSUME TokenTypeOK, MutexInv, FreshInv, [TokenNext]_tokenVars
             PROVE  FreshInv'
  BY DEF TokenInv
<1> USE TokensAssumption DEF TokenTypeOK, FreshInv, Tokens
<1>1. ASSUME NEW c \in Callers, Begin(c) PROVE FreshInv'
  BY <1>1 DEF Begin, keycloak, cache
<1>2. ASSUME NEW c \in Callers, getAdminToken(c) PROVE FreshInv'
  BY <1>2 DEF getAdminToken, Usable, keycloak, cache
<1>3. ASSUME NEW c \in Callers, Grant(c) PROVE FreshInv'
  <2>1. \A d \in Callers : cached' > rejected'[d] /\ (d # c => pc'[d] = pc[d])
    BY <1>3 DEF Grant
  <2>2. token'[c] > rejected'[c] /\ \A d \in Callers \ {c} : token'[d] = token[d]
    BY <1>3 DEF Grant
  <2>3. rejected' = rejected /\ pc'[c] = "send"
    BY <1>3 DEF Grant
  <2> QED BY <2>1, <2>2, <2>3
<1>4. ASSUME NEW c \in Callers, GrantFails(c) PROVE FreshInv'
  BY <1>4 DEF GrantFails, keycloak, cache
<1>5. ASSUME NEW c \in Callers, Unauthorized(c) PROVE FreshInv'
  BY <1>5 DEF Unauthorized, keycloak, cache
<1>6. ASSUME NEW c \in Callers, invalidateToken(c) PROVE FreshInv'
  BY <1>6 DEF invalidateToken, keycloak
<1>7. ASSUME NEW c \in Callers, Accepted(c) \/ Lost(c) \/ Return(c) PROVE FreshInv'
  BY <1>7 DEF Accepted, Lost, Return, keycloak, cache
<1>8. ASSUME Restart \/ SessionEnds \/ TokenAges PROVE FreshInv'
  BY <1>8 DEF Restart, SessionEnds, TokenAges, keycloak, cache, local
<1>9. ASSUME UNCHANGED tokenVars PROVE FreshInv'
  BY <1>9 DEF tokenVars, keycloak, cache, local
<1> QED
  BY <1>1, <1>2, <1>3, <1>4, <1>5, <1>6, <1>7, <1>8, <1>9, TokenNextCases

\* The inductive invariant: types, the mutex and the freshness of the cache.
THEOREM TokenInvariant == TokenSpec => []TokenInv
<1>1. TokenInit => TokenInv
  <2> SUFFICES ASSUME TokenInit PROVE TokenInv
    OBVIOUS
  <2>1. stale \in BOOLEAN
    BY Zenon DEF TokenInit
  <2>2. TokenTypeOK
    BY <2>1, TokensAssumption DEF TokenInit, TokenTypeOK, Tokens
  <2>3. MutexInv /\ FreshInv
    BY DEF TokenInit, MutexInv, FreshInv
  <2> QED BY <2>2, <2>3 DEF TokenInv
<1>2. TokenInv /\ [TokenNext]_tokenVars => TokenInv'
  BY TokenTypeStep, MutexStep, FreshStep DEF TokenInv
<1> QED
  BY <1>1, <1>2, PTL DEF TokenSpec

\* doAdminRequest: a request that is repeated after a 401 carries a younger token
\* than the refused one, whichever caller refilled the cache in between.
THEOREM RetriesAreFresh == TokenSpec => []RetryIsFresh
<1>1. TokenInv => RetryIsFresh
  BY DEF TokenInv, FreshInv, RetryIsFresh
<1> QED
  BY <1>1, TokenInvariant, PTL

\* getAdminToken: callers that miss the cache together share one password grant.
THEOREM GrantsShared == TokenSpec => GrantsAreShared
<1>1. TokenInv /\ [TokenNext]_tokenVars => [issued' # issued => ~Usable]_tokenVars
  <2> SUFFICES ASSUME TokenInv, [TokenNext]_tokenVars, issued' # issued
               PROVE  ~Usable
    OBVIOUS
  <2>1. PICK c \in Callers : Grant(c)
    BY TokenNextCases DEF Begin, getAdminToken, GrantFails, Unauthorized, invalidateToken,
       Accepted, Lost, Return, Restart, SessionEnds, TokenAges, tokenVars, keycloak
  <2> QED
    BY <2>1 DEF Grant, TokenInv, MutexInv
<1> QED
  BY <1>1, TokenInvariant, PTL DEF TokenSpec, GrantsAreShared

=============================================================================
