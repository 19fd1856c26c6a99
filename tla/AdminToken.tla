----------------------------- MODULE AdminToken -----------------------------
(***************************************************************************)
(* The admin token that the activities of a worker share to talk to        *)
(* Keycloak (KeycloakProvider): a cache behind a mutex that is held while  *)
(* a new token is requested, and a request that is repeated once with a    *)
(* new token when Keycloak refuses it.  Tokens are numbered as Keycloak    *)
(* issues them.                                                            *)
(***************************************************************************)
EXTENDS Naturals

CONSTANTS
  Callers,     \* goroutines that make admin requests
  MaxTokens    \* bound: tokens issued

ASSUME TokensAssumption == MaxTokens \in Nat

VARIABLES
  valid,      \* the tokens that Keycloak accepts (external)
  issued,     \* how many it has issued (external)
  cached,     \* KeycloakProvider.adminToken, 0 if empty
  stale,      \* the cached token is within 30 seconds of its expiry
  mu,         \* the callers that hold the mutex
  pc,         \* per caller: where it is in doAdminRequest
  token,      \* per caller: the token it got
  rejected    \* per caller: the token that got a 401 in this request, 0 if none

keycloak == <<valid, issued>>
cache == <<cached, stale>>
local == <<pc, token, rejected>>
tokenVars == <<keycloak, cache, mu, local>>

Tokens == 0 .. MaxTokens

\* doAdminRequest begins.
Begin(c) ==
  /\ pc[c] = "idle"
  /\ pc' = [pc EXCEPT ![c] = "lock"]
  /\ rejected' = [rejected EXCEPT ![c] = 0]
  /\ UNCHANGED <<keycloak, cache, mu, token>>

Usable == cached # 0 /\ ~stale

\* Mutant: the cache is not consulted once the mutex is held.
GrantsAlways(c) ==
  /\ pc[c] = "lock" /\ mu = {}
  /\ pc' = [pc EXCEPT ![c] = "grant"]
  /\ mu' = {c}
  /\ UNCHANGED <<keycloak, cache, token, rejected>>

\* getAdminToken locks and looks at the cache: it returns the token, or goes on to
\* request one with the mutex held.
getAdminToken(c) ==
  /\ pc[c] = "lock" /\ mu = {}
  /\ IF Usable
       THEN /\ token' = [token EXCEPT ![c] = cached]
            /\ pc' = [pc EXCEPT ![c] = "send"]
            /\ UNCHANGED mu
       ELSE /\ pc' = [pc EXCEPT ![c] = "grant"]
            /\ mu' = {c}
            /\ UNCHANGED token
  /\ UNCHANGED <<keycloak, cache, rejected>>

\* The password grant succeeds.
Grant(c) ==
  /\ pc[c] = "grant" /\ issued < MaxTokens
  /\ issued' = issued + 1
  /\ valid' = valid \cup {issued'}
  /\ cached' = issued' /\ stale' = FALSE
  /\ token' = [token EXCEPT ![c] = issued']
  /\ mu' = mu \ {c}
  /\ pc' = [pc EXCEPT ![c] = "send"]
  /\ UNCHANGED rejected

\* Mutant: the error path returns without unlocking.
FailsLocked(c) ==
  /\ pc[c] = "grant"
  /\ pc' = [pc EXCEPT ![c] = "error"]
  /\ UNCHANGED <<keycloak, cache, mu, token, rejected>>

GrantFails(c) ==
  /\ pc[c] = "grant"
  /\ mu' = mu \ {c}
  /\ pc' = [pc EXCEPT ![c] = "error"]
  /\ UNCHANGED <<keycloak, cache, token, rejected>>

\* Keycloak accepts the request (doAdminRequestWithToken).
Accepted(c) ==
  /\ pc[c] = "send" /\ token[c] \in valid
  /\ pc' = [pc EXCEPT ![c] = "ok"]
  /\ UNCHANGED <<keycloak, cache, mu, token, rejected>>

\* Keycloak answers 401: once it is repeated with a fresh token, then it is the
\* caller's problem.
Unauthorized(c) ==
  /\ pc[c] = "send" /\ token[c] \notin valid
  /\ pc' = [pc EXCEPT ![c] = IF rejected[c] = 0 THEN "invalidate" ELSE "error"]
  /\ rejected' = [rejected EXCEPT ![c] = IF @ = 0 THEN token[c] ELSE @]
  /\ UNCHANGED <<keycloak, cache, mu, token>>

\* The answer is lost.
Lost(c) ==
  /\ pc[c] = "send"
  /\ pc' = [pc EXCEPT ![c] = "error"]
  /\ UNCHANGED <<keycloak, cache, mu, token, rejected>>

\* Mutant: the request is repeated with whatever is cached.
RepeatsCached(c) ==
  /\ pc[c] = "invalidate" /\ mu = {}
  /\ pc' = [pc EXCEPT ![c] = "lock"]
  /\ UNCHANGED <<keycloak, cache, mu, token, rejected>>

invalidateToken(c) ==
  /\ pc[c] = "invalidate" /\ mu = {}
  /\ cached' = 0 /\ stale' = FALSE
  /\ pc' = [pc EXCEPT ![c] = "lock"]
  /\ UNCHANGED <<keycloak, mu, token, rejected>>

\* doAdminRequest returns to its caller.
Return(c) ==
  /\ pc[c] \in {"ok", "error"}
  /\ pc' = [pc EXCEPT ![c] = "idle"]
  /\ UNCHANGED <<keycloak, cache, mu, token, rejected>>

\* The worker dies and another one starts with an empty provider: the requests that
\* were under way have failed.
Restart ==
  /\ pc' = [c \in Callers |-> IF pc[c] = "idle" THEN "idle" ELSE "error"]
  /\ cached' = 0 /\ stale' = FALSE /\ mu' = {}
  /\ UNCHANGED <<keycloak, token, rejected>>

\* The session of a token idles out, or is revoked: long before the token expires.
SessionEnds ==
  /\ \E t \in valid : valid' = valid \ {t}
  /\ UNCHANGED <<issued, cache, mu, local>>

TokenAges ==
  /\ Usable
  /\ stale' = TRUE
  /\ UNCHANGED <<keycloak, cached, mu, local>>

TokenInit ==
  /\ valid = {} /\ issued = 0
  /\ cached = 0 /\ stale = FALSE /\ mu = {}
  /\ pc = [c \in Callers |-> "idle"]
  /\ token = [c \in Callers |-> 0] /\ rejected = [c \in Callers |-> 0]

\* What a caller does inside doAdminRequest without having an effect on the realm.
TokenStep(c) ==
  \/ getAdminToken(c) \/ Grant(c) \/ GrantFails(c)
  \/ Unauthorized(c) \/ invalidateToken(c)

Request(c) == TokenStep(c) \/ Accepted(c) \/ Lost(c) \/ Return(c)

TokenNext ==
  \/ \E c \in Callers : Begin(c) \/ Request(c)
  \/ Restart \/ SessionEnds \/ TokenAges

TokenSpec == TokenInit /\ [][TokenNext]_tokenVars

-----------------------------------------------------------------------------

\* Every variable has its type.
TokenTypeOK ==
  /\ valid \subseteq 1 .. issued /\ issued \in Tokens
  /\ cached \in 0 .. issued /\ stale \in BOOLEAN /\ mu \subseteq Callers
  /\ pc \in [Callers -> {"idle", "lock", "grant", "send", "invalidate", "ok", "error"}]
  /\ token \in [Callers -> 0 .. issued] /\ rejected \in [Callers -> 0 .. issued]

\* A request that is repeated after a 401 carries a younger token than the one
\* that was refused, whoever refilled the cache in between.
RetryIsFresh ==
  \A c \in Callers : pc[c] = "send" /\ rejected[c] # 0 => token[c] > rejected[c]

\* A token is requested only while there is none to use: callers that miss the
\* cache together share one grant.
GrantsAreShared == [][issued' # issued => ~Usable]_tokenVars

=============================================================================
