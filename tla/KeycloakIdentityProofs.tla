----------------------- MODULE KeycloakIdentityProofs ------------------------
(***************************************************************************)
(* Proofs about KeycloakIdentity, for every retry limit and any number of  *)
(* tokens and crashes.                                                     *)
(***************************************************************************)
EXTENDS KeycloakIdentity, AdminTokenProofs

\* Where the two sagas can be together: a deletion starts only after the tenant was
\* activated, and only an identity activity has a request under way.
PlaceInv ==
  /\ act["provision"] \in {"none", "ProvisionTenantIdentity", "MarkTenantActive",
                           "DeleteTenantIdentity", "completed", "failed"}
  /\ act["delete"] \in {"none", "DeleteTenantIdentityByTenant", "completed", "failed"}
  /\ act["delete"] = "DeleteTenantIdentityByTenant" => step["delete"] \in {1, 2}
  /\ \A w \in Sagas : act[w] \notin IdentityActivities => pc[w] = "idle"
  /\ act["provision"] \in {"none", "ProvisionTenantIdentity"} => activated = FALSE
  /\ act["delete"] # "none" => activated = TRUE

\* What the provisioning attempt knows about the user at each of its requests.
ProvisionInv ==
  act["provision"] = "ProvisionTenantIdentity" =>
    /\ step["provision"] = 1 /\ pc["provision"] = "ok" => uid["provision"] = user.id
    /\ step["provision"] = 2 =>
         /\ pc["provision"] \notin {"ok", "error"} => user.id = 0
         /\ pc["provision"] = "ok" => uid["provision"] = user.id /\ user.id # 0
    /\ step["provision"] \in {3, 4, 5} => uid["provision"] = user.id /\ user.id # 0
    /\ step["provision"] = 5 /\ pc["provision"] = "ok" => user.role = TRUE

\* The user of a provisioned tenant keeps its role until the deletion starts.
RoleInv ==
  act["provision"] \in {"MarkTenantActive", "completed"} /\ act["delete"] = "none" =>
    user.role = TRUE /\ user.id = uid["provision"]

\* From its probe on, a deletion knows the user if there is one.
DeleteInv ==
  /\ act["delete"] = "DeleteTenantIdentityByTenant" =>
       /\ step["delete"] = 1 /\ pc["delete"] = "ok" => user.id \in {0, uid["delete"]}
       /\ step["delete"] = 2 => user.id \in {0, uid["delete"]}
       /\ step["delete"] = 2 /\ pc["delete"] = "ok" => user.id = 0
  /\ act["delete"] = "completed" => user.id = 0
  /\ user.id = 0 => user = NoUser

IdentityInv == PlaceInv /\ ProvisionInv /\ RoleInv /\ DeleteInv

\* The functions over the two sagas and the user's fields: what the steps need of
\* the types.
Shapes ==
  /\ pc \in [Sagas -> {"idle", "lock", "grant", "send", "invalidate", "ok", "error"}]
  /\ act \in [Sagas -> IdentityActivities \cup
                       {"none", "MarkTenantActive", "completed", "failed"}]
  /\ step \in [Sagas -> 1 .. 5]
  /\ created \in Nat /\ uid \in [Sagas -> 0 .. created]
  /\ user \in [id : 0 .. created, password : BOOLEAN, role : BOOLEAN]

-----------------------------------------------------------------------------
(* How the steps move the sagas and their requests.                        *)

LEMMA TwoSagas ==
  /\ "provision" \in Sagas /\ "delete" \in Sagas /\ Callers = Sagas
  /\ \A w \in Sagas : w = "provision" \/ w = "delete"
BY IdentityAssumption

LEMMA GotoMoves ==
  ASSUME Shapes, NEW w \in Sagas, NEW a, Goto(w, a)
  PROVE  /\ act'[w] = a /\ step'[w] = 1
         /\ \A v \in Sagas \ {w} : act'[v] = act[v] /\ step'[v] = step[v]
BY DEF Shapes, Goto

LEMMA ThenMoves ==
  ASSUME Shapes, NEW w \in Sagas, NEW k, Then(w, k)
  PROVE  /\ act' = act /\ step'[w] = k
         /\ \A v \in Sagas \ {w} : step'[v] = step[v]
BY DEF Shapes, Then

LEMMA EndMoves ==
  ASSUME Shapes, NEW w \in Sagas, NEW a, EndAttempt(w, a)
  PROVE  /\ act'[w] \in {act[w], a} /\ step'[w] = 1
         /\ \A v \in Sagas \ {w} : act'[v] = act[v] /\ step'[v] = step[v]
BY GotoMoves DEF Shapes, EndAttempt

\* A request goes from one place to another, and the requests of others stay.
RequestMoves(w, from, to) ==
  /\ pc[w] \in from /\ pc'[w] \in to
  /\ \A v \in Sagas \ {w} : pc'[v] = pc[v]

InFlight == {"lock", "grant", "send", "invalidate"}

LEMMA TokenStepMoves ==
  ASSUME Shapes, NEW w \in Sagas, TokenStep(w)
  PROVE  RequestMoves(w, InFlight, InFlight \cup {"error"})
BY TwoSagas DEF Shapes, RequestMoves, InFlight, TokenStep, getAdminToken, Grant, GrantFails,
   Unauthorized, invalidateToken

LEMMA AnswerMoves ==
  ASSUME Shapes, NEW w \in Sagas
  PROVE  /\ Begin(w) => RequestMoves(w, {"idle"}, {"lock"})
         /\ Accepted(w) => RequestMoves(w, {"send"}, {"ok"})
         /\ Lost(w) => RequestMoves(w, {"send"}, {"error"})
         /\ Return(w) => RequestMoves(w, {"ok", "error"}, {"idle"})
BY TwoSagas DEF Shapes, RequestMoves, Begin, Accepted, Lost, Return

LEMMA IdentityCases ==
  ASSUME [Next]_vars
  PROVE  \/ \E w \in Sagas :
              \/ GetUserByUsername(w) \/ PostUser(w) \/ ResetPassword(w) \/ GetRole(w)
              \/ AssignRole(w) \/ DeleteUser(w) \/ NotServed(w)
              \/ SendNext(w) \/ Answered(w) \/ Failed(w)
              \/ TokenStep(w) /\ UNCHANGED <<realm, saga>>
         \/ StartProvision \/ MarkTenantActive \/ StartDelete
         \/ WorkerCrash \/ Environment \/ UNCHANGED vars
BY DEF Next, Attempt, Serve

\* A request that Keycloak serves, or that is lost, leaves the sagas where they are.
LEMMA ServeMoves ==
  ASSUME Shapes, NEW w \in Sagas, Serve(w)
  PROVE  /\ RequestMoves(w, {"send"}, {"ok", "error"})
         /\ act' = act /\ step' = step /\ activated' = activated
<1>1. Accepted(w) \/ Lost(w)
  BY DEF Serve, GetUserByUsername, PostUser, ResetPassword, GetRole, AssignRole, DeleteUser,
     NotServed, AboutUser
<1>2. act' = act /\ step' = step /\ activated' = activated
  BY DEF Serve, GetUserByUsername, PostUser, ResetPassword, GetRole, AssignRole, DeleteUser,
     NotServed, AboutUser, saga, control
<1> QED
  BY <1>1, <1>2, AnswerMoves DEF RequestMoves

LEMMA PlaceStep == Shapes /\ PlaceInv /\ [Next]_vars => PlaceInv'
<1> SUFFICES ASSUME Shapes, PlaceInv, [Next]_vars
             PROVE  PlaceInv'
  OBVIOUS
<1> USE TwoSagas DEF PlaceInv, IdentityActivities
<1>1. ASSUME NEW w \in Sagas, Serve(w) PROVE PlaceInv'
  BY <1>1, ServeMoves DEF RequestMoves
<1>2. ASSUME NEW w \in Sagas, SendNext(w) PROVE PlaceInv'
  BY <1>2, AnswerMoves DEF SendNext, RequestMoves, saga, control
<1>3. ASSUME NEW w \in Sagas, TokenStep(w), UNCHANGED <<realm, saga>> PROVE PlaceInv'
  BY <1>3, TokenStepMoves DEF RequestMoves, InFlight, saga, control
<1>4. ASSUME NEW w \in Sagas, Answered(w) PROVE PlaceInv'
  <2>1. RequestMoves(w, {"ok", "error"}, {"idle"}) /\ activated' = activated
    BY <1>4, AnswerMoves DEF Answered
  <2>2. CASE w = "provision" /\ ProvisionTenantIdentity
    BY <2>1, <2>2, ThenMoves, GotoMoves DEF ProvisionTenantIdentity, RequestMoves
  <2>3. CASE w = "provision" /\ DeleteTenantIdentity
    BY <2>1, <2>3, GotoMoves DEF DeleteTenantIdentity, RequestMoves
  <2>4. CASE w = "delete" /\ DeleteTenantIdentityByTenant
    BY <2>1, <2>4, ThenMoves, GotoMoves DEF DeleteTenantIdentityByTenant, RequestMoves
  <2> QED BY <1>4, <2>2, <2>3, <2>4 DEF Answered
<1>5. ASSUME NEW w \in Sagas, Failed(w) PROVE PlaceInv'
  BY <1>5, AnswerMoves, EndMoves DEF Failed, RequestMoves
<1>6. CASE StartProvision
  BY <1>6, GotoMoves DEF StartProvision, tokenVars, local
<1>7. CASE MarkTenantActive
  BY <1>7, GotoMoves, ThenMoves, EndMoves DEF MarkTenantActive, tokenVars, local
<1>8. CASE StartDelete
  BY <1>8, GotoMoves DEF StartDelete, tokenVars, local
<1>9. CASE WorkerCrash \/ Environment \/ UNCHANGED vars
  <2>1. UNCHANGED <<act, step, activated>>
    BY <1>9 DEF WorkerCrash, Environment, vars, saga, control
  <2>2. \A w \in Sagas : pc[w] = "idle" => pc'[w] = "idle"
    BY <1>9 DEF WorkerCrash, Restart, Environment, SessionEnds, TokenAges, vars, tokenVars, local
  <2> QED BY <2>1, <2>2
<1> QED
  BY <1>1, <1>2, <1>3, <1>4, <1>5, <1>6, <1>7, <1>8, <1>9, IdentityCases DEF Serve

\* One request of one saga keeps what both sagas know of the user.
UserInv == ProvisionInv /\ RoleInv /\ DeleteInv

LEMMA ServeUser ==
  ASSUME Shapes, PlaceInv, UserInv, NEW w \in Sagas, Serve(w)
  PROVE  UserInv'
<1>1. /\ RequestMoves(w, {"send"}, {"ok", "error"})
      /\ act' = act /\ step' = step /\ activated' = activated
  BY ServeMoves
<1> USE TwoSagas, <1>1 DEF Shapes, UserInv, PlaceInv, ProvisionInv, RoleInv, DeleteInv,
        RequestMoves, Sends, At
<1>2. CASE GetUserByUsername(w)
  BY <1>2 DEF GetUserByUsername, realm
<1>3. CASE PostUser(w)
  <2>1. /\ w = "provision" /\ act["provision"] = "ProvisionTenantIdentity"
        /\ step["provision"] = 2 /\ act["delete"] = "none" /\ user.id = 0
    BY <1>3 DEF PostUser
  <2>2. user' = [NoUser EXCEPT !.id = created + 1] /\ user'.id # 0
    BY <1>3, <2>1 DEF PostUser, NoUser
  <2>3. \/ pc'["provision"] = "error"
        \/ uid'["provision"] = user'.id
    BY <1>3, <2>1, <2>2, AnswerMoves DEF PostUser, NoUser
  <2> QED BY <2>1, <2>2, <2>3
<1>4. CASE ResetPassword(w) \/ AssignRole(w)
  <2>1. /\ w = "provision" /\ act["provision"] = "ProvisionTenantIdentity"
        /\ step["provision"] \in {3, 5} /\ act["delete"] = "none" /\ uid' = uid
    BY <1>4 DEF ResetPassword, AssignRole, AboutUser, saga
  <2>2. user'.id = user.id
    BY <1>4, <2>1 DEF ResetPassword, AssignRole, AboutUser
  <2>3. step["provision"] = 5 => user'.role = TRUE
    BY <1>4, <2>1 DEF ResetPassword, AssignRole, AboutUser
  <2> QED BY <2>1, <2>2, <2>3
<1>5. CASE DeleteUser(w)
  <2>1. uid' = uid /\ user' = IF user.id = uid[w] THEN NoUser ELSE user
    BY <1>5 DEF DeleteUser, saga
  <2>2. NoUser.id = 0
    BY DEF NoUser
  <2>3. \/ w = "provision" /\ act["provision"] = "DeleteTenantIdentity"
        \/ /\ w = "delete" /\ act["delete"] = "DeleteTenantIdentityByTenant"
           /\ step["delete"] = 2
    BY <1>5 DEF DeleteUser
  <2> QED BY <2>1, <2>2, <2>3
<1>6. CASE GetRole(w) \/ NotServed(w)
  <2>1. user' = user /\ uid' = uid
    BY <1>6 DEF GetRole, NotServed, realm, saga
  <2>2. \/ pc'[w] = "error"
        \/ w = "provision" /\ act["provision"] = "ProvisionTenantIdentity" /\ step["provision"] = 4
    BY <1>6, AnswerMoves DEF GetRole, NotServed
  <2> QED BY <2>1, <2>2
<1> QED
  BY <1>2, <1>3, <1>4, <1>5, <1>6 DEF Serve

LEMMA UserStep == Shapes /\ PlaceInv /\ UserInv /\ [Next]_vars => UserInv'
<1> SUFFICES ASSUME Shapes, PlaceInv, UserInv, [Next]_vars
             PROVE  UserInv'
  OBVIOUS
<1> USE TwoSagas DEF Shapes, PlaceInv, UserInv, ProvisionInv, RoleInv, DeleteInv
<1>1. ASSUME NEW w \in Sagas, Serve(w) PROVE UserInv'
  BY <1>1, ServeUser
<1>2. ASSUME NEW w \in Sagas, SendNext(w) PROVE UserInv'
  BY <1>2, AnswerMoves DEF SendNext, RequestMoves, realm, saga, control
<1>3. ASSUME NEW w \in Sagas, TokenStep(w), UNCHANGED <<realm, saga>> PROVE UserInv'
  BY <1>3, TokenStepMoves DEF RequestMoves, InFlight, realm, saga, control
<1>4. ASSUME NEW w \in Sagas, Answered(w) PROVE UserInv'
  <2>1. /\ pc[w] = "ok" /\ RequestMoves(w, {"ok", "error"}, {"idle"})
        /\ user' = user /\ uid' = uid
    BY <1>4, AnswerMoves DEF Answered, realm
  <2>2. CASE w = "provision" /\ ProvisionTenantIdentity
    BY <2>1, <2>2, ThenMoves, GotoMoves DEF ProvisionTenantIdentity, RequestMoves
  <2>3. CASE w = "provision" /\ DeleteTenantIdentity
    BY <2>1, <2>3, GotoMoves DEF DeleteTenantIdentity, RequestMoves
  <2>4. CASE w = "delete" /\ DeleteTenantIdentityByTenant
    BY <2>1, <2>4, ThenMoves, GotoMoves DEF DeleteTenantIdentityByTenant, RequestMoves
  <2> QED BY <1>4, <2>2, <2>3, <2>4 DEF Answered
<1>5. ASSUME NEW w \in Sagas, Failed(w) PROVE UserInv'
  <2>1. /\ RequestMoves(w, {"ok", "error"}, {"idle"}) /\ user' = user /\ uid' = uid
        /\ EndAttempt(w, "failed")
    BY <1>5, AnswerMoves DEF Failed, realm
  <2>2. act[w] \in IdentityActivities
    BY <1>5 DEF Failed
  <2> QED BY <2>1, <2>2, EndMoves DEF RequestMoves, IdentityActivities
<1>6. CASE StartProvision
  BY <1>6, GotoMoves DEF StartProvision, tokenVars, local, realm, IdentityActivities
<1>7. CASE MarkTenantActive
  <2>1. pc' = pc /\ user' = user /\ uid' = uid
    BY <1>7 DEF MarkTenantActive, tokenVars, local, realm
  <2>2. /\ act'["delete"] = act["delete"] /\ step'["delete"] = step["delete"]
        /\ act'["provision"] \in {"MarkTenantActive", "completed", "DeleteTenantIdentity"}
    BY <1>7, GotoMoves, ThenMoves, EndMoves DEF MarkTenantActive
  <2> QED BY <1>7, <2>1, <2>2 DEF MarkTenantActive
<1>8. CASE StartDelete
  BY <1>8, GotoMoves DEF StartDelete, tokenVars, local, realm, IdentityActivities
<1>9. CASE WorkerCrash \/ Environment \/ UNCHANGED vars
  <2>1. UNCHANGED <<act, step, uid, user>>
    BY <1>9 DEF WorkerCrash, Environment, vars, saga, control, realm
  <2>2. \A w \in Sagas : pc'[w] \in {pc[w], "error"}
    BY <1>9 DEF WorkerCrash, Restart, Environment, SessionEnds, TokenAges, vars, tokenVars, local
  <2> QED BY <2>1, <2>2
<1> QED
  BY <1>1, <1>2, <1>3, <1>4, <1>5, <1>6, <1>7, <1>8, <1>9, IdentityCases DEF Serve

-----------------------------------------------------------------------------
(* Composition: the activities use the admin token as AdminToken says.     *)

LEMMA TokenSteps == [Next]_vars => [TokenNext]_tokenVars
<1> SUFFICES ASSUME [Next]_vars PROVE TokenNext \/ UNCHANGED tokenVars
  OBVIOUS
<1> USE TwoSagas DEF TokenNext
<1>1. ASSUME NEW w \in Sagas, Serve(w) PROVE TokenNext
  <2>1. Accepted(w) \/ Lost(w)
    BY <1>1 DEF Serve, GetUserByUsername, PostUser, ResetPassword, GetRole, AssignRole,
       DeleteUser, NotServed, AboutUser
  <2> QED BY <2>1 DEF Request
<1>2. ASSUME NEW w \in Sagas, SendNext(w) PROVE TokenNext
  BY <1>2 DEF SendNext
<1>3. ASSUME NEW w \in Sagas, TokenStep(w) PROVE TokenNext
  BY <1>3 DEF Request
<1>4. ASSUME NEW w \in Sagas, Answered(w) \/ Failed(w) PROVE TokenNext
  BY <1>4 DEF Answered, Failed, Request
<1>5. ASSUME StartProvision \/ MarkTenantActive \/ StartDelete \/ UNCHANGED vars
      PROVE  UNCHANGED tokenVars
  BY <1>5 DEF StartProvision, MarkTenantActive, StartDelete, vars
<1>6. ASSUME WorkerCrash \/ Environment PROVE TokenNext
  BY <1>6 DEF WorkerCrash, Environment
<1> QED
  BY <1>1, <1>2, <1>3, <1>4, <1>5, <1>6, IdentityCases DEF Serve

\* The identity activities, with their crashes, are callers of the admin token as
\* AdminToken specifies them, so that its theorems hold of them.
THEOREM UsesAdminToken == Spec => TokenSpec
<1>1. Init => TokenInit
  BY DEF Init
<1> QED
  BY <1>1, TokenSteps, PTL DEF Spec, TokenSpec

\* doAdminRequest, called by the identity activities of a worker that may die:
\* a repeated request carries a younger token than the refused one.
THEOREM IdentityRetriesAreFresh == Spec => []RetryIsFresh
BY UsesAdminToken, RetriesAreFresh, PTL

\* getAdminToken, called by the identity activities of a worker that may die: callers
\* that miss the cache together share one password grant.
THEOREM IdentityGrantsShared == Spec => GrantsAreShared
BY UsesAdminToken, GrantsShared, PTL

-----------------------------------------------------------------------------
(* Types.                                                                  *)

LEMMA TypeShapes == IdentityTypeOK => Shapes
BY TwoSagas DEF IdentityTypeOK, TokenTypeOK, Shapes

\* Retry counters: an attempt is numbered from 1 to MaximumAttempts.
LEMMA AttemptTypes ==
  ASSUME attempt \in [Sagas -> 1 .. MaximumAttempts], NEW w \in Sagas
  PROVE  /\ \A a : Goto(w, a) => attempt' \in [Sagas -> 1 .. MaximumAttempts]
         /\ \A k : Then(w, k) => attempt' \in [Sagas -> 1 .. MaximumAttempts]
         /\ \A a : EndAttempt(w, a) => attempt' \in [Sagas -> 1 .. MaximumAttempts]
<1>1. 1 \in 1 .. MaximumAttempts
  BY AttemptsAssumption
<1>2. \A a : Goto(w, a) => attempt' \in [Sagas -> 1 .. MaximumAttempts]
  BY <1>1 DEF Goto
<1>3. attempt[w] < MaximumAttempts => attempt[w] + 1 \in 1 .. MaximumAttempts
  BY AttemptsAssumption
<1>4. \A a : EndAttempt(w, a) => attempt' \in [Sagas -> 1 .. MaximumAttempts]
  BY <1>2, <1>3 DEF EndAttempt
<1> QED
  BY <1>2, <1>4 DEF Then

ActValues == IdentityActivities \cup {"none", "MarkTenantActive", "completed", "failed"}

\* The place of a saga stays within its types.
LEMMA PlaceTypes ==
  ASSUME act \in [Sagas -> ActValues], step \in [Sagas -> 1 .. 5], NEW w \in Sagas
  PROVE  /\ \A a \in ActValues : Goto(w, a) \/ EndAttempt(w, a) =>
               act' \in [Sagas -> ActValues] /\ step' \in [Sagas -> 1 .. 5]
         /\ \A k \in 1 .. 5 : Then(w, k) =>
               act' \in [Sagas -> ActValues] /\ step' \in [Sagas -> 1 .. 5]
BY DEF Goto, Then, EndAttempt

\* The sagas' part of the types.
SagaTypes ==
  /\ act \in [Sagas -> ActValues] /\ step \in [Sagas -> 1 .. 5]
  /\ attempt \in [Sagas -> 1 .. MaximumAttempts]

LEMMA SagaTypeStep == SagaTypes /\ [Next]_vars => SagaTypes'
<1> SUFFICES ASSUME SagaTypes, [Next]_vars PROVE SagaTypes'
  OBVIOUS
<1>1. ASSUME NEW w \in Sagas, NEW a \in ActValues, Goto(w, a) \/ EndAttempt(w, a)
      PROVE  SagaTypes'
  BY <1>1, PlaceTypes, AttemptTypes DEF SagaTypes
<1>2. ASSUME NEW w \in Sagas, NEW k \in 1 .. 5, Then(w, k) PROVE SagaTypes'
  BY <1>2, PlaceTypes, AttemptTypes DEF SagaTypes
<1>3. ASSUME UNCHANGED control PROVE SagaTypes'
  BY <1>3 DEF control, SagaTypes
<1>4. /\ "failed" \in ActValues /\ "completed" \in ActValues /\ "MarkTenantActive" \in ActValues
      /\ \A a \in IdentityActivities : a \in ActValues
  BY DEF ActValues
<1> USE TwoSagas
<1>5. ASSUME NEW w \in Sagas, Serve(w) \/ SendNext(w) PROVE UNCHANGED control
  BY <1>5 DEF Serve, GetUserByUsername, PostUser, ResetPassword, GetRole, AssignRole,
     DeleteUser, NotServed, AboutUser, SendNext, saga
<1>6. ASSUME NEW w \in Sagas, Answered(w) PROVE SagaTypes'
  <2>1. CASE ProvisionTenantIdentity
    <3>1. \/ Then("provision", 4) \/ Goto("provision", "MarkTenantActive")
          \/ step["provision"] # 5 /\ Then("provision", step["provision"] + 1)
      BY <2>1 DEF ProvisionTenantIdentity
    <3>2. step["provision"] # 5 => step["provision"] + 1 \in 1 .. 5
      BY DEF SagaTypes
    <3> QED BY <1>1, <1>2, <1>4, <3>1, <3>2
  <2>2. CASE DeleteTenantIdentity \/ DeleteTenantIdentityByTenant
    BY <1>1, <1>2, <1>4, <2>2 DEF DeleteTenantIdentity, DeleteTenantIdentityByTenant
  <2> QED BY <1>6, <2>1, <2>2 DEF Answered
<1>7. ASSUME NEW w \in Sagas, Failed(w) PROVE SagaTypes'
  BY <1>1, <1>4, <1>7 DEF Failed
<1>8. CASE StartProvision \/ StartDelete
  BY <1>1, <1>4, <1>8 DEF StartProvision, StartDelete, IdentityActivities
<1>9. CASE MarkTenantActive
  <2>1. \/ Then("provision", 2) \/ Goto("provision", "completed")
        \/ EndAttempt("provision", "DeleteTenantIdentity")
    BY <1>9 DEF MarkTenantActive
  <2> QED BY <1>1, <1>2, <1>4, <2>1 DEF IdentityActivities
<1>10. CASE WorkerCrash \/ Environment \/ UNCHANGED vars
  BY <1>3, <1>10 DEF WorkerCrash, Environment, vars, saga
<1>11. ASSUME NEW w \in Sagas, UNCHANGED <<realm, saga>> PROVE SagaTypes'
  BY <1>3, <1>11 DEF saga
<1> QED
  BY <1>3, <1>5, <1>6, <1>7, <1>8, <1>9, <1>10, <1>11, IdentityCases DEF Serve

\* The realm's part of the types.
RealmTypes ==
  /\ created \in Nat /\ uid \in [Sagas -> 0 .. created]
  /\ user \in [id : 0 .. created, password : BOOLEAN, role : BOOLEAN]

LEMMA RealmTypeStep == RealmTypes /\ [Next]_vars => RealmTypes'
<1> SUFFICES ASSUME RealmTypes, [Next]_vars PROVE RealmTypes'
  OBVIOUS
<1> USE DEF RealmTypes
<1>1. ASSUME NEW w \in Sagas, GetUserByUsername(w) PROVE RealmTypes'
  BY <1>1 DEF GetUserByUsername, realm
<1>2. ASSUME NEW w \in Sagas, PostUser(w) PROVE RealmTypes'
  <2>1. CASE user.id = 0
    <3>1. created' = created + 1 /\ user' = [NoUser EXCEPT !.id = created']
      BY <1>2, <2>1 DEF PostUser
    <3>2. uid' = [uid EXCEPT ![w] = created'] \/ uid' = uid
      BY <1>2, <2>1 DEF PostUser
    <3>3. uid' \in [Sagas -> 0 .. created']
      BY <3>1, <3>2
    <3>4. user' = [id |-> created', password |-> FALSE, role |-> FALSE]
      BY <3>1 DEF NoUser
    <3>5. user' \in [id : 0 .. created', password : BOOLEAN, role : BOOLEAN]
      <4>1. created' \in 0 .. created'
        BY <3>1
      <4> QED BY <3>4, <4>1, Zenon
    <3> QED BY <3>1, <3>3, <3>5
  <2>2. CASE user.id # 0
    BY <1>2, <2>2 DEF PostUser, realm
  <2> QED BY <2>1, <2>2
<1>3. ASSUME NEW w \in Sagas, ResetPassword(w) \/ AssignRole(w) PROVE RealmTypes'
  <2>1. created' = created /\ uid' = uid
    BY <1>3 DEF ResetPassword, AssignRole, AboutUser, saga
  <2>2. \/ user' = user \/ user' = [user EXCEPT !.password = TRUE]
        \/ user' = [user EXCEPT !.role = TRUE]
    BY <1>3 DEF ResetPassword, AssignRole, AboutUser
  <2> QED BY <2>1, <2>2
<1>4. ASSUME NEW w \in Sagas, DeleteUser(w) PROVE RealmTypes'
  BY <1>4 DEF DeleteUser, saga, NoUser
<1>5. ASSUME UNCHANGED realm, uid' = uid PROVE RealmTypes'
  BY <1>5 DEF realm
<1>6. ASSUME NEW w \in Sagas,
             \/ GetRole(w) \/ NotServed(w) \/ SendNext(w) \/ Answered(w) \/ Failed(w)
             \/ UNCHANGED <<realm, saga>>
      PROVE  UNCHANGED realm /\ uid' = uid
  BY <1>6 DEF GetRole, NotServed, SendNext, Answered, Failed, saga
<1>7. ASSUME \/ StartProvision \/ MarkTenantActive \/ StartDelete \/ WorkerCrash
             \/ Environment \/ UNCHANGED vars
      PROVE  UNCHANGED realm /\ uid' = uid
  BY <1>7 DEF StartProvision, MarkTenantActive, StartDelete, WorkerCrash, Environment, vars, saga
<1> QED
  BY <1>1, <1>2, <1>3, <1>4, <1>5, <1>6, <1>7, IdentityCases

LEMMA FlagTypeStep ==
  ASSUME activated \in BOOLEAN, crashes \in 0 .. MaxCrashes, [Next]_vars
  PROVE  activated' \in BOOLEAN /\ crashes' \in 0 .. MaxCrashes
<1>1. activated' = activated \/ activated' = TRUE
  BY IdentityCases, Zenon DEF GetUserByUsername, PostUser, ResetPassword, GetRole, AssignRole,
     DeleteUser, NotServed, AboutUser, SendNext, Answered, Failed, StartProvision,
     MarkTenantActive, StartDelete, WorkerCrash, Environment, vars, saga
<1>2. crashes' = crashes \/ (crashes < MaxCrashes /\ crashes' = crashes + 1)
  <2>1. WorkerCrash \/ crashes' = crashes
    BY IdentityCases, Zenon DEF GetUserByUsername, PostUser, ResetPassword, GetRole, AssignRole,
       DeleteUser, NotServed, AboutUser, SendNext, Answered, Failed, StartProvision,
       MarkTenantActive, StartDelete, Environment, vars, saga
  <2> QED BY <2>1, Zenon DEF WorkerCrash
<1>3. activated' \in BOOLEAN
  BY <1>1, Zenon
<1>4. crashes' \in 0 .. MaxCrashes
  BY <1>2, IdentityAssumption
<1> QED
  BY <1>3, <1>4

-----------------------------------------------------------------------------
(* Theorems.                                                               *)

\* Types, where the sagas are and what they know of the user.
THEOREM IdentityInvariant == Spec => [](IdentityTypeOK /\ PlaceInv /\ UserInv)
<1>1. Init => IdentityTypeOK /\ PlaceInv /\ UserInv
  <2> SUFFICES ASSUME Init PROVE IdentityTypeOK /\ PlaceInv /\ UserInv
    OBVIOUS
  <2>1. TokenTypeOK
    <3>1. stale \in BOOLEAN
      BY Zenon DEF Init, TokenInit
    <3> QED BY <3>1, TokensAssumption DEF Init, TokenInit, TokenTypeOK, Tokens
  <2>2. activated \in BOOLEAN /\ activated = FALSE
    BY Zenon DEF Init
  <2>3. user \in [id : 0 .. created, password : BOOLEAN, role : BOOLEAN]
    BY DEF Init, NoUser
  <2>4. IdentityTypeOK
    BY <2>1, <2>2, <2>3, IdentityAssumption, AttemptsAssumption
       DEF Init, NoRuns, IdentityTypeOK, IdentityActivities
  <2>5. PlaceInv
    BY <2>2, TwoSagas DEF Init, NoRuns, TokenInit, PlaceInv
  <2>6. UserInv
    BY TwoSagas DEF Init, NoRuns, UserInv, ProvisionInv, RoleInv, DeleteInv, NoUser
  <2> QED BY <2>4, <2>5, <2>6
<1>2. IdentityTypeOK /\ [Next]_vars => IdentityTypeOK'
  <2>1. IdentityTypeOK <=> /\ TokenTypeOK /\ SagaTypes /\ RealmTypes
                           /\ activated \in BOOLEAN /\ crashes \in 0 .. MaxCrashes
    BY DEF IdentityTypeOK, SagaTypes, RealmTypes, ActValues
  <2>2. IdentityTypeOK' <=> /\ TokenTypeOK' /\ SagaTypes' /\ RealmTypes'
                            /\ activated' \in BOOLEAN /\ crashes' \in 0 .. MaxCrashes
    BY DEF IdentityTypeOK, SagaTypes, RealmTypes, ActValues
  <2> QED
    BY <2>1, <2>2, TokenSteps, TokenTypeStep, SagaTypeStep, RealmTypeStep, FlagTypeStep
<1>3. IdentityTypeOK /\ PlaceInv /\ UserInv /\ [Next]_vars => PlaceInv' /\ UserInv'
  BY TypeShapes, PlaceStep, UserStep
<1> QED
  BY <1>1, <1>2, <1>3, PTL DEF Spec

\* The identity activities and the realm keep every variable in its type: an ID that a
\* saga remembers is one that the realm has given out.
THEOREM IdentityTypes == Spec => []IdentityTypeOK
BY IdentityInvariant, PTL

\* GetUserByUsername before CreateUser: a create never meets the user that an earlier
\* attempt has created, although the answer to that create was lost.
THEOREM ProbePrevents == Spec => []ProbePreventsConflict
<1>1. PlaceInv /\ UserInv => ProbePreventsConflict
  BY DEF UserInv, ProvisionInv, ProbePreventsConflict, Sends, At
<1> QED
  BY <1>1, IdentityInvariant, PTL

\* ProvisionTenantIdentity: a provisioned tenant that is not being deleted has its user
\* with the operator role.
THEOREM RoleIsAssigned == Spec => []ProvisionedHasRole
<1>1. PlaceInv /\ UserInv => ProvisionedHasRole
  BY DEF UserInv, RoleInv, ProvisionedHasRole
<1> QED
  BY <1>1, IdentityInvariant, PTL

\* DeleteTenantIdentityByTenant: the user is gone when it completes.
THEOREM UserIsDeleted == Spec => []DeletedHasNoUser
<1>1. PlaceInv /\ UserInv => DeletedHasNoUser
  BY DEF UserInv, DeleteInv, DeletedHasNoUser
<1> QED
  BY <1>1, IdentityInvariant, PTL

=============================================================================
