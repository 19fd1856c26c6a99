-------------------------- MODULE KeycloakIdentity --------------------------
(***************************************************************************)
(* The identity of one tenant in the Keycloak realm: the activities of the *)
(* provision and of the delete saga that create and delete its user, one   *)
(* HTTP request at a time, each request going through the shared admin     *)
(* token (AdminToken) and each attempt retried by Temporal (SagaRuns).     *)
(* The callers of AdminToken are the sagas.  A request may be executed by  *)
(* Keycloak although its answer is lost, and the worker may die between    *)
(* any two of them.                                                        *)
(***************************************************************************)
EXTENDS AdminToken, SagaRuns

CONSTANT MaxCrashes   \* bound: deaths of the worker

ASSUME IdentityAssumption ==
  /\ Sagas = {"provision", "delete"} /\ Callers = Sagas
  /\ MaxCrashes \in Nat

VARIABLES
  user,        \* the realm's user called tenantIdentityUsername (external)
  created,     \* how many users the realm has created under that name (external)
  uid,         \* per saga: the user ID that its attempt has learned, 0 if none
  activated,   \* MarkTenantActive has written: the tenant may be deleted
  crashes

realm == <<user, created>>
saga == <<control, uid, activated, crashes>>
vars == <<tokenVars, realm, saga>>

NoUser == [id |-> 0, password |-> FALSE, role |-> FALSE]

\* The request that the attempt of saga w is about to send.
Sends(w, a, k) == At(w, a, k) /\ pc[w] = "send"

-----------------------------------------------------------------------------
(* Requests.  Keycloak executes a request that carries a valid token; the  *)
(* caller takes a lost answer and an unexpected status for a failure.      *)

\* GET /users?username=...
GetUserByUsername(w) ==
  /\ \/ Sends(w, "ProvisionTenantIdentity", 1)
     \/ Sends(w, "DeleteTenantIdentityByTenant", 1)
  /\ Accepted(w)
  /\ uid' = [uid EXCEPT ![w] = user.id]
  /\ UNCHANGED <<realm, control, activated, crashes>>

\* POST /users: 409 when the name is taken.
PostUser(w) ==
  /\ Sends(w, "ProvisionTenantIdentity", 2) /\ token[w] \in valid
  /\ IF user.id = 0
       THEN /\ created' = created + 1
            /\ user' = [NoUser EXCEPT !.id = created']
            /\ \/ Accepted(w) /\ uid' = [uid EXCEPT ![w] = created']
               \/ Lost(w) /\ UNCHANGED uid
       ELSE Lost(w) /\ UNCHANGED <<realm, uid>>
  /\ UNCHANGED <<control, activated, crashes>>

\* A request about the user uid[w]: 404 when there is none.
AboutUser(w, changed) ==
  /\ token[w] \in valid
  /\ IF user.id = uid[w]
       THEN user' = changed /\ (Accepted(w) \/ Lost(w))
       ELSE UNCHANGED user /\ Lost(w)
  /\ UNCHANGED <<created, saga>>

\* PUT /users/<id>/reset-password, the second half of CreateUser.
ResetPassword(w) ==
  /\ Sends(w, "ProvisionTenantIdentity", 3)
  /\ AboutUser(w, [user EXCEPT !.password = TRUE])

\* AssignRole: GET /roles/<name>, then POST /users/<id>/role-mappings/realm.
GetRole(w) ==
  /\ Sends(w, "ProvisionTenantIdentity", 4)
  /\ Accepted(w)
  /\ UNCHANGED <<realm, saga>>

AssignRole(w) ==
  /\ Sends(w, "ProvisionTenantIdentity", 5)
  /\ AboutUser(w, [user EXCEPT !.role = TRUE])

\* DELETE /users/<id>: 404 is success.
DeleteUser(w) ==
  /\ \/ Sends(w, "DeleteTenantIdentity", 1)
     \/ Sends(w, "DeleteTenantIdentityByTenant", 2)
  /\ token[w] \in valid
  /\ user' = IF user.id = uid[w] THEN NoUser ELSE user
  /\ Accepted(w) \/ Lost(w)
  /\ UNCHANGED <<created, saga>>

\* The request does not reach Keycloak, or fails there.
NotServed(w) == Lost(w) /\ UNCHANGED <<realm, saga>>

Serve(w) ==
  \/ GetUserByUsername(w) \/ PostUser(w) \/ ResetPassword(w)
  \/ GetRole(w) \/ AssignRole(w) \/ DeleteUser(w) \/ NotServed(w)

-----------------------------------------------------------------------------
(* Activities: what follows the answer to each request.                    *)

IdentityActivities ==
  {"ProvisionTenantIdentity", "DeleteTenantIdentity", "DeleteTenantIdentityByTenant"}

\* The attempt sends its next request.
SendNext(w) ==
  /\ act[w] \in IdentityActivities
  /\ Begin(w)
  /\ UNCHANGED <<realm, saga>>

\* Mutant: a user that is found is taken as it is.
ReusesAsIs ==
  /\ act["provision"] = "ProvisionTenantIdentity"
  /\ IF uid["provision"] # 0 THEN Goto("provision", "MarkTenantActive")
                             ELSE Then("provision", step["provision"] + 1)

\* Mutant: create without a look at the probe's answer.
AlwaysCreates ==
  /\ act["provision"] = "ProvisionTenantIdentity"
  /\ IF step["provision"] = 5 THEN Goto("provision", "MarkTenantActive")
                              ELSE Then("provision", step["provision"] + 1)

\* Probe; create with a password only if absent; assign the role either way.
ProvisionTenantIdentity ==
  /\ act["provision"] = "ProvisionTenantIdentity"
  /\ CASE step["provision"] = 1 /\ uid["provision"] # 0 -> Then("provision", 4)
       [] step["provision"] = 5 -> Goto("provision", "MarkTenantActive")
       [] OTHER -> Then("provision", step["provision"] + 1)

\* The compensation, by user ID.
DeleteTenantIdentity ==
  /\ act["provision"] = "DeleteTenantIdentity"
  /\ Goto("provision", "failed")

\* Mutant: the deletion is taken for done after the probe.
OnlyProbes ==
  /\ act["delete"] = "DeleteTenantIdentityByTenant"
  /\ Goto("delete", "completed")

\* The delete saga, by name: probe, nothing to do if absent.
DeleteTenantIdentityByTenant ==
  /\ act["delete"] = "DeleteTenantIdentityByTenant"
  /\ IF step["delete"] = 1 /\ uid["delete"] # 0 THEN Then("delete", 2)
                                                ELSE Goto("delete", "completed")

Answered(w) ==
  /\ pc[w] = "ok" /\ Return(w)
  /\ \/ w = "provision" /\ (ProvisionTenantIdentity \/ DeleteTenantIdentity)
     \/ w = "delete" /\ DeleteTenantIdentityByTenant
  /\ UNCHANGED <<realm, uid, activated, crashes>>

\* The user's ID reaches the workflow only with success: without it the
\* compensation has nobody to delete.
Failed(w) ==
  /\ pc[w] = "error" /\ Return(w)
  /\ EndAttempt(w, "failed")
  /\ UNCHANGED <<realm, uid, activated, crashes>>

-----------------------------------------------------------------------------
(* The rest of the sagas, and the worker.                                  *)

StartProvision ==
  /\ act["provision"] = "none"
  /\ Goto("provision", "ProvisionTenantIdentity")
  /\ UNCHANGED <<tokenVars, realm, uid, activated, crashes>>

\* MarkTenantActive writes, reports, or is given up with or without its write.
MarkTenantActive ==
  /\ act["provision"] = "MarkTenantActive"
  /\ \/ /\ step["provision"] = 1
        /\ activated' = TRUE
        /\ Then("provision", 2)
     \/ /\ step["provision"] = 2
        /\ Goto("provision", "completed")
        /\ UNCHANGED activated
     \/ /\ EndAttempt("provision", "DeleteTenantIdentity")
        /\ UNCHANGED activated
  /\ UNCHANGED <<tokenVars, realm, uid, crashes>>

StartDelete ==
  /\ activated /\ act["delete"] = "none"
  /\ Goto("delete", "DeleteTenantIdentityByTenant")
  /\ UNCHANGED <<tokenVars, realm, uid, activated, crashes>>

\* The attempts that were executing time out.
WorkerCrash ==
  /\ crashes < MaxCrashes
  /\ crashes' = crashes + 1
  /\ Restart
  /\ UNCHANGED <<realm, control, uid, activated>>

Environment == (SessionEnds \/ TokenAges) /\ UNCHANGED <<realm, saga>>

Init ==
  /\ TokenInit /\ NoRuns
  /\ user = NoUser /\ created = 0 /\ uid = [w \in Sagas |-> 0]
  /\ activated = FALSE /\ crashes = 0

Attempt(w) ==
  \/ SendNext(w) \/ Serve(w) \/ Answered(w) \/ Failed(w)
  \/ TokenStep(w) /\ UNCHANGED <<realm, saga>>

Next ==
  \/ \E w \in Sagas : Attempt(w)
  \/ StartProvision \/ MarkTenantActive \/ StartDelete
  \/ WorkerCrash \/ Environment

Spec == Init /\ [][Next]_vars

\* Temporal dispatches and times out every activity, requests have a timeout, and a
\* waiting goroutine gets the mutex in the end.
FairSpec ==
  /\ Spec
  /\ WF_vars(StartProvision) /\ WF_vars(MarkTenantActive)
  /\ \A w \in Sagas :
       /\ WF_vars(Attempt(w))
       /\ SF_vars(getAdminToken(w) /\ UNCHANGED <<realm, saga>>)
       /\ SF_vars(invalidateToken(w) /\ UNCHANGED <<realm, saga>>)

-----------------------------------------------------------------------------

\* Every variable has its type, and attempts stay within their limit.
IdentityTypeOK ==
  /\ TokenTypeOK
  /\ created \in Nat /\ crashes \in 0 .. MaxCrashes
  /\ activated \in BOOLEAN
  /\ user \in [id : 0 .. created, password : BOOLEAN, role : BOOLEAN]
  /\ act \in [Sagas -> IdentityActivities \cup
                       {"none", "MarkTenantActive", "completed", "failed"}]
  /\ step \in [Sagas -> 1 .. 5] /\ attempt \in [Sagas -> 1 .. MaximumAttempts]
  /\ uid \in [Sagas -> 0 .. created]

\* A tenant whose provisioning completed, and that is not being deleted, has its
\* user with the operator role, however the attempts before it ended.
ProvisionedHasRole ==
  act["provision"] = "completed" /\ act["delete"] = "none"
    => user.role /\ user.id = uid["provision"]

\* A create never meets the user of an earlier attempt (409), although the answer
\* to that attempt's create was lost: the probe has found it.
ProbePreventsConflict ==
  Sends("provision", "ProvisionTenantIdentity", 2) => user.id = 0

\* The user is gone when the deletion completes, although the answers of earlier
\* attempts were lost and the compensation of the provisioning deletes it too.
DeletedHasNoUser == act["delete"] = "completed" => user = NoUser

\* Every saga closes: neither a refused token nor a dead worker blocks an activity.
IdentitySagasClose ==
  \A w \in Sagas : act[w] # "none" ~> act[w] \in {"completed", "failed"}

\* A tenant whose provisioning completed, and that is not being deleted, has a user
\* that can log in.
ProvisionedCanLogIn ==
  act["provision"] = "completed" /\ act["delete"] = "none" => user.password

=============================================================================
