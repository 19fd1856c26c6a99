------------------------- MODULE TenantNamesProofs --------------------------
(***************************************************************************)
(* Proofs about TenantNames, for every set of requested IDs.               *)
(***************************************************************************)
EXTENDS TenantNames, SequenceTheorems, TLAPS

\* A tenant that is apart has its own data under its names, whatever the state of
\* its sagas and of those of the others.
HoldsInv ==
  \A t \in Requested : Apart(t) =>
    /\ t \in tenants => Exists(t)
    /\ Exists(t) => dbs[t].holds = t
    /\ Exists(AuxName(t, "_new")) => dbs[AuxName(t, "_new")].holds = t

TenantsInv == tenants \subseteq Requested

\* The same for the owner, unless the ID ends in a suffix.
OwnerInv ==
  \A t \in Requested : Apart(t) /\ Last(t) \notin AuxSuffixes =>
    /\ Exists(t) => dbs[t].owner = t
    /\ Exists(AuxName(t, "_new")) => dbs[AuxName(t, "_new")].owner = t

-----------------------------------------------------------------------------
(* Names.                                                                  *)

Parts == DOMAIN Characters \cup AuxSuffixes

\* Two auxiliary names are equal only if they are of the same tenant and kind.
LEMMA AuxInjective ==
  ASSUME NEW s \in Requested, NEW t \in Requested, NEW x \in AuxSuffixes, NEW y \in AuxSuffixes,
         AuxName(s, x) = AuxName(t, y)
  PROVE  s = t /\ x = y
<1>1. s \in Seq(Parts) /\ t \in Seq(Parts) /\ x \in Parts /\ y \in Parts
  BY NamesAssumption DEF Parts
<1>2. QED
  BY <1>1, AppendInjective DEF AuxName

\* The role derived from an auxiliary name is that of the tenant.
LEMMA AuxRole ==
  ASSUME NEW t \in Requested, NEW x \in AuxSuffixes
  PROVE  tenantOwnerRole(AuxName(t, x)) = t
<1>1. t \in Seq(Parts) /\ x \in Parts
  BY NamesAssumption DEF Parts
<1>2. /\ AuxName(t, x) \in Seq(Parts) /\ Len(AuxName(t, x)) = Len(t) + 1 /\ Len(t) \in Nat
      /\ AuxName(t, x)[Len(t) + 1] = x
      /\ \A i \in 1 .. Len(t) : AuxName(t, x)[i] = t[i]
  BY <1>1, AppendProperties, LenProperties DEF AuxName
<1>3. Last(AuxName(t, x)) = x
  BY <1>2 DEF Last
<1>4. Front(AuxName(t, x)) = t
  <2>1. Front(AuxName(t, x)) = SubSeq(AuxName(t, x), 1, Len(t))
    BY <1>2 DEF Front
  <2>2. QED
    BY <1>1, <1>2, <2>1
<1>5. QED
  BY <1>3, <1>4 DEF tenantOwnerRole

-----------------------------------------------------------------------------
(* The data of a tenant that is apart stays under its names.               *)

LEMMA HoldsInit == Init => HoldsInv /\ TenantsInv
BY DEF Init, HoldsInv, TenantsInv, Exists

\* What a step of tenant s may touch is none of what a tenant t that is apart has,
\* unless s is t.
LEMMA ApartNames ==
  ASSUME NEW s \in Requested, NEW t \in Requested, Apart(t), NEW x \in AuxSuffixes
  PROVE  /\ AuxName(s, x) # t
         /\ AuxName(t, "_new") # s
         /\ AuxName(s, x) = AuxName(t, "_new") => s = t /\ x = "_new"
BY AuxInjective DEF Apart, AuxSuffixes

\* Every action of one tenant keeps HoldsInv, for all of them.
LEMMA HoldsNext ==
  ASSUME HoldsInv, TenantsInv, Next
  PROVE  HoldsInv' /\ TenantsInv'
<1> PICK s \in Requested :
      \/ CreateTenant(s)
      \/ MigrateData(s) \/ SwitchTraffic(s) \/ DropTenantAuxDatabase(s)
      \/ BackupTenantData(s) \/ DeprovisionTenant(s)
  BY DEF Next
<1>1. TenantsInv'
  BY DEF TenantsInv, CreateTenant, MigrateData, SwitchTraffic, DropTenantAuxDatabase,
     BackupTenantData, DeprovisionTenant
<1> SUFFICES ASSUME NEW t \in Requested, Apart(t)
             PROVE  /\ t \in tenants' => Exists(t)'
                    /\ Exists(t)' => dbs'[t].holds = t
                    /\ Exists(AuxName(t, "_new"))' => dbs'[AuxName(t, "_new")].holds = t
  BY <1>1 DEF HoldsInv, Apart
<1> DEFINE new == AuxName(t, "_new")
<1> "_new" \in AuxSuffixes /\ "_temp" \in AuxSuffixes
  BY DEF AuxSuffixes
<1>2. \A x \in AuxSuffixes : /\ AuxName(s, x) # t /\ new # s
                             /\ AuxName(s, x) = new => s = t /\ x = "_new"
  BY ApartNames
<1>3. new # t
  BY ApartNames
<1>4. /\ t \in tenants => Exists(t)
      /\ Exists(t) => dbs[t].holds = t
      /\ Exists(new) => dbs[new].holds = t
  BY DEF HoldsInv
<1> HIDE DEF new
<1>5. AuxName(t, "_new") = new
  BY DEF new
<1>6. CASE CreateTenant(s)
  BY <1>2, <1>4, <1>5, <1>6 DEF CreateTenant, Exists, With
<1>7. CASE MigrateData(s)
  BY <1>2, <1>3, <1>4, <1>5, <1>7 DEF MigrateData, Exists, With, Without
<1>8. CASE SwitchTraffic(s)
  BY <1>2, <1>3, <1>4, <1>5, <1>8 DEF SwitchTraffic, Exists, Without
<1>9. CASE DropTenantAuxDatabase(s)
  BY <1>2, <1>3, <1>4, <1>5, <1>9 DEF DropTenantAuxDatabase, Exists, Without
<1>10. CASE BackupTenantData(s)
  BY <1>2, <1>4, <1>5, <1>10 DEF BackupTenantData, Exists, Without
<1>11. CASE DeprovisionTenant(s)
  BY <1>2, <1>4, <1>5, <1>11 DEF DeprovisionTenant, Exists, Without
<1>12. QED
  BY <1>5, <1>6, <1>7, <1>8, <1>9, <1>10, <1>11

\* Whatever IDs are in use, colliding ones among them, no saga reaches the database
\* of a tenant that is apart: a collision harms the tenants that collide and nobody
\* else.
THEOREM CollisionContained == Spec => []CollisionIsContained
<1>1. HoldsInv /\ TenantsInv /\ [Next]_vars => (HoldsInv /\ TenantsInv)'
  BY HoldsNext DEF vars, HoldsInv, TenantsInv, Exists
<1>2. HoldsInv /\ TenantsInv => CollisionIsContained
  BY DEF HoldsInv, TenantsInv, CollisionIsContained
<1>3. QED
  BY HoldsInit, <1>1, <1>2, PTL DEF Spec

-----------------------------------------------------------------------------
(* Its owner is the role of the tenant.                                    *)

LEMMA OwnerInit == Init => OwnerInv
BY DEF Init, OwnerInv, Exists

LEMMA OwnerNext ==
  ASSUME OwnerInv, Next
  PROVE  OwnerInv'
<1> PICK s \in Requested :
      \/ CreateTenant(s)
      \/ MigrateData(s) \/ SwitchTraffic(s) \/ DropTenantAuxDatabase(s)
      \/ BackupTenantData(s) \/ DeprovisionTenant(s)
  BY DEF Next
<1> SUFFICES ASSUME NEW t \in Requested, Apart(t), Last(t) \notin AuxSuffixes
             PROVE  /\ Exists(t)' => dbs'[t].owner = t
                    /\ Exists(AuxName(t, "_new"))' => dbs'[AuxName(t, "_new")].owner = t
  BY DEF OwnerInv, Apart
<1> DEFINE new == AuxName(t, "_new")
<1> "_new" \in AuxSuffixes /\ "_temp" \in AuxSuffixes
  BY DEF AuxSuffixes
<1>1. \A x \in AuxSuffixes : /\ AuxName(s, x) # t /\ new # s
                             /\ AuxName(s, x) = new => s = t /\ x = "_new"
  BY ApartNames
<1>2. new # t
  BY ApartNames
<1>3. tenantOwnerRole(t) = t /\ tenantOwnerRole(new) = t
  BY AuxRole DEF tenantOwnerRole
<1>4. /\ Exists(t) => dbs[t].owner = t
      /\ Exists(new) => dbs[new].owner = t
  BY DEF OwnerInv
<1> HIDE DEF new
<1>5. AuxName(t, "_new") = new
  BY DEF new
<1>6. CASE CreateTenant(s)
  BY <1>1, <1>3, <1>4, <1>5, <1>6 DEF CreateTenant, Exists, With
<1>7. CASE MigrateData(s)
  BY <1>1, <1>2, <1>3, <1>4, <1>5, <1>7 DEF MigrateData, Exists, With, Without
<1>8. CASE SwitchTraffic(s)
  BY <1>1, <1>2, <1>4, <1>5, <1>8 DEF SwitchTraffic, Exists, Without
<1>9. CASE DropTenantAuxDatabase(s)
  BY <1>1, <1>2, <1>4, <1>5, <1>9 DEF DropTenantAuxDatabase, Exists, Without
<1>10. CASE BackupTenantData(s)
  BY <1>1, <1>4, <1>5, <1>10 DEF BackupTenantData, Exists, Without
<1>11. CASE DeprovisionTenant(s)
  BY <1>1, <1>4, <1>5, <1>11 DEF DeprovisionTenant, Exists, Without
<1>12. QED
  BY <1>5, <1>6, <1>7, <1>8, <1>9, <1>10, <1>11

\* The role that the teardown of a tenant that is apart drops is the owner of its
\* database, after a migration too: the role that tenantOwnerRole derives from _new
\* is the one it derives from the live name.
THEOREM RolesOwn == Spec => []RoleIsOwn
<1>1. OwnerInv /\ TenantsInv /\ [Next]_vars => (OwnerInv /\ TenantsInv)'
  <2>1. ASSUME OwnerInv, TenantsInv, Next
        PROVE  TenantsInv'
    BY <2>1 DEF Next, TenantsInv, CreateTenant, MigrateData, SwitchTraffic,
       DropTenantAuxDatabase, BackupTenantData, DeprovisionTenant
  <2>2. QED
    BY <2>1, OwnerNext DEF vars, OwnerInv, TenantsInv, Exists
<1>2. OwnerInv /\ TenantsInv => RoleIsOwn
  BY DEF OwnerInv, TenantsInv, RoleIsOwn
<1>3. QED
  BY HoldsInit, OwnerInit, <1>1, <1>2, PTL DEF Spec

-----------------------------------------------------------------------------
(* The endpoint's limit is the provider's.                                 *)

\* Whatever the IDs, one that passes the endpoint's check is never refused by the
\* provider: 56 characters and "tenant_" are an identifier of PostgreSQL.
THEOREM AcceptedProvisionable == Spec => []AcceptedIsProvisionable
<1>1. Init => AcceptedIsProvisionable
  BY DEF Init, AcceptedIsProvisionable
<1>2. ASSUME NEW t \in Requested, tenantIDPattern(t)
      PROVE  safeID(t)
  BY <1>2, LengthAssumption DEF tenantIDPattern, safeID
<1>3. AcceptedIsProvisionable /\ [Next]_vars => AcceptedIsProvisionable'
  BY <1>2 DEF Next, vars, AcceptedIsProvisionable, CreateTenant, MigrateData, SwitchTraffic,
     DropTenantAuxDatabase, BackupTenantData, DeprovisionTenant
<1>4. QED
  BY <1>1, <1>3, PTL DEF Spec

=============================================================================
