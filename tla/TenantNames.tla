---------------------------- MODULE TenantNames -----------------------------
(***************************************************************************)
(* Many dedicated tenants in one PostgreSQL cluster: which names their     *)
(* databases and roles get, and whose database a name reaches.  A tenant   *)
(* ID is a sequence: a base, of some length, then the suffixes "_new" and  *)
(* "_temp" that its last characters spell.  Databases and roles are        *)
(* "tenant_" before such a sequence.  Activities run undisturbed here;     *)
(* DataSagas takes them apart, for one tenant.                             *)
(***************************************************************************)
EXTENDS Naturals, Sequences, SequencesExt

CONSTANTS
  Requested,   \* the tenant IDs that clients ask for
  Characters   \* per base: its length

VARIABLES
  used,      \* the IDs whose provisioning was started: each is used up (REJECT_DUPLICATE)
  tenants,   \* the active tenants
  refused,   \* the tenants whose provisioning the provider refused: an invalid name
  dbs,       \* the databases of the cluster: whose data they hold, and their owner
  verified   \* the tenants whose delete saga has its backup

vars == <<used, tenants, refused, dbs, verified>>

-----------------------------------------------------------------------------
(* Names.                                                                  *)

AuxSuffixes == {"_new", "_temp"}

\* A base is a name that does not end in a suffix.
ASSUME NamesAssumption ==
  /\ \A b \in DOMAIN Characters : Characters[b] \in Nat \ {0}
  /\ DOMAIN Characters \cap AuxSuffixes = {}
  /\ Requested \subseteq Seq(DOMAIN Characters \cup AuxSuffixes) \ {<<>>}

Length(name) ==
  FoldLeft(LAMBDA n, part : n + CASE part = "_new" -> 4 [] part = "_temp" -> 5
                                  [] OTHER -> Characters[part], 0, name)

ASSUME LengthAssumption == \A id \in Requested : Length(id) \in Nat

\* Mutant: an ID may be a character too long.
AcceptsLonger(id) == Length(id) <= 57

\* The endpoint's check of an ID.
tenantIDPattern(id) == Length(id) <= 56

\* validateIdentifier: "tenant_" and the name fit an identifier of PostgreSQL.
safeID(name) == 7 + Length(name) <= 63

\* Mutant: one scratch database of a kind, for all tenants.
SharesScratch(id, suffix) == <<suffix>>

\* newDBName and tempDBName.
AuxName(id, suffix) == Append(id, suffix)

\* Mutant: the role has the name of the database.
OwnsItself(name) == name

tenantOwnerRole(name) == IF Last(name) \in AuxSuffixes THEN Front(name) ELSE name

-----------------------------------------------------------------------------
(* Activities, of tenant t.                                                *)

Exists(name) == name \in DOMAIN dbs

\* The cluster without database name, and with it as t's, handed to its role.
Without(d, name) == [n \in DOMAIN d \ {name} |-> d[n]]
With(d, name, t) ==
  [n \in DOMAIN d \cup {name} |->
     IF n = name THEN [holds |-> t, owner |-> tenantOwnerRole(name)] ELSE d[n]]

\* A 400, or a run whose ProvisionTenant inspects the database first: it creates a
\* missing one and hands an existing one to the role.
CreateTenant(t) ==
  /\ t \notin used
  /\ tenantIDPattern(t)
  /\ used' = used \cup {t}
  /\ IF safeID(t)
       THEN /\ dbs' = With(dbs, t, IF Exists(t) THEN dbs[t].holds ELSE t)
            /\ tenants' = tenants \cup {t} /\ UNCHANGED refused
       ELSE refused' = refused \cup {t} /\ UNCHANGED <<dbs, tenants>>
  /\ UNCHANGED verified

\* _new is dropped and built from a dump of the live database.
MigrateData(t) ==
  LET new == AuxName(t, "_new") IN
  /\ t \in tenants /\ Exists(t) /\ safeID(new)
  /\ dbs' = With(Without(dbs, new), new, dbs[t].holds)
  /\ UNCHANGED <<used, tenants, refused, verified>>

\* The live database is dropped and _new gets its name, but keeps its owner.
SwitchTraffic(t) ==
  LET new == AuxName(t, "_new") IN
  /\ t \in tenants /\ Exists(new) /\ safeID(new)
  /\ dbs' = Without([n \in DOMAIN dbs \cup {t} |-> IF n = t THEN dbs[new] ELSE dbs[n]], new)
  /\ UNCHANGED <<used, tenants, refused, verified>>

DropTenantAuxDatabase(t) ==
  LET new == AuxName(t, "_new") IN
  /\ t \in tenants /\ safeID(new)
  /\ dbs' = Without(dbs, new)
  /\ UNCHANGED <<used, tenants, refused, verified>>

\* _temp is dropped, built from a dump, validated and dropped.
BackupTenantData(t) ==
  LET temp == AuxName(t, "_temp") IN
  /\ t \in tenants /\ Exists(t) /\ safeID(temp)
  /\ dbs' = Without(dbs, temp)
  /\ verified' = verified \cup {t}
  /\ UNCHANGED <<used, tenants, refused>>

\* The teardown, after the backup of the delete saga.
DeprovisionTenant(t) ==
  /\ t \in verified
  /\ dbs' = Without(dbs, t)
  /\ tenants' = tenants \ {t} /\ verified' = verified \ {t}
  /\ UNCHANGED <<used, refused>>

Init == used = {} /\ tenants = {} /\ refused = {} /\ dbs = <<>> /\ verified = {}

Next ==
  \E t \in Requested :
    \/ CreateTenant(t)
    \/ MigrateData(t) \/ SwitchTraffic(t) \/ DropTenantAuxDatabase(t)
    \/ BackupTenantData(t) \/ DeprovisionTenant(t)

Spec == Init /\ [][Next]_vars

-----------------------------------------------------------------------------

\* No requested ID is an auxiliary name of t, nor t one of theirs.
Apart(t) ==
  \A s \in Requested : \A x \in AuxSuffixes : AuxName(s, x) # t /\ AuxName(t, x) # s

\* A collision of names is contained: beside tenants that take each other's
\* databases, the live database of a tenant that is apart is there and holds that
\* tenant's data, whatever is migrated, backed up and deleted.
CollisionIsContained ==
  \A t \in tenants : Apart(t) => Exists(t) /\ dbs[t].holds = t

\* The role that the teardown of such a tenant drops, tenant_<id>, is the one that
\* owns its database, also after a migration has replaced that database (unless the
\* ID ends like an auxiliary name itself).
RoleIsOwn ==
  \A t \in tenants :
    Apart(t) /\ Last(t) \notin AuxSuffixes /\ Exists(t) => dbs[t].owner = t

\* The live database of every active tenant is there and holds that tenant's data,
\* whatever the sagas of its neighbours do under the names they derive.
NeighboursAreSafe == \A t \in tenants : Exists(t) /\ dbs[t].holds = t

\* An ID that passes the endpoint is one that the provider accepts.
AcceptedIsProvisionable == refused = {}

\* An ID that passes the endpoint is one for which every name that is derived from
\* it is valid.
DerivedNamesAreValid ==
  \A t \in tenants : \A s \in AuxSuffixes : safeID(AuxName(t, s))

=============================================================================
