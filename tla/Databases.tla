----------------------------- MODULE Databases ------------------------------
(***************************************************************************)
(* What the sagas of one dedicated tenant share: its live, _new and _temp  *)
(* databases in the PostgreSQL cluster, its owner role, the dump files in  *)
(* the backup directory and the rows of the backups table.  Every operator *)
(* below is one call of the provider (internal/cloud/docker.go) or of the  *)
(* backup repository that succeeds; what a call that fails leaves behind   *)
(* is in the sets at the end.                                              *)
(***************************************************************************)
EXTENDS Naturals, Sequences, FiniteSetsExt

CONSTANT MaxDumps   \* bound: dump files taken

ASSUME DumpsAssumption == MaxDumps \in Nat \ {0}

VARIABLES
  content,   \* per database: absent, or what it holds
  owned,     \* the databases owned by the tenant's role and closed to PUBLIC
  role,      \* the tenant's owner role exists
  files,     \* the dump files, in the order of their names
  backups    \* the rows of the backups table, in the order of created_at

cluster == <<content, owned, role>>
artifacts == <<files, backups>>

DatabaseNames == {"live", "new", "temp"}

\* v1 and v2 are the tenant's data before and after a write; a partial database
\* or file is what an interrupted psql or pg_dump leaves.
Data == {"v1", "v2"}
Contents == Data \cup {"empty", "partial"}
BackupStatuses == {"pending", "completed", "failed"}

Exists(n) == content[n] # "absent"

-----------------------------------------------------------------------------
(* Databases and the role.                                                 *)

\* CREATE DATABASE, the first statement of CreateDatabaseNamed.
CreateDatabaseNamed(n) ==
  /\ ~Exists(n)
  /\ content' = [content EXCEPT ![n] = "empty"]
  /\ UNCHANGED <<owned, role>>

\* The ownership statements: create the role if it is missing, make it the owner,
\* revoke CONNECT from PUBLIC.
applyDatabaseOwnership(n) ==
  /\ Exists(n)
  /\ owned' = owned \cup {n}
  /\ role' = TRUE
  /\ UNCHANGED content

DropDatabaseNamed(n) ==
  /\ content' = [content EXCEPT ![n] = "absent"]
  /\ owned' = owned \ {n}
  /\ UNCHANGED role

\* PostgreSQL refuses to drop a role that owns a database.
DropTenantRole ==
  /\ owned = {}
  /\ role' = FALSE
  /\ UNCHANGED <<content, owned>>

RenameDatabase(from, to) ==
  /\ Exists(from) /\ ~Exists(to)
  /\ content' = [content EXCEPT ![from] = "absent", ![to] = content[from]]
  /\ owned' = (owned \ {from}) \cup (IF from \in owned THEN {to} ELSE {})
  /\ UNCHANGED role

-----------------------------------------------------------------------------
(* Dumps and backups.                                                      *)

\* SnapshotDatabase names the dump after the current second: a new name, or the
\* name of a dump that was taken in the same second.
DumpNames(recent) == {f \in {Len(files) + 1} : f <= MaxDumps} \cup recent

\* pg_dump of database live into file f.
SnapshotDatabase(f) ==
  /\ Exists("live")
  /\ files' = IF f > Len(files) THEN Append(files, content["live"])
                                ELSE [files EXCEPT ![f] = content["live"]]
  /\ UNCHANGED backups

\* psql replays a dump without dropping anything first and stops at the first
\* error: a dump that creates tables loads only into a database that has none.
Loads(n, f) == Exists(n) /\ (content[n] = "empty" \/ files[f] = "empty")

RestoreDatabaseFromBackup(n, f) ==
  /\ Loads(n, f)
  /\ content' = [content EXCEPT ![n] = IF files[f] = "empty" THEN @ ELSE files[f]]
  /\ UNCHANGED <<owned, role>>

\* ValidateDatabase counts tables: it fails only if it cannot connect.
ValidateDatabase(n) == Exists(n)

\* backups.filename is UNIQUE.
CreateBackup(f) ==
  /\ \A i \in DOMAIN backups : backups[i].file # f
  /\ backups' = Append(backups, [file |-> f, status |-> "pending"])
  /\ UNCHANGED files

\* The backups table after an UPDATE of the status of file f's row.
Marked(f, to) ==
  [i \in DOMAIN backups |->
     IF backups[i].file = f THEN [backups[i] EXCEPT !.status = to] ELSE backups[i]]

MarkBackupCompleted(f) == backups' = Marked(f, "completed") /\ UNCHANGED files

Completed == {i \in DOMAIN backups : backups[i].status = "completed"}

\* The newest completed row of ListBackups, 0 if there is none.
LatestCompleted == IF Completed = {} THEN 0 ELSE backups[Max(Completed)].file

-----------------------------------------------------------------------------
(* What calls that fail, or are cut off, leave behind.                     *)

\* What RestoreDatabaseFromBackup may leave of database n: psql commits statement
\* by statement, up to the first table that is already there.
AfterFailedRestore(n, f) ==
  {content[n]}
  \cup IF Exists(n) /\ files[f] \notin {"empty", content[n]} THEN {"partial"} ELSE {}
  \cup IF content[n] = "empty" THEN {files[f]} ELSE {}

\* A pg_dump that is cut off has truncated the file it was to overwrite.
AfterFailedSnapshot(recent) ==
  {files} \cup {[files EXCEPT ![f] = "partial"] : f \in recent}

DatabasesOK ==
  /\ content \in [DatabaseNames -> Contents \cup {"absent"}]
  /\ owned \subseteq {n \in DatabaseNames : Exists(n)}
  /\ role \in BOOLEAN /\ (owned # {} => role)
  /\ files \in Seq(Contents) /\ Len(files) <= MaxDumps
  /\ backups \in Seq([file : 1 .. MaxDumps, status : BackupStatuses])

=============================================================================
