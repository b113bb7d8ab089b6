--------------------------- MODULE StorageVersion ---------------------------
(***************************************************************************)
(* The version check of open_storage (papyrus_storage/src/lib.rs and       *)
(* version.rs).  A storage has a state version and, in full-archive mode,  *)
(* a blocks version, in two entries of one table.  Opening it writes them  *)
(* the first time, deletes the blocks version when the scope changes to    *)
(* StateOnly, raises minor versions, and then compares.  These are several *)
(* transactions; the process can be killed between any two of them and     *)
(* come back with another release of the code or another scope.            *)
(***************************************************************************)
EXTENDS Integers

CONSTANTS
  Releases,   \* releases of the code: [state : Version, blocks : Version]
  NoVersion   \* no entry in the table

VARIABLES
  version_pc,   \* how far open_storage is
  scope,        \* StorageConfig::scope of the running process
  release,      \* STORAGE_VERSION_STATE, STORAGE_VERSION_BLOCKS of the process
  stored,       \* the storage_version table
  existing,     \* existing_storage_version, as set_version_if_needed read it
  state_only    \* ghost: the storage has been open with scope StateOnly

versionVars == <<version_pc, scope, release, stored, existing, state_only>>
processVars == <<scope, release, state_only>>

StorageScope == {"FullArchive", "StateOnly"}
Version == {r.state : r \in Releases} \cup {r.blocks : r \in Releases}

(* STORAGE_VERSION_BLOCKS has minor version 0.  A release that raised it would,
   in a process that also changes the scope to StateOnly, write the blocks
   version again right after its deletion: update_versions decides from what
   was read before. *)
ASSUME ReleasesAssumption ==
  NoVersion \notin Version /\ \A r \in Releases : r.blocks.minor = 0

Table == [state : Version \cup {NoVersion}, blocks : Version \cup {NoVersion}]
Stages == {"down", "get", "init_blocks", "scope", "update", "verify", "open", "refused"}

(* A storage with a blocks version also has a state version. *)
VersionTypeOK ==
  /\ stored.blocks # NoVersion => stored.state # NoVersion
  /\ version_pc \in Stages
  /\ scope \in StorageScope
  /\ release \in Releases
  /\ stored \in Table
  /\ existing \in Table
  /\ state_only \in BOOLEAN

(* VersionStorageWriter::set_state_version and set_blocks_version: the entry
   "entry" becomes v; a version of another major, or one that is not lower,
   is not overwritten.  The callers check this first, so the error does not
   occur. *)
CanSet(old, v) == old = NoVersion \/ (old.major = v.major /\ old.minor < v.minor)
set_version(table, entry, v) ==
  IF CanSet(table[entry], v) THEN [table EXCEPT ![entry] = v] ELSE table

delete_blocks_version(table) == [table EXCEPT !.blocks = NoVersion]

(* set_version_if_needed raises an entry of the same major and a lower minor. *)
IsOutdated(v, crate) == crate.major = v.major /\ crate.minor > v.minor

VersionInit ==
  /\ version_pc = "down"
  /\ scope = "FullArchive"
  /\ release \in Releases
  /\ stored = [state |-> NoVersion, blocks |-> NoVersion]
  /\ existing = stored
  /\ state_only = FALSE

(* open_storage starts, in a process with some release and scope. *)
open_storage(sc, r) ==
  /\ version_pc = "down"
  /\ version_pc' = "get"
  /\ scope' = sc
  /\ release' = r
  /\ UNCHANGED <<stored, existing, state_only>>

(* get_storage_version; without a state version the storage is new, and its
   state version is committed. *)
set_state_version ==
  /\ version_pc = "get"
  /\ existing' = stored
  /\ IF stored.state = NoVersion
     THEN /\ stored' = set_version(stored, "state", release.state)
          /\ version_pc' = "init_blocks"
     ELSE /\ stored' = stored
          /\ version_pc' = "scope"
  /\ UNCHANGED processVars

(* The second transaction of a new storage. *)
set_blocks_version ==
  /\ version_pc = "init_blocks"
  /\ stored' = IF scope = "FullArchive"
               THEN set_version(stored, "blocks", release.blocks) ELSE stored
  /\ version_pc' = "verify"
  /\ UNCHANGED <<existing, processVars>>

(* Mutant: a change to FullArchive is not refused, and the blocks version is set
   as for a new storage. *)
change_scopeMutant ==
  /\ version_pc = "scope"
  /\ version_pc' = "update"
  /\ stored' = IF scope = "StateOnly" THEN delete_blocks_version(stored)
               ELSE IF existing.blocks = NoVersion
               THEN set_version(stored, "blocks", release.blocks) ELSE stored
  /\ UNCHANGED <<existing, processVars>>

(* A change of scope: StateOnly deletes the blocks version, FullArchive is
   refused with InconsistentStorageScope. *)
change_scope ==
  /\ version_pc = "scope"
  /\ IF existing.blocks = NoVersion
     THEN /\ version_pc' = IF scope = "FullArchive" THEN "refused" ELSE "update"
          /\ stored' = stored
     ELSE /\ version_pc' = "update"
          /\ stored' = IF scope = "StateOnly" THEN delete_blocks_version(stored) ELSE stored
  /\ UNCHANGED <<existing, processVars>>

(* The last transaction of set_version_if_needed raises outdated versions.
   What is outdated is decided from what was read at the start. *)
update_versions ==
  /\ version_pc = "update"
  /\ version_pc' = "verify"
  /\ LET table1 == IF IsOutdated(existing.state, release.state)
                   THEN set_version(stored, "state", release.state) ELSE stored
         table2 == IF existing.blocks # NoVersion /\ IsOutdated(existing.blocks, release.blocks)
                   THEN set_version(table1, "blocks", release.blocks) ELSE table1
     IN  stored' = table2
  /\ UNCHANGED <<existing, processVars>>

(* Mutant: only the state version is compared. *)
VersionsMatchMutant == stored.state = release.state

(* verify_storage_version: the versions that exist equal the crate's. *)
VersionsMatch ==
  /\ stored.state = release.state
  /\ stored.blocks \in {NoVersion, release.blocks}

verify_storage_version ==
  /\ version_pc = "verify"
  /\ version_pc' = IF VersionsMatch THEN "open" ELSE "refused"
  /\ state_only' = (state_only \/ (VersionsMatch /\ scope = "StateOnly"))
  /\ UNCHANGED <<stored, existing, scope, release>>

(* The process ends, or is killed, between any two transactions. *)
VersionCrash ==
  /\ version_pc # "down"
  /\ version_pc' = "down"
  /\ UNCHANGED <<stored, existing, processVars>>

VersionNext ==
  \/ \E sc \in StorageScope, r \in Releases : open_storage(sc, r)
  \/ set_state_version
  \/ set_blocks_version
  \/ change_scope
  \/ update_versions
  \/ verify_storage_version
  \/ VersionCrash

VersionSpec == VersionInit /\ [][VersionNext]_versionVars

-----------------------------------------------------------------------------
(* A storage is only used by code of exactly its versions, and it has a blocks
   version just when it is used in full-archive mode, whatever releases, scopes
   and crashes came before: what set_version_if_needed and
   verify_storage_version are for. *)
OpenStorageMatches ==
  version_pc = "open" =>
    /\ stored.state = release.state
    /\ stored.blocks = IF scope = "FullArchive" THEN release.blocks ELSE NoVersion

(* A storage that was once open with scope StateOnly, and so may miss blocks,
   is never open with scope FullArchive again, and no release, scope or crash in
   the middle of open_storage gives it a blocks version back: the reason given
   in set_version_if_needed for deleting that version. *)
StateOnlyIsForever ==
  state_only => stored.blocks = NoVersion /\ ~(version_pc = "open" /\ scope = "FullArchive")
=============================================================================
