------------------------ MODULE StorageVersionProofs ------------------------
(***************************************************************************)
(* Proofs about the version check of open_storage, for every set of        *)
(* releases.  The inductive invariant says, for every stage, what the      *)
(* table holds, so that a crash at any stage leaves a table from which     *)
(* every later open_storage is right.                                      *)
(***************************************************************************)
EXTENDS StorageVersion, TLAPS

(* The blocks version that is stored came from some release. *)
BlocksFromRelease(table) ==
  table.blocks # NoVersion => \E r \in Releases : table.blocks = r.blocks

ByStage ==
  /\ version_pc = "init_blocks" =>
       stored.state # NoVersion /\ stored.blocks = NoVersion /\ ~state_only
  /\ version_pc = "scope" => existing = stored
  /\ version_pc = "update" =>
       /\ existing.blocks # NoVersion /\ scope = "FullArchive" => stored = existing
       /\ existing.blocks = NoVersion => scope = "StateOnly"
       /\ scope = "StateOnly" => stored.blocks = NoVersion
  /\ version_pc = "verify" => (stored.blocks = NoVersion <=> scope = "StateOnly")

VersionInv ==
  /\ VersionTypeOK
  /\ BlocksFromRelease(stored) /\ BlocksFromRelease(existing)
  /\ state_only => stored.blocks = NoVersion /\ stored.state # NoVersion
  /\ ByStage
  /\ OpenStorageMatches

(* No stored minor blocks version is lower than that of a release. *)
LEMMA BlocksNotOutdated ==
  ASSUME NEW table, BlocksFromRelease(table), table.blocks # NoVersion, NEW r \in Releases
  PROVE  ~IsOutdated(table.blocks, r.blocks)
  BY ReleasesAssumption DEF BlocksFromRelease, IsOutdated

LEMMA VersionInitial == VersionInit => VersionInv
<1> SUFFICES ASSUME VersionInit PROVE VersionInv
  OBVIOUS
<1>1. VersionTypeOK
  BY DEF VersionInit, VersionTypeOK, Stages, StorageScope, Table
<1>2. BlocksFromRelease(stored) /\ BlocksFromRelease(existing)
  BY DEF VersionInit, BlocksFromRelease
<1>3. ~state_only /\ ByStage /\ OpenStorageMatches
  BY DEF VersionInit, ByStage, OpenStorageMatches
<1> QED
  BY <1>1, <1>2, <1>3 DEF VersionInv

LEMMA VersionsOfReleases ==
  ASSUME NEW r \in Releases
  PROVE  r.state \in Version /\ r.blocks \in Version /\ r.state # NoVersion /\ r.blocks # NoVersion
  BY ReleasesAssumption DEF Version

(* Every step of open_storage, and a crash, keeps the invariant. *)
LEMMA VersionStep == VersionInv /\ [VersionNext]_versionVars => VersionInv'
<1> USE DEF VersionTypeOK, BlocksFromRelease, ByStage, OpenStorageMatches, Stages, StorageScope, Table
<1> SUFFICES ASSUME VersionInv, [VersionNext]_versionVars PROVE VersionInv'
  OBVIOUS
<1>0. /\ VersionTypeOK /\ ByStage /\ OpenStorageMatches
      /\ BlocksFromRelease(stored) /\ BlocksFromRelease(existing)
      /\ state_only => stored.blocks = NoVersion /\ stored.state # NoVersion
  BY DEF VersionInv
<1>1. ASSUME NEW sc \in StorageScope, NEW r \in Releases, open_storage(sc, r) PROVE VersionInv'
  BY <1>0, <1>1 DEF VersionInv, open_storage
<1>2. CASE set_state_version
  BY <1>0, <1>2, VersionsOfReleases DEF VersionInv, set_state_version, processVars, set_version, CanSet
<1>3. CASE set_blocks_version
  <2>1. stored' = IF scope = "FullArchive" THEN [stored EXCEPT !.blocks = release.blocks]
                  ELSE stored
    BY <1>0, <1>3 DEF set_blocks_version, set_version, CanSet
  <2>2. stored' \in Table /\ stored'.state = stored.state
        /\ stored'.blocks = IF scope = "FullArchive" THEN release.blocks ELSE NoVersion
    BY <1>0, <1>3, <2>1, VersionsOfReleases DEF set_blocks_version
  <2>3. UNCHANGED <<existing, scope, release, state_only>> /\ version_pc' = "verify"
        /\ version_pc = "init_blocks"
    BY <1>3 DEF set_blocks_version, processVars
  <2> QED
    BY <1>0, <2>2, <2>3, VersionsOfReleases DEF VersionInv
<1>4. CASE change_scope
  BY <1>0, <1>4 DEF VersionInv, change_scope, processVars, delete_blocks_version
<1>5. CASE update_versions
  <2>1. existing.blocks # NoVersion => ~IsOutdated(existing.blocks, release.blocks)
    BY <1>0, BlocksNotOutdated
  <2>2. stored' = IF IsOutdated(existing.state, release.state)
                  THEN set_version(stored, "state", release.state) ELSE stored
    BY <1>5, <2>1 DEF update_versions
  <2>3. stored' \in Table /\ stored'.blocks = stored.blocks
        /\ (stored.state # NoVersion => stored'.state # NoVersion)
    BY <1>0, <2>2, VersionsOfReleases DEF set_version
  <2>4. UNCHANGED <<existing, scope, release, state_only>> /\ version_pc' = "verify"
        /\ version_pc = "update"
    BY <1>5 DEF update_versions, processVars
  <2> QED
    BY <1>0, <2>3, <2>4 DEF VersionInv
<1>6. CASE verify_storage_version
  BY <1>0, <1>6, VersionsOfReleases DEF VersionInv, verify_storage_version, VersionsMatch
<1>7. CASE VersionCrash
  BY <1>0, <1>7 DEF VersionInv, VersionCrash, processVars
<1>8. CASE UNCHANGED versionVars
  BY <1>0, <1>8 DEF VersionInv, versionVars
<1> QED
  BY <1>1, <1>2, <1>3, <1>4, <1>5, <1>6, <1>7, <1>8 DEF VersionNext

LEMMA VersionInvariant == VersionSpec => []VersionInv
  BY VersionInitial, VersionStep, PTL DEF VersionSpec

(* A storage is only used by code of exactly its versions, and has a blocks
   version just when it is used in full-archive mode, whatever releases, scopes
   and crashes came before. *)
THEOREM OpenMatches == VersionSpec => []OpenStorageMatches
<1>1. VersionInv => OpenStorageMatches
  BY DEF VersionInv
<1> QED
  BY <1>1, VersionInvariant, PTL

(* A storage that was once open with scope StateOnly is never open with scope
   FullArchive again, and never has a blocks version again. *)
THEOREM StateOnlyForever == VersionSpec => []StateOnlyIsForever
<1>1. VersionInv => StateOnlyIsForever
  BY VersionsOfReleases DEF VersionInv, StateOnlyIsForever, OpenStorageMatches, VersionTypeOK
<1> QED
  BY <1>1, VersionInvariant, PTL
=============================================================================
