----------------------------- MODULE MCStorage ------------------------------
(* Three parts of the storage, one of them per behaviour: a file of at most
   max_size bytes, the versions, and a common-prefix table. *)
EXTENDS MmapFile, StorageVersion, DupSortTable

VARIABLE part  \* the part of this behaviour

V(major, minor) == [major |-> major, minor |-> minor]

(* Releases that raise the minor state version and each major version. *)
SomeReleases == {[state |-> V(1, 0), blocks |-> V(2, 0)], [state |-> V(1, 1), blocks |-> V(2, 0)],
                 [state |-> V(2, 0), blocks |-> V(2, 0)], [state |-> V(1, 1), blocks |-> V(3, 0)]}

(* Adding one to the first main key gives more bytes in front of the second. *)
TwoMainKeys == {<<0, 2>>, <<1, 0, 0>>}

StorageInit ==
  /\ part \in {"file", "version", "table"}
  /\ Init /\ VersionInit /\ DupInit
  /\ part # "version" => release = CHOOSE r \in Releases : TRUE

StorageNext ==
  \/ part = "file" /\ Next /\ UNCHANGED <<part, versionVars, dupVars>>
  \/ part = "version" /\ VersionNext /\ UNCHANGED <<part, vars, dupVars>>
  \/ part = "table" /\ DupNext /\ UNCHANGED <<part, vars, versionVars>>

StorageSpec == StorageInit /\ [][StorageNext]_<<part, vars, versionVars, dupVars>>
=============================================================================
