------------------------------ MODULE MmapFile ------------------------------
(***************************************************************************)
(* The storage's memory mapped files and their commit protocol:            *)
(* papyrus_storage's mmap_file/mod.rs, and FileHandlers, commit and        *)
(* open_storage_files of its lib.rs.                                       *)
(*                                                                         *)
(* Large objects (state diffs, classes, casms, transactions, outputs) are  *)
(* appended to one file per OffsetKind; the database keeps only their      *)
(* LocationInFile and, per file, the offset at which the next object goes. *)
(* A write transaction appends to the files at once, whether or not it is  *)
(* committed later; commit flushes every file and then commits the         *)
(* database.  A power failure keeps the committed database, and of each    *)
(* file the flushed bytes and any of the others.                           *)
(*                                                                         *)
(* Abstractions: an object of length len is len equal bytes; the database  *)
(* (libmdbx) is external and commits atomically; the length of a file, set *)
(* by set_len, survives a crash; objects respect max_object_size, which is *)
(* what the configuration documents and append does not check.             *)
(***************************************************************************)
EXTENDS Integers

CONSTANTS
  OffsetKind,       \* the kinds of files
  Keys, Values,     \* keys of the tables that point into files; file bytes
  Readers,          \* read-only transactions
  max_size, growth_step, max_object_size,  \* MmapFileConfig
  OffsetLimit, LenLimit  \* 2^48 and 2^32: what LocationInFile serializes

ASSUME ConfigAssumption ==
  /\ max_size \in Nat /\ growth_step \in Nat /\ max_object_size \in Nat \ {0}
  /\ max_size >= growth_step            \* validate_config
  /\ growth_step >= max_object_size     \* validate_config

ASSUME ValuesAssumption == Values # {}

ASSUME LimitAssumption ==
  /\ OffsetLimit \in Nat /\ OffsetLimit >= max_size
  /\ LenLimit \in Nat /\ LenLimit > max_object_size

VARIABLES
  pc,           \* where the single writer is
  size,         \* MMapFile::size, the length of each file
  offset,       \* MMapFile::offset
  should_flush, \* MMapFile::should_flush
  mem,          \* the bytes of each file as the mapping shows them
  disk,         \* the bytes of each file that survive a power failure
  table,        \* committed locations, with the value written there
  file_offset,  \* committed file_offsets table
  txn_table, txn_file_offset,  \* the same, as the write transaction sees them
  to_flush,     \* files that the running commit has not flushed yet
  snapshot      \* the tables each read-only transaction sees

vars == <<pc, size, offset, should_flush, mem, disk, table, file_offset,
          txn_table, txn_file_offset, to_flush, snapshot>>

fileVars == <<size, offset, should_flush, mem, disk>>
dbVars == <<table, file_offset>>
txnVars == <<txn_table, txn_file_offset>>

Byte == 0 .. max_size - 1
Zero == CHOOSE v \in Values : TRUE
Location == [key : Keys, offset : Nat, len : Nat, val : Values]
Bytes(loc) == {b \in Byte : loc.offset <= b /\ b < loc.offset + loc.len}
(* Reader::get returns, from the bytes of a file, the object written there. *)
get(bytes, loc) == \A b \in Bytes(loc) : bytes[b] = loc.val
NoTable == [k \in OffsetKind |-> {}]

(* The stored form of a location keeps 6 bytes of the offset and 4 of the
   length.  The value is a ghost: what a read of the location must return. *)
LocationInFile(key, off, len, v) ==
  [key |-> key, offset |-> off % OffsetLimit, len |-> len % LenLimit, val |-> v]

TypeOK ==
  /\ pc \in {"down", "idle", "txn", "grow", "commit"}
  /\ size \in [OffsetKind -> Nat]
  /\ offset \in [OffsetKind -> Nat]
  /\ should_flush \in [OffsetKind -> BOOLEAN]
  /\ mem \in [OffsetKind -> [Byte -> Values]]
  /\ disk \in [OffsetKind -> [Byte -> Values]]
  /\ table \in [OffsetKind -> SUBSET Location]
  /\ file_offset \in [OffsetKind -> Nat]
  /\ txn_table \in [OffsetKind -> SUBSET Location]
  /\ txn_file_offset \in [OffsetKind -> Nat]
  /\ to_flush \in SUBSET OffsetKind
  /\ snapshot \in [Readers -> [OffsetKind -> SUBSET Location]]

(* A new directory: empty files, empty database, no process. *)
Init ==
  /\ pc = "down"
  /\ size = [k \in OffsetKind |-> 0]
  /\ offset = [k \in OffsetKind |-> 0]
  /\ should_flush = [k \in OffsetKind |-> FALSE]
  /\ mem = [k \in OffsetKind |-> [b \in Byte |-> Zero]]
  /\ disk = [k \in OffsetKind |-> [b \in Byte |-> Zero]]
  /\ table = NoTable
  /\ file_offset = [k \in OffsetKind |-> 0]
  /\ txn_table = NoTable
  /\ txn_file_offset = [k \in OffsetKind |-> 0]
  /\ to_flush = {}
  /\ snapshot = [r \in Readers |-> NoTable]

(* Whether grow_file_if_needed(off) grows a file of size sz. *)
NeedsGrowth(sz, off) == sz < off + max_object_size

(* grow_file_if_needed: one growth step at most. *)
Grown(sz, off) == IF NeedsGrowth(sz, off) THEN sz + growth_step ELSE sz

(* open_file grows as if the offset were 0. *)
open_file(sz) == Grown(sz, 0)

(* open_storage_files: the offsets come from the database, the sizes from
   the files. *)
open_storage_files ==
  /\ pc = "down"
  /\ pc' = "idle"
  /\ offset' = file_offset
  /\ should_flush' = [k \in OffsetKind |-> FALSE]
  /\ size' = [k \in OffsetKind |-> open_file(size[k])]
  /\ UNCHANGED <<mem, disk, dbVars, txnVars, to_flush, snapshot>>

(* StorageWriter::begin_rw_txn *)
begin_rw_txn ==
  /\ pc = "idle"
  /\ pc' = "txn"
  /\ txn_table' = table
  /\ txn_file_offset' = file_offset
  /\ UNCHANGED <<fileVars, dbVars, to_flush, snapshot>>

(* The first half of Writer::append, under the lock: copy the bytes into the
   mapping and move the offset.  A slice beyond the mapping panics: Crash. *)
append(k, key, len, v) ==
  /\ pc = "txn"
  /\ ~ \E e \in txn_table[k] : e.key = key
  /\ offset[k] + len <= max_size
  /\ pc' = "grow"
  /\ mem' = [mem EXCEPT ![k] = [b \in Byte |->
               IF offset[k] <= b /\ b < offset[k] + len THEN v ELSE mem[k][b]]]
  /\ offset' = [offset EXCEPT ![k] = offset[k] + len]
  /\ should_flush' = [should_flush EXCEPT ![k] = TRUE]
  /\ txn_table' = [txn_table EXCEPT
                     ![k] = txn_table[k] \cup {LocationInFile(key, offset[k], len, v)}]
  /\ txn_file_offset' = [txn_file_offset EXCEPT ![k] = offset[k] + len]
  /\ UNCHANGED <<size, disk, dbVars, to_flush, snapshot>>

(* The second half of Writer::append: grow_file_if_needed at the new offset,
   one growth step that flushes the mapping first. *)
grow_file_if_needed ==
  /\ pc = "grow"
  /\ pc' = "txn"
  /\ LET grown == {k \in OffsetKind : NeedsGrowth(size[k], offset[k])} IN
     /\ size' = [k \in OffsetKind |-> Grown(size[k], offset[k])]
     /\ disk' = [k \in OffsetKind |-> IF k \in grown THEN mem[k] ELSE disk[k]]
     /\ should_flush' = [k \in OffsetKind |-> should_flush[k] /\ k \notin grown]
  /\ UNCHANGED <<offset, mem, dbVars, txnVars, to_flush, snapshot>>

(* Mutant: a delete rewinds the offset by the length of the object. *)
deleteRewindMutant(k, e) ==
  /\ pc = "txn"
  /\ e \in txn_table[k]
  /\ txn_table' = [txn_table EXCEPT ![k] = txn_table[k] \ {e}]
  /\ offset' = [offset EXCEPT ![k] = offset[k] - e.len]
  /\ UNCHANGED <<pc, size, should_flush, mem, disk, dbVars, txn_file_offset, to_flush, snapshot>>

(* A revert deletes the table's entry; the file and its offset stay. *)
delete(k, e) ==
  /\ pc = "txn"
  /\ e \in txn_table[k]
  /\ txn_table' = [txn_table EXCEPT ![k] = txn_table[k] \ {e}]
  /\ UNCHANGED <<pc, fileVars, dbVars, txn_file_offset, to_flush, snapshot>>

(* Dropping a StorageTxn aborts the database transaction only: the offsets
   of the files keep what was appended. *)
abort ==
  /\ pc = "txn"
  /\ pc' = "idle"
  /\ UNCHANGED <<fileVars, dbVars, txnVars, to_flush, snapshot>>

(* StorageTxn::commit starts: every file is to be flushed. *)
commit ==
  /\ pc = "txn"
  /\ pc' = "commit"
  /\ to_flush' = OffsetKind
  /\ UNCHANGED <<fileVars, dbVars, txnVars, snapshot>>

(* FileHandlers::flush, one file: nothing to do unless should_flush. *)
flush(k) ==
  /\ pc = "commit"
  /\ k \in to_flush
  /\ to_flush' = to_flush \ {k}
  /\ disk' = [disk EXCEPT ![k] = IF should_flush[k] THEN mem[k] ELSE disk[k]]
  /\ should_flush' = [should_flush EXCEPT ![k] = FALSE]
  /\ UNCHANGED <<pc, size, offset, mem, dbVars, txnVars, snapshot>>

(* Mutant: the database commits before the files are flushed. *)
CommitReadyMutant == TRUE

(* The end of commit: the database transaction commits once all is flushed. *)
CommitReady == to_flush = {}

(* Mutant: the commit gives the space behind the last live object back. *)
db_commitMutant ==
  /\ pc = "commit"
  /\ CommitReady
  /\ pc' = "idle"
  /\ table' = txn_table
  /\ offset' = [k \in OffsetKind |->
                  LET ends == {0} \cup {e.offset + e.len : e \in txn_table[k]}
                  IN  CHOOSE n \in ends : \A m \in ends : m <= n]
  /\ file_offset' = offset'
  /\ UNCHANGED <<size, should_flush, mem, disk, txnVars, to_flush, snapshot>>

db_commit ==
  /\ pc = "commit"
  /\ CommitReady
  /\ pc' = "idle"
  /\ table' = txn_table
  /\ file_offset' = txn_file_offset
  /\ UNCHANGED <<fileVars, txnVars, to_flush, snapshot>>

(* StorageReader::begin_ro_txn: a snapshot of the committed tables. *)
begin_ro_txn(r) ==
  /\ pc # "down"
  /\ snapshot' = [snapshot EXCEPT ![r] = table]
  /\ UNCHANGED <<pc, fileVars, dbVars, txnVars, to_flush>>

(* A power failure, or a panic: each unflushed byte is lost or not. *)
Crash ==
  /\ pc # "down"
  /\ pc' = "down"
  /\ \E lost \in [OffsetKind -> SUBSET Byte] :
       /\ \A k \in OffsetKind : \A b \in lost[k] : mem[k][b] # disk[k][b]
       /\ mem' = [k \in OffsetKind |-> [b \in Byte |->
                    IF b \in lost[k] THEN disk[k][b] ELSE mem[k][b]]]
  /\ disk' = mem'
  /\ snapshot' = [r \in Readers |-> NoTable]
  /\ to_flush' = {}
  /\ txn_table' = NoTable
  /\ txn_file_offset' = [k \in OffsetKind |-> 0]
  /\ UNCHANGED <<size, offset, should_flush, dbVars>>

Next ==
  \/ open_storage_files
  \/ begin_rw_txn
  \/ \E k \in OffsetKind, key \in Keys, len \in 1 .. max_object_size, v \in Values :
       append(k, key, len, v)
  \/ grow_file_if_needed
  \/ \E k \in OffsetKind : \E e \in txn_table[k] : delete(k, e)
  \/ abort
  \/ commit
  \/ \E k \in OffsetKind : flush(k)
  \/ db_commit
  \/ \E r \in Readers : begin_ro_txn(r)
  \/ Crash

Spec == Init /\ [][Next]_vars

-----------------------------------------------------------------------------
(* Every committed object is on disk, whole: the flush of every file comes
   before the database commit, and nothing later writes over a committed
   location, so no crash and no reopening loses an object. *)
CommittedObjectsDurable ==
  \A k \in OffsetKind : \A e \in table[k] :
    /\ e.offset + e.len <= size[k]
    /\ get(disk[k], e)

(* A read-only transaction reads, through the shared mapping and without a
   lock, exactly the object its snapshot points to, however many transactions
   have deleted it, appended, aborted or committed since. *)
SnapshotsReadable ==
  \A r \in Readers, k \in OffsetKind : \A e \in snapshot[r][k] : get(mem[k], e)

(* Two objects of a table, as committed or as the write transaction sees it,
   never share a byte of the file: append starts where no object is. *)
LocationsDisjoint ==
  \A k \in OffsetKind :
    LET disjoint(locations) ==
          \A e, f \in locations :
            e # f => e.offset + e.len <= f.offset \/ f.offset + f.len <= e.offset
    IN  disjoint(table[k]) /\ (pc \in {"txn", "grow", "commit"} => disjoint(txn_table[k]))

(* Whenever append may run, a whole object fits between the offset and the
   end of the file: the write never touches a page beyond the file. *)
RoomForOneObject ==
  pc \in {"idle", "txn"} =>
    \A k \in OffsetKind : offset[k] + max_object_size <= size[k]

=============================================================================
