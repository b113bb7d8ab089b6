--------------------------- MODULE MmapFileProofs ---------------------------
(***************************************************************************)
(* Durability of the memory mapped files, for every configuration that     *)
(* validate_config accepts, any number of files, keys, values and readers. *)
(***************************************************************************)
EXTENDS MmapFile, TLAPS

(* The locations of file k in t end before bound and hold their values. *)
Intact(t, content, bound, k) ==
  \A e \in t[k] :
    /\ e.offset + e.len <= bound[k]
    /\ get(content[k], e)

Disjoint(t, k) ==
  \A e, f \in t[k] :
    e # f => e.offset + e.len <= f.offset \/ f.offset + f.len <= e.offset

InTxn == pc \in {"txn", "grow", "commit"}

OffsetsOrdered ==
  \A k \in OffsetKind :
    /\ pc # "down" => file_offset[k] <= offset[k]
    /\ InTxn => txn_file_offset[k] <= offset[k]

(* One growth step is enough: a file has room for one more object before an
   append, so it still covers the offset after it. *)
Room ==
  \A k \in OffsetKind :
    /\ pc \in {"idle", "txn", "commit"} => offset[k] + max_object_size <= size[k]
    /\ pc = "grow" => offset[k] <= size[k]
    /\ file_offset[k] = 0 \/ file_offset[k] + max_object_size <= size[k]

(* A file whose should_flush is false has nothing that a crash can lose. *)
Flushed ==
  \A k \in OffsetKind :
    /\ pc = "down" \/ ~should_flush[k] => mem[k] = disk[k]
    /\ pc = "commit" /\ k \notin to_flush => ~should_flush[k]

Contents ==
  \A k \in OffsetKind :
    /\ Intact(table, disk, file_offset, k)
    /\ Intact(table, mem, file_offset, k)
    /\ Disjoint(table, k)
    /\ InTxn => Intact(txn_table, mem, txn_file_offset, k) /\ Disjoint(txn_table, k)

SnapshotContents ==
  \A r \in Readers, k \in OffsetKind :
    \A e \in snapshot[r][k] :
      /\ pc # "down"
      /\ e.offset + e.len <= offset[k]
      /\ get(mem[k], e)

IInv ==
  /\ TypeOK
  /\ OffsetsOrdered
  /\ Room
  /\ Flushed
  /\ Contents
  /\ SnapshotContents

-----------------------------------------------------------------------------
(* The serialized form of a location loses nothing: offsets fit in 6 bytes
   and lengths in 4 (the StorageSerde implementation of LocationInFile). *)
LEMMA StoredLocationExact ==
  ASSUME NEW off \in Nat, NEW len \in 1 .. max_object_size, off + len <= max_size,
         NEW key \in Keys, NEW v \in Values
  PROVE  LocationInFile(key, off, len, v)
           = [key |-> key, offset |-> off, len |-> len, val |-> v]
<1>1. off < OffsetLimit /\ len < LenLimit
  BY LimitAssumption, ConfigAssumption
<1>2. \A x, m \in Nat : x < m => x % m = x
  BY SMT
<1>3. off % OffsetLimit = off
  BY <1>1, <1>2, LimitAssumption
<1>4. len % LenLimit = len
  BY <1>1, <1>2, LimitAssumption, ConfigAssumption
<1> QED
  BY <1>3, <1>4 DEF LocationInFile

(* A location that ends before an offset ends before any later one. *)
LEMMA EndsBefore ==
  ASSUME NEW a \in Nat, NEW b \in Nat, NEW c \in Nat, NEW d \in Nat, a + b <= c, c <= d
  PROVE  a + b <= d
  OBVIOUS

(* Every file is empty and nothing points into it: IInv holds initially. *)
LEMMA InitIInv == Init => IInv
<1> SUFFICES ASSUME Init PROVE IInv
  OBVIOUS
<1>1. Zero \in Values
  BY ValuesAssumption DEF Zero
<1>2. TypeOK
  BY <1>1 DEF Init, TypeOK, NoTable
<1> QED
  BY <1>2 DEF Init, IInv, OffsetsOrdered, Room, Flushed, Contents, SnapshotContents,
             InTxn, Intact, get, Disjoint, NoTable

(* Reopening takes the offsets from the database and grows empty files. *)
LEMMA OpenIInv ==
  ASSUME IInv, open_storage_files
  PROVE  IInv'
<1>0. TypeOK /\ OffsetsOrdered /\ Room /\ Flushed /\ Contents /\ SnapshotContents
  BY DEF IInv
<1>1. TypeOK'
  BY <1>0, ConfigAssumption DEF TypeOK, open_storage_files, open_file, Grown, dbVars, txnVars
<1>2. OffsetsOrdered'
  BY <1>0 DEF TypeOK, OffsetsOrdered, InTxn, open_storage_files, dbVars
<1>3. Room'
  <2> SUFFICES ASSUME NEW k \in OffsetKind
               PROVE  offset'[k] + max_object_size <= size'[k]
    BY <1>0 DEF Room, open_storage_files, dbVars
  <2>1. /\ offset'[k] = file_offset[k] /\ file_offset[k] \in Nat /\ size[k] \in Nat
        /\ file_offset[k] = 0 \/ file_offset[k] + max_object_size <= size[k]
        /\ size'[k] = open_file(size[k])
    BY <1>0 DEF open_storage_files, TypeOK, Room
  <2> QED
    BY <2>1, ConfigAssumption DEF open_file, Grown, NeedsGrowth
<1>4. Flushed'
  BY <1>0 DEF Flushed, open_storage_files, dbVars, txnVars
<1>5. Contents'
  BY <1>0 DEF Contents, InTxn, Intact, get, Disjoint, open_storage_files, dbVars
<1>6. SnapshotContents'
  BY <1>0 DEF SnapshotContents, get, open_storage_files, dbVars, txnVars
<1> QED
  BY <1>1, <1>2, <1>3, <1>4, <1>5, <1>6 DEF IInv

(* A write transaction starts from the committed tables. *)
LEMMA BeginIInv ==
  ASSUME IInv, begin_rw_txn
  PROVE  IInv'
<1>0. TypeOK /\ OffsetsOrdered /\ Room /\ Flushed /\ Contents /\ SnapshotContents
  BY DEF IInv
<1>1. TypeOK'
  BY <1>0 DEF TypeOK, begin_rw_txn, fileVars, dbVars
<1>2. OffsetsOrdered'
  BY <1>0 DEF OffsetsOrdered, InTxn, begin_rw_txn, fileVars, dbVars
<1>3. Room'
  BY <1>0 DEF Room, begin_rw_txn, fileVars, dbVars
<1>4. Flushed'
  BY <1>0 DEF Flushed, begin_rw_txn, fileVars, dbVars
<1>5. Contents'
  BY <1>0 DEF Contents, InTxn, Intact, get, Disjoint, begin_rw_txn, fileVars, dbVars
<1>6. SnapshotContents'
  BY <1>0 DEF SnapshotContents, get, begin_rw_txn, fileVars, dbVars
<1> QED
  BY <1>1, <1>2, <1>3, <1>4, <1>5, <1>6 DEF IInv

(* One growth step makes room for the next object. *)
LEMMA GrowIInv ==
  ASSUME IInv, grow_file_if_needed
  PROVE  IInv'
<1>0. TypeOK /\ OffsetsOrdered /\ Room /\ Flushed /\ Contents /\ SnapshotContents
  BY DEF IInv
<1>1. TypeOK'
  BY <1>0, ConfigAssumption DEF TypeOK, grow_file_if_needed, Grown, dbVars, txnVars
<1>2. OffsetsOrdered'
  BY <1>0 DEF OffsetsOrdered, InTxn, grow_file_if_needed, dbVars, txnVars
<1>3. Room'
  <2> SUFFICES ASSUME NEW k \in OffsetKind
               PROVE  /\ offset'[k] + max_object_size <= size'[k]
                      /\ file_offset[k] = 0 \/ file_offset[k] + max_object_size <= size'[k]
    BY DEF Room, grow_file_if_needed, dbVars
  <2>1. /\ offset[k] <= size[k] /\ offset[k] \in Nat /\ size[k] \in Nat
        /\ file_offset[k] = 0 \/ file_offset[k] + max_object_size <= size[k]
        /\ file_offset[k] \in Nat
        /\ offset' = offset /\ size'[k] = Grown(size[k], offset[k])
    BY <1>0 DEF grow_file_if_needed, Room, TypeOK
  <2> QED
    BY <2>1, ConfigAssumption DEF Grown, NeedsGrowth
<1>4. Flushed'
  <2>1. \A k \in OffsetKind :
          /\ ~should_flush'[k] => mem'[k] = disk'[k]
    BY <1>0 DEF Flushed, grow_file_if_needed
  <2> QED
    BY <2>1 DEF Flushed, grow_file_if_needed
<1>5. Contents'
  <2>1. \A k \in OffsetKind : disk'[k] = disk[k] \/ disk'[k] = mem[k]
    BY DEF grow_file_if_needed
  <2> QED
    BY <1>0, <2>1 DEF Contents, InTxn, Intact, get, Disjoint, grow_file_if_needed, dbVars, txnVars
<1>6. SnapshotContents'
  BY <1>0 DEF SnapshotContents, get, grow_file_if_needed, dbVars, txnVars
<1> QED
  BY <1>1, <1>2, <1>3, <1>4, <1>5, <1>6 DEF IInv

(* Dropping a transaction leaves its bytes behind the committed offset. *)
LEMMA AbortIInv ==
  ASSUME IInv, abort
  PROVE  IInv'
<1>0. TypeOK /\ OffsetsOrdered /\ Room /\ Flushed /\ Contents /\ SnapshotContents
  BY DEF IInv
<1>1. TypeOK'
  BY <1>0 DEF TypeOK, abort, fileVars, dbVars, txnVars
<1>2. OffsetsOrdered'
  BY <1>0 DEF OffsetsOrdered, InTxn, abort, fileVars, dbVars, txnVars
<1>3. Room'
  BY <1>0 DEF Room, abort, fileVars, dbVars, txnVars
<1>4. Flushed'
  BY <1>0 DEF Flushed, abort, fileVars, dbVars, txnVars
<1>5. Contents'
  BY <1>0 DEF Contents, InTxn, Intact, get, Disjoint, abort, fileVars, dbVars, txnVars
<1>6. SnapshotContents'
  BY <1>0 DEF SnapshotContents, get, abort, fileVars, dbVars, txnVars
<1> QED
  BY <1>1, <1>2, <1>3, <1>4, <1>5, <1>6 DEF IInv

(* A commit starts with no file flushed. *)
LEMMA CommitIInv ==
  ASSUME IInv, commit
  PROVE  IInv'
<1>0. TypeOK /\ OffsetsOrdered /\ Room /\ Flushed /\ Contents /\ SnapshotContents
  BY DEF IInv
<1>1. TypeOK'
  BY <1>0 DEF TypeOK, commit, fileVars, dbVars, txnVars
<1>2. OffsetsOrdered'
  BY <1>0 DEF OffsetsOrdered, InTxn, commit, fileVars, dbVars, txnVars
<1>3. Room'
  BY <1>0 DEF Room, commit, fileVars, dbVars, txnVars
<1>4. Flushed'
  BY <1>0 DEF Flushed, commit, fileVars, dbVars, txnVars
<1>5. Contents'
  BY <1>0 DEF Contents, InTxn, Intact, get, Disjoint, commit, fileVars, dbVars, txnVars
<1>6. SnapshotContents'
  BY <1>0 DEF SnapshotContents, get, commit, fileVars, dbVars, txnVars
<1> QED
  BY <1>1, <1>2, <1>3, <1>4, <1>5, <1>6 DEF IInv

(* A flushed file has the mapped bytes on disk. *)
LEMMA FlushIInv ==
  ASSUME IInv, NEW k \in OffsetKind, flush(k)
  PROVE  IInv'
<1>0. TypeOK /\ OffsetsOrdered /\ Room /\ Flushed /\ Contents /\ SnapshotContents
  BY DEF IInv
<1>1. TypeOK'
  BY <1>0 DEF TypeOK, flush, dbVars, txnVars
<1>2. OffsetsOrdered'
  BY <1>0 DEF OffsetsOrdered, InTxn, flush, dbVars, txnVars
<1>3. Room'
  BY <1>0 DEF Room, flush, dbVars, txnVars
<1>4. Flushed'
  <2> SUFFICES ASSUME NEW j \in OffsetKind
               PROVE  /\ ~should_flush'[j] => mem'[j] = disk'[j]
                      /\ j \notin to_flush' => ~should_flush'[j]
    BY DEF Flushed, flush
  <2>1. /\ disk' = [disk EXCEPT ![k] = IF should_flush[k] THEN mem[k] ELSE disk[k]]
        /\ should_flush' = [should_flush EXCEPT ![k] = FALSE]
        /\ mem' = mem /\ to_flush' = to_flush \ {k} /\ pc = "commit"
    BY DEF flush
  <2>2. /\ ~should_flush[j] => mem[j] = disk[j]
        /\ j \notin to_flush => ~should_flush[j]
    BY <1>0, <2>1 DEF Flushed
  <2>3. DOMAIN disk = OffsetKind /\ DOMAIN should_flush = OffsetKind
    BY <1>0 DEF TypeOK
  <2> QED
    BY <2>1, <2>2, <2>3
<1>5. Contents'
  <2>1. \A j \in OffsetKind : disk'[j] = disk[j] \/ disk'[j] = mem[j]
    BY <1>0 DEF flush, TypeOK
  <2> QED
    BY <1>0, <2>1 DEF Contents, InTxn, Intact, get, Disjoint, flush, dbVars, txnVars
<1>6. SnapshotContents'
  BY <1>0 DEF SnapshotContents, get, flush, dbVars, txnVars
<1> QED
  BY <1>1, <1>2, <1>3, <1>4, <1>5, <1>6 DEF IInv

(* The database commits once every file is flushed, so that the locations it publishes are on disk. *)
LEMMA DbCommitIInv ==
  ASSUME IInv, db_commit
  PROVE  IInv'
<1>0. TypeOK /\ OffsetsOrdered /\ Room /\ Flushed /\ Contents /\ SnapshotContents
  BY DEF IInv
<1>1. TypeOK'
  BY <1>0 DEF TypeOK, db_commit, fileVars, txnVars
<1>2. OffsetsOrdered'
  BY <1>0 DEF OffsetsOrdered, InTxn, db_commit, fileVars, txnVars
<1>3. Room'
  <2>1. \A k \in OffsetKind :
          txn_file_offset[k] <= offset[k] /\ offset[k] + max_object_size <= size[k]
    BY <1>0 DEF OffsetsOrdered, InTxn, Room, db_commit
  <2>2. \A k \in OffsetKind :
          txn_file_offset[k] \in Nat /\ offset[k] \in Nat /\ size[k] \in Nat
    BY <1>0 DEF TypeOK
  <2>3. ASSUME NEW k \in OffsetKind
        PROVE  txn_file_offset[k] + max_object_size <= size[k]
    <3>1. max_object_size \in Nat
      BY ConfigAssumption
    <3>2. /\ txn_file_offset[k] <= offset[k] /\ offset[k] + max_object_size <= size[k]
          /\ txn_file_offset[k] \in Nat /\ offset[k] \in Nat /\ size[k] \in Nat
      BY <2>1, <2>2
    <3> QED
      BY <3>1, <3>2
  <2> QED
    BY <2>1, <2>3 DEF Room, db_commit, fileVars
<1>4. Flushed'
  BY <1>0 DEF Flushed, db_commit, fileVars
<1>5. Contents'
  <2>1. \A k \in OffsetKind : mem[k] = disk[k]
    BY <1>0 DEF Flushed, db_commit, CommitReady
  <2>2. \A k \in OffsetKind :
          Intact(txn_table, mem, txn_file_offset, k) /\ Disjoint(txn_table, k)
    BY <1>0 DEF Contents, InTxn, db_commit
  <2> QED
    BY <2>1, <2>2 DEF Contents, InTxn, Intact, get, Disjoint, db_commit, fileVars
<1>6. SnapshotContents'
  BY <1>0 DEF SnapshotContents, get, db_commit, fileVars, txnVars
<1> QED
  BY <1>1, <1>2, <1>3, <1>4, <1>5, <1>6 DEF IInv

(* A read transaction sees the committed tables. *)
LEMMA SnapshotIInv ==
  ASSUME IInv, NEW r \in Readers, begin_ro_txn(r)
  PROVE  IInv'
<1>0. TypeOK /\ OffsetsOrdered /\ Room /\ Flushed /\ Contents /\ SnapshotContents
  BY DEF IInv
<1>1. TypeOK'
  BY <1>0 DEF TypeOK, begin_ro_txn, fileVars, dbVars, txnVars
<1>2. OffsetsOrdered'
  BY <1>0 DEF OffsetsOrdered, InTxn, begin_ro_txn, fileVars, dbVars, txnVars
<1>3. Room'
  BY <1>0 DEF Room, begin_ro_txn, fileVars, dbVars, txnVars
<1>4. Flushed'
  BY <1>0 DEF Flushed, begin_ro_txn, fileVars, dbVars, txnVars
<1>5. Contents'
  BY <1>0 DEF Contents, InTxn, Intact, get, Disjoint, begin_ro_txn, fileVars, dbVars, txnVars
<1>6. SnapshotContents'
  <2> SUFFICES ASSUME NEW q \in Readers, NEW k \in OffsetKind, NEW e \in snapshot'[q][k]
               PROVE  e.offset + e.len <= offset[k] /\ get(mem[k], e)
    BY DEF SnapshotContents, get, begin_ro_txn, fileVars
  <2>1. CASE q = r
    <3>1. e \in table[k]
      BY <1>0, <2>1 DEF begin_ro_txn, TypeOK
    <3>2. e.offset \in Nat /\ e.len \in Nat /\ file_offset[k] \in Nat /\ offset[k] \in Nat
      BY <1>0, <3>1 DEF TypeOK, Location
    <3>3. /\ e.offset + e.len <= file_offset[k] /\ file_offset[k] <= offset[k]
          /\ get(mem[k], e)
      BY <1>0, <3>1 DEF Contents, Intact, OffsetsOrdered, begin_ro_txn
    <3> QED
      BY <3>2, <3>3
  <2>2. CASE q # r
    <3>1. e \in snapshot[q][k]
      BY <1>0, <2>2 DEF begin_ro_txn, TypeOK
    <3> QED
      BY <1>0, <3>1 DEF SnapshotContents
  <2> QED
    BY <2>1, <2>2
<1> QED
  BY <1>1, <1>2, <1>3, <1>4, <1>5, <1>6 DEF IInv

(* Deleting an entry of a table leaves the files alone. *)
LEMMA DeleteIInv ==
  ASSUME IInv, NEW k \in OffsetKind, NEW d \in txn_table[k], delete(k, d)
  PROVE  IInv'
<1>0. TypeOK /\ OffsetsOrdered /\ Room /\ Flushed /\ Contents /\ SnapshotContents
  BY DEF IInv
<1>1. TypeOK'
  BY <1>0 DEF TypeOK, delete, fileVars, dbVars
<1>2. OffsetsOrdered'
  BY <1>0 DEF OffsetsOrdered, InTxn, delete, fileVars, dbVars
<1>3. Room'
  BY <1>0 DEF Room, delete, fileVars, dbVars
<1>4. Flushed'
  BY <1>0 DEF Flushed, delete, fileVars, dbVars
<1>5. Contents'
  <2>1. \A j \in OffsetKind : txn_table'[j] \subseteq txn_table[j]
    BY <1>0 DEF delete, TypeOK
  <2> QED
    BY <1>0, <2>1 DEF Contents, InTxn, Intact, get, Disjoint, delete, fileVars, dbVars
<1>6. SnapshotContents'
  BY <1>0 DEF SnapshotContents, get, delete, fileVars, dbVars
<1> QED
  BY <1>1, <1>2, <1>3, <1>4, <1>5, <1>6 DEF IInv

(* A crash keeps, of each byte, the mapped or the flushed value; both are right for what was committed. *)
LEMMA CrashIInv ==
  ASSUME IInv, Crash
  PROVE  IInv'
<1>0. TypeOK /\ OffsetsOrdered /\ Room /\ Flushed /\ Contents /\ SnapshotContents
  BY DEF IInv
<1>1. TypeOK'
  <2>1. mem' \in [OffsetKind -> [Byte -> Values]]
    BY <1>0 DEF Crash, TypeOK
  <2> QED
    BY <1>0, <2>1 DEF TypeOK, Crash, NoTable, dbVars
<1>2. OffsetsOrdered'
  BY <1>0 DEF OffsetsOrdered, InTxn, Crash, NoTable, dbVars
<1>3. Room'
  BY <1>0 DEF Room, Crash, NoTable, dbVars
<1>4. Flushed'
  BY DEF Flushed, Crash
<1>5. Contents'
  <2>1. PICK lost \in [OffsetKind -> SUBSET Byte] :
          mem' = [k \in OffsetKind |-> [b \in Byte |->
                    IF b \in lost[k] THEN disk[k][b] ELSE mem[k][b]]]
    BY DEF Crash
  <2>2. \A k \in OffsetKind : \A b \in Byte : mem'[k][b] = disk[k][b] \/ mem'[k][b] = mem[k][b]
    BY <2>1
  <2>3. \A k \in OffsetKind : \A e \in table[k] : get(mem'[k], e)
    BY <1>0, <2>2 DEF Contents, Intact, get, Bytes
  <2>4. /\ disk' = mem' /\ table' = table /\ file_offset' = file_offset /\ ~InTxn'
    BY DEF Crash, dbVars, InTxn
  <2>5. \A k \in OffsetKind :
          (\A e \in table[k] : e.offset + e.len <= file_offset[k]) /\ Disjoint(table, k)
    BY <1>0 DEF Contents, Intact
  <2> QED
    BY <2>3, <2>4, <2>5 DEF Contents, Intact, get, Disjoint
<1>6. SnapshotContents'
  BY <1>0 DEF SnapshotContents, get, Crash, NoTable, dbVars
<1> QED
  BY <1>1, <1>2, <1>3, <1>4, <1>5, <1>6 DEF IInv

(* A stuttering step preserves IInv. *)
LEMMA StutterIInv ==
  ASSUME IInv, UNCHANGED vars
  PROVE  IInv'
<1>0. TypeOK /\ OffsetsOrdered /\ Room /\ Flushed /\ Contents /\ SnapshotContents
  BY DEF IInv
<1>1. TypeOK'
  BY <1>0 DEF TypeOK, vars
<1>2. OffsetsOrdered'
  BY <1>0 DEF OffsetsOrdered, InTxn, vars
<1>3. Room'
  BY <1>0 DEF Room, vars
<1>4. Flushed'
  BY <1>0 DEF Flushed, vars
<1>5. Contents'
  BY <1>0 DEF Contents, InTxn, Intact, get, Disjoint, vars
<1>6. SnapshotContents'
  BY <1>0 DEF SnapshotContents, get, vars
<1> QED
  BY <1>1, <1>2, <1>3, <1>4, <1>5, <1>6 DEF IInv

(* An append writes at the offset, beyond every location in use, and moves
   the offset past what it wrote. *)
LEMMA AppendIInv ==
  ASSUME IInv, NEW k \in OffsetKind, NEW key \in Keys, NEW len \in 1 .. max_object_size,
         NEW v \in Values, append(k, key, len, v)
  PROVE  IInv'
<1>0. TypeOK /\ OffsetsOrdered /\ Room /\ Flushed /\ Contents /\ SnapshotContents
  BY DEF IInv
<1> DEFINE new == [key |-> key, offset |-> offset[k], len |-> len, val |-> v]
<1>a. /\ pc = "txn" /\ pc' = "grow" /\ offset[k] + len <= max_size
      /\ mem' = [mem EXCEPT ![k] = [b \in Byte |->
                   IF offset[k] <= b /\ b < offset[k] + len THEN v ELSE mem[k][b]]]
      /\ offset' = [offset EXCEPT ![k] = offset[k] + len]
      /\ should_flush' = [should_flush EXCEPT ![k] = TRUE]
      /\ txn_file_offset' = [txn_file_offset EXCEPT ![k] = offset[k] + len]
      /\ size' = size /\ disk' = disk /\ table' = table /\ file_offset' = file_offset
      /\ to_flush' = to_flush /\ snapshot' = snapshot
  BY DEF append, dbVars
<1>b. /\ offset \in [OffsetKind -> Nat] /\ file_offset \in [OffsetKind -> Nat]
      /\ txn_file_offset \in [OffsetKind -> Nat] /\ size \in [OffsetKind -> Nat]
      /\ len \in Nat /\ len > 0 /\ len <= max_object_size /\ max_object_size \in Nat
  BY <1>0, ConfigAssumption DEF TypeOK
<1>c. txn_table' = [txn_table EXCEPT ![k] = txn_table[k] \cup {new}]
  <2>1. offset[k] \in Nat
    BY <1>b
  <2>2. LocationInFile(key, offset[k], len, v) = new
    BY <1>a, <2>1, StoredLocationExact
  <2> QED
    BY <2>2 DEF append
<1>d. new \in Location
  BY <1>b DEF Location
<1>e. /\ \A j \in OffsetKind \ {k} : mem'[j] = mem[j]
      /\ \A b \in Byte : mem'[k][b] = IF offset[k] <= b /\ b < offset[k] + len THEN v ELSE mem[k][b]
  BY <1>0, <1>a DEF TypeOK
\* What lies below the offset is not touched.
<1>f. \A j \in OffsetKind : \A e \in Location :
        e.offset + e.len <= offset[j] /\ get(mem[j], e) => get(mem'[j], e)
  <2> SUFFICES ASSUME NEW j \in OffsetKind, NEW e \in Location, e.offset + e.len <= offset[j],
                      NEW b \in Bytes(e)
               PROVE  mem'[j][b] = mem[j][b]
    BY DEF get
  <2>1. b \in Byte /\ b < e.offset + e.len
    BY DEF Bytes
  <2>2. CASE j # k
    BY <1>e, <2>2
  <2>3. CASE j = k
    <3>1. b \in Int /\ e.offset \in Nat /\ e.len \in Nat /\ offset[k] \in Nat
      BY <1>b, <2>1, ConfigAssumption DEF Byte, Location
    <3>2. ~(offset[k] <= b)
      BY <3>1, <2>1, <2>3
    <3> QED
      BY <1>e, <2>1, <2>3, <3>2
  <2> QED
    BY <2>2, <2>3
<1>g. \A j \in OffsetKind : offset[j] <= offset'[j] /\ offset'[j] \in Nat
  BY <1>a, <1>b
<1>1. TypeOK'
  <2>1. mem' \in [OffsetKind -> [Byte -> Values]]
    BY <1>0, <1>a DEF TypeOK
  <2>2. txn_table' \in [OffsetKind -> SUBSET Location]
    BY <1>0, <1>c, <1>d DEF TypeOK
  <2>3. offset' \in [OffsetKind -> Nat] /\ txn_file_offset' \in [OffsetKind -> Nat]
    BY <1>a, <1>b
  <2>4. should_flush' \in [OffsetKind -> BOOLEAN]
    BY <1>0, <1>a DEF TypeOK
  <2> QED
    BY <1>0, <1>a, <2>1, <2>2, <2>3, <2>4 DEF TypeOK
<1>2. OffsetsOrdered'
  <2> SUFFICES ASSUME NEW j \in OffsetKind
               PROVE  file_offset[j] <= offset'[j] /\ txn_file_offset'[j] <= offset'[j]
    BY <1>a DEF OffsetsOrdered
  <2>1. file_offset[j] <= offset[j] /\ txn_file_offset[j] <= offset[j]
    BY <1>0, <1>a DEF OffsetsOrdered, InTxn
  <2> QED
    BY <2>1, <1>a, <1>b, <1>g
<1>3. Room'
  <2> SUFFICES ASSUME NEW j \in OffsetKind
               PROVE  /\ offset'[j] <= size[j]
                      /\ file_offset[j] = 0 \/ file_offset[j] + max_object_size <= size[j]
    BY <1>a DEF Room
  <2>1. /\ offset[j] + max_object_size <= size[j]
        /\ file_offset[j] = 0 \/ file_offset[j] + max_object_size <= size[j]
    BY <1>0, <1>a DEF Room
  <2> QED
    BY <2>1, <1>a, <1>b
<1>4. Flushed'
  <2> SUFFICES ASSUME NEW j \in OffsetKind, ~should_flush'[j]
               PROVE  mem'[j] = disk[j]
    BY <1>a DEF Flushed
  <2>1. j # k /\ ~should_flush[j]
    BY <1>0, <1>a DEF TypeOK
  <2>2. mem[j] = disk[j]
    BY <1>0, <2>1 DEF Flushed
  <2> QED
    BY <1>e, <2>1, <2>2
<1>5. Contents'
  <2>1. \A j \in OffsetKind : Intact(table, disk, file_offset, j)' /\ Disjoint(table, j)'
    BY <1>0, <1>a DEF Contents, Intact, Disjoint
  <2>2. \A j \in OffsetKind : Intact(table, mem, file_offset, j)'
    <3> SUFFICES ASSUME NEW j \in OffsetKind, NEW e \in table[j]
                 PROVE  e.offset + e.len <= file_offset[j] /\ get(mem'[j], e)
      BY <1>a DEF Intact, get
    <3>1. e \in Location
      BY <1>0 DEF TypeOK
    <3>2. e.offset + e.len <= file_offset[j] /\ get(mem[j], e) /\ file_offset[j] <= offset[j]
      BY <1>0, <1>a DEF Contents, Intact, OffsetsOrdered
    <3>3. e.offset \in Nat /\ e.len \in Nat /\ file_offset[j] \in Nat /\ offset[j] \in Nat
      BY <3>1, <1>b DEF Location
    <3>4. e.offset + e.len <= offset[j]
      BY <3>2, <3>3, EndsBefore
    <3> QED
      BY <3>1, <3>2, <3>4, <1>f
  \* The locations the transaction already has.
  <2>3. \A j \in OffsetKind : \A e \in txn_table[j] :
          /\ e.offset \in Nat /\ e.len \in Nat
          /\ e.offset + e.len <= txn_file_offset[j]
          /\ e.offset + e.len <= offset[j]
          /\ get(mem'[j], e)
    <3> SUFFICES ASSUME NEW j \in OffsetKind, NEW e \in txn_table[j]
                 PROVE  /\ e.offset \in Nat /\ e.len \in Nat
                        /\ e.offset + e.len <= txn_file_offset[j]
                        /\ e.offset + e.len <= offset[j]
                        /\ get(mem'[j], e)
      OBVIOUS
    <3>1. e \in Location
      BY <1>0 DEF TypeOK
    <3>2. e.offset \in Nat /\ e.len \in Nat
      BY <3>1 DEF Location
    <3>3. Intact(txn_table, mem, txn_file_offset, j) /\ txn_file_offset[j] <= offset[j]
      BY <1>0, <1>a DEF Contents, OffsetsOrdered, InTxn
    <3>4. e.offset + e.len <= txn_file_offset[j] /\ get(mem[j], e)
      BY <3>3 DEF Intact
    <3>5. txn_file_offset[j] \in Nat /\ offset[j] \in Nat
      BY <1>b
    <3>6. e.offset + e.len <= offset[j]
      BY <3>2, <3>3, <3>4, <3>5, EndsBefore
    <3> QED
      BY <3>1, <3>2, <3>4, <3>6, <1>f
  <2>4. \A j \in OffsetKind : Disjoint(txn_table, j)
    BY <1>0, <1>a DEF Contents, InTxn
  <2>5. get(mem'[k], new)
    BY <1>e DEF get, Bytes
  <2>6. /\ txn_table'[k] = txn_table[k] \cup {new}
        /\ \A j \in OffsetKind \ {k} : txn_table'[j] = txn_table[j]
    BY <1>0, <1>c DEF TypeOK
  <2>7. /\ txn_file_offset'[k] = offset[k] + len
        /\ \A j \in OffsetKind \ {k} : txn_file_offset'[j] = txn_file_offset[j]
    BY <1>a, <1>b
  <2>8. \A j \in OffsetKind : Intact(txn_table, mem, txn_file_offset, j)'
    <3> SUFFICES ASSUME NEW j \in OffsetKind, NEW e \in txn_table'[j]
                 PROVE  e.offset + e.len <= txn_file_offset'[j] /\ get(mem'[j], e)
      BY DEF Intact, get
    <3>1. CASE j # k
      BY <3>1, <2>3, <2>6, <2>7
    <3>2. CASE j = k /\ e = new
      BY <3>2, <2>5, <2>7, <1>b
    <3>3. CASE j = k /\ e # new
      <4>1. e \in txn_table[k]
        BY <3>3, <2>6
      <4>2. e.offset + e.len <= offset[k] /\ get(mem'[k], e) /\ e.offset \in Nat /\ e.len \in Nat
        BY <4>1, <2>3
      <4>3. offset[k] \in Nat /\ offset[k] + len \in Nat /\ offset[k] <= offset[k] + len
        BY <1>b
      <4>4. e.offset + e.len <= offset[k] + len
        BY <4>2, <4>3, EndsBefore
      <4> QED
        BY <3>3, <4>2, <4>4, <2>7
    <3> QED
      BY <3>1, <3>2, <3>3
  <2>9. \A j \in OffsetKind : Disjoint(txn_table, j)'
    <3> SUFFICES ASSUME NEW j \in OffsetKind, NEW e \in txn_table'[j], NEW f \in txn_table'[j], e # f
                 PROVE  e.offset + e.len <= f.offset \/ f.offset + f.len <= e.offset
      BY DEF Disjoint
    <3> HIDE DEF new
    <3>n. new.offset = offset[k]
      BY DEF new
    <3>1. CASE e \in txn_table[j] /\ f \in txn_table[j]
      BY <3>1, <2>4 DEF Disjoint
    <3>2. CASE e \notin txn_table[j]
      <4>1. j = k /\ e = new /\ f \in txn_table[k]
        BY <3>2, <2>6
      <4> QED
        BY <4>1, <2>3, <3>n
    <3>3. CASE f \notin txn_table[j]
      <4>1. j = k /\ f = new /\ e \in txn_table[k]
        BY <3>3, <2>6
      <4> QED
        BY <4>1, <2>3, <3>n
    <3> QED
      BY <3>1, <3>2, <3>3
  <2> QED
    BY <2>1, <2>2, <2>8, <2>9 DEF Contents
<1>6. SnapshotContents'
  <2>0. pc' # "down" /\ snapshot' = snapshot
    BY <1>a
  <2> SUFFICES ASSUME NEW r \in Readers, NEW j \in OffsetKind, NEW e \in snapshot[r][j]
               PROVE  e.offset + e.len <= offset'[j] /\ get(mem'[j], e)
    BY <2>0 DEF SnapshotContents, get
  <2>1. e \in Location
    BY <1>0 DEF TypeOK
  <2>2. e.offset + e.len <= offset[j] /\ get(mem[j], e)
    BY <1>0 DEF SnapshotContents
  <2>3. e.offset + e.len <= offset'[j]
    BY <2>1, <2>2, <1>b, <1>g DEF Location
  <2> QED
    BY <2>1, <2>2, <2>3, <1>f
<1> QED
  BY <1>1, <1>2, <1>3, <1>4, <1>5, <1>6 DEF IInv

(* Every step of the writer, of a reader and every crash preserves IInv. *)
LEMMA NextIInv == IInv /\ [Next]_vars => IInv'
  BY OpenIInv, BeginIInv, AppendIInv, GrowIInv, DeleteIInv, AbortIInv, CommitIInv, FlushIInv,
     DbCommitIInv, SnapshotIInv, CrashIInv, StutterIInv DEF Next

(* In every reachable state IInv holds. *)
THEOREM Invariance == Spec => []IInv
  BY InitIInv, NextIInv, PTL DEF Spec

(* Every committed object is whole on disk, through any number of commits,
   aborts, reverts, growth steps, crashes and reopenings. *)
THEOREM Durability == Spec => []CommittedObjectsDurable
<1>1. IInv => CommittedObjectsDurable
  <2> SUFFICES ASSUME IInv, NEW k \in OffsetKind, NEW e \in table[k]
               PROVE  /\ e.offset + e.len <= size[k]
                      /\ \A b \in Bytes(e) : disk[k][b] = e.val
    BY DEF CommittedObjectsDurable, get
  <2>1. e \in Location /\ e.offset + e.len <= file_offset[k]
    BY DEF IInv, TypeOK, Contents, Intact, get
  <2>2. file_offset[k] = 0 \/ file_offset[k] + max_object_size <= size[k]
    BY DEF IInv, Room
  <2>3. file_offset[k] \in Nat /\ size[k] \in Nat
    BY DEF IInv, TypeOK
  <2> QED
    BY <2>1, <2>2, <2>3, ConfigAssumption DEF IInv, Contents, Intact, get, Location
<1> QED
  BY <1>1, Invariance, PTL

(* A read-only transaction reads what its snapshot points to, although the
   writer maps the same file and takes no lock against it. *)
THEOREM SnapshotIsolation == Spec => []SnapshotsReadable
<1>1. IInv => SnapshotsReadable
  BY DEF IInv, SnapshotContents, get, SnapshotsReadable
<1> QED
  BY <1>1, Invariance, PTL

(* No two objects of a file overlap, committed or not. *)
THEOREM NoOverlap == Spec => []LocationsDisjoint
<1>1. IInv => LocationsDisjoint
  BY DEF IInv, Contents, Disjoint, LocationsDisjoint, InTxn
<1> QED
  BY <1>1, Invariance, PTL

(* An append never writes beyond the end of its file: one growth step per
   append is enough. *)
THEOREM AppendsInsideTheFile == Spec => []RoomForOneObject
<1>1. IInv => RoomForOneObject
  BY DEF IInv, Room, RoomForOneObject
<1> QED
  BY <1>1, Invariance, PTL
=============================================================================
