------------------------------ MODULE Storage -------------------------------
(***************************************************************************)
(* The block storage of papyrus_storage (header.rs, body/mod.rs,           *)
(* state/mod.rs, class.rs, compiled_class.rs, base_layer.rs): its tables,  *)
(* its markers, and what each read and write of a StorageTxn does to them. *)
(*                                                                         *)
(* A storage is a record with one field per table; a table is a function   *)
(* whose domain is the set of stored keys.  A write operation maps a       *)
(* storage to a storage.  Its first error is kept in the field error; a     *)
(* transaction with an error is dropped, since each operation consumes it  *)
(* and returns it on success only, so only an error-free one is committed. *)
(*                                                                         *)
(* Abstractions: classes, casms, transactions and state diffs are stored   *)
(* in place (MmapFile models the files they are in); a header keeps what   *)
(* tells blocks apart; a contract has one storage cell.                    *)
(***************************************************************************)
EXTENDS Integers, Sequences, FiniteSets, TLC, FiniteSetsExt, SequencesExt, Functions

CONSTANT None  \* Option::None

MarkerKind == {"Header", "Body", "Event", "State", "Class", "CompiledClass",
               "BaseLayerBlock"}

EmptyTable == << >>

StorageScopes == {"FullArchive", "StateOnly"}

(* open_storage on a new directory: every table exists and is empty. *)
EmptyStorage ==
  [error |-> None, scope |-> "FullArchive",
   markers |-> [m \in MarkerKind |-> 0],
   headers |-> EmptyTable, block_hash_to_number |-> EmptyTable,
   starknet_version |-> EmptyTable, block_signatures |-> EmptyTable,
   transaction_metadata |-> EmptyTable, transaction_hash_to_idx |-> EmptyTable,
   events |-> EmptyTable, state_diffs |-> EmptyTable,
   deployed_contracts |-> EmptyTable, nonces |-> EmptyTable,
   contract_storage |-> EmptyTable, declared_classes_block |-> EmptyTable,
   declared_classes |-> EmptyTable, deprecated_declared_classes |-> EmptyTable,
   casms |-> EmptyTable]

-----------------------------------------------------------------------------
(* Tables.  Several entries written by one loop are written at once. *)

Fail(s, error) == IF s.error = None THEN [s EXCEPT !.error = error] ELSE s
Require(s, condition, error) == IF condition THEN s ELSE Fail(s, error)
SetMarker(s, kind, n) == [s EXCEPT !.markers[kind] = n]

get(s, table, key) == IF key \in DOMAIN s[table] THEN s[table][key] ELSE None
upsert(s, table, entries) == [s EXCEPT ![table] = entries @@ @]
insert(s, table, entries) ==
  upsert(Require(s, DOMAIN entries \cap DOMAIN s[table] = {}, "InnerError"),
         table, entries)
delete(s, table, keys) == [s EXCEPT ![table] = Restrict(@, DOMAIN @ \ keys)]

(* SimpleTable::append of one entry: its key comes after every stored key. *)
append(s, table, key, value) ==
  upsert(Require(s, \A k \in DOMAIN s[table] : k < key, "InnerError"),
         table, key :> value)

(* append_greater_sub_key, for keys <<main, sub>>. *)
append_greater_sub_key(s, table, entries) ==
  upsert(Require(s, \A e \in DOMAIN entries, k \in DOMAIN s[table] :
                      k[1] = e[1] => k[2] < e[2],
                 "InnerError"),
         table, entries)

(* cursor.lower_bound(<<main, sub>>) and prev: the last entry of main before
   sub, None if there is none. *)
last_before(s, table, main, sub) ==
  LET subs == {k[2] : k \in {k \in DOMAIN s[table] : k[1] = main /\ k[2] < sub}} IN
  IF subs = {} THEN None ELSE s[table][<<main, Max(subs)>>]

-----------------------------------------------------------------------------
(* Headers *)

(* cursor.lower_bound(n) and prev on the starknet_version table. *)
version_before(s, n) ==
  LET blocks == {k \in DOMAIN s.starknet_version : k < n} IN
  IF blocks = {} THEN None ELSE s.starknet_version[Max(blocks)]

get_starknet_version(s, n) ==
  IF n >= s.markers.Header THEN None ELSE version_before(s, n + 1)

get_block_header(s, n) ==
  IF get(s, "headers", n) = None \/ get_starknet_version(s, n) = None THEN None
  ELSE get(s, "headers", n) @@ [version |-> get_starknet_version(s, n)]

update_starknet_version(s, n, version) ==
  IF version_before(s, n) = version THEN s
  ELSE insert(s, "starknet_version", n :> version)

(* header = [hash, parent, version]; the version is stored apart. *)
append_header(s, n, header) ==
  LET marked == SetMarker(Require(s, s.markers.Header = n, "MarkerMismatch"), "Header", n + 1)
      stored == append(marked, "headers", n,
                       [hash |-> header.hash, parent |-> header.parent])
      hashed == insert(stored, "block_hash_to_number", header.hash :> n)
  IN  update_starknet_version(hashed, n, header.version)

append_block_signature(s, n, signature) ==
  insert(Require(s, n < s.markers.Header, "BlockSignatureForNonExistingBlock"),
         "block_signatures", n :> signature)

(* Mutant: the hash of a reverted block still leads to its number. *)
revert_headerMutant(s, n) ==
  IF s.markers.Header # n + 1 THEN s
  ELSE LET marked == SetMarker(delete(s, "headers", {n}), "Header", n)
       IN  delete(delete(marked, "starknet_version", {n}), "block_signatures", {n})

(* Only the last header can be reverted; otherwise nothing happens. *)
revert_header(s, n) ==
  IF s.markers.Header # n + 1 THEN s
  ELSE LET header == get(s, "headers", n)
           marked == SetMarker(delete(s, "headers", {n}), "Header", n)
           unhashed == delete(marked, "block_hash_to_number", {header.hash})
           cleared == delete(delete(unhashed, "starknet_version", {n}),
                             "block_signatures", {n})
       IN  IF header = None \/ version_before(s, n + 1) = None
           THEN Fail(s, "Panic") ELSE cleared

-----------------------------------------------------------------------------
(* Bodies.  A body is a sequence of [hash, events], events being the set of
   the addresses that emitted one. *)

TxIndices(n, body) == {<<n, i>> : i \in DOMAIN body}

(* write_transactions, write_events: the events table is keyed by
   <<address, <<block, offset>>>>; within an address the index grows, so the
   order of the indices is that of blocks and then offsets. *)
IndexBefore(i, j) == i[1] < j[1] \/ (i[1] = j[1] /\ i[2] < j[2])

EventKeys(n, body) ==
  UNION {{<<address, <<n, i>>>> : address \in body[i].events} : i \in DOMAIN body}

write_events(s, n, body) ==
  upsert(Require(s, \A e \in EventKeys(n, body), k \in DOMAIN s.events :
                      k[1] = e[1] => IndexBefore(k[2], e[2]),
                 "InnerError"),
         "events", [k \in EventKeys(n, body) |-> None])

write_transactions(s, n, body) ==
  LET hashes == insert(Require(write_events(s, n, body),
                               Cardinality({tx.hash : tx \in Range(body)}) = Len(body),
                               "InnerError"),
                       "transaction_hash_to_idx",
                       [h \in {tx.hash : tx \in Range(body)} |->
                          <<n, CHOOSE i \in DOMAIN body : body[i].hash = h>>])
  IN  upsert(Require(hashes, \A k \in DOMAIN s.transaction_metadata :
                               \A i \in TxIndices(n, body) : IndexBefore(k, i),
                     "InnerError"),
             "transaction_metadata", [i \in TxIndices(n, body) |-> body[i[2]]])

(* In state-only scope a body leaves nothing but the marker. *)
append_body(s, n, body) ==
  LET checked == Require(s, s.markers.Body = n /\ s.markers.Event = n, "MarkerMismatch")
      marked == SetMarker(SetMarker(checked, "Body", n + 1), "Event", n + 1)
  IN  IF s.scope = "StateOnly" THEN marked ELSE write_transactions(marked, n, body)

(* The transactions of block n, in the order of their offsets.  In state-only
   scope open_table refuses the tables of the bodies; what RpcApi and RpcServer
   make of that error is modelled where they read. *)
get_block_transactions(s, n) ==
  IF s.markers.Body <= n THEN None
  ELSE LET offsets == {k[2] : k \in {k \in DOMAIN s.transaction_metadata : k[1] = n}}
       IN  [i \in 1 .. Cardinality(offsets) |->
              s.transaction_metadata[<<n, SetToSortSeq(offsets, <)[i]>>]]

revert_body(s, n) ==
  IF s.markers.Body # n + 1 THEN s
  ELSE LET body == get_block_transactions(s, n)
           no_events == delete(s, "events", EventKeys(n, body))
           no_hashes == delete(no_events, "transaction_hash_to_idx",
                               {tx.hash : tx \in Range(body)})
           no_txs == delete(no_hashes, "transaction_metadata", TxIndices(n, body))
           reverted == IF s.scope = "StateOnly" THEN s ELSE no_txs
       IN  SetMarker(SetMarker(reverted, "Body", n), "Event", n)

-----------------------------------------------------------------------------
(* State diffs.  A thin state diff is a record of functions from addresses
   (deployed_contracts, replaced_classes, nonces, storage_diffs), the sequence
   declared_classes and the set deprecated_declared_classes. *)

DefaultNonce == 0
DefaultFelt == 0

At(table, n) == [k \in {<<a, n>> : a \in DOMAIN table} |-> table[k[1]]]

write_deployed_contracts(s, n, diff) ==
  append_greater_sub_key(
    insert(s, "deployed_contracts", At(diff.deployed_contracts, n)),
    "nonces",
    At([a \in DOMAIN diff.deployed_contracts \ DOMAIN diff.nonces |-> DefaultNonce], n))

write_storage_diffs(s, n, diff) ==
  append_greater_sub_key(s, "contract_storage", At(diff.storage_diffs, n))

write_nonces(s, n, diff) == upsert(s, "nonces", At(diff.nonces, n))

write_replaced_classes(s, n, diff) ==
  insert(s, "deployed_contracts", At(diff.replaced_classes, n))

update_marker_to_next_block(s, kind, n) ==
  SetMarker(Require(s, s.markers[kind] = n, "MarkerMismatch"), kind, n + 1)

(* The while loop stops at the first block that declares classes. *)
advance_compiled_class_marker_over_blocks_without_classes(s) ==
  LET from == s.markers.CompiledClass
      to == s.markers.State
      stops == {n \in from .. to - 1 : \/ n \notin DOMAIN s.state_diffs
                                       \/ s.state_diffs[n].declared_classes # << >>}
  IN  IF stops = {} THEN SetMarker(s, "CompiledClass", Max({from, to}))
      ELSE IF Min(stops) \notin DOMAIN s.state_diffs THEN Fail(s, "Panic")
      ELSE SetMarker(s, "CompiledClass", Min(stops))

append_state_diff(s, n, diff) ==
  LET deployed == write_deployed_contracts(s, n, diff)
      stored == write_storage_diffs(deployed, n, diff)
      replaced == write_replaced_classes(write_nonces(stored, n, diff), n, diff)
      declared == insert(replaced, "declared_classes_block",
                         [c \in Range(diff.declared_classes) |-> n])
      written == append(declared, "state_diffs", n, diff)
      marked == update_marker_to_next_block(written, "State", n)
  IN  IF marked.error = None
      THEN advance_compiled_class_marker_over_blocks_without_classes(marked)
      ELSE marked

(* The block number of a class that was never downloaded is kept. *)
delete_declared_classes(s, diff) ==
  LET deleted == Range(diff.declared_classes) \cap DOMAIN s.declared_classes
  IN  delete(delete(s, "declared_classes", deleted), "declared_classes_block", deleted)

(* A deprecated class entry is [block_number, class]. *)
delete_deprecated_declared_classes(s, n, diff) ==
  delete(s, "deprecated_declared_classes",
         {c \in (diff.deprecated_declared_classes \cup Range(diff.deployed_contracts))
                  \cap DOMAIN s.deprecated_declared_classes :
            s.deprecated_declared_classes[c].block_number = n})

(* The loop breaks at the first class that has no casm. *)
delete_compiled_classes(s, diff) ==
  delete(s, "casms",
         {diff.declared_classes[i] :
            i \in {i \in DOMAIN diff.declared_classes :
                     \A j \in 1 .. i : diff.declared_classes[j] \in DOMAIN s.casms}})

DeleteAt(s, table, addresses, n) == delete(s, table, addresses \X {n})

(* Mutant: the default nonce that the deployment wrote is kept. *)
delete_deployed_contractsMutant(s, n, diff) ==
  DeleteAt(s, "deployed_contracts", DOMAIN diff.deployed_contracts, n)

delete_deployed_contracts(s, n, diff) ==
  DeleteAt(DeleteAt(s, "deployed_contracts", DOMAIN diff.deployed_contracts, n),
           "nonces", DOMAIN diff.deployed_contracts, n)
delete_storage_diffs(s, n, diff) ==
  DeleteAt(s, "contract_storage", DOMAIN diff.storage_diffs, n)
delete_nonces(s, n, diff) == DeleteAt(s, "nonces", DOMAIN diff.nonces, n)
delete_replaced_classes(s, n, diff) ==
  DeleteAt(s, "deployed_contracts", DOMAIN diff.replaced_classes, n)

RevertMarker(s, kind, n) ==
  IF s.markers[kind] = n + 1 THEN SetMarker(s, kind, n) ELSE s

(* Only the last state diff can be reverted; otherwise nothing happens. *)
revert_state_diff(s, n) ==
  IF s.markers.State # n + 1 THEN s
  ELSE IF n \notin DOMAIN s.state_diffs THEN Fail(s, "Panic")
  ELSE LET diff == s.state_diffs[n]
           marked == RevertMarker(RevertMarker(SetMarker(s, "State", n), "Class", n),
                                  "CompiledClass", n)
           undeclared == delete_compiled_classes(
                           delete_deprecated_declared_classes(
                             delete_declared_classes(marked, diff), n, diff), diff)
           undeployed == delete_deployed_contracts(undeclared, n, diff)
           unset == delete_nonces(delete_storage_diffs(undeployed, n, diff), n, diff)
       IN  delete_replaced_classes(delete(unset, "state_diffs", {n}), n, diff)

(* StateReader.  A state number is the number of the first block after it:
   right_after_block(n) is n + 1. *)
get_class_hash_at(s, state_number, address) ==
  last_before(s, "deployed_contracts", address, state_number)

get_nonce_at(s, state_number, address) ==
  last_before(s, "nonces", address, state_number)

get_storage_at(s, state_number, address) ==
  LET value == last_before(s, "contract_storage", address, state_number)
  IN  IF value = None THEN DefaultFelt ELSE value

DBInconsistency == -1

get_class_definition_at(s, state_number, class_hash) ==
  IF \/ class_hash \notin DOMAIN s.declared_classes_block
     \/ state_number <= s.declared_classes_block[class_hash]
  THEN None
  ELSE IF class_hash \in DOMAIN s.declared_classes THEN s.declared_classes[class_hash]
  ELSE IF state_number > s.markers.Class THEN None
  ELSE DBInconsistency

get_deprecated_class_definition_at(s, state_number, class_hash) ==
  IF \/ class_hash \notin DOMAIN s.deprecated_declared_classes
     \/ state_number <= s.deprecated_declared_classes[class_hash].block_number
  THEN None
  ELSE s.deprecated_declared_classes[class_hash].class

-----------------------------------------------------------------------------
(* Classes.  classes and deprecated_classes map class hashes to classes. *)

append_classes(s, n, classes, deprecated_classes) ==
  LET marked == update_marker_to_next_block(s, "Class", n)
      written == insert(marked, "declared_classes", classes)
      new == DOMAIN deprecated_classes \ DOMAIN s.deprecated_declared_classes
  IN  insert(written, "deprecated_declared_classes",
             [c \in new |-> [block_number |-> n, class |-> deprecated_classes[c]]])

(* Casms.  The marker passes the block whose last class this is, and the
   blocks without classes after it. *)
update_marker(s, class_hash) ==
  LET from == s.markers.CompiledClass
      stops == {n \in from .. from + Cardinality(DOMAIN s.state_diffs) :
                  \/ n \notin DOMAIN s.state_diffs
                  \/ LET declared == s.state_diffs[n].declared_classes IN
                     declared # << >> /\ Last(declared) # class_hash}
  IN  SetMarker(s, "CompiledClass", Min(stops))

append_casm(s, class_hash, casm) ==
  update_marker(insert(s, "casms", class_hash :> casm), class_hash)

-----------------------------------------------------------------------------
(* Base layer *)

update_base_layer_block_marker(s, n) == SetMarker(s, "BaseLayerBlock", n)
try_revert_base_layer_marker(s, n) == RevertMarker(s, "BaseLayerBlock", n)
=============================================================================
