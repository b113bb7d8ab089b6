----------------------------- MODULE Execution ------------------------------
(***************************************************************************)
(* papyrus_execution: what a call or a transaction that is executed reads, *)
(* and how its outcome becomes an answer.  The blockifier, which runs the  *)
(* contracts, is external: RpcServer lets it read what it likes and end as *)
(* it likes.                                                               *)
(*                                                                         *)
(* pending is None, or [diff, classes, l1_da_mode]: the pending state diff *)
(* and the pending classes that reads look at before the storage, and how  *)
(* the pending block's data becomes available.  A state number is the      *)
(* number of the first block after the state.                              *)
(***************************************************************************)
EXTENDS StorageEvents

CONSTANT BlockHashBuffer  \* 10: how far back the hash of a block is passed in

DefaultClassHash == 0
NoPendingClasses == [classes |-> {}, compiled_classes |-> {}]
EmptyDiff ==
  [deployed_contracts |-> << >>, replaced_classes |-> << >>, nonces |-> << >>,
   storage_diffs |-> << >>, declared_classes |-> << >>, deprecated_declared_classes |-> {}]

-----------------------------------------------------------------------------
(* execution_utils.rs *)

exec_get_storage_at(s, state_number, pending, address) ==
  IF pending # None /\ address \in DOMAIN pending.diff.storage_diffs
  THEN pending.diff.storage_diffs[address]
  ELSE get_storage_at(s, state_number, address)

exec_get_nonce_at(s, state_number, pending, address) ==
  IF pending # None /\ address \in DOMAIN pending.diff.nonces
  THEN pending.diff.nonces[address]
  ELSE get_nonce_at(s, state_number, address)

(* Mutant: replaced classes of the pending block are not looked at. *)
exec_get_class_hash_atMutant(s, state_number, pending, address) ==
  IF pending # None /\ address \in DOMAIN pending.diff.deployed_contracts
  THEN pending.diff.deployed_contracts[address]
  ELSE get_class_hash_at(s, state_number, address)

(* The replaced classes first: a contract deployed and replaced in the same
   block has the class it was replaced by. *)
exec_get_class_hash_at(s, state_number, pending, address) ==
  IF pending # None /\ address \in DOMAIN pending.diff.replaced_classes
  THEN pending.diff.replaced_classes[address]
  ELSE IF pending # None /\ address \in DOMAIN pending.diff.deployed_contracts
  THEN pending.diff.deployed_contracts[address]
  ELSE get_class_hash_at(s, state_number, address)

(* Which kind of class the storage has, or why it has none. *)
get_contract_class(s, class_hash, state_number) ==
  LET declared == get_class_definition_block_number(s, class_hash) IN
  IF declared # None
  THEN IF state_number <= declared THEN "Undeclared"
       ELSE IF get_casm(s, class_hash) = None THEN "CasmTableNotSynced"
       ELSE "V1"
  ELSE IF get_deprecated_class_definition_at(s, state_number, class_hash) = None
  THEN "Undeclared" ELSE "V0"

-----------------------------------------------------------------------------
(* ExecutionStateReader: every read begins a transaction of its own. *)

Or(value, default) == IF value = None THEN default ELSE value

reader_get_nonce_at(s, state_number, pending, address) ==
  Or(exec_get_nonce_at(s, state_number, pending, address), DefaultNonce)

reader_get_class_hash_at(s, state_number, pending, address) ==
  Or(exec_get_class_hash_at(s, state_number, pending, address), DefaultClassHash)

(* deprecated are the classes that are Cairo 0 classes. *)
reader_get_compiled_contract_class(s, state_number, pending, class_hash, deprecated) ==
  IF pending # None /\ class_hash \in pending.classes.compiled_classes THEN "V1"
  ELSE IF pending # None /\ class_hash \in pending.classes.classes \cap deprecated THEN "V0"
  ELSE get_contract_class(s, class_hash, state_number)

(* get_compiled_class_hash reads the block of the declaration (the pending
   diff is asked first) and then, in another transaction, its state diff. *)
DeclaringBlock(s, pending, class_hash) ==
  IF pending # None /\ class_hash \in Range(pending.diff.declared_classes) THEN "Pending"
  ELSE IF get_class_definition_block_number(s, class_hash) = None THEN "Undeclared"
  ELSE "Declared"

CompiledClassHashIn(s, n, class_hash) ==
  IF get(s, "state_diffs", n) = None THEN "MissingStateDiff"
  ELSE IF class_hash \notin Range(s.state_diffs[n].declared_classes) THEN "MissingDeclaration"
  ELSE "Found"

-----------------------------------------------------------------------------
(* create_block_context.  n is the block the execution is based on; a pending
   execution runs in the block after it. *)

BlockContextNumber(n, pending) == IF pending # None THEN n + 1 ELSE n

(* Fees are those of blobs, unless the caller speaks version 0.6. *)
use_kzg_da(override_kzg_da_to_false, l1_da_mode) ==
  ~override_kzg_da_to_false /\ l1_da_mode = "Blob"

(* get_10_blocks_ago: None for the first blocks, and when the header of that
   block is missing. *)
get_10_blocks_ago(s, n) ==
  LET header == get_block_header(s, n - BlockHashBuffer) IN
  IF n < BlockHashBuffer \/ header = None THEN None ELSE header.hash

(* pre_process_block (external) rejects a block without the hash of the block
   that is BlockHashBuffer before it, once there is one. *)
BlockHashProvided(n, pending, hash) ==
  hash # None \/ BlockContextNumber(n, pending) < BlockHashBuffer

(* get_versioned_constants: a version without constants of its own, or none,
   has the latest ones. *)
get_versioned_constants(version, known) == IF version \in known THEN version ELSE "latest"

-----------------------------------------------------------------------------
(* Re-execution of transactions.  A transaction has a kind, and a declare
   transaction the class it declares. *)

(* StateNumber::unchecked_right_after_block(state_number.block_after()) *)
AfterNextBlock(state_number) == state_number + 1

(* "ok", or the reason of the internal error. *)
stored_txn_to_executable_txn(s, tx, state_number) ==
  IF tx.kind \in {"DeclareV0", "DeclareV1"}
  THEN IF get_deprecated_class_definition_at(s, AfterNextBlock(state_number), tx.class) = None
       THEN "MissingDeprecatedClass" ELSE "ok"
  ELSE IF tx.kind \in {"DeclareV2", "DeclareV3"}
  THEN IF get_casm(s, tx.class) = None THEN "MissingCasm"
       ELSE IF get_class_definition_at(s, AfterNextBlock(state_number), tx.class)
                 \in {None, DBInconsistency}
       THEN "MissingClass" ELSE "ok"
  ELSE IF tx.kind = "Deploy" THEN "DeployNotSupported"
  ELSE "ok"

(* estimate_fee: the first reverted transaction fails the whole estimation.
   outcomes are the outcomes of the transactions, in their order. *)
estimate_fee(outcomes) ==
  LET reverted == {i \in DOMAIN outcomes : outcomes[i] = "reverted"} IN
  IF "error" \in Range(outcomes) THEN [error |-> "ExecutionError", value |-> None]
  ELSE IF reverted # {} THEN [error |-> "Reverted", value |-> Min(reverted)]
  ELSE [error |-> None, value |-> Len(outcomes)]

(* simulate_transactions: a reverted transaction has a trace like any other;
   the first transaction that cannot be executed fails the simulation. *)
simulate_transactions(outcomes) ==
  IF "error" \in Range(outcomes) THEN [error |-> "ExecutionError", value |-> None]
  ELSE [error |-> None, value |-> outcomes]
=============================================================================
