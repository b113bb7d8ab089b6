----------------------------- MODULE RpcServer ------------------------------
(***************************************************************************)
(* The JSON-RPC server at work beside the sync (papyrus_rpc, over           *)
(* papyrus_execution): requests are answered while blocks are stored and   *)
(* reverted and the pending data changes.                                  *)
(*                                                                         *)
(* A method of RpcApi sees one snapshot of the storage and, later, the     *)
(* pending data: txn is such a snapshot, and the properties below ask      *)
(* every request of it.  A method that executes (call, estimateFee, ...)   *)
(* is a process: its transaction is dropped before the execution, each     *)
(* read of which begins a transaction of its own, and at the end           *)
(* BlockNotRevertedValidator looks at the block again.                     *)
(***************************************************************************)
EXTENDS PendingSync

CONSTANT KnownVersions  \* the starknet versions that have constants of their own

(* A scenario has more fields here: base_layer and casms tell whether the base
   layer and the compiled classes are followed, fetches bounds the answers of
   the pending source, queries tells whether a transaction is begun, requests
   are those that execute and reads bounds what an execution reads. *)
VARIABLES
  fetches,   \* answers of the pending source so far
  txn,       \* a snapshot: [s, pd, reverted], or None
  exec       \* the executing request, or Idle

rpcVars == <<vars, pendingVars, fetches, txn, exec>>
syncVars == <<vars, pendingVars>>

NotExecuting == [pc |-> "idle"]

RpcInit ==
  /\ PendingInit
  /\ fetches = 0 /\ txn = None /\ exec = NotExecuting

-----------------------------------------------------------------------------
(* The environment and the sync *)

Grow ==
  /\ CentralGrows
  /\ UNCHANGED <<pendingVars, fetches, txn, exec>>

Fork ==
  /\ CentralReverts
  /\ UNCHANGED <<pendingVars, fetches, txn, exec>>

SyncStep ==
  /\ \/ scenario.fetches > 0 /\ stream_new_blocks_round
     \/ StoreBlock \/ StoreStateDiff
     \/ scenario.casms /\ StoreCompiledClass
     \/ scenario.base_layer /\ StoreBaseLayerBlock
  /\ UNCHANGED <<fetches, txn, exec>>

RevertStep ==
  /\ RevertBlock
  /\ txn' = IF txn = None THEN None ELSE [txn EXCEPT !.reverted = TRUE]
  /\ UNCHANGED <<fetches, exec>>

FetchPending ==
  /\ fetches < scenario.fetches
  /\ \E new \in PendingAnswers : GetPendingData(new)
  /\ fetches' = fetches + 1
  /\ UNCHANGED <<vars, highest, pending_data, txn, exec>>

PendingStep ==
  /\ \/ WritePendingData
     \/ \E task \in psync.tasks : DownloadClass(task)
  /\ UNCHANGED <<vars, fetches, txn, exec>>

SyncFailure ==
  /\ psync.on /\ interrupts < scenario.interrupts
  /\ interrupts' = interrupts + 1 /\ SyncFails
  /\ UNCHANGED <<unusedVars, central, fork, db, fetches, txn, exec>>

(* begin_ro_txn of a request; reverted tells whether the storage has been
   reverted since. *)
BeginTxn ==
  /\ scenario.queries /\ txn = None
  /\ txn' = [s |-> db, pd |-> pending_data, reverted |-> FALSE]
  /\ UNCHANGED <<syncVars, fetches, exec>>

-----------------------------------------------------------------------------
(* Executing methods.  A request is [method, version, id, of]: of is the
   contract that is called, or the hash of the transaction that is traced. *)

Latest == [by |-> "latest", at |-> None]
Pending == [by |-> "pending", at |-> None]
NumberId(n) == [by |-> "number", at |-> n]

Answered(request, error) == [pc |-> "answered", request |-> request, error |-> error]

(* What an execution starts with: the block n it is based on, its hash, the
   state and whether it was stored, the pending data, and the reads it is bound
   to make. *)
Executing(request, s, n, state_number, pending) ==
  [pc |-> "running", request |-> request, n |-> n, hash |-> get_block_header(s, n).hash,
   state_number |-> state_number, pending |-> pending, declared |-> None,
   todo |-> (IF request.method = "call" THEN <<"contract">> ELSE << >>)
              \o <<"header", "hash_before", "version">>,
   synced |-> state_number <= s.markers.State, reads |-> {}, free |-> 0]

(* Transactions that are re-executed; the first that cannot be is the error. *)
Reexecuted(request, s, txs, n, state_number, pending) ==
  IF \E i \in DOMAIN txs : stored_txn_to_executable_txn(s, txs[i], state_number) # "ok"
  THEN Answered(request, "INTERNAL")
  ELSE Executing(request, s, n, state_number, pending)

(* Version 0.6 executes without looking at how the data becomes available. *)
IGNORE_L1_DA_MODE(request) == request.version = "V0_6"

(* Re-execution starts before the pending block: the pending diff is empty. *)
StartOfPending(l1_da_mode) ==
  [diff |-> EmptyDiff, classes |-> NoPendingClasses, l1_da_mode |-> l1_da_mode]

(* l1_da_mode is what a trace takes the mode of the pending block for.  Unlike
   the methods of RpcApi a trace does not verify the scope: in state-only scope
   it fails when it opens a table of the bodies. *)
TraceTransaction(request, s, pd, l1_da_mode) ==
  LET pending == read_pending_data(s, pd)
      latest == get_latest_block_number(s)
      found == {i \in DOMAIN pending.txs : pending.txs[i].hash = request.of}
      index == get_transaction_idx_by_hash(s, request.of)
  IN  IF found # {}
      THEN IF latest = None THEN Answered(request, "INVALID_TRANSACTION_HASH")
           ELSE Reexecuted(request, s, SubSeq(pending.txs, 1, Min(found)), latest, latest + 1,
                           StartOfPending(l1_da_mode))
      ELSE IF s.scope = "StateOnly" THEN Answered(request, "INTERNAL")
      ELSE IF index = None THEN Answered(request, "TRANSACTION_HASH_NOT_FOUND")
      ELSE Reexecuted(request, s, SubSeq(get_block_transactions(s, index[1]), 1, index[2]),
                      index[1], index[1], None)

TraceBlock(request, s, pd, l1_da_mode) ==
  LET n == get_accepted_block_number(s, request.id) IN
  IF n.error # None THEN Answered(request, n.error)
  ELSE IF request.id.by = "pending"
  THEN Reexecuted(request, s, read_pending_data(s, pd).txs, n.value, n.value + 1,
                  StartOfPending(l1_da_mode))
  ELSE IF s.scope = "StateOnly" THEN Answered(request, "INTERNAL")
  ELSE Reexecuted(request, s, get_block_transactions(s, n.value), n.value, n.value, None)

trace_transaction(request, s, pd) ==
  TraceTransaction(request, s, pd, read_pending_data(s, pd).l1_da_mode)
trace_block_transactions(request, s, pd) ==
  TraceBlock(request, s, pd, read_pending_data(s, pd).l1_da_mode)
v06_trace_transaction(request, s, pd) == TraceTransaction(request, s, pd, "Calldata")
v06_trace_block_transactions(request, s, pd) == TraceBlock(request, s, pd, "Calldata")

Trace(request, s, pd) ==
  LET v06 == request.version = "V0_6" IN
  IF request.method = "trace_transaction"
  THEN IF v06 THEN v06_trace_transaction(request, s, pd) ELSE trace_transaction(request, s, pd)
  ELSE IF v06 THEN v06_trace_block_transactions(request, s, pd)
  ELSE trace_block_transactions(request, s, pd)

(* call, estimate_fee, simulate_transactions, estimate_message_fee *)
OnTopOf(request, s, pd, classes_now) ==
  LET n == get_accepted_block_number(s, request.id) IN
  IF n.error # None THEN Answered(request, n.error)
  ELSE Executing(request, s, n.value, n.value + 1, PendingFor(s, pd, request.id, classes_now))

(* A request with the pending tag waits for two locks. *)
BeginExecution(request) ==
  /\ exec.pc = "idle"
  /\ exec' = IF request.id.by = "pending" \/ request.method = "trace_transaction"
             THEN [pc |-> "pending_lock", request |-> request, s |-> db]
             ELSE IF request.method = "trace_block_transactions"
             THEN Trace(request, db, pending_data)
             ELSE OnTopOf(request, db, pending_data, pending_classes)

ReadPendingData ==
  LET request == exec.request IN
  /\ exec.pc = "pending_lock"
  /\ exec' = IF request.method \in {"trace_transaction", "trace_block_transactions"}
             THEN Trace(request, exec.s, pending_data)
             ELSE [exec EXCEPT !.pc = "classes_lock"] @@ [pd |-> pending_data]

ReadPendingClasses ==
  /\ exec.pc = "classes_lock"
  /\ exec' = OnTopOf(exec.request, exec.s, exec.pd, pending_classes)

-----------------------------------------------------------------------------
(* The execution *)

Read(kind, of, value) == [kind |-> kind, of |-> of, value |-> value]

(* The reads that come first, in their order.  A missing header is a panic of
   the blocking task. *)
BoundRead ==
  LET n == exec.n
      next == BlockContextNumber(n, exec.pending)
      kind == Head(exec.todo)
      header == get_block_header(db, n)
      kzg(mode) == use_kzg_da(IGNORE_L1_DA_MODE(exec.request), mode)
      ago == get_10_blocks_ago(db, n)
      contract == exec_get_class_hash_at(db, exec.state_number, exec.pending, exec.request.of)
      constants == get_versioned_constants(get_starknet_version(db, next), KnownVersions)
      value == IF kind = "contract" THEN contract
               ELSE IF kind = "header"
               THEN IF exec.pending # None THEN <<kzg(exec.pending.l1_da_mode)>>
                    ELSE IF header = None THEN None
                    ELSE <<header.hash, kzg(ContentOf(header.hash).l1_da_mode)>>
               ELSE IF kind = "hash_before" THEN ago ELSE constants
      error == IF kind = "contract" /\ contract = None THEN "CONTRACT_NOT_FOUND"
               ELSE IF kind = "header" /\ exec.pending = None /\ header = None THEN "INTERNAL"
               ELSE IF kind = "hash_before" /\ ~BlockHashProvided(n, exec.pending, ago)
               THEN "INTERNAL" ELSE None
  IN  /\ exec.pc = "running" /\ exec.todo # << >>
      /\ exec' = IF error # None THEN Answered(exec.request, error)
                 ELSE [exec EXCEPT !.todo = Tail(@), !.reads = @ \cup {Read(kind, n, value)}]

AllClasses == UNION {Range(Content[c].diff.declared_classes)
                       \cup Content[c].diff.deprecated_declared_classes : c \in DOMAIN Content}

(* What the blockifier may ask the state reader. *)
FreeReads ==
  LET state == exec.state_number IN
  {Read("storage", a, exec_get_storage_at(db, state, exec.pending, a)) : a \in Addresses}
    \cup {Read("nonce", a, reader_get_nonce_at(db, state, exec.pending, a)) : a \in Addresses}
    \cup {Read("class_hash", a, reader_get_class_hash_at(db, state, exec.pending, a)) :
            a \in Addresses}
    \cup {Read("class", c, reader_get_compiled_contract_class(db, state, exec.pending, c,
                                                              DeprecatedClasses)) :
            c \in AllClasses}

MayRead == exec.pc = "running" /\ exec.todo = << >> /\ exec.free < scenario.reads

(* A class that is declared and has no casm yet is an error of its own;
   execution_error_to_error_object_owned makes it BLOCK_NOT_FOUND. *)
FreeRead ==
  /\ MayRead /\ exec.declared = None
  /\ \E read \in FreeReads :
       exec' = IF read.kind = "class" /\ read.value = "CasmTableNotSynced"
               THEN [Answered(exec.request, "MissingCompiledClass") EXCEPT !.pc = "failed"]
                      @@ [n |-> exec.n, hash |-> exec.hash]
               ELSE [exec EXCEPT !.reads = @ \cup {read}, !.free = @ + 1]

(* get_compiled_class_hash: the second read is another transaction. *)
CompiledHashRead ==
  \/ /\ MayRead /\ exec.declared = None
     /\ \E c \in AllClasses :
          LET found == DeclaringBlock(db, exec.pending, c) IN
          exec' = IF found = "Declared"
                  THEN [exec EXCEPT !.declared = [class |-> c, n |-> db.declared_classes_block[c]]]
                  ELSE [exec EXCEPT !.reads = @ \cup {Read("compiled_hash", c, found)},
                                    !.free = @ + 1]
  \/ /\ exec.pc = "running" /\ exec.declared # None
     /\ exec' = [exec EXCEPT !.declared = None, !.free = @ + 1,
                   !.reads = @ \cup {Read("compiled_hash", exec.declared.class,
                                          CompiledClassHashIn(db, exec.declared.n,
                                                              exec.declared.class))}]

(* What a method makes of the outcome of the blockifier, for one call or one
   transaction: an error, or None. *)
call(outcome) == IF outcome = "ok" THEN None ELSE "CONTRACT_ERROR"

rpc_estimate_fee(outcome) ==
  LET result == estimate_fee(<<outcome>>) IN
  IF result.error = "Reverted" THEN "TRANSACTION_EXECUTION_ERROR"
  ELSE IF result.error # None THEN "INTERNAL" ELSE None

estimate_message_fee(outcome) ==
  LET result == estimate_fee(<<outcome>>) IN
  IF result.error = "Reverted" THEN "CONTRACT_ERROR"
  ELSE IF result.error # None \/ result.value # 1 THEN "INTERNAL" ELSE None

(* simulate_transactions and the traces *)
rpc_simulate_transactions(outcome) ==
  IF simulate_transactions(<<outcome>>).error # None THEN "INTERNAL" ELSE None

(* Version 0.6 gives fewer fields of a fee and makes the same errors. *)
v06_call(outcome) == call(outcome)
v06_estimate_fee(outcome) == rpc_estimate_fee(outcome)
v06_estimate_message_fee(outcome) == estimate_message_fee(outcome)
v06_simulate_transactions(outcome) == rpc_simulate_transactions(outcome)

Outcome07(request, outcome) ==
  IF request.method = "call" THEN call(outcome)
  ELSE IF request.method = "estimate_fee" THEN rpc_estimate_fee(outcome)
  ELSE IF request.method = "estimate_message_fee" THEN estimate_message_fee(outcome)
  ELSE rpc_simulate_transactions(outcome)

Outcome06(request, outcome) ==
  IF request.method = "call" THEN v06_call(outcome)
  ELSE IF request.method = "estimate_fee" THEN v06_estimate_fee(outcome)
  ELSE IF request.method = "estimate_message_fee" THEN v06_estimate_message_fee(outcome)
  ELSE v06_simulate_transactions(outcome)

Outcome(request, outcome) ==
  IF request.version = "V0_6" THEN Outcome06(request, outcome) ELSE Outcome07(request, outcome)

FinishExecution ==
  /\ exec.pc = "running" /\ exec.todo = << >> /\ exec.declared = None
  /\ \E outcome \in {"ok", "reverted", "error"} :
       exec' = [exec EXCEPT !.pc = IF Outcome(exec.request, outcome) = None THEN "executed"
                                   ELSE "failed"]
                 @@ [error |-> Outcome(exec.request, outcome)]

execution_error_to_error_object_owned(error) ==
  IF error = "MissingCompiledClass" THEN "BLOCK_NOT_FOUND" ELSE error

(* BlockNotRevertedValidator::validate *)
BlockNotReverted ==
  LET header == get_block_header(db, exec.n) IN header # None /\ header.hash = exec.hash

(* Mutant: the block is not looked at again. *)
validateMutant ==
  /\ exec.pc \in {"executed", "failed"}
  /\ exec' = IF exec.pc = "executed" THEN [exec EXCEPT !.pc = "answered"]
             ELSE Answered(exec.request, execution_error_to_error_object_owned(exec.error))

(* The estimations validate before they look at the result; the others return
   the error of the execution at once. *)
validate ==
  LET method == exec.request.method
      first == method \in {"estimate_fee", "estimate_message_fee"}
      error == IF first THEN IF exec.error = "MissingCompiledClass" THEN "INTERNAL" ELSE exec.error
               ELSE execution_error_to_error_object_owned(exec.error)
  IN  /\ exec.pc \in {"executed", "failed"}
      /\ exec' = IF exec.pc = "failed" /\ ~first THEN Answered(exec.request, error)
                 ELSE IF ~BlockNotReverted THEN Answered(exec.request, "INTERNAL")
                 ELSE IF exec.pc = "failed" THEN Answered(exec.request, error)
                 ELSE [exec EXCEPT !.pc = "answered"]

ExecutionStep ==
  /\ \/ \E request \in scenario.requests : BeginExecution(request)
     \/ ReadPendingData \/ ReadPendingClasses
     \/ BoundRead \/ FreeRead \/ CompiledHashRead \/ FinishExecution \/ validate
  /\ UNCHANGED <<syncVars, fetches, txn>>

-----------------------------------------------------------------------------
(* Bound: nothing is asked after the answer of the request that executes. *)
Active ==
  \/ Grow \/ Fork \/ SyncStep \/ RevertStep \/ FetchPending \/ SyncFailure
  \/ BeginTxn \/ ExecutionStep

RpcNext == PendingStep \/ (exec.pc # "answered" /\ Active)

(* The runtime polls the pending sync and the central source answers. *)
RpcSpec == RpcInit /\ [][RpcNext]_rpcVars /\ WF_rpcVars(PendingStep)
=============================================================================
