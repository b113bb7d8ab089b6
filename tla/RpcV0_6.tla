------------------------------- MODULE RpcV0_6 ------------------------------
(***************************************************************************)
(* Version 0.6 of the JSON-RPC methods (papyrus_rpc/v0_6), which the       *)
(* server offers beside version 0.7 over the same storage and the same     *)
(* pending data.  Blocks and receipts are put together by code of its own; *)
(* the other methods repeat those of RpcApi, and those that execute are in *)
(* RpcServer.                                                              *)
(***************************************************************************)
EXTENDS RpcApi

v06_read_pending_data(s, pd) == read_pending_data(s, pd)

(* The early return for the pending tag, then the accepted block. *)
v06_get_block_w_transaction_hashes(s, pd, id) ==
  LET pending == v06_read_pending_data(s, pd)
      n == get_accepted_block_number(s, id)
  IN  verify_storage_scope(s,
        IF id.by = "pending"
        THEN Ok([status |-> None, number |-> None, hash |-> None, parent |-> pending.parent,
                 txs |-> Hashes(pending.txs)])
        ELSE IF n.error # None THEN n
        ELSE AndThen(get_block_header_by_number(s, n.value), LAMBDA header :
               Map(get_block_txs_by_number(s, n.value), LAMBDA txs :
                 [status |-> get_block_status(s, n.value), number |-> n.value, hash |-> header.hash,
                  parent |-> header.parent, txs |-> Hashes(txs)])))

v06_get_block_w_full_transactions(s, pd, id) ==
  LET pending == v06_read_pending_data(s, pd)
      n == get_accepted_block_number(s, id)
  IN  verify_storage_scope(s,
        IF id.by = "pending"
        THEN Ok([status |-> None, number |-> None, hash |-> None, parent |-> pending.parent,
                 txs |-> pending.txs])
        ELSE IF n.error # None THEN n
        ELSE AndThen(get_block_header_by_number(s, n.value), LAMBDA header :
               Map(get_block_txs_by_number(s, n.value), LAMBDA txs :
                 [status |-> get_block_status(s, n.value), number |-> n.value, hash |-> header.hash,
                  parent |-> header.parent, txs |-> txs])))

(* Mutant: a pending receipt without looking at the pending block's parent. *)
v06_get_transaction_receiptMutant(s, pd, hash) ==
  LET found == {i \in DOMAIN pd.txs : pd.txs[i].hash = hash} IN
  IF s.scope = "StateOnly" \/ get_transaction_idx_by_hash(s, hash) # None
  THEN get_transaction_receipt(s, pd, hash)
  ELSE IF found = {} THEN Err("TRANSACTION_HASH_NOT_FOUND")
  ELSE Ok(client_receipt_to_rpc_pending_receipt(pd.txs[Min(found)]))

(* The kind of the output decides whether there is a message hash. *)
v06_get_transaction_receipt(s, pd, hash) ==
  LET index == get_transaction_idx_by_hash(s, hash)
      tx == get_transaction(s, index)
      block == get_block_header_by_number(s, index[1])
      txs == v06_read_pending_data(s, pd).txs
      found == {i \in DOMAIN txs : txs[i].hash = hash}
      pending == txs[Min(found)]
  IN  verify_storage_scope(s,
        IF index # None
        THEN IF block.error # None THEN Err("INTERNAL")
             ELSE Ok([hash |-> hash, finality |-> get_block_status(s, index[1]),
                      block_hash |-> block.value.hash, block_number |-> index[1],
                      events |-> tx.output, msg_hash |-> msg_hash(tx)])
        ELSE IF found = {} THEN Err("TRANSACTION_HASH_NOT_FOUND")
        ELSE Ok([hash |-> hash, finality |-> "AcceptedOnL2", block_hash |-> None,
                 block_number |-> None, events |-> pending.output, msg_hash |-> msg_hash(pending)]))

v06_get_transaction_status(s, pd, hash) ==
  Map(v06_get_transaction_receipt(s, pd, hash), LAMBDA receipt : receipt.finality)

-----------------------------------------------------------------------------
(* The methods that have the code of version 0.7, statement for statement. *)

v06_block_number(s) == block_number(s)
v06_block_hash_and_number(s) == block_hash_and_number(s)
v06_get_storage_at(s, pd, id, address) == rpc_get_storage_at(s, pd, id, address)
v06_get_transaction_by_hash(s, pd, hash) == get_transaction_by_hash(s, pd, hash)
v06_get_transaction_by_block_id_and_index(s, pd, id, i) ==
  get_transaction_by_block_id_and_index(s, pd, id, i)
v06_get_block_transaction_count(s, pd, id) == get_block_transaction_count(s, pd, id)
v06_get_state_update(s, pd, id) == get_state_update(s, pd, id)
v06_get_class(s, pending_classes, id, class_hash) == get_class(s, pending_classes, id, class_hash)
v06_get_class_hash_at(s, pd, id, address) == rpc_get_class_hash_at(s, pd, id, address)
v06_get_nonce(s, pd, id, address) == rpc_get_nonce(s, pd, id, address)
v06_get_events(s, pd, filter) == get_events(s, pd, filter)
v06_syncing(s, highest_block) == syncing(s, highest_block)
=============================================================================
