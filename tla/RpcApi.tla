------------------------------- MODULE RpcApi -------------------------------
(***************************************************************************)
(* The methods of the JSON-RPC server, version 0.7 (papyrus_rpc/v0_7), that *)
(* answer from a storage transaction and the pending data.                 *)
(*                                                                         *)
(* A method is an operator of the storage s its transaction sees, of the   *)
(* pending data pd at the moment it takes the lock, and of its arguments.  *)
(* It gives [error, value], where one of the two is None.                  *)
(*                                                                         *)
(* A block id is [by, at]: by is "hash", "number", "latest" or "pending".   *)
(* Pending data is [parent, block_hash, txs, diff, old_root, l1_da_mode]:   *)
(* block_hash is None unless the source answered with its latest block.    *)
(* Transactions and receipts of the pending block come in pairs.           *)
(***************************************************************************)
EXTENDS Chain, Execution

CONSTANTS
  Malformed,              \* a continuation token that cannot be parsed
  max_events_chunk_size,
  max_events_keys

Ok(value) == [error |-> None, value |-> value]
Err(error) == [error |-> error, value |-> None]
Map(answer, f(_)) == IF answer.error # None THEN answer ELSE Ok(f(answer.value))
AndThen(answer, f(_)) == IF answer.error # None THEN answer ELSE f(answer.value)
OkOr(value, error) == IF value = None THEN Err(error) ELSE Ok(value)

(* GENESIS_HASH; a state root is a function of the blocks' contents. *)
GenesisHash == << >>
StateRoot(hash) == [i \in DOMAIN hash |-> hash[i][1]]

(* A method that needs the bodies of blocks is refused in state-only scope,
   before it looks at its arguments. *)
verify_storage_scope(s, answer) ==
  IF s.scope = "StateOnly" THEN Err("UNSUPPORTED_SCOPE") ELSE answer

-----------------------------------------------------------------------------
(* Blocks and numbers *)

(* Mutant: a block is served as soon as its header is stored. *)
get_latest_block_numberMutant(s) ==
  IF s.markers.Header = 0 THEN None ELSE s.markers.Header - 1

get_latest_block_number(s) == IF s.markers.State = 0 THEN None ELSE s.markers.State - 1

get_block_status(s, n) ==
  IF n < s.markers.BaseLayerBlock THEN "AcceptedOnL1" ELSE "AcceptedOnL2"

get_accepted_block_number(s, id) ==
  LET latest == get_latest_block_number(s)
      n == IF id.by = "hash" THEN get(s, "block_hash_to_number", id.at) ELSE id.at
  IN  IF latest = None THEN Err("BLOCK_NOT_FOUND")
      ELSE IF id.by \in {"latest", "pending"} THEN Ok(latest)
      ELSE IF n = None \/ n > latest THEN Err("BLOCK_NOT_FOUND")
      ELSE Ok(n)

get_block_header_by_number(s, n) == OkOr(get_block_header(s, n), "BLOCK_NOT_FOUND")

block_number(s) == OkOr(get_latest_block_number(s), "NO_BLOCKS")

block_hash_and_number(s) ==
  AndThen(block_number(s),
          LAMBDA n : Map(get_block_header_by_number(s, n),
                         LAMBDA header : [block_hash |-> header.hash, block_number |-> n]))

(* What syncing compares: the last block whose casms are stored, and the
   highest block the central source reported (None before it did). *)
get_last_synced_block(s) ==
  LET marker == s.markers.CompiledClass IN
  IF marker = 0 THEN [number |-> 0, hash |-> GenesisHash]
  ELSE [number |-> marker - 1, hash |-> get_block_header(s, marker - 1).hash]

syncing(s, highest_block) ==
  IF highest_block = None \/ highest_block <= get_last_synced_block(s).number THEN "Synced"
  ELSE "Syncing"

-----------------------------------------------------------------------------
(* Pending data *)

(* Mutant: the parent of the pending block is not compared. *)
read_pending_dataMutant(s, pd) == pd

(* Pending data that is not on top of the latest block of the transaction is
   replaced by an empty block on top of it, with the data in calldata. *)
read_pending_data(s, pd) ==
  LET latest == get_latest_block_number(s)
      hash == IF latest = None THEN GenesisHash ELSE get_block_header(s, latest).hash
  IN  IF pd.parent = hash THEN pd
      ELSE [parent |-> hash, block_hash |-> None, txs |-> << >>, diff |-> EmptyDiff,
            old_root |-> StateRoot(hash), l1_da_mode |-> "Calldata"]

(* The pending diff a method looks at: that of the pending tag only. *)
PendingFor(s, pd, id, pending_classes) ==
  IF id.by # "pending" THEN None
  ELSE LET pending == read_pending_data(s, pd) IN
       [diff |-> pending.diff, classes |-> pending_classes, l1_da_mode |-> pending.l1_da_mode]

-----------------------------------------------------------------------------
(* Blocks, transactions and receipts *)

Hashes(txs) == [i \in DOMAIN txs |-> txs[i].hash]

get_block_txs_by_number(s, n) == OkOr(get_block_transactions(s, n), "BLOCK_NOT_FOUND")

(* full is FALSE for transaction hashes only. *)
get_block(s, pd, id, full) ==
  LET pending == read_pending_data(s, pd)
      shown(txs) == IF full THEN txs ELSE Hashes(txs)
      accepted(n) ==
        AndThen(get_block_header_by_number(s, n), LAMBDA header :
          Map(get_block_txs_by_number(s, n), LAMBDA txs :
            [status |-> get_block_status(s, n), number |-> n, hash |-> header.hash,
             parent |-> header.parent, txs |-> shown(txs)]))
  IN  verify_storage_scope(s,
        IF id.by = "pending"
        THEN Ok([status |-> None, number |-> None, hash |-> None,
                 parent |-> pending.parent, txs |-> shown(pending.txs)])
        ELSE AndThen(get_accepted_block_number(s, id), accepted))

get_block_w_transaction_hashes(s, pd, id) == get_block(s, pd, id, FALSE)
get_block_w_full_transactions(s, pd, id) == get_block(s, pd, id, TRUE)

(* A message hash is given for the transactions from L1. *)
msg_hash(tx) == IF tx.kind = "L1Handler" THEN tx.hash ELSE None

get_non_pending_receipt(s, index) ==
  LET tx == get_transaction(s, index) IN
  AndThen(get_block_header_by_number(s, index[1]), LAMBDA header :
    Ok([hash |-> tx.hash, finality |-> get_block_status(s, index[1]),
        block_hash |-> header.hash, block_number |-> index[1],
        events |-> tx.output, msg_hash |-> msg_hash(tx)]))

client_receipt_to_rpc_pending_receipt(tx) ==
  [hash |-> tx.hash, finality |-> "AcceptedOnL2", block_hash |-> None,
   block_number |-> None, events |-> tx.output, msg_hash |-> msg_hash(tx)]

(* Each transaction of the block with its receipt. *)
get_block_w_full_transactions_and_receipts(s, pd, id) ==
  Map(get_block(s, pd, id, TRUE), LAMBDA block :
    [block EXCEPT !.txs =
       [i \in DOMAIN @ |->
          [tx |-> @[i],
           receipt |-> IF id.by = "pending"
                       THEN client_receipt_to_rpc_pending_receipt(@[i])
                       ELSE get_non_pending_receipt(s, <<block.number, i>>).value]]])

PendingTx(s, pd, hash) ==
  LET txs == read_pending_data(s, pd).txs IN
  OkOr(IF hash \in Range(Hashes(txs)) THEN txs[CHOOSE i \in DOMAIN txs : txs[i].hash = hash]
       ELSE None, "TRANSACTION_HASH_NOT_FOUND")

get_transaction_by_hash(s, pd, hash) ==
  LET index == get_transaction_idx_by_hash(s, hash) IN
  verify_storage_scope(s,
    IF index # None THEN OkOr(get_transaction(s, index), "TRANSACTION_HASH_NOT_FOUND")
    ELSE PendingTx(s, pd, hash))

get_transaction_receipt(s, pd, hash) ==
  LET index == get_transaction_idx_by_hash(s, hash) IN
  verify_storage_scope(s,
    IF index # None THEN get_non_pending_receipt(s, index)
    ELSE Map(PendingTx(s, pd, hash), client_receipt_to_rpc_pending_receipt))

get_transaction_status(s, pd, hash) ==
  Map(get_transaction_receipt(s, pd, hash), LAMBDA receipt : receipt.finality)

(* Transactions are counted from 1. *)
get_transaction_by_block_id_and_index(s, pd, id, i) ==
  LET txs == read_pending_data(s, pd).txs IN
  verify_storage_scope(s,
    IF id.by = "pending"
    THEN OkOr(IF i \in DOMAIN txs THEN txs[i] ELSE None, "INVALID_TRANSACTION_INDEX")
    ELSE AndThen(get_accepted_block_number(s, id), LAMBDA n :
           OkOr(get_transaction(s, <<n, i>>), "INVALID_TRANSACTION_INDEX")))

get_block_transaction_count(s, pd, id) ==
  verify_storage_scope(s,
    IF id.by = "pending" THEN Ok(Len(read_pending_data(s, pd).txs))
    ELSE AndThen(get_accepted_block_number(s, id), LAMBDA n :
           OkOr(get_block_transactions_count(s, n), "BLOCK_NOT_FOUND")))

(* The old root is that of the block the parent hash leads to. *)
get_state_update(s, pd, id) ==
  LET pending == read_pending_data(s, pd)
      old_root(header) ==
        LET parent == get_accepted_block_number(s, [by |-> "hash", at |-> header.parent]) IN
        IF parent.error # None THEN GenesisHash
        ELSE StateRoot(get_block_header(s, parent.value).hash)
      accepted(n) ==
        AndThen(get_block_header_by_number(s, n), LAMBDA header :
          Map(OkOr(get(s, "state_diffs", n), "BLOCK_NOT_FOUND"), LAMBDA diff :
            [hash |-> header.hash, new_root |-> StateRoot(header.hash),
             old_root |-> old_root(header), diff |-> diff]))
  IN  IF id.by = "pending"
      THEN Ok([hash |-> None, new_root |-> None, old_root |-> pending.old_root,
               diff |-> pending.diff])
      ELSE AndThen(get_accepted_block_number(s, id), accepted)

-----------------------------------------------------------------------------
(* State *)

(* Value 0 is answered for a deployed contract only.  Storage of the block
   hash table, a contract that is never deployed, is left out. *)
rpc_get_storage_at(s, pd, id, address) ==
  LET pending == PendingFor(s, pd, id, NoPendingClasses) IN
  AndThen(get_accepted_block_number(s, id), LAMBDA n :
    LET value == exec_get_storage_at(s, n + 1, pending, address) IN
    IF value = DefaultFelt /\ get_class_hash_at(s, n + 1, address) = None
    THEN Err("CONTRACT_NOT_FOUND") ELSE Ok(value))

rpc_get_nonce(s, pd, id, address) ==
  LET pending == PendingFor(s, pd, id, NoPendingClasses) IN
  AndThen(get_accepted_block_number(s, id), LAMBDA n :
    OkOr(exec_get_nonce_at(s, n + 1, pending, address), "CONTRACT_NOT_FOUND"))

rpc_get_class_hash_at(s, pd, id, address) ==
  LET pending == PendingFor(s, pd, id, NoPendingClasses) IN
  AndThen(get_accepted_block_number(s, id), LAMBDA n :
    OkOr(exec_get_class_hash_at(s, n + 1, pending, address), "CONTRACT_NOT_FOUND"))

(* pending_classes is what the lock on the pending classes gives; the
   transaction is begun after it is released. *)
get_class(s, pending_classes, id, class_hash) ==
  IF id.by = "pending" /\ class_hash \in pending_classes.classes THEN Ok(class_hash)
  ELSE AndThen(get_accepted_block_number(s, id), LAMBDA n :
         LET class == get_class_definition_at(s, n + 1, class_hash) IN
         IF class = DBInconsistency THEN Err("INTERNAL")
         ELSE IF class # None THEN Ok(class)
         ELSE OkOr(get_deprecated_class_definition_at(s, n + 1, class_hash),
                   "CLASS_HASH_NOT_FOUND"))

(* Two requests in one, each with a transaction of its own: s, then later. *)
get_class_at(s, pd, later, pending_classes, id, address) ==
  AndThen(rpc_get_class_hash_at(s, pd, id, address), LAMBDA class_hash :
    get_class(later, pending_classes, id, class_hash))

(* The pending tag means the latest block here. *)
get_compiled_contract_class(s, id, class_hash) ==
  AndThen(get_accepted_block_number(s, id), LAMBDA n :
    LET declared == get_class_definition_block_number(s, class_hash) IN
    IF declared # None
    THEN IF declared > n THEN Err("CLASS_HASH_NOT_FOUND")
         ELSE OkOr(get_casm(s, class_hash), "CLASS_HASH_NOT_FOUND")
    ELSE OkOr(get_deprecated_class_definition_at(s, n + 1, class_hash),
              "CLASS_HASH_NOT_FOUND"))

-----------------------------------------------------------------------------
(* Events.  A filter is [from_block, to_block (ids or None), address (or
   None), keys (a sequence of sets), chunk_size, token]. *)

do_event_keys_match_filter(event, filter) ==
  \A i \in DOMAIN filter.keys :
    Len(event.keys) >= i /\ (filter.keys[i] = {} \/ event.keys[i] \in filter.keys[i])

Matches(item, filter) ==
  /\ do_event_keys_match_filter(item.event, filter)
  /\ filter.address = None \/ item.from = filter.address

(* Every event of the pending block, numbered as a block after the latest. *)
PendingItems(n, txs) ==
  FlattenSeq([i \in DOMAIN txs |->
    [j \in DOMAIN txs[i].output |-> EventItem(<<n, i>>, j, txs[i].output[j])]])

FirstIndices(S, k) == {i \in S : Cardinality({j \in S : j < i}) < k}
IndexAt(S, k) == CHOOSE i \in S : Cardinality({j \in S : j < i}) = k
Pick(items, S) == LET order == SetToSortSeq(S, <) IN [j \in DOMAIN order |-> items[order[j]]]

(* The loop over stored events: it stops behind to_block and at the first
   event of another address, and returns a token at the first matching event
   after a full chunk. *)
StoredChunk(items, filter, to_block) ==
  LET past(i) == \/ items[i].index[1][1] > to_block
                 \/ filter.address \notin {None, items[i].from}
      hits == {i \in DOMAIN items : /\ \A j \in 1 .. i : ~past(j)
                                   /\ do_event_keys_match_filter(items[i].event, filter)}
  IN  [events |-> Pick(items, FirstIndices(hits, filter.chunk_size)),
       token |-> IF Cardinality(hits) <= filter.chunk_size THEN None
                 ELSE items[IndexAt(hits, filter.chunk_size)].index]

(* Mutant: the token points behind the next pending event. *)
PendingChunkMutant(items, filter, room) ==
  LET hits == {i \in DOMAIN items : Matches(items[i], filter)}
      full == {i \in DOMAIN items : Cardinality({j \in hits : j < i}) = room}
  IN  [events |-> Pick(items, FirstIndices(hits, room)),
       token |-> IF full = {} \/ Min(full) = Len(items) THEN None
                 ELSE items[Min(full) + 1].index]

(* The loop over pending events: it returns a token at the first event after a
   full chunk, whether that event matches or not. *)
PendingChunk(items, filter, room) ==
  LET hits == {i \in DOMAIN items : Matches(items[i], filter)}
      full == {i \in DOMAIN items : Cardinality({j \in hits : j < i}) = room}
  IN  [events |-> Pick(items, FirstIndices(hits, room)),
       token |-> IF full = {} THEN None ELSE items[Min(full)].index]

(* The pending events fill what the stored ones leave of the chunk. *)
AddPending(stored, items, filter) ==
  LET pending == PendingChunk(items, filter, filter.chunk_size - Len(stored.events)) IN
  IF stored.token # None THEN stored
  ELSE [events |-> stored.events \o pending.events, token |-> pending.token]

EventsChunk(s, pd, filter, latest, start, to_block) ==
  LET stored_to == Min({to_block, latest})
      stored == IF start[1][1] > latest THEN [events |-> << >>, token |-> None]
                ELSE StoredChunk(iter_events(s, filter.address, start, stored_to), filter, stored_to)
      first == IF start[1][1] > latest THEN <<start[1][2], start[2]>> ELSE <<1, 1>>
      all == PendingItems(latest + 1, read_pending_data(s, pd).txs)
      items == SelectSeq(all, LAMBDA e : ~IndexBefore(<<e.index[1][2], e.index[2]>>, first))
  IN  IF to_block > latest THEN AddPending(stored, items, filter) ELSE stored

get_events(s, pd, filter) ==
  LET latest == get_latest_block_number(s)
      number(id, default) == IF id = None THEN Ok(default)
                             ELSE IF id.by = "pending" THEN Ok(latest + 1)
                             ELSE get_accepted_block_number(s, id)
      from == number(filter.from_block, 0)
      to == number(filter.to_block, latest + 1)
  IN  verify_storage_scope(s,
        IF filter.chunk_size > max_events_chunk_size THEN Err("PAGE_SIZE_TOO_BIG")
        ELSE IF Len(filter.keys) > max_events_keys THEN Err("TOO_MANY_KEYS_IN_FILTER")
        ELSE IF latest = None THEN Ok([events |-> << >>, token |-> None])
        ELSE IF from.error # None THEN from
        ELSE IF to.error # None THEN to
        ELSE IF from.value > to.value THEN Ok([events |-> << >>, token |-> None])
        ELSE IF filter.token = Malformed THEN Err("INVALID_CONTINUATION_TOKEN")
        ELSE Ok(EventsChunk(s, pd, filter, latest,
                            IF filter.token = None THEN <<<<from.value, 1>>, 1>>
                            ELSE filter.token, to.value)))

=============================================================================
