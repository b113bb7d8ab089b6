--------------------------- MODULE RpcProperties ----------------------------
(***************************************************************************)
(* What the JSON-RPC server promises, beside a sync that stores and        *)
(* reverts blocks: properties of RpcServer.                                *)
(***************************************************************************)
EXTENDS RpcServer

Snapshot == txn.s
Queried == txn # None
NumberIds == {NumberId(n) : n \in 0 .. scenario.length}
WithBodies == Snapshot.scope = "FullArchive"
LatestOf(s) == get_latest_block_number(s)
StoredTxs(s, up_to) == UNION {Range(Hashes(get_block_transactions(s, n))) : n \in 0 .. up_to}

(* Whatever the pending data has become since the transaction was begun, the
   pending block that is served is on top of the transaction's latest block,
   its old root is that block's root, and none of its transactions is in a
   block up to that one (read_pending_data). *)
PendingOnTopOfLatest ==
  Queried => LET pending == get_block(Snapshot, pending_data, Pending, FALSE).value
                 latest == LatestOf(Snapshot)
                 parent == IF latest = None THEN GenesisHash
                           ELSE block_hash_and_number(Snapshot).value.block_hash
             IN  /\ get_state_update(Snapshot, pending_data, Pending).value.old_root
                      = StateRoot(parent)
                 /\ WithBodies => pending.parent = parent
                 /\ WithBodies /\ latest # None =>
                      Range(pending.txs) \cap StoredTxs(Snapshot, latest) = {}

(* A block that is asked for by its hash is that block, never one that took
   its number after it was reverted, and is found if it is on the served chain
   (get_accepted_block_number, revert_header). *)
BlocksByHash ==
  Queried => LET s == Snapshot IN
    \A n \in 0 .. s.markers.Header - 1, length \in 1 .. Len(central) :
      LET stored == s.headers[n].hash
          other == SubSeq(central, 1, length)
          ask(h) == get_state_update(s, pending_data, [by |-> "hash", at |-> h])
      IN  /\ n < s.markers.State <=> ask(stored).error = None
          /\ ask(other).error = None => ask(other).value.hash = other

(* Every block up to the latest is answered by every method the storage scope
   admits, and no other block by any: its state diff and, in a full archive, its
   transactions, their count and receipts are those of the block with its hash,
   and its roots continue those of its parent, although headers and bodies are
   stored ahead of state diffs and classes (get_latest_block_number,
   get_accepted_block_number).  In state-only scope, which keeps no bodies, the
   methods that need them are refused, never answered with an empty block
   (verify_storage_scope). *)
BlocksByNumber ==
  Queried => LET s == Snapshot
                 pd == pending_data
             IN  \A id \in NumberIds \cup {Latest} :
    LET block == get_block_w_full_transactions_and_receipts(s, pd, id)
        count == get_block_transaction_count(s, pd, id)
        update == get_state_update(s, pd, id)
        served == LatestOf(s) # None /\ (id = Latest \/ id.at <= LatestOf(s))
        content == ContentOf(update.value.hash)
    IN  /\ served <=> update.error = None
        /\ served => /\ update.value.diff = sort_state_diff(content.diff)
                     /\ update.value.old_root = StateRoot(Front(update.value.hash))
        /\ served /\ WithBodies =>
             LET b == block.value IN
             /\ block.error = None /\ b.hash = update.value.hash
             /\ b.parent = Front(b.hash)
             /\ [i \in DOMAIN b.txs |-> b.txs[i].tx] = content.body
             /\ \A i \in DOMAIN b.txs : b.txs[i].receipt.block_hash = b.hash
             /\ count = Ok(Len(content.body))
        /\ ~(served /\ WithBodies) => block.error # None /\ count.error # None

(* A block that is served is served whole and as itself, by number, by tag and
   by hash, whatever was stored or reverted since. *)
BlocksAnsweredWhole == BlocksByNumber /\ BlocksByHash

AllTxs == UNION {{tx.hash : tx \in Range(Content[c].body)} : c \in DOMAIN Content}

(* Blocks, receipts and statuses do not depend on the version a client speaks,
   and a transaction has a receipt exactly if it can be found by its hash: the
   code of version 0.6 is its own (v0_6/api/api_impl.rs). *)
VersionsAgree ==
  Queried => LET s == Snapshot
                 pd == pending_data
             IN
    /\ \A id \in NumberIds \cup {Latest, Pending} :
         /\ v06_get_block_w_transaction_hashes(s, pd, id) = get_block_w_transaction_hashes(s, pd, id)
         /\ v06_get_block_w_full_transactions(s, pd, id) = get_block_w_full_transactions(s, pd, id)
    /\ \A hash \in AllTxs :
         /\ v06_get_transaction_receipt(s, pd, hash) = get_transaction_receipt(s, pd, hash)
         /\ v06_get_transaction_status(s, pd, hash) = get_transaction_status(s, pd, hash)
         /\ get_transaction_by_hash(s, pd, hash).error = get_transaction_receipt(s, pd, hash).error

(* The storage as it will be when the pending block is stored as it stands. *)
Accept(s, pending) ==
  LET n == s.markers.State
      diff == sort_state_diff(pending.diff)
  IN  append_state_diff([s EXCEPT !.error = None], n, diff)

(* The state that is answered for the pending tag is the state that will be
   answered for the block once it is stored, for every contract that was
   deployed before it: nonce, class hash and storage (get_nonce,
   get_class_hash_at, get_storage_at over execution_utils). *)
PendingStateBecomesLatest ==
  Queried /\ LatestOf(Snapshot) # None => LET s == Snapshot
                                              pd == read_pending_data(s, pending_data)
                                              then == Accept(s, pd)
                                          IN  then.error = None =>
    \A a \in Addresses :
      /\ rpc_get_class_hash_at(s, pd, Pending, a) = rpc_get_class_hash_at(then, pd, Latest, a)
      /\ get_class_hash_at(s, s.markers.State, a) # None =>
           /\ rpc_get_nonce(s, pd, Pending, a) = rpc_get_nonce(then, pd, Latest, a)
           /\ rpc_get_storage_at(s, pd, Pending, a) = rpc_get_storage_at(then, pd, Latest, a)

-----------------------------------------------------------------------------
(* Events *)

Filters ==
  [from_block : {None}, to_block : {None, Latest}, address : {None} \cup Addresses,
   keys : {<< >>, <<{1}>>}, chunk_size : 1 .. max_events_chunk_size, token : {None}]

(* Every matching event of the blocks up to the latest, and of the pending
   block, in the order of their indices. *)
AllEvents(s, pd, filter) ==
  LET latest == LatestOf(s)
      blocks_of == FlattenSeq([i \in 1 .. latest + 1 |->
                                 PendingItems(i - 1, get_block_transactions(s, i - 1))])
      pending == IF filter.to_block = None
                 THEN PendingItems(latest + 1, read_pending_data(s, pd).txs) ELSE << >>
  IN  SelectSeq(blocks_of \o pending, LAMBDA item : Matches(item, filter))

(* The pages from a token on; no filter has more than MaxPages of them. *)
MaxPages == 8
Rest(s, pd, filter, token) ==
  LET up_to[i \in 0 .. MaxPages] ==
        IF i = 0 THEN [events |-> << >>, token |-> token]
        ELSE LET rest == up_to[i - 1]
                 page == get_events(s, pd, [filter EXCEPT !.token = rest.token]).value
             IN  IF rest.token = None THEN rest
                 ELSE [events |-> rest.events \o page.events, token |-> page.token]
  IN  up_to[MaxPages]

(* The pending block of the first page has become part of what is served: it
   is still pending, possibly longer, or its block is stored. *)
SameBlock(s1, pd1, s2, pd2) ==
  LET n == LatestOf(s1) + 1
      before == read_pending_data(s1, pd1).txs
      after == IF LatestOf(s2) >= n THEN get_block_transactions(s2, n)
               ELSE read_pending_data(s2, pd2).txs
  IN  IsPrefix(before, after)

(* Following the continuation tokens gives every matching event once and in
   order, also when blocks are stored, and the pending block becomes one of
   them, between the first page and the next ones (get_events, iter_events). *)
EventPagesComplete ==
  Queried /\ WithBodies /\ ~txn.reverted /\ LatestOf(Snapshot) # None =>
    \A filter \in Filters :
      LET page == get_events(Snapshot, txn.pd, filter).value
          rest == Rest(db, pending_data, filter, page.token)
      IN  page.token # None /\ (filter.to_block = None
                                  => SameBlock(Snapshot, txn.pd, db, pending_data)) =>
            /\ rest.token = None
            /\ page.events \o rest.events = AllEvents(db, pending_data, filter)

-----------------------------------------------------------------------------
(* Pending sync *)

(* Every class the pending block declares is downloaded, with its compiled
   class, unless the sync fails, finds another block or has the class already:
   the tasks are neither lost nor left out (sync_pending_data).  The compiled
   class hashes of the model are distinct. *)
PendingClassesArrive ==
  LET wanted == Range(pending_data.diff.declared_classes)
      here == psync.on /\ psync.fetched = None /\ ParentOf(pending_data) = psync.latest
  IN  (here /\ psync.processed # {}) ~>
        (~here \/ wanted \subseteq pending_classes.classes \cap pending_classes.compiled_classes)

-----------------------------------------------------------------------------
(* Execution *)

(* The last of the blocks up to state_number that sets key, in the chain whose
   contents are cs. *)
LastSet(cs, table(_), key, default) ==
  LET setters == {i \in DOMAIN cs : key \in DOMAIN table(cs[i])}
  IN  IF setters = {} THEN default ELSE table(cs[Max(setters)])[key]

(* The pending classes are read after the pending data, and may be those of a
   later pending block on the same block. *)
EarlyClass(c) ==
  {kind \in {"V1", "V0"} : c \in IF kind = "V1" THEN exec.pending.classes.compiled_classes
                                 ELSE exec.pending.classes.classes}

(* What a read of an execution should give, from the contents of the chain that
   ends in the block it is based on. *)
Expected(read) ==
  LET diffs_of == [i \in 1 .. exec.state_number |-> Content[exec.hash[i][1]].diff]
                    \o (IF exec.pending = None THEN << >> ELSE <<exec.pending.diff>>)
      nonces(d) == d.nonces @@ [a \in DOMAIN d.deployed_contracts |-> DefaultNonce]
      class_hashes(d) == d.replaced_classes @@ d.deployed_contracts
      classes1 == UNION {Range(diffs_of[i].declared_classes) : i \in DOMAIN diffs_of}
      classes0 == UNION {diffs_of[i].deprecated_declared_classes
                           \cup deployed_contract_class_definitions(diffs_of[i]) :
                         i \in DOMAIN diffs_of}
      n == exec.n
  IN  IF read.kind = "storage"
      THEN {LastSet(diffs_of, LAMBDA d : d.storage_diffs, read.of, DefaultFelt)}
      ELSE IF read.kind = "nonce" THEN {LastSet(diffs_of, nonces, read.of, DefaultNonce)}
      ELSE IF read.kind = "class_hash"
      THEN {LastSet(diffs_of, class_hashes, read.of, DefaultClassHash)}
      ELSE IF read.kind = "class"
      THEN (IF read.of \in classes1 THEN {"V1"} ELSE IF read.of \in classes0 THEN {"V0"} ELSE {})
             \cup (IF exec.pending # None THEN {"Undeclared"} \cup EarlyClass(read.of)
                   ELSE IF read.of \notin classes1 \cup classes0 THEN {"Undeclared"} ELSE {})
      ELSE IF read.kind = "compiled_hash" THEN {"Pending", "Undeclared", "Found"}
      ELSE IF read.kind = "contract"
      THEN {LastSet(diffs_of, class_hashes, exec.request.of, None)}
      ELSE IF read.kind = "header"
      THEN LET new == exec.request.version # "V0_6" IN
           {IF exec.pending # None THEN <<new /\ exec.pending.l1_da_mode = "Blob">>
            ELSE <<exec.hash, new /\ ContentOf(exec.hash).l1_da_mode = "Blob">>}
      ELSE IF read.kind = "hash_before"
      THEN {IF n < BlockHashBuffer THEN None ELSE SubSeq(exec.hash, 1, n - BlockHashBuffer + 1)}
      ELSE IF exec.pending # None THEN {read.value}
      ELSE {get_versioned_constants(ContentOf(exec.hash).version, KnownVersions)}

Succeeded == exec.pc = "answered" /\ "reads" \in DOMAIN exec

(* A successful execution has read the state right before the block in which
   its transactions run, or right after the block it is asked for. *)
ReadsOneState == Succeeded => \A read \in exec.reads : read.value \in Expected(read)

(* The same for an execution whose state was stored when it began: although
   every read begins a transaction of its own, blocks that are stored or
   reverted in between leave no trace in a successful answer
   (ExecutionStateReader, BlockNotRevertedValidator). *)
ExecutionReadsOneState ==
  Succeeded /\ exec.synced => \A read \in exec.reads : read.value \in Expected(read)
=============================================================================
