---------------------------- MODULE PendingSync -----------------------------
(***************************************************************************)
(* Pending sync (papyrus_sync/pending_sync.rs): while the node has every    *)
(* block and state diff of the central source, stream_new_blocks polls for *)
(* the pending block and downloads the classes it declares.  The JSON-RPC  *)
(* server reads the pending data and the pending classes, each under a     *)
(* lock of its own.                                                        *)
(*                                                                         *)
(* Blocks arrive in the storage by the transactions of StateSync, here one *)
(* step each; StateSync models how they are downloaded.                    *)
(***************************************************************************)
EXTENDS StateSync, RpcV0_6

CONSTANT CompiledClassHash  \* class hash -> compiled class hash

VARIABLES
  highest,          \* shared_highest_block: a block number, or None
  pending_data,     \* shared with the JSON-RPC server, behind a lock
  pending_classes,  \* likewise, behind another
  psync             \* the task: [on, latest, fetched, tasks, processed, compiled]

pendingVars == <<highest, pending_data, pending_classes, psync>>
unusedVars == <<scenario, proved, central_key, process, streams>>

(* fetched is the answer that is being written, None while get_pending_data
   waits for one; tasks are the classes still to come. *)
NoPendingSync ==
  [on |-> FALSE, latest |-> GenesisHash, fetched |-> None, tasks |-> {},
   processed |-> {}, compiled |-> {}]

(* PendingData::default(): an empty block on top of the hash 0. *)
DefaultPendingData ==
  [parent |-> GenesisHash, block_hash |-> None, txs |-> << >>, diff |-> EmptyDiff,
   old_root |-> GenesisHash, l1_da_mode |-> "Calldata"]

PendingInit ==
  /\ Init
  /\ highest = None /\ psync = NoPendingSync
  /\ pending_data = DefaultPendingData /\ pending_classes = NoPendingClasses

-----------------------------------------------------------------------------
(* The pending source: the block being built on top of the central chain, of
   which the first transactions are known and, with the last one, the state
   diff; or the latest block itself, if there is none. *)

PendingBlock(parent, content, length) ==
  [parent |-> parent, block_hash |-> None,
   txs |-> SubSeq(Content[content].body, 1, length),
   diff |-> IF length = Len(Content[content].body) THEN Content[content].diff ELSE EmptyDiff,
   old_root |-> StateRoot(parent), l1_da_mode |-> Content[content].l1_da_mode]

LatestBlock(hash) ==
  [parent |-> Front(hash), block_hash |-> hash, txs |-> ContentOf(hash).body,
   diff |-> ContentOf(hash).diff, old_root |-> StateRoot(Front(hash)),
   l1_da_mode |-> ContentOf(hash).l1_da_mode]

PendingAnswers ==
  UNION {{PendingBlock(central, c, k) : k \in 1 .. Len(Content[c].body)} :
           c \in {c \in scenario.contents : Extends(central, c)}}
    \cup (IF central = << >> THEN {} ELSE {LatestBlock(central)})

-----------------------------------------------------------------------------
(* stream_new_blocks *)

StoredTip == IF db.markers.Header = 0 THEN GenesisHash ELSE db.headers[db.markers.Header - 1].hash

(* One round of the loop.  The pending block is polled for if the node has the
   last block and its state. *)
stream_new_blocks_round ==
  /\ ~psync.on
  /\ highest' = IF central = << >> THEN None ELSE Len(central) - 1
  /\ psync' = IF /\ db.markers.Header = Len(central)
                 /\ db.markers.State = db.markers.Header
              THEN [NoPendingSync EXCEPT !.on = TRUE, !.latest = StoredTip]
              ELSE psync
  /\ UNCHANGED <<central, fork, interrupts, db, unusedVars, pending_data, pending_classes>>

(* Blocks are stored while the pending block is not polled for. *)
StoreBlock ==
  LET n == db.markers.Header IN
  /\ ~psync.on /\ Answer(n) # None
  /\ db' = BlockTxn(n, Answer(n), Answer(n)) /\ db'.error = None
  /\ UNCHANGED <<central, fork, interrupts, unusedVars, pendingVars>>

StoreStateDiff ==
  LET n == db.markers.State IN
  /\ n < db.markers.Header /\ Answer(n) = get_block_header(db, n).hash
  /\ db' = StateDiffTxn(n, sort_state_diff(ContentOf(Answer(n)).diff)) /\ db'.error = None
  /\ UNCHANGED <<central, fork, interrupts, unusedVars, pendingVars>>

StoreCompiledClass ==
  LET n == db.markers.CompiledClass
      missing == SelectSeq(db.state_diffs[n].declared_classes, LAMBDA c : c \notin DOMAIN db.casms)
  IN  /\ n < db.markers.State /\ missing # << >>
      /\ db' = append_casm(db, Head(missing), Head(missing)) /\ db'.error = None
      /\ UNCHANGED <<central, fork, interrupts, unusedVars, pendingVars>>

StoreBaseLayerBlock ==
  LET n == db.markers.BaseLayerBlock IN
  /\ n < db.markers.Header /\ Answer(n) = get_block_header(db, n).hash
  /\ db' = BaseLayerTxn(n, Answer(n)) /\ db'.error = None
  /\ UNCHANGED <<central, fork, interrupts, unusedVars, pendingVars>>

(* run drops every stream, the pending sync with them, before it reverts. *)
RevertBlock ==
  LET n == db.markers.Header - 1 IN
  /\ db.markers.Header > 0 /\ should_revert_block(n)
  /\ db' = RevertTxn(n) /\ db'.error = None
  /\ psync' = NoPendingSync
  /\ UNCHANGED <<central, fork, interrupts, unusedVars, highest, pending_data, pending_classes>>

-----------------------------------------------------------------------------
(* sync_pending_data *)

ParentOf(data) == Or(data.block_hash, data.parent)

(* get_pending_data up to the lock on the pending data: an answer on another
   block ends the pending sync, one that is not more advanced is ignored, and
   the first one on a new block clears the pending classes. *)
GetPendingData(new) ==
  LET parent == ParentOf(new)
      current == ParentOf(pending_data)
      advanced == current # parent \/ Len(new.txs) > Len(pending_data.txs)
  IN  /\ psync.on /\ psync.fetched = None
      /\ psync' = IF parent # psync.latest THEN NoPendingSync
                  ELSE [psync EXCEPT !.fetched = IF advanced THEN new ELSE None]
      /\ pending_classes' = IF parent = psync.latest /\ current # parent
                            THEN NoPendingClasses ELSE pending_classes

(* A class is requested once, and a compiled class once per compiled class
   hash, under the first class hash that has it. *)
ClassTasks(diff) ==
  LET classes_of == Range(diff.declared_classes)
      all == classes_of \cup diff.deprecated_declared_classes
      first(c) == \A i, j \in DOMAIN diff.declared_classes :
                    /\ diff.declared_classes[i] = c
                    /\ CompiledClassHash[diff.declared_classes[j]] = CompiledClassHash[c]
                    => i <= j
  IN  {<<"class", c>> : c \in all \ psync.processed}
        \cup {<<"compiled", c>> : c \in {c \in classes_of :
                CompiledClassHash[c] \notin psync.compiled /\ first(c)}}

(* Mutant: one set for the class hashes of both requests, so that the second
   insertion of a class always fails. *)
WritePendingDataMutant ==
  LET diff == psync.fetched.diff IN
  /\ psync.on /\ psync.fetched # None
  /\ pending_data' = psync.fetched
  /\ psync' = [psync EXCEPT !.fetched = None,
                 !.tasks = @ \cup {task \in ClassTasks(diff) : task[1] = "class"},
                 !.processed = @ \cup Range(diff.declared_classes)
                                 \cup diff.deprecated_declared_classes]
  /\ UNCHANGED <<highest, pending_classes>>

(* The pending data is written, and the loop asks for its classes. *)
WritePendingData ==
  LET diff == psync.fetched.diff IN
  /\ psync.on /\ psync.fetched # None
  /\ pending_data' = psync.fetched
  /\ psync' = [psync EXCEPT !.fetched = None,
                 !.tasks = @ \cup ClassTasks(diff),
                 !.processed = @ \cup Range(diff.declared_classes)
                                 \cup diff.deprecated_declared_classes,
                 !.compiled = @ \cup {CompiledClassHash[c] : c \in Range(diff.declared_classes)}]
  /\ UNCHANGED <<highest, pending_classes>>

(* get_pending_class, get_pending_compiled_class *)
DownloadClass(task) ==
  /\ psync.on /\ task \in psync.tasks
  /\ psync' = [psync EXCEPT !.tasks = @ \ {task}]
  /\ pending_classes' = IF task[1] = "class"
                        THEN [pending_classes EXCEPT !.classes = @ \cup {task[2]}]
                        ELSE [pending_classes EXCEPT !.compiled_classes = @ \cup {task[2]}]
  /\ UNCHANGED <<highest, pending_data>>

(* An error of any stream, or of a download, drops the tasks: run starts over. *)
SyncFails ==
  /\ psync' = NoPendingSync
  /\ UNCHANGED <<highest, pending_data, pending_classes>>
=============================================================================
