----------------------------- MODULE StateSync ------------------------------
(***************************************************************************)
(* papyrus_sync: GenericStateSync::run downloads blocks, state diffs and   *)
(* compiled classes from the central source, compares headers with the     *)
(* base layer, and keeps the storage equal to the central chain while that *)
(* chain grows and reverts.                                                *)
(*                                                                         *)
(* One task polls every stream, so reading a marker and storing an event   *)
(* are atomic; the requests a stream has in flight are answered one by     *)
(* one, in any order, by the chain the central source has at that moment.  *)
(* Every error leads back to run, which drops the streams.                 *)
(*                                                                         *)
(* A block is a pair <<content, fork>>: forks are numbered in the order    *)
(* the central source takes them, so a chain it left does not come back.   *)
(* The hash of a block is the chain that ends in it.                       *)
(***************************************************************************)
EXTENDS Chain

CONSTANTS
  DeprecatedClasses,  \* the class hashes whose class is a Cairo 0 class
  Scenarios           \* the configurations and bounds, one of them per behaviour:
                      \*   contents             what its blocks can hold
                      \*   concurrent_requests  requests of one kind in flight
                      \*   max_stream_size      of the block and state diff streams
                      \*   verify_blocks        whether the sequencer's key is watched
                      \*   scope                the storage scope
                      \*   length               bound: blocks in the central chain
                      \*   forks                bound: reverts of the central chain
                      \*   proofs               bound: updates of the base layer
                      \*   key_changes          bound: new public keys of the sequencer
                      \*   interrupts           bound: source errors and crashes

ASSUME ScenariosAssumption ==
  \A s \in Scenarios :
    /\ s.contents \subseteq DOMAIN Content
    /\ {s.concurrent_requests, s.max_stream_size} \subseteq Nat \ {0}
    /\ s.verify_blocks \in BOOLEAN /\ s.scope \in StorageScopes
    /\ {s.length, s.forks, s.proofs, s.key_changes, s.interrupts} \subseteq Nat

VARIABLES
  scenario,    \* the scenario of this behaviour
  central,     \* the chain of the central source, genesis first
  fork,        \* how many times it was reverted
  proved,      \* the hashes the base layer has proved, in the order it did
  db,          \* the committed storage
  central_key, \* the public key of the sequencer, as the central source tells it
  pc,          \* "track": in track_sequencer_public_key_changes; "revert": in
               \* handle_block_reverts; "sync": in the select loop; "key_changed":
               \* run returned SequencerPubKeyChanged; "failed": it returned another
               \* error or the task panicked
  sequencer_pub_key,  \* the key this process knows, or None
  last,        \* header marker that handle_block_reverts has reached
  blocks,      \* the block stream
  diffs,       \* the state diff stream
  classes,     \* the compiled class stream: class hashes still to come
  unmoved,     \* the markers that check_sync_progress has not seen move
  interrupts   \* errors and crashes so far

environment == <<scenario, central, fork, proved, central_key, interrupts>>
process == <<pc, sequencer_pub_key, last>>
streams == <<blocks, diffs, classes, unmoved>>
vars == <<environment, db, process, streams>>

(* The markers that check_sync_progress compares. *)
WatchedMarkers == {"Header", "State", "CompiledClass"}

(* A stream over [next, up_to) with the answers it has got so far.  A block
   and its signature are requested separately (try_join). *)
IdleStream == [next |-> 0, up_to |-> 0, answers |-> EmptyTable, signatures |-> EmptyTable]

(* sync_while_ok looks at the sequencer's key first, if blocks are verified. *)
FirstStage == IF scenario.verify_blocks THEN "track" ELSE "revert"

Init ==
  /\ scenario \in Scenarios
  /\ central = << >> /\ fork = 0 /\ proved = << >> /\ central_key = 0
  /\ db = [EmptyStorage EXCEPT !.scope = scenario.scope]
  /\ pc = FirstStage /\ sequencer_pub_key = None /\ last = 0
  /\ blocks = IdleStream /\ diffs = IdleStream /\ classes = << >> /\ unmoved = WatchedMarkers
  /\ interrupts = 0

-----------------------------------------------------------------------------
(* The central source and the base layer *)

CentralGrows ==
  /\ Len(central) < scenario.length
  /\ \E c \in scenario.contents :
       /\ Extends(central, c)
       /\ central' = Append(central, <<c, fork>>)
  /\ UNCHANGED <<scenario, fork, proved, central_key, interrupts, db, process, streams>>

CentralReverts ==
  /\ fork < scenario.forks
  /\ \E length \in 0 .. Len(central) - 1 : central' = SubSeq(central, 1, length)
  /\ fork' = fork + 1
  /\ UNCHANGED <<scenario, proved, central_key, interrupts, db, process, streams>>

(* The base layer may also go back, when it is itself reverted. *)
BaseLayerProves ==
  /\ Len(proved) < scenario.proofs
  /\ \E n \in 0 .. Len(central) - 1 : proved' = Append(proved, BlockHash(central, n))
  /\ UNCHANGED <<scenario, central, fork, central_key, interrupts, db, process, streams>>

SequencerChangesKey ==
  /\ central_key < scenario.key_changes
  /\ central_key' = central_key + 1
  /\ UNCHANGED <<scenario, central, fork, proved, interrupts, db, process, streams>>

Answer(n) == IF n < Len(central) THEN BlockHash(central, n) ELSE None

-----------------------------------------------------------------------------
(* run and sync_while_ok *)

StartOver ==
  /\ pc' = FirstStage /\ last' = db.markers.Header
  /\ blocks' = IdleStream /\ diffs' = IdleStream /\ classes' = << >> /\ unmoved' = WatchedMarkers
  /\ UNCHANGED db

Restart == StartOver /\ UNCHANGED <<environment, sequencer_pub_key>>

Stop ==
  /\ pc' = "failed"
  /\ UNCHANGED <<environment, db, sequencer_pub_key, last, streams>>

(* Mutant: no storage error is recoverable. *)
is_recoverableMutant(error) ==
  error \in {"NoProgress", "CentralSourceError", "ParentBlockHashMismatch"}

(* Every other error, and a panic, ends the task. *)
is_recoverable(error) ==
  error \in {"InnerError", "NoProgress", "CentralSourceError", "ParentBlockHashMismatch",
             "BaseLayerHashMismatch", "BaseLayerBlockWithoutMatchingHeader"}

(* A transaction that is committed, or whose error is returned to run. *)
Commit(txn, stream_step) ==
  \/ /\ txn.error = None /\ db' = txn /\ stream_step
     /\ unmoved' = {m \in unmoved : txn.markers[m] = db.markers[m]}
     /\ UNCHANGED <<environment, process>>
  \/ txn.error # None /\ is_recoverable(txn.error) /\ Restart
  \/ txn.error # None /\ ~is_recoverable(txn.error) /\ Stop

(* Mutant: a block the central source does not have is kept. *)
should_revert_blockMutant(n) ==
  /\ Answer(n) # None
  /\ get_block_header(db, n) # None /\ get_block_header(db, n).hash # Answer(n)

should_revert_block(n) ==
  \/ Answer(n) = None
  \/ get_block_header(db, n) # None /\ get_block_header(db, n).hash # Answer(n)

RevertTxn(n) ==
  LET base == try_revert_base_layer_marker(db, n)
  IN  IF base.markers.Header = n + 1
      THEN revert_state_diff(revert_body(revert_header(base, n), n), n)
      ELSE base

revert_block ==
  /\ pc = "revert" /\ last > 0 /\ should_revert_block(last - 1)
  /\ LET txn == RevertTxn(last - 1) IN
       \/ txn.error = None /\ db' = txn /\ last' = last - 1
          /\ UNCHANGED <<environment, pc, sequencer_pub_key, streams>>
       \/ txn.error # None /\ Stop

(* The first key a process hears of is taken; another one ends the task, since
   SequencerPubKeyChanged is not recoverable. *)
track_sequencer_public_key_changes ==
  /\ pc = "track"
  /\ sequencer_pub_key' = central_key
  /\ pc' = IF sequencer_pub_key \in {None, central_key} THEN "revert" ELSE "key_changed"
  /\ UNCHANGED <<environment, db, last, streams>>

(* handle_block_reverts is done; the streams are created. *)
sync_while_ok ==
  /\ pc = "revert"
  /\ last = 0 \/ ~should_revert_block(last - 1)
  /\ pc' = "sync"
  /\ UNCHANGED <<environment, db, sequencer_pub_key, last, streams>>

Ended == {"failed", "key_changed"}

(* A recoverable error of a source, or a crash and restart of the process: both
   leave what was committed, and an error also the key that is known. *)
Interrupt ==
  /\ interrupts < scenario.interrupts /\ pc \notin Ended
  /\ interrupts' = interrupts + 1
  /\ StartOver
  /\ sequencer_pub_key' \in {None, sequencer_pub_key}
  /\ UNCHANGED <<scenario, central, fork, proved, central_key>>

-----------------------------------------------------------------------------
(* Streams *)

Idle(stream) == stream.next = stream.up_to
Opened(from, up_to) == [IdleStream EXCEPT !.next = from, !.up_to = up_to]
Window(stream) == stream.next .. Min({stream.up_to, stream.next + scenario.concurrent_requests}) - 1
Advanced(stream) ==
  [stream EXCEPT !.next = @ + 1,
                 !.answers = Restrict(@, DOMAIN @ \ {stream.next}),
                 !.signatures = Restrict(@, DOMAIN @ \ {stream.next})]

stream_new_blocks ==
  LET header_marker == db.markers.Header IN
  /\ pc = "sync" /\ Idle(blocks)
  /\ header_marker < Len(central)
  /\ blocks' = Opened(header_marker, Min({Len(central), header_marker + scenario.max_stream_size}))
  /\ UNCHANGED <<environment, db, process, diffs, classes, unmoved>>

GetBlock ==
  /\ pc = "sync"
  /\ \E n \in Window(blocks) \ DOMAIN blocks.answers :
       blocks' = [blocks EXCEPT !.answers = n :> Answer(n) @@ @]
  /\ UNCHANGED <<environment, db, process, diffs, classes, unmoved>>

GetSignature ==
  /\ pc = "sync"
  /\ \E n \in Window(blocks) \ DOMAIN blocks.signatures :
       blocks' = [blocks EXCEPT !.signatures = n :> Answer(n) @@ @]
  /\ UNCHANGED <<environment, db, process, diffs, classes, unmoved>>

(* Require(s, ...) in the order of the early returns. *)
verify_parent_block_hash(s, n, block) ==
  IF n = 0 THEN s
  ELSE IF get_block_header(s, n - 1) = None THEN Fail(s, "DBInconsistency")
  ELSE Require(s, get_block_header(s, n - 1).hash = block.parent, "ParentBlockHashMismatch")

BlockTxn(n, hash, signature) ==
  LET verified == verify_parent_block_hash(db, n, BlockOf(hash))
      signed == append_block_signature(append_header(verified, n, BlockOf(hash)), n, signature)
  IN  append_body(signed, n, ContentOf(hash).body)

store_block ==
  LET n == blocks.next
      failed == None \in {blocks.answers[n], blocks.signatures[n]}
  IN  /\ pc = "sync" /\ n \in DOMAIN blocks.answers \cap DOMAIN blocks.signatures
      /\ Commit(IF failed THEN Fail(db, "CentralSourceError")
                ELSE BlockTxn(n, blocks.answers[n], blocks.signatures[n]),
                blocks' = Advanced(blocks) /\ UNCHANGED <<diffs, classes>>)

stream_new_state_diffs ==
  LET state_marker == db.markers.State IN
  /\ pc = "sync" /\ Idle(diffs)
  /\ state_marker # db.markers.Header
  /\ diffs' = Opened(state_marker,
                     Min({db.markers.Header, state_marker + scenario.max_stream_size}))
  /\ UNCHANGED <<environment, db, process, blocks, classes, unmoved>>

GetStateUpdate ==
  /\ pc = "sync"
  /\ \E n \in Window(diffs) \ DOMAIN diffs.answers :
       diffs' = [diffs EXCEPT !.answers = n :> Answer(n) @@ @]
  /\ UNCHANGED <<environment, db, process, blocks, classes, unmoved>>

sort_state_diff(diff) ==
  [diff EXCEPT !.declared_classes = SetToSortSeq(Range(@), <)]

(* The class of a class hash; classes are named by their hashes. *)
ClassesOf(class_hashes) == [c \in class_hashes |-> c]

(* Deployed contracts bring in the Cairo 0 classes their block does not
   declare. *)
deployed_contract_class_definitions(diff) ==
  (Range(diff.deployed_contracts) \cap DeprecatedClasses) \ diff.deprecated_declared_classes

StateDiffTxn(n, diff) ==
  append_classes(append_state_diff(db, n, diff), n,
                 ClassesOf(Range(diff.declared_classes)),
                 ClassesOf(diff.deprecated_declared_classes
                             \cup deployed_contract_class_definitions(diff)))

(* Mutant: answers are taken as they arrive (buffer_unordered). *)
store_state_diffMutant ==
  \E i \in DOMAIN diffs.answers :
    /\ pc = "sync"
    /\ Commit(IF diffs.answers[i] = None THEN Fail(db, "CentralSourceError")
              ELSE StateDiffTxn(diffs.next, sort_state_diff(ContentOf(diffs.answers[i]).diff)),
              diffs' = Advanced(diffs) /\ UNCHANGED <<blocks, classes>>)

store_state_diff ==
  LET n == diffs.next IN
  /\ pc = "sync" /\ n \in DOMAIN diffs.answers
  /\ Commit(IF diffs.answers[n] = None THEN Fail(db, "CentralSourceError")
            ELSE StateDiffTxn(n, sort_state_diff(ContentOf(diffs.answers[n]).diff)),
            diffs' = Advanced(diffs) /\ UNCHANGED <<blocks, classes>>)

(* The class hashes of the blocks [from, up_to), in their order, read from one
   snapshot; the stream starts at the first block that declares classes. *)
DeclaredIn(from, up_to) ==
  FlattenSeq([i \in 1 .. up_to - from |-> db.state_diffs[from + i - 1].declared_classes])

stream_new_compiled_classes ==
  LET state_marker == db.markers.State
      declaring == {n \in db.markers.CompiledClass .. state_marker - 1 :
                      db.state_diffs[n].declared_classes # << >>}
      from == Min(declaring)
  IN  /\ pc = "sync" /\ classes = << >>
      /\ declaring # {}
      /\ classes' = DeclaredIn(from, Min({state_marker, from + scenario.max_stream_size}))
      /\ UNCHANGED <<environment, db, process, blocks, diffs, unmoved>>

(* A class of a block the central source no longer has may be missing there.
   A casm that is already stored is not an error. *)
store_compiled_class ==
  LET txn == append_casm(db, Head(classes), Head(classes))
      done == classes' = Tail(classes) /\ UNCHANGED <<blocks, diffs>>
  IN  /\ pc = "sync" /\ classes # << >>
      /\ \/ Commit(IF txn.error = "InnerError" THEN db ELSE txn, done)
         \/ Head(classes) \notin Classes(central) /\ Restart

(* Mutant: the hashes are not compared. *)
BaseLayerTxnMutant(n, hash) ==
  IF get_block_header(db, n) = None THEN Fail(db, "BaseLayerBlockWithoutMatchingHeader")
  ELSE update_base_layer_block_marker(db, n + 1)

BaseLayerTxn(n, hash) ==
  LET header == get_block_header(db, n) IN
  IF header = None THEN Fail(db, "BaseLayerBlockWithoutMatchingHeader")
  ELSE IF header.hash # hash THEN Fail(db, "BaseLayerHashMismatch")
  ELSE update_base_layer_block_marker(db, n + 1)

(* stream_new_base_layer_block yields the block only if its header is stored. *)
store_base_layer_block ==
  /\ pc = "sync" /\ proved # << >>
  /\ db.markers.Header >= Len(Last(proved))
  /\ Commit(BaseLayerTxn(Len(Last(proved)) - 1, Last(proved)),
            UNCHANGED <<blocks, diffs, classes>>)

(* No stream has anything left to do. *)
StreamsQuiet ==
  /\ Idle(blocks) /\ db.markers.Header >= Len(central)
  /\ Idle(diffs) /\ db.markers.State = db.markers.Header
  /\ classes = << >> /\ db.markers.CompiledClass = db.markers.State

(* Timing assumption: five minutes are enough for a stream that has something
   to do to move one of the markers. *)
SyncProgressTimer == unmoved # WatchedMarkers \/ StreamsQuiet

(* Every five minutes: unless all of the three markers have moved, the task
   starts over, whatever its streams are doing. *)
check_sync_progress ==
  /\ pc = "sync" /\ SyncProgressTimer
  /\ \/ unmoved # {} /\ Restart
     \/ /\ unmoved = {} /\ unmoved' = WatchedMarkers
        /\ UNCHANGED <<environment, db, process, blocks, diffs, classes>>

-----------------------------------------------------------------------------
Sync ==
  \/ track_sequencer_public_key_changes \/ sync_while_ok \/ check_sync_progress
  \/ stream_new_blocks \/ GetBlock \/ GetSignature
  \/ stream_new_state_diffs \/ GetStateUpdate
  \/ stream_new_compiled_classes
  \/ revert_block \/ store_block \/ store_state_diff \/ store_compiled_class
  \/ store_base_layer_block

Next ==
  \/ CentralGrows \/ CentralReverts \/ BaseLayerProves \/ SequencerChangesKey \/ Interrupt
  \/ Sync

Spec == Init /\ [][Next]_vars

(* Weak fairness of Sync: the runtime keeps polling the task, requests are
   answered and timers fire; which stream makes the step is left open.  Sync is
   enabled until the task has ended (a quiet task restarts), and its steps are
   those that leave the environment alone. *)
SyncFairness == []<><<UNCHANGED environment>>_vars \/ <>[](pc \in Ended)
FairSpec == Spec /\ SyncFairness

-----------------------------------------------------------------------------
(* What the storage holds, and when each marker may be trusted. *)

(* The task never meets an error it does not recover from and never panics:
   no interleaving of downloads, reverts of the central chain, errors, restarts
   and crashes brings the markers and tables out of step (store_block,
   store_state_diff, revert_block).  What does end it is a sequencer whose public
   key is no longer the one this process started with
   (track_sequencer_public_key_changes), and nothing else. *)
NeverFails ==
  /\ pc # "failed"
  /\ pc = "key_changed" => scenario.verify_blocks /\ central_key > 0

(* The stored headers are a chain: verify_parent_block_hash rejects a block
   of another fork. *)
HeadersLinked ==
  /\ DOMAIN db.headers = 0 .. db.markers.Header - 1
  /\ \A n \in DOMAIN db.headers :
       db.headers[n].parent = IF n = 0 THEN << >> ELSE db.headers[n - 1].hash

StoredHash(n) == db.headers[n].hash
StoredBlocks == DOMAIN db.headers
StoredBody(n) == IF db.scope = "StateOnly" THEN << >> ELSE ContentOf(StoredHash(n)).body

(* Everything indexed by a stored block is that block's, and nothing of a
   reverted block is left: hash index, starknet version (stored only where it
   changes), transactions, transaction index and events, none of these three in
   state-only scope. *)
BlocksAsDownloaded ==
  /\ DOMAIN db.block_hash_to_number = {StoredHash(n) : n \in StoredBlocks}
  /\ \A n \in StoredBlocks :
       LET content == ContentOf(StoredHash(n)) IN
       /\ db.block_hash_to_number[StoredHash(n)] = n
       /\ get_starknet_version(db, n) = content.version
       /\ get_block_transactions(db, n) = StoredBody(n)
  /\ DOMAIN db.block_signatures = StoredBlocks
  /\ DOMAIN db.events = UNION {EventKeys(n, StoredBody(n)) : n \in StoredBlocks}
  /\ db.transaction_hash_to_idx = [h \in {tx.hash : tx \in Range(db.transaction_metadata)} |->
       CHOOSE i \in DOMAIN db.transaction_metadata : db.transaction_metadata[i].hash = h]

(* The headers are a chain, and a state diff stored under a header that is on
   the central chain is the state diff of that block.  A state diff is not
   compared with the header it is stored under (store_state_diff has it as a
   TODO), but it is requested only after that header was stored, and every
   stream is dropped before blocks are reverted. *)
StateDiffsOfChain ==
  /\ HeadersLinked
  /\ \A n \in DOMAIN db.state_diffs :
       n \in StoredBlocks /\ StoredHash(n) = Answer(n) =>
         db.state_diffs[n] = sort_state_diff(ContentOf(StoredHash(n)).diff)

(* The signature stored with a block of the central chain is the signature of
   that block, as get_block_signature documents.  CentralSource requests the
   block and the signature separately. *)
SignaturesOfBlocks ==
  \A n \in StoredBlocks : StoredHash(n) = Answer(n) => db.block_signatures[n] = StoredHash(n)

(* The value a history of state diffs gives to address: the last block before
   state_number that sets it. *)
Replay(state_number, setters, value(_), default) ==
  LET before == {n \in setters : n < state_number}
  IN  IF before = {} THEN default ELSE value(Max(before))

Diffs == db.state_diffs
Addresses == UNION {DOMAIN Content[c].diff.deployed_contracts : c \in DOMAIN Content}
ClassHashes == UNION {Range(Content[c].diff.declared_classes) : c \in DOMAIN Content}
StateNumbers == 0 .. db.markers.State

(* The reads of StateReader at every state number give what replaying the
   stored state diffs gives: neither the default nonce of old blocks nor a
   reverted block leaves a wrong entry. *)
StateReadsMatchDiffs ==
  \A state_number \in StateNumbers, a \in Addresses :
    LET deployed(n) == a \in DOMAIN Diffs[n].deployed_contracts
        replaced(n) == a \in DOMAIN Diffs[n].replaced_classes
        has_nonce(n) == a \in DOMAIN Diffs[n].nonces
        class(n) == IF replaced(n) THEN Diffs[n].replaced_classes[a]
                                   ELSE Diffs[n].deployed_contracts[a]
        nonce(n) == IF has_nonce(n) THEN Diffs[n].nonces[a] ELSE DefaultNonce
        cell(n) == Diffs[n].storage_diffs[a]
    IN  /\ get_class_hash_at(db, state_number, a) =
             Replay(state_number, {n \in DOMAIN Diffs : deployed(n) \/ replaced(n)}, class, None)
        /\ get_nonce_at(db, state_number, a) =
             Replay(state_number, {n \in DOMAIN Diffs : deployed(n) \/ has_nonce(n)}, nonce, None)
        /\ get_storage_at(db, state_number, a) =
             Replay(state_number, {n \in DOMAIN Diffs : a \in DOMAIN Diffs[n].storage_diffs},
                    cell, DefaultFelt)

DeclaredBefore(n) == UNION {Range(Diffs[k].declared_classes) : k \in {k \in DOMAIN Diffs : k < n}}
DeprecatedBefore(n) ==
  UNION {Diffs[k].deprecated_declared_classes \cup deployed_contract_class_definitions(Diffs[k]) :
           k \in {k \in DOMAIN Diffs : k < n}}

(* A class can be read exactly at the states after the block that declared
   it, and no read finds the inconsistency get_class_definition_at looks for. *)
ClassReadsMatchDiffs ==
  \A state_number \in StateNumbers :
    /\ \A c \in ClassHashes :
         get_class_definition_at(db, state_number, c) =
           IF c \in DeclaredBefore(state_number) THEN c ELSE None
    /\ \A c \in DeprecatedClasses :
         get_deprecated_class_definition_at(db, state_number, c) =
           IF c \in DeprecatedBefore(state_number) THEN c ELSE None

(* The compiled class marker separates the blocks whose casms are all stored
   from those that miss at least their last one; a revert removes the casms of
   its block. *)
CasmsMatchMarker ==
  LET marker == db.markers.CompiledClass
      missing == DeclaredBefore(db.markers.State) \ DOMAIN db.casms
  IN  /\ DOMAIN db.casms \subseteq DeclaredBefore(marker + 1)
      /\ DeclaredBefore(marker) \cap missing = {}
      /\ marker < db.markers.State =>
           /\ Diffs[marker].declared_classes # << >>
           /\ Last(Diffs[marker].declared_classes) \in missing

(* What is read of the state and the classes, at every state number, is what
   the stored state diffs say: append_state_diff, append_casm and
   revert_state_diff write and undo the same entries of eight tables. *)
ReadsMatchDiffs == StateReadsMatchDiffs /\ ClassReadsMatchDiffs /\ CasmsMatchMarker

(* The blocks below the base layer marker were proved on the base layer: a
   revert moves the marker back. *)
BaseLayerVerified ==
  LET marker == db.markers.BaseLayerBlock IN
  marker > 0 =>
    /\ marker - 1 \in StoredBlocks
    /\ \E i \in DOMAIN proved : IsPrefix(StoredHash(marker - 1), proved[i])

Synced ==
  /\ db.markers.Header = Len(central) /\ db.markers.State = Len(central)
  /\ db.markers.CompiledClass = Len(central)
  /\ \A n \in StoredBlocks : StoredHash(n) = Answer(n)

(* Once the central chain stays as it is, the storage reaches it and stays
   there, from whatever it held before: blocks of abandoned forks, also ones
   that are as long or longer, are reverted.  A base layer is left out: while it
   proves a block of another fork than the stored one, the mismatch restarts the
   task, and only the timers decide what the other streams do in between.  Nor
   does a sync converge that a new key of the sequencer has ended. *)
Converges == scenario.proofs = 0 => <>[]Synced \/ <>[](pc = "key_changed")
=============================================================================
