# Papyrus in TLA+

TLA+ models of papyrus, a Starknet full node, with TLC runs on small instances
and TLAPS proofs. Paths below are relative to `src/crates/`. `PROJECT.json` maps
every definition to the lines it models and lists runs, mutants, hazards,
findings and theorems.

## The system

A papyrus node keeps a copy of the Starknet chain. It gets it either from the
central feeder gateway or from other nodes, stores it, and serves it.

| Part | State | Operations | Hard about it |
|---|---|---|---|
| `papyrus_storage` files | one mapped file per kind of large object, committed and running offsets | append, grow, flush, get, reopen | crash between flush and commit, readers without locks |
| `papyrus_storage` versions and database tables | two versions in one table; entries sorted by bytes | open with another release or scope; upsert, insert, append, delete, cursors | several transactions per open; two entries of one key |
| `papyrus_storage` contents | headers, bodies, state diffs, nonces, classes, casms, 7 markers | append and revert of each, state reads | a revert has to undo conditional writes, markers keep an order |
| `papyrus_sync` | storage, three download streams, central chain, base layer | revert blocks, open a stream, store an event, recover from an error | the central chain reverts between any two downloads |
| `papyrus_sync` pending | pending block and classes behind locks | poll the pending block, download its classes | downloads for a block that is no longer pending |
| `papyrus_p2p_sync` | storage, two query streams; peers at different heights | query, answer, parse, write, restart | partial answers, sessions that end early, two streams that depend on each other |
| `papyrus_consensus` | state machine, proposals and votes of a height, cached messages | start, proposal, prevote, precommit, decision | any order and number of deliveries, faulty validators |
| `papyrus_network` | sessions, peers, buffers, dials | query and response sessions, peer assignment, discovery | callbacks, drops and timeouts, wake-ups |
| `papyrus_rpc`, `papyrus_execution` | none of their own | reads of one snapshot; executions with a transaction per read | pages of events, pending data, blocks replaced during an execution |
| `starknet_client`, `papyrus_base_layer` | none | HTTP requests with retries | which errors are retried |
| `papyrus_protobuf`, `papyrus_common` | none | conversions of messages, hashes of transactions and blocks | fields lost or run together, hashes of the past |
| `papyrus_config`, `papyrus_node`, monitoring, load test, macros, test utilities | configuration | wiring | mostly data |

The sync tasks are the only writers of the storage. All tasks run in one
process, which ends when one of them does (`papyrus_node/src/main.rs`).

Correctness means: what was committed survives; what is read at a block is what
the blocks up to it say; the storage ends up equal to the chain; markers tell
the truth; validators that follow the protocol never decide differently and do
decide; every query ends, and is answered in order; every answer of a server is
about one state of one chain; and no task dies on data that is legitimate.

## Modules

| Module | Models |
|---|---|
| `MmapFile`, `MmapFileProofs` | `papyrus_storage/src/mmap_file`, and `commit` and the opening of files in `lib.rs`; proofs |
| `StorageVersion`, `StorageVersionProofs` | `open_storage`'s versions: `version.rs`, `set_version_if_needed`, `verify_storage_version`; proofs |
| `SimpleTable` | what a table and its cursor promise (`db/table_types`), and `simple_table.rs` |
| `DupSortTable`, `DupSortTableProofs` | `dup_sort_tables.rs`, as an implementation of `SimpleTable`; proofs |
| `Storage`, `StorageEvents` | the tables, markers, writers, reverts and readers of `papyrus_storage`, as operators on a record; event iterators |
| `Chain` | chains of blocks as a node receives them |
| `StateSync` | `papyrus_sync/src/lib.rs` and `sources/central.rs`, over `Storage` |
| `StateUpdateStream`, `OrderedStream` | `sources/central/state_update_stream.rs`, and what the sync takes it for |
| `PendingSync` | `papyrus_sync/src/pending_sync.rs`, beside `StateSync`'s transactions |
| `P2PSync` | `papyrus_p2p_sync`, client and server, over `Storage` |
| `ConsensusVoters`, `ConsensusStateMachine` | the validators; `papyrus_consensus/src/state_machine.rs`, as functions on a record |
| `Consensus` | `single_height_consensus.rs`, `lib.rs` and the context, composed over a network |
| `ConsensusVoting`, `ConsensusVotingProofs` | what `Consensus` promises: votes and decisions only; proof of agreement |
| `PeerManager`, `Sqmr` | `papyrus_network/src/peer_manager` and `sqmr` (behaviour, handler, inbound session), as operators on records |
| `Network` | `network_manager`, composed with both in a swarm |
| `Discovery` | `papyrus_network/src/discovery` |
| `GatewayClient` | `starknet_client` and the write methods of JSON-RPC that use it |
| `TransactionConverters`, `Converters` | `papyrus_protobuf/src/converters`: values to messages and back |
| `Hashes` | `papyrus_common`'s `transaction_hash.rs` and `block_hash.rs` |
| `Execution` | `papyrus_execution`: the state an execution reads, its block context and outcome |
| `RpcApi`, `RpcV0_6` | the methods of `papyrus_rpc`, versions 0.7 and 0.6 |
| `RpcServer`, `RpcProperties` | the server beside sync and pending sync, and what it promises |
| `MC*` | instances for TLC |

**MmapFile.** A file is a function from offsets to bytes, once as the mapping
shows it (`mem`) and once as it survives a power failure (`disk`). An object is
a run of equal bytes, so a read finds out whether any of its bytes are missing
or overwritten. The writer's steps are begin, append, delete, growth of the
file, one step per flush of a file, and the commit of the database, which is
atomic because libmdbx is. A crash keeps the committed database, the flushed
bytes, and any subset of the others.

**StorageVersion.** One action per transaction of `open_storage`; between any two
the process can be killed and start again as another release with another scope.

**SimpleTable, DupSortTable.** A simple table is a map with a cursor. The
common-prefix table is the set of entries libmdbx sorts, and its operations are
the steps of the code: write, look at a neighbour, repair. Main keys are byte
strings, because `lower_bound` steps to the next one with `add_one`. The
refinement mapping forgets the order of entries under a key and the cursor's place.

**Storage.** A storage is a record of tables; a table is a function on the
stored keys. Every operation maps a storage to a storage and records the first
error in the field `error`; a transaction with an error is dropped. Large
objects are in place here; their files are `MmapFile`'s. The field `scope` is the
storage's scope: in `StateOnly`, bodies move their marker and leave no transaction or event.

**StateSync.** One task polls all streams, so storing one event is one step;
the requests of a stream are answered one at a time, in any order, from the
chain as it is at that moment. The hash of a block is the chain that ends in
it, so blocks of different forks differ, and a block determines its parents.
`Interrupt` stands for errors of a source and for crashes: both leave what was
committed, a crash forgets the sequencer's key. When blocks are verified,
`sync_while_ok` first compares the key with the one it knows; another key ends
the task (`"key_changed"`), as the code means it to. `check_sync_progress` starts
the task over unless all three markers have moved since the last look, also while
streams are at work; that a stream with something to do moves a marker within its
five minutes is an assumption, `SyncProgressTimer`. A compiled class of a block
that the central source has reverted may be missing.

**StateUpdateStream.** `poll_next` is one step; downloads end in any order, and
each queue yields its results in the order of its tasks, as `FuturesOrdered`
does. Classes may be missing. `ActsAsOrderedStream` maps it to `OrderedStream`:
the number of items given and the end.

**PendingSync, RpcApi, RpcServer.** Blocks arrive by `StateSync`'s transactions,
one step each. `psync` is the task of `sync_pending_data` with its class downloads.
A method that answers from one transaction is an operator of a snapshot, of the
pending data at the moment of the lock, and of its arguments; the properties ask
every request of every such pair. A method that executes is a process: it resolves its
block, drops its transaction, reads with a transaction per read, and validates. The
blockifier is external: it may read anything the scenario has and succeed or fail.

**P2PSync.** A query is answered from one read transaction of some peer. The
answer may be cut off at any message, which stands for sessions that fail or
time out. Reading a block from the answer and writing it is one step, because
`run` writes what a stream yields before it polls again. Peers follow one chain,
chosen at the start and learned block by block, that does not revert, because
the client does not handle reverts (a TODO in `client/header.rs`). With
`stop_sync_at_block_number` both streams end there and `run` panics.

**Consensus.** A validator is the state of `run_height`; `sent` has every
message that was broadcast and `received` what a validator has taken from the
network, in any order and possibly twice. Faulty validators send anything under
their own name: that a message comes from the validator it names is an assumption,
the code verifies nothing. `handle_event` of the
state machine runs its queue of own events to the end, as the code does.
A validator that is done with its last height is reduced to a mark, so that
its leftover state does not multiply the states of the others.
`Voting(h)` maps a height to `ConsensusVoting`: the votes that were sent, the
precommits, and the decisions.

**PeerManager, Sqmr, Network.** The operations of the two behaviours and of a
connection's handler are operators on their states; `Network` is the swarm (external)
and the network manager that call them. The swarm drains the behaviours' events before it takes an
event of a connection; what a closed connection still holds is lost. Blocking
periods end in the order in which they were set. Inbound sessions come for
protocols with and without a registered server; dials fail in the transport or,
if discovery made them, because the swarm refused them.

**Discovery.** The connections and dials to the bootstrap peer, also those others
make, and the behaviour's `poll`, which the swarm calls after every event.

**GatewayClient.** Calls meet one gateway that may lose requests and answers and
go on in between; the tables of errors decide what is retried and what a
client of JSON-RPC is told.

**Converters.** `X_from` and `X_try_from` are the code's conversions on records,
with optional fields as sequences of at most one value and scaled widths (a u32
holds 0..1, a u64 0..3, ...). A value is sent, received and sent on; on the first
way one field may be left out, too large, no reduced felt, of another length or (a
storage key) given twice. A conversion can also panic. `AsReceived`,
`ReceivedWithout` and the other `Received...` say what must come out and name
everything that the conversions lose.

**Hashes.** Hash functions are ideal: a hash is the function's name and what it
is applied to. Something is sealed with one of the hashes of its time, and it or
something else is then validated against the seal. `Bound`, `HeadersBound` and
`BodiesBound` say what each version binds, and so also what it does not. Blocks lie
before, at and after the number from which mainnet has one hash only.

## What the runs show

Bounds are constants of the configurations or scenario records of the MC
modules; each is the smallest that lets the case in question happen. A
run whose components do not interact chooses one of them per behaviour (`part`).

| Run | Instance | Shows |
|---|---|---|
| `storage` | 1 file of 4 bytes, objects of 1–2, 2 keys, 1 reader; 4 releases, 2 scopes; 2 main keys, 2 sub keys, 2 values | durability, snapshots, no overlap; only matching code opens a storage, and what was state-only never becomes a full archive; one entry per key, and the common-prefix table is a `SimpleTable` |
| `sync` | 1–3 blocks with every kind of content, 1 revert, 2 requests in flight, 1 interrupt, 2 changes of the key, both scopes, base layer proofs; streams of 2–3 updates with limits of 1–2 and a missing class; fair | tables and reads agree with the remaining blocks, no failure but on a changed key, the base layer marker covers proved blocks, the storage reaches a stable chain; updates have their classes, the stream is an `OrderedStream` and never stuck |
| `p2p_sync` | 3 blocks, 2 peers, 1 cut-off, no stop or stop at 1, fair | storage is a prefix of the chain; chunks lose nothing; no failure on complete answers; blocks all peers have are synced, up to the stop and across restarts |
| `consensus_heights` | 3 validators, 2 heights, fair | no assertion fires, everyone decides both heights |
| `consensus_faulty` | 4 validators, faulty proposer, 2 forks, 1 duplicate, all orders | votes are counted once, no quorum is missed, the detailed model implements `ConsensusVoting` |
| `rpc` | chains of 1–3 blocks of 3 kinds, 1 revert, pending blocks that grow, are dropped or fail, 9 kinds of executing requests; pending sync fair | pending data is on top of the latest block; blocks are answered whole, or refused where bodies are not stored, and alike by both versions; pages of events lose nothing; what is pending is what becomes latest; a successful execution has read one state; pending classes arrive |
| `network` | 2 peers, up to 2 queries and 2 inbound sessions, closes, failed dials, reports, drops; discovery with 2 connects, closes and failures; 2 calls with 1 retry; every message with up to 2 varied fields; transactions, headers and bodies with 1–2 varied fields; fair | a query is sent once, responses are in order and before the close, sessions are not lost and in the end wait for nothing but their remote peer; discovery goes on; answers tell what happened at the gateway; messages are decoded as sent or refused; hashes bind what they hash |

Agreement is proved of `ConsensusVoting` for any number of validators;
`consensus_faulty` links the detailed model to it. Two blocks in a row are
enough for a stream to be ahead of another, and a third for a change of version
to be undone; four validators are the fewest that tolerate a fault; one revert
is enough to separate any two downloads; two peers are enough for a session to
move from one to another; two varied fields are enough for a value of one to be
taken for the other. The consensus, rpc and network runs do not check deadlock:
a validator that has decided its last height stops, and so do a server
without requests and an exchange that is over.

Fairness. `StateSync`: the task is polled and requests are answered, nothing is
assumed about which stream goes first, and the progress check is made. `P2PSync`:
both streams are polled, peers answer, and a node whose `run` failed is started
again by whoever runs it; nobody has to start it again after the stop.
`Consensus`: a message that was sent is delivered to a validator that waits.
`PendingSync`: its task is polled and its downloads end. `Network`: the swarm is
polled while it has something to do, and dials and negotiations end, because libp2p and
`session_timeout` end them; nothing makes a remote peer write or end a stream. `Discovery`: polls, dials, timers and Kademlia queries end.
Most of it is written with the guard of the action instead of ENABLED.

Every property of a passing run has a mutant in the module it is about, a
definition named `...Mutant` with a small bug, under which TLC finds the property
violated.

### Disagreements between code and documentation

- `sync_signatures`: the signature stored with a block can be that of the block
  it replaced; block and signature are requested separately.
- `consensus_replay`: a proposal that is delivered twice fires an assertion that
  relies on `SingleHeightConsensus` to handle replays.
- `p2p_nonces`: over p2p, a replaced class resets the nonce of its contract.
- `rpc_trace`: a transaction is traced on an older state while the state
  before its block is not stored yet.
- `network_reports`: a peer that is reported again while it is blocked leaves
  the sessions that wait for it without a sleep to wake them.

Observations without a run of their own, some of them listed as hazards:

- over p2p the compiled class marker passes the class marker; at
  `stop_sync_at_block_number` the client panics (`expect` in `client/mod.rs:252`),
  documented as "Stops the sync at given block number and closes the node
  cleanly." (line 90), and a node started at it goes past it;
- the progress check of the sync raises `NoProgress` when one of three markers has not
  moved (`||`, `papyrus_sync/src/lib.rs:897`), so it restarts streams that are at work;
- `session_timeout` is documented as the "Maximal time in seconds that each session can
  take before failing on timeout." (`papyrus_network/src/lib.rs:66`) and bounds the
  upgrade of the substream only; when a dial fails, the sessions that run on another
  connection of the peer are assigned again, and are lost if that connection then closes;
- "from this block number onwards, there are no deprecated transactions"
  (`transaction_hash.rs:115`) is tested with `>`, so that block itself accepts
  deprecated hashes; nothing is demanded of it here;
- a `Felt252` of another length than 32 bytes panics the receiver, while `Hash` and
  `Address` are refused; a number beyond the field's prime is reduced (a TODO in
  `converters/common.rs:17`);
- a crash between the two version transactions of a new storage leaves a full
  archive that is refused as state-only, and a release that raised the minor
  blocks version would write back the version that a change of scope has
  deleted (`lib.rs:255`);
- pending data that the source's latest block stands in for is compared by its
  number of transactions; class downloads dropped by an error are not resumed
  while the pending data stays the same;
- a header without commitments is sent and refused by every receiver; receipts
  with counts of 2^32 and Cairo 1 classes of fewer than six elements panic the
  sender; the program and abi of a Cairo 0 class are not sent;
- the hash of a deploy account of version 3 chains the modes before the nonce,
  unlike invoke and declare; validating the header of an old block without
  sequencer panics on chains other than mainnet, where version 2 is tried before 1 and 0;
- the gauge of outbound sessions only rises, and nothing resumes a paused discovery.

## What is proved

`MmapFileProofs`, for all configurations that `validate_config` accepts, all
sets of files, keys, values and readers, and locations whose limits exceed the
file size (`LimitAssumption`; the code stores 6 and 4 bytes). That committed
objects are durable is not inductive: a commit publishes the locations of the
transaction, so the invariant has to speak of these before they are committed.
`IInv` adds that committed, running and file offsets are ordered
(`OffsetsOrdered`), that there is room ahead of the offset (`Room`), that a file
that needs no flush has the same bytes on disk (`Flushed`),
and that every location of the committed tables, the transaction and the
snapshots lies below the offset and holds its object (`Contents`,
`SnapshotContents`). Durability, readable snapshots, disjoint objects and room
for an append follow.

`ConsensusVotingProofs`, for all finite validator sets of which fewer than a
third are faulty and all sets of blocks: two quorums share an honest validator
(`QuorumsAgree`), honest votes never change and so quorums are stable
(`QuorumStable`), and a decision has a quorum of precommits behind it
(`VotingInv`); hence agreement (`VotingAgrees`).

`StorageVersionProofs`, for all sets of releases whose minor blocks version is 0
(`ReleasesAssumption`, true of the code today): an open storage has the versions
and scope of the code that opened it (`OpenMatches`), and a storage once opened as
state-only has no blocks version and is never opened as a full archive again
(`StateOnlyForever`). The check at the end of `open_storage` compares what is
stored, but the steps before it use what was read at the beginning; `ByStage`
says, for every stage of the opening, how the two are related.

`DupSortTableProofs`, for all sets of keys and values: no operation leaves two
entries of one key (`KeysStayUnique`). It rests on `Neighbours`: where keys are
unique, an entry of the key of a new one can only be next to it in the order of bytes.

Only model-checked: everything about `Storage`, `StateSync`, `P2PSync`, the
network, the servers, the messages and hashes; the refinements from `Consensus` to
`ConsensusVoting`, from `DupSortTable` to `SimpleTable` and from
`StateUpdateStream` to `OrderedStream`; and liveness, which is out of the
prover's reach.

## Not modelled

libmdbx, libp2p, blockifier and the byte serializers are external or data only.
JSON types of the RPC and of the gateway's reader, class and state diff hashes, gossip
topics, configuration loading, monitoring, metrics, logging and the wording of errors are
left out: they have no state that two steps could disagree about. The p2p server's
answers to queries that no client in the repository sends (transactions, classes,
events, backward, steps) are left out too. `PROJECT.json` gives the reason for each part.
