------------------------------ MODULE P2PSync -------------------------------
(***************************************************************************)
(* papyrus_p2p_sync: a client that syncs headers and state diffs from      *)
(* peers, each of which runs the server over a storage of its own.         *)
(*                                                                         *)
(* A query goes to any peer (the network picks one) and is answered from   *)
(* one read transaction, by a prefix of the data it asks for and a Fin.    *)
(* The peers hold prefixes of one chain that grow; reverts are not handled *)
(* by the client (a TODO in header.rs) and not modelled.                   *)
(***************************************************************************)
EXTENDS Chain

CONSTANTS
  Peers,
  num_headers_per_query, num_block_state_diffs_per_query,
  StopsConfigured,            \* values of stop_sync_at_block_number, None for no stop
  MaxLength,                  \* bound: blocks in the chain
  OldVersions,                \* versions whose headers have no state_diff_length
  MaxDisconnects              \* bound: sessions that end before their Fin

ASSUME P2PAssumption ==
  /\ {num_headers_per_query, num_block_state_diffs_per_query} \subseteq Nat \ {0}
  /\ {MaxLength, MaxDisconnects} \subseteq Nat
  /\ StopsConfigured \subseteq Nat \cup {None}

VARIABLES
  stop_sync_at_block_number,  \* of the client's configuration
  chain,        \* the chain all peers follow, as far as it will ever get
  peers,        \* [peer -> [headers, diffs]], how far its storage is
  db,           \* the client's storage
  pc,           \* "run", or how P2PSyncClient::run ended: "failed", "panicked"
  streams,      \* the client's two data streams
  disconnects

environment == <<stop_sync_at_block_number, chain>>
vars == <<environment, peers, db, pc, streams, disconnects>>

Kinds == {"headers", "state_diffs"}

(* A data stream between two queries, or reading the responses of one. *)
NewStream(current) ==
  [pc |-> "query", current_block_number |-> current, end_block_number |-> current,
   responses |-> << >>]

(* get_start_block_number of both builders. *)
create_stream(s) ==
  [kind \in Kinds |-> NewStream(IF kind = "headers" THEN s.markers.Header ELSE s.markers.State)]

Chains ==
  {c \in [1 .. MaxLength -> (DOMAIN Content) \X {0}] :
     \A i \in 1 .. MaxLength : Extends(SubSeq(c, 1, i - 1), c[i][1])}

Init ==
  /\ stop_sync_at_block_number \in StopsConfigured
  /\ chain \in Chains
  /\ peers = [p \in Peers |-> [headers |-> 0, diffs |-> 0]]
  /\ db = EmptyStorage
  /\ pc = "run"
  /\ streams = create_stream(db)
  /\ disconnects = 0

-----------------------------------------------------------------------------
(* The server *)

Fin == [type |-> "fin"]

ContractDiff(a, class_hash, nonce, storage_diffs) ==
  [type |-> "contract", address |-> a, class_hash |-> class_hash, nonce |-> nonce,
   storage_diffs |-> storage_diffs]

Lookup(table, key) == IF key \in DOMAIN table THEN table[key] ELSE None

(* A chunk per contract, in the order of a hash set, then the classes. *)
split_thin_state_diff(diff) ==
  LET addresses == DOMAIN diff.deployed_contracts \cup DOMAIN diff.replaced_classes
                     \cup DOMAIN diff.nonces \cup DOMAIN diff.storage_diffs
      contract(a) ==
        ContractDiff(a, Lookup(diff.deployed_contracts @@ diff.replaced_classes, a),
                     Lookup(diff.nonces, a), Lookup(diff.storage_diffs, a))
      contracts == SetToSeq(addresses)
      deprecated == SetToSeq(diff.deprecated_declared_classes)
  IN  [i \in DOMAIN contracts |-> contract(contracts[i])]
        \o [i \in DOMAIN diff.declared_classes |->
              [type |-> "class", class_hash |-> diff.declared_classes[i]]]
        \o [i \in DOMAIN deprecated |->
              [type |-> "deprecated_class", class_hash |-> deprecated[i]]]

(* The data of block n in a peer's storage: none at all if its diff is empty. *)
fetch_block_data_from_db(kind, n) ==
  IF kind = "headers" THEN <<[type |-> "header", number |-> n, hash |-> BlockHash(chain, n)]>>
  ELSE split_thin_state_diff(ContentOf(BlockHash(chain, n)).diff)

(* A header without its state_diff_length waits for its state diff. *)
HasBlock(peer, kind, n) ==
  \/ n < peer.diffs
  \/ /\ kind = "headers" /\ n < peer.headers
     /\ ContentOf(BlockHash(chain, n)).version \notin OldVersions

(* Mutant: the last block of the query is left out. *)
send_data_for_queryMutant(peer, kind, start, limit) ==
  LET missing == {n \in start .. start + limit - 2 : ~HasBlock(peer, kind, n)}
      count == Min(missing \cup {start + limit - 1}) - start
  IN  FlattenSeq([i \in 1 .. count |-> fetch_block_data_from_db(kind, start + i - 1)])
        \o <<Fin>>

(* send_data_for_query: the blocks from start up to the first one the storage
   does not have, and in any case the Fin. *)
send_data_for_query(peer, kind, start, limit) ==
  LET missing == {n \in start .. start + limit - 1 : ~HasBlock(peer, kind, n)}
      count == Min(missing \cup {start + limit}) - start
  IN  FlattenSeq([i \in 1 .. count |-> fetch_block_data_from_db(kind, start + i - 1)])
        \o <<Fin>>

(* A peer stores a header, or the state diff under one. *)
PeerGrows(p) ==
  /\ \/ /\ peers[p].headers < Len(chain)
        /\ peers' = [peers EXCEPT ![p].headers = @ + 1]
     \/ /\ peers[p].diffs < peers[p].headers
        /\ peers' = [peers EXCEPT ![p].diffs = @ + 1]
  /\ UNCHANGED <<environment, db, pc, streams, disconnects>>

-----------------------------------------------------------------------------
(* The client: parse_data_for_block.  It gives [error], or the block (None when
   the query ended before it) and the responses that are left. *)

Parsed(block, rest) == [error |-> FALSE, block |-> block, rest |-> rest]
ParseError == [error |-> TRUE]

parse_header(responses, n) ==
  IF responses = << >> THEN ParseError  \* ReceiverChannelTerminated
  ELSE IF Head(responses) = Fin THEN Parsed(None, Tail(responses))
  ELSE IF Head(responses).number # n THEN ParseError
  ELSE Parsed(Head(responses), Tail(responses))

ChunkLen(chunk) ==
  IF chunk.type = "contract"
  THEN Cardinality({f \in {"class_hash", "nonce", "storage_diffs"} : chunk[f] # None})
  ELSE 1

Length(diff) ==
  Cardinality(DOMAIN diff.deployed_contracts) + Cardinality(DOMAIN diff.replaced_classes)
    + Cardinality(DOMAIN diff.nonces) + Cardinality(DOMAIN diff.storage_diffs)
    + Len(diff.declared_classes) + Cardinality(diff.deprecated_declared_classes)

(* Mutant: the storage of a contract that is deployed is lost. *)
unite_state_diffsMutant(chunks) ==
  LET of(type) == SelectSeq(chunks, LAMBDA c : c.type = type)
      table(field) ==
        LET set == {c \in Range(of("contract")) : c[field] # None}
        IN  [a \in {c.address : c \in set} |-> (CHOOSE c \in set : c.address = a)[field]]
      hashes(type) == [i \in DOMAIN of(type) |-> of(type)[i].class_hash]
  IN  [deployed_contracts |-> table("class_hash"), replaced_classes |-> EmptyTable,
       nonces |-> table("nonce"),
       storage_diffs |-> Restrict(table("storage_diffs"), DOMAIN table("storage_diffs")
                                                            \ DOMAIN table("class_hash")),
       declared_classes |-> hashes("class"),
       deprecated_declared_classes |-> Range(hashes("deprecated_class"))]

(* unite_state_diffs of all chunks: the chunks of a kind, and what each table
   gets from them.  A class that was replaced comes out as deployed. *)
unite_state_diffs(chunks) ==
  LET of(type) == SelectSeq(chunks, LAMBDA c : c.type = type)
      table(field) ==
        LET set == {c \in Range(of("contract")) : c[field] # None}
        IN  [a \in {c.address : c \in set} |-> (CHOOSE c \in set : c.address = a)[field]]
      hashes(type) == [i \in DOMAIN of(type) |-> of(type)[i].class_hash]
  IN  [deployed_contracts |-> table("class_hash"), replaced_classes |-> EmptyTable,
       nonces |-> table("nonce"), storage_diffs |-> table("storage_diffs"),
       declared_classes |-> hashes("class"),
       deprecated_declared_classes |-> Range(hashes("deprecated_class"))]

(* ConflictingStateDiffParts: two chunks set the same thing. *)
Conflicting(chunks) ==
  \E i, j \in DOMAIN chunks :
    /\ i < j /\ chunks[i].type = chunks[j].type
    /\ IF chunks[i].type = "contract"
       THEN /\ chunks[i].address = chunks[j].address
            /\ \E f \in {"class_hash", "nonce", "storage_diffs"} :
                 chunks[i][f] # None /\ chunks[j][f] # None
       ELSE chunks[i].class_hash = chunks[j].class_hash

(* Chunks are read until they have the length the header promises. *)
parse_state_diff(responses, n) ==
  LET target == Length(ContentOf(db.headers[n].hash).diff)
      length[i \in 0 .. Len(responses)] ==
        IF i = 0 THEN 0
        ELSE length[i - 1] + (IF responses[i] = Fin THEN 0 ELSE ChunkLen(responses[i]))
      enough == {i \in DOMAIN length : length[i] >= target}
      count == Min(enough)
      chunks == SubSeq(responses, 1, count)
  IN  IF n \notin DOMAIN db.headers THEN ParseError  \* a panic
      ELSE IF enough = {}
      THEN IF responses = <<Fin>> THEN Parsed(None, << >>) ELSE ParseError
      ELSE IF \/ length[count] # target \/ Conflicting(chunks)
              \/ \E i \in 1 .. count : length[i] = length[i - 1]  \* EmptyStateDiffPart
      THEN ParseError
      ELSE Parsed(unite_state_diffs(chunks), SubSeq(responses, count + 1, Len(responses)))

parse_data_for_block(kind, responses, n) ==
  IF kind = "headers" THEN parse_header(responses, n) ELSE parse_state_diff(responses, n)

(* BlockData::write_to_storage *)
write_to_storage(kind, n, block) ==
  IF kind = "headers"
  THEN append_block_signature(append_header(db, n, BlockOf(block.hash)), n, block.hash)
  ELSE append_state_diff(db, n, block)

-----------------------------------------------------------------------------
(* The client: DataStreamBuilder::create_stream and P2PSyncClient::run *)

SetStream(kind, stream) == streams' = [streams EXCEPT ![kind] = stream]

QueryLimit(kind, current) ==
  IF kind = "headers" THEN num_headers_per_query
  ELSE Min({db.markers.Header - current, num_block_state_diffs_per_query})

(* A query is sent, and some peer answers it from its storage as it is now;
   the session may end, or time out, before the Fin has come. *)
send_query(kind) ==
  LET stream == streams[kind]
      limit == QueryLimit(kind, stream.current_block_number)
  IN  /\ pc = "run" /\ stream.pc = "query"
      /\ limit > 0
      /\ \E p \in Peers :
           LET answer == send_data_for_query(peers[p], kind, stream.current_block_number, limit)
           IN  \E received \in 0 .. Len(answer) :
                 /\ disconnects' = disconnects + (IF received = Len(answer) THEN 0 ELSE 1)
                 /\ SetStream(kind, [stream EXCEPT
                      !.pc = "parse", !.end_block_number = stream.current_block_number + limit,
                      !.responses = SubSeq(answer, 1, received)])
      /\ disconnects' <= MaxDisconnects
      /\ UNCHANGED <<environment, peers, db, pc>>

(* Mutant: after partial data, the next query starts at the next block. *)
AfterPartialDataMutant(stream) == NewStream(stream.current_block_number + 1)

(* Partial data: wait, and ask for the rest. *)
AfterPartialData(stream) == NewStream(stream.current_block_number)

Stops(n) == stop_sync_at_block_number # None /\ n >= stop_sync_at_block_number

(* The block is yielded, run writes it, and the stream goes on. *)
AfterBlock(stream, rest) ==
  LET next == stream.current_block_number + 1
  IN  [stream EXCEPT !.current_block_number = next, !.responses = rest,
                     !.pc = IF Stops(next) THEN "stopped" ELSE "parse"]

receive_block(kind) ==
  LET stream == streams[kind]
      n == stream.current_block_number
      parsed == parse_data_for_block(kind, stream.responses, n)
      txn == write_to_storage(kind, n, parsed.block)
      outcome == IF parsed.error THEN "error"
                 ELSE IF parsed.block = None THEN "partial data"
                 ELSE IF txn.error # None THEN "error" ELSE "block"
  IN  /\ pc = "run" /\ stream.pc = "parse" /\ n < stream.end_block_number
      /\ \/ /\ outcome = "partial data" /\ SetStream(kind, AfterPartialData(stream))
            /\ UNCHANGED <<db, pc>>
         \/ /\ outcome = "block" /\ db' = txn
            /\ SetStream(kind, AfterBlock(stream, parsed.rest)) /\ UNCHANGED pc
         \/ outcome = "error" /\ pc' = "failed" /\ UNCHANGED <<db, streams>>
      /\ UNCHANGED <<environment, peers, disconnects>>

(* The Fin after the last block; anything else is an error. *)
receive_fin(kind) ==
  LET stream == streams[kind] IN
  /\ pc = "run" /\ stream.pc = "parse"
  /\ stream.current_block_number = stream.end_block_number
  /\ \/ /\ stream.responses = <<Fin>>
        /\ SetStream(kind, NewStream(stream.current_block_number)) /\ UNCHANGED pc
     \/ stream.responses # <<Fin>> /\ pc' = "failed" /\ UNCHANGED streams
  /\ UNCHANGED <<environment, peers, db, disconnects>>

(* run expects the merged stream never to end: at the configured stop it panics,
   where the configuration promises that the node is closed cleanly. *)
StreamsEnded == pc = "run" /\ \A kind \in Kinds : streams[kind].pc = "stopped"

run_ends ==
  /\ StreamsEnded
  /\ pc' = "panicked"
  /\ UNCHANGED <<environment, peers, db, streams, disconnects>>

(* The node exits when run does, and may be started again; a crash is the same. *)
Restart ==
  /\ pc # "run"
  /\ pc' = "run" /\ streams' = create_stream(db)
  /\ UNCHANGED <<environment, peers, db, disconnects>>

ClientStep(kind) == send_query(kind) \/ receive_block(kind) \/ receive_fin(kind)

Next ==
  \/ (\E p \in Peers : PeerGrows(p))
  \/ (\E kind \in Kinds : ClientStep(kind))
  \/ run_ends \/ Restart

Spec == Init /\ [][Next]_vars

(* A stream has a query to send, or responses to read. *)
Ready(kind) ==
  /\ pc = "run" /\ streams[kind].pc # "stopped"
  /\ streams[kind].pc = "query" => QueryLimit(kind, streams[kind].current_block_number) > 0

(* What only a ClientStep of this kind does, or the failure of either. *)
Moves(kind) == pc = "run" /\ (streams'[kind] # streams[kind] \/ pc' = "failed")

(* Tokio polls both streams and run, peers answer, and whoever runs the node
   starts it again when it has failed: weak fairness of ClientStep, of run_ends
   and of Restart after a failure, written with their guards.  Nobody has to
   start a node again that has come to its configured stop. *)
FairSpec ==
  /\ Spec
  /\ \A kind \in Kinds : []<>~Ready(kind) \/ []<><<Moves(kind)>>_vars
  /\ []<>~StreamsEnded
  /\ []<>(pc # "failed")

-----------------------------------------------------------------------------
(* Properties *)

(* The client is never turned away by data the peers really have: a query that
   was answered to its Fin by a peer behind, level or ahead never makes run
   fail. *)
FailsOnlyWhenCutOff ==
  pc = "failed" =>
    \E kind \in Kinds : /\ streams[kind].pc = "parse"
                        /\ Fin \notin Range(streams[kind].responses)

(* The last value block i <= n of the chain gives to address a in a table. *)
ChainValue(tables(_), n, a, default) ==
  LET sets == {i \in 0 .. n : a \in DOMAIN tables(ContentOf(BlockHash(chain, i)).diff)}
  IN  IF sets = {} THEN default ELSE tables(ContentOf(BlockHash(chain, Max(sets))).diff)[a]

(* The client's storage is a prefix of the chain: its headers in order, with
   their signatures and versions, and state diffs for a prefix of the headers,
   whatever peers the queries reached and whenever the node restarted. *)
HeadersFollowChain ==
  /\ db.markers.State <= db.markers.Header
  /\ DOMAIN db.headers = 0 .. db.markers.Header - 1
  /\ \A n \in DOMAIN db.headers :
       /\ get_block_header(db, n) = BlockOf(BlockHash(chain, n))
       /\ get(db, "block_signatures", n) = BlockHash(chain, n)

(* Splitting a state diff into chunks, uniting the chunks and storing the
   result loses nothing: at every synced block, each contract has the class and
   the storage the chain gave it, and each Cairo 1 class is declared there. *)
StateFollowsChain ==
  \A n \in 0 .. db.markers.State - 1 :
    /\ \A a \in Contracts(chain) :
         /\ get_class_hash_at(db, n + 1, a) =
              ChainValue(LAMBDA d : d.deployed_contracts @@ d.replaced_classes, n, a, None)
         /\ get_storage_at(db, n + 1, a) =
              ChainValue(LAMBDA d : d.storage_diffs, n, a, DefaultFelt)
    /\ Range(db.state_diffs[n].declared_classes) =
         Range(ContentOf(BlockHash(chain, n)).diff.declared_classes)

(* What is synced, headers and state, is a prefix of the chain. *)
FollowsChain == HeadersFollowChain /\ StateFollowsChain

(* The nonce of a contract changes only in a block that updates it, "Has value
   only if the nonce was updated in this block" (papyrus_protobuf/src/sync.rs). *)
NoncesFollowChain ==
  \A n \in 0 .. db.markers.State - 1 : \A a \in DOMAIN db.state_diffs[n].deployed_contracts :
    get_nonce_at(db, n + 1, a) = ChainValue(LAMBDA d : d.nonces, n, a, DefaultNonce)

(* The client catches up with its peers, state diffs included, and does so again
   whenever they have moved on: since blocks are never taken back, every block
   that all peers have is synced in the end.  With a configured stop this holds
   of the blocks below it, and without the node being started again there. *)
CatchesUp ==
  []<>(\A n \in 0 .. MaxLength - 1 :
         (\A p \in Peers : peers[p].diffs > n) /\ ~Stops(n) => db.markers.State > n)
=============================================================================
