----------------------------- MODULE Converters -----------------------------
(***************************************************************************)
(* What the nodes send each other: the conversions of headers, state diffs, *)
(* events, classes, queries and consensus messages to and from protobuf     *)
(* (transactions and receipts are in TransactionConverters), and a value    *)
(* that is sent to a peer and passed on by it to another.  A peer of        *)
(* another implementation may leave a field of a message out, or fill it    *)
(* with what its type does not hold.                                        *)
(***************************************************************************)
EXTENDS TransactionConverters, SequencesExt

VARIABLE exchange  \* the value that is sent, and how far it is

-----------------------------------------------------------------------------
(* Headers. *)

l1_data_availability_mode_to_enum_int(mode) == IF mode = "Calldata" THEN 0 ELSE 1
enum_int_to_l1_data_availability_mode(n) ==
  IF n = 0 THEN Ok("Calldata") ELSE IF n = 1 THEN Ok("Blob") ELSE Err

ConsensusSignature_from(s) == [r |-> Some(s.r), s |-> Some(s.s)]
ConsensusSignature_try_from(w) == Collect([r |-> Felt_try_from(w.r), s |-> Felt_try_from(w.s)])

(* The length and the commitment of a state diff are sent only together, and the
   numbers of transactions and events only with their commitments. *)
SignedBlockHeader_from(h) ==
  LET Patricia(n, commitment) ==
        IF commitment = None THEN None
        ELSE Some([n_leaves |-> n, root |-> commitment])
  IN  [block_hash |-> Some(h.block_hash), parent_hash |-> Some(h.parent_hash),
       number |-> h.block_number, time |-> h.timestamp,
       sequencer_address |-> Some(h.sequencer), state_root |-> Some(h.state_root),
       state_diff_commitment |->
         IF h.state_diff_commitment = None \/ h.state_diff_length = None THEN None
         ELSE Some([state_diff_length |-> h.state_diff_length[1],
                    root |-> h.state_diff_commitment]),
       transactions |-> Patricia(h.n_transactions, h.transaction_commitment),
       events |-> Patricia(h.n_events, h.event_commitment),
       receipts |-> h.receipt_commitment, protocol_version |-> h.starknet_version,
       gas_price_wei |-> Some(Uint128_from(h.l1_gas_price.price_in_wei)),
       gas_price_fri |-> Some(Uint128_from(h.l1_gas_price.price_in_fri)),
       data_gas_price_wei |-> Some(Uint128_from(h.l1_data_gas_price.price_in_wei)),
       data_gas_price_fri |-> Some(Uint128_from(h.l1_data_gas_price.price_in_fri)),
       l1_data_availability_mode |-> l1_data_availability_mode_to_enum_int(h.l1_da_mode),
       signatures |-> Map(h.signatures, ConsensusSignature_from)]

SignedBlockHeader_try_from(w) ==
  LET Leaves(patricia) == Bind(patricia, LAMBDA p : Ok(p.n_leaves))
      Root(patricia) == Transpose(patricia, LAMBDA p : Hash_try_from(p.root))
      Price(fri, wei) == Collect([price_in_fri |-> Bind(fri, LAMBDA p : Ok(u128_from(p))),
                                  price_in_wei |-> Bind(wei, LAMBDA p : Ok(u128_from(p)))])
  IN  Collect([block_hash |-> Hash_try_from(w.block_hash),
               parent_hash |-> Hash_try_from(w.parent_hash),
               block_number |-> Ok(w.number), timestamp |-> Ok(w.time),
               sequencer |-> ContractAddress_try_from(w.sequencer_address),
               state_root |-> Hash_try_from(w.state_root),
               n_transactions |-> Leaves(w.transactions),
               transaction_commitment |-> Root(w.transactions),
               n_events |-> Leaves(w.events), event_commitment |-> Root(w.events),
               state_diff_length |->
                 Transpose(w.state_diff_commitment, LAMBDA c : Ok(c.state_diff_length)),
               state_diff_commitment |->
                 Transpose(w.state_diff_commitment, LAMBDA c : Hash_try_from(c.root)),
               l1_da_mode |->
                 enum_int_to_l1_data_availability_mode(w.l1_data_availability_mode),
               starknet_version |-> Ok(w.protocol_version),
               l1_gas_price |-> Price(w.gas_price_fri, w.gas_price_wei),
               l1_data_gas_price |-> Price(w.data_gas_price_fri, w.data_gas_price_wei),
               receipt_commitment |->
                 Transpose(w.receipts, LAMBDA r : Hash_try_from(Some(r))),
               signatures |-> Collect(Map(w.signatures, ConsensusSignature_try_from))])

-----------------------------------------------------------------------------
(* State diffs, in chunks: a contract's diff or a declared class, which is of
   Cairo 0 if its message has no compiled class hash. *)

Chunk(type, body) == [type |-> type, body |-> body]

ContractDiff_from(c) ==
  [address |-> Some(c.body.contract_address), class_hash |-> c.body.class_hash,
   nonce |-> c.body.nonce, domain |-> 0,
   values |-> Map(c.body.storage_diffs, LAMBDA e : [key |-> Some(e[1]), value |-> Some(e[2])])]

ContractStoredValue_try_from(w) ==
  Bind(PatriciaKey_try_from(w.key), LAMBDA k :
    Bind(Felt_try_from(w.value), LAMBDA x : Ok(<<k, x>>)))

(* collect into an IndexMap: a key that comes again keeps its place and gets the
   later value. *)
CollectIndexMap(entries) ==
  FoldLeft(LAMBDA map, e :
             IF \E i \in DOMAIN map : map[i][1] = e[1]
             THEN [i \in DOMAIN map |-> IF map[i][1] = e[1] THEN e ELSE map[i]]
             ELSE Append(map, e),
           << >>, entries)

ContractDiff_try_from(w) ==
  Bind(Collect([contract_address |-> ContractAddress_try_from(w.address),
                class_hash |-> Transpose(w.class_hash, LAMBDA x : Hash_try_from(Some(x))),
                nonce |-> Transpose(w.nonce, LAMBDA x : Felt_try_from(Some(x))),
                storage_diffs |->
                  Bind(Collect(Map(w.values, ContractStoredValue_try_from)),
                       LAMBDA entries : Ok(CollectIndexMap(entries)))]),
       LAMBDA body : Ok(Chunk("ContractDiff", body)))

DeclaredClass_from(c) ==
  [class_hash |-> Some(c.body.class_hash),
   compiled_class_hash |->
     IF c.type = "DeclaredClass" THEN Some(c.body.compiled_class_hash) ELSE None]

DeclaredClass_try_from(w) == Bind(Hash_try_from(w.class_hash), LAMBDA hash :
  IF w.compiled_class_hash = None
  THEN Ok(Chunk("DeprecatedDeclaredClass", [class_hash |-> hash]))
  ELSE Bind(Hash_try_from(w.compiled_class_hash), LAMBDA compiled :
         Ok(Chunk("DeclaredClass", [class_hash |-> hash, compiled_class_hash |-> compiled]))))

-----------------------------------------------------------------------------
(* Events. *)

Event_from(e) ==
  [transaction_hash |-> Some(e.transaction_hash), from_address |-> Some(e.from_address),
   keys |-> e.keys, data |-> e.data]

Event_try_from(w) == Collect(
  [transaction_hash |-> Hash_try_from(w.transaction_hash),
   from_address |-> PatriciaKey_try_from(w.from_address),
   keys |-> Felts_try_from(w.keys), data |-> Felts_try_from(w.data)])

-----------------------------------------------------------------------------
(* Classes.  The entry points of a class are listed by type, and types without
   entry points are left out; a Cairo 0 class loses its abi and its program. *)

EntryPointTypes == [constructors |-> "Constructor", externals |-> "External",
                    l1_handlers |-> "L1Handler"]

EntryPoint_from(e) == [selector |-> Some(e.selector), offset |-> e.offset]
EntryPoint_try_from(w) == Collect([selector |-> Felt_try_from(w.selector), offset |-> Ok(w.offset)])

SierraEntryPoint_from(e) == [index |-> e.function_idx, selector |-> Some(e.selector)]
SierraEntryPoint_try_from(w) ==
  Collect([function_idx |-> Ok(w.index), selector |-> Felt_try_from(w.selector)])

EntryPoints_from(points, F(_)) ==
  [l \in DOMAIN EntryPointTypes |->
    LET type == EntryPointTypes[l]
    IN  IF type \in DOMAIN points THEN Map(points[type], F) ELSE << >>]

EntryPoints_try_from(w, F(_)) ==
  LET lists == {l \in DOMAIN EntryPointTypes : w[l] # << >>}
  IN  Collect([type \in {EntryPointTypes[l] : l \in lists} |->
                 LET l == CHOOSE k \in lists : EntryPointTypes[k] = type
                 IN  Collect(Map(w[l], F))])

Cairo0Class_from(c) ==
  EntryPoints_from(c.entry_points_by_type, EntryPoint_from) @@ [abi |-> "", program |-> ""]

Cairo0Class_try_from(w) == Collect(
  [entry_points_by_type |-> EntryPoints_try_from(w, EntryPoint_try_from),
   abi |-> Ok(None), program |-> Ok("default")])

(* The version is formatted from the first six elements of the program: sending
   a shorter one panics. *)
VersionLength == 6

Cairo1Class_from(c) ==
  [abi |-> c.abi, program |-> c.sierra_program,
   entry_points |-> Some(EntryPoints_from(c.entry_points_by_type, SierraEntryPoint_from)),
   contract_class_version |-> SubSeq(c.sierra_program, 1, VersionLength)]

Cairo1Class_try_from(w) == Collect(
  [abi |-> Ok(w.abi), sierra_program |-> Felts_try_from(w.program),
   entry_points_by_type |->
     Bind(w.entry_points, LAMBDA e : EntryPoints_try_from(e, SierraEntryPoint_try_from))])

ContractClass_from(c) ==
  [domain |-> 0, class |-> Some([type |-> c.type,
                                 body |-> IF c.type = "Cairo0" THEN Cairo0Class_from(c.body)
                                                               ELSE Cairo1Class_from(c.body)])]

ContractClass_try_from(w) == Bind(w.class, LAMBDA c :
  Collect([type |-> Ok(c.type),
           body |-> IF c.type = "Cairo0" THEN Cairo0Class_try_from(c.body)
                                         ELSE Cairo1Class_try_from(c.body)]))

-----------------------------------------------------------------------------
(* Queries.  A query starts at a block's number or at its hash. *)

Iteration_from(q) ==
  [start |-> Some([type |-> IF q.start_block.type = "Number" THEN "BlockNumber" ELSE "Header",
                   block |-> q.start_block.block]),
   direction |-> IF q.direction = "Forward" THEN 0 ELSE 1, limit |-> q.limit, step |-> q.step]

Iteration_try_from(w) == Collect(
  [start_block |-> Bind(w.start, LAMBDA s :
     IF s.type = "BlockNumber" THEN Ok([type |-> "Number", block |-> s.block])
     ELSE Bind(Hash_try_from(Some(s.block)), LAMBDA b : Ok([type |-> "Hash", block |-> b]))),
   direction |-> IF w.direction = 0 THEN Ok("Forward")
                 ELSE IF w.direction = 1 THEN Ok("Backward") ELSE Err,
   limit |-> Ok(w.limit), step |-> Ok(w.step)])

(* The five requests wrap a query alike. *)
Request_from(q) == [iteration |-> Some(Iteration_from(q))]
Request_try_from(w) == Bind(w.iteration, Iteration_try_from)

-----------------------------------------------------------------------------
(* Consensus messages. *)

Proposal_from(p) ==
  [height |-> p.height, proposer |-> Some(p.proposer), block_hash |-> Some(p.block_hash),
   transactions |-> Map(p.transactions, Transaction_from)]

Proposal_try_from(w) == Collect(
  [height |-> Ok(w.height), proposer |-> ContractAddress_try_from(w.proposer),
   block_hash |-> Hash_try_from(w.block_hash),
   transactions |-> Collect(Map(w.transactions, Transaction_try_from))])

Vote_from(v) ==
  [vote_type |-> IF v.vote_type = "Prevote" THEN 0 ELSE 1, height |-> v.height,
   block_hash |-> Some(v.block_hash), voter |-> Some(v.voter)]

Vote_try_from(w) == Collect(
  [vote_type |-> IF w.vote_type = 0 THEN Ok("Prevote")
                 ELSE IF w.vote_type = 1 THEN Ok("Precommit") ELSE Err,
   height |-> Ok(w.height), block_hash |-> Hash_try_from(w.block_hash),
   voter |-> ContractAddress_try_from(w.voter)])

ConsensusMessage_from(m) ==
  [message |-> Some([type |-> m.type, body |-> IF m.type = "Proposal" THEN Proposal_from(m.body)
                                                                      ELSE Vote_from(m.body)])]

ConsensusMessage_try_from(w) == Bind(w.message, LAMBDA m :
  Collect([type |-> Ok(m.type), body |-> IF m.type = "Proposal" THEN Proposal_try_from(m.body)
                                                                ELSE Vote_try_from(m.body)]))

-----------------------------------------------------------------------------
(* Responses: data, or Fin after the last. *)

DataOrFin_from(data, type, F(_)) ==
  [message |-> Some(IF data = None THEN [type |-> "Fin"]
                    ELSE [type |-> type, body |-> F(data[1])])]

DataOrFin_try_from(w, F(_)) == Bind(w.message, LAMBDA m :
  IF m.type = "Fin" THEN Ok(None) ELSE Transpose(Some(m.body), F))

BlockHeadersResponse_from(d) == DataOrFin_from(d, "Header", SignedBlockHeader_from)
BlockHeadersResponse_try_from(w) == DataOrFin_try_from(w, SignedBlockHeader_try_from)

TransactionsResponse_from(d) ==
  DataOrFin_from(d, "TransactionWithReceipt", TransactionWithReceipt_from)
TransactionsResponse_try_from(w) == DataOrFin_try_from(w, TransactionWithReceipt_try_from)

EventsResponse_from(d) == DataOrFin_from(d, "Event", Event_from)
EventsResponse_try_from(w) == DataOrFin_try_from(w, Event_try_from)

ClassesResponse_from(d) == DataOrFin_from(d, "Class", ContractClass_from)
ClassesResponse_try_from(w) == DataOrFin_try_from(w, ContractClass_try_from)

StateDiffsResponse_from(d) ==
  IF d # None /\ d[1].type = "ContractDiff"
  THEN DataOrFin_from(d, "ContractDiff", ContractDiff_from)
  ELSE DataOrFin_from(d, "DeclaredClass", DeclaredClass_from)
StateDiffsResponse_try_from(w) ==
  IF w.message # None /\ w.message[1].type = "ContractDiff"
  THEN DataOrFin_try_from(w, ContractDiff_try_from)
  ELSE DataOrFin_try_from(w, DeclaredClass_try_from)

-----------------------------------------------------------------------------
(* The values that are sent: in at most two fields they differ from the first
   value of each field. *)

Vary(choices) ==
  LET base == [f \in DOMAIN choices |-> choices[f][1]]
  IN  UNION {{[base EXCEPT ![f] = x, ![g] = y] : x \in ToSet(choices[f]), y \in ToSet(choices[g])} :
             <<f, g>> \in (DOMAIN choices) \X (DOMAIN choices)}

All(names, choices) == [n \in names |-> choices]

Felts == <<3, FELT - 1>>
Addresses == <<5, PATRICIA - 1>>
FeltLists == << <<7>>, << >>, <<FELT - 1, 0>> >>
Optional == << Some(6), None >>
Numbers == <<1, U64 - 1>>

Signed == All({"signature"}, FeltLists)
Priced == All({"max_fee"}, <<1, U128 - 1>>) @@ Signed
Bounds == [max_amount |-> 1, max_price_per_unit |-> U128 - 1]
V3Fields ==
  Signed @@ All({"tip"}, Numbers) @@ All({"nonce"}, Felts) @@ All({"paymaster_data"}, FeltLists)
  @@ All({"resource_bounds"}, << [L1Gas |-> Bounds, L2Gas |-> NoBounds], [L2Gas |-> Bounds] >>)
  @@ All({"nonce_data_availability_mode", "fee_data_availability_mode"}, <<"L1", "L2">>)
DeployFields ==
  All({"class_hash", "contract_address_salt"}, Felts) @@ All({"constructor_calldata"}, FeltLists)
SenderFields == All({"sender_address"}, Addresses) @@ All({"nonce"}, Felts)
CallFields == All({"contract_address"}, Addresses) @@ All({"entry_point_selector"}, Felts)
              @@ All({"calldata"}, FeltLists)
DeclareFields == SenderFields @@ All({"class_hash"}, Felts)

TransactionFields(type) ==
  CASE type = "InvokeV0" -> Priced @@ CallFields
    [] type = "InvokeV1" -> Priced @@ SenderFields @@ All({"calldata"}, FeltLists)
    [] type = "InvokeV3" ->
         V3Fields @@ SenderFields @@ All({"calldata", "account_deployment_data"}, FeltLists)
    [] type \in {"DeclareV0", "DeclareV1"} -> Priced @@ DeclareFields
    [] type = "DeclareV2" -> Priced @@ DeclareFields @@ All({"compiled_class_hash"}, Felts)
    [] type = "DeclareV3" -> V3Fields @@ DeclareFields @@ All({"compiled_class_hash"}, Felts)
                             @@ All({"account_deployment_data"}, FeltLists)
    [] type = "Deploy" -> DeployFields @@ All({"version"}, <<0, 1, U32>>)
    [] type = "DeployAccountV1" -> Priced @@ DeployFields @@ All({"nonce"}, Felts)
    [] type = "DeployAccountV3" -> V3Fields @@ DeployFields
    [] type = "L1Handler" ->
         CallFields @@ All({"nonce"}, Felts) @@ All({"version"}, <<0, 1>>)
TransactionBodies(type) == Vary(TransactionFields(type))

One(S) == CHOOSE v \in S : TRUE

Messages == Vary([from_address |-> Addresses, to_address |-> <<4, 9>>, payload |-> FeltLists])
SomeGas == [l1_gas |-> 1, l1_data_gas |-> 0]
Resources == Vary(
  [steps |-> <<1, 0, U32>>, memory_holes |-> <<0, 1>>,
   builtin_instance_counter |-> << [b \in Builtins |-> 1], [keccak |-> 1], [ecdsa |-> U32] >>]
  @@ All({"gas_consumed", "da_gas_consumed"}, << SomeGas, [l1_gas |-> 0, l1_data_gas |-> U64 - 1] >>))
FewResources == [steps |-> 1, memory_holes |-> 0, builtin_instance_counter |-> [keccak |-> 1],
                 gas_consumed |-> SomeGas, da_gas_consumed |-> SomeGas]

OutputBodies(type) == Vary(
  [actual_fee |-> <<1, U128 - 1>>, messages_sent |-> << << >>, <<One(Messages)>> >>,
   events |-> << << >>, <<"event">> >>, execution_status |-> << None, Some("reverted") >>,
   execution_resources |-> <<FewResources, [FewResources EXCEPT !.steps = U32]>>]
  @@ (IF type \in Deploys THEN All({"contract_address"}, Addresses) ELSE << >>))

HeaderFields ==
  All({"block_hash", "parent_hash", "state_root"}, Felts) @@ All({"sequencer"}, Addresses)
  @@ All({"block_number", "timestamp", "n_transactions", "n_events"}, Numbers)
  @@ All({"l1_gas_price", "l1_data_gas_price"},
         << [price_in_fri |-> 0, price_in_wei |-> U64], [price_in_fri |-> U128 - 1, price_in_wei |-> 1] >>)
  @@ All({"state_diff_commitment", "transaction_commitment", "event_commitment",
          "receipt_commitment", "state_diff_length"}, Optional)
  @@ [l1_da_mode |-> <<"Calldata", "Blob">>, starknet_version |-> <<"v1", "v2">>,
      signatures |-> << << >>, << [r |-> 1, s |-> 2], [r |-> 3, s |-> 4] >> >>]
Headers == Vary(HeaderFields)

ContractDiffs == {Chunk("ContractDiff", body) : body \in Vary(
  All({"contract_address"}, Addresses) @@ All({"class_hash", "nonce"}, Optional)
  @@ [storage_diffs |-> << << >>, << <<2, 1>>, <<1, 0>> >> >>])}
DeclaredClasses ==
  {Chunk("DeclaredClass", body) : body \in Vary(All({"class_hash", "compiled_class_hash"}, Felts))}
  \cup {Chunk("DeprecatedDeclaredClass", body) : body \in Vary(All({"class_hash"}, Felts))}

Points(e) == << << >>, [Constructor |-> <<e>>], [External |-> <<e, e>>, L1Handler |-> << >>] >>
Program == <<1, 2, 3, 4, 5, 6>>
Classes ==
  {[type |-> "Cairo0", body |-> body] : body \in Vary(
     [entry_points_by_type |-> Points([selector |-> 3, offset |-> 1]),
      abi |-> << None, Some("abi") >>, program |-> <<"default", "code">>])}
  \cup {[type |-> "Cairo1", body |-> body] : body \in Vary(
     [entry_points_by_type |-> Points([selector |-> 3, function_idx |-> 1]),
      abi |-> <<"abi", "">>, sierra_program |-> <<Program, Append(Program, 0), << >>, Tail(Program)>>])}

Queries == Vary([start_block |-> << [type |-> "Number", block |-> 1], [type |-> "Hash", block |-> 1] >>,
                 direction |-> <<"Forward", "Backward">>, limit |-> Numbers, step |-> Numbers])

Outputs == UNION {{[type |-> type, body |-> body] : body \in OutputBodies(type)} :
                  type \in DOMAIN ReceiptOf}
SomeTransaction(type) == [type |-> type, body |-> One(TransactionBodies(type))]
ConsensusMessages ==
  {[type |-> "Proposal", body |-> body] : body \in Vary(
     [height |-> Numbers, proposer |-> Addresses, block_hash |-> Felts,
      transactions |-> << << >>, <<SomeTransaction("InvokeV3"), SomeTransaction("DeclareV0")>> >>])}
  \cup {[type |-> "Vote", body |-> body] : body \in Vary(
     [height |-> Numbers, voter |-> Addresses, block_hash |-> Felts,
      vote_type |-> <<"Prevote", "Precommit">>])}

Conversions == TransactionTypes \cup
  {"ResourceBounds", "Receipt", "MessageToL1", "ExecutionResources", "Header", "ContractDiff",
   "DeclaredClass", "Event", "Class", "Request", "Consensus", "HeadersResponse",
   "TransactionsResponse", "StateDiffsResponse", "EventsResponse", "ClassesResponse"}

Events == Vary(All({"transaction_hash"}, Felts) @@ All({"from_address"}, Addresses)
               @@ All({"keys", "data"}, FeltLists))

(* A response: what the conversion of its data does is checked on its own. *)
Response(S) == {None} \cup {Some(d) : d \in S}

Values(t) ==
  CASE t \in TransactionTypes -> TransactionBodies(t)
    [] t = "ResourceBounds" -> Vary(All({"L1Gas", "L2Gas"}, << Bounds, NoBounds >>))
    [] t = "Receipt" -> Outputs
    [] t = "MessageToL1" -> Messages
    [] t = "ExecutionResources" -> Resources
    [] t = "Header" -> Headers
    [] t = "ContractDiff" -> ContractDiffs
    [] t = "DeclaredClass" -> DeclaredClasses
    [] t = "Event" -> Events
    [] t = "Class" -> Classes
    [] t = "Request" -> Queries
    [] t = "Consensus" -> ConsensusMessages
    [] t = "HeadersResponse" -> Response({One(Headers)})
    [] t = "TransactionsResponse" ->
         Response({[transaction |-> x, output |-> One(Outputs)] : x \in {SomeTransaction(type) : type \in TransactionTypes}})
    [] t = "StateDiffsResponse" -> Response(ContractDiffs) \cup Response(DeclaredClasses)
    [] t = "EventsResponse" -> Response({One(Events)})
    [] t = "ClassesResponse" -> Response({One(Classes)})

From(t, v) ==
  CASE t \in TransactionTypes -> TxnBody_from(t, v)
    [] t = "ResourceBounds" -> ResourceBounds_from(v)
    [] t = "Receipt" -> Receipt_from(v)
    [] t = "MessageToL1" -> MessageToL1_from(v)
    [] t = "ExecutionResources" -> ExecutionResources_from(v)
    [] t = "Header" -> SignedBlockHeader_from(v)
    [] t = "ContractDiff" -> ContractDiff_from(v)
    [] t = "DeclaredClass" -> DeclaredClass_from(v)
    [] t = "Event" -> Event_from(v)
    [] t = "Class" -> ContractClass_from(v)
    [] t = "Request" -> Request_from(v)
    [] t = "Consensus" -> ConsensusMessage_from(v)
    [] t = "HeadersResponse" -> BlockHeadersResponse_from(v)
    [] t = "TransactionsResponse" -> TransactionsResponse_from(v)
    [] t = "StateDiffsResponse" -> StateDiffsResponse_from(v)
    [] t = "EventsResponse" -> EventsResponse_from(v)
    [] t = "ClassesResponse" -> ClassesResponse_from(v)

TryFrom(t, w) ==
  CASE t \in TransactionTypes -> TxnBody_try_from(t, w)
    [] t = "ResourceBounds" -> ResourceBounds_try_from(w)
    [] t = "Receipt" -> Receipt_try_from(w)
    [] t = "MessageToL1" -> MessageToL1_try_from(w)
    [] t = "ExecutionResources" -> ExecutionResources_try_from(w)
    [] t = "Header" -> SignedBlockHeader_try_from(w)
    [] t = "ContractDiff" -> ContractDiff_try_from(w)
    [] t = "DeclaredClass" -> DeclaredClass_try_from(w)
    [] t = "Event" -> Event_try_from(w)
    [] t = "Class" -> ContractClass_try_from(w)
    [] t = "Request" -> Request_try_from(w)
    [] t = "Consensus" -> ConsensusMessage_try_from(w)
    [] t = "HeadersResponse" -> BlockHeadersResponse_try_from(w)
    [] t = "TransactionsResponse" -> TransactionsResponse_try_from(w)
    [] t = "StateDiffsResponse" -> StateDiffsResponse_try_from(w)
    [] t = "EventsResponse" -> EventsResponse_try_from(w)
    [] t = "ClassesResponse" -> ClassesResponse_try_from(w)

(* Sending these panics. *)
Panics(t, v) ==
  CASE t = "ExecutionResources" -> ResourcesTooLarge(v)
    [] t = "Receipt" -> ResourcesTooLarge(v.body.execution_resources)
    [] t = "Class" -> v.type = "Cairo1" /\ Len(v.body.sierra_program) < VersionLength
    [] OTHER -> FALSE

-----------------------------------------------------------------------------
(* The exchange: a node sends the value to a peer, which passes on what it has
   received.  On the first way, one field of the message may be left out, hold a
   number that is too large, a felt that is not reduced or a byte string of
   another length, or have a key twice. *)

(* The fields of the messages that protobuf lets a sender leave out. *)
OptionalFields ==
  {"max_fee", "signature", "sender", "nonce", "class_hash", "compiled_class_hash", "address",
   "address_salt", "entry_point_selector", "resource_bounds", "l1_gas", "l2_gas", "type",
   "from_address", "to_address", "builtins", "gas_consumed", "da_gas_consumed", "block_hash",
   "parent_hash", "sequencer_address", "state_root", "state_diff_commitment", "transactions",
   "events", "receipts", "gas_price_wei", "gas_price_fri", "data_gas_price_wei",
   "data_gas_price_fri", "transaction_hash", "class", "iteration", "message"}

(* The first number that is too large for a field. *)
Limits == [max_fee |-> Some(U128), sender |-> Some(PATRICIA), address |-> Some(PATRICIA),
           from_address |-> Some(PATRICIA), sequencer_address |-> Some(PATRICIA),
           l1_gas |-> Some([max_amount |-> 1, max_price_per_unit |-> Some(U128)]),
           nonce_data_availability_mode |-> 2, fee_data_availability_mode |-> 2,
           l1_data_availability_mode |-> 2]

(* The fields with byte strings, one or a list. *)
Felt252Fields == {"max_fee", "nonce", "address_salt", "entry_point_selector", "from_address",
                  "calldata", "payload", "keys", "data", "paymaster_data",
                  "account_deployment_data"}
HashFields == {"class_hash", "compiled_class_hash", "block_hash", "parent_hash", "state_root",
               "receipts", "transaction_hash"}
AddressFields == {"sender", "address", "sequencer_address"}

ExchangeInit == \E t \in Conversions : \E v \in Values(t) :
  exchange = [type |-> t, sent |-> v, held |-> Some(v), message |-> None, hops |-> 0,
              fault |-> "none", field |-> "none", first |-> None, panicked |-> FALSE]

Send ==
  /\ exchange.hops < 2 /\ exchange.held # None /\ exchange.message = None /\ ~exchange.panicked
  /\ exchange' = IF Panics(exchange.type, exchange.held[1])
                 THEN [exchange EXCEPT !.panicked = TRUE]
                 ELSE [exchange EXCEPT !.message = Some(From(exchange.type, exchange.held[1]))]

Alter(fault, fields, Value(_, _)) ==
  /\ exchange.message # None /\ exchange.hops = 0 /\ exchange.fault = "none"
  /\ \E f \in fields \cap DOMAIN exchange.message[1] :
       LET value == exchange.message[1][f]
       IN  /\ value # Value(f, value)
           /\ exchange' = [exchange EXCEPT !.message[1][f] = Value(f, value),
                                           !.fault = fault, !.field = f]

Present(fields) ==
  {f \in fields \cap DOMAIN exchange.message[1] : exchange.message[1][f] # None}

LeaveOut == Alter("left out", OptionalFields, LAMBDA f, value : None)
OutOfRange == Alter("out of range", DOMAIN Limits, LAMBDA f, value : Limits[f])
NotReduced == Alter("not reduced", Present(Felt252Fields \cup HashFields \cup AddressFields),
                    LAMBDA f, value : [value EXCEPT ![1] = @ + FELT])
OfOtherLength == Alter("other length",
                       Present(Felt252Fields \cup HashFields \cup AddressFields \cup {"to_address"}),
                       LAMBDA f, value : [value EXCEPT ![1] = WrongLength])
KeyTwice == Alter("key twice", Present({"values"}),
                  LAMBDA f, value : Append(value, [value[1] EXCEPT !.value = Some(FELT - 1)]))

Receive ==
  LET received == TryFrom(exchange.type, exchange.message[1])
  IN  /\ exchange.message # None
      /\ exchange' = [exchange EXCEPT !.held = IF Returns(received) THEN received ELSE None,
                                      !.message = None, !.hops = @ + 1,
                                      !.first = IF exchange.hops = 0 THEN received ELSE @]

ExchangeNext ==
  Send \/ LeaveOut \/ OutOfRange \/ NotReduced \/ OfOtherLength \/ KeyTwice \/ Receive

-----------------------------------------------------------------------------
(* What is lost on the way: the nonce of a declare of version 0, the version of
   an L1 handler and of a deploy that is no u32, the events of an output, counters
   of builtins, the abi and program of a Cairo 0 class, half a state diff
   commitment.  A header without the commitments to its transactions and events
   is refused. *)

BothResources(m) == [r \in {"L1Gas", "L2Gas"} |-> IF r \in DOMAIN m THEN m[r] ELSE NoBounds]
KnownCounters(r) ==
  LET m == r.builtin_instance_counter
  IN  [r EXCEPT !.builtin_instance_counter =
         [b \in Builtins |-> IF b \in DOMAIN m /\ b \in SentBuiltins THEN m[b] ELSE 0]]
UsedTypes(points) == [type \in {p \in DOMAIN points : points[p] # << >>} |-> points[type]]

TransactionReceived(t, v) ==
  CASE t = "DeclareV0" -> [v EXCEPT !.nonce = 0]
    [] t = "L1Handler" -> [v EXCEPT !.version = 0]
    [] t = "Deploy" -> [v EXCEPT !.version = IF @ < U32 THEN @ ELSE 0]
    [] t \in PricedInFri -> [v EXCEPT !.resource_bounds = BothResources(@)]
    [] OTHER -> v
OutputReceived(o) == [o EXCEPT !.body.events = << >>, !.body.execution_resources = KnownCounters(@)]
HeaderReceived(h) ==
  IF h.transaction_commitment = None \/ h.event_commitment = None THEN Err
  ELSE IF h.state_diff_commitment # None /\ h.state_diff_length # None THEN Ok(h)
  ELSE Ok([h EXCEPT !.state_diff_commitment = None, !.state_diff_length = None])
ClassReceived(c) ==
  IF c.type = "Cairo0" THEN [c EXCEPT !.body.entry_points_by_type = UsedTypes(@),
                                      !.body.abi = None, !.body.program = "default"]
  ELSE [c EXCEPT !.body.entry_points_by_type = UsedTypes(@)]
Tagged(x) == [x EXCEPT !.body = TransactionReceived(x.type, @)]

AsReceived(t, v) ==
  CASE t \in TransactionTypes -> Ok(TransactionReceived(t, v))
    [] t = "Receipt" -> Ok(OutputReceived(v))
    [] t = "ExecutionResources" -> Ok(KnownCounters(v))
    [] t = "Header" -> HeaderReceived(v)
    [] t = "Class" -> Ok(ClassReceived(v))
    [] t = "Consensus" ->
         Ok(IF v.type = "Vote" THEN v ELSE [v EXCEPT !.body.transactions = Map(@, Tagged)])
    [] t = "TransactionsResponse" /\ v # None ->
         Ok(Some([transaction |-> Tagged(v[1].transaction), output |-> OutputReceived(v[1].output)]))
    [] t = "ClassesResponse" /\ v # None -> Ok(Some(ClassReceived(v[1])))
    [] OTHER -> Ok(v)

(* A message without the field f: an error, unless the field may be missing. *)
ReceivedWithout(t, f, v) ==
  CASE t = "ContractDiff" /\ f \in {"class_hash", "nonce"} -> Ok([v EXCEPT !.body[f] = None])
    [] t = "DeclaredClass" /\ f = "compiled_class_hash" ->
         Ok(Chunk("DeprecatedDeclaredClass", [class_hash |-> v.body.class_hash]))
    [] t = "Header" /\ f = "receipts" -> AsReceived(t, [v EXCEPT !.receipt_commitment = None])
    [] t = "Header" /\ f = "state_diff_commitment" ->
         AsReceived(t, [v EXCEPT !.state_diff_commitment = None])
    [] OTHER -> Err

(* A number out of range is refused, but for the sender of a message to L1, and
   a byte string of another length, but for a Felt252: those panic. *)
ReceivedOutOfRange(t) == IF t = "MessageToL1" THEN Panic ELSE Err
ReceivedOfOtherLength(f) == IF f \in Felt252Fields THEN Panic ELSE Err

(* A storage key that comes twice has the later value. *)
ReceivedKeyTwice(v) == Ok([v EXCEPT !.body.storage_diffs[1][2] = FELT - 1])

(* What a peer decodes is what was sent, but for the losses above.  A message
   that lacks a required field is refused and never filled up; one with a number
   that its type does not hold is refused, or stops the receiver where the code
   expects otherwise, and is never cut down, but for a felt that is not reduced,
   which is taken for its remainder; of a key that comes twice the later value
   counts.  What a peer has received it passes on unchanged and without a panic,
   so nodes that sync from each other agree (converters/*.rs). *)
MessagesSurvive ==
  LET e == exchange
  IN  /\ e.hops > 0 => e.first = CASE e.fault = "none" -> AsReceived(e.type, e.sent)
                                   [] e.fault = "left out" -> ReceivedWithout(e.type, e.field, e.sent)
                                   [] e.fault = "not reduced" -> AsReceived(e.type, e.sent)
                                   [] e.fault = "out of range" -> ReceivedOutOfRange(e.type)
                                   [] e.fault = "other length" -> ReceivedOfOtherLength(e.field)
                                   [] e.fault = "key twice" -> ReceivedKeyTwice(e.sent)
      /\ e.hops = 2 => e.held = e.first
      /\ e.panicked => e.hops = 0
=============================================================================
