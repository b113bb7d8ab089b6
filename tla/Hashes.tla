------------------------------- MODULE Hashes -------------------------------
(***************************************************************************)
(* The hashes of transactions and blocks (papyrus_common: transaction_hash *)
(* and block_hash): what each chains, in which order, and which hashes of   *)
(* the past a validation accepts.  The hash functions are ideal, so a hash  *)
(* is the function's name and what it is applied to; a field element is a   *)
(* number in a sequence, a short string or a hash.                          *)
(***************************************************************************)
EXTENDS Converters

VARIABLE sealed

Felt(n) == <<n>>
ascii_as_felt(s) == <<"ascii", s>>
get_pedersen_hash(chain) == <<"pedersen", chain>>
get_poseidon_hash(chain) == <<"poseidon", chain>>
PedersenOfPair(x, y) == <<"pair", <<x, y>> >>
chain_if(condition, felt) == IF condition THEN <<felt>> ELSE << >>
FeltsOf(s) == Map(s, Felt)

ZERO == Felt(0)
CONSTRUCTOR_ENTRY_POINT_SELECTOR == <<"ascii", "constructor">>

(* Of the external starknet_api: the address of a contract that no contract
   deployed, and the root of the tree with these leaves. *)
calculate_contract_address(body) ==
  <<"address", <<Felt(body.contract_address_salt), Felt(body.class_hash),
                 FeltsOf(body.constructor_calldata)>> >>
calculate_root(leaves) == IF leaves = << >> THEN ZERO ELSE <<"root", leaves>>

-----------------------------------------------------------------------------
(* The hash of a transaction. *)

VersionOf ==
  [DeclareV0 |-> 0, DeclareV1 |-> 1, DeclareV2 |-> 2, DeclareV3 |-> 3, DeployAccountV1 |-> 1,
   DeployAccountV3 |-> 3, InvokeV0 |-> 0, InvokeV1 |-> 1, InvokeV3 |-> 3]

get_tx_version(t, only_query) ==
  Felt((IF t.type \in DOMAIN VersionOf THEN VersionOf[t.type] ELSE t.body.version)
       + (IF only_query THEN U128 ELSE 0))

L1_GAS == 1
L2_GAS == 2
get_concat_resource(bounds, name) ==
  Felt((name * U64 + bounds.max_amount) * U128 + bounds.max_price_per_unit)

get_tip_resource_bounds_hash(bounds, tip) == get_poseidon_hash(
  <<Felt(tip), get_concat_resource(bounds.L1Gas, L1_GAS), get_concat_resource(bounds.L2Gas, L2_GAS)>>)

data_availability_mode_index(mode) == IF mode = "L1" THEN 0 ELSE 1

(* Mutant: the two modes are added up without the shift. *)
concat_data_availability_modeMutant(nonce_mode, fee_mode) ==
  Felt(data_availability_mode_index(fee_mode) + data_availability_mode_index(nonce_mode))

concat_data_availability_mode(nonce_mode, fee_mode) ==
  Felt(data_availability_mode_index(fee_mode) + data_availability_mode_index(nonce_mode) * U32)

Modes(b) == concat_data_availability_mode(b.nonce_data_availability_mode, b.fee_data_availability_mode)
TipAndBounds(b) == get_tip_resource_bounds_hash(b.resource_bounds, b.tip)
PedersenOf(s) == get_pedersen_hash(FeltsOf(s))
PoseidonOf(s) == get_poseidon_hash(FeltsOf(s))

get_common_deploy_transaction_hash(b, chain_id, is_deprecated, version) == get_pedersen_hash(
  <<ascii_as_felt("deploy")>> \o chain_if(~is_deprecated, version)
  \o <<calculate_contract_address(b), CONSTRUCTOR_ENTRY_POINT_SELECTOR,
       PedersenOf(b.constructor_calldata)>>
  \o chain_if(~is_deprecated, ZERO) \o <<ascii_as_felt(chain_id)>>)

get_common_invoke_transaction_v0_hash(b, chain_id, is_deprecated, version) == get_pedersen_hash(
  <<ascii_as_felt("invoke")>> \o chain_if(~is_deprecated, version)
  \o <<Felt(b.contract_address), Felt(b.entry_point_selector), PedersenOf(b.calldata)>>
  \o chain_if(~is_deprecated, Felt(b.max_fee)) \o <<ascii_as_felt(chain_id)>>)

get_invoke_transaction_v1_hash(b, chain_id, version) == get_pedersen_hash(
  <<ascii_as_felt("invoke"), version, Felt(b.sender_address), ZERO, PedersenOf(b.calldata),
    Felt(b.max_fee), ascii_as_felt(chain_id), Felt(b.nonce)>>)

get_invoke_transaction_v3_hash(b, chain_id, version) == get_poseidon_hash(
  <<ascii_as_felt("invoke"), version, Felt(b.sender_address), TipAndBounds(b),
    PoseidonOf(b.paymaster_data), ascii_as_felt(chain_id), Felt(b.nonce), Modes(b),
    PoseidonOf(b.account_deployment_data), PoseidonOf(b.calldata)>>)

(* The hash of an L1 handler has had three forms. *)
AsInvoke == 0
V0Deprecated == 1
V0 == 2
get_common_l1_handler_transaction_hash(b, chain_id, form, version) == get_pedersen_hash(
  <<ascii_as_felt(IF form = AsInvoke THEN "invoke" ELSE "l1_handler")>>
  \o chain_if(form > V0Deprecated, version)
  \o <<Felt(b.contract_address), Felt(b.entry_point_selector), PedersenOf(b.calldata)>>
  \o chain_if(form > V0Deprecated, ZERO) \o <<ascii_as_felt(chain_id)>>
  \o chain_if(form > AsInvoke, Felt(b.nonce)))

get_declare_transaction_v0_hash(b, chain_id, version) == get_pedersen_hash(
  <<ascii_as_felt("declare"), version, Felt(b.sender_address), ZERO, get_pedersen_hash(<< >>),
    Felt(b.max_fee), ascii_as_felt(chain_id), Felt(b.class_hash)>>)

get_declare_transaction_v1_hash(b, chain_id, version) == get_pedersen_hash(
  <<ascii_as_felt("declare"), version, Felt(b.sender_address), ZERO,
    get_pedersen_hash(<<Felt(b.class_hash)>>), Felt(b.max_fee), ascii_as_felt(chain_id),
    Felt(b.nonce)>>)

get_declare_transaction_v2_hash(b, chain_id, version) == get_pedersen_hash(
  <<ascii_as_felt("declare"), version, Felt(b.sender_address), ZERO,
    get_pedersen_hash(<<Felt(b.class_hash)>>), Felt(b.max_fee), ascii_as_felt(chain_id),
    Felt(b.nonce), Felt(b.compiled_class_hash)>>)

get_declare_transaction_v3_hash(b, chain_id, version) == get_poseidon_hash(
  <<ascii_as_felt("declare"), version, Felt(b.sender_address), TipAndBounds(b),
    PoseidonOf(b.paymaster_data), ascii_as_felt(chain_id), Felt(b.nonce), Modes(b),
    PoseidonOf(b.account_deployment_data), Felt(b.class_hash), Felt(b.compiled_class_hash)>>)

get_deploy_account_transaction_v1_hash(b, chain_id, version) == get_pedersen_hash(
  <<ascii_as_felt("deploy_account"), version, calculate_contract_address(b), ZERO,
    PedersenOf(<<b.class_hash, b.contract_address_salt>> \o b.constructor_calldata),
    Felt(b.max_fee), ascii_as_felt(chain_id), Felt(b.nonce)>>)

(* Here the modes come before the nonce. *)
get_deploy_account_transaction_v3_hash(b, chain_id, version) == get_poseidon_hash(
  <<ascii_as_felt("deploy_account"), version, calculate_contract_address(b), TipAndBounds(b),
    PoseidonOf(b.paymaster_data), ascii_as_felt(chain_id), Modes(b), Felt(b.nonce),
    PoseidonOf(b.constructor_calldata), Felt(b.class_hash), Felt(b.contract_address_salt)>>)

get_transaction_hash(t, chain_id, only_query) ==
  LET version == get_tx_version(t, only_query)
  IN  CASE t.type = "DeclareV0" -> get_declare_transaction_v0_hash(t.body, chain_id, version)
        [] t.type = "DeclareV1" -> get_declare_transaction_v1_hash(t.body, chain_id, version)
        [] t.type = "DeclareV2" -> get_declare_transaction_v2_hash(t.body, chain_id, version)
        [] t.type = "DeclareV3" -> get_declare_transaction_v3_hash(t.body, chain_id, version)
        [] t.type = "Deploy" ->
             get_common_deploy_transaction_hash(t.body, chain_id, FALSE, version)
        [] t.type = "DeployAccountV1" ->
             get_deploy_account_transaction_v1_hash(t.body, chain_id, version)
        [] t.type = "DeployAccountV3" ->
             get_deploy_account_transaction_v3_hash(t.body, chain_id, version)
        [] t.type = "InvokeV0" ->
             get_common_invoke_transaction_v0_hash(t.body, chain_id, FALSE, version)
        [] t.type = "InvokeV1" -> get_invoke_transaction_v1_hash(t.body, chain_id, version)
        [] t.type = "InvokeV3" -> get_invoke_transaction_v3_hash(t.body, chain_id, version)
        [] t.type = "L1Handler" ->
             get_common_l1_handler_transaction_hash(t.body, chain_id, V0, version)

(* The block of mainnet that ends the deprecated hashes.  By its comment there
   are none from this block on; the test below still takes them in it. *)
MAINNET_TRANSACTION_HASH_WITH_VERSION == 1

get_deprecated_transaction_hashes(chain_id, block_number, t, only_query) ==
  LET version == get_tx_version(t, only_query)
  IN  IF chain_id = "Mainnet" /\ block_number > MAINNET_TRANSACTION_HASH_WITH_VERSION THEN << >>
      ELSE CASE t.type = "Deploy" ->
                  <<get_common_deploy_transaction_hash(t.body, chain_id, TRUE, version)>>
             [] t.type = "InvokeV0" ->
                  <<get_common_invoke_transaction_v0_hash(t.body, chain_id, TRUE, version)>>
             [] t.type = "L1Handler" ->
                  <<get_common_l1_handler_transaction_hash(t.body, chain_id, AsInvoke, version),
                    get_common_l1_handler_transaction_hash(t.body, chain_id, V0Deprecated, version)>>
             [] OTHER -> << >>

possible_hashes(t, block_number, chain_id, only_query) ==
  Append(get_deprecated_transaction_hashes(chain_id, block_number, t, only_query),
         get_transaction_hash(t, chain_id, only_query))

validate_transaction_hash(t, block_number, chain_id, expected_hash, only_query) ==
  expected_hash \in ToSet(possible_hashes(t, block_number, chain_id, only_query))

-----------------------------------------------------------------------------
(* The hash of a block header has had four versions, and so have the commitments
   to the transactions and the events of its body. *)

BlockHashVersions == <<3, 2, 1, 0>>  \* in the order they are tried

DEFAULT_SEQUENCER == 0
MAINNET_SEQUENCER == PATRICIA - 1

(* On other chains, a header of version 2 without its sequencer panics. *)
SequencerUnknown(header, version, chain_id) ==
  header.sequencer = DEFAULT_SEQUENCER /\ version = 2 /\ chain_id # "Mainnet"

calculate_block_hash_by_version(header, version, chain_id) ==
  IF header.transaction_commitment = None \/ header.event_commitment = None THEN Err
  ELSE Ok(get_pedersen_hash(
    <<Felt(header.block_number), Felt(header.state_root),
      Felt(IF header.sequencer # DEFAULT_SEQUENCER \/ version # 2
           THEN header.sequencer ELSE MAINNET_SEQUENCER),
      IF version >= 1 THEN Felt(header.timestamp) ELSE ZERO,
      Felt(header.n_transactions), Felt(header.transaction_commitment[1]),
      Felt(header.n_events), Felt(header.event_commitment[1]), ZERO, ZERO>>
    \o chain_if(version = 0, ascii_as_felt(chain_id)) \o <<Felt(header.parent_hash)>>))

validate_header(header, chain_id, block_hash) ==
  LET HashOf(version) == calculate_block_hash_by_version(header, version, chain_id)
      stops == {i \in DOMAIN BlockHashVersions :
                  \/ SequencerUnknown(header, BlockHashVersions[i], chain_id)
                  \/ HashOf(BlockHashVersions[i]) \in {Err, Ok(block_hash)}}
      first == CHOOSE i \in stops : \A j \in stops : i <= j
  IN  IF stops = {} THEN "invalid"
      ELSE IF SequencerUnknown(header, BlockHashVersions[first], chain_id) THEN "panic"
      ELSE IF HashOf(BlockHashVersions[first]) = Err THEN "error" ELSE "valid"

(* A body is a sequence: the type, signature and hash of each transaction and the
   events of its output. *)
HasSignature(t) == t.type \notin {"Deploy", "L1Handler"}
IsInvoke(t) == t.type \in {"InvokeV0", "InvokeV1", "InvokeV3"}

get_transaction_leaf(t, version) ==
  LET signature == IF (version >= 3 /\ HasSignature(t)) \/ IsInvoke(t) THEN t.signature ELSE << >>
  IN  PedersenOfPair(Felt(t.hash), PedersenOf(signature))

calculate_transaction_commitment_by_version(body, version) ==
  calculate_root(Map(body, LAMBDA t : get_transaction_leaf(t, version)))

get_event_leaf(e) ==
  get_pedersen_hash(<<Felt(e.from_address), PedersenOf(e.keys), PedersenOf(e.data)>>)

EventsOf(body) == FlattenSeq(Map(body, LAMBDA t : t.events))

calculate_event_commitment_by_version(body, version) ==
  IF version < 1 THEN ZERO ELSE calculate_root(Map(EventsOf(body), get_event_leaf))

Commitments(body, version) ==
  <<calculate_transaction_commitment_by_version(body, version),
    calculate_event_commitment_by_version(body, version)>>

validate_body(body, commitments) ==
  IF \E i \in DOMAIN BlockHashVersions : Commitments(body, BlockHashVersions[i]) = commitments
  THEN "valid" ELSE "invalid"

-----------------------------------------------------------------------------
(* A transaction, a header or a body is sealed: hashed in one of the ways of its
   time.  Later it, or another one, is shown with that seal, and validated. *)

Near(choices) ==
  LET base == [f \in DOMAIN choices |-> choices[f][1]]
  IN  UNION {{[base EXCEPT ![f] = x] : x \in ToSet(choices[f])} : f \in DOMAIN choices}

ChainIds == {"Mainnet", "Sepolia"}
BlockNumbers == {0, 1, 2}

(* What is hashed has bounds for both resources. *)
FullBounds == [resource_bounds |-> << [L1Gas |-> Bounds, L2Gas |-> NoBounds],
                                      [L1Gas |-> NoBounds, L2Gas |-> Bounds],
                                      [L1Gas |-> [Bounds EXCEPT !.max_amount = 2], L2Gas |-> NoBounds] >>]
HashedFields(type) ==
  IF "resource_bounds" \in DOMAIN TransactionFields(type) THEN FullBounds @@ TransactionFields(type)
  ELSE TransactionFields(type)
Variants(type) == {[type |-> type, body |-> body] : body \in Near(HashedFields(type))}
Base(type) == [type |-> type, body |-> [f \in DOMAIN HashedFields(type) |-> HashedFields(type)[f][1]]]

SealedHeaders == UNION {Near([sequencer |-> addresses] @@ HeaderFields) :
                          addresses \in {<<5, MAINNET_SEQUENCER, 0>>, <<0, MAINNET_SEQUENCER>>}}

Entries(Of(_)) ==
  Of([type |-> <<"InvokeV1", "DeclareV2">>, signature |-> << <<7>>, << >> >>, hash |-> <<1, 2>>,
      events |-> << << >>, << [from_address |-> 5, keys |-> <<7>>, data |-> <<8>>] >>,
                    << [from_address |-> 5, keys |-> <<7, 8>>, data |-> << >>] >> >>])
Bodies == {<< >>} \cup {<<t>> : t \in Entries(Vary)}
          \cup {<<t, u>> : t \in Entries(Vary), u \in {t \in Entries(Near) : t.hash = 1 /\ IsInvoke(t)}}

Sealed(kind, item, how, seal) ==
  [kind |-> kind, item |-> item, how |-> how, seal |-> seal, shown |-> None, verdict |-> "none"]

SealInit ==
  \/ \E type \in TransactionTypes, chain \in ChainIds, number \in BlockNumbers, query \in BOOLEAN :
       \E t \in Variants(type) :
         LET hashes == possible_hashes(t, number, chain, query)
         IN  \E i \in DOMAIN hashes : sealed = Sealed("transaction", t,
               [chain_id |-> chain, block_number |-> number, only_query |-> query,
                current |-> i = Len(hashes)], hashes[i])
  \/ \E header \in SealedHeaders, chain \in ChainIds, version \in ToSet(BlockHashVersions) :
       LET hash == calculate_block_hash_by_version(header, version, chain)
       IN  /\ ~SequencerUnknown(header, version, chain) /\ hash # Err
           /\ sealed = Sealed("header", header, [chain_id |-> chain, version |-> version], hash[1])
  \/ \E body \in Bodies, version \in ToSet(BlockHashVersions) :
       sealed = Sealed("body", body, [version |-> version], Commitments(body, version))

Show(item, how, verdict) ==
  sealed' = [sealed EXCEPT !.shown = Some([item |-> item, how |-> how]), !.verdict = verdict]

(* Another variant of the transaction, one of another type with the same values,
   or the same one on another chain, in another block or with the other option. *)
ShowTransaction ==
  /\ sealed.kind = "transaction" /\ sealed.shown = None
  /\ \E chain \in ChainIds, number \in BlockNumbers, query \in BOOLEAN :
       LET how == [chain_id |-> chain, block_number |-> number, only_query |-> query]
           moved == \E f \in DOMAIN how : how[f] # sealed.how[f]
       IN  \E t \in IF moved THEN {sealed.item}
                    ELSE Variants(sealed.item.type) \cup {Base(type) : type \in TransactionTypes} :
             Show(t, how, IF validate_transaction_hash(t, number, chain, sealed.seal, query)
                          THEN "valid" ELSE "invalid")

ShowHeader ==
  /\ sealed.kind = "header" /\ sealed.shown = None
  /\ \E header \in SealedHeaders, chain \in ChainIds :
       Show(header, [chain_id |-> chain], validate_header(header, chain, sealed.seal))

ShowBody ==
  /\ sealed.kind = "body" /\ sealed.shown = None
  /\ \E body \in Bodies : Show(body, << >>, validate_body(body, sealed.seal))

SealNext == ShowTransaction \/ ShowHeader \/ ShowBody

-----------------------------------------------------------------------------
(* What a seal binds.  The hash of today: all of a transaction but its signature
   and, for a declare of version 0, its nonce.  A hash of the past: the call, or
   the contract that is deployed, and nothing that tells a call by an account from
   one by L1; it counts in the blocks before MAINNET_TRANSACTION_HASH_WITH_VERSION
   and in none after it.  In that block itself the code counts it, against the
   comment, and nothing is said of it here. *)
Bound(t) ==
  [type |-> t.type,
   body |-> [f \in DOMAIN t.body \ ({"signature"} \cup IF t.type = "DeclareV0" THEN {"nonce"} ELSE {})
               |-> t.body[f]]]

EntryPointCalls == {"InvokeV0", "L1Handler"}
SameDeed(t, u) ==
  LET Deed(type) == IF type \in EntryPointCalls THEN {"contract_address", "entry_point_selector", "calldata"}
                    ELSE {"class_hash", "contract_address_salt", "constructor_calldata"}
  IN  /\ {t.type, u.type} \subseteq EntryPointCalls \/ t.type = u.type
      /\ \A f \in Deed(t.type) : t.body[f] = u.body[f]

TransactionsBound ==
  LET t == sealed.item
      u == sealed.shown[1].item
      sameContext == \A f \in {"chain_id", "only_query"} : sealed.how[f] = sealed.shown[1].how[f]
      onMainnet == sealed.shown[1].how.chain_id = "Mainnet"
      number == sealed.shown[1].how.block_number
      early == ~onMainnet \/ number < MAINNET_TRANSACTION_HASH_WITH_VERSION
      late == onMainnet /\ number > MAINNET_TRANSACTION_HASH_WITH_VERSION
  IN  IF sealed.how.current
      THEN sealed.verdict = "valid" <=> (sameContext /\ t.type = u.type /\ Bound(t) = Bound(u))
      ELSE /\ sealed.verdict = "valid" =>
                ~late /\ sealed.how.chain_id = sealed.shown[1].how.chain_id /\ SameDeed(t, u)
           /\ (t.type = u.type /\ t = u /\ sameContext /\ early) => sealed.verdict = "valid"

(* A header: its version 0 binds the chain and not the timestamp, the others the
   timestamp and not the chain, and version 2 takes the sequencer of mainnet for none. *)
HeadersBound ==
  LET h == sealed.item
      g == sealed.shown[1].item
      chain == sealed.shown[1].how.chain_id
      always == {"block_number", "state_root", "n_transactions", "transaction_commitment",
                 "n_events", "event_commitment", "parent_hash"}
  IN  /\ sealed.verdict = "valid" =>
            /\ \A f \in always : h[f] = g[f]
            /\ IF sealed.how.version = 0 THEN chain = sealed.how.chain_id ELSE h.timestamp = g.timestamp
            /\ h.sequencer = g.sequencer
               \/ {h.sequencer, g.sequencer} = {DEFAULT_SEQUENCER, MAINNET_SEQUENCER}
      /\ h = g /\ chain = sealed.how.chain_id =>
            \/ sealed.verdict = "valid"
            \/ /\ sealed.verdict = "panic" /\ sealed.how.version = 0
               /\ h.sequencer = DEFAULT_SEQUENCER /\ chain # "Mainnet"

(* A body: its transactions in their order, the signatures of the invokes, the
   other signatures if version 3 has committed to some, and the events in their
   order, in whichever output, if there are any and the version commits to them. *)
BodiesBound ==
  LET b == sealed.item
      c == sealed.shown[1].item
      Signatures(body) == [i \in DOMAIN body |-> body[i].signature]
      others == \E i \in DOMAIN b : ~IsInvoke(b[i]) /\ b[i].signature # << >>
  IN  /\ sealed.verdict = "valid" =>
            /\ Map(b, LAMBDA t : t.hash) = Map(c, LAMBDA t : t.hash)
            /\ \A i \in DOMAIN b : (IsInvoke(b[i]) /\ IsInvoke(c[i])) => b[i].signature = c[i].signature
            /\ (sealed.how.version = 3 /\ others) => Signatures(b) = Signatures(c)
            /\ (sealed.how.version >= 1 /\ EventsOf(b) # << >>) => EventsOf(b) = EventsOf(c)
      /\ b = c => sealed.verdict = "valid"

(* A seal is accepted for what was sealed, and for nothing that differs from it in
   what its version binds: no two fields of a hash chain can be exchanged, run
   together or left out, and no hash of the past is one of today's. *)
SealsBind ==
  sealed.shown # None =>
    CASE sealed.kind = "transaction" -> TransactionsBound
      [] sealed.kind = "header" -> HeadersBound
      [] sealed.kind = "body" -> BodiesBound
=============================================================================
