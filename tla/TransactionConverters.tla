------------------------ MODULE TransactionConverters ------------------------
(***************************************************************************)
(* The conversions of transactions and receipts to and from the protobuf   *)
(* messages the peers exchange (papyrus_protobuf/src/converters): X_from    *)
(* gives the message of a value, X_try_from the value of a message or an    *)
(* error.  An optional field of a message, and the result of a conversion,  *)
(* is a sequence of at most one value.  A byte string of a message is the   *)
(* number its bytes hold, which may be the prime or larger, or WrongLength; *)
(* the widths of numbers are scaled down.                                   *)
(***************************************************************************)
EXTENDS Integers, Sequences, TLC

U32 == 2
U64 == 4
U128 == U64 * U64
PATRICIA == 32   \* the bound of a PatriciaKey
FELT == 40       \* the prime
WrongLength == -1

Some(x) == <<x>>
None == << >>
Ok(x) == <<x>>
Err == << >>
Panic == <<"panic", "panic">>   \* the conversion does not return
Returns(r) == Len(r) < 2

(* A step that the error of r skips, as Rust's `?` does. *)
Bind(r, F(_)) == IF Len(r) = 1 THEN F(r[1]) ELSE r

(* collect: a record, or a sequence, of results turned into one result.  No
   message here has both a field that is an error and one that is a panic. *)
Collect(r) ==
  IF \E f \in DOMAIN r : r[f] = Err THEN Err
  ELSE IF \E f \in DOMAIN r : ~Returns(r[f]) THEN Panic
  ELSE Ok([f \in DOMAIN r |-> r[f][1]])

(* transpose: an optional field that must convert if it is there. *)
Transpose(o, F(_)) == IF o = None THEN Ok(None) ELSE Bind(F(o[1]), LAMBDA x : Ok(Some(x)))

Map(s, F(_)) == [i \in DOMAIN s |-> F(s[i])]

Under(bound, r) == Bind(r, LAMBDA x : IF x < bound THEN Ok(x) ELSE Err)

(* A Felt252 must have 32 bytes, a Hash and an Address are tested for it.  A
   number that is no felt is reduced, not refused: from_bytes_be does that. *)
Felt_try_from(o) == Bind(o, LAMBDA x : IF x = WrongLength THEN Panic ELSE Ok(x % FELT))
Hash_try_from(o) == Bind(o, LAMBDA x : IF x = WrongLength THEN Err ELSE Ok(x % FELT))
ContractAddress_try_from(o) == Under(PATRICIA, Hash_try_from(o))
PatriciaKey_try_from(o) == Under(PATRICIA, Felt_try_from(o))
Felts_try_from(s) == Collect(Map(s, LAMBDA x : Felt_try_from(Some(x))))
try_from_starkfelt_to_u128(r) == Under(U128, r)
Fee_try_from(o) == try_from_starkfelt_to_u128(Felt_try_from(o))
try_from_starkfelt_to_u32(x) == IF x < U32 THEN Ok(x) ELSE Err

Uint128_from(x) == [high |-> x \div U64, low |-> x % U64]
u128_from(w) == w.low + w.high * U64

volition_domain_to_enum_int(mode) == IF mode = "L1" THEN 0 ELSE 1
enum_int_to_volition_domain(n) ==
  IF n = 0 THEN Ok("L1") ELSE IF n = 1 THEN Ok("L2") ELSE Err

-----------------------------------------------------------------------------
(* Transactions. *)

NoBounds == [max_amount |-> 0, max_price_per_unit |-> 0]

(* The mapping has some of the two resources; the message has both. *)
ResourceBounds_from(m) ==
  LET Limits(r) == LET b == IF r \in DOMAIN m THEN m[r] ELSE NoBounds
                   IN  Some([max_amount |-> b.max_amount,
                             max_price_per_unit |-> Some(b.max_price_per_unit)])
  IN  [l1_gas |-> Limits("L1Gas"), l2_gas |-> Limits("L2Gas")]

(* Mutant: a message without bounds for l2_gas gives the default bounds. *)
ResourceBounds_try_fromMutant(w) ==
  LET Bounds(limits) == Bind(limits, LAMBDA l : Collect(
        [max_amount |-> Ok(l.max_amount),
         max_price_per_unit |-> Fee_try_from(l.max_price_per_unit)]))
  IN  Collect([L1Gas |-> Bounds(w.l1_gas),
               L2Gas |-> IF w.l2_gas = None THEN Ok(NoBounds) ELSE Bounds(w.l2_gas)])

ResourceBounds_try_from(w) ==
  LET Bounds(limits) == Bind(limits, LAMBDA l : Collect(
        [max_amount |-> Ok(l.max_amount),
         max_price_per_unit |-> Fee_try_from(l.max_price_per_unit)]))
  IN  Collect([L1Gas |-> Bounds(w.l1_gas), L2Gas |-> Bounds(w.l2_gas)])

(* The fields that the transactions of version 3 share. *)
V3_from(v) ==
  [resource_bounds |-> Some(ResourceBounds_from(v.resource_bounds)), tip |-> v.tip,
   signature |-> Some(v.signature), nonce |-> Some(v.nonce),
   nonce_data_availability_mode |-> volition_domain_to_enum_int(v.nonce_data_availability_mode),
   fee_data_availability_mode |-> volition_domain_to_enum_int(v.fee_data_availability_mode),
   paymaster_data |-> v.paymaster_data]

V3_try_from(w) ==
  [resource_bounds |-> Bind(w.resource_bounds, ResourceBounds_try_from), tip |-> Ok(w.tip),
   signature |-> Bind(w.signature, Felts_try_from), nonce |-> Felt_try_from(w.nonce),
   nonce_data_availability_mode |-> enum_int_to_volition_domain(w.nonce_data_availability_mode),
   fee_data_availability_mode |-> enum_int_to_volition_domain(w.fee_data_availability_mode),
   paymaster_data |-> Felts_try_from(w.paymaster_data)]

DeployAccountV1_from(v) ==
  [max_fee |-> Some(v.max_fee), signature |-> Some(v.signature), nonce |-> Some(v.nonce),
   class_hash |-> Some(v.class_hash), address_salt |-> Some(v.contract_address_salt),
   calldata |-> v.constructor_calldata]

DeployAccountV1_try_from(w) == Collect(
  [max_fee |-> Fee_try_from(w.max_fee), signature |-> Bind(w.signature, Felts_try_from),
   nonce |-> Felt_try_from(w.nonce), class_hash |-> Hash_try_from(w.class_hash),
   contract_address_salt |-> Felt_try_from(w.address_salt),
   constructor_calldata |-> Felts_try_from(w.calldata)])

DeployAccountV3_from(v) == V3_from(v) @@
  [class_hash |-> Some(v.class_hash), address_salt |-> Some(v.contract_address_salt),
   calldata |-> v.constructor_calldata]

DeployAccountV3_try_from(w) == Collect(V3_try_from(w) @@
  [class_hash |-> Hash_try_from(w.class_hash),
   contract_address_salt |-> Felt_try_from(w.address_salt),
   constructor_calldata |-> Felts_try_from(w.calldata)])

InvokeV0_from(v) ==
  [max_fee |-> Some(v.max_fee), signature |-> Some(v.signature),
   address |-> Some(v.contract_address),
   entry_point_selector |-> Some(v.entry_point_selector), calldata |-> v.calldata]

InvokeV0_try_from(w) == Collect(
  [max_fee |-> Fee_try_from(w.max_fee), signature |-> Bind(w.signature, Felts_try_from),
   contract_address |-> ContractAddress_try_from(w.address),
   entry_point_selector |-> Felt_try_from(w.entry_point_selector),
   calldata |-> Felts_try_from(w.calldata)])

InvokeV1_from(v) ==
  [max_fee |-> Some(v.max_fee), signature |-> Some(v.signature),
   sender |-> Some(v.sender_address), nonce |-> Some(v.nonce), calldata |-> v.calldata]

InvokeV1_try_from(w) == Collect(
  [max_fee |-> Fee_try_from(w.max_fee), signature |-> Bind(w.signature, Felts_try_from),
   sender_address |-> ContractAddress_try_from(w.sender), nonce |-> Felt_try_from(w.nonce),
   calldata |-> Felts_try_from(w.calldata)])

InvokeV3_from(v) == V3_from(v) @@
  [sender |-> Some(v.sender_address), calldata |-> v.calldata,
   account_deployment_data |-> v.account_deployment_data]

InvokeV3_try_from(w) == Collect(V3_try_from(w) @@
  [sender_address |-> ContractAddress_try_from(w.sender), calldata |-> Felts_try_from(w.calldata),
   account_deployment_data |-> Felts_try_from(w.account_deployment_data)])

(* A declare of version 0 has no nonce in its message. *)
DeclareV0_from(v) ==
  [max_fee |-> Some(v.max_fee), signature |-> Some(v.signature),
   sender |-> Some(v.sender_address), class_hash |-> Some(v.class_hash)]

DeclareV0_try_from(w) == Collect(
  [max_fee |-> Fee_try_from(w.max_fee), signature |-> Bind(w.signature, Felts_try_from),
   nonce |-> Ok(0), class_hash |-> Hash_try_from(w.class_hash),
   sender_address |-> ContractAddress_try_from(w.sender)])

DeclareV1_from(v) ==
  [max_fee |-> Some(v.max_fee), signature |-> Some(v.signature), nonce |-> Some(v.nonce),
   class_hash |-> Some(v.class_hash), sender |-> Some(v.sender_address)]

DeclareV1_try_from(w) == Collect(
  [max_fee |-> Fee_try_from(w.max_fee), signature |-> Bind(w.signature, Felts_try_from),
   nonce |-> Felt_try_from(w.nonce), class_hash |-> Hash_try_from(w.class_hash),
   sender_address |-> ContractAddress_try_from(w.sender)])

DeclareV2_from(v) ==
  [max_fee |-> Some(v.max_fee), signature |-> Some(v.signature), nonce |-> Some(v.nonce),
   class_hash |-> Some(v.class_hash), compiled_class_hash |-> Some(v.compiled_class_hash),
   sender |-> Some(v.sender_address)]

DeclareV2_try_from(w) == Collect(
  [max_fee |-> Fee_try_from(w.max_fee), signature |-> Bind(w.signature, Felts_try_from),
   nonce |-> Felt_try_from(w.nonce), class_hash |-> Hash_try_from(w.class_hash),
   compiled_class_hash |-> Hash_try_from(w.compiled_class_hash),
   sender_address |-> ContractAddress_try_from(w.sender)])

DeclareV3_from(v) == V3_from(v) @@
  [class_hash |-> Some(v.class_hash), compiled_class_hash |-> Some(v.compiled_class_hash),
   sender |-> Some(v.sender_address), account_deployment_data |-> v.account_deployment_data]

DeclareV3_try_from(w) == Collect(V3_try_from(w) @@
  [class_hash |-> Hash_try_from(w.class_hash),
   compiled_class_hash |-> Hash_try_from(w.compiled_class_hash),
   sender_address |-> ContractAddress_try_from(w.sender),
   account_deployment_data |-> Felts_try_from(w.account_deployment_data)])

(* A version that is no u32 is sent as 0. *)
Deploy_from(v) ==
  LET version == try_from_starkfelt_to_u32(v.version)
  IN  [version |-> IF version = Err THEN 0 ELSE version[1],
       class_hash |-> Some(v.class_hash), address_salt |-> Some(v.contract_address_salt),
       calldata |-> v.constructor_calldata]

Deploy_try_from(w) == Collect(
  [version |-> Ok(w.version), class_hash |-> Hash_try_from(w.class_hash),
   contract_address_salt |-> Felt_try_from(w.address_salt),
   constructor_calldata |-> Felts_try_from(w.calldata)])

L1Handler_from(v) ==
  [nonce |-> Some(v.nonce), address |-> Some(v.contract_address),
   entry_point_selector |-> Some(v.entry_point_selector), calldata |-> v.calldata]

L1Handler_try_from(w) == Collect(
  [version |-> Ok(0), nonce |-> Felt_try_from(w.nonce),
   contract_address |-> ContractAddress_try_from(w.address),
   entry_point_selector |-> Felt_try_from(w.entry_point_selector),
   calldata |-> Felts_try_from(w.calldata)])

TransactionTypes == {"DeclareV0", "DeclareV1", "DeclareV2", "DeclareV3", "Deploy",
                     "DeployAccountV1", "DeployAccountV3", "InvokeV0", "InvokeV1",
                     "InvokeV3", "L1Handler"}

TxnBody_from(type, v) ==
  CASE type = "DeclareV0" -> DeclareV0_from(v)
    [] type = "DeclareV1" -> DeclareV1_from(v)
    [] type = "DeclareV2" -> DeclareV2_from(v)
    [] type = "DeclareV3" -> DeclareV3_from(v)
    [] type = "Deploy" -> Deploy_from(v)
    [] type = "DeployAccountV1" -> DeployAccountV1_from(v)
    [] type = "DeployAccountV3" -> DeployAccountV3_from(v)
    [] type = "InvokeV0" -> InvokeV0_from(v)
    [] type = "InvokeV1" -> InvokeV1_from(v)
    [] type = "InvokeV3" -> InvokeV3_from(v)
    [] type = "L1Handler" -> L1Handler_from(v)

TxnBody_try_from(type, w) ==
  CASE type = "DeclareV0" -> DeclareV0_try_from(w)
    [] type = "DeclareV1" -> DeclareV1_try_from(w)
    [] type = "DeclareV2" -> DeclareV2_try_from(w)
    [] type = "DeclareV3" -> DeclareV3_try_from(w)
    [] type = "Deploy" -> Deploy_try_from(w)
    [] type = "DeployAccountV1" -> DeployAccountV1_try_from(w)
    [] type = "DeployAccountV3" -> DeployAccountV3_try_from(w)
    [] type = "InvokeV0" -> InvokeV0_try_from(w)
    [] type = "InvokeV1" -> InvokeV1_try_from(w)
    [] type = "InvokeV3" -> InvokeV3_try_from(w)
    [] type = "L1Handler" -> L1Handler_try_from(w)

(* A transaction is a variant and its fields; the message says which variant. *)
Transaction_from(t) == [txn |-> Some([type |-> t.type, body |-> TxnBody_from(t.type, t.body)])]

Transaction_try_from(w) == Bind(w.txn, LAMBDA txn :
  Collect([type |-> Ok(txn.type), body |-> TxnBody_try_from(txn.type, txn.body)]))

-----------------------------------------------------------------------------
(* Receipts.  The outputs lose their events, which are sent on their own. *)

SentBuiltins == {"range_check", "pedersen", "poseidon", "ec_op", "ecdsa", "bitwise", "keccak"}
Builtins == SentBuiltins \cup {"segment_arena"}

BuiltinCounter_from(m) ==
  [b \in SentBuiltins \cup {"output"} |-> IF b \in DOMAIN m THEN m[b] ELSE 0]
BuiltinCounter_try_from(w) ==
  [b \in Builtins |-> IF b = "segment_arena" THEN 0 ELSE w[b]]

ExecutionResources_from(v) ==
  [builtins |-> Some(BuiltinCounter_from(v.builtin_instance_counter)), steps |-> v.steps,
   memory_holes |-> v.memory_holes, gas_consumed |-> Some(v.gas_consumed),
   da_gas_consumed |-> Some(v.da_gas_consumed)]

ExecutionResources_try_from(w) == Collect(
  [builtin_instance_counter |-> Bind(w.builtins, LAMBDA b : Ok(BuiltinCounter_try_from(b))),
   steps |-> Ok(w.steps), memory_holes |-> Ok(w.memory_holes),
   gas_consumed |-> w.gas_consumed, da_gas_consumed |-> w.da_gas_consumed])

(* Sending counts that are no u32 panics. *)
ResourcesTooLarge(v) ==
  \/ v.steps >= U32 \/ v.memory_holes >= U32
  \/ \E b \in DOMAIN v.builtin_instance_counter \cap SentBuiltins :
       v.builtin_instance_counter[b] >= U32

MessageToL1_from(v) ==
  [from_address |-> Some(v.from_address), to_address |-> Some(v.to_address),
   payload |-> v.payload]
(* The sender's address must be one: another felt is a panic. *)
MessageToL1_try_from(w) == Collect(
  [from_address |-> Bind(Felt_try_from(w.from_address),
                         LAMBDA x : IF x < PATRICIA THEN Ok(x) ELSE Panic),
   to_address |-> Bind(w.to_address, LAMBDA x : IF x = WrongLength THEN Err ELSE Ok(x)),
   payload |-> Felts_try_from(w.payload)])

(* The status is None if the transaction succeeded, else the reason it was
   reverted. *)
create_proto_receipt_common_from_txn_output_fields(v) ==
  [actual_fee |-> Some(v.actual_fee), price_unit |-> "Wei",
   messages_sent |-> Map(v.messages_sent, MessageToL1_from),
   execution_resources |-> Some(ExecutionResources_from(v.execution_resources)),
   revert_reason |-> v.execution_status]

parse_common_receipt_fields(common) == Bind(common, LAMBDA w :
  Collect([actual_fee |-> Fee_try_from(w.actual_fee),
           messages_sent |-> Collect(Map(w.messages_sent, MessageToL1_try_from)),
           execution_status |-> Ok(w.revert_reason),
           execution_resources |-> Bind(w.execution_resources, ExecutionResources_try_from)]))

Deploys == {"Deploy", "DeployAccount"}

OutputBody_from(type, v) ==
  LET common == Some(create_proto_receipt_common_from_txn_output_fields(v))
  IN  CASE type \in Deploys -> [common |-> common, contract_address |-> Some(v.contract_address)]
        [] type = "L1Handler" -> [common |-> common, msg_hash |-> None]
        [] OTHER -> [common |-> common]

OutputBody_try_from(type, w) ==
  Bind(parse_common_receipt_fields(w.common), LAMBDA common :
    LET output == common @@ [events |-> << >>]
    IN  IF type \in Deploys
        THEN Bind(PatriciaKey_try_from(w.contract_address),
                  LAMBDA address : Ok(output @@ [contract_address |-> address]))
        ELSE Ok(output))

ReceiptOf == [Invoke |-> "Invoke", L1Handler |-> "L1Handler", Declare |-> "Declare",
              Deploy |-> "DeprecatedDeploy", DeployAccount |-> "DeployAccount"]
OutputOf == [Invoke |-> "Invoke", L1Handler |-> "L1Handler", Declare |-> "Declare",
             DeprecatedDeploy |-> "Deploy", DeployAccount |-> "DeployAccount"]

Receipt_from(o) ==
  [type |-> Some([type |-> ReceiptOf[o.type], body |-> OutputBody_from(o.type, o.body)])]

Receipt_try_from(w) == Bind(w.type, LAMBDA r :
  Collect([type |-> Ok(OutputOf[r.type]), body |-> OutputBody_try_from(OutputOf[r.type], r.body)]))

-----------------------------------------------------------------------------
(* A transaction and its output travel together, and the message of the output
   says in which unit its fee is. *)

PricedInFri == {"DeclareV3", "DeployAccountV3", "InvokeV3"}

set_price_unit_based_on_transaction(receipt, transaction) ==
  LET type == transaction.txn[1].type
      unit == IF type \in PricedInFri THEN "Fri" ELSE "Wei"
  IN  IF type \in {"DeclareV0", "InvokeV0"} THEN receipt
      ELSE [receipt EXCEPT !.type[1].body.common[1].price_unit = unit]

TransactionWithReceipt_from(v) ==
  LET transaction == Transaction_from(v.transaction)
  IN  [transaction |-> Some(transaction),
       receipt |-> Some(set_price_unit_based_on_transaction(Receipt_from(v.output), transaction))]

TransactionWithReceipt_try_from(w) == Collect(
  [transaction |-> Bind(w.transaction, Transaction_try_from),
   output |-> Bind(w.receipt, Receipt_try_from)])
=============================================================================
