---------------------------- MODULE GatewayClient ----------------------------
(***************************************************************************)
(* The client of the Starknet gateway and feeder gateway (starknet_client) *)
(* and the JSON-RPC methods that pass transactions on to it.  Several       *)
(* calls, each an HTTP request with retries, meet one gateway: requests and *)
(* answers may be lost, and the gateway goes on in between.  All            *)
(* transactions are the same one, sent by clients that do not know of each  *)
(* other; all objects that are read are the same one.                       *)
(***************************************************************************)
EXTENDS Integers, FiniteSets, Sequences

CONSTANTS
  Calls,        \* the calls
  max_retries,  \* of RetryConfig
  NoCall        \* not a call

ASSUME CallsAssumption == NoCall \notin Calls /\ max_retries \in Nat

VARIABLES
  call,     \* each call: its request, attempts and answer
  gateway   \* what the gateway has: the transaction, once accepted, and the object

gatewayVars == <<call, gateway>>

Ok(value) == [ok |-> TRUE, value |-> value]
Err(error) == [ok |-> FALSE, value |-> error]

Writes == {"invoke", "declare", "deploy_account"}
Objects == {"block", "class", "state_update", "compiled_class", "pending_data",
            "block_signature", "sequencer_pub_key"}
RequestKinds == Writes \cup Objects \cup {"is_alive", "malformed_compiled_class"}

-----------------------------------------------------------------------------
(* One request.  A response has a status and a body, "object", garbage or the
   code of a StarknetError; a request without one has failed in the ways
   reqwest names. *)

Response(status, body) == [status |-> status, body |-> body]
Failure(kinds) == [kinds |-> kinds]

(* The errors of ClientError. *)
StarknetError(code) == [type |-> "StarknetError", code |-> code]
BadResponseStatus(status) == [type |-> "BadResponseStatus", code |-> status]
RequestError(kinds) == [type |-> "RequestError", code |-> kinds]
RetryError(code) == [type |-> "RetryError", code |-> code]
IsStarknetError(error, code) == error.type = "StarknetError" /\ error.code = code
SerdeError == [type |-> "SerdeError", code |-> ""]

OBJECT == "object"
GARBAGE == "garbage"

request(response) ==
  IF "kinds" \in DOMAIN response THEN Err(RequestError(response.kinds))
  ELSE IF response.status = 200 THEN Ok(response.body)
  ELSE IF response.status \in {500, 400}
  THEN Err(IF response.body \in {OBJECT, GARBAGE} THEN SerdeError ELSE StarknetError(response.body))
  ELSE Err(BadResponseStatus(response.status))

NoRetry == "None"

get_retry_error_code(error) ==
  LET status == error.code
      kinds == error.code
  IN  CASE error.type = "BadResponseStatus" ->
             IF status = 307 THEN "Redirect"
             ELSE IF status \in {408, 504} THEN "Timeout"
             ELSE IF status = 429 THEN "TooManyRequests"
             ELSE IF status = 503 THEN "ServiceUnavailable" ELSE NoRetry
        [] error.type = "RequestError" ->
             IF "timeout" \in kinds THEN "Timeout"
             ELSE IF "request" \in kinds THEN NoRetry
             ELSE IF "connect" \in kinds THEN "Disconnect"
             ELSE IF "redirect" \in kinds THEN "Redirect" ELSE NoRetry
        [] IsStarknetError(error, "TransactionLimitExceeded") -> "TooManyRequests"
        [] OTHER -> NoRetry

should_retry(result) == ~result.ok /\ get_retry_error_code(result.value) # NoRetry

(* Take(max_retries) delays, and an attempt before each and after the last. *)
RetriesLeft(attempts) == attempts <= max_retries

(* What request_with_retry returns after the last attempt.  The requests of
   these clients have a body in memory and can be cloned. *)
request_with_retry(result) ==
  IF should_retry(result) THEN Err(RetryError(get_retry_error_code(result.value))) ELSE result

-----------------------------------------------------------------------------
(* Reading *)

NoObject == "None"
NoErrorCode == "None"

NoneErrorCode(kind) ==
  IF kind \in {"class", "compiled_class"} THEN "UndeclaredClass"
  ELSE IF kind = "sequencer_pub_key" THEN NoErrorCode ELSE "BlockNotFound"

(* Mutant: every error of the gateway means that there is no such object. *)
load_object_from_responseMutant(response, none_error_code) ==
  IF response.ok THEN (IF response.value = OBJECT THEN response ELSE Err(SerdeError))
  ELSE IF response.value.type = "StarknetError" THEN Ok(NoObject)
  ELSE response

load_object_from_response(response, none_error_code) ==
  IF response.ok THEN (IF response.value = OBJECT THEN response ELSE Err(SerdeError))
  ELSE IF IsStarknetError(response.value, none_error_code) THEN Ok(NoObject)
  ELSE response

ReadAnswer(kind, response) ==
  LET result == load_object_from_response(response, NoneErrorCode(kind))
  IN  IF result.ok THEN result ELSE Err(result.value.type)

(* Of both clients. *)
is_alive(response) == Ok(IF response.ok /\ response.value = OBJECT THEN "alive" ELSE "not alive")

(* The classes whose compiled class is not asked for. *)
DefaultCompiledClass == Ok(OBJECT)

-----------------------------------------------------------------------------
(* Writing *)

add_transaction(response) ==
  IF response.ok /\ response.value # OBJECT THEN Err(SerdeError) ELSE response

(* The errors of the gateway that have a code in the JSON-RPC API. *)
CommonErrors ==
  [DuplicatedTransaction |-> "DUPLICATE_TX", EntryPointNotFoundInContract |-> "NON_ACCOUNT",
   InsufficientAccountBalance |-> "INSUFFICIENT_ACCOUNT_BALANCE",
   InsufficientMaxFee |-> "INSUFFICIENT_MAX_FEE",
   InvalidTransactionNonce |-> "INVALID_TRANSACTION_NONCE",
   InvalidTransactionVersion |-> "UNSUPPORTED_TX_VERSION",
   ValidateFailure |-> "VALIDATION_FAILURE"]

starknet_error_to_invoke_error(code) ==
  IF code \in DOMAIN CommonErrors THEN CommonErrors[code] ELSE "UNEXPECTED"

starknet_error_to_declare_error(code) ==
  LET own == [ClassAlreadyDeclared |-> "CLASS_ALREADY_DECLARED",
              CompilationFailed |-> "COMPILATION_FAILED",
              ContractBytecodeSizeTooLarge |-> "CONTRACT_CLASS_SIZE_IS_TOO_LARGE",
              ContractClassObjectSizeTooLarge |-> "CONTRACT_CLASS_SIZE_IS_TOO_LARGE",
              InvalidCompiledClassHash |-> "COMPILED_CLASS_HASH_MISMATCH",
              InvalidContractClassVersion |-> "UNSUPPORTED_CONTRACT_CLASS_VERSION"]
  IN  IF code \in DOMAIN own THEN own[code]
      ELSE IF code \in DOMAIN CommonErrors THEN CommonErrors[code] ELSE "UNEXPECTED"

starknet_error_to_deploy_account_error(code) ==
  IF code = "UndeclaredClass" THEN "CLASS_HASH_NOT_FOUND"
  ELSE IF code \in DOMAIN CommonErrors THEN CommonErrors[code] ELSE "UNEXPECTED"

(* How the JSON-RPC methods answer: error is what an error of the gateway
   becomes, any other is internal. *)
RpcAnswer(result, error) ==
  IF result.ok THEN result
  ELSE IF result.value.type = "StarknetError" THEN Err(error) ELSE Err("internal")

add_invoke_transaction(result) ==
  RpcAnswer(result, starknet_error_to_invoke_error(result.value.code))
add_declare_transaction(result) ==
  RpcAnswer(result, starknet_error_to_declare_error(result.value.code))
add_deploy_account_transaction(result) ==
  RpcAnswer(result, starknet_error_to_deploy_account_error(result.value.code))

WriteAnswer(kind, response) ==
  LET result == add_transaction(response)
  IN  CASE kind = "invoke" -> add_invoke_transaction(result)
        [] kind = "declare" -> add_declare_transaction(result)
        [] kind = "deploy_account" -> add_deploy_account_transaction(result)

Answer(kind, response) ==
  IF kind \in Writes THEN WriteAnswer(kind, response)
  ELSE IF kind = "is_alive" THEN is_alive(response) ELSE ReadAnswer(kind, response)

-----------------------------------------------------------------------------
(* The gateway is external.  It knows a transaction it has accepted before it
   looks at anything else, and may refuse another for any reason. *)

RefusalCodes ==
  {"InvalidTransactionNonce", "ValidateFailure", "ClassAlreadyDeclared", "UndeclaredClass",
   "MalformedRequest"}

(* The states and responses a request can lead to once it is processed. *)
Processed(c) ==
  LET kind == call[c].kind
      same(response) == [state |-> gateway, response |-> response]
  IN  IF kind \in Writes
      THEN IF gateway.accepted # NoCall THEN {same(Response(400, "DuplicatedTransaction"))}
           ELSE {[state |-> [gateway EXCEPT !.accepted = c], response |-> Response(200, OBJECT)]}
                  \cup {same(Response(400, code)) : code \in RefusalCodes}
      ELSE IF kind = "is_alive" \/ gateway.has THEN {same(Response(200, OBJECT))}
      ELSE {same(Response(400, IF NoneErrorCode(kind) = NoErrorCode THEN "MalformedRequest"
                               ELSE NoneErrorCode(kind)))}

(* What comes back instead of a response that is lost. *)
Lost ==
  {Response(504, GARBAGE), Response(200, GARBAGE), Response(500, GARBAGE),
   Failure({"timeout", "request"}), Failure({"body"})}

(* What comes back when nothing is processed. *)
NotProcessed ==
  {Response(status, GARBAGE) : status \in {307, 404, 408, 429, 503}}
    \cup {Response(400, "TransactionLimitExceeded"), Response(400, "MalformedRequest"),
          Failure({"timeout", "request", "connect"}), Failure({"request", "connect"}),
          Failure({"redirect"})}

Arrivals(c) ==
  Processed(c)
    \cup {[state |-> p.state, response |-> response] : p \in Processed(c), response \in Lost}
    \cup {[state |-> gateway, response |-> response] : response \in NotProcessed}

-----------------------------------------------------------------------------
Pending == Err("pending")

(* Only writes meet at the gateway; reads are of one kind. *)
GatewayInit ==
  /\ gateway \in [accepted : {NoCall}, has : BOOLEAN]
  /\ \E kinds \in [Calls -> Writes] \cup {[c \in Calls |-> kind] : kind \in RequestKinds} :
       call = [c \in Calls |-> [kind |-> kinds[c], attempts |-> 0, had |-> gateway.has,
                                answer |-> Pending]]

Answered(c) == call[c].answer # Pending

(* A declared class that cannot be encoded is an error before any request, and
   five malformed classes have a default. *)
AnswerUnsent(c) ==
  /\ ~Answered(c) /\ call[c].attempts = 0
  /\ \/ call[c].kind = "declare" /\ call' = [call EXCEPT ![c].answer = Err("internal")]
     \/ /\ call[c].kind = "malformed_compiled_class"
        /\ call' = [call EXCEPT ![c].answer = DefaultCompiledClass]
  /\ UNCHANGED gateway

Attempt(c) ==
  /\ ~Answered(c) /\ call[c].kind # "malformed_compiled_class"
  /\ \E arrival \in Arrivals(c) :
       LET result == request(arrival.response)
           attempts == call[c].attempts + 1
       IN  /\ gateway' = arrival.state
           /\ call' = [call EXCEPT
                ![c].attempts = attempts,
                ![c].answer = IF should_retry(result) /\ RetriesLeft(attempts) THEN Pending
                              ELSE Answer(call[c].kind, request_with_retry(result))]

(* The block or class that the clients ask for appears. *)
ObjectAppears == ~gateway.has /\ gateway' = [gateway EXCEPT !.has = TRUE] /\ UNCHANGED call

GatewayNext ==
  \/ \E c \in Calls : AnswerUnsent(c) \/ Attempt(c)
  \/ ObjectAppears

GatewaySpec == GatewayInit /\ [][GatewayNext]_gatewayVars

-----------------------------------------------------------------------------
(* An answer says what happened at the gateway, although requests are sent again
   when an answer is lost: a call that succeeds is the one whose transaction the
   gateway took, one that is told of a duplicate knows it is there, and one that
   is refused has left nothing there (add_transaction and the error tables).  A
   call that reads None asked for something that was missing when it began, one
   that reads an object got what is there, and no call makes more attempts than
   are configured (load_object_from_response, request_with_retry). *)
AnswersTellWhatHappened ==
  \A c \in Calls :
    LET answer == call[c].answer
        kind == call[c].kind
    IN  /\ call[c].attempts <= max_retries + 1
        /\ Answered(c) /\ kind \in Writes =>
             \/ answer.ok /\ gateway.accepted = c
             \/ ~answer.ok /\ answer.value = "DUPLICATE_TX" /\ gateway.accepted # NoCall
             \/ ~answer.ok /\ answer.value \in {"internal", "UNEXPECTED"}
             \/ ~answer.ok /\ answer.value # "DUPLICATE_TX" /\ gateway.accepted # c
        /\ Answered(c) /\ kind \in Objects =>
             \/ answer.ok /\ answer.value = OBJECT /\ gateway.has
             \/ answer.ok /\ answer.value = NoObject /\ ~call[c].had /\ kind # "sequencer_pub_key"
             \/ ~answer.ok
=============================================================================
