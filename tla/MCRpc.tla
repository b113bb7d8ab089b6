------------------------------- MODULE MCRpc --------------------------------
(* Contracts 2 and 3, the Cairo 1 class 11 and the Cairo 0 class 12, three
   kinds of blocks and scenarios that bound the environment. *)
EXTENDS RpcProperties

Tx(hash, kind, output) ==
  [hash |-> hash, kind |-> kind, class |-> 11, output |-> output,
   events |-> {e.from : e \in Range(output)}]
Event(from, key) == [from |-> from, keys |-> <<key>>]

(* Declares a class and deploys a contract of it. *)
DeclaresAndDeploys ==
  [version |-> "v1", l1_da_mode |-> "Calldata",
   body |-> <<Tx("t1", "DeclareV2", << >>),
              Tx("t2", "Invoke", <<Event(2, 1), Event(3, 1), Event(2, 2)>>)>>,
   diff |-> [EmptyDiff EXCEPT !.deployed_contracts = 2 :> 11, !.declared_classes = <<11>>,
                              !.storage_diffs = 2 :> 5]]

(* Uses the contract, and deploys one of a Cairo 0 class nobody declared. *)
Uses ==
  [version |-> "v2", l1_da_mode |-> "Blob",
   body |-> <<Tx("t3", "L1Handler", <<Event(3, 1), Event(2, 1)>>)>>,
   diff |-> [EmptyDiff EXCEPT !.deployed_contracts = 3 :> 12, !.nonces = 2 :> 1 @@ 3 :> 1,
                              !.storage_diffs = 2 :> 6]]

(* Replaces its class and declares the Cairo 0 class. *)
Replaces ==
  [version |-> "v2", l1_da_mode |-> "Blob",
   body |-> <<Tx("t4", "Invoke", <<Event(2, 1)>>), Tx("t5", "Invoke", << >>)>>,
   diff |-> [EmptyDiff EXCEPT !.replaced_classes = 2 :> 12,
                              !.deprecated_declared_classes = {12}]]

RpcContent == 1 :> DeclaresAndDeploys @@ 2 :> Uses @@ 3 :> Replaces
CompiledHashes == 11 :> 111

Request(method, version, id, of) ==
  [method |-> method, version |-> version, id |-> id, of |-> of]

Quiet == [contents |-> {1, 2, 3}, concurrent_requests |-> 1, max_stream_size |-> 1,
          verify_blocks |-> FALSE, scope |-> "FullArchive", key_changes |-> 0,
          proofs |-> 0, length |-> 2, forks |-> 0, base_layer |-> FALSE, casms |-> FALSE, fetches |-> 0,
          interrupts |-> 0, queries |-> FALSE, requests |-> {}, reads |-> 0]

(* Requests that are answered from one transaction. *)
GrowingQueries == [Quiet EXCEPT !.fetches = 2, !.queries = TRUE]
LongQueries == [Quiet EXCEPT !.length = 3, !.fetches = 1, !.queries = TRUE]
ForkQueries == [Quiet EXCEPT !.forks = 1, !.fetches = 1, !.queries = TRUE]
StateOnlyQueries == [Quiet EXCEPT !.scope = "StateOnly", !.length = 2, !.fetches = 1, !.queries = TRUE,
                                  !.requests = {Request("trace_transaction", "V0_7", Latest, "t3"),
                                                Request("trace_block_transactions", "V0_6", Latest,
                                                        None)}]

(* Requests that execute: on stored blocks that may be reverted, and on
   pending blocks. *)
StoredRequests ==
  {Request("call", "V0_7", Latest, 2), Request("estimate_fee", "V0_6", Latest, None),
   Request("simulate_transactions", "V0_6", NumberId(0), None),
   Request("trace_transaction", "V0_6", Latest, "t3"),
   Request("trace_block_transactions", "V0_7", Latest, None)}
PendingRequests ==
  {Request("call", "V0_6", Pending, 2), Request("estimate_message_fee", "V0_7", Pending, None),
   Request("trace_block_transactions", "V0_6", Pending, None),
   Request("trace_transaction", "V0_7", Latest, "t3")}
Executions == [Quiet EXCEPT !.casms = TRUE, !.forks = 1, !.requests = StoredRequests, !.reads = 1]
PendingExecutions == [Quiet EXCEPT !.fetches = 1, !.requests = PendingRequests, !.reads = 1]

(* Pending blocks that grow, are dropped and fail. *)
PendingBlocks == [Quiet EXCEPT !.length = 1, !.forks = 1, !.fetches = 4, !.interrupts = 1,
                               !.base_layer = TRUE]

AllScenarios == {GrowingQueries, LongQueries, ForkQueries, StateOnlyQueries, Executions, PendingExecutions,
                 PendingBlocks}
StoredExecutions == {Executions}
=============================================================================
