---------------------------- MODULE MCStateSync -----------------------------
(* Small chains for StateSync: contracts a and b, Cairo 1 classes 1, 2 and 3
   and the Cairo 0 class 10. *)
EXTENDS StateSync

NoDiff == [deployed_contracts |-> EmptyTable, replaced_classes |-> EmptyTable,
           nonces |-> EmptyTable, storage_diffs |-> EmptyTable,
           declared_classes |-> << >>, deprecated_declared_classes |-> {}]

Tx(hash, events) == [hash |-> hash, events |-> events]

(* Deploys a contract with a Cairo 0 class nobody declared, without a nonce. *)
Deploys == [version |-> "v2", body |-> <<Tx("t4", {"b"})>>,
            diff |-> [NoDiff EXCEPT !.deployed_contracts = "b" :> 10,
                                    !.declared_classes = <<3>>]]

(* Deploys one with a nonce and a value, and declares two classes out of order. *)
DeploysAndDeclares ==
  [version |-> "v2", body |-> <<Tx("t1", {"a"}), Tx("t2", {"a"})>>,
   diff |-> [NoDiff EXCEPT !.deployed_contracts = "a" :> 10, !.nonces = "a" :> 1,
                           !.storage_diffs = "a" :> 5, !.declared_classes = <<2, 1>>,
                           !.deprecated_declared_classes = {10}]]

(* Uses that contract, and declares the Cairo 0 class again. *)
Invokes == [version |-> "v1", body |-> <<Tx("t3", {})>>,
            diff |-> [NoDiff EXCEPT !.nonces = "a" :> 2, !.storage_diffs = "a" :> 6,
                                    !.replaced_classes = "a" :> 1,
                                    !.deprecated_declared_classes = {10}]]

Declares == [version |-> "v2", body |-> << >>,
             diff |-> [NoDiff EXCEPT !.declared_classes = <<1>>]]

EmptyBlock == [version |-> "v1", body |-> << >>, diff |-> NoDiff]

Blocks == 1 :> Deploys @@ 2 :> DeploysAndDeclares @@ 3 :> Invokes @@ 4 :> Declares
            @@ 5 :> EmptyBlock

(* Rich blocks; requests answered in any order, on a longer chain with a revert
   or with classes, or on a shorter one with all of these and an interrupt; a
   base layer. *)
Contents ==
  [contents |-> {1, 2, 3}, concurrent_requests |-> 1, max_stream_size |-> 2,
   verify_blocks |-> TRUE, scope |-> "FullArchive",
   length |-> 3, forks |-> 1, proofs |-> 0, key_changes |-> 0, interrupts |-> 0]
Requests == [Contents EXCEPT !.contents = {5}, !.concurrent_requests = 2,
                             !.verify_blocks = FALSE]
Steady == [Requests EXCEPT !.contents = {4, 5}, !.forks = 0]
Interrupts == [Requests EXCEPT !.contents = {4, 5}, !.verify_blocks = TRUE,
                               !.length = 2, !.interrupts = 1]
BaseLayer == [Contents EXCEPT !.contents = {5}, !.max_stream_size = 1,
                              !.verify_blocks = FALSE, !.length = 2, !.proofs = 2]

(* A sequencer that changes its key, and a sync that does not look at it and
   stores no bodies. *)
Keys == [Contents EXCEPT !.contents = {4, 5}, !.length = 1, !.key_changes = 2, !.interrupts = 1]
Unverified == [Keys EXCEPT !.contents = {1, 5}, !.verify_blocks = FALSE, !.scope = "StateOnly"]

AllScenarios == {Contents, Requests, Steady, Interrupts, BaseLayer, Keys, Unverified}
Small == {[Contents EXCEPT !.contents = {4, 5}]}
=============================================================================
