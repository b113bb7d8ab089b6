----------------------------- MODULE MCP2PSync ------------------------------
(* Small chains for P2PSync: two contracts, a Cairo 1 and a Cairo 0 class. *)
EXTENDS P2PSync

NoDiff == [deployed_contracts |-> EmptyTable, replaced_classes |-> EmptyTable,
           nonces |-> EmptyTable, storage_diffs |-> EmptyTable,
           declared_classes |-> << >>, deprecated_declared_classes |-> {}]

Block(version, diff) == [version |-> version, body |-> << >>, diff |-> diff]

(* Deploys two contracts, one with a nonce, and declares both classes. *)
Deploys == Block("v2", [NoDiff EXCEPT !.deployed_contracts = "a" :> 10 @@ "b" :> 10,
                                      !.nonces = "a" :> 1, !.storage_diffs = "b" :> 5,
                                      !.declared_classes = <<1>>,
                                      !.deprecated_declared_classes = {10}])

(* Replaces a class without a nonce, and changes another contract. *)
Replaces == Block("v2", [NoDiff EXCEPT !.replaced_classes = "a" :> 1, !.nonces = "b" :> 1,
                                       !.storage_diffs = "b" :> 6])

(* An empty block, whose header comes without a state_diff_length. *)
EmptyBlock == Block("v1", NoDiff)

AllContent == 1 :> Deploys @@ 2 :> Replaces @@ 3 :> EmptyBlock
=============================================================================
