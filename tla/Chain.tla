------------------------------- MODULE Chain --------------------------------
(***************************************************************************)
(* Chains of blocks, as a node receives them.  A chain is a sequence of    *)
(* pairs <<content, fork>>, genesis first; the hash of a block is the      *)
(* chain that ends in it.                                                  *)
(***************************************************************************)
EXTENDS Storage

CONSTANT Content  \* what blocks can hold: id -> [version, body, diff]

ContentOf(hash) == Content[Last(hash)[1]]
BlockHash(chain, n) == SubSeq(chain, 1, n + 1)
BlockOf(hash) == [hash |-> hash, parent |-> Front(hash), version |-> ContentOf(hash).version]

Contracts(chain) == UNION {DOMAIN Content[chain[i][1]].diff.deployed_contracts : i \in DOMAIN chain}
Classes(chain) == UNION {Range(Content[chain[i][1]].diff.declared_classes) : i \in DOMAIN chain}
Transactions(chain) ==
  UNION {{tx.hash : tx \in Range(Content[chain[i][1]].body)} : i \in DOMAIN chain}

(* What every Starknet chain satisfies: contracts are deployed before they are
   used and once, classes are declared once, transactions have unique hashes. *)
Extends(chain, c) ==
  LET diff == Content[c].diff
      deployed == DOMAIN diff.deployed_contracts
  IN  /\ deployed \cap Contracts(chain) = {}
      /\ DOMAIN diff.nonces \cup DOMAIN diff.storage_diffs
           \subseteq Contracts(chain) \cup deployed
      /\ DOMAIN diff.replaced_classes \subseteq Contracts(chain)
      /\ Range(diff.declared_classes) \cap Classes(chain) = {}
      /\ {tx.hash : tx \in Range(Content[c].body)} \cap Transactions(chain) = {}
=============================================================================
