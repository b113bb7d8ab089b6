---------------------------- MODULE MCConsensus -----------------------------
(* Instances of Consensus: validators a (the proposer), b, c and d. *)
EXTENDS Consensus, TLC

CONSTANTS a, b, c, d, x, y

Three == {a, b, c}
Four == {a, b, c, d}
OneHash == {x}
TwoHashes == {x, y}
Nobody == {}
FaultyProposer == {a}

(* Every storage has the same block. *)
SameBlocks == [v \in Validators |-> {x}]

(* The storage of d is on another fork. *)
ForkedBlocks == [v \in Validators |-> IF v = d THEN {y} ELSE {x}]

(* Validators with the same storage, other than the proposer, are alike. *)
SameForkSymmetry == Permutations({b, c})
=============================================================================
