-------------------------- MODULE ConsensusVoters ---------------------------
(* Who votes at a height, and for what: the constants of the consensus
   modules. *)
EXTENDS Naturals, FiniteSets

CONSTANTS
  Validators,
  Faulty,   \* validators whose messages may be anything
  Hashes,   \* the hashes of the blocks that may be proposed
  None

(* The fault assumption of Tendermint: less than a third is faulty. *)
ASSUME FaultAssumption ==
  /\ IsFiniteSet(Validators)
  /\ Faulty \subseteq Validators
  /\ 3 * Cardinality(Faulty) < Cardinality(Validators)
  /\ None \notin Hashes

Honest == Validators \ Faulty
=============================================================================
