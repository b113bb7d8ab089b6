-------------------------- MODULE ConsensusVoting ---------------------------
(***************************************************************************)
(* What papyrus_consensus promises for one height: a validator prevotes,   *)
(* precommits and decides at most once, precommits only what a quorum      *)
(* prevoted and decides only what a quorum precommitted.  Faulty           *)
(* validators may have voted for anything.                                 *)
(***************************************************************************)
EXTENDS ConsensusVoters

VARIABLES prevoted, precommitted, decided

votingVars == <<prevoted, precommitted, decided>>

QuorumSize == ((2 * Cardinality(Validators)) \div 3) + 1

(* A quorum voted for hash, as far as anybody can tell. *)
Supporters(votes, hash) == {v \in Honest : votes[v] = hash} \cup Faulty
QuorumFor(votes, hash) == Cardinality(Supporters(votes, hash)) >= QuorumSize

VotingInit ==
  /\ prevoted = [v \in Honest |-> None]
  /\ precommitted = [v \in Honest |-> None]
  /\ decided = [v \in Honest |-> None]

MayChange(votes, v) ==
  \E hash \in Hashes \cup {None} :
    /\ votes' = [votes EXCEPT ![v] = hash]
    /\ hash # votes[v] => votes[v] = None

(* One message may make a validator prevote, precommit and decide. *)
Vote(v) ==
  /\ MayChange(prevoted, v) /\ MayChange(precommitted, v) /\ MayChange(decided, v)
  /\ precommitted'[v] # precommitted[v] => QuorumFor(prevoted', precommitted'[v])
  /\ decided'[v] # decided[v] => QuorumFor(precommitted', decided'[v])

VotingNext == \E v \in Honest : Vote(v)

VotingSpec == VotingInit /\ [][VotingNext]_votingVars

VotingTypeOK ==
  /\ prevoted \in [Honest -> Hashes \cup {None}]
  /\ precommitted \in [Honest -> Hashes \cup {None}]
  /\ decided \in [Honest -> Hashes \cup {None}]

(* No two validators decide different blocks, and none decides one that
   another validator did not precommit if it precommitted at all. *)
VotingAgreement ==
  \A v, w \in Honest :
    /\ decided[v] # None /\ decided[w] # None => decided[v] = decided[w]
    /\ decided[v] # None /\ precommitted[w] # None => decided[v] = precommitted[w]
=============================================================================
