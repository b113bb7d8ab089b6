----------------------- MODULE ConsensusVotingProofs ------------------------
(***************************************************************************)
(* Agreement of ConsensusVoting, for every number of validators and every  *)
(* set of less than a third of them that is faulty.                        *)
(***************************************************************************)
EXTENDS ConsensusVoting, FiniteSetTheorems, TLAPS

Votes == [Honest -> Hashes \cup {None}]

(* The supporters of a hash are validators: they can be counted. *)
LEMMA SupportersFinite ==
  ASSUME NEW votes \in Votes, NEW hash \in Hashes
  PROVE  /\ Supporters(votes, hash) \subseteq Validators
         /\ IsFiniteSet(Supporters(votes, hash))
         /\ Cardinality(Supporters(votes, hash)) \in Nat
<1>1. Supporters(votes, hash) \subseteq Validators
  BY FaultAssumption DEF Supporters, Honest
<1>2. IsFiniteSet(Supporters(votes, hash))
  BY <1>1, FaultAssumption, FS_Subset
<1> QED
  BY <1>1, <1>2, FS_CardinalityType

(* The sizes of the two constant sets. *)
LEMMA Sizes ==
  /\ IsFiniteSet(Faulty)
  /\ Cardinality(Faulty) \in Nat
  /\ Cardinality(Validators) \in Nat
  /\ QuorumSize \in Nat
  /\ Cardinality(Faulty) < QuorumSize
  /\ Cardinality(Validators) + Cardinality(Faulty) < 2 * QuorumSize
<1>1. IsFiniteSet(Faulty) /\ Cardinality(Faulty) \in Nat /\ Cardinality(Validators) \in Nat
  BY FaultAssumption, FS_Subset, FS_CardinalityType
<1>2. ASSUME NEW n \in Nat, NEW f \in Nat, 3 * f < n
      PROVE  /\ ((2 * n) \div 3) + 1 \in Nat
             /\ f < ((2 * n) \div 3) + 1
             /\ n + f < 2 * (((2 * n) \div 3) + 1)
  BY <1>2, SMT
<1> QED
  BY <1>1, <1>2, FaultAssumption DEF QuorumSize

(* Two quorums share an honest validator, which voted once. *)
LEMMA QuorumsAgree ==
  ASSUME NEW votes \in Votes, NEW x \in Hashes, NEW y \in Hashes,
         QuorumFor(votes, x), QuorumFor(votes, y)
  PROVE  x = y
<1> SUFFICES ASSUME x # y PROVE FALSE
  OBVIOUS
<1> DEFINE X == Supporters(votes, x)
           Y == Supporters(votes, y)
<1>1. X \cap Y = Faulty
  BY DEF Supporters
<1>2. /\ X \subseteq Validators /\ Y \subseteq Validators
      /\ IsFiniteSet(X) /\ IsFiniteSet(Y)
      /\ Cardinality(X) \in Nat /\ Cardinality(Y) \in Nat
  BY SupportersFinite
<1> HIDE DEF X, Y
<1>3. /\ IsFiniteSet(X \cup Y)
      /\ Cardinality(X \cup Y) = Cardinality(X) + Cardinality(Y) - Cardinality(Faulty)
      /\ Cardinality(X \cup Y) \in Nat
  BY <1>1, <1>2, FS_Union, FS_CardinalityType
<1>4. Cardinality(X \cup Y) <= Cardinality(Validators)
  BY <1>2, FaultAssumption, FS_Subset
<1>5. Cardinality(X) >= QuorumSize /\ Cardinality(Y) >= QuorumSize
  BY DEF QuorumFor, X, Y
<1> QED
  BY <1>2, <1>3, <1>4, <1>5, Sizes

(* Less than a third are faulty: a quorum has an honest member. *)
LEMMA QuorumHasHonest ==
  ASSUME NEW votes \in Votes, NEW x \in Hashes, QuorumFor(votes, x)
  PROVE  \E v \in Honest : votes[v] = x
<1> SUFFICES ASSUME \A v \in Honest : votes[v] # x PROVE FALSE
  OBVIOUS
<1>1. Supporters(votes, x) = Faulty
  BY DEF Supporters
<1> QED
  BY <1>1, Sizes DEF QuorumFor

(* Votes are never taken back, so a quorum stays one. *)
LEMMA QuorumStable ==
  ASSUME NEW votes \in Votes, NEW later \in Votes, NEW x \in Hashes,
         \A v \in Honest : votes[v] # None => later[v] = votes[v],
         QuorumFor(votes, x)
  PROVE  QuorumFor(later, x)
<1>1. Supporters(votes, x) \subseteq Supporters(later, x)
  BY FaultAssumption DEF Supporters
<1>2. Cardinality(Supporters(votes, x)) <= Cardinality(Supporters(later, x))
  BY <1>1, SupportersFinite, FS_Subset
<1> QED
  BY <1>2, SupportersFinite, Sizes DEF QuorumFor

-----------------------------------------------------------------------------
(* The inductive invariant: a quorum of prevotes behind every precommit and a
   quorum of precommits behind every decision. *)
VotingInv ==
  /\ VotingTypeOK
  /\ \A v \in Honest : precommitted[v] # None => QuorumFor(prevoted, precommitted[v])
  /\ \A v \in Honest : decided[v] # None => QuorumFor(precommitted, decided[v])

(* MayChange keeps the type of a table and every vote in it. *)
LEMMA TableStep ==
  ASSUME NEW votes \in Votes, NEW later, NEW v \in Honest, NEW hash \in Hashes \cup {None},
         later = [votes EXCEPT ![v] = hash], hash # votes[v] => votes[v] = None
  PROVE  /\ later \in Votes
         /\ \A w \in Honest : votes[w] # None => later[w] = votes[w]
         /\ \A w \in Honest : w # v => later[w] = votes[w]
BY DEF Votes

(* One validator's step keeps the quorums behind all precommits and decisions. *)
LEMMA VoteStep ==
  ASSUME VotingInv, NEW v \in Honest, Vote(v)
  PROVE  VotingInv'
<1> USE DEF VotingInv, VotingTypeOK
<1>0. prevoted \in Votes /\ precommitted \in Votes /\ decided \in Votes
  BY DEF Votes
<1>v. MayChange(prevoted, v) /\ MayChange(precommitted, v) /\ MayChange(decided, v)
  BY DEF Vote
<1>1. /\ prevoted' \in Votes
      /\ \A w \in Honest : prevoted[w] # None => prevoted'[w] = prevoted[w]
  <2>1. PICK hash \in Hashes \cup {None} :
          prevoted' = [prevoted EXCEPT ![v] = hash] /\ (hash # prevoted[v] => prevoted[v] = None)
    BY <1>v DEF MayChange
  <2> QED
    BY <1>0, <2>1, TableStep
<1>2. /\ precommitted' \in Votes
      /\ \A w \in Honest : precommitted[w] # None => precommitted'[w] = precommitted[w]
      /\ \A w \in Honest : w # v => precommitted'[w] = precommitted[w]
  <2>1. PICK hash \in Hashes \cup {None} :
          precommitted' = [precommitted EXCEPT ![v] = hash] /\ (hash # precommitted[v] => precommitted[v] = None)
    BY <1>v DEF MayChange
  <2> QED
    BY <1>0, <2>1, TableStep
<1>3. /\ decided' \in Votes
      /\ \A w \in Honest : w # v => decided'[w] = decided[w]
  <2>1. PICK hash \in Hashes \cup {None} :
          decided' = [decided EXCEPT ![v] = hash] /\ (hash # decided[v] => decided[v] = None)
    BY <1>v DEF MayChange
  <2> QED
    BY <1>0, <2>1, TableStep
<1>4. VotingTypeOK'
  BY <1>1, <1>2, <1>3 DEF Votes
<1>5. ASSUME NEW w \in Honest, precommitted'[w] # None
      PROVE  QuorumFor(prevoted', precommitted'[w])
  <2>1. CASE precommitted'[w] = precommitted[w]
    <3>1. precommitted[w] \in Hashes
      BY <1>5, <2>1
    <3> QED
      BY <1>0, <1>1, <1>5, <2>1, <3>1, QuorumStable
  <2>2. CASE precommitted'[w] # precommitted[w]
    BY <1>2, <2>2 DEF Vote
  <2> QED
    BY <2>1, <2>2
<1>6. ASSUME NEW w \in Honest, decided'[w] # None
      PROVE  QuorumFor(precommitted', decided'[w])
  <2>1. CASE decided'[w] = decided[w]
    <3>1. decided[w] \in Hashes
      BY <1>6, <2>1
    <3> QED
      BY <1>0, <1>2, <1>6, <2>1, <3>1, QuorumStable
  <2>2. CASE decided'[w] # decided[w]
    BY <1>3, <2>2 DEF Vote
  <2> QED
    BY <2>1, <2>2
<1> QED
  BY <1>4, <1>5, <1>6

(* Every precommit of an honest validator has a quorum of prevotes and every
   decision a quorum of precommits, as handle_prevote, handle_precommit and
   advance_to_step demand, in every reachable state. *)
THEOREM VotingInvariance == VotingSpec => []VotingInv
<1>1. VotingInit => VotingInv
  BY DEF VotingInit, VotingInv, VotingTypeOK
<1>2. VotingInv /\ [VotingNext]_votingVars => VotingInv'
  <2> SUFFICES ASSUME VotingInv, [VotingNext]_votingVars PROVE VotingInv'
    OBVIOUS
  <2>1. CASE VotingNext
    BY <2>1, VoteStep DEF VotingNext
  <2>2. CASE UNCHANGED votingVars
    BY <2>2 DEF votingVars, VotingInv, VotingTypeOK, QuorumFor, Supporters
  <2> QED
    BY <2>1, <2>2
<1> QED
  BY <1>1, <1>2, PTL DEF VotingSpec

(* Agreement for every set of validators of which less than a third is faulty:
   no two decide differently, and none decides what another validator's
   precommit contradicts. *)
THEOREM VotingAgrees == VotingSpec => []VotingAgreement
<1>1. VotingInv => VotingAgreement
  <2> SUFFICES ASSUME VotingInv, NEW v \in Honest, NEW w \in Honest, decided[v] # None
               PROVE  /\ decided[w] # None => decided[v] = decided[w]
                      /\ precommitted[w] # None => decided[v] = precommitted[w]
    BY DEF VotingAgreement
  <2> USE DEF VotingInv, VotingTypeOK
  <2>1. prevoted \in Votes /\ precommitted \in Votes
    BY DEF Votes
  <2>2. decided[v] \in Hashes /\ QuorumFor(precommitted, decided[v])
    OBVIOUS
  <2>3. ASSUME decided[w] # None PROVE decided[v] = decided[w]
    <3>1. decided[w] \in Hashes /\ QuorumFor(precommitted, decided[w])
      BY <2>3
    <3> QED
      BY <2>1, <2>2, <3>1, QuorumsAgree
  <2>4. ASSUME precommitted[w] # None PROVE decided[v] = precommitted[w]
    <3>1. PICK u \in Honest : precommitted[u] = decided[v]
      BY <2>1, <2>2, QuorumHasHonest
    <3>2. QuorumFor(prevoted, decided[v])
      BY <2>2, <3>1, FaultAssumption
    <3>3. precommitted[w] \in Hashes /\ QuorumFor(prevoted, precommitted[w])
      BY <2>4
    <3> QED
      BY <2>1, <2>2, <3>2, <3>3, QuorumsAgree
  <2> QED
    BY <2>3, <2>4
<1> QED
  BY <1>1, VotingInvariance, PTL
=============================================================================
