----------------------------- MODULE Consensus ------------------------------
(***************************************************************************)
(* papyrus_consensus: every validator runs run_consensus, one height after *)
(* the other, with a SingleHeightConsensus (SHC) around the state machine, *)
(* over a broadcast network that delivers messages in any order.           *)
(*                                                                         *)
(* The code takes the voter a message names for its sender, and does not   *)
(* look whether it is a validator.  Here every message comes from the      *)
(* validator it names: a faulty one sends what it likes under its own name *)
(* only.  That is an assumption of the model; the code verifies nothing.   *)
(***************************************************************************)
EXTENDS ConsensusStateMachine

CONSTANTS
  Proposer,               \* validators[0] proposes at every height
  StoredBlocks,           \* [validator -> what its storage may answer for the
                          \*  block of a height: None when it is reverted
                          \*  between wait_for_block and the read]
  MaxHeight,              \* heights run by the model
  MaxDuplicates           \* messages delivered a second time

ASSUME ConsensusAssumption ==
  /\ Proposer \in Validators
  /\ StoredBlocks \in [Validators -> SUBSET (Hashes \cup {None}) \ {{}}]
  /\ MaxHeight \in Nat \ {0}
  /\ MaxDuplicates \in Nat

VARIABLES
  nodes,      \* what each honest validator holds while run_consensus runs
  sent,       \* messages broadcast by honest validators
  received,   \* messages each honest validator took from the network
  decided,    \* decisions run_height returned, by validator and height
  duplicates  \* deliveries of a message already delivered

vars == <<nodes, sent, received, decided, duplicates>>

Heights == 0 .. MaxHeight - 1
N == Cardinality(Validators)

Message(type, height, from, hash) ==
  [type |-> type, height |-> height, from |-> from, hash |-> hash]
Messages(from) ==
  {Message(type, height, v, hash) :
     type \in {"Prevote", "Precommit"}, height \in Heights, v \in from, hash \in Hashes}
  \cup {Message("Proposal", height, v, hash) :
          height \in Heights, v \in from \cap {Proposer}, hash \in Hashes}

(* PapyrusConsensusContext: what a validator may get, once wait_for_block has
   seen the block of the height.  None is a task that panicked, because the
   block is gone again or, for a validator, is not the one it received. *)
build_proposal(v) == IF v = Proposer THEN StoredBlocks[v] ELSE {None}
validate_proposal(v, hash) ==
  {IF block = hash THEN block ELSE None : block \in StoredBlocks[v]}

(* The task that sends the proposal on. *)
propose(v, height, block) == {Message("Proposal", height, v, block)}

(* SingleHeightConsensus::new, with the messages run_height keeps. *)
NewNode(height, cached) ==
  [pc |-> "start", height |-> height, state_machine |-> NewStateMachine(N),
   proposal |-> None,
   prevotes |-> [v \in Validators |-> None], precommits |-> [v \in Validators |-> None],
   cached_messages |-> cached, current_height_messages |-> << >>]

Ended(height, pc) == [NewNode(height, << >>) EXCEPT !.pc = pc]
RunsConsensus(node) == node.pc \in {"start", "loop"}

Init ==
  /\ nodes = [v \in Honest |-> NewNode(0, << >>)]
  /\ sent = {}
  /\ received = [v \in Honest |-> {}]
  /\ decided = [v \in Honest |-> [h \in Heights |-> None]]
  /\ duplicates = 0

-----------------------------------------------------------------------------
(* The SHC handlers: from a node to the node, what it broadcasts and how the
   call ends: "ok", "error" (Err), "panic" or "decision". *)

Outcome(node, messages, result) == [node |-> node, messages |-> messages, result |-> result]

(* Mutant: the node's own vote is not put in the table it decides from. *)
handle_state_machine_voteMutant(v, outcome, event) ==
  [outcome EXCEPT !.messages = @ \cup {Message(event.type, outcome.node.height, v, event.hash)}]

handle_state_machine_vote(v, outcome, event) ==
  LET votes == IF event.type = "Prevote" THEN "prevotes" ELSE "precommits"
  IN  IF outcome.node[votes][v] # None THEN [outcome EXCEPT !.result = "panic"]
      ELSE [outcome EXCEPT
              !.node[votes][v] = event.hash,
              !.messages = @ \cup {Message(event.type, outcome.node.height, v, event.hash)}]

handle_state_machine_decision(outcome, event) ==
  LET node == outcome.node
      supporting == {w \in Validators : node.precommits[w] = event.hash}
  IN  [outcome EXCEPT
         !.result = IF node.proposal = event.hash
                       /\ Cardinality(supporting) >= node.state_machine.quorum
                    THEN "decision" ELSE "panic"]

HandleStateMachineEvent(v, outcome, event) ==
  CASE outcome.result # "ok" -> outcome
    [] event.type = "Proposal" -> outcome
    [] event.type \in {"Prevote", "Precommit"} -> handle_state_machine_vote(v, outcome, event)
    [] event.type = "Decision" -> handle_state_machine_decision(outcome, event)

(* handle_state_machine_events, after the state machine handled an event. *)
handle_state_machine_events(v, node, result, messages) ==
  LET handled == [node EXCEPT !.state_machine = result.sm]
      outcome[i \in 0 .. Len(result.events)] ==
        IF i = 0 THEN Outcome(handled, messages, IF result.sm.panic THEN "panic" ELSE "ok")
        ELSE HandleStateMachineEvent(v, outcome[i - 1], result.events[i])
  IN  outcome[Len(result.events)]

(* block is what build_proposal gave; without it the expect fails. *)
handle_state_machine_start_round(v, node, block) ==
  LET started == StartStateMachine(node.state_machine).sm
      StartRound(hash) == handle_event(started, Event("StartRound", hash))
  IN  IF v # Proposer THEN handle_state_machine_events(v, node, StartRound(None), {})
      ELSE IF block = None THEN Outcome(node, {}, "panic")
      ELSE handle_state_machine_events(
             v, [node EXCEPT !.proposal = block], StartRound(block),
             propose(v, node.height, block))

(* Mutant: a vote that comes again counts again. *)
handle_voteMutant(v, node, message) ==
  LET votes == IF message.type = "Prevote" THEN "prevotes" ELSE "precommits"
  IN  IF node[votes][message.from] \notin {None, message.hash} THEN Outcome(node, {}, "error")
      ELSE handle_state_machine_events(
             v, [node EXCEPT ![votes][message.from] = message.hash],
             handle_event(node.state_machine, Event(message.type, message.hash)), {})

(* The same voter again is an equivocation or a replay. *)
handle_vote(v, node, message) ==
  LET votes == IF message.type = "Prevote" THEN "prevotes" ELSE "precommits"
      old == node[votes][message.from]
  IN  IF old = message.hash THEN Outcome(node, {}, "ok")
      ELSE IF old # None THEN Outcome(node, {}, "error")
      ELSE handle_state_machine_events(
             v, [node EXCEPT ![votes][message.from] = message.hash],
             handle_event(node.state_machine, Event(message.type, message.hash)), {})

(* SingleHeightConsensus::handle_proposal; block is what validate_proposal gave. *)
SHC_handle_proposal(v, node, message, block) ==
  IF message.from # Proposer \/ block = None THEN Outcome(node, {}, "error")
  ELSE handle_state_machine_events(
         v, [node EXCEPT !.proposal = block],
         handle_event(node.state_machine, Event("Proposal", block)), {})

-----------------------------------------------------------------------------
(* The end of a handler in run_height and run_consensus: a decision starts the
   next height, an error or a panic ends run_consensus. *)
Finish(v, outcome) ==
  LET node == outcome.node
      next == IF node.height + 1 \in Heights
              THEN NewNode(node.height + 1, node.cached_messages)
              ELSE Ended(node.height, "done")
  IN  /\ sent' = sent \cup outcome.messages
      /\ nodes' = [nodes EXCEPT ![v] =
                     CASE outcome.result = "decision" -> next
                       [] outcome.result = "ok" -> node
                       [] OTHER -> Ended(node.height, outcome.result)]
      /\ decided' = IF outcome.result = "decision"
                    THEN [decided EXCEPT ![v][node.height] = node.proposal] ELSE decided

(* Mutant: the cached messages of the height are not replayed. *)
take_cached_messagesMutant(node) ==
  LET cached == node.cached_messages
  IN  [node EXCEPT !.pc = "loop",
         !.cached_messages = SelectSeq(cached, LAMBDA m : m.height > node.height)]

take_cached_messages(node) ==
  LET cached == node.cached_messages
  IN  [node EXCEPT !.pc = "loop",
         !.cached_messages = SelectSeq(cached, LAMBDA m : m.height > node.height),
         !.current_height_messages = SelectSeq(cached, LAMBDA m : m.height = node.height)]

(* run_height up to its loop; a decision in start leaves the cache as it is. *)
start(v) ==
  /\ nodes[v].pc = "start"
  /\ \E block \in build_proposal(v) :
       LET outcome == handle_state_machine_start_round(v, nodes[v], block)
       IN  Finish(v, IF outcome.result # "ok" THEN outcome
                     ELSE [outcome EXCEPT !.node = take_cached_messages(@)])
  /\ UNCHANGED <<received, duplicates>>

(* The loop body, once a message is there. *)
handle_message(v, node, message) ==
  CASE message.height > node.height ->
         Finish(v, Outcome([node EXCEPT !.cached_messages = Append(@, message)], {}, "ok"))
    [] message.height < node.height -> Finish(v, Outcome(node, {}, "ok"))
    [] message.height = node.height /\ message.type = "Proposal" ->
         \E block \in validate_proposal(v, message.hash) :
           Finish(v, SHC_handle_proposal(v, node, message, block))
    [] OTHER -> Finish(v, handle_vote(v, node, message))

(* The last cached message of the height. *)
pop_cached(v) ==
  LET messages == nodes[v].current_height_messages IN
  /\ nodes[v].pc = "loop" /\ messages # << >>
  /\ handle_message(v, [nodes[v] EXCEPT !.current_height_messages = Front(messages)],
                    Last(messages))
  /\ UNCHANGED <<received, duplicates>>

(* The next message of the network: one a peer broadcast, or anything from a
   faulty validator; at most MaxDuplicates come twice. *)
receive(v) ==
  /\ nodes[v].pc = "loop" /\ nodes[v].current_height_messages = << >>
  /\ \E message \in {m \in sent : m.from # v} \cup Messages(Faulty) :
       /\ message \in received[v] => duplicates < MaxDuplicates
       /\ duplicates' = duplicates + (IF message \in received[v] THEN 1 ELSE 0)
       /\ handle_message(v, nodes[v], message)
       /\ received' = [received EXCEPT ![v] = IF RunsConsensus(nodes'[v])
                                             THEN @ \cup {message} ELSE {}]

RunConsensus(v) == start(v) \/ pop_cached(v) \/ receive(v)

Next == \E v \in Honest : RunConsensus(v)

Spec == Init /\ [][Next]_vars

(* v is waiting for a message, and none is on its way, or has ended. *)
Idle(v) ==
  \/ ~RunsConsensus(nodes[v])
  \/ /\ nodes[v].pc = "loop" /\ nodes[v].current_height_messages = << >>
     /\ \A m \in sent : m.from = v \/ m \in received[v]

(* Assumption 4 of state_machine.rs, no network failures: every message is
   delivered at last.  This is weak fairness of RunConsensus(v), which, without
   faulty validators and duplicates, is enabled exactly when v is not Idle. *)
FairSpec ==
  Spec /\ \A v \in Honest : []<>Idle(v) \/ []<><<RunConsensus(v)>>_vars

-----------------------------------------------------------------------------
VoteTable == [Validators -> Hashes \cup {None}]

(* No assert, expect or panic! of the state machine and of the SHC fires, in
   whatever order the messages come: votes before the proposal, precommits
   before prevotes, those of the next height before this one ends. *)
NoPanic == \A v \in Honest : nodes[v].pc # "panic"

(* "SHC handles replays and conflicts" (state_machine.rs): with a message
   delivered twice, no assert of the state machine fires either. *)
ReplaysHandled == NoPanic

(* The counters of the state machine are the tallies of the SHC's vote tables:
   every vote, the node's own included, was counted exactly once, also when it
   was delivered twice or followed by another one of its voter (handle_vote). *)
VotesCountedOnce ==
  \A v \in Honest : nodes[v].pc = "loop" =>
    \A h \in Hashes :
      /\ nodes[v].state_machine.prevotes[h] =
           Cardinality({w \in Validators : nodes[v].prevotes[w] = h})
      /\ nodes[v].state_machine.precommits[h] =
           Cardinality({w \in Validators : nodes[v].precommits[w] = h})

(* No waiting validator sits on a quorum that its step allows it to act on,
   in whatever order the votes and the proposal came (advance_to_step checks
   "for an existing quorum in case messages arrived out of order"). *)
NoQuorumMissed ==
  \A v \in Honest : nodes[v].pc = "loop" =>
    LET sm == nodes[v].state_machine IN
    \A h \in Hashes :
      /\ sm.step = "Prevote" => sm.prevotes[h] < sm.quorum
      /\ sm.step = "Precommit" => sm.precommits[h] < sm.quorum

(* What an honest validator broadcast of a type at a height. *)
VoteOf(type, height, v) ==
  LET votes == {m \in sent : m.type = type /\ m.height = height /\ m.from = v}
  IN  IF votes = {} THEN None ELSE (CHOOSE m \in votes : TRUE).hash

Voting(h) == INSTANCE ConsensusVoting WITH
  prevoted <- [v \in Honest |-> VoteOf("Prevote", h, v)],
  precommitted <- [v \in Honest |-> VoteOf("Precommit", h, v)],
  decided <- [v \in Honest |-> decided[v][h]]

(* At every height the validators implement ConsensusVoting: each votes and
   decides at most once, precommits after a quorum of prevotes and decides
   after a quorum of precommits.  A step that leaves sent and decided as they
   are is a stutter of all heights. *)
ImplementsVoting ==
  /\ \A h \in Heights : Voting(h)!VotingInit
  /\ [][\/ UNCHANGED <<sent, decided>>
        \/ \A h \in Heights : Voting(h)!VotingNext \/ UNCHANGED Voting(h)!votingVars]_vars

(* When every message is delivered, in any order, and the storages agree, every
   validator decides every height. *)
EveryoneDecides == \A v \in Honest, h \in Heights : <>(decided[v][h] # None)
=============================================================================
