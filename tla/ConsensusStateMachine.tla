----------------------- MODULE ConsensusStateMachine ------------------------
(***************************************************************************)
(* papyrus_consensus/state_machine.rs: the Tendermint state machine of one *)
(* height.  Only round 0 exists in this milestone, so rounds are left out. *)
(*                                                                         *)
(* A state machine is a record; an event is [type, hash].  Handling an     *)
(* event gives the new state machine and the events for the caller.  A     *)
(* failed assert sets panic.                                               *)
(***************************************************************************)
EXTENDS ConsensusVoters, Sequences, SequencesExt

Event(type, hash) == [type |-> type, hash |-> hash]

(* Mutant: two thirds are a quorum. *)
NewStateMachineMutant(total_weight) ==
  [step |-> "Propose", quorum |-> (2 * total_weight) \div 3,
   proposal |-> None,
   prevotes |-> [h \in Hashes |-> 0], precommits |-> [h \in Hashes |-> 0],
   starting_round |-> FALSE, events_queue |-> << >>, panic |-> FALSE]

NewStateMachine(total_weight) ==
  [step |-> "Propose", quorum |-> ((2 * total_weight) \div 3) + 1,
   proposal |-> None,
   prevotes |-> [h \in Hashes |-> 0], precommits |-> [h \in Hashes |-> 0],
   starting_round |-> FALSE, events_queue |-> << >>, panic |-> FALSE]

Result(sm, events) == [sm |-> sm, events |-> events]
PanicIf(condition, sm) == [sm EXCEPT !.panic = @ \/ condition]

StartStateMachine(sm) ==
  Result([sm EXCEPT !.starting_round = TRUE], <<Event("StartRound", None)>>)

(* max_by over the counts; any of the leading hashes. *)
leading_vote(counts) == CHOOSE h \in Hashes : \A other \in Hashes : counts[other] <= counts[h]

check_precommit_quorum(sm) ==
  LET leader == leading_vote(sm.precommits)
  IN  IF sm.precommits[leader] < sm.quorum THEN << >> ELSE <<Event("Decision", leader)>>

(* send_precommit, and advance_to_step(Precommit). *)
send_precommit(sm, hash) ==
  Result([sm EXCEPT !.step = "Precommit"],
         <<Event("Precommit", hash)>> \o check_precommit_quorum(sm))

check_prevote_quorum(sm) ==
  LET leader == leading_vote(sm.prevotes)
  IN  IF sm.prevotes[leader] < sm.quorum THEN Result(sm, << >>)
      ELSE send_precommit(sm, leader)

handle_start_round(sm, hash) ==
  Result(PanicIf(~sm.starting_round, [sm EXCEPT !.starting_round = FALSE]),
         IF hash = None THEN << >> ELSE <<Event("Proposal", hash)>>)

(* The prevote is sent, and then advance_to_step(Prevote). *)
handle_proposal(sm, hash) ==
  LET stored == PanicIf(sm.proposal # None, [sm EXCEPT !.proposal = hash])
      advanced == check_prevote_quorum([stored EXCEPT !.step = "Prevote"])
  IN  IF sm.step # "Propose" THEN Result(stored, << >>)
      ELSE Result(advanced.sm, <<Event("Prevote", hash)>> \o advanced.events)

(* Mutant: one more than a quorum is needed. *)
handle_prevoteLateMutant(sm, hash) ==
  LET counted == [sm EXCEPT !.prevotes[hash] = @ + 1]
  IN  IF counted.prevotes[hash] <= sm.quorum \/ sm.step # "Prevote"
      THEN Result(counted, << >>)
      ELSE send_precommit(counted, hash)

handle_prevote(sm, hash) ==
  LET counted == [sm EXCEPT !.prevotes[hash] = @ + 1]
  IN  IF counted.prevotes[hash] < sm.quorum \/ sm.step # "Prevote"
      THEN Result(counted, << >>)
      ELSE send_precommit(counted, hash)

handle_precommit(sm, hash) ==
  LET counted == [sm EXCEPT !.precommits[hash] = @ + 1]
  IN  IF counted.precommits[hash] < sm.quorum \/ sm.proposal = None
      THEN Result(counted, << >>)
      ELSE Result(PanicIf(sm.proposal # hash, counted), <<Event("Decision", hash)>>)

handle_event_internal(sm, event) ==
  CASE event.type = "StartRound" -> handle_start_round(sm, event.hash)
    [] event.type = "Proposal" -> handle_proposal(sm, event.hash)
    [] event.type = "Prevote" -> handle_prevote(sm, event.hash)
    [] event.type = "Precommit" -> handle_precommit(sm, event.hash)

(* One turn of the loop: the events the state machine sends are also its own
   input; a decision, always the last of them, ends the loop. *)
HandleFirst(run) ==
  LET result == handle_event_internal(run.sm, Head(run.queue)) IN
  IF run.queue = << >> \/ run.sm.panic THEN run
  ELSE [sm |-> result.sm, events |-> run.events \o result.events,
        queue |-> IF \E e \in Range(result.events) : e.type = "Decision" THEN << >>
                  ELSE Tail(run.queue) \o result.events]

(* A proposal, a prevote and a precommit can follow the queued events. *)
OwnEvents == 3

handle_enqueued_events(sm, queue) ==
  LET run[i \in 0 .. Len(queue) + OwnEvents] ==
        IF i = 0 THEN [sm |-> sm, events |-> << >>, queue |-> queue]
        ELSE HandleFirst(run[i - 1])
      last == run[Len(queue) + OwnEvents]
  IN  Result(last.sm, last.events)

handle_event(sm, event) ==
  IF sm.starting_round /\ event.type # "StartRound"
  THEN Result([sm EXCEPT !.events_queue = Append(@, event)], << >>)
  ELSE handle_enqueued_events([sm EXCEPT !.events_queue = << >>],
                              IF sm.starting_round THEN <<event>> \o sm.events_queue
                              ELSE Append(sm.events_queue, event))
=============================================================================
