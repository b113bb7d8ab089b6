---------------------------- MODULE PeerManager ----------------------------
(***************************************************************************)
(* The peer manager (papyrus_network/src/peer_manager): which peer answers *)
(* a query.  Its state is a record pm; every operation is an operator from *)
(* the state to the next one, used by Network.                             *)
(*                                                                         *)
(* Time.  pm.deadlines lists the ends of the blocking periods in the order *)
(* in which they come: a report appends one, and time removes the first.   *)
(* A peer is blocked while it has an entry.  pm.sleep is the number of     *)
(* entries that must go before the sleep ends.                             *)
(***************************************************************************)
EXTENDS Integers, Sequences, SequencesExt, FiniteSetsExt, Functions

CONSTANTS
  PeerOrder,              \* the peers, in the iteration order of the HashMap
  target_num_for_peers    \* PeerManagerConfig

Peers == Range(PeerOrder)
NoSleep == -1

NewPeerManager ==
  [peers            |-> <<>>,   \* known peer -> its connection ids
   session_to_peer  |-> <<>>,   \* session_to_peer_map
   last_peer_index  |-> 0,
   pending_events   |-> <<>>,   \* a Vec: pushed and popped at its end
   pending_dial     |-> [p \in Peers |-> <<>>],
   waiting          |-> <<>>,   \* sessions_received_when_no_peers
   deadlines        |-> <<>>,
   sleep            |-> NoSleep]

SessionAssigned(s, p, c) ==
  [type |-> "SessionAssigned", session |-> s, peer |-> p, conn |-> c]
Dial(p) == [type |-> "Dial", peer |-> p]
PauseDiscovery == [type |-> "PauseDiscovery"]

is_blocked(pm, p) == p \in Range(pm.deadlines)

(* The earliest blocked_until of the known peers, all of them blocked. *)
EarliestUnblock(pm) ==
  Min({Max({i \in DOMAIN pm.deadlines : pm.deadlines[i] = p}) : p \in DOMAIN pm.peers})

(* The known peers from last_peer_index on, and around. *)
PeersFromLast(pm) ==
  LET known == SelectSeq(PeerOrder, LAMBDA p : p \in DOMAIN pm.peers)
  IN  SubSeq(known, pm.last_peer_index + 1, Len(known)) \o SubSeq(known, 1, pm.last_peer_index)

assign_peer_to_session(pm, s) ==
  LET known == Cardinality(DOMAIN pm.peers)
      free == SelectSeq(PeersFromLast(pm), LAMBDA p : ~ is_blocked(pm, p))
      p == Head(free)
      moved == [pm EXCEPT !.last_peer_index = (@ + 1) % known]
      assigned == [moved EXCEPT !.session_to_peer = (s :> p) @@ @]
  IN  IF known = 0 THEN [pm EXCEPT !.waiting = Append(@, s)]
      ELSE IF free = <<>>
      THEN [moved EXCEPT !.waiting = Append(@, s), !.sleep = EarliestUnblock(pm)]
      ELSE IF pm.peers[p] # <<>>
      THEN [assigned EXCEPT
              !.pending_events = Append(@, SessionAssigned(s, p, pm.peers[p][1]))]
      ELSE [assigned EXCEPT !.pending_dial[p] = Append(@, s),
                            !.pending_events = Append(@, Dial(p))]

AssignAll(pm, sessions) == FoldLeft(assign_peer_to_session, pm, sessions)

(* A new peer is not blocked, so every waiting session can be assigned. *)
add_peer(pm, p) ==
  AssignAll([pm EXCEPT !.peers = (p :> <<>>) @@ @, !.sleep = NoSleep, !.waiting = <<>>],
            pm.waiting)

(* on_other_behaviour_event for FoundListenAddresses *)
found_listen_addresses(pm, p) ==
  LET added == add_peer(pm, p)
  IN  IF p \in DOMAIN pm.peers THEN pm
      ELSE IF Cardinality(DOMAIN added.peers) < target_num_for_peers THEN added
      ELSE [added EXCEPT !.pending_events = Append(@, PauseDiscovery)]

(* update_reputation blocks a known peer for blacklist_timeout from now on. *)
report_peer(pm, p) ==
  IF p \in DOMAIN pm.peers THEN [pm EXCEPT !.deadlines = Append(@, p)] ELSE pm

(* The end of the first blocking period. *)
TimePasses(pm) ==
  [pm EXCEPT !.deadlines = Tail(@), !.sleep = IF @ > 0 THEN @ - 1 ELSE @]

(* on_swarm_event.  A dial that the swarm refused, for the peer is connected or
   dialed already, changes nothing. *)
pm_dial_failure(pm, p, error) ==
  LET sessions == {s \in DOMAIN pm.session_to_peer : pm.session_to_peer[s] = p}
  IN  IF error = "DialPeerConditionFalse" THEN pm
      ELSE AssignAll(report_peer(pm, p), SetToSortSeq(sessions, <))

pm_connection_established(pm, p, c) ==
  IF p \notin DOMAIN pm.peers THEN pm
  ELSE LET pending == pm.pending_dial[p]
           events == [i \in DOMAIN pending |-> SessionAssigned(pending[i], p, c)]
       IN  [pm EXCEPT !.pending_events = @ \o events,
                      !.pending_dial[p] = <<>>,
                      !.peers[p] = Append(@, c)]

pm_connection_closed(pm, p, c) ==
  IF p \notin DOMAIN pm.peers THEN pm
  ELSE [pm EXCEPT !.peers[p] = SelectSeq(@, LAMBDA id : id # c)]

(* A blocked peer may not connect (handle_established_inbound_connection). *)
accepts_connection(pm, p) == ~ is_blocked(pm, p)

(* Mutant: the end of the sleep does not assign the waiting sessions. *)
pm_pollMutant(pm) ==
  IF pm.pending_events = <<>> /\ pm.sleep = 0 THEN [pm EXCEPT !.sleep = NoSleep] ELSE pm

(* poll, up to the event it returns (the last of pending_events). *)
pm_poll(pm) ==
  IF pm.pending_events = <<>> /\ pm.sleep = 0
  THEN [AssignAll([pm EXCEPT !.waiting = <<>>], pm.waiting) EXCEPT !.sleep = NoSleep]
  ELSE pm

=============================================================================
