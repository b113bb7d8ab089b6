------------------------------ MODULE Network ------------------------------
(***************************************************************************)
(* The network manager (papyrus_network/src/network_manager) over the peer *)
(* manager and the sqmr behaviour with a handler per connection, in a      *)
(* libp2p swarm.                                                           *)
(*                                                                         *)
(* The swarm is external.  It polls the behaviours, the peer manager       *)
(* before sqmr, until they have no event, and only then takes an event of  *)
(* a connection, so Drained guards those.  A request to a handler is       *)
(* delivered at once, and is lost when the connection is closed.  An event *)
(* of a handler reaches the behaviour in the step that returns it from     *)
(* poll; the events a handler still holds are lost with its connection.    *)
(***************************************************************************)
EXTENDS PeerManager, Sqmr

CONSTANTS
  Scenarios,      \* how often the environment acts: a set of Budget records
  BufferSize      \* of the channels of a protocol

VARIABLES
  pm,          \* the peer manager
  sq,          \* the sqmr behaviour
  handlers,    \* open connection -> its handler
  conn_peer,   \* connection id -> its peer; ids are not used again
  dials,       \* peer -> dials in progress
  nm,          \* the network manager
  buffers,     \* outbound session -> responses its subscriber has not read
  last_read,   \* outbound session -> the last response it has read
  budget,      \* what the environment may do in this behaviour
  used         \* what it has done

networkVars == <<pm, sq, handlers, conn_peer, dials, nm, buffers, last_read, budget, used>>
swarmVars == <<handlers, conn_peer, dials>>
clientVars == <<buffers, last_read>>
envVars == <<budget, used>>

Budget == [queries : Nat, inbound : Nat, conns : Nat, closes : Nat, reports : Nat,
           failures : Nat, drops : Nat, responses : Nat]
MaxQueries == Max({b.queries : b \in Scenarios})
QueryIds == 1 .. MaxQueries
Spend(kind) ==
  /\ used[kind] < budget[kind]
  /\ used' = [used EXCEPT ![kind] = @ + 1]
  /\ budget' = budget

NewNetworkManager ==
  [queries   |-> <<>>,   \* inbound sessions in the channel to the server
   receivers |-> <<>>,   \* sqmr_inbound_response_receivers: [state, sent]
   broadcasts |-> <<>>,  \* broadcasted messages in the channel: their peers
   senders   |-> {},     \* sqmr_outbound_response_senders
   num_active_inbound_sessions  |-> 0,
   num_active_outbound_sessions |-> 0]

NetworkInit ==
  /\ pm = NewPeerManager
  /\ sq = NewBehaviour
  /\ handlers = <<>>
  /\ conn_peer = <<>>
  /\ dials = [p \in Peers |-> 0]
  /\ nm = NewNetworkManager
  /\ buffers = [s \in QueryIds |-> <<>>]
  /\ last_read = [s \in QueryIds |-> 0]
  /\ budget \in Scenarios
  /\ used = [kind \in DOMAIN budget |-> 0]

(* The protocols of inbound sessions, by whether a server is registered, and
   the errors of a dial, by whether the swarm refused it. *)
Served == 1
Unserved == 0
DialErrors == {"DialPeerConditionFalse", "Transport"}

Drained == pm.pending_events = <<>> /\ pm.sleep # 0 /\ sq.pending_events = <<>>

-----------------------------------------------------------------------------
(* The network manager's handlers. *)

(* SessionFailed and SessionFinishedSuccessfully, with
   report_session_removed_to_metrics, which increases the outbound gauge. *)
report_session_removed(m, id, type) ==
  IF IsInbound(id) THEN [m EXCEPT !.num_active_inbound_sessions = @ - 1]
  ELSE [m EXCEPT !.num_active_outbound_sessions = @ + 1, !.senders = @ \ {id[2]}]

(* NewInboundSession: with a full channel to the server the query is dropped,
   and with it the sender of its responses.  A protocol that has a client here
   and no server is negotiated too (register_sqmr_protocol_client); its session
   is counted, and is neither answered nor closed. *)
new_inbound_session(m, id, protocol) ==
  LET counted == [m EXCEPT !.num_active_inbound_sessions = @ + 1]
      full == Len(m.queries) > BufferSize
  IN  IF protocol = Unserved THEN counted
      ELSE [counted EXCEPT
              !.queries = IF full THEN @ ELSE Append(@, id[2]),
              !.receivers = (id[2] :> [state |-> IF full THEN "ended" ELSE "queued",
                                       sent |-> 0]) @@ @]

(* handle_sqmr_behaviour_event *)
handle_sqmr_behaviour_event(event) ==
  IF event.type = "ReceivedResponse"
  THEN LET s == event.id[2]
       IN  /\ buffers' = IF s \in nm.senders /\ Len(buffers[s]) <= BufferSize
                         THEN [buffers EXCEPT ![s] = Append(@, event.response)] ELSE buffers
           /\ nm' = nm
  ELSE /\ nm' = IF event.type = "NewInboundSession" THEN new_inbound_session(nm, event.id, event.response)
                ELSE report_session_removed(nm, event.id, event.type)
       /\ buffers' = buffers

(* handle_local_sqmr_payload: a subscriber's query *)
handle_local_sqmr_payload ==
  /\ Spend("queries")
  /\ sq' = start_query(sq)
  /\ nm' = [nm EXCEPT !.num_active_outbound_sessions = @ + 1,
                      !.senders = @ \cup {sq.next_outbound}]
  /\ UNCHANGED <<pm, swarmVars, clientVars>>

(* The server (external) takes a query from its channel. *)
ServerTakesQuery ==
  /\ nm.queries # <<>>
  /\ nm' = [nm EXCEPT !.queries = Tail(@), !.receivers[Head(nm.queries)].state = "serving"]
  /\ UNCHANGED <<pm, sq, swarmVars, clientVars, envVars>>

(* handle_response_for_inbound_query: a response of the server, or the end of
   the responses, when the server, or a full channel, dropped the sender. *)
handle_response(i) ==
  /\ nm.receivers[i].state = "serving"
  /\ nm.receivers[i].sent < budget.responses
  /\ nm' = [nm EXCEPT !.receivers[i].sent = @ + 1]
  /\ sq' = send_response(sq, i, nm'.receivers[i].sent)
  /\ UNCHANGED <<pm, swarmVars, clientVars, envVars>>
handle_end_of_responses(i) ==
  /\ nm.receivers[i].state \in {"serving", "ended"}
  /\ nm' = [nm EXCEPT !.receivers[i].state = "closed"]
  /\ sq' = close_inbound_session(sq, i)
  /\ UNCHANGED <<pm, swarmVars, clientVars, envVars>>

(* The subscriber (external) reads a response. *)
SubscriberReads(s) ==
  /\ buffers[s] # <<>>
  /\ last_read' = [last_read EXCEPT ![s] = Head(buffers[s])]
  /\ buffers' = [buffers EXCEPT ![s] = Tail(@)]
  /\ UNCHANGED <<pm, sq, swarmVars, nm, envVars>>

(* handle_gossipsub_behaviour_event: a broadcasted message of a peer, dropped
   when the channel to the subscriber of its topic is full. *)
handle_gossipsub_behaviour_event(p) ==
  /\ Spend("reports")
  /\ Len(nm.broadcasts) <= BufferSize
  /\ nm' = [nm EXCEPT !.broadcasts = Append(@, p)]
  /\ UNCHANGED <<pm, sq, swarmVars, clientVars>>

(* The subscriber takes a message and reports its peer, or does not
   (handle_new_report_receiver and the last branch of run). *)
report_peer_of_message(reports) ==
  /\ nm.broadcasts # <<>>
  /\ nm' = [nm EXCEPT !.broadcasts = Tail(@)]
  /\ pm' = IF reports THEN report_peer(pm, Head(nm.broadcasts)) ELSE pm
  /\ UNCHANGED <<sq, swarmVars, clientVars, envVars>>

(* drop_session, which no part of the repository calls. *)
drop(id) ==
  /\ Spend("drops")
  /\ sq' = drop_session(sq, id)
  /\ UNCHANGED <<pm, swarmVars, nm, clientVars>>

-----------------------------------------------------------------------------
(* The swarm polls the behaviours. *)

poll_peer_manager ==
  LET polled == pm_poll(pm)
      event == Last(polled.pending_events)
      popped == [polled EXCEPT !.pending_events = Front(@)]
  IN  /\ pm.pending_events # <<>> \/ pm.sleep = 0
      /\ IF polled.pending_events = <<>>
         THEN pm' = polled /\ UNCHANGED <<sq, dials>>
         ELSE /\ pm' = popped
              /\ sq' = IF event.type = "SessionAssigned"
                       THEN session_assigned(sq, event.session, event.conn) ELSE sq
              /\ dials' = IF event.type = "Dial" THEN [dials EXCEPT ![event.peer] = @ + 1]
                          ELSE dials
      /\ UNCHANGED <<handlers, conn_peer, nm, clientVars, envVars>>

poll_sqmr ==
  LET event == Head(sq.pending_events)
      popped == [sq EXCEPT !.pending_events = Tail(@)]
  IN  /\ pm.pending_events = <<>> /\ pm.sleep # 0
      /\ sq.pending_events # <<>>
      /\ sq' = popped
      /\ CASE event.type = "RequestPeerAssignment" ->
                /\ pm' = assign_peer_to_session(pm, event.session)
                /\ UNCHANGED <<handlers, nm, buffers>>
           [] event.type = "NotifyHandler" ->
                /\ handlers' = IF event.conn \in DOMAIN handlers
                               THEN [handlers EXCEPT
                                       ![event.conn] = on_behaviour_event(@, event)]
                               ELSE handlers
                /\ UNCHANGED <<pm, nm, buffers>>
           [] OTHER -> handle_sqmr_behaviour_event(event) /\ UNCHANGED <<pm, handlers>>
      /\ UNCHANGED <<conn_peer, dials, last_read, envVars>>

(* Identify or discovery finds the addresses of a peer. *)
FoundListenAddresses(p) ==
  /\ pm.pending_events = <<>> /\ pm.sleep # 0
  /\ p \notin DOMAIN pm.peers
  /\ pm' = found_listen_addresses(pm, p)
  /\ UNCHANGED <<sq, swarmVars, nm, clientVars, envVars>>

TimePassed ==
  /\ pm.deadlines # <<>>
  /\ pm' = TimePasses(pm)
  /\ UNCHANGED <<sq, swarmVars, nm, clientVars, envVars>>

-----------------------------------------------------------------------------
(* Connections. *)

Established(p) ==
  LET c == Len(conn_peer) + 1
  IN  /\ Drained
      /\ conn_peer' = Append(conn_peer, p)
      /\ handlers' = (c :> NewHandler) @@ handlers
      /\ pm' = pm_connection_established(pm, p, c)
      /\ UNCHANGED <<sq, nm, clientVars>>

ConnectionEstablishedByDial(p) ==
  /\ dials[p] > 0
  /\ dials' = [dials EXCEPT ![p] = @ - 1]
  /\ Established(p)
  /\ UNCHANGED envVars

ConnectionEstablishedByPeer(p) ==
  /\ Spend("conns")
  /\ accepts_connection(pm, p)
  /\ Established(p)
  /\ dials' = dials

(* The peer manager hears of the failures of its own dials, which the swarm
   never refuses (PeerCondition::Always), and of the dials that discovery and
   kademlia make. *)
HearDialFailure(p, error) ==
  /\ Drained
  /\ Spend("failures")
  /\ pm' = pm_dial_failure(pm, p, error)
  /\ UNCHANGED <<sq, handlers, conn_peer, nm, clientVars>>
DialFailure(p) ==
  /\ dials[p] > 0
  /\ dials' = [dials EXCEPT ![p] = @ - 1]
  /\ HearDialFailure(p, "Transport")
OtherDialFailure(p, error) == HearDialFailure(p, error) /\ dials' = dials

ConnectionClosed(c) ==
  /\ Drained
  /\ Spend("closes")
  /\ handlers' = Without(handlers, {c})
  /\ pm' = pm_connection_closed(pm, conn_peer[c], c)
  /\ sq' = sqmr_connection_closed(sq, c)
  /\ UNCHANGED <<conn_peer, dials, nm, clientVars>>

(* A handler is polled; its streams have what the remote peer sent. *)
Outcomes(h, id) ==
  IF IsInbound(id) THEN {"pending", "ready", "error"}
  ELSE {"pending", "error", "end"} \cup IF h.outbound[id] < budget.responses THEN {"ready"} ELSE {}
IOs(h) ==
  LET ids == DOMAIN h.inbound \cup DOMAIN h.outbound
  IN  {io \in [ids -> {"pending", "ready", "error", "end"}] :
         \A id \in ids : io[id] \in Outcomes(h, id)}

poll_handler(c, io) ==
  LET polled == handler_poll(handlers[c], io)
  IN  /\ Drained
      /\ polled # handlers[c] \/ polled.pending_events # <<>>
      /\ IF polled.pending_events = <<>>
         THEN handlers' = [handlers EXCEPT ![c] = polled] /\ sq' = sq
         ELSE /\ handlers' = [handlers EXCEPT
                                ![c] = [polled EXCEPT !.pending_events = Tail(@)]]
              /\ sq' = on_connection_handler_event(sq, c, Head(polled.pending_events))
      /\ UNCHANGED <<pm, conn_peer, dials, nm, clientVars, envVars>>

HandlerStep(c, h) ==
  /\ handlers' = [handlers EXCEPT ![c] = h]
  /\ UNCHANGED <<pm, sq, conn_peer, dials, nm, clientVars>>

FullyNegotiatedOutbound(c, id) ==
  HandlerStep(c, fully_negotiated_outbound(handlers[c], id)) /\ UNCHANGED envVars
DialUpgradeError(c, id) ==
  HandlerStep(c, dial_upgrade_error(handlers[c], id)) /\ UNCHANGED envVars
FullyNegotiatedInbound(c, protocol) ==
  /\ Spend("inbound")
  /\ HandlerStep(c, fully_negotiated_inbound(handlers[c], Inbound(used.inbound + 1), protocol))

-----------------------------------------------------------------------------
ConnectionStep(c) ==
  \/ \E io \in IOs(handlers[c]) : poll_handler(c, io)
  \/ \E id \in handlers[c].negotiating :
       FullyNegotiatedOutbound(c, id) \/ DialUpgradeError(c, id)

NetworkNext ==
  \/ poll_peer_manager \/ poll_sqmr
  \/ handle_local_sqmr_payload
  \/ ServerTakesQuery
  \/ \E i \in DOMAIN nm.receivers : handle_response(i) \/ handle_end_of_responses(i)
  \/ \E s \in QueryIds : SubscriberReads(s)
  \/ \E p \in Peers : \/ FoundListenAddresses(p)
                      \/ ConnectionEstablishedByDial(p)
                      \/ ConnectionEstablishedByPeer(p)
                      \/ DialFailure(p)
                      \/ \E error \in DialErrors : OtherDialFailure(p, error)
                      \/ handle_gossipsub_behaviour_event(p)
  \/ \E reports \in BOOLEAN : report_peer_of_message(reports)
  \/ \E id \in DOMAIN sq.sessions : drop(id)
  \/ TimePassed
  \/ \E c \in DOMAIN handlers :
       \/ ConnectionStep(c)
       \/ \E protocol \in {Served, Unserved} : FullyNegotiatedInbound(c, protocol)
       \/ ConnectionClosed(c)

(* Fairness: while something can move a session, a step of the system is taken
   in the end.  The swarm is polled in a loop, a dial ends, a negotiation is
   answered or ends with session_timeout, and time passes.  It is weak fairness
   of all such steps together, with its ENABLED written out as CanProgress.
   Nothing makes a remote peer write on a stream, or end one: session_timeout
   bounds the upgrade of the substream only. *)
CanProgress ==
  \/ ~ Drained
  \/ \E p \in Peers : dials[p] > 0 \/ is_blocked(pm, p)
  \/ \E c \in DOMAIN handlers :
       \/ handlers[c].pending_events # <<>>
       \/ handlers[c].negotiating # {}
SystemStep == used' = used

NetworkFairness == []<>(~ CanProgress) \/ []<><<SystemStep>>_networkVars
NetworkSpec == NetworkInit /\ [][NetworkNext]_networkVars /\ NetworkFairness

-----------------------------------------------------------------------------

RunsOn(c, s) == Outbound(s) \in handlers[c].negotiating \cup DOMAIN handlers[c].outbound
Requests(request, id) ==
  {i \in DOMAIN sq.pending_events :
     /\ sq.pending_events[i].type = "NotifyHandler"
     /\ sq.pending_events[i].request = request
     /\ sq.pending_events[i].id = id}

(* A query is in one place only: waiting for a peer, on its way to a handler,
   or running on one connection.  It is not sent twice, although dial failures
   and late connections assign a session again (session_assigned). *)
QueriesSentOnce ==
  \A s \in QueryIds :
    Cardinality({c \in DOMAIN handlers : RunsOn(c, s)})
      + Cardinality(Requests("CreateOutboundSession", Outbound(s)))
      + (IF s \in sq.pending THEN 1 ELSE 0) <= 1

(* An inbound session is closed only after every response its server gave to
   the network manager has been written: none is in the session's queue, on
   its way to the handler, or still to come from the server. *)
ClosedAfterLastResponse ==
  \A c \in DOMAIN handlers : \A id \in DOMAIN handlers[c].inbound :
    handlers[c].inbound[id].closing =>
      /\ handlers[c].inbound[id].queue = <<>>
      /\ Requests("SendResponse", id) = {}
      /\ nm.receivers[id[2]].state = "closed"

(* A subscriber gets the responses of its session in the order in which the
   peer sent them, each at most once; some are lost when its buffer is full. *)
ResponsesInOrder ==
  \A s \in QueryIds :
    LET seen == <<last_read[s]>> \o buffers[s]
    IN  \A i \in 1 .. Len(seen) - 1 : seen[i] < seen[i + 1]

(* Sessions that wait although peers are known are assigned when a peer is no
   longer blocked: the sleep that ends then is set (assign_peer_to_session). *)
WaitingSessionsWake ==
  pm.waiting # <<>> /\ DOMAIN pm.peers # {} => pm.sleep # NoSleep

(* A session whose subscriber still waits is somewhere from where it is ended:
   its query waits for a peer or a dial, is on its way or runs on an open
   connection, or its end is.  As long as no session is dropped, and no
   connection closes after a dial has failed: the failure assigns the running
   sessions of the peer again, and the connection they run on is forgotten. *)
SessionsNotLost ==
  used.drops = 0 /\ (used.failures = 0 \/ used.closes = 0) => \A s \in nm.senders :
    \/ \E e \in Range(sq.pending_events) :
         \/ e.type = "RequestPeerAssignment" /\ e.session = s
         \/ e.type # "RequestPeerAssignment" /\ e.id = Outbound(s)
    \/ s \in Range(pm.waiting)
    \/ \E e \in Range(pm.pending_events) : e.type = "SessionAssigned" /\ e.session = s
    \/ \E p \in Peers :
         s \in Range(pm.pending_dial[p]) /\ (dials[p] > 0 \/ Dial(p) \in Range(pm.pending_events))
    \/ \E c \in DOMAIN handlers :
         \/ RunsOn(c, s)
         \/ \E e \in Range(handlers[c].pending_events) : e.id = Outbound(s)

(* Every outbound session comes to the point where only the remote peer can
   keep it: in the end it has run on a stream and its subscriber has learned of
   its end, whatever connections close, or it is negotiated on a connection that
   is open, and ends when the remote peer ends the stream.  As long as a peer is
   known, no dial fails, no session is dropped and no peer is reported again. *)
SessionsEnd ==
  <>[](\/ \A s \in nm.senders :
            \E c \in DOMAIN handlers : Outbound(s) \in DOMAIN handlers[c].outbound
       \/ DOMAIN pm.peers = {}
       \/ used.failures > 0 \/ used.drops > 0 \/ used.reports > 1)

=============================================================================
