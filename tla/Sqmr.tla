------------------------------- MODULE Sqmr -------------------------------
(***************************************************************************)
(* The sqmr protocol (single query, multiple responses): the behaviour     *)
(* sqmr/behaviour.rs, with state sq, and the handler of one connection     *)
(* sqmr/handler.rs, with state h.  A session id is <<"out", n>> or         *)
(* <<"in", n>>.  A query has no content here, and the responses of a       *)
(* session are numbered 1, 2, ...                                          *)
(***************************************************************************)
EXTENDS Integers, Sequences, FiniteSets, SequencesExt, Functions

Outbound(n) == <<"out", n>>
Inbound(n) == <<"in", n>>
IsInbound(id) == id[1] = "in"

NewBehaviour ==
  [pending_events |-> <<>>,   \* a VecDeque
   sessions       |-> <<>>,   \* session_id_to_peer_id_and_connection_id
   pending        |-> {},     \* outbound_sessions_pending_peer_assignment
   next_outbound  |-> 1,      \* next_outbound_session_id
   dropped        |-> {}]     \* dropped_sessions

(* Events of the behaviour, to the swarm and through it to the other parts;
   k numbers a response, or the protocol of a new inbound session. *)
RequestPeerAssignment(s) == [type |-> "RequestPeerAssignment", session |-> s]
NotifyHandler(c, request, id, k) ==
  [type |-> "NotifyHandler", conn |-> c, request |-> request, id |-> id, response |-> k]
SessionEvent(type, id, k) == [type |-> type, id |-> id, response |-> k]

Enqueue(sq, event) == [sq EXCEPT !.pending_events = Append(@, event)]
Without(f, keys) == Restrict(f, DOMAIN f \ keys)

start_query(sq) ==
  LET s == sq.next_outbound
  IN  Enqueue([sq EXCEPT !.next_outbound = @ + 1, !.pending = @ \cup {s}],
              RequestPeerAssignment(s))

(* send_response and close_inbound_session: an unknown session is an error
   that the caller logs. *)
send_response(sq, i, k) ==
  IF Inbound(i) \notin DOMAIN sq.sessions THEN sq
  ELSE Enqueue(sq, NotifyHandler(sq.sessions[Inbound(i)], "SendResponse", Inbound(i), k))
close_inbound_session(sq, i) ==
  IF Inbound(i) \notin DOMAIN sq.sessions THEN sq
  ELSE Enqueue(sq, NotifyHandler(sq.sessions[Inbound(i)], "CloseInboundSession", Inbound(i), 0))

drop_session(sq, id) ==
  IF id \notin DOMAIN sq.sessions \/ id \in sq.dropped THEN sq
  ELSE Enqueue([sq EXCEPT !.dropped = @ \cup {id}],
               NotifyHandler(sq.sessions[id], "DropSession", id, 0))

(* Mutant: a session that is assigned again runs its query again. *)
session_assignedMutant(sq, s, c) ==
  Enqueue([sq EXCEPT !.sessions = (Outbound(s) :> c) @@ @],
          NotifyHandler(c, "CreateOutboundSession", Outbound(s), 0))

(* on_other_behaviour_event: the connection is recorded also for a session
   that is not pending, whose query is not run again. *)
session_assigned(sq, s, c) ==
  LET recorded == [sq EXCEPT !.sessions = (Outbound(s) :> c) @@ @]
  IN  IF s \notin sq.pending THEN recorded
      ELSE Enqueue([recorded EXCEPT !.pending = @ \ {s}],
                   NotifyHandler(c, "CreateOutboundSession", Outbound(s), 0))

(* Mutant: the outbound sessions of a closed connection are forgotten. *)
sqmr_connection_closedMutant(sq, c) ==
  LET ended == {id \in DOMAIN sq.sessions : sq.sessions[id] = c}
  IN  FoldLeft(LAMBDA acc, id : Enqueue(acc, SessionEvent("SessionFailed", id, 0)),
               [sq EXCEPT !.sessions = Without(@, ended)],
               SetToSeq({id \in ended : IsInbound(id)}))

(* on_swarm_event: the sessions of a closed connection fail. *)
sqmr_connection_closed(sq, c) ==
  LET ended == {id \in DOMAIN sq.sessions : sq.sessions[id] = c}
  IN  FoldLeft(LAMBDA acc, id : Enqueue(acc, SessionEvent("SessionFailed", id, 0)),
               [sq EXCEPT !.sessions = Without(@, ended)], SetToSeq(ended))

(* on_connection_handler_event *)
on_connection_handler_event(sq, c, event) ==
  LET id == event.id
      muted == id \in sq.dropped
  IN  CASE event.type = "NewInboundSession" ->
             Enqueue([sq EXCEPT !.sessions = (id :> c) @@ @], event)
        [] event.type \in {"SessionFailed", "SessionFinishedSuccessfully"} ->
             LET removed == [sq EXCEPT !.sessions = Without(@, {id}), !.dropped = @ \ {id}]
             IN  IF muted THEN removed ELSE Enqueue(removed, event)
        [] event.type = "ReceivedResponse" ->
             IF muted THEN sq ELSE Enqueue(sq, event)
        [] event.type = "NotifySessionDropped" -> [sq EXCEPT !.dropped = @ \ {id}]

-----------------------------------------------------------------------------
(* The handler of a connection.  The queue of an inbound session starts with
   the message that is being written. *)
NewHandler ==
  [inbound        |-> <<>>,   \* id_to_inbound_session: [queue, closing]
   outbound       |-> <<>>,   \* id_to_outbound_session: responses read so far
   negotiating    |-> {},     \* OutboundSubstreamRequests made and not answered
   pending_events |-> <<>>,
   marked_to_end  |-> {},     \* inbound_sessions_marked_to_end
   dropped        |-> {}]     \* dropped_outbound_sessions_non_negotiated

NewInboundStream == [queue |-> <<>>, closing |-> FALSE]
Notify(h, event) == [h EXCEPT !.pending_events = Append(@, event)]

(* InboundSession::poll with the outcome io of the write or close that is in
   progress: "pending", "ready" or "error". *)
PollInbound(stream, io) ==
  IF ~ stream.closing /\ stream.queue = <<>> THEN [result |-> "alive", stream |-> stream]
  ELSE CASE io = "pending" -> [result |-> "alive", stream |-> stream]
         [] io = "error" -> [result |-> "SessionFailed", stream |-> stream]
         [] io = "ready" ->
              IF stream.closing THEN [result |-> "SessionFinishedSuccessfully", stream |-> stream]
              ELSE [result |-> "alive", stream |-> [stream EXCEPT !.queue = Tail(@)]]

(* Mutant: a session marked to end is closed although messages are queued. *)
poll_inbound_sessionMutant(h, id, io) ==
  LET first == PollInbound(h.inbound[id], io)
      closes == id \in h.marked_to_end /\ first.result = "alive" /\ ~ first.stream.closing
      last == IF closes THEN PollInbound([first.stream EXCEPT !.closing = TRUE], io) ELSE first
  IN  IF last.result = "alive" THEN [h EXCEPT !.inbound[id] = last.stream]
      ELSE Notify([h EXCEPT !.inbound = Without(@, {id})], SessionEvent(last.result, id, 0))

(* One inbound session in Handler::poll: a session that is marked to end and
   has nothing left to write starts closing. *)
poll_inbound_session(h, id, io) ==
  LET first == PollInbound(h.inbound[id], io)
      closes == /\ id \in h.marked_to_end
                /\ first.result = "alive"
                /\ first.stream = NewInboundStream
      last == IF closes THEN PollInbound([first.stream EXCEPT !.closing = TRUE], io) ELSE first
  IN  IF last.result = "alive" THEN [h EXCEPT !.inbound[id] = last.stream]
      ELSE Notify([h EXCEPT !.inbound = Without(@, {id})], SessionEvent(last.result, id, 0))

(* Mutant: a response is reported twice. *)
poll_outbound_sessionMutant(h, id, item) ==
  LET k == h.outbound[id] + 1
      ended == [h EXCEPT !.outbound = Without(@, {id})]
      event == SessionEvent("ReceivedResponse", id, k)
  IN  CASE item = "pending" -> h
        [] item = "ready" -> Notify(Notify([h EXCEPT !.outbound[id] = k], event), event)
        [] item = "error" -> Notify(ended, SessionEvent("SessionFailed", id, 0))
        [] item = "end" -> Notify(ended, SessionEvent("SessionFinishedSuccessfully", id, 0))

(* One outbound session in Handler::poll, with what its stream has. *)
poll_outbound_session(h, id, item) ==
  LET k == h.outbound[id] + 1
      ended == [h EXCEPT !.outbound = Without(@, {id})]
  IN  CASE item = "pending" -> h
        [] item = "ready" -> Notify([h EXCEPT !.outbound[id] = k],
                                    SessionEvent("ReceivedResponse", id, k))
        [] item = "error" -> Notify(ended, SessionEvent("SessionFailed", id, 0))
        [] item = "end" -> Notify(ended, SessionEvent("SessionFinishedSuccessfully", id, 0))

(* Handler::poll, up to the event it returns (the first of pending_events). *)
handler_poll(h, io) ==
  LET inbound == FoldLeft(LAMBDA acc, id : poll_inbound_session(acc, id, io[id]),
                          h, SetToSeq(DOMAIN h.inbound))
  IN  FoldLeft(LAMBDA acc, id : poll_outbound_session(acc, id, io[id]),
               inbound, SetToSeq(DOMAIN h.outbound))

(* on_behaviour_event *)
on_behaviour_event(h, event) ==
  LET id == event.id
      dropped == Notify([h EXCEPT !.inbound = Without(@, {id}), !.outbound = Without(@, {id})],
                        SessionEvent("NotifySessionDropped", id, 0))
  IN  CASE event.request = "CreateOutboundSession" ->
             [h EXCEPT !.negotiating = @ \cup {id}]
        [] event.request = "SendResponse" ->
             IF id \in DOMAIN h.inbound /\ id \notin h.marked_to_end
             THEN [h EXCEPT !.inbound[id].queue = Append(@, event.response)] ELSE h
        [] event.request = "CloseInboundSession" ->
             [h EXCEPT !.marked_to_end = @ \cup {id}]
        [] event.request = "DropSession" ->
             IF IsInbound(id) \/ id \in DOMAIN h.outbound THEN dropped
             ELSE [dropped EXCEPT !.dropped = @ \cup {id}]

(* on_connection_event *)
fully_negotiated_outbound(h, id) ==
  LET negotiated == [h EXCEPT !.negotiating = @ \ {id}]
  IN  IF id \in h.dropped THEN [negotiated EXCEPT !.dropped = @ \ {id}]
      ELSE [negotiated EXCEPT !.outbound = (id :> 0) @@ @]
dial_upgrade_error(h, id) ==
  Notify([h EXCEPT !.negotiating = @ \ {id}], SessionEvent("SessionFailed", id, 0))
fully_negotiated_inbound(h, id, protocol) ==
  Notify([h EXCEPT !.inbound = (id :> NewInboundStream) @@ @],
         SessionEvent("NewInboundSession", id, protocol))

=============================================================================
