----------------------------- MODULE MCNetwork -----------------------------
(* The sessions of two peers, or discovery, or the calls to the gateway, or the
   messages of an exchange, or the hashes of what is exchanged; the scenarios bound how often the environment acts. *)
EXTENDS Network, Discovery, GatewayClient

VARIABLES
  part,     \* the part of this behaviour
  exchange, \* of Converters
  sealed    \* of Hashes

Exchange == INSTANCE Converters
Seals == INSTANCE Hashes

MCPeerOrder == <<"p1", "p2">>

Scenario(queries, inbound, conns, closes, reports, failures, drops, responses) ==
  [queries |-> queries, inbound |-> inbound, conns |-> conns, closes |-> closes,
   reports |-> reports, failures |-> failures, drops |-> drops,
   responses |-> responses]

MCScenarios == {
  Scenario(2, 0, 0, 1, 0, 0, 0, 1),    \* queries, while a connection closes
  Scenario(1, 0, 1, 1, 1, 0, 0, 2),    \* a peer is reported
  Scenario(0, 2, 1, 1, 0, 0, 0, 1),    \* inbound queries
  Scenario(0, 1, 1, 0, 0, 0, 1, 2),    \* an inbound session is dropped
  Scenario(1, 1, 1, 0, 0, 0, 0, 1),    \* both directions
  Scenario(2, 0, 1, 0, 0, 1, 0, 0),    \* a dial fails
  Scenario(1, 0, 1, 1, 0, 0, 1, 1)}    \* an outbound session is dropped

(* A peer that is reported again while it is blocked. *)
MCReports == {Scenario(1, 0, 0, 0, 2, 0, 0, 0)}

MCDiscoveryBounds == [connects |-> 2, closes |-> 2, failures |-> 2, pauses |-> 1]

partVars == <<part, networkVars, discoveryVars, gatewayVars, exchange, sealed>>

PartInit ==
  /\ part \in {"sessions", "discovery", "gateway", "messages", "hashes"}
  /\ NetworkInit /\ DiscoveryInit
  /\ part # "sessions" => budget = CHOOSE s \in Scenarios : TRUE
  /\ IF part = "gateway" THEN GatewayInit ELSE call = NoCall /\ gateway = NoCall
  /\ IF part = "messages" THEN Exchange!ExchangeInit ELSE exchange = << >>
  /\ IF part = "hashes" THEN Seals!SealInit ELSE sealed = << >>

PartNext ==
  \/ part = "sessions" /\ NetworkNext /\ UNCHANGED <<part, discoveryVars, gatewayVars, exchange, sealed>>
  \/ part = "discovery" /\ DiscoveryNext /\ UNCHANGED <<part, networkVars, gatewayVars, exchange, sealed>>
  \/ part = "gateway" /\ GatewayNext /\ UNCHANGED <<part, networkVars, discoveryVars, exchange, sealed>>
  \/ part = "messages" /\ Exchange!ExchangeNext
     /\ UNCHANGED <<part, networkVars, discoveryVars, gatewayVars, sealed>>
  \/ part = "hashes" /\ Seals!SealNext
     /\ UNCHANGED <<part, networkVars, discoveryVars, gatewayVars, exchange>>

PartSpec ==
  /\ PartInit /\ [][PartNext]_partVars
  /\ part = "sessions" => NetworkFairness
  /\ part = "discovery" => DiscoveryFairness

(* In a behaviour of the gateway's clients, answers tell what happened. *)
GatewayAnswers == part = "gateway" => AnswersTellWhatHappened

(* In a behaviour of an exchange, what the peers decode is what was sent. *)
MessagesAgree == part = "messages" => Exchange!MessagesSurvive

(* In a behaviour of the hashes, each is accepted for what it is the hash of. *)
HashesBind == part = "hashes" => Seals!SealsBind

(* In a behaviour of the discovery, it keeps making queries. *)
DiscoveryGoesOn == part = "discovery" => KeepsDiscovering
=============================================================================
