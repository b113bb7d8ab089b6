----------------------------- MODULE Discovery ------------------------------
(***************************************************************************)
(* The discovery behaviour of papyrus_network: it keeps a connection to    *)
(* the bootstrap peer, puts that peer in the Kademlia routing table and    *)
(* then has one Kademlia query after the other running, unless the peer    *)
(* manager paused it.  The swarm is modelled by the connections and the    *)
(* dials to the bootstrap peer, which the peer manager and the peer itself *)
(* may open as well; it polls the behaviour after every event.             *)
(***************************************************************************)
EXTENDS Integers

CONSTANT DiscoveryBounds  \* how often the environment connects, closes and fails

VARIABLES
  disc,     \* discovery::Behaviour
  sleep,    \* sleep_future_for_dialing_bootstrap_peer: "none", "running", "elapsed"
  swarm,    \* the connections and dials to the bootstrap peer
  kad_queries, \* Kademlia queries that have not finished
  happened  \* what the environment did

discoveryVars == <<disc, sleep, swarm, kad_queries, happened>>

DiscoveryInit ==
  /\ disc = [is_paused |-> FALSE, is_query_running |-> FALSE, is_dialing |-> FALSE,
             is_connected |-> FALSE, is_in_kad |-> FALSE]
  /\ sleep = "none"
  /\ swarm = [connections |-> 0, dials |-> 0]
  /\ kad_queries = 0
  /\ happened = [connects |-> 0, closes |-> 0, failures |-> 0, pauses |-> 0]

Happens(what) ==
  /\ happened[what] < DiscoveryBounds[what]
  /\ happened' = [happened EXCEPT ![what] = @ + 1]

-----------------------------------------------------------------------------
(* on_swarm_event *)

DialFailed(d) == [d EXCEPT !.is_dialing = FALSE]

BootstrapConnected(d) == [d EXCEPT !.is_connected = TRUE, !.is_dialing = FALSE]

BootstrapClosed(d, remaining) ==
  IF remaining = 0 THEN [d EXCEPT !.is_connected = FALSE, !.is_dialing = FALSE] ELSE d

(* poll *)

WantsDial == ~disc.is_dialing /\ ~disc.is_connected

(* Mutant: the sleep is never polled. *)
dial_bootstrapMutant ==
  /\ WantsDial /\ sleep = "none"
  /\ swarm.connections = 0 /\ swarm.dials = 0
  /\ disc' = [disc EXCEPT !.is_dialing = TRUE]
  /\ swarm' = [swarm EXCEPT !.dials = 1]
  /\ UNCHANGED <<sleep, kad_queries, happened>>

(* PeerCondition::DisconnectedAndNotDialing: when the peer manager dials too,
   the swarm refuses the dial at once. *)
dial_bootstrap ==
  /\ WantsDial /\ sleep # "running"
  /\ IF swarm.connections = 0 /\ swarm.dials = 0
     THEN /\ disc' = [disc EXCEPT !.is_dialing = TRUE]
          /\ swarm' = [swarm EXCEPT !.dials = 1]
          /\ sleep' = "none"
     ELSE disc' = DialFailed(disc) /\ sleep' = "running" /\ UNCHANGED swarm
  /\ UNCHANGED <<kad_queries, happened>>

announce_bootstrap ==
  /\ disc.is_connected /\ ~disc.is_in_kad
  /\ disc' = [disc EXCEPT !.is_in_kad = TRUE]
  /\ UNCHANGED <<sleep, swarm, kad_queries, happened>>

request_kad_query ==
  /\ disc.is_connected /\ disc.is_in_kad
  /\ ~disc.is_paused /\ ~disc.is_query_running
  /\ disc' = [disc EXCEPT !.is_query_running = TRUE]
  /\ kad_queries' = kad_queries + 1
  /\ UNCHANGED <<sleep, swarm, happened>>

poll_discovery == dial_bootstrap \/ announce_bootstrap \/ request_kad_query

(* on_other_behaviour_event *)

KadQueryFinished ==
  /\ kad_queries > 0
  /\ kad_queries' = kad_queries - 1
  /\ disc' = [disc EXCEPT !.is_query_running = FALSE]
  /\ UNCHANGED <<sleep, swarm, happened>>

PauseDiscoveryEvent ==
  /\ Happens("pauses")
  /\ disc' = [disc EXCEPT !.is_paused = TRUE]
  /\ UNCHANGED <<sleep, swarm, kad_queries>>

(* No behaviour sends ResumeDiscovery yet. *)
ResumeDiscoveryEvent ==
  /\ disc.is_paused
  /\ disc' = [disc EXCEPT !.is_paused = FALSE]
  /\ UNCHANGED <<sleep, swarm, kad_queries, happened>>

-----------------------------------------------------------------------------
(* The swarm *)

SleepElapses == sleep = "running" /\ sleep' = "elapsed" /\ UNCHANGED <<disc, swarm, kad_queries, happened>>

PeerManagerDials ==
  /\ Happens("connects")
  /\ swarm' = [swarm EXCEPT !.dials = @ + 1]
  /\ UNCHANGED <<disc, sleep, kad_queries>>

BootstrapConnects ==
  /\ Happens("connects")
  /\ swarm' = [swarm EXCEPT !.connections = @ + 1]
  /\ disc' = BootstrapConnected(disc)
  /\ UNCHANGED <<sleep, kad_queries>>

DialSucceeds ==
  /\ swarm.dials > 0
  /\ swarm' = [connections |-> swarm.connections + 1, dials |-> swarm.dials - 1]
  /\ disc' = BootstrapConnected(disc)
  /\ UNCHANGED <<sleep, kad_queries, happened>>

DialFails ==
  /\ swarm.dials > 0 /\ Happens("failures")
  /\ swarm' = [swarm EXCEPT !.dials = @ - 1]
  /\ disc' = DialFailed(disc)
  /\ sleep' = "running"
  /\ UNCHANGED kad_queries

ConnectionCloses ==
  /\ swarm.connections > 0 /\ Happens("closes")
  /\ swarm' = [swarm EXCEPT !.connections = @ - 1]
  /\ disc' = BootstrapClosed(disc, swarm.connections - 1)
  /\ UNCHANGED <<sleep, kad_queries>>

DialEnds == DialSucceeds \/ DialFails

DiscoveryNext ==
  \/ poll_discovery
  \/ KadQueryFinished \/ PauseDiscoveryEvent \/ ResumeDiscoveryEvent
  \/ SleepElapses \/ PeerManagerDials \/ BootstrapConnects \/ DialEnds \/ ConnectionCloses

(* The swarm keeps polling the behaviour, dials end, timers fire and Kademlia
   queries have a timeout. *)
DiscoveryFairness ==
  /\ WF_discoveryVars(poll_discovery) /\ WF_discoveryVars(DialEnds)
  /\ WF_discoveryVars(SleepElapses) /\ WF_discoveryVars(KadQueryFinished)

DiscoverySpec == DiscoveryInit /\ [][DiscoveryNext]_discoveryVars /\ DiscoveryFairness

-----------------------------------------------------------------------------

(* Once connections stay, dials do not fail and discovery is not paused,
   queries are made for ever. *)
KeepsDiscovering ==
  <>[](~disc.is_paused) => []<>disc.is_query_running /\ []<>(~disc.is_query_running)
=============================================================================
