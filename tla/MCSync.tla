------------------------------- MODULE MCSync -------------------------------
(* Either the sync, which takes state updates from a stream of which it only
   knows the order, or that stream. *)
EXTENDS MCStateSync, StateUpdateStream

VARIABLE part  \* the part of this behaviour

Update(declared, old, deployed) == [declared |-> declared, old |-> old, deployed |-> deployed]

(* Contracts that share a class nobody declared, classes of either kind, and
   blocks without classes. *)
SomeChains ==
  {<<Update(<<1>>, <<10>>, <<10, 11, 11>>), Update(<< >>, << >>, << >>),
     Update(<<2>>, << >>, <<1, 11>>)>>,
   <<Update(<< >>, << >>, << >>), Update(<<1, 2>>, << >>, <<2>>)>>}

SomeConfigs ==
  [max_state_updates_to_download : 1 .. 2, max_state_updates_to_store_in_memory : 1 .. 2,
   max_classes_to_download : 1 .. 2, class_cache_size : {1}]

One(S) == CHOOSE x \in S : TRUE

PartInit ==
  /\ part \in {"sync", "stream"}
  /\ Init /\ StreamInit
  /\ part = "stream" => scenario = One(Scenarios)
  /\ part = "sync" => updates = One(UpdateChains) /\ config = One(StreamConfigs)

(* The task has ended for good. *)
SyncDone == pc = "key_changed" /\ UNCHANGED vars
StreamDone == status # "open" /\ UNCHANGED updateVars

PartNext ==
  \/ part = "sync" /\ (Next \/ SyncDone) /\ UNCHANGED <<part, updateVars>>
  \/ part = "stream" /\ (StreamNext \/ StreamDone) /\ UNCHANGED <<part, vars>>

PartSpec ==
  /\ PartInit /\ [][PartNext]_<<part, vars, updateVars>>
  /\ part = "sync" => SyncFairness

(* Without a base layer that disagrees, a sync converges to the central chain. *)
SyncConverges == part = "sync" => Converges
=============================================================================
