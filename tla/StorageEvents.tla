--------------------------- MODULE StorageEvents ----------------------------
(***************************************************************************)
(* The event iterators of papyrus_storage (body/events.rs) and the         *)
(* transaction readers they share with the JSON-RPC server (body/mod.rs).  *)
(*                                                                         *)
(* A transaction is [hash, events, output, ...]: output is the sequence of *)
(* its events [from, keys] and events the set of their emitters, which     *)
(* is what the events table is keyed by.  Addresses are numbers, so the    *)
(* table has an order.  An iterator is the sequence of the items it still  *)
(* gives: [from, index, event], index being <<<<block, offset>>, event>>.  *)
(***************************************************************************)
EXTENDS Storage

EventItem(tx_index, i, event) ==
  [from |-> event.from, index |-> <<tx_index, i>>, event |-> event]

(* get_events_from_tx: the events of one emitter, from event start on. *)
get_events_from_tx(tx_index, output, address, start) ==
  LET own == {i \in DOMAIN output : output[i].from = address /\ i >= start}
      order == SetToSortSeq(own, <)
  IN  [j \in DOMAIN order |-> EventItem(tx_index, order[j], output[order[j]])]

AddressIndexBefore(j, k) ==
  j[1] < k[1] \/ (j[1] = k[1] /\ IndexBefore(j[2], k[2]))

(* The cursor starts at the lower bound of <<address, transaction>> in the
   events table and goes on through the later addresses.  The event index of
   the start counts for the first entry found, if that is of the transaction the
   start names, whatever its address. *)
iter_events_by_contract_address(s, address, start) ==
  LET keys == {k \in DOMAIN s.events : ~AddressIndexBefore(k, <<address, start[1]>>)}
      order == SetToSortSeq(keys, AddressIndexBefore)
  IN  FlattenSeq([j \in DOMAIN order |->
        get_events_from_tx(order[j][2], s.transaction_metadata[order[j][2]].output,
                           order[j][1],
                           IF j = 1 /\ order[j][2] = start[1] THEN start[2] ELSE 1)])

(* The transactions from the lower bound of the start on, up to to_block.  The
   event index of the start counts for the first transaction found, whichever
   that is. *)
iter_events_by_event_index(s, start, to_block) ==
  LET keys == {k \in DOMAIN s.transaction_metadata :
                 ~IndexBefore(k, start[1]) /\ k[1] <= to_block}
      order == SetToSortSeq(keys, IndexBefore)
  IN  FlattenSeq([j \in DOMAIN order |->
        LET output == s.transaction_metadata[order[j]].output
            first == IF j = 1 THEN start[2] ELSE 1
        IN  [i \in 1 .. Max({0, Len(output) - first + 1}) |->
               EventItem(order[j], first + i - 1, output[first + i - 1])]])

(* address is None when the filter has none. *)
iter_events(s, address, start, to_block) ==
  IF address = None THEN iter_events_by_event_index(s, start, to_block)
  ELSE iter_events_by_contract_address(s, address, start)

-----------------------------------------------------------------------------
(* Transactions by index and by hash *)

get_transaction(s, index) == get(s, "transaction_metadata", index)
get_transaction_idx_by_hash(s, hash) == get(s, "transaction_hash_to_idx", hash)

(* The cursor goes to the first transaction of the next block and one back:
   the last transaction of this block, if it has any. *)
get_block_transactions_count(s, n) ==
  LET before == {k \in DOMAIN s.transaction_metadata : IndexBefore(k, <<n + 1, 1>>)}
      last == CHOOSE k \in before : \A j \in before : ~IndexBefore(k, j)
  IN  IF s.markers.Body <= n THEN None
      ELSE IF before = {} \/ last[1] # n THEN 0 ELSE last[2]

get_casm(s, class_hash) == get(s, "casms", class_hash)

get_class_definition_block_number(s, class_hash) ==
  get(s, "declared_classes_block", class_hash)
=============================================================================
