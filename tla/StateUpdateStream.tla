------------------------- MODULE StateUpdateStream --------------------------
(***************************************************************************)
(* The stream of state updates of the central source                       *)
(* (papyrus_sync/sources/central/state_update_stream.rs): state updates    *)
(* and the classes they name are downloaded by two queues of tasks, each   *)
(* of which gives its results in the order its tasks were started, and     *)
(* joined again by counting.                                               *)
(*                                                                         *)
(* An update is [declared, old, deployed]: the hashes of its Cairo 1       *)
(* classes, of its Cairo 0 classes and of the classes of its contracts.    *)
(***************************************************************************)
EXTENDS Integers, SequencesExt, FiniteSetsExt

CONSTANTS
  UpdateChains,   \* the possible sequences of updates
  Cairo0Classes,
  StreamConfigs,  \* StateUpdateStreamConfig and the size of the class cache
  MaxMissing      \* bound: downloads that do not find their class or update

VARIABLES
  updates,  \* the updates of the blocks 1, 2, ...
  config,
  stream,   \* StateUpdateStream
  cache,    \* class_cache, the most recently used class last
  output,   \* the items the stream has given
  status,   \* "open", "ended", "failed" (an error was given) or "panicked"
  woken,    \* the sync polls the stream
  missing

updateVars == <<updates, config, stream, cache, output, status, woken, missing>>

StreamInit ==
  /\ updates \in UpdateChains /\ config \in StreamConfigs
  /\ stream = [initial_block_number |-> 1, update_tasks |-> << >>, downloaded_updates |-> << >>,
               classes_to_download |-> << >>, class_tasks |-> << >>, downloaded_classes |-> << >>]
  /\ cache = << >> /\ output = << >> /\ status = "open" /\ woken = TRUE /\ missing = 0

Task(of) == [of |-> of, result |-> "running"]

(* Deployed contracts may share a class, and it is listed for each of them. *)
class_hashes(update) ==
  update.declared \o update.old
    \o SelectSeq(update.deployed, LAMBDA c : c \notin Range(update.declared \o update.old))

-----------------------------------------------------------------------------
(* next_output *)

(* Collecting pairs into an IndexMap: a key keeps its first place. *)
Collect(pairs) ==
  LET first == {i \in DOMAIN pairs : \A j \in 1 .. i - 1 : pairs[j][1] # pairs[i][1]}
      order == SetToSortSeq(first, <)
  IN  [k \in DOMAIN order |-> pairs[order[k]]]

(* The classes are split at the numbers of declared and of old classes. *)
client_to_central_state_update(n, classes) ==
  LET declared == Len(updates[n].declared)
      old == declared + Len(updates[n].old)
  IN  [n |-> n, declared |-> SubSeq(classes, 1, declared),
       old |-> SubSeq(classes, declared + 1, old),
       deployed |-> SelectSeq(SubSeq(classes, old + 1, Len(classes)),
                              LAMBDA pair : pair[2] \in Cairo0Classes)]

(* into_cairo1 and into_cairo0 *)
Panics(item) ==
  \/ \E i \in DOMAIN item.declared : item.declared[i][2] \in Cairo0Classes
  \/ \E i \in DOMAIN item.old : item.old[i][2] \notin Cairo0Classes

NoOutput(s) == [s |-> s, item |-> << >>]

next_output(s) ==
  LET n == Head(s.downloaded_updates)
      hashes == class_hashes(updates[n])
      n_classes == Len(hashes)
      pairs == [i \in DOMAIN hashes |-> <<hashes[i], s.downloaded_classes[i]>>]
  IN  IF s.downloaded_updates = << >> THEN NoOutput(s)
      ELSE IF Len(s.downloaded_classes) < n_classes THEN NoOutput(s)
      ELSE [s |-> [s EXCEPT !.downloaded_updates = Tail(@),
                            !.downloaded_classes = SubSeq(@, n_classes + 1, Len(@))],
            item |-> <<client_to_central_state_update(n, Collect(pairs))>>]

-----------------------------------------------------------------------------
(* do_scheduling *)

Take(seq, k) == SubSeq(seq, 1, Min({k, Len(seq)}))
Drop(seq, k) == SubSeq(seq, k + 1, Len(seq))

schedule_class_downloads(s) ==
  LET room == Max({0, config.max_classes_to_download - Len(s.class_tasks)})
      scheduled == Take(s.classes_to_download, room)
  IN  [s EXCEPT !.class_tasks = @ \o [i \in DOMAIN scheduled |-> Task(scheduled[i])],
                !.classes_to_download = Drop(@, room)]

(* The queues are polled in order: a result waits for those before it. *)
Ready(tasks, result) == tasks # << >> /\ tasks[1].result = result

(* Mutant: the results are taken as they come. *)
handle_downloaded_classesMutant(s) ==
  LET found == {i \in DOMAIN s.class_tasks : s.class_tasks[i].result = "found"} IN
  IF found = {} THEN s
  ELSE [s EXCEPT !.downloaded_classes = Append(@, s.class_tasks[Min(found)].of),
                 !.class_tasks = RemoveAt(@, Min(found))]

handle_downloaded_classes(s) ==
  IF Ready(s.class_tasks, "found")
  THEN [s EXCEPT !.downloaded_classes = Append(@, s.class_tasks[1].of),
                 !.class_tasks = Tail(@)]
  ELSE s

schedule_state_update_downloads(s) ==
  LET room == config.max_state_updates_to_download - Len(s.update_tasks)
      last == Min({s.initial_block_number + room - 1, Len(updates)})
      new == [i \in 1 .. last - s.initial_block_number + 1 |->
                Task(s.initial_block_number + i - 1)]
  IN  [s EXCEPT !.update_tasks = @ \o new, !.initial_block_number = Max({@, last + 1})]

(* Mutant: off by one. *)
RoomInMemoryMutant(s) ==
  Len(s.downloaded_updates) + 1 < config.max_state_updates_to_store_in_memory

RoomInMemory(s) == Len(s.downloaded_updates) < config.max_state_updates_to_store_in_memory

handle_downloaded_state_updates(s) ==
  IF RoomInMemory(s) /\ Ready(s.update_tasks, "found")
  THEN [s EXCEPT !.classes_to_download = @ \o class_hashes(updates[s.update_tasks[1].of]),
                 !.downloaded_updates = Append(@, s.update_tasks[1].of),
                 !.update_tasks = Tail(@)]
  ELSE s

Scheduled(s) ==
  handle_downloaded_state_updates(
    schedule_state_update_downloads(
      handle_downloaded_classes(schedule_class_downloads(s))))

(* A missing class or update that is next in its queue. *)
Fails(s) ==
  \/ Ready(schedule_class_downloads(s).class_tasks, "missing")
  \/ RoomInMemory(s) /\ Ready(schedule_state_update_downloads(s).update_tasks, "missing")

(* Mutant: the stream ends when no state update is being downloaded. *)
ExhaustedMutant(s) == s.update_tasks = << >>

Exhausted(s) == s.class_tasks = << >> /\ s.update_tasks = << >>

(* One turn of the loop of poll_next.  It goes on after a turn that changed
   something, and the sync polls again after an item; otherwise the stream has
   ended or is polled again when a task wakes it. *)
poll_next ==
  LET scheduled == Scheduled(stream)
      next == next_output(scheduled)
  IN  /\ status = "open" /\ woken
      /\ \/ /\ Fails(stream)
            /\ status' = "failed"
            /\ UNCHANGED <<stream, output, woken>>
         \/ /\ ~Fails(stream)
            /\ stream' = next.s
            /\ output' = output \o next.item
            /\ woken' = (next.s # stream)
            /\ status' = IF next.item # << >> /\ Panics(next.item[1]) THEN "panicked"
                         ELSE IF next.s = stream /\ Exhausted(stream) THEN "ended" ELSE "open"
      /\ UNCHANGED <<updates, config, cache, missing>>

-----------------------------------------------------------------------------
(* The tasks *)

Use(c) == LET others == SelectSeq(cache, LAMBDA x : x # c)
          IN  Drop(Append(others, c), Max({0, Len(others) + 1 - config.class_cache_size}))

Running(tasks) == {i \in DOMAIN tasks : tasks[i].result = "running"}

(* A class in the cache is not asked for; one that is in the storage, or that
   the gateway has, is put in the cache. *)
download_class_if_necessary ==
  /\ status = "open"
  /\ \E i \in Running(stream.class_tasks) :
       \/ /\ stream' = [stream EXCEPT !.class_tasks[i].result = "found"]
          /\ cache' = Use(stream.class_tasks[i].of)
          /\ UNCHANGED missing
       \/ /\ stream.class_tasks[i].of \notin Range(cache) /\ missing < MaxMissing
          /\ stream' = [stream EXCEPT !.class_tasks[i].result = "missing"]
          /\ missing' = missing + 1
          /\ UNCHANGED cache
  /\ woken' = TRUE
  /\ UNCHANGED <<updates, config, output, status>>

(* The queue of updates is not polled while there is no room for them. *)
download_state_update ==
  /\ status = "open"
  /\ \E i \in Running(stream.update_tasks), result \in {"found", "missing"} :
       /\ result = "missing" => missing < MaxMissing
       /\ stream' = [stream EXCEPT !.update_tasks[i].result = result]
       /\ missing' = IF result = "missing" THEN missing + 1 ELSE missing
  /\ woken' = (woken \/ RoomInMemory(stream))
  /\ UNCHANGED <<updates, config, cache, output, status>>

StreamNext == poll_next \/ download_class_if_necessary \/ download_state_update

-----------------------------------------------------------------------------
(* The stream is a stream of one item per block, in the order of the blocks,
   that ends after the last of them: it never ends while an update waits for its
   classes. *)
Ordered == INSTANCE OrderedStream WITH total <- Len(updates), given <- Len(output)
ActsAsOrderedStream == Ordered!Spec

(* Every item is the update of its block, with every class under its own hash
   and each kind in its place: the classes that are joined by their number
   alone are never those of another block (next_output). *)
UpdatesWithTheirClasses ==
  \A n \in DOMAIN output :
    LET own(hashes) == [i \in DOMAIN hashes |-> <<hashes[i], hashes[i]>>]
        known == Range(updates[n].declared \o updates[n].old)
    IN  /\ output[n].n = n
        /\ output[n].declared = own(updates[n].declared) /\ output[n].old = own(updates[n].old)
        /\ Range(output[n].deployed)
             = {<<c, c>> : c \in (Range(updates[n].deployed) \cap Cairo0Classes) \ known}

(* An open stream is polled or waits for a request that runs, whatever the
   limits of its queues are: since every step is one towards its end, it comes
   to its end when the requests are answered. *)
StreamNotStuck ==
  status = "open" =>
    woken \/ Running(stream.class_tasks) # {} \/ Running(stream.update_tasks) # {}
=============================================================================
