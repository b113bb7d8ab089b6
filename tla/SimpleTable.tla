---------------------------- MODULE SimpleTable -----------------------------
(***************************************************************************)
(* A table of the database as the Table and DbCursorTrait traits promise   *)
(* it (db/table_types/mod.rs) and SimpleTable provides it: a map from keys *)
(* to values with a cursor in the order of the keys.  A key is a pair of a *)
(* main key and a sub key; Before orders the keys as libmdbx orders their  *)
(* serializations.                                                         *)
(***************************************************************************)
EXTENDS FiniteSets

CONSTANTS Keys, Values, NoEntry, Before(_, _)

VARIABLES
  map,     \* the value of every key, or NoEntry
  cursor,  \* <<"at", key>>, <<"end">> after the last key, or <<"unset">>
  answer   \* what the last operation returned

vars == <<map, cursor, answer>>

Present == {k \in Keys : map[k] # NoEntry}
First(S) == CHOOSE k \in S : \A other \in S : k = other \/ Before(k, other)
Last(S) == CHOOSE k \in S : \A other \in S : k = other \/ Before(other, k)

Init ==
  /\ map = [k \in Keys |-> NoEntry]
  /\ cursor = <<"unset">>
  /\ answer = <<"Ok">>

(* A write: the map and the answer; cursors are not kept over writes. *)
Write(new_map, result) ==
  map' = new_map /\ answer' = result /\ cursor' = <<"unset">>

get(k) ==
  /\ answer' = IF map[k] = NoEntry THEN <<"None">> ELSE <<"Some", map[k]>>
  /\ UNCHANGED <<map, cursor>>

upsert(k, v) == Write([map EXCEPT ![k] = v], <<"Ok">>)

insert(k, v) ==
  IF map[k] = NoEntry THEN Write([map EXCEPT ![k] = v], <<"Ok">>)
  ELSE Write(map, <<"KeyAlreadyExists">>)

(* The key must be the last one or come after it. *)
append(k, v) ==
  IF \A other \in Present : k = other \/ Before(other, k)
  THEN Write([map EXCEPT ![k] = v], <<"Ok">>)
  ELSE Write(map, <<"Append">>)

(* TableHandle::append_greater_sub_key, which only dup-sort tables have: the
   key must come after every key of the same main key. *)
append_greater_sub_key(k, v) ==
  IF \A other \in Present : other[1] = k[1] => Before(other, k)
  THEN Write([map EXCEPT ![k] = v], <<"Ok">>)
  ELSE Write(map, <<"Append">>)

delete(k) == Write([map EXCEPT ![k] = NoEntry], <<"Ok">>)

(* A cursor is placed at the first key that is not before k. *)
lower_bound(k) ==
  LET bound == {other \in Present : ~Before(other, k)} IN
  /\ cursor' = IF bound = {} THEN <<"end">> ELSE <<"at", First(bound)>>
  /\ answer' = IF bound = {} THEN <<"None">> ELSE <<"Some", First(bound), map[First(bound)]>>
  /\ UNCHANGED map

Move(to) ==
  /\ cursor' = IF to = {} THEN cursor ELSE <<"at", CHOOSE k \in to : TRUE>>
  /\ answer' = IF to = {} THEN <<"None">>
               ELSE LET k == CHOOSE k \in to : TRUE IN <<"Some", k, map[k]>>
  /\ UNCHANGED map

prev ==
  /\ cursor # <<"unset">>
  /\ LET before == {k \in Present : cursor = <<"end">> \/ Before(k, cursor[2])}
     IN  Move(IF before = {} THEN {} ELSE {Last(before)})

next ==
  /\ cursor # <<"unset">>
  /\ LET after == {k \in Present : cursor # <<"end">> /\ Before(cursor[2], k)}
     IN  Move(IF after = {} THEN {} ELSE {First(after)})

Next ==
  \/ \E k \in Keys : get(k) \/ delete(k) \/ lower_bound(k)
  \/ \E k \in Keys, v \in Values :
       upsert(k, v) \/ insert(k, v) \/ append(k, v) \/ append_greater_sub_key(k, v)
  \/ prev \/ next

Spec == Init /\ [][Next]_vars
=============================================================================
