---------------------------- MODULE DupSortTable ----------------------------
(***************************************************************************)
(* The common-prefix tables of the storage: contract_storage, nonces and   *)
(* events (db/table_types/dup_sort_tables.rs).  libmdbx keeps, under every *)
(* main key, a sorted set of byte strings, each of them a sub key followed *)
(* by a value.  Nothing in libmdbx keeps two of them from having the same  *)
(* sub key: the operations look at the neighbours of what they wrote and   *)
(* repair.  Main keys are byte strings, because lower_bound computes the   *)
(* next one with add_one; sub keys have a fixed length, so sub keys and    *)
(* values are numbers.                                                     *)
(***************************************************************************)
EXTENDS Integers, Sequences, FiniteSets

CONSTANTS
  MainKeys, SubKeys, DupValues,
  MaxByte   \* u8::MAX

VARIABLES
  entries,     \* {<<main key, sub key, value>>}, what libmdbx holds
  dup_cursor,  \* <<"at", entry>>, <<"end">> or <<"unset">>
  dup_answer   \* what the last operation returned

dupVars == <<entries, dup_cursor, dup_answer>>

DupKeys == MainKeys \X SubKeys
KeyOf(e) == <<e[1], e[2]>>
NoEntry == -1

(* The order of byte strings. *)
BytesBefore(a, b) ==
  \E i \in DOMAIN b :
    /\ i = Len(a) + 1 \/ (i <= Len(a) /\ a[i] < b[i])
    /\ \A j \in 1 .. i - 1 : a[j] = b[j]

SubBefore(e, f) == e[2] < f[2] \/ (e[2] = f[2] /\ e[3] < f[3])
EntryBefore(e, f) == BytesBefore(e[1], f[1]) \/ (e[1] = f[1] /\ SubBefore(e, f))
KeyBefore(k, l) == BytesBefore(k[1], l[1]) \/ (k[1] = l[1] /\ k[2] < l[2])

-----------------------------------------------------------------------------
(* Cursors of libmdbx.  Each operation returns the entry it finds in a set of
   one element, or nothing. *)

Least(E) == {e \in E : \A f \in E : e = f \/ EntryBefore(e, f)}
Greatest(E) == {e \in E : \A f \in E : e = f \/ EntryBefore(f, e)}

get_both_range(E, main, sub) == Least({e \in E : e[1] = main /\ e[2] >= sub})
set_range(E, main) == Least({e \in E : ~BytesBefore(e[1], main)})
next_dup(E, at) == Least({e \in E : e[1] = at[1] /\ EntryBefore(at, e)})
prev_dup(E, at) == Greatest({e \in E : e[1] = at[1] /\ EntryBefore(e, at)})

(* put with APPEND_DUP: after every entry of the main key; with APPEND too: after
   every entry. *)
CanAppendDup(E, e) == \A f \in E : f[1] = e[1] => EntryBefore(f, e)
CanAppend(E, e) == \A f \in E : EntryBefore(f, e)

-----------------------------------------------------------------------------
(* The table: an operation takes the entries and returns the new ones and an
   answer. *)

Done(E, result) == [entries |-> E, answer |-> result]
Ok(E) == Done(E, <<"Ok">>)

SameSubKey(found, key) == {e \in found : e[2] = key[2]}

get_sub_key_and_value(key, value) == <<key[1], key[2], value>>

dup_get(E, key) ==
  LET found == SameSubKey(get_both_range(E, key[1], key[2]), key)
  IN  IF found = {} THEN <<"None">> ELSE <<"Some", (CHOOSE e \in found : TRUE)[3]>>

(* Mutant: only the next entry is looked at. *)
dup_upsertMutant(E, key, value) ==
  LET e == get_sub_key_and_value(key, value)
      written == E \cup {e}
  IN  Ok(written \ SameSubKey(next_dup(written, e), key))

dup_upsert(E, key, value) ==
  LET e == get_sub_key_and_value(key, value)
      written == E \cup {e}
      after == SameSubKey(next_dup(written, e), key)
      before == SameSubKey(prev_dup(written, e), key)
  IN  Ok(written \ (IF after # {} THEN after ELSE before))

dup_insert(E, key, value) ==
  LET e == get_sub_key_and_value(key, value)
      written == E \cup {e}
  IN  IF e \in E THEN Done(E, <<"KeyAlreadyExists">>)
      ELSE IF SameSubKey(next_dup(written, e) \cup prev_dup(written, e), key) # {}
      THEN Done(written \ {e}, <<"KeyAlreadyExists">>)
      ELSE Ok(written)

dup_append(E, key, value) ==
  LET e == get_sub_key_and_value(key, value)
      last == {f \in Greatest(E) : f[1] = key[1] /\ f[2] = key[2]}
  IN  IF CanAppend(E, e)
      THEN Ok((E \cup {e}) \ SameSubKey(prev_dup(E \cup {e}, e), key))
      ELSE IF last # {}
      THEN Ok((E \ last) \cup {e})
      ELSE Done(E, <<"Append">>)

dup_append_greater_sub_key(E, key, value) ==
  LET e == get_sub_key_and_value(key, value)
      written == E \cup {e}
  IN  IF ~CanAppendDup(E, e) THEN Done(E, <<"Append">>)
      ELSE IF SameSubKey(prev_dup(written, e), key) # {}
      THEN Done(written \ {e}, <<"Append">>)
      ELSE Ok(written)

dup_delete(E, key) ==
  Ok(E \ SameSubKey(get_both_range(E, key[1], key[2]), key))

(* The bytes as a number, plus one. *)
add_one(bytes) ==
  LET carried == {i \in DOMAIN bytes : \A j \in i .. Len(bytes) : bytes[j] = MaxByte}
      least == IF carried = {} THEN Len(bytes) + 1 ELSE Len(bytes) + 1 - Cardinality(carried)
  IN  IF least = 1 THEN <<1>> \o [i \in DOMAIN bytes |-> 0]
      ELSE [i \in DOMAIN bytes |-> IF i >= least THEN 0
                                   ELSE IF i = least - 1 THEN bytes[i] + 1 ELSE bytes[i]]

(* Main keys end with the serialization of a felt, which tells its own length:
   none is a prefix of another, a longer one starts with a larger byte, and the
   first byte is never u8::MAX. *)
ASSUME MainKeysAssumption ==
  /\ MaxByte \in Nat \ {0} /\ SubKeys \subseteq Nat /\ DupValues \subseteq Nat
  /\ MainKeys \subseteq Seq(Nat)
  /\ \A m \in MainKeys :
       /\ (\A i \in DOMAIN m : m[i] <= MaxByte) /\ (\E i \in DOMAIN m : m[i] # MaxByte)
       /\ \A other \in MainKeys \ {m} :
            BytesBefore(m, other) => ~BytesBefore(other, add_one(m))

(* Mutant: a main key without the sub key has no lower bound. *)
dup_lower_boundMutant(E, key) == get_both_range(E, key[1], key[2])

dup_lower_bound(E, key) ==
  LET found == get_both_range(E, key[1], key[2])
  IN  IF found # {} THEN found ELSE set_range(E, add_one(key[1]))

-----------------------------------------------------------------------------
DupInit ==
  /\ entries = {}
  /\ dup_cursor = <<"unset">>
  /\ dup_answer = <<"Ok">>

DupWrite(done) ==
  /\ entries' = done.entries /\ dup_answer' = done.answer
  /\ dup_cursor' = <<"unset">>

DupGet(key) == dup_answer' = dup_get(entries, key) /\ UNCHANGED <<entries, dup_cursor>>

(* A cursor that moved to "found", or stays. *)
MoveTo(found, otherwise) ==
  /\ dup_cursor' = IF found = {} THEN otherwise ELSE <<"at", CHOOSE e \in found : TRUE>>
  /\ dup_answer' = IF found = {} THEN <<"None">>
                   ELSE LET e == CHOOSE e \in found : TRUE IN <<"Some", KeyOf(e), e[3]>>
  /\ UNCHANGED entries

dup_prev ==
  /\ dup_cursor # <<"unset">>
  /\ MoveTo(Greatest({e \in entries : dup_cursor = <<"end">> \/ EntryBefore(e, dup_cursor[2])}),
            dup_cursor)

dup_next ==
  /\ dup_cursor # <<"unset">>
  /\ MoveTo(Least({e \in entries : dup_cursor # <<"end">> /\ EntryBefore(dup_cursor[2], e)}),
            dup_cursor)

DupNext ==
  \/ \E key \in DupKeys :
       \/ DupGet(key)
       \/ DupWrite(dup_delete(entries, key))
       \/ MoveTo(dup_lower_bound(entries, key), <<"end">>)
  \/ \E key \in DupKeys, value \in DupValues :
       \/ DupWrite(dup_upsert(entries, key, value))
       \/ DupWrite(dup_insert(entries, key, value))
       \/ DupWrite(dup_append(entries, key, value))
       \/ DupWrite(dup_append_greater_sub_key(entries, key, value))
  \/ dup_prev \/ dup_next

DupSpec == DupInit /\ [][DupNext]_dupVars

-----------------------------------------------------------------------------
DupTypeOK ==
  /\ entries \subseteq MainKeys \X SubKeys \X DupValues
  /\ dup_cursor \in {<<"unset">>, <<"end">>} \cup {<<"at", e>> : e \in entries}

(* No two entries have one key, whatever sequence of writes was made: the
   repairs of upsert, insert and append find what they have to remove. *)
OneEntryPerKey == \A e \in entries, f \in entries : KeyOf(e) = KeyOf(f) => e = f

(* A common-prefix table does what a simple table does, operation by operation:
   answers, errors, cursors and contents
   (common_prefix_compare_with_simple_table_random compares samples). *)
Simple ==
  INSTANCE SimpleTable WITH
    Keys <- DupKeys, Values <- DupValues, Before <- KeyBefore,
    map <- [k \in DupKeys |-> IF \E v \in DupValues : <<k[1], k[2], v>> \in entries
                              THEN CHOOSE v \in DupValues : <<k[1], k[2], v>> \in entries
                              ELSE NoEntry],
    cursor <- IF dup_cursor[1] = "at" THEN <<"at", KeyOf(dup_cursor[2])>> ELSE dup_cursor,
    answer <- dup_answer

ActsAsSimpleTable == Simple!Spec
=============================================================================
