------------------------- MODULE DupSortTableProofs -------------------------
(***************************************************************************)
(* A common-prefix table never holds two entries of one key, for every set *)
(* of keys and values.  The argument is that an entry with the same key as *)
(* the one just written is its neighbour: whatever lies between them has   *)
(* the same key too.                                                       *)
(***************************************************************************)
EXTENDS DupSortTable, TLAPS

Entry == MainKeys \X SubKeys \X DupValues

LEMMA Constants == SubKeys \subseteq Nat /\ DupValues \subseteq Nat /\ MainKeys \subseteq Seq(Nat)
  BY MainKeysAssumption

LEMMA EntryFields ==
  ASSUME NEW e \in Entry
  PROVE  /\ e[1] \in MainKeys /\ e[2] \in Nat /\ e[3] \in Nat
         /\ e = <<e[1], e[2], e[3]>>
<1>1. PICK m \in MainKeys, s \in SubKeys, v \in DupValues : e = <<m, s, v>>
  BY DEF Entry
<1>2. s \in Nat /\ v \in Nat
  BY Constants
<1> QED
  BY <1>1, <1>2

LEMMA BytesIrreflexive == ASSUME NEW m \in MainKeys PROVE ~BytesBefore(m, m)
<1>1. m \in Seq(Nat)
  BY Constants
<1>2. \A i \in DOMAIN m : i <= Len(m) /\ m[i] \in Nat
  BY <1>1
<1> QED
  BY <1>1, <1>2 DEF BytesBefore

(* Under one main key, the entries are ordered by sub key and value. *)
LEMMA SameMain ==
  ASSUME NEW e \in Entry, NEW f \in Entry, e[1] = f[1]
  PROVE  EntryBefore(e, f) <=> e[2] < f[2] \/ (e[2] = f[2] /\ e[3] < f[3])
  BY EntryFields, BytesIrreflexive DEF EntryBefore, SubBefore

UniqueKeys(E) == \A e \in E, f \in E : KeyOf(e) = KeyOf(f) => e = f

LEMMA SubsetUnique == ASSUME NEW E, UniqueKeys(E), NEW F \in SUBSET E PROVE UniqueKeys(F)
  BY DEF UniqueKeys

(* Writing e next to an entry f of the same key: f is the neighbour of e on its
   side, and no neighbour on the other side has that key. *)
LEMMA Neighbours ==
  ASSUME NEW E \in SUBSET Entry, UniqueKeys(E), NEW e \in Entry,
         NEW f \in E, KeyOf(f) = KeyOf(e), f # e
  PROVE  /\ e[3] < f[3] => /\ SameSubKey(next_dup(E \cup {e}, e), KeyOf(e)) = {f}
                           /\ SameSubKey(prev_dup(E \cup {e}, e), KeyOf(e)) = {}
         /\ f[3] < e[3] => /\ SameSubKey(prev_dup(E \cup {e}, e), KeyOf(e)) = {f}
                           /\ SameSubKey(next_dup(E \cup {e}, e), KeyOf(e)) = {}
         /\ e[3] < f[3] \/ f[3] < e[3]
<1> DEFINE W == E \cup {e}
<1>1. f \in Entry /\ f[1] = e[1] /\ f[2] = e[2]
  BY DEF KeyOf
<1>2. e[3] # f[3] /\ e[3] \in Nat /\ f[3] \in Nat /\ e[2] \in Nat
  BY <1>1, EntryFields
<1>3. \A g \in W : g \in Entry
  OBVIOUS
<1>4. \A g \in W : g[1] = e[1] /\ g[2] = e[2] => g = e \/ g = f
  BY <1>1 DEF UniqueKeys, KeyOf
<1>5. \A g \in W, h \in W : g[1] = e[1] /\ h[1] = e[1] =>
        (EntryBefore(g, h) <=> g[2] < h[2] \/ (g[2] = h[2] /\ g[3] < h[3]))
  BY <1>3, SameMain
<1>6. \A g \in W : g[2] \in Nat /\ g[3] \in Nat
  BY <1>3, EntryFields
<1>7. SameSubKey(next_dup(W, e), KeyOf(e)) \subseteq {g \in {f} : EntryBefore(e, f)}
  BY <1>2, <1>4, <1>5, <1>6 DEF SameSubKey, next_dup, Least, KeyOf
<1>8. SameSubKey(prev_dup(W, e), KeyOf(e)) \subseteq {g \in {f} : EntryBefore(f, e)}
  BY <1>2, <1>4, <1>5, <1>6 DEF SameSubKey, prev_dup, Greatest, KeyOf
<1>9. ASSUME e[3] < f[3]
      PROVE  SameSubKey(next_dup(W, e), KeyOf(e)) = {f} /\ ~EntryBefore(f, e)
  <2>1. EntryBefore(e, f) /\ ~EntryBefore(f, e)
    BY <1>1, <1>2, <1>5, <1>9
  <2>2. ASSUME NEW g \in W, g[1] = e[1], EntryBefore(e, g) PROVE f = g \/ EntryBefore(f, g)
    <3>1. g[2] > e[2] \/ g[2] = e[2]
      BY <1>2, <1>5, <1>6, <2>2
    <3>2. g[2] = e[2] => g = f
      BY <1>2, <1>4, <1>5, <1>6, <2>2
    <3> QED
      BY <1>1, <1>2, <1>5, <1>6, <2>2, <3>1, <3>2
  <2>3. f \in next_dup(W, e)
    BY <1>1, <2>1, <2>2 DEF next_dup, Least
  <2> QED
    BY <1>1, <1>7, <2>1, <2>3 DEF SameSubKey, KeyOf
<1>10. ASSUME f[3] < e[3]
       PROVE  SameSubKey(prev_dup(W, e), KeyOf(e)) = {f} /\ ~EntryBefore(e, f)
  <2>1. EntryBefore(f, e) /\ ~EntryBefore(e, f)
    BY <1>1, <1>2, <1>5, <1>10
  <2>2. ASSUME NEW g \in W, g[1] = e[1], EntryBefore(g, e) PROVE f = g \/ EntryBefore(g, f)
    <3>1. g[2] < e[2] \/ g[2] = e[2]
      BY <1>2, <1>5, <1>6, <2>2
    <3>2. g[2] = e[2] => g = f
      BY <1>2, <1>4, <1>5, <1>6, <2>2
    <3> QED
      BY <1>1, <1>2, <1>5, <1>6, <2>2, <3>1, <3>2
  <2>3. f \in prev_dup(W, e)
    BY <1>1, <2>1, <2>2 DEF prev_dup, Greatest
  <2> QED
    BY <1>1, <1>8, <2>1, <2>3 DEF SameSubKey, KeyOf
<1> QED
  BY <1>2, <1>7, <1>8, <1>9, <1>10

(* Every write keeps the keys unique. *)
LEMMA WritesKeepKeysUnique ==
  ASSUME NEW E \in SUBSET Entry, UniqueKeys(E), NEW key \in DupKeys, NEW value \in DupValues
  PROVE  \A done \in {dup_upsert(E, key, value), dup_insert(E, key, value), dup_append(E, key, value),
                       dup_append_greater_sub_key(E, key, value), dup_delete(E, key)} :
           done.entries \in SUBSET Entry /\ UniqueKeys(done.entries)
<1> DEFINE e == <<key[1], key[2], value>>
           W == E \cup {e}
<1>0. /\ e \in Entry /\ KeyOf(e) = key /\ e[1] = key[1] /\ e[2] = key[2] /\ W \in SUBSET Entry
      /\ get_sub_key_and_value(key, value) = e
  BY DEF Entry, DupKeys, KeyOf, get_sub_key_and_value
<1> HIDE DEF e
<1>1. CASE \A f \in E : KeyOf(f) = key => f = e
  <2>1. UniqueKeys(W)
    BY <1>0, <1>1 DEF UniqueKeys
  <2>2. \A done \in {dup_upsert(E, key, value), dup_insert(E, key, value), dup_append(E, key, value),
                      dup_append_greater_sub_key(E, key, value), dup_delete(E, key)} :
          done.entries \in SUBSET W
    BY <1>0 DEF dup_upsert, dup_insert, dup_append, dup_append_greater_sub_key, dup_delete, Ok, Done
  <2> QED
    BY <1>0, <2>1, <2>2, SubsetUnique
<1>2. CASE \E f \in E : KeyOf(f) = key /\ f # e
  <2>1. PICK f \in E : KeyOf(f) = key /\ f # e
    BY <1>2
  <2>2. e \notin E
    BY <1>0, <2>1 DEF UniqueKeys
  <2>3. UniqueKeys((E \ {f}) \cup {e})
    BY <1>0, <2>1 DEF UniqueKeys
  <2>4. /\ e[3] < f[3] => /\ SameSubKey(next_dup(W, e), key) = {f}
                          /\ SameSubKey(prev_dup(W, e), key) = {}
        /\ f[3] < e[3] => /\ SameSubKey(prev_dup(W, e), key) = {f}
                          /\ SameSubKey(next_dup(W, e), key) = {}
        /\ e[3] < f[3] \/ f[3] < e[3]
    <3>1. e \in Entry /\ KeyOf(f) = KeyOf(e) /\ f # e /\ key = KeyOf(e)
      BY <1>0, <2>1
    <3>2. /\ e[3] < f[3] => /\ SameSubKey(next_dup(E \cup {e}, e), KeyOf(e)) = {f}
                            /\ SameSubKey(prev_dup(E \cup {e}, e), KeyOf(e)) = {}
          /\ f[3] < e[3] => /\ SameSubKey(prev_dup(E \cup {e}, e), KeyOf(e)) = {f}
                            /\ SameSubKey(next_dup(E \cup {e}, e), KeyOf(e)) = {}
          /\ e[3] < f[3] \/ f[3] < e[3]
      BY <3>1, Neighbours
    <3> QED
      BY <3>1, <3>2
  <2>5. f[1] = e[1] /\ f[2] = e[2] /\ f \in Entry /\ e[3] \in Nat /\ f[3] \in Nat /\ f[2] \in Nat
    BY <1>0, <2>1, EntryFields DEF KeyOf
  <2>6. dup_upsert(E, key, value).entries = (E \ {f}) \cup {e}
    BY <1>0, <2>1, <2>2, <2>4 DEF dup_upsert, Ok, Done
  <2>7. dup_insert(E, key, value).entries \in SUBSET E
    <3>1. SameSubKey(next_dup(W, e) \cup prev_dup(W, e), key) # {}
      BY <2>4 DEF SameSubKey
    <3> QED
      BY <1>0, <3>1 DEF dup_insert, Ok, Done
  <2>8. dup_append(E, key, value).entries \in SUBSET E
        \/ dup_append(E, key, value).entries = (E \ {f}) \cup {e}
    <3>1. CanAppend(E, e) => f[3] < e[3]
      BY <1>0, <2>1, <2>5, SameMain DEF CanAppend
    <3>2. ASSUME NEW g \in Greatest(E), g[1] = key[1], g[2] = key[2] PROVE g = f
      BY <1>0, <2>1, <2>5, <3>2 DEF Greatest, UniqueKeys, KeyOf
    <3>3. {g \in Greatest(E) : g[1] = key[1] /\ g[2] = key[2]} \in {{}, {f}}
      BY <3>2
    <3> QED
      BY <1>0, <2>2, <2>4, <2>5, <3>1, <3>3 DEF dup_append, Ok, Done
  <2>9. dup_append_greater_sub_key(E, key, value).entries \in SUBSET E
    <3>1. CanAppendDup(E, e) => f[3] < e[3]
      BY <1>0, <2>1, <2>5, SameMain DEF CanAppendDup
    <3> QED
      BY <1>0, <2>4, <3>1 DEF dup_append_greater_sub_key, Ok, Done
  <2>10. dup_delete(E, key).entries \in SUBSET E
    BY DEF dup_delete, Ok, Done
  <2> QED
    BY <1>0, <2>3, <2>6, <2>7, <2>8, <2>9, <2>10, SubsetUnique
<1> QED
  BY <1>1, <1>2

(* No two entries of a common-prefix table have one key, whatever sequence of
   operations was made. *)
THEOREM KeysStayUnique == DupSpec => []OneEntryPerKey
<1> DEFINE Inv == entries \in SUBSET Entry /\ UniqueKeys(entries)
<1>1. DupInit => Inv
  BY DEF DupInit, UniqueKeys
<1>2. ASSUME Inv, [DupNext]_dupVars PROVE Inv'
  <2>1. CASE UNCHANGED entries
    BY <1>2, <2>1
  <2>2. ASSUME NEW key \in DupKeys, NEW value \in DupValues,
               NEW done \in {dup_upsert(entries, key, value), dup_insert(entries, key, value),
                             dup_append(entries, key, value),
                             dup_append_greater_sub_key(entries, key, value),
                             dup_delete(entries, key)},
               DupWrite(done)
        PROVE  Inv'
    BY <1>2, <2>2, WritesKeepKeysUnique DEF DupWrite
  <2>3. ASSUME NEW key \in DupKeys, DupWrite(dup_delete(entries, key)) PROVE Inv'
    <3>1. entries' \in SUBSET entries
      BY <2>3 DEF DupWrite, dup_delete, Ok, Done
    <3> QED
      BY <1>2, <3>1, SubsetUnique
  <2> QED
    BY <1>2, <2>1, <2>2, <2>3 DEF DupNext, dupVars, DupGet, MoveTo, dup_prev, dup_next
<1>3. Inv => OneEntryPerKey
  BY DEF UniqueKeys, OneEntryPerKey
<1> QED
  BY <1>1, <1>2, <1>3, PTL DEF DupSpec
=============================================================================
