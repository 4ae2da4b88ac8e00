------------------------------- MODULE DictMK -------------------------------
(***************************************************************************)
(* DictMK (xx_dict_mk.h) with two keys: a dictionary from the first key to *)
(* the values, and one from the second key to indices of the first one.    *)
(* The two are to have the same indices: lookups by the second key use the *)
(* index at which they find it for the first dictionary.                   *)
(***************************************************************************)
EXTENDS Dict

CONSTANTS Key, Key1, Value,
          MaxReserve   \* bound on what is asked from Reserve

ASSUME DictAssumption ==
  /\ Hash \in [Key \cup Key1 -> Nat]
  /\ Key # {} /\ Value # {} /\ MaxReserve \in Nat

VARIABLES
  dict,   \* from the first key
  dicts,  \* from the second key
  broken  \* what the two did not survive, after which the model stops: the "rollback"
          \* of an Add, a "reserve" with free nodes, or an "other" assertion on an
          \* index that failed (xx_dict.h, line 310)

dictVars == <<dict, dicts, broken>>

Index == 0..(Cardinality(Key) - 1)   \* no more records than first keys

IsDict(d, keys, values) ==
  LET index == 0..(d.count - 1) IN
  /\ d.bucketsLen \in primes2n /\ d.count \in 0..d.bucketsLen /\ d.freeCount \in 0..d.count
  /\ d.freeCount > 0 => d.freeList \in index
  /\ d.buckets \in [0..(d.bucketsLen - 1) -> {None} \cup index]
  /\ d.nodes \in [index -> [hashCode : Nat, next : {None} \cup index, key : keys,
                            value : values, prev : {Gone, None} \cup index]]
DictTypeOK == IsDict(dict, Key, Value) /\ IsDict(dicts, Key1, Index)

DictInit == dict = NewDict(1) /\ dicts = NewDict(1) /\ broken = "none"

-----------------------------------------------------------------------------
\* Nothing happens when k is there.  When l is, the record is to be taken back: but it is
\* index i that is removed from dicts, where nothing was added, and the assertion fails.
AddRecord(k, l, v) ==
  LET i == IndexFor(dict) IN
  /\ Find(dict, k) = None
  /\ dict' = Add(dict, k, v)
  /\ IF Find(dicts, l) = None
     THEN dicts' = Add(dicts, l, i) /\ UNCHANGED broken
     ELSE dicts' = dicts /\ broken' = IF i \in Used(dicts) THEN "other" ELSE "rollback"

\* An index that is used is asserted to be one of each d.
Asserted(i, S) == broken' = IF \A d \in S : i \in Used(d) THEN broken ELSE "other"

RemoveRecord(i) ==
  /\ i # None
  /\ Asserted(i, {dict, dicts})
  /\ dict' = IF i \in Used(dict) THEN RemoveAt(dict, i) ELSE dict
  /\ dicts' = IF i \in Used(dicts) THEN RemoveAt(dicts, i) ELSE dicts
Remove(k) == RemoveRecord(Find(dict, k))
Remove1(l) == RemoveRecord(Find(dicts, l))

Update(k, new) ==
  /\ Find(dict, k) # None /\ Find(dict, new) = None
  /\ dict' = UpdateAt(dict, Find(dict, k), new)
  /\ UNCHANGED <<dicts, broken>>

Update1(l, new) ==
  /\ Find(dicts, l) # None /\ Find(dicts, new) = None
  /\ dicts' = UpdateAt(dicts, Find(dicts, l), new)
  /\ UNCHANGED <<dict, broken>>

\* A value is written through its index, found by the second key.
SetValue(l, v) ==
  LET i == Find(dicts, l) IN
  /\ i # None
  /\ Asserted(i, {dict})
  /\ dict' = IF i \in Used(dict) THEN [dict EXCEPT !.nodes[i].value = v] ELSE dict
  /\ UNCHANGED dicts

ClearAll ==
  /\ dict.count > 0
  /\ dict' = ClearDict(dict) /\ dicts' = ClearDict(dicts)
  /\ UNCHANGED broken

\* Asserted to be called for a dictionary that is empty or full (xx_dict.h, line 237).
\* One that is full may have free nodes, and they are put in the chains with the others.
ReserveBoth(n) ==
  /\ n > dict.bucketsLen
  /\ \A d \in {dict, dicts} : d.count \in {0, d.bucketsLen}
  /\ dict' = ReserveDict(dict, n) /\ dicts' = ReserveDict(dicts, n)
  /\ broken' = IF dict.freeCount > 0 \/ dicts.freeCount > 0 THEN "reserve" ELSE broken

DictNext ==
  /\ broken = "none"
  /\ \/ \E k \in Key, l \in Key1, v \in Value : AddRecord(k, l, v)
     \/ \E k \in Key : Remove(k) \/ \E new \in Key : Update(k, new)
     \/ \E l \in Key1 : \/ Remove1(l)
                        \/ \E new \in Key1 : Update1(l, new)
                        \/ \E v \in Value : SetValue(l, v)
     \/ ClearAll
     \/ \E n \in 1..MaxReserve : ReserveBoth(n)

DictSpec == DictInit /\ [][DictNext]_dictVars

-----------------------------------------------------------------------------
\* "The indices of dict and dicts are to be the same" (comment on line 8), over every
\* order of additions, removals, changes of either key and growth, until one of two calls
\* that the code admits and does not survive: an Add whose second key is in use, and a
\* Reserve with free nodes.  Each dictionary finds by its chains just the records that
\* going through its nodes shows.
Finds(d, keys) ==
  /\ Linked(d)
  /\ \A k \in keys : {i \in Used(d) : d.nodes[i].key = k} = {Find(d, k)} \ {None}
SameIndices ==
  /\ broken \in {"none", "rollback", "reserve"}
  /\ broken = "none" =>
       /\ DictTypeOK /\ Used(dict) = Used(dicts)
       /\ Finds(dict, Key) /\ Finds(dicts, Key1)

\* It is a map with two keys, and a record keeps its index: "iter is a fixed index, it can
\* be held to speed up Update and Remove" (xx_dict.h, comment on line 31).  Only a Reserve
\* with free nodes brings records back that were removed.
records == [i \in Used(dict) \cap Used(dicts) |->
              [key |-> dict.nodes[i].key, key1 |-> dicts.nodes[i].key,
               value |-> dict.nodes[i].value]]
Map == INSTANCE MultiKeyMap WITH map <- records
IsMap == Map!Init /\ [][Map!Next \/ broken' = "reserve"]_records
=============================================================================
