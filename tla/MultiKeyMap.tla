---------------------------- MODULE MultiKeyMap ----------------------------
(***************************************************************************)
(* What DictMK promises (xx_dict_mk.h): records with two keys, either of   *)
(* which identifies a record, at indices that do not change as long as the *)
(* record is there.                                                        *)
(***************************************************************************)
CONSTANTS Index, Key, Key1, Value

VARIABLE map   \* from the indices in use

Init == map = <<>>

Keys == {map[i].key : i \in DOMAIN map}
Keys1 == {map[i].key1 : i \in DOMAIN map}

Add == \E i \in Index \ DOMAIN map, k \in Key \ Keys, l \in Key1 \ Keys1, v \in Value :
  map' = [j \in DOMAIN map \cup {i} |->
            IF j = i THEN [key |-> k, key1 |-> l, value |-> v] ELSE map[j]]
Remove == \E i \in DOMAIN map : map' = [j \in DOMAIN map \ {i} |-> map[j]]
Change == \E i \in DOMAIN map :
  \/ \E k \in Key \ Keys : map' = [map EXCEPT ![i].key = k]
  \/ \E l \in Key1 \ Keys1 : map' = [map EXCEPT ![i].key1 = l]
  \/ \E v \in Value : map' = [map EXCEPT ![i].value = v]
Clear == map' = <<>>

Next == Add \/ Remove \/ Change \/ Clear
=============================================================================
