------------------------------ MODULE MCDictMK ------------------------------
(* DictMK for TLC: keys that share a hash code, or a bucket until it grows. *)
EXTENDS DictMK, TLC

CONSTANTS k0, k1, k2, l0, l1, l2

Keys == {k0, k1, k2}
SecondKeys == {l0, l1, l2}
Hashes == [k \in Keys \cup SecondKeys |->
             CASE k \in {k0, k1, l0} -> 0 [] k \in {k2, l1} -> 6 [] k = l2 -> 1]

Symmetry == Permutations(Value)
=============================================================================
