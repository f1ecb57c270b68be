---------------------------- MODULE MCCollections ----------------------------
(* A map and the sets above it, each on its own, for TLC.                     *)
EXTENDS HashMap, Sets, TLC

CONSTANTS k1, k2, k3, v1, v2, k, K, l, m, h1, h2, h3, o1, o2

VARIABLE component

----------------------------------------------------------------------------
(* The map.                                                                   *)

ThreeKeys == {k1, k2, k3}
TwoValues == {v1, v2}

\* 3 and 7 collide in four buckets only; 6 is next to them in both sizes, and a
\* run of entries that starts with it goes around the end.
CollidingHashes == {3, 6, 7}

----------------------------------------------------------------------------
(* The sets. Bytes tells all keys apart; folded takes k and K for equal and   *)
(* refuses m.                                                                 *)

AllKeys == {k, K, l, m}
ThreeHandles == {h1, h2, h3}
TwoSemantics == {"bytes", "folded"}
Classes == [s \in TwoSemantics |->
               [x \in AllKeys |-> IF s = "folded" /\ x = K THEN k ELSE x]]
ValidKeys == [s \in TwoSemantics |-> IF s = "folded" THEN {k, K, l} ELSE AllKeys]

TwoOwners == {o1, o2}

\* A permutation of the keys, with the same one of the handles, and one of the owners: a
\* state of the map has empty handles only, and one of the sets an empty map.
HandleOfKey(key) == CASE key = k1 -> h1 [] key = k2 -> h2 [] key = k3 -> h3
SameOfHandles(p) ==
    (h1 :> HandleOfKey(p[k1])) @@ (h2 :> HandleOfKey(p[k2])) @@ (h3 :> HandleOfKey(p[k3]))
Symmetry == {p @@ SameOfHandles(p) @@ q :
                p \in Permutations(ThreeKeys), q \in Permutations(TwoOwners)}

----------------------------------------------------------------------------
MCInit ==
    /\ component \in {"map", "sets"}
    /\ Init /\ SetsInit
    /\ component = "sets" => \A x \in Keys : hash[x] = 3

MCNext ==
    /\ UNCHANGED component
    /\ \/ component = "map" /\ Next /\ UNCHANGED setsVars
       \/ component = "sets" /\ SetsNext /\ UNCHANGED vars

MCSpec == MCInit /\ [][MCNext]_<<component, vars, setsVars>>
=============================================================================
