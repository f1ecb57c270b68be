----------------------------- MODULE Dictionary -----------------------------
(***************************************************************************)
(* What include/lor/map.h promises of a map: a finite function from keys   *)
(* to values.  A call that fails changes nothing.                          *)
(***************************************************************************)
CONSTANTS Keys, Values

VARIABLES
    dict,    \* the bindings
    result   \* what the last call returned

vars == <<dict, result>>

Init ==
    /\ dict = [k \in {} |-> k]
    /\ result = "OK"

Fails == result' = "FAILED" /\ UNCHANGED dict
Succeeds == result' = "OK" /\ UNCHANGED dict

Set(k, v) ==
    /\ dict' = [j \in DOMAIN dict \cup {k} |-> IF j = k THEN v ELSE dict[j]]
    /\ result' = "OK"

Find(k) ==
    /\ result' = IF k \in DOMAIN dict THEN dict[k] ELSE "ABSENT"
    /\ UNCHANGED dict

Remove(k) ==
    /\ dict' = [j \in DOMAIN dict \ {k} |-> dict[j]]
    /\ result' = IF k \in DOMAIN dict THEN "OK" ELSE "ABSENT"

Empty ==
    /\ dict' = [k \in {} |-> k]
    /\ result' = "OK"

Next ==
    \/ Fails \/ Succeeds \/ Empty
    \/ \E k \in Keys : Find(k) \/ Remove(k)
    \/ \E k \in Keys, v \in Values : Set(k, v)

Spec == Init /\ [][Next]_vars
=============================================================================
