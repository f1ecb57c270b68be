------------------------------ MODULE MCTrace ------------------------------
(* Instances of Trace for TLC: two recorders that drop what does not fit,   *)
(* or one recorder that flushes a larger buffer.                            *)
EXTENDS Trace, TLC

CONSTANTS r1, r2
VARIABLE mode

TwoRecorders == {r1, r2}
ShortNames == {1}
Symmetry == Permutations({r1, r2})

Flush == INSTANCE Trace WITH
            BufferMode <- "flush", Capacity <- 10, NameSizes <- {1, 3}, MaxCalls <- 6

MCInit == Init /\ mode \in {"drop", "flush"}

MCNext ==
    /\ UNCHANGED mode
    /\ \/ mode = "drop" /\ Next
       \/ mode = "flush" /\ Flush!Next /\ nextId' <= 2

MCSpec == MCInit /\ [][MCNext]_<<vars, mode>>
=============================================================================
