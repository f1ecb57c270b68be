------------------------------- MODULE Random -------------------------------
(***************************************************************************)
(* Random numbers of src/random.c: the bounded draw of the PCG generator,  *)
(* and its seeding from /dev/urandom.                                      *)
(*                                                                         *)
(* The output permutation of PCG is any function of its state: a word may  *)
(* have any value. Of the state the model keeps whether it was seeded.     *)
(***************************************************************************)
EXTENDS Integers, FiniteSets

CONSTANTS
    Words,     \* 2^32, the number of values of lor_random_u32
    Chunk,     \* 1024u * 1024u, the bytes asked for in one read
    SeedSize,  \* sizeof(seeds)
    MaxSize    \* bound: bytes that a program asks for

ASSUME RandomAssumption ==
    Words \in Nat \ {0} /\ Chunk \in Nat /\ SeedSize \in Nat /\ MaxSize \in Nat

VARIABLES
    bound,   \* of the draw that is running, or 0
    drawn,   \* the last result of lor_random_bounded_u32
    seeded,  \* lor_random_seed was called
    entropy  \* lor_random_system_bytes: where it is, for whom, the descriptor, the
             \* size asked for, the bytes written, cursor and remaining, the status

randomVars == <<bound, drawn, seeded, entropy>>

Word == 0 .. Words - 1
Quiet == [at |-> "returned", seeding |-> FALSE, open |-> FALSE, size |-> 0,
          filled |-> {}, cursor |-> 0, remaining |-> 0, status |-> "OK"]

RandomInit == bound = 0 /\ drawn = 0 /\ seeded = FALSE /\ entropy = Quiet
----------------------------------------------------------------------------
(* lor_random_bounded_u32.                                                  *)

\* Mutant: the threshold counts from the largest word.
ThresholdOfMax(b) == (Words - 1 - b) % b

\* (0u - bound) % bound, in 32 bits.
Threshold(b) == (Words - b) % b

\* The words the loop does not reject.
Accepted(b) == {w \in Word : w >= Threshold(b)}

DrawBegin(b) ==
    /\ bound = 0
    /\ IF b = 0 THEN drawn' = 0 /\ UNCHANGED bound
       ELSE bound' = b /\ UNCHANGED drawn
    /\ UNCHANGED <<seeded, entropy>>

\* One turn of the loop.
Draw(word) ==
    /\ bound # 0
    /\ IF word \in Accepted(bound)
       THEN drawn' = word % bound /\ bound' = 0
       ELSE UNCHANGED <<drawn, bound>>
    /\ UNCHANGED <<seeded, entropy>>
----------------------------------------------------------------------------
(* lor_random_system_bytes and lor_random_seed_system.                      *)

Idle == entropy.at = "returned"
Step(changed) == entropy' = changed /\ UNCHANGED <<bound, drawn, seeded>>

\* The call returns; lor_random_seed follows if it was made for a seed.
Returns(e, status) ==
    /\ entropy' = [e EXCEPT !.at = "returned", !.status = status]
    /\ seeded' = (seeded \/ (e.seeding /\ status = "OK"))
    /\ UNCHANGED <<bound, drawn>>

SystemBytes(size, seeding) ==
    /\ Idle
    /\ seeding => size = SeedSize
    /\ LET e == [Quiet EXCEPT !.seeding = seeding, !.size = size, !.remaining = size]
       IN IF size = 0 THEN Returns(e, "OK")
          ELSE \/ Returns(e, "SYSTEM_ERROR")
               \/ Step([e EXCEPT !.at = "read", !.open = TRUE])

\* read returns between 1 and the bytes asked for.
ReadSome ==
    /\ entropy.at = "read" /\ entropy.remaining # 0
    /\ \E n \in 1 .. entropy.remaining :
          /\ n <= Chunk
          /\ Step([entropy EXCEPT !.cursor = @ + n, !.remaining = @ - n,
                                  !.filled = @ \cup (entropy.cursor .. entropy.cursor + n - 1)])

\* A signal interrupts read: it is called again.
ReadInterrupted ==
    entropy.at = "read" /\ entropy.remaining # 0 /\ UNCHANGED randomVars

\* close gives the descriptor back, whatever it returns.
Close(e) == [e EXCEPT !.open = FALSE]

\* read finds the end of the file, or fails.
ReadFails ==
    /\ entropy.at = "read" /\ entropy.remaining # 0
    /\ Returns(Close(entropy), "SYSTEM_ERROR")

\* Mutant: the first read is taken for all of them.
ReadOnce(e) == e.filled # {}

\* remaining is 0.
AllRead(e) == e.remaining = 0

CloseAfter ==
    /\ entropy.at = "read" /\ AllRead(entropy)
    /\ \E status \in {"OK", "SYSTEM_ERROR"} :
          Returns([entropy EXCEPT !.open = FALSE], status)

\* lor_random_seed, with a seed of the program's own.
Seed == seeded' = TRUE /\ UNCHANGED <<bound, drawn, entropy>>

RandomNext ==
    \/ \E b \in Word : DrawBegin(b)
    \/ \E w \in Word : Draw(w)
    \/ \E size \in 0 .. MaxSize, seeding \in BOOLEAN : SystemBytes(size, seeding)
    \/ ReadSome \/ ReadInterrupted \/ ReadFails \/ CloseAfter
    \/ Seed

RandomSpec == RandomInit /\ [][RandomNext]_randomVars
----------------------------------------------------------------------------
(* Properties.                                                              *)

\* Among the words that end the loop of a bounded draw every result is equally
\* frequent, for a bound that divides 2^32 and for one that does not
\* (random.h: "Rejection sampling avoids modulo bias").
Unbiased ==
    bound # 0 =>
        \A r, s \in 0 .. bound - 1 :
            Cardinality({w \in Accepted(bound) : w % bound = r})
              = Cardinality({w \in Accepted(bound) : w % bound = s})

\* After lor_random_system_bytes the descriptor is closed on every way out, and success
\* means that every byte asked for was written, however short the reads were.
EntropyComplete ==
    Idle => ~entropy.open
            /\ (entropy.status = "OK" => entropy.filled = 0 .. entropy.size - 1)

\* Random numbers and seeds are as random as their source.
RandomSound == Unbiased /\ EntropyComplete
=============================================================================
