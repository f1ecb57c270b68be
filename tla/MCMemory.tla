------------------------------ MODULE MCMemory ------------------------------
(* An arena, the scratch scopes of a thread, and a dynamic array among other  *)
(* resources, each on its own, for TLC.                                       *)
EXTENDS Scratch, Arena, Array, TLC

CONSTANTS a1, a2, a3, v1, v2

VARIABLE component

\* The addresses of heap blocks, and the memory that blocks of arenas lie in.
ThreeAddresses == {a1, a2, a3}
TwoValues == {v1, v2}

Symmetry == Permutations(ThreeAddresses) \cup Permutations(TwoValues)

\* The last call of the array decides nothing.
View == <<component, scratchVars, arenaVars, memory, array, size, capacity>>

MCInit == component \in {"arena", "scratch", "array"} /\ ScratchInit /\ ArenaInit /\ Init

MCNext ==
    /\ UNCHANGED component
    /\ IF component = "arena" THEN ArenaNext ELSE UNCHANGED arenaVars
    /\ IF component = "scratch" THEN ScratchNext ELSE UNCHANGED scratchVars
    /\ IF component = "array" THEN Next ELSE UNCHANGED arrayVars

MCSpec == MCInit /\ [][MCNext]_<<component, scratchVars, arenaVars, arrayVars>>
=============================================================================
