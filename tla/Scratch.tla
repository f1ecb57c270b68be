------------------------------- MODULE Scratch -------------------------------
(***************************************************************************)
(* Scratch scopes of one thread (src/memory.c): nested functions borrow    *)
(* one of two arenas each, and may leave a result in an arena of their     *)
(* caller, which they name as the conflict.                                *)
(*                                                                         *)
(* Of an arena this module keeps what Arena shows of it: the allocations   *)
(* that are live, oldest first.  A mark is their number, and a rewind      *)
(* drops the newer ones.  An allocation is represented by its owner, the   *)
(* depth of the scope until whose end it has to last.                      *)
(***************************************************************************)
EXTENDS Integers, Sequences

CONSTANTS
    MaxScopes,  \* bound: scopes open at once
    MaxAllocs   \* bound: allocations of an arena

ASSUME ScratchAssumption == MaxScopes \in Nat /\ MaxAllocs \in Nat

Arenas == {0, 1}
Nowhere == 2  \* no conflict, or an arena that is not a scratch arena

VARIABLES
    inited,  \* lor_memory__scratch_inited
    arena,   \* the live allocations of the two arenas
    scopes   \* open scopes, outermost first: the arena borrowed, the mark, where
             \* the function puts its result, and the owner of that

scratchVars == <<inited, arena, scopes>>

Scopes == [arena : Arenas, mark : Nat, result : Arenas \cup {Nowhere}, owner : Nat]

Depth == Len(scopes)
Innermost == scopes[Depth]
----------------------------------------------------------------------------
ScratchInit ==
    /\ inited = [a \in Arenas |-> FALSE]
    /\ arena = [a \in Arenas |-> <<>>]
    /\ scopes = <<>>

\* Mutant: the conflict is ignored.
BorrowedFirst(conflict) == 0

\* The arena lor_scratch_begin selects: the first one that is no conflict.
Borrowed(conflict) == IF conflict = 0 THEN 1 ELSE 0

Marked(a) == Len(arena[a])

Borrow(a, result, owner) ==
    /\ Depth < MaxScopes
    /\ inited' = [inited EXCEPT ![a] = TRUE]
    /\ scopes' = Append(scopes,
           [arena |-> a, mark |-> Marked(a), result |-> result, owner |-> owner])
    /\ UNCHANGED arena

\* lor_scratch_begin, with any conflict, in a function with no result in a
\* scratch arena.
Begin(conflict) == Borrow(Borrowed(conflict), Nowhere, 0)

\* lor_scratch_begin in a function whose result goes to the arena that its
\* caller has borrowed, or to the one its caller was told to use.
BeginForCaller ==
    /\ scopes # <<>>
    /\ Borrow(Borrowed(Innermost.arena), Innermost.arena, Depth)
BeginForwarding ==
    /\ scopes # <<>> /\ Innermost.result # Nowhere
    /\ Borrow(Borrowed(Innermost.result), Innermost.result, Innermost.owner)

\* lor_arena_alloc in the running function: temporary, or part of its result.
Store(a, owner) ==
    /\ Len(arena[a]) < MaxAllocs
    /\ arena' = [arena EXCEPT ![a] = Append(@, owner)]
    /\ UNCHANGED <<inited, scopes>>

AllocTemporary == scopes # <<>> /\ Store(Innermost.arena, Depth)
AllocResult ==
    scopes # <<>> /\ Innermost.result # Nowhere /\ Store(Innermost.result, Innermost.owner)

\* lor_scratch_end of the innermost scope.
End ==
    /\ scopes # <<>>
    /\ arena' = [arena EXCEPT ![Innermost.arena] = SubSeq(@, 1, Innermost.mark)]
    /\ scopes' = SubSeq(scopes, 1, Depth - 1)
    /\ UNCHANGED inited

\* lor_scratch_cleanup, called with no scope open.
Cleanup ==
    /\ scopes = <<>>
    /\ arena' = [a \in Arenas |-> IF inited[a] THEN <<>> ELSE arena[a]]
    /\ inited' = [a \in Arenas |-> FALSE]
    /\ UNCHANGED scopes

ScratchNext ==
    \/ BeginForCaller \/ BeginForwarding \/ AllocTemporary \/ AllocResult \/ End \/ Cleanup
    \/ \E conflict \in Arenas \cup {Nowhere} : Begin(conflict)

ScratchSpec == ScratchInit /\ [][ScratchNext]_scratchVars
----------------------------------------------------------------------------
\* The type invariant; marks lie within their arenas, which lor_arena_rewind
\* asserts.
TypeOK ==
    /\ inited \in [Arenas -> BOOLEAN]
    /\ arena \in [Arenas -> Seq(Nat)]
    /\ scopes \in Seq(Scopes)
    /\ \A d \in DOMAIN scopes : scopes[d].mark <= Len(arena[scopes[d].arena])

\* The end of a scope takes away exactly what it owns: not the result it leaves
\* to a caller, nor what outer scopes keep in the arena it borrowed, however
\* the scopes in between were nested and which arenas they borrowed.
EndTakesItsOwn ==
    [][scopes' = SubSeq(scopes, 1, Depth - 1) /\ scopes # <<>> =>
        \A a \in Arenas : \A i \in DOMAIN arena[a] :
            i \in DOMAIN arena'[a] <=> arena[a][i] < Depth]_scratchVars
=============================================================================
