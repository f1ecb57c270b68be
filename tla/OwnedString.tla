---------------------------- MODULE OwnedString ----------------------------
(***************************************************************************)
(* The growable string of src/string.c: a handle that is NULL or points at *)
(* the bytes behind a header in a heap block, with room for a NUL behind   *)
(* its capacity. The block moves when it grows, and the view that a call   *)
(* is given may lie in the block.                                          *)
(***************************************************************************)
EXTENDS Integers, Sequences

CONSTANTS
    StringCharacters,   \* bytes of a text
    NUL, Junk,    \* the terminator, a byte that was not written or was freed
    Places,       \* where the heap may put a block
    Null,
    MinCapacity,  \* 16u of lor_string__growth_capacity
    SizeMax,      \* SIZE_MAX
    Header,       \* offsetof(LorStringHeader, data)
    MaxGiven      \* bound: bytes given to one call

ASSUME StringAssumption ==
    /\ Null \notin Places
    /\ MinCapacity \in Nat /\ SizeMax \in Nat /\ Header \in Nat /\ MaxGiven \in Nat

VARIABLES
    string,    \* Null, or the place of the block
    bytes,     \* of the block: capacity and one more
    length,    \* header.size
    done       \* the last call: its name, the text of its view, its status

stringVars == <<string, bytes, length, done>>

Capacity == IF string = Null THEN 0 ELSE Len(bytes) - 1
Contents == SubSeq(bytes, 1, length)
GivenTexts == UNION {[1 .. n -> StringCharacters] : n \in 0 .. MaxGiven}

Put(b, offset, cells) ==
    [i \in DOMAIN b |-> IF i - offset \in DOMAIN cells THEN cells[i - offset] ELSE b[i]]
Done(op, given, status) == done' = [op |-> op, given |-> given, status |-> status]
Unchanged == UNCHANGED <<string, bytes, length>>
----------------------------------------------------------------------------
StringInit ==
    /\ string = Null /\ bytes = << >> /\ length = 0
    /\ done = [op |-> "clear", given |-> << >>, status |-> "OK"]

\* lor_string__growth_capacity: MinCapacity or the current capacity, doubled until the
\* required one fits, or that itself if a doubling does not fit a size_t: the one member.
Growth(current, required) ==
    LET first == IF current < MinCapacity THEN MinCapacity ELSE current
        reached == {n \in required .. first + 2 * required :
                       /\ \E i \in 0 .. required : n = first * 2^i
                       /\ n = first \/ (n < 2 * required /\ n \div 2 <= SizeMax \div 2)}
    IN IF reached = {} THEN {required} ELSE reached

Overflows(required, grown) == required = SizeMax \/ grown > SizeMax - Header - 1

\* Mutant: reserve leaves the terminator to its callers.
GrownOpen(n) == [i \in 1 .. n + 1 |-> IF i <= length THEN bytes[i] ELSE Junk]

\* What realloc leaves of the bytes, with the NUL that lor_string_reserve writes.
Grown(n) ==
    [i \in 1 .. n + 1 |-> IF i = length + 1 THEN NUL ELSE IF i <= length THEN bytes[i] ELSE Junk]

\* lor_string_reserve: the outcomes.
Kept(status) == [string |-> string, bytes |-> bytes, status |-> status]
Reserve(required) ==
    IF required <= Capacity THEN {Kept("OK")}
    ELSE UNION {IF Overflows(required, grown) THEN {Kept("OVERFLOW")}
                ELSE {Kept("OUT_OF_MEMORY")} \cup
                     {[string |-> p, bytes |-> Grown(grown), status |-> "OK"] : p \in Places}
                : grown \in Growth(Capacity, required)}

ReserveCall(n) ==
    \E o \in Reserve(n) :
        /\ string' = o.string /\ bytes' = o.bytes
        /\ Done("reserve", << >>, o.status)
        /\ UNCHANGED length

\* lor_string__view_offset: a view that begins in the string, and ends in it.
Inside == IF string = Null THEN {} ELSE {[offset |-> f, size |-> n] :
                                           f \in 0 .. length, n \in 0 .. MaxGiven}
Alias(v) == v.size <= length - v.offset
TextOf(v) == SubSeq(bytes, v.offset + 1, v.offset + v.size)

\* The place of a view of a text that is not in the string.
Outside == -1

\* Mutant: the view is read where the string was before it grew.
SourceStale(o, given, offset) ==
    IF offset = Outside \/ o.string = string THEN given ELSE [i \in DOMAIN given |-> Junk]

\* What a view holds once the string has room: one in the string moves with it.
SourceMoved(o, given, offset) ==
    IF offset = Outside THEN given ELSE SubSeq(o.bytes, offset + 1, offset + Len(given))

\* The source goes behind the first at bytes, and ends the string.
Write(op, at, given, offset) ==
    \E o \in Reserve(at + Len(given)) :
        /\ Done(op, given, o.status)
        /\ string' = o.string
        /\ IF o.status # "OK" THEN bytes' = o.bytes /\ UNCHANGED length
           ELSE IF o.string = Null THEN UNCHANGED <<bytes, length>>
           ELSE /\ bytes' = Put(o.bytes, at, Append(SourceMoved(o, given, offset), NUL))
                /\ length' = at + Len(given)

\* lor_string_assign and lor_string_append of a text outside, which may be too long.
Assign(given) == Write("assign", 0, given, Outside)

AppendText(given) ==
    IF given = << >> THEN Done("append", given, "OK") /\ Unchanged
    ELSE IF Len(given) > SizeMax - length
    THEN Done("append", given, "OVERFLOW") /\ Unchanged
    ELSE Write("append", length, given, Outside)

\* The same with a view of the string itself.
AssignSelf(v) == Alias(v) /\ Write("assign", 0, TextOf(v), v.offset)
AppendSelf(v) == Alias(v) /\ v.size # 0 /\ Write("append", length, TextOf(v), v.offset)

\* A view that begins in the string and ends behind it.
RefusedView(op, v) ==
    /\ ~Alias(v)
    /\ Done(op, << >>, IF op = "append" /\ v.size > SizeMax - length
                      THEN "OVERFLOW" ELSE "INVALID_ARGUMENT")
    /\ Unchanged

\* lor_string_clear; Null is left alone.
Clear ==
    /\ length' = 0
    /\ bytes' = IF string = Null THEN bytes
                ELSE [i \in DOMAIN bytes |-> IF i = 1 THEN NUL ELSE Junk]
    /\ Done("clear", << >>, "OK")
    /\ UNCHANGED string

\* lor_string_deinit.
Deinit ==
    /\ string' = Null /\ bytes' = << >> /\ length' = 0
    /\ Done("clear", << >>, "OK")

StringNext ==
    \/ \E n \in 0 .. SizeMax : ReserveCall(n)
    \/ \E given \in GivenTexts : Assign(given) \/ AppendText(given)
    \/ \E v \in Inside : AssignSelf(v) \/ AppendSelf(v)
                         \/ RefusedView("assign", v) \/ RefusedView("append", v)
    \/ Clear \/ Deinit

StringSpec == StringInit /\ [][StringNext]_stringVars
----------------------------------------------------------------------------
(* Properties.                                                              *)

Terminated == string # Null => length <= Capacity /\ bytes[length + 1] = NUL

\* A call gives the string the bytes its view had when it was called, although the
\* string holding them has moved since, and a call that fails leaves the string as it
\* was (string.h: "The string is unchanged on failure"). The contents end with a NUL
\* inside the block after each call, a reserve too: the handle is given to C functions.
StringExact ==
    [][/\ Contents' = IF done'.status # "OK" \/ done'.op = "reserve" THEN Contents
                      ELSE IF done'.op = "append" THEN Contents \o done'.given
                      ELSE done'.given
       /\ Terminated']_stringVars
=============================================================================
