------------------------------- MODULE Vector -------------------------------
(***************************************************************************)
(* What include/lor/array.h promises of a LorArray: a sequence, and for    *)
(* each call the sequence after it. The values of a call are those its     *)
(* source held when the call was made. A call that fails changes nothing.  *)
(***************************************************************************)
EXTENDS Integers, Sequences

CONSTANT Junk  \* memory that holds no element

VARIABLES
    contents,  \* the elements
    call       \* the last call: [op, index, given, taken, status]

\* s with the range of n elements behind the first i replaced by new ones.
Replaced(s, i, n, new) == SubSeq(s, 1, i) \o new \o SubSeq(s, i + n + 1, Len(s))

\* The element behind the first i is handed out.
HandsOut(s, i, c) == c.taken = <<s[i + 1]>>

Resized(s, n, fill) == [i \in 1 .. n |-> IF i <= Len(s) THEN s[i] ELSE fill]

Appends(s, c) == Replaced(s, Len(s), 0, c.given)
Inserts(s, c) == Replaced(s, c.index, 0, c.given)
Removes(s, c) == Replaced(s, c.index, 1, << >>)
RemovesLast(s) == SubSeq(s, 1, Len(s) - 1)

\* The removed place is taken by the last element.
RemovesUnordered(s, c) ==
    RemovesLast([s EXCEPT ![c.index + 1] = s[Len(s)]])

Effect(s, t, c) ==
    \/ c.status # "OK" /\ t = s
    \/ c.status = "OK" /\ (\A i \in DOMAIN c.given : c.given[i] # Junk) /\
         \/ c.op \in {"reserve", "shrink"} /\ t = s
         \/ c.op = "resize" /\ t = Resized(s, c.index, c.given[1])
         \/ c.op = "append" /\ t = Appends(s, c)
         \/ c.op = "insert" /\ c.index <= Len(s) /\ t = Inserts(s, c)
         \/ c.op \in {"clear", "deinit"} /\ t = << >>
         \/ c.op = "pop" /\ s # << >> /\ HandsOut(s, Len(s) - 1, c) /\ t = RemovesLast(s)
         \/ c.op = "remove" /\ c.index < Len(s) /\ HandsOut(s, c.index, c)
              /\ t = Removes(s, c)
         \/ c.op = "remove_range" /\ c.index + Len(c.given) <= Len(s)
              /\ t = Replaced(s, c.index, Len(c.given), << >>)
         \/ c.op = "remove_unordered" /\ c.index < Len(s) /\ HandsOut(s, c.index, c)
              /\ t = RemovesUnordered(s, c)

Init == contents = << >>
Next == Effect(contents, contents', call')
Spec == Init /\ [][Next]_<<contents, call>>
=============================================================================
