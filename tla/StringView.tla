----------------------------- MODULE StringView -----------------------------
(***************************************************************************)
(* String views of src/string.c: a view borrows a range of a text that     *)
(* does not change; a tokenizer moves the view's ends inwards and gets the *)
(* pieces.                                                                 *)
(*                                                                         *)
(* A view is [offset, size] in the text. The text is never NULL, so that   *)
(* every view is valid.                                                    *)
(***************************************************************************)
EXTENDS Integers, Sequences

CONSTANTS
    Characters,  \* of texts; Space is one of them
    Space,
    MaxText,     \* bound: characters of the text
    MaxDelimiter \* bound: characters of a delimiter

ASSUME ViewAssumption == MaxText \in Nat /\ MaxDelimiter \in Nat

VARIABLES
    text,
    view,   \* the view that is chopped and trimmed
    piece,  \* the view the last call returned
    left, right  \* history: what the calls took from either side

viewVars == <<text, view, piece, left, right>>

TextsUpTo(n) == UNION {[1 .. k -> Characters] : k \in 0 .. n}
Bytes(v) == SubSeq(text, v.offset + 1, v.offset + v.size)
NoView == [offset |-> 0, size |-> 0]
----------------------------------------------------------------------------
(* The functions on views.                                                  *)

AtMost(n, limit) == IF n > limit THEN limit ELSE n

\* lor_sv_slice: offset and size are clamped.
Slice(v, offset, size) ==
    LET o == AtMost(offset, v.size)
    IN [offset |-> v.offset + o, size |-> AtMost(size, v.size - o)]

TakeLeft(v, size) == Slice(v, 0, size)

\* lor_sv_take_right.
TakeRight(v, size) ==
    LET n == AtMost(size, v.size) IN Slice(v, v.size - n, n)

Least(S) == CHOOSE i \in S : \A j \in S : i <= j
StartsAt(s, i, needle) == SubSeq(s, i + 1, i + Len(needle)) = needle

\* Mutant: the needle is not looked for where it would end the view.
FindsShort(v, needle) ==
    {i \in 0 .. v.size - Len(needle) - 1 : StartsAt(Bytes(v), i, needle)}

\* lor_sv_find: where it looks, and the needle is.
Finds(v, needle) ==
    {i \in 0 .. v.size - Len(needle) : StartsAt(Bytes(v), i, needle)}

\* lor_sv_split at a delimiter that is not empty, where it is found.
Before(v, at) == TakeLeft(v, at)
After(v, at, delimiter) ==
    Slice(v, at + Len(delimiter), v.size - at - Len(delimiter))

\* lor_sv_trim_left and lor_sv_trim_right skip white space.
Blank(v, i) == Bytes(v)[i + 1] = Space
LeadingBlanks(v) == Least({v.size} \cup {i \in 0 .. v.size - 1 : ~Blank(v, i)})
TrailingBlanks(v) == Least({v.size} \cup {i \in 0 .. v.size - 1 : ~Blank(v, v.size - 1 - i)})
----------------------------------------------------------------------------
(* The functions that move the ends of a view.                              *)

ViewInit ==
    /\ text \in TextsUpTo(MaxText)
    /\ view = [offset |-> 0, size |-> Len(text)]
    /\ piece = NoView /\ left = << >> /\ right = << >>

\* lor_sv_chop_left.
ChopLeft(size) ==
    /\ piece' = TakeLeft(view, size)
    /\ view' = Slice(view, piece'.size, view.size - piece'.size)
    /\ left' = left \o Bytes(piece')
    /\ UNCHANGED <<text, right>>

\* lor_sv_chop_right.
ChopRight(size) ==
    /\ piece' = TakeRight(view, size)
    /\ view' = [view EXCEPT !.size = @ - piece'.size]
    /\ right' = Bytes(piece') \o right
    /\ UNCHANGED <<text, left>>

\* lor_sv_trim and its halves; the blanks count as taken.
Trim(skip, cut) ==
    /\ view' = Slice(view, skip, view.size - skip - cut)
    /\ left' = left \o Bytes(TakeLeft(view, skip))
    /\ right' = Bytes(TakeRight(view, cut)) \o right
    /\ UNCHANGED <<text, piece>>

TrimLeft == Trim(LeadingBlanks(view), 0)
TrimRight == Trim(0, TrailingBlanks(view))
TrimBoth ==
    LET skip == LeadingBlanks(view)
    IN Trim(skip, TrailingBlanks(Slice(view, skip, view.size - skip)))

\* lor_sv_chop: the part before the delimiter, which is taken as well, or all.
Chop(delimiter) ==
    LET found == Finds(view, delimiter)
        at == IF found = {} THEN view.size ELSE Least(found)
    IN /\ piece' = IF found = {} THEN view ELSE Before(view, at)
       /\ view' = IF found = {} THEN Slice(view, view.size, 0) ELSE After(view, at, delimiter)
       /\ left' = left \o Bytes(piece') \o (IF found = {} THEN << >> ELSE delimiter)
       /\ UNCHANGED <<text, right>>

Delimiters == TextsUpTo(MaxDelimiter) \ {<< >>}

ViewNext ==
    \/ \E n \in 0 .. MaxText + 1 : ChopLeft(n) \/ ChopRight(n)
    \/ TrimLeft \/ TrimRight \/ TrimBoth
    \/ \E d \in Delimiters : Chop(d)

ViewSpec == ViewInit /\ [][ViewNext]_viewVars
----------------------------------------------------------------------------
(* Properties.                                                              *)

NothingLost == left \o Bytes(view) \o right = text

\* However a text is taken apart, from either side and with sizes past the end, the
\* pieces, the delimiters between them and the view that is left make up the text:
\* no byte is handed out twice or skipped (lor_sv_slice and its callers). A part
\* that lor_sv_chop hands out ends at the first delimiter: it contains none.
PartsExact ==
    [][/\ NothingLost'
       /\ \A d \in Delimiters : Chop(d) =>
             \A i \in 0 .. piece'.size - Len(d) : ~StartsAt(Bytes(piece'), i, d)
      ]_viewVars
=============================================================================
