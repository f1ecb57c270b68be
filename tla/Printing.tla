------------------------------ MODULE Printing ------------------------------
(***************************************************************************)
(* Printing of values, src/print.c: one pass checks all values and finds   *)
(* the ending, a second one writes. What is written for a value is the     *)
(* subject of module Printable.                                            *)
(***************************************************************************)
EXTENDS Printable

CONSTANTS
    Arguments,  \* arguments of a call, as Printable describes them
    MaxValues   \* bound: arguments of one call

ASSUME PrintAssumption ==
    /\ \A type \in IntegerTypes :
          Span[type] \in Nat \ {0} /\ Span[type] % 2 = 0 /\ Span[type] <= Span["llong"]
    /\ \A a \in Arguments : WellFormed(a)
    /\ MaxValues \in Nat

VARIABLES
    arguments,  \* the arguments of the call
    values,     \* the array the macros make of them
    printing,   \* "check", "separator", "value" or "returned"
    index,      \* i, the loop variable of the pass
    chunk,      \* how many chunks of values[i] are written
    ending, printed_count,
    output,     \* what was written
    print_status

printVars ==
    <<arguments, values, printing, index, chunk, ending, printed_count, output, print_status>>

\* LOR_PRINT_CONFIG_INIT: a blank, and a newline.
BlankBetween == <<32>>
NewLine == <<10>>

PrintInit ==
    /\ arguments = << >> /\ values = << >> /\ printing = "returned" /\ index = 1 /\ chunk = 0
    /\ ending = NewLine /\ printed_count = 0 /\ output = << >> /\ print_status = "NONE"

PrintReturn(s) == printing' = "returned" /\ print_status' = s
----------------------------------------------------------------------------
(* lor_fprint_values.                                                       *)

\* One call: it leaves nothing for the next.
PrintValues ==
    /\ printing = "returned" /\ print_status = "NONE"
    /\ \E n \in 0 .. MaxValues : arguments' \in [1 .. n -> Arguments]
    /\ values' = [k \in DOMAIN arguments' |-> Value(arguments'[k])]
    /\ printing' = "check" /\ index' = 1 /\ chunk' = 0
    /\ ending' = NewLine /\ printed_count' = 0 /\ output' = << >> /\ print_status' = "OK"

\* The first pass.
Check ==
    /\ printing = "check" /\ index <= Len(values)
    /\ IF ~Valid(values[index])
       THEN PrintReturn("INVALID_ARGUMENT") /\ UNCHANGED <<index, ending>>
       ELSE /\ index' = index + 1
            /\ ending' = IF values[index].type = "end" THEN values[index].value ELSE ending
            /\ UNCHANGED <<printing, print_status>>
    /\ UNCHANGED <<arguments, values, chunk, printed_count, output>>

CheckEnds ==
    /\ printing = "check" /\ index > Len(values)
    /\ printing' = "separator" /\ index' = 1
    /\ UNCHANGED <<arguments, values, chunk, ending, printed_count, output, print_status>>

\* A chunk is written, or a stdio call fails and ends the call.
WriteOut(tokens) ==
    \/ output' = output \o tokens /\ UNCHANGED print_status
    \/ UNCHANGED output /\ print_status' = "SYSTEM_ERROR"
Goes(to) == printing' = IF print_status' = "OK" THEN to ELSE "returned"

\* Mutant: an ending counts as a value.
PrintedWithEnding == index - 1

\* printed_count.
Printed == printed_count

\* The second pass, before a value.
Separator ==
    /\ printing = "separator" /\ index <= Len(values)
    /\ IF values[index].type = "end"
       THEN index' = index + 1 /\ UNCHANGED <<printing, output, print_status>>
       ELSE /\ IF Printed # 0 THEN WriteOut(Plain(BlankBetween))
               ELSE UNCHANGED <<output, print_status>>
            /\ Goes("value")
            /\ UNCHANGED index
    /\ UNCHANGED <<arguments, values, chunk, ending, printed_count>>

\* A custom function may fail with a status of its own, after it has written.
CustomFails ==
    /\ printing = "value" /\ chunk > 0 /\ Chunks(values[index])[chunk][1] = "custom"
    /\ PrintReturn("CUSTOM_ERROR")
    /\ UNCHANGED <<arguments, values, index, chunk, ending, printed_count, output>>

WritePart ==
    /\ printing = "value" /\ chunk < Len(Chunks(values[index]))
    /\ WriteOut(<<Chunks(values[index])[chunk + 1]>>)
    /\ chunk' = chunk + 1
    /\ Goes("value")
    /\ UNCHANGED <<arguments, values, index, ending, printed_count>>

ValueEnds ==
    /\ printing = "value" /\ chunk = Len(Chunks(values[index]))
    /\ printing' = "separator" /\ index' = index + 1 /\ chunk' = 0
    /\ printed_count' = printed_count + 1
    /\ UNCHANGED <<arguments, values, ending, output, print_status>>

WriteEnding ==
    /\ printing = "separator" /\ index > Len(values)
    /\ WriteOut(Plain(ending))
    /\ printing' = "returned"
    /\ UNCHANGED <<arguments, values, index, chunk, ending, printed_count>>

PrintNext ==
    \/ PrintValues
    \/ Check \/ CheckEnds \/ Separator \/ CustomFails \/ WritePart \/ ValueEnds
    \/ WriteEnding

PrintSpec == PrintInit /\ [][PrintNext]_printVars
----------------------------------------------------------------------------
(* Properties.                                                              *)

\* What a complete call writes for the first n of the values vs, or for one of them: the
\* separator stands between two values that are no endings.
Between(vs, n) == IF \E k \in 1 .. n - 1 : vs[k].type # "end" THEN Plain(BlankBetween) ELSE << >>
Piece(vs, n) == IF vs[n].type = "end" THEN << >> ELSE Between(vs, n) \o Chunks(vs[n])
Line(vs, n) == SeqExt!FlattenSeq([k \in 1 .. n |-> Piece(vs, k)])

\* The last ending there is among the first n values, or the configured one.
LastEnding(vs, n) ==
    LET ends == {k \in 1 .. n : vs[k].type = "end"}
    IN IF ends = {} THEN NewLine ELSE vs[CHOOSE k \in ends : \A l \in ends : l <= k].value

Complete(vs) == Line(vs, Len(vs)) \o Plain(LastEnding(vs, Len(vs)))

\* A call writes all of its values with the separators and the ending where they belong,
\* wherever endings stand among the values; a call that fails on the way has
\* written a beginning of that, and one that is refused for a value, nothing
\* (lor_fprint_values, print.h). Each value is written so that it can be recognized: an
\* integer of any type with its sign and all its bits, and a text in a container so that
\* its quotes and escapes say that text (lor_print_value, lor_print__write_quoted_view).
PrintsInOrder ==
    printing = "returned" =>
        /\ CASE print_status = "OK" -> output = Complete(values)
             [] print_status \in {"INVALID_ARGUMENT", "NONE"} -> output = << >>
             [] OTHER -> /\ Len(output) <= Len(Complete(values))
                         /\ output = SubSeq(Complete(values), 1, Len(output))
        /\ print_status = "OK" => \A k \in DOMAIN arguments : Faithful(arguments[k])
=============================================================================
