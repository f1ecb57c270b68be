----------------------------- MODULE Printable -----------------------------
(***************************************************************************)
(* What the macros of include/lor/print.h and include/lor/type.h make of   *)
(* an argument, and what src/print.c writes for it: a C type is selected,  *)
(* the value converted to a member of a union or found again in the memory *)
(* of a container, and one call of stdio after the other is made.          *)
(*                                                                         *)
(* A value is a sequence of numbers: the bytes of a text, or one number.   *)
(* What is written is a sequence of tokens, pairs of a role and a number.  *)
(***************************************************************************)
EXTENDS Integers, Sequences
SeqExt == INSTANCE SequencesExt

CONSTANT Span  \* how many values an integer type has: 2 to the power of its width

SignedTypes == {"schar", "short", "int", "long", "llong"}
UnsignedTypes == {"uchar", "ushort", "uint", "ulong", "ullong"}
IntegerTypes == SignedTypes \cup UnsignedTypes
TextTypes == {"cstring", "view"}
NullText == <<-1>>  \* a null pointer, which a view may have only if it is empty
Structures == {"config", "arena", "mark", "scratch", "mmap", "stats", "random"}

\* The bytes that a quoted text writes in another way.
Quote == 34
Backslash == 92
Controls == {10, 13, 9}  \* newline, return, tab
Visible == 32 .. 126
Token(role, n) == <<role, n>>
----------------------------------------------------------------------------
(* Arguments and what they are turned into.                                 *)

\* An argument: its type, its value, and for a container the types of its elements (of the
\* keys and the values of a map, in turn), whether these have functions, and the values.
Scalar(type, value) ==
    [type |-> type, value |-> value, types |-> << >>, functions |-> << >>,
     elements |-> << >>]
Container(type, types, functions, elements) ==
    [type |-> type, value |-> << >>, types |-> types, functions |-> functions,
     elements |-> elements]

\* The values of an integer type, and what C lets an argument or an element of a type be.
ValuesOf(type) ==
    IF type \in SignedTypes THEN -(Span[type] \div 2) .. Span[type] \div 2 - 1
    ELSE 0 .. Span[type] - 1
OfType(type, value) ==
    IF type \in IntegerTypes THEN value \in {<<n>> : n \in ValuesOf(type)}
    ELSE type \in TextTypes \/ Len(value) = 1

\* Mutant: the widest unsigned type is taken for a signed one.
KindSigned(type) ==
    CASE type \in SignedTypes \cup {"ullong"} -> "signed"
      [] type \in UnsignedTypes \ {"ullong"} -> "unsigned"
      [] type \in {"float", "double", "ldouble"} -> "floating"
      [] OTHER -> type

\* lor_print_value selects a constructor by the type, and with it LorPrintValue.kind.
Kind(type) ==
    CASE type \in SignedTypes -> "signed"
      [] type \in UnsignedTypes -> "unsigned"
      [] type \in {"float", "double", "ldouble"} -> "floating"
      [] OTHER -> type

\* An integer in memory, and out of it.
Stored(n, span) == n % span
Loaded(n, span, signed) == IF signed /\ n >= span \div 2 THEN n - span ELSE n

\* The constructors: an integer becomes an intmax_t or a uintmax_t.
Converted(type, value) ==
    IF Kind(type) \in {"signed", "unsigned"} THEN <<Stored(value[1], Span["llong"])>>
    ELSE value

\* lor_type_kind of the elements, and the memory they are in.
Turn(k, things) == things[((k - 1) % Len(things)) + 1]
TypeAt(a, k) == Turn(k, a.types)
FunctionAt(a, k) == Turn(k, a.functions)
InMemory(type, value) ==
    IF type \in IntegerTypes THEN <<Stored(value[1], Span[type])>>
    ELSE value

WellFormed(a) ==
    /\ a \in [type : STRING, value : Seq(Int), types : Seq(STRING), functions : Seq(BOOLEAN),
             elements : Seq(Seq(Int))]
    /\ a.type \in {"end", "custom", "array", "set", "map"} \/ OfType(a.type, a.value)
    /\ \A k \in DOMAIN a.elements :
          /\ a.types # << >> /\ a.functions # << >>
          /\ OfType(TypeAt(a, k), a.elements[k])

\* lor_print_value, lor_print_sequence_value, lor_print_map_value, lor_print_custom.
Value(a) ==
    [a EXCEPT !.type = Kind(@), !.value = Converted(a.type, @),
              !.elements = [k \in DOMAIN @ |-> InMemory(TypeAt(a, k), @[k])]]
----------------------------------------------------------------------------
(* Validity.                                                                *)

\* lor_sv_is_valid.
ViewValid(value) == value # NullText

\* lor_print__typed_value_valid: only a function can print other types.
ElementValid(v, k) ==
    \/ FunctionAt(v, k)
    \/ TypeAt(v, k) # "other" /\ (TypeAt(v, k) = "view" => ViewValid(v.elements[k]))

\* lor_print__value_valid.
Valid(v) ==
    CASE v.type \in {"view", "end"} -> ViewValid(v.value)
      [] v.type = "custom" -> v.functions = <<TRUE>>
      [] OTHER -> \A k \in DOMAIN v.elements : ElementValid(v, k)
----------------------------------------------------------------------------
(* Writing.                                                                 *)

Plain(text) == [k \in DOMAIN text |-> Token("byte", text[k])]

\* Mutant: a backslash stands for itself.
EscapedQuoteOnly(byte) ==
    CASE byte = Quote -> <<Token("byte", Backslash), Token("byte", byte)>>
      [] byte \in Controls -> <<Token("byte", Backslash), Token("letter", byte)>>
      [] byte \notin Visible \cup Controls -> <<Token("byte", Backslash), Token("hex", byte)>>
      [] OTHER -> <<Token("byte", byte)>>

\* One byte of lor_print__write_quoted_view; \x and two digits are one token.
Escaped(byte) ==
    CASE byte \in {Quote, Backslash} -> <<Token("byte", Backslash), Token("byte", byte)>>
      [] byte \in Controls -> <<Token("byte", Backslash), Token("letter", byte)>>
      [] byte \notin Visible \cup Controls -> <<Token("byte", Backslash), Token("hex", byte)>>
      [] OTHER -> <<Token("byte", byte)>>

Quoted(text) ==
    <<Token("byte", Quote)>> \o SeqExt!FlattenSeq([k \in DOMAIN text |-> Escaped(text[k])])
    \o <<Token("byte", Quote)>>

\* lor_print__write_typed_value for an element of a container.
Element(type, value) ==
    CASE type \in IntegerTypes ->
           <<Token("number", Loaded(value[1], Span[type], type \in SignedTypes))>>
      [] type = "cstring" /\ value = NullText -> <<Token("(null)", 0)>>
      [] type \in TextTypes /\ value # NullText -> Quoted(value)
      [] type \in {"float", "double", "ldouble"} -> <<Token("floating", value[1])>>
      [] OTHER -> <<Token(type, value[1])>>

ElementOf(v, k) ==
    IF FunctionAt(v, k) THEN <<Token("custom", 0)>> ELSE Element(TypeAt(v, k), v.elements[k])

\* What stands before an element: nothing, a comma, or in a map the colon before a value.
Preceding(v, k) ==
    CASE k = 1 -> << >>
      [] v.type = "map" /\ k % 2 = 0 -> <<Token(": ", 0)>>
      [] OTHER -> <<Token(", ", 0)>>

\* lor_print__write_sequence and lor_print__write_map.
Elements(v) ==
    IF v.elements = << >> /\ v.type # "map" THEN <<Token("empty", 0)>>
    ELSE <<Token("open", 0)>>
         \o SeqExt!FlattenSeq([k \in DOMAIN v.elements |-> Preceding(v, k) \o ElementOf(v, k)])
         \o <<Token("close", 0)>>

\* lor_print__write_value: what is written, one token after the other.
Chunks(v) ==
    CASE v.type \in {"signed", "unsigned"} ->
           <<Token("number", Loaded(v.value[1], Span["llong"], v.type = "signed"))>>
      [] v.type = "cstring" /\ v.value = NullText -> <<Token("(null)", 0)>>
      [] v.type \in TextTypes /\ v.value # NullText -> Plain(v.value)
      [] v.type \in {"array", "set", "map"} -> Elements(v)
      [] v.type = "custom" -> <<Token("custom", 0)>>
      [] v.type = "end" -> << >>
      [] OTHER -> <<Token(v.type, v.value[1])>>
----------------------------------------------------------------------------
(* What a reader of the output takes from it.                               *)

\* Where a reader of a quoted text is after so many of its characters.
Escapes(tokens, n) == n < Len(tokens) /\ tokens[n] = Token("byte", Backslash)
PlaceAfter(tokens, size) ==
    LET P[n \in 0 .. size] ==
          IF n = 0 THEN 2 ELSE P[n - 1] + (IF Escapes(tokens, P[n - 1]) THEN 2 ELSE 1)
    IN P
\* The quotes and escapes say this text.
SaysText(tokens, said) ==
    LET place == PlaceAfter(tokens, Len(said))
    IN /\ place[Len(said)] = Len(tokens)
       /\ \A n \in 1 .. Len(said) :
             LET p == place[n - 1]
             IN said[n] = tokens[IF Escapes(tokens, p) THEN p + 1 ELSE p][2]

\* The value of a type is recognized in what is written for it, alone or as an element.
Recognized(tokens, type, value, nested) ==
    CASE type \in IntegerTypes -> tokens = <<Token("number", value[1])>>
      [] type \in TextTypes /\ value # NullText ->
           IF nested THEN SaysText(tokens, value) ELSE tokens = Plain(value)
      [] OTHER -> Len(tokens) = 1

\* An argument means the same to the reader as to the caller: a number of any type is that
\* number, and a quoted text says the text, in containers as well.
Faithful(a) ==
    LET v == Value(a)
    IN IF a.type \in {"array", "set", "map"}
       THEN \A k \in DOMAIN a.elements :
               FunctionAt(a, k)
                  \/ Recognized(ElementOf(v, k), TypeAt(a, k), a.elements[k], TRUE)
       ELSE a.type \in {"end", "custom"} \/ Recognized(Chunks(v), a.type, a.value, FALSE)
=============================================================================
