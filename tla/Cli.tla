-------------------------------- MODULE Cli --------------------------------
(***************************************************************************)
(* The command line parser of src/cli.c: options and positionals are       *)
(* registered with the caller's variables as destinations, then one pass   *)
(* over argv writes the destinations as it accepts values, and stops at    *)
(* the first token it cannot accept.                                       *)
(*                                                                         *)
(* A token is not spelled out: it is "--", a request for help, --name=text *)
(* (or no text), -letters and the text behind them, -number, another word, *)
(* or a null pointer. A text is a number or not; the integer and the       *)
(* floating-point kinds are one kind, and no option is named by a digit.   *)
(***************************************************************************)
EXTENDS Integers, Sequences, FiniteSets

CONSTANTS
    OptionSpecs,      \* LorCliOption structures, with the kind they are added as
    PositionalSpecs,  \* LorCliPositional structures, with theirs
    Tokens,           \* what argv is made of
    Absent,           \* a null pointer, or the character '\0' as a name
    MaxOptions, MaxPositionals, MaxArgs,  \* bounds
    MaxCount          \* SIZE_MAX

ASSUME CliAssumption ==
    /\ \A o \in OptionSpecs : o.repeatable \in BOOLEAN /\ o.show \in BOOLEAN
    /\ \A t \in Tokens : /\ t.letters \in Seq(STRING)
                         /\ t.form # "cluster" => t.letters = << >>
    /\ MaxArgs \in Nat

VARIABLES
    options,      \* impl_options: each spec, with default_text, its destination's
                  \* values and its occurrences
    positionals,  \* impl_positionals, likewise
    texts,        \* the default texts allocated and not released
    phase,        \* "define", "parse" or "done"
    argv,         \* the tokens behind argv[0]
    cursor,       \* the locals of lor_cli_parse
    code,         \* LorCliResult.code
    uses          \* history: what was accepted, in order

registered == <<options, positionals, texts>>
cliVars == <<options, positionals, texts, phase, argv, cursor, code, uses>>

IsNumber(text) == text = "number"
Lists == {"strings", "numbers", "rest", "count"}
Valued(o) == o.kind \notin {"flag", "count"}
----------------------------------------------------------------------------
(* Registration.                                                            *)

\* i, the letters of argv[i] behind cursor, positional_index, options_enabled.
AtStart == [i |-> 1, read |-> 0, position |-> 1, enabled |-> TRUE]

CliInit ==
    /\ options = << >> /\ positionals = << >> /\ texts = 0
    /\ phase = "define" /\ argv = << >> /\ cursor = AtStart
    /\ code = "OK" /\ uses = << >>

\* lor_cli__option_conflicts; Absent is no name.
Conflicts(o) ==
    \E k \in DOMAIN options :
        \/ o.short # Absent /\ options[k].short = o.short
        \/ o.long # Absent /\ options[k].long = o.long

\* The names "h" and "help" are refused, and an option needs a name.
NameValid(o) == o.short # "h" /\ o.long # "help" /\ <<o.short, o.long>> # <<Absent, Absent>>

\* lor_cli__capture_default: whether the option has a text for the help.
Captures(o) == o.show /\ o.kind \in {"string", "number"}

Registered(o) ==
    [short |-> o.short, long |-> o.long, kind |-> o.kind, required |-> o.required,
     repeatable |-> o.repeatable \/ o.kind \in Lists,
     text |-> Captures(o), values |-> << >>, occurrences |-> 0]

\* lor_string_assign, or lor_array_push, which releases the text again, has no memory.
PushFails(o) == texts' = texts

\* lor_cli__add_option, where it changes something.
AddOption(o) ==
    /\ phase = "define" /\ Len(options) < MaxOptions
    /\ NameValid(o) /\ ~Conflicts(o)
    /\ \/ /\ options' = Append(options, Registered(o))
          /\ texts' = texts + (IF Captures(o) THEN 1 ELSE 0)
       \/ PushFails(o) /\ UNCHANGED options
    /\ UNCHANGED <<positionals, phase, argv, cursor, code, uses>>

\* lor_cli__has_rest, and no required positional behind an optional one.
MayFollow(p) ==
    positionals # << >> =>
        LET last == positionals[Len(positionals)]
        IN last.kind # "rest" /\ (p.required => last.required)

\* lor_cli__add_positional; a push that fails changes nothing.
AddPositional(p) ==
    /\ phase = "define" /\ Len(positionals) < MaxPositionals
    /\ MayFollow(p)
    /\ positionals' = Append(positionals, [kind |-> p.kind, required |-> p.required,
                                           values |-> << >>, occurrences |-> 0])
    /\ UNCHANGED <<options, texts, phase, argv, cursor, code, uses>>

\* lor_cli_deinit; the destinations are the caller's.
CliDeinit ==
    /\ phase # "parse"
    /\ texts' = texts - Cardinality({k \in DOMAIN options : options[k].text})
    /\ options' = << >> /\ positionals' = << >>
    /\ phase' = "define" /\ argv' = << >> /\ cursor' = AtStart
    /\ code' = "OK" /\ uses' = << >>
----------------------------------------------------------------------------
(* Results and values.                                                      *)

\* lor_cli_parse returns a code other than LOR_CLI_OK.
Fail(c) ==
    /\ phase' = "done" /\ code' = c
    /\ UNCHANGED <<registered, argv, cursor, uses>>

\* lor_cli__assign_value: the codes it may return.
AssignCodes(kind, text) ==
    IF kind \in {"number", "numbers"} /\ ~IsNumber(text) THEN {"INVALID_VALUE"}
    ELSE IF kind \in Lists THEN {"OK", "OUT_OF_MEMORY"}
    ELSE {"OK"}

\* The destination d with one more value; a scalar keeps the last.
Assigned(d, text) ==
    [d EXCEPT !.values = IF d.kind \in Lists THEN Append(@, text) ELSE <<text>>,
              !.occurrences = @ + 1]

\* lor_cli__apply_option: the codes it may return.
ApplyCodes(o, text) ==
    IF o.occurrences # 0 /\ ~o.repeatable THEN {"DUPLICATE_OPTION"}
    ELSE IF ~Valued(o)
         THEN {IF text # Absent THEN "UNEXPECTED_VALUE"
               ELSE IF o.kind = "count" /\ Len(o.values) = MaxCount THEN "INVALID_VALUE"
               ELSE "OK"}
    ELSE IF text = Absent THEN {"MISSING_VALUE"}
    ELSE AssignCodes(o.kind, text)

\* The parts of a token that are used up one by one: the letters of a cluster and the
\* text behind them, a long name and its text.
Parts(t) ==
    LET text == IF t.text # Absent /\ t.form \in {"long", "cluster"} THEN 1 ELSE 0
    IN (IF t.letters = << >> THEN 1 ELSE Len(t.letters)) + text
PartsOf(n, from, to) == [k \in 1 .. (to - from + 1) |-> <<n, from + k - 1>>]

Use(parts, as, k, text) == [parts |-> parts, as |-> as, to |-> k, text |-> text]

\* Mutant: the destination is written before the text is found to be no number.
RefusedWritten(k, text, c) ==
    /\ options' = [options EXCEPT ![k].values = <<text>>]
    /\ phase' = "done" /\ code' = c
    /\ UNCHANGED <<positionals, texts, argv, cursor, uses>>

\* A value that is refused leaves the destination of option k as it was.
OptionRefused(k, text, c) == Fail(c)

\* Option k is applied to a text, found at these parts of argv; the loop goes on at next.
ApplyOption(k, text, parts, next) ==
    \E c \in ApplyCodes(options[k], text) :
        IF c # "OK" THEN OptionRefused(k, text, c)
        ELSE /\ options' = [options EXCEPT ![k] = Assigned(@, text)]
             /\ uses' = Append(uses, Use(parts, "option", k, text))
             /\ cursor' = next
             /\ UNCHANGED <<positionals, texts, phase, argv, code>>
----------------------------------------------------------------------------
(* lor_cli_parse, one token, or one letter of a cluster, at a time.         *)

ParseStart ==
    /\ phase = "define"
    /\ phase' = "parse"
    /\ \E n \in 0 .. MaxArgs : argv' \in [1 .. n -> Tokens]
    /\ UNCHANGED <<registered, cursor, code, uses>>

\* A parser may be parsed once.
ParseAgain ==
    /\ phase = "done"
    /\ code' = "INVALID_STATE"
    /\ UNCHANGED <<registered, phase, argv, cursor, uses>>

\* The loop reaches a token of one of these forms.
AtToken(forms) == phase = "parse" /\ cursor.i <= Len(argv) /\ argv[cursor.i].form \in forms

Onward(n) == [cursor EXCEPT !.i = n, !.read = 0]

TokenNull == AtToken({"null"}) /\ Fail("INVALID_STATE")

\* "--", while options are enabled.
EndOfOptions ==
    /\ AtToken({"end"}) /\ cursor.enabled
    /\ cursor' = [Onward(cursor.i + 1) EXCEPT !.enabled = FALSE]
    /\ uses' = Append(uses, Use(<< <<cursor.i, 1>> >>, "end", 0, Absent))
    /\ UNCHANGED <<registered, phase, argv, code>>

Help == AtToken({"help"}) /\ cursor.enabled /\ Fail("HELP_REQUESTED")

\* What the token is when it is read as a value.
TokenText(t) ==
    CASE t.form = "null" -> Absent
      [] t.form \in {"word", "negative"} -> t.text
      [] OTHER -> "text"

\* lor_cli__positional_numeric: a negative number where a number is expected.
Numeric ==
    /\ AtToken({"negative"})
    /\ cursor.position <= Len(positionals) /\ positionals[cursor.position].kind = "number"

IsPositional ==
    \/ AtToken({"word"}) \/ Numeric
    \/ AtToken({"end", "help", "long", "cluster", "negative"}) /\ ~cursor.enabled

\* A rest positional takes all that follows.
NextPosition(p) == IF positionals[p].kind = "rest" THEN p ELSE p + 1

\* lor_cli__consume_positional.
ConsumePositional ==
    /\ IsPositional
    /\ LET p == cursor.position
           text == TokenText(argv[cursor.i])
       IN IF p > Len(positionals) THEN Fail("UNEXPECTED_POSITIONAL")
          ELSE \E c \in AssignCodes(positionals[p].kind, text) :
                 IF c # "OK" THEN Fail(c)
                 ELSE /\ positionals' = [positionals EXCEPT ![p] = Assigned(@, text)]
                      /\ uses' = Append(uses, Use(PartsOf(cursor.i, 1, Parts(argv[cursor.i])),
                                                  "positional", p, text))
                      /\ cursor' = [Onward(cursor.i + 1) EXCEPT !.position = NextPosition(p)]
                      /\ UNCHANGED <<options, texts, phase, argv, code>>

Named(field, name) == {k \in DOMAIN options : options[k][field] = name}

\* Option k, named by these parts without a text, takes the next token.
TakeNext(k, parts) ==
    IF cursor.i + 1 > Len(argv) THEN Fail("MISSING_VALUE")
    ELSE LET value == argv[cursor.i + 1]
         IN ApplyOption(k, TokenText(value),
                        parts \o PartsOf(cursor.i + 1, 1, Parts(value)), Onward(cursor.i + 2))

\* --name or --name=text; -5 where no number is expected names no option either.
LongOption ==
    /\ AtToken({"long", "negative"}) /\ cursor.enabled /\ ~Numeric
    /\ LET t == argv[cursor.i]
           found == IF t.form = "long" THEN Named("long", t.name) ELSE {}
           parts == PartsOf(cursor.i, 1, Parts(t))
       IN \/ found = {} /\ Fail("UNKNOWN_OPTION")
          \/ \E k \in found :
                IF t.text # Absent \/ ~Valued(options[k])
                THEN ApplyOption(k, t.text, parts, Onward(cursor.i + 1))
                ELSE TakeNext(k, parts)

\* Mutant: what stands behind the letter of an option without a value is passed over.
LetterIsLast(rest, text) == rest = << >>

\* cursor is at the end of the cluster.
LastLetter(rest, text) == rest = << >> /\ text = Absent

\* The next letter of a cluster, or the text behind the letters, which is none.
ClusterLetter ==
    /\ AtToken({"cluster"}) /\ cursor.enabled
    /\ LET i == cursor.i
           t == argv[i]
           n == cursor.read + 1
           rest == SubSeq(t.letters, n + 1, Len(t.letters))
           found == IF n > Len(t.letters) THEN {} ELSE Named("short", t.letters[n])
       IN IF n <= Len(t.letters) /\ t.letters[n] = "h" THEN Fail("HELP_REQUESTED")
          ELSE \/ found = {} /\ Fail("UNKNOWN_OPTION")
               \/ \E k \in found :
                    IF ~Valued(options[k])
                    THEN ApplyOption(k, Absent, << <<i, n>> >>,
                                     IF LastLetter(rest, t.text) THEN Onward(i + 1)
                                     ELSE [cursor EXCEPT !.read = n])
                    ELSE IF rest # << >> \/ t.text # Absent
                    THEN ApplyOption(k, IF rest # << >> THEN "text" ELSE t.text,
                                     PartsOf(i, n, Parts(t)), Onward(i + 1))
                    ELSE TakeNext(k, << <<i, n>> >>)

Missing(items) == \E k \in DOMAIN items : items[k].required /\ items[k].occurrences = 0

\* The loop has ended: what is required is checked.
ParseEnd ==
    /\ phase = "parse" /\ cursor.i > Len(argv)
    /\ phase' = "done"
    /\ code' = IF Missing(options) THEN "MISSING_REQUIRED_OPTION"
               ELSE IF Missing(positionals) THEN "MISSING_POSITIONAL"
               ELSE "OK"
    /\ UNCHANGED <<registered, argv, cursor, uses>>

CliNext ==
    \/ \E o \in OptionSpecs : AddOption(o)
    \/ \E p \in PositionalSpecs : AddPositional(p)
    \/ CliDeinit
    \/ ParseStart
    \/ ParseAgain
    \/ TokenNull \/ EndOfOptions \/ Help
    \/ ConsumePositional \/ LongOption \/ ClusterLetter
    \/ ParseEnd

CliSpec == CliInit /\ [][CliNext]_cliVars
----------------------------------------------------------------------------
(* Properties.                                                              *)

\* The part of argv that stands behind another one, and behind those of the first n uses.
Following(part) ==
    IF part[2] < Parts(argv[part[1]]) THEN <<part[1], part[2] + 1>> ELSE <<part[1] + 1, 1>>
PartAfter(n) ==
    IF n = 0 THEN <<1, 1>> ELSE Following(uses[n].parts[Len(uses[n].parts)])

\* These parts follow each other, and the first is where it should be.
InOrder(parts, start) ==
    /\ parts # << >> /\ parts[1] = start
    /\ \A k \in 1 .. Len(parts) - 1 : parts[k + 1] = Following(parts[k])

\* A parse that succeeds has used every part of every argument once, in order: no value is
\* read twice, no letter of a cluster and no attached text is passed over
\* (lor_cli_parse, argv[++i] and the cursor of a cluster).
ArgumentsUsedOnce ==
    phase = "done" /\ code = "OK" =>
        /\ \A n \in DOMAIN uses : InOrder(uses[n].parts, PartAfter(n - 1))
        /\ PartAfter(Len(uses)) = <<Len(argv) + 1, 1>>

\* The accepted uses of one destination, and what it holds by them: the text of each, in
\* order, or of the last one.
UsesOf(as, k) == {n \in DOMAIN uses : uses[n].as = as /\ uses[n].to = k}
Holds(d, mine) ==
    /\ d.occurrences = Cardinality(mine)
    /\ Len(d.values) = IF d.kind \in Lists THEN Cardinality(mine) ELSE IF mine = {} THEN 0 ELSE 1
    /\ \A n \in mine :
          IF d.kind \in Lists
          THEN d.values[Cardinality({m \in mine : m <= n})] = uses[n].text
          ELSE (\A m \in mine : m <= n) => d.values[1] = uses[n].text

\* The texts kept for the help are those of the registered options, after an addition that
\* found no memory too, so that deinit releases all of them.
DefaultsOwned == texts = Cardinality({k \in DOMAIN options : options[k].text})

\* Whatever way a parse ends, each destination holds the values accepted for it before
\* the end, and nothing of the value that was refused (cli.h: "already accepted scalar
\* values and repeated-array elements remain written"); and the parser owns no other text.
AcceptedKept ==
    /\ \A k \in DOMAIN options : Holds(options[k], UsesOf("option", k))
    /\ \A k \in DOMAIN positionals : Holds(positionals[k], UsesOf("positional", k))
    /\ DefaultsOwned

\* Both, at the end of a parse and on the way to it.
ParseExact == ArgumentsUsedOnce /\ AcceptedKept
=============================================================================
