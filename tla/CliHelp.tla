------------------------------ MODULE CliHelp ------------------------------
(***************************************************************************)
(* The texts of src/cli.c: the help of the registered options and          *)
(* positionals, and the line for an error of the parser. Each is a         *)
(* sequence of calls of stdio, any of which may fail, and then the         *)
(* function returns 0 at once. A text is its role and its length, which is *)
(* what the columns of the help depend on.                                 *)
(***************************************************************************)
EXTENDS Integers, Sequences, FiniteSets
TextSeq == INSTANCE SequencesExt
SizeSet == INSTANCE FiniteSetsExt

CONSTANTS
    Options,      \* options: kind, lengths of long name and value name (0: NULL), whether
                  \* there is a short name, whether required, and whether it has a default
    Positionals,  \* positionals: kind, length of the name, whether required
    Cap,          \* 40, the widest column
    HelpSize,     \* strlen("-h, --help")
    MaxLines      \* bound: options and positionals of a parser

\* lor_cli__add_option asks for a short or a long name, lor_cli__add_positional for a name.
ASSUME HelpAssumption ==
    /\ Options \subseteq [kind : STRING, short : BOOLEAN, long : Nat, value : Nat,
                          required : BOOLEAN, default : BOOLEAN]
    /\ \A o \in Options : o.short \/ o.long # 0
    /\ Positionals \subseteq [kind : STRING, size : Nat \ {0}, required : BOOLEAN]
    /\ Cap \in Nat /\ HelpSize \in Nat \ {0} /\ MaxLines \in Nat

VARIABLES
    call,     \* "none", "help" or "error"
    given,    \* its argument: what is registered, or a result
    printed,  \* the texts that were written
    returned  \* what the function returned: 0 or 1

helpVars == <<call, given, printed, returned>>

Text(role, size) == [role |-> role, size |-> size]
LineBreak == Text("newline", 0)
Capped(n, m) == IF n > m THEN m ELSE n
Widest(sizes) == SizeSet!Max(sizes \cup {0})
----------------------------------------------------------------------------
(* lor_cli_fprint_help, one sequence of texts for each call of stdio.       *)

\* lor_cli__default_value_name, and what lor_cli__add_option makes of the value's name.
DefaultValueName(kind) ==
    CASE kind \in {"string", "strings"} -> 4
      [] kind \in {"int", "ints"} -> 3
      [] kind \in {"double", "doubles"} -> 6
      [] OTHER -> 0
ValueName(o) ==
    IF o.kind \in {"flag", "count"} THEN 0
    ELSE IF o.value # 0 THEN o.value ELSE DefaultValueName(o.kind)

\* Mutant: the blank before the value's name is not counted.
LabelSizeTight(o) ==
    (IF o.short THEN 2 ELSE 0) + (IF o.short /\ o.long # 0 THEN 2 ELSE 0)
    + (IF o.long # 0 THEN 2 + o.long ELSE 0) + ValueName(o)

\* lor_cli__option_label_size.
LabelSize(o) ==
    (IF o.short THEN 2 ELSE 0) + (IF o.short /\ o.long # 0 THEN 2 ELSE 0)
    + (IF o.long # 0 THEN 2 + o.long ELSE 0)
    + (IF ValueName(o) # 0 THEN 1 + ValueName(o) ELSE 0)

When(condition, text) == IF condition THEN << <<text>> >> ELSE << >>

\* lor_cli__fprint_option_label.
Label(o) ==
    When(o.short, Text("-c", 2))
    \o When(o.short /\ o.long # 0, Text(", ", 2))
    \o When(o.long # 0, Text("--name", 2 + o.long))
    \o When(ValueName(o) # 0, Text(" value", 1 + ValueName(o)))

Blanks(n) == Text("blanks", n)
FillUp(size, width) == IF size < width THEN width - size ELSE 0

OptionLine(o, width) ==
    << <<Blanks(2)>> >> \o Label(o)
    \o << <<Blanks(FillUp(LabelSize(o), width)), Blanks(2), Text("help", 0)>> >>
    \o When(o.required, Text("required", 0))
    \o When(o.default, Text("default", 0))
    \o << <<LineBreak>> >>

\* A name, filled up with blanks by the field width of printf, and its help.
NameLine(name, width) ==
    << <<Blanks(2), name, Blanks(FillUp(name.size, width)), Blanks(2),
         Text("help", 0), LineBreak>> >>

Usage(p) ==
    << <<Text(IF p.kind = "rest" THEN "[name...]" ELSE IF p.required THEN "<name>" ELSE "[name]",
              p.size)>> >>

OptionWidth(options) ==
    Capped(Widest({LabelSize(options[k]) : k \in DOMAIN options} \cup {HelpSize}), Cap)
PositionalWidth(positionals) ==
    Capped(Widest({positionals[k].size : k \in DOMAIN positionals}), Cap)

HelpCalls(g) ==
    << <<Text("usage", 0)>>, <<Text("[options]", 0)>> >>
    \o TextSeq!FlattenSeq([k \in DOMAIN g.positionals |-> Usage(g.positionals[k])])
    \o << <<LineBreak>> >>
    \o When(g.description, Text("description", 0))
    \o << <<Text("Options:", 0), LineBreak>> >>
    \o TextSeq!FlattenSeq([k \in DOMAIN g.options |->
                      OptionLine(g.options[k], OptionWidth(g.options))])
    \o NameLine(Text("-h, --help", HelpSize), OptionWidth(g.options))
    \o (IF g.positionals = << >> THEN << >>
        ELSE << <<Text("Arguments:", 0), LineBreak>> >>
             \o TextSeq!FlattenSeq([k \in DOMAIN g.positionals |->
                    NameLine(Text("name", g.positionals[k].size),
                             PositionalWidth(g.positionals))]))
----------------------------------------------------------------------------
(* lor_cli_fprint_error.                                                    *)

\* lor_cli__result and lor_cli__option_result: the results of a parse, from the places
\* where it fails; an argument may be the empty string.
Result(code, token, name, short) ==
    [code |-> code, token |-> token, name |-> name, short |-> short]
OptionResult(code, token, o) == Result(code, token, o.long, o.short)
ParseResults ==
    {Result(code, 0, 0, FALSE) : code \in {"OK", "INVALID_STATE"}}
    \cup {Result("HELP_REQUESTED", 2, 4, FALSE), Result("UNKNOWN_OPTION", 2, 0, FALSE)}
    \cup {OptionResult(code, 2, o) :
             code \in {"DUPLICATE_OPTION", "UNEXPECTED_VALUE", "MISSING_VALUE"}, o \in Options}
    \cup {OptionResult(code, size, o) :
             code \in {"INVALID_VALUE", "OUT_OF_MEMORY"}, size \in {0, 1}, o \in Options}
    \cup {OptionResult("MISSING_REQUIRED_OPTION", 0, o) : o \in Options}
    \cup {Result("MISSING_POSITIONAL", 0, p.size, FALSE) : p \in Positionals}
    \cup {Result(code, size, p.size, FALSE) :
             code \in {"INVALID_VALUE", "OUT_OF_MEMORY"}, size \in {0, 1}, p \in Positionals}
    \cup {Result("UNEXPECTED_POSITIONAL", size, 0, FALSE) : size \in {0, 1}}

ResultToken(r) == <<Text("token", r.token)>>

\* Mutant: the long name is taken for granted.
OptionNameLong(r) == <<Text("--name", IF r.name # 0 THEN 2 + r.name ELSE 0)>>

\* lor_cli__fprint_option_name.
OptionName(r) ==
    CASE r.name # 0 -> <<Text("--name", 2 + r.name)>>
      [] r.name = 0 /\ r.short -> <<Text("-c", 2)>>
      [] OTHER -> ResultToken(r)

ErrorCalls(r) ==
    << <<Text("error: ", 7)>> >> \o
    CASE r.code \in {"UNKNOWN_OPTION", "MISSING_VALUE", "UNEXPECTED_VALUE",
                     "UNEXPECTED_POSITIONAL"} ->
           << <<Text(r.code, 0)>>, ResultToken(r), <<LineBreak>> >>
      [] r.code = "INVALID_VALUE" ->
           << <<Text(r.code, 0)>>, ResultToken(r), <<Text("'", 1)>> >>
           \o When(r.name # 0, Text("name", r.name)) \o << <<LineBreak>> >>
      [] r.code \in {"DUPLICATE_OPTION", "MISSING_REQUIRED_OPTION"} ->
           << <<Text(r.code, 0)>>, OptionName(r), <<LineBreak>> >>
      [] r.code = "MISSING_POSITIONAL" ->
           << <<Text(r.code, 0), Text("name", r.name), LineBreak>> >>
      [] OTHER -> << <<Text(r.code, 0), LineBreak>> >>  \* lor_cli_code_name
----------------------------------------------------------------------------
HelpInit == call = "none" /\ given = << >> /\ printed = << >> /\ returned = 0

\* The first calls succeed, all of them or not.
Calls(calls) ==
    \E n \in 0 .. Len(calls) :
        /\ printed' = TextSeq!FlattenSeq(SubSeq(calls, 1, n))
        /\ returned' = IF n = Len(calls) THEN 1 ELSE 0

\* What a parser may hold: lor_cli__add_positional refuses other orders.
Orders ==
    {s \in UNION {[1 .. n -> Positionals] : n \in 0 .. MaxLines} :
        \A k \in 2 .. Len(s) : s[k - 1].kind # "rest" /\ (s[k].required => s[k - 1].required)}

FprintHelp ==
    /\ call = "none" /\ call' = "help"
    /\ \E options \in UNION {[1 .. n -> Options] : n \in 0 .. MaxLines},
          positionals \in Orders, described \in BOOLEAN :
          given' = [options |-> options, positionals |-> positionals,
                    description |-> described]
    /\ Calls(HelpCalls(given'))

FprintError ==
    /\ call = "none" /\ call' = "error"
    /\ \E r \in ParseResults :
          /\ given' = r
          /\ IF r.code \in {"OK", "HELP_REQUESTED"} THEN printed' = << >> /\ returned' = 0
             ELSE Calls(ErrorCalls(r))

HelpNext == FprintHelp \/ FprintError

HelpSpec == HelpInit /\ [][HelpNext]_helpVars
----------------------------------------------------------------------------
(* Properties.                                                              *)

\* The column in which each text begins.
Columns ==
    LET C[n \in DOMAIN printed] ==
          IF n = 1 THEN 0
          ELSE IF printed[n - 1].role = "newline" THEN 0
          ELSE C[n - 1] + printed[n - 1].size
    IN C

\* The column in which the label before the n-th text ends: the last text that is not blank.
LabelEnd(n) ==
    LET k == SizeSet!Max({j \in 1 .. n - 1 : printed[j].role # "blanks"})
    IN IF printed[k].role = "newline" THEN 0 ELSE Columns[k] + printed[k].size

\* The helps of the arguments, and those of the options, with that of -h.
HelpPlaces == {n \in DOMAIN printed : printed[n].role = "help"}
ArgumentHelps ==
    {n \in HelpPlaces : \E k \in 1 .. n : printed[k].role = "Arguments:"}
OptionHelps == HelpPlaces \ ArgumentHelps

\* The helps of a section begin in one column, two blanks behind the longest label, except
\* that longer labels than Cap push their own help to the right.
Aligned(helps) ==
    LET widest == Capped(Widest({LabelEnd(n) : n \in helps}), 2 + Cap)
    IN \A n \in helps :
          Columns[n] = 2 + (IF LabelEnd(n) > widest THEN LabelEnd(n) ELSE widest)

\* The texts of an error line that tell which option or argument the error is about.
CauseRoles(r) ==
    CASE r.code \in {"UNKNOWN_OPTION", "MISSING_VALUE", "UNEXPECTED_VALUE",
                     "UNEXPECTED_POSITIONAL"} -> {"token"}
      [] r.code \in {"INVALID_VALUE", "MISSING_POSITIONAL"} -> {"name"}
      [] r.code \in {"DUPLICATE_OPTION", "MISSING_REQUIRED_OPTION"} -> {"--name", "-c"}
      [] OTHER -> {}

\* The errors whose lines can tell. The others are INVALID_STATE and OUT_OF_MEMORY, of which
\* only the name of the code is written (cli.c:689-691), an invalid value of an option without
\* a long name, which is written without the option (cli.c:661-667), and an unexpected
\* positional that is the empty string.
TellsCause(r) ==
    /\ r.code \notin {"INVALID_STATE", "OUT_OF_MEMORY"}
    /\ r.code = "INVALID_VALUE" => r.name # 0
    /\ r.code = "UNEXPECTED_POSITIONAL" => r.token # 0

\* A help that was written completely has a line for every option, for -h and for every
\* positional, and its columns are straight whatever the names and kinds are; a line that was
\* written completely for an error of TellsCause has a text that tells which option or argument
\* it is about: the argument itself, the name of the positional, or a name that the option has,
\* the short one when there is no long one. Of the other errors it says nothing
\* (cli.h:146: "Writes a descriptive parse error").
HelpExact ==
    returned = 1 =>
        IF call = "help"
        THEN /\ Cardinality(OptionHelps) = Len(given.options) + 1
             /\ Cardinality(ArgumentHelps) = Len(given.positionals)
             /\ Aligned(OptionHelps) /\ Aligned(ArgumentHelps)
        ELSE TellsCause(given) =>
                \E n \in DOMAIN printed :
                    printed[n].role \in CauseRoles(given) /\ printed[n].size > 0
=============================================================================
