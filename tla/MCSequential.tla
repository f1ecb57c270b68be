---------------------------- MODULE MCSequential ----------------------------
(* The components that one thread uses on its own, checked in one run: each  *)
(* behaviour picks a component and leaves the variables of the others alone. *)
EXTENDS Random, Deadlines, AutoTrace, ArenaData, FileMap, OwnedString, StringView,
        MapKeys, Cli, Printing, CliHelp
LOCAL INSTANCE TLC

VARIABLES
    component,
    json, first, broken, threads, clock, events, answer

----------------------------------------------------------------------------
(* The instances and their bounds.                                           *)

Option(short, long, kind, required, show) ==
    [short |-> short, long |-> long, kind |-> kind, required |-> required,
     repeatable |-> FALSE, show |-> show]
Positional(kind, required) == [kind |-> kind, required |-> required]
ArgToken(form, name, letters, t) ==
    [form |-> form, name |-> name, letters |-> letters, text |-> t]

CliOptions ==
    {Option("a", Absent, "flag", FALSE, FALSE),
     Option("n", "num", "number", TRUE, TRUE),
     Option("v", Absent, "count", FALSE, FALSE),
     Option("l", "num", "strings", FALSE, TRUE)}
CliPositionals ==
    {Positional("number", TRUE), Positional("string", FALSE),
     Positional("rest", FALSE)}
CliTokens ==
    {ArgToken("end", Absent, << >>, Absent), ArgToken("help", Absent, << >>, Absent),
     ArgToken("null", Absent, << >>, Absent),
     ArgToken("long", "num", << >>, Absent), ArgToken("long", "num", << >>, "number"),
     ArgToken("cluster", Absent, <<"v", "a", "n">>, Absent),
     ArgToken("cluster", Absent, <<"a">>, "number"),
     ArgToken("cluster", Absent, <<"l", "v">>, Absent),
     ArgToken("word", Absent, << >>, "text"),
     ArgToken("negative", Absent, << >>, "number")}

\* Two, three and four bits.
IntegerSpans ==
    [t \in {"schar", "uchar"} |-> 4] @@ [t \in {"short", "ushort", "int", "uint"} |-> 8]
    @@ [t \in {"long", "ulong", "llong", "ullong"} |-> 16]
PrintArguments ==
    {Scalar("schar", <<-2>>), Scalar("ullong", <<15>>),
     Scalar("cstring", NullText), Scalar("view", <<97, 92>>), Scalar("view", NullText),
     Container("custom", << >>, <<TRUE>>, << >>),
     Scalar("end", <<46>>), Scalar("end", << >>),
     Container("array", <<"int">>, <<FALSE>>, << >>),
     Container("array", <<"other">>, <<FALSE>>, << <<3>> >>),
     Container("set", <<"uchar">>, <<FALSE>>, << <<3>>, <<0>> >>),
     Container("map", <<"view", "other">>, <<FALSE, TRUE>>, << <<34, 92, 97>>, <<3>> >>),
     Container("map", <<"short", "cstring">>, <<FALSE, FALSE>>,
               << <<-4>>, NullText, <<3>>, <<10, 1>> >>)}

JSON == INSTANCE TraceFile WITH
    file <- json, Names <- {<< >>, <<"backslash">>, <<"quote", "newline">>, <<"control", "a">>},
    Numbers <- {0, -3}, Width <- 3, Radix <- 2, Times <- {1, 9}, MaxEvents <- 2,
    MaxThreads <- 2

\* The constants of the modules that are extended.
TextCharacters == {"a", "b", " "}
SmallSizes == 0 .. 10
ShortStrings == {<< >>, <<1>>, <<1, 2>>}
KeyTexts == ShortStrings \cup {<<2, 1>>}

HelpOption(kind, short, long, value, required, default) ==
    [kind |-> kind, short |-> short, long |-> long, value |-> value,
     required |-> required, default |-> default]
HelpOptions ==
    {HelpOption("flag", TRUE, 0, 0, FALSE, FALSE),
     HelpOption("count", TRUE, 3, 5, FALSE, FALSE),
     HelpOption("int", TRUE, 7, 0, TRUE, TRUE),
     HelpOption("strings", FALSE, 12, 0, FALSE, FALSE),
     HelpOption("double", TRUE, 0, 2, FALSE, TRUE)}
HelpPositionals ==
    {[kind |-> "int", size |-> 3, required |-> TRUE],
     [kind |-> "string", size |-> 16, required |-> FALSE],
     [kind |-> "rest", size |-> 5, required |-> FALSE]}

----------------------------------------------------------------------------
ofJson == <<json, first, broken, threads, clock, events, answer>>

NoText == text = << >> /\ view = NoView /\ piece = view /\ left = << >> /\ right = << >>
NoClock == now = 0 /\ wall = 0 /\ wait = NoWait

MCInit ==
    /\ component \in {"cli", "views", "strings", "random", "clocks", "auto", "print",
                      "files", "json", "keys", "data", "help"}
    /\ CliInit /\ StringInit /\ RandomInit
    /\ AutoInit /\ PrintInit /\ FileInit
    /\ JSON!FileInit /\ KeyInit /\ DataInit /\ HelpInit
    /\ IF component = "views" THEN ViewInit ELSE NoText
    /\ IF component = "clocks" THEN ClockInit ELSE NoClock

MCNext ==
    /\ UNCHANGED component
    /\ IF component = "cli" THEN CliNext ELSE UNCHANGED cliVars
    /\ IF component = "views" THEN ViewNext ELSE UNCHANGED viewVars
    /\ IF component = "strings" THEN StringNext ELSE UNCHANGED stringVars
    /\ IF component = "random" THEN RandomNext ELSE UNCHANGED randomVars
    /\ IF component = "clocks" THEN ClockNext ELSE UNCHANGED clockVars
    /\ IF component = "auto" THEN AutoNext ELSE UNCHANGED autoVars
    /\ IF component = "print" THEN PrintNext ELSE UNCHANGED printVars
    /\ IF component = "files" THEN FileNext ELSE UNCHANGED fileVars
    /\ IF component = "json" THEN JSON!FileNext ELSE UNCHANGED ofJson
    /\ IF component = "keys" THEN KeyNext ELSE UNCHANGED keyVars
    /\ IF component = "data" THEN DataNext ELSE UNCHANGED dataVars
    /\ IF component = "help" THEN HelpNext ELSE UNCHANGED helpVars

MCSpec == MCInit /\ [][MCNext]_<<component, cliVars, viewVars, stringVars, randomVars,
                                clockVars, autoVars, printVars, fileVars, ofJson, keyVars,
                                dataVars, helpVars>>
----------------------------------------------------------------------------
(* The properties of the instances.                                          *)

\* TraceFile: a successful trace is read back as the events that were written.
FileReads == JSON!FileReads
=============================================================================
