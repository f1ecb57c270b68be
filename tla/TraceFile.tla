----------------------------- MODULE TraceFile -----------------------------
(***************************************************************************)
(* The file of src/trace.c: what lor_trace__write_record_locked and        *)
(* lor_trace__write_metadata_locked put into it and whether a program that *)
(* knows only the format reads back the events that were written. Module   *)
(* Trace says which records reach the file; here they arrive one by one,   *)
(* already in the order in which the lock lets them in.                    *)
(*                                                                         *)
(* The file is a sequence of tokens: a literal of the format, a digit, or  *)
(* a character of a string. Time is counted in units of which Radix^3 make *)
(* a microsecond, and numbers are written in base Radix. The process id is *)
(* left out: it is one number, the same everywhere.                        *)
(***************************************************************************)
EXTENDS Integers, Sequences
LOCAL INSTANCE SequencesExt

CONSTANTS
    Names,      \* names given to events, recorders and the process
    Numbers,    \* counter values
    Width,      \* bits of a counter
    Radix,      \* base of the numerals
    Times,      \* readings of the clock
    MaxEvents, MaxThreads  \* bounds

VARIABLES
    file,       \* LorTraceImpl.file: the tokens written
    first,      \* LorTraceImpl.first_event
    broken,     \* LorTraceImpl.failed
    threads,    \* LorTraceImpl.next_thread_id - 1
    clock,      \* the clock, since origin_ns
    events,     \* history: the events written completely
    answer      \* "none" (not open), "open", "OK" or "SYSTEM_ERROR"

fileVars == <<file, first, broken, threads, clock, events, answer>>
----------------------------------------------------------------------------
(* Strings and numbers.                                                     *)

\* Mutant: a backslash is written as it is.
EscapeQuoteOnly(c) ==
    CASE c = "quote" -> <<"backslash", "quote">>
      [] c = "newline" -> <<"backslash", "n">>
      [] c = "control" -> <<"backslash", "u", "0", "0", "1", "0">>
      [] OTHER -> <<c>>

\* lor_trace__write_json_string, one byte. "newline" stands for the five characters that
\* have an escape of their own, "control" for the others below 0x20.
Escape(c) ==
    CASE c \in {"quote", "backslash"} -> <<"backslash", c>>
      [] c = "newline" -> <<"backslash", "n">>
      [] c = "control" -> <<"backslash", "u", "0", "0", "1", "0">>
      [] OTHER -> <<c>>

JsonString(text) ==
    <<"quote">> \o FlattenSeq([k \in DOMAIN text |-> Escape(text[k])]) \o <<"quote">>

Digit(n) == <<"0", "1", "2", "3">>[n + 1]

\* The last n digits of a number.
Padded(value, n) == [k \in 1 .. n |-> Digit((value \div Radix ^ (n - k)) % Radix)]

\* lor_trace__write_u64.
Unsigned(value) ==
    LET n == CHOOSE k \in 1 .. 8 : value < Radix ^ k /\ (k = 1 \/ value >= Radix ^ (k - 1))
    IN Padded(value, n)

\* lor_trace__write_i64, of the record's value: an int64_t that was stored as a uint64_t.
Signed(value) ==
    LET stored == value % 2 ^ Width
        copied == IF stored < 2 ^ (Width - 1) THEN stored ELSE stored - 2 ^ Width
    IN IF copied < 0 THEN <<"-">> \o Unsigned(-copied) ELSE Unsigned(copied)

\* lor_trace__write_timestamp: microseconds, and three digits behind the point, or none.
Timestamp(time) ==
    LET rest == time % Radix ^ 3
    IN Unsigned(time \div Radix ^ 3) \o
       (IF rest = 0 THEN << >> ELSE <<".">> \o Padded(rest, 3))
----------------------------------------------------------------------------
(* Events.                                                                  *)

Event(phase, category, name, thread) ==
    [phase |-> phase, category |-> category, name |-> name, thread |-> thread,
     time |-> 0, value |-> 0, text |-> << >>]

String(key, text) == <<key>> \o JsonString(text)
Thread(e) == <<",", "tid">> \o Unsigned(e.thread)
Time(e) == <<",", "ts">> \o Timestamp(e.time)

\* lor_trace__write_metadata_locked; the name inside of args is called text here.
Metadata(e) ==
    <<"{">> \o String("name", e.name) \o <<",">> \o String("ph", <<"M">>) \o Thread(e)
    \o <<",", "args", "{">> \o String("text", e.text) \o <<"}", "}">>

\* lor_trace__write_record_locked: an end has neither name nor category.
Record(e) ==
    IF e.phase = "E"
    THEN <<"{">> \o String("ph", <<"E">>) \o Thread(e) \o Time(e) \o <<"}">>
    ELSE <<"{">> \o String("name", e.name) \o <<",">> \o String("cat", <<e.category>>)
         \o <<",">> \o String("ph", <<e.phase>>) \o Thread(e) \o Time(e)
         \o (IF e.phase = "i" THEN <<",">> \o String("s", <<"t">>) ELSE << >>)
         \o (IF e.phase = "C"
             THEN <<",", "args", "{", "value">> \o Signed(e.value) \o <<"}">>
             ELSE << >>)
         \o <<"}">>

\* lor_trace__event_separator, and the event.
Written(e) ==
    (IF first THEN << >> ELSE <<",">>) \o
    (IF e.phase = "M" THEN Metadata(e) ELSE Record(e))

\* The event is written, or a write fails behind some of its tokens, and nothing more is
\* written to this file: failed refuses it, and the functions return at once.
Put(e) ==
    \/ /\ file' = file \o Written(e)
       /\ events' = Append(events, e)
       /\ UNCHANGED broken
    \/ /\ \E n \in {0, Len(Written(e)) - 1} : file' = file \o SubSeq(Written(e), 1, n)
       /\ broken' = TRUE
       /\ UNCHANGED events

\* lor_trace__timestamp: the clock, or 0 where it cannot be read.
Now == {clock, 0}
----------------------------------------------------------------------------
FileInit ==
    /\ file = << >> /\ first = TRUE /\ broken = FALSE /\ threads = 0
    /\ clock = 0 /\ events = << >> /\ answer = "none"

\* lor_trace_init_file: the file is truncated and begins an array.
OpenFile ==
    /\ answer = "none"
    /\ answer' = "open"
    /\ \/ /\ file' = <<"[">>
          /\ UNCHANGED <<first, events>>
       \/ \E text \in Names :
             LET e == [Event("M", "", <<"process_name">>, 0) EXCEPT !.text = text]
             IN /\ file' = <<"[">> \o Written(e)
                /\ events' = <<e>>
                /\ first' = FALSE
    /\ UNCHANGED <<broken, threads, clock>>

\* It fails: the file is closed, and what it holds is nobody's.
OpenFails ==
    /\ answer = "none"
    /\ file' \in {<< >>, <<"[">>}
    /\ UNCHANGED <<first, broken, threads, clock, events, answer>>

\* Time passes.
Tick ==
    /\ answer = "open"
    /\ \E t \in Times : t > clock /\ clock' = t
    /\ UNCHANGED <<file, first, broken, threads, events, answer>>

\* lor_trace_thread_init, with a name or without.
AttachThread ==
    /\ answer = "open" /\ ~broken /\ threads < MaxThreads /\ Len(events) < MaxEvents
    /\ threads' = threads + 1
    /\ \/ UNCHANGED <<file, first, broken, events>>
       \/ /\ \E text \in Names :
                Put([Event("M", "", <<"thread_name">>, threads + 1) EXCEPT !.text = text])
          /\ first' = FALSE
    /\ UNCHANGED <<clock, answer>>

\* A record of a thread comes to the file.
Records ==
    {Event("E", "", << >>, 1)}
    \cup {Event("C", "lor", <<"a">>, 1)}
    \cup {Event(p, c, name, 1) : p \in {"B"}, c \in {"lor", "lor.auto"}, name \in Names}
    \cup {Event("i", "lor", name, 1) : name \in Names}

WriteRecord ==
    /\ answer = "open" /\ ~broken /\ threads > 0 /\ Len(events) < MaxEvents
    /\ \E r \in Records, t \in 1 .. threads, time \in Now, v \in Numbers :
          /\ r.phase = "C" \/ v = 0
          /\ Put([r EXCEPT !.thread = t, !.time = time, !.value = v])
    /\ first' = FALSE
    /\ UNCHANGED <<threads, clock, answer>>

\* fflush in lor_trace_thread_flush: it fails, or nothing changes.
FlushFails ==
    /\ answer = "open"
    /\ broken' = TRUE
    /\ UNCHANGED <<file, first, threads, clock, events, answer>>

\* lor_trace_finish: the end of the array, fflush and fclose.
FinishFile ==
    /\ answer = "open"
    /\ \E ok \in BOOLEAN :
          /\ file' = IF ok THEN Append(file, "]") ELSE file
          /\ answer' = IF ok /\ ~broken THEN "OK" ELSE "SYSTEM_ERROR"
    /\ UNCHANGED <<first, broken, threads, clock, events>>

FileNext ==
    \/ OpenFile \/ OpenFails \/ Tick \/ AttachThread \/ WriteRecord \/ FlushFails
    \/ FinishFile

FileSpec == FileInit /\ [][FileNext]_fileVars
----------------------------------------------------------------------------
(* A reader of the format.                                                  *)

\* Behind a token the reader is outside of strings, inside one, or behind a backslash;
\* structural says that the token was no part of a string.
Step(s, token) ==
    LET mode == CASE s.mode = "escaped" -> "inside"
                  [] s.mode # "escaped" /\ token = "quote" ->
                       IF s.mode = "inside" THEN "outside" ELSE "inside"
                  [] s.mode = "inside" /\ token = "backslash" -> "escaped"
                  [] OTHER -> s.mode
        structural == s.mode = "outside" /\ mode = "outside"
    IN [mode |-> mode, structural |-> structural,
        depth |-> s.depth + (IF structural /\ token = "{" THEN 1
                             ELSE IF structural /\ token = "}" THEN -1 ELSE 0)]

\* What the reader knows behind each token.
Trail ==
    LET T[n \in 0 .. Len(file)] ==
          IF n = 0 THEN << >>
          ELSE LET before == T[n - 1]
               IN Append(before, Step(IF n = 1 THEN [mode |-> "outside", depth |-> 0]
                                      ELSE before[n - 1], file[n]))
    IN T[Len(file)]

\* What a string says.
Unescaped(text) ==
    LET U[n \in 1 .. Len(text) + 6] ==
          IF n > Len(text) THEN << >>
          ELSE IF text[n] # "backslash" THEN <<text[n]>> \o U[n + 1]
          ELSE IF text[n + 1] = "u" THEN <<"control">> \o U[n + 6]
          ELSE <<IF text[n + 1] = "n" THEN "newline" ELSE text[n + 1]>> \o U[n + 2]
    IN U[1]

Text(raw) == Unescaped(SubSeq(raw, 2, Len(raw) - 1))

\* What a numeral says, without sign or point.
Value(digits) ==
    LET V[n \in 0 .. Len(digits)] ==
          IF n = 0 THEN 0
          ELSE Radix * V[n - 1] + (CHOOSE d \in 0 .. Radix - 1 : Digit(d) = digits[n])
    IN V[Len(digits)]

Number(digits) == IF digits[1] = "-" THEN -Value(Tail(digits)) ELSE Value(digits)

\* A time in microseconds, in the unit of the clock: digits behind the point are fractions.
Duration(digits) ==
    LET points == {n \in DOMAIN digits : digits[n] = "."}
        point == IF points = {} THEN Len(digits) + 1 ELSE CHOOSE n \in points : TRUE
        fraction == SubSeq(digits, point + 1, Len(digits))
    IN Value(SubSeq(digits, 1, point - 1)) * Radix ^ 3
       + (Value(fraction) * Radix ^ 3) \div Radix ^ Len(fraction)

\* What stands behind a key of the object at from..to, or nothing.
Member(trail, from, to, key) ==
    LET found == {n \in from .. to : trail[n].structural /\ file[n] = key}
    IN IF found = {} THEN << >>
       ELSE LET n == CHOOSE k \in found : TRUE
                ends == {k \in n + 1 .. to : trail[k].structural /\ file[k] \in {",", "}"}}
                end == CHOOSE k \in ends : \A j \in ends : k <= j
            IN SubSeq(file, n + 1, end - 1)

\* The event that the object at from..to describes.
EventAt(trail, from, to) ==
    LET raw == [key \in {"ph", "cat", "name", "tid", "ts", "value", "text"} |->
                   Member(trail, from, to, key)]
    IN [phase |-> Text(raw["ph"])[1],
        category |-> IF raw["cat"] = << >> THEN "" ELSE Text(raw["cat"])[1],
        name |-> Text(raw["name"]),
        thread |-> Number(raw["tid"]),
        time |-> IF raw["ts"] = << >> THEN 0 ELSE Duration(raw["ts"]),
        value |-> IF raw["value"] = << >> THEN 0 ELSE Number(raw["value"]),
        text |-> Text(raw["text"])]

\* The positions of a brace that opens or closes an object of the array.
Braces(trail, brace, depth) ==
    SelectSeq([k \in DOMAIN file |-> k],
              LAMBDA k : trail[k].structural /\ file[k] = brace /\ trail[k].depth = depth)

\* An array of these objects: a bracket, the objects with one comma between two, a bracket.
WellFormed(trail, starts, ends) ==
    LET last == Len(starts)
    IN /\ file[1] = "[" /\ file[Len(file)] = "]" /\ trail[Len(file)].mode = "outside"
       /\ Len(ends) = last
       /\ \A k \in 1 .. last - 1 : ends[k] + 2 = starts[k + 1] /\ file[ends[k] + 1] = ","
       /\ IF last = 0 THEN Len(file) = 2 ELSE starts[1] = 2 /\ ends[last] = Len(file) - 1

\* When finish reports success, a reader of the format finds an array of exactly the events
\* that were written, in order, with the names, numbers and times they were given, whatever
\* the names contain, and although the events come from several threads and any write to
\* the file may fail (lor_trace__write_json_string, lor_trace__write_timestamp,
\* lor_trace__event_separator; trace.h: "complete JSON after lor_trace_finish").
FileReads ==
    answer = "OK" =>
        LET trail == Trail
            starts == Braces(trail, "{", 1)
            ends == Braces(trail, "}", 0)
        IN /\ WellFormed(trail, starts, ends)
           /\ events = [k \in DOMAIN starts |-> EventAt(trail, starts[k], ends[k])]
=============================================================================
