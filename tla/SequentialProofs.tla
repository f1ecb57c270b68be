-------------------------- MODULE SequentialProofs --------------------------
(***************************************************************************)
(* Components that one thread uses on its own, correct for all values of   *)
(* their constants: random numbers, deadlines, automatic zones, the memory *)
(* an arena hands out, mapped files, strings and string views, keys of     *)
(* maps and the arguments of a command line.                               *)
(***************************************************************************)
EXTENDS Random, Deadlines, AutoTrace, ArenaData, FileMap, OwnedString, StringView,
        MapKeys, Cli,
        FiniteSetTheorems, FunctionTheorems, SequenceTheorems, WellFoundedInduction, TLAPS

----------------------------------------------------------------------------
(* Random: the bounded draw.                                                *)

\* Quotient and remainder are determined by what they are for.
LEMMA QuotientRemainder ==
  ASSUME NEW a \in Nat, NEW b \in Nat \ {0}
  PROVE  /\ a % b \in 0 .. b - 1 /\ a \div b \in Nat
         /\ a = b * (a \div b) + (a % b)
OBVIOUS

LEMMA RemainderOf ==
  ASSUME NEW b \in Nat \ {0}, NEW q \in Nat, NEW r \in 0 .. b - 1
  PROVE  (b * q + r) % b = r
OBVIOUS

\* Products in order have their factors in order.
LEMMA FactorsOrdered ==
  ASSUME NEW b \in Nat \ {0}, NEW p \in Int, NEW q \in Int, b * p < b * q
  PROVE  p < q
OBVIOUS

LEMMA ProductsOrdered ==
  ASSUME NEW b \in Nat, NEW p \in Int, NEW q \in Int, p <= q
  PROVE  b * p <= b * q
OBVIOUS

LEMMA ProductNext ==
  ASSUME NEW b \in Nat, NEW p \in Int
  PROVE  b * (p + 1) = b * p + b /\ b * (p - 1) = b * p - b /\ b * p \in Int
OBVIOUS

\* The words of one result, for a threshold t below which words are rejected: as many
\* as there are whole groups of b words from t on.
Class(w, t, b, r) == {k \in 0 .. w - 1 : k >= t /\ k % b = r}

LEMMA ClassSize ==
  ASSUME NEW w \in Nat, NEW b \in Nat \ {0}, b < w, NEW t \in 0 .. b - 1, NEW q \in Nat,
         w = b * q + t, NEW r \in 0 .. b - 1
  PROVE  Cardinality(Class(w, t, b, r)) = q
<1> DEFINE shift == IF r >= t THEN 1 ELSE 0
           f == [k \in 1 .. q |-> b * (k - shift) + r]
<1>1. ASSUME NEW k \in 1 .. q
      PROVE  /\ b * (k - shift) + r \in Class(w, t, b, r)
             /\ k - shift \in Nat
  <2>1. b * k <= b * q /\ b * (k - 1) <= b * q - b /\ b * (k - 1) = b * k - b
    BY ProductNext, ProductsOrdered
  <2>2. b * k \in Nat /\ b * (k - 1) \in Nat /\ b * q \in Nat /\ b * k >= b
    BY ProductNext, ProductsOrdered
  <2>3. k - 1 \in Nat /\ k \in Nat
    OBVIOUS
  <2>4. (b * k + r) % b = r /\ (b * (k - 1) + r) % b = r
    BY <2>3, RemainderOf
  <2>5. CASE r >= t
    BY <2>1, <2>2, <2>3, <2>4, <2>5 DEF Class
  <2>6. CASE r < t
    BY <2>1, <2>2, <2>3, <2>4, <2>6 DEF Class
  <2>7. QED
    BY <2>5, <2>6
<1>2. ASSUME NEW k \in Class(w, t, b, r) PROVE \E n \in 1 .. q : k = b * (n - shift) + r
  <2> DEFINE m == k \div b
  <2>1. k \in Nat /\ k < b * q + t /\ k >= t /\ k % b = r
    BY <1>2 DEF Class
  <2>2. m \in Nat /\ k = b * m + r
    BY <2>1, QuotientRemainder
  <2> HIDE DEF m
  <2>3. b * m \in Nat /\ b * q \in Nat /\ b * (q + 1) = b * q + b /\ b * 0 = 0
    BY <2>2, ProductNext
  <2>4. CASE r >= t
    <3>1. b * m < b * q
      BY <2>1, <2>2, <2>3, <2>4
    <3>2. m + 1 \in 1 .. q
      BY <2>2, <3>1, FactorsOrdered
    <3>3. k = b * ((m + 1) - shift) + r
      BY <2>2, <2>4
    <3>4. QED
      BY <3>2, <3>3
  <2>5. CASE r < t
    <3>1. b * m < b * (q + 1) /\ b * 0 < b * m
      BY <2>1, <2>2, <2>3, <2>5
    <3>2. m \in 1 .. q
      BY <2>2, <3>1, FactorsOrdered
    <3>3. k = b * (m - shift) + r
      BY <2>2, <2>5
    <3>4. QED
      BY <3>2, <3>3
  <2>6. QED
    BY <2>4, <2>5
<1>3. ASSUME NEW k \in 1 .. q, NEW n \in 1 .. q,
             b * (k - shift) + r = b * (n - shift) + r
      PROVE  k = n
  <2>1. b * (k - shift) \in Int /\ b * (n - shift) \in Int
    BY ProductNext
  <2>2. b * (k - shift) = b * (n - shift)
    BY <1>3, <2>1
  <2>3. b * (k - shift) < b * (n - shift) \/ k >= n
    <3>1. CASE k < n
      <4>1. b * ((k - shift) + 1) <= b * (n - shift)
        BY <3>1, ProductsOrdered
      <4>2. QED
        BY <4>1, <2>1, ProductNext
    <3>2. QED
      BY <3>1
  <2>4. b * (n - shift) < b * (k - shift) \/ n >= k
    <3>1. CASE n < k
      <4>1. b * ((n - shift) + 1) <= b * (k - shift)
        BY <3>1, ProductsOrdered
      <4>2. QED
        BY <4>1, <2>1, ProductNext
    <3>2. QED
      BY <3>1
  <2>5. QED
    BY <2>1, <2>2, <2>3, <2>4
<1> HIDE DEF shift
<1>4. f \in Bijection(1 .. q, Class(w, t, b, r))
  <2>1. f \in [1 .. q -> Class(w, t, b, r)]
    BY <1>1
  <2>2. \A k, n \in 1 .. q : f[k] = f[n] => k = n
    BY <1>3
  <2>3. \A k \in Class(w, t, b, r) : \E n \in 1 .. q : f[n] = k
    BY <1>2
  <2>4. QED
    BY <2>1, <2>2, <2>3, Fun_IsBij
<1>5. ExistsBijection(1 .. q, Class(w, t, b, r))
  BY <1>4 DEF ExistsBijection
<1>6. IsFiniteSet(1 .. q) /\ Cardinality(1 .. q) = q
  BY FS_Interval
<1>7. QED
  BY <1>5, <1>6, FS_Bijection

\* The rejection threshold leaves whole groups of b words.
LEMMA ThresholdLeavesGroups ==
  ASSUME NEW b \in Word, b # 0
  PROVE  /\ Threshold(b) \in 0 .. b - 1
         /\ \E q \in Nat : Words = b * q + Threshold(b)
<1>1. b \in Nat \ {0} /\ Words - b \in Nat
  BY RandomAssumption DEF Word
<1> DEFINE p == (Words - b) \div b
<1>2. /\ Threshold(b) \in 0 .. b - 1 /\ p \in Nat
      /\ Words - b = b * p + Threshold(b)
  BY <1>1, QuotientRemainder DEF Threshold
<1> HIDE DEF p
<1>3. b * (p + 1) = b * p + b /\ b * p \in Int
  BY <1>1, <1>2, ProductNext
<1>4. Words = b * (p + 1) + Threshold(b) /\ p + 1 \in Nat
  BY <1>1, <1>2, <1>3, RandomAssumption
<1>5. QED
  BY <1>2, <1>4

\* Each result of a bounded draw has the same number of accepted words.
LEMMA ResultsEquallyFrequent == bound \in Word => Unbiased
<1> SUFFICES ASSUME bound \in Word, bound # 0, NEW r \in 0 .. bound - 1,
                    NEW s \in 0 .. bound - 1
             PROVE  Cardinality({w \in Accepted(bound) : w % bound = r})
                      = Cardinality({w \in Accepted(bound) : w % bound = s})
  BY DEF Unbiased
<1>1. bound \in Nat \ {0} /\ bound < Words /\ Words \in Nat
  BY RandomAssumption DEF Word
<1>2. PICK q \in Nat : Words = bound * q + Threshold(bound)
  BY ThresholdLeavesGroups
<1>3. Threshold(bound) \in 0 .. bound - 1
  BY ThresholdLeavesGroups
<1>4. \A c \in 0 .. bound - 1 :
         Cardinality(Class(Words, Threshold(bound), bound, c)) = q
  BY <1>1, <1>2, <1>3, ClassSize
<1>5. \A c : {w \in Accepted(bound) : w % bound = c}
                = Class(Words, Threshold(bound), bound, c)
  BY DEF Accepted, Word, Class
<1>6. QED
  BY <1>4, <1>5
----------------------------------------------------------------------------
(* Random: the bytes of the system.                                         *)

Requests == [at: {"returned", "read"}, seeding: BOOLEAN, open: BOOLEAN, size: Nat,
             filled: SUBSET Nat, cursor: Nat, remaining: Nat,
             status: {"OK", "SYSTEM_ERROR"}]

\* The descriptor is open while bytes are read; what is written is what is before the
\* cursor, and a request that has succeeded has nothing remaining.
RequestKept(e) ==
    /\ e.open <=> e.at = "read"
    /\ e.filled = 0 .. e.cursor - 1
    /\ e.cursor + e.remaining = e.size
    /\ e.at = "returned" /\ e.status = "OK" => e.remaining = 0

RandomInv == bound \in Word /\ entropy \in Requests /\ RequestKept(entropy)

\* Every bound gets results without bias, and every request for bytes that succeeds
\* has all of them, with its descriptor closed whatever the outcome.
THEOREM RandomIsSound == RandomSpec => []RandomSound
<1>1. RandomInit => RandomInv
  BY RandomAssumption DEF RandomInit, RandomInv, Word, Quiet, Requests, RequestKept
<1>2. RandomInv /\ [RandomNext]_randomVars => RandomInv'
  <2> SUFFICES ASSUME RandomInv, [RandomNext]_randomVars PROVE RandomInv'
    OBVIOUS
  <2>1. ASSUME NEW b \in Word, DrawBegin(b) PROVE RandomInv'
    BY <2>1 DEF DrawBegin, RandomInv
  <2>2. ASSUME NEW w \in Word, Draw(w) PROVE RandomInv'
    BY <2>2, RandomAssumption DEF Draw, RandomInv, Word
  <2>3. ASSUME NEW size \in 0 .. MaxSize, NEW seeding \in BOOLEAN,
               SystemBytes(size, seeding)
        PROVE  RandomInv'
    <3> DEFINE e == [Quiet EXCEPT !.seeding = seeding, !.size = size, !.remaining = size]
    <3>1. size \in Nat
      BY RandomAssumption
    <3>2. /\ e \in Requests /\ e.open = FALSE /\ e.filled = {} /\ e.cursor = 0
          /\ e.remaining = size /\ e.size = size /\ e.status = "OK"
      BY <3>1 DEF Quiet, Requests
    <3>3. \/ size = 0 /\ Returns(e, "OK")
          \/ Returns(e, "SYSTEM_ERROR")
          \/ Step([e EXCEPT !.at = "read", !.open = TRUE])
      BY <2>3 DEF SystemBytes
    <3> HIDE DEF e
    <3>4. ASSUME NEW place \in {"returned", "read"}, NEW status \in {"OK", "SYSTEM_ERROR"},
                 NEW opened \in BOOLEAN, opened <=> place = "read",
                 place = "returned" /\ status = "OK" => size = 0,
                 entropy' = [e EXCEPT !.at = place, !.status = status, !.open = opened],
                 UNCHANGED bound
          PROVE  RandomInv'
      <4>1. entropy' \in Requests
        BY <3>2, <3>4 DEF Requests
      <4>2. /\ entropy'.open = opened /\ entropy'.at = place /\ entropy'.status = status
            /\ entropy'.filled = {} /\ entropy'.cursor = 0
            /\ entropy'.remaining = size /\ entropy'.size = size
        BY <3>2, <3>4 DEF Requests
      <4>3. 0 .. 0 - 1 = {}
        OBVIOUS
      <4>4. RequestKept(entropy')
        <5>1. entropy'.open <=> entropy'.at = "read"
          BY <3>4, <4>2, Zenon
        <5>2. entropy'.filled = 0 .. entropy'.cursor - 1
          BY <4>2, <4>3, Zenon
        <5>3. entropy'.cursor + entropy'.remaining = entropy'.size
          BY <3>1, <4>2
        <5>4. entropy'.at = "returned" /\ entropy'.status = "OK" => entropy'.remaining = 0
          BY <3>4, <4>2
        <5>5. QED
          BY <5>1, <5>2, <5>3, <5>4, Zenon DEF RequestKept
      <4>5. QED
        BY <3>4, <4>1, <4>4 DEF RandomInv
    <3>5. CASE Step([e EXCEPT !.at = "read", !.open = TRUE])
      <4>1. entropy' = [e EXCEPT !.at = "read", !.status = "OK", !.open = TRUE]
        BY <3>2, <3>5 DEF Step, Requests
      <4>2. QED
        BY <3>4, <3>5, <4>1 DEF Step
    <3>6. ASSUME NEW status \in {"OK", "SYSTEM_ERROR"}, status = "OK" => size = 0,
                 Returns(e, status)
          PROVE  RandomInv'
      <4>1. entropy' = [e EXCEPT !.at = "returned", !.status = status, !.open = FALSE]
        BY <3>2, <3>6 DEF Returns, Requests
      <4>2. QED
        BY <3>4, <3>6, <4>1 DEF Returns
    <3>7. QED
      BY <3>3, <3>4, <3>5, <3>6
  <2>4. CASE ReadSome
    <3>1. PICK n \in 1 .. entropy.remaining :
             Step([entropy EXCEPT !.cursor = @ + n, !.remaining = @ - n,
                                  !.filled = @ \cup (entropy.cursor .. entropy.cursor + n - 1)])
      BY <2>4 DEF ReadSome
    <3>2. /\ entropy.cursor \in Nat /\ entropy.remaining \in Nat /\ n \in Nat
          /\ entropy.remaining - n \in Nat /\ entropy.cursor + n \in Nat
      BY DEF RandomInv, Requests
    <3>3. (0 .. entropy.cursor - 1) \cup (entropy.cursor .. entropy.cursor + n - 1)
            = 0 .. (entropy.cursor + n) - 1
      BY <3>2
    <3>4. entropy.filled = 0 .. entropy.cursor - 1
      BY DEF RandomInv, RequestKept
    <3>5. entropy' = [entropy EXCEPT !.cursor = entropy.cursor + n,
                                     !.remaining = entropy.remaining - n,
                                     !.filled = 0 .. (entropy.cursor + n) - 1]
      BY <3>1, <3>3, <3>4 DEF Step
    <3>6. 0 .. (entropy.cursor + n) - 1 \in SUBSET Nat
      BY <3>2
    <3>7. entropy' \in Requests
      BY <3>2, <3>5, <3>6 DEF RandomInv, Requests
    <3>8. RequestKept(entropy')
      BY <2>4, <3>2, <3>5 DEF ReadSome, RandomInv, Requests, RequestKept
    <3>9. QED
      BY <3>1, <3>7, <3>8 DEF Step, RandomInv
  <2>5. CASE ReadFails
    BY <2>5 DEF ReadFails, Close, Returns, RandomInv, RequestKept, Requests
  <2>6. CASE CloseAfter
    BY <2>6 DEF CloseAfter, AllRead, Returns, RandomInv, RequestKept, Requests
  <2>7. CASE ReadInterrupted \/ Seed \/ UNCHANGED randomVars
    BY <2>7 DEF ReadInterrupted, Seed, randomVars, RandomInv
  <2>8. QED
    BY <2>1, <2>2, <2>3, <2>4, <2>5, <2>6, <2>7 DEF RandomNext
<1>3. RandomInv => RandomSound
  BY ResultsEquallyFrequent
     DEF RandomInv, Requests, RequestKept, RandomSound, EntropyComplete, Idle
<1>4. QED
  BY <1>1, <1>2, <1>3, PTL DEF RandomSpec

----------------------------------------------------------------------------
(* FileMap.                                                                 *)

\* The descriptor is open between open and the call after fstat; meanwhile the structure
\* is clear, and what mmap is asked for is not empty.
FileInv ==
    /\ at \in {"returned", "fstat", "mmap"}
    /\ fd <=> at # "returned"
    /\ found \in Int
    /\ at = "mmap" => found > 0
    /\ mapped \in Int
    /\ \/ file = NoFile /\ mapped = 0
       \/ /\ at = "returned"
          /\ file = [data |-> "mapping", size |-> mapped]
          /\ mapped > 0

\* Whichever system call fails, a call that has returned leaves no descriptor open, and a
\* structure that describes the mapping there is, for files of every size.
THEOREM FilesSettled == FileSpec => []FileSettled
<1>1. FileInit => FileInv
  BY DEF FileInit, FileInv
<1>2. FileInv /\ [FileNext]_fileVars => FileInv'
  <2> SUFFICES ASSUME FileInv, [FileNext]_fileVars PROVE FileInv'
    OBVIOUS
  <2>1. CASE Open
    BY <2>1, FileAssumption DEF Open, FileInv, NoFile
  <2>2. CASE Fstat
    <3>1. file = NoFile /\ mapped = 0 /\ UNCHANGED <<file, mapped>>
      BY <2>2 DEF Fstat, FileInv
    <3>2. CASE at' = "returned" /\ fd' = FALSE /\ UNCHANGED found
      BY <3>1, <3>2 DEF FileInv, NoFile
    <3>3. CASE /\ at' = "mmap" /\ UNCHANGED fd
               /\ \E size \in FileSizes : size > 0 /\ found' = size
      <4>1. found' \in Int /\ found' > 0
        BY <3>3, FileAssumption
      <4>2. at = "fstat" /\ fd
        BY <2>2 DEF Fstat, FileInv
      <4>3. fd'
        BY <3>3, <4>2
      <4>4. QED
        BY <3>1, <3>3, <4>1, <4>3 DEF FileInv, NoFile
    <3>4. PICK size \in FileSizes, failed \in BOOLEAN :
             IF Refused(size, failed)
             THEN at' = "returned" /\ fd' = FALSE /\ UNCHANGED found
             ELSE at' = "mmap" /\ found' = size /\ UNCHANGED fd
      BY <2>2, Zenon DEF Fstat
    <3>5. ~Refused(size, failed) => size > 0
      BY FileAssumption DEF Refused
    <3>6. QED
      BY <3>2, <3>3, <3>4, <3>5, Zenon
  <2>3. CASE Mmap
    <3>1. file = NoFile /\ mapped = 0 /\ found > 0 /\ found \in Int
      BY <2>3 DEF Mmap, FileInv
    <3>2. CASE UNCHANGED <<file, mapped>>
      BY <2>3, <3>1, <3>2 DEF Mmap, FileInv, NoFile
    <3>3. CASE /\ file' = [data |-> "mapping", size |-> found]
               /\ mapped' = found
      BY <2>3, <3>1, <3>3 DEF Mmap, FileInv
    <3>4. QED
      BY <2>3, <3>2, <3>3 DEF Mmap
  <2>4. CASE Unmap
    <3>1. CASE file.data = NoData
      BY <2>4, <3>1 DEF Unmap, FileInv, NoFile
    <3>2. CASE file.data # NoData
      BY <2>4, <3>2 DEF Unmap, FileInv, NoFile
    <3>3. QED
      BY <3>1, <3>2
  <2>5. CASE UNCHANGED fileVars
    BY <2>5 DEF fileVars, FileInv, NoFile
  <2>6. QED
    BY <2>1, <2>2, <2>3, <2>4, <2>5 DEF FileNext
<1>3. FileInv => FileSettled
  BY FileAssumption DEF FileInv, FileSettled, NoFile
<1>4. QED
  BY <1>1, <1>2, <1>3, PTL DEF FileSpec

----------------------------------------------------------------------------
(* Deadlines.                                                               *)

Calls == [op: {"none", "sleep", "wait"}, since: Nat, ms: Int, deadline: Int, wake: Int,
          status: {"OK", "WAITING", "TIMED_OUT", "SYSTEM_ERROR", "RETURNED"},
          failed: BOOLEAN]

\* A call of lor_sleep_ms in which nothing has failed has the deadline that its duration
\* gives, or none; one that is over was at its deadline.
OnTime(call) ==
    call.op = "sleep" /\ ~call.failed =>
        /\ call.ms \in Nat \ {0}
        /\ call.deadline \in {(call.since \div Millisecond) + call.ms, Infinite}
        /\ call.status = "RETURNED" => now > call.since + Millisecond * (call.ms - 1)

SleepInv == now \in Times /\ wall \in Int /\ wait \in Calls /\ OnTime(wait)

\* A clock that was read at s in milliseconds and shows n more of them at t.
LEMMA MillisecondsLater ==
  ASSUME NEW m \in Nat \ {0}, NEW s \in Nat, NEW t \in Nat, NEW n \in Nat \ {0},
         t \div m >= (s \div m) + n
  PROVE  t > s + m * (n - 1)
<1>1. PICK p \in Nat, q \in Nat : p = s \div m /\ q = t \div m
  BY QuotientRemainder
<1>2. s = m * p + (s % m) /\ s % m \in 0 .. m - 1 /\ t = m * q + (t % m) /\ t % m \in 0 .. m - 1
  BY <1>1, QuotientRemainder
<1>3. m * (p + n) <= m * q
  BY <1>1, ProductsOrdered
<1>4. m * (p + n) = m * p + m * n
  OBVIOUS
<1>5. m * (n - 1) = m * n - m
  BY ProductNext
<1>6. m * p \in Int /\ m * q \in Int /\ m * n \in Int
  OBVIOUS
<1> QED
  BY <1>2, <1>3, <1>4, <1>5, <1>6

LEMMA ClockShows ==
  ASSUME now \in Times
  PROVE  now \in Nat /\ Truncated \in Nat /\ TimeNowMs \in SUBSET Nat
<1>1. now \in Nat
  BY DEF Times
<1>2. Millisecond \in Nat \ {0}
  BY ClockAssumption
<1>3. Truncated \in Nat
  BY <1>1, <1>2, QuotientRemainder DEF Truncated
<1> QED
  BY <1>1, <1>3 DEF TimeNowMs

\* What a look at the clock makes of a call.
LEMMA LookKeeps ==
  ASSUME now \in Times, wall \in Int, NEW call \in Calls, OnTime(call), call.status # "RETURNED",
         NEW status \in {"RETURNED", "TIMED_OUT"}, LooksAtClock(call, status)
  PROVE  wait' \in Calls /\ OnTime(wait')
<1>1. PICK clock \in TimeNowMs : IF call.deadline # Infinite /\ clock >= call.deadline
                                 THEN Ends(call, status) ELSE Blocks(call, clock)
  BY DEF LooksAtClock
<1>2. now \in Nat /\ clock \in Nat /\ clock \in {Truncated, 0} /\ Truncated \in Nat
  BY ClockShows DEF TimeNowMs
<1>3. CASE call.deadline # Infinite /\ clock >= call.deadline
  <2>1. wait' = [call EXCEPT !.status = status]
    BY <1>1, <1>3 DEF Ends
  <2>2. wait' \in Calls
    BY <2>1 DEF Calls
  <2>3. /\ wait'.op = call.op /\ wait'.failed = call.failed /\ wait'.ms = call.ms
        /\ wait'.since = call.since /\ wait'.deadline = call.deadline
    BY <2>1 DEF Calls
  <2>4. ASSUME call.op = "sleep", ~call.failed
        PROVE  now > call.since + Millisecond * (call.ms - 1)
    <3>1. PICK s \in Nat, n \in Nat \ {0} : s = call.since /\ n = call.ms
      BY <2>4 DEF OnTime, Calls
    <3>2. call.deadline = (s \div Millisecond) + n
      BY <3>1, <1>3, <2>4 DEF OnTime
    <3>3. s \div Millisecond \in Nat
      BY ClockAssumption, QuotientRemainder
    <3>4. clock = now \div Millisecond
      BY <1>2, <1>3, <3>2, <3>3 DEF Truncated
    <3>5. now > s + Millisecond * (n - 1)
      BY <1>2, <1>3, <3>2, <3>4, ClockAssumption, MillisecondsLater
    <3> QED
      BY <3>1, <3>5
  <2> QED
    BY <2>2, <2>3, <2>4 DEF OnTime
<1>4. CASE ~ (call.deadline # Infinite /\ clock >= call.deadline)
  <2> DEFINE wakes == IF call.deadline = Infinite THEN Infinite
                      ELSE now + wall + Millisecond * (call.deadline - clock)
  <2>1. wakes \in Int
    BY <1>2, ClockAssumption DEF Calls
  <2>2. wait' = [call EXCEPT !.status = "WAITING", !.wake = wakes]
    BY <1>1, <1>4 DEF Blocks
  <2> HIDE DEF wakes
  <2>3. wait' \in Calls
    BY <2>1, <2>2 DEF Calls
  <2>4. /\ wait'.op = call.op /\ wait'.failed = call.failed /\ wait'.ms = call.ms
        /\ wait'.since = call.since /\ wait'.deadline = call.deadline
        /\ wait'.status = "WAITING"
    BY <2>2 DEF Calls
  <2> QED
    BY <2>3, <2>4 DEF OnTime
<1> QED
  BY <1>3, <1>4

\* A call that begins.
LEMMA CalledKept ==
  ASSUME now \in Times, NEW op \in {"sleep", "wait"}, NEW ms \in -1 .. Infinite,
         op = "sleep" => ms > 0, NEW clock \in TimeNowMs
  PROVE  /\ Called(op, ms, clock) \in Calls /\ OnTime(Called(op, ms, clock))
         /\ Called(op, ms, clock).status = "OK"
<1>1. now \in Nat /\ clock \in Nat /\ ms \in Int /\ Infinite \in Nat
  BY ClockShows, ClockAssumption
<1>2. /\ DeadlineAfter(clock, ms) \in Int
      /\ ms > 0 => DeadlineAfter(clock, ms) \in {clock + ms, Infinite}
  BY <1>1 DEF DeadlineAfter
<1>3. PICK d \in Int, f \in BOOLEAN : d = DeadlineAfter(clock, ms) /\ f = (clock # Truncated)
  BY <1>2
<1>4. PICK c : c = Called(op, ms, clock)
  OBVIOUS
<1>5. c = [op |-> op, since |-> now, ms |-> ms, deadline |-> d, wake |-> 0, status |-> "OK",
           failed |-> f]
  BY <1>3, <1>4 DEF Called, NoWait
<1>6. c \in Calls /\ c.status = "OK"
  BY <1>1, <1>5 DEF Calls
<1>7. OnTime(c)
  <2>1. /\ c.op = op /\ c.since = now /\ c.ms = ms /\ c.deadline = d /\ c.status = "OK"
        /\ c.failed = f
    BY <1>5
  <2>2. ASSUME op = "sleep", ~f
        PROVE  ms \in Nat \ {0} /\ d \in {(now \div Millisecond) + ms, Infinite}
    <3>1. clock = now \div Millisecond
      BY <1>3, <2>2 DEF Truncated
    <3> QED
      BY <3>1, <1>1, <1>2, <1>3, <2>2
  <2> QED
    BY <2>1, <2>2 DEF OnTime
<1> QED
  BY <1>4, <1>6, <1>7

\* A sleep in which nothing fails is less than a millisecond shorter than it was asked to be,
\* for every clock, every unit of time and every duration, and however the realtime clock
\* is set.
THEOREM SleepsLong == ClockSpec => []SleepsLongEnough
<1>1. ClockInit => SleepInv
  BY DEF ClockInit, SleepInv, OnTime, NoWait, Calls
<1>2. SleepInv /\ [ClockNext]_clockVars => SleepInv'
  <2> SUFFICES ASSUME SleepInv, [ClockNext]_clockVars PROVE SleepInv'
    OBVIOUS
  <2>0. now \in Times /\ wall \in Int /\ wait \in Calls /\ OnTime(wait)
    BY DEF SleepInv
  <2>1. ASSUME wait' \in Calls, OnTime(wait'), UNCHANGED <<now, wall>>
        PROVE  SleepInv'
    BY <2>0, <2>1 DEF SleepInv, OnTime, Times
  <2>2. ASSUME NEW ms \in -1 .. Infinite, SleepMs(ms)
        PROVE  SleepInv'
    <3>1. ms > 0 /\ UNCHANGED <<now, wall>>
      BY <2>2 DEF SleepMs
    <3>2. PICK clock \in TimeNowMs :
             \/ LooksAtClock(Called("sleep", ms, clock), "RETURNED")
             \/ Ends([Called("sleep", ms, clock) EXCEPT !.failed = TRUE], "RETURNED")
      BY <2>2 DEF SleepMs
    <3>3. PICK c \in Calls : c = Called("sleep", ms, clock) /\ OnTime(c) /\ c.status = "OK"
      BY <2>0, <3>1, CalledKept
    <3>4. CASE LooksAtClock(c, "RETURNED")
      BY <2>0, <2>1, <3>1, <3>3, <3>4, LookKeeps
    <3>5. CASE Ends([c EXCEPT !.failed = TRUE], "RETURNED")
      <4>1. wait' = [[c EXCEPT !.failed = TRUE] EXCEPT !.status = "RETURNED"]
        BY <3>5 DEF Ends
      <4>2. wait' \in Calls /\ wait'.failed
        BY <4>1 DEF Calls
      <4> QED
        BY <4>2, <2>1, <3>1 DEF OnTime
    <3> QED
      BY <3>2, <3>3, <3>4, <3>5
  <2>3. ASSUME NEW ms \in -1 .. Infinite, WaitUntil(ms)
        PROVE  SleepInv'
    <3>1. UNCHANGED <<now, wall>>
      BY <2>3 DEF WaitUntil
    <3>2. PICK clock \in TimeNowMs : LooksAtClock(Called("wait", ms, clock), "TIMED_OUT")
      BY <2>3 DEF WaitUntil
    <3>3. PICK c \in Calls : c = Called("wait", ms, clock) /\ OnTime(c) /\ c.status = "OK"
      BY <2>0, CalledKept
    <3> QED
      BY <2>0, <2>1, <3>1, <3>2, <3>3, LookKeeps
  <2>4. CASE Signalled \/ WaitTimesOut
    <3>1. wait.op = "wait" /\ UNCHANGED <<now, wall>>
      BY <2>4 DEF Signalled, WaitTimesOut
    <3>2. PICK status \in {"OK", "TIMED_OUT"} : wait' = [wait EXCEPT !.status = status]
      BY <2>4 DEF Signalled, WaitTimesOut, Ends
    <3>3. wait' \in Calls /\ wait'.op = "wait"
      BY <2>0, <3>1, <3>2 DEF Calls
    <3> QED
      BY <2>1, <3>1, <3>3 DEF OnTime
  <2>5. CASE SleepWakes
    <3>1. LooksAtClock(wait, "RETURNED") /\ wait.status = "WAITING" /\ UNCHANGED <<now, wall>>
      BY <2>5 DEF SleepWakes, Waiting
    <3> QED
      BY <2>0, <2>1, <3>1, LookKeeps
  <2>6. CASE WaitFails
    <3>1. UNCHANGED <<now, wall>>
      BY <2>6 DEF WaitFails
    <3>2. PICK status \in {"RETURNED", "SYSTEM_ERROR"} :
             wait' = [[wait EXCEPT !.failed = TRUE] EXCEPT !.status = status]
      BY <2>6 DEF WaitFails, Ends
    <3>3. wait' \in Calls /\ wait'.failed
      BY <2>0, <3>2 DEF Calls
    <3> QED
      BY <2>1, <3>1, <3>3 DEF OnTime
  <2>7. CASE Tick
    <3>1. now' \in Times /\ now' >= now /\ now \in Int /\ now' \in Int /\ UNCHANGED <<wall, wait>>
      BY <2>0, <2>7 DEF Tick, Times
    <3>2. \A since \in Nat, n \in Nat \ {0} :
             now > since + Millisecond * (n - 1) => now' > since + Millisecond * (n - 1)
      <4>1. \A n \in Nat \ {0} : Millisecond * (n - 1) \in Int
        BY ClockAssumption
      <4> QED
        BY <3>1, <4>1
    <3>3. OnTime(wait)'
      BY <2>0, <3>1, <3>2 DEF OnTime, Calls
    <3> QED
      BY <2>0, <3>1, <3>3 DEF SleepInv, Times, Calls
  <2>8. CASE SetClock
    <3>1. wall' \in Int /\ UNCHANGED <<now, wait>>
      BY <2>8, ClockAssumption DEF SetClock
    <3> QED
      BY <2>0, <3>1 DEF SleepInv, OnTime, Times, Calls
  <2>9. CASE UNCHANGED clockVars
    BY <2>0, <2>9 DEF clockVars, SleepInv, OnTime, Times, Calls
  <2> QED
    BY <2>2, <2>3, <2>4, <2>5, <2>6, <2>7, <2>8, <2>9 DEF ClockNext
<1>3. SleepInv => SleepsLongEnough
  BY DEF SleepInv, OnTime, SleepsLongEnough
<1>4. QED
  BY <1>1, <1>2, <1>3, PTL DEF ClockSpec
----------------------------------------------------------------------------
(* AutoTrace.                                                               *)

Frames == [id: Nat, binds: BOOLEAN, pauses: BOOLEAN]

AutoTypes ==
    /\ auto_thread \in Recorders \cup {None} /\ enabled \in BOOLEAN
    /\ live \subseteq Recorders /\ open \in [Recorders -> Seq(Nat)]
    /\ stack \in Seq(Frames) /\ Len(stack) > 0 /\ calls \in Nat

\* The call at place b of the stack has bound the recorder r, and recording goes up to
\* place m: there the stack ends, or the call there has paused. The open zones are those
\* of the calls in between, in order.
Zones(r, b, m) ==
    /\ 1 <= b /\ b <= m /\ m <= Len(stack)
    /\ \A d \in 1 .. Len(stack) : stack[d].binds <=> d = b
    /\ enabled => m = Len(stack)
    /\ \A d \in 1 .. Len(stack) : stack[d].pauses <=> ~enabled /\ d = m
    /\ Len(open[r]) = m - b
    /\ \A k \in 1 .. m - b : open[r][k] = stack[b + k].id

Unbound ==
    auto_thread = None =>
        /\ enabled = FALSE
        /\ \A d \in 1 .. Len(stack) : stack[d].binds = FALSE /\ stack[d].pauses = FALSE

BoundInOrder ==
    auto_thread # None =>
        /\ auto_thread \in live
        /\ \E b, m \in Nat : Zones(auto_thread, b, m)

OthersClosed == \A r \in Recorders \ {auto_thread} : open[r] = << >>

AutoInv ==
    AutoTypes /\ Unbound /\ BoundInOrder /\ OthersClosed /\ ended.zone = ended.by

\* The functions that change one call of the stack, seen by place.
LEMMA TopChanged ==
  ASSUME NEW s \in Seq(Frames), Len(s) > 0, NEW u \in Frames
  PROVE  /\ [s EXCEPT ![Len(s)] = u] \in Seq(Frames)
         /\ Len([s EXCEPT ![Len(s)] = u]) = Len(s)
         /\ \A d \in 1 .. Len(s) :
               [s EXCEPT ![Len(s)] = u][d] = IF d = Len(s) THEN u ELSE s[d]
OBVIOUS

LEMMA Pushed ==
  ASSUME NEW T, NEW s \in Seq(T), NEW u \in T
  PROVE  /\ Append(s, u) \in Seq(T) /\ Len(Append(s, u)) = Len(s) + 1
         /\ \A d \in 1 .. Len(s) : Append(s, u)[d] = s[d]
         /\ Append(s, u)[Len(s) + 1] = u
OBVIOUS

LEMMA Popped ==
  ASSUME NEW T, NEW s \in Seq(T), NEW m \in Nat \ {0}, Len(s) = m
  PROVE  /\ SubSeq(s, 1, m - 1) \in Seq(T) /\ Len(SubSeq(s, 1, m - 1)) = m - 1
         /\ \A d \in 1 .. m - 1 : SubSeq(s, 1, m - 1)[d] = s[d]
OBVIOUS

LEMMA Cut ==
  ASSUME NEW T, NEW s \in Seq(T), NEW m \in 1 .. Len(s)
  PROVE  /\ SubSeq(s, 1, m - 1) \in Seq(T) /\ Len(SubSeq(s, 1, m - 1)) = m - 1
         /\ \A d \in 1 .. m - 1 : SubSeq(s, 1, m - 1)[d] = s[d]
OBVIOUS

LEMMA FrameBits ==
  ASSUME AutoTypes
  PROVE  \A d \in 1 .. Len(stack) :
            stack[d].binds \in BOOLEAN /\ stack[d].pauses \in BOOLEAN /\ stack[d].id \in Nat
<1>1. \A d \in 1 .. Len(stack) : stack[d] \in Frames
  BY DEF AutoTypes
<1>2. QED
  BY <1>1 DEF Frames

\* The program may bind, unbind and finish only where nothing is paused and the zones of
\* the recorder are closed.
LEMMA ClosedAtBinder ==
  ASSUME AutoInv, auto_thread # None, Top.binds, ~Top.pauses
  PROVE  /\ enabled
         /\ open[auto_thread] = << >>
         /\ \A d \in 1 .. Len(stack) : /\ stack[d].binds <=> d = Len(stack)
                                       /\ stack[d].pauses = FALSE
<1>1. PICK b \in Nat, m \in Nat : Zones(auto_thread, b, m)
  BY DEF AutoInv, BoundInOrder
<1>2. Len(stack) \in Nat /\ Len(stack) > 0
  BY DEF AutoInv, AutoTypes
<1>3. b = Len(stack) /\ m = Len(stack)
  BY <1>1, <1>2 DEF Zones, Top
<1>4. enabled
  BY <1>1, <1>2, <1>3 DEF Zones, Top
<1>5. open[auto_thread] = << >>
  <2>1. open[auto_thread] \in Seq(Nat) /\ Len(open[auto_thread]) = 0
    BY <1>1, <1>3 DEF AutoInv, AutoTypes, Zones
  <2>2. QED
    BY <2>1
<1>6. \A d \in 1 .. Len(stack) : stack[d].binds \in BOOLEAN /\ stack[d].pauses \in BOOLEAN
  BY FrameBits DEF AutoInv
<1>7. QED
  BY <1>1, <1>3, <1>4, <1>5, <1>6 DEF Zones
\* What an action makes of the call that is running.
LEMMA TopReplaced ==
  ASSUME AutoTypes, NEW u \in Frames, stack' = [stack EXCEPT ![Len(stack)] = u]
  PROVE  /\ stack' \in Seq(Frames) /\ Len(stack') = Len(stack) /\ Len(stack) \in Nat \ {0}
         /\ stack'[Len(stack)] = u
         /\ \A d \in 1 .. Len(stack) : d # Len(stack) => stack'[d] = stack[d]
<1>1. stack \in Seq(Frames) /\ Len(stack) > 0 /\ Len(stack) \in Nat \ {0}
  BY DEF AutoTypes
<1>2. QED
  BY <1>1, TopChanged

LEMMA TopFrame ==
  ASSUME AutoTypes
  PROVE  /\ Top \in Frames /\ Top = stack[Len(stack)]
         /\ \A bit \in BOOLEAN :
               /\ [stack EXCEPT ![Len(stack)].binds = bit]
                    = [stack EXCEPT ![Len(stack)] = [Top EXCEPT !.binds = bit]]
               /\ [Top EXCEPT !.binds = bit] \in Frames
               /\ [Top EXCEPT !.binds = bit].binds = bit
               /\ [Top EXCEPT !.binds = bit].pauses = Top.pauses
               /\ [Top EXCEPT !.binds = bit].id = Top.id
               /\ [stack EXCEPT ![Len(stack)].pauses = bit]
                    = [stack EXCEPT ![Len(stack)] = [Top EXCEPT !.pauses = bit]]
               /\ [Top EXCEPT !.pauses = bit] \in Frames
               /\ [Top EXCEPT !.pauses = bit].pauses = bit
               /\ [Top EXCEPT !.pauses = bit].binds = Top.binds
               /\ [Top EXCEPT !.pauses = bit].id = Top.id
<1>1. stack \in Seq(Frames) /\ Len(stack) \in 1 .. Len(stack)
  BY DEF AutoTypes
<1>2. Top \in Frames /\ Top = stack[Len(stack)]
  BY <1>1 DEF Top
<1>3. QED
  BY <1>1, <1>2 DEF Frames

LEMMA FinishKeepsZones ==
  ASSUME AutoInv, NEW r \in Recorders, RecorderFinish(r)
  PROVE  AutoInv'
<1>1. /\ r \in live /\ (auto_thread = r => Top.binds /\ ~Top.pauses)
      /\ live' = live \ {r} /\ open' = [open EXCEPT ![r] = << >>]
      /\ calls' = calls /\ ended' = ended
  BY DEF RecorderFinish
<1>2. AutoTypes /\ open' \in [Recorders -> Seq(Nat)] /\ open'[r] = << >>
  BY <1>1 DEF AutoInv, AutoTypes
<1>3. \A q \in Recorders : q # r => open'[q] = open[q]
  BY <1>1 DEF AutoInv, AutoTypes
<1>4. CASE auto_thread = r
  <2>1. /\ auto_thread' = None /\ enabled' = FALSE
        /\ stack' = [stack EXCEPT ![Len(stack)].binds = FALSE]
    BY <1>4 DEF RecorderFinish, FinishUnbinds
  <2>2. auto_thread # None
    BY <1>4, AutoAssumption
  <2>3. \A d \in 1 .. Len(stack) : /\ stack[d].binds <=> d = Len(stack)
                                   /\ stack[d].pauses = FALSE
    BY <1>1, <1>4, <2>2, ClosedAtBinder
  <2>4. /\ stack' \in Seq(Frames) /\ Len(stack') = Len(stack) /\ Len(stack) \in Nat \ {0}
        /\ stack'[Len(stack)].binds = FALSE /\ stack'[Len(stack)].pauses = Top.pauses
        /\ \A d \in 1 .. Len(stack) : d # Len(stack) => stack'[d] = stack[d]
    <3>1. stack' = [stack EXCEPT ![Len(stack)] = [Top EXCEPT !.binds = FALSE]]
      BY <2>1, <1>2, TopFrame
    <3>2. QED
      BY <3>1, <1>2, TopFrame, TopReplaced
  <2>5. \A d \in 1 .. Len(stack') : stack'[d].binds = FALSE /\ stack'[d].pauses = FALSE
    <3>1. \A d \in 1 .. Len(stack) : stack[d].binds \in BOOLEAN
      BY <1>2, FrameBits
    <3>2. Len(stack) \in 1 .. Len(stack) /\ Top = stack[Len(stack)]
      BY <2>4 DEF Top
    <3>3. QED
      BY <2>3, <2>4, <3>1, <3>2
  <2>6. AutoTypes' /\ Unbound' /\ BoundInOrder'
    BY <1>1, <1>2, <2>1, <2>4, <2>5 DEF AutoTypes, Unbound, BoundInOrder
  <2>7. OthersClosed'
    BY <1>2, <1>3, <1>4 DEF OthersClosed, AutoInv
  <2>8. QED
    BY <1>1, <2>6, <2>7 DEF AutoInv
<1>5. CASE auto_thread # r
  <2>1. UNCHANGED <<auto_thread, enabled, stack>>
    BY <1>5 DEF RecorderFinish, FinishUnbinds
  <2>2. AutoTypes' /\ Unbound'
    BY <1>1, <1>2, <2>1 DEF AutoInv, AutoTypes, Unbound
  <2>3. BoundInOrder'
    <3>1. SUFFICES ASSUME auto_thread # None PROVE BoundInOrder'
      BY <2>1 DEF BoundInOrder
    <3>2. auto_thread \in live' /\ open'[auto_thread] = open[auto_thread]
      BY <1>1, <1>3, <1>5, <3>1 DEF AutoInv, AutoTypes, BoundInOrder
    <3>3. PICK b \in Nat, m \in Nat : Zones(auto_thread, b, m)
      BY <3>1 DEF AutoInv, BoundInOrder
    <3>4. Zones(auto_thread, b, m)'
      BY <2>1, <3>2, <3>3 DEF Zones
    <3>5. QED
      BY <2>1, <3>2, <3>4 DEF BoundInOrder
  <2>4. OthersClosed'
    BY <1>2, <1>3, <2>1 DEF OthersClosed, AutoInv
  <2>5. QED
    BY <1>1, <2>2, <2>3, <2>4 DEF AutoInv
<1>6. QED
  BY <1>4, <1>5

LEMMA BindKeepsZones ==
  ASSUME AutoInv, NEW r \in Recorders, Bind(r)
  PROVE  AutoInv'
<1>1. /\ r \in live /\ auto_thread \in {None, r} /\ ~Top.pauses
      /\ auto_thread = r => Top.binds
      /\ auto_thread' = r /\ enabled' = TRUE
      /\ stack' = [stack EXCEPT ![Len(stack)].binds = TRUE]
      /\ live' = live /\ open' = open /\ calls' = calls /\ ended' = ended
  BY DEF Bind
<1>2. AutoTypes /\ r # None
  BY AutoAssumption DEF AutoInv
<1>3. /\ stack' \in Seq(Frames) /\ Len(stack') = Len(stack) /\ Len(stack) \in Nat \ {0}
      /\ stack'[Len(stack)].binds = TRUE /\ stack'[Len(stack)].pauses = Top.pauses
      /\ \A d \in 1 .. Len(stack) : d # Len(stack) => stack'[d] = stack[d]
  <2>1. stack' = [stack EXCEPT ![Len(stack)] = [Top EXCEPT !.binds = TRUE]]
    BY <1>1, <1>2, TopFrame
  <2>2. QED
    BY <2>1, <1>2, TopFrame, TopReplaced
<1>4. /\ open[r] = << >>
      /\ \A d \in 1 .. Len(stack) : d # Len(stack) => stack[d].binds = FALSE
      /\ \A d \in 1 .. Len(stack) : stack[d].pauses = FALSE
  <2>1. CASE auto_thread = None
    BY <1>2, <2>1 DEF AutoInv, Unbound, OthersClosed
  <2>2. CASE auto_thread = r
    BY <1>1, <1>2, <2>2, ClosedAtBinder, FrameBits
  <2>3. QED
    BY <1>1, <2>1, <2>2
<1>5. Zones(auto_thread, Len(stack), Len(stack))'
  <2>1. Len(stack) \in 1 .. Len(stack) /\ Top = stack[Len(stack)]
    BY <1>3 DEF Top
  <2>2. \A d \in 1 .. Len(stack') : stack'[d].binds <=> d = Len(stack)
    BY <1>3, <1>4
  <2>3. \A d \in 1 .. Len(stack') : stack'[d].pauses = FALSE
    BY <1>3, <1>4, <2>1
  <2>4. Len(open'[auto_thread']) = 0
    BY <1>1, <1>4
  <2>5. QED
    BY <1>1, <1>3, <2>2, <2>3, <2>4 DEF Zones
<1>6. BoundInOrder' /\ AutoTypes' /\ Unbound'
  BY <1>1, <1>2, <1>3, <1>5 DEF BoundInOrder, AutoTypes, Unbound
<1>7. OthersClosed'
  BY <1>1, <1>4, AutoAssumption DEF AutoInv, OthersClosed
<1>8. QED
  BY <1>1, <1>6, <1>7 DEF AutoInv

LEMMA UnbindKeepsZones ==
  ASSUME AutoInv, Unbind
  PROVE  AutoInv'
<1>1. /\ Top.binds /\ ~Top.pauses
      /\ auto_thread' = None /\ enabled' = FALSE
      /\ stack' = [stack EXCEPT ![Len(stack)].binds = FALSE]
      /\ live' = live /\ open' = open /\ calls' = calls /\ ended' = ended
  BY DEF Unbind
<1>2. AutoTypes
  BY DEF AutoInv
<1>3. /\ stack' \in Seq(Frames) /\ Len(stack') = Len(stack) /\ Len(stack) \in Nat \ {0}
      /\ stack'[Len(stack)].binds = FALSE /\ stack'[Len(stack)].pauses = Top.pauses
      /\ \A d \in 1 .. Len(stack) : d # Len(stack) => stack'[d] = stack[d]
  <2>1. stack' = [stack EXCEPT ![Len(stack)] = [Top EXCEPT !.binds = FALSE]]
    BY <1>1, <1>2, TopFrame
  <2>2. QED
    BY <2>1, <1>2, TopFrame, TopReplaced
<1>4. Len(stack) \in 1 .. Len(stack) /\ Top = stack[Len(stack)]
  BY <1>3 DEF Top
<1>5. auto_thread # None
  BY <1>1, <1>4 DEF AutoInv, Unbound
<1>6. /\ open[auto_thread] = << >>
      /\ \A d \in 1 .. Len(stack) : d # Len(stack) => stack[d].binds = FALSE
      /\ \A d \in 1 .. Len(stack) : stack[d].pauses = FALSE
  BY <1>1, <1>2, <1>5, ClosedAtBinder, FrameBits
<1>7. \A d \in 1 .. Len(stack') : stack'[d].binds = FALSE /\ stack'[d].pauses = FALSE
  BY <1>3, <1>4, <1>6
<1>8. AutoTypes' /\ Unbound' /\ BoundInOrder'
  BY <1>1, <1>2, <1>3, <1>7 DEF BoundInOrder, AutoTypes, Unbound
<1>9. OthersClosed'
  BY <1>1, <1>6 DEF AutoInv, OthersClosed
<1>10. QED
  BY <1>1, <1>8, <1>9 DEF AutoInv

LEMMA PauseKeepsZones ==
  ASSUME AutoInv, Pause
  PROVE  AutoInv'
<1>1. /\ enabled /\ auto_thread # None /\ enabled' = FALSE
      /\ stack' = [stack EXCEPT ![Len(stack)].pauses = TRUE]
      /\ auto_thread' = auto_thread /\ live' = live /\ open' = open /\ calls' = calls
      /\ ended' = ended
  BY DEF Pause, Records
<1>2. AutoTypes
  BY DEF AutoInv
<1>3. /\ stack' \in Seq(Frames) /\ Len(stack') = Len(stack) /\ Len(stack) \in Nat \ {0}
      /\ stack'[Len(stack)].binds = Top.binds /\ stack'[Len(stack)].pauses = TRUE
      /\ stack'[Len(stack)].id = Top.id
      /\ \A d \in 1 .. Len(stack) : d # Len(stack) => stack'[d] = stack[d]
  <2>1. stack' = [stack EXCEPT ![Len(stack)] = [Top EXCEPT !.pauses = TRUE]]
    BY <1>1, <1>2, TopFrame
  <2>2. QED
    BY <2>1, <1>2, TopFrame, TopReplaced
<1>4. PICK b \in Nat, m \in Nat : Zones(auto_thread, b, m)
  BY <1>1 DEF AutoInv, BoundInOrder
<1>5. Zones(auto_thread, b, m)'
  <2>1. m = Len(stack) /\ Top = stack[Len(stack)]
    BY <1>1, <1>4 DEF Zones, Top
  <2>2. \A d \in 1 .. Len(stack) : stack'[d].binds = stack[d].binds
                                   /\ stack'[d].id = stack[d].id
    BY <1>3, <2>1
  <2>3. \A d \in 1 .. Len(stack) : stack[d].pauses = FALSE
    BY <1>1, <1>2, <1>4, FrameBits DEF Zones
  <2>4. \A d \in 1 .. Len(stack) : stack'[d].pauses <=> d = m
    BY <1>3, <2>1, <2>3
  <2>5. \A k \in 1 .. m - b : b + k \in 1 .. Len(stack)
    BY <1>3, <1>4, <2>1 DEF Zones
  <2>6. QED
    BY <1>1, <1>3, <1>4, <2>2, <2>4, <2>5 DEF Zones
<1>6. BoundInOrder' /\ AutoTypes' /\ Unbound'
  BY <1>1, <1>2, <1>3, <1>4, <1>5 DEF AutoInv, BoundInOrder, AutoTypes, Unbound
<1>7. OthersClosed'
  BY <1>1 DEF AutoInv, OthersClosed
<1>8. QED
  BY <1>1, <1>6, <1>7 DEF AutoInv

LEMMA ResumeKeepsZones ==
  ASSUME AutoInv, Resume
  PROVE  AutoInv'
<1>1. /\ Top.pauses
      /\ enabled' = (auto_thread # None \/ enabled)
      /\ stack' = [stack EXCEPT ![Len(stack)].pauses = FALSE]
      /\ auto_thread' = auto_thread /\ live' = live /\ open' = open /\ calls' = calls
      /\ ended' = ended
  BY DEF Resume
<1>2. AutoTypes
  BY DEF AutoInv
<1>3. /\ stack' \in Seq(Frames) /\ Len(stack') = Len(stack) /\ Len(stack) \in Nat \ {0}
      /\ stack'[Len(stack)].binds = Top.binds /\ stack'[Len(stack)].pauses = FALSE
      /\ stack'[Len(stack)].id = Top.id
      /\ \A d \in 1 .. Len(stack) : d # Len(stack) => stack'[d] = stack[d]
  <2>1. stack' = [stack EXCEPT ![Len(stack)] = [Top EXCEPT !.pauses = FALSE]]
    BY <1>1, <1>2, TopFrame
  <2>2. QED
    BY <2>1, <1>2, TopFrame, TopReplaced
<1>4. Len(stack) \in 1 .. Len(stack) /\ Top = stack[Len(stack)]
  BY <1>3 DEF Top
<1>5. auto_thread # None
  BY <1>1, <1>4 DEF AutoInv, Unbound
<1>6. PICK b \in Nat, m \in Nat : Zones(auto_thread, b, m)
  BY <1>5 DEF AutoInv, BoundInOrder
<1>7. enabled' = TRUE
  BY <1>1, <1>5
<1>8. Zones(auto_thread, b, m)'
  <2>1. m = Len(stack) /\ ~enabled
    BY <1>1, <1>4, <1>6 DEF Zones
  <2>2. \A d \in 1 .. Len(stack) : stack'[d].binds = stack[d].binds
                                   /\ stack'[d].id = stack[d].id
    BY <1>3, <1>4
  <2>3. \A d \in 1 .. Len(stack) : stack'[d].pauses = FALSE
    BY <1>2, <1>3, <1>6, <2>1, FrameBits DEF Zones
  <2>4. \A k \in 1 .. m - b : b + k \in 1 .. Len(stack)
    BY <1>3, <1>6, <2>1 DEF Zones
  <2>5. QED
    BY <1>1, <1>3, <1>6, <1>7, <2>1, <2>2, <2>3, <2>4 DEF Zones
<1>9. BoundInOrder' /\ AutoTypes' /\ Unbound'
  BY <1>1, <1>2, <1>3, <1>5, <1>7, <1>8 DEF AutoInv, BoundInOrder, AutoTypes, Unbound
<1>10. OthersClosed'
  BY <1>1 DEF AutoInv, OthersClosed
<1>11. QED
  BY <1>1, <1>9, <1>10 DEF AutoInv

LEMMA InitKeepsZones ==
  ASSUME AutoInv, NEW r \in Recorders, RecorderInit(r)
  PROVE  AutoInv'
<1>1. /\ live' = live \cup {r}
      /\ UNCHANGED <<auto_thread, enabled, open, stack, calls, ended>>
  BY DEF RecorderInit
<1>2. AutoTypes' /\ Unbound'
  BY <1>1 DEF AutoInv, AutoTypes, Unbound
<1>3. \A b, m \in Nat : Zones(auto_thread, b, m) => Zones(auto_thread, b, m)'
  BY <1>1 DEF Zones
<1>4. BoundInOrder'
  BY <1>1, <1>3 DEF AutoInv, BoundInOrder
<1>5. OthersClosed'
  BY <1>1 DEF AutoInv, OthersClosed
<1>6. QED
  BY <1>1, <1>2, <1>4, <1>5 DEF AutoInv

LEMMA CallKeepsZones ==
  ASSUME AutoInv, Call
  PROVE  AutoInv'
<1> DEFINE pushed == [id |-> calls + 1, binds |-> FALSE, pauses |-> FALSE]
           n == Len(stack)
<1>1. /\ calls' = calls + 1 /\ stack' = Append(stack, pushed)
      /\ open' = IF enabled /\ auto_thread # None
                 THEN [open EXCEPT ![auto_thread] = Append(open[auto_thread], calls + 1)]
                 ELSE open
      /\ UNCHANGED <<auto_thread, enabled, live, ended>>
  BY DEF Call, Enters, Records
<1>2. /\ AutoTypes /\ calls + 1 \in Nat /\ pushed \in Frames /\ n \in Nat \ {0}
      /\ stack \in Seq(Frames)
  BY DEF AutoInv, AutoTypes, Frames
<1>3. /\ stack' \in Seq(Frames) /\ Len(stack') = n + 1
      /\ \A d \in 1 .. n : stack'[d] = stack[d]
      /\ stack'[n + 1] = pushed
  BY <1>1, <1>2, Pushed
<1>4. pushed.binds = FALSE /\ pushed.pauses = FALSE /\ pushed.id = calls + 1
  OBVIOUS
<1> HIDE DEF pushed, n
<1>5. CASE auto_thread = None
  <2>1. open' = open /\ auto_thread' = None
    BY <1>1, <1>5
  <2>2. \A d \in 1 .. n + 1 : stack'[d].binds = FALSE /\ stack'[d].pauses = FALSE
    BY <1>2, <1>3, <1>4, <1>5 DEF AutoInv, Unbound, n
  <2>3. AutoTypes' /\ Unbound' /\ BoundInOrder' /\ OthersClosed'
    BY <1>1, <1>2, <1>3, <1>5, <2>1, <2>2
       DEF AutoInv, AutoTypes, Unbound, BoundInOrder, OthersClosed
  <2>4. QED
    BY <1>1, <2>3 DEF AutoInv
<1>6. CASE auto_thread # None
  <2>1. /\ auto_thread \in Recorders /\ open \in [Recorders -> Seq(Nat)]
        /\ open[auto_thread] \in Seq(Nat)
    BY <1>2, <1>6 DEF AutoTypes
  <2>2. PICK b \in Nat, m \in Nat : Zones(auto_thread, b, m)
    BY <1>6 DEF AutoInv, BoundInOrder
  <2>3. /\ 1 <= b /\ b <= m /\ m <= n
        /\ \A d \in 1 .. n : stack[d].binds <=> d = b
        /\ enabled => m = n
        /\ \A d \in 1 .. n : stack[d].pauses <=> ~enabled /\ d = m
        /\ Len(open[auto_thread]) = m - b
        /\ \A k \in 1 .. m - b : open[auto_thread][k] = stack[b + k].id
    BY <2>2 DEF Zones, n
  <2>4. \A d \in 1 .. n + 1 : stack'[d].binds <=> d = b
    <3>1. \A d \in 1 .. n : stack'[d].binds <=> d = b
      BY <1>3, <2>3
    <3>2. ~stack'[n + 1].binds /\ n + 1 # b
      BY <1>2, <1>3, <1>4, <2>3
    <3>3. QED
      BY <1>2, <3>1, <3>2
  <2>5. CASE enabled
    <3> DEFINE zones == open[auto_thread]
               grown == Append(zones, calls + 1)
    <3>0. zones \in Seq(Nat) /\ Len(zones) = m - b
      BY <2>1, <2>3
    <3> HIDE DEF zones
    <3>1. /\ grown \in Seq(Nat) /\ Len(grown) = (m - b) + 1
          /\ \A k \in 1 .. m - b : grown[k] = zones[k]
          /\ grown[(m - b) + 1] = calls + 1
      BY <1>2, <3>0, Pushed
    <3> HIDE DEF grown
    <3>2. /\ open' \in [Recorders -> Seq(Nat)] /\ open'[auto_thread] = grown
          /\ \A q \in Recorders : q # auto_thread => open'[q] = open[q]
      BY <1>1, <1>6, <2>1, <2>5, <3>1 DEF grown, zones
    <3>3. \A d \in 1 .. n + 1 : stack'[d].pauses = FALSE
      <4>1. \A d \in 1 .. n : stack[d].pauses = FALSE
        BY <1>2, <2>3, <2>5, FrameBits DEF n
      <4>2. QED
        BY <1>2, <1>3, <1>4, <4>1
    <3>4. \A k \in 1 .. (m + 1) - b : open'[auto_thread][k] = stack'[b + k].id
      <4>1. ASSUME NEW k \in 1 .. m - b
            PROVE  open'[auto_thread][k] = stack'[b + k].id
        <5>1. b + k \in 1 .. n
          BY <1>2, <2>3
        <5>2. zones[k] = stack[b + k].id
          BY <2>3 DEF zones
        <5>3. QED
          BY <1>3, <3>1, <3>2, <5>1, <5>2
      <4>2. ASSUME NEW k \in 1 .. (m + 1) - b, k \notin 1 .. m - b
            PROVE  open'[auto_thread][k] = stack'[b + k].id
        <5>1. k = (m - b) + 1 /\ b + k = n + 1
          BY <1>2, <2>3, <2>5, <4>2
        <5>2. open'[auto_thread][(m - b) + 1] = calls + 1 /\ stack'[n + 1].id = calls + 1
          BY <1>3, <1>4, <3>1, <3>2
        <5>3. QED
          BY <5>1, <5>2
      <4>3. QED
        BY <4>1, <4>2
    <3>5. Zones(auto_thread, b, m + 1)'
      <4>1. Len(open'[auto_thread]) = (m + 1) - b
        BY <2>3, <3>1, <3>2
      <4>2. auto_thread' = auto_thread /\ enabled'
        BY <1>1, <2>5
      <4>3. m + 1 = Len(stack') /\ 1 <= b /\ b <= m + 1
        BY <1>2, <1>3, <2>3, <2>5
      <4>4. QED
        BY <1>3, <2>4, <3>3, <3>4, <4>1, <4>2, <4>3 DEF Zones
    <3>6. BoundInOrder' /\ AutoTypes' /\ Unbound' /\ OthersClosed'
      BY <1>1, <1>2, <1>3, <1>6, <3>2, <3>5
         DEF AutoInv, BoundInOrder, AutoTypes, Unbound, OthersClosed
    <3>7. QED
      BY <1>1, <3>6 DEF AutoInv
  <2>6. CASE ~enabled
    <3>1. open' = open
      BY <1>1, <2>6
    <3>2. \A d \in 1 .. n + 1 : stack'[d].pauses <=> d = m
      <4>1. \A d \in 1 .. n : stack'[d].pauses <=> d = m
        BY <1>3, <2>3, <2>6
      <4>2. ~stack'[n + 1].pauses /\ n + 1 # m
        BY <1>2, <1>3, <1>4, <2>3
      <4>3. QED
        BY <1>2, <4>1, <4>2
    <3>3. \A k \in 1 .. m - b : open'[auto_thread][k] = stack'[b + k].id
      <4>1. \A k \in 1 .. m - b : b + k \in 1 .. n
        BY <1>2, <2>3
      <4>2. QED
        BY <1>3, <2>3, <3>1, <4>1
    <3>4. Zones(auto_thread, b, m)'
      BY <1>1, <1>2, <1>3, <2>3, <2>4, <2>6, <3>1, <3>2, <3>3 DEF Zones
    <3>5. BoundInOrder' /\ AutoTypes' /\ Unbound' /\ OthersClosed'
      BY <1>1, <1>2, <1>3, <1>6, <3>1, <3>4
         DEF AutoInv, BoundInOrder, AutoTypes, Unbound, OthersClosed
    <3>6. QED
      BY <1>1, <3>5 DEF AutoInv
  <2>7. QED
    BY <2>5, <2>6
<1>7. QED
  BY <1>5, <1>6

LEMMA ReturnKeepsZones ==
  ASSUME AutoInv, Return
  PROVE  AutoInv'
<1> DEFINE n == Len(stack)
           zones == open[auto_thread]
           last == Len(zones)
<1>1. /\ n > 1 /\ ~Top.binds /\ ~Top.pauses
      /\ stack' = SubSeq(stack, 1, n - 1)
      /\ IF enabled /\ auto_thread # None /\ zones # << >>
         THEN /\ ended' = [by |-> Top.id, zone |-> zones[last]]
              /\ open' = [open EXCEPT ![auto_thread] = SubSeq(zones, 1, last - 1)]
         ELSE UNCHANGED <<ended, open>>
      /\ UNCHANGED <<auto_thread, enabled, live, calls>>
  BY DEF Return, Records
<1>2. AutoTypes /\ n \in Nat \ {0} /\ stack \in Seq(Frames)
  BY DEF AutoInv, AutoTypes
<1>3. /\ stack' \in Seq(Frames) /\ Len(stack') = n - 1
      /\ \A d \in 1 .. n - 1 : stack'[d] = stack[d]
  BY <1>1, <1>2, Popped
<1>4. Top = stack[n]
  BY DEF Top
<1> HIDE DEF n, last, zones
<1>5. CASE auto_thread = None
  <2>1. open' = open /\ ended' = ended /\ auto_thread' = None
    BY <1>1, <1>5
  <2>2. \A d \in 1 .. n - 1 : stack'[d].binds = FALSE /\ stack'[d].pauses = FALSE
    BY <1>2, <1>3, <1>5 DEF AutoInv, Unbound, n
  <2>3. AutoTypes' /\ Unbound' /\ BoundInOrder' /\ OthersClosed'
    BY <1>1, <1>2, <1>3, <1>5, <2>1, <2>2
       DEF AutoInv, AutoTypes, Unbound, BoundInOrder, OthersClosed
  <2>4. QED
    BY <2>1, <2>3 DEF AutoInv
<1>6. CASE auto_thread # None
  <2>1. auto_thread \in Recorders /\ open \in [Recorders -> Seq(Nat)] /\ zones \in Seq(Nat)
    BY <1>2, <1>6 DEF AutoTypes, zones
  <2>2. PICK b \in Nat, m \in Nat : Zones(auto_thread, b, m)
    BY <1>6 DEF AutoInv, BoundInOrder
  <2>3. /\ 1 <= b /\ b <= m /\ m <= n
        /\ \A d \in 1 .. n : stack[d].binds <=> d = b
        /\ enabled => m = n
        /\ \A d \in 1 .. n : stack[d].pauses <=> ~enabled /\ d = m
        /\ last = m - b
        /\ \A k \in 1 .. m - b : zones[k] = stack[b + k].id
    BY <2>2 DEF Zones, n, zones, last
  <2>4. n \in 1 .. n /\ n # b /\ (~enabled => n # m)
    BY <1>1, <1>2, <1>4, <2>3
  <2>5. \A d \in 1 .. n - 1 : stack'[d].binds <=> d = b
    <3>1. \A d \in 1 .. n - 1 : d \in 1 .. n /\ stack'[d] = stack[d]
      BY <1>2, <1>3
    <3>2. QED
      BY <2>3, <3>1, Zenon
  <2>6. CASE enabled
    <3>1. m = n /\ last \in Nat \ {0} /\ b <= m - 1
      BY <1>2, <2>3, <2>4, <2>6
    <3>2. zones # << >>
      BY <3>1 DEF last
    <3>3. /\ ended' = [by |-> Top.id, zone |-> zones[last]]
          /\ open' = [open EXCEPT ![auto_thread] = SubSeq(zones, 1, last - 1)]
      BY <1>1, <1>6, <2>6, <3>2
    <3>4. ended'.zone = ended'.by
      <4>1. zones[last] = stack[b + last].id /\ b + last = n
        <5>0. last = m - b /\ m = n /\ b <= m - 1 /\ b \in Nat /\ m \in Nat
          BY <2>3, <3>1, Zenon
        <5>1. last \in 1 .. m - b /\ b + last = n
          BY <5>0
        <5>2. QED
          BY <2>3, <5>1, Zenon
      <4>2. QED
        BY <1>4, <3>3, <4>1
    <3> DEFINE rest == SubSeq(zones, 1, last - 1)
    <3>5. /\ rest \in Seq(Nat) /\ Len(rest) = last - 1
          /\ \A k \in 1 .. last - 1 : rest[k] = zones[k]
      BY <2>1, <3>1, Popped DEF last
    <3> HIDE DEF rest
    <3>6. /\ open' \in [Recorders -> Seq(Nat)] /\ open'[auto_thread] = rest
          /\ \A q \in Recorders : q # auto_thread => open'[q] = open[q]
      BY <2>1, <3>3, <3>5 DEF rest
    <3>7. \A d \in 1 .. n - 1 : stack'[d].pauses = FALSE
      <4>1. \A d \in 1 .. n : stack[d].pauses = FALSE
        BY <1>2, <2>3, <2>6, FrameBits DEF n
      <4>2. QED
        BY <1>2, <1>3, <4>1
    <3>8. \A k \in 1 .. (m - 1) - b : open'[auto_thread][k] = stack'[b + k].id
      <4>1. ASSUME NEW k \in 1 .. (m - 1) - b
            PROVE  open'[auto_thread][k] = stack'[b + k].id
        <5>1. b + k \in 1 .. n - 1 /\ k \in 1 .. last - 1 /\ k \in 1 .. m - b
          BY <1>2, <2>3, <3>1
        <5>2. zones[k] = stack[b + k].id
          BY <2>3, <5>1
        <5>3. QED
          BY <1>3, <3>5, <3>6, <5>1, <5>2
      <4>2. QED
        BY <4>1
    <3>9. Zones(auto_thread, b, m - 1)'
      <4>1. Len(open'[auto_thread]) = (m - 1) - b
        BY <2>3, <3>1, <3>5, <3>6
      <4>2. auto_thread' = auto_thread /\ enabled'
        BY <1>1, <2>6
      <4>3. m - 1 = Len(stack') /\ 1 <= b /\ b <= m - 1
        BY <1>2, <1>3, <2>3, <3>1
      <4>4. QED
        BY <1>3, <2>5, <3>7, <3>8, <4>1, <4>2, <4>3 DEF Zones
    <3>10. m - 1 \in Nat
      BY <2>3, <3>1
    <3>11. BoundInOrder' /\ AutoTypes' /\ Unbound' /\ OthersClosed'
      BY <1>1, <1>2, <1>3, <1>6, <3>6, <3>9, <3>10
         DEF AutoInv, BoundInOrder, AutoTypes, Unbound, OthersClosed
    <3>12. QED
      BY <3>4, <3>11 DEF AutoInv
  <2>7. CASE ~enabled
    <3>1. open' = open /\ ended' = ended
      BY <1>1, <2>7
    <3>2. \A d \in 1 .. n - 1 : stack'[d].pauses <=> d = m
      BY <1>2, <1>3, <2>3, <2>7
    <3>3. \A k \in 1 .. m - b : open'[auto_thread][k] = stack'[b + k].id
      <4>1. \A k \in 1 .. m - b : b + k \in 1 .. n - 1
        BY <1>2, <2>3, <2>4, <2>7
      <4>2. QED
        BY <1>3, <2>3, <3>1, <4>1 DEF zones
    <3>4. Zones(auto_thread, b, m)'
      <4>1. auto_thread' = auto_thread /\ ~enabled' /\ Len(open'[auto_thread]) = m - b
        BY <1>1, <2>3, <2>7, <3>1 DEF last, zones
      <4>2. m <= Len(stack') /\ 1 <= b /\ b <= m
        BY <1>2, <1>3, <2>3, <2>4, <2>7
      <4>3. QED
        BY <1>3, <2>5, <3>2, <3>3, <4>1, <4>2 DEF Zones
    <3>5. BoundInOrder' /\ AutoTypes' /\ Unbound' /\ OthersClosed'
      BY <1>1, <1>2, <1>3, <1>6, <3>1, <3>4
         DEF AutoInv, BoundInOrder, AutoTypes, Unbound, OthersClosed
    <3>6. QED
      BY <3>1, <3>5 DEF AutoInv
  <2>8. QED
    BY <2>6, <2>7
<1>7. QED
  BY <1>5, <1>6

\* The hook on exit ends the zone of the call that returns, no zone outlives its call, and
\* no hook reaches a finished recorder, for any number of recorders and any depth.
THEOREM ZonesMatch == AutoSpec => []ZonesMatchCalls
<1>1. AutoInit => AutoInv
  <2> SUFFICES ASSUME AutoInit PROVE AutoInv
    OBVIOUS
  <2> DEFINE frame == [id |-> 0, binds |-> FALSE, pauses |-> FALSE]
  <2>1. frame \in Frames /\ frame.binds = FALSE /\ frame.pauses = FALSE
    BY DEF Frames
  <2> HIDE DEF frame
  <2>2. stack = <<frame>>
    BY DEF AutoInit, frame
  <2>3. stack \in Seq(Frames) /\ Len(stack) = 1 /\ stack[1] = frame
    BY <2>1, <2>2
  <2>4. AutoTypes /\ Unbound /\ BoundInOrder /\ OthersClosed
    <3>1. AutoTypes
      <4>1. << >> \in Seq(Nat)
        OBVIOUS
      <4>2. open \in [Recorders -> Seq(Nat)]
        BY <4>1 DEF AutoInit
      <4>3. Len(stack) > 0
        BY <2>3
      <4>4. QED
        BY <2>3, <4>2, <4>3 DEF AutoInit, AutoTypes
    <3>2. \A d \in 1 .. Len(stack) : stack[d] = frame
      BY <2>3
    <3>3. Unbound
      BY <2>1, <3>2 DEF AutoInit, Unbound
    <3>4. BoundInOrder /\ OthersClosed
      BY DEF AutoInit, BoundInOrder, OthersClosed
    <3>5. QED
      BY <3>1, <3>3, <3>4
  <2>5. ended.zone = ended.by
    BY DEF AutoInit
  <2>6. QED
    BY <2>4, <2>5 DEF AutoInv
<1>2. AutoInv /\ [AutoNext]_autoVars => AutoInv'
  <2> SUFFICES ASSUME AutoInv, [AutoNext]_autoVars PROVE AutoInv'
    OBVIOUS
  <2>1. CASE UNCHANGED autoVars
    <3>1. \A b, m \in Nat : Zones(auto_thread, b, m) => Zones(auto_thread, b, m)'
      BY <2>1 DEF autoVars, Zones
    <3>2. AutoTypes' /\ Unbound' /\ OthersClosed' /\ (ended.zone = ended.by)'
      BY <2>1 DEF autoVars, AutoInv, AutoTypes, Unbound, OthersClosed
    <3>3. BoundInOrder'
      BY <2>1, <3>1 DEF autoVars, AutoInv, BoundInOrder
    <3>4. QED
      BY <3>2, <3>3 DEF AutoInv
  <2>2. QED
    BY <2>1, InitKeepsZones, FinishKeepsZones, BindKeepsZones, UnbindKeepsZones,
       PauseKeepsZones, ResumeKeepsZones, CallKeepsZones, ReturnKeepsZones DEF AutoNext
<1>3. AutoInv => ZonesMatchCalls
  <2> SUFFICES ASSUME AutoInv PROVE ZonesMatchCalls
    OBVIOUS
  <2>1. /\ ended.zone = ended.by
        /\ auto_thread # None => auto_thread \in live
    BY DEF AutoInv, BoundInOrder
  <2>2. ASSUME NEW r \in Recorders, NEW z \in DOMAIN open[r]
        PROVE  \E d \in DOMAIN stack : stack[d].id = open[r][z]
    <3>1. auto_thread # None /\ r = auto_thread
      BY <2>2, AutoAssumption DEF AutoInv, AutoTypes, OthersClosed
    <3>2. PICK b \in Nat, m \in Nat : Zones(auto_thread, b, m)
      BY <3>1 DEF AutoInv, BoundInOrder
    <3>3. /\ open[r] \in Seq(Nat) /\ Len(open[r]) = m - b
          /\ DOMAIN stack = 1 .. Len(stack) /\ Len(stack) \in Nat
      BY <3>1, <3>2 DEF AutoInv, AutoTypes, Zones
    <3>4. z \in 1 .. m - b
      BY <3>3
    <3>5. open[r][z] = stack[b + z].id
      BY <3>1, <3>2, <3>4 DEF Zones
    <3>6. b + z \in 1 .. Len(stack)
      <4>1. 1 <= b /\ m <= Len(stack)
        BY <3>2 DEF Zones
      <4>2. QED
        BY <3>3, <3>4, <4>1
    <3>7. QED
      BY <3>3, <3>5, <3>6
  <2>3. QED
    BY <2>1, <2>2 DEF ZonesMatchCalls
<1>4. QED
  BY <1>1, <1>2, <1>3, PTL DEF AutoSpec

----------------------------------------------------------------------------
(* ArenaData.                                                               *)

\* A product that is not refused is not cut off.
LEMMA ProductExact ==
  ASSUME NEW a \in Nat, NEW b \in Nat \ {0}, ~MulOverflows(a, b)
  PROVE  Product(a, b) = a * b /\ a * b \in Nat
<1> USE DataAssumption
<1> DEFINE q == MemorySizeMax \div b
<1>1. q \in Nat /\ MemorySizeMax = b * q + (MemorySizeMax % b) /\ MemorySizeMax % b \in Nat
  <2>1. /\ MemorySizeMax % b \in 0 .. b - 1 /\ q \in Nat
        /\ MemorySizeMax = b * q + (MemorySizeMax % b)
    BY QuotientRemainder
  <2>2. QED
    BY <2>1
<1>2. a <= q
  BY <1>1 DEF MulOverflows
<1> HIDE DEF q
<1>3. b * a <= b * q /\ b * a \in Nat /\ b * q \in Nat
  BY <1>1, <1>2, ProductsOrdered
<1>4. a * b = b * a
  OBVIOUS
<1>5. a * b \in 0 .. MemorySizeMax
  BY <1>1, <1>3, <1>4
<1>6. \A p \in 0 .. MemorySizeMax : p % (MemorySizeMax + 1) = p
  OBVIOUS
<1>7. QED
  BY <1>5, <1>6 DEF Product

Regions == [from: Nat, size: Nat, holds: Seq(Int)]

DataTypes ==
    /\ block \in [1 .. BlockSize -> Int]
    /\ used \in Nat /\ used <= BlockSize
    /\ regions \in Seq(Regions)

\* No two allocations share a byte, and all lie before what is free.
Apart ==
    \A n \in 1 .. Len(regions) :
        /\ regions[n].from + regions[n].size <= used
        /\ \A k \in 1 .. n - 1 : regions[k].from + regions[k].size <= regions[n].from

\* Every byte of an allocation is what is expected there.
Holding ==
    \A n \in 1 .. Len(regions) :
        /\ Len(regions[n].holds) = regions[n].size
        /\ \A k \in 1 .. regions[n].size :
              regions[n].holds[k] = block[regions[n].from + k]

DataInv == DataTypes /\ Apart /\ Holding

LEMMA RegionTypes ==
  ASSUME DataTypes
  PROVE  \A n \in 1 .. Len(regions) :
            /\ regions[n] \in Regions
            /\ regions[n].from \in Nat /\ regions[n].size \in Nat
            /\ regions[n].holds \in Seq(Int)
<1>1. \A n \in 1 .. Len(regions) : regions[n] \in Regions
  BY DEF DataTypes
<1>2. QED
  BY <1>1 DEF Regions

\* What is written changes its own bytes only.
LEMMA WrittenBytes ==
  ASSUME DataTypes, NEW from \in Nat, NEW new \in Seq(Int)
  PROVE  /\ Written(block, from, new) \in [1 .. BlockSize -> Int]
         /\ \A k \in 1 .. BlockSize :
               Written(block, from, new)[k]
                 = IF k > from /\ k <= from + Len(new) THEN new[k - from] ELSE block[k]
<1>1. \A k \in 1 .. BlockSize :
         (IF k > from /\ k <= from + Len(new) THEN new[k - from] ELSE block[k]) \in Int
  <2> SUFFICES ASSUME NEW k \in 1 .. BlockSize
               PROVE  (IF k > from /\ k <= from + Len(new) THEN new[k - from]
                       ELSE block[k]) \in Int
    OBVIOUS
  <2>1. CASE k > from /\ k <= from + Len(new)
    <3>1. k - from \in 1 .. Len(new)
      BY <2>1, DataAssumption
    <3>2. QED
      BY <2>1, <3>1
  <2>2. CASE ~(k > from /\ k <= from + Len(new))
    BY <2>2 DEF DataTypes
  <2>3. QED
    BY <2>1, <2>2
<1>2. QED
  BY <1>1 DEF Written

LEMMA AllocatesExact ==
  ASSUME DataInv, NEW size \in Nat, NEW new \in Seq(Int), NEW usable \in Nat,
         NEW expects \in Seq(Int), usable <= size, Len(expects) = usable,
         \A k \in 1 .. usable :
            expects[k] = IF k <= Len(new) THEN new[k] ELSE block[used + k],
         Allocates(size, new, usable, expects)
  PROVE  DataInv'
<1> DEFINE r == [from |-> used, size |-> usable, holds |-> expects]
<1>1. /\ used + size <= BlockSize /\ used' = used + size
      /\ block' = Written(block, used, new) /\ regions' = Append(regions, r)
  BY DEF Allocates
<1>2. DataTypes /\ used \in Nat /\ used <= BlockSize /\ BlockSize \in Nat
  BY DataAssumption DEF DataInv, DataTypes
<1>3. r \in Regions /\ r.from = used /\ r.size = usable /\ r.holds = expects
  BY <1>2 DEF Regions
<1> HIDE DEF r
<1>4. /\ regions' \in Seq(Regions) /\ Len(regions') = Len(regions) + 1
      /\ \A n \in 1 .. Len(regions) : regions'[n] = regions[n]
      /\ regions'[Len(regions) + 1] = r
      /\ Len(regions) \in Nat
  BY <1>1, <1>2, <1>3, Pushed DEF DataTypes
<1>5. /\ block' \in [1 .. BlockSize -> Int]
      /\ \A k \in 1 .. BlockSize :
            block'[k] = IF k > used /\ k <= used + Len(new) THEN new[k - used] ELSE block[k]
  BY <1>1, <1>2, WrittenBytes
<1>6. DataTypes'
  BY <1>1, <1>2, <1>4, <1>5 DEF DataTypes
<1>7. ASSUME NEW n \in 1 .. Len(regions') PROVE n \in 1 .. Len(regions) \/ regions'[n] = r
  BY <1>4
<1>8. Apart'
  <2> SUFFICES ASSUME NEW n \in 1 .. Len(regions')
               PROVE  /\ regions'[n].from + regions'[n].size <= used'
                      /\ \A k \in 1 .. n - 1 :
                            regions'[k].from + regions'[k].size <= regions'[n].from
    BY DEF Apart
  <2>1. \A k \in 1 .. Len(regions) :
           regions[k].from \in Nat /\ regions[k].size \in Nat
    BY <1>2, RegionTypes
  <2>2. CASE n \in 1 .. Len(regions)
    <3>1. regions'[n] = regions[n] /\ \A k \in 1 .. n - 1 : regions'[k] = regions[k]
      <4>1. \A k \in 1 .. n - 1 : k \in 1 .. Len(regions)
        BY <1>4, <2>2
      <4>2. QED
        BY <1>4, <2>2, <4>1
    <3>2. /\ regions[n].from + regions[n].size <= used
          /\ \A k \in 1 .. n - 1 : regions[k].from + regions[k].size <= regions[n].from
      BY <2>2 DEF DataInv, Apart
    <3>3. QED
      BY <1>1, <1>2, <2>1, <2>2, <3>1, <3>2
  <2>3. CASE n = Len(regions) + 1
    <3>1. \A k \in 1 .. n - 1 :
             regions'[k] = regions[k] /\ regions[k].from + regions[k].size <= used
      BY <1>4, <2>3 DEF DataInv, Apart
    <3>2. QED
      BY <1>1, <1>2, <1>3, <1>4, <2>3, <3>1
  <2>4. QED
    BY <1>4, <2>2, <2>3
<1>9. Holding'
  <2> SUFFICES ASSUME NEW n \in 1 .. Len(regions')
               PROVE  /\ Len(regions'[n].holds) = regions'[n].size
                      /\ \A k \in 1 .. regions'[n].size :
                            regions'[n].holds[k] = block'[regions'[n].from + k]
    BY DEF Holding
  <2>1. CASE n \in 1 .. Len(regions)
    <3>1. /\ regions'[n] = regions[n] /\ regions[n].from \in Nat /\ regions[n].size \in Nat
          /\ regions[n].from + regions[n].size <= used
          /\ Len(regions[n].holds) = regions[n].size
          /\ \A k \in 1 .. regions[n].size :
                regions[n].holds[k] = block[regions[n].from + k]
      BY <1>2, <1>4, <2>1, RegionTypes DEF DataInv, Apart, Holding
    <3>2. ASSUME NEW k \in 1 .. regions[n].size
          PROVE  block'[regions[n].from + k] = block[regions[n].from + k]
      <4>1. regions[n].from + k \in 1 .. BlockSize /\ regions[n].from + k <= used
        <5>1. ASSUME NEW f \in Nat, NEW g \in Nat, f + g <= used, k \in 1 .. g
              PROVE  f + k \in 1 .. BlockSize /\ f + k <= used
          BY <1>2, <5>1
        <5>2. QED
          BY <3>1, <3>2, <5>1
      <4>2. QED
        BY <1>2, <1>5, <4>1
    <3>3. QED
      BY <3>1, <3>2
  <2>2. CASE regions'[n] = r
    <3>1. ASSUME NEW k \in 1 .. usable PROVE expects[k] = block'[used + k]
      <4>1. used + k \in 1 .. BlockSize /\ k \in Nat
        BY <1>1, <1>2
      <4>2. CASE k <= Len(new)
        <5>0. /\ (used + k) - used = k /\ used + k > used
              /\ used + k <= used + Len(new)
          BY <1>2, <4>1, <4>2
        <5>1. block'[used + k] = new[(used + k) - used] /\ (used + k) - used = k
          BY <1>5, <4>1, <5>0
        <5>2. QED
          BY <4>2, <5>1
      <4>3. CASE ~(k <= Len(new))
        <5>1. block'[used + k] = block[used + k]
          BY <1>2, <1>5, <4>1, <4>3
        <5>2. QED
          BY <4>3, <5>1
      <4>4. QED
        BY <4>2, <4>3
    <3>2. QED
      BY <1>3, <2>2, <3>1
  <2>3. QED
    BY <1>7, <2>1, <2>2
<1>10. QED
  BY <1>6, <1>8, <1>9 DEF DataInv

LEMMA FillExact ==
  ASSUME DataInv, NEW n \in 1 .. Len(regions), Fill(n)
  PROVE  DataInv'
<1> DEFINE r == regions[n]
           new == [k \in 1 .. r.size |-> Own(n)]
           u == [r EXCEPT !.holds = new]
<1>1. DataTypes /\ used \in Nat /\ used <= BlockSize /\ Len(regions) \in Nat
  BY DEF DataInv, DataTypes
<1>2. r \in Regions /\ r.from \in Nat /\ r.size \in Nat
  BY <1>1, RegionTypes
<1>3. /\ new \in Seq(Int) /\ Len(new) = r.size
      /\ \A k \in 1 .. r.size : new[k] = Own(n)
  <2>1. Own(n) \in Int
    BY <1>1 DEF Own
  <2>2. QED
    BY <1>2, <2>1
<1>4. /\ block' = Written(block, r.from, new) /\ regions' = [regions EXCEPT ![n] = u]
      /\ used' = used
  BY DEF Fill
<1> HIDE DEF new, r
<1>5. u \in Regions /\ u.from = r.from /\ u.size = r.size /\ u.holds = new
  BY <1>2, <1>3 DEF Regions
<1> HIDE DEF u
<1>6. /\ regions' \in Seq(Regions) /\ Len(regions') = Len(regions) /\ regions'[n] = u
      /\ \A k \in 1 .. Len(regions) : k # n => regions'[k] = regions[k]
  BY <1>1, <1>4, <1>5 DEF DataTypes
<1>7. /\ block' \in [1 .. BlockSize -> Int]
      /\ \A k \in 1 .. BlockSize :
            block'[k] = IF k > r.from /\ k <= r.from + r.size THEN Own(n) ELSE block[k]
  <2>1. /\ block' \in [1 .. BlockSize -> Int]
        /\ \A k \in 1 .. BlockSize :
              block'[k] = IF k > r.from /\ k <= r.from + Len(new) THEN new[k - r.from]
                          ELSE block[k]
    BY <1>1, <1>2, <1>3, <1>4, WrittenBytes
  <2>2. \A k \in 1 .. BlockSize :
           k > r.from /\ k <= r.from + r.size => new[k - r.from] = Own(n)
    BY <1>2, <1>3, DataAssumption
  <2>3. QED
    BY <1>3, <2>1, <2>2
<1>8. \A k \in 1 .. Len(regions) :
         regions'[k].from = regions[k].from /\ regions'[k].size = regions[k].size
  BY <1>5, <1>6 DEF r
<1>9. DataTypes'
  BY <1>1, <1>4, <1>6, <1>7 DEF DataTypes
<1>10. Apart'
  <2>1. \A m \in 1 .. Len(regions) : \A k \in 1 .. m - 1 : k \in 1 .. Len(regions)
    BY <1>1
  <2>2. QED
    BY <1>4, <1>6, <1>8, <2>1 DEF DataInv, Apart
<1>11. Holding'
  <2> SUFFICES ASSUME NEW m \in 1 .. Len(regions)
               PROVE  /\ Len(regions'[m].holds) = regions'[m].size
                      /\ \A k \in 1 .. regions'[m].size :
                            regions'[m].holds[k] = block'[regions'[m].from + k]
    BY <1>6 DEF Holding
  <2>1. /\ regions[m].from \in Nat /\ regions[m].size \in Nat
        /\ regions[m].from + regions[m].size <= used
    BY <1>1, RegionTypes DEF DataInv, Apart
  <2>2. ASSUME NEW k \in 1 .. regions[m].size
        PROVE  regions[m].from + k \in 1 .. BlockSize /\ k \in Nat
    <3>1. ASSUME NEW f \in Nat, NEW g \in Nat, f + g <= used, k \in 1 .. g
          PROVE  f + k \in 1 .. BlockSize /\ k \in Nat
      BY <1>1, <3>1, DataAssumption
    <3>2. QED
      BY <2>1, <2>2, <3>1
  <2>3. CASE m = n
    <3>1. ASSUME NEW k \in 1 .. r.size PROVE new[k] = block'[r.from + k]
      <4>1. r.from + k \in 1 .. BlockSize
        BY <2>2, <2>3 DEF r
      <4>2. r.from + k > r.from /\ r.from + k <= r.from + r.size
        BY <1>2
      <4>3. QED
        BY <1>3, <1>7, <4>1, <4>2
    <3>2. QED
      BY <1>3, <1>5, <1>6, <2>3, <3>1
  <2>4. CASE m # n
    <3>1. /\ regions'[m] = regions[m] /\ Len(regions[m].holds) = regions[m].size
          /\ \A k \in 1 .. regions[m].size :
                regions[m].holds[k] = block[regions[m].from + k]
      BY <1>6, <2>4 DEF DataInv, Holding
    <3>2. \/ regions[m].from + regions[m].size <= r.from
          \/ r.from + r.size <= regions[m].from
      <4>1. m \in 1 .. n - 1 \/ n \in 1 .. m - 1
        BY <1>1, <2>4
      <4>2. QED
        BY <4>1 DEF DataInv, Apart, r
    <3>3. ASSUME NEW k \in 1 .. regions[m].size
          PROVE  block'[regions[m].from + k] = block[regions[m].from + k]
      <4>1. regions[m].from + k \in 1 .. BlockSize
        BY <2>2
      <4>2. ~(regions[m].from + k > r.from /\ regions[m].from + k <= r.from + r.size)
        BY <1>2, <2>1, <3>2
      <4>3. QED
        BY <1>7, <4>1, <4>2
    <3>4. QED
      BY <3>1, <3>3
  <2>5. QED
    BY <2>3, <2>4
<1>12. QED
  BY <1>9, <1>10, <1>11 DEF DataInv

LEMMA RewindExact ==
  ASSUME DataInv, NEW n \in 1 .. Len(regions), RewindTo(n)
  PROVE  DataInv'
<1> DEFINE m == n + 1
<1>1. /\ m \in 1 .. Len(regions) /\ used' = regions[m].from
      /\ regions' = SubSeq(regions, 1, m - 1) /\ block' = block
  BY DEF RewindTo, DataInv, DataTypes
<1>2. DataTypes /\ used \in Nat /\ used <= BlockSize /\ Len(regions) \in Nat /\ m \in Nat
  BY <1>1 DEF DataInv, DataTypes
<1>3. regions[m].from \in Nat /\ regions[m].size \in Nat
  BY <1>1, <1>2, RegionTypes
<1> HIDE DEF m
<1>4. /\ regions' \in Seq(Regions) /\ Len(regions') = m - 1
      /\ \A k \in 1 .. m - 1 : regions'[k] = regions[k]
  BY <1>1, <1>2, Cut DEF DataTypes
<1>5. regions[m].from + regions[m].size <= used
  BY <1>1 DEF DataInv, Apart
<1>6. DataTypes'
  <2>1. regions[m].from \in Nat /\ regions[m].from <= BlockSize
    <3>1. \A a, b, c, d \in Nat : a + b <= c /\ c <= d => a <= d
      OBVIOUS
    <3>2. BlockSize \in Nat
      BY DataAssumption
    <3> QED
      BY <3>1, <3>2, <1>2, <1>3, <1>5, Zenon
  <2>2. used' \in Nat /\ used' <= BlockSize
    BY <2>1, <1>1, Zenon
  <2>3. block' \in [1 .. BlockSize -> Int]
    BY <1>1, <1>2, Zenon DEF DataTypes
  <2> QED
    BY <2>2, <2>3, <1>4, Zenon DEF DataTypes
<1>7. \A k \in 1 .. m - 1 : k \in 1 .. Len(regions)
  BY <1>1, <1>2
<1>8. Apart'
  <2> SUFFICES ASSUME NEW i \in 1 .. m - 1
               PROVE  /\ regions'[i].from + regions'[i].size <= used'
                      /\ \A k \in 1 .. i - 1 :
                            regions'[k].from + regions'[k].size <= regions'[i].from
    BY <1>4 DEF Apart
  <2>1. \A k \in 1 .. i - 1 : k \in 1 .. m - 1
    BY <1>2
  <2>2. regions[i].from + regions[i].size <= regions[m].from
    BY <1>1 DEF DataInv, Apart
  <2>3. \A k \in 1 .. i - 1 : regions[k].from + regions[k].size <= regions[i].from
    BY <1>7 DEF DataInv, Apart
  <2>4. QED
    BY <1>1, <1>4, <2>1, <2>2, <2>3
<1>9. Holding'
  BY <1>1, <1>4, <1>7 DEF DataInv, Holding
<1>10. QED
  BY <1>6, <1>8, <1>9 DEF DataInv

\* Whatever sizes are asked for and in whatever order memory is allocated, written and
\* given back, every allocation has room for its use and holds what its user put there.
THEOREM ArenaHelpersExact == DataSpec => []HelperExact
<1>1. DataInit => DataInv
  <2> SUFFICES ASSUME DataInit PROVE DataInv
    OBVIOUS
  <2>1. Len(regions) = 0 /\ regions \in Seq(Regions)
    BY DEF DataInit
  <2>2. block \in [1 .. BlockSize -> Int] /\ used = 0
    BY DEF DataInit, Unwritten
  <2>3. QED
    BY <2>1, <2>2, DataAssumption DEF DataInv, DataTypes, Apart, Holding
<1>2. DataInv /\ [DataNext]_dataVars => DataInv'
  <2> SUFFICES ASSUME DataInv, [DataNext]_dataVars PROVE DataInv'
    OBVIOUS
  <2>1. DataTypes /\ used \in Nat /\ BlockSize \in Nat
    BY DataAssumption DEF DataInv, DataTypes
  <2>2. ASSUME NEW size \in Nat, used + size <= BlockSize
        PROVE  /\ Read(block, used, size) \in Seq(Int) /\ Len(Read(block, used, size)) = size
               /\ \A k \in 1 .. size : Read(block, used, size)[k] = block[used + k]
    <3>1. \A k \in 1 .. size : used + k \in 1 .. BlockSize /\ used + k <= BlockSize
      BY <2>1, <2>2
    <3>2. \A k \in 1 .. size : block[used + k] \in Int
      BY <2>1, <3>1 DEF DataTypes
    <3>3. Read(block, used, size) = [k \in 1 .. size |-> block[used + k]]
      BY <3>1 DEF Read
    <3>4. QED
      BY <3>2, <3>3
  <2>3. ASSUME NEW size \in Nat
        PROVE  /\ Zeros(size) \in Seq(Int) /\ Len(Zeros(size)) = size
               /\ \A k \in 1 .. size : Zeros(size)[k] = 0
    BY DEF Zeros
  <2>4. << >> \in Seq(Int) /\ Len(<< >>) = 0
    OBVIOUS
  <2>5. ASSUME NEW size \in Nat, Allocates(size, << >>, size, Read(block, used, size))
        PROVE  DataInv'
    <3>1. used + size <= BlockSize
      BY <2>5 DEF Allocates
    <3> DEFINE e == Read(block, used, size)
               none == << >>
    <3>2. /\ e \in Seq(Int) /\ Len(e) = size
          /\ \A k \in 1 .. size : e[k] = block[used + k]
      BY <2>2, <3>1
    <3>3. Allocates(size, none, size, e) /\ none \in Seq(Int) /\ Len(none) = 0
      BY <2>4, <2>5
    <3> HIDE DEF e, none
    <3>4. \A k \in 1 .. size : e[k] = IF k <= Len(none) THEN none[k] ELSE block[used + k]
      BY <3>2, <3>3
    <3>5. size <= size
      OBVIOUS
    <3>6. QED
      BY <3>2, <3>3, <3>4, <3>5, AllocatesExact, Zenon
  <2>6. ASSUME NEW size \in Nat, Allocates(size, Zeros(size), size, Zeros(size))
        PROVE  DataInv'
    <3> DEFINE e == Zeros(size)
    <3>1. e \in Seq(Int) /\ Len(e) = size
      BY <2>3
    <3>2. Allocates(size, e, size, e)
      BY <2>6
    <3> HIDE DEF e
    <3>3. \A k \in 1 .. size : e[k] = IF k <= Len(e) THEN e[k] ELSE block[used + k]
      BY <3>1
    <3>4. QED
      BY <3>1, <3>2, <3>3, AllocatesExact
  <2>7. ASSUME NEW size \in Sizes, Alloc(size) \/ AllocZero(size)
        PROVE  DataInv'
    BY <2>5, <2>6, <2>7, DataAssumption DEF Alloc, AllocZero
  <2>8. ASSUME NEW count \in Sizes, NEW size \in Sizes,
               AllocArray(count, size) \/ AllocArrayZero(count, size)
        PROVE  DataInv'
    <3>1. count \in Nat /\ size \in Nat \ {0} /\ ~MulOverflows(count, size)
      BY <2>8, DataAssumption DEF AllocArray, AllocArrayZero
    <3> DEFINE p == count * size
    <3>2. Product(count, size) = p /\ p \in Nat
      BY <3>1, ProductExact
    <3>3. \/ Allocates(Product(count, size), << >>, p, Read(block, used, p))
          \/ Allocates(Product(count, size), Zeros(Product(count, size)), p, Zeros(p))
      BY <2>8 DEF AllocArray, AllocArrayZero
    <3> HIDE DEF p
    <3>4. QED
      BY <2>5, <2>6, <3>2, <3>3
  <2>9. ASSUME NEW t \in Strings, Strdup(t)
        PROVE  DataInv'
    <3> DEFINE e == Append(t, 0)
    <3>1. t \in Seq(Int)
      BY DataAssumption
    <3>2. e \in Seq(Int) /\ Len(e) = Len(t) + 1 /\ Len(t) \in Nat
      BY <3>1
    <3>3. Allocates(Len(t) + 1, e, Len(t) + 1, e)
      BY <2>9 DEF Strdup, CopySize
    <3> HIDE DEF e
    <3>4. \A k \in 1 .. Len(t) + 1 : e[k] = IF k <= Len(e) THEN e[k] ELSE block[used + k]
      BY <3>2
    <3>5. QED
      BY <3>2, <3>3, <3>4, AllocatesExact
  <2>10. ASSUME NEW n \in DOMAIN regions, Fill(n) \/ RewindTo(n)
         PROVE  DataInv'
    <3>1. n \in 1 .. Len(regions)
      BY <2>1 DEF DataTypes
    <3>2. QED
      BY <2>10, <3>1, FillExact, RewindExact
  <2>11. CASE UNCHANGED dataVars
    <3>1. block' = block /\ used' = used /\ regions' = regions
      BY <2>11 DEF dataVars
    <3>2. DataTypes' /\ Apart'
      BY <3>1 DEF DataInv, DataTypes, Apart
    <3>3. Holding'
      BY <3>1 DEF DataInv, Holding
    <3>4. QED
      BY <3>2, <3>3 DEF DataInv
  <2>12. QED
    BY <2>7, <2>8, <2>9, <2>10, <2>11 DEF DataNext
<1>3. DataInv => HelperExact
  <2> SUFFICES ASSUME DataInv, NEW n \in DOMAIN regions
               PROVE  /\ regions[n].from + regions[n].size
                           <= IF n < Len(regions) THEN regions[n + 1].from ELSE used
                      /\ Read(block, regions[n].from, regions[n].size) = regions[n].holds
    BY DEF HelperExact
  <2>1. /\ DataTypes /\ used \in Nat /\ used <= BlockSize /\ BlockSize \in Nat
        /\ DOMAIN regions = 1 .. Len(regions) /\ Len(regions) \in Nat
    BY DataAssumption DEF DataInv, DataTypes
  <2> DEFINE f == regions[n].from
             z == regions[n].size
             h == regions[n].holds
  <2>2. /\ f \in Nat /\ z \in Nat /\ h \in Seq(Int) /\ f + z <= used
        /\ Len(h) = z /\ \A k \in 1 .. z : h[k] = block[f + k]
    BY <2>1, RegionTypes DEF DataInv, Apart, Holding
  <2>3. n < Len(regions) => f + z <= regions[n + 1].from
    <3>1. n < Len(regions) => n + 1 \in 1 .. Len(regions) /\ n \in 1 .. (n + 1) - 1
      BY <2>1
    <3>2. QED
      BY <3>1 DEF DataInv, Apart
  <2> HIDE DEF f, z, h
  <2>4. Read(block, f, z) = h
    <3>1. \A k \in 1 .. z : f + k <= BlockSize
      BY <2>1, <2>2
    <3>2. Read(block, f, z) = [k \in 1 .. z |-> h[k]]
      BY <2>2, <3>1 DEF Read
    <3>3. h = [k \in 1 .. z |-> h[k]]
      BY <2>2
    <3>4. QED
      BY <3>2, <3>3
  <2>5. QED
    BY <2>2, <2>3, <2>4 DEF f, z, h
<1>4. QED
  BY <1>1, <1>2, <1>3, PTL DEF DataSpec

----------------------------------------------------------------------------
(* StringView.                                                              *)

Views == [offset: Nat, size: Nat]

\* The view lies in the text; what was taken on its left is what is before it, and what
\* was taken on its right is what is behind it.
ViewInv ==
    /\ text \in Seq(Characters) /\ view \in Views
    /\ view.offset + view.size <= Len(text)
    /\ left = SubSeq(text, 1, view.offset)
    /\ right = SubSeq(text, view.offset + view.size + 1, Len(text))

LEMMA ViewTypes ==
  ASSUME ViewInv
  PROVE  view.offset \in Nat /\ view.size \in Nat /\ Len(text) \in Nat
BY DEF ViewInv, Views

\* A range of n from k on.
LEMMA RangeOf ==
  ASSUME NEW T, NEW s \in Seq(T), NEW k \in Nat, NEW n \in Nat, k + n <= Len(s)
  PROVE  /\ SubSeq(s, k + 1, k + n) \in Seq(T) /\ Len(SubSeq(s, k + 1, k + n)) = n
         /\ \A i \in 1 .. n : SubSeq(s, k + 1, k + n)[i] = s[k + i]
OBVIOUS

\* A slice that fits into its view is not clamped.
LEMMA SliceFits ==
  ASSUME NEW v \in Views, NEW o \in Nat, NEW n \in Nat, o + n <= v.size
  PROVE  /\ Slice(v, o, n) = [offset |-> v.offset + o, size |-> n]
         /\ Slice(v, o, n).offset = v.offset + o /\ Slice(v, o, n).size = n
         /\ Slice(v, o, n) \in Views
<1>1. v.offset \in Nat /\ v.size \in Nat
  BY DEF Views
<1>2. AtMost(o, v.size) = o /\ AtMost(n, v.size - o) = n
  BY <1>1 DEF AtMost
<1>3. Slice(v, o, n) = [offset |-> v.offset + o, size |-> n]
  BY <1>2 DEF Slice
<1>4. QED
  BY <1>1, <1>3 DEF Views

\* A range that is asked for at an end of a view.
LEMMA TakenAtEnds ==
  ASSUME NEW v \in Views, NEW n \in Nat
  PROVE  /\ AtMost(n, v.size) \in Nat /\ AtMost(n, v.size) <= v.size
         /\ TakeLeft(v, n) = [offset |-> v.offset, size |-> AtMost(n, v.size)]
         /\ TakeRight(v, n) = [offset |-> v.offset + v.size - AtMost(n, v.size),
                               size |-> AtMost(n, v.size)]
<1> DEFINE k == AtMost(n, v.size)
<1>1. v.offset \in Nat /\ v.size \in Nat
  BY DEF Views
<1>2. k \in Nat /\ k <= v.size
  BY <1>1 DEF AtMost
<1>3. TakeLeft(v, n) = [offset |-> v.offset, size |-> k]
  <2>1. AtMost(0, v.size) = 0 /\ v.size - 0 = v.size /\ v.offset + 0 = v.offset
    BY <1>1 DEF AtMost
  <2>2. QED
    BY <2>1 DEF TakeLeft, Slice
<1> HIDE DEF k
<1>4. Slice(v, v.size - k, k) = [offset |-> v.offset + (v.size - k), size |-> k]
  <2>1. v.size - k \in Nat /\ (v.size - k) + k <= v.size
    BY <1>1, <1>2
  <2>2. QED
    BY <1>2, <2>1, SliceFits
<1>5. TakeRight(v, n) = [offset |-> v.offset + v.size - k, size |-> k]
  <2>1. v.offset + (v.size - k) = v.offset + v.size - k
    BY <1>1, <1>2
  <2>2. QED
    BY <1>4, <2>1 DEF TakeRight, k
<1>6. QED
  BY <1>2, <1>3, <1>5 DEF k

\* The ends of the view move inwards over what is taken.
LEMMA EndsMove ==
  ASSUME ViewInv, NEW a \in Nat, NEW b \in Nat, a + b <= view.size,
         text' = text, view' = [offset |-> view.offset + a, size |-> view.size - a - b],
         left' = left \o SubSeq(text, view.offset + 1, view.offset + a),
         right' = SubSeq(text, (view.offset + view.size - b) + 1, view.offset + view.size)
                    \o right
  PROVE  ViewInv'
<1> DEFINE o == view.offset
           z == view.size
           e == o + z
<1>0. o \in Nat /\ z \in Nat /\ Len(text) \in Nat /\ o + z <= Len(text)
  BY ViewTypes DEF ViewInv
<1>1. /\ e \in Nat /\ o + a \in Nat /\ e - b \in Nat /\ o + a <= e - b /\ e <= Len(text)
      /\ (o + a) + (z - a - b) = e - b /\ z - a - b \in Nat
  <2>1. a + b <= z
    OBVIOUS
  <2> HIDE DEF o, z
  <2>2. QED
    BY <1>0, <2>1
<1>2. /\ text \in Seq(Characters)
      /\ left = SubSeq(text, 1, o) /\ right = SubSeq(text, e + 1, Len(text))
  BY DEF ViewInv
<1>3. view' \in Views /\ view'.offset = o + a /\ view'.offset + view'.size = e - b
  <2>1. view' = [offset |-> o + a, size |-> z - a - b]
    OBVIOUS
  <2> HIDE DEF o, z, e
  <2>2. QED
    BY <1>1, <2>1 DEF Views
<1> HIDE DEF o, z, e
<1>4. left' = SubSeq(text, 1, o + a)
  <2>1. left' = SubSeq(text, 1, o) \o SubSeq(text, o + 1, o + a)
    BY <1>2 DEF o, z, e
  <2>2. 1 \in 1 .. Len(text) + 1 /\ o \in 1 - 1 .. Len(text) /\ o + a \in o .. Len(text)
    BY <1>0, <1>1
  <2>3. QED
    BY <1>2, <2>1, <2>2, ConcatAdjacentSubSeq
<1>5. right' = SubSeq(text, (e - b) + 1, Len(text))
  <2>1. right' = SubSeq(text, (e - b) + 1, e) \o SubSeq(text, e + 1, Len(text))
    <3>1. o + z - b = e - b
      BY <1>0 DEF e
    <3>2. right' = SubSeq(text, (o + z - b) + 1, o + z) \o right
      BY DEF o, z
    <3>3. QED
      BY <1>2, <3>1, <3>2 DEF e
  <2>2. /\ (e - b) + 1 \in 1 .. Len(text) + 1 /\ e \in ((e - b) + 1) - 1 .. Len(text)
        /\ Len(text) \in e .. Len(text)
    BY <1>0, <1>1
  <2>3. QED
    BY <1>2, <2>1, <2>2, ConcatAdjacentSubSeq
<1>6. ViewInv'
  <2>1. view'.offset + view'.size <= Len(text)
    BY <1>0, <1>1, <1>3
  <2>2. text' = text
    OBVIOUS
  <2>3. QED
    BY <1>2, <1>3, <1>4, <1>5, <2>1, <2>2 DEF ViewInv
<1>7. QED
  BY <1>6

\* Taking nothing.
LEMMA NothingTaken ==
  ASSUME ViewInv
  PROVE  /\ left = left \o SubSeq(text, view.offset + 1, view.offset + 0)
         /\ right = SubSeq(text, (view.offset + view.size - 0) + 1, view.offset + view.size)
                      \o right
         /\ left \in Seq(Characters) /\ right \in Seq(Characters)
<1>1. view.offset \in Nat /\ view.size \in Nat /\ Len(text) \in Nat
  BY ViewTypes
<1>2. left \in Seq(Characters) /\ right \in Seq(Characters)
  <2> DEFINE o == view.offset
             e == view.offset + view.size
             n == Len(text)
  <2>0. text \in Seq(Characters) /\ o \in Nat /\ e \in Nat /\ n \in Nat /\ o <= e /\ e <= n
    BY <1>1 DEF ViewInv
  <2>1. left = SubSeq(text, 1, o) /\ right = SubSeq(text, e + 1, n)
    BY DEF ViewInv
  <2> HIDE DEF o, e, n
  <2>2. n - e \in Nat /\ 0 + o = o /\ 0 + 1 = 1 /\ o <= n /\ e + (n - e) = n
    BY <2>0
  <2>3. left = SubSeq(text, 0 + 1, 0 + o) /\ right = SubSeq(text, e + 1, e + (n - e))
    BY <2>1, <2>2
  <2>4. SubSeq(text, 0 + 1, 0 + o) \in Seq(Characters)
    BY <2>0, <2>2, RangeOf DEF n
  <2>5. SubSeq(text, e + 1, e + (n - e)) \in Seq(Characters)
    BY <2>0, <2>2, RangeOf DEF n
  <2>6. QED
    BY <2>3, <2>4, <2>5
<1>3. /\ SubSeq(text, view.offset + 1, view.offset + 0) = << >>
      /\ SubSeq(text, (view.offset + view.size - 0) + 1, view.offset + view.size) = << >>
  BY <1>1, SubSeqEmpty
<1>4. QED
  BY <1>2, <1>3, ConcatEmptySeq

LEMMA NothingIsLost ==
  ASSUME ViewInv
  PROVE  NothingLost
<1> DEFINE o == view.offset
           e == view.offset + view.size
<1>1. o \in Nat /\ e \in Nat /\ Len(text) \in Nat /\ o <= e /\ e <= Len(text)
  BY ViewTypes DEF ViewInv
<1>2. /\ text \in Seq(Characters)
      /\ left = SubSeq(text, 1, o) /\ right = SubSeq(text, e + 1, Len(text))
      /\ Bytes(view) = SubSeq(text, o + 1, e)
  BY DEF ViewInv, Bytes
<1> HIDE DEF o, e
<1>3. SubSeq(text, 1, o) \o SubSeq(text, o + 1, e) = SubSeq(text, 1, e)
  <2>1. 1 \in 1 .. Len(text) + 1 /\ o \in 1 - 1 .. Len(text) /\ e \in o .. Len(text)
    BY <1>1
  <2>2. QED
    BY <1>2, <2>1, ConcatAdjacentSubSeq
<1>4. SubSeq(text, 1, e) \o SubSeq(text, e + 1, Len(text)) = SubSeq(text, 1, Len(text))
  <2>1. 1 \in 1 .. Len(text) + 1 /\ e \in 1 - 1 .. Len(text) /\ Len(text) \in e .. Len(text)
    BY <1>1
  <2>2. QED
    BY <1>2, <2>1, ConcatAdjacentSubSeq
<1>5. SubSeq(text, 1, Len(text)) = text
  BY <1>2, SubSeqFull
<1>6. QED
  BY <1>2, <1>3, <1>4, <1>5 DEF NothingLost

\* Of natural numbers one is the least: of the intervals up to them one is in no other.
LEMMA LeastNatural ==
  ASSUME NEW T \in SUBSET Nat, T # {}
  PROVE  Least(T) \in T /\ \A y \in T : Least(T) <= y
<1> DEFINE R == StrictSubsetOrdering(Nat)
           F == FiniteSubsetsOf(Nat)
           U == {0 .. x : x \in T}
<1>1. IsWellFoundedOn(R, F)
  BY FS_StrictSubsetOrderingWellFounded
<1>2. U \subseteq F
  <2> SUFFICES ASSUME NEW x \in T PROVE 0 .. x \in F
    OBVIOUS
  <2>1. IsFiniteSet(0 .. x)
    BY FS_Interval
  <2> QED
    BY <2>1 DEF FiniteSubsetsOf
<1>3. PICK u \in U : \A k \in U : ~(<<k, u>> \in R)
  <2>1. U # {}
    OBVIOUS
  <2> HIDE DEF R, F, U
  <2> QED
    BY <1>1, <1>2, <2>1, WFMin
<1>4. PICK x \in T : u = 0 .. x
  OBVIOUS
<1>5. ASSUME NEW y \in T, y < x PROVE FALSE
  <2>1. <<0 .. y, 0 .. x>> \in R
    BY <1>5 DEF StrictSubsetOrdering
  <2> QED
    BY <2>1, <1>3, <1>4
<1>6. \E k \in T : \A y \in T : k <= y
  BY <1>5
<1>7. QED
  BY <1>6 DEF Least

LEMMA BlanksFit ==
  ASSUME NEW v \in Views
  PROVE  LeadingBlanks(v) \in 0 .. v.size /\ TrailingBlanks(v) \in 0 .. v.size
<1>1. v.size \in Nat
  BY DEF Views
<1>2. \A T \in SUBSET Nat : T # {} => Least(T) \in T
  BY LeastNatural
<1> DEFINE blanks == {v.size} \cup {i \in 0 .. v.size - 1 : ~Blank(v, i)}
           behind == {v.size} \cup {i \in 0 .. v.size - 1 : ~Blank(v, v.size - 1 - i)}
<1>3. /\ blanks \in SUBSET Nat /\ blanks # {} /\ blanks \subseteq 0 .. v.size
      /\ behind \in SUBSET Nat /\ behind # {} /\ behind \subseteq 0 .. v.size
  BY <1>1
<1> HIDE DEF blanks, behind
<1>4. Least(blanks) \in 0 .. v.size /\ Least(behind) \in 0 .. v.size
  BY <1>2, <1>3
<1>5. QED
  BY <1>4 DEF LeadingBlanks, TrailingBlanks, blanks, behind

LEMMA ChopLeftKeeps ==
  ASSUME ViewInv, NEW n \in Nat, ChopLeft(n)
  PROVE  ViewInv'
<1> DEFINE k == AtMost(n, view.size)
<1>1. view \in Views /\ view.offset \in Nat /\ view.size \in Nat
  BY ViewTypes DEF ViewInv
<1>2. /\ k \in Nat /\ k <= view.size
      /\ TakeLeft(view, n) = [offset |-> view.offset, size |-> k]
  BY <1>1, TakenAtEnds
<1> HIDE DEF k
<1>3. piece' = [offset |-> view.offset, size |-> k] /\ piece'.offset = view.offset
      /\ piece'.size = k
  BY <1>2 DEF ChopLeft
<1>4. view' = [offset |-> view.offset + k, size |-> view.size - k]
  <2>1. view.size - k \in Nat /\ k + (view.size - k) <= view.size
    BY <1>1, <1>2
  <2>2. view' = Slice(view, k, view.size - k)
    BY <1>3 DEF ChopLeft
  <2>3. QED
    BY <1>1, <1>2, <2>1, <2>2, SliceFits
<1>5. view' = [offset |-> view.offset + k, size |-> view.size - k - 0]
  <2>1. view.size - k - 0 = view.size - k
    BY <1>1, <1>2
  <2>2. QED
    BY <1>4, <2>1
<1>6. left' = left \o SubSeq(text, view.offset + 1, view.offset + k)
  BY <1>3 DEF ChopLeft, Bytes
<1>7. right' = SubSeq(text, (view.offset + view.size - 0) + 1, view.offset + view.size)
                 \o right
  BY NothingTaken DEF ChopLeft
<1>8. k + 0 <= view.size /\ text' = text
  BY <1>1, <1>2 DEF ChopLeft
<1>9. QED
  BY <1>2, <1>5, <1>6, <1>7, <1>8, EndsMove

LEMMA ChopRightKeeps ==
  ASSUME ViewInv, NEW n \in Nat, ChopRight(n)
  PROVE  ViewInv'
<1> DEFINE k == AtMost(n, view.size)
<1>1. view \in Views /\ view.offset \in Nat /\ view.size \in Nat
  BY ViewTypes DEF ViewInv
<1>2. /\ k \in Nat /\ k <= view.size
      /\ TakeRight(view, n) = [offset |-> view.offset + view.size - k, size |-> k]
  BY <1>1, TakenAtEnds
<1> HIDE DEF k
<1>3. piece'.offset = view.offset + view.size - k /\ piece'.size = k
  BY <1>2 DEF ChopRight
<1>4. view' = [offset |-> view.offset + 0, size |-> view.size - 0 - k]
  <2>1. view.offset + 0 = view.offset /\ view.size - 0 - k = view.size - k
    BY <1>1, <1>2
  <2>2. view = [offset |-> view.offset, size |-> view.size]
    BY <1>1 DEF Views
  <2>3. view' = [view EXCEPT !.size = view.size - k]
    BY <1>3 DEF ChopRight
  <2>4. view' = [offset |-> view.offset, size |-> view.size - k]
    BY <2>2, <2>3
  <2>5. QED
    BY <2>1, <2>4
<1>5. right' = SubSeq(text, (view.offset + view.size - k) + 1, view.offset + view.size)
                 \o right
  <2>1. (view.offset + view.size - k) + k = view.offset + view.size
    BY <1>1, <1>2
  <2>2. QED
    BY <1>3, <2>1 DEF ChopRight, Bytes
<1>6. left' = left \o SubSeq(text, view.offset + 1, view.offset + 0)
  BY NothingTaken DEF ChopRight
<1>7. 0 + k <= view.size /\ text' = text
  BY <1>1, <1>2 DEF ChopRight
<1>8. QED
  BY <1>2, <1>4, <1>5, <1>6, <1>7, EndsMove

LEMMA TrimKeeps ==
  ASSUME ViewInv, NEW skip \in Nat, NEW cut \in Nat, skip + cut <= view.size,
         Trim(skip, cut)
  PROVE  ViewInv'
<1>1. view \in Views /\ view.offset \in Nat /\ view.size \in Nat
  BY ViewTypes DEF ViewInv
<1>2. AtMost(skip, view.size) = skip /\ AtMost(cut, view.size) = cut
  BY <1>1 DEF AtMost
<1>3. /\ TakeLeft(view, skip) = [offset |-> view.offset, size |-> skip]
      /\ TakeRight(view, cut) = [offset |-> view.offset + view.size - cut, size |-> cut]
  BY <1>1, <1>2, TakenAtEnds
<1>4. view' = [offset |-> view.offset + skip, size |-> view.size - skip - cut]
  <2>1. view.size - skip - cut \in Nat /\ skip + (view.size - skip - cut) <= view.size
    BY <1>1
  <2>2. QED
    BY <1>1, <2>1, SliceFits DEF Trim
<1>5. left' = left \o SubSeq(text, view.offset + 1, view.offset + skip)
  <2>1. TakeLeft(view, skip).offset = view.offset /\ TakeLeft(view, skip).size = skip
    BY <1>3
  <2>2. QED
    BY <2>1, Zenon DEF Trim, Bytes
<1>6. right' = SubSeq(text, (view.offset + view.size - cut) + 1, view.offset + view.size)
                 \o right
  <2>1. (view.offset + view.size - cut) + cut = view.offset + view.size
    BY <1>1
  <2>2. /\ TakeRight(view, cut).offset = view.offset + view.size - cut
        /\ TakeRight(view, cut).size = cut
    BY <1>3
  <2>3. QED
    BY <2>1, <2>2, Zenon DEF Trim, Bytes
<1>7. QED
  BY <1>4, <1>5, <1>6, EndsMove DEF Trim

\* A delimiter that is found lies in the view, and nothing before it is one.
LEMMA ChopKeeps ==
  ASSUME ViewInv, NEW d \in Delimiters, Chop(d)
  PROVE  /\ ViewInv'
         /\ \A i \in 0 .. piece'.size - Len(d) : ~StartsAt(Bytes(piece'), i, d)
<1> DEFINE where == Finds(view, d)
           o == view.offset
           z == view.size
<1>1. /\ view \in Views /\ o \in Nat /\ z \in Nat /\ o + z <= Len(text)
      /\ Len(text) \in Nat /\ text \in Seq(Characters)
  BY ViewTypes DEF ViewInv
<1>2. d \in Seq(Characters) /\ Len(d) \in Nat \ {0}
  <2>1. d \in TextsUpTo(MaxDelimiter) /\ d # << >>
    BY DEF Delimiters
  <2>2. d \in Seq(Characters)
    BY <2>1, ViewAssumption DEF TextsUpTo
  <2>3. QED
    BY <2>1, <2>2, EmptySeq
<1>3. /\ piece' = IF where = {} THEN view ELSE Before(view, Least(where))
      /\ view' = IF where = {} THEN Slice(view, z, 0) ELSE After(view, Least(where), d)
      /\ left' = left \o Bytes(piece') \o (IF where = {} THEN << >> ELSE d)
      /\ text' = text /\ right' = right
  BY DEF Chop
<1>4. right' = SubSeq(text, (o + z - 0) + 1, o + z) \o right
  BY <1>3, NothingTaken
<1>5. /\ Bytes(view) = SubSeq(text, o + 1, o + z) /\ Bytes(view) \in Seq(Characters)
      /\ Len(Bytes(view)) = z
      /\ \A k \in 1 .. z : Bytes(view)[k] = text[o + k]
  <2>1. \A k \in o + 1 .. o + z : text[k] \in Characters
    BY <1>1
  <2> DEFINE t == SubSeq(text, o + 1, o + z)
  <2>2. o + 1 \in Int /\ o + z \in Int
    BY <1>1
  <2>3. /\ t \in Seq(Characters)
        /\ Len(t) = IF o + 1 <= o + z THEN (o + z) - (o + 1) + 1 ELSE 0
        /\ \A k \in 1 .. (o + z) - (o + 1) + 1 : t[k] = text[(o + 1) + k - 1]
    BY <2>1, <2>2, SubSeqProperties
  <2> HIDE DEF t
  <2>4. (o + z) - (o + 1) + 1 = z /\ \A k \in 1 .. z : (o + 1) + k - 1 = o + k
    BY <1>1
  <2>5. Len(t) = z /\ \A k \in 1 .. z : t[k] = text[o + k]
    BY <1>1, <2>3, <2>4
  <2>6. Bytes(view) = t
    BY DEF Bytes, t
  <2>7. QED
    BY <2>3, <2>5, <2>6 DEF t
<1>0. \A t \in Seq(Characters) : \A k, n \in Nat : k + n <= Len(t) =>
         /\ SubSeq(t, k + 1, k + n) \in Seq(Characters)
         /\ Len(SubSeq(t, k + 1, k + n)) = n
         /\ \A i \in 1 .. n : SubSeq(t, k + 1, k + n)[i] = t[k + i]
  BY RangeOf
<1> HIDE DEF where
<1>6. where \in SUBSET Nat /\ \A i : i \in where <=> /\ i \in 0 .. z - Len(d)
                                                    /\ StartsAt(Bytes(view), i, d)
  BY <1>1, <1>2 DEF where, Finds
<1>7. CASE where = {}
  <2>1. piece' = view /\ view' = Slice(view, z, 0)
    BY <1>3, <1>7
  <2>2. view' = [offset |-> o + z, size |-> z - z - 0]
    <3>1. Slice(view, z, 0) = [offset |-> o + z, size |-> 0]
      BY <1>1, SliceFits
    <3>2. z - z - 0 = 0
      BY <1>1
    <3>3. QED
      BY <2>1, <3>1, <3>2
  <2>3. left' = left \o SubSeq(text, o + 1, o + z)
    <3>1. left' = (left \o Bytes(view)) \o << >>
      BY <1>3, <1>7, <2>1
    <3>2. left \o Bytes(view) \in Seq(Characters)
      BY <1>5, NothingTaken, ConcatProperties
    <3>3. QED
      BY <1>5, <3>1, <3>2, ConcatEmptySeq
  <2>4. ViewInv'
    <3>1. z + 0 <= z
      BY <1>1
    <3>2. QED
      BY <1>1, <1>3, <1>4, <2>2, <2>3, <3>1, EndsMove
  <2>5. \A i \in 0 .. piece'.size - Len(d) : ~StartsAt(Bytes(piece'), i, d)
    BY <1>6, <1>7, <2>1
  <2>6. QED
    BY <2>4, <2>5
<1>8. CASE where # {}
  <2> DEFINE q == Least(where)
  <2>1. /\ q \in Nat /\ q + Len(d) <= z /\ StartsAt(Bytes(view), q, d)
        /\ \A i \in where : q <= i
    <3>1. q \in where /\ \A i \in where : q <= i
      BY <1>6, <1>8, LeastNatural
    <3>2. QED
      BY <1>1, <1>2, <1>6, <3>1
  <2>2. /\ piece' = Before(view, q) /\ view' = After(view, q, d)
        /\ left' = (left \o Bytes(piece')) \o d
    BY <1>3, <1>8
  <2> HIDE DEF q
  <2>3. piece' = [offset |-> o, size |-> q] /\ piece'.offset = o /\ piece'.size = q
    <3>1. AtMost(q, z) = q
      BY <1>1, <1>2, <2>1 DEF AtMost
    <3>2. TakeLeft(view, q) = [offset |-> o, size |-> AtMost(q, z)]
      BY <1>1, <2>1, TakenAtEnds
    <3>3. piece' = [offset |-> o, size |-> q]
      BY <2>2, <3>1, <3>2 DEF Before
    <3>4. QED
      BY <3>3
  <2>4. view' = [offset |-> o + (q + Len(d)), size |-> z - (q + Len(d)) - 0]
    <3>1. /\ z - q - Len(d) \in Nat /\ q + Len(d) \in Nat
          /\ (q + Len(d)) + (z - q - Len(d)) <= z
          /\ z - (q + Len(d)) - 0 = z - q - Len(d)
      BY <1>1, <1>2, <2>1
    <3>2. QED
      BY <1>1, <2>2, <3>1, SliceFits DEF After
  <2>5. Bytes(piece') = SubSeq(text, o + 1, o + q)
    BY <2>3 DEF Bytes
  <2>6. SubSeq(text, (o + q) + 1, o + (q + Len(d))) = d
    <3> DEFINE e == SubSeq(text, (o + q) + 1, o + (q + Len(d)))
               f == SubSeq(Bytes(view), q + 1, q + Len(d))
    <3>1. f = d
      BY <2>1 DEF StartsAt
    <3>2. e \in Seq(Characters) /\ Len(e) = Len(d)
          /\ \A k \in 1 .. Len(d) : e[k] = text[(o + q) + k]
      <4>1. o + (q + Len(d)) = (o + q) + Len(d) /\ o + q \in Nat
            /\ (o + q) + Len(d) <= Len(text)
        BY <1>1, <1>2, <2>1
      <4>2. e = SubSeq(text, (o + q) + 1, (o + q) + Len(d))
        BY <4>1
      <4> HIDE DEF e, o
      <4>3. Len(d) \in Nat
        BY <1>2
      <4>4. QED
        BY <1>1, <1>0, <4>1, <4>2, <4>3, Zenon
    <3>3. f \in Seq(Characters) /\ Len(f) = Len(d)
          /\ \A k \in 1 .. Len(d) : f[k] = Bytes(view)[q + k]
      <4>1. Len(d) \in Nat /\ q + Len(d) <= Len(Bytes(view))
        BY <1>2, <1>5, <2>1
      <4>2. QED
        BY <1>5, <1>0, <2>1, <4>1, Zenon
    <3> HIDE DEF e, f
    <3>4. \A k \in 1 .. Len(d) : e[k] = f[k]
      <4>1. \A k \in 1 .. Len(d) : q + k \in 1 .. z /\ o + (q + k) = (o + q) + k
        BY <1>1, <1>2, <2>1
      <4>2. QED
        BY <1>5, <3>2, <3>3, <4>1
    <3>5. e = f
      BY <3>2, <3>3, <3>4, SeqEqual
    <3>6. QED
      BY <3>1, <3>5 DEF e
  <2>7. left' = left \o SubSeq(text, o + 1, o + (q + Len(d)))
    <3> DEFINE p == SubSeq(text, o + 1, o + q)
    <3>1. p \in Seq(Characters)
      BY <1>1, <1>2, <2>1, RangeOf
    <3>2. p \o d = SubSeq(text, o + 1, o + (q + Len(d)))
      <4>1. /\ o + 1 \in 1 .. Len(text) + 1 /\ o + q \in (o + 1) - 1 .. Len(text)
            /\ o + (q + Len(d)) \in o + q .. Len(text)
        BY <1>1, <1>2, <2>1
      <4>2. p \o SubSeq(text, (o + q) + 1, o + (q + Len(d)))
              = SubSeq(text, o + 1, o + (q + Len(d)))
        BY <1>1, <4>1, ConcatAdjacentSubSeq
      <4>3. QED
        BY <2>6, <4>2
    <3>3. left' = (left \o p) \o d
      BY <2>2, <2>5
    <3> HIDE DEF p
    <3>4. (left \o p) \o d = left \o (p \o d)
      BY <1>2, <3>1, NothingTaken, ConcatAssociative
    <3>5. QED
      BY <3>2, <3>3, <3>4
  <2>8. ViewInv'
    <3>1. q + Len(d) \in Nat /\ (q + Len(d)) + 0 <= z
      BY <1>1, <1>2, <2>1
    <3>2. QED
      BY <1>3, <1>4, <2>4, <2>7, <3>1, EndsMove
  <2>9. ASSUME NEW i \in 0 .. piece'.size - Len(d), StartsAt(Bytes(piece'), i, d)
        PROVE  FALSE
    <3> DEFINE p == Bytes(piece')
               e == SubSeq(p, i + 1, i + Len(d))
               f == SubSeq(Bytes(view), i + 1, i + Len(d))
    <3>1. i \in Nat /\ i + Len(d) <= q /\ i + Len(d) <= z /\ i < q
      BY <1>1, <1>2, <2>1, <2>3
    <3>2. /\ p \in Seq(Characters) /\ Len(p) = q
          /\ \A k \in 1 .. q : p[k] = text[o + k]
      <4>1. o + q <= Len(text)
        BY <1>1, <1>2, <2>1
      <4>2. /\ SubSeq(text, o + 1, o + q) \in Seq(Characters)
            /\ Len(SubSeq(text, o + 1, o + q)) = q
            /\ \A k \in 1 .. q : SubSeq(text, o + 1, o + q)[k] = text[o + k]
        BY <1>1, <1>0, <2>1, <4>1, Zenon
      <4>3. p = SubSeq(text, o + 1, o + q)
        BY <2>5
      <4> HIDE DEF p, o
      <4>4. QED
        BY <4>2, <4>3, Zenon
    <3>3. e = d
      BY <2>9 DEF StartsAt
    <3> HIDE DEF p
    <3>4. e \in Seq(Characters) /\ Len(e) = Len(d)
          /\ \A k \in 1 .. Len(d) : e[k] = p[i + k]
      BY <1>2, <3>1, <3>2, RangeOf
    <3>5. f \in Seq(Characters) /\ Len(f) = Len(d)
          /\ \A k \in 1 .. Len(d) : f[k] = Bytes(view)[i + k]
      <4>1. Len(d) \in Nat /\ i + Len(d) <= Len(Bytes(view))
        BY <1>2, <1>5, <3>1
      <4>2. QED
        BY <1>5, <1>0, <3>1, <4>1, Zenon
    <3> HIDE DEF e, f
    <3>6. \A k \in 1 .. Len(d) : e[k] = f[k]
      <4>1. \A k \in 1 .. Len(d) : i + k \in 1 .. z /\ i + k \in 1 .. q
        BY <1>1, <1>2, <2>1, <3>1
      <4>2. QED
        BY <1>5, <3>2, <3>4, <3>5, <4>1
    <3>7. f = d
      BY <3>3, <3>4, <3>5, <3>6, SeqEqual
    <3>8. i \in where
      <4>1. StartsAt(Bytes(view), i, d)
        BY <3>7 DEF StartsAt, f
      <4>2. i \in 0 .. z - Len(d)
        BY <1>1, <1>2, <3>1
      <4>3. QED
        BY <1>6, <4>1, <4>2
    <3>9. QED
      BY <2>1, <3>1, <3>8
  <2>10. QED
    BY <2>8, <2>9
<1>9. QED
  BY <1>7, <1>8

\* Taken apart in whatever way, a text of any length is the pieces and the view that is
\* left, and a piece before a delimiter has none in it.
THEOREM PartsAreExact == ViewSpec => PartsExact
<1>1. ViewInit => ViewInv
  <2> SUFFICES ASSUME ViewInit PROVE ViewInv
    OBVIOUS
  <2>1. text \in Seq(Characters) /\ Len(text) \in Nat
    BY ViewAssumption DEF ViewInit, TextsUpTo
  <2>2. view = [offset |-> 0, size |-> Len(text)] /\ left = << >> /\ right = << >>
    BY DEF ViewInit
  <2>3. view \in Views /\ view.offset = 0 /\ view.size = Len(text)
    BY <2>1, <2>2 DEF Views
  <2>4. SubSeq(text, 1, 0) = << >> /\ SubSeq(text, 0 + Len(text) + 1, Len(text)) = << >>
    BY <2>1, SubSeqEmpty
  <2>5. QED
    BY <2>1, <2>2, <2>3, <2>4 DEF ViewInv
<1>2. ViewInv /\ [ViewNext]_viewVars => ViewInv'
  <2> SUFFICES ASSUME ViewInv, [ViewNext]_viewVars PROVE ViewInv'
    OBVIOUS
  <2>1. view \in Views /\ view.offset \in Nat /\ view.size \in Nat
    BY ViewTypes DEF ViewInv
  <2>2. ASSUME NEW n \in 0 .. MaxText + 1, ChopLeft(n) \/ ChopRight(n) PROVE ViewInv'
    BY <2>2, ViewAssumption, ChopLeftKeeps, ChopRightKeeps
  <2>3. CASE TrimLeft
    <3>1. LeadingBlanks(view) \in Nat /\ LeadingBlanks(view) + 0 <= view.size
      BY <2>1, BlanksFit
    <3>2. QED
      BY <2>3, <3>1, TrimKeeps DEF TrimLeft
  <2>4. CASE TrimRight
    <3>1. TrailingBlanks(view) \in Nat /\ 0 + TrailingBlanks(view) <= view.size
      BY <2>1, BlanksFit
    <3>2. QED
      BY <2>4, <3>1, TrimKeeps DEF TrimRight
  <2>5. CASE TrimBoth
    <3> DEFINE skip == LeadingBlanks(view)
               rest == Slice(view, skip, view.size - skip)
               cut == TrailingBlanks(rest)
    <3>1. skip \in Nat /\ view.size - skip \in Nat /\ skip + (view.size - skip) <= view.size
      BY <2>1, BlanksFit
    <3>2. rest \in Views /\ rest.size = view.size - skip
      BY <2>1, <3>1, SliceFits
    <3>3. cut \in 0 .. rest.size
      BY <3>2, BlanksFit
    <3>4. Trim(skip, cut)
      BY <2>5 DEF TrimBoth
    <3> HIDE DEF skip, cut
    <3>5. cut \in Nat /\ skip + cut <= view.size
      BY <2>1, <3>1, <3>2, <3>3
    <3>6. QED
      BY <3>1, <3>4, <3>5, TrimKeeps
  <2>6. ASSUME NEW d \in Delimiters, Chop(d) PROVE ViewInv'
    BY <2>6, ChopKeeps
  <2>7. CASE UNCHANGED viewVars
    BY <2>7 DEF viewVars, ViewInv
  <2>8. QED
    BY <2>2, <2>3, <2>4, <2>5, <2>6, <2>7 DEF ViewNext
<1>3. ViewInv /\ ViewInv' =>
        /\ NothingLost'
        /\ \A d \in Delimiters : Chop(d) =>
              \A i \in 0 .. piece'.size - Len(d) : ~StartsAt(Bytes(piece'), i, d)
  <2>1. ViewInv => NothingLost
    BY NothingIsLost
  <2>2. ViewInv' => NothingLost'
    BY <2>1, PTL
  <2>3. QED
    BY <2>2, ChopKeeps
<1>4. QED
  BY <1>1, <1>2, <1>3, PTL DEF ViewSpec, PartsExact

----------------------------------------------------------------------------
(* OwnedString.                                                             *)

Cells == StringCharacters \cup {NUL, Junk}

\* The handle is NULL and there is no block, or the block has room for the contents and
\* has a NUL behind them.
StringInv ==
    /\ bytes \in Seq(Cells) /\ length \in Nat
    /\ string = Null => bytes = << >> /\ length = 0
    /\ string # Null => length + 1 <= Len(bytes) /\ bytes[length + 1] = NUL

LEMMA CapacityIs ==
  ASSUME StringInv
  PROVE  /\ Len(bytes) \in Nat /\ length <= Capacity /\ Capacity \in Nat
         /\ string # Null => Capacity = Len(bytes) - 1
         /\ string = Null => Capacity = 0
         /\ length <= Len(bytes)
<1>1. Len(bytes) \in Nat
  BY DEF StringInv
<1>2. CASE string = Null
  BY <1>1, <1>2 DEF StringInv, Capacity
<1>3. CASE string # Null
  BY <1>1, <1>3 DEF StringInv, Capacity
<1>4. QED
  BY <1>1, <1>2, <1>3

\* A capacity that grows has room for what is required.
LEMMA GrowthFits ==
  ASSUME NEW c \in Nat, NEW n \in Nat, NEW g \in Growth(c, n)
  PROVE  g \in Nat /\ g >= n
<1> DEFINE first == IF c < MinCapacity THEN MinCapacity ELSE c
<1>1. first \in Nat
  BY StringAssumption
<1>2. g \in n .. first + 2 * n \/ g = n
  BY DEF Growth
<1> HIDE DEF first
<1>3. QED
  BY <1>1, <1>2

\* What lor_string_reserve returns: the same block, or a larger one.
LEMMA Reserved ==
  ASSUME StringInv, NEW n \in Nat, NEW o \in Reserve(n)
  PROVE  \/ /\ o.string = string /\ o.bytes = bytes
            /\ o.status # "OK" \/ n <= Capacity
         \/ /\ o.string \in Places /\ o.status = "OK"
            /\ \E g \in Nat : g >= n /\ g > Capacity /\ o.bytes = Grown(g)
<1>1. Capacity \in Nat
  BY CapacityIs
<1>2. CASE n <= Capacity
  BY <1>2 DEF Reserve, Kept
<1>3. CASE ~(n <= Capacity)
  <2>1. PICK g \in Growth(Capacity, n) :
           o \in IF Overflows(n, g) THEN {Kept("OVERFLOW")}
                 ELSE {Kept("OUT_OF_MEMORY")} \cup
                      {[string |-> p, bytes |-> Grown(g), status |-> "OK"] : p \in Places}
    BY <1>3 DEF Reserve
  <2>2. g \in Nat /\ g >= n /\ g > Capacity
    BY <1>1, <1>3, GrowthFits
  <2>3. CASE \E p \in Places : o = [string |-> p, bytes |-> Grown(g), status |-> "OK"]
    BY <2>2, <2>3
  <2>4. CASE o = Kept("OVERFLOW") \/ o = Kept("OUT_OF_MEMORY")
    BY <2>4 DEF Kept
  <2>5. QED
    BY <2>1, <2>3, <2>4
<1>4. QED
  BY <1>2, <1>3

LEMMA GrownBytes ==
  ASSUME StringInv, NEW g \in Nat, g >= length
  PROVE  /\ Grown(g) \in Seq(Cells) /\ Len(Grown(g)) = g + 1
         /\ \A i \in 1 .. length : Grown(g)[i] = bytes[i]
         /\ Grown(g)[length + 1] = NUL
<1>1. length \in Nat /\ length <= Len(bytes) /\ Len(bytes) \in Nat
  BY CapacityIs DEF StringInv
<1>2. \A i \in 1 .. length : bytes[i] \in Cells
  BY <1>1 DEF StringInv
<1>3. NUL \in Cells /\ Junk \in Cells
  BY DEF Cells
<1>4. \A i \in 1 .. g + 1 : (IF i = length + 1 THEN NUL
                             ELSE IF i <= length THEN bytes[i] ELSE Junk) \in Cells
  BY <1>1, <1>2, <1>3
<1>5. Grown(g) \in Seq(Cells) /\ Len(Grown(g)) = g + 1
  BY <1>4 DEF Grown
<1>6. length + 1 \in 1 .. g + 1 /\ \A i \in 1 .. length : i \in 1 .. g + 1 /\ i # length + 1
  BY <1>1
<1>7. QED
  BY <1>1, <1>5, <1>6 DEF Grown

\* A block that has room for n bytes still holds the contents, and ends them with a NUL.
LEMMA RoomMade ==
  ASSUME StringInv, NEW n \in Nat, NEW o \in Reserve(n)
  PROVE  /\ o.status # "OK" \/ o.string = Null => o.string = string /\ o.bytes = bytes
         /\ o.status = "OK" /\ o.string = Null => n = 0
         /\ o.status = "OK" /\ o.string # Null =>
               /\ o.bytes \in Seq(Cells) /\ Len(o.bytes) \in Nat
               /\ n + 1 <= Len(o.bytes) /\ length + 1 <= Len(o.bytes)
               /\ \A i \in 1 .. length : o.bytes[i] = bytes[i]
               /\ o.bytes[length + 1] = NUL
<1>1. /\ Len(bytes) \in Nat /\ length <= Capacity /\ Capacity \in Nat /\ length \in Nat
      /\ string # Null => Capacity = Len(bytes) - 1
      /\ string = Null => Capacity = 0
  BY CapacityIs DEF StringInv
<1>2. CASE /\ o.string = string /\ o.bytes = bytes
           /\ o.status # "OK" \/ n <= Capacity
  BY <1>1, <1>2 DEF StringInv
<1>3. CASE /\ o.string \in Places /\ o.status = "OK"
           /\ \E g \in Nat : g >= n /\ g > Capacity /\ o.bytes = Grown(g)
  <2>1. PICK g \in Nat : g >= n /\ g > Capacity /\ o.bytes = Grown(g)
    BY <1>3
  <2>2. o.string # Null
    BY <1>3, StringAssumption
  <2>3. /\ Grown(g) \in Seq(Cells) /\ Len(Grown(g)) = g + 1
        /\ \A i \in 1 .. length : Grown(g)[i] = bytes[i]
        /\ Grown(g)[length + 1] = NUL
    <3>1. g >= length
      BY <1>1, <2>1
    <3>2. QED
      BY <3>1, GrownBytes
  <2>4. QED
    BY <1>1, <1>3, <2>1, <2>2, <2>3
<1>4. QED
  BY <1>2, <1>3, Reserved

LEMMA ContentsAre ==
  ASSUME NEW b \in Seq(Cells), NEW n \in Nat, n <= Len(b), NEW t \in Seq(Cells), Len(t) = n,
         \A i \in 1 .. n : t[i] = b[i]
  PROVE  SubSeq(b, 1, n) = t
<1>1. /\ SubSeq(b, 1, 0 + n) \in Seq(Cells) /\ Len(SubSeq(b, 1, 0 + n)) = n
      /\ \A i \in 1 .. n : SubSeq(b, 1, 0 + n)[i] = b[0 + i]
  <2>1. 0 + n <= Len(b) /\ 0 + 1 = 1
    OBVIOUS
  <2>2. QED
    BY <2>1, RangeOf
<1>2. 0 + n = n /\ \A i \in 1 .. n : 0 + i = i
  OBVIOUS
<1> DEFINE s == SubSeq(b, 1, n)
<1>3. s \in Seq(Cells) /\ Len(s) = n /\ \A i \in 1 .. n : s[i] = b[i]
  BY <1>1, <1>2
<1> HIDE DEF s
<1>4. s = t
  BY <1>3, SeqEqual
<1>5. QED
  BY <1>4 DEF s

\* What a call does to the contents, whatever it was and however it ended.
CallExact ==
    /\ Contents' = IF done'.status # "OK" \/ done'.op = "reserve" THEN Contents
                   ELSE IF done'.op = "append" THEN Contents \o done'.given
                   ELSE done'.given
    /\ Terminated'

LEMMA TerminatedIs == StringInv => Terminated
BY CapacityIs DEF StringInv, Terminated

LEMMA TerminatedNext == StringInv' => Terminated'
BY TerminatedIs, PTL

LEMMA ContentsTyped ==
  ASSUME StringInv
  PROVE  /\ Contents \in Seq(Cells) /\ Len(Contents) = length
         /\ \A i \in 1 .. length : Contents[i] = bytes[i]
<1>1. bytes \in Seq(Cells) /\ length \in Nat /\ length <= Len(bytes)
  BY CapacityIs DEF StringInv
<1>2. 0 + length = length /\ 0 + 1 = 1 /\ \A i \in 1 .. length : 0 + i = i
  BY <1>1
<1>3. /\ SubSeq(bytes, 0 + 1, 0 + length) \in Seq(Cells)
      /\ Len(SubSeq(bytes, 0 + 1, 0 + length)) = length
      /\ \A i \in 1 .. length : SubSeq(bytes, 0 + 1, 0 + length)[i] = bytes[0 + i]
  BY <1>1, <1>2, RangeOf
<1>4. QED
  BY <1>2, <1>3 DEF Contents

\* The string stays as it was.
LEMMA ContentsKept ==
  ASSUME StringInv, Unchanged
  PROVE  StringInv' /\ Contents' = Contents
BY DEF Unchanged, StringInv, Contents

\* A block that holds the old contents behind a length that is the old one.
LEMMA PrefixKept ==
  ASSUME StringInv, bytes' \in Seq(Cells), length' = length, length + 1 <= Len(bytes'),
         bytes'[length + 1] = NUL, \A i \in 1 .. length : bytes'[i] = bytes[i],
         string' # Null
  PROVE  StringInv' /\ Contents' = Contents
<1>1. length \in Nat
  BY DEF StringInv
<1>2. StringInv'
  BY <1>1 DEF StringInv
<1>3. Contents' = Contents
  <2>1. /\ Contents \in Seq(Cells) /\ Len(Contents) = length
        /\ \A i \in 1 .. length : Contents[i] = bytes[i]
    BY ContentsTyped
  <2>2. length <= Len(bytes')
    BY <1>1
  <2> DEFINE b == bytes'
             t == Contents
  <2>3. b \in Seq(Cells) /\ length <= Len(b) /\ t \in Seq(Cells) /\ Len(t) = length
        /\ \A i \in 1 .. length : t[i] = b[i]
    BY <2>1, <2>2
  <2> HIDE DEF b, t
  <2>4. SubSeq(b, 1, length) = t
    BY <1>1, <2>3, ContentsAre
  <2>5. QED
    BY <2>4 DEF b, t, Contents
<1>4. QED
  BY <1>2, <1>3

LEMMA ReserveExact ==
  ASSUME StringInv, NEW n \in Nat, ReserveCall(n)
  PROVE  StringInv' /\ CallExact
<1>1. PICK o \in Reserve(n) :
         /\ string' = o.string /\ bytes' = o.bytes /\ length' = length
         /\ done'.op = "reserve"
  BY DEF ReserveCall, Done
<1>2. CASE o.status # "OK" \/ o.string = Null
  <2>1. string' = string /\ bytes' = bytes /\ length' = length
    BY <1>1, <1>2, RoomMade
  <2>2. StringInv' /\ Contents' = Contents
    BY <2>1, ContentsKept DEF Unchanged
  <2>3. QED
    BY <1>1, <2>2, TerminatedNext DEF CallExact
<1>3. CASE o.status = "OK" /\ o.string # Null
  <2>1. /\ o.bytes \in Seq(Cells) /\ length + 1 <= Len(o.bytes)
        /\ \A i \in 1 .. length : o.bytes[i] = bytes[i]
        /\ o.bytes[length + 1] = NUL
    BY <1>3, RoomMade
  <2>2. StringInv' /\ Contents' = Contents
    BY <1>1, <1>3, <2>1, PrefixKept
  <2>3. QED
    BY <1>1, <2>2, TerminatedNext DEF CallExact
<1>4. QED
  BY <1>2, <1>3

\* The bytes of a block after the source was written.
LEMMA PutBytes ==
  ASSUME NEW b \in Seq(Cells), NEW k \in Nat, NEW given \in Seq(Cells),
         k + Len(given) + 1 <= Len(b)
  PROVE  LET p == Put(b, k, Append(given, NUL))
         IN  /\ p \in Seq(Cells) /\ Len(p) = Len(b)
             /\ \A i \in 1 .. k : p[i] = b[i]
             /\ \A i \in 1 .. Len(given) : p[k + i] = given[i]
             /\ p[k + Len(given) + 1] = NUL
<1> DEFINE cells == Append(given, NUL)
           p == Put(b, k, cells)
<1>1. /\ cells \in Seq(Cells) /\ Len(cells) = Len(given) + 1 /\ Len(given) \in Nat
      /\ \A i \in 1 .. Len(given) : cells[i] = given[i]
      /\ cells[Len(given) + 1] = NUL
      /\ DOMAIN cells = 1 .. Len(given) + 1
  <2>1. NUL \in Cells
    BY DEF Cells
  <2>2. QED
    BY <2>1
<1> HIDE DEF cells
<1>2. DOMAIN b = 1 .. Len(b) /\ Len(b) \in Nat
  OBVIOUS
<1>3. p = [i \in 1 .. Len(b) |-> IF i - k \in 1 .. Len(given) + 1 THEN cells[i - k] ELSE b[i]]
  BY <1>1, <1>2 DEF Put
<1>4. \A i \in 1 .. Len(b) :
         (IF i - k \in 1 .. Len(given) + 1 THEN cells[i - k] ELSE b[i]) \in Cells
  BY <1>1, <1>2
<1> HIDE DEF p
<1>5. /\ p \in Seq(Cells) /\ Len(p) = Len(b)
      /\ \A i \in 1 .. Len(b) :
            p[i] = IF i - k \in 1 .. Len(given) + 1 THEN cells[i - k] ELSE b[i]
  BY <1>2, <1>3, <1>4
<1>6. \A i \in 1 .. k : p[i] = b[i]
  BY <1>1, <1>2, <1>5
<1>7. \A i \in 1 .. Len(given) + 1 : p[k + i] = cells[i]
  <2> SUFFICES ASSUME NEW i \in 1 .. Len(given) + 1 PROVE p[k + i] = cells[i]
    OBVIOUS
  <2>1. k + i \in 1 .. Len(b) /\ (k + i) - k = i
    BY <1>1, <1>2
  <2>2. QED
    BY <1>5, <2>1
<1>8. Len(given) + 1 \in 1 .. Len(given) + 1 /\ k + (Len(given) + 1) = k + Len(given) + 1
  BY <1>1
<1>9. \A i \in 1 .. Len(given) : p[k + i] = given[i]
  BY <1>1, <1>7
<1>10. p[k + Len(given) + 1] = NUL
  BY <1>1, <1>7, <1>8
<1>11. QED
  BY <1>5, <1>6, <1>9, <1>10 DEF p, cells

\* A source in the string is found where the string is now.
LEMMA SourceExact ==
  ASSUME StringInv, NEW o, o.bytes \in Seq(Cells), length + 1 <= Len(o.bytes),
         \A i \in 1 .. length : o.bytes[i] = bytes[i],
         NEW given \in Seq(Cells), NEW offset,
         \/ offset = Outside
         \/ /\ offset \in Nat /\ offset + Len(given) <= length
            /\ \A i \in 1 .. Len(given) : given[i] = bytes[offset + i]
  PROVE  SourceMoved(o, given, offset) = given
<1>1. CASE offset = Outside
  BY <1>1 DEF SourceMoved
<1>2. CASE offset # Outside
  <2> DEFINE b == o.bytes
             n == Len(given)
             t == SubSeq(b, offset + 1, offset + n)
  <2>1. /\ offset \in Nat /\ offset + n <= length
        /\ \A i \in 1 .. n : given[i] = bytes[offset + i]
    BY <1>2
  <2>2. b \in Seq(Cells) /\ Len(b) \in Nat /\ n \in Nat /\ length \in Nat
    BY DEF StringInv
  <2>3. offset + n <= Len(b) /\ \A i \in 1 .. n : offset + i \in 1 .. length
    BY <2>1, <2>2
  <2>4. \A i \in 1 .. n : b[offset + i] = bytes[offset + i]
    BY <2>3
  <2> HIDE DEF b, n
  <2>5. t \in Seq(Cells) /\ Len(t) = n /\ \A i \in 1 .. n : t[i] = b[offset + i]
    BY <2>1, <2>2, <2>3, RangeOf
  <2> HIDE DEF t
  <2>6. \A i \in 1 .. n : t[i] = given[i]
    BY <2>1, <2>4, <2>5
  <2>7. t = given
    BY <2>5, <2>6, SeqEqual DEF n
  <2>8. QED
    BY <1>2, <2>7 DEF SourceMoved, t, b, n
<1>3. QED
  BY <1>1, <1>2

LEMMA WriteExact ==
  ASSUME StringInv, NEW op \in {"assign", "append"}, NEW given \in Seq(Cells), NEW offset,
         NEW k \in Nat, k = (IF op = "append" THEN length ELSE 0),
         \/ offset = Outside
         \/ /\ offset \in Nat /\ offset + Len(given) <= length
            /\ \A i \in 1 .. Len(given) : given[i] = bytes[offset + i],
         Write(op, k, given, offset)
  PROVE  StringInv' /\ CallExact
<1> DEFINE n == Len(given)
<1>1. PICK o \in Reserve(k + n) :
         /\ done' = [op |-> op, given |-> given, status |-> o.status]
         /\ string' = o.string
         /\ IF o.status # "OK" THEN bytes' = o.bytes /\ length' = length
            ELSE IF o.string = Null THEN bytes' = bytes /\ length' = length
            ELSE /\ bytes' = Put(o.bytes, k, Append(SourceMoved(o, given, offset), NUL))
                 /\ length' = k + n
  BY Zenon DEF Write, Done
<1>2. n \in Nat /\ k + n \in Nat /\ length \in Nat
  BY DEF StringInv
<1>3. done'.op = op /\ done'.given = given /\ done'.status = o.status
  BY <1>1
<1>4. /\ o.status # "OK" \/ o.string = Null => o.string = string /\ o.bytes = bytes
      /\ o.status = "OK" /\ o.string = Null => k + n = 0
      /\ o.status = "OK" /\ o.string # Null =>
            /\ o.bytes \in Seq(Cells) /\ Len(o.bytes) \in Nat
            /\ k + n + 1 <= Len(o.bytes) /\ length + 1 <= Len(o.bytes)
            /\ \A i \in 1 .. length : o.bytes[i] = bytes[i]
  BY <1>2, RoomMade
<1>5. CASE o.status # "OK"
  <2>1. StringInv' /\ Contents' = Contents
    BY <1>1, <1>4, <1>5, ContentsKept DEF Unchanged
  <2>2. QED
    BY <1>3, <1>5, <2>1, TerminatedNext DEF CallExact
<1>6. CASE o.status = "OK" /\ o.string = Null
  <2>1. StringInv' /\ Contents' = Contents
    BY <1>1, <1>4, <1>6, ContentsKept DEF Unchanged
  <2>2. n = 0 /\ length = 0
    BY <1>2, <1>4, <1>6 DEF StringInv
  <2>3. Contents \in Seq(Cells) /\ Len(Contents) = 0
    BY <2>2, ContentsTyped
  <2>4. given = << >> /\ Contents = << >>
    BY <2>2, <2>3
  <2>5. Contents \o given = Contents
    BY <2>3, <2>4, ConcatEmptySeq
  <2>6. QED
    BY <1>3, <1>6, <2>1, <2>4, <2>5, TerminatedNext DEF CallExact
<1>7. CASE o.status = "OK" /\ o.string # Null
  <2> DEFINE b == o.bytes
             p == Put(b, k, Append(given, NUL))
  <2>1. /\ b \in Seq(Cells) /\ Len(b) \in Nat /\ k + n + 1 <= Len(b)
        /\ length + 1 <= Len(b) /\ \A i \in 1 .. length : b[i] = bytes[i]
    BY <1>4, <1>7
  <2>2. SourceMoved(o, given, offset) = given
    BY <2>1, SourceExact
  <2>3. bytes' = p /\ length' = k + n /\ string' # Null
    BY <1>1, <1>7, <2>2
  <2> HIDE DEF b
  <2>4. /\ p \in Seq(Cells) /\ Len(p) = Len(b)
        /\ \A i \in 1 .. k : p[i] = b[i]
        /\ \A i \in 1 .. n : p[k + i] = given[i]
        /\ p[k + n + 1] = NUL
    BY <2>1, PutBytes
  <2> HIDE DEF p
  <2>5. StringInv'
    BY <1>2, <2>1, <2>3, <2>4 DEF StringInv
  <2> DEFINE t == IF op = "append" THEN Contents \o given ELSE given
  <2>6. t \in Seq(Cells) /\ Len(t) = k + n /\ \A i \in 1 .. k + n : t[i] = p[i]
    <3>1. CASE op = "assign"
      <4>1. \A i \in 1 .. n : p[0 + i] = given[i] /\ 0 + i = i
        BY <1>2, <2>4, <3>1
      <4>2. t = given /\ k + n = n
        BY <1>2, <3>1
      <4>3. QED
        BY <4>1, <4>2
    <3>2. CASE op = "append"
      <4> DEFINE c == Contents
      <4>1. c \in Seq(Cells) /\ Len(c) = length /\ \A i \in 1 .. length : c[i] = bytes[i]
        BY ContentsTyped
      <4> HIDE DEF c
      <4>2. /\ c \o given \in Seq(Cells) /\ Len(c \o given) = length + n
            /\ \A i \in 1 .. length + n :
                  (c \o given)[i] = IF i <= length THEN c[i] ELSE given[i - length]
        BY <4>1, ConcatProperties
      <4>3. ASSUME NEW i \in 1 .. length + n PROVE (c \o given)[i] = p[i]
        <5>1. CASE i <= length
          <6>1. i \in 1 .. length /\ i \in 1 .. k
            BY <1>2, <3>2, <5>1
          <6>2. QED
            BY <2>1, <2>4, <4>1, <4>2, <5>1, <6>1
        <5>2. CASE ~(i <= length)
          <6>1. i - length \in 1 .. n /\ k + (i - length) = i
            BY <1>2, <3>2, <5>2
          <6>2. p[k + (i - length)] = given[i - length]
            BY <2>4, <6>1
          <6>3. QED
            BY <4>2, <5>2, <6>1, <6>2
        <5>3. QED
          BY <5>1, <5>2
      <4>4. t = c \o given /\ k = length
        BY <3>2 DEF c
      <4> HIDE DEF t
      <4>5. QED
        BY <4>2, <4>3, <4>4
    <3>3. QED
      BY <3>1, <3>2
  <2> HIDE DEF t
  <2>7. SubSeq(p, 1, k + n) = t
    <3>1. k + n <= Len(p)
      BY <1>2, <2>1, <2>4
    <3>2. QED
      BY <1>2, <2>4, <2>6, <3>1, ContentsAre
  <2>8. Contents' = t
    BY <2>3, <2>7 DEF Contents
  <2>9. QED
    BY <1>3, <1>7, <2>5, <2>8, TerminatedNext DEF CallExact, t
<1>8. QED
  BY <1>5, <1>6, <1>7

\* A call that leaves the string as it was.
LEMMA KeptExact ==
  ASSUME StringInv, Unchanged, NEW op, NEW given, NEW status, Done(op, given, status),
         \/ status # "OK"
         \/ op = "append" /\ given = << >>
  PROVE  StringInv' /\ CallExact
<1>1. StringInv' /\ Contents' = Contents /\ Terminated'
  BY ContentsKept, TerminatedNext
<1>2. done'.op = op /\ done'.given = given /\ done'.status = status
  BY DEF Done
<1>3. CASE status # "OK"
  BY <1>1, <1>2, <1>3 DEF CallExact
<1>4. CASE status = "OK" /\ op = "append" /\ given = << >>
  <2>1. Contents \in Seq(Cells)
    BY ContentsTyped
  <2>2. Contents \o << >> = Contents
    BY <2>1, ConcatEmptySeq
  <2>3. QED
    BY <1>1, <1>2, <1>4, <2>2 DEF CallExact
<1>5. QED
  BY <1>3, <1>4

\* What a view of the string holds.
LEMMA ViewTyped ==
  ASSUME StringInv, NEW v \in Inside, Alias(v)
  PROVE  /\ TextOf(v) \in Seq(Cells) /\ v.offset \in Nat
         /\ v.offset + Len(TextOf(v)) <= length
         /\ \A i \in 1 .. Len(TextOf(v)) : TextOf(v)[i] = bytes[v.offset + i]
<1>1. PICK f \in 0 .. length, n \in 0 .. MaxGiven : v = [offset |-> f, size |-> n]
  BY DEF Inside
<1>2. /\ v.offset = f /\ v.size = n /\ f \in Nat /\ n \in Nat /\ length \in Nat
      /\ bytes \in Seq(Cells) /\ Len(bytes) \in Nat /\ length <= Len(bytes)
  BY <1>1, CapacityIs, StringAssumption DEF StringInv
<1>3. f + n <= length /\ f + n <= Len(bytes)
  BY <1>2 DEF Alias
<1> DEFINE t == SubSeq(bytes, f + 1, f + n)
<1>4. t \in Seq(Cells) /\ Len(t) = n /\ \A i \in 1 .. n : t[i] = bytes[f + i]
  BY <1>2, <1>3, RangeOf
<1>5. TextOf(v) = t
  BY <1>2 DEF TextOf
<1> HIDE DEF t
<1>6. QED
  BY <1>2, <1>3, <1>4, <1>5

LEMMA AssignExact ==
  ASSUME StringInv, NEW given \in Seq(Cells), NEW offset,
         \/ offset = Outside
         \/ /\ offset \in Nat /\ offset + Len(given) <= length
            /\ \A i \in 1 .. Len(given) : given[i] = bytes[offset + i],
         Write("assign", 0, given, offset)
  PROVE  StringInv' /\ CallExact
<1> DEFINE op == "assign"
           k == 0
<1>1. /\ op \in {"assign", "append"} /\ k \in Nat
      /\ k = (IF op = "append" THEN length ELSE 0) /\ Write(op, k, given, offset)
  OBVIOUS
<1> HIDE DEF op, k
<1>2. QED
  BY <1>1, WriteExact

LEMMA AppendExact ==
  ASSUME StringInv, NEW given \in Seq(Cells), NEW offset,
         \/ offset = Outside
         \/ /\ offset \in Nat /\ offset + Len(given) <= length
            /\ \A i \in 1 .. Len(given) : given[i] = bytes[offset + i],
         Write("append", length, given, offset)
  PROVE  StringInv' /\ CallExact
<1> DEFINE op == "append"
           k == length
<1>1. /\ op \in {"assign", "append"} /\ k \in Nat
      /\ k = (IF op = "append" THEN length ELSE 0) /\ Write(op, k, given, offset)
  BY DEF StringInv
<1> HIDE DEF op, k
<1>2. QED
  BY <1>1, WriteExact

\* The string is empty, with a block or without one.
LEMMA ClearExact ==
  ASSUME StringInv, Clear \/ Deinit
  PROVE  StringInv' /\ CallExact
<1>1. done'.status = "OK" /\ done'.op = "clear" /\ done'.given = << >> /\ length' = 0
  BY DEF Clear, Deinit, Done
<1>2. StringInv'
  <2>1. CASE string' = Null
    <3>1. bytes' = << >>
      BY <2>1 DEF StringInv, Clear, Deinit
    <3>2. << >> \in Seq(Cells)
      OBVIOUS
    <3>3. QED
      BY <1>1, <2>1, <3>1, <3>2 DEF StringInv
  <2>2. CASE string' # Null
    <3>1. /\ string # Null /\ string' = string
          /\ bytes' = [i \in DOMAIN bytes |-> IF i = 1 THEN NUL ELSE Junk]
      BY <2>2 DEF Clear, Deinit
    <3>2. /\ bytes \in Seq(Cells) /\ Len(bytes) \in Nat /\ DOMAIN bytes = 1 .. Len(bytes)
          /\ 1 <= Len(bytes)
      BY <3>1 DEF StringInv
    <3>3. NUL \in Cells /\ Junk \in Cells
      BY DEF Cells
    <3>4. bytes' \in Seq(Cells) /\ Len(bytes') = Len(bytes) /\ bytes'[1] = NUL
      BY <3>1, <3>2, <3>3
    <3>5. QED
      BY <1>1, <2>2, <3>2, <3>4 DEF StringInv
  <2>3. QED
    BY <2>1, <2>2
<1>3. Contents' = << >>
  BY <1>1, SubSeqEmpty DEF Contents
<1>4. QED
  BY <1>1, <1>2, <1>3, TerminatedNext DEF CallExact

\* Each step keeps the string in order and does to its contents what its call says.
LEMMA CallsExact ==
  ASSUME StringInv, StringNext
  PROVE  StringInv' /\ CallExact
<1>1. ASSUME NEW n \in 0 .. SizeMax, ReserveCall(n) PROVE StringInv' /\ CallExact
  BY <1>1, StringAssumption, ReserveExact
<1>2. ASSUME NEW given \in GivenTexts, Assign(given) \/ AppendText(given)
      PROVE  StringInv' /\ CallExact
  <2>1. given \in Seq(Cells)
    <3>1. PICK n \in 0 .. MaxGiven : given \in [1 .. n -> StringCharacters]
      BY DEF GivenTexts
    <3>2. n \in Nat /\ given \in [1 .. n -> Cells]
      BY <3>1, StringAssumption DEF Cells
    <3>3. QED
      BY <3>2
  <2>2. CASE Assign(given)
    BY <2>1, <2>2, AssignExact DEF Assign
  <2>3. CASE AppendText(given)
    <3>1. CASE Write("append", length, given, Outside)
      BY <2>1, <3>1, AppendExact
    <3>2. CASE given = << >> /\ Done("append", given, "OK") /\ Unchanged
      BY <3>2, KeptExact
    <3>3. CASE Done("append", given, "OVERFLOW") /\ Unchanged
      BY <3>3, KeptExact
    <3>4. QED
      BY <2>3, <3>1, <3>2, <3>3 DEF AppendText
  <2>4. QED
    BY <1>2, <2>2, <2>3
<1>3. ASSUME NEW v \in Inside, AssignSelf(v) \/ AppendSelf(v) PROVE StringInv' /\ CallExact
  <2>1. Alias(v)
    BY <1>3 DEF AssignSelf, AppendSelf
  <2>2. /\ TextOf(v) \in Seq(Cells) /\ v.offset \in Nat
        /\ v.offset + Len(TextOf(v)) <= length
        /\ \A i \in 1 .. Len(TextOf(v)) : TextOf(v)[i] = bytes[v.offset + i]
    BY <2>1, ViewTyped
  <2>3. Write("assign", 0, TextOf(v), v.offset) \/ Write("append", length, TextOf(v), v.offset)
    BY <1>3 DEF AssignSelf, AppendSelf
  <2> DEFINE given == TextOf(v)
             offset == v.offset
  <2>4. /\ given \in Seq(Cells) /\ offset \in Nat /\ offset + Len(given) <= length
        /\ \A i \in 1 .. Len(given) : given[i] = bytes[offset + i]
        /\ Write("assign", 0, given, offset) \/ Write("append", length, given, offset)
    BY <2>2, <2>3
  <2> HIDE DEF given, offset
  <2>5. QED
    BY <2>4, AssignExact, AppendExact
<1>4. ASSUME NEW v \in Inside, NEW op \in {"assign", "append"}, RefusedView(op, v)
      PROVE  StringInv' /\ CallExact
  <2> DEFINE status == IF op = "append" /\ v.size > SizeMax - length
                       THEN "OVERFLOW" ELSE "INVALID_ARGUMENT"
  <2>1. Done(op, << >>, status) /\ Unchanged /\ status # "OK"
    BY <1>4 DEF RefusedView
  <2> HIDE DEF status
  <2>2. QED
    BY <2>1, KeptExact
<1>5. QED
  BY <1>1, <1>2, <1>3, <1>4, ClearExact DEF StringNext

\* A view given to assign or append may lie in the string it is given to, and the block
\* may move under it: the bytes that arrive are still those the view had at the call. A
\* call that fails leaves the contents, and after each call, lor_string_reserve too, a
\* NUL stands behind the contents within the capacity.
THEOREM StringsAreExact == StringSpec => StringExact
<1>1. StringInit => StringInv
  BY DEF StringInit, StringInv
<1>2. StringInv /\ [StringNext]_stringVars => StringInv'
  <2>1. ASSUME StringInv, UNCHANGED stringVars PROVE StringInv'
    BY <2>1 DEF stringVars, StringInv
  <2>2. QED
    BY <2>1, CallsExact
<1>3. StringInv /\ [StringNext]_stringVars => [CallExact]_stringVars
  BY CallsExact
<1>4. QED
  BY <1>1, <1>2, <1>3, PTL DEF StringSpec, StringExact, CallExact
----------------------------------------------------------------------------
(* MapKeys: keys are found by what the policy compares.                     *)

KeyPlaces == Buffers \cup Heap
Policies == {ConfigBytes, ConfigStringView("borrowed"), ConfigStringView("owned")}

\* A view that may be read: of nothing, or of bytes that are in memory.
Readable(v) ==
    /\ v \in [place : KeyPlaces \cup {NullPlace}, size : Nat]
    /\ v.place # NullPlace => v.size <= Len(memory[v.place])

\* What a stored key points to, by its policy.
KeyStored(k) ==
    /\ k \in [view : [place : KeyPlaces \cup {NullPlace}, size : Nat], text : Seq(Nat)]
    /\ Readable(k.view)
    /\ ByText => IsValid(k.view) /\ k.text = BytesOf(k.view)
    /\ Owning => IF k.view.place = NullPlace THEN k.view.size = 0
                 ELSE k.view.place \in Heap /\ k.view.size # 0
    /\ ~Owning => k.view.place \in Buffers \cup {NullPlace}

\* Two stored keys differ in what the policy compares, and do not share a copy.
KeysApart(k, l) ==
    /\ ByText /\ k.text = l.text => k = l
    /\ ~ByText /\ k.view = l.view => k = l
    /\ Owning /\ k.view.place = l.view.place /\ k.view.place # NullPlace => k = l

KeyInv ==
    /\ policy \in Policies
    /\ memory \in [KeyPlaces -> Seq(Nat)]
    /\ allocated \subseteq Heap /\ allocated = Owned(keys)
    /\ IsFiniteSet(keys)
    /\ \A k \in keys : KeyStored(k)
    /\ \A k, l \in keys : KeysApart(k, l)

LEMMA PolicyCases ==
  ASSUME policy \in Policies
  PROVE  /\ Owning => ByText
         /\ ByText \in BOOLEAN /\ Owning \in BOOLEAN
         /\ \A v : ByText => (KeyValid(v) <=> IsValid(v))
         /\ \A v : ~ByText => KeyValid(v)
<1>1. CASE policy = ConfigBytes
  BY <1>1 DEF ConfigBytes, ByText, Owning, KeyValid, NoFn
<1>2. CASE policy = ConfigStringView("borrowed")
  BY <1>2 DEF ConfigStringView, ConfigBytes, ByText, Owning, KeyValid, NoFn
<1>3. CASE policy = ConfigStringView("owned")
  BY <1>3 DEF ConfigStringView, ConfigBytes, ByText, Owning, KeyValid, NoFn
<1> QED
  BY <1>1, <1>2, <1>3 DEF Policies

\* The bytes of a readable view: as many as it says, if it is valid.
LEMMA BytesRead ==
  ASSUME memory \in [KeyPlaces -> Seq(Nat)], NEW v, Readable(v)
  PROVE  BytesOf(v) \in Seq(Nat) /\ (IsValid(v) => Len(BytesOf(v)) = v.size)
<1>1. v.size \in Nat
  BY DEF Readable
<1>2. CASE v.place = NullPlace
  <2>1. BytesOf(v) = << >>
    BY <1>2 DEF BytesOf
  <2>2. IsValid(v) => v.size = 0
    BY <1>2 DEF IsValid
  <2> QED
    BY <2>1, <2>2
<1>3. CASE v.place # NullPlace
  <2> DEFINE s == memory[v.place]
  <2>1. s \in Seq(Nat) /\ v.size <= Len(s)
    BY <1>3 DEF Readable
  <2>2. BytesOf(v) = SubSeq(s, 1, v.size)
    BY <1>3 DEF BytesOf
  <2> HIDE DEF s
  <2>3. \A i \in 1 .. v.size : s[i] \in Nat
    BY <2>1, <1>1
  <2>4. /\ SubSeq(s, 1, v.size) \in Seq(Nat)
        /\ Len(SubSeq(s, 1, v.size)) = IF 1 <= v.size THEN v.size - 1 + 1 ELSE 0
    BY <2>3, <1>1, SubSeqProperties
  <2> QED
    BY <2>2, <2>4, <1>1
<1> QED
  BY <1>2, <1>3

\* A lookup finds what the policy takes for the same key.
LEMMA FoundExactly ==
  ASSUME KeyInv, NEW v, Readable(v), KeyValid(v)
  PROVE  /\ Found(v) = {k \in keys : IF ByText THEN k.text = BytesOf(v) ELSE k.view = v}
         /\ \A k, l \in Found(v) : k = l
<1>1. \A k \in keys : KeyStored(k)
  BY DEF KeyInv
<1>2. \A k, l \in keys : KeysApart(k, l)
  BY DEF KeyInv
<1>3. memory \in [KeyPlaces -> Seq(Nat)] /\ policy \in Policies
  BY DEF KeyInv
<1>4. CASE ByText
  <2>1. IsValid(v)
    BY <1>3, <1>4, PolicyCases
  <2>2. Len(BytesOf(v)) = v.size
    BY <2>1, <1>3, BytesRead
  <2>3. ASSUME NEW k \in keys
        PROVE  Hash(k.view) = Hash(v) /\ Equal(k.view, v) <=> k.text = BytesOf(v)
    <3>1. IsValid(k.view) /\ k.text = BytesOf(k.view) /\ Readable(k.view)
      BY <1>1, <1>4 DEF KeyStored
    <3>2. Len(BytesOf(k.view)) = k.view.size
      BY <3>1, <1>3, BytesRead
    <3>3. BytesOf(k.view) = BytesOf(v) => Hash(k.view) = Hash(v)
      BY <1>4, Zenon DEF Hash
    <3> QED
      BY <3>1, <3>2, <3>3, <2>1, <2>2, <1>4 DEF Equal
  <2> QED
    BY <2>3, <1>2, <1>4 DEF Found, KeysApart
<1>5. CASE ~ByText
  <2>1. \A k \in keys : Hash(k.view) = Hash(v) /\ Equal(k.view, v) <=> k.view = v
    BY <1>5 DEF Equal
  <2> QED
    BY <2>1, <1>2, <1>5 DEF Found, KeysApart
<1> QED
  BY <1>4, <1>5

\* What the copies of some keys are.
LEMMA OwnedPlaces ==
  ASSUME NEW some
  PROVE  \A p : p \in Owned(some) <=>
                   Owning /\ \E k \in some : p = k.view.place /\ p # NullPlace
BY DEF Owned, CopyPlace

\* What a stored key says is not disturbed while the bytes it points to stay.
LEMMA StoredStays ==
  ASSUME NEW k, KeyStored(k), policy' = policy, memory' \in [KeyPlaces -> Seq(Nat)],
         k.view.place # NullPlace => memory'[k.view.place] = memory[k.view.place]
  PROVE  KeyStored(k)'
<1>1. ByText' = ByText /\ Owning' = Owning
  BY DEF ByText, Owning
<1>2. IsValid(k.view)' = IsValid(k.view)
  BY DEF IsValid
<1>3. BytesOf(k.view)' = BytesOf(k.view)
  BY DEF BytesOf
<1>4. Readable(k.view) => Readable(k.view)'
  BY DEF Readable
<1> QED
  BY <1>1, <1>2, <1>3, <1>4 DEF KeyStored

\* Keys that stay are stored as before, when the caller's buffers and the copies that are
\* still allocated keep their bytes.
LEMMA OthersStay ==
  ASSUME KeyInv, policy' = policy, memory' \in [KeyPlaces -> Seq(Nat)],
         NEW some \in SUBSET keys,
         \A b \in Buffers : memory'[b] = memory[b],
         \A p \in Owned(some) : memory'[p] = memory[p]
  PROVE  \A k \in some : KeyStored(k)'
<1> SUFFICES ASSUME NEW k \in some
             PROVE  KeyStored(k)'
  OBVIOUS
<1>1. KeyStored(k)
  BY DEF KeyInv
<1>2. ASSUME k.view.place # NullPlace
      PROVE  memory'[k.view.place] = memory[k.view.place]
  <2>1. CASE Owning
    <3>1. k.view.place \in Owned(some)
      BY <1>2, <2>1, OwnedPlaces
    <3> QED
      BY <3>1
  <2>2. CASE ~Owning
    BY <1>1, <1>2, <2>2 DEF KeyStored
  <2> QED
    BY <2>1, <2>2
<1> QED
  BY <1>1, <1>2, StoredStays

\* The copies of different keys are different.
LEMMA CopiesApart ==
  ASSUME KeyInv, NEW some \in SUBSET keys, NEW others \in SUBSET keys, some \cap others = {}
  PROVE  Owned(some) \cap Owned(others) = {}
<1> SUFFICES ASSUME NEW p, p \in Owned(some), p \in Owned(others)
             PROVE  FALSE
  OBVIOUS
<1>1. PICK k \in some : p = k.view.place /\ p # NullPlace /\ Owning
  BY OwnedPlaces
<1>2. PICK l \in others : p = l.view.place /\ p # NullPlace
  BY OwnedPlaces
<1>3. KeysApart(k, l)
  BY DEF KeyInv
<1> QED
  BY <1>1, <1>2, <1>3 DEF KeysApart

\* Keys are dropped: those that stay are not touched.
LEMMA DropKeepsKeys ==
  ASSUME KeyInv, NEW some \in SUBSET keys, keys' = keys \ some, policy' = policy,
         allocated' = DropKeys(some, allocated), memory' = Wiped(memory, allocated')
  PROVE  KeyInv'
<1> DEFINE rest == keys \ some
<1>1. /\ policy \in Policies /\ memory \in [KeyPlaces -> Seq(Nat)]
      /\ allocated \subseteq Heap /\ allocated = Owned(keys) /\ IsFiniteSet(keys)
  BY DEF KeyInv
<1>2. IsFiniteSet(keys')
  BY <1>1, FS_Subset
<1>3. memory' \in [KeyPlaces -> Seq(Nat)]
  <2>1. << >> \in Seq(Nat)
    OBVIOUS
  <2> QED
    BY <1>1, <2>1, Zenon DEF Wiped
<1>4. Owned(keys)' = Owned(rest)
  BY DEF Owned, CopyPlace, Owning
<1>5. allocated' = Owned(rest)
  <2>1. Owned(some) \cap Owned(rest) = {}
    BY CopiesApart
  <2>2. Owned(keys) = Owned(some) \cup Owned(rest)
    BY OwnedPlaces
  <2> QED
    BY <1>1, <2>1, <2>2 DEF DropKeys
<1>6. \A b \in Buffers : memory'[b] = memory[b]
  BY <1>1, KeyAssumption, Zenon DEF Wiped, KeyPlaces
<1>7. \A p \in Owned(rest) : memory'[p] = memory[p]
  <2>1. Owned(rest) \subseteq Heap
    BY <1>1, <1>5 DEF DropKeys
  <2> QED
    BY <1>1, <1>5, <2>1, Zenon DEF Wiped, KeyPlaces
<1>8. \A k \in rest : KeyStored(k)'
  BY <1>3, <1>6, <1>7, OthersStay
<1>9. \A k, l \in rest : KeysApart(k, l)'
  BY DEF KeyInv, KeysApart, ByText, Owning
<1> QED
  BY <1>1, <1>2, <1>3, <1>4, <1>5, <1>8, <1>9 DEF KeyInv, DropKeys

\* What a caller passes: a view that may be read, not of a copy.
LEMMA PassedReadable ==
  ASSUME NEW v \in Passed
  PROVE  Readable(v) /\ v.place \in Buffers \cup {NullPlace}
BY KeyAssumption DEF Passed, CallerViews, View, EmptyView, Readable, KeyPlaces, NullPlace

\* The key that is stored, by what Cloned makes of the view.
LEMMA CloneStored ==
  ASSUME KeyInv, NEW v, Readable(v), KeyValid(v), v.place \in Buffers \cup {NullPlace},
         NEW copy \in Cloned(v), policy' = policy, NEW places,
         CopyPlace(copy.view) \subseteq places, memory' = Wiped(copy.memory, places),
         NEW key, key = [view |-> copy.view, text |-> BytesOf(v)]
  PROVE  /\ memory' \in [KeyPlaces -> Seq(Nat)]
         /\ \A q \in KeyPlaces : q \in Buffers \cup (places \ CopyPlace(copy.view))
                                   => memory'[q] = memory[q]
         /\ KeyStored(key)'
         /\ CopyPlace(copy.view) \subseteq Heap \ allocated
         /\ ~Owning => copy.view = v
<1> DEFINE said == BytesOf(v)
<1>0. key = [view |-> copy.view, text |-> said]
  OBVIOUS
<1>1. /\ policy \in Policies /\ memory \in [KeyPlaces -> Seq(Nat)]
  BY DEF KeyInv
<1>2. said \in Seq(Nat) /\ v.size \in Nat /\ (IsValid(v) => Len(said) = v.size)
  BY <1>1, BytesRead DEF Readable
<1>3. ByText' = ByText /\ Owning' = Owning /\ (ByText => IsValid(v)) /\ (Owning => ByText)
  <2>1. ByText' = ByText /\ Owning' = Owning
    BY DEF ByText, Owning
  <2> QED
    BY <2>1, <1>1, PolicyCases
<1>4. << >> \in Seq(Nat)
  OBVIOUS
<1>5. ASSUME copy.memory = memory
      PROVE  /\ memory' \in [KeyPlaces -> Seq(Nat)]
             /\ \A q \in KeyPlaces : q \in Buffers \cup places => memory'[q] = memory[q]
  BY <1>1, <1>4, <1>5, KeyAssumption, Zenon DEF Wiped, KeyPlaces
<1> HIDE DEF said
<1>6. CASE ~Owning
  <2>1. copy.view = v /\ copy.memory = memory /\ CopyPlace(copy.view) = {}
    BY <1>6 DEF Cloned, CopyPlace
  <2>2. Readable(v)' /\ BytesOf(v)' = BytesOf(v)
    BY <2>1, <1>5, KeyAssumption DEF Readable, BytesOf, KeyPlaces, NullPlace
  <2>3. key \in [view : [place : KeyPlaces \cup {NullPlace}, size : Nat], text : Seq(Nat)]
    BY <2>1, <1>0, <1>2 DEF Readable
  <2>4. KeyStored(key)'
    BY <2>1, <2>2, <2>3, <1>0, <1>3, <1>6 DEF KeyStored, IsValid, said
  <2> QED
    BY <2>1, <2>4, <1>5, <1>6 DEF said
<1>7. CASE Owning /\ v.size = 0
  <2>1. copy.view = EmptyView /\ copy.memory = memory
    BY <1>7 DEF Cloned
  <2>2. CopyPlace(copy.view) = {}
    BY <2>1 DEF CopyPlace, EmptyView, View
  <2>3. said = << >>
    BY <1>2, <1>3, <1>7, EmptySeq
  <2>4. key \in [view : [place : KeyPlaces \cup {NullPlace}, size : Nat], text : Seq(Nat)]
    BY <2>1, <1>0, <1>2 DEF EmptyView, View
  <2>5. KeyStored(key)'
    BY <2>1, <2>3, <2>4, <1>0, <1>3, <1>7 DEF KeyStored, IsValid, Readable, BytesOf, EmptyView, View
  <2> QED
    BY <2>1, <2>2, <2>5, <1>5, <1>7 DEF said
<1>8. CASE Owning /\ v.size # 0
  <2>1. PICK p \in Heap \ allocated :
           copy = [view |-> View(p, v.size), memory |-> [memory EXCEPT ![p] = said]]
    BY <1>8 DEF Cloned, said
  <2>2. p # NullPlace /\ p \in KeyPlaces /\ p \notin Buffers
    BY KeyAssumption DEF NullPlace, KeyPlaces
  <2>3. copy.view = View(p, v.size) /\ copy.view.place = p /\ copy.view.size = v.size
    BY <2>1 DEF View
  <2>4. CopyPlace(copy.view) = {p} /\ p \in places
    BY <2>2, <2>3, <1>8 DEF CopyPlace
  <2>5. memory' = [q \in KeyPlaces |-> IF q \in Heap \ places THEN << >>
                                       ELSE IF q = p THEN said ELSE memory[q]]
    BY <2>1, <2>2, <1>1, Zenon DEF Wiped
  <2>6. /\ memory' \in [KeyPlaces -> Seq(Nat)] /\ memory'[p] = said
        /\ \A q \in KeyPlaces : q \in Buffers \cup (places \ {p}) => memory'[q] = memory[q]
    BY <2>2, <2>4, <2>5, <1>1, <1>2, <1>4, KeyAssumption DEF KeyPlaces
  <2>7. Len(said) = v.size
    BY <1>2, <1>3, <1>8
  <2>8. SubSeq(said, 1, v.size) = said
    BY <2>7, <1>2, SubSeqFull
  <2>9. BytesOf(copy.view)' = said
    BY <2>2, <2>3, <2>6, <2>8 DEF BytesOf
  <2>10. Readable(copy.view)' /\ IsValid(copy.view)'
    BY <2>2, <2>3, <2>6, <2>7, <1>2 DEF Readable, IsValid, View
  <2>11. key \in [view : [place : KeyPlaces \cup {NullPlace}, size : Nat], text : Seq(Nat)]
    BY <2>2, <2>3, <1>0, <1>2 DEF View
  <2>12. KeyStored(key)'
    BY <2>2, <2>3, <2>9, <2>10, <2>11, <1>0, <1>3, <1>8 DEF KeyStored
  <2> QED
    BY <2>4, <2>6, <2>12, <1>8 DEF said
<1> QED
  BY <1>6, <1>7, <1>8

LEMMA StoreKeepsKeys ==
  ASSUME KeyInv, NEW v \in Passed, Store(v)
  PROVE  KeyInv'
<1>1. /\ policy \in Policies /\ memory \in [KeyPlaces -> Seq(Nat)]
      /\ allocated \subseteq Heap /\ allocated = Owned(keys) /\ IsFiniteSet(keys)
      /\ policy' = policy
  BY DEF KeyInv, Store
<1>2. Readable(v) /\ v.place \in Buffers \cup {NullPlace}
  BY PassedReadable
<1>3. CASE ~KeyValid(v)
  BY <1>3 DEF Store, KeyInv, KeyStored, KeysApart, Readable, ByText, Owning, IsValid, BytesOf,
              Owned, CopyPlace
<1>4. CASE KeyValid(v)
  <2>1. PICK old \in IF Found(v) = {} THEN {{}} ELSE {{k} : k \in Found(v)} :
         \E c \in Cloned(v) :
            /\ keys' = (keys \ old) \cup {[view |-> c.view, text |-> BytesOf(v)]}
            /\ allocated' = DropKeys(old, allocated) \cup CopyPlace(c.view)
            /\ memory' = Wiped(c.memory, allocated')
    BY <1>4 DEF Store
  <2>2. PICK copy \in Cloned(v) :
            /\ keys' = (keys \ old) \cup {[view |-> copy.view, text |-> BytesOf(v)]}
            /\ allocated' = DropKeys(old, allocated) \cup CopyPlace(copy.view)
            /\ memory' = Wiped(copy.memory, allocated')
    BY <2>1
  <2>new. PICK new : new = [view |-> copy.view, text |-> BytesOf(v)]
    OBVIOUS
  <2> DEFINE rest == keys \ old
  <2>3. /\ old = Found(v) /\ old \subseteq keys
        /\ Found(v) = {k \in keys : IF ByText THEN k.text = BytesOf(v) ELSE k.view = v}
    <3>1. \A k, l \in Found(v) : k = l
      BY <1>2, <1>4, FoundExactly
    <3>2. Found(v) = {k \in keys : IF ByText THEN k.text = BytesOf(v) ELSE k.view = v}
      BY <1>2, <1>4, FoundExactly
    <3> QED
      BY <3>1, <3>2
  <2>4. /\ memory' \in [KeyPlaces -> Seq(Nat)]
        /\ \A q \in KeyPlaces : q \in Buffers \cup (allocated' \ CopyPlace(copy.view))
                                   => memory'[q] = memory[q]
        /\ KeyStored(new)'
        /\ CopyPlace(copy.view) \subseteq Heap \ allocated
        /\ ~Owning => copy.view = v
    <3>1. PICK places : places = allocated'
      OBVIOUS
    <3>2. CopyPlace(copy.view) \subseteq places /\ memory' = Wiped(copy.memory, places)
      BY <3>1, <2>2
    <3>3. /\ memory' \in [KeyPlaces -> Seq(Nat)]
          /\ \A q \in KeyPlaces : q \in Buffers \cup (places \ CopyPlace(copy.view))
                                    => memory'[q] = memory[q]
          /\ KeyStored(new)'
          /\ CopyPlace(copy.view) \subseteq Heap \ allocated
          /\ ~Owning => copy.view = v
      BY <3>2, <2>new, <1>1, <1>2, <1>4, CloneStored
    <3> QED
      BY <3>1, <3>3
  <2>5. Owned(rest) = allocated \ Owned(old)
    <3>1. Owned(old) \cap Owned(rest) = {}
      BY <2>3, CopiesApart
    <3>2. Owned(keys) = Owned(old) \cup Owned(rest)
      BY <2>3, OwnedPlaces
    <3> QED
      BY <3>1, <3>2, <1>1
  <2>6. allocated' = Owned(keys)' /\ allocated' \subseteq Heap
    <3>1. Owned(keys)' = Owned(rest) \cup CopyPlace(copy.view)
      BY <2>2, <2>new, <1>1 DEF Owned, CopyPlace, Owning
    <3> QED
      BY <3>1, <2>2, <2>4, <2>5, <1>1 DEF DropKeys
  <2>7. IsFiniteSet(keys')
    <3>1. IsFiniteSet(rest)
      BY <1>1, FS_Subset
    <3> QED
      BY <3>1, <2>2, FS_AddElement
  <2>8. \A k \in rest : KeyStored(k)'
    <3>1. \A b \in Buffers : memory'[b] = memory[b]
      BY <2>4 DEF KeyPlaces
    <3>2. \A p \in Owned(rest) : memory'[p] = memory[p]
      BY <2>2, <2>4, <2>5, <1>1 DEF KeyPlaces, DropKeys
    <3> QED
      BY <3>1, <3>2, <2>4, <1>1, OthersStay
  <2>9. ASSUME NEW k \in rest
        PROVE  KeysApart(k, new)' /\ KeysApart(new, k)'
    <3>1. IF ByText THEN k.text # BytesOf(v) ELSE k.view # v
      BY <2>3
    <3>2. Owning /\ k.view.place = copy.view.place => k.view.place = NullPlace
      <4> SUFFICES ASSUME Owning, k.view.place = copy.view.place, k.view.place # NullPlace
                   PROVE  FALSE
        OBVIOUS
      <4>1. k.view.place \in Owned(keys)
        BY OwnedPlaces
      <4>2. copy.view.place \in CopyPlace(copy.view)
        BY DEF CopyPlace
      <4> QED
        BY <4>1, <4>2, <2>4, <1>1
    <3>3. Owning => ByText
      BY <1>1, PolicyCases
    <3>4. ByText' = ByText /\ Owning' = Owning
      BY <1>1 DEF ByText, Owning
    <3> QED
      BY <3>1, <3>2, <3>3, <3>4, <2>4, <2>new DEF KeysApart
  <2>10. \A k, l \in rest : KeysApart(k, l)'
    BY <1>1 DEF KeyInv, KeysApart, ByText, Owning
  <2>11. KeysApart(new, new)'
    BY DEF KeysApart
  <2>12. keys' = rest \cup {new}
    BY <2>2, <2>new
  <2> HIDE DEF rest
  <2>13. \A k, l \in keys' : KeysApart(k, l)'
    BY <2>9, <2>10, <2>11, <2>12
  <2>14. \A k \in keys' : KeyStored(k)'
    BY <2>4, <2>8, <2>12
  <2> QED
    BY <2>4, <2>6, <2>7, <2>13, <2>14, <1>1 DEF KeyInv
<1> QED
  BY <1>3, <1>4

LEMMA RewriteKeepsKeys ==
  ASSUME KeyInv, NEW b \in Buffers, NEW t \in Texts, Rewrite(b, t)
  PROVE  KeyInv'
<1>1. /\ policy \in Policies /\ memory \in [KeyPlaces -> Seq(Nat)]
      /\ allocated \subseteq Heap /\ allocated = Owned(keys) /\ IsFiniteSet(keys)
      /\ policy' = policy /\ allocated' = allocated /\ keys' = keys
      /\ memory' = [memory EXCEPT ![b] = t]
  BY DEF KeyInv, Rewrite
<1>2. t \in Seq(Nat)
  BY KeyAssumption
<1>3. memory' \in [KeyPlaces -> Seq(Nat)]
  BY <1>1, <1>2 DEF KeyPlaces
<1>4. Owned(keys)' = Owned(keys)
  BY <1>1 DEF Owned, CopyPlace, Owning
<1>5. ASSUME NEW k \in keys
      PROVE  KeyStored(k)'
  <2>1. KeyStored(k) /\ k.view.place # b
    BY DEF KeyInv, Rewrite
  <2>2. memory'[k.view.place] = memory[k.view.place] \/ k.view.place = NullPlace
    BY <2>1, <1>1 DEF KeyStored, Readable
  <2> QED
    BY <2>1, <2>2, <1>1, <1>3, StoredStays
<1>6. \A k, l \in keys : KeysApart(k, l)'
  BY <1>1 DEF KeyInv, KeysApart, ByText, Owning
<1> QED
  BY <1>1, <1>3, <1>4, <1>5, <1>6 DEF KeyInv

LEMMA InitMapKeepsKeys ==
  ASSUME KeyInv, NEW o \in {"bytes", "borrowed", "owned", "other"}, InitMap(o)
  PROVE  KeyInv'
<1>1. /\ memory' = memory /\ allocated' = allocated /\ keys' = keys /\ keys = {}
  BY DEF InitMap
<1>2. Owned(keys)' = {} /\ Owned(keys) = {}
  BY <1>1 DEF Owned
<1>3. policy' \in Policies
  <2>1. o = "other" => ~ConfigValid(ConfigStringView(o))
    BY DEF ConfigValid, ConfigStringView, ConfigBytes, NoFn
  <2> QED
    BY <2>1 DEF InitMap, KeyInv, Policies
<1> QED
  BY <1>1, <1>2, <1>3 DEF KeyInv

LEMMA KeyInvKept == KeyInv /\ [KeyNext]_keyVars => KeyInv'
<1> SUFFICES ASSUME KeyInv, [KeyNext]_keyVars
             PROVE  KeyInv'
  OBVIOUS
<1>1. ASSUME NEW o \in {"bytes", "borrowed", "owned", "other"}, InitMap(o)
      PROVE  KeyInv'
  BY <1>1, InitMapKeepsKeys
<1>2. ASSUME NEW v \in Passed, Store(v)
      PROVE  KeyInv'
  BY <1>2, StoreKeepsKeys
<1>3. ASSUME NEW v \in Passed, Remove(v)
      PROVE  KeyInv'
  <2>1. PICK k \in Found(v) : keys' = keys \ {k} /\ allocated' = DropKeys({k}, allocated)
    BY <1>3 DEF Remove
  <2>2. {k} \in SUBSET keys
    BY <2>1 DEF Found
  <2>3. policy' = policy /\ memory' = Wiped(memory, allocated')
    BY <1>3 DEF Remove
  <2> QED
    BY <2>1, <2>2, <2>3, DropKeepsKeys
<1>4. CASE ClearKeys
  <2>1. keys' = keys \ keys /\ allocated' = DropKeys(keys, allocated) /\ policy' = policy
        /\ memory' = Wiped(memory, allocated')
    BY <1>4 DEF ClearKeys
  <2> QED
    BY <2>1, DropKeepsKeys
<1>5. ASSUME NEW b \in Buffers, NEW t \in Texts, Rewrite(b, t)
      PROVE  KeyInv'
  BY <1>5, RewriteKeepsKeys
<1>6. ASSUME UNCHANGED <<policy, memory, allocated, keys>>
      PROVE  KeyInv'
  BY <1>6 DEF KeyInv, KeyStored, KeysApart, Readable, ByText, Owning, IsValid, BytesOf,
              Owned, CopyPlace
<1> QED
  BY <1>1, <1>2, <1>3, <1>4, <1>5, <1>6 DEF KeyNext, StoreFails, keyVars

\* Each stored key whose text is not empty has one copy of its own.
LEMMA CopiesCounted ==
  ASSUME KeyInv
  PROVE  Cardinality(Owned(keys)) = Cardinality({k \in keys : Owning /\ k.text # << >>})
<1> DEFINE full == {k \in keys : Owning /\ k.text # << >>}
           copyOf == [k \in full |-> k.view.place]
<1>1. IsFiniteSet(full)
  BY FS_Subset DEF KeyInv
<1>2. ASSUME NEW k \in keys, Owning
      PROVE  k.text # << >> <=> k.view.place # NullPlace
  <2>1. KeyStored(k) /\ ByText /\ memory \in [KeyPlaces -> Seq(Nat)]
    BY <1>2, PolicyCases DEF KeyInv
  <2>2. Readable(k.view) /\ IsValid(k.view) /\ k.text = BytesOf(k.view)
    BY <2>1 DEF KeyStored
  <2>3. k.text \in Seq(Nat) /\ Len(k.text) = k.view.size
    BY <2>1, <2>2, BytesRead
  <2>4. k.text # << >> <=> k.view.size # 0
    BY <2>3, EmptySeq
  <2> QED
    BY <2>1, <2>4, <1>2 DEF KeyStored
<1>3. \A p : p \in Owned(keys) <=> \E k \in full : p = k.view.place
  BY <1>2, OwnedPlaces
<1>4. copyOf \in [full -> Owned(keys)]
  BY <1>3
<1>5. \A k, l \in full : copyOf[k] = copyOf[l] => k = l
  <2> SUFFICES ASSUME NEW k \in full, NEW l \in full, copyOf[k] = copyOf[l]
               PROVE  k = l
    OBVIOUS
  <2>1. k.view.place = l.view.place /\ k.view.place # NullPlace /\ Owning
    BY <1>2
  <2>2. KeysApart(k, l)
    BY DEF KeyInv
  <2> QED
    BY <2>1, <2>2 DEF KeysApart
<1>6. \A p \in Owned(keys) : \E k \in full : copyOf[k] = p
  BY <1>3
<1>7. copyOf \in Bijection(full, Owned(keys))
  BY <1>4, <1>5, <1>6, Fun_IsBij
<1>8. ExistsBijection(full, Owned(keys))
  BY <1>7, Zenon DEF ExistsBijection
<1> QED
  BY <1>1, <1>8, FS_Bijection

\* Whatever the texts, the buffers, the heap and the hash are: under every policy a map
\* comes with, a lookup finds exactly the key stored for what the policy compares, a stored
\* key keeps its text, and what is allocated is one copy for each (KeysSound; lor_map_set_raw,
\* lor_map_remove_raw, lor_map_clear and the callbacks of lor_map_config_string_view).
THEOREM KeysAreSound == KeySpec => []KeysSound
<1>1. KeyInit => KeyInv
  <2> SUFFICES ASSUME KeyInit
               PROVE  KeyInv
    OBVIOUS
  <2>1. << >> \in Seq(Nat)
    OBVIOUS
  <2>2. memory \in [KeyPlaces -> Seq(Nat)]
    BY <2>1, Zenon DEF KeyInit, KeyPlaces
  <2>3. Owned(keys) = {} /\ IsFiniteSet(keys)
    BY FS_EmptySet DEF KeyInit, Owned
  <2> QED
    BY <2>2, <2>3 DEF KeyInit, KeyInv, Policies
<1>2. KeyInv => KeysSound
  <2> SUFFICES ASSUME KeyInv
               PROVE  KeysKept /\ LookupByText
    BY DEF KeysSound
  <2>1. /\ \A k \in keys : KeyStored(k)
        /\ allocated = Owned(keys) /\ policy \in Policies /\ IsFiniteSet(keys)
    BY DEF KeyInv
  <2>2. ASSUME NEW k \in keys
        PROVE  /\ k.view.place \in Buffers \cup allocated \cup {NullPlace}
               /\ ByText => BytesOf(k.view) = k.text
    <3>1. Owning /\ k.view.place # NullPlace => k.view.place \in Owned(keys)
      BY OwnedPlaces
    <3> QED
      BY <3>1, <2>1 DEF KeyStored
  <2>3. KeysKept
    BY <2>1, <2>2, CopiesCounted DEF KeysKept
  <2>4. ASSUME NEW v \in Passed, IsValid(v)
        PROVE  LET same == {k \in keys : IF ByText THEN k.text = BytesOf(v) ELSE k.view = v}
               IN Found(v) = same /\ Cardinality(same) <= 1
    <3>1. KeyValid(v) /\ Readable(v)
      BY <2>1, <2>4, PolicyCases, PassedReadable
    <3>2. Found(v) = {k \in keys : IF ByText THEN k.text = BytesOf(v) ELSE k.view = v}
      BY <3>1, FoundExactly
    <3>3. \A k, l \in Found(v) : k = l
      BY <3>1, FoundExactly
    <3>4. Cardinality(Found(v)) <= 1
      <4>1. CASE Found(v) = {}
        BY <4>1, FS_EmptySet
      <4>2. ASSUME NEW k \in Found(v)
            PROVE  Cardinality(Found(v)) <= 1
        <5>1. Found(v) = {k}
          BY <3>3
        <5>2. Cardinality({k}) = 1
          BY FS_Singleton
        <5> QED
          BY <5>1, <5>2
      <4> QED
        BY <4>1, <4>2
    <3> QED
      BY <3>2, <3>4, Zenon
  <2>5. LookupByText
    BY <2>4 DEF LookupByText
  <2> QED
    BY <2>3, <2>5
<1> QED
  BY <1>1, <1>2, KeyInvKept, PTL DEF KeySpec
----------------------------------------------------------------------------
(* Cli: every part of the arguments is used once, and what was accepted is  *)
(* what the destinations hold.                                              *)

TokenTexts == {t.text : t \in Tokens} \cup {Absent, "text"}
OptionSet ==
    [short : {o.short : o \in OptionSpecs}, long : {o.long : o \in OptionSpecs},
     kind : {o.kind : o \in OptionSpecs}, required : {o.required : o \in OptionSpecs},
     repeatable : BOOLEAN, text : BOOLEAN, values : Seq(TokenTexts), occurrences : Nat]
PositionalSet ==
    [kind : {p.kind : p \in PositionalSpecs}, required : {p.required : p \in PositionalSpecs},
     values : Seq(TokenTexts), occurrences : Nat]
PartSet == Nat \X Nat
UseSet == [parts : Seq(PartSet), as : {"option", "positional", "end"}, to : Nat, text : TokenTexts]
CursorSet == [i : Nat \ {0}, read : Nat, position : Nat \ {0}, enabled : BOOLEAN]

CliTypes ==
    /\ options \in Seq(OptionSet) /\ positionals \in Seq(PositionalSet)
    /\ argv \in Seq(Tokens) /\ cursor \in CursorSet /\ uses \in Seq(UseSet)

\* Where the loop may be: inside of a cluster only while options are enabled.
CursorAt(c) ==
    /\ c.i <= Len(argv) + 1
    /\ c.read # 0 => c.i <= Len(argv) /\ argv[c.i].form = "cluster" /\ c.enabled

\* The uses so far follow each other, and the loop stands behind the last part used.
UsesInOrder == \A n \in DOMAIN uses : InOrder(uses[n].parts, PartAfter(n - 1))

CliInv ==
    /\ CliTypes
    /\ phase = "define" => uses = << >> /\ cursor = AtStart
    /\ phase = "parse" => CursorAt(cursor) /\ PartAfter(Len(uses)) = <<cursor.i, cursor.read + 1>>
    /\ phase = "done" /\ code = "OK" => PartAfter(Len(uses)) = <<Len(argv) + 1, 1>>
    /\ UsesInOrder
    /\ AcceptedKept

----------------------------------------------------------------------------
(* The parts of argv.                                                       *)

LEMMA PartsPositive ==
  ASSUME NEW t \in Tokens
  PROVE  /\ Parts(t) \in Nat \ {0} /\ t.letters \in Seq(STRING)
         /\ Len(t.letters) <= Parts(t)
         /\ t.form # "cluster" /\ t.form # "long" => Parts(t) = 1
         /\ t.form = "cluster" /\ t.letters # << >> =>
               Parts(t) = Len(t.letters) + (IF t.text # Absent THEN 1 ELSE 0)
<1>1. t.letters \in Seq(STRING) /\ (t.form # "cluster" => t.letters = << >>)
  BY CliAssumption
<1>2. Len(t.letters) \in Nat /\ (t.letters = << >> <=> Len(t.letters) = 0)
  BY <1>1, EmptySeq
<1> DEFINE more == IF t.text # Absent /\ t.form \in {"long", "cluster"} THEN 1 ELSE 0
           own == IF t.letters = << >> THEN 1 ELSE Len(t.letters)
<1>3. Parts(t) = own + more
  BY DEF Parts
<1>4. more \in {0, 1} /\ own \in Nat \ {0} /\ Len(t.letters) <= own
  BY <1>2
<1>5. t.form # "cluster" /\ t.form # "long" => more = 0 /\ own = 1
  BY <1>1
<1>6. t.form = "cluster" => more = IF t.text # Absent THEN 1 ELSE 0
  OBVIOUS
<1>7. t.letters # << >> => own = Len(t.letters)
  OBVIOUS
<1>8. t.form = "cluster" /\ t.letters # << >> =>
         Parts(t) = Len(t.letters) + (IF t.text # Absent THEN 1 ELSE 0)
  <2> HIDE DEF more, own
  <2> QED
    BY <1>3, <1>6, <1>7, Zenon
<1> HIDE DEF more, own
<1>9. own + more \in Nat \ {0} /\ Len(t.letters) <= own + more
  BY <1>2, <1>4
<1>10. t.form # "cluster" /\ t.form # "long" => own + more = 1
  BY <1>5
<1> QED
  BY <1>1, <1>3, <1>8, <1>9, <1>10, Zenon

\* The parts of one token from one of them to the last.
LEMMA RestOfToken ==
  ASSUME argv \in Seq(Tokens), NEW n \in 1 .. Len(argv), NEW from \in Nat \ {0},
         from <= Parts(argv[n])
  PROVE  LET parts == PartsOf(n, from, Parts(argv[n]))
         IN /\ parts \in Seq(PartSet) /\ InOrder(parts, <<n, from>>)
            /\ Following(parts[Len(parts)]) = <<n + 1, 1>>
<1> DEFINE to == Parts(argv[n])
           size == to - from + 1
           parts == PartsOf(n, from, to)
<1>1. to \in Nat \ {0}
  <2>1. argv[n] \in Tokens
    OBVIOUS
  <2> QED
    BY <2>1, PartsPositive
<1>2. size \in Nat \ {0}
  BY <1>1
<1>3. parts = [k \in 1 .. size |-> <<n, from + k - 1>>]
  BY DEF PartsOf
<1> HIDE DEF parts
<1>4. \A k \in 1 .. size : parts[k] = <<n, from + k - 1>> /\ parts[k] \in PartSet
  BY <1>2, <1>3 DEF PartSet
<1>5. parts \in Seq(PartSet) /\ Len(parts) = size
  BY <1>2, <1>3, <1>4
<1>6. parts # << >>
  BY <1>2, <1>5, EmptySeq
<1>7. parts[1] = <<n, from>>
  <2>1. 1 \in 1 .. size /\ from + 1 - 1 = from
    BY <1>2
  <2> QED
    BY <2>1, <1>4
<1>8. ASSUME NEW k \in 1 .. Len(parts) - 1
      PROVE  parts[k + 1] = Following(parts[k])
  <2>1. k \in 1 .. size /\ k + 1 \in 1 .. size /\ from + k - 1 < to
        /\ from + (k + 1) - 1 = (from + k - 1) + 1
    BY <1>1, <1>2, <1>5
  <2>2. \A m \in Nat : m < to => Following(<<n, m>>) = <<n, m + 1>>
    BY DEF Following
  <2>3. Following(<<n, from + k - 1>>) = <<n, (from + k - 1) + 1>>
    BY <2>1, <2>2
  <2>4. parts[k + 1] = <<n, from + (k + 1) - 1>> /\ parts[k] = <<n, from + k - 1>>
    BY <2>1, <1>4
  <2> QED
    BY <2>1, <2>3, <2>4
<1>9. Following(parts[Len(parts)]) = <<n + 1, 1>>
  <2>1. size \in 1 .. size /\ from + size - 1 = to
    BY <1>1, <1>2
  <2>2. parts[Len(parts)] = <<n, to>>
    BY <2>1, <1>4, <1>5
  <2> QED
    BY <2>2, <1>1 DEF Following
<1>10. InOrder(parts, <<n, from>>)
  BY <1>6, <1>7, <1>8 DEF InOrder
<1> QED
  BY <1>5, <1>9, <1>10 DEF parts

\* One part is in order, and so are parts behind parts.
LEMMA OnePart ==
  ASSUME NEW part \in PartSet
  PROVE  /\ <<part>> \in Seq(PartSet) /\ InOrder(<<part>>, part)
         /\ <<part>>[Len(<<part>>)] = part
BY DEF InOrder

LEMMA PartsJoin ==
  ASSUME NEW p \in Seq(PartSet), NEW q \in Seq(PartSet), NEW start,
         InOrder(p, start), InOrder(q, Following(p[Len(p)]))
  PROVE  /\ p \o q \in Seq(PartSet) /\ InOrder(p \o q, start)
         /\ (p \o q)[Len(p \o q)] = q[Len(q)]
<1>1. Len(p) \in Nat \ {0} /\ Len(q) \in Nat \ {0}
  BY EmptySeq DEF InOrder
<1> DEFINE r == p \o q
<1>2. /\ r \in Seq(PartSet) /\ Len(r) = Len(p) + Len(q)
      /\ \A k \in 1 .. Len(r) : r[k] = IF k <= Len(p) THEN p[k] ELSE q[k - Len(p)]
  BY ConcatProperties
<1> HIDE DEF r
<1>3. r # << >>
  BY <1>1, <1>2, EmptySeq
<1>4. r[1] = start
  BY <1>1, <1>2 DEF InOrder
<1>5. r[Len(r)] = q[Len(q)]
  BY <1>1, <1>2
<1>6. ASSUME NEW k \in 1 .. Len(r) - 1
      PROVE  r[k + 1] = Following(r[k])
  <2>0. k \in 1 .. Len(r) /\ k + 1 \in 1 .. Len(r)
    BY <1>1, <1>2
  <2>1. CASE k < Len(p)
    <3>1. r[k] = p[k] /\ r[k + 1] = p[k + 1] /\ k \in 1 .. Len(p) - 1
      BY <2>0, <2>1, <1>1, <1>2
    <3> QED
      BY <3>1 DEF InOrder
  <2>2. CASE k = Len(p)
    <3>1. r[k] = p[Len(p)] /\ r[k + 1] = q[1]
      BY <2>0, <2>2, <1>1, <1>2
    <3> QED
      BY <3>1 DEF InOrder
  <2>3. CASE k > Len(p)
    <3>1. r[k] = q[k - Len(p)] /\ r[k + 1] = q[k + 1 - Len(p)]
      BY <2>0, <2>3, <1>1, <1>2
    <3>2. k - Len(p) \in 1 .. Len(q) - 1 /\ k + 1 - Len(p) = (k - Len(p)) + 1
      BY <2>3, <1>1, <1>2
    <3> QED
      BY <3>1, <3>2 DEF InOrder
  <2> QED
    BY <2>1, <2>2, <2>3, <1>1
<1> QED
  BY <1>2, <1>3, <1>4, <1>5, <1>6 DEF InOrder, r

\* One more use.
LEMMA OneMoreUse ==
  ASSUME CliTypes, NEW u \in UseSet, uses' = Append(uses, u), argv' = argv
  PROVE  /\ uses' \in Seq(UseSet) /\ Len(uses') = Len(uses) + 1
         /\ \A n \in 1 .. Len(uses) : uses'[n] = uses[n]
         /\ uses'[Len(uses) + 1] = u
         /\ \A part : Following(part)' = Following(part)
         /\ \A n \in 0 .. Len(uses) : PartAfter(n)' = PartAfter(n)
         /\ PartAfter(Len(uses))' = Following(u.parts[Len(u.parts)])
<1>1. /\ uses' \in Seq(UseSet) /\ Len(uses') = Len(uses) + 1
      /\ \A n \in 1 .. Len(uses) : uses'[n] = uses[n]
      /\ uses'[Len(uses) + 1] = u /\ Len(uses) \in Nat
  BY DEF CliTypes
<1>2. \A part : Following(part)' = Following(part)
  BY DEF Following, Parts
<1>3. \A n \in 0 .. Len(uses) : PartAfter(n)' = PartAfter(n)
  <2> SUFFICES ASSUME NEW n \in 0 .. Len(uses)
               PROVE  PartAfter(n)' = PartAfter(n)
    OBVIOUS
  <2>1. CASE n = 0
    BY <2>1 DEF PartAfter
  <2>2. CASE n # 0
    <3>1. uses'[n] = uses[n]
      BY <2>2, <1>1
    <3> QED
      BY <3>1, <2>2, <1>2 DEF PartAfter
  <2> QED
    BY <2>1, <2>2
<1>4. PartAfter(Len(uses))' = Following(u.parts[Len(u.parts)])
  <2>1. Len(uses') # 0 /\ uses'[Len(uses')] = u
    BY <1>1
  <2> QED
    BY <2>1, <1>2 DEF PartAfter
<1> QED
  BY <1>1, <1>2, <1>3, <1>4

LEMMA UsesStayInOrder ==
  ASSUME CliTypes, UsesInOrder, NEW u \in UseSet, uses' = Append(uses, u), argv' = argv,
         InOrder(u.parts, PartAfter(Len(uses)))
  PROVE  UsesInOrder'
<1>1. /\ uses' \in Seq(UseSet) /\ Len(uses') = Len(uses) + 1
      /\ \A n \in 1 .. Len(uses) : uses'[n] = uses[n]
      /\ uses'[Len(uses) + 1] = u
      /\ \A part : Following(part)' = Following(part)
      /\ \A n \in 0 .. Len(uses) : PartAfter(n)' = PartAfter(n)
  BY OneMoreUse
<1>2. Len(uses) \in Nat /\ uses \in Seq(UseSet)
  BY DEF CliTypes
<1>3. ASSUME NEW n \in DOMAIN uses'
      PROVE  InOrder(uses[n].parts, PartAfter(n - 1))'
  <2>1. n \in 1 .. Len(uses) + 1 /\ n - 1 \in 0 .. Len(uses)
    BY <1>1, <1>2
  <2>2. PartAfter(n - 1)' = PartAfter(n - 1)
    BY <2>1, <1>1
  <2>3. CASE n \in 1 .. Len(uses)
    <3>1. InOrder(uses[n].parts, PartAfter(n - 1)) /\ uses'[n] = uses[n]
      BY <2>3, <1>1, <1>2 DEF UsesInOrder
    <3> QED
      BY <3>1, <2>2, <1>1 DEF InOrder
  <2>4. CASE n = Len(uses) + 1
    <3>1. InOrder(u.parts, PartAfter(n - 1)) /\ uses'[n] = u
      BY <2>4, <1>1, <1>2
    <3> QED
      BY <3>1, <2>2, <1>1 DEF InOrder
  <2> QED
    BY <2>1, <2>3, <2>4
<1> QED
  BY <1>3 DEF UsesInOrder

----------------------------------------------------------------------------
(* The destinations.                                                        *)

\* The uses of a destination are known by what was used before and the new use.
LEMMA UsesGrow ==
  ASSUME CliTypes, NEW u \in UseSet, uses' = Append(uses, u), NEW as, NEW k
  PROVE  /\ UsesOf(as, k)' = UsesOf(as, k)
                             \cup (IF u.as = as /\ u.to = k THEN {Len(uses) + 1} ELSE {})
         /\ UsesOf(as, k) \subseteq 1 .. Len(uses)
<1>1. /\ uses' \in Seq(UseSet) /\ Len(uses') = Len(uses) + 1
      /\ \A n \in 1 .. Len(uses) : uses'[n] = uses[n]
      /\ uses'[Len(uses) + 1] = u /\ Len(uses) \in Nat /\ uses \in Seq(UseSet)
  BY DEF CliTypes
<1>2. DOMAIN uses' = 1 .. Len(uses) + 1 /\ DOMAIN uses = 1 .. Len(uses)
  BY <1>1
<1>3. \A n : n \in 1 .. Len(uses) + 1 <=> n \in 1 .. Len(uses) \/ n = Len(uses) + 1
  BY <1>1
<1>4. Len(uses) + 1 \notin 1 .. Len(uses)
  BY <1>1
<1> QED
  BY <1>1, <1>2, <1>3, <1>4, Zenon DEF UsesOf

\* A destination that is not used holds what it held.
LEMMA HoldsStill ==
  ASSUME CliTypes, NEW u \in UseSet, uses' = Append(uses, u),
         NEW d, NEW mine \in SUBSET (1 .. Len(uses)), Holds(d, mine)
  PROVE  Holds(d, mine)'
<1>1. \A n \in 1 .. Len(uses) : uses'[n] = uses[n]
  BY DEF CliTypes
<1> QED
  BY <1>1 DEF Holds

\* What was accepted is added to the destination.
LEMMA HoldsMore ==
  ASSUME CliTypes, NEW u \in UseSet, uses' = Append(uses, u),
         NEW d, NEW e, NEW mine \in SUBSET (1 .. Len(uses)), Holds(d, mine),
         d.values \in Seq(TokenTexts), d.occurrences \in Nat,
         e.kind = d.kind, e.occurrences = d.occurrences + 1,
         e.values = IF d.kind \in Lists THEN Append(d.values, u.text) ELSE <<u.text>>,
         NEW more, more = mine \cup {Len(uses) + 1}
  PROVE  Holds(e, more)'
<1>0. PICK size : size = Len(uses)
  OBVIOUS
<1>1. /\ \A n \in 1 .. size : uses'[n] = uses[n]
      /\ uses'[size + 1] = u /\ size \in Nat
  BY <1>0 DEF CliTypes
<1>2. IsFiniteSet(mine) /\ size + 1 \notin mine
  <2>1. IsFiniteSet(1 .. size)
    BY <1>1, FS_Interval
  <2>2. size + 1 \notin 1 .. size
    BY <1>1
  <2> QED
    BY <2>1, <2>2, <1>0, FS_Subset
<1>3. Cardinality(mine) \in Nat /\ Cardinality(more) = Cardinality(mine) + 1
  BY <1>0, <1>2, FS_CardinalityType, FS_AddElement
<1>4. \A n \in mine : {m \in more : m <= n} = {m \in mine : m <= n}
  <2>1. \A n \in mine : n \in 1 .. size /\ ~(size + 1 <= n)
    BY <1>0, <1>1
  <2> QED
    BY <2>1, <1>0
<1>5. {m \in more : m <= size + 1} = more
  <2>1. \A m \in more : m <= size + 1
    BY <1>0, <1>1
  <2> QED
    BY <2>1
<1>6. e.occurrences = Cardinality(more)
  BY <1>3 DEF Holds
<1>7. CASE d.kind \in Lists
  <2>1. Len(d.values) = Cardinality(mine) /\ e.values = Append(d.values, u.text)
    BY <1>7 DEF Holds
  <2>2. /\ Len(e.values) = Cardinality(more)
        /\ e.values[Cardinality(more)] = u.text
        /\ \A c \in 1 .. Cardinality(mine) : e.values[c] = d.values[c]
    BY <2>1, <1>3
  <2>3. ASSUME NEW n \in mine
        PROVE  e.values[Cardinality({m \in more : m <= n})] = uses'[n].text
    <3> DEFINE c == Cardinality({m \in mine : m <= n})
    <3>1. d.values[c] = uses[n].text /\ uses'[n] = uses[n]
      BY <1>0, <1>1, <1>7 DEF Holds
    <3>2. c \in 1 .. Cardinality(mine)
      <4>1. IsFiniteSet({m \in mine : m <= n}) /\ c <= Cardinality(mine)
        BY <1>2, FS_Subset
      <4>2. n \in {m \in mine : m <= n}
        BY <1>0, <1>1
      <4>3. c \in Nat /\ c # 0
        BY <4>1, <4>2, FS_CardinalityType, FS_EmptySet
      <4> QED
        BY <4>1, <4>3, <1>3
    <3>3. Cardinality({m \in more : m <= n}) = c
      BY <1>4
    <3> QED
      BY <3>1, <3>2, <3>3, <2>2
  <2>4. e.values[Cardinality({m \in more : m <= size + 1})] = uses'[size + 1].text
    BY <2>2, <1>1, <1>5
  <2>5. \A n \in more : n \in mine \/ n = size + 1
    BY <1>0
  <2>6. \A n \in more : e.values[Cardinality({m \in more : m <= n})] = uses'[n].text
    BY <2>3, <2>4, <2>5, Zenon
  <2> QED
    BY <2>2, <2>6, <1>6, <1>7 DEF Holds
<1>8. CASE d.kind \notin Lists
  <2>1. e.values = <<u.text>>
    BY <1>8
  <2>2. more # {} /\ \A n \in more : n \in mine \/ n = size + 1
    BY <1>0
  <2>3. \A n \in mine : ~ \A m \in more : m <= n
    <3>1. size + 1 \in more /\ \A n \in mine : n \in 1 .. size
      BY <1>0
    <3> QED
      BY <3>1, <1>1
  <2>4. \A n \in more : (\A m \in more : m <= n) => e.values[1] = uses'[n].text
    <3>0. \A x : <<x>>[1] = x
      OBVIOUS
    <3>1. e.values[1] = u.text
      BY <2>1, <3>0, Zenon
    <3> QED
      BY <3>1, <2>2, <2>3, <1>1, Zenon
  <2> QED
    BY <2>1, <2>2, <2>4, <1>6, <1>8 DEF Holds
<1> QED
  BY <1>7, <1>8

LEMMA OptionAssigned ==
  ASSUME NEW d \in OptionSet, NEW t \in TokenTexts
  PROVE  /\ Assigned(d, t) \in OptionSet
         /\ Assigned(d, t).kind = d.kind /\ Assigned(d, t).text = d.text
         /\ Assigned(d, t).occurrences = d.occurrences + 1
         /\ Assigned(d, t).values = IF d.kind \in Lists THEN Append(d.values, t) ELSE <<t>>
<1>1. d.values \in Seq(TokenTexts) /\ d.occurrences + 1 \in Nat
  BY DEF OptionSet
<1>2. Append(d.values, t) \in Seq(TokenTexts) /\ <<t>> \in Seq(TokenTexts)
  BY <1>1
<1> QED
  BY <1>1, <1>2 DEF Assigned, OptionSet

LEMMA PositionalAssigned ==
  ASSUME NEW d \in PositionalSet, NEW t \in TokenTexts
  PROVE  /\ Assigned(d, t) \in PositionalSet
         /\ Assigned(d, t).kind = d.kind
         /\ Assigned(d, t).occurrences = d.occurrences + 1
         /\ Assigned(d, t).values = IF d.kind \in Lists THEN Append(d.values, t) ELSE <<t>>
<1>1. d.values \in Seq(TokenTexts) /\ d.occurrences + 1 \in Nat
  BY DEF PositionalSet
<1>2. Append(d.values, t) \in Seq(TokenTexts) /\ <<t>> \in Seq(TokenTexts)
  BY <1>1
<1> QED
  BY <1>1, <1>2 DEF Assigned, PositionalSet

\* The texts kept for the help depend on the options' texts only.
LEMMA DefaultsStay ==
  ASSUME DefaultsOwned, texts' = texts, DOMAIN options' = DOMAIN options,
         \A k \in DOMAIN options : options'[k].text = options[k].text
  PROVE  DefaultsOwned'
<1>1. {k \in DOMAIN options' : options'[k].text} = {k \in DOMAIN options : options[k].text}
  OBVIOUS
<1> QED
  BY <1>1, Zenon DEF DefaultsOwned

----------------------------------------------------------------------------
(* The steps of a parse.                                                    *)

\* A value was accepted: what remains to be shown is what the destinations hold.
LEMMA UseAccepted ==
  ASSUME CliInv, phase = "parse", phase' = "parse", argv' = argv,
         NEW u \in UseSet, uses' = Append(uses, u), InOrder(u.parts, PartAfter(Len(uses))),
         cursor' \in CursorSet, CursorAt(cursor'),
         Following(u.parts[Len(u.parts)]) = <<cursor'.i, cursor'.read + 1>>,
         options' \in Seq(OptionSet), positionals' \in Seq(PositionalSet), AcceptedKept'
  PROVE  CliInv'
<1>1. CliTypes /\ UsesInOrder
  BY DEF CliInv
<1>2. uses' \in Seq(UseSet) /\ PartAfter(Len(uses))' = Following(u.parts[Len(u.parts)])
  BY <1>1, OneMoreUse
<1>3. UsesInOrder'
  BY <1>1, UsesStayInOrder
<1>4. CliTypes'
  BY <1>1, <1>2 DEF CliTypes
<1>5. CursorAt(cursor)'
  BY DEF CursorAt
<1> QED
  BY <1>2, <1>3, <1>4, <1>5 DEF CliInv

\* Nothing is used or registered.
LEMMA NothingUsed ==
  ASSUME UNCHANGED <<options, positionals, texts, argv, uses>>
  PROVE  /\ UsesInOrder => UsesInOrder'
         /\ AcceptedKept => AcceptedKept'
         /\ \A n : PartAfter(n)' = PartAfter(n)
<1>1. \A part : Following(part)' = Following(part)
  BY DEF Following, Parts
<1>2. \A n : PartAfter(n)' = PartAfter(n)
  BY <1>1 DEF PartAfter
<1>3. \A parts, start : InOrder(parts, start)' <=> InOrder(parts, start)
  BY <1>1 DEF InOrder
<1>4. UsesInOrder => UsesInOrder'
  <2> SUFFICES ASSUME UsesInOrder, NEW n \in DOMAIN uses
               PROVE  InOrder(uses[n].parts, PartAfter(n - 1))'
    BY DEF UsesInOrder
  <2>1. PICK parts, start : parts = uses[n].parts /\ start = PartAfter(n - 1)
    OBVIOUS
  <2>2. InOrder(parts, start)'
    BY <2>1, <1>3 DEF UsesInOrder
  <2>3. PartAfter(n - 1)' = start /\ uses'[n].parts = parts
    BY <2>1, <1>2
  <2> QED
    BY <2>2, <2>3, <1>1 DEF InOrder
<1>5. AcceptedKept => AcceptedKept'
  <2>1. \A as, k : UsesOf(as, k)' = UsesOf(as, k)
    BY DEF UsesOf
  <2>2. \A d, mine : Holds(d, mine)' <=> Holds(d, mine)
    BY DEF Holds
  <2>3. DefaultsOwned => DefaultsOwned'
    BY DEF DefaultsOwned
  <2>4. ASSUME NEW as, NEW k, Holds(options[k], UsesOf(as, k))
        PROVE  Holds(options[k], UsesOf(as, k))'
    BY <2>1, <2>4 DEF Holds
  <2>5. ASSUME NEW as, NEW k, Holds(positionals[k], UsesOf(as, k))
        PROVE  Holds(positionals[k], UsesOf(as, k))'
    BY <2>1, <2>5 DEF Holds
  <2> QED
    BY <2>3, <2>4, <2>5 DEF AcceptedKept
<1> QED
  BY <1>2, <1>4, <1>5

\* The parse ends with an error.
LEMMA ParseFails ==
  ASSUME CliInv, phase' = "done", code' # "OK",
         UNCHANGED <<options, positionals, texts, argv, cursor, uses>>
  PROVE  CliInv'
<1>1. CliTypes'
  BY DEF CliInv, CliTypes
<1>2. UsesInOrder' /\ AcceptedKept'
  BY NothingUsed DEF CliInv
<1> QED
  BY <1>1, <1>2 DEF CliInv

\* lor_cli__apply_option.
LEMMA ApplyKeeps ==
  ASSUME CliInv, phase = "parse", NEW k \in DOMAIN options, NEW t \in TokenTexts,
         NEW parts \in Seq(PartSet), InOrder(parts, PartAfter(Len(uses))),
         NEW next \in CursorSet, CursorAt(next),
         Following(parts[Len(parts)]) = <<next.i, next.read + 1>>,
         ApplyOption(k, t, parts, next)
  PROVE  CliInv'
<1>1. /\ CliTypes /\ options \in Seq(OptionSet) /\ AcceptedKept /\ k \in Nat
      /\ options[k] \in OptionSet /\ DOMAIN options = 1 .. Len(options)
  BY DEF CliInv, CliTypes
<1>2. PICK c \in ApplyCodes(options[k], t) :
         IF c # "OK" THEN OptionRefused(k, t, c)
         ELSE /\ options' = [options EXCEPT ![k] = Assigned(@, t)]
              /\ uses' = Append(uses, Use(parts, "option", k, t))
              /\ cursor' = next
              /\ UNCHANGED <<positionals, texts, phase, argv, code>>
  BY DEF ApplyOption
<1>3. CASE c # "OK"
  <2>1. Fail(c)
    BY <1>2, <1>3 DEF OptionRefused
  <2>2. /\ phase' = "done" /\ code' # "OK"
        /\ UNCHANGED <<options, positionals, texts, argv, cursor, uses>>
    BY <2>1, <1>3 DEF Fail, registered
  <2> QED
    BY <2>2, ParseFails
<1>4. CASE c = "OK"
  <2>0. PICK d, e, u : d = options[k] /\ e = Assigned(d, t) /\ u = Use(parts, "option", k, t)
    OBVIOUS
  <2>1. /\ options' = [options EXCEPT ![k] = e] /\ uses' = Append(uses, u)
        /\ cursor' = next /\ positionals' = positionals /\ texts' = texts /\ phase' = phase
        /\ argv' = argv
    BY <1>2, <1>4, <2>0
  <2>2. u \in UseSet /\ u.parts = parts /\ u.as = "option" /\ u.to = k /\ u.text = t
    <3>1. u = [parts |-> parts, as |-> "option", to |-> k, text |-> t]
      BY <2>0, Zenon DEF Use
    <3>2. u \in UseSet
      BY <3>1, <1>1 DEF UseSet
    <3> QED
      BY <3>1, <3>2
  <2>3. /\ e \in OptionSet /\ e.kind = d.kind /\ e.text = d.text
        /\ e.occurrences = d.occurrences + 1
        /\ e.values = IF d.kind \in Lists THEN Append(d.values, t) ELSE <<t>>
        /\ d.values \in Seq(TokenTexts) /\ d.occurrences \in Nat
    BY <2>0, <1>1, OptionAssigned DEF OptionSet
  <2>4. /\ options' \in Seq(OptionSet) /\ DOMAIN options' = DOMAIN options
        /\ options'[k] = e /\ \A l \in DOMAIN options \ {k} : options'[l] = options[l]
    BY <2>1, <2>3, <1>1
  <2>5. ASSUME NEW l \in DOMAIN options
        PROVE  Holds(options[l], UsesOf("option", l))'
    <3>1. Holds(options[l], UsesOf("option", l))
      BY <1>1 DEF AcceptedKept
    <3>2. PICK mine : mine = UsesOf("option", l)
      OBVIOUS
    <3>3. /\ mine \subseteq 1 .. Len(uses)
          /\ UsesOf("option", l)' =
                mine \cup (IF u.as = "option" /\ u.to = l THEN {Len(uses) + 1} ELSE {})
      BY <3>2, <2>1, <2>2, <1>1, UsesGrow
    <3>4. CASE l = k
      <4>1. PICK more : more = mine \cup {Len(uses) + 1}
        OBVIOUS
      <4>2. UsesOf("option", l)' = more
        BY <4>1, <3>3, <3>4, <2>2
      <4>3. Holds(e, more)'
        <5>1. Holds(d, mine) /\ mine \in SUBSET (1 .. Len(uses))
          BY <3>1, <3>2, <3>3, <3>4, <2>0
        <5>2. /\ e.kind = d.kind /\ e.occurrences = d.occurrences + 1
              /\ e.values = IF d.kind \in Lists THEN Append(d.values, u.text) ELSE <<u.text>>
              /\ d.values \in Seq(TokenTexts) /\ d.occurrences \in Nat
          BY <2>2, <2>3
        <5> QED
          BY <5>1, <5>2, <4>1, <2>1, <2>2, <1>1, HoldsMore
      <4>4. options'[l] = e
        BY <3>4, <2>4
      <4> QED
        BY <4>2, <4>3, <4>4 DEF Holds
    <3>5. CASE l # k
      <4>1. UsesOf("option", l)' = mine
        BY <3>3, <3>5, <2>2
      <4>2. PICK f : f = options[l]
        OBVIOUS
      <4>3. Holds(f, mine)'
        BY <4>2, <3>1, <3>2, <3>3, <2>1, <2>2, <1>1, HoldsStill
      <4>4. options'[l] = f
        BY <4>2, <3>5, <2>4
      <4> QED
        BY <4>1, <4>3, <4>4 DEF Holds
    <3> QED
      BY <3>4, <3>5
  <2>6. ASSUME NEW l \in DOMAIN positionals
        PROVE  Holds(positionals[l], UsesOf("positional", l))'
    <3>1. Holds(positionals[l], UsesOf("positional", l))
      BY <1>1 DEF AcceptedKept
    <3>2. PICK mine : mine = UsesOf("positional", l)
      OBVIOUS
    <3>6. /\ mine \subseteq 1 .. Len(uses)
          /\ UsesOf("positional", l)' =
                mine \cup (IF u.as = "positional" /\ u.to = l THEN {Len(uses) + 1} ELSE {})
      BY <3>2, <2>1, <2>2, <1>1, UsesGrow
    <3>3. mine \subseteq 1 .. Len(uses) /\ UsesOf("positional", l)' = mine
      BY <3>6, <2>2
    <3>4. PICK f : f = positionals[l]
      OBVIOUS
    <3>5. Holds(f, mine)'
      BY <3>1, <3>2, <3>3, <3>4, <2>1, <2>2, <1>1, HoldsStill
    <3> QED
      BY <3>3, <3>4, <3>5, <2>1 DEF Holds
  <2>7. DefaultsOwned'
    <3>1. \A l \in DOMAIN options : options'[l].text = options[l].text
      BY <2>0, <2>3, <2>4
    <3> QED
      BY <3>1, <2>1, <2>4, <1>1, DefaultsStay DEF AcceptedKept
  <2>8. AcceptedKept'
    BY <2>1, <2>4, <2>5, <2>6, <2>7 DEF AcceptedKept
  <2> QED
    BY <2>1, <2>2, <2>4, <2>8, <1>1, UseAccepted DEF CliTypes
<1> QED
  BY <1>3, <1>4

\* The loop goes on with another token.
LEMMA OnwardCursor ==
  ASSUME cursor \in CursorSet, argv \in Seq(Tokens), NEW n \in 1 .. Len(argv) + 1
  PROVE  /\ Onward(n) \in CursorSet /\ CursorAt(Onward(n))
         /\ Onward(n).i = n /\ Onward(n).read = 0 /\ Onward(n).enabled = cursor.enabled
         /\ \A b \in BOOLEAN : LET c == [Onward(n) EXCEPT !.enabled = b]
                               IN c \in CursorSet /\ CursorAt(c) /\ c.i = n /\ c.read = 0
         /\ \A p \in Nat \ {0} : LET c == [Onward(n) EXCEPT !.position = p]
                                 IN c \in CursorSet /\ CursorAt(c) /\ c.i = n /\ c.read = 0
<1>1. cursor.position \in Nat \ {0} /\ cursor.enabled \in BOOLEAN
  BY DEF CursorSet
<1>2. Onward(n) = [i |-> n, read |-> 0, position |-> cursor.position,
                   enabled |-> cursor.enabled]
  <2> DEFINE c == Onward(n)
             d == [i |-> n, read |-> 0, position |-> cursor.position, enabled |-> cursor.enabled]
  <2>1. n \in Nat \ {0}
    OBVIOUS
  <2>2. /\ c \in CursorSet /\ c.i = n /\ c.read = 0 /\ c.position = cursor.position
        /\ c.enabled = cursor.enabled
    BY <2>1 DEF Onward, CursorSet
  <2>3. d \in CursorSet
    BY <2>1, <1>1 DEF CursorSet
  <2>4. \A a, b \in CursorSet :
           (a.i = b.i /\ a.read = b.read /\ a.position = b.position /\ a.enabled = b.enabled)
              => a = b
    BY DEF CursorSet
  <2> HIDE DEF c
  <2>5. c = d
    BY <2>2, <2>3, <2>4
  <2> QED
    BY <2>5 DEF c
<1>3. n \in Nat \ {0} /\ n <= Len(argv) + 1
  OBVIOUS
<1>4. ASSUME NEW p \in Nat \ {0}, NEW b \in BOOLEAN, NEW c,
             c = [i |-> n, read |-> 0, position |-> p, enabled |-> b]
      PROVE  c \in CursorSet /\ CursorAt(c) /\ c.i = n /\ c.read = 0 /\ c.enabled = b
  BY <1>3, <1>4 DEF CursorSet, CursorAt
<1>5. \A b \in BOOLEAN : [Onward(n) EXCEPT !.enabled = b] =
                            [i |-> n, read |-> 0, position |-> cursor.position, enabled |-> b]
  BY <1>2
<1>6. \A p \in Nat \ {0} : [Onward(n) EXCEPT !.position = p] =
                            [i |-> n, read |-> 0, position |-> p, enabled |-> cursor.enabled]
  BY <1>2
<1> QED
  BY <1>1, <1>2, <1>4, <1>5, <1>6

\* What is known where the loop reads a token.
LEMMA ReadingToken ==
  ASSUME CliInv, NEW forms, AtToken(forms)
  PROVE  /\ phase = "parse" /\ cursor.i \in 1 .. Len(argv) /\ argv[cursor.i] \in Tokens
         /\ argv[cursor.i].form \in forms
         /\ cursor.read \in Nat /\ cursor.i + 1 \in 1 .. Len(argv) + 1
         /\ PartAfter(Len(uses)) = <<cursor.i, cursor.read + 1>>
         /\ cursor.read # 0 => argv[cursor.i].form = "cluster" /\ cursor.enabled
BY DEF CliInv, CliTypes, CursorSet, CursorAt, AtToken

LEMMA TokenTextTyped ==
  ASSUME NEW t \in Tokens
  PROVE  TokenText(t) \in TokenTexts /\ t.text \in TokenTexts
BY DEF TokenText, TokenTexts

\* lor_cli__consume_positional.
LEMMA ConsumeKeeps ==
  ASSUME CliInv, ConsumePositional
  PROVE  CliInv'
<1>1. /\ CliTypes /\ positionals \in Seq(PositionalSet) /\ AcceptedKept /\ argv \in Seq(Tokens)
      /\ cursor \in CursorSet /\ DOMAIN positionals = 1 .. Len(positionals)
  BY DEF CliInv, CliTypes
<1>2. AtToken({"word", "negative", "end", "help", "long", "cluster"})
      /\ (cursor.enabled => argv[cursor.i].form # "cluster")
  BY DEF ConsumePositional, IsPositional, Numeric, AtToken
<1>3. /\ phase = "parse" /\ cursor.i \in 1 .. Len(argv) /\ argv[cursor.i] \in Tokens
      /\ cursor.i + 1 \in 1 .. Len(argv) + 1 /\ PartAfter(Len(uses)) = <<cursor.i, 1>>
  <2>1. /\ phase = "parse" /\ cursor.i \in 1 .. Len(argv) /\ argv[cursor.i] \in Tokens
        /\ cursor.i + 1 \in 1 .. Len(argv) + 1
        /\ PartAfter(Len(uses)) = <<cursor.i, cursor.read + 1>>
        /\ cursor.read # 0 => argv[cursor.i].form = "cluster" /\ cursor.enabled
    BY <1>2, ReadingToken
  <2>2. cursor.read = 0
    BY <2>1, <1>2
  <2> QED
    BY <2>1, <2>2
<1>4. PICK p, t, parts : /\ p = cursor.position /\ t = TokenText(argv[cursor.i])
                         /\ parts = PartsOf(cursor.i, 1, Parts(argv[cursor.i]))
  OBVIOUS
<1>5. p \in Nat \ {0} /\ t \in TokenTexts
  BY <1>1, <1>3, <1>4, TokenTextTyped DEF CursorSet
<1>6. /\ parts \in Seq(PartSet) /\ InOrder(parts, <<cursor.i, 1>>)
      /\ Following(parts[Len(parts)]) = <<cursor.i + 1, 1>>
  <2>0. Parts(argv[cursor.i]) \in Nat \ {0}
    BY <1>3, PartsPositive
  <2>1. 1 \in Nat \ {0} /\ 1 <= Parts(argv[cursor.i])
    BY <2>0
  <2> QED
    BY <2>1, <1>1, <1>3, <1>4, RestOfToken
<1>7. ASSUME NEW c, Fail(c), c # "OK"
      PROVE  CliInv'
  BY <1>7, ParseFails DEF Fail, registered
<1>8. CASE p > Len(positionals)
  BY <1>4, <1>7, <1>8 DEF ConsumePositional
<1>9. CASE ~(p > Len(positionals))
  <2>0. p \in DOMAIN positionals /\ positionals[p] \in PositionalSet
    BY <1>1, <1>5, <1>9
  <2>1. PICK c \in AssignCodes(positionals[p].kind, t) :
           IF c # "OK" THEN Fail(c)
           ELSE /\ positionals' = [positionals EXCEPT ![p] = Assigned(@, t)]
                /\ uses' = Append(uses, Use(parts, "positional", p, t))
                /\ cursor' = [Onward(cursor.i + 1) EXCEPT !.position = NextPosition(p)]
                /\ UNCHANGED <<options, texts, phase, argv, code>>
    BY <1>4, <1>9 DEF ConsumePositional
  <2>2. CASE c # "OK"
    BY <2>1, <2>2, <1>7
  <2>3. CASE c = "OK"
    <3>0. PICK d, e, u : /\ d = positionals[p] /\ e = Assigned(d, t)
                         /\ u = Use(parts, "positional", p, t)
      OBVIOUS
    <3>1. /\ positionals' = [positionals EXCEPT ![p] = e] /\ uses' = Append(uses, u)
          /\ cursor' = [Onward(cursor.i + 1) EXCEPT !.position = NextPosition(p)]
          /\ options' = options /\ texts' = texts /\ phase' = phase /\ argv' = argv
      BY <2>1, <2>3, <3>0
    <3>2. u \in UseSet /\ u.parts = parts /\ u.as = "positional" /\ u.to = p /\ u.text = t
      <4>1. u = [parts |-> parts, as |-> "positional", to |-> p, text |-> t]
        BY <3>0, Zenon DEF Use
      <4>2. u \in UseSet
        BY <4>1, <1>5, <1>6 DEF UseSet
      <4> QED
        BY <4>1, <4>2
    <3>3. /\ e \in PositionalSet /\ e.kind = d.kind
          /\ e.occurrences = d.occurrences + 1
          /\ e.values = IF d.kind \in Lists THEN Append(d.values, t) ELSE <<t>>
          /\ d.values \in Seq(TokenTexts) /\ d.occurrences \in Nat
      BY <3>0, <2>0, <1>5, PositionalAssigned DEF PositionalSet
    <3>4. /\ positionals' \in Seq(PositionalSet) /\ DOMAIN positionals' = DOMAIN positionals
          /\ positionals'[p] = e
          /\ \A l \in DOMAIN positionals \ {p} : positionals'[l] = positionals[l]
      BY <3>1, <3>3, <2>0, <1>1
    <3>5. ASSUME NEW l \in DOMAIN positionals
          PROVE  Holds(positionals[l], UsesOf("positional", l))'
      <4>1. Holds(positionals[l], UsesOf("positional", l))
        BY <1>1 DEF AcceptedKept
      <4>2. PICK mine : mine = UsesOf("positional", l)
        OBVIOUS
      <4>3. /\ mine \subseteq 1 .. Len(uses)
            /\ UsesOf("positional", l)' =
                  mine \cup (IF u.as = "positional" /\ u.to = l THEN {Len(uses) + 1} ELSE {})
        BY <4>2, <3>1, <3>2, <1>1, UsesGrow
      <4>4. CASE l = p
        <5>1. PICK more : more = mine \cup {Len(uses) + 1}
          OBVIOUS
        <5>2. UsesOf("positional", l)' = more
          BY <5>1, <4>3, <4>4, <3>2
        <5>3. Holds(d, mine) /\ mine \in SUBSET (1 .. Len(uses))
          BY <4>1, <4>2, <4>3, <4>4, <3>0
        <5>4. /\ e.kind = d.kind /\ e.occurrences = d.occurrences + 1
              /\ e.values = IF d.kind \in Lists THEN Append(d.values, u.text) ELSE <<u.text>>
              /\ d.values \in Seq(TokenTexts) /\ d.occurrences \in Nat
          BY <3>2, <3>3
        <5>5. Holds(e, more)'
          BY <5>1, <5>3, <5>4, <3>1, <3>2, <1>1, HoldsMore
        <5>6. positionals'[l] = e
          BY <4>4, <3>4
        <5> QED
          BY <5>2, <5>5, <5>6 DEF Holds
      <4>5. CASE l # p
        <5>1. UsesOf("positional", l)' = mine
          BY <4>3, <4>5, <3>2
        <5>2. PICK f : f = positionals[l]
          OBVIOUS
        <5>3. Holds(f, mine)'
          BY <5>2, <4>1, <4>2, <4>3, <3>1, <3>2, <1>1, HoldsStill
        <5>4. positionals'[l] = f
          BY <5>2, <4>5, <3>4
        <5> QED
          BY <5>1, <5>3, <5>4 DEF Holds
      <4> QED
        BY <4>4, <4>5
    <3>6. ASSUME NEW l \in DOMAIN options
          PROVE  Holds(options[l], UsesOf("option", l))'
      <4>1. Holds(options[l], UsesOf("option", l))
        BY <1>1 DEF AcceptedKept
      <4>2. PICK mine, f : mine = UsesOf("option", l) /\ f = options[l]
        OBVIOUS
      <4>3. /\ mine \subseteq 1 .. Len(uses)
            /\ UsesOf("option", l)' =
                  mine \cup (IF u.as = "option" /\ u.to = l THEN {Len(uses) + 1} ELSE {})
        BY <4>2, <3>1, <3>2, <1>1, UsesGrow
      <4>4. UsesOf("option", l)' = mine
        BY <4>3, <3>2
      <4>5. Holds(f, mine)'
        BY <4>1, <4>2, <4>3, <3>1, <3>2, <1>1, HoldsStill
      <4> QED
        BY <4>2, <4>4, <4>5, <3>1 DEF Holds
    <3>7. DefaultsOwned'
      BY <3>1, <1>1, DefaultsStay DEF AcceptedKept
    <3>8. AcceptedKept'
      BY <3>1, <3>4, <3>5, <3>6, <3>7 DEF AcceptedKept
    <3>9. NextPosition(p) \in Nat \ {0}
      BY <1>5 DEF NextPosition
    <3>10. /\ cursor' \in CursorSet /\ CursorAt(cursor')
           /\ cursor'.i = cursor.i + 1 /\ cursor'.read = 0
      BY <3>1, <3>9, <1>1, <1>3, OnwardCursor
    <3>11. Following(u.parts[Len(u.parts)]) = <<cursor'.i, cursor'.read + 1>>
      BY <3>2, <3>10, <1>6
    <3>12. InOrder(u.parts, PartAfter(Len(uses)))
      BY <3>2, <1>3, <1>6
    <3> QED
      BY <3>1, <3>2, <3>4, <3>8, <3>10, <3>11, <3>12, <1>1, <1>3, UseAccepted DEF CliTypes
  <2> QED
    BY <2>2, <2>3
<1> QED
  BY <1>8, <1>9

\* An option whose value is the next token.
LEMMA TakeNextKeeps ==
  ASSUME CliInv, phase = "parse", cursor.i \in 1 .. Len(argv), NEW k \in DOMAIN options,
         NEW parts \in Seq(PartSet), InOrder(parts, PartAfter(Len(uses))),
         Following(parts[Len(parts)]) = <<cursor.i + 1, 1>>, TakeNext(k, parts)
  PROVE  CliInv'
<1>1. argv \in Seq(Tokens) /\ cursor \in CursorSet /\ cursor.i \in Nat
  BY DEF CliInv, CliTypes
<1>2. CASE cursor.i + 1 > Len(argv)
  <2>1. Fail("MISSING_VALUE")
    BY <1>2 DEF TakeNext
  <2> QED
    BY <2>1, ParseFails DEF Fail, registered
<1>3. CASE ~(cursor.i + 1 > Len(argv))
  <2>1. PICK n : n = cursor.i + 1
    OBVIOUS
  <2>2. n \in 1 .. Len(argv) /\ n + 1 \in 1 .. Len(argv) + 1 /\ cursor.i + 2 = n + 1
        /\ argv[n] \in Tokens
    BY <2>1, <1>1, <1>3
  <2>3. PICK rest, t, next : /\ rest = PartsOf(n, 1, Parts(argv[n]))
                             /\ t = TokenText(argv[n]) /\ next = Onward(n + 1)
    OBVIOUS
  <2>4. ApplyOption(k, t, parts \o rest, next)
    <3>1. ~(n > Len(argv))
      BY <2>2
    <3> QED
      BY <3>1, <2>1, <2>2, <2>3 DEF TakeNext
  <2>5. Parts(argv[n]) \in Nat \ {0}
    BY <2>2, PartsPositive
  <2>6. 1 \in Nat \ {0} /\ 1 <= Parts(argv[n])
    BY <2>5
  <2>7. /\ rest \in Seq(PartSet) /\ InOrder(rest, <<n, 1>>)
        /\ Following(rest[Len(rest)]) = <<n + 1, 1>>
    BY <2>2, <2>3, <2>6, <1>1, RestOfToken
  <2>8. InOrder(rest, Following(parts[Len(parts)]))
    BY <2>1, <2>7
  <2>9. /\ parts \o rest \in Seq(PartSet) /\ InOrder(parts \o rest, PartAfter(Len(uses)))
        /\ (parts \o rest)[Len(parts \o rest)] = rest[Len(rest)]
    BY <2>7, <2>8, PartsJoin
  <2>10. next \in CursorSet /\ CursorAt(next) /\ next.i = n + 1 /\ next.read = 0
    BY <2>2, <2>3, <1>1, OnwardCursor
  <2>11. Following((parts \o rest)[Len(parts \o rest)]) = <<next.i, next.read + 1>>
    BY <2>7, <2>9, <2>10
  <2>12. t \in TokenTexts
    BY <2>2, <2>3, TokenTextTyped
  <2> QED
    BY <2>4, <2>9, <2>10, <2>11, <2>12, ApplyKeeps
<1> QED
  BY <1>2, <1>3

LEMMA LongKeeps ==
  ASSUME CliInv, LongOption
  PROVE  CliInv'
<1>1. AtToken({"long", "negative"})
  BY DEF LongOption
<1>2. /\ phase = "parse" /\ cursor.i \in 1 .. Len(argv) /\ argv[cursor.i] \in Tokens
      /\ cursor.i + 1 \in 1 .. Len(argv) + 1
      /\ PartAfter(Len(uses)) = <<cursor.i, cursor.read + 1>>
      /\ argv[cursor.i].form \in {"long", "negative"}
      /\ cursor.read # 0 => argv[cursor.i].form = "cluster"
  BY <1>1, ReadingToken
<1>3. PartAfter(Len(uses)) = <<cursor.i, 1>>
  BY <1>2
<1>4. argv \in Seq(Tokens) /\ cursor \in CursorSet
  BY DEF CliInv, CliTypes
<1>5. PICK t, named, parts, next :
         /\ t = argv[cursor.i]
         /\ named = IF t.form = "long" THEN Named("long", t.name) ELSE {}
         /\ parts = PartsOf(cursor.i, 1, Parts(t))
         /\ next = Onward(cursor.i + 1)
  OBVIOUS
<1>6. \/ named = {} /\ Fail("UNKNOWN_OPTION")
      \/ \E k \in named :
            IF t.text # Absent \/ ~Valued(options[k])
            THEN ApplyOption(k, t.text, parts, next)
            ELSE TakeNext(k, parts)
  BY <1>5, Zenon DEF LongOption
<1>7. CASE Fail("UNKNOWN_OPTION")
  BY <1>7, ParseFails DEF Fail, registered
<1>8. ASSUME NEW k \in named,
             IF t.text # Absent \/ ~Valued(options[k])
             THEN ApplyOption(k, t.text, parts, next)
             ELSE TakeNext(k, parts)
      PROVE  CliInv'
  <2>1. k \in DOMAIN options
    BY <1>5, <1>8 DEF Named
  <2>2. Parts(t) \in Nat \ {0}
    BY <1>2, <1>5, PartsPositive
  <2>3. 1 \in Nat \ {0} /\ 1 <= Parts(t)
    BY <2>2
  <2>4. /\ parts \in Seq(PartSet) /\ InOrder(parts, <<cursor.i, 1>>)
        /\ Following(parts[Len(parts)]) = <<cursor.i + 1, 1>>
    BY <2>3, <1>2, <1>4, <1>5, RestOfToken
  <2>5. CASE TakeNext(k, parts)
    BY <2>1, <2>4, <2>5, <1>2, <1>3, TakeNextKeeps
  <2>6. CASE ApplyOption(k, t.text, parts, next)
    <3>1. next \in CursorSet /\ CursorAt(next) /\ next.i = cursor.i + 1 /\ next.read = 0
      BY <1>2, <1>4, <1>5, OnwardCursor
    <3>2. t.text \in TokenTexts
      BY <1>2, <1>5, TokenTextTyped
    <3>3. Following(parts[Len(parts)]) = <<next.i, next.read + 1>>
      BY <3>1, <2>4
    <3> QED
      BY <3>1, <3>2, <3>3, <2>1, <2>4, <2>6, <1>2, <1>3, ApplyKeeps
  <2> QED
    BY <2>5, <2>6, <1>8
<1> QED
  BY <1>6, <1>7, <1>8

LEMMA ClusterKeeps ==
  ASSUME CliInv, ClusterLetter
  PROVE  CliInv'
<1>1. AtToken({"cluster"}) /\ cursor.enabled
  BY DEF ClusterLetter
<1>2. /\ phase = "parse" /\ cursor.i \in 1 .. Len(argv) /\ argv[cursor.i] \in Tokens
      /\ cursor.i + 1 \in 1 .. Len(argv) + 1 /\ cursor.read \in Nat
      /\ PartAfter(Len(uses)) = <<cursor.i, cursor.read + 1>>
      /\ argv[cursor.i].form = "cluster"
  BY <1>1, ReadingToken
<1>3. argv \in Seq(Tokens) /\ cursor \in CursorSet
  BY DEF CliInv, CliTypes
<1>4. PICK i, t, n, rest, named :
         /\ i = cursor.i /\ t = argv[i] /\ n = cursor.read + 1
         /\ rest = SubSeq(t.letters, n + 1, Len(t.letters))
         /\ named = IF n > Len(t.letters) THEN {} ELSE Named("short", t.letters[n])
  OBVIOUS
<1>5. \/ \E c : c # "OK" /\ Fail(c)
      \/ \E k \in named :
            IF ~Valued(options[k])
            THEN ApplyOption(k, Absent, << <<i, n>> >>,
                             IF LastLetter(rest, t.text) THEN Onward(i + 1)
                             ELSE [cursor EXCEPT !.read = n])
            ELSE IF rest # << >> \/ t.text # Absent
            THEN ApplyOption(k, IF rest # << >> THEN "text" ELSE t.text,
                             PartsOf(i, n, Parts(t)), Onward(i + 1))
            ELSE TakeNext(k, << <<i, n>> >>)
  <2>1. "HELP_REQUESTED" # "OK" /\ "UNKNOWN_OPTION" # "OK"
    OBVIOUS
  <2> QED
    BY <1>4, <2>1, Zenon DEF ClusterLetter
<1>6. ASSUME NEW c, c # "OK", Fail(c)
      PROVE  CliInv'
  BY <1>6, ParseFails DEF Fail, registered
<1>7. ASSUME NEW k \in named,
             IF ~Valued(options[k])
             THEN ApplyOption(k, Absent, << <<i, n>> >>,
                              IF LastLetter(rest, t.text) THEN Onward(i + 1)
                              ELSE [cursor EXCEPT !.read = n])
             ELSE IF rest # << >> \/ t.text # Absent
             THEN ApplyOption(k, IF rest # << >> THEN "text" ELSE t.text,
                              PartsOf(i, n, Parts(t)), Onward(i + 1))
             ELSE TakeNext(k, << <<i, n>> >>)
      PROVE  CliInv'
  <2> DEFINE size == Len(t.letters)
  <2>1. /\ t \in Tokens /\ t.letters \in Seq(STRING) /\ size \in Nat /\ n \in Nat \ {0}
        /\ i \in 1 .. Len(argv) /\ i \in Nat
    <3>1. t \in Tokens /\ i \in 1 .. Len(argv)
      BY <1>2, <1>4
    <3>2. t.letters \in Seq(STRING)
      BY <3>1, PartsPositive
    <3>3. Len(t.letters) \in Nat
      BY <3>2
    <3>4. n \in Nat \ {0}
      <4>1. \A m \in Nat : m + 1 \in Nat \ {0}
        OBVIOUS
      <4> QED
        BY <4>1, <1>2, <1>4, Zenon
    <3>5. i \in Nat
      BY <1>3, <1>4 DEF CursorSet
    <3> QED
      BY <3>1, <3>2, <3>3, <3>4, <3>5
  <2>2. n <= size /\ k \in DOMAIN options
    BY <2>1, <1>4, <1>7 DEF Named
  <2>3. /\ Parts(t) = size + (IF t.text # Absent THEN 1 ELSE 0) /\ n <= Parts(t)
        /\ Parts(t) \in Nat
    <3>1. t.letters # << >>
      BY <2>1, <2>2, EmptySeq
    <3>2. Parts(t) = size + (IF t.text # Absent THEN 1 ELSE 0) /\ Parts(t) \in Nat
      BY <3>1, <2>1, <1>2, <1>4, PartsPositive
    <3>3. PICK more \in {0, 1} : more = IF t.text # Absent THEN 1 ELSE 0
      OBVIOUS
    <3>4. n <= size + more
      BY <2>1, <2>2
    <3> QED
      BY <3>2, <3>3, <3>4
  <2>4. rest = << >> <=> n = size
    <3>1. \A m \in n + 1 .. size : t.letters[m] \in STRING
      BY <2>1
    <3>2. /\ rest \in Seq(STRING)
          /\ Len(rest) = IF n + 1 <= size THEN size - (n + 1) + 1 ELSE 0
      BY <3>1, <2>1, <1>4, SubSeqProperties
    <3>3. Len(rest) = 0 <=> n = size
      BY <3>2, <2>1, <2>2
    <3> QED
      BY <3>2, <3>3, EmptySeq
  <2>5. /\ <<i, n>> \in PartSet
        /\ << <<i, n>> >> \in Seq(PartSet)
        /\ InOrder(<< <<i, n>> >>, PartAfter(Len(uses)))
        /\ << <<i, n>> >>[Len(<< <<i, n>> >>)] = <<i, n>>
    <3>1. <<i, n>> \in PartSet
      BY <2>1 DEF PartSet
    <3>2. PartAfter(Len(uses)) = <<i, n>>
      BY <1>2, <1>4
    <3> QED
      BY <3>1, <3>2, OnePart
  <2>6. Following(<<i, n>>) = IF n < Parts(t) THEN <<i, n + 1>> ELSE <<i + 1, 1>>
    BY <1>4 DEF Following
  <2>7. /\ Onward(i + 1) \in CursorSet /\ CursorAt(Onward(i + 1))
        /\ Onward(i + 1).i = i + 1 /\ Onward(i + 1).read = 0
    <3>1. i + 1 \in 1 .. Len(argv) + 1
      BY <1>2, <1>4
    <3> QED
      BY <3>1, <1>3, OnwardCursor
  <2>8. Absent \in TokenTexts /\ "text" \in TokenTexts /\ t.text \in TokenTexts
    BY <2>1 DEF TokenTexts
  <2>9. CASE ~Valued(options[k]) /\ LastLetter(rest, t.text)
    <3>1. ApplyOption(k, Absent, << <<i, n>> >>, Onward(i + 1))
      BY <2>9, <1>7, Zenon
    <3>2. rest = << >> /\ t.text = Absent
      BY <2>9 DEF LastLetter
    <3>3. Following(<< <<i, n>> >>[Len(<< <<i, n>> >>)]) =
             <<Onward(i + 1).i, Onward(i + 1).read + 1>>
      BY <3>2, <2>1, <2>3, <2>4, <2>5, <2>6, <2>7
    <3> QED
      BY <3>1, <3>3, <2>2, <2>5, <2>7, <2>8, <1>2, ApplyKeeps
  <2>10. CASE ~Valued(options[k]) /\ ~LastLetter(rest, t.text)
    <3>1. PICK next : next = [cursor EXCEPT !.read = n]
      OBVIOUS
    <3>2. ApplyOption(k, Absent, << <<i, n>> >>, next)
      BY <3>1, <2>10, <1>7, Zenon
    <3>3. next \in CursorSet /\ next.i = i /\ next.read = n /\ next.enabled = cursor.enabled
      BY <3>1, <2>1, <1>3, <1>4 DEF CursorSet
    <3>4. CursorAt(next)
      BY <3>3, <2>1, <1>1, <1>2, <1>4 DEF CursorAt
    <3>5. n < Parts(t)
      <4>1. CASE rest # << >>
        <5>1. n < size
          BY <4>1, <2>1, <2>2, <2>4
        <5>2. PICK more \in {0, 1} : more = IF t.text # Absent THEN 1 ELSE 0
          OBVIOUS
        <5>3. Parts(t) = size + more
          BY <5>2, <2>3, Zenon
        <5>4. n < size + more
          <6>1. \A a, b \in Nat : \A m \in {0, 1} : a < b => a < b + m
            OBVIOUS
          <6>2. n \in Nat /\ size \in Nat
            BY <2>1
          <6> QED
            BY <6>1, <6>2, <5>1, <5>2, Zenon
        <5> QED
          BY <5>3, <5>4
      <4>2. CASE t.text # Absent
        <5>1. Parts(t) = size + 1
          BY <4>2, <2>3
        <5> QED
          BY <5>1, <2>1, <2>2
      <4> QED
        BY <4>1, <4>2, <2>10 DEF LastLetter
    <3>6. Following(<< <<i, n>> >>[Len(<< <<i, n>> >>)]) = <<next.i, next.read + 1>>
      BY <3>3, <3>5, <2>5, <2>6
    <3> QED
      BY <3>2, <3>3, <3>4, <3>6, <2>2, <2>5, <2>8, <1>2, ApplyKeeps
  <2>11. CASE Valued(options[k]) /\ (rest # << >> \/ t.text # Absent)
    <3>1. PICK value, parts, next : /\ value = IF rest # << >> THEN "text" ELSE t.text
                                    /\ parts = PartsOf(i, n, Parts(t)) /\ next = Onward(i + 1)
      OBVIOUS
    <3>2. ApplyOption(k, value, parts, next)
      BY <3>1, <2>11, <1>7, Zenon
    <3>3. value \in TokenTexts
      BY <3>1, <2>8
    <3>4. /\ parts \in Seq(PartSet) /\ InOrder(parts, <<i, n>>)
          /\ Following(parts[Len(parts)]) = <<i + 1, 1>>
      BY <3>1, <2>1, <2>3, <1>3, <1>4, RestOfToken
    <3>5. InOrder(parts, PartAfter(Len(uses)))
      BY <3>4, <1>2, <1>4
    <3>6. /\ next \in CursorSet /\ CursorAt(next)
          /\ Following(parts[Len(parts)]) = <<next.i, next.read + 1>>
      BY <3>1, <3>4, <2>7
    <3> QED
      BY <3>2, <3>3, <3>4, <3>5, <3>6, <2>2, <1>2, ApplyKeeps
  <2>12. CASE Valued(options[k]) /\ rest = << >> /\ t.text = Absent
    <3>1. TakeNext(k, << <<i, n>> >>)
      BY <2>12, <1>7, Zenon
    <3>2. Following(<< <<i, n>> >>[Len(<< <<i, n>> >>)]) = <<cursor.i + 1, 1>>
      BY <2>12, <2>1, <2>3, <2>4, <2>5, <2>6, <1>4
    <3> QED
      BY <3>1, <3>2, <2>2, <2>5, <1>2, TakeNextKeeps
  <2> QED
    BY <2>9, <2>10, <2>11, <2>12
<1> QED
  BY <1>5, <1>6, <1>7

LEMMA EndKeeps ==
  ASSUME CliInv, EndOfOptions
  PROVE  CliInv'
<1>1. AtToken({"end"})
  BY DEF EndOfOptions
<1>2. /\ phase = "parse" /\ cursor.i \in 1 .. Len(argv) /\ argv[cursor.i] \in Tokens
      /\ cursor.i + 1 \in 1 .. Len(argv) + 1 /\ PartAfter(Len(uses)) = <<cursor.i, 1>>
      /\ argv[cursor.i].form = "end"
  <2>1. /\ phase = "parse" /\ cursor.i \in 1 .. Len(argv) /\ argv[cursor.i] \in Tokens
        /\ cursor.i + 1 \in 1 .. Len(argv) + 1
        /\ PartAfter(Len(uses)) = <<cursor.i, cursor.read + 1>>
        /\ argv[cursor.i].form \in {"end"}
        /\ cursor.read # 0 => argv[cursor.i].form = "cluster"
    BY <1>1, ReadingToken
  <2>2. cursor.read = 0
    BY <2>1
  <2> QED
    BY <2>1, <2>2
<1>3. /\ CliTypes /\ argv \in Seq(Tokens) /\ cursor \in CursorSet /\ cursor.i \in Nat
      /\ AcceptedKept
  BY DEF CliInv, CliTypes, CursorSet
<1>4. PICK part, u : part = <<cursor.i, 1>> /\ u = Use(<<part>>, "end", 0, Absent)
  OBVIOUS
<1>5. /\ uses' = Append(uses, u) /\ cursor' = [Onward(cursor.i + 1) EXCEPT !.enabled = FALSE]
      /\ options' = options /\ positionals' = positionals /\ texts' = texts
      /\ phase' = phase /\ argv' = argv
  BY <1>4 DEF EndOfOptions, registered
<1>6. part \in PartSet /\ <<part>> \in Seq(PartSet) /\ InOrder(<<part>>, part)
      /\ <<part>>[Len(<<part>>)] = part
  <2>1. part \in PartSet
    BY <1>3, <1>4 DEF PartSet
  <2> QED
    BY <2>1, OnePart
<1>7. u \in UseSet /\ u.parts = <<part>> /\ u.as = "end" /\ u.to = 0
  <2>1. u = [parts |-> <<part>>, as |-> "end", to |-> 0, text |-> Absent]
    BY <1>4, Zenon DEF Use
  <2>2. Absent \in TokenTexts
    BY DEF TokenTexts
  <2>3. u \in UseSet
    BY <2>1, <2>2, <1>6 DEF UseSet
  <2> QED
    BY <2>1, <2>3
<1>8. cursor' \in CursorSet /\ CursorAt(cursor') /\ cursor'.i = cursor.i + 1 /\ cursor'.read = 0
  BY <1>2, <1>3, <1>5, OnwardCursor
<1>9. Following(part) = <<cursor.i + 1, 1>>
  <2>1. Parts(argv[cursor.i]) = 1
    BY <1>2, PartsPositive
  <2> QED
    BY <2>1, <1>4 DEF Following
<1>10. Following(u.parts[Len(u.parts)]) = <<cursor'.i, cursor'.read + 1>>
  BY <1>6, <1>7, <1>8, <1>9
<1>11. InOrder(u.parts, PartAfter(Len(uses)))
  BY <1>2, <1>4, <1>6, <1>7
<1>12. ASSUME NEW as \in {"option", "positional"}, NEW l
       PROVE  /\ UsesOf(as, l)' = UsesOf(as, l)
              /\ UsesOf(as, l) \subseteq 1 .. Len(uses)
  <2>1. /\ UsesOf(as, l)' = UsesOf(as, l)
                             \cup (IF u.as = as /\ u.to = l THEN {Len(uses) + 1} ELSE {})
        /\ UsesOf(as, l) \subseteq 1 .. Len(uses)
    BY <1>3, <1>5, <1>7, UsesGrow
  <2> QED
    BY <2>1, <1>7
<1>13. ASSUME NEW as \in {"option", "positional"}, NEW l, NEW d, Holds(d, UsesOf(as, l))
       PROVE  \E mine : UsesOf(as, l)' = mine /\ Holds(d, mine)'
  <2>1. PICK mine : mine = UsesOf(as, l)
    OBVIOUS
  <2>2. mine \in SUBSET (1 .. Len(uses)) /\ UsesOf(as, l)' = mine
    BY <2>1, <1>12
  <2>3. Holds(d, mine)'
    BY <2>1, <2>2, <1>3, <1>5, <1>7, <1>13, HoldsStill
  <2> QED
    BY <2>2, <2>3
<1>14. ASSUME NEW l \in DOMAIN options
       PROVE  Holds(options[l], UsesOf("option", l))'
  <2>1. PICK d : d = options[l]
    OBVIOUS
  <2>2. Holds(d, UsesOf("option", l))
    BY <2>1, <1>3 DEF AcceptedKept
  <2>3. PICK mine : UsesOf("option", l)' = mine /\ Holds(d, mine)'
    BY <2>2, <1>13
  <2> QED
    BY <2>1, <2>3, <1>5 DEF Holds
<1>15. ASSUME NEW l \in DOMAIN positionals
       PROVE  Holds(positionals[l], UsesOf("positional", l))'
  <2>1. PICK d : d = positionals[l]
    OBVIOUS
  <2>2. Holds(d, UsesOf("positional", l))
    BY <2>1, <1>3 DEF AcceptedKept
  <2>3. PICK mine : UsesOf("positional", l)' = mine /\ Holds(d, mine)'
    BY <2>2, <1>13
  <2> QED
    BY <2>1, <2>3, <1>5 DEF Holds
<1>16. DefaultsOwned'
  BY <1>3, <1>5, DefaultsStay DEF AcceptedKept
<1>17. AcceptedKept'
  BY <1>5, <1>14, <1>15, <1>16 DEF AcceptedKept
<1> QED
  BY <1>2, <1>3, <1>5, <1>7, <1>8, <1>10, <1>11, <1>17, UseAccepted DEF CliTypes

\* The end of the arguments.
LEMMA ParseEndKeeps ==
  ASSUME CliInv, ParseEnd
  PROVE  CliInv'
<1>1. /\ phase = "parse" /\ phase' = "done" /\ cursor.i > Len(argv)
      /\ UNCHANGED <<options, positionals, texts, argv, cursor, uses>>
  BY DEF ParseEnd, registered
<1>2. CliTypes'
  BY <1>1 DEF CliInv, CliTypes
<1>3. UsesInOrder' /\ AcceptedKept' /\ PartAfter(Len(uses))' = PartAfter(Len(uses))
  <2>1. PICK n : n = Len(uses)
    OBVIOUS
  <2>2. PartAfter(n)' = PartAfter(n) /\ UsesInOrder' /\ AcceptedKept'
    BY <1>1, NothingUsed DEF CliInv
  <2> QED
    BY <2>1, <2>2, <1>1
<1>4. cursor.i = Len(argv) + 1 /\ cursor.read = 0
  <2>1. /\ cursor.i \in Nat /\ Len(argv) \in Nat /\ cursor.i <= Len(argv) + 1
        /\ cursor.read # 0 => cursor.i <= Len(argv)
    BY <1>1 DEF CliInv, CliTypes, CursorAt, CursorSet
  <2> QED
    BY <2>1, <1>1
<1>5. PartAfter(Len(uses)) = <<Len(argv) + 1, 1>>
  BY <1>1, <1>4 DEF CliInv
<1> QED
  BY <1>1, <1>2, <1>3, <1>5 DEF CliInv

LEMMA ParseStartKeeps ==
  ASSUME CliInv, ParseStart
  PROVE  CliInv'
<1>1. /\ phase = "define" /\ phase' = "parse" /\ uses = << >> /\ cursor = AtStart
      /\ UNCHANGED <<options, positionals, texts, cursor, uses>>
  BY DEF ParseStart, registered, CliInv
<1>2. argv' \in Seq(Tokens)
  <2>1. PICK n \in 0 .. MaxArgs : argv' \in [1 .. n -> Tokens]
    BY DEF ParseStart
  <2>2. n \in Nat
    BY CliAssumption
  <2> QED
    BY <2>1, <2>2
<1>3. CliTypes'
  BY <1>1, <1>2 DEF CliInv, CliTypes
<1>4. DOMAIN uses = {} /\ Len(uses) = 0
  BY <1>1
<1>5. UsesInOrder'
  BY <1>1, <1>4 DEF UsesInOrder
<1>6. CursorAt(cursor)' /\ cursor.i = 1 /\ cursor.read = 0
  BY <1>1, <1>2 DEF CursorAt, AtStart
<1>7. PartAfter(Len(uses))' = <<cursor'.i, cursor'.read + 1>>
  BY <1>1, <1>4, <1>6 DEF PartAfter
<1>8. AcceptedKept'
  <2>1. \A as, k : UsesOf(as, k)' = UsesOf(as, k)
    BY <1>1 DEF UsesOf
  <2>2. DefaultsOwned'
    BY <1>1 DEF DefaultsOwned, AcceptedKept, CliInv
  <2>3. ASSUME NEW as, NEW k, Holds(options[k], UsesOf(as, k))
        PROVE  Holds(options[k], UsesOf(as, k))'
    BY <2>1, <2>3, <1>1 DEF Holds
  <2>4. ASSUME NEW as, NEW k, Holds(positionals[k], UsesOf(as, k))
        PROVE  Holds(positionals[k], UsesOf(as, k))'
    BY <2>1, <2>4, <1>1 DEF Holds
  <2> QED
    BY <2>2, <2>3, <2>4, <1>1 DEF AcceptedKept, CliInv
<1> QED
  BY <1>1, <1>3, <1>5, <1>6, <1>7, <1>8 DEF CliInv

----------------------------------------------------------------------------
(* Registration.                                                            *)

\* While the parser is defined nothing has been used.
LEMMA DefiningKeeps ==
  ASSUME CliInv, phase = "define", phase' = "define", argv' = argv, cursor' = cursor,
         uses' = uses, options' \in Seq(OptionSet), positionals' \in Seq(PositionalSet),
         \A k \in DOMAIN options' : Holds(options'[k], {}),
         \A k \in DOMAIN positionals' : Holds(positionals'[k], {}),
         DefaultsOwned'
  PROVE  CliInv'
<1>1. uses = << >> /\ cursor = AtStart
  BY DEF CliInv
<1>2. CliTypes'
  BY DEF CliInv, CliTypes
<1>3. DOMAIN uses' = {}
  BY <1>1
<1>4. UsesInOrder'
  BY <1>3 DEF UsesInOrder
<1>5. \A as, k : UsesOf(as, k)' = {}
  BY <1>3 DEF UsesOf
<1>6. AcceptedKept'
  <2>1. ASSUME NEW k \in DOMAIN options'
        PROVE  Holds(options[k], UsesOf("option", k))'
    <3>1. Holds(options'[k], {})
      OBVIOUS
    <3>2. UsesOf("option", k)' = {}
      BY <1>5
    <3> QED
      BY <3>1, <3>2 DEF Holds
  <2>2. ASSUME NEW k \in DOMAIN positionals'
        PROVE  Holds(positionals[k], UsesOf("positional", k))'
    <3>1. Holds(positionals'[k], {})
      OBVIOUS
    <3>2. UsesOf("positional", k)' = {}
      BY <1>5
    <3> QED
      BY <3>1, <3>2 DEF Holds
  <2> QED
    BY <2>1, <2>2 DEF AcceptedKept
<1> QED
  BY <1>1, <1>2, <1>4, <1>6 DEF CliInv

\* What is registered and not used holds nothing.
LEMMA NothingHeld ==
  ASSUME CliInv, phase = "define"
  PROVE  /\ \A k \in DOMAIN options : Holds(options[k], {})
         /\ \A k \in DOMAIN positionals : Holds(positionals[k], {})
<1>1. uses = << >> /\ AcceptedKept
  BY DEF CliInv
<1>2. \A as, k : UsesOf(as, k) = {}
  BY <1>1 DEF UsesOf
<1> QED
  BY <1>1, <1>2 DEF AcceptedKept

LEMMA NewHoldsNothing ==
  ASSUME NEW d, d.values = << >>, d.occurrences = 0
  PROVE  Holds(d, {})
BY FS_EmptySet, EmptySeq DEF Holds

\* One more element of a sequence.
LEMMA OneMoreElement ==
  ASSUME NEW S, NEW s \in Seq(S), NEW x \in S
  PROVE  /\ Append(s, x) \in Seq(S)
         /\ DOMAIN Append(s, x) = DOMAIN s \cup {Len(s) + 1} /\ Len(s) + 1 \notin DOMAIN s
         /\ \A k \in DOMAIN s : Append(s, x)[k] = s[k]
         /\ Append(s, x)[Len(s) + 1] = x
<1>1. /\ Append(s, x) \in Seq(S) /\ Len(Append(s, x)) = Len(s) + 1 /\ Len(s) \in Nat
      /\ \A k \in 1 .. Len(s) : Append(s, x)[k] = s[k]
      /\ Append(s, x)[Len(s) + 1] = x
  OBVIOUS
<1>2. DOMAIN Append(s, x) = 1 .. Len(s) + 1 /\ DOMAIN s = 1 .. Len(s)
  BY <1>1
<1>3. 1 .. Len(s) + 1 = 1 .. Len(s) \cup {Len(s) + 1} /\ Len(s) + 1 \notin 1 .. Len(s)
  BY <1>1
<1> QED
  BY <1>1, <1>2, <1>3

LEMMA AddOptionKeeps ==
  ASSUME CliInv, NEW o \in OptionSpecs, AddOption(o)
  PROVE  CliInv'
<1>1. /\ phase = "define" /\ phase' = "define" /\ argv' = argv /\ cursor' = cursor
      /\ uses' = uses /\ positionals' = positionals
  BY DEF AddOption
<1>2. /\ options \in Seq(OptionSet) /\ positionals \in Seq(PositionalSet) /\ DefaultsOwned
      /\ positionals' \in Seq(PositionalSet)
  BY <1>1 DEF CliInv, CliTypes, AcceptedKept
<1>3. /\ \A k \in DOMAIN options : Holds(options[k], {})
      /\ \A k \in DOMAIN positionals : Holds(positionals[k], {})
  BY <1>1, NothingHeld
<1>4. CASE options' = options /\ texts' = texts
  <2>1. DefaultsOwned'
    BY <1>2, <1>4, DefaultsStay
  <2> QED
    BY <2>1, <1>1, <1>2, <1>3, <1>4, DefiningKeeps
<1>5. CASE /\ options' = Append(options, Registered(o))
           /\ texts' = texts + (IF Captures(o) THEN 1 ELSE 0)
  <2>1. PICK d, n : d = Registered(o) /\ n = Len(options) + 1
    OBVIOUS
  <2>2. /\ d \in OptionSet /\ d.values = << >> /\ d.occurrences = 0 /\ d.text = Captures(o)
    <3>1. Captures(o) \in BOOLEAN /\ (o.repeatable \/ o.kind \in Lists) \in BOOLEAN
      BY CliAssumption DEF Captures
    <3>2. << >> \in Seq(TokenTexts) /\ 0 \in Nat
      OBVIOUS
    <3> QED
      BY <3>1, <3>2, <2>1 DEF Registered, OptionSet
  <2>3. /\ options' \in Seq(OptionSet)
        /\ DOMAIN options' = DOMAIN options \cup {n} /\ n \notin DOMAIN options
        /\ \A k \in DOMAIN options : options'[k] = options[k]
        /\ options'[n] = d
    BY <2>1, <2>2, <1>2, <1>5, OneMoreElement
  <2>4. Holds(d, {})
    BY <2>2, NewHoldsNothing
  <2>5. \A k \in DOMAIN options' : Holds(options'[k], {})
    BY <2>3, <2>4, <1>3
  <2>6. DefaultsOwned'
    <3> DEFINE old == {k \in DOMAIN options : options[k].text}
               new == {k \in DOMAIN options' : options'[k].text}
    <3>1. new = IF d.text THEN old \cup {n} ELSE old
      BY <2>3
    <3>2. IsFiniteSet(old) /\ n \notin old
      <4>1. DOMAIN options = 1 .. Len(options) /\ Len(options) \in Nat
        BY <1>2
      <4>2. IsFiniteSet(DOMAIN options)
        BY <4>1, FS_Interval
      <4> QED
        BY <4>2, <2>3, FS_Subset
    <3>3. texts = Cardinality(old)
      BY <1>2 DEF DefaultsOwned
    <3>4. Cardinality(old) \in Nat /\ Cardinality(old \cup {n}) = Cardinality(old) + 1
      BY <3>2, FS_AddElement, FS_CardinalityType
    <3>5. texts' = Cardinality(new)
      <4>0. d.text = Captures(o)
        BY <2>2
      <4>1. CASE Captures(o)
        <5>1. texts' = texts + 1
          BY <4>1, <1>5
        <5>2. new = old \cup {n}
          BY <4>0, <4>1, <3>1
        <5> HIDE DEF old, new
        <5> QED
          BY <5>1, <5>2, <3>3, <3>4
      <4>2. CASE ~Captures(o)
        <5>1. texts' = texts + 0
          BY <4>2, <1>5
        <5>2. new = old
          BY <4>0, <4>2, <3>1
        <5> HIDE DEF old, new
        <5> QED
          BY <5>1, <5>2, <3>3, <3>4
      <4> QED
        BY <4>1, <4>2
    <3> QED
      BY <3>5 DEF DefaultsOwned
  <2> QED
    BY <2>3, <2>5, <2>6, <1>1, <1>2, <1>3, DefiningKeeps
<1> QED
  BY <1>4, <1>5 DEF AddOption, PushFails

LEMMA AddPositionalKeeps ==
  ASSUME CliInv, NEW p \in PositionalSpecs, AddPositional(p)
  PROVE  CliInv'
<1>1. PICK d : d = [kind |-> p.kind, required |-> p.required, values |-> << >>,
                    occurrences |-> 0]
  OBVIOUS
<1>2. /\ phase = "define" /\ phase' = "define" /\ argv' = argv /\ cursor' = cursor
      /\ uses' = uses /\ options' = options /\ texts' = texts
      /\ positionals' = Append(positionals, d)
  BY <1>1 DEF AddPositional
<1>3. /\ options \in Seq(OptionSet) /\ positionals \in Seq(PositionalSet) /\ DefaultsOwned
  BY DEF CliInv, CliTypes, AcceptedKept
<1>4. /\ \A k \in DOMAIN options : Holds(options[k], {})
      /\ \A k \in DOMAIN positionals : Holds(positionals[k], {})
  BY <1>2, NothingHeld
<1>5. d \in PositionalSet /\ d.values = << >> /\ d.occurrences = 0
  <2>1. << >> \in Seq(TokenTexts) /\ 0 \in Nat
    OBVIOUS
  <2> QED
    BY <2>1, <1>1 DEF PositionalSet
<1>6. PICK n : n = Len(positionals) + 1
  OBVIOUS
<1>7. /\ positionals' \in Seq(PositionalSet)
      /\ DOMAIN positionals' = DOMAIN positionals \cup {n}
      /\ \A k \in DOMAIN positionals : positionals'[k] = positionals[k]
      /\ positionals'[n] = d
  BY <1>2, <1>3, <1>5, <1>6, OneMoreElement
<1>8. Holds(d, {})
  BY <1>5, NewHoldsNothing
<1>9. \A k \in DOMAIN positionals' : Holds(positionals'[k], {})
  BY <1>4, <1>7, <1>8
<1>10. DefaultsOwned'
  BY <1>2, <1>3, DefaultsStay
<1> QED
  BY <1>2, <1>3, <1>4, <1>7, <1>9, <1>10, DefiningKeeps

\* A parser without registrations, as it is made and as lor_cli_deinit leaves it.
LEMMA EmptyParser ==
  ASSUME options = << >>, positionals = << >>, texts = 0, phase = "define", argv = << >>,
         cursor = AtStart, uses = << >>
  PROVE  CliInv
<1>1. CliTypes
  BY DEF CliTypes, CursorSet, AtStart
<1>2. DOMAIN uses = {} /\ DOMAIN options = {} /\ DOMAIN positionals = {}
  OBVIOUS
<1>3. DefaultsOwned
  <2>1. {k \in DOMAIN options : options[k].text} = {}
    BY <1>2
  <2> QED
    BY <2>1, FS_EmptySet DEF DefaultsOwned
<1>4. UsesInOrder /\ AcceptedKept
  BY <1>2, <1>3 DEF UsesInOrder, AcceptedKept
<1> QED
  BY <1>1, <1>4 DEF CliInv

LEMMA DeinitKeeps ==
  ASSUME CliInv, CliDeinit
  PROVE  CliInv'
<1>1. texts' = 0
  <2>1. texts = Cardinality({k \in DOMAIN options : options[k].text})
    BY DEF CliInv, AcceptedKept, DefaultsOwned
  <2>2. texts \in Nat
    <3>1. DOMAIN options = 1 .. Len(options) /\ Len(options) \in Nat
      BY DEF CliInv, CliTypes
    <3>2. IsFiniteSet(DOMAIN options)
      BY <3>1, FS_Interval
    <3>3. IsFiniteSet({k \in DOMAIN options : options[k].text})
      BY <3>2, FS_Subset
    <3> QED
      BY <3>3, <2>1, FS_CardinalityType
  <2>3. texts' = texts - texts
    BY <2>1 DEF CliDeinit
  <2> QED
    BY <2>2, <2>3
<1>2. (options = << >> /\ positionals = << >> /\ texts = 0 /\ phase = "define"
        /\ argv = << >> /\ cursor = AtStart /\ uses = << >>) => CliInv
  BY EmptyParser
<1>3. (options' = << >> /\ positionals' = << >> /\ texts' = 0 /\ phase' = "define"
        /\ argv' = << >> /\ cursor' = AtStart /\ uses' = << >>)
  BY <1>1 DEF CliDeinit, AtStart
<1>4. (options = << >> /\ positionals = << >> /\ texts = 0 /\ phase = "define"
        /\ argv = << >> /\ cursor = AtStart /\ uses = << >>)'
  BY <1>3 DEF AtStart
<1> QED
  BY <1>2, <1>4, EmptyParser, PTL

LEMMA CliInvKept ==
  ASSUME CliInv, [CliNext]_cliVars
  PROVE  CliInv'
<1>1. ASSUME NEW o \in OptionSpecs, AddOption(o)
      PROVE  CliInv'
  BY <1>1, AddOptionKeeps
<1>2. ASSUME NEW p \in PositionalSpecs, AddPositional(p)
      PROVE  CliInv'
  BY <1>2, AddPositionalKeeps
<1>3. ASSUME phase' = "done", code' # "OK",
             UNCHANGED <<options, positionals, texts, argv, cursor, uses>>
      PROVE  CliInv'
  BY <1>3, ParseFails
<1>4. CASE ParseAgain
  BY <1>3, <1>4 DEF ParseAgain, registered
<1>5. CASE TokenNull
  BY <1>3, <1>5 DEF TokenNull, Fail, registered
<1>6. CASE Help
  BY <1>3, <1>6 DEF Help, Fail, registered
<1>7. CASE UNCHANGED cliVars
  <2>1. /\ phase' = phase /\ code' = code
        /\ UNCHANGED <<options, positionals, texts, argv, cursor, uses>>
    BY <1>7 DEF cliVars
  <2>2. CliTypes' /\ (CursorAt(cursor) => CursorAt(cursor)')
    BY <2>1 DEF CliInv, CliTypes, CursorAt
  <2>3. UsesInOrder' /\ AcceptedKept' /\ PartAfter(Len(uses))' = PartAfter(Len(uses))
    <3>1. PICK n : n = Len(uses)
      OBVIOUS
    <3>2. PartAfter(n)' = PartAfter(n) /\ UsesInOrder' /\ AcceptedKept'
      BY <2>1, NothingUsed DEF CliInv
    <3> QED
      BY <3>1, <3>2, <2>1
  <2> QED
    BY <2>1, <2>2, <2>3 DEF CliInv
<1>8. CASE CliDeinit
  BY <1>8, DeinitKeeps
<1>9. CASE ParseStart
  BY <1>9, ParseStartKeeps
<1>10. CASE EndOfOptions
  BY <1>10, EndKeeps
<1>11. CASE ConsumePositional
  BY <1>11, ConsumeKeeps
<1>12. CASE LongOption
  BY <1>12, LongKeeps
<1>13. CASE ClusterLetter
  BY <1>13, ClusterKeeps
<1>14. CASE ParseEnd
  BY <1>14, ParseEndKeeps
<1> QED
  BY <1>1, <1>2, <1>4, <1>5, <1>6, <1>7, <1>8, <1>9, <1>10, <1>11, <1>12, <1>13, <1>14
     DEF CliNext

\* A parse that succeeds has used every argument and every letter and text in it once and in
\* order, and however a parse ends, each destination holds what was accepted for it before
\* the end (lor_cli_parse and lor_cli__apply_option, for any options and any command line).
THEOREM ParsesExactly == CliSpec => []ParseExact
<1>1. CliInit => CliInv
  BY EmptyParser DEF CliInit
<1>2. CliInv /\ [CliNext]_cliVars => CliInv'
  BY CliInvKept
<1>3. CliInv => ParseExact
  BY DEF CliInv, ParseExact, ArgumentsUsedOnce, UsesInOrder
<1> QED
  BY <1>1, <1>2, <1>3, PTL DEF CliSpec
=============================================================================
