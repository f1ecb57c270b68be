# liblor: verification

TLA+ models of the parts of liblor that carry state and logic of their own, the
TLC runs that check them on small instances, and proofs, checked by TLAPS, of
what matters most for every size. Every definition is translated from the C
sources; `PROJECT.json` maps each one to the lines it stands for.

    tlc -workers 2 -config ChannelBuffered.cfg MCChannel     # a run
    tlapm ChannelProofs.tla                                  # the proofs of a module

## 1. The system

liblor is a C library of independent modules. Most of them are called by one
thread and own the data they are handed; two, concurrency and tracing, are
shared by threads.

| component | state | operations | modelled in |
|---|---|---|---|
| channels (`concurrency.c:561-770`) | ring of slots or one rendezvous slot, `count`, `first`, `slot_full`, `waiting_receivers`, `closed`, a mutex and two conditions | init, close, deinit, send and receive with and without a deadline | `Channel`, `ChannelQueue` |
| deadlines, mutexes, conditions, threads (`concurrency.c:100-434`) | the operating system's | deadlines, sleeping, lock, wait, timed wait, signal, broadcast, start, join | `Deadlines`; the rest as far as `Channel` and `TaskGroup` use it |
| task groups (`concurrency.c:436-559`) | one thread handle per task, `accepting`, `cancelled`, `waited` | init, spawn, cancel, wait, deinit | `TaskGroup` |
| a caller with workers (its shutdown in `docs/concurrency.md:83-91`) | a group and a channel | spawn, send, receive, shut down | `WorkerPool` |
| tracing (`trace.c`) | the shared trace (file, lock, `failed`, `active_threads`, `next_thread_id`), one recorder per thread (buffer, `used`, `depth`, `suppressed_depth`, `reserved_ends`, statistics) | begin, end, instant, counter, flush, attaching and finishing a recorder, opening and finishing the trace | `Trace` |
| automatic zones (`trace.c:755-840`) | the recorder bound to the thread, and whether it is enabled | bind, unbind, enable, disable, the hooks on entry and exit | `AutoTrace` |
| the trace file (`trace.c:99-436`) | what was written, `first_event` | metadata, records, strings, times | `TraceFile` |
| maps (`map.c`) | dense entries, bucket index, owned keys | init, reserve, set, find, remove, clear, deinit | `HashMap`, `Dictionary`, `MapKeys` |
| sets (`set.c`) | a map whose entries are keys | add, remove, the four set operations, comparisons | `Sets` |
| dynamic arrays (`array.c`) | header with size and capacity, elements | reserve, resize, append, insert, remove, shrink, deinit | `Array`, `Vector` |
| leak checking (`memory.c:85-345`) | list of records of live resources | malloc, calloc, realloc, free, tracking of arenas and mappings, report | `LeakCheck` |
| arenas (`memory.c`) | list of blocks with `used` and `committed`, on the heap or in reserved address space | init, alloc, mark, rewind, reset, deinit; arrays, zeroed memory and copies of strings | `Arena`, `ArenaData` |
| scratch arenas (`memory.c`) | two arenas per thread | scratch begin, end, cleanup | `Scratch` |
| file mapping (`memory.c:855-975`) | a descriptor during the call, the mapping | map, unmap | `FileMap` |
| command line (`cli.c`) | registered options and positionals, the caller's destinations | registration, parsing, help and error texts | `Cli`, `CliHelp` |
| strings (`string.c`) | views; a growable string | cut, search, trim, split; reserve, assign, append, clear | `StringView`, `OwnedString` |
| random numbers (`random.c`) | generator, the descriptor of the system's source | bounded draw, system bytes, seeding | `Random` |
| printing (`print.c`, `print.h`, `type.h`) | what was written | printing lists of values of any type | `Printable`, `Printing` |
| names of types and statuses, numeric macros, feature detection, the generated single header | none | | not modelled, see section 13 |

How they interact: a channel calls the mutex and the conditions of the same
file; a task group starts and joins threads, and its tasks typically use
channels, which do not look at the group's cancellation
(`docs/concurrency.md:84-87`), so a program has to combine the two (`WorkerPool`);
recorders of several threads write to one trace under its spinlock and are
counted in it; the hooks of automatic zones call a recorder; a set is a map; arrays,
maps and strings allocate through the leak checker when it is compiled in, which
also records arenas and mappings.

What is hard in this code: threads that sleep, are woken, are overtaken and time
out in every order (channels); an owner and its tasks that cancel, end and fail
to be joined (task groups); buffers that must keep a promise about records not
written yet, through failing writes (tracing); index structures that are
rearranged in place, with allocations that fail halfway (maps, arrays, arenas);
sources that lie in what is about to move (arrays, strings); and arithmetic at
the ends of its range (deadlines, sizes, random numbers). `PROJECT.json` lists
these hazards line by line with the properties for them.

What makes each component correct is stated by the properties in the sections below.
Where a component has an abstract specification, the detailed one is shown to
implement it: `Channel` a closable queue, `HashMap` a dictionary, `Array` a
sequence.

## 2. Channels: `Channel`, `ChannelQueue`

`Channel` has the fields of `LorConcurrencyChannelImpl` as variables and one
action per critical section of a thread: from taking the mutex, or waking up
with it, to releasing it or falling asleep. A thread is in no call, about to
take the mutex (`enter`), `asleep` on the condition of its operation, `awake`
(removed from the wait set, wants the mutex), or `timedout`. Inside a critical
section nobody else sees the fields, so the order of statements only matters in
what is signalled.

* `SendBlocked`/`SendWait` are the `while` conditions and the wait;
  `SendBuffered` and `SendRendezvous` store, count and signal; `SendClosed`
  leaves. The receiving side is analogous; `ReceiveClosed` is reached only when
  nothing is buffered, so a closed channel drains. `Arrival` is the increment of
  `waiting_receivers` and the signal to senders with which a rendezvous receive
  starts, once per call.
* `Signal` removes any one waiter, or none if there is none. `SpuriousWakeup`
  may happen to any waiter. `WaitTimesOut` ends a wait whose deadline has
  passed, also while a signal is on its way to somebody else; `GiveUp` is the
  deadline that has passed before the wait (`concurrency.c:395-396`).
* A deadline is infinite, pending or passed; `Expire` lets it pass at any
  moment. How it is computed and converted to the clock of the condition variable
  is the subject of `Deadlines`.
* `ChannelDeinit` is only called when no operation is active, as
  `docs/concurrency.md:128` demands. Errors of lock and wait other than a
  timeout are left out: a mutex that is initialised and not recursively locked
  has none.

The histories `accepted` and `received` record what the callers were told. They
are read by properties only.

`ChannelQueue` is what a caller sees: operations are invoked, take effect at
one moment, and answer; values leave in the order in which they entered; a close
refuses later sends and lets receives drain the queue.

| run | instance | what it checks |
|---|---|---|
| `channel_buffered` | 1 sender, 2 receivers, 2 slots, 4 sends, fair | `NoLostWakeup`, `ImplementsQueue`, `BufferServed` |
| `channel_rendezvous` | 1 sender, 2 receivers, no capacity, 3 sends, fair | `ReceiversCounted`, `ImplementsQueue`, `TimedReturns`, `SomeoneMeets` |
| `channel_stranded` | 1 sender, 1 receiver, no capacity | finds `Unbuffered` violated |

`NoLostWakeup` is why one `signal` per transition suffices: whenever somebody
sleeps while the channel holds `n` values (or free places), at least `n` threads
of that side are awake and on their way. It survives overtaking because a
thread that overtakes uses up a value as well.

Bounds. Two threads of a side are needed for overtaking and for a signal that
reaches the wrong one: two receivers compete for the buffer and for the rendezvous
slot. Two slots and four sends make the ring wrap twice; three sends through the
rendezvous slot refill it after a timeout. More threads would add waiters that
behave like the second one; the proofs below do not depend on the bounds. No
symmetry is used, as it is not sound for the liveness properties.

Fairness. `Fairness` assumes that a thread that wants the mutex gets it, that
time passes, and that a timed wait ends after its deadline. These are what the
operating system's mutex, clock and timed wait provide. Nothing assumes that
anybody calls send, receive or close, or wakes without being signalled.

The divergence. `channel_stranded` shows a value accepted by a rendezvous
channel that no receiver is there for: the receiver's deadline passes, the
sender gets the mutex first, still counts the receiver, stores the value and
returns `LOR_STATUS_OK`; then the receiver leaves with `LOR_STATUS_TIMED_OUT`
(`concurrency.c:727-730`) without looking at the slot. The value is not lost,
the next receive takes it (`ImplementsQueue` holds: the slot is
a queue of one), but it waits in a channel documented as unbuffered.

### Deadlines: `Deadlines`

The two clocks count parts of a millisecond (`Millisecond` of them), while deadlines and
`lor_time_now_ms` are whole milliseconds: `TimeNowMs` is what a reading may show, the
clock cut down (`concurrency.c:123`) or 0 where `clock_gettime` fails (line 121).
`DeadlineAfter` is `lor_deadline_after_ms` with its saturation at `Infinite`. A turn of
the loop of `lor_sleep_until` is `LooksAtClock`: it ends, or computes the rest of
the time anew and blocks. `SleepMs` is the call up to that, or its immediate return when the
mutex or the condition cannot be initialised (lines 171-176); `SleepWakes` is
a turn after the wait has ended for whatever reason, and `WaitFails` a wait that returns an
error other than a timeout, which ends the loop (lines 180, 187). `WaitUntil` is
`lor_cond_wait_until`. `wall` is by how much the realtime clock is ahead of the
monotonic one, and `SetClock` sets it at any moment. One thread and one wait
are modelled: which thread a signal reaches is the business of `Channel`.

`lor_sleep_ms` is void, so a sleep that a failure has cut short looks like any other. The
call remembers it (`failed`: no mutex, no condition, a failing wait, or a clock that could
not be read for the deadline), and nothing is claimed about such a sleep.
`SleepsLongEnough` says of the others that they are short of the time asked for by less
than a millisecond. It is checked by the run `sequential` (section 10) on a clock
that starts anywhere between 0 and its end, 4 ms in halves, with times to wait from below
zero to past the end.

| run | instance | what it checks |
|---|---|---|
| `sleep_short` | the clock of `sequential` | finds `SleepsAtLeast` violated |
| `deadlines_step` | the same | finds `TimedOutIsLate` violated |

Two divergences. `concurrency.h:34` promises of `lor_sleep_ms`: "Sleeps for at least
`milliseconds` when it is positive". `sleep_short` shows a sleep of 1 ms in which
nothing fails, called in the second half of a millisecond: its deadline counts from
the beginning of that millisecond, and it ends when the next one begins.

`deadlines_step` finds `TimedOutIsLate` violated: a deadline is a
time of the monotonic clock (`concurrency.h:15-35`), but `pthread_cond_timedwait` is
given a time of the realtime clock (`concurrency.c:389-404`). If that one is set
forward while a thread waits, the wait reports `LOR_STATUS_TIMED_OUT` before the
deadline. `lor_sleep_until` looks at the monotonic clock again and is not affected.
`Channel` covers what follows for its operations as far as it lets a deadline pass at
any moment; its promises do not depend on when.

## 3. Task groups: `TaskGroup`

The owner's calls are split where tasks can come in between: `SpawnEnter` is the
check of `accepting` and `cancelled`, `SpawnStarts` and `SpawnFails` the rest;
`WaitStart` closes the group, the loop of `lor_task_group_wait` is `JoinSkip`,
`Join` or `JoinFails` for one task each, `WaitEnd` is its second loop;
`DeinitStart` cancels and starts the same loop, `DeinitEnd` frees the group or
keeps it if a task could not be joined. `Cancel` may be called by the owner or
by a running task. A task returns when it likes, except the `Endless` ones,
which wait to see the cancellation. The owner is one thread and does not call
from a task, as the documentation demands. `accepting`
is a plain `int`, so a task that cancels races with the owner's read; the model
interleaves the two accesses.

| run | instance | what it checks |
|---|---|---|
| `task_group` | 4 tasks, one endless, 2 failed joins, fair | `GroupOutlivesTasks`, `WaitOkMeansDone`, `DeinitFrees` |
| `worker_pool` | 2 tasks, 1 failed join, a channel with 1 slot, 3 jobs, fair | `NobodyInside`, `NothingAbandoned`, `ShutdownEnds` |

Fairness: the owner's call goes on while it can, and a task that is done, or sees
the cancellation, returns. A failing join is never forced by fairness,
otherwise it would rescue a wait for a task that never ends. Deadlock checking
is off, since a freed group has nothing left to do.

Bounds. Two failed joins in a group of four leave joined and unjoined handles
before and after each other, which is what the second loop and a repeated wait
have to cope with.

### A program with both: `WorkerPool`

`WorkerPool` instantiates `Channel`, with the owner as the sender and the tasks as
receivers, and `TaskGroup`. Each of its steps is a step of one of them, of both, or of
the program. The program is a caller of the library and shuts down as
`docs/concurrency.md:83-91` describes: the owner spawns tasks, sends jobs, closes the channel,
cancels the group or not, waits, and releases both; a task receives jobs until the
channel is closed or it sees the cancellation, and one whose job fails stops the
others by close and cancel. A wait or a deinit that failed is repeated.

The three properties need both modules. `NobodyInside` is the precondition of
`lor_channel_deinit`, which the code cannot test. `NothingAbandoned` says that a
shutdown without cancel does every job that was accepted. `ShutdownEnds` says that
it always ends; it fails if close does not wake both sides, since neither a task in
a receive nor the owner in a send looks at the group.

Bounds. Two workers and one slot make the owner block in send while a worker fails,
and leave a job in the buffer at the close. The fairness is that of the two modules, and
that the program's functions run on.

## 4. Tracing: `Trace`, `AutoTrace`, `TraceFile`

A recorder is owned by one thread, and touches shared state only under the
trace's spinlock, so a recording call is one action; `lor_trace_thread_finish`
is several, because it takes the lock once to flush and once to detach
(`FinishStart`, `FinishZone` for each open zone, `FinishFlush`, `FinishLeave`).
Records are counted in bytes (`Header` for the record header, plus the name) and
kept as kind and zone; their text is the subject of `TraceFile`. `FlushFails` is a flush
that stops at any record: what was written stays in the file, the buffer keeps
everything, and `failed` stays set for good. `Appended` and `NotAppended` are
the outcomes of `lor_trace__append`, including the flush that makes room.
`OpenAfter` reads the file as a viewer does, one record after the other (`Seen`): an end
closes the innermost zone.

| run | instance | what it checks |
|---|---|---|
| `trace` | 2 recorders in drop mode, buffers of 7, 3 events; or 1 recorder in flush mode, a buffer of 10, names of 1 and 3, 6 events; headers of 2, 2 thread ids | `Nested`, `EventsAccounted`, `EndNeverLost` |

`Nested` says that an end in the file closes the zone it was made for (`NoWrongEnd`)
and that zones are complete once a recorder is finished. `EventsAccounted` is the
statistics (`Accounted`) and what a successful `lor_trace_finish` implies for the
file (`FinishComplete`).

Bounds. A buffer of 10 holds two or three records, so it fills, flushes, and
refuses within six events, with zones three deep; names of two lengths make a
later small record fit after a larger one was dropped. In drop mode a buffer of 7
takes one zone and little else, so that the next begin is dropped and suppresses
what is inside it; two recorders attach, finish and attach again around
`lor_trace_finish`. The recorders are interchangeable (symmetry). Real buffers have at
least 1024 bytes; nothing in the code depends on that. Deadlock checking is off,
since a finished trace has nothing left to do. Counters go the same way as instants
and are left out.

### Automatic zones: `AutoTrace`

The compiler calls a hook on entry to and on exit from each instrumented function.
The hooks begin and end zones of the recorder that is bound to the thread; a recorder
is represented by the calls whose zones are open in it. `auto_thread` and `enabled` are
the two thread-local variables. `Call` and `Return` are a
function with its hooks, `Bind`, `Unbind`, `Pause` (disable) and `Resume` (enable) the
calls of the program, `RecorderFinish` unbinds as `lor_trace_thread_finish` does.

Nothing in the code matches a hook on exit with the one on entry: an exit ends the
innermost zone. `ZonesMatchCalls` says that this is the right one, for a program that
keeps a discipline, which the guards state: the function that binds also unbinds or
finishes, and the function that pauses also resumes, with nobody pausing in between,
since pauses are not counted (`trace.c:807-813`). Without it zones are closed by other
functions than opened them; the documentation does not promise more.

Bounds (run `sequential`): two recorders, of which one is bound at a time, five calls,
four deep.

### The file: `TraceFile`

`TraceFile` writes records, one at a time and already in the order that the lock
allows (which records reach the file is the business of `Trace`), as the tokens that
the code prints: literals of the format, digits, and characters of names. `Escape` and
`JsonString` are `lor_trace__write_json_string`, `Timestamp` is the division into
microseconds and a fraction padded with zeros, `Put` a write that may fail at any
token. The module has a reader of its own, which knows JSON and the names of members
but nothing of the writer: it finds the braces outside of strings, undoes escapes, and
evaluates numbers.

`FileReads` says that after a successful finish it finds exactly the events that were
written. Bounds (run `sequential`): names that are empty or contain quotes,
backslashes, a newline, a control character; numbers 0 and -3; microseconds of 8
units (three binary digits), times 1 and 9, whose fractions begin with zeros; two events
of two threads. The process id and the names that the system gives to addresses are left
out.

## 5. Maps: `HashMap`, `Dictionary`, `MapKeys`

`entries` is the dense array, `buckets` the index into it, `hash` an arbitrary
function that stays fixed. A map is single-threaded, but the loops that rearrange
the index are one step per iteration, because that is where its invariants are
at risk: `FillStep` is an iteration of `lor_map__fill_buckets`, and `EraseStep`
one of `lor_map__erase_bucket`, with the bucket to fill in `hole` and the
bucket looked at in `cursor`. `pending` is the prepared entry of a set that had
to grow the map first.

* A probe is the distance to the first bucket that stops it (`FirstOf`, with
  `Steps` the distance around the table), the bucket a loop over
  `(bucket + 1) & mask` would reach; `ProbeEnds` is what makes that loop end.
* `SetReplace`, `SetAppend`, `SetGrows` and `SetGrown` are `lor_map_set_raw`;
  `RemoveDone` clears the last hole, moves the last dense entry into the gap
  and renames its bucket, which it looks up by key as the code does.
* `SetUnprepared`, `SetUngrown`, `ReserveFails` and `InitFails` are the failing
  allocations and clones, each with what it has to undo. A size that would
  overflow fails in the same way. Calls refused for their arguments change
  nothing and are left out.
* `clones` counts, for each copy of a key, the times it was cloned less the times
  it was dropped. Each key has two names for its copies, since the old and the
  new copy are both alive during a replacement.
* A key or value that points into the map can only replace an entry that
  exists, so it never meets a growth; `SetReplace` covers it.
* `DoubledUntil` is the doubling of capacities. `FirstEntries` and
  `FirstBuckets` are 8 in the code; nothing depends on the value.

`Dictionary` is a finite function: the refinement maps it to the dense entries,
while the answers come from the index, so it says that the two agree.

### Keys: `MapKeys`

`HashMap` takes equality and hash for given. `MapKeys` models them for the policies
that a map comes with (plain bytes, borrowed and owned string views,
`lor_map__sv_hash`, `lor_map__sv_equal`, `lor_map__sv_clone`, `lor_map__sv_drop`) down
to the bytes: texts lie in the caller's `Buffers`, which it may rewrite (`Rewrite`)
unless the map borrows from them, and owned copies at the places malloc gives out. The
map itself is the bag of its keys. The hash is FNV-1a on a few bits, with its exclusive or
spelled out bit by bit (`Xor`).

`KeysSound` says that a lookup depends on the text only, or for plain bytes on the
bytes of the view; that a stored key keeps its text; and that what is allocated is one
copy for each owned key that is not empty.

| run | instance | what it checks |
|---|---|---|
| `collections` (with section 7) | 3 keys, 2 values, every hash function into 3, 6 and 7, room for 2 entries first | `ProbeEnds`, `CopiesBalanced`, `ImplementsDictionary` |
| `sequential` (`MapKeys`) | 2 buffers, 3 places on the heap, 4 texts of up to 2 bytes, 3 bits of hash, 2 keys | `KeysSound` |

Bounds. Three keys grow the map once, from a table of four buckets to one of eight;
the hashes collide in the small table and sit at the end of both, so that runs
of occupied buckets wrap around, which is where the shift and the distances can
go wrong. Removals happen at every entry of every such table. For the keys, two buffers
hold the same text at two places, and three places on the heap allow a copy to be made
while the one it replaces still exists.

No fairness is assumed. The run checks for deadlock: a call that has begun always has
a next step, and `ProbeEnds` bounds its loops.

## 6. Arenas, scratch scopes and files: `Arena`, `ArenaData`, `Scratch`, `FileMap`

`Arena` keeps the list of blocks oldest first, so the head that is filled is the
last element. Offsets count from a block's aligned data. Blocks are identified by
the memory they lie in (`Blocks`), which the system may hand out again after it
was released, so a stale mark could name a new block. `live` are the
allocations their owners may still use and `marks` the marks the caller may
rewind to: marks nest, a rewind ends the newer ones, and reset and deinit end
all of them, as `docs/memory.md:41-43` and `include/lor/memory.h` ask of the caller.

* `AllocInNewest` is an allocation served by the head; `AllocInNew` links a new
  block, and allocates from it unless the rest of it cannot be committed;
  `AllocFails` gets no block, because nothing can be reserved or the first commit
  fails and the block is released (`Uncommitted`).
* `Rewind` has the three outcomes of the code: a zero mark empties all blocks and
  keeps them; a mark on a block of the chain releases the newer blocks; a mark on
  no block does nothing. The asserts of the code are not guards: `Rewound` does
  what the code does without them, and `MarksUsable` says that they hold.
* `AlignedUp` is the rounding of the commit size with a mask. When the commit
  size is not a power of two, the result is some multiple of the page in the
  range, and the model takes any of them.
* Sizes and addresses that overflow, and NULL arguments, are refused without an
  effect and left out. The alignment is always `LOR_ARENA_MAX_ALIGNMENT`, the only
  one the API asks for.

`Scratch` is one level up: functions call each other, each borrows a scratch arena
and may leave a result in an arena its caller named. It uses of an arena what
`Arena` shows: a rewind drops exactly what was allocated after the mark. An
allocation is represented by the depth of the scope until whose end it must
last. Only the innermost function allocates, in its scratch arena or in the
arena of its result, and it names that arena as the conflict, as
`docs/memory.md:67-71` asks; a function without a result may name any conflict.

`ArenaData` is about the bytes: `AllocZero`, `AllocArray` with the product that may
not fit into a `size_t`, and `Strdup`. Its arena is one block, whose memory keeps what was
written before a rewind. `HelperExact` says that an allocation has room for all its
caller may write and holds what was promised, zeros also in memory used before,
whatever is done with its neighbours.

| run | instance | what it checks |
|---|---|---|
| `memory` (`Arena`) | 3 blocks, sizes 1, 3 and 11, alignment 2, pages of 4, 4 live allocations, 2 marks | `AllocationsSound`, `ChainKept` |
| `memory` (`Scratch`) | 4 nested scopes, 4 allocations in each arena | `EndTakesItsOwn` |
| `sequential` (`ArenaData`) | 8 bytes, `SIZE_MAX` 15, sizes 0, 1, 3, 4 and 5, 2 allocations | `HelperExact` |

`AllocationsSound` joins what an allocation relies on: it lies in a block of the chain
(`LiveBacked`), overlaps no other (`NoOverlap`), and is committed (`CommitCovers`);
`TotalsOrdered` is what `lor_arena_used` and its relatives report. `ChainKept` is that
the arena owns what the system has handed out (`HeldIsOwned`) and that every mark can be
rewound to (`MarksUsable`).

Bounds. A heap block of 6 holds two or three small allocations with padding and
none of 11, so that blocks are outgrown and oversized ones are made; a reserved
block of 24 with a commit size of 9, rounded to 12 and no power of two, is committed
in two or three steps. Three blocks with ids that are reused suffice for a
rewind over two blocks followed by new ones. Two marks nest, and one can be
taken before the first block exists. Four scopes are two arenas each borrowed
twice; results are handed up three levels. Blocks are interchangeable (symmetry).
The products of the sizes, up to 25, go past `SIZE_MAX` in one case
by so little that the wrapped product is small, in another not.

### File mapping: `FileMap`

One action per system call of `lor_mmap_file` and `lor_mmap_unmap`, each of which may
fail. `FileSettled` says that no descriptor is left open and that the structure
describes the mapping there is. Files of 0 to 10 bytes (run `sequential`).

## 7. Sets: `Sets`

A set is a map whose entries are keys (`set.c:33-71`), so `Sets` keeps of it what
`HashMap` shows: a configuration and at most one of the keys that the
configuration takes for equal. `SetInit`, `Add`, `Remove`, `Clear` and `Deinit` are
the calls that `set.c` hands to the map; reading a NULL set gives an empty one
with the configuration for bytes (`NoSet`), and adding to it creates it.

A configuration is a `semantics` (hash, equality, validity and context) and an
`owner` (clone and drop). `lor_set__operation` is one step per key: `Begin` checks
the operands and picks the result's configuration, `AddDue` adds the next key of
the first and then of the second operand, `AddFails` is a key that the result's
configuration refuses or that cannot be copied, with the release of the
unfinished result, and `Finish` hands the result over. Operands may be NULL and
may be the same set. The order of keys within an operand is left open, since it
is the map's (`docs/set.md` promises none). A result that cannot be allocated or
reserved changes nothing, and is left out, as are refused arguments; superset
relations are the subset ones with the operands exchanged.

| run | instance | what it checks |
|---|---|---|
| `collections` (with section 5) | 3 sets, 4 keys, 2 semantics, 2 owners | `CopiesOwned`, `RelationsExact`, `ResultExact` |
| `sets_policy` | the same | finds `PolicyOfNonEmpty` violated |

Bounds. Three handles are two operands and a result. One semantics takes two of
the four keys for equal and refuses another, which is what two configurations can
disagree about; two owners can conflict, and each can meet a set that borrows.
The three handles are interchangeable, and so are the owners (symmetry). Deadlock checking is
on.

The divergence. The header says that a result inherits the policy of a non-empty
operand and that only compatible owning policies take precedence
(`set.h:62-64`). Configurations are compared only when both operands have keys
(`set.c:89-94`), and an operand with a clone function determines the result's
configuration even when it is empty (`set.c:99-100`). `sets_policy` shows an
operation whose result compares the keys of one operand by the equality of the
other, empty one; keys that were different may then be merged. `ResultExact`
therefore claims the mathematical result only for operations whose result
compares keys as the operands that have keys do.

## 8. Dynamic arrays and leak checking: `Array`, `Vector`, `LeakCheck`

`LeakCheck` is the heap with its records. Its functions are operators on a record of
the whole memory that give the set of outcomes, a failed allocation among them, so that
a call of the array can chain several. `Moved` is a realloc that moves its record;
`Track` may find no memory for a record, and then the resource is missing from the
report, which is what the code does (`lost`). An arena at the start of a heap
block has the same address as the block; a record has a kind for that reason.

`Array` is `array.c` on that memory: a handle that is `Null` or names a block, `size` and
`capacity`. Each action is a call with all its outcomes. The source of an append or
insert is memory of the caller (`AppendFrom`, `InsertFrom`) or a range of the array's own
block (`AppendSelf`, `InsertSelf`), also one that reaches past its size, which is
refused. `Reserve` moves the block; the source is then read at its new place
(`SourceMoved`) or was copied before (`InsertSelf`).

`Vector` is what `array.h` promises: a sequence, where the values of a call are those
its source had when the call was made, and a call that fails changes nothing.

| run | instance | what it checks |
|---|---|---|
| `memory` (with section 6) | 3 addresses, 2 values, arrays of up to 3 elements, sources of up to 2, 2 other resources of the program of 1 element each | `ReportExact`, `ImplementsVector`, `NothingLeaked` |

Bounds. Three addresses are the array, the block it moves to, and the temporary copy
or one of the program's blocks; three elements reach a growth from every size and a
removal before, at and behind an element. The first capacity is 1 instead of 8, so
that growth happens at once. The run has a view without the record of the last call,
which decides nothing, and symmetry among addresses and among values. Deadlock checking
is off, as a call may find nothing to do.

## 9. The rest of the library

* `Cli` registers options and positionals and then takes the arguments one by one, as
  `lor_cli_parse` does: a token is `--`, help, a long option with or without a text, a
  cluster of letters with a text behind them, a negative number, a word, or a null
  pointer. Each action is a branch of the loop; `Parts` are the pieces of an argument
  that can be used up separately. `ParseExact` has two halves: every part of every
  argument is used once and in order (`ArgumentsUsedOnce`: each part is the one
  `Following` the last), and destinations hold what was accepted so far, also when the parse
  fails (`AcceptedKept`).
* `CliHelp` is the help and the error line as calls of stdio, of which any may fail. A
  text is its role and its length. `HelpExact`: a complete help has a line for everything
  registered (`OptionHelps`, `ArgumentHelps`), the helps of a section begin in one column, two
  blanks behind the widest label that is not too wide (`Aligned`, from the columns that
  a terminal would show, `Columns` and `LabelEnd`), and a complete line for an error of
  `TellsCause` shows the option or argument it is about. The errors that the code reports
  without that are not in `TellsCause`: out of memory and an invalid state print only the name
  of the code (`cli.c:689-691`), an invalid value is printed with the long name of
  its option but without the short one (`cli.c:661-667`), and an unexpected positional may be
  empty.
* `StringView` takes a text apart from both sides; `PartsExact`: the pieces, the
  delimiters and the rest make up the text. `OwnedString` grows like an array, is
  given views of itself, and keeps a NUL behind its contents (`StringExact`).
* `Random`: `Threshold` and the rejection loop of `lor_random_bounded_u32` on a small
  word; `lor_random_system_bytes` as open, reads that are short, interrupted or fail,
  and close. `RandomSound`: every result is equally frequent, and success means that
  every byte was written and the descriptor closed. The permutation of the generator is
  left open: a word is any word.
* `Printable` is what the macros of `print.h` and `type.h` make of an argument (the kind
  a C type selects, the member of the union a value is converted to, the elements of a
  container as they lie in memory) and the calls of stdio for it. `Printing` is
  `lor_fprint_values`: a pass that checks, one that writes, separators, endings, custom
  functions, and output that fails anywhere. `PrintsInOrder`: a call writes everything in
  order (`Complete`), or a beginning of that, or nothing if it refuses a value; and a value can
  be recognized in what was written (`SaysText` for a quoted one). The width of an integer
  type is its `Span`, the number of its values.

## 10. The run `sequential`

The components that one thread uses on its own are checked in one run: `MCSequential`
picks one of twelve for each behaviour and leaves the variables of the others alone.
Deadlock checking is off, as a parse or a print that has ended has no next step. The module
extends those of the components, so that its configuration gives their constants values;
only `TraceFile` is an instance.

| component | bounds | property |
|---|---|---|
| `Cli` | 4 options and 3 positionals to choose from, up to 2 of each, 10 tokens, up to 3 arguments, counts up to 2 | `ParseExact` |
| `CliHelp` | 5 options, 3 positionals, up to 2 of each, labels shorter and longer than the limit of the column, 14 | `HelpExact` |
| `StringView` | texts of up to 4 of two letters and a blank, delimiters of up to 2 | `PartsExact` |
| `OwnedString` | 2 letters, sizes up to 6, 2 places, up to 2 bytes at once | `StringExact` |
| `Random` | words of 3 bits, reads of 2 bytes, a seed of 4, requests of up to 5 | `RandomSound` |
| `Deadlines` | clock up to 4 ms in halves, set by up to one | `SleepsLongEnough` |
| `AutoTrace` | 2 recorders, 5 calls, depth 4 | `ZonesMatchCalls` |
| `Printing` | 13 arguments, up to 3 in a call, integers of 2 to 4 bits | `PrintsInOrder` |
| `FileMap` | files of 0 to 10 bytes | `FileSettled` |
| `TraceFile` | see section 4 | `FileReads` |
| `MapKeys` | see section 5 | `KeysSound` |
| `ArenaData` | see section 6 | `HelperExact` |

Why these are enough: three arguments are an option, the value it takes from the next
argument, and what follows, or a cluster between two others; two options are needed
for one name to conflict with another; a text of four holds a delimiter of two at
either end and in the middle, or two of them; with a `SIZE_MAX` of 6 a string
overflows its size while it doubles; a word of 3 bits has bounds that divide 8 and
bounds that do not; three reads are a first, a short and a last one.
`deadlines_step` and `sleep_short` (section 2) use the same module.

## 11. What is proved

TLAPS checks the following for every value of the constants. Each module's invariant is
stated at its head as a conjunction of named parts, with a lemma or a step for each action.

* `ChannelProofs`: `ChannelTypes`, `ChannelExactlyOnce`, and
  `ChannelRefinesQueue` (the channel implements `ChannelQueue`). `ExactlyOnce`
  is inductive together with `TypeOK`; the case of a send needs that the slot
  written is none of the slots in use, which is arithmetic modulo the capacity
  and is stated as lemmas of its own. `ChannelNoLostWakeup` is inductive on top of the
  types; the proof counts the awake threads of each side through every step, with the
  buffered and the rendezvous channel as separate cases. `ChannelReceiversCounted`
  counts in the same way the threads that have arrived at a rendezvous.
* `TaskGroupProofs`: `TaskGroupTypes`, `TaskGroupWaitedIsFinal`,
  `TaskGroupOutlivesTasks`, `TaskGroupWaitOk`. The invariant adds that a running
  task has a handle, that the group is closed while the owner waits, and that
  the loop has passed only handles that are gone unless a join failed.
* `WorkerPoolProofs`: `WorkerPoolNobodyInside` and `WorkerPoolNothingAbandoned`, by
  composition. The proof modules of the two components are instantiated (`CP`, `GP`),
  every step of the program is shown to be a step or a stutter of each, and so their
  invariants hold here without being proved again. `PoolInv` adds what the program
  contributes: where the owner is tells how far the channel and the group have come
  (`OwnerPlace`), where a task is tells what call it is in (`TaskPlace`), and a task
  that has left had a reason to (`TaskEnds`). `WorkerPoolInvariant` is the conjunction.
* `TraceProofs`: `TraceTypes`, `TraceReservation`, `TraceEndNeverLost`,
  `TraceActiveCounted`. The invariant says of each recorder that the bytes used
  and the bytes promised fit the buffer, and that the zones the caller has open
  are first `reserved_ends` recorded ones and then `suppressed_depth` dropped
  ones. `TraceNested` and `TraceEventsAccounted` are about the whole file of a thread.
  `FileInv` says that what is in the file followed by what is in the buffer leaves exactly
  the recorder's open zones open (`StreamOK`), and counts what was recorded, kept and
  dropped; a failed trace keeps only the prefix that was written. What a viewer computes
  from the records is taken apart by induction over the records.
* `CollectionsProofs`, maps: `HashMapTypes`, `HashMapProbeEnds`, `HashMapLookupExact` and
  `HashMapRefinesDictionary`. The invariant `IndexInv` states for a table what
  makes linear probing work (`Indexes`: the buckets name the entries, once each,
  and each is `Reached`, with no empty bucket on the way from its home), and
  for the middle of a removal what the backward shift maintains (`Shifting`:
  nothing is empty from the hole to the cursor, and no entry passed so far needs
  the hole). `LookupExact` alone is not inductive: it says nothing while the index
  is being rearranged. That a table with room has an empty bucket is the
  pigeonhole principle. The refinement then follows action by action: the
  bindings change only where an entry is stored or removed. `HashMapCopiesBalanced`
  needs `CopiesInv`, which says of every copy, held by an entry or waiting in `pending`,
  that it was cloned once more than dropped, and of every other copy as often.
* `CollectionsProofs`, sets: `SetsTypes`, `SetsCopiesOwned`, `SetsRelationsExact` and
  `SetsResultExact`. `SetsInv` says of a set that its keys are different and accepted under
  its policy and are copies exactly if it owns them, of a running operation the same of its
  unfinished result, that `copies` is the number of copies in both, and (`OnTheWay`) that
  the classes (`Closure`) of the keys added and still to be added are those of the mathematical
  result. The relations compare sizes and look keys up in one direction; that this is enough
  follows by counting classes.
* `ArenaProofs`, arenas: `ArenaOrder`, `ArenaChainKept`, `ArenaAllocationsSound`. The
  invariant orders everything along the chain: blocks are held once each and committed as
  far as they are used (`Chain`), a later allocation lies behind an earlier one
  (`LiveInOrder`), a mark lies behind the allocations made before it and before those made
  since (`MarksInChain`, `MarksInOrder`). That live allocations do not overlap is a
  consequence, and so is that a rewind leaves exactly the older ones. The totals are sums
  over the blocks, compared by induction along the chain.
* `ArenaProofs`, scratch arenas: `ScratchTypes` and `ScratchEndTakesItsOwn`, for any depth of
  nesting. The invariant says that a result goes to an arena which no scope from
  its owner on has borrowed (`Results`), that each allocation is in the arena
  of its owner (`Owners`), and that a scope's mark separates what outer scopes
  own from the rest (`Separated`).
* `ArenaProofs`, printing: `PrintsExactly`, for any arguments that C allows (`WellFormed`), any
  number of them and any even spans of the integer types that fit into the widest. `PrintInv`
  says how far a call has come: the first pass has the ending of the values it has seen
  (`Checking`), the second has counted those that are no endings (`Passing`), and what is
  written is the line of the values before this one (`Separating`), with as many of this one's
  chunks as are counted (`Writing`). Every line is a beginning of `Complete`, by induction
  over the values. The other half, that a value can be recognized in what is written for
  it, is a lemma for each type: a conversion keeps the number (`Kind` selects a member of the
  union that holds every value of the C type), and quoting can be undone.
* `ArrayProofs`: `ArrayReportExact`, `ArrayImplementsVector`, `ArrayNothingLeaked`.
  `MemoryOK` is a property of one memory, preserved by each function of `LeakCheck`
  with every outcome it has; `ArrayOK` says that the array's block is a movable block of
  `capacity` cells; `Keeps` relates two memories between which the array moved and
  nothing else changed. A call of the array chains several functions, and the lemmas chain
  in the same way. The step to `Vector` is where the source of an insertion is followed
  through the copies (`CopyMade`, `CopyReleased`).
* `SequentialProofs`: `RandomIsSound` (the rejected words are exactly the remainder, so the
  accepted ones fall into groups that a bijection makes equal; of the system's bytes, what
  is written is what lies before the cursor), `FilesSettled`, `SleepsLong` (`OnTime`: the
  deadline is the millisecond of the call plus the time asked for, or infinite), `ZonesMatch`
  (`Zones`: the open zones are those of the calls between the one that has bound the recorder
  and the one that has paused or the innermost, in order), `ArenaHelpersExact` (allocations
  lie apart, `Apart`, and every byte is the one expected, `Holding`), `PartsAreExact` (what
  was cut off, the view and the rest are adjacent ranges of the text; a chop stops at the
  least position at which the delimiter stands) and `StringsAreExact` (`StringInv`: a NUL
  behind the contents and within the block; the bytes a view had are found again in the
  block that the string has moved to).
* `SequentialProofs`, keys of maps: `KeysAreSound`, for every hash of a byte sequence that FNV-1a
  with any basis and prime gives. `KeyInv` says that a stored key is readable and keeps its
  text (`KeyStored`), that two of them differ in what the policy compares and share no
  copy (`KeysApart`), and that the copies are exactly what is allocated. That equal texts
  have equal hashes follows from the hash being computed from the bytes alone.
* `SequentialProofs`, command line: `ParsesExactly`. `CliInv` says that the uses so far follow
  each other (`UsesInOrder`), that the loop stands directly behind the last part used, and
  that the destinations hold what was accepted (`AcceptedKept`). The proof has a lemma for
  each form of an argument, and the cursor inside of a cluster as a part of its place.
* `TraceProofs`, command line: `HelpIsExact`, for any registered options and positionals, any
  lengths of names and any widest column. `HelpInv` says that a function which reports success
  has written all of its texts; the work is in what these are. An error line has one of three
  forms (`ThreeCalls`, `OneCall`, `FiveCalls`), each with the text of its cause. `Runs` gives the column in
  which each text begins. `Lines` says of a text that it consists of whole lines of which
  so many have a help, and how wide their labels are; it holds of each line of the help
  and is kept when texts are joined, so it holds of the sections (`HelpText`), and the helps of
  a section are in one column because the width is that of the widest label or `Cap`.

The proofs about printing and about the texts of the command line share no variables with the
components whose modules they stand in; a module is checked as a whole, and this way none takes
much longer than the others.

The assumptions are those of the modules, one `ASSUME` in each module that a theorem is
about: they say only which constants are numbers, which sets are finite, and that special
values (`Null`, `None`, `NoData`, `Borrowed`) are none of the ordinary ones. `SetsAssumption`
adds that every policy assigns each key a class, and that the bytes policy accepts all keys.

`Growth` of `Array` and `OwnedString`, the loop that doubles a capacity, is given as the set of
capacities it can end with (one element) instead of by recursion, so that the proofs can use
that the result suffices without computing it.

Some of these are steps towards others, and no run checks them any more: the type
invariants, `ExactlyOnce`, `LookupExact`, `Reservation`, `ActiveCounted`, `WaitedIsFinal`,
the order in the arena and the invariant of the worker pool.

Where a proof needs induction it is over a set: a subset of `0 .. n` that contains 0 and with
each number the next is all of it, proved from the well-foundedness of the naturals. That
suffices for sums, for a file read record by record, for the least position of something, and
for what is joined from many parts. Only model-checked are

* the liveness properties (`BufferServed`, `TimedReturns`, `SomeoneMeets`,
  `DeinitFrees`, `ShutdownEnds`), which need fairness and are out of the prover's reach;
* `FileReads`, which compares what a whole file says, numerals and escapes included, with what
  was written: that a quoted name is read back needs an induction over texts that skips as
  many places as an escape takes, and numerals one over powers of the base.

`TimedOutIsLate`, `SleepsAtLeast`, `Unbuffered` and `PolicyOfNonEmpty` do not hold (sections 2 and 7).

## 12. What remains

1. `FileReads` for names and numbers of any length: that a JSON string is read back (`Escape` and
   its inverse), then a numeral, a record, and the file.
2. Comparing strings and the random values that are derived from a word (`random.c`), which
   are not modelled yet.

## 13. Not modelled

* `lor.h` is generated from the headers and sources above by a build tool; it repeats them
  and is nearly half of the code by lines.
* Names of types and statuses are tables from enumerators to strings. `numeric.h` and
  `features.h` are preprocessor definitions, and so are the macros that release a
  resource at the end of a scope.
* How a floating-point number, a pointer or a structure of the library is worded when it
  is printed, and the wording of help and errors.
* The permutation of the random generator and what is derived from a word by shifts and
  divisions; comparing strings.
* The Windows and macOS branches of `concurrency.c`, `trace.c`, `memory.c` and `random.c`;
  the models follow the POSIX branch.
* Calls that are refused for a NULL or a malformed argument before they touch anything,
  except where a module mentions them.
* Tests, examples and build files.
