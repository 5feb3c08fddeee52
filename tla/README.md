# TLA+ models of mongo_utils

The repository collects a few small programs around MongoDB: a dump tool for
sharded clusters, the blocking queues it is built on, an IP-to-country library
with a Python binding, a Thrift calculator in C++ and Python with its generated
code, and a script that builds the third-party libraries. This directory holds
models of them, the configurations that check the models with TLC, and proofs
for TLAPS.

## The system

| Part | State | Operations | Interacts with |
|---|---|---|---|
| `base/mutex.h` | owner of the mutex, threads blocked on each condition | Lock, Unlock, guard scopes, Wait, Notify | everything below that shares memory |
| `base/blocking_queue.h`, `BoundedBlockingQueue` | a circular buffer of fixed capacity | put, take, empty, full, size, capacity | any number of threads |
| `base/blocking_queue.h`, `BlockingQueue` | a deque | put, take, size | no user in the repository |
| `tools/mongodump2.cpp` | the global queue `q`, the count, one cursor per dumper, the writer's counter, heap buffers, the output file | connect, count, list shards, dump a shard, write, join | mongos/mongod servers, which other clients change |
| `ip_lib/ip_table.h` | a vector of address ranges | LoadDict, PushItem, CleanUp, GetCountry, split_string | dictionary files, the Python binding |
| `ip_lib/ip_lib.cpp` | one table of the module, one per `IP2Location` object, the interpreter's error indicator | load, load through a callback, lookup, cleanup | Python threads, which take turns at the interpreter lock |
| `tutorial/server.cpp`, `py-server.py` | a log of results per connection (C++) or per server (Python) | ping, add, calculate, getStruct, zip | Thrift clients; a thread per connection |
| `tutorial/client.cpp`, `py-client.py`, `CalculatorClient` | the call it waits for | the same calls, one at a time | one connection to a server |
| `tutorial/gen-cpp`, structs | `__isset` flags and fields | `read()` and `write()` of arguments, results and structs | a peer of any version |
| `tutorial/gen-cpp`, `...ConcurrentClient` | sequence numbers, a message handed on, two mutexes | the same calls, from several threads on one connection | the server |
| `init_env.sh` | flag files, source and install directories, shell variables | seven build steps | itself, when it runs again after a failure |
| `tools/demo.cpp`, `bson_demo.cpp`, `SConstruct`, vendored code, dictionaries | none of its own | | |

What is hard in them:

* **Queues.** One `Notify` per operation, spurious wakeups, a full buffer that
  overwrites. Correct means: FIFO, each value delivered once, nobody asleep on
  a value or a slot that no one else is coming for.
* **Dump.** Main counts first and the writer stops at that count, while the
  cursors see the collection later; buffers change hands between threads;
  requests and the output stream fail. Correct means: what was there all the
  time is in the file, once; buffers are freed once and not used afterwards; the
  program ends.
* **IP table.** Unsigned arithmetic in the bounds of the search, rows of 32 bits
  and lookups of 64, tables that nothing keeps sorted, and a parser that steps
  over characters. Correct means: the search answers what a scan would, and
  never leaves the table.
* **Binding.** A callback lets other threads see, extend or clean up a table that
  is half loaded; loading twice appends; files stay open. Correct means: what a
  lookup finds is what a file says that the table was loaded from, and only tables that were
  meddled with are out of order.
* **Calculator.** Logs of different lifetime in the two languages, shared by
  threads in one of them; `int32` overflow; a reply that cannot be written after
  the log has changed; a client that takes the next message for its own. Correct means:
  every call takes effect once, and its answer is the one it gets.
* **Structs.** Unknown fields, fields of another type, missing ones. Correct means:
  a reader consumes one message, and stores what was sent.
* **Concurrent client.** The thread that reads the head of a message is seldom the
  one it is for. Correct means: everybody gets its own reply, the stream is read by
  one at a time from message to message, and not all of them sleep.
* **Build script.** A run that stops anywhere must be repeatable; the variables
  set by one step and used by another are not there when the first one is skipped.

`PROJECT.json` lists every hazard at its line with the properties that cover it.

## Modules

| Module | Models |
|---|---|
| `Mutex` | `base/mutex.h`: mutex owner, condition wait sets; Lock, Unlock, Wait, Notify, spurious wakeup. Holds no behaviour of its own: the monitors extend it. |
| `BoundedChannel` | What a queue promises: an atomic FIFO channel with calls and returns. |
| `QueueMonitor` | What the two queues of `blocking_queue.h` share: calls, the mutex around each method, `take` waiting on `notEmpty`, returns. |
| `BoundedBlockingQueue` | The bounded monitor of `blocking_queue.h`, and the channel it implements. |
| `BlockingQueue` | The unbounded monitor; the same channel, with a put that always has room. |
| `MongoDump` | `mongodump2.cpp` from the first connect to the end of the process, over the atomic channel. |
| `IpTable` | `ip_table.h`: the table and the binary search, one probe per step; with what `SplitString` must do to its lines as an invariant. |
| `SplitString` | `split_string` as a function from a text and the memory behind it to the places of its fields, next to a definition of the fields of a text. |
| `IpLib` | `ip_lib.cpp`: the module's table and the objects, every function, loads with callbacks. |
| `CalculatorService` | What a calculator server promises: calls that take effect once, at one instant. |
| `CalculatorRpc` | `CalculatorClient`, `CalculatorProcessor` and the handlers of both servers, over connections; implements `CalculatorService`. |
| `ThriftStruct` | `read()` and `write()` of all generated structs, against any peer. |
| `ConcurrentClient` | `CalculatorConcurrentClient` and `SharedServiceConcurrentClient`, with the library's `TConcurrentClientSyncInfo` as an external part. |
| `BuildEnv` | `init_env.sh`. |
| `MC...` | The small instances that TLC checks (`BuildEnv` needs none). |
| `..._proofs` | Theorems about the module of that name; `BlockingQueue_proofs` is about both queues. |

### The queues

`pc[t]` is where thread `t` is in a method; a method's body runs in one step per
stretch of code between two points where the mutex changes hands: `Enter` is the
guard's constructor, `PutWait`/`TakeWait` the call of `Wait` (release and block
in one step), `Wakeup` its return with the mutex, `PutPush`/`TakePop` the rest of
the method, `Return` the guard's destructor. The tests of the while-loops are
guards of these actions, so the loop is the return from `Wakeup` to the
state before the test. `Spurious` lets `pthread_cond_wait` return unasked.
`GuardsPair` is also what makes the discarded return codes of pthread harmless.
All this is in `QueueMonitor`, together with `ItemsCovered`, which both queues must keep;
`BoundedBlockingQueue` adds `notFull` and the methods of the bounded queue, `BlockingQueue` those of
the unbounded one. The `MaxLength` of the latter only bounds the model.

### The dump

Main's steps are `MainConnect` ... `LastCount`; each dumper is
connect, query, then `DumperNext`/`DumperPut` until `DumperEnd`; the writer is
`WriterOpen`, then take, write, free. A put or take on `q` is one atomic step
here: `QueueImplementsChannel` (proved, and checked by the run `queue`) is what
allows that.

The servers are modelled by how the driver shows them to the program. `docs` is
what is stored, as pairs of shard and `_id`: the copies of the document `_id`. `Insert` and `Remove` are other
clients, and a migration is the one followed by the other, for two copies of one document. A cursor has a set of
documents `ahead`, fetches nonempty batches of them in any order, and meets or
misses a document that is inserted later; a document that stays is returned
once; `reached` is history: what open cursors ever had in front of them. A request may fail: an exception in main is caught and main
returns `EXIT_SUCCESS` (`caught`); a string thrown by `isMongos`, any exception in
a dumper thread, or a null cursor ends the process (`aborted`). `exited` is the
end after all threads were joined. `IntLimit` is 2^31 in the program: `ToInt` narrows the count.

Abstracted: option parsing, what is printed, the order of shard names (any order
may be the order of names), failing thread creation, updates that move a
document within a shard, shards added during the dump, and the count of a mongos
as one instant. The branch for invalid documents is left out because the
constructor of `BSONObj` throws for those before they reach the queue.

### The IP table and its binding

A line is its three fields and an address is the number its four parts add up
to, or `Malformed`; `Word` is 2^32 and `LongWord` 2^64. `Row` narrows what
`Ip2Int` returns. `LoadDict` on a line without a third field, and a probe beyond
the table, end in the states `bad_line` and `overrun`: the C++ has no defined
behaviour there.

How a line comes to its fields is `SplitString`: `Walk` moves a pointer over memory
that goes on behind the NUL, as the code does. A field is the pair of the places where it begins and
ends. `SplitIsRight` says what the walk
is good for: texts without empty fields are split right (`RightFields`); doubled delimiters end
up inside fields but no letter is lost and nothing is added (`NothingLost`); fields come in the
order of the text (`InOrder`); and only a text that ends in a delimiter
makes the pointer leave it (the last lines of `dict/czip.txt` do). `FieldsAreRight` is
the same as an invariant of `IpTable`.

In `IpLib` every call is one step, because the interpreter lock is held from its
beginning to its end; only `__init__` with a callback gives it up, once per line,
so `load[t]` is the line in whose callback a thread is. The callback itself
may call everything too, which is the same interleaving. The binary search is one
step here and only its result matters; the dictionaries have a first range at 0,
as the two in the repository do. `crash` tells the ends
apart: a read beyond the table (`overrun`), `fgets` on a null `FILE*` (`no_file`),
and a null pointer from a callback that raised (`callback`). `gaps`,
`sources` and `origins` are history: which tables were meddled with, and which loads and files
the rows of a table came from since it was last empty.

### The calculator

`CalculatorRpc` has one action for each stretch of code between two messages:
`Send` is `send_X`, `Receive` is `recv_X` with its checks in the code's order,
`Process` is `process()` with the handler, `Reply` is the write of the result.
A handler's effect is a set of pairs of a reply and the log after. An `int32_t`
overflow yields any value, and `INT_MIN / -1` may end the process (`Trap`); in
Python the result does not fit, the log has it already, and the reply fails when it
is written (`ReplyFails`). `served` is what the processor knows: a
`SharedServiceProcessor` answers anything but `getStruct` with an exception, which is how the
message that nobody waits for comes about (`strayed`).

`CalculatorService` is the abstract server: a call has one effect, at an instant
between its beginning and its end, or fails with its connection, before or after
it. `Service` maps the one to the other: the default entry that a C++
`getStruct` leaves in the log counts as none, and a connection that
has been taken out of step by a stray exception has left.

### The structs

Every `read()` is one loop over another table of fields, so `ThriftStruct` has the
loop once (`ReadField`, `ReadStop`, `ReadEof`) and the tables as sets; `map`
names the lines of each of them. The peer is either this program (`SendOwn`, the
generated `write()` with any of the optional fields set) or anybody: any
fields, of any type, nested, and a connection that ends anywhere. A value
is the place of its field in the message, so a reader that mixes fields up is
seen. `log` (all that was sent of the message, stops included), `own` and `at` are history.

### The concurrent client

`pc[t]` runs through `send_X` and `recv_X`. The read mutex is held from "checking"
on and given up in `Sleep`. `HandOn` and `Notify` are `updatePending`, `Test` is the
condition of `waitForWork`, `Leave` is the destructor of the receive sentry, which
wakes the next reader or marks the connection bad. The sync object belongs to the
Thrift library, which is not in `src/`: those definitions are marked external and follow
what the calls here rely on. `SendFails` and `MarkBad` happen without the
read mutex, between any two steps of the reader.

### The build script

Each function runs check, clean source, clean install, unpack, make, install, touch. A
directory is `none`, `partial`, `full` or `mixed` (new files over old ones). `Broken` is a
failure or an interruption at any command, before or half through it; what is
in variables is gone with the process. `MakeFails` is the failure that follows from the state and the
machine: something needed is not there, boost is not found, or thrift is to be compiled on a mac,
where it cannot be (`init_env.sh:162`). `split` is history: a run broke off between the flag
files of boost and of the mongo driver.

## What the runs check

| Run | Instance | Shows |
|---|---|---|
| `queue` | 4 threads, 2 values, capacity 2, any number of calls | types, `GuardsPair`, `NoLostWakeup`; the monitor implements `BoundedChannel`; `EventuallySettled`; by the deadlock check, some thread can always go on |
| `unbounded_queue` | 3 threads, 2 values, up to 3 elements | `ItemsCovered`; it implements the same channel (`ChannelSpec`) |
| `dump_static` | up to 2 shards with up to 2 documents each, capacity 2, nobody changes them | `HeapExact`, `ExactDump`, `DumpEnds`, no deadlock |
| `dump_changes` | the same, capacity 1, every insertion and removal, a count of 4 that is narrowed to -4 | `NoneForgotten`, `WrittenOnce`, `StarvedOnlyByRemoval`, `BlockedOnlyByInsertion` |
| `dump_loses` | 1 shard, 2 documents | violation of `CompleteDump` |
| `table` | tables of up to 3 rows over 4 addresses, every lookup; every text of up to 5 characters with up to 2 behind it | what a search may miss, reads inside, malformed addresses nowhere, every search ends; `FieldsAreRight` |
| `table_overrun` | up to 2 rows | violation of `LookupAnswers` |
| `iplib` | an object and the module's table, 2 threads in loads, 2 dictionaries and a missing file, 3 loads with a callback, 2 open files | `UnsortedOnlyIfMixed`, `LookupsAreRight`, `OverrunOnlyInGaps` |
| `rpc` | 2 connections with 2 calls each, either server, either set of methods, integers of 2 bits | `AnswersOwnCall`, `AnswersAreRight`; the servers implement `CalculatorService`; `CallsEnd` |
| `thrift_struct` | each of the nine argument and result structs, messages of up to 3 fields with known and unknown numbers, any type and nesting | `Framed`, `ReadsWhatWasSent`, `RoundTrip`, `ReadEnds` |
| `client` | 3 threads, 3 calls, `ping` and `zip`, numbers that wrap around | `OwnReply`, `Aligned`, `SomeoneReads`, `CallsEnd` |
| `build` | all seven packages, with or without a boost of the machine, on a mac or not, 3 failures | `FlagMeansInstalled`, `BuiltOnOurs`, `AllBuilt` |

The type invariant of each module is a run's invariant or a conjunct of one
(`UnsortedOnlyIfMixed`, `AnswersOwnCall`, `Framed`, `Aligned`, `FlagMeansInstalled`),
or proved only (the unbounded queue, the dump, the table).

**Bounds.** Four threads are enough for two sleepers and two that signal, overtake or are woken
unasked, and for sleepers on both conditions at once: with capacity 2 that takes two threads on their way.
Three are enough for the unbounded queue, which has one condition. Capacity 2 tells full, empty and neither apart,
capacity 1 makes every dumper block. With four documents over two shards there
is one dumper done while the other blocks, and a count smaller than the number
of documents read. Three rows give the search a second probe on either side, and
four addresses allow rows that are equal, nested, inverted, adjacent and apart; five
characters allow three fields, or a doubled delimiter in front of another field. Two loads can
overlap, on one object too; a third one finds no file, as the two that were opened are never closed, and
ends the process on what the others left. Two dictionaries that cut the
addresses differently tell their answers apart. Two calls per connection are enough for an answer to
belong to the call before, for a log to be read after it was written, and for a
connection to be opened again. They are too few for a client that has taken a stray exception to read
a reply of another name: the state `garbled` takes a third call, and that it is not reached without a stray
exception rests on the proof. Integers from -2 to 1 have a sum, a difference and a product
that fit, a sum that does not, a
division that traps and quotients that the two languages round differently. Three fields
allow a known field inside a known struct inside a message with an unknown one.
With three threads there is a reader, one that its message is for, and one
that is neither. Three failures can hit one function twice and another one.

**Deadlock.** The check is off where the modelled system may really stop: after the bounded calls
(`rpc`, `client`, `thrift_struct`), when the process has died (`iplib`), when
everything is built (`build`), and in a dump that waits for documents that were removed or
blocks because the count was wrong (`dump_changes`, `dump_loses`).

**Fairness.** Everywhere it says that a thread that can run is run, and that whoever it waits
for outside of the program answers or fails:

* `queue`: weak fairness of each thread's steps. pthread mutexes are not fair, so
  endless traffic may starve a thread; `EventuallySettled` is about behaviours in
  which calls and spurious wakeups stop (`TrafficStops`), not about an assumed fair mutex.
* `dump_static`: weak fairness of main, the writer and each dumper; a
  request is answered or fails. The documents are finite, so a dumper is overtaken
  only finitely often.
* `table`, `thrift_struct`: the thread that searches or reads goes on.
* `rpc`: weak fairness of each server thread and of a client that waits.
  Clients need not call, go on or close.
* `client`: weak fairness of each thread's steps and of the server's answers, which closing the
  connection disables; and strong fairness of getting the read mutex. The last one is
  about the mutex and spurious wakeups: without it, a thread that wakes up for no
  reason, finds nothing and sleeps again may shut the others out for ever.
* `build`: commands end, and somebody runs the script again as long as something is
  missing.

Every property of a passing run has a seeded fault (`...OffByOne`,
`...Silent`, `WriterKeep`, ...) under which it is violated. The faults stand next
to the definitions they replace and belong to no specification.

### Violations found

* `dump_loses` (`mongodump2.cpp:57`): with an insertion after the count, the
  writer stops before an older document reaches it; the exit is normal.
  `NoneForgotten` says what remains true: the document is still in a buffer or
  in the queue. `BlockedOnlyByInsertion` and `StarvedOnlyByRemoval` are the other faces of
  the same race: dumpers or the writer that block for ever.
* `table_overrun` (`ip_table.h:88`): `mid - 1` wraps for an address below the
  first range. `StaysInTable` is the positive side: a sorted table that starts at
  0.0.0.0, as `GIP-lib-latest.txt` and `col_iplib_global.txt` do, is never left.

### What else the models show

These are in the models, as a case of an action or an exception in a property, without a
run of their own:

* The count is narrowed to `int` in `mongodump2.cpp:135` and may come out negative, and the writer
  then stops before the first document; a failed output stream goes unnoticed (`:53`), so
  `NoneForgotten`, `ExactDump` and `CompleteDump` are about good streams.
* A document that moves from one shard to another while both cursors are open is in the file twice, once or
  not at all, as the cursors meet its two copies. `WrittenOnce` says when it can be there twice; that
  a moved document may be missed is why `NoneForgotten` is about copies that stay and copies that a
  cursor had in front of it.
* The binding returns True from `load_dict` for a file that is not there, and sets
  TypeError but returns False for arguments that are no strings. A table in which rows were left out
  during a load, by a callback or a cleanup, can be searched beyond its beginning.
* A `oneway` call to a server without that method is answered all the same, and the
  client takes the exception for the answer to its next call; hence `strayed`.
* The Python handler logs results that do not fit an `i32`; the connection ends when the
  reply is written.
* `Calculator.h:562` says that the concurrent client "correctly handles out of order
  responses". `generateSeqId` looks at the smallest number in use only, and `zip` uses 0: once the
  numbers have come round, two calls may share one. `OwnReply` is checked within one turn.
* A run that breaks off between the flag files of boost and of the mongo driver (`split`)
  leaves a state in which every later run skips `build_boost` and does not
  set `BOOST_RELEASE_PATH`. On a machine without a boost the driver then fails every time; on one
  with a boost it is built on that, and nothing says so (`BuiltOnOurs`). This is the only case in which it is.
* On a mac the script ends at thrift (`init_env.sh:162`), so poco, which needs nothing, is never built
  either; `AllBuilt` says what is built in the end for each of these machines.

## What is proved

For all values of the constants that satisfy the named assumptions:

* **Bounded queue** (`BlockingQueue_proofs`), for any finite set of threads and
  any capacity: `TypeCorrect`, `GuardsCorrect`, `WakeupsSuffice`,
  `QueueImplementsChannel`. `NoLostWakeup` is not
  inductive alone: a step of a thread that does not own the mutex, or that sleeps
  on the wrong condition, could break it, so its two halves (`ItemsCovered`,
  `SlotsCovered`) are kept together with `TypeOK` and `GuardsPair`. The counting lemmas say
  how `Takers` and `Putters` change when one thread moves. The refinement has one step per action: all
  but `PutPush`, `TakePop`, `Get`, `Return` and the call are invisible in the channel.
* **Unbounded queue** (the second half of `BlockingQueue_proofs`, where `U` is the model of that
  queue with one condition): `UnboundedTypeCorrect`, `UnboundedWakeupsSuffice`
  (`ItemsCovered`), `UnboundedQueueImplementsChannel` (`ChannelSpec`). The argument is that of the bounded one with one
  half of the invariant; here the types alone say who owns the mutex. That the channel always has room for
  a put needs the bound of the model as an invariant (`RoomKept`).
* **Dump** (`MongoDump_proofs`), with clients that change the collection: `TypeCorrect`,
  `NothingForgotten`, `DocumentsWrittenOnce`, `BuffersExact`, `WriterStarves`, `DumpersBlock`,
  and `DumpIsExact` for a collection nobody changes. The state relations in `TypeOK` (a dumper
  holds a document exactly while it puts, the writer exactly between take and
  free, no writer before main spawned it) are what makes it inductive.
  `NoneForgotten` needs `Bookkeeping`: counted or reached documents that were not removed are
  still stored, no cursor is open before the count, and the writer frees
  a buffer only after a good stream has its document. The others rest on `Places`: a
  document is in one place at a time (in front of its cursor, with the client, in a dumper's hand, in the
  queue, with the writer), in none once it is written and freed, and in none before
  it was stored and its cursor opened. `WrittenOnce` and `HeapExact` then follow
  step by step (`CopiesOnce`: no copy is written twice). `Counts` relates the counter to what has left all places, which
  decides who can block on whom, and with it `ExactDump` is a matter of cardinalities.
* **IP table** (`IpTable_proofs`), for tables of any size and words of any width:
  `TypeCorrect`, `MissCorrect`, `SortedMissCorrect`, `SearchStaysInTable`,
  `MalformedCorrect`, `FieldsCorrect`. `Bounds` says that the bounds are in the table except for a `ceil`
  below zero, and `Bracketed` that every range with the address in it is
  between them, unless a row is on the wrong side of it (`Misleads`); `MissIsRight` follows when the bounds
  have crossed, and `SortedMissCorrect` because no row of a sorted table misleads. `FieldsCorrect`
  (`FieldsAreRight`, from `SplitCorrect`) is about texts of any length with anything behind them: from every
  pair of pointers the walk can reach, it ends at the NUL with the fields of what is left
  (`PassRight`).
* **Binding** (`IpLib_proofs`), for any number of objects and threads and any sorted
  dictionaries: `TypeCorrect`, `TablesSorted`, `LookupsCorrect` and `OverrunsExplained`. That a
  table is sorted is not inductive: what
  a callback appends must come behind what is there. `OrderInv` adds that loads under way have
  different numbers (`Numbered`) and that a table with rows of one load only has rows
  from in front of the line at which that load is (`RowsBehind`). The other two need to know
  where the rows come from: each is a line of a file that the table has rows of
  (`Originated`); a load that was not disturbed has put a row there for each line behind it (`Pushed`), in the
  order of its file (`Growing`), and the whole file when it is over
  (`Complete`). The search is a function on pairs of bounds; that it ends, and right, for a
  table of any size follows from the pair with the least distance among those for
  which it would not: a probe only leads to pairs that are closer together.
* **Calculator** (`CalculatorRpc_proofs`), for any number of connections and calls and
  integers of any width: `TypeCorrect`, `ClientsTakeTheirOwn` (`AnswersOwnCall`), `ClientsAreToldRight`
  (`AnswersAreRight`) and `CalculatorImplementsService`. What a client receives is what is on its
  connection, so the invariants speak of messages: a connection that was not
  taken out of step by a stray exception carries at most one, which belongs to the call under
  way and says what that call may be told (`InOrder`, `InStep`). The refinement shows step by
  step that `Process` is the instant of a call, and everything else a beginning, a failure,
  an end, or nothing the service sees.
* **Structs** (`ThriftStruct_proofs`), for any field numbers and messages of any length and
  nesting: `TypeCorrect`, `MessagesAreFramed` (`Framed`), `WhatWasSentIsRead`
  (`ReadsWhatWasSent`) and `MessagesArrive` (`RoundTrip`). Behind each field of the message some
  structs are open; the reader's frames are what the tables make of those that are open behind the
  last field it took (`InMessage`), so it ends where they end. `Stored` accounts for what it has
  stored by the fields in front of it: the last one of each name, except for structs it is still
  in. That a name stands for one place in the message (`NamesApart`) is read off
  the tables. What this program writes is shown to nest like any other message, with the places
  of the fields that `Written` selects.
* **Concurrent client** (`ConcurrentClient_proofs`), for any number of threads:
  `TypeCorrect` and `StreamAligned` for any number of calls, `RepliesReachCallers` (`OwnReply`)
  and `SomeoneAlwaysReads` (`SomeoneReads`) as long as the sequence numbers have not gone round
  (`OneTurn`: 2^31 calls on a connection). `Stream` says that a message whose
  head has been read is exactly the one that is handed on or held by the thread with the read
  mutex, as long as the connection is not marked bad. `MailInv` adds that the numbers of calls under
  way differ and that a reply is in one place, with the number of its call; `WakeInv` that a
  thread that was woken, or is about to look, stands behind every sleeper.
* **Build script** (`BuildEnv_proofs`), for any number of failures: `FlagsCorrect` and
  `BuildsOnOurs`. `Progress` says what the two directories of the package are at each
  command; the second theorem adds that everything in front of the running function has its flag
  and so has all that an installed package needs (`Sequence`), and that `BOOST_RELEASE_PATH` is set
  between the two flags until a run breaks off there, and never again after that (`Path`).

Only model-checked are the liveness properties (`EventuallySettled`, `DumpEnds`, `SearchEnds`, `CallsEnd`,
`ReadEnds`, `AllBuilt`): the prover handles neither fairness nor ENABLED. Every safety property
of a passing run is proved.

The prover cannot use the library's induction theorems. Where a theorem needs induction
over natural numbers (the search of `IpLib`, the last field of a name in `ThriftStruct`, the walk over
a text in `SplitString`), the proof takes the least counterexample instead.

## Not modelled

* `CalculatorMultiface` and `CalculatorNull` of the generated code, which nothing
  instantiates, and the hooks of `eventHandler_`, which nobody sets.
* The recursion limit of the protocol (the structs nest once), timeouts (none is set) and a
  restart of a server (nothing in the repository restarts one).
* `NotifyAll` and the construction and destruction of mutexes and conditions; failing thread
  creation and option parsing in `mongodump2`.
* `tools/demo.cpp` and `bson_demo.cpp` (straight-line calls of the driver), `SConstruct`,
  `setup.py` and `run.sh`, vendored libraries, and the dictionaries as data.
