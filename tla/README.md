# annety in TLA+

Specifications of annety, a C++ reactor library (one event loop per thread, TCP
servers and clients, timers, thread pools, codecs and RPC), with the TLC runs that
check them on small instances and the TLAPS proofs of what holds for every instance.
They follow the default (Debug) build, in which DCHECK is active.

## The system

A thread runs at most one **EventLoop**: it polls, calls the handlers of the
**Channels** the **Poller** reports, and runs the functors other threads queued; an
eventfd wakes it. A **TimerPool** multiplexes the loop's timers onto one timerfd, a
**SignalServer** its signals onto one signalfd. A **TcpConnection** lives on one loop and
may be called from any thread. A **TcpServer** accepts through an **Acceptor** on a base
loop and spreads connections over an **EventLoopPool**; a **TcpClient** owns a
**Connector** that retries. What arrives goes through a **NetBuffer** and a **Codec** to
the user, or to the protobuf dispatcher and **Protorpc**. A **ThreadPool** and the
**BlockingQueues** work without loops. Logging, files, paths, strings, times and the
singletons stand beside this core. `PROJECT.json` lists every part, modelled or not.

## Modules

The reactor:

| module | source | state and actions |
|---|---|---|
| `EventLoop` | `EventLoop.cc` | `Push` and `Wakeup` are the two halves of `queue_in_own_loop`; `pc` is the loop thread's place |
| `SerialExecutor` | the promise of `queue_in_own_loop` | a queue and what has run; `EventLoop` implements it |
| `Channel` | `Channel.cc` | operators on a channel's events and status, shared by `Poller` and `TcpConnection` |
| `Poller` | `PollPoller.cc`, `EPollPoller.cc` | both back ends side by side; channels created, updated, removed, destroyed, descriptors reused |
| `TimerPool` | `TimerPool.cc`, `TimerFD.cc` | heap addresses reused; adds and cancels from another thread and from callbacks |
| `TcpConnection` | `TcpConnection.cc` | user calls in two steps, handlers as a list `todo`, weak and strong functors, the peer |
| `TcpServer` | `TcpServer.cc` | base and worker loops, the map of connections, shutdowns by the user, the destructor |
| `TcpClient` | `TcpClient.cc`, `Connector.cc` | both objects in one record `s`; methods are operators on it, since they call each other directly |
| `Acceptor` | `Acceptor.cc`, `SocketsUtil.cc` | one step per system call, a bounded table of descriptors, other threads that take and return them |
| `Signals` | `SignalServer.cc`, `SignalFD.cc` | masks of threads, pending signals, calls from the loop and from elsewhere |

Threads and lives of objects:

| module | source | state and actions |
|---|---|---|
| `ThreadPool` | `ThreadPool.cc` | a condition variable is its set of sleepers; signals and spurious wakeups |
| `EventLoopPool` | `EventLoopPool.cc`, `EventLoopThread.cc`, `Thread.cc`, `CountDownLatch.cc` | the base thread starts and ends the loop threads; two handshakes |
| `BlockingQueue` | `MutexLock.*`, `BlockingQueue.h`, `ConditionVariable.h` | a critical section per step; the mutex with its shadow `owning_thread_` |
| `Lifetime` | `Singleton.h`, `ThreadLocal*.h`, `AtExit.cc` | threads as stacks of calls; once-initialisation nested in constructors; the end of the process |

Data on its way:

| module | source | state and actions |
|---|---|---|
| `ByteBuffer`, `Buffering` | `ByteBuffer.h`, `NetBuffer.*` | indices, growth, migration, the two-part read; several buffers with moves and swaps |
| `ByteQueue` | the promise of a buffer | a sequence of bytes; `Buffering` implements it |
| `Codecs`, `Streams` | `codec/`, `protobuf/` | `encode` and `decode` as operators; a stream cut anywhere and `Codec::recv` at its end |
| `Protorpc` | `protorpc/` | clients with a channel each, one channel of the server for all, connections that come and go |
| `LogFile` | `Logging.cc`, `LogFile.cc` | severities, the open file, rotation by size, count and day |

Files and values:

| module | source | state and actions |
|---|---|---|
| `FileSystem` | external: the kernel | a tree of directories, files and links with the calls the code makes |
| `FileUtil`, `Files` | `FileUtil*.cc`, `FileEnumerator.cc`, `File*.cc` | enumeration and queries as operators; calls of two processes, a system call a step |
| `Handles` | `File.*`, `ScopedFile.*` | which object owns which descriptor |
| `FileIO` | `File*.cc`, `FileUtil.cc` | the loops that read and write, against short reads and failures |
| `Strings`, `FilePath`, `Formatting`, `TimeStamp`, `EndPoint` | the sources of these names | pure operators |
| `Values` | | states are the inputs; the reference definitions |

The `*Proofs` modules have the theorems: `LibraryProofs` those of `TimeStamp`, `Poller` and
`Handles`, `ServicesProofs` those of `BlockingQueue`, `Protorpc` and `EventLoopPool`,
`RefinementProofs` those of `EventLoop` and `Buffering`, `TcpOrderProofs` the order of the
bytes of `TcpConnection`, the others those of the module they are named after. `MC*` modules fix constants and put parts together for a run.

Fields keep the source's names. A failed CHECK sets a flag (`aborted`, `fault`, `fatal`,
`unsound`, `check_failed`) and stops what the process does. `TcpServer`, `TcpClient` and
`TcpConnection` use a plain functor queue with a swapped batch for a loop. An operator
called `Mutant...` is not part of a specification: it stands before the definition it
varies and shows what a property would catch if the code were wrong that way. Some
operators take as parameters what a LET would name, so that TLC's statistics stay small.

Settings of an object, or ways of using it, are picked in `Init` (`use`, `loops_`,
`retry_`, `own`, `num_threads_`, `quits`, `alone`, `codec`, `leaky`), so that one run covers
them. Some properties hold only for some uses, and say so in their antecedent (`Plain`,
`EndsWorkers`, `order`, `quits`, `alone`, `mishap`, `overlapped`); what happens otherwise is listed
below.

## Runs

| run | instance | result |
|---|---|---|
| `event_loop` | 2 threads, 3 functors | no lost wakeup; functors run; quit ends the loop; refines `SerialExecutor` |
| `tcp_connection` | 1 user thread; 2 messages of 2 units (partial writes, reordering) with queue bound 2, or 1 message with every call and the server's death | bytes in order, FIN after the buffer, in all uses; assertions and clean destruction in plain use |
| `tcp_connection_live` | plain use, 1 message | shutdown ends; a closed connection is removed |
| `timer_pool` | 2 addresses, 3 timers (one address is reused), 3 ticks | armed for the earliest; cancel is final; due timers run, or a fault was recorded |
| `tcp_server` | no workers or 2, 3 connections (one worker gets two) | complete map; while no worker is being ended connections go away clean, and only the check for a connection that is shutting down as the server ends can fail; the destructor ends |
| `tcp_client` | 4 calls, the last of which may destroy the client, both threads, retries on and off | assertions, one connection, no silent giving up, an orderly stop and an orderly end are final |
| `library` | eight parts, below | |
| `services` | six parts, below | |
| `timer_pool_late` (violation) | | a timer due when armed aborts the process (`TimerFD.cc:41`) |
| `tcp_connection_server_dies` (violation) | | `connect_destroyed` of a connection shutting down fails `Channel::remove`'s assertion |
| `tcp_client_retry` (violation) | | a retry queued before `stop()` undoes it |
| `string_eof` (violation) | 3 messages, terminators of 1 and 2 bytes | after an incomplete frame `StringEofCodec` looks past the terminator (`StringEofCodec.h:62`) |

`library` and `services` run parts that share no state. `part` is picked in `Init`, and only
that part moves, so that the states add up and do not multiply.

| part of `library` | instance | property |
|---|---|---|
| strings, paths, contents, times, numbers, addresses | every string to 4 characters of 3, every path to 5 of `/ . a z`, every file to 3 bytes with every pattern of short reads; every instant of a 64-bit range scaled to -200..199, over a calendar of two short months, with arithmetic that wraps around | `StringsAgree`, `PathsRebuild`, `ContentsReadBack`, `ConversionsAgree`: against reference definitions, or there and back |
| files | small trees with links, mount points and little room; two calls at once | `FilesAgree`: nothing outside is touched, nothing lost, success means done, queries agree |
| handles | 3 objects, 3 descriptors | `HandlesOwned`: one owner each, none leaked, none closed twice |
| buffers | 2 buffers, limits 0, 2 and none | `BuffersAreQueues`: refinement of `ByteQueue` |
| log | rotation at 3 bytes, days of 2 s | `LogFilesBounded` |
| poller | 3 channels, 2 descriptors (reuse needs more channels than descriptors) | `PollersAgree`: assertions hold; both back ends report the same |
| streams | 3 messages, every codec, bytes of base 8 so that headers overflow and limits are met | `StreamsCarry`: what arrived in full is delivered, once and in order; a refusal is noticed |
| lifetime | 4 classes, one needing two others that both need the fourth, 2 threads | `LivesMatchUses`: nothing is used after its end, a class ends before those its constructor asked for, and everything ends |

| part of `services` | instance | properties |
|---|---|---|
| thread pool | 2 workers, 2 producers, queue of 2, 2 lives | `TasksServed`: joinall runs everything; `PoolReturns`: joinall and stop return |
| event loop pool | up to 3 loop threads | `LoopsHandedOut`: loops handed out turn; `LoopsEnd`: handshakes wake, the destructor ends |
| blocking queue | 2 pushers, 2 poppers, a watcher, bounds 0 (none), 1 and 2, a spurious wakeup | `QueueChecksHold`; `QueueServes`: no call sleeps forever when as much is pushed as popped |
| RPC | 2 clients, 2 calls each, methods that answer, answer later or do not exist | `RpcAnswers`: an answer is to its call; `CallEnds`: on a connection that stays up, done runs |
| signals | 2 signals, a helper thread, 3 requests | `SignalsHandled`: a signal with a callback does not end the process, and is served |
| acceptor | 3 peers, 3 descriptors, 2 calls that fail though there is room | `AcceptorServes`: the reserve descriptor comes back unless one of its own calls fails for another reason than a full table; who waits is served or hung up on |

Deadlock is not checked where the modelled objects come to an end or bounds stop the
users. Bounds limit the users' calls, never the code's own steps, except `MaxTimers`,
`MaxConns`, `MaxTime`, `MaxSecond` and `MaxBytes`, which end a behaviour. They are chosen so
that each limit in the code (a full queue, an address or a descriptor used again, a buffer
that grows, a header that overflows, a file that rotates) is met within them.

**Fairness.** Loop threads and woken threads keep running (weak fairness); `poll` returns
when the eventfd is readable or a descriptor is ready; a call once begun is finished.
Strong fairness is used only in `TcpConnection`, for a pending timer and for a peer that
keeps making room. A mutex is handed to a thread that keeps asking for it. In `Protorpc`
the two ends read what has arrived and the service answers in the end; clients call and
hang up as they like. Spurious wakeups are never relied on.

## Behaviours outside the runs

The models also show these, each confirmed with TLC by the change named; no run is
kept for them.

| behaviour | how to see it |
|---|---|
| `shutdown()` overtakes a queued `send` of the same caller (`TcpConnection.cc:482`) | `ShutdownAfterSends`, plain use |
| `start_read` around a close re-enters `handle_close` (`TcpConnection.cc:349`) | `NoCheckFails`, a use with `start_read` and `stop_read` |
| `add_timer` reads a timer that has run and is deleted (`TimerPool.cc:52`) | `AddTimerReadsLive` |
| a cancel overtakes the queued add (`TimerPool.cc:96`) | `CancelStops` with `Handover = TRUE` |
| a worker quits before it runs `connect_destroyed`, and the connection is destroyed as it is (`TcpServer.cc:76`, `TcpConnection.cc:82`) | `ReleasedClean` |
| `~TcpServer` runs on a worker's thread (`TcpServer.cc:153`) | `DiesOnOwnThread` |
| the second `accept` fails for another reason than a full table, and `DPCHECK(::close(...))` aborts (`Acceptor.cc:134`); or the second `open` does, and the next full table aborts (`:133`) | `IdleComesBack` without `~mishap` |
| in the first day and milliseconds of the 64-bit range `to_explode`, `from_exploded` and `midnight` overflow (`TimeStamp.cc:291`) | `ExplodeRoundTrip` without `Explodable` |
| `from_days` multiplies without saturation: the product of a large `int` does not fit (`TimeStamp.h:463`) | `DeltaSaturates` without the range of the product |
| a batch larger than the bound blocks `joinall` (`ThreadPool.cc:110`) | `JoinEnds` with `max_task_size_ = 1` |
| `run_task` before `start()` aborts (`ThreadPool.cc:97`) | `RunTaskAnyTime` with `AnyTime = TRUE` |
| `stop()` after `disconnect()`, or on another thread, is not final (`TcpClient.cc:123`, `:127`) | `StopIsFinal`, retries off |
| a client destroyed while connected aborts in `~TcpConnection`, unless the user has the connection too: the destructor's own copy makes `unique()` false (`TcpClient.cc:72`) | `DestroyAnyTime` |
| a client destroyed with retries on or on another thread meets `~Connector`'s assertions, or is called after its end (`TcpClient.cc:56`, `Connector.cc:59`) | `ChecksHold` without its antecedent |
| `stop()` then `connect()` aborts (`Connector.cc:223`) | `ChecksHold` without its antecedent |
| `remove_extension()` and `extension()` do not give a path that ends in a separator again (`FilePath.h:144`) | `ExtensionRebuilds` |
| a loop quit by its own callback: `start_loop` hangs, or `quit_loop` calls a dead loop (`EventLoopThread.cc:62`, `:47`) | `PoolStarts`, `ChecksHold` without `~quits` |

Read in the source while modelling, and kept out of the instances:

* `move_file` across file systems of a symbolic link copies the file it points to
  (`FileUtilPosix.cc:197`, `stat`); of a tree it skips the links and devices in it (`:238`, what
  `lstat` says). Either way the links are deleted with the source (`:894`).
* Two clients of a `ProtorpcServer` at once, or an answer after its caller has gone, fail a
  CHECK of the one channel (`overlapped` and `late` in `Protorpc`).
* Between `close(idle_fd_)` and `accept` another thread can take the reserved descriptor
  (`alone` in `Acceptor`).
* A codec used on the loops of a threaded server fails `check_in_own_loop` in `Codec::recv`.
* `get_unique_path_number` of `..` numbers the empty path.
* `LogFile::append` writes outside the lock that `rotate` holds.
* The write of `LogFile::append_unlocked` is the argument of a DCHECK (`LogFile.cc:97`), which a
  build with NDEBUG does not evaluate.
* `SignalServer` blocks a signal in the calling thread only: threads started before take it.

## Proofs

All for every value of the constants; the only assumptions are the named ASSUMEs of the
modules, which TLC evaluates in the runs. A theorem `Spec => []P` goes through an inductive
invariant: it holds initially, one lemma per action (or kind of action) shows that a step
keeps it, and it implies `P`. TLC checked each invariant on the run's instance before it was
proved. Where `P` has an antecedent, so has the part of the invariant that needs it.

`RefinementProofs`, for any sets of threads and functors, and for any bytes, limits, initial
size and number of buffers:

* `TypeCorrect`: `Spec => []TypeOK`.
* `WakeupNeverLost`: `Spec => []NoLostWakeup`. `NoLostWakeup` speaks only of a sleeping
  loop and is not inductive; `WakeupInv` adds what holds while the loop is on its way to
  sleep and while a caller is between its push and its write to the eventfd.
* `LoopIsSerialExecutor`: `Spec => SerialExecution`, by step simulation with the queue
  mapped to `functors \o wakeup_functors_`; `BatchInv` says the local vector is empty
  outside the loop that runs it.
* `IndicesInOrder`: `BuffersSpec => []AllShaped`, the order of the indices drawn above class
  `ByteBuffer`.
* `BuffersImplementQueues`: `BuffersSpec => BuffersAreQueues`. One lemma per operation says
  what it does to the readable bytes (`HasReadDrops`, `MigrationKeeps`, `AppendAppends`,
  `ReadFdAppends`, ...); with `AllShaped` each step is then one of `ByteQueue`.

`TcpConnectionProofs`, for any users, payloads, marks and ways of using the connection:

* `ConnectionAlwaysClean`: `Spec => []ConnectionClean`. Two things about all uses make it
  inductive: `connect_established` is queued once and runs first (`Connecting`), and a
  handler has at most one of `handle_close` and `handle_read` still to call, and neither
  while a callback of theirs is running (`Handling`). In plain use the connection is `Kept`
  (registered, in the map, nothing on its way) until it is closed, and then `Leaving`: exactly
  one of `finish_cb_`, the removal from the map, `connect_destroyed` and `Channel::remove`
  is still to come, which is why nobody can let go of it too early. Most actions are
  instances of `QuietKeeps` (the life of the connection goes on); the rest have a lemma each.
* `FinAlwaysAfterBuffer`: `Spec => []ShutdownAfterBuffer`, from the same invariant
  (`Buffered`: the write event is enabled exactly when something is buffered).

`TcpOrderProofs`, on top of that invariant:

* `OrderAlwaysKept`: `Spec => []SentInOrder`. `Whole` says that the wire and `output_buffer_`
  are the messages `send_in_loop` took, two units each. For the order `OrderInv` follows each
  accepted message: it is with its caller, in one functor, taken, or will never be because
  nothing can leave any more (`Accounted`), and the functors of a caller are in the order of
  its calls (`OrderedIn`).

`TcpServerProofs`, for any loops, pools and connections:

* `ServerAlwaysClean`: `Spec => []ServerClean`; `MapAlwaysComplete`: `Spec => []MapComplete`.
  While no worker is being ended (the antecedent of `ServerClean`), `Phase` says for each
  connection which of its functors are pending, on which loop, at most once each, and what
  that says of its state, the map and the poller; until the destructor of a server without
  workers meets a connection that is being shut down and `Channel::remove` aborts
  (`MetShutdown`), after which nothing moves.

`TimerPoolProofs`, for any timers, addresses, delays and intervals:

* `TimersAlwaysAgree`: `Spec => []TimersAgree`. A timer that exists is queued to be added,
  waits or is being called, and is in one of these places only (`Placed`); `active_timers_`
  has the ids of `timers_` (`Active`); the timerfd is armed for the first or earlier
  (`Armed`).
* `CancelAlwaysStops`: `~Handover => (Spec => []CancelStops)`. `CancelInv` says that a
  cancelled timer that is being called is in `canceling_timers_`, and that the functor that
  cancels a timer is behind the one that adds it: what fails with `Handover`, when an id is
  passed to a callback before the add has run.

`ThreadPoolProofs`, for any workers, producers, tasks, bounds and repeat counts:

* `AcceptedAlwaysRun`: `ThreadsSpec => [](ThreadsTypeOK /\ JoinedAllRun)`. `PoolBalanced`
  counts: a task has been accepted as often as it has run, is in the queue, is with a worker
  or is still to be pushed; and there are as many null callbacks on their way as workers that
  have not left.
* `TasksAlwaysServed`: `BatchesFit => (ThreadsSpec => []TasksServed)`. Without `BatchesFit` (no
  batch is larger than the queue's bound) the producer sleeps before it signals.

`ServicesProofs`, for any number of threads, clients and calls:

* `QueueChecksNeverFail`: `QueueSpec => []QueueChecksHold`. A check is made by a thread that
  is past its while loop, so `QueueInv` adds that such a thread is the one inside the mutex,
  that `owning_thread_` is the holder, and that what it waited for is there. The lemmas
  follow the life of a critical section: taking the lock, the body, giving it up.
* `RpcAlwaysAnswers`: `RpcSpec => []RpcAnswers`. `RpcGood` holds until connections overlap or
  an answer is late: the channel has the connection that is open, and what is on its way to
  a client answers a call of its own.
* `LoopsAlwaysHandedOut`: `LoopsSpec => []LoopsHandedOut`. `LoopsInv` relates the loop of
  `start()` and of the destructor, which has got to thread `i`, to the place of every thread.

`LibraryProofs`:

* `ProductSaturates`, for any range of the integers: `from_product` is the product or the
  nearest limit. `RoundsDown`, for any units and range: `to_explode` gives the
  second and the millisecond of the floor, before the epoch too, if its subtractions stay in
  the range. `TimevalReturns`: `from_timeval` undoes `to_timeval` from the epoch on.
* `PollersAlwaysAgree`: `Spec => []PollersAgree`, for any channels and descriptors.
  `PollerInv` gives both tables as functions of the channels that are alive: a descriptor
  used again has no entry left.
* `HandlesAlwaysOwned`: `HandlesSpec => []HandlesOwned`, for any number of objects and
  descriptors; the invariant adds that a place without a File has no descriptor.

That a set of naturals has a least element (the lowest free descriptor, the earliest timer)
is proved from the well-foundedness of `<` (`LeastNatural`).

Only model-checked:

* all liveness: the prover does not reason about fairness;
* `TcpClient`, `Lifetime`, `LogFile`, `Signals`, `Acceptor`: their state is
  checked on the instances of the runs;
* `Values`, `Files`, `Streams`: they rest on recursive operators (paths, splitting,
  enumeration, the receive loop), and what these compute for every input needs an induction
  over data, which the installed provers cannot instantiate for an operator.

The functor queues of the other modules are modelled after what `LoopIsSerialExecutor`
states, and the stream below `Protorpc` after what `StreamsCarry` states; they are not
formally composed.

## Not modelled

* Wrappers of one system call (`SocketFD`, `EventFD`, `SelectableFD`, most of
  `SocketsUtil`): their results are the nondeterministic choices of the modules that call
  them.
* Delays as numbers: a timer may fire at any time after it is set, but the timer of
  `~TcpClient` (a second) not before the functors queued with it.
* The builds for other platforms: the poll-timeout timers, the self-pipe of `SignalFD`, drive
  letters, Mac OS copying.
* Permissions, locks, times and temporary names of files; name resolution; the layout of log
  lines; floating point; locale-dependent and wide-character functions.
* `Bind.h`, `Any`, exceptions and the platform's threads: language and platform
  support. The weak binding of `Bind.h` is part of the modules that queue weakly bound
  functors.
* The tables of `Crc32c`: a checksum is one byte that depends on all the others.
* Timed waits, which have no caller in the library.
* Several threads that log at once.
