--------------------------- MODULE EventLoopPool ---------------------------
(***************************************************************************)
(* The EventLoopPool (src/EventLoopPool.cc) starts one EventLoopThread     *)
(* after the other and ends them in the same order; each has a Thread      *)
(* (src/Thread.cc) whose thread_func owns an EventLoop on its stack.  Two  *)
(* handshakes: the Thread's latch_ tells start() that the thread runs, and *)
(* cv_ tells start_loop() that owning_loop_ is set.  In both the base      *)
(* thread may be asleep, and may wake up for nothing.                      *)
(***************************************************************************)
EXTENDS Integers, Sequences

CONSTANTS MaxThreads,   \* bound: on num_threads_
          Quits         \* whether callbacks in a worker call its loop's quit(): TRUE, FALSE, both

ASSUME LoopsAssumption == MaxThreads \in Nat /\ Quits \subseteq BOOLEAN

VARIABLES num_threads_, quits,          \* picked from 0 .. MaxThreads and Quits
          loops_,
          base_at, i,                   \* the base thread: where it is, with which thread
          asleep,                       \* it sleeps on a condition variable
          loop,                         \* quit_loop's local pointer is not null
          start_called_, started_, joined_, latch_,     \* Thread
          owning_loop_, exiting_,       \* EventLoopThread
          tpc, quit_,                   \* where its thread is; its EventLoop's flag
          check_failed

picked == <<num_threads_, quits>>
base == <<loops_, base_at, i, loop>>
thread == <<start_called_, started_, joined_>>
lpvars == <<picked, base, asleep, thread, latch_, owning_loop_, exiting_, tpc, quit_, check_failed>>

Threads == 1 .. MaxThreads
All(x) == [t \in Threads |-> x]

LoopsInit ==
    /\ num_threads_ \in 0 .. MaxThreads /\ quits \in Quits
    /\ loops_ = <<>> /\ base_at = "new" /\ i = 1 /\ asleep = FALSE /\ loop = FALSE
    /\ start_called_ = All(FALSE) /\ started_ = All(FALSE) /\ joined_ = All(FALSE)
    /\ latch_ = All(1) /\ owning_loop_ = All(FALSE) /\ exiting_ = All(FALSE)
    /\ tpc = All("none") /\ quit_ = All(FALSE)
    /\ check_failed = "no"

BaseAt(place) == base_at = place /\ ~asleep /\ check_failed = "no"
LoopsCheck(ok, what) == check_failed' = IF ok THEN check_failed ELSE what
\* The EventLoop of a thread exists from thread_func's first line to its end.
LoopExists(t) == tpc[t] \in {"init", "loop", "left", "clear"}

-----------------------------------------------------------------------------
(* The base thread: EventLoopPool::start.                                  *)

\* A round of its loop: Thread::start as far as start_async goes.
StartAsync ==
    /\ BaseAt("new") /\ i <= num_threads_
    /\ LoopsCheck(~started_[i] /\ ~start_called_[i], "start_loop, start_async")
    /\ start_called_' = [start_called_ EXCEPT ![i] = TRUE]
    /\ tpc' = [tpc EXCEPT ![i] = "routine"]
    /\ base_at' = "latch"
    /\ UNCHANGED <<picked, loops_, i, loop, asleep, started_, joined_, latch_, owning_loop_,
                   exiting_, quit_>>

Started ==
    /\ BaseAt("new") /\ i > num_threads_
    /\ base_at' = "started"
    /\ UNCHANGED <<picked, loops_, i, loop, asleep, thread, latch_, owning_loop_, exiting_,
                   tpc, quit_, check_failed>>

\* latch_.wait(), and the end of Thread::start.
LatchWait ==
    /\ BaseAt("latch")
    /\ IF latch_[i] > 0 THEN asleep' = TRUE /\ UNCHANGED <<base_at, started_>>
       ELSE /\ started_' = [started_ EXCEPT ![i] = TRUE]
            /\ base_at' = "cv" /\ UNCHANGED asleep
    /\ UNCHANGED <<picked, loops_, i, loop, start_called_, joined_, latch_, owning_loop_,
                   exiting_, tpc, quit_, check_failed>>

MutantLoopWaitOnce ==
    /\ BaseAt("cv")
    /\ loops_' = Append(loops_, i) /\ i' = i + 1 /\ base_at' = "new"
    /\ UNCHANGED <<picked, loop, asleep, thread, latch_, owning_loop_, exiting_, tpc, quit_,
                   check_failed>>

\* The wait of start_loop; its result is pushed to loops_.
LoopWait ==
    /\ BaseAt("cv")
    /\ IF ~owning_loop_[i] THEN asleep' = TRUE /\ UNCHANGED <<loops_, i, base_at>>
       ELSE loops_' = Append(loops_, i) /\ i' = i + 1 /\ base_at' = "new" /\ UNCHANGED asleep
    /\ UNCHANGED <<picked, loop, thread, latch_, owning_loop_, exiting_, tpc, quit_, check_failed>>

LoopsWake ==
    /\ asleep /\ asleep' = FALSE
    /\ UNCHANGED <<picked, base, thread, latch_, owning_loop_, exiting_, tpc, quit_, check_failed>>

-----------------------------------------------------------------------------
(* The base thread: ~EventLoopPool destroys threads_ from the first.       *)

Destroy ==
    /\ BaseAt("started") /\ base_at' = "quit_loop" /\ i' = 1
    /\ UNCHANGED <<picked, loops_, loop, asleep, thread, latch_, owning_loop_, exiting_, tpc,
                   quit_, check_failed>>

MutantReadLoopNull ==
    /\ BaseAt("quit_loop") /\ i <= num_threads_
    /\ loop' = FALSE /\ base_at' = "quit"
    /\ UNCHANGED <<picked, loops_, i, asleep, thread, latch_, owning_loop_, exiting_, tpc,
                   quit_, check_failed>>

\* quit_loop reads owning_loop_ under the lock, ...
ReadLoop ==
    /\ BaseAt("quit_loop") /\ i <= num_threads_
    /\ loop' = owning_loop_[i] /\ base_at' = "quit"
    /\ UNCHANGED <<picked, loops_, i, asleep, thread, latch_, owning_loop_, exiting_, tpc,
                   quit_, check_failed>>

MutantQuitLoopExiting ==
    /\ BaseAt("quit") /\ base_at' = "join"
    /\ LoopsCheck(loop => LoopExists(i), "quit() of a destroyed loop")
    /\ quit_' = [quit_ EXCEPT ![i] = @ \/ loop]
    /\ exiting_' = [exiting_ EXCEPT ![i] = TRUE]
    /\ UNCHANGED <<picked, loops_, i, loop, asleep, thread, latch_, owning_loop_, tpc>>

\* ... and calls the loop without it, ...
QuitLoop ==
    /\ BaseAt("quit") /\ base_at' = "join"
    /\ LoopsCheck(loop => LoopExists(i), "quit() of a destroyed loop")
    /\ quit_' = [quit_ EXCEPT ![i] = @ \/ loop]
    /\ UNCHANGED <<picked, loops_, i, loop, asleep, thread, latch_, owning_loop_, exiting_, tpc>>

\* ~Thread's checks; the threads are joinable, and joined_' is has_been_joined() by then.
ThreadDtor(t) == started_[t] /\ joined_'[t]

\* ... joins the thread, sets exiting_, and ~Thread follows.
JoinLoop ==
    /\ BaseAt("join") /\ tpc[i] = "exited"
    /\ joined_' = [joined_ EXCEPT ![i] = TRUE] /\ exiting_' = [exiting_ EXCEPT ![i] = TRUE]
    /\ LoopsCheck(start_called_[i] /\ ~joined_[i] /\ ThreadDtor(i), "join, ~Thread")
    /\ base_at' = "quit_loop" /\ i' = i + 1
    /\ UNCHANGED <<picked, loops_, loop, asleep, start_called_, started_, latch_, owning_loop_,
                   tpc, quit_>>

Destroyed ==
    /\ BaseAt("quit_loop") /\ i > num_threads_ /\ base_at' = "destroyed"
    /\ UNCHANGED <<picked, loops_, i, loop, asleep, thread, latch_, owning_loop_, exiting_, tpc,
                   quit_, check_failed>>

-----------------------------------------------------------------------------
(* The thread of an EventLoopThread: start_routine, then thread_func.      *)

ThreadStep(t, from, to) ==
    /\ check_failed = "no" /\ tpc[t] = from /\ tpc' = [tpc EXCEPT ![t] = to]
    /\ UNCHANGED <<picked, base, thread>>

MutantCountDownTwice(t) ==
    /\ ThreadStep(t, "routine", "main")
    /\ latch_' = [latch_ EXCEPT ![t] = @ - 2]
    /\ asleep' = FALSE
    /\ UNCHANGED <<owning_loop_, exiting_, quit_, check_failed>>

\* latch_.count_down() broadcasts when it reaches zero.
count_down(t) ==
    /\ ThreadStep(t, "routine", "main")
    /\ latch_' = [latch_ EXCEPT ![t] = @ - 1]
    /\ asleep' = IF latch_'[t] = 0 /\ base_at = "latch" /\ i = t THEN FALSE ELSE asleep
    /\ UNCHANGED <<owning_loop_, exiting_, quit_, check_failed>>

\* The EventLoop is constructed and thread_init_cb_ called.
InitLoop(t) ==
    /\ ThreadStep(t, "main", "init")
    /\ UNCHANGED <<asleep, latch_, owning_loop_, exiting_, quit_, check_failed>>

MutantPublishSilent(t) ==
    /\ ThreadStep(t, "init", "loop")
    /\ owning_loop_' = [owning_loop_ EXCEPT ![t] = TRUE]
    /\ UNCHANGED <<asleep, latch_, exiting_, quit_, check_failed>>

\* Under lock_: owning_loop_ is set and cv_ signalled.
Publish(t) ==
    /\ ThreadStep(t, "init", "loop")
    /\ owning_loop_' = [owning_loop_ EXCEPT ![t] = TRUE]
    /\ asleep' = IF base_at = "cv" /\ i = t THEN FALSE ELSE asleep
    /\ UNCHANGED <<latch_, exiting_, quit_, check_failed>>

\* A callback, or thread_init_cb_, calls quit().
CallbackQuits(t) ==
    /\ quits /\ tpc[t] \in {"init", "loop"} /\ check_failed = "no"
    /\ quit_' = [quit_ EXCEPT ![t] = TRUE]
    /\ UNCHANGED <<picked, base, asleep, thread, latch_, owning_loop_, exiting_, tpc, check_failed>>

\* loop() returns, when quit_ is set (it is not cleared on entry).
LeaveLoop(t) ==
    /\ quit_[t] /\ ThreadStep(t, "loop", "left")
    /\ UNCHANGED <<asleep, latch_, owning_loop_, exiting_, quit_, check_failed>>

Unpublish(t) ==
    /\ ThreadStep(t, "left", "clear")
    /\ LoopsCheck(~exiting_[t], "thread_func: !exiting_")
    /\ owning_loop_' = [owning_loop_ EXCEPT ![t] = FALSE]
    /\ UNCHANGED <<asleep, latch_, exiting_, quit_>>

\* ~EventLoop, and the thread ends.
ExitLoop(t) ==
    /\ ThreadStep(t, "clear", "exited")
    /\ UNCHANGED <<asleep, latch_, owning_loop_, exiting_, quit_, check_failed>>

BaseStep == StartAsync \/ Started \/ LatchWait \/ LoopWait \/ ReadLoop \/ QuitLoop
            \/ JoinLoop \/ Destroyed

LoopThreadStep(t) ==
    count_down(t) \/ InitLoop(t) \/ Publish(t) \/ LeaveLoop(t) \/ Unpublish(t) \/ ExitLoop(t)

LoopsNext ==
    \/ BaseStep \/ Destroy \/ LoopsWake
    \/ \E t \in Threads : LoopThreadStep(t) \/ CallbackQuits(t)

\* Threads that can run do; spurious wakeups are not counted on.
LoopsFairness == WF_lpvars(BaseStep) /\ \A t \in Threads : WF_lpvars(LoopThreadStep(t))

LoopsSpec == LoopsInit /\ [][LoopsNext]_lpvars /\ LoopsFairness

-----------------------------------------------------------------------------
\* The fields keep their types, a latch is counted down once, and loops_ has the loops
\* in the order of their threads.
LoopsTypeOK ==
    /\ i \in 1 .. num_threads_ + 1 /\ latch_ \in [Threads -> {0, 1}]
    /\ {asleep, loop} \subseteq BOOLEAN
    /\ {start_called_, started_, joined_, owning_loop_, exiting_, quit_}
           \subseteq [Threads -> BOOLEAN]
    /\ loops_ = [k \in 1 .. Len(loops_) |-> k] /\ Len(loops_) <= num_threads_

\* If nothing but the pool quits a loop, no CHECK or DCHECK of Thread and EventLoopThread
\* fails and quit_loop never calls a loop that is gone ("a tiny chance to call destructed
\* object", its comment says).
LoopsChecksHold == ~quits => check_failed = "no"

\* ... and every loop that start() has handed out exists, past thread_init_cb_ and still
\* turning, until its quit_loop is called: connections may be given to it.
HandedOutTurns == ~quits =>
    \A k \in 1 .. Len(loops_) :
        (base_at \notin {"quit_loop", "quit", "join", "destroyed"} \/ k > i) => tpc[k] = "loop"

\* start() returns: neither handshake can lose the wakeup.
PoolStarts == (base_at = "new" /\ ~quits) ~> (base_at = "started")

\* ~EventLoopPool returns with every thread joined, also if loops have quit before.
PoolEnds == (base_at = "quit_loop") ~> (base_at = "destroyed" \/ check_failed # "no")

\* What holds at any time, whatever the order in which the base thread and the threads of
\* the loops get through the two handshakes.
LoopsHandedOut == LoopsTypeOK /\ LoopsChecksHold /\ HandedOutTurns

\* Neither start() nor the destructor waits for a wakeup that has been lost.
LoopsEnd == PoolStarts /\ PoolEnds
=============================================================================
