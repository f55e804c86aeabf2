----------------------------- MODULE ThreadPool -----------------------------
(***************************************************************************)
(* The ThreadPool (src/ThreadPool.cc): worker threads take tasks from      *)
(* thread_main_cbs_, producers add them with run_task(cb, n), one of the   *)
(* producers (Main) starts, joins and stops the pool.  What a thread does  *)
(* from taking lock_ until it waits or releases it is one step.  A thread  *)
(* in a condition variable's set sleeps; a signal takes out one of them,   *)
(* and a spurious wakeup any.  Other producers are idle when Main joins or *)
(* stops the pool: they would use threads_ while it is being cleared.      *)
(***************************************************************************)
EXTENDS Integers, Sequences, FiniteSets, FiniteSetsExt

CONSTANTS Workers, Producers, Main,
          Tasks,
          max_task_size_,   \* 0: unbounded
          AnyTime,          \* run_task is also called when the pool is not running
          Repeats,          \* the repeat counts run_task is called with
          MaxRun,           \* bound: tasks accepted per life of the pool
          MaxStarts         \* bound: calls of start()

Quit == "nullptr"           \* the null callback

\* A pool without threads has no queue: run_task runs the task itself.
ASSUME ThreadsAssumption ==
    /\ Main \in Producers /\ max_task_size_ \in Nat /\ Repeats \subseteq Nat \ {0}
    /\ IsFiniteSet(Workers) /\ Workers # {} /\ IsFiniteSet(Producers)
    /\ Quit \notin Tasks

VARIABLES running_, thread_main_cbs_,
          tp_empty_cv_, tp_full_cv_,    \* empty_cv_ and full_cv_: threads asleep in them
          pc,                   \* where each worker is
          task,                 \* the task it has taken
          job,                  \* [cb, left] of the run_task a producer is in
          phase,                \* of the pool's life, as Main sees it
          starts,
          pool_aborted,         \* a CHECK or DCHECK failed
          accepted, ran         \* history: task -> how often

life == <<phase, starts, pool_aborted>>
counts == <<accepted, ran>>
tvars == <<running_, thread_main_cbs_, tp_empty_cv_, tp_full_cv_, pc, task, job, life, counts>>

NoJob == [cb |-> Quit, left |-> 0]

ThreadsInit ==
    /\ running_ = FALSE /\ thread_main_cbs_ = <<>>
    /\ tp_empty_cv_ = {} /\ tp_full_cv_ = {}
    /\ pc = [w \in Workers |-> "none"] /\ task = [w \in Workers |-> Quit]
    /\ job = [p \in Producers |-> NoJob]
    /\ phase = "new" /\ starts = 0 /\ pool_aborted = FALSE
    /\ accepted = [t \in Tasks |-> 0] /\ ran = [t \in Tasks |-> 0]

full(s) == max_task_size_ > 0 /\ max_task_size_ <= Len(s)

\* ConditionVariable::signal wakes one sleeper, if there is one.
Signalled(cv) == IF cv = {} THEN {cv} ELSE {cv \ {w} : w \in cv}

-----------------------------------------------------------------------------
(* Producers.                                                              *)

start ==
    /\ phase \in {"new", "joined", "stopped"} /\ starts < MaxStarts
    /\ running_' = TRUE /\ phase' = "running" /\ starts' = starts + 1
    /\ pc' = [w \in Workers |-> "while"]
    /\ accepted' = [t \in Tasks |-> 0] /\ ran' = [t \in Tasks |-> 0]
    /\ UNCHANGED <<thread_main_cbs_, tp_empty_cv_, tp_full_cv_, task, job, pool_aborted>>

Total(f) == FoldSet(LAMBDA t, n : f[t] + n, 0, Tasks)

run_task(p, t, n) ==
    /\ phase = "running" \/ (AnyTime /\ phase \in {"new", "joined", "stopped"})
    /\ job[p].left = 0 /\ ~pool_aborted
    /\ Total(accepted) + n <= MaxRun
    /\ pool_aborted' = ~running_
    /\ IF running_ THEN /\ job' = [job EXCEPT ![p] = [cb |-> t, left |-> n]]
                        /\ accepted' = [accepted EXCEPT ![t] = @ + n]
                   ELSE UNCHANGED <<job, accepted>>
    /\ UNCHANGED <<running_, thread_main_cbs_, tp_empty_cv_, tp_full_cv_, pc, task, phase, starts,
                   ran>>

MutantPushNoSignal(p) ==
    /\ job[p].left > 0 /\ p \notin tp_full_cv_ /\ ~full(thread_main_cbs_)
    /\ thread_main_cbs_' = Append(thread_main_cbs_, job[p].cb)
    /\ job' = [job EXCEPT ![p].left = @ - 1]
    /\ UNCHANGED <<running_, tp_empty_cv_, tp_full_cv_, pc, task, life, counts>>

MutantPushIgnoresFull(p) ==
    /\ job[p].left > 0 /\ p \notin tp_full_cv_
    /\ thread_main_cbs_' = thread_main_cbs_ \o [i \in 1 .. job[p].left |-> job[p].cb]
    /\ job' = [job EXCEPT ![p].left = 0]
    /\ tp_empty_cv_' \in Signalled(tp_empty_cv_)
    /\ UNCHANGED <<running_, tp_full_cv_, pc, task, life, counts>>

\* The loop of run_task under lock_: push until done, and signal once; or until the
\* queue is full, and sleep.
Push(p) ==
    /\ job[p].left > 0 /\ p \notin tp_full_cv_
    /\ \E k \in 0 .. job[p].left :
        LET s == thread_main_cbs_ \o [i \in 1 .. k |-> job[p].cb]
            left == job[p].left - k
        IN /\ \A i \in 0 .. k - 1 : ~full(SubSeq(s, 1, Len(thread_main_cbs_) + i))
           /\ left = 0 \/ full(s)
           /\ thread_main_cbs_' = s
           /\ job' = [job EXCEPT ![p].left = left]
           /\ IF left = 0 THEN tp_empty_cv_' \in Signalled(tp_empty_cv_) /\ UNCHANGED tp_full_cv_
                          ELSE tp_full_cv_' = tp_full_cv_ \cup {p} /\ UNCHANGED tp_empty_cv_
    /\ UNCHANGED <<running_, pc, task, life, counts>>

MutantJoinallStopsFirst ==
    /\ phase = "running" /\ \A p \in Producers : job[p].left = 0
    /\ phase' = "joining"
    /\ running_' = FALSE
    /\ job' = [job EXCEPT ![Main] = [cb |-> Quit, left |-> Cardinality(Workers)]]
    /\ UNCHANGED <<thread_main_cbs_, tp_empty_cv_, tp_full_cv_, pc, task, starts, pool_aborted,
                   counts>>

\* joinall: one null task per worker, ...
joinall ==
    /\ phase = "running" /\ \A p \in Producers : job[p].left = 0
    /\ phase' = "joining"
    /\ job' = [job EXCEPT ![Main] = [cb |-> Quit, left |-> Cardinality(Workers)]]
    /\ UNCHANGED <<running_, thread_main_cbs_, tp_empty_cv_, tp_full_cv_, pc, task, starts,
                   pool_aborted, counts>>

MutantStopSignalsOne ==
    /\ phase = "running" /\ \A p \in Producers : job[p].left = 0
    /\ phase' = "stopping"
    /\ running_' = FALSE
    /\ tp_empty_cv_' \in Signalled(tp_empty_cv_)
    /\ UNCHANGED <<thread_main_cbs_, tp_full_cv_, pc, task, job, starts, pool_aborted, counts>>

\* stop: under lock_, every sleeping worker is woken ...
stop ==
    /\ phase = "running" /\ \A p \in Producers : job[p].left = 0
    /\ phase' = "stopping"
    /\ running_' = FALSE
    /\ tp_empty_cv_' = {}
    /\ UNCHANGED <<thread_main_cbs_, tp_full_cv_, pc, task, job, starts, pool_aborted, counts>>

\* ... and both join the threads; stop forgets the tasks that are left.
JoinThreads ==
    /\ phase \in {"joining", "stopping"} /\ job[Main].left = 0
    /\ \A w \in Workers : pc[w] = "exited"
    /\ phase' = IF phase = "joining" THEN "joined" ELSE "stopped"
    /\ thread_main_cbs_' = IF phase = "stopping" THEN <<>> ELSE thread_main_cbs_
    /\ pool_aborted' = (phase = "joining" /\ thread_main_cbs_ # <<>>)
    /\ running_' = FALSE
    /\ UNCHANGED <<tp_empty_cv_, tp_full_cv_, pc, task, job, starts, counts>>

-----------------------------------------------------------------------------
(* Workers: loop().                                                        *)

\* while (running_), read without the lock.
While(w) ==
    /\ pc[w] = "while"
    /\ pc' = [pc EXCEPT ![w] = IF running_ THEN "locked" ELSE "exited"]
    /\ UNCHANGED <<running_, thread_main_cbs_, tp_empty_cv_, tp_full_cv_, task, job, life, counts>>

\* Under lock_: sleep, leave, or take the first task and make room.
Take(w) ==
    /\ pc[w] = "locked" /\ w \notin tp_empty_cv_
    /\ \/ /\ thread_main_cbs_ = <<>> /\ running_
          /\ tp_empty_cv_' = tp_empty_cv_ \cup {w}
          /\ UNCHANGED <<pc, task, thread_main_cbs_, tp_full_cv_>>
       \/ /\ ~running_
          /\ pc' = [pc EXCEPT ![w] = "exited"]
          /\ UNCHANGED <<task, thread_main_cbs_, tp_empty_cv_, tp_full_cv_>>
       \/ /\ thread_main_cbs_ # <<>> /\ running_
          /\ task' = [task EXCEPT ![w] = Head(thread_main_cbs_)]
          /\ thread_main_cbs_' = Tail(thread_main_cbs_)
          /\ IF max_task_size_ > 0 THEN tp_full_cv_' \in Signalled(tp_full_cv_)
                                   ELSE UNCHANGED tp_full_cv_
          /\ pc' = [pc EXCEPT ![w] = "run"]
          /\ UNCHANGED tp_empty_cv_
    /\ UNCHANGED <<running_, job, life, counts>>

MutantRunQuitSilent(w) ==
    /\ pc[w] = "run"
    /\ IF task[w] = Quit THEN pc' = [pc EXCEPT ![w] = "exited"] /\ UNCHANGED ran
       ELSE /\ ran' = [ran EXCEPT ![task[w]] = @ + 1]
            /\ pc' = [pc EXCEPT ![w] = "while"]
    /\ UNCHANGED <<running_, thread_main_cbs_, tp_empty_cv_, tp_full_cv_, task, job, life,
                   accepted>>

\* A null task passes the word on and ends the thread; any other is run.
Run(w) ==
    /\ pc[w] = "run"
    /\ IF task[w] = Quit
       THEN /\ tp_empty_cv_' \in Signalled(tp_empty_cv_)
            /\ pc' = [pc EXCEPT ![w] = "exited"]
            /\ UNCHANGED ran
       ELSE /\ ran' = [ran EXCEPT ![task[w]] = @ + 1]
            /\ pc' = [pc EXCEPT ![w] = "while"]
            /\ UNCHANGED tp_empty_cv_
    /\ UNCHANGED <<running_, thread_main_cbs_, tp_full_cv_, task, job, life, accepted>>

ThreadsWake ==
    /\ \/ \E w \in tp_empty_cv_ : tp_empty_cv_' = tp_empty_cv_ \ {w} /\ UNCHANGED tp_full_cv_
       \/ \E p \in tp_full_cv_ : tp_full_cv_' = tp_full_cv_ \ {p} /\ UNCHANGED tp_empty_cv_
    /\ UNCHANGED <<running_, thread_main_cbs_, pc, task, job, life, counts>>

ThreadsNext ==
    \/ start \/ joinall \/ stop \/ JoinThreads
    \/ \E p \in Producers : \/ \E t \in Tasks, n \in Repeats : run_task(p, t, n)
                            \/ Push(p)
    \/ \E w \in Workers : While(w) \/ Take(w) \/ Run(w)
    \/ ThreadsWake

\* Threads that can run do; spurious wakeups are not counted on.
ThreadsFairness ==
    /\ \A p \in Producers : WF_tvars(Push(p))
    /\ \A w \in Workers : WF_tvars(While(w)) /\ WF_tvars(Take(w)) /\ WF_tvars(Run(w))
    /\ WF_tvars(JoinThreads)

ThreadsSpec == ThreadsInit /\ [][ThreadsNext]_tvars /\ ThreadsFairness

-----------------------------------------------------------------------------
\* The fields keep their types and the bound on the queue is kept, also by producers
\* that wake up together (full() is tested again after tp_full_cv_.wait()).
ThreadsTypeOK ==
    /\ running_ \in BOOLEAN
    /\ tp_empty_cv_ \subseteq Workers /\ tp_full_cv_ \subseteq Producers
    /\ task \in [Workers -> Tasks \cup {Quit}]
    /\ max_task_size_ > 0 => Len(thread_main_cbs_) <= max_task_size_

\* "joinall() will make sure that all outstanding work is processed": when it returns
\* every task has run as often as it was accepted, and the queue is empty (its CHECK);
\* and no task ever runs more often than that, restarts included.
JoinedAllRun ==
    /\ phase = "joined" => ran = accepted /\ thread_main_cbs_ = <<>>
    /\ \A t \in Tasks : ran[t] <= accepted[t]

\* "It is safe to run_task() any time, before or after start()": no DCHECK stops it.
RunTaskAnyTime == ~pool_aborted

\* One signal per run_task is enough: tasks never wait with all workers asleep and
\* nobody about to signal.
NotAllAsleep ==
    (phase = "running" /\ thread_main_cbs_ # <<>>) =>
        \/ tp_empty_cv_ # Workers
        \/ \E p \in Producers : job[p].left > 0 /\ p \notin tp_full_cv_

\* joinall() "wait[s] for everything to finish": it returns.
JoinEnds == (phase = "joining") ~> (phase = "joined")

\* stop() returns, whatever the workers are doing.
StopEnds == (phase = "stopping") ~> (phase = "stopped")

\* What holds at any time: the bound on the queue, what joinall() promises, and that a
\* task does not wait for a wakeup nobody sends.
TasksServed == ThreadsTypeOK /\ JoinedAllRun /\ NotAllAsleep

\* Whichever way the pool is ended, it ends.
PoolReturns == JoinEnds /\ StopEnds
=============================================================================
