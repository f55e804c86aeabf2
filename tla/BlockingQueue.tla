--------------------------- MODULE BlockingQueue ---------------------------
(***************************************************************************)
(* BlockingQueue over its two traits: threads push and pop under lock_ and *)
(* sleep in empty_cv_ (poppers) or, when the queue is bounded, in full_cv_ *)
(* (pushers).  Every thread has a number of calls of one operation to      *)
(* make.  What a thread does between taking lock_ and giving it up is one  *)
(* step, the steps of the lock itself are of their own: a thread that is   *)
(* signalled must win lock_ again, against threads that never slept.       *)
(*                                                                         *)
(* MutexLock and ConditionVariable are as a debug build has them: the      *)
(* pthread mutex, made to check errors, and owning_thread_, the shadow of  *)
(* its holder that lock, unlock and wait check and mark.  `checks' tells   *)
(* whether a CHECK or a DCHECK of theirs has failed.  A condition variable *)
(* is the set of the threads asleep in it.                                 *)
(***************************************************************************)
EXTENDS Integers, Sequences, FiniteSets

CONSTANTS Pushers, Poppers, Watchers,   \* the threads, by the operation they call
          Bounds,                       \* max_size_; 0 stands for the unbounded trait
          Calls,                        \* bound: calls of each pusher and popper
          MaxSpurious,                  \* bound: wakeups for no reason
          NoThread                      \* ThreadRef()

ASSUME QueueAssumption ==
    /\ Bounds \subseteq Nat /\ {Calls, MaxSpurious} \subseteq Nat
    /\ NoThread \notin Pushers \cup Poppers \cup Watchers
    /\ Pushers \cap Poppers = {}

-----------------------------------------------------------------------------
(* MutexLock and ConditionVariable.                                         *)

LockState(holder, owning, checks) ==
    [holder |-> holder, owning_thread_ |-> owning, checks |-> checks]

MutexLock == LockState(NoThread, NoThread, "hold")

check_unheld_and_mark(l, t) ==
    LockState(l.holder, t, IF l.owning_thread_ = NoThread THEN l.checks ELSE "fail")

check_held_and_unmark(l, t) ==
    LockState(l.holder, NoThread, IF l.owning_thread_ = t THEN l.checks ELSE "fail")

assert_acquired(l, t) ==
    LockState(l.holder, l.owning_thread_, IF l.owning_thread_ = t THEN l.checks ELSE "fail")

\* LockImpl::lock blocks while another thread has the mutex; for its holder it returns
\* EDEADLK, and LockImpl::unlock EPERM for any other thread.
Blocks(l, t) == l.holder \notin {NoThread, t}
NativeLock(l, t) == LockState(t, l.owning_thread_, IF l.holder = t THEN "fail" ELSE l.checks)
NativeUnlock(l, t) ==
    LockState(NoThread, l.owning_thread_, IF l.holder = t THEN l.checks ELSE "fail")

lock(l, t) == check_unheld_and_mark(NativeLock(l, t), t)
unlock(l, t) == NativeUnlock(check_held_and_unmark(l, t), t)

\* ~AutoLock.
AutoRelease(l, t) == unlock(assert_acquired(l, t), t)

\* ConditionVariable::wait up to its sleep, and from there on.
wait(l, t) == NativeUnlock(check_held_and_unmark(l, t), t)
Awake(l, t) == check_unheld_and_mark(NativeLock(l, t), t)

\* signal wakes one sleeper, if there is one.
signal(cv) == IF cv = {} THEN {cv} ELSE {cv \ {t} : t \in cv}

-----------------------------------------------------------------------------
(* BlockingQueue.                                                           *)

VARIABLES max_size_, queue_, lock_,
          empty_cv_, full_cv_,      \* the threads asleep in them
          where,                    \* where each thread is
          todo,                     \* how many calls it has still to make
          spurious,                 \* wakeups for no reason that may still happen
          unsound                   \* a DCHECK of the queue failed, or a count wrapped

qvars == <<max_size_, queue_, lock_, empty_cv_, full_cv_, where, todo, spurious, unsound>>

QueueThreads == Pushers \cup Poppers \cup Watchers

QueueInit ==
    /\ max_size_ \in Bounds
    /\ queue_ = <<>> /\ lock_ = MutexLock /\ empty_cv_ = {} /\ full_cv_ = {}
    /\ where = [t \in QueueThreads |-> "out"]
    /\ todo = [t \in QueueThreads |-> IF t \in Watchers THEN 1 ELSE Calls]
    /\ spurious = MaxSpurious
    /\ unsound = FALSE

Bounded == max_size_ > 0
full_with_locked == Bounded /\ Len(queue_) >= max_size_
empty_with_locked == queue_ = <<>>
capacity_with_locked == max_size_ - Len(queue_)

Step(t, from, to) ==
    where[t] = from /\ where' = [where EXCEPT ![t] = to] /\ UNCHANGED <<max_size_, spurious>>

\* AutoLock's constructor, for the next call.
Enter(t) ==
    /\ todo[t] > 0 /\ ~Blocks(lock_, t)
    /\ Step(t, "out", "test")
    /\ lock_' = lock(lock_, t)
    /\ UNCHANGED <<queue_, empty_cv_, full_cv_, todo, unsound>>

MutantReenterUntested(t) ==
    /\ t \notin empty_cv_ \cup full_cv_ /\ ~Blocks(lock_, t)
    /\ Step(t, "asleep", "in")
    /\ lock_' = Awake(lock_, t)
    /\ UNCHANGED <<queue_, empty_cv_, full_cv_, todo, unsound>>

\* The rest of wait(), signalled or not: the thread needs the mutex, and is again before
\* the test of its while loop.
Reenter(t) ==
    /\ t \notin empty_cv_ \cup full_cv_ /\ ~Blocks(lock_, t)
    /\ Step(t, "asleep", "test")
    /\ lock_' = Awake(lock_, t)
    /\ UNCHANGED <<queue_, empty_cv_, full_cv_, todo, unsound>>

\* The test of the loop: pass, ...
Pass(t) ==
    /\ ~(t \in Pushers /\ full_with_locked) /\ ~(t \in Poppers /\ empty_with_locked)
    /\ Step(t, "test", "in")
    /\ UNCHANGED <<queue_, lock_, empty_cv_, full_cv_, todo, unsound>>

\* ... or give up the mutex and sleep.
Wait(t) ==
    /\ Step(t, "test", "asleep")
    /\ lock_' = wait(lock_, t)
    /\ \/ /\ t \in Pushers /\ full_with_locked
          /\ full_cv_' = full_cv_ \cup {t} /\ UNCHANGED empty_cv_
       \/ /\ t \in Poppers /\ empty_with_locked
          /\ empty_cv_' = empty_cv_ \cup {t} /\ UNCHANGED full_cv_
    /\ UNCHANGED <<queue_, todo, unsound>>

\* The bounded push has a DCHECK(!full_with_locked()), ...
push(t) ==
    /\ t \in Pushers
    /\ Step(t, "in", "leave")
    /\ unsound' = (unsound \/ full_with_locked)
    /\ queue_' = Append(queue_, t)
    /\ empty_cv_' \in signal(empty_cv_)
    /\ UNCHANGED <<lock_, full_cv_, todo>>

MutantPopSilent(t) ==
    /\ t \in Poppers
    /\ Step(t, "in", "leave")
    /\ queue_' = Tail(queue_)
    /\ UNCHANGED <<lock_, empty_cv_, full_cv_, todo, unsound>>

\* ... and every pop a DCHECK(!empty_with_locked()).
pop(t) ==
    /\ t \in Poppers
    /\ Step(t, "in", "leave")
    /\ unsound' = (unsound \/ empty_with_locked)
    /\ queue_' = IF empty_with_locked THEN queue_ ELSE Tail(queue_)
    /\ IF Bounded THEN full_cv_' \in signal(full_cv_) ELSE UNCHANGED full_cv_
    /\ UNCHANGED <<lock_, empty_cv_, todo>>

\* capacity(), a difference of unsigned numbers; size(), empty() and full() read the same.
capacity(t) ==
    /\ t \in Watchers
    /\ Step(t, "in", "leave")
    /\ unsound' = (unsound \/ (Bounded /\ capacity_with_locked < 0))
    /\ UNCHANGED <<queue_, lock_, empty_cv_, full_cv_, todo>>

\* ~AutoLock.
Leave(t) ==
    /\ Step(t, "leave", "out")
    /\ lock_' = AutoRelease(lock_, t)
    /\ todo' = [todo EXCEPT ![t] = @ - 1]
    /\ UNCHANGED <<queue_, empty_cv_, full_cv_, unsound>>

Spurious(t) ==
    /\ t \in empty_cv_ \cup full_cv_ /\ spurious > 0
    /\ spurious' = spurious - 1
    /\ empty_cv_' = empty_cv_ \ {t} /\ full_cv_' = full_cv_ \ {t}
    /\ UNCHANGED <<max_size_, queue_, lock_, where, todo, unsound>>

QueueStep(t) ==
    \/ Enter(t) \/ Reenter(t) \/ Pass(t) \/ Wait(t)
    \/ push(t) \/ pop(t) \/ capacity(t)
    \/ Leave(t)

QueueNext == \E t \in QueueThreads : QueueStep(t) \/ Spurious(t)

\* A thread that can run does, and a free mutex is taken.
QueueFairness == \A t \in QueueThreads : WF_qvars(QueueStep(t))

QueueSpec == QueueInit /\ [][QueueNext]_qvars /\ QueueFairness

-----------------------------------------------------------------------------
\* Woken or not, every thread that gets past its loop finds what it waited for: no
\* DCHECK of push or pop fails, no check of the mutex and its shadow owning_thread_ does,
\* and capacity() never wraps below zero.
QueueChecksHold == ~unsound /\ lock_.checks = "hold"

\* Every call returns when as many items are pushed as popped: the one signal of each
\* push and pop is never lost on a thread that does not need it.
QueueServes == <>(\A t \in QueueThreads : todo[t] = 0)
=============================================================================
