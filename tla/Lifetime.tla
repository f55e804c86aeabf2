------------------------------ MODULE Lifetime ------------------------------
(***************************************************************************)
(* The life of global objects: Singleton, created through pthread_once by  *)
(* the first thread that asks for it and destroyed by the AtExitManager,   *)
(* and ThreadLocalSingleton, one object per thread.  The constructor of a  *)
(* singleton may ask for another one, and its destructor may use that one  *)
(* again.  Threads run, exit and are joined; then main destroys the        *)
(* manager and, at the end of the process, the static ThreadLocal.         *)
(* A thread's calls are a stack of frames, the last one running.           *)
(***************************************************************************)
EXTENDS Integers, Sequences, FiniteSets, Functions

CONSTANTS Classes,      \* classes with an instance() of Singleton::get
          Needs,        \* Needs[c]: the classes whose instance() c's constructor calls
          OtherThreads, main, \* the threads
          MaxGets       \* bound: calls of instance() by each thread's own code

ASSUME LifetimeAssumption ==
    /\ Needs \in [Classes -> SUBSET Classes] /\ main \notin OtherThreads /\ MaxGets \in Nat
    /\ {"init", "done"} \cap (OtherThreads \cup {main}) = {}

VARIABLES leaky,        \* the classes with LeakySingletonTraits
          once_,        \* per class: "init", the thread that is creating it, or "done"
          instance_,    \* per class: "null", "live" or "dead" (never set again to a value)
          buried,       \* history: the classes in the order they were destroyed
          stack_cb_,    \* the manager's callbacks, the last one on top; a callback is a class
          manager,      \* "up", "exiting", "down"; "ended": so is the process
          cbs,          \* process_callbacks' local stack
          frames,       \* per thread: its stack of calls
          gets,         \* per thread: the calls its own code may still make
          tls,          \* per thread: [key, cached, made, freed] of the ThreadLocalSingleton
          running_threads,        \* threads that have not exited
          failed        \* a CHECK, DCHECK or NOTREACHED

ltvars == <<leaky, once_, instance_, buried, stack_cb_, manager, cbs, frames, gets, tls,
           running_threads, failed>>

AllThreads == OtherThreads \cup {main}
CallFrame(kind, c) == [kind |-> kind, c |-> c, todo |-> Needs[c]]

LifetimeInit ==
    /\ leaky \in SUBSET Classes
    /\ once_ = [c \in Classes |-> "init"] /\ instance_ = [c \in Classes |-> "null"]
    /\ buried = <<>> /\ stack_cb_ = <<>> /\ cbs = <<>>
    /\ manager = "up"
    /\ frames = [t \in AllThreads |-> <<>>] /\ gets = [t \in AllThreads |-> MaxGets]
    /\ tls = [t \in AllThreads |-> [key |-> FALSE, cached |-> FALSE, made |-> 0, freed |-> 0]]
    /\ running_threads = AllThreads
    /\ failed = FALSE

Top(s) == s[Len(s)]
Popped(s) == SubSeq(s, 1, Len(s) - 1)
Pushed(t, kind, c) == frames' = [frames EXCEPT ![t] = Append(@, CallFrame(kind, c))]
Running(t, kind) == frames[t] # <<>> /\ Top(frames[t]).kind = kind

-----------------------------------------------------------------------------
(* Singleton::get.                                                         *)

\* A thread's own code calls instance(); main does so also from a destructor's code.
Get(t, c) ==
    /\ t \in running_threads /\ frames[t] = <<>> /\ gets[t] > 0 /\ manager = "up" /\ ~failed
    /\ gets' = [gets EXCEPT ![t] = @ - 1]
    /\ Pushed(t, "get", c)
    /\ UNCHANGED <<leaky, once_, instance_, buried, stack_cb_, manager, cbs, tls,
                   running_threads, failed>>

\* pthread_once: the first thread runs create, the others wait until it is done.
Once(t) ==
    /\ Running(t, "get") /\ ~failed
    /\ LET c == Top(frames[t]).c
       IN /\ once_[c] = "init"
          /\ once_' = [once_ EXCEPT ![c] = t]
          /\ Pushed(t, "create", c)
          /\ failed' = (instance_[c] # "null")
    /\ UNCHANGED <<leaky, instance_, buried, stack_cb_, manager, cbs, gets, tls,
                   running_threads>>

\* The call on top of the stack no longer has to ask for d.
Asked(s, d) == [s EXCEPT ![Len(s)].todo = @ \ {d}]

\* The constructor, or the destructor, calls instance() of a class it needs.
Nested(t) ==
    /\ Running(t, "create") \/ Running(t, "on_exit")
    /\ ~failed
    /\ \E d \in Top(frames[t]).todo :
          frames' = [frames EXCEPT ![t] = Append(Asked(@, d), CallFrame("get", d))]
    /\ UNCHANGED <<leaky, once_, instance_, buried, stack_cb_, manager, cbs, gets, tls,
                   running_threads, failed>>

\* Traits::create returns the object, ...
CreateInstance(t) ==
    /\ Running(t, "create") /\ ~failed
    /\ LET c == Top(frames[t]).c
       IN /\ Top(frames[t]).todo = {}
          /\ instance_' = [instance_ EXCEPT ![c] = "live"]
          /\ frames' = [frames EXCEPT ![t] = Append(Popped(@), CallFrame("register", c))]
    /\ UNCHANGED <<leaky, once_, buried, stack_cb_, manager, cbs, gets, tls, running_threads,
                   failed>>

MutantRegisterBelow(t) ==
    /\ Running(t, "register") /\ ~failed
    /\ LET c == Top(frames[t]).c
       IN /\ stack_cb_' = IF c \in leaky THEN stack_cb_ ELSE <<c>> \o stack_cb_
          /\ failed' = (c \notin leaky /\ manager = "down")
          /\ once_' = [once_ EXCEPT ![c] = "done"]
    /\ frames' = [frames EXCEPT ![t] = Popped(@)]
    /\ UNCHANGED <<leaky, instance_, buried, manager, cbs, gets, tls, running_threads>>

\* ... and register_callback locks the manager to register it: between the two another
\* thread may register its own.  create returns, and pthread_once with it.
RegisterInstance(t) ==
    /\ Running(t, "register") /\ ~failed
    /\ LET c == Top(frames[t]).c
       IN /\ stack_cb_' = IF c \in leaky THEN stack_cb_ ELSE Append(stack_cb_, c)
          /\ failed' = (c \notin leaky /\ manager = "down")
          /\ once_' = [once_ EXCEPT ![c] = "done"]
    /\ frames' = [frames EXCEPT ![t] = Popped(@)]
    /\ UNCHANGED <<leaky, instance_, buried, manager, cbs, gets, tls, running_threads>>

\* get returns instance_, which it checks.
GetReturns(t) ==
    /\ Running(t, "get") /\ ~failed
    /\ once_[Top(frames[t]).c] = "done"
    /\ failed' = (instance_[Top(frames[t]).c] # "live")
    /\ frames' = [frames EXCEPT ![t] = Popped(@)]
    /\ UNCHANGED <<leaky, once_, instance_, buried, stack_cb_, manager, cbs, gets, tls,
                   running_threads>>

-----------------------------------------------------------------------------
(* AtExitManager, destroyed by main when the other threads have been joined. *)

\* ~AtExitManager: process_callbacks takes all the callbacks, ...
ProcessCallbacks ==
    /\ manager = "up" /\ running_threads = {main} /\ frames[main] = <<>> /\ ~failed
    /\ manager' = "exiting"
    /\ cbs' = stack_cb_ /\ stack_cb_' = <<>>
    /\ UNCHANGED <<leaky, once_, instance_, buried, frames, gets, tls, running_threads,
                   failed>>

\* ... and runs them from the top, ...
RunCallback ==
    /\ manager = "exiting" /\ cbs # <<>> /\ frames[main] = <<>> /\ ~failed
    /\ cbs' = Popped(cbs)
    /\ Pushed(main, "on_exit", Top(cbs))
    /\ failed' = (instance_[Top(cbs)] # "live")
    /\ UNCHANGED <<leaky, once_, instance_, buried, stack_cb_, manager, gets, tls,
                   running_threads>>

\* ... each of which destroys its object.
OnExit ==
    /\ Running(main, "on_exit") /\ ~failed
    /\ LET c == Top(frames[main]).c
       IN /\ Top(frames[main]).todo = {}
          /\ instance_' = [instance_ EXCEPT ![c] = "dead"]
          /\ buried' = Append(buried, c)
    /\ frames' = [frames EXCEPT ![main] = Popped(@)]
    /\ UNCHANGED <<leaky, once_, stack_cb_, manager, cbs, gets, tls, running_threads, failed>>

ManagerGone ==
    /\ manager = "exiting" /\ cbs = <<>> /\ frames[main] = <<>> /\ ~failed
    /\ manager' = "down"
    /\ UNCHANGED <<leaky, once_, instance_, buried, stack_cb_, cbs, frames, gets, tls,
                   running_threads, failed>>

-----------------------------------------------------------------------------
(* ThreadLocalSingleton::get, over the key of its ThreadLocal and the      *)
(* thread_local tls_instance_ that caches it.                              *)

globals == <<leaky, once_, instance_, buried, stack_cb_, cbs, frames>>

LocalGet(t) ==
    /\ t \in running_threads /\ frames[t] = <<>> /\ gets[t] > 0 /\ manager # "ended" /\ ~failed
    /\ gets' = [gets EXCEPT ![t] = @ - 1]
    /\ tls' = IF tls[t].cached THEN tls
              ELSE [tls EXCEPT ![t].key = TRUE, ![t].cached = TRUE,
                               ![t].made = IF tls[t].key THEN @ ELSE @ + 1]
    /\ UNCHANGED <<globals, manager, running_threads, failed>>

\* on_thread_exit, if the thread has an object: it must be the cached one.
Freed(t) ==
    IF ~tls[t].key THEN UNCHANGED <<tls, failed>>
    ELSE /\ failed' = ~tls[t].cached
         /\ tls' = [tls EXCEPT ![t].key = FALSE, ![t].cached = FALSE, ![t].freed = @ + 1]

\* A thread's exit runs the key's destructor, ...
ExitProcess(t) ==
    /\ t \in running_threads \ {main} /\ frames[t] = <<>> /\ ~failed
    /\ running_threads' = running_threads \ {t}
    /\ Freed(t)
    /\ UNCHANGED <<globals, manager, gets>>

MutantStaticsForget ==
    /\ manager = "down" /\ ~failed
    /\ manager' = "ended"
    /\ UNCHANGED <<globals, gets, tls, running_threads, failed>>

\* ... main's does not: ~ThreadLocal, of the static data_, frees what main has.
StaticsGone ==
    /\ manager = "down" /\ ~failed
    /\ manager' = "ended"
    /\ Freed(main)
    /\ UNCHANGED <<globals, gets, running_threads>>

LifetimeStep(t) ==
    Once(t) \/ Nested(t) \/ CreateInstance(t) \/ RegisterInstance(t) \/ GetReturns(t)

LifetimeNext ==
    \/ \E t \in AllThreads : \/ \E c \in Classes : Get(t, c)
                            \/ LifetimeStep(t) \/ LocalGet(t) \/ ExitProcess(t)
    \/ ProcessCallbacks \/ RunCallback \/ OnExit \/ ManagerGone \/ StaticsGone

LifetimeSpec == LifetimeInit /\ [][LifetimeNext]_ltvars

-----------------------------------------------------------------------------
\* Objects outlive their users: every instance() returns a live object, in whichever
\* thread, constructor or destructor it is called (a destructor calls it for what its
\* constructor needed).
UsersOutlived == ~failed

\* "The dtor calls all the registered callbacks": when the process ends every singleton
\* that is not leaky has been destroyed, once, and before those its constructor asked
\* for, whatever threads created and registered them; and every thread's object has been
\* freed.  Classes that do not need each other end in the order of their registration.
LivesEnd ==
    manager = "ended" =>
        /\ \A c \in Classes : instance_[c] = "live" => c \in leaky
        /\ IsInjective(buried)
        /\ \A j, k \in DOMAIN buried : buried[j] \in Needs[buried[k]] => k < j
        /\ \A t \in AllThreads : tls[t].made = tls[t].freed

\* Singletons and thread-local objects live from before their first use to after their
\* last, and not longer than the process.
LivesMatchUses == UsersOutlived /\ LivesEnd
=============================================================================
