----------------------------- MODULE EventLoop -----------------------------
(***************************************************************************)
(* One EventLoop (src/EventLoop.cc): the loop thread polls, handles the     *)
(* active channels and then runs the functors queued in wakeup_functors_;  *)
(* any other thread hands it work with queue_in_own_loop() and stops it    *)
(* with quit().  The queue is guarded by lock_, but the eventfd is written *)
(* AFTER the lock is released, so a push and its wakeup are two steps.     *)
(*                                                                         *)
(* A functor is an identity; each is queued at most once.  Channels other  *)
(* than the wakeup channel are one channel "io" whose callback may queue a *)
(* functor or quit, as every handler of the library may.                   *)
(***************************************************************************)
EXTENDS Naturals, Sequences

CONSTANTS Threads,      \* the threads other than the loop's own
          Functors      \* identities of the callbacks that may be queued

VARIABLES quit_,                     \* std::atomic<bool>
          calling_wakeup_functors_,  \* std::atomic<bool>
          wakeup_functors_,          \* the vector guarded by lock_
          functors,                  \* the local vector of do_calling_wakeup_functors
          eventfd,                   \* the counter behind wakeup_socket_
          active_channels_,          \* channels the last poll reported
          pc,                        \* where the loop thread is
          call,                      \* where each other thread is
          early,                     \* history: functors the owner queued before loop()
          ran                        \* history: functors in the order they ran

vars == <<quit_, calling_wakeup_functors_, wakeup_functors_, functors, eventfd,
          active_channels_, pc, call, early, ran>>

LoopPoints == {"created", "while", "poll", "handle", "calling", "run", "exited"}

\* The constructor leaves an empty queue and an armed wakeup channel.
Init ==
    /\ quit_ = FALSE
    /\ calling_wakeup_functors_ = FALSE
    /\ wakeup_functors_ = <<>>
    /\ functors = <<>>
    /\ eventfd = 0
    /\ active_channels_ = {}
    /\ pc = "created"
    /\ call = [t \in Threads |-> "idle"]
    /\ early = {}
    /\ ran = <<>>

Elements(s) == {s[i] : i \in DOMAIN s}

\* A callback is queued once: it is neither waiting, nor being run, nor done.
Fresh(f) == f \notin Elements(wakeup_functors_) \cup Elements(functors) \cup Elements(ran)

-----------------------------------------------------------------------------
(* Threads other than the loop's own.                                      *)

\* queue_in_own_loop, first half: push_back under lock_.
Push(t, f) ==
    /\ call[t] = "idle"
    /\ Fresh(f)
    /\ wakeup_functors_' = Append(wakeup_functors_, f)
    /\ call' = [call EXCEPT ![t] = "pushed"]
    /\ UNCHANGED <<quit_, calling_wakeup_functors_, functors, eventfd,
                   active_channels_, pc, early, ran>>

MutantQuitNoWakeup(t) ==
    /\ call[t] = "idle"
    /\ ~quit_
    /\ quit_' = TRUE
    /\ UNCHANGED <<calling_wakeup_functors_, wakeup_functors_, functors, eventfd,
                   active_channels_, pc, call, early, ran>>

\* quit(), first half: the flag is stored.
Quit(t) ==
    /\ call[t] = "idle"
    /\ ~quit_
    /\ quit_' = TRUE
    /\ call' = [call EXCEPT ![t] = "quitting"]
    /\ UNCHANGED <<calling_wakeup_functors_, wakeup_functors_, functors, eventfd,
                   active_channels_, pc, early, ran>>

MutantWakeupIfPolling(t) ==
    /\ call[t] \in {"pushed", "quitting"}
    /\ eventfd' = IF pc = "poll" THEN eventfd + 1 ELSE eventfd
    /\ call' = [call EXCEPT ![t] = "idle"]
    /\ UNCHANGED <<quit_, calling_wakeup_functors_, wakeup_functors_, functors,
                   active_channels_, pc, early, ran>>

\* Second half of both: the caller is not the loop thread, so it wakes it up.
Wakeup(t) ==
    /\ call[t] \in {"pushed", "quitting"}
    /\ eventfd' = eventfd + 1
    /\ call' = [call EXCEPT ![t] = "idle"]
    /\ UNCHANGED <<quit_, calling_wakeup_functors_, wakeup_functors_, functors,
                   active_channels_, pc, early, ran>>

-----------------------------------------------------------------------------
(* The loop thread.                                                        *)

MutantQueueOwnSilent(f) ==
    /\ Fresh(f)
    /\ wakeup_functors_' = Append(wakeup_functors_, f)
    /\ eventfd' = eventfd

\* queue_in_own_loop by the loop thread: a wakeup only while functors are run.
QueueOwn(f) ==
    /\ Fresh(f)
    /\ wakeup_functors_' = Append(wakeup_functors_, f)
    /\ eventfd' = IF calling_wakeup_functors_ THEN eventfd + 1 ELSE eventfd

\* What a callback on the loop thread does to the loop: nothing, queue, or quit
\* (no wakeup: it is in its own loop).
Callback ==
    \/ UNCHANGED <<wakeup_functors_, eventfd, quit_>>
    \/ UNCHANGED quit_ /\ \E f \in Functors : QueueOwn(f)
    \/ quit_' = TRUE /\ UNCHANGED <<wakeup_functors_, eventfd>>

\* Work queued by the owner before loop(), as a thread init callback does.
QueueBeforeLoop ==
    /\ pc = "created"
    /\ \E f \in Functors : QueueOwn(f) /\ early' = early \cup {f}
    /\ UNCHANGED <<quit_, calling_wakeup_functors_, functors, active_channels_, pc,
                   call, ran>>

\* loop() is entered (once).
Loop ==
    /\ pc = "created"
    /\ pc' = "while"
    /\ UNCHANGED <<quit_, calling_wakeup_functors_, wakeup_functors_, functors,
                   eventfd, active_channels_, call, early, ran>>

\* while (!quit_) ... ; active_channels_.clear()
While ==
    /\ pc = "while"
    /\ pc' = IF quit_ THEN "exited" ELSE "poll"
    /\ active_channels_' = {}
    /\ UNCHANGED <<quit_, calling_wakeup_functors_, wakeup_functors_, functors,
                   eventfd, call, early, ran>>

\* poll returns the ready channels: the eventfd when its counter is not zero, and
\* whatever I/O is ready ...
PollReturn(io) ==
    /\ pc = "poll"
    /\ active_channels_' = io \cup (IF eventfd > 0 THEN {"wakeup"} ELSE {})
    /\ active_channels_' # {}
    /\ pc' = "handle"
    /\ UNCHANGED <<quit_, calling_wakeup_functors_, wakeup_functors_, functors,
                   eventfd, call, early, ran>>

\* ... or nothing, when kPollTimeoutMs passes (or a signal interrupts it).
PollTimeout ==
    /\ pc = "poll"
    /\ eventfd = 0
    /\ pc' = "handle"
    /\ UNCHANGED <<quit_, calling_wakeup_functors_, wakeup_functors_, functors,
                   eventfd, active_channels_, call, early, ran>>

\* handle_read: the wakeup channel's callback resets the counter.
HandleRead ==
    /\ pc = "handle"
    /\ "wakeup" \in active_channels_
    /\ eventfd' = 0
    /\ active_channels_' = active_channels_ \ {"wakeup"}
    /\ UNCHANGED <<quit_, calling_wakeup_functors_, wakeup_functors_, functors, pc,
                   call, early, ran>>

\* Any other channel's handle_event.
HandleIO ==
    /\ pc = "handle"
    /\ "io" \in active_channels_
    /\ active_channels_' = active_channels_ \ {"io"}
    /\ Callback
    /\ UNCHANGED <<calling_wakeup_functors_, functors, pc, call, early, ran>>

\* do_calling_wakeup_functors: the flag ...
BeginCalling ==
    /\ pc = "handle"
    /\ active_channels_ = {}
    /\ calling_wakeup_functors_' = TRUE
    /\ pc' = "calling"
    /\ UNCHANGED <<quit_, wakeup_functors_, functors, eventfd, active_channels_, call,
                   early, ran>>

MutantSwapCopies ==
    /\ pc = "calling"
    /\ functors' = wakeup_functors_
    /\ pc' = "run"
    /\ UNCHANGED <<quit_, calling_wakeup_functors_, wakeup_functors_, eventfd,
                   active_channels_, call, early, ran>>

\* ... then the swap under lock_ ...
Swap ==
    /\ pc = "calling"
    /\ functors' = wakeup_functors_
    /\ wakeup_functors_' = <<>>
    /\ pc' = "run"
    /\ UNCHANGED <<quit_, calling_wakeup_functors_, eventfd, active_channels_, call,
                   early, ran>>

\* ... then one functor after the other, outside the lock ...
RunFunctor ==
    /\ pc = "run"
    /\ functors # <<>>
    /\ ran' = Append(ran, Head(functors))
    /\ functors' = Tail(functors)
    /\ Callback
    /\ UNCHANGED <<calling_wakeup_functors_, active_channels_, pc, call, early>>

MutantEndCallingKeepsFlag ==
    /\ pc = "run"
    /\ functors = <<>>
    /\ pc' = "while"
    /\ UNCHANGED <<quit_, calling_wakeup_functors_, wakeup_functors_, functors, eventfd,
                   active_channels_, call, early, ran>>

\* ... and the flag is cleared.
EndCalling ==
    /\ pc = "run"
    /\ functors = <<>>
    /\ calling_wakeup_functors_' = FALSE
    /\ pc' = "while"
    /\ UNCHANGED <<quit_, wakeup_functors_, functors, eventfd, active_channels_, call,
                   early, ran>>

LoopStep ==
    \/ Loop \/ While \/ HandleRead \/ HandleIO
    \/ BeginCalling \/ Swap \/ RunFunctor \/ EndCalling

Next ==
    \/ \E t \in Threads : \/ \E f \in Functors : Push(t, f)
                          \/ Quit(t)
                          \/ Wakeup(t)
    \/ QueueBeforeLoop
    \/ \E io \in SUBSET {"io"} : PollReturn(io)
    \/ PollTimeout
    \/ LoopStep

Spec == Init /\ [][Next]_vars

\* The loop thread keeps running and poll returns when the eventfd is readable.
\* Neither the poll timeout nor other I/O is assumed to happen, and nobody is
\* obliged to call in; a thread that has pushed does go on to its wakeup.
Fairness ==
    /\ WF_vars(LoopStep)
    /\ WF_vars(eventfd > 0 /\ \E io \in SUBSET {"io"} : PollReturn(io))
    /\ \A t \in Threads : WF_vars(Wakeup(t))

FairSpec == Spec /\ Fairness

-----------------------------------------------------------------------------
\* The fields keep their types, and the flag calling_wakeup_functors_, which decides
\* whether the owner's own push needs a wakeup, is up exactly while functors are run.
TypeOK ==
    /\ quit_ \in BOOLEAN
    /\ calling_wakeup_functors_ \in BOOLEAN
    /\ wakeup_functors_ \in Seq(Functors)
    /\ functors \in Seq(Functors)
    /\ eventfd \in Nat
    /\ active_channels_ \subseteq {"wakeup", "io"}
    /\ pc \in LoopPoints
    /\ call \in [Threads -> {"idle", "pushed", "quitting"}]
    /\ early \subseteq Functors
    /\ ran \in Seq(Functors)
    /\ calling_wakeup_functors_ <=> pc \in {"calling", "run"}

\* No lost wakeup (queue_in_own_loop, quit): when the loop thread is blocked in
\* poll with an unreadable eventfd and no caller is between its push (or store)
\* and its wakeup, then nobody has asked it to quit and the only functors waiting
\* are those the owner queued before loop().
NoLostWakeup ==
    (pc = "poll" /\ eventfd = 0 /\ \A t \in Threads : call[t] = "idle") =>
        /\ Elements(wakeup_functors_) \subseteq early
        /\ ~quit_

\* A functor queued by another thread, or by a callback of the loop, runs without
\* the poll timeout's help, unless the loop is told to quit.
FunctorRuns ==
    \A f \in Functors :
        (f \in Elements(wakeup_functors_) \ early) ~> (f \in Elements(ran) \/ quit_)

\* quit() is never missed, even when it comes before loop() or while the loop
\* thread is running functors: the loop ends.
QuitEndsLoop == quit_ ~> (pc = "exited")

\* do_calling_wakeup_functors keeps the promise of a serial executor: swapping the
\* vector out while other threads push neither loses, repeats nor reorders a
\* functor.
Executor == INSTANCE SerialExecutor WITH queue <- functors \o wakeup_functors_,
                                         done <- ran
SerialExecution == Executor!Spec
=============================================================================
