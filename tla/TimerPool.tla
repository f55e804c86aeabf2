----------------------------- MODULE TimerPool -----------------------------
(***************************************************************************)
(* The timers of one loop (src/TimerPool.cc).  All share one timerfd, armed *)
(* one-shot for the earliest of them (reset).  A Timer is a heap object;   *)
(* its address may be used again once it is deleted, so a TimerId is the   *)
(* pair of address and sequence number.  A thread other than the loop's    *)
(* queues add_timer_in_own_loop and cancel_timer_in_own_loop; the callback *)
(* of a timer, on the loop thread, adds and cancels at once.               *)
(*                                                                         *)
(* Time is counted in ticks.  If Prompt, the loop thread takes no time: the *)
(* clock advances only while it sleeps in poll.                            *)
(***************************************************************************)
EXTENDS Integers, FiniteSets, Sequences, Functions

CONSTANTS Addresses,    \* of Timer objects
          Delays,       \* run_after(d)
          Intervals,    \* run_every(d); 0 is a timer that does not repeat
          Prompt,
          Handover,     \* callbacks cancel TimerIds another thread has only just got
          MaxTime,      \* bound: ticks
          MaxTimers     \* bound: timers created

ASSUME TimerAssumption ==
    /\ IsFiniteSet(Addresses) /\ Delays \subseteq Nat /\ Intervals \subseteq Nat
    /\ {Prompt, Handover} \subseteq BOOLEAN /\ MaxTimers \in Nat

VARIABLES now,
          sequence,           \* globalSequence
          heap,               \* address -> [expired, interval, sequence], if allocated
          timers_,            \* set of <<expired, address>>
          active_timers_,     \* set of TimerId
          canceling_timers_,
          expired_timers,     \* of handle_read: what is left to run
          expired_done,       \* ... and what has run
          curr,               \* of handle_read: the time it was entered
          calling_expired_timers_,
          timerfd,            \* when it fires, or Disarmed
          queue,              \* functors queued by the other thread
          adding,             \* the timer whose add_timer has not returned yet
          ids,                \* TimerIds users have been given
          cancelled,          \* history: TimerIds cancel_timer_in_own_loop got
          fault               \* the first thing that went wrong

pool == <<heap, timers_, active_timers_, timerfd>>
batch == <<expired_timers, expired_done, curr, calling_expired_timers_>>
vars == <<now, sequence, pool, canceling_timers_, batch, queue, adding, ids, cancelled,
          fault>>

Disarmed == -1
NoTimer == <<"none">>
Free == [expired |-> 0, interval |-> 0, sequence |-> -1]
Id(a) == <<a, heap[a].sequence>>
Allocated(a) == heap[a] # Free
Readable == timerfd # Disarmed /\ timerfd <= now

Init ==
    /\ now = 1 /\ sequence = 0
    /\ heap = [a \in Addresses |-> Free]
    /\ timers_ = {} /\ active_timers_ = {} /\ canceling_timers_ = {}
    /\ expired_timers = {} /\ expired_done = {} /\ curr = 0
    /\ calling_expired_timers_ = FALSE
    /\ timerfd = Disarmed
    /\ queue = <<>> /\ adding = NoTimer /\ ids = {} /\ cancelled = {}
    /\ fault = "no"

-----------------------------------------------------------------------------
Earliest(ts) == CHOOSE e \in ts : \A x \in ts : e[1] <= x[1]

\* reset(expired) and TimerFD::reset: the kernel is given the time left.  A null time is
\* refused by reset_timerfd and a negative one by timerfd_settime; PCHECK aborts.
reset(expired) ==
    IF expired - now > 0
    THEN timerfd' = expired /\ UNCHANGED fault
    ELSE fault' = "PCHECK(rt >= 0)" /\ UNCHANGED timerfd

MutantNoReset(ts) == UNCHANGED <<timerfd, fault>>

\* ... for the earliest of ts; with no timer left, the timerfd stays as it is.
reset_earliest(ts) ==
    IF ts = {} THEN UNCHANGED <<timerfd, fault>> ELSE reset(Earliest(ts)[1])

MutantResetIfFirst(a, e) ==
    IF timers_ = {} THEN reset(e) ELSE UNCHANGED <<timerfd, fault>>

\* add_timer_in_own_loop: the timerfd is reset if the new timer is the earliest.
ResetIfEarliest(a, e) ==
    IF \A x \in timers_ : x[1] > e THEN reset(e) ELSE UNCHANGED <<timerfd, fault>>

\* save, which add_timer_in_own_loop and update do for a timer h at address a.
add_timer_in_own_loop(a, h) ==
    /\ ResetIfEarliest(a, h.expired)
    /\ timers_' = timers_ \cup {<<h.expired, a>>}
    /\ active_timers_' = active_timers_ \cup {<<a, h.sequence>>}

MutantCancelNotCanceling(id) ==
    /\ cancelled' = cancelled \cup {id}
    /\ IF id \in active_timers_
       THEN /\ timers_' = {e \in timers_ : e[2] # id[1]}
            /\ active_timers_' = active_timers_ \ {id}
            /\ heap' = [heap EXCEPT ![id[1]] = Free]
       ELSE UNCHANGED <<timers_, active_timers_, heap>>
    /\ UNCHANGED canceling_timers_
    /\ reset_earliest(timers_')

MutantCancelByAddress(id) ==
    /\ cancelled' = cancelled \cup {id}
    /\ timers_' = {e \in timers_ : e[2] # id[1]}
    /\ active_timers_' = {i \in active_timers_ : i[1] # id[1]}
    /\ heap' = [heap EXCEPT ![id[1]] = Free]
    /\ canceling_timers_' = IF calling_expired_timers_ THEN canceling_timers_ \cup {id}
                                                        ELSE canceling_timers_
    /\ reset_earliest(timers_')

\* cancel_timer_in_own_loop: an active timer is deleted; one that is being called is
\* remembered, so that update deletes it instead of starting it again.
cancel_timer_in_own_loop(id) ==
    /\ cancelled' = cancelled \cup {id}
    /\ IF id \in active_timers_
       THEN /\ timers_' = timers_ \ {<<heap[id[1]].expired, id[1]>>}
            /\ active_timers_' = active_timers_ \ {id}
            /\ heap' = [heap EXCEPT ![id[1]] = Free]
            /\ UNCHANGED canceling_timers_
       ELSE /\ canceling_timers_' = IF calling_expired_timers_
                                    THEN canceling_timers_ \cup {id}
                                    ELSE canceling_timers_
            /\ UNCHANGED <<timers_, active_timers_, heap>>
    /\ reset_earliest(timers_')

-----------------------------------------------------------------------------
(* A thread other than the loop's.                                         *)

NewTimer(d, i) == [expired |-> now + d, interval |-> i, sequence |-> sequence]

\* add_timer: new Timer, then its functor is queued ...
AddTimer(a, d, i) ==
    /\ ~Allocated(a) /\ adding = NoTimer /\ sequence < MaxTimers
    /\ heap' = [heap EXCEPT ![a] = NewTimer(d, i)]
    /\ sequence' = sequence + 1
    /\ queue' = Append(queue, <<"add", a>>)
    /\ adding' = <<a, sequence>>
    /\ UNCHANGED <<now, timers_, active_timers_, timerfd, canceling_timers_, batch, ids,
                   cancelled, fault>>

\* ... and only then timer->sequence() is read to make the TimerId.
AddTimerReturns ==
    /\ adding # NoTimer
    /\ adding' = NoTimer
    /\ IF heap[adding[1]].sequence = adding[2] THEN ids' = ids \cup {adding} /\ UNCHANGED fault
       ELSE fault' = "add_timer reads a deleted timer" /\ UNCHANGED ids
    /\ UNCHANGED <<now, sequence, pool, canceling_timers_, batch, queue, cancelled>>

CancelTimer(id) ==
    /\ id \in ids
    /\ queue' = Append(queue, <<"cancel", id>>)
    /\ ids' = ids \ {id}        \* bound: an id is cancelled once
    /\ UNCHANGED <<now, sequence, pool, canceling_timers_, batch, adding, cancelled, fault>>

-----------------------------------------------------------------------------
(* The loop thread.                                                        *)

Idle == fault = "no" /\ ~calling_expired_timers_

RunFunctor ==
    /\ Idle /\ queue # <<>> /\ (Prompt => ~Readable)
    /\ queue' = Tail(queue)
    /\ LET f == Head(queue)
       IN \/ /\ f[1] = "add"
             /\ add_timer_in_own_loop(f[2], heap[f[2]])
             /\ UNCHANGED <<heap, canceling_timers_, cancelled>>
          \/ f[1] = "cancel" /\ cancel_timer_in_own_loop(f[2])
    /\ UNCHANGED <<now, sequence, batch, adding, ids>>

\* fill_expired_timers: up to and including time, whatever the address.
fill_expired_timers(time) == {e \in timers_ : e[1] <= time}

\* handle_read: the timerfd is read, the expired timers leave both sets.
HandleRead ==
    /\ Idle /\ Readable
    /\ timerfd' = Disarmed
    /\ curr' = now
    /\ expired_timers' = fill_expired_timers(now)
    /\ timers_' = timers_ \ expired_timers'
    /\ active_timers_' = active_timers_ \ {Id(e[2]) : e \in expired_timers'}
    /\ expired_done' = {}
    /\ calling_expired_timers_' = TRUE
    /\ canceling_timers_' = {}
    /\ UNCHANGED <<now, sequence, heap, queue, adding, ids, cancelled, fault>>

\* A callback runs, in order of expiry; it may add or cancel timers.
RunTimer ==
    /\ fault = "no" /\ expired_timers # {}
    /\ LET e == Earliest(expired_timers)
       IN expired_timers' = expired_timers \ {e} /\ expired_done' = expired_done \cup {e}
    /\ \/ UNCHANGED <<sequence, pool, canceling_timers_, ids, cancelled, fault>>
       \/ \E id \in ids : /\ Handover \/ <<"add", id[1]>> \notin Range(queue)
                          /\ cancel_timer_in_own_loop(id)
                          /\ ids' = ids \ {id}
                          /\ UNCHANGED sequence
       \/ \E a \in Addresses, d \in Delays, i \in Intervals :
             /\ ~Allocated(a) /\ sequence < MaxTimers
             /\ add_timer_in_own_loop(a, NewTimer(d, i))
             /\ heap' = [heap EXCEPT ![a] = NewTimer(d, i)]
             /\ sequence' = sequence + 1
             /\ ids' = ids \cup {<<a, sequence>>}
             /\ UNCHANGED <<canceling_timers_, cancelled>>
    /\ UNCHANGED <<now, curr, calling_expired_timers_, queue, adding>>

\* update: a repeating timer that was not cancelled is started again, from curr; the
\* others are deleted; the timerfd is armed for the earliest.
Update ==
    /\ fault = "no" /\ calling_expired_timers_ /\ expired_timers = {}
    /\ LET done == {e[2] : e \in expired_done}
           again == {a \in done : heap[a].interval > 0 /\ Id(a) \notin canceling_timers_}
       IN /\ heap' = [a \in Addresses |->
                        IF a \in again THEN [heap[a] EXCEPT !.expired = curr + heap[a].interval]
                        ELSE IF a \in done THEN Free ELSE heap[a]]
          /\ timers_' = timers_ \cup {<<heap'[a].expired, a>> : a \in again}
          /\ active_timers_' = active_timers_ \cup {Id(a) : a \in again}
    /\ reset_earliest(timers_')
    /\ calling_expired_timers_' = FALSE
    /\ expired_done' = {}
    /\ UNCHANGED <<now, sequence, canceling_timers_, expired_timers, curr, queue, adding, ids,
                   cancelled>>

Tick ==
    /\ now < MaxTime
    /\ Prompt => Idle /\ queue = <<>> /\ adding = NoTimer /\ ~Readable
    /\ now' = now + 1
    /\ UNCHANGED <<sequence, pool, canceling_timers_, batch, queue, adding, ids, cancelled,
                   fault>>

Next ==
    \/ \E a \in Addresses, d \in Delays, i \in Intervals : AddTimer(a, d, i)
    \/ AddTimerReturns
    \/ \E id \in ids : CancelTimer(id)
    \/ RunFunctor \/ HandleRead \/ RunTimer \/ Update
    \/ Tick

Spec == Init /\ [][Next]_vars

\* The loop thread runs, add_timer returns and time passes.
FairSpec ==
    Spec /\ WF_vars(RunFunctor) /\ WF_vars(HandleRead) /\ WF_vars(RunTimer)
         /\ WF_vars(Update) /\ WF_vars(AddTimerReturns) /\ WF_vars(Tick)

-----------------------------------------------------------------------------
\* The fields keep their types and the two sets hold the same timers, each allocated
\* once (the DCHECKs on their sizes): nothing that is waiting or being called has been
\* deleted, though callbacks cancel timers and addresses are used again.
TypeOK ==
    /\ sequence \in 0 .. MaxTimers
    /\ calling_expired_timers_ \in BOOLEAN
    /\ ~calling_expired_timers_ => expired_timers = {} /\ expired_done = {}
    /\ LET waiting == {e[2] : e \in timers_}
           called == {e[2] : e \in expired_timers \cup expired_done}
       IN /\ active_timers_ = {Id(a) : a \in waiting}
          /\ \A a \in waiting \cup called : Allocated(a)
          /\ waiting \cap called = {}
          /\ Cardinality(timers_) = Cardinality(active_timers_)

\* The one timerfd is enough: whenever the loop may go to sleep, it is armed no later
\* than the earliest timer.
ArmedForEarliest ==
    (Idle /\ timers_ # {}) => timerfd # Disarmed /\ timerfd <= Earliest(timers_)[1]

\* cancel(): once the callbacks of the current pass are done, a timer that was cancelled
\* is not waiting again, whether it was cancelled from outside, from another callback or
\* from its own.
CancelStops == ~calling_expired_timers_ => active_timers_ \cap cancelled = {}

\* A timer that is due is called, or cancelled, even if cancels and new timers keep
\* changing what the timerfd is armed for.
TimerRuns ==
    \A a \in Addresses, t \in 1 .. MaxTime :
        (<<t, a>> \in timers_) ~> (<<t, a>> \notin timers_ \/ fault # "no")

\* Whatever the loop thread was busy with, the time the timerfd is armed with is one it
\* accepts.
ResetAccepted == fault # "PCHECK(rt >= 0)"

\* add_timer may be called from other threads: what it returns is read from a timer that
\* still exists.
AddTimerReadsLive == fault # "add_timer reads a deleted timer"

\* The two sets of timers agree with each other and with what is allocated, and the
\* timerfd with them.
TimersAgree == TypeOK /\ ArmedForEarliest
=============================================================================
