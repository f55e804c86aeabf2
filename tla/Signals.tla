------------------------------ MODULE Signals ------------------------------
(***************************************************************************)
(* SignalServer and its SignalFD on Linux.  The server lives in the main   *)
(* thread's loop: signals_ has the callbacks, sigset_ the signals, which   *)
(* the main thread blocks and which the signalfd reads.  A signal sent to  *)
(* the process stays pending when every thread blocks it; a thread that    *)
(* does not takes it, and its default action ends the process.  Another    *)
(* thread has the mask the main thread had when it was started.  Other     *)
(* threads' calls are functors of the loop, the main thread's are run at   *)
(* once, also from callbacks; a callback does not replace or delete itself *)
(* (it would destroy the function that runs) and the server is destroyed   *)
(* when no functor is left.                                                *)
(***************************************************************************)
EXTENDS Integers, Sequences

CONSTANTS Signos,       \* signal numbers, all with the default action
          Helpers,      \* threads other than the main thread
          NoSignal,
          MaxKills,     \* bound: signals sent
          MaxRequests   \* bound: calls of add_signal, delete_signal, revert_signal

ASSUME SignalsAssumption ==
    NoSignal \notin Signos /\ {MaxKills, MaxRequests} \subseteq Nat

VARIABLES signals_, sigset_,
          readable,     \* the signals the descriptor is set to read
          mask,         \* what the main thread blocks
          helpers,      \* the helper threads that run: thread -> what it blocks
          pending,      \* of the process
          functors,     \* of the loop
          calling,      \* the signal whose callback runs
          server,       \* it exists
          killed,       \* the signal whose default action ended the process
          kills, requests

sgvars == <<signals_, sigset_, readable, mask, helpers, pending, functors, calling, server,
            killed, kills, requests>>
fd == <<signals_, sigset_, readable, mask>>

SignalsInit ==
    /\ signals_ = {} /\ sigset_ = {} /\ readable = {} /\ mask = {}
    /\ helpers = [t \in {} |-> {}]
    /\ pending = {} /\ functors = <<>> /\ calling = NoSignal
    /\ server = TRUE /\ killed = NoSignal
    /\ kills = 0 /\ requests = 0

\* The default action of a pending signal that the new mask lets through.
Unblocked(new) ==
    /\ mask' = new
    /\ IF pending \subseteq new THEN UNCHANGED killed ELSE killed' \in pending \ new

-----------------------------------------------------------------------------
(* SignalFD.                                                               *)

MutantAddNotReadable(s) ==
    IF s \in sigset_ THEN UNCHANGED <<sigset_, readable, mask, killed>>
    ELSE /\ sigset_' = sigset_ \cup {s}
         /\ Unblocked(mask \cup sigset_')
         /\ UNCHANGED readable

MutantAddNotBlocked(s) ==
    IF s \in sigset_ THEN UNCHANGED <<sigset_, readable, mask, killed>>
    ELSE /\ sigset_' = sigset_ \cup {s}
         /\ readable' = sigset_'
         /\ UNCHANGED <<mask, killed>>

signal_add(s) ==
    IF s \in sigset_ THEN UNCHANGED <<sigset_, readable, mask, killed>>
    ELSE /\ sigset_' = sigset_ \cup {s}
         /\ Unblocked(mask \cup sigset_')
         /\ readable' = sigset_'

signal_delete(s) ==
    IF s \notin sigset_ THEN UNCHANGED <<sigset_, readable, mask, killed>>
    ELSE /\ sigset_' = sigset_ \ {s}
         /\ Unblocked(sigset_')
         /\ readable' = sigset_'

signal_revert == sigset_' = {} /\ Unblocked({}) /\ readable' = {}

-----------------------------------------------------------------------------
(* SignalServer, in its loop.                                              *)

add_signal_in_own_loop(s) == signals_' = signals_ \cup {s} /\ signal_add(s)

delete_signal_in_own_loop(s) ==
    IF s \notin signals_ THEN UNCHANGED <<fd, killed>>
    ELSE signals_' = signals_ \ {s} /\ signal_delete(s)

revert_signal_in_own_loop ==
    IF signals_ = {} THEN UNCHANGED <<fd, killed>> ELSE signals_' = {} /\ signal_revert

Perform(r) ==
    CASE r.call = "add" -> add_signal_in_own_loop(r.signo)
      [] r.call = "delete" -> delete_signal_in_own_loop(r.signo)
      [] r.call = "revert" -> revert_signal_in_own_loop

Requests ==
    [call : {"add", "delete"}, signo : Signos] \cup [call : {"revert"}, signo : {NoSignal}]

Alive == server /\ killed = NoSignal

\* add_signal, ignore_signal, delete_signal or revert_signal on the main thread, ...
SignalCall(r) ==
    /\ Alive /\ requests < MaxRequests
    /\ calling # NoSignal => r.call # "revert" /\ r.signo # calling
    /\ Perform(r)
    /\ requests' = requests + 1
    /\ UNCHANGED <<helpers, pending, functors, calling, server, kills>>

\* ... on another thread, ...
QueueCall(r) ==
    /\ Alive /\ DOMAIN helpers # {} /\ requests < MaxRequests
    /\ functors' = Append(functors, r)
    /\ requests' = requests + 1
    /\ UNCHANGED <<fd, helpers, pending, calling, server, killed, kills>>

\* ... and when the loop gets to it.
RunFunctor ==
    /\ Alive /\ calling = NoSignal /\ functors # <<>>
    /\ Perform(Head(functors))
    /\ functors' = Tail(functors)
    /\ UNCHANGED <<helpers, pending, calling, server, kills, requests>>

\* handle_read takes one signal off the descriptor and calls its callback, if it has one.
ReadSignal ==
    /\ Alive /\ calling = NoSignal
    /\ \E s \in pending \cap readable :
          /\ pending' = pending \ {s}
          /\ calling' = IF s \in signals_ THEN s ELSE NoSignal
    /\ UNCHANGED <<fd, helpers, functors, server, killed, kills, requests>>

CallbackReturns ==
    /\ calling # NoSignal /\ killed = NoSignal
    /\ calling' = NoSignal
    /\ UNCHANGED <<fd, helpers, pending, functors, server, killed, kills, requests>>

DestroySignals ==
    /\ Alive /\ calling = NoSignal /\ functors = <<>>
    /\ revert_signal_in_own_loop
    /\ server' = FALSE
    /\ UNCHANGED <<helpers, pending, functors, calling, kills, requests>>

-----------------------------------------------------------------------------
(* The process.                                                            *)

\* A new thread blocks what the main thread, which starts it, blocks.
StartHelper(t) ==
    /\ Alive /\ t \in Helpers \ DOMAIN helpers
    /\ helpers' = [u \in DOMAIN helpers \cup {t} |-> IF u = t THEN mask ELSE helpers[u]]
    /\ UNCHANGED <<fd, pending, functors, calling, server, killed, kills, requests>>

Masked(s) == s \in mask /\ \A t \in DOMAIN helpers : s \in helpers[t]

Kill(s) ==
    /\ killed = NoSignal /\ kills < MaxKills
    /\ kills' = kills + 1
    /\ IF Masked(s) THEN pending' = pending \cup {s} /\ UNCHANGED killed
                     ELSE killed' = s /\ UNCHANGED pending
    /\ UNCHANGED <<fd, helpers, functors, calling, server, requests>>

SignalsNext ==
    \/ \E r \in Requests : SignalCall(r) \/ QueueCall(r)
    \/ RunFunctor \/ ReadSignal \/ CallbackReturns \/ DestroySignals
    \/ \E t \in Helpers : StartHelper(t)
    \/ \E s \in Signos : Kill(s)

\* The loop turns, and callbacks return.
SignalsFairness ==
    WF_sgvars(RunFunctor) /\ WF_sgvars(ReadSignal) /\ WF_sgvars(CallbackReturns)

SignalsSpec == SignalsInit /\ [][SignalsNext]_sgvars /\ SignalsFairness

-----------------------------------------------------------------------------
\* A signal with a callback does not end the process, whatever has been added, deleted and
\* reverted before: only a thread that was started before the signal was added takes it
\* (signal_add blocks it in the calling thread only).
SignalsCaught ==
    (killed # NoSignal /\ killed \in signals_) =>
        \E t \in DOMAIN helpers : killed \notin helpers[t]

\* A pending signal's callback is called, unless it is deleted or the process ends first.
SignalServed ==
    \A s \in Signos :
        (s \in pending /\ s \in signals_)
            ~> (calling = s \/ s \notin signals_ \/ killed # NoSignal)

\* A signal that has a callback leads to the callback and to nothing else.
SignalsHandled == []SignalsCaught /\ SignalServed
=============================================================================
