------------------------------ MODULE TcpClient ------------------------------
(***************************************************************************)
(* The TcpClient and its Connector (src/TcpClient.cc, src/Connector.cc).   *)
(* The user calls connect(), disconnect() and stop(), on the loop thread   *)
(* or another; the loop thread runs the functors those calls queue, the    *)
(* retry timers and the events of the connecting socket and of the         *)
(* connection.  What poll() reports was there when it was called: ready    *)
(* has the sources whose events may still be handled in this iteration.    *)
(*                                                                         *)
(* The fields of both objects are in the record s, and a method of the     *)
(* loop thread is an operator from one value of s to the next, since the   *)
(* methods call each other directly there.  The end of the client is the   *)
(* user's last call: ~TcpClient stops the connector and leaves it to a     *)
(* timer, or leaves the connection to whoever else has it.                 *)
(***************************************************************************)
EXTENDS Integers, Sequences, Functions

CONSTANTS Calls,        \* the calls made: "connect", "disconnect", "stop", "~TcpClient"
          OwnThreads,   \* whether the calls are made on the loop thread: TRUE, FALSE, both
          MaxCalls,     \* bound: on their number
          Retries,      \* values of retry_, see enable_retry()
          Outcomes,     \* of ::connect: "progress", "again" (try later), "error"
          kInitRetryDelayMs, kMaxRetryDelayMs,
          MaxConns,     \* bound: connections made
          MaxTimers     \* bound: retry timers set

ASSUME DelayAssumption ==
    /\ kInitRetryDelayMs \in Nat \ {0} /\ kMaxRetryDelayMs \in Nat
    /\ kInitRetryDelayMs <= kMaxRetryDelayMs
    /\ OwnThreads \subseteq BOOLEAN /\ Retries \subseteq BOOLEAN
    /\ Outcomes \subseteq {"progress", "again", "error"}
    /\ MaxConns \in Nat /\ MaxTimers \in Nat

VARIABLES retry_, own,  \* picked from Retries and OwnThreads
          s,            \* the two objects and the loop's queue
          pc,           \* the loop thread handles "events" or runs "functors"
          ready,        \* sources of events in this iteration
          batch,        \* functors being run
          call,         \* the rest of the user's call
          calls,        \* calls made
          stopped,      \* the last call was stop(), and it has returned
          order         \* history: "fresh"; "disconnected" by disconnect(); "stopped" by
                        \* stop(); "rough": with retries on, or followed by connect(), or
                        \* destroyed when it should not be

loop == <<pc, ready, batch>>
user == <<call, calls, stopped, order>>
set == <<retry_, own>>
vars == <<set, s, loop, user>>

Conns == 1 .. MaxConns
None == 0

Init ==
    /\ retry_ \in Retries /\ own \in OwnThreads
    /\ s = [connect_ |-> FALSE,                             \* TcpClient
            connection_ |-> None, conns |-> [c \in Conns |-> "none"], made |-> 0,
            hooked |-> {},
            starting |-> FALSE, state_ |-> "kDisconnected", \* Connector (starting: its connect_)
            connect_socket_ |-> FALSE, connect_channel_ |-> "none",
            retry_delay_ms_ |-> kInitRetryDelayMs, time_id_ |-> None,
            timers |-> {}, set |-> 0,                       \* retry timers in the TimerPool
            gave_up |-> FALSE,                              \* history: ::connect failed for good
            client |-> "alive", connector_ |-> TRUE,        \* TRUE: not destroyed
            hold |-> FALSE,                                 \* the timer ~TcpClient sets
            shared |-> FALSE,                               \* the user has the connection too
            queue |-> <<>>, aborted |-> "no"]
    /\ pc = "functors" /\ ready = {} /\ batch = <<>>
    /\ call = "none" /\ calls = 0 /\ stopped = FALSE /\ order = "fresh"

F(op, id) == [op |-> op, id |-> id]
Post(x, op, id) == [x EXCEPT !.queue = Append(@, F(op, id))]
Check(x, ok, what) == IF ok \/ x.aborted # "no" THEN x ELSE [x EXCEPT !.aborted = what]

-----------------------------------------------------------------------------
(* Connector, on the loop thread.                                          *)

remove_and_reset_channel(x) ==
    Post([x EXCEPT !.connect_channel_ = IF @ = "enabled" THEN "removed" ELSE @], "reset", None)

\* ~Channel wants the channel to be out of the poller.
reset_channel(x) ==
    [Check(x, x.connect_channel_ # "enabled", "~Channel") EXCEPT !.connect_channel_ = "none"]

MutantStopKeepsChannel(x) ==
    [x EXCEPT !.connect_socket_ = FALSE, !.state_ = "kDisconnected"]

stop_in_own_loop(x) ==
    [remove_and_reset_channel(x) EXCEPT !.connect_socket_ = FALSE, !.state_ = "kDisconnected"]

Doubled(delay) == IF 2 * delay < kMaxRetryDelayMs THEN 2 * delay ELSE kMaxRetryDelayMs

MutantRetryUnbounded(x) ==
    LET y == [x EXCEPT !.state_ = "kDisconnected", !.connect_socket_ = FALSE]
        t == x.set + 1
    IN IF x.starting
       THEN [y EXCEPT !.timers = @ \cup {t}, !.set = t, !.time_id_ = t, !.retry_delay_ms_ = 2 * @]
       ELSE y

MutantRetryNoTimer(x) ==
    [x EXCEPT !.state_ = "kDisconnected", !.connect_socket_ = FALSE]

retry_in_own_loop(x) ==
    LET y == [x EXCEPT !.state_ = "kDisconnected", !.connect_socket_ = FALSE]
        t == x.set + 1
    IN IF x.starting
       THEN [y EXCEPT !.timers = @ \cup {t}, !.set = t, !.time_id_ = t,
                      !.retry_delay_ms_ = Doubled(@)]
       ELSE y

in_connect(x) ==
    [Check(x, x.connect_channel_ = "none", "in_connect")
        EXCEPT !.state_ = "kConnecting", !.connect_channel_ = "enabled"]

do_connect(x, outcome) ==
    LET y == [Check(x, ~x.connect_socket_, "do_connect") EXCEPT !.connect_socket_ = TRUE]
    IN CASE outcome = "progress" -> in_connect(y)
         [] outcome = "again" -> retry_in_own_loop(y)
         [] outcome = "error" -> [y EXCEPT !.connect_socket_ = FALSE, !.gave_up = TRUE]

start_in_own_loop(x, outcome) ==
    LET y == Check(x, x.state_ = "kDisconnected", "start_in_own_loop")
    IN IF y.starting /\ y.aborted = "no" THEN do_connect(y, outcome) ELSE y

\* Connector::retry, which TcpClient::handle_retry has queued.
retry(x) == retry_in_own_loop([x EXCEPT !.starting = TRUE])

restart(x, outcome) ==
    start_in_own_loop([x EXCEPT !.retry_delay_ms_ = kInitRetryDelayMs,
                                !.state_ = "kDisconnected", !.starting = TRUE], outcome)

-----------------------------------------------------------------------------
(* TcpClient, on the loop thread.                                          *)

\* connect_destroyed(): a close callback that destroys the connection once more is
\* put in place of the user's, and the connection is closed unless it is shared.
connect_destroyed(x, unique) ==
    LET y == [x EXCEPT !.hooked = @ \cup {x.connection_}]
    IN IF x.connection_ = None THEN x
       ELSE IF unique THEN Post(y, "force_close", x.connection_) ELSE y

\* The connector has a plain pointer to the client (initialize(): "not safe").
handle_retry(x, unique) ==
    LET y == Check(connect_destroyed(x, unique), x.client # "dead", "handle_retry")
    IN IF retry_ /\ x.connect_ THEN Post(y, "retry", None) ELSE y

MutantNewConnectionNotStored(x) ==
    LET c == x.made + 1
    IN [x EXCEPT !.made = c, !.conns[c] = "kConnected", !.connect_socket_ = FALSE]

\* shared_from_this() wants a client that is not being destroyed.
new_connection(x) ==
    LET c == x.made + 1
    IN [Check(x, x.client = "alive", "new_connection") EXCEPT !.made = c, !.conns[c] = "kConnected", !.connection_ = c,
                                                       !.connect_socket_ = FALSE]

remove_connection(x, c, outcome) ==
    LET y == Post([Check(x, x.connection_ = c, "remove_connection") EXCEPT !.connection_ = None],
                  "destroyed", c)
    IN IF retry_ /\ x.connect_ /\ y.aborted = "no" THEN restart(y, outcome) ELSE y

\* TcpConnection::handle_close: close_cb_, then finish_cb_, which is bound weakly.
handle_close(x, c, outcome) ==
    LET y == [x EXCEPT !.conns[c] = "kDisconnected"]
        z == IF c \in x.hooked THEN Post(y, "destroyed", c) ELSE y
    IN IF x.client = "alive" THEN remove_connection(z, c, outcome) ELSE z

\* TcpConnection::connect_destroyed.
destroyed(x, c) ==
    [Check(x, x.conns[c] = "kDisconnected", "connect_destroyed") EXCEPT !.conns[c] = "destroyed"]

MutantHandleWriteKeepsState(x, failed, unique) ==
    LET y == [remove_and_reset_channel(x) EXCEPT !.connect_socket_ = FALSE]
    IN CASE failed -> handle_retry(y, unique)
         [] ~failed /\ x.starting -> new_connection([y EXCEPT !.state_ = "kConnected"])
         [] OTHER -> [y EXCEPT !.state_ = "kConnected"]

\* Connector::handle_write, and handle_error when the connection failed.
handle_write(x, failed, unique) ==
    LET y == [remove_and_reset_channel(x) EXCEPT !.connect_socket_ = FALSE]
    IN CASE failed -> handle_retry([y EXCEPT !.state_ = "kDisconnected"], unique)
         [] ~failed /\ x.starting -> new_connection([y EXCEPT !.state_ = "kConnected"])
         [] OTHER -> [y EXCEPT !.state_ = "kConnected"]  \* stopped: discard the socket

-----------------------------------------------------------------------------
(* What the client leaves behind.  A queued functor may own the connection *)
(* or the connector; ~TcpConnection, with its channel, wants the one to be *)
(* destroyed, ~Connector the other to have nothing under way.              *)

Owned(x, ops, functors) == \E f \in Range(x.queue \o functors) : f.op \in ops

ReleaseConnection(x, functors) ==
    IF x.connection_ = None \/ x.shared \/ Owned(x, {"hook", "destroyed"}, functors) THEN x
    ELSE Check(x, x.conns[x.connection_] = "destroyed", "~TcpConnection")

ReleaseConnector(x, functors) ==
    IF ~x.connector_ \/ x.hold \/ Owned(x, {"retry"}, functors) THEN x
    ELSE [Check(x, ~x.connect_socket_ /\ x.connect_channel_ = "none", "~Connector")
            EXCEPT !.connector_ = FALSE]

Release(x, functors) ==
    IF x.client # "dead" THEN x ELSE ReleaseConnector(ReleaseConnection(x, functors), functors)

-----------------------------------------------------------------------------
(* The loop thread's steps.                                                *)

Running == s.aborted = "no" /\ (own => call = "none")
Bounded == s.set < MaxTimers
Open == {c \in Conns : s.conns[c] \in {"kConnected", "kDisconnecting"}}

\* The channels registered and the timers set when poll() is called.  The timer of
\* ~TcpClient has a second: the functors queued with it are run before.
Poll ==
    /\ Running /\ pc = "functors" /\ batch = <<>>
    /\ pc' = "events"
    /\ ready' = {F("timer", t) : t \in s.timers} \cup {F("close", c) : c \in Open}
               \cup (IF s.connect_channel_ = "enabled" THEN {F("connecting", None)} ELSE {})
               \cup (IF s.hold /\ s.queue = <<>> THEN {F("hold", None)} ELSE {})
    /\ UNCHANGED <<set, s, batch, user>>

Swap ==
    /\ Running /\ pc = "events"
    /\ pc' = "functors" /\ ready' = {}
    /\ batch' = s.queue /\ s' = [s EXCEPT !.queue = <<>>]
    /\ UNCHANGED <<set, user>>

\* A functor; those of the connector are bound weakly, but for retry.  The batch is
\* destroyed when it has been run.
Perform(f, outcome) ==
    CASE f.op = "start" -> IF s.connector_ THEN start_in_own_loop(s, outcome) ELSE s
      [] f.op = "stop" -> IF s.connector_ THEN stop_in_own_loop(s) ELSE s
      [] f.op = "retry" -> retry(s)
      [] f.op = "reset" -> IF s.connector_ THEN reset_channel(s) ELSE s
      [] f.op = "cancel" -> [s EXCEPT !.timers = @ \ {f.id}]
      [] f.op = "hook" -> [s EXCEPT !.hooked = @ \cup {f.id}]
      [] f.op = "destroyed" -> destroyed(s, f.id)
      [] f.op = "force_close" -> IF f.id \in Open THEN handle_close(s, f.id, outcome) ELSE s

RunFunctor ==
    /\ Running /\ batch # <<>>
    /\ Head(batch).op \in {"start", "retry", "force_close"} => Bounded
    /\ \E o \in Outcomes : \E x \in {Perform(Head(batch), o)} :
            s' = IF Len(batch) = 1 THEN Release(x, <<>>) ELSE x
    /\ batch' = Tail(batch)
    /\ UNCHANGED <<set, pc, ready, user>>

Event(e) == Running /\ e \in ready /\ ready' = ready \ {e} /\ UNCHANGED <<set, pc, batch, user>>

\* A retry timer is due (and has not been cancelled meanwhile).
TimerFires ==
    \E t \in s.timers, o \in Outcomes :
        /\ Event(F("timer", t)) /\ Bounded
        /\ LET x == [s EXCEPT !.timers = @ \ {t}]
           IN s' = IF s.connector_ THEN start_in_own_loop(x, o) ELSE x

\* The timer of ~TcpClient: nobody needs the connector any more.
HoldEnds ==
    /\ Event(F("hold", None))
    /\ s' = Release([s EXCEPT !.hold = FALSE], batch)

\* The connecting socket is writable: connected, or failed.
ConnectEvent ==
    /\ Event(F("connecting", None))
    /\ s.connect_channel_ = "enabled" /\ s.state_ = "kConnecting"
    /\ \E failed, unique \in BOOLEAN :
        (failed \/ s.made < MaxConns) /\ s' = handle_write(s, failed, unique)

\* The peer closes the connection (after shutdown(), it does).
CloseEvent ==
    \E c \in Open, o \in Outcomes :
        Event(F("close", c)) /\ Bounded /\ s' = handle_close(s, c, o)

-----------------------------------------------------------------------------
(* The user's thread.                                                      *)

May(name) == /\ s.aborted = "no" /\ call = "none" /\ name \in Calls /\ calls < MaxCalls
             /\ s.client = "alive"
             /\ calls' = calls + 1

\* connect(): the client's flag, ...
connect ==
    /\ May("connect")
    /\ s' = [s EXCEPT !.connect_ = TRUE]
    /\ call' = IF s.connect_ THEN "none" ELSE "start"
    /\ stopped' = FALSE
    /\ order' = IF order = "stopped" THEN "rough" ELSE order
    /\ UNCHANGED <<set, loop>>

\* ... then Connector::start.
start ==
    /\ call = "start" /\ call' = "none" /\ Bounded
    /\ LET x == [s EXCEPT !.starting = TRUE]
       IN CASE s.starting -> s' = s
            [] ~s.starting /\ own -> \E o \in Outcomes : s' = start_in_own_loop(x, o)
            [] OTHER -> s' = Post(x, "start", None)
    /\ UNCHANGED <<set, loop, calls, order, stopped>>

\* connection_->shutdown().
Shutdown(x) ==
    IF x.connection_ # None /\ x.conns[x.connection_] = "kConnected"
    THEN [x EXCEPT !.conns[x.connection_] = "kDisconnecting"] ELSE x

disconnect ==
    /\ May("disconnect")
    /\ s' = IF s.connect_ THEN Shutdown([s EXCEPT !.connect_ = FALSE]) ELSE s
    /\ stopped' = FALSE
    /\ order' = IF s.connect_ /\ order = "fresh" THEN "disconnected" ELSE order
    /\ UNCHANGED <<set, loop, call>>

\* stop(): the client's part, ...
stop ==
    /\ May("stop")
    /\ s' = IF s.connect_ THEN Shutdown([s EXCEPT !.connect_ = FALSE]) ELSE s
    /\ call' = IF s.connect_ THEN "stop" ELSE "none"
    /\ stopped' = ~s.connect_
    /\ order' = CASE ~s.connect_ \/ order = "rough" -> order
                  [] s.connect_ /\ order # "rough" -> IF retry_ THEN "rough" ELSE "stopped"
    /\ UNCHANGED <<set, loop>>

\* What comes after Connector::stop: stop() returns, ~TcpClient goes on.
Then == IF s.client = "alive" THEN "none" ELSE "hold"

\* ... then Connector::stop, ...
ConnectorStop ==
    /\ call = "stop"
    /\ LET x == [s EXCEPT !.starting = FALSE]
       IN s' = CASE ~s.starting -> s
                 [] s.starting /\ own -> stop_in_own_loop(x)
                 [] OTHER -> Post(x, "stop", None)
    /\ call' = IF s.starting THEN "cancel" ELSE Then
    /\ stopped' = (~s.starting /\ s.client = "alive")
    /\ UNCHANGED <<set, loop, calls, order>>

\* ... which ends by cancelling the retry timer.
CancelTimer ==
    /\ call = "cancel" /\ call' = Then /\ stopped' = (s.client = "alive")
    /\ s' = CASE s.time_id_ = None -> s
              [] s.time_id_ # None /\ own -> [s EXCEPT !.timers = @ \ {s.time_id_}]
              [] OTHER -> Post(s, "cancel", s.time_id_)
    /\ UNCHANGED <<set, loop, calls, order>>

MutantDestroyNoStop ==
    /\ May("~TcpClient")
    /\ s' = [s EXCEPT !.client = "dying"] /\ call' = "hold" /\ stopped' = FALSE
    /\ order' = IF own /\ ~retry_ /\ s.connection_ = None THEN order ELSE "rough"
    /\ UNCHANGED <<set, loop>>

\* ~TcpClient: nobody has the client any more.  Its copy of connection_ is what makes
\* unique() false in the connect_destroyed() it calls: the connection is not closed.
\* In order, it is destroyed on the loop thread, with retries off, and without a
\* connection or with one the user has too, not while that is being set up.
Destroy ==
    /\ May("~TcpClient")
    /\ \E shared \in BOOLEAN :
        /\ shared => s.connection_ # None
        /\ s' = [s EXCEPT !.client = "dying", !.shared = shared]
        /\ order' = IF own /\ ~retry_ /\ (s.connection_ = None
                                          \/ (shared /\ s.connect_channel_ = "none"))
                    THEN order ELSE "rough"
    /\ call' = IF s.connection_ = None THEN "stop" ELSE "hook"
    /\ stopped' = FALSE
    /\ UNCHANGED <<set, loop>>

\* With a connection, connect_destroyed() (of the connection there still is), ...
Hook ==
    /\ call = "hook" /\ call' = "free"
    /\ s' = IF own THEN connect_destroyed(s, FALSE)
            ELSE IF s.connection_ = None THEN s ELSE Post(s, "hook", s.connection_)
    /\ UNCHANGED <<set, loop, calls, order, stopped>>

\* ... without one, the timer that has the connector, ...
Hold ==
    /\ call = "hold" /\ call' = "free"
    /\ s' = [s EXCEPT !.hold = TRUE]
    /\ UNCHANGED <<set, loop, calls, order, stopped>>

\* ... and the members are destroyed.
Free ==
    /\ call = "free" /\ call' = "none"
    /\ s' = Release([s EXCEPT !.client = "dead"], batch)
    /\ UNCHANGED <<set, loop, calls, order, stopped>>

Next ==
    \/ Poll \/ Swap \/ RunFunctor \/ TimerFires \/ HoldEnds \/ ConnectEvent \/ CloseEvent
    \/ connect \/ start \/ disconnect \/ stop \/ ConnectorStop \/ CancelTimer
    \/ Destroy \/ Hook \/ Hold \/ Free

Spec == Init /\ [][Next]_vars

-----------------------------------------------------------------------------
\* The fields keep their types; the back-off never passes its maximum.
TypeOK ==
    /\ s.connect_ \in BOOLEAN /\ s.starting \in BOOLEAN
    /\ s.state_ \in {"kDisconnected", "kConnecting", "kConnected"}
    /\ s.connect_channel_ \in {"none", "enabled", "removed"}
    /\ s.connection_ \in Conns \cup {None} /\ s.timers \subseteq 1 .. MaxTimers
    /\ s.retry_delay_ms_ \in kInitRetryDelayMs .. kMaxRetryDelayMs

\* No CHECK or DCHECK of the client, its connector, channel or connection fails, and no
\* callback meets a client that is gone, unless stop() is called with retries on, or
\* connect() again after it, or the client is destroyed out of order (see Destroy).
ChecksHold == order # "rough" => s.aborted = "no"

\* stop() means "Disconnect and stop connect retry": once it has returned and the
\* loop has run what it queued, no attempt is under way, no retry timer is set, and the
\* only connection there may be is closing.
StopIsFinal ==
    (stopped /\ s.queue = <<>> /\ batch = <<>>) =>
        /\ ~s.connect_socket_ /\ s.connect_channel_ = "none"
        /\ s.timers = {}
        /\ \A c \in Conns : s.conns[c] # "kConnected"

\* It does, if it is called on the loop thread by a client that is connecting or
\* connected and has retries off, whatever disconnect() and stop() calls follow.
OwnStopIsFinal == (own /\ order = "stopped") => StopIsFinal

\* The socket, the channel and the state of the connector agree between functors, and
\* at most one connection is open, the one the client knows.
ConnectorAgrees == order # "rough" =>
    /\ (s.state_ = "kConnecting") => s.connect_socket_ /\ s.connect_channel_ = "enabled"
    /\ s.connect_socket_ => s.state_ = "kConnecting"
    /\ \A c \in Conns : s.conns[c] \in {"kConnected", "kDisconnecting"} => s.connection_ = c

\* With retries on, a client that wants to be connected does not give up before it is
\* first told to disconnect, unless ::connect failed for good: it has a connection, or
\* keeps a timer or an attempt going all the time.
KeepsTrying ==
    (retry_ /\ order = "fresh" /\ ~s.gave_up /\ s.connect_ /\ call = "none") =>
        \/ s.connection_ # None
        \/ s.connect_channel_ = "enabled" \/ s.timers # {}
        \/ \E f \in Range(s.queue \o batch) : f.op \in {"start", "retry"}

\* ~TcpClient leaves nothing going: when its functors and its timer have run, the
\* connector is gone, with no attempt and no retry timer, and a connection that is still
\* open will be destroyed when it closes.
DestroyIsFinal ==
    (order # "rough" /\ s.client = "dead" /\ ~s.hold /\ s.queue = <<>> /\ batch = <<>>) =>
        /\ ~s.connector_ /\ s.timers = {} /\ ~s.connect_socket_ /\ s.connect_channel_ = "none"
        /\ \A c \in Conns : s.conns[c] \in {"kConnected", "kDisconnecting"} => c \in s.hooked

\* A client may be destroyed at any time.  (It may not: one that is connected, with a
\* connection nobody else has, takes the connection with it while it is open.)
DestroyAnyTime == s.aborted # "~TcpConnection"

\* In every order of calls, timers and outcomes of ::connect: the fields agree, no
\* assertion of the code fails, and connector and client agree on the one connection.
ClientClean == TypeOK /\ ChecksHold /\ ConnectorAgrees /\ DestroyIsFinal
==============================================================================
