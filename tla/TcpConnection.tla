--------------------------- MODULE TcpConnection ---------------------------
(***************************************************************************)
(* One TcpConnection (src/TcpConnection.cc) from new_connection to its     *)
(* destruction: its loop thread, user threads that hold a TcpConnectionPtr *)
(* and call it, the TcpServer that keeps it in its map (in a loop of its   *)
(* own), and the peer.                                                     *)
(*                                                                         *)
(* A call from a user thread reads or changes state_ first and queues its  *)
(* functor later: two steps.  The loop thread polls, runs the callbacks of *)
(* the reported events (todo holds what is left of them) and then the      *)
(* functors that were queued when it swapped the vector (batch of them are *)
(* left).  Where a handler calls back the user, "callback" in todo stands  *)
(* for the user's code, which may call the connection from the loop thread.*)
(*                                                                         *)
(* Functors bound to a weak pointer do nothing once the connection is      *)
(* gone; connect_established, connect_destroyed and the write_complete and *)
(* high_water_mark callbacks are bound to a strong one and keep it alive.  *)
(* A message is two units long, so that a write can be partial.            *)
(***************************************************************************)
EXTENDS Channel, Integers, Functions

CONSTANTS Users,            \* threads other than the loop's
          Uses,             \* the ways the connection is used, one of which is picked:
                            \* what users call, the payloads they send (each once), if
                            \* the TcpServer may be destroyed meanwhile, and a bound:
                            \* no calls with max_queue functors queued
          high_water_mark_  \* in units

Writing == {"send", "shutdown", "force_close", "force_close_with_delay"}

Loop == "loop"            \* the loop's thread

ASSUME UsesAssumption ==
    /\ Loop \notin Users
    /\ \A u \in Uses : /\ u.calls \subseteq Writing \cup {"start_read", "stop_read"}
                       /\ u.server_dies \in BOOLEAN /\ u.max_queue \in Nat

VARIABLES use,        \* of Uses
          state_, reading_, output_buffer_,
          ch,         \* connect_channel_ and what the poller makes of it
          queue,      \* functors queued in owner_loop_
          batch,      \* how many of them do_calling_wakeup_functors still runs
          todo,       \* callbacks the loop thread is in the middle of
          in_map,     \* the server's connections_ holds the connection
          server,     \* the server exists
          finishing,  \* remove_connection_in_loop functors in the server's loop
          timer,      \* force_close_with_delay has a timer pending
          call,       \* the functor a user thread is about to queue
          held,       \* user threads that hold a TcpConnectionPtr
          peer,       \* the other end: open, fin, reset (error pending), closed
          wr_shut,    \* our side has sent its FIN
          wire,       \* units written to the socket
          accepted,   \* history: messages send() accepted, by calling thread
          handled,    \* history: messages send_in_loop wrote or buffered
          owed,       \* history: messages shutdown()'s caller had sent before
          closes,     \* history: calls of close_cb_
          aborted     \* the first CHECK or DCHECK that failed

conn == <<state_, reading_, output_buffer_, ch>>
loop == <<queue, batch, todo>>
owner == <<in_map, server, finishing>>
users == <<call, held, timer>>
net == <<peer, wr_shut, wire>>
history == <<accepted, handled, owed, closes>>
vars == <<use, conn, loop, owner, users, net, history, aborted>>

Idle == <<"idle">>
Strong == {"connect_established", "connect_destroyed", "write_complete",
           "high_water_mark"}

\* Somebody holds a TcpConnectionPtr: the map, a user, a functor, a running handler.
Alive ==
    \/ in_map \/ held # {} \/ finishing > 0 \/ todo # <<>>
    \/ \E i \in DOMAIN queue : queue[i][1] \in Strong

\* TcpServer::new_connection has stored the connection and queued connect_established.
Init ==
    /\ use \in Uses
    /\ state_ = "kConnecting" /\ reading_ = TRUE /\ output_buffer_ = <<>>
    /\ ch = NewChannel
    /\ queue = <<<<"connect_established">>>> /\ batch = 0 /\ todo = <<>>
    /\ in_map = TRUE /\ server = TRUE /\ finishing = 0
    /\ timer = FALSE /\ call = [t \in Users |-> Idle] /\ held = {}
    /\ peer = "open" /\ wr_shut = FALSE /\ wire = <<>>
    /\ accepted = [t \in Users \cup {Loop} |-> <<>>]
    /\ handled = <<>> /\ owed = {} /\ closes = 0
    /\ aborted = "no"

Fresh(m) == \A t \in DOMAIN accepted : m \notin Range(accepted[t])

-----------------------------------------------------------------------------
(* send, shutdown, force_close ... up to the point where they hand a functor *)
(* to the loop: the functor, and what they do to state_.                     *)

\* send: nothing unless kConnected.
send(t, m) ==
    /\ "send" \in use.calls /\ m \in use.messages /\ Fresh(m)
    /\ state_ = "kConnected"
    /\ accepted' = [accepted EXCEPT ![t] = Append(@, m)]
    /\ UNCHANGED <<state_, owed>>

\* shutdown: compare_exchange from kConnected.
shutdown(t) ==
    /\ "shutdown" \in use.calls
    /\ state_ = "kConnected"
    /\ state_' = "kDisconnecting"
    /\ owed' = Range(accepted[t])
    /\ UNCHANGED accepted

\* force_close and force_close_with_delay: the same, or already kDisconnecting.
Closing(c) ==
    /\ c \in use.calls
    /\ state_ \in {"kConnected", "kDisconnecting"}
    /\ state_' = "kDisconnecting"
    /\ UNCHANGED <<accepted, owed>>

\* start_read, stop_read: unconditional.
Reading(c) ==
    /\ c \in use.calls
    /\ UNCHANGED <<state_, accepted, owed>>

-----------------------------------------------------------------------------
(* A user thread: the first half of a call, then queue_in_own_loop.         *)

UserCall(t, functor) ==
    /\ t \in held /\ call[t] = Idle /\ Len(queue) < use.max_queue
    /\ call' = [call EXCEPT ![t] = functor]
    /\ UNCHANGED <<use, reading_, output_buffer_, ch, loop, owner, held, timer, net, handled,
                   closes, aborted>>

UserSend(t, m) == send(t, m) /\ UserCall(t, <<"send_in_loop", m>>)
UserShutdown(t) == shutdown(t) /\ UserCall(t, <<"shutdown_in_loop">>)
UserForceClose(t) == Closing("force_close") /\ UserCall(t, <<"force_close_in_loop">>)
UserReading(t) ==
    \/ Reading("start_read") /\ UserCall(t, <<"start_read_in_loop">>)
    \/ Reading("stop_read") /\ UserCall(t, <<"stop_read_in_loop">>)

\* run_after queues the timer's insertion; the delay may be any.
UserForceCloseWithDelay(t) ==
    /\ t \in held /\ call[t] = Idle /\ ~timer
    /\ Closing("force_close_with_delay")
    /\ timer' = TRUE
    /\ UNCHANGED <<use, reading_, output_buffer_, ch, loop, owner, call, held, net, handled,
                   closes, aborted>>

Enqueue(t) ==
    /\ call[t] # Idle
    /\ queue' = Append(queue, call[t])
    /\ call' = [call EXCEPT ![t] = Idle]
    /\ UNCHANGED <<use, conn, batch, todo, owner, held, timer, net, history, aborted>>

DropPtr(t) ==
    /\ t \in held /\ call[t] = Idle
    /\ held' = held \ {t}
    /\ UNCHANGED <<use, conn, loop, owner, call, timer, net, history, aborted>>
-----------------------------------------------------------------------------
(* The functors and handlers, on the loop thread.  q is the queue they add to. *)

\* A failed check aborts the process: the loops stop.
Running == aborted = "no"
Check(holds, site) == aborted' = IF holds THEN aborted ELSE site

\* The kernel takes up to k units, refuses for now (0), or fails for good (-1).
WriteResults(k) == IF wr_shut \/ peer \in {"reset", "closed"} THEN {-1} ELSE 0 .. k

MutantSendIgnoresBuffer(m, q) ==
    \E n \in WriteResults(2) :
        /\ wire' = wire \o SubSeq(<<m, m>>, 1, n)
        /\ output_buffer_' = IF n = -1 THEN output_buffer_
                             ELSE output_buffer_ \o SubSeq(<<m, m>>, n + 1, 2)
        /\ handled' = IF n = -1 THEN handled ELSE Append(handled, m)
        /\ ch' = IF output_buffer_' # <<>> THEN enable_write_event(ch) ELSE ch
        /\ queue' = q

\* send_in_loop: write at once if nothing waits, buffer what is left.
send_in_loop(m, q) ==
    IF state_ = "kDisconnected"
    THEN queue' = q /\ UNCHANGED <<output_buffer_, ch, wire, handled>>
    ELSE LET direct == ~is_write_event(ch) /\ output_buffer_ = <<>>
             history_bytes == Len(output_buffer_)
         IN \E n \in IF direct THEN WriteResults(2) ELSE {0} :
            LET fault_error == n = -1
                remaining == IF fault_error THEN <<>> ELSE SubSeq(<<m, m>>, n + 1, 2)
                total == history_bytes + Len(remaining)
            IN /\ wire' = wire \o SubSeq(<<m, m>>, 1, n)
               /\ handled' = IF fault_error THEN handled ELSE Append(handled, m)
               /\ output_buffer_' = output_buffer_ \o remaining
               /\ ch' = IF remaining # <<>> /\ ~is_write_event(ch)
                        THEN enable_write_event(ch) ELSE ch
               /\ queue' = IF n = 2 THEN Append(q, <<"write_complete">>)
                           ELSE IF /\ remaining # <<>>
                                   /\ total >= high_water_mark_
                                   /\ history_bytes < high_water_mark_
                           THEN Append(q, <<"high_water_mark">>) ELSE q

MutantShutdownAtOnce == wr_shut' = TRUE

\* shutdown_in_loop: not while the channel waits to write.
shutdown_in_loop == wr_shut' = (wr_shut \/ ~is_write_event(ch))

MutantStopReadDisablesAll ==
    /\ reading_' = FALSE
    /\ ch' = IF reading_ /\ is_read_event(ch) THEN disable_all_event(ch) ELSE ch

start_read_in_loop ==
    /\ reading_' = TRUE
    /\ ch' = IF ~reading_ /\ ~is_read_event(ch) THEN enable_read_event(ch) ELSE ch

stop_read_in_loop ==
    /\ reading_' = FALSE
    /\ ch' = IF reading_ /\ is_read_event(ch) THEN disable_read_event(ch) ELSE ch

\* handle_close, with what is left to do after it.
handle_close(rest) ==
    /\ Check(state_ \in {"kConnected", "kDisconnecting"}, "handle_close: state_")
    /\ state_' = "kDisconnected"
    /\ ch' = disable_all_event(ch)
    /\ closes' = closes + 1
    /\ todo' = <<"callback", "finish">> \o rest

-----------------------------------------------------------------------------
(* Functors: connect_established, connect_destroyed and those queued above. *)

connect_established ==
    /\ Check(state_ = "kConnecting", "connect_established: state_")
    /\ state_' = "kConnected"
    /\ ch' = enable_read_event(ch)
    /\ todo' = <<"callback">>
    /\ held' = Users        \* connect_cb_ hands the connection to the users
    /\ UNCHANGED closes

MutantDestroyedAlwaysCloses ==
    /\ state_' = "kDisconnected" /\ ch' = disable_all_event(ch)
    /\ closes' = closes + 1 /\ todo' = <<"callback", "remove">>
    /\ UNCHANGED <<held, aborted>>

connect_destroyed ==
    /\ IF state_ = "kConnected"
       THEN /\ state_' = "kDisconnected" /\ ch' = disable_all_event(ch)
            /\ closes' = closes + 1 /\ todo' = <<"callback", "remove">>
       ELSE todo' = <<"remove">> /\ UNCHANGED <<state_, ch, closes>>
    /\ UNCHANGED <<held, aborted>>

MutantForceCloseUnguarded == handle_close(<<>>) /\ UNCHANGED held

force_close_in_loop ==
    /\ IF state_ \in {"kConnected", "kDisconnecting"} THEN handle_close(<<>>)
       ELSE UNCHANGED <<state_, ch, closes, todo, aborted>>
    /\ UNCHANGED held

\* do_calling_wakeup_functors runs the next functor of the batch.
RunFunctor ==
    /\ Running /\ todo = <<>> /\ batch > 0
    /\ batch' = batch - 1
    /\ LET f == Head(queue)
           q == Tail(queue)
       IN \/ /\ Alive
             /\ \/ /\ \/ f[1] = "connect_established" /\ connect_established
                      \/ f[1] = "connect_destroyed" /\ connect_destroyed
                      \/ f[1] = "force_close_in_loop" /\ force_close_in_loop
                      \/ /\ f[1] \in {"write_complete", "high_water_mark"}
                         /\ todo' = <<"callback">>
                         /\ UNCHANGED <<state_, ch, closes, held, aborted>>
                   /\ queue' = q
                   /\ UNCHANGED <<reading_, output_buffer_, wr_shut, wire, handled>>
                \/ /\ \/ /\ f[1] = "send_in_loop" /\ send_in_loop(f[2], q)
                         /\ UNCHANGED <<reading_, wr_shut>>
                      \/ /\ f[1] = "shutdown_in_loop" /\ shutdown_in_loop /\ queue' = q
                         /\ UNCHANGED <<reading_, output_buffer_, ch, wire, handled>>
                      \/ /\ \/ f[1] = "start_read_in_loop" /\ start_read_in_loop
                            \/ f[1] = "stop_read_in_loop" /\ stop_read_in_loop
                         /\ queue' = q
                         /\ UNCHANGED <<output_buffer_, wr_shut, wire, handled>>
                   /\ UNCHANGED <<state_, closes, todo, held, aborted>>
          \/ /\ ~Alive      \* a weak functor of a connection that is gone
             /\ queue' = q
             /\ UNCHANGED <<conn, todo, held, wr_shut, wire, handled, closes, aborted>>
    /\ UNCHANGED <<use, owner, call, timer, peer, accepted, owed>>
-----------------------------------------------------------------------------
(* The rest of a handler: what is at the head of todo.                      *)

At(item) == Running /\ todo # <<>> /\ Head(todo) = item

\* User code called back on the loop thread: run_in_own_loop runs the functor at once,
\* force_close queues it all the same.
CallbackCalls ==
    /\ At("callback")
    /\ \/ \E m \in use.messages : send(Loop, m) /\ send_in_loop(m, queue)
                              /\ UNCHANGED <<reading_, wr_shut, timer>>
       \/ shutdown(Loop) /\ shutdown_in_loop
          /\ UNCHANGED <<reading_, output_buffer_, ch, queue, wire, handled, timer>>
       \/ Closing("force_close") /\ Len(queue) < use.max_queue
          /\ queue' = Append(queue, <<"force_close_in_loop">>)
          /\ UNCHANGED <<reading_, output_buffer_, ch, net, handled, timer>>
       \/ Closing("force_close_with_delay") /\ timer' = TRUE
          /\ UNCHANGED <<reading_, output_buffer_, ch, queue, wr_shut, wire, handled>>
       \/ /\ \/ Reading("start_read") /\ start_read_in_loop
             \/ Reading("stop_read") /\ stop_read_in_loop
          /\ UNCHANGED <<output_buffer_, queue, wr_shut, wire, handled, timer>>
    /\ UNCHANGED <<use, batch, todo, owner, call, held, peer, closes, aborted>>

CallbackReturns ==
    /\ At("callback")
    /\ todo' = Tail(todo)
    /\ UNCHANGED <<use, conn, queue, batch, owner, users, net, history, aborted>>

\* finish_cb_: TcpServer::remove_connection, if there is a server.
Finish ==
    /\ At("finish")
    /\ finishing' = finishing + (IF server THEN 1 ELSE 0)
    /\ todo' = Tail(todo)
    /\ UNCHANGED <<use, conn, queue, batch, in_map, server, users, net, history, aborted>>

\* Channel::remove, at the end of connect_destroyed.
RemoveChannel ==
    /\ At("remove")
    /\ Check(is_none_event(ch) /\ ch.status # "Init", "Channel::remove")
    /\ ch' = remove(ch)
    /\ todo' = Tail(todo)
    /\ UNCHANGED <<use, state_, reading_, output_buffer_, queue, batch, owner, users, net,
                   history>>

HandleClose ==
    /\ At("close")
    /\ handle_close(Tail(todo))
    /\ UNCHANGED <<use, reading_, output_buffer_, queue, batch, owner, users, net, accepted,
                   handled, owed>>

\* handle_error only logs.
HandleError ==
    /\ At("error")
    /\ todo' = Tail(todo)
    /\ UNCHANGED <<use, conn, queue, batch, owner, users, net, history, aborted>>

\* handle_read: data, end of file, or the pending error (which reading clears).
HandleRead ==
    /\ At("read")
    /\ \/ /\ peer = "open"
          /\ todo' = <<"callback">> \o Tail(todo)
          /\ UNCHANGED <<state_, ch, closes, peer, aborted>>
       \/ /\ peer \in {"fin", "closed"}
          /\ handle_close(Tail(todo))
          /\ UNCHANGED peer
       \/ /\ peer = "reset"
          /\ peer' = "closed" /\ todo' = Tail(todo)
          /\ UNCHANGED <<state_, ch, closes, aborted>>
    /\ UNCHANGED <<use, reading_, output_buffer_, queue, batch, owner, users, wr_shut, wire,
                   accepted, handled, owed>>

MutantWriteForgetsShutdown ==
    /\ At("write")
    /\ todo' = Tail(todo)
    /\ IF ~is_write_event(ch) \/ WriteResults(1) = {-1}
       THEN UNCHANGED <<output_buffer_, wire, ch>>
       ELSE /\ wire' = wire \o output_buffer_
            /\ output_buffer_' = <<>>
            /\ ch' = disable_write_event(ch)
    /\ UNCHANGED <<use, state_, reading_, queue, batch, owner, users, peer, wr_shut, history,
                   aborted>>

\* handle_write: when the buffer is empty, stop listening and do a pending shutdown.
HandleWrite ==
    /\ At("write")
    /\ todo' = Tail(todo)
    /\ IF ~is_write_event(ch)
       THEN UNCHANGED <<output_buffer_, wire, ch, queue, wr_shut>>
       ELSE \E n \in WriteResults(Len(output_buffer_)) :
            LET left == IF n > 0 THEN SubSeq(output_buffer_, n + 1, Len(output_buffer_))
                                 ELSE output_buffer_
                sent == n > 0 /\ left = <<>>
            IN /\ wire' = wire \o SubSeq(output_buffer_, 1, n)
               /\ output_buffer_' = left
               /\ ch' = IF sent THEN disable_write_event(ch) ELSE ch
               /\ queue' = IF sent THEN Append(queue, <<"write_complete">>) ELSE queue
               /\ wr_shut' = (wr_shut \/ (sent /\ state_ = "kDisconnecting"))
    /\ UNCHANGED <<use, state_, reading_, batch, owner, users, peer, history, aborted>>

\* do_calling_wakeup_functors swaps the vector.
Swap ==
    /\ At("functors")
    /\ batch' = Len(queue)
    /\ todo' = Tail(todo)
    /\ UNCHANGED <<use, conn, queue, owner, users, net, history, aborted>>

-----------------------------------------------------------------------------
(* The loop polls.  HUP and ERR are reported for any descriptor listened to. *)

Hup == peer \in {"reset", "closed"} \/ (peer = "fin" /\ wr_shut)
Always == (IF Hup THEN {"HUP"} ELSE {}) \cup (IF peer = "reset" THEN {"ERR"} ELSE {})
\* Ready for sure: end of file or an error; perhaps: data, or room in the socket.
Surely == (IF peer # "open" THEN {"R"} ELSE {}) \cup (IF Hup THEN {"W"} ELSE {})

Poll(revents) ==
    /\ Running /\ todo = <<>> /\ batch = 0
    /\ \/ /\ ch.status = "Added" /\ Alive
          /\ revents \cap {"HUP", "ERR"} = Always
          /\ ch.events \cap Surely \subseteq revents
          /\ revents \ Always \subseteq ch.events
          /\ revents # {}
       \/ revents = {} /\ queue # <<>>      \* woken up
    /\ todo' = handle_event(revents) \o <<"functors">>
    /\ UNCHANGED <<use, conn, queue, batch, owner, users, net, history, aborted>>

\* force_close_with_delay's timer: force_close() through a weak pointer.
TimerFires ==
    /\ Running /\ timer /\ todo = <<>> /\ batch = 0
    /\ timer' = FALSE
    /\ IF Alive /\ state_ \in {"kConnected", "kDisconnecting"}
       THEN state_' = "kDisconnecting" /\ queue' = Append(queue, <<"force_close_in_loop">>)
       ELSE UNCHANGED <<state_, queue>>
    /\ todo' = <<"functors">>
    /\ UNCHANGED <<use, reading_, output_buffer_, ch, batch, owner, call, held, net, history,
                   aborted>>

-----------------------------------------------------------------------------
(* The server's loop and the peer.                                         *)

MutantEraseOnly ==
    /\ Running /\ server /\ finishing > 0
    /\ finishing' = finishing - 1 /\ in_map' = FALSE
    /\ UNCHANGED <<use, conn, queue, batch, todo, server, users, net, history, aborted>>

\* TcpServer::remove_connection_in_loop: erase, then queue connect_destroyed.
RemoveConnection ==
    /\ Running /\ server /\ finishing > 0
    /\ finishing' = finishing - 1
    /\ Check(in_map, "remove_connection_in_loop: n == 1")
    /\ in_map' = FALSE
    /\ queue' = Append(queue, <<"connect_destroyed">>)
    /\ UNCHANGED <<use, conn, batch, todo, server, users, net, history>>

\* TcpServer::~TcpServer; weakly bound functors of the server are void from now on.
ServerDies ==
    /\ use.server_dies /\ server
    /\ server' = FALSE /\ in_map' = FALSE /\ finishing' = 0
    /\ queue' = IF in_map THEN Append(queue, <<"connect_destroyed">>) ELSE queue
    /\ UNCHANGED <<use, conn, batch, todo, users, net, history, aborted>>

PeerCloses ==
    /\ \/ peer = "open" /\ peer' = "fin"
       \/ peer \in {"open", "fin"} /\ peer' = "reset"
    /\ UNCHANGED <<use, conn, loop, owner, users, wr_shut, wire, history, aborted>>
-----------------------------------------------------------------------------
LoopStep ==
    \/ RunFunctor \/ CallbackReturns \/ Finish \/ RemoveChannel \/ HandleClose \/ HandleError
    \/ HandleRead \/ HandleWrite \/ Swap

PollStep == \E revents \in SUBSET {"R", "W", "HUP", "ERR"} : Poll(revents)

Next ==
    \/ \E t \in Users : \/ \E m \in use.messages : UserSend(t, m)
                        \/ UserShutdown(t) \/ UserForceClose(t) \/ UserReading(t)
                        \/ UserForceCloseWithDelay(t) \/ Enqueue(t) \/ DropPtr(t)
    \/ LoopStep \/ CallbackCalls \/ PollStep \/ TimerFires
    \/ RemoveConnection \/ ServerDies \/ PeerCloses

Spec == Init /\ [][Next]_vars

\* The loop thread and the server's keep running: poll returns when something is ready
\* or the loop was woken up, a pending timer expires, a user finishes the call it is in,
\* and a peer that has not closed keeps making room for what we write.
Fairness ==
    /\ WF_vars(LoopStep) /\ WF_vars(PollStep) /\ WF_vars(RemoveConnection)
    /\ \A t \in Users : WF_vars(Enqueue(t))
    /\ SF_vars(TimerFires)
    /\ SF_vars(\E revents \in SUBSET {"R", "W", "HUP", "ERR"} :
                  "W" \in revents /\ Poll(revents))
    /\ SF_vars(HandleWrite /\ output_buffer_' # output_buffer_)

FairSpec == Spec /\ Fairness

-----------------------------------------------------------------------------
\* The fields keep their types, and unsent data is always listened for: as long as the
\* connection is not closed, a non-empty output_buffer_ has the write event enabled
\* (else send_in_loop's data would wait for ever).
TypeOK ==
    /\ state_ \in {"kConnecting", "kConnected", "kDisconnecting", "kDisconnected"}
    /\ reading_ \in BOOLEAN
    /\ ch \in ChannelType
    /\ batch \in 0 .. Len(queue)
    /\ held \subseteq Users
    /\ peer \in {"open", "fin", "reset", "closed"}
    /\ state_ # "kDisconnected" => (output_buffer_ # <<>> <=> is_write_event(ch))

\* No CHECK or DCHECK of TcpConnection, Channel::remove or remove_connection_in_loop
\* fails (handle_close asserts that state_ is kConnected or kDisconnecting).
NoCheckFails == aborted = "no"

\* Users send and close; start_read, stop_read and ~TcpServer are not in play.
Plain == use.calls \subseteq Writing /\ ~use.server_dies

\* In plain use none fails, whatever the peer does and whenever users shut down or close.
ChecksHold == Plain => NoCheckFails

\* The user hears of the end of a connection once, and before it is destroyed: a
\* destroyed connection was closed (~TcpConnection's DCHECK), its channel had been
\* removed from the poller (~Channel's), and close_cb_ had been called exactly once.
DestroyedClean == Plain =>
    /\ closes \leq 1
    /\ ~Alive => state_ = "kDisconnected" /\ ch.status = "Init" /\ closes = 1

\* The units of messages.
Twice(s) == [i \in 1 .. 2 * Len(s) |-> s[(i + 1) \div 2]]

\* Bytes leave whole and in order: what is on the wire and in output_buffer_ is the
\* messages in the order send_in_loop took them, each once, and that order is each caller's
\* own: what a caller sent before a message that left has left before it.
SentInOrder ==
    /\ wire \o output_buffer_ = Twice(handled)
    /\ IsInjective(handled)
    /\ \A t \in DOMAIN accepted : \A i, j \in DOMAIN accepted[t], p \in DOMAIN handled :
          (i < j /\ accepted[t][j] = handled[p]) => \E q \in 1 .. p - 1 : accepted[t][i] = handled[q]

\* "After the output buffer is sent, then handling shutdown" (TcpConnection.h): our FIN
\* goes out only when nothing is left in the buffer, and nothing enters it afterwards.
\* (handle_close gives up what is buffered, when the peer closes first.)
ShutdownAfterBuffer ==
    (wr_shut /\ state_ # "kDisconnected") => output_buffer_ = <<>>

\* The same, read by a caller: what it had sent before it called shutdown() is on the
\* wire before our FIN, as long as the peer takes it.
ShutdownAfterSends ==
    (wr_shut /\ peer \in {"open", "fin"}) => owed \subseteq Range(wire)

\* A shutdown or a close comes to its end: our FIN is sent or the connection is closed.
ShutdownEnds == (state_ = "kDisconnecting") ~> (wr_shut \/ state_ = "kDisconnected")

\* A closed connection is taken out of the server's map and the poller.
ClosedIsRemoved == (state_ = "kDisconnected") ~> (~in_map /\ ch.status = "Init")

\* In every order of calls, handlers, functors and peer events: the fields agree, no
\* assertion of the code fails, and a connection goes away closed and unregistered.
ConnectionClean == TypeOK /\ ChecksHold /\ DestroyedClean
=============================================================================
