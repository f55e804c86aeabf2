------------------------------ MODULE TcpServer ------------------------------
(***************************************************************************)
(* The TcpServer with its pool of worker loops (src/TcpServer.cc,          *)
(* src/EventLoopPool.cc, src/EventLoopThread.cc): the base loop accepts    *)
(* connections and hands each to a worker; a worker that closes one asks   *)
(* the base loop to forget it, which asks the worker to destroy it; and    *)
(* ~TcpServer destroys what is left and then ends the workers.             *)
(*                                                                         *)
(* Every loop is the serial executor that RefinementProofs shows EventLoop *)
(* to be: a queue, and the batch it has swapped out.  A connection is its  *)
(* state_ and whether its channel is registered, with its events enabled   *)
(* while it is kConnected or kDisconnecting: module TcpConnection has the  *)
(* rest.  The server is held by its user, by weak callbacks only while     *)
(* they run.                                                               *)
(***************************************************************************)
EXTENDS Integers, Sequences, Functions

CONSTANTS Base,         \* owner_loop_
          Pools,        \* the sequences of workers loops_ may be; empty: all is on Base
          NumConns,     \* bound: connections accepted in all
          ServerDies    \* whether the user lets go of the server

Loops == {Base} \cup UNION {Range(w) : w \in Pools}
Conns == 1 .. NumConns                  \* named by next_conn_id_
NoConn == 0

ASSUME ServerAssumption ==
    /\ \A w \in Pools : w \in Seq(Loops \ {Base}) /\ IsInjective(w)
    /\ NumConns \in Nat /\ ServerDies \in BOOLEAN

VARIABLES loops_, next_conn_id_, next_, connections_,
          loop,         \* connection -> its owner_loop_
          state_, registered,
          queue, batch, \* loop -> functors [op, c]
          pc,           \* loop -> where its thread is
          quit_,
          closing,      \* worker -> the connection its remove_connection is called for
          server,       \* alive; orphan: held by running callbacks only; dying; dead
          aborted

map == <<next_conn_id_, next_, connections_>>
conn == <<loop, state_, registered>>
exec == <<loops_, queue, batch, pc, quit_>>
vars == <<map, conn, exec, closing, server, aborted>>

Init ==
    /\ loops_ \in Pools /\ next_conn_id_ = 1 /\ next_ = 0 /\ connections_ = {}
    /\ loop = [c \in Conns |-> Base]
    /\ state_ = [c \in Conns |-> "none"] /\ registered = [c \in Conns |-> FALSE]
    /\ queue = [l \in Loops |-> <<>>] /\ batch = [l \in Loops |-> <<>>]
    /\ pc = [l \in Loops |-> "events"] /\ quit_ = [l \in Loops |-> FALSE]
    /\ closing = [l \in Loops |-> NoConn]
    /\ server = "alive" /\ aborted = "no"

F(op, c) == [op |-> op, c |-> c]
Post(q, l, op, c) == [q EXCEPT ![l] = Append(@, F(op, c))]
Alive == server \in {"alive", "orphan"}
Running(l) == aborted = "no" /\ pc[l] \in {"events", "functors"} /\ closing[l] = NoConn

-----------------------------------------------------------------------------
(* The connection, as far as the server can see it.                        *)

connect_established(c) ==
    /\ aborted' = IF state_[c] = "kConnecting" THEN aborted ELSE "connect_established"
    /\ state_' = [state_ EXCEPT ![c] = "kConnected"]
    /\ registered' = [registered EXCEPT ![c] = TRUE]

MutantDestroyedKeepsState(c) ==
    /\ state_' = state_
    /\ registered' = [registered EXCEPT ![c] = FALSE]
    /\ aborted' = aborted

\* The events are disabled only in kConnected; Channel::remove wants none enabled, which
\* handle_close has seen to in kDisconnected, and nobody in kDisconnecting.
connect_destroyed(c) ==
    /\ state_' = [state_ EXCEPT ![c] = IF @ = "kConnected" THEN "kDisconnected" ELSE @]
    /\ registered' = [registered EXCEPT ![c] = (state_[c] = "kDisconnecting")]
    /\ aborted' = IF state_[c] = "kDisconnecting" THEN "Channel::remove" ELSE aborted

\* The user, on any thread: shutdown, force_close or force_close_with_delay.
shutdown(c) ==
    /\ state_[c] = "kConnected" /\ aborted = "no"
    /\ state_' = [state_ EXCEPT ![c] = "kDisconnecting"]
    /\ UNCHANGED <<map, loop, registered, exec, closing, server, aborted>>

MutantRemoveNoDestroy(c) ==
    /\ aborted' = IF c \in connections_ THEN aborted ELSE "remove_connection_in_loop"
    /\ connections_' = connections_ \ {c}
    /\ queue' = queue

MutantRemoveNoErase(c) ==
    /\ aborted' = IF c \in connections_ THEN aborted ELSE "remove_connection_in_loop"
    /\ connections_' = connections_
    /\ queue' = Post(queue, loop[c], "destroyed", c)

\* remove_connection_in_loop, on Base.
remove_connection_in_loop(c) ==
    /\ aborted' = IF c \in connections_ THEN aborted ELSE "remove_connection_in_loop"
    /\ connections_' = connections_ \ {c}
    /\ queue' = Post(queue, loop[c], "destroyed", c)

-----------------------------------------------------------------------------
(* Base: accepting.                                                        *)

\* EventLoopPool::get_next_loop: the loop, and the next value of next_.
get_next_loop(n) == IF loops_ = <<>> THEN <<Base, 0>>
                    ELSE <<loops_[n + 1], IF n + 1 >= Len(loops_) THEN 0 ELSE n + 1>>

MutantNotStored ==
    LET c == next_conn_id_  l == get_next_loop(next_)[1]
    IN /\ Running(Base) /\ Alive /\ c \in Conns /\ pc[Base] = "events"
       /\ next_conn_id_' = c + 1 /\ next_' = get_next_loop(next_)[2]
       /\ loop' = [loop EXCEPT ![c] = l]
       /\ state_' = [state_ EXCEPT ![c] = "kConnected"]
       /\ registered' = [registered EXCEPT ![c] = TRUE]
       /\ queue' = IF l = Base THEN queue ELSE Post(queue, l, "established", c)
       /\ UNCHANGED <<loops_, connections_, batch, pc, quit_, closing, server, aborted>>

\* new_connection, called by the Acceptor for an accepted socket.
new_connection ==
    LET c == next_conn_id_  l == get_next_loop(next_)[1]
    IN /\ Running(Base) /\ Alive /\ c \in Conns /\ pc[Base] = "events"
       /\ next_conn_id_' = c + 1 /\ next_' = get_next_loop(next_)[2]
       /\ loop' = [loop EXCEPT ![c] = l]
       /\ connections_' = connections_ \cup {c}
       /\ IF l = Base
          THEN /\ state_' = [state_ EXCEPT ![c] = "kConnected"]
               /\ registered' = [registered EXCEPT ![c] = TRUE]
               /\ UNCHANGED queue
          ELSE /\ state_' = [state_ EXCEPT ![c] = "kConnecting"]
               /\ queue' = Post(queue, l, "established", c)
               /\ UNCHANGED registered
       /\ UNCHANGED <<loops_, batch, pc, quit_, closing, server, aborted>>

-----------------------------------------------------------------------------
(* Every loop.                                                             *)

\* The peer closes, or force_close_in_loop is one of the functors: handle_close on the
\* connection's loop, up to finish_cb_.  On Base remove_connection runs to its end; on a
\* worker it has locked the weak pointer to the server and is about to queue.
handle_close(c) ==
    LET l == loop[c]
    IN /\ Running(l) /\ registered[c]
       /\ state_[c] = "kDisconnecting" \/ (pc[l] = "events" /\ state_[c] = "kConnected")
       /\ state_' = [state_ EXCEPT ![c] = "kDisconnected"]
       /\ IF l = Base /\ Alive
          THEN remove_connection_in_loop(c) /\ UNCHANGED closing
          ELSE /\ closing' = [closing EXCEPT ![l] = IF Alive THEN c ELSE NoConn]
               /\ UNCHANGED <<connections_, queue, aborted>>
       /\ UNCHANGED <<loops_, next_conn_id_, next_, loop, registered, batch, pc, quit_, server>>

\* remove_connection queues to Base and gives its hold on the server back; the last
\* one runs ~TcpServer, whose first act is to check the thread.
remove_connection(l) ==
    /\ closing[l] # NoConn /\ aborted = "no"
    /\ queue' = Post(queue, Base, "remove", closing[l])
    /\ closing' = [closing EXCEPT ![l] = NoConn]
    /\ aborted' = IF server = "orphan" /\ \A k \in Loops \ {l} : closing[k] = NoConn
                  THEN "~TcpServer" ELSE aborted
    /\ UNCHANGED <<loops_, map, conn, batch, pc, quit_, server>>

\* The events are handled (or poll() timed out): swap the functors.
Swap(l) ==
    /\ Running(l) /\ pc[l] = "events"
    /\ batch' = [batch EXCEPT ![l] = queue[l]]
    /\ queue' = [queue EXCEPT ![l] = <<>>]
    /\ pc' = [pc EXCEPT ![l] = "functors"]
    /\ UNCHANGED <<loops_, map, conn, quit_, closing, server, aborted>>

RunFunctor(l) ==
    /\ Running(l) /\ batch[l] # <<>>
    /\ batch' = [batch EXCEPT ![l] = Tail(@)]
    /\ LET f == Head(batch[l])
       IN \/ /\ f.op = "established" /\ connect_established(f.c)
             /\ UNCHANGED <<connections_, queue>>
          \/ /\ f.op = "destroyed" /\ connect_destroyed(f.c)
             /\ UNCHANGED <<connections_, queue>>
          \/ /\ f.op = "remove" /\ Alive /\ remove_connection_in_loop(f.c)
             /\ UNCHANGED <<state_, registered>>
          \/ /\ f.op = "remove" /\ ~Alive  \* the weak pointer has expired
             /\ UNCHANGED <<state_, registered, connections_, queue, aborted>>
    /\ UNCHANGED <<loops_, next_conn_id_, next_, loop, pc, quit_, closing, server>>

\* The next iteration, or, if (quit_), the end of the thread: its EventLoop goes, with
\* the functors in its queue.
EndIteration(l) ==
    /\ Running(l) /\ pc[l] = "functors" /\ batch[l] = <<>>
    /\ pc' = [pc EXCEPT ![l] = IF quit_[l] THEN "exited" ELSE "events"]
    /\ queue' = [queue EXCEPT ![l] = IF quit_[l] THEN <<>> ELSE @]
    /\ UNCHANGED <<loops_, map, conn, batch, quit_, closing, server, aborted>>

-----------------------------------------------------------------------------
(* The end of the server.                                                  *)

\* The user's last reference goes, in a functor on Base: ~TcpServer runs here, unless
\* a worker's remove_connection holds the server at this moment.
DropServer ==
    /\ ServerDies /\ Running(Base) /\ pc[Base] = "functors" /\ server = "alive"
    /\ IF \E l \in Loops : closing[l] # NoConn
       THEN server' = "orphan" /\ UNCHANGED pc
       ELSE server' = "dying" /\ pc' = [pc EXCEPT ![Base] = "dtor"]
    /\ UNCHANGED <<loops_, map, conn, queue, batch, quit_, closing, aborted>>

\* ~TcpServer, one round of its loop over connections_.
DestroyNext ==
    /\ pc[Base] = "dtor" /\ connections_ # {} /\ aborted = "no"
    /\ LET c == CHOOSE x \in connections_ : \A y \in connections_ : x <= y
       IN /\ connections_' = connections_ \ {c}
          /\ IF loop[c] = Base THEN connect_destroyed(c) /\ UNCHANGED queue
             ELSE /\ queue' = Post(queue, loop[c], "destroyed", c)
                  /\ UNCHANGED <<state_, registered, aborted>>
    /\ UNCHANGED <<loops_, next_conn_id_, next_, loop, batch, pc, quit_, closing, server>>

MutantQuitFirstOnly ==
    /\ pc[Base] = "dtor" /\ connections_ = {} /\ aborted = "no"
    /\ loops_ # <<>> /\ ~quit_[loops_[1]]
    /\ quit_' = [quit_ EXCEPT ![loops_[1]] = TRUE]
    /\ UNCHANGED <<loops_, map, conn, queue, batch, pc, closing, server, aborted>>

\* ~EventLoopThread of each worker in turn: quit its loop, ...
QuitWorker ==
    /\ pc[Base] = "dtor" /\ connections_ = {} /\ aborted = "no"
    /\ \E i \in DOMAIN loops_ :
        /\ ~quit_[loops_[i]]
        /\ \A j \in 1 .. i - 1 : pc[loops_[j]] = "exited"
        /\ quit_' = [quit_ EXCEPT ![loops_[i]] = TRUE]
    /\ UNCHANGED <<loops_, map, conn, queue, batch, pc, closing, server, aborted>>

\* ... and join it; when all are gone the server is, and Base goes on.
Dead ==
    /\ pc[Base] = "dtor" /\ connections_ = {} /\ aborted = "no"
    /\ \A l \in Range(loops_) : pc[l] = "exited"
    /\ server' = "dead"
    /\ pc' = [pc EXCEPT ![Base] = "functors"]
    /\ UNCHANGED <<loops_, map, conn, queue, batch, quit_, closing, aborted>>

Next ==
    \/ new_connection
    \/ \E c \in Conns : shutdown(c) \/ handle_close(c)
    \/ \E l \in Loops : remove_connection(l) \/ Swap(l) \/ RunFunctor(l) \/ EndIteration(l)
    \/ DropServer \/ DestroyNext \/ QuitWorker \/ Dead

Spec == Init /\ [][Next]_vars

\* Every loop keeps turning: poll() returns at the latest after its timeout.
FairSpec ==
    /\ Spec
    /\ \A l \in Loops : /\ WF_vars(remove_connection(l)) /\ WF_vars(Swap(l))
                        /\ WF_vars(RunFunctor(l)) /\ WF_vars(EndIteration(l))
    /\ WF_vars(DestroyNext) /\ WF_vars(QuitWorker) /\ WF_vars(Dead)

-----------------------------------------------------------------------------
States == {"none", "kConnecting", "kConnected", "kDisconnecting", "kDisconnected"}
Functors == [op : {"established", "destroyed", "remove"}, c : Conns]

\* The fields keep their types.
TypeOK ==
    /\ next_conn_id_ \in 1 .. NumConns + 1 /\ next_ \in Nat
    /\ loops_ # <<>> => next_ < Len(loops_)
    /\ connections_ \subseteq Conns /\ loop \in [Conns -> Loops]
    /\ state_ \in [Conns -> States]
    /\ registered \in [Conns -> BOOLEAN]
    /\ \A l \in Loops : queue[l] \in Seq(Functors) /\ batch[l] \in Seq(Functors)
    /\ quit_ \in [Loops -> BOOLEAN] /\ closing \in [Loops -> Conns \cup {NoConn}]

\* ~TcpServer has workers to end: it may meet them anywhere.
EndsWorkers == server # "alive" /\ loops_ # <<>>

\* No CHECK or DCHECK of the server or its connections fails as long as the server is
\* alive.  When one without workers is destroyed only Channel::remove's can: that of a
\* connection which is being shut down as ~TcpServer gets to it.
ChecksHold ==
    (~EndsWorkers /\ aborted # "no") =>
        /\ aborted = "Channel::remove" /\ server = "dying"
        /\ \E c \in Conns \ connections_ : state_[c] = "kDisconnecting"

\* remove_connection is "Thread safe, for Connection": it never ends with the server's
\* destructor on a thread that is not the owner's.
DiesOnOwnThread == aborted # "~TcpServer"

Referenced(c) ==
    \/ c \in connections_ \/ \E l \in Loops : closing[l] = c
    \/ \E l \in Loops : \E f \in Range(queue[l]) \cup Range(batch[l]) : f.c = c

\* A connection nobody refers to any more, which is then destroyed, is disconnected and
\* its channel is out of the poller: what ~TcpConnection and ~Channel assert.
ReleasedClean == aborted = "no" =>
    \A c \in Conns : (state_[c] # "none" /\ ~Referenced(c)) =>
        state_[c] = "kDisconnected" /\ ~registered[c]

\* That is so as long as no worker is being ended.
DestroyedClean == ~EndsWorkers => ReleasedClean

\* The map has every connection that is not closed, and each closed one that is still
\* in the map has the request that takes it out on its way.
MapComplete ==
    server = "alive" =>
        \A c \in Conns :
            /\ state_[c] \in {"kConnecting", "kConnected", "kDisconnecting"} => c \in connections_
            /\ (c \in connections_ /\ state_[c] = "kDisconnected") =>
                \/ \E l \in Loops : closing[l] = c
                \/ F("remove", c) \in Range(queue[Base]) \cup Range(batch[Base])

\* A closed connection is taken out of the map and its channel out of the poller, unless
\* the process has been aborted before.
ClosedIsDestroyed ==
    \A c \in Conns : (state_[c] = "kDisconnected") ~>
        ((~Referenced(c) /\ ~registered[c]) \/ EndsWorkers \/ aborted # "no")

\* The destructor ends, the workers joined.
ServerEnds == (server = "dying") ~> (server = "dead" \/ aborted # "no")

\* In every order of the loops' steps and of shutdowns from any thread: the fields agree,
\* no assertion of the code fails but the one that meets a connection being shut down, and
\* connections go away closed and unregistered.
ServerClean == TypeOK /\ ChecksHold /\ DestroyedClean

\* What ends comes to its end across the loops: connections, and the server itself.
ServerFinishes == ClosedIsDestroyed /\ ServerEnds
==============================================================================
