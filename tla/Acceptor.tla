------------------------------- MODULE Acceptor -------------------------------
(***************************************************************************)
(* The listening socket of a server (src/Acceptor.cc, with the functions   *)
(* of src/SocketsUtil.cc, src/SocketFD.cc and src/SelectableFD.cc it uses) *)
(* in a process whose table of descriptors is bounded.  Every step is one  *)
(* system call, because the other threads of the process take and give     *)
(* back descriptors between two of them.                                   *)
(*                                                                         *)
(* Descriptors are counted, not numbered: what matters is whether there is *)
(* a free one.                                                             *)
(***************************************************************************)
EXTENDS Integers, Sequences, FiniteSets

CONSTANTS Peers,
          MaxFiles,     \* the descriptors the process may have (RLIMIT_NOFILE)
          MaxBorrows,   \* bound: descriptors the rest of the program takes, in all
          MaxFaults     \* bound: calls that fail although the table has room

ASSUME AcceptorAssumption ==
    IsFiniteSet(Peers) /\ {MaxFiles, MaxBorrows, MaxFaults} \subseteq Nat

VARIABLES alone,        \* the program has one thread, so nobody comes between two steps
          has_cb,       \* new_connect_cb_ is set
          stage,        \* where the Acceptor and its handle_read are
          listen_fd,    \* listen_socket_ is open
          idle_fd_,     \* idle_fd_ is a descriptor, not -1
          reserved,     \* history: the constructor could open idle_fd_
          backlog,      \* the kernel's queue of clients to accept
          served,       \* the clients whose connection the server has
          refused,      \* those closed without one
          borrowed,     \* descriptors of the rest of the program
          borrows, faults,
          mishap,       \* history: the second accept or the second open was one of them
          fatal         \* the check or the LOG(FATAL) that ended the process

avars == <<alone, has_cb, stage, listen_fd, idle_fd_, reserved, backlog, served, refused,
           borrowed, borrows, faults, mishap, fatal>>

AcceptorInit ==
    /\ alone \in BOOLEAN /\ has_cb \in BOOLEAN /\ stage = "none"
    /\ listen_fd = FALSE /\ idle_fd_ = FALSE /\ reserved = FALSE
    /\ backlog = <<>> /\ served = {} /\ refused = {}
    /\ borrowed = 0 /\ borrows = 0 /\ faults = 0 /\ mishap = FALSE /\ fatal = "no"

One(open) == IF open THEN 1 ELSE 0
InUse == One(listen_fd) + One(idle_fd_) + borrowed + Cardinality(served)
HasRoom == InUse < MaxFiles

\* A call that makes a descriptor may do so if there is room, and may fail even then: the
\* table of the system is full, there is no memory, the client is gone, ...
Gets(ok) ==
    /\ ok => HasRoom
    /\ IF ok = HasRoom THEN UNCHANGED faults ELSE faults < MaxFaults /\ faults' = faults + 1

\* How a step of the acceptor ends: at s, or with the process aborted by a check.
Proceed(s) == stage' = s /\ fatal' = fatal
AcceptorCheck(holds, what, s) ==
    \/ holds /\ Proceed(s)
    \/ ~holds /\ fatal' = what /\ stage' = "dead"
settings == <<alone, has_cb, reserved>>
program == <<borrowed, borrows>>
failures == <<faults, mishap>>

-----------------------------------------------------------------------------
(* Construction, listening, destruction.                                   *)

\* The constructor of SocketFD: ::socket, which the CHECK of the constructor wants.
NewSocket ==
    /\ stage = "none"
    /\ \E ok \in BOOLEAN : Gets(ok) /\ AcceptorCheck(ok, "SocketFD", "socket") /\ listen_fd' = ok
    /\ UNCHANGED <<settings, idle_fd_, backlog, served, refused, program, mishap>>

\* idle_fd_ is opened, the options are set and the address is bound; that ::open or
\* ::bind failed shows nowhere but in the log.
Construct ==
    /\ stage = "socket"
    /\ \E ok \in BOOLEAN : Gets(ok) /\ idle_fd_' = ok /\ reserved' = ok
    /\ Proceed("bound")
    /\ UNCHANGED <<alone, has_cb, listen_fd, backlog, served, refused, program, mishap>>

\* Acceptor::listen.
Listen ==
    /\ stage = "bound" /\ Proceed("polling")
    /\ UNCHANGED <<settings, listen_fd, idle_fd_, backlog, served, refused, program, failures>>

\* ~Acceptor: the channel leaves the poller and the socket is closed, which resets the
\* clients in the backlog.  idle_fd_ is not closed: nobody owns it any more.
DestroyAcceptor ==
    /\ stage \in {"bound", "polling"} /\ Proceed("destroyed")
    /\ listen_fd' = FALSE
    /\ refused' = refused \cup {backlog[i] : i \in DOMAIN backlog} /\ backlog' = <<>>
    /\ UNCHANGED <<settings, idle_fd_, served, program, failures>>

-----------------------------------------------------------------------------
(* handle_read.                                                            *)

\* sockets::accept sets errno for an expected failure and ends the process for any
\* other: a full table of the system (ENFILE), no memory (ENOMEM, ENOBUFS).
ExpectedFailures == {"EINTR", "EAGAIN", "EPERM", "EPROTO", "ECONNABORTED"}
FatalFailures == {"ENFILE", "ENOMEM", "ENOBUFS"}
Failures == ExpectedFailures \cup FatalFailures

\* ::accept4 fails for another reason than a full table; ECONNABORTED and EPROTO take the
\* client out of the queue.
AcceptFails(errno) ==
    /\ stage = "polling" /\ backlog # <<>> /\ HasRoom /\ faults < MaxFaults
    /\ faults' = faults + 1
    /\ AcceptorCheck(errno \in ExpectedFailures, "accept", "polling")
    /\ IF errno \in {"ECONNABORTED", "EPROTO"}
       THEN backlog' = Tail(backlog) /\ refused' = refused \cup {Head(backlog)}
       ELSE UNCHANGED <<backlog, refused>>
    /\ UNCHANGED <<settings, listen_fd, idle_fd_, served, program, mishap>>

\* ::accept4 returns a socket, and the callback takes it over; without one the
\* SelectableFDPtr closes it at once.
Accept ==
    /\ stage = "polling" /\ backlog # <<>> /\ HasRoom
    /\ backlog' = Tail(backlog)
    /\ IF has_cb THEN served' = served \cup {Head(backlog)} /\ UNCHANGED refused
       ELSE refused' = refused \cup {Head(backlog)} /\ UNCHANGED served
    /\ Proceed("polling")
    /\ UNCHANGED <<settings, listen_fd, idle_fd_, program, failures>>

MutantNoIdle ==
    /\ stage = "polling" /\ backlog # <<>> /\ ~HasRoom
    /\ Proceed("polling")
    /\ UNCHANGED <<settings, listen_fd, idle_fd_, backlog, served, refused, program, failures>>

\* ::accept4 finds the table full: EMFILE.
AcceptFull ==
    /\ stage = "polling" /\ backlog # <<>> /\ ~HasRoom
    /\ Proceed("close_idle")
    /\ UNCHANGED <<settings, listen_fd, idle_fd_, backlog, served, refused, program, failures>>

\* DPCHECK(::close(idle_fd_) == 0).
CloseIdle ==
    /\ stage = "close_idle"
    /\ AcceptorCheck(idle_fd_, "close_idle", "accept_idle")
    /\ idle_fd_' = FALSE
    /\ UNCHANGED <<settings, listen_fd, backlog, served, refused, program, failures>>

\* DPCHECK(::close(::accept(...)) == 0): the client is taken from the queue and hung up
\* on, if accept gets a descriptor.  With any errno there is none to close.
AcceptIdle ==
    /\ stage = "accept_idle"
    /\ \E ok \in BOOLEAN, errno \in Failures :
        /\ Gets(ok) /\ AcceptorCheck(ok, "accept_idle", "reopen")
        /\ mishap' = (mishap \/ ok # HasRoom)
        /\ IF ok \/ (HasRoom /\ errno \in {"ECONNABORTED", "EPROTO"})
           THEN backlog' = Tail(backlog) /\ refused' = refused \cup {Head(backlog)}
           ELSE UNCHANGED <<backlog, refused>>
    /\ UNCHANGED <<settings, listen_fd, idle_fd_, served, program>>

MutantIdleNotReopened ==
    /\ stage = "reopen" /\ Proceed("polling")
    /\ UNCHANGED <<settings, listen_fd, idle_fd_, backlog, served, refused, program, failures>>

\* Whether ::open succeeded is not looked at.
ReopenIdle ==
    /\ stage = "reopen" /\ Proceed("polling")
    /\ \E ok \in BOOLEAN : Gets(ok) /\ idle_fd_' = ok /\ mishap' = (mishap \/ ok # HasRoom)
    /\ UNCHANGED <<settings, listen_fd, backlog, served, refused, program>>

-----------------------------------------------------------------------------
(* The rest of the world.                                                  *)

\* Code of the program other than the acceptor can run here.
Elsewhere == fatal = "no" /\ (alone => stage \in {"none", "bound", "polling", "destroyed"})

Borrow ==
    /\ Elsewhere /\ HasRoom /\ borrows < MaxBorrows
    /\ borrowed' = borrowed + 1 /\ borrows' = borrows + 1
    /\ UNCHANGED <<settings, stage, listen_fd, idle_fd_, backlog, served, refused, failures, fatal>>

GiveBack ==
    /\ Elsewhere /\ borrowed > 0
    /\ borrowed' = borrowed - 1
    /\ UNCHANGED <<settings, stage, listen_fd, idle_fd_, backlog, served, refused, borrows,
                   failures, fatal>>

\* A connection ends: ~SelectableFD closes it.
Hangup(c) ==
    /\ Elsewhere /\ c \in served
    /\ served' = served \ {c} /\ refused' = refused \cup {c}
    /\ UNCHANGED <<settings, stage, listen_fd, idle_fd_, backlog, program, failures, fatal>>

PeerConnects(c) ==
    /\ stage \in {"polling", "close_idle", "accept_idle", "reopen"}
    /\ c \notin served \cup refused \cup {backlog[i] : i \in DOMAIN backlog}
    /\ backlog' = Append(backlog, c)
    /\ UNCHANGED <<settings, stage, listen_fd, idle_fd_, served, refused, program, failures, fatal>>

AcceptSteps == Accept \/ AcceptFull \/ CloseIdle \/ AcceptIdle \/ ReopenIdle

AcceptorNext ==
    \/ NewSocket \/ Construct \/ Listen \/ DestroyAcceptor
    \/ \E errno \in Failures : AcceptFails(errno)
    \/ AcceptSteps
    \/ Borrow \/ GiveBack
    \/ \E c \in Peers : Hangup(c) \/ PeerConnects(c)

\* The loop calls handle_read as long as the socket is readable.
AcceptorFairness == WF_avars(AcceptSteps)

AcceptorSpec == AcceptorInit /\ [][AcceptorNext]_avars /\ AcceptorFairness

-----------------------------------------------------------------------------
\* handle_read, on a program of one thread: if the constructor could open idle_fd_, every
\* time the descriptors run out the acceptor hangs up on one client and has idle_fd_ back
\* for the next; no check of it fails, however often that happens, unless the accept or
\* the open that follows close(idle_fd_) fails for another reason than a full table.
IdleComesBack ==
    (alone /\ reserved /\ ~mishap) => /\ fatal \notin {"close_idle", "accept_idle"}
                                      /\ stage = "polling" => idle_fd_

\* A client in the backlog is accepted or hung up on: that there is no descriptor left
\* does not make it wait, nor the loop spin on the readable socket.
BacklogServed ==
    \A c \in Peers : (\E i \in DOMAIN backlog : backlog[i] = c) ~>
        (c \in served \cup refused \/ fatal # "no")

\* Running out of descriptors costs single clients their connection, never the acceptor
\* its work.
AcceptorServes == []IdleComesBack /\ BacklogServed
===============================================================================
