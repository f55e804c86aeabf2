------------------------------ MODULE Protorpc ------------------------------
(***************************************************************************)
(* Protobuf RPC: ProtorpcServer (include/protorpc/ProtorpcServer.h) with   *)
(* its one ProtorpcChannel for all connections, and clients with a         *)
(* ProtorpcChannel and one connection each, as examples/protobuf/rpc has   *)
(* them.  The codec below is the ordered stream of messages that module    *)
(* Streams checks it to be.                                                *)
(***************************************************************************)
EXTENDS Integers, Sequences, FiniteSets

CONSTANTS Clients,
          Methods,      \* what clients call
          Async,        \* the methods whose service runs done later
          Faulty,       \* the calls the server refuses: NO_SERVICE, NO_METHOD, INVALID_REQUEST
          MaxCalls,     \* the calls a client makes
          NoConn        \* conn_ is null

ASSUME RpcAssumption == NoConn \notin Clients

VARIABLES link,         \* each client's connection: "none", "up" or "down"
          peer,         \* the same at the server: "none", "open" or "removed"
          id_,          \* each client channel's counter
          outstandings_, \* each client channel's calls without a response
          answers,      \* what done was run with, by call
          conn_,        \* the server channel's connection
          running,      \* the calls the service has not answered, with their client
          up, down,     \* the messages on their way to the server and back
          aborted,      \* a CHECK failed in the server
          overlapped,   \* history: the server had two connections at once
          late          \* history: a service answered when the caller was gone

rvars == <<link, peer, id_, outstandings_, answers, conn_, running, up, down, aborted,
           overlapped, late>>

RpcInit ==
    /\ link = [c \in Clients |-> "none"] /\ peer = [c \in Clients |-> "none"]
    /\ id_ = [c \in Clients |-> 0] /\ outstandings_ = [c \in Clients |-> {}]
    /\ answers = [c \in Clients |-> {}]
    /\ conn_ = NoConn /\ running = {}
    /\ up = [c \in Clients |-> <<>>] /\ down = [c \in Clients |-> <<>>]
    /\ aborted = FALSE /\ overlapped = FALSE /\ late = FALSE

-----------------------------------------------------------------------------
(* The clients.                                                            *)

\* The client's connect callback: attach_connection.
Connect(c) ==
    /\ link[c] = "none"
    /\ link' = [link EXCEPT ![c] = "up"]
    /\ UNCHANGED <<peer, id_, outstandings_, answers, conn_, running, up, down, aborted,
                   overlapped, late>>

\* ProtorpcChannel::CallMethod, with the channel attached.
CallMethod(c) ==
    \E m \in Methods :
        /\ link[c] = "up" /\ id_[c] < MaxCalls
        /\ id_' = [id_ EXCEPT ![c] = @ + 1]
        /\ outstandings_' = [outstandings_ EXCEPT ![c] = @ \cup {id_'[c]}]
        /\ up' = [up EXCEPT ![c] = Append(@, [id |-> id_'[c], method |-> m])]
        /\ UNCHANGED <<link, peer, answers, conn_, running, down, aborted, overlapped, late>>

\* ProtorpcChannel::response: an id that waits is erased and its done runs
\* with whatever the message holds; the error code is not looked at.
Response(c) ==
    LET mesg == Head(down[c])
    IN /\ link[c] = "up" /\ down[c] # <<>>
       /\ down' = [down EXCEPT ![c] = Tail(@)]
       /\ outstandings_' = [outstandings_ EXCEPT ![c] = @ \ {mesg.id}]
       /\ answers' = IF mesg.id \in outstandings_[c]
                     THEN [answers EXCEPT ![c] = @ \cup {mesg}] ELSE answers
       /\ UNCHANGED <<link, peer, id_, conn_, running, up, aborted, overlapped, late>>

\* The client disconnects or dies: detach_connection; what it has not read is lost.
Disconnect(c) ==
    /\ link[c] = "up"
    /\ link' = [link EXCEPT ![c] = "down"]
    /\ down' = [down EXCEPT ![c] = <<>>]
    /\ UNCHANGED <<peer, id_, outstandings_, answers, conn_, running, up, aborted,
                   overlapped, late>>

-----------------------------------------------------------------------------
(* The server.  An aborted server takes no step.                           *)

Open == {c \in Clients : peer[c] = "open"}

MutantNewForgetsAttach(c) ==
    /\ ~aborted /\ link[c] # "none" /\ peer[c] = "none"
    /\ peer' = [peer EXCEPT ![c] = "open"]
    /\ overlapped' = (overlapped \/ Open # {})
    /\ UNCHANGED <<link, id_, outstandings_, answers, conn_, running, up, down, aborted, late>>

\* ProtorpcServer::new_connection: attach_connection replaces the connection.
NewConnection(c) ==
    /\ ~aborted /\ link[c] # "none" /\ peer[c] = "none"
    /\ peer' = [peer EXCEPT ![c] = "open"]
    /\ conn_' = c
    /\ overlapped' = (overlapped \/ Open # {})
    /\ UNCHANGED <<link, id_, outstandings_, answers, running, up, down, aborted, late>>

\* codec_.send(conn_, mesg): to the connection of the moment.
Sent(mesg) == IF link[conn_] = "up" THEN [down EXCEPT ![conn_] = Append(@, mesg)] ELSE down

MutantAnswerFirst(c, id) == [id |-> 1, for |-> <<c, id>>]

\* A response and, as history, the call it answers.
Answer(c, id) == [id |-> id, for |-> <<c, id>>]
Refusal(id) == [id |-> id, for |-> <<>>]

MutantRequestDropsRefused(c, mesg) ==
    IF mesg.method \in Faulty THEN UNCHANGED <<down, running>>
    ELSE IF mesg.method \in Async
         THEN running' = running \cup {Answer(c, mesg.id)} /\ UNCHANGED down
    ELSE down' = Sent(Answer(c, mesg.id)) /\ UNCHANGED running

\* request: a refused call is answered with its error code and no response;
\* the service of any other runs done, which is finish, at once or later.
Request(c, mesg) ==
    IF mesg.method \in Faulty THEN down' = Sent(Refusal(mesg.id)) /\ UNCHANGED running
    ELSE IF mesg.method \in Async
         THEN running' = running \cup {Answer(c, mesg.id)} /\ UNCHANGED down
    ELSE down' = Sent(Answer(c, mesg.id)) /\ UNCHANGED running

\* ProtorpcChannel::recv and dispatch: CHECK(conn == conn_), then request.
Recv(c) ==
    /\ ~aborted /\ peer[c] = "open" /\ up[c] # <<>>
    /\ up' = [up EXCEPT ![c] = Tail(@)]
    /\ IF conn_ # c THEN aborted' = TRUE /\ UNCHANGED <<down, running>>
       ELSE Request(c, Head(up[c])) /\ UNCHANGED aborted
    /\ UNCHANGED <<link, peer, id_, outstandings_, answers, conn_, overlapped, late>>

\* finish of a call whose service answers later: CHECK(conn_ && res).  The
\* closure knows the call's id and not its connection.
Finish ==
    \E r \in running :
        /\ ~aborted
        /\ running' = running \ {r}
        /\ late' = (late \/ peer[r.for[1]] # "open")
        /\ IF conn_ = NoConn THEN aborted' = TRUE /\ UNCHANGED down
           ELSE down' = Sent(r) /\ UNCHANGED aborted
        /\ UNCHANGED <<link, peer, id_, outstandings_, answers, conn_, up, overlapped>>

\* ProtorpcServer::remove_connection, after the last byte was read:
\* detach_connection resets whichever connection the channel has.
RemoveConnection(c) ==
    /\ ~aborted /\ peer[c] = "open" /\ link[c] = "down" /\ up[c] = <<>>
    /\ peer' = [peer EXCEPT ![c] = "removed"]
    /\ aborted' = (conn_ = NoConn)
    /\ conn_' = NoConn
    /\ UNCHANGED <<link, id_, outstandings_, answers, running, up, down, overlapped, late>>

RpcStep(c) == Connect(c) \/ CallMethod(c) \/ Response(c) \/ Disconnect(c)
              \/ NewConnection(c) \/ Recv(c) \/ RemoveConnection(c)

RpcNext == Finish \/ \E c \in Clients : RpcStep(c)

\* The loops of both ends keep handling what is ready and the service
\* answers every call in the end; nobody has to connect, call or disconnect.
RpcFairness == /\ WF_rvars(Finish)
               /\ \A c \in Clients : WF_rvars(NewConnection(c)) /\ WF_rvars(Recv(c))
                                     /\ WF_rvars(RemoveConnection(c)) /\ WF_rvars(Response(c))

RpcSpec == RpcInit /\ [][RpcNext]_rvars /\ RpcFairness

-----------------------------------------------------------------------------
\* The server's CHECKs on conn_ hold as long as its connections come one
\* after the other and no service answers after its caller has gone: only
\* then does one channel serve them all.
RpcChecksHold == aborted => overlapped \/ late

\* done is never run with another call's answer: the ids of two clients are
\* the same numbers, and finish looks at the id only.
AnswersMatch ==
    ~overlapped /\ ~late =>
        \A c \in Clients : \A a \in answers[c] : a.for \in {<<c, a.id>>, <<>>}

\* A call on a connection that stays up is answered, refused ones too.
CallEnds ==
    \A c \in Clients : \A i \in 1 .. MaxCalls :
        i \in outstandings_[c] ~>
            (i \notin outstandings_[c] \/ link[c] = "down" \/ aborted \/ overlapped \/ late)

\* One channel for all connections is enough for clients that come one after the other.
RpcAnswers == RpcChecksHold /\ AnswersMatch
=============================================================================
