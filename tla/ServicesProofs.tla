--------------------------- MODULE ServicesProofs ---------------------------
(***************************************************************************)
(* Theorems about parts in which threads or processes take turns: the checks*)
(* of BlockingQueue, MutexLock and ConditionVariable hold for any threads, *)
(* any max_size_ and any number of calls; an RPC is answered to its caller,*)
(* for any clients and calls, while connections come one after the other;  *)
(* and an EventLoopPool of any size hands out every loop once, running.    *)
(***************************************************************************)
EXTENDS BlockingQueue, Protorpc, EventLoopPool, SequenceTheorems, TLAPS

-----------------------------------------------------------------------------
(* BlockingQueue.                                                          *)

\* The places of a thread that has lock_.
Inside == {"test", "in", "leave"}

\* What the loop of a thread has established when it is past it: the lock keeps it true.
Ready(t) == /\ t \in Pushers => ~full_with_locked
            /\ t \in Poppers => queue_ # <<>>

QueueTypes ==
    /\ max_size_ \in Nat /\ queue_ \in Seq(QueueThreads) /\ unsound \in BOOLEAN
    /\ where \in [QueueThreads -> Inside \cup {"out", "asleep"}]
    /\ lock_ \in [holder : QueueThreads \cup {NoThread},
                  owning_thread_ : QueueThreads \cup {NoThread}, checks : {"hold", "fail"}]

\* The invariant.  It is stronger than QueueChecksHold in what makes it inductive:
\* owning_thread_ shadows the mutex's holder, the holder is the one thread inside, and
\* a thread past its loop has found what it waits for.
QueueInv ==
    /\ QueueTypes
    /\ lock_.owning_thread_ = lock_.holder
    /\ \A t \in QueueThreads : where[t] \in Inside <=> lock_.holder = t
    /\ \A t \in QueueThreads : where[t] = "in" => Ready(t)
    /\ Bounded => Len(queue_) <= max_size_
    /\ QueueChecksHold

\* Taking the lock when it is free, and giving it up when it is held, fail no check and
\* keep the shadow equal to the holder.
LEMMA LockKeepsShadow ==
    ASSUME NEW t \in QueueThreads, QueueTypes, lock_.owning_thread_ = lock_.holder,
           lock_.checks = "hold"
    PROVE  /\ lock_.holder = NoThread =>
                lock(lock_, t) = LockState(t, t, "hold")
           /\ lock_.holder = NoThread =>
                Awake(lock_, t) = LockState(t, t, "hold")
           /\ lock_.holder = t => wait(lock_, t) = MutexLock
           /\ lock_.holder = t => AutoRelease(lock_, t) = MutexLock
<1>1. t # NoThread
  BY QueueAssumption DEF QueueThreads
<1>2. \A h, o, c : /\ LockState(h, o, c).holder = h
                   /\ LockState(h, o, c).owning_thread_ = o
                   /\ LockState(h, o, c).checks = c
  BY DEF LockState
<1>3. lock_ = LockState(lock_.holder, lock_.holder, "hold")
  BY DEF QueueTypes, LockState
<1>4. lock_.holder = NoThread => /\ lock(lock_, t) = LockState(t, t, "hold")
                                /\ Awake(lock_, t) = LockState(t, t, "hold")
  BY <1>1, <1>2, <1>3 DEF lock, Awake, NativeLock, check_unheld_and_mark
<1>5. lock_.holder = t => wait(lock_, t) = MutexLock /\ AutoRelease(lock_, t) = MutexLock
  BY <1>1, <1>2, <1>3
     DEF wait, AutoRelease, unlock, assert_acquired, NativeUnlock, check_held_and_unmark, MutexLock
<1> QED
  BY <1>4, <1>5

\* The queue starts out in the invariant.
LEMMA QueueInvInit == QueueInit => QueueInv
<1> SUFFICES ASSUME QueueInit PROVE QueueInv
  OBVIOUS
<1>0. max_size_ \in Nat /\ queue_ = <<>> /\ unsound = FALSE
  BY QueueAssumption DEF QueueInit
<1>1. QueueTypes
  <2>1. where \in [QueueThreads -> Inside \cup {"out", "asleep"}]
    BY DEF QueueInit
  <2>2. lock_ \in [holder : QueueThreads \cup {NoThread},
                  owning_thread_ : QueueThreads \cup {NoThread}, checks : {"hold", "fail"}]
    BY DEF QueueInit, MutexLock, LockState
  <2>3. queue_ \in Seq(QueueThreads)
    BY <1>0
  <2> QED
    BY <1>0, <2>1, <2>2, <2>3, Zenon DEF QueueTypes
<1>2. \A t \in QueueThreads : t # NoThread
  BY QueueAssumption DEF QueueThreads
<1>3. Bounded => Len(queue_) <= max_size_
  BY <1>0 DEF Bounded
<1> QED
  BY <1>1, <1>2, <1>3 DEF QueueInit, QueueInv, QueueChecksHold, MutexLock, LockState, Inside

\* A step that takes the lock, or leaves the while loop, keeps the invariant.
LEMMA EntryKeepsInv ==
    ASSUME QueueInv, NEW t \in QueueThreads, Enter(t) \/ Reenter(t)
    PROVE  QueueInv'
<1>0. /\ ~Blocks(lock_, t) /\ where[t] \notin Inside
      /\ where' = [where EXCEPT ![t] = "test"]
      /\ lock_' \in {lock(lock_, t), Awake(lock_, t)}
      /\ UNCHANGED <<max_size_, queue_, unsound>>
  BY DEF Enter, Reenter, Step, Inside
<1>1. lock_.holder = NoThread
  BY <1>0 DEF QueueInv, Blocks
<1>2. lock_' = LockState(t, t, "hold")
  BY <1>0, <1>1, LockKeepsShadow DEF QueueInv, QueueChecksHold
<1>3. QueueTypes'
  BY <1>0, <1>2 DEF QueueInv, QueueTypes, Inside, LockState
<1>4. \A u \in QueueThreads : where'[u] \in Inside <=> lock_'.holder = u
  BY <1>0, <1>1, <1>2, QueueAssumption DEF QueueInv, QueueTypes, QueueThreads, Inside, LockState
<1>5. \A u \in QueueThreads : where'[u] = "in" => Ready(u)'
  BY <1>0 DEF QueueInv, QueueTypes, Ready, full_with_locked, Bounded
<1> QED
  BY <1>0, <1>2, <1>3, <1>4, <1>5 DEF QueueInv, QueueChecksHold, Bounded, LockState

\* So does one that gives it up: in wait() or at the end of the call.
LEMMA ExitKeepsInv ==
    ASSUME QueueInv, NEW t \in QueueThreads, Wait(t) \/ Leave(t)
    PROVE  QueueInv'
<1>0. /\ where[t] \in Inside
      /\ where' \in {[where EXCEPT ![t] = "asleep"], [where EXCEPT ![t] = "out"]}
      /\ lock_' \in {wait(lock_, t), AutoRelease(lock_, t)}
      /\ UNCHANGED <<max_size_, queue_, unsound>>
  BY DEF Wait, Leave, Step, Inside
<1>1. lock_.holder = t
  BY <1>0 DEF QueueInv
<1>2. lock_' = MutexLock
  BY <1>0, <1>1, LockKeepsShadow DEF QueueInv, QueueChecksHold
<1>3. QueueTypes'
  BY <1>0, <1>2 DEF QueueInv, QueueTypes, Inside, MutexLock, LockState
<1>4. \A u \in QueueThreads : where'[u] \in Inside <=> lock_'.holder = u
  BY <1>0, <1>1, <1>2, QueueAssumption
     DEF QueueInv, QueueTypes, QueueThreads, Inside, MutexLock, LockState
<1>5. \A u \in QueueThreads : where'[u] = "in" => Ready(u)'
  BY <1>0 DEF QueueInv, QueueTypes, Ready, full_with_locked, Bounded
<1> QED
  BY <1>0, <1>2, <1>3, <1>4, <1>5 DEF QueueInv, QueueChecksHold, Bounded, MutexLock, LockState

\* The test of the loop, and the body of each operation, run by the one thread inside.
LEMMA BodyKeepsInv ==
    ASSUME QueueInv, NEW t \in QueueThreads, Pass(t) \/ push(t) \/ pop(t) \/ capacity(t)
    PROVE  QueueInv'
<1>1. /\ lock_.holder = t
      /\ UNCHANGED <<lock_, max_size_>>
      /\ \A u \in QueueThreads : u # t => where[u] \notin Inside
  BY DEF QueueInv, Pass, push, pop, capacity, Step, Inside
<1>2. ASSUME Pass(t) PROVE QueueInv'
  <2>1. where' = [where EXCEPT ![t] = "in"] /\ UNCHANGED <<queue_, unsound>> /\ Ready(t)
    BY <1>2 DEF Pass, Step, Ready, empty_with_locked
  <2> QED
    BY <1>1, <1>2, <2>1
       DEF QueueInv, QueueTypes, QueueChecksHold, Ready, full_with_locked, Bounded, Inside,
           Pass, Step
<1>3. ASSUME push(t) PROVE QueueInv'
  <2>1. where' = [where EXCEPT ![t] = "leave"] /\ queue_' = Append(queue_, t)
    BY <1>3 DEF push, Step
  <2>2. ~full_with_locked
    BY <1>3 DEF QueueInv, Ready, push, Step
  <2>3. unsound' = FALSE
    BY <1>3, <2>2, Zenon DEF push, QueueInv, QueueChecksHold
  <2>4. queue_' \in Seq(QueueThreads) /\ Len(queue_') = Len(queue_) + 1
    BY <2>1 DEF QueueInv, QueueTypes
  <2>5. (Bounded => Len(queue_) <= max_size_)'
    BY <1>1, <2>2, <2>4 DEF QueueInv, QueueTypes, full_with_locked, Bounded
  <2>6. \A u \in QueueThreads : where'[u] # "in" /\ (where'[u] \in Inside <=> lock_.holder = u)
    BY <1>1, <2>1 DEF QueueInv, QueueTypes, Inside
  <2>7. QueueTypes'
    BY <1>1, <2>1, <2>3, <2>4, Zenon DEF QueueInv, QueueTypes, Inside
  <2> QED
    BY <1>1, <2>3, <2>5, <2>6, <2>7 DEF QueueInv, QueueChecksHold
<1>4. ASSUME pop(t) PROVE QueueInv'
  <2>1. where' = [where EXCEPT ![t] = "leave"]
    BY <1>4 DEF pop, Step
  <2>2. queue_ # <<>>
    BY <1>4 DEF QueueInv, Ready, pop, Step
  <2>3. unsound' = FALSE /\ queue_' = Tail(queue_)
    BY <1>4, <2>2, Zenon DEF pop, QueueInv, QueueChecksHold, empty_with_locked
  <2>4. queue_' \in Seq(QueueThreads) /\ Len(queue_') = Len(queue_) - 1
    BY <2>2, <2>3 DEF QueueInv, QueueTypes
  <2>5. (Bounded => Len(queue_) <= max_size_)'
    BY <1>1, <2>4 DEF QueueInv, QueueTypes, Bounded
  <2>6. \A u \in QueueThreads : where'[u] # "in" /\ (where'[u] \in Inside <=> lock_.holder = u)
    BY <1>1, <2>1 DEF QueueInv, QueueTypes, Inside
  <2>7. QueueTypes'
    BY <1>1, <2>1, <2>3, <2>4, Zenon DEF QueueInv, QueueTypes, Inside
  <2> QED
    BY <1>1, <2>3, <2>5, <2>6, <2>7 DEF QueueInv, QueueChecksHold
<1>5. ASSUME capacity(t) PROVE QueueInv'
  <2>1. where' = [where EXCEPT ![t] = "leave"] /\ UNCHANGED queue_
    BY <1>5 DEF capacity, Step
  <2>2. unsound' = FALSE
    <3>1. ~(Bounded /\ capacity_with_locked < 0)
      BY DEF QueueInv, QueueTypes, Bounded, capacity_with_locked
    <3> QED
      BY <1>5, <3>1, Zenon DEF capacity, QueueInv, QueueChecksHold
  <2>3. \A u \in QueueThreads : where'[u] # "in" /\ (where'[u] \in Inside <=> lock_.holder = u)
    BY <1>1, <2>1 DEF QueueInv, QueueTypes, Inside
  <2>4. QueueTypes'
    BY <1>1, <2>1, <2>2, Zenon DEF QueueInv, QueueTypes, Inside
  <2> QED
    BY <1>1, <2>1, <2>2, <2>3, <2>4 DEF QueueInv, QueueChecksHold, Bounded
<1> QED
  BY <1>2, <1>3, <1>4, <1>5

\* No check of BlockingQueue, MutexLock or ConditionVariable ever fails, for any number of
\* threads, any bound and any calls: a thread past its while loop finds an item, or room,
\* whoever else took the lock between its wakeup and its turn.
THEOREM QueueChecksNeverFail == QueueSpec => []QueueChecksHold
<1>1. QueueInv /\ [QueueNext]_qvars => QueueInv'
  <2> SUFFICES ASSUME QueueInv, [QueueNext]_qvars PROVE QueueInv'
    OBVIOUS
  <2>1. CASE UNCHANGED qvars
    BY <2>1 DEF qvars, QueueInv, QueueTypes, QueueChecksHold, Ready, full_with_locked, Bounded
  <2>2. ASSUME NEW t \in QueueThreads, Spurious(t) PROVE QueueInv'
    BY <2>2 DEF Spurious, QueueInv, QueueTypes, QueueChecksHold, Ready, full_with_locked, Bounded
  <2> QED
    BY <2>1, <2>2, EntryKeepsInv, ExitKeepsInv, BodyKeepsInv DEF QueueNext, QueueStep
<1>2. QueueInv => QueueChecksHold
  BY DEF QueueInv
<1> QED
  BY <1>1, <1>2, QueueInvInit, PTL DEF QueueSpec

-----------------------------------------------------------------------------
(* Protorpc.                                                               *)

\* What a service may answer, ...
Served == {Answer(c, n) : c \in Clients, n \in Nat}
\* ... what may be in a stream of responses to client c, ...
ResponsesTo(c) ==
    {m \in [id : Nat, for : {<<c, n>> : n \in Nat} \cup {<<>>}] : m.for \in {<<c, m.id>>, <<>>}}
\* ... and what a client may send.
Requests == [id : Nat, method : Methods]

\* As long as connections come one after the other and no service answers late, the
\* channel's connection is the one that is open, and whatever is on its way to a client
\* answers a call of its own.
RpcGood ==
    /\ ~aborted /\ id_ \in [Clients -> Nat] /\ conn_ \in Clients \cup {NoConn}
    /\ \A c \in Clients : peer[c] = "open" <=> conn_ = c
    /\ peer \in [Clients -> {"none", "open", "removed"}] /\ running \subseteq Served
    /\ up \in [Clients -> Seq(Requests)]
    /\ DOMAIN down = Clients /\ \A c \in Clients : down[c] \in Seq(ResponsesTo(c))
    /\ DOMAIN answers = Clients /\ \A c \in Clients : answers[c] \subseteq ResponsesTo(c)

\* The invariant: once connections have overlapped or an answer was late, all bets are off.
RpcInv == {overlapped, late} \subseteq BOOLEAN /\ (overlapped \/ late \/ RpcGood)

\* The messages the server makes for a call.
LEMMA AnswersAre ==
    ASSUME NEW c \in Clients, NEW n \in Nat
    PROVE  /\ Answer(c, n) \in ResponsesTo(c) /\ Refusal(n) \in ResponsesTo(c)
           /\ Answer(c, n) \in Served /\ Answer(c, n).for[1] = c
BY DEF Answer, Refusal, ResponsesTo, Served

\* The fields of what is on its way.
LEMMA RpcFields ==
    /\ \A c \in Clients : \A m \in ResponsesTo(c) : m.id \in Nat /\ m.for \in {<<c, m.id>>, <<>>}
    /\ \A r \in Requests : r.id \in Nat
    /\ \A n \in Nat, m \in Methods : [id |-> n, method |-> m] \in Requests
BY DEF ResponsesTo, Requests

\* A message for the client whose connection is open goes to it.
LEMMA SentIs ==
    ASSUME RpcGood, NEW c \in Clients, conn_ = c, NEW m \in ResponsesTo(c)
    PROVE  DOMAIN Sent(m) = Clients /\ \A d \in Clients : Sent(m)[d] \in Seq(ResponsesTo(d))
<1> DEFINE S(d) == ResponsesTo(d)
<1>1. CASE link[conn_] = "up"
  <2> HIDE DEF S
  <2>1. Sent(m) = [down EXCEPT ![c] = Append(down[c], m)]
    BY <1>1 DEF Sent
  <2>2. down[c] \in Seq(S(c)) /\ m \in S(c)
    BY DEF RpcGood, S
  <2>3. Append(down[c], m) \in Seq(S(c))
    BY <2>2
  <2>4. DOMAIN down = Clients /\ \A d \in Clients : down[d] \in Seq(S(d))
    BY DEF RpcGood, S
  <2>5. DOMAIN Sent(m) = Clients /\ \A d \in Clients : Sent(m)[d] \in Seq(S(d))
    BY <2>1, <2>3, <2>4
  <2> QED
    BY <2>5 DEF S
<1>2. CASE link[conn_] # "up"
  BY <1>2 DEF Sent, RpcGood
<1> QED
  BY <1>1, <1>2

\* Nothing has happened yet.
LEMMA RpcInvInit == RpcInit => RpcInv
<1> SUFFICES ASSUME RpcInit PROVE RpcInv
  OBVIOUS
<1>1. \A c \in Clients : peer[c] # "open" /\ conn_ # c
  BY RpcAssumption DEF RpcInit
<1>2. \A c \in Clients : down[c] \in Seq(ResponsesTo(c)) /\ answers[c] \subseteq ResponsesTo(c)
  BY DEF RpcInit
<1>3. RpcGood
  BY <1>1, <1>2 DEF RpcInit, RpcGood
<1> QED
  BY <1>3, Zenon DEF RpcInit, RpcInv

\* Each step of the server and the clients keeps it.
LEMMA RpcInvStep == RpcInv /\ [RpcNext]_rvars => RpcInv'
<1> SUFFICES ASSUME RpcInv, [RpcNext]_rvars PROVE RpcInv'
  OBVIOUS
<1>1. CASE UNCHANGED rvars
  <2>1. /\ UNCHANGED <<peer, id_, answers, conn_, running, up, down, aborted>>
        /\ overlapped' = overlapped /\ late' = late
    BY <1>1 DEF rvars
  <2>2. RpcGood => RpcGood'
    BY <2>1 DEF RpcGood
  <2> QED
    BY <2>1, <2>2 DEF RpcInv
<1>2. CASE RpcNext
  <2> DEFINE Grows == /\ {overlapped', late'} \subseteq BOOLEAN
                      /\ (overlapped => overlapped') /\ (late => late')
  <2>1. Grows
    <3>1. CASE Finish
      <4>1. PICK r \in running : late' = (late \/ peer[r.for[1]] # "open") /\ overlapped' = overlapped
        BY <3>1 DEF Finish
      <4> QED
        BY <4>1 DEF RpcInv
    <3>2. ASSUME NEW c \in Clients, NewConnection(c) PROVE Grows
      <4>1. overlapped' = (overlapped \/ Open # {}) /\ late' = late
        BY <3>2 DEF NewConnection
      <4> QED
        BY <4>1 DEF RpcInv
    <3>3. ASSUME NEW c \in Clients, Connect(c) \/ CallMethod(c) \/ Response(c) \/ Disconnect(c)
                                    \/ Recv(c) \/ RemoveConnection(c)
          PROVE  Grows
      <4>1. overlapped' = overlapped /\ late' = late
        BY <3>3, Zenon DEF Connect, CallMethod, Response, Disconnect, Recv, RemoveConnection
      <4> QED
        BY <4>1 DEF RpcInv
    <3> QED
      BY <1>2, <3>1, <3>2, <3>3 DEF RpcNext, RpcStep
  <2> SUFFICES ASSUME ~overlapped', ~late' PROVE RpcGood'
    BY <2>1 DEF RpcInv
  <2>2. RpcGood /\ ~overlapped /\ ~late
    BY <2>1 DEF RpcInv
  <2>3. CASE Finish
    <3>1. PICK r \in running :
             /\ ~aborted /\ running' = running \ {r} /\ peer[r.for[1]] = "open"
             /\ IF conn_ = NoConn THEN aborted' = TRUE /\ UNCHANGED down
                ELSE down' = Sent(r) /\ UNCHANGED aborted
             /\ UNCHANGED <<link, peer, id_, outstandings_, answers, conn_, up, overlapped>>
      BY <2>3, Zenon DEF Finish
    <3>2. PICK c \in Clients, n \in Nat : r = Answer(c, n)
      BY <2>2 DEF RpcGood, Served
    <3>3. conn_ = c /\ conn_ # NoConn
      BY <2>2, <3>1, <3>2, AnswersAre, RpcAssumption DEF RpcGood
    <3>4. r \in ResponsesTo(c)
      BY <3>2, AnswersAre
    <3>5. DOMAIN down' = Clients /\ \A d \in Clients : down'[d] \in Seq(ResponsesTo(d))
      BY <2>2, <3>1, <3>3, <3>4, SentIs
    <3> QED
      BY <2>2, <3>1, <3>3, <3>5 DEF RpcGood
  <2>4. ASSUME NEW c \in Clients, Connect(c) PROVE RpcGood'
    BY <2>2, <2>4 DEF Connect, RpcGood
  <2>5. ASSUME NEW c \in Clients, CallMethod(c) PROVE RpcGood'
    <3>1. PICK m \in Methods :
             /\ id_' = [id_ EXCEPT ![c] = @ + 1]
             /\ up' = [up EXCEPT ![c] = Append(@, [id |-> id_'[c], method |-> m])]
             /\ UNCHANGED <<link, peer, answers, conn_, running, down, aborted, overlapped, late>>
      BY <2>5, Zenon DEF CallMethod
    <3>2. id_' \in [Clients -> Nat]
      BY <2>2, <3>1 DEF RpcGood
    <3>3. [id |-> id_'[c], method |-> m] \in Requests
      BY <3>2, RpcFields
    <3>4. up' \in [Clients -> Seq(Requests)]
      BY <2>2, <3>1, <3>3 DEF RpcGood
    <3> QED
      BY <2>2, <3>1, <3>2, <3>4 DEF RpcGood
  <2>6. ASSUME NEW c \in Clients, Response(c) PROVE RpcGood'
    <3>1. PICK mesg : mesg = Head(down[c])
      OBVIOUS
    <3>2. /\ down[c] # <<>> /\ down' = [down EXCEPT ![c] = Tail(down[c])]
          /\ answers' = answers \/ answers' = [answers EXCEPT ![c] = @ \cup {mesg}]
          /\ UNCHANGED <<link, peer, id_, conn_, running, up, aborted, overlapped, late>>
      BY <2>6, <3>1 DEF Response
    <3> DEFINE S(d) == ResponsesTo(d)
    <3>3. /\ DOMAIN down = Clients /\ \A d \in Clients : down[d] \in Seq(S(d))
          /\ DOMAIN answers = Clients /\ \A d \in Clients : answers[d] \subseteq S(d)
      BY <2>2 DEF RpcGood
    <3> HIDE DEF S
    <3>4. mesg \in S(c) /\ Tail(down[c]) \in Seq(S(c))
      <4>1. down[c] \in Seq(S(c)) /\ down[c] # <<>>
        BY <3>2, <3>3
      <4> QED
        BY <3>1, <4>1
    <3>5. DOMAIN down' = Clients /\ \A d \in Clients : down'[d] \in Seq(S(d))
      BY <3>2, <3>3, <3>4
    <3>6. DOMAIN answers' = Clients /\ \A d \in Clients : answers'[d] \subseteq S(d)
      BY <3>2, <3>3, <3>4
    <3> QED
      BY <2>2, <3>2, <3>5, <3>6 DEF RpcGood, S
  <2>7. ASSUME NEW c \in Clients, Disconnect(c) PROVE RpcGood'
    <3>1. /\ down' = [down EXCEPT ![c] = <<>>]
          /\ UNCHANGED <<peer, id_, answers, conn_, running, up, aborted>>
      BY <2>7 DEF Disconnect
    <3>2. DOMAIN down' = Clients /\ \A d \in Clients : down'[d] \in Seq(ResponsesTo(d))
      BY <2>2, <3>1 DEF RpcGood
    <3> QED
      BY <2>2, <3>1, <3>2 DEF RpcGood
  <2>8. ASSUME NEW c \in Clients, NewConnection(c) PROVE RpcGood'
    <3>1. Open = {}
      BY <2>8, Zenon DEF NewConnection
    <3>2. \A d \in Clients : peer[d] # "open"
      BY <3>1 DEF Open
    <3>3. /\ peer' = [peer EXCEPT ![c] = "open"] /\ conn_' = c
          /\ UNCHANGED <<link, id_, answers, running, up, down, aborted>>
      BY <2>8 DEF NewConnection
    <3>4. \A d \in Clients : peer'[d] = "open" <=> conn_' = d
      BY <2>2, <3>2, <3>3 DEF RpcGood
    <3> QED
      BY <2>2, <3>3, <3>4 DEF RpcGood
  <2>9. ASSUME NEW c \in Clients, Recv(c) PROVE RpcGood'
    <3>1. conn_ = c /\ up[c] # <<>>
      BY <2>2, <2>9 DEF Recv, RpcGood
    <3>2. PICK mesg : mesg = Head(up[c])
      OBVIOUS
    <3>3. /\ up' = [up EXCEPT ![c] = Tail(up[c])] /\ Request(c, mesg)
          /\ UNCHANGED <<link, peer, id_, answers, conn_, aborted>>
      BY <2>9, <3>1, <3>2 DEF Recv
    <3>4. mesg \in Requests /\ up' \in [Clients -> Seq(Requests)]
      <4>1. up[c] \in Seq(Requests)
        BY <2>2 DEF RpcGood
      <4>2. mesg \in Requests /\ Tail(up[c]) \in Seq(Requests)
        BY <3>1, <3>2, <4>1
      <4> QED
        BY <2>2, <3>3, <4>2 DEF RpcGood
    <3>5. mesg.id \in Nat
      BY <3>4, RpcFields
    <3>6. /\ Answer(c, mesg.id) \in ResponsesTo(c) /\ Refusal(mesg.id) \in ResponsesTo(c)
          /\ Answer(c, mesg.id) \in Served
      BY <3>5, AnswersAre
    <3>7. \/ \E m \in ResponsesTo(c) : down' = Sent(m) /\ running' = running
          \/ running' = running \cup {Answer(c, mesg.id)} /\ down' = down
      BY <3>3, <3>6 DEF Request
    <3>8. DOMAIN down' = Clients /\ \A d \in Clients : down'[d] \in Seq(ResponsesTo(d))
      BY <2>2, <3>1, <3>7, SentIs DEF RpcGood
    <3>9. running' \subseteq Served
      BY <2>2, <3>6, <3>7 DEF RpcGood
    <3> QED
      BY <2>2, <3>3, <3>4, <3>8, <3>9 DEF RpcGood
  <2>10. ASSUME NEW c \in Clients, RemoveConnection(c) PROVE RpcGood'
    <3>1. conn_ = c /\ conn_ # NoConn
      BY <2>2, <2>10, RpcAssumption DEF RemoveConnection, RpcGood
    <3>2. /\ peer' = [peer EXCEPT ![c] = "removed"] /\ ~aborted' /\ conn_' = NoConn
          /\ UNCHANGED <<link, id_, answers, running, up, down>>
      BY <2>10, <3>1, Zenon DEF RemoveConnection
    <3>3. \A d \in Clients : peer'[d] = "open" <=> conn_' = d
      BY <2>2, <3>1, <3>2, RpcAssumption DEF RpcGood
    <3> QED
      BY <2>2, <3>2, <3>3 DEF RpcGood
  <2> QED
    BY <1>2, <2>3, <2>4, <2>5, <2>6, <2>7, <2>8, <2>9, <2>10 DEF RpcNext, RpcStep
<1> QED
  BY <1>1, <1>2

\* For any clients, methods and number of calls: as long as connections come one after
\* the other and no service answers a caller that has gone, the CHECKs of the server's one
\* channel hold and done is never run with the answer to another call.
THEOREM RpcAlwaysAnswers == RpcSpec => []RpcAnswers
<1>1. RpcInv => RpcAnswers
  BY RpcFields DEF RpcInv, RpcGood, RpcAnswers, RpcChecksHold, AnswersMatch
<1> QED
  BY <1>1, RpcInvInit, RpcInvStep, PTL DEF RpcSpec

-----------------------------------------------------------------------------
(* EventLoopPool.                                                          *)

\* The places of a loop thread.
ThreadPlaces == {"none", "routine", "main", "init", "loop", "left", "clear", "exited"}
\* start() has not returned; the pool is being destroyed.
Starting == base_at \in {"new", "latch", "cv"}
Ending == base_at \in {"quit_loop", "quit", "join", "destroyed"}

\* How many threads start_async has been called for, and how many loops start() has
\* handed out.
Begun ==
    IF base_at = "new" THEN i - 1 ELSE IF base_at \in {"latch", "cv"} THEN i ELSE num_threads_
HandedOut == IF Starting THEN i - 1 ELSE num_threads_

\* The types, and where the loops over the threads are.
PoolTypes ==
    /\ num_threads_ \in 0 .. MaxThreads /\ quits \in BOOLEAN /\ {asleep, loop} \subseteq BOOLEAN
    /\ base_at \in {"new", "latch", "cv", "started", "quit_loop", "quit", "join", "destroyed"}
    /\ i \in 1 .. num_threads_ + 1
    /\ base_at \in {"latch", "cv", "quit", "join"} => i <= num_threads_
    /\ start_called_ \in [Threads -> BOOLEAN] /\ started_ \in [Threads -> BOOLEAN]
    /\ joined_ \in [Threads -> BOOLEAN] /\ owning_loop_ \in [Threads -> BOOLEAN]
    /\ exiting_ \in [Threads -> BOOLEAN] /\ quit_ \in [Threads -> BOOLEAN]
    /\ tpc \in [Threads -> ThreadPlaces] /\ latch_ \in [Threads -> {0, 1}]

\* What holds of a thread also if callbacks quit loops.
Counted(t) ==
    /\ latch_[t] = 1 <=> tpc[t] \in {"none", "routine"}
    /\ tpc[t] = "none" <=> t > Begun
    /\ owning_loop_[t] <=> tpc[t] \in {"loop", "left"}

\* What holds of a thread if only the pool quits its loop.
Turning(t) ==
    /\ start_called_[t] <=> tpc[t] # "none"
    /\ started_[t] <=> t <= (IF base_at = "cv" THEN i ELSE HandedOut)
    /\ joined_[t] <=> Ending /\ t < i
    /\ exiting_[t] => tpc[t] = "exited"
    /\ quit_[t] => Ending /\ (t < i \/ (t = i /\ base_at = "join"))
    /\ tpc[t] \in {"left", "clear", "exited"} => quit_[t]
    /\ t <= HandedOut => tpc[t] \in {"loop", "left", "clear", "exited"}

\* loops_ has the loops in the order of their threads.
HandsOut ==
    loops_ \in Seq(Nat) /\ Len(loops_) = HandedOut /\ \A k \in 1 .. HandedOut : loops_[k] = k

\* The invariant: the loop of start() or ~EventLoopPool over the threads has got as far as
\* i, and every thread is where the pool has brought it.
LoopsInv ==
    /\ PoolTypes /\ HandsOut
    /\ \A t \in Threads : Counted(t)
    /\ ~quits => check_failed = "no" /\ \A t \in Threads : Turning(t)

\* The pool starts out with no thread.
LEMMA LoopsInvInit == LoopsInit => LoopsInv
<1> SUFFICES ASSUME LoopsInit PROVE LoopsInv
  OBVIOUS
<1>0. MaxThreads \in Nat /\ num_threads_ \in 0 .. MaxThreads /\ quits \in BOOLEAN
  BY LoopsAssumption DEF LoopsInit
<1>1. PoolTypes
  <2>1. /\ start_called_ \in [Threads -> BOOLEAN] /\ started_ \in [Threads -> BOOLEAN]
        /\ joined_ \in [Threads -> BOOLEAN] /\ owning_loop_ \in [Threads -> BOOLEAN]
        /\ exiting_ \in [Threads -> BOOLEAN] /\ quit_ \in [Threads -> BOOLEAN]
        /\ tpc \in [Threads -> ThreadPlaces] /\ latch_ \in [Threads -> {0, 1}]
    BY DEF LoopsInit, All, ThreadPlaces
  <2>2. i = 1 /\ asleep = FALSE /\ loop = FALSE /\ base_at = "new"
    BY DEF LoopsInit
  <2>3. i \in 1 .. num_threads_ + 1
    BY <1>0, <2>2
  <2>4. asleep \in BOOLEAN /\ loop \in BOOLEAN
    BY <2>2, Zenon
  <2> QED
    BY <1>0, <2>1, <2>2, <2>3, <2>4 DEF PoolTypes
<1>2. HandedOut = 0 /\ Begun = 0 /\ ~Ending
  BY DEF LoopsInit, HandedOut, Begun, Starting, Ending
<1>3. HandsOut
  <2>1. loops_ = <<>> /\ <<>> \in Seq(Nat) /\ Len(<<>>) = 0
    BY DEF LoopsInit
  <2> QED
    BY <1>2, <2>1 DEF HandsOut
<1>4. \A t \in Threads : Counted(t) /\ Turning(t)
  BY <1>0, <1>2 DEF LoopsInit, Counted, Turning, All, Threads
<1> QED
  BY <1>1, <1>3, <1>4 DEF LoopsInv, LoopsInit

\* What it says of the loops that are handed out.
LEMMA LoopsInvImplies == LoopsInv => LoopsHandedOut
<1> SUFFICES ASSUME LoopsInv PROVE LoopsHandedOut
  OBVIOUS
<1>1. HandedOut \in Nat /\ HandedOut <= num_threads_ /\ num_threads_ \in Nat /\ num_threads_ <= MaxThreads
  BY LoopsAssumption DEF LoopsInv, PoolTypes, HandedOut, Starting
<1>2. Len(loops_) = HandedOut /\ loops_ = [k \in 1 .. Len(loops_) |-> k]
  BY <1>1 DEF LoopsInv, HandsOut
<1>3. LoopsTypeOK
  BY <1>1, <1>2 DEF LoopsInv, PoolTypes, LoopsTypeOK
<1>4. HandedOutTurns
  <2> SUFFICES ASSUME ~quits, NEW k \in 1 .. Len(loops_), ~Ending \/ k > i
               PROVE  tpc[k] = "loop"
    BY DEF HandedOutTurns, Ending
  <2>0. k \in 1 .. HandedOut /\ HandedOut <= MaxThreads /\ MaxThreads \in Nat
    BY <1>1, <1>2, LoopsAssumption DEF LoopsInv, PoolTypes
  <2>1. k \in Threads /\ k <= HandedOut /\ i \in Nat
    BY <1>1, <2>0 DEF Threads, LoopsInv, PoolTypes
  <2>2. Turning(k)
    BY <2>1 DEF LoopsInv
  <2> QED
    BY <2>1, <2>2 DEF Turning
<1> QED
  BY <1>3, <1>4 DEF LoopsInv, LoopsHandedOut, LoopsChecksHold

\* A step of the base thread that leaves the threads alone.
LEMMA BaseMoves ==
    ASSUME LoopsInv, PoolTypes', UNCHANGED <<picked, thread, latch_, owning_loop_, exiting_, tpc>>,
           ~quits => check_failed' = "no", Begun' = Begun, HandedOut' = HandedOut, loops_' = loops_,
           base_at # "cv" /\ base_at' # "cv",
           \A t \in Threads : (Ending' /\ t < i') <=> (Ending /\ t < i),
           ~quits => \A t \in Threads :
                quit_'[t] => Ending' /\ (t < i' \/ (t = i' /\ base_at' = "join")),
           \A t \in Threads : quit_[t] => quit_'[t]
    PROVE  LoopsInv'
<1>1. \A t \in Threads : Counted(t)'
  BY DEF LoopsInv, Counted
<1>2. ASSUME ~quits, NEW t \in Threads PROVE Turning(t)'
  <2>1. Turning(t)
    BY <1>2 DEF LoopsInv
  <2>2. /\ UNCHANGED <<start_called_, started_, joined_, latch_, owning_loop_, exiting_, tpc>>
        /\ (Ending' /\ t < i') <=> (Ending /\ t < i)
        /\ quit_'[t] => Ending' /\ (t < i' \/ (t = i' /\ base_at' = "join"))
        /\ quit_[t] => quit_'[t]
    BY <1>2 DEF thread
  <2> QED
    BY <2>1, <2>2 DEF Turning
<1>3. quits' = quits
  BY DEF picked
<1> QED
  BY <1>1, <1>2, <1>3 DEF LoopsInv, HandsOut

\* The step of each thread that the base thread's i is at, which is one of the pool's.
LEMMA PlaceIs ==
    ASSUME LoopsInv
    PROVE  /\ i \in Nat /\ num_threads_ \in Nat /\ Threads \subseteq Nat
           /\ i <= num_threads_ => i \in Threads
BY LoopsAssumption DEF LoopsInv, PoolTypes, Threads

\* start_async for the next thread.
LEMMA StartAsyncKeeps == ASSUME LoopsInv, StartAsync PROVE LoopsInv'
<1>0. /\ i \in Nat /\ num_threads_ \in Nat /\ Threads \subseteq Nat /\ i \in Threads /\ i <= num_threads_
  BY PlaceIs, Zenon DEF StartAsync
<1>1. /\ base_at = "new" /\ base_at' = "latch" /\ i' = i
      /\ start_called_' = [start_called_ EXCEPT ![i] = TRUE]
      /\ tpc' = [tpc EXCEPT ![i] = "routine"]
      /\ UNCHANGED <<num_threads_, quits, loops_, loop, asleep, started_, joined_, latch_, owning_loop_,
                     exiting_, quit_>>
      /\ (~started_[i] /\ ~start_called_[i]) => check_failed' = check_failed
  BY Zenon DEF StartAsync, BaseAt, LoopsCheck, picked
<1>2. PoolTypes'
  BY <1>0, <1>1 DEF LoopsInv, PoolTypes, ThreadPlaces
<1>3. /\ Begun = i - 1 /\ Begun' = i /\ HandedOut = i - 1 /\ HandedOut' = HandedOut
      /\ ~Ending /\ ~Ending'
  BY <1>1 DEF Begun, HandedOut, Starting, Ending
<1>4. HandsOut'
  BY <1>1, <1>3 DEF LoopsInv, HandsOut
<1>5. ASSUME NEW t \in Threads PROVE Counted(t)'
  BY <1>0, <1>1, <1>3 DEF LoopsInv, Counted, PoolTypes
<1>6. ASSUME ~quits PROVE check_failed' = "no"
  <2>1. Turning(i) /\ Counted(i) /\ check_failed = "no"
    BY <1>0, <1>6 DEF LoopsInv
  <2>2. ~started_[i] /\ ~start_called_[i]
    BY <1>0, <1>1, <1>3, <2>1 DEF Turning, Counted
  <2> QED
    BY <1>1, <2>1, <2>2
<1>7. ASSUME ~quits, NEW t \in Threads PROVE Turning(t)'
  <2>1. Turning(t) /\ Turning(i) /\ Counted(i)
    BY <1>0, <1>7 DEF LoopsInv
  <2>2. tpc[i] = "none"
    BY <1>0, <1>3, <2>1 DEF Counted
  <2>3. CASE t = i
    BY <1>0, <1>1, <1>3, <2>1, <2>2, <2>3 DEF Turning, LoopsInv, PoolTypes
  <2>4. CASE t # i
    BY <1>0, <1>1, <1>3, <2>1, <2>4 DEF Turning, LoopsInv, PoolTypes
  <2> QED
    BY <2>3, <2>4
<1> QED
  BY <1>1, <1>2, <1>4, <1>5, <1>6, <1>7 DEF LoopsInv

\* start() is over.
LEMMA StartedKeeps == ASSUME LoopsInv, Started PROVE LoopsInv'
<1>0. i \in Nat /\ num_threads_ \in Nat /\ Threads \subseteq Nat
  BY PlaceIs
<1>1. /\ base_at = "new" /\ base_at' = "started" /\ i = num_threads_ + 1
      /\ UNCHANGED <<num_threads_, quits, loops_, i, loop, asleep, start_called_, started_, joined_, latch_,
                     owning_loop_, exiting_, tpc, quit_, check_failed>>
  BY <1>0 DEF Started, BaseAt, picked, thread, LoopsInv, PoolTypes
<1>2. PoolTypes'
  BY <1>1 DEF LoopsInv, PoolTypes
<1>3. Begun' = Begun /\ HandedOut' = HandedOut /\ ~Ending /\ ~Ending'
  BY <1>0, <1>1 DEF Begun, HandedOut, Starting, Ending
<1> QED
  BY <1>1, <1>2, <1>3, BaseMoves DEF LoopsInv, Turning, picked, thread

\* The wait for the latch.
LEMMA LatchWaitKeeps == ASSUME LoopsInv, LatchWait PROVE LoopsInv'
<1>0. i \in Nat /\ num_threads_ \in Nat /\ Threads \subseteq Nat /\ i \in Threads /\ i <= num_threads_
  BY PlaceIs DEF LatchWait, BaseAt, LoopsInv, PoolTypes
<1>1. /\ base_at = "latch" /\ i' = i
      /\ UNCHANGED <<num_threads_, quits, loops_, loop, start_called_, joined_, latch_, owning_loop_,
                     exiting_, tpc, quit_, check_failed>>
  BY DEF LatchWait, BaseAt, picked
<1>2. CASE asleep' = TRUE /\ base_at' = base_at /\ started_' = started_
  <2>1. PoolTypes'
    BY <1>1, <1>2 DEF LoopsInv, PoolTypes
  <2>2. Begun' = Begun /\ HandedOut' = HandedOut /\ ~Ending /\ ~Ending'
    BY <1>1, <1>2 DEF Begun, HandedOut, Starting, Ending
  <2> QED
    BY <1>1, <1>2, <2>1, <2>2, BaseMoves DEF LoopsInv, Turning, picked, thread
<1>3. CASE started_' = [started_ EXCEPT ![i] = TRUE] /\ base_at' = "cv" /\ asleep' = asleep
  <2>1. PoolTypes'
    BY <1>0, <1>1, <1>3 DEF LoopsInv, PoolTypes
  <2>2. Begun' = Begun /\ HandedOut' = HandedOut /\ HandedOut = i - 1 /\ ~Ending /\ ~Ending'
    BY <1>1, <1>3 DEF Begun, HandedOut, Starting, Ending
  <2>3. \A t \in Threads : Counted(t)'
    BY <1>1, <2>2 DEF LoopsInv, Counted
  <2>4. ASSUME ~quits, NEW t \in Threads PROVE Turning(t)'
    <3>1. Turning(t)
      BY <2>4 DEF LoopsInv
    <3>2. started_'[t] <=> t <= i
      BY <1>0, <1>1, <1>3, <2>2, <3>1 DEF Turning, LoopsInv, PoolTypes
    <3> QED
      BY <1>1, <1>3, <2>2, <3>1, <3>2 DEF Turning
  <2> QED
    BY <1>1, <2>1, <2>2, <2>3, <2>4 DEF LoopsInv, HandsOut
<1> QED
  BY <1>2, <1>3, Zenon DEF LatchWait

\* The wait for the loop, which is handed out.
LEMMA LoopWaitKeeps == ASSUME LoopsInv, LoopWait PROVE LoopsInv'
<1>0. i \in Nat /\ num_threads_ \in Nat /\ Threads \subseteq Nat /\ i \in Threads /\ i <= num_threads_
  BY PlaceIs DEF LoopWait, BaseAt, LoopsInv, PoolTypes
<1>1. /\ base_at = "cv"
      /\ UNCHANGED <<num_threads_, quits, loop, start_called_, started_, joined_, latch_, owning_loop_,
                     exiting_, tpc, quit_, check_failed>>
  BY DEF LoopWait, BaseAt, picked, thread
<1>2. CASE asleep' = TRUE /\ base_at' = base_at /\ i' = i /\ loops_' = loops_
  <2>1. PoolTypes'
    BY <1>1, <1>2 DEF LoopsInv, PoolTypes
  <2>2. Begun' = Begun /\ HandedOut' = HandedOut /\ (Ending' <=> Ending)
    BY <1>1, <1>2 DEF Begun, HandedOut, Starting, Ending
  <2>3. \A t \in Threads : Counted(t)' /\ (Turning(t) => Turning(t)')
    BY <1>1, <1>2, <2>2 DEF LoopsInv, Counted, Turning
  <2> QED
    BY <1>1, <1>2, <2>1, <2>2, <2>3 DEF LoopsInv, HandsOut
<1>3. CASE owning_loop_[i] /\ loops_' = Append(loops_, i) /\ i' = i + 1 /\ base_at' = "new" /\ asleep' = asleep
  <2>1. PoolTypes'
    BY <1>0, <1>1, <1>3 DEF LoopsInv, PoolTypes
  <2>2. /\ Begun' = Begun /\ HandedOut = i - 1 /\ HandedOut' = i /\ ~Ending /\ ~Ending'
    BY <1>0, <1>1, <1>3 DEF Begun, HandedOut, Starting, Ending
  <2>3. HandsOut'
    <3>1. loops_ \in Seq(Nat) /\ Len(loops_) = i - 1 /\ \A k \in 1 .. i - 1 : loops_[k] = k
      BY <2>2 DEF LoopsInv, HandsOut
    <3>2. /\ loops_' \in Seq(Nat) /\ Len(loops_') = i /\ loops_'[i] = i
          /\ \A k \in 1 .. i - 1 : loops_'[k] = loops_[k]
      BY <1>0, <1>3, <3>1
    <3>3. \A k \in 1 .. i : k \in 1 .. i - 1 \/ k = i
      BY <1>0
    <3> QED
      BY <2>2, <3>1, <3>2, <3>3 DEF HandsOut
  <2>4. \A t \in Threads : Counted(t)'
    BY <1>1, <2>2 DEF LoopsInv, Counted
  <2>5. ASSUME ~quits, NEW t \in Threads PROVE Turning(t)'
    <3>1. Turning(t) /\ Turning(i)
      BY <1>0, <2>5 DEF LoopsInv
    <3>2. tpc[i] \in {"loop", "left"}
      BY <1>0, <1>3 DEF LoopsInv, Counted
    <3>3. t <= i => t <= i - 1 \/ t = i
      BY <1>0
    <3> QED
      BY <1>1, <1>3, <2>2, <3>1, <3>2, <3>3 DEF Turning
  <2> QED
    BY <1>1, <2>1, <2>3, <2>4, <2>5 DEF LoopsInv
<1> QED
  BY <1>2, <1>3, Zenon DEF LoopWait

\* Waking up.
LEMMA LoopsWakeKeeps == ASSUME LoopsInv, LoopsWake PROVE LoopsInv'
<1>1. /\ asleep' = FALSE
      /\ UNCHANGED <<num_threads_, quits, loops_, base_at, i, loop, start_called_, started_, joined_, latch_,
                     owning_loop_, exiting_, tpc, quit_, check_failed>>
  BY DEF LoopsWake, picked, base, thread
<1>2. PoolTypes'
  BY <1>1, Zenon DEF LoopsInv, PoolTypes
<1>3. Begun' = Begun /\ HandedOut' = HandedOut /\ (Ending' <=> Ending)
  BY <1>1 DEF Begun, HandedOut, Starting, Ending
<1>4. \A t \in Threads : Counted(t)' /\ (Turning(t) => Turning(t)')
  BY <1>1, <1>3 DEF LoopsInv, Counted, Turning
<1> QED
  BY <1>1, <1>2, <1>3, <1>4 DEF LoopsInv, HandsOut

\* ~EventLoopPool begins, reads the pointer of a loop, and is over.
LEMMA EndMoves == ASSUME LoopsInv, Destroy \/ ReadLoop \/ Destroyed PROVE LoopsInv'
<1>0. i \in Nat /\ num_threads_ \in Nat /\ Threads \subseteq Nat /\ \A t \in Threads : t >= 1
  BY PlaceIs, LoopsAssumption DEF Threads
<1>1. UNCHANGED <<num_threads_, quits, loops_, asleep, start_called_, started_, joined_, latch_,
                  owning_loop_, exiting_, tpc, quit_, check_failed>>
  BY DEF Destroy, ReadLoop, Destroyed, picked, thread
<1>2. /\ base_at # "cv" /\ base_at' # "cv" /\ base_at # "join" /\ loop' \in BOOLEAN
      /\ Begun = num_threads_ /\ Begun' = num_threads_ /\ HandedOut = num_threads_
      /\ HandedOut' = num_threads_ /\ Ending'
  <2>1. CASE Destroy
    BY <1>1, <2>1 DEF Destroy, BaseAt, LoopsInv, PoolTypes, Begun, HandedOut, Starting, Ending
  <2>2. CASE ReadLoop
    <3>1. i \in Threads
      BY <2>2, PlaceIs DEF ReadLoop
    <3> QED
      BY <1>1, <2>2, <3>1 DEF ReadLoop, BaseAt, LoopsInv, PoolTypes, Begun, HandedOut, Starting, Ending
  <2>3. CASE Destroyed
    BY <1>1, <2>3 DEF Destroyed, BaseAt, LoopsInv, PoolTypes, Begun, HandedOut, Starting, Ending
  <2> QED
    BY <2>1, <2>2, <2>3
<1>3. PoolTypes'
  BY <1>0, <1>1, <1>2 DEF LoopsInv, PoolTypes, Destroy, ReadLoop, Destroyed, BaseAt
<1>4. \A t \in Threads : (Ending' /\ t < i') <=> (Ending /\ t < i)
  BY <1>0, <1>2 DEF Destroy, ReadLoop, Destroyed, BaseAt, Ending
<1>5. ASSUME ~quits, NEW t \in Threads, quit_'[t] PROVE Ending' /\ t < i'
  <2>1. Turning(t)
    BY <1>5 DEF LoopsInv
  <2>2. Ending /\ t < i
    BY <1>1, <1>2, <1>5, <2>1 DEF Turning
  <2> QED
    BY <1>4, <2>2
<1> QED
  BY <1>1, <1>2, <1>3, <1>4, <1>5, BaseMoves DEF LoopsInv, picked, thread

\* quit() of the loop, which is there.
LEMMA QuitLoopKeeps == ASSUME LoopsInv, QuitLoop PROVE LoopsInv'
<1>0. i \in Nat /\ num_threads_ \in Nat /\ Threads \subseteq Nat /\ i \in Threads /\ i <= num_threads_
  BY PlaceIs, Zenon DEF QuitLoop, BaseAt, LoopsInv, PoolTypes
<1>1. /\ base_at = "quit" /\ base_at' = "join" /\ i' = i /\ quit_' = [quit_ EXCEPT ![i] = @ \/ loop]
      /\ UNCHANGED <<num_threads_, quits, loops_, loop, asleep, start_called_, started_, joined_, latch_,
                     owning_loop_, exiting_, tpc>>
      /\ LoopExists(i) => check_failed' = check_failed
  BY Zenon DEF QuitLoop, BaseAt, LoopsCheck, picked, thread
<1>2. PoolTypes'
  BY <1>0, <1>1 DEF LoopsInv, PoolTypes
<1>3. Begun' = Begun /\ HandedOut' = HandedOut /\ HandedOut = num_threads_ /\ Ending /\ Ending'
  BY <1>1 DEF Begun, HandedOut, Starting, Ending
<1>4. ASSUME ~quits PROVE check_failed' = "no"
  <2>1. Turning(i) /\ check_failed = "no"
    BY <1>0, <1>4 DEF LoopsInv
  <2>2. tpc[i] = "loop"
    BY <1>0, <1>1, <1>3, <2>1 DEF Turning
  <2> QED
    BY <1>1, <2>1, <2>2 DEF LoopExists
<1>5. ASSUME NEW t \in Threads
      PROVE  /\ quit_[t] => quit_'[t]
             /\ quit_'[t] => quit_[t] \/ t = i
  BY <1>0, <1>1 DEF LoopsInv, PoolTypes
<1>6. ASSUME ~quits, NEW t \in Threads, quit_'[t] PROVE t < i' \/ t = i'
  <2>1. Turning(t)
    BY <1>6 DEF LoopsInv
  <2> QED
    BY <1>1, <1>5, <1>6, <2>1 DEF Turning
<1>7. \A t \in Threads : (Ending' /\ t < i') <=> (Ending /\ t < i)
  BY <1>1, <1>3
<1>8. base_at # "cv" /\ base_at' # "cv" /\ UNCHANGED <<picked, thread, latch_, owning_loop_, exiting_, tpc>>
  BY <1>1 DEF picked, thread
<1>9. /\ ~quits => check_failed' = "no"
      /\ ~quits => \A t \in Threads : quit_'[t] => Ending' /\ (t < i' \/ (t = i' /\ base_at' = "join"))
      /\ \A t \in Threads : quit_[t] => quit_'[t]
  <2>1. ASSUME ~quits, NEW t \in Threads, quit_'[t]
        PROVE  Ending' /\ (t < i' \/ (t = i' /\ base_at' = "join"))
    <3>1. base_at' = "join" /\ Ending'
      BY <1>1, <1>3
    <3>2. t < i' \/ t = i'
      BY <1>6, <2>1
    <3> QED
      BY <3>1, <3>2
  <2>2. \A t \in Threads : quit_[t] => quit_'[t]
    BY <1>5
  <2> QED
    BY <1>4, <2>1, <2>2
<1>10. Begun' = Begun /\ HandedOut' = HandedOut /\ loops_' = loops_
  BY <1>1, <1>3
<1> QED
  BY <1>2, <1>7, <1>8, <1>9, <1>10, BaseMoves

\* The thread is joined, and its Thread destroyed.
LEMMA JoinLoopKeeps == ASSUME LoopsInv, JoinLoop PROVE LoopsInv'
<1>0. i \in Nat /\ num_threads_ \in Nat /\ Threads \subseteq Nat /\ i \in Threads /\ i <= num_threads_
  BY PlaceIs, Zenon DEF JoinLoop, BaseAt, LoopsInv, PoolTypes
<1>1. /\ base_at = "join" /\ base_at' = "quit_loop" /\ i' = i + 1 /\ tpc[i] = "exited"
      /\ joined_' = [joined_ EXCEPT ![i] = TRUE] /\ exiting_' = [exiting_ EXCEPT ![i] = TRUE]
      /\ UNCHANGED <<num_threads_, quits, loops_, loop, asleep, start_called_, started_, latch_,
                     owning_loop_, quit_, tpc>>
      /\ (start_called_[i] /\ ~joined_[i] /\ started_[i] /\ joined_'[i]) => check_failed' = check_failed
  BY Zenon DEF JoinLoop, BaseAt, LoopsCheck, picked, ThreadDtor
<1>2. PoolTypes'
  BY <1>0, <1>1 DEF LoopsInv, PoolTypes
<1>3. Begun' = Begun /\ HandedOut' = HandedOut /\ HandedOut = num_threads_ /\ Ending /\ Ending'
  BY <1>1 DEF Begun, HandedOut, Starting, Ending
<1>4. ASSUME ~quits PROVE check_failed' = "no"
  <2>1. Turning(i) /\ check_failed = "no"
    BY <1>0, <1>4 DEF LoopsInv
  <2>2. start_called_[i] /\ ~joined_[i] /\ started_[i]
    BY <1>0, <1>1, <1>3, <2>1 DEF Turning
  <2>3. joined_'[i]
    BY <1>0, <1>1 DEF LoopsInv, PoolTypes
  <2> QED
    BY <1>1, <2>1, <2>2, <2>3
<1>5. \A t \in Threads : Counted(t)'
  BY <1>1, <1>3 DEF LoopsInv, Counted
<1>6. ASSUME ~quits, NEW t \in Threads PROVE Turning(t)'
  <2>1. Turning(t)
    BY <1>6 DEF LoopsInv
  <2>2. /\ joined_'[t] <=> t < i'
        /\ exiting_'[t] => tpc'[t] = "exited"
        /\ quit_'[t] => t < i'
    BY <1>0, <1>1, <1>3, <2>1 DEF Turning, LoopsInv, PoolTypes
  <2> QED
    BY <1>1, <1>3, <2>1, <2>2 DEF Turning
<1> QED
  BY <1>1, <1>2, <1>3, <1>4, <1>5, <1>6 DEF LoopsInv, HandsOut

\* A thread of the pool goes from one place to the next.
LEMMA ThreadMoves ==
    ASSUME LoopsInv, NEW t \in Threads, NEW to \in ThreadPlaces \ {"none", "routine"},
           tpc[t] # "none", UNCHANGED <<picked, base, thread, exiting_>>,
           tpc' = [tpc EXCEPT ![t] = to], asleep' \in BOOLEAN,
           latch_' = [latch_ EXCEPT ![t] = 0],
           owning_loop_' = [owning_loop_ EXCEPT ![t] = (to \in {"loop", "left"})],
           quit_' = quit_, ~quits => check_failed' = "no",
           ~quits /\ to \in {"left", "clear", "exited"} => quit_[t],
           ~quits => ~exiting_[t],
           tpc[t] \in {"loop", "left", "clear", "exited"} => to \in {"left", "clear", "exited"}
    PROVE  LoopsInv'
<1>1. /\ UNCHANGED <<num_threads_, quits, loops_, base_at, i, loop, start_called_, started_, joined_,
                     exiting_>>
      /\ Begun' = Begun /\ HandedOut' = HandedOut /\ (Ending' <=> Ending)
  BY Zenon DEF picked, base, thread, Begun, HandedOut, Starting, Ending
<1>2. PoolTypes'
  BY <1>1 DEF LoopsInv, PoolTypes
<1>3. ASSUME NEW u \in Threads PROVE Counted(u)'
  <2>1. Counted(u) /\ Counted(t)
    BY DEF LoopsInv
  <2>2. CASE u # t
    <3>1. tpc'[u] = tpc[u] /\ owning_loop_'[u] = owning_loop_[u] /\ latch_'[u] = latch_[u]
      BY <2>2 DEF LoopsInv, PoolTypes
    <3> QED
      BY <1>1, <2>1, <3>1 DEF Counted
  <2>3. CASE u = t
    <3>1. tpc'[t] = to /\ (owning_loop_'[t] <=> to \in {"loop", "left"}) /\ latch_'[t] = 0
      BY Zenon DEF LoopsInv, PoolTypes
    <3> QED
      BY <1>1, <2>1, <2>3, <3>1 DEF Counted
  <2> QED
    BY <2>2, <2>3
<1>4. ASSUME ~quits, NEW u \in Threads PROVE Turning(u)'
  <2>1. Turning(u)
    BY <1>4 DEF LoopsInv
  <2>2. CASE u # t
    <3>1. tpc'[u] = tpc[u] /\ owning_loop_'[u] = owning_loop_[u]
      BY <2>2 DEF LoopsInv, PoolTypes
    <3> QED
      BY <1>1, <2>1, <3>1 DEF Turning
  <2>3. CASE u = t
    <3>1. /\ tpc'[t] = to /\ (owning_loop_'[t] <=> to \in {"loop", "left"})
          /\ ~exiting_[t] /\ (to \in {"left", "clear", "exited"} => quit_[t])
      BY <1>4, Zenon DEF LoopsInv, PoolTypes
    <3> QED
      BY <1>1, <2>1, <2>3, <3>1 DEF Turning
  <2> QED
    BY <2>2, <2>3
<1> QED
  BY <1>1, <1>2, <1>3, <1>4, Zenon DEF LoopsInv, HandsOut

\* Every step of a thread is such a move.
LEMMA LoopThreadKeeps == ASSUME LoopsInv, NEW t \in Threads, LoopThreadStep(t) PROVE LoopsInv'
<1>0. /\ PoolTypes /\ Counted(t) /\ (~quits => check_failed = "no" /\ Turning(t))
      /\ latch_[t] \in {0, 1} /\ tpc[t] \in ThreadPlaces
  BY DEF LoopsInv, PoolTypes
<1>1. tpc[t] \notin {"none", "routine"} => latch_ = [latch_ EXCEPT ![t] = 0]
  <2>1. tpc[t] \notin {"none", "routine"} => latch_[t] = 0
    BY <1>0 DEF Counted
  <2> QED
    BY <1>0, <2>1 DEF PoolTypes
<1>2. owning_loop_[t] = (tpc[t] \in {"loop", "left"})
  BY <1>0 DEF Counted, PoolTypes
<1>3. ASSUME (tpc[t] \in {"loop", "left"}) = (tpc'[t] \in {"loop", "left"})
      PROVE  owning_loop_ = [owning_loop_ EXCEPT ![t] = (tpc'[t] \in {"loop", "left"})]
  BY <1>0, <1>2, <1>3 DEF PoolTypes
<1>4. ~quits /\ tpc[t] # "exited" => ~exiting_[t]
  BY <1>0 DEF Turning
<1>5. CASE count_down(t)
  <2>1. /\ tpc[t] = "routine" /\ tpc' = [tpc EXCEPT ![t] = "main"] /\ asleep' \in BOOLEAN
        /\ UNCHANGED <<picked, base, thread, owning_loop_, exiting_, quit_, check_failed>>
        /\ latch_' = [latch_ EXCEPT ![t] = latch_[t] - 1]
    BY <1>0, <1>5, Zenon DEF count_down, ThreadStep, PoolTypes
  <2>2. latch_' = [latch_ EXCEPT ![t] = 0]
    <3>1. latch_[t] = 1
      BY <1>0, <2>1 DEF Counted
    <3> QED
      BY <2>1, <3>1
  <2>3. tpc'[t] = "main" /\ "main" \in ThreadPlaces
    BY <1>0, <2>1 DEF PoolTypes, ThreadPlaces
  <2>4. owning_loop_' = [owning_loop_ EXCEPT ![t] = ("main" \in {"loop", "left"})]
    BY <1>3, <2>1, <2>3
  <2> QED
    BY <1>0, <1>4, <2>1, <2>2, <2>3, <2>4, ThreadMoves, Zenon
<1>6. ASSUME InitLoop(t) \/ Publish(t) \/ LeaveLoop(t) \/ Unpublish(t) \/ ExitLoop(t)
      PROVE  LoopsInv'
  <2>1. PICK to \in ThreadPlaces \ {"none", "routine"} :
          /\ tpc' = [tpc EXCEPT ![t] = to]
          /\ <<tpc[t], to>> \in {<<"main", "init">>, <<"init", "loop">>, <<"loop", "left">>,
                                  <<"left", "clear">>, <<"clear", "exited">>}
    BY <1>6, Zenon DEF InitLoop, Publish, LeaveLoop, Unpublish, ExitLoop, ThreadStep, ThreadPlaces
  <2>2. /\ asleep' \in BOOLEAN
        /\ UNCHANGED <<picked, base, thread, latch_, exiting_, quit_>>
    BY <1>0, <1>6, Zenon DEF InitLoop, Publish, LeaveLoop, Unpublish, ExitLoop, ThreadStep, PoolTypes
  <2>3. latch_' = [latch_ EXCEPT ![t] = 0]
    BY <1>1, <2>1, <2>2
  <2>4. tpc'[t] = to
    BY <1>0, <2>1 DEF PoolTypes
  <2>5. owning_loop_' = [owning_loop_ EXCEPT ![t] = (to \in {"loop", "left"})]
    <3>1. CASE Publish(t)
      BY <2>1, <3>1, Zenon DEF Publish, ThreadStep
    <3>2. CASE Unpublish(t)
      <4>1. tpc[t] = "left" /\ owning_loop_' = [owning_loop_ EXCEPT ![t] = FALSE]
        BY <3>2, Zenon DEF Unpublish, ThreadStep
      <4>2. (to \in {"loop", "left"}) = FALSE
        BY <2>1, <4>1
      <4> QED
        BY <4>1, <4>2, Zenon
    <3>3. CASE InitLoop(t) \/ LeaveLoop(t) \/ ExitLoop(t)
      <4>1. /\ owning_loop_' = owning_loop_
            /\ (tpc[t] \in {"loop", "left"}) = (to \in {"loop", "left"})
        BY <2>1, <3>3 DEF InitLoop, LeaveLoop, ExitLoop, ThreadStep
      <4> QED
        BY <1>3, <2>4, <4>1
    <3> QED
      BY <1>6, <3>1, <3>2, <3>3
  <2>6. ASSUME ~quits PROVE check_failed' = "no"
    <3>1. check_failed = "no"
      BY <1>0, <2>6
    <3>2. Unpublish(t) => ~exiting_[t]
      BY <1>4, <2>6, Zenon DEF Unpublish, ThreadStep
    <3> QED
      BY <1>6, <3>1, <3>2, Zenon DEF InitLoop, Publish, LeaveLoop, Unpublish, ExitLoop, LoopsCheck
  <2>7. ~quits /\ to \in {"left", "clear", "exited"} => quit_[t]
    BY <1>0, <1>6, <2>1, Zenon DEF Turning, InitLoop, Publish, LeaveLoop, Unpublish, ExitLoop, ThreadStep
  <2>8. ~quits => ~exiting_[t]
    BY <1>4, <2>1
  <2>9. /\ tpc[t] # "none"
        /\ tpc[t] \in {"loop", "left", "clear", "exited"} => to \in {"left", "clear", "exited"}
    BY <2>1
  <2> QED
    BY <2>1, <2>2, <2>3, <2>5, <2>6, <2>7, <2>8, <2>9, ThreadMoves, Zenon
<1> QED
  BY <1>5, <1>6 DEF LoopThreadStep

\* A callback quits its loop.
LEMMA CallbackQuitsKeeps == ASSUME LoopsInv, NEW t \in Threads, CallbackQuits(t) PROVE LoopsInv'
<1>1. /\ quits /\ quit_' = [quit_ EXCEPT ![t] = TRUE]
      /\ UNCHANGED <<num_threads_, quits, loops_, base_at, i, loop, asleep, start_called_, started_, joined_,
                     latch_, owning_loop_, exiting_, tpc>>
  BY DEF CallbackQuits, picked, base, thread
<1>2. PoolTypes'
  BY <1>1 DEF LoopsInv, PoolTypes
<1>3. Begun' = Begun /\ HandedOut' = HandedOut
  BY <1>1 DEF Begun, HandedOut, Starting
<1> QED
  BY <1>1, <1>2, <1>3 DEF LoopsInv, HandsOut, Counted

\* Stuttering.
LEMMA LoopsStutter == ASSUME LoopsInv, UNCHANGED lpvars PROVE LoopsInv'
<1>1. UNCHANGED <<num_threads_, quits, loops_, base_at, i, loop, asleep, start_called_, started_, joined_,
                  latch_, owning_loop_, exiting_, tpc, quit_, check_failed>>
  BY DEF lpvars, picked, base, thread
<1>2. PoolTypes'
  BY <1>1 DEF LoopsInv, PoolTypes
<1>3. Begun' = Begun /\ HandedOut' = HandedOut /\ (Ending' <=> Ending)
  BY <1>1 DEF Begun, HandedOut, Starting, Ending
<1>4. \A t \in Threads : Counted(t)' /\ (Turning(t) => Turning(t)')
  BY <1>1, <1>3, Zenon DEF LoopsInv, Counted, Turning
<1> QED
  BY <1>1, <1>2, <1>3, <1>4 DEF LoopsInv, HandsOut

\* For any number of threads and in every order of the steps of the two handshakes: latches
\* are counted down once and loops_ is in the order of the threads; and if only the pool
\* quits loops, no check fails, quit_loop calls no loop that is gone, and every loop that
\* is handed out turns.
THEOREM LoopsAlwaysHandedOut == LoopsSpec => []LoopsHandedOut
<1>1. LoopsInv /\ [LoopsNext]_lpvars => LoopsInv'
  BY StartAsyncKeeps, StartedKeeps, LatchWaitKeeps, LoopWaitKeeps, LoopsWakeKeeps, EndMoves, QuitLoopKeeps,
     JoinLoopKeeps, LoopThreadKeeps, CallbackQuitsKeeps, LoopsStutter DEF LoopsNext, BaseStep
<1> QED
  BY <1>1, LoopsInvInit, LoopsInvImplies, PTL DEF LoopsSpec
=============================================================================
