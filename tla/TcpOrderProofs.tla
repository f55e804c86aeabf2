--------------------------- MODULE TcpOrderProofs ---------------------------
(***************************************************************************)
(* Proof that what is sent on a TcpConnection leaves whole, once, and in   *)
(* the order of each caller, for any users, messages, marks and ways of    *)
(* using it.                                                               *)
(***************************************************************************)
EXTENDS TcpConnectionProofs

-----------------------------------------------------------------------------
(* Sequences.                                                              *)

\* x occurs in s before y.
Before(s, x, y) == \E i, j \in DOMAIN s : i < j /\ s[i] = x /\ s[j] = y

\* What Append adds to that order.
LEMMA BeforeIs ==
    ASSUME NEW S, NEW s \in Seq(S)
    PROVE  /\ \A x, y : Before(s, x, y) => x \in Range(s) /\ y \in Range(s)
           /\ \A m \in S : \A x, y :
                 Before(Append(s, m), x, y) <=> Before(s, x, y) \/ (y = m /\ x \in Range(s))
<1>1. \A x, y : Before(s, x, y) => x \in Range(s) /\ y \in Range(s)
  BY Zenon DEF Before, Range
<1>2. ASSUME NEW m \in S, NEW x, NEW y
      PROVE  Before(Append(s, m), x, y) <=> Before(s, x, y) \/ (y = m /\ x \in Range(s))
  <2> DEFINE r == Append(s, m)
  <2>1. /\ \A k \in DOMAIN s : k \in DOMAIN r /\ r[k] = s[k] /\ k < Len(s) + 1
        /\ \A k \in DOMAIN r : k \in DOMAIN s \/ k = Len(s) + 1
        /\ Len(s) + 1 \in DOMAIN r /\ r[Len(s) + 1] = m
        /\ \A k \in DOMAIN r : ~(Len(s) + 1 < k)
    OBVIOUS
  <2> HIDE DEF r
  <2>2. ASSUME Before(r, x, y) PROVE Before(s, x, y) \/ (y = m /\ x \in Range(s))
    <3>1. PICK i \in DOMAIN r, j \in DOMAIN r : i < j /\ r[i] = x /\ r[j] = y
      BY <2>2, Zenon DEF Before
    <3>2. i \in DOMAIN s /\ s[i] = x
      BY <2>1, <3>1, Zenon
    <3>3. CASE j \in DOMAIN s
      BY <2>1, <3>1, <3>2, <3>3, Zenon DEF Before
    <3>4. CASE j = Len(s) + 1
      BY <2>1, <3>1, <3>2, <3>4, Zenon DEF Range
    <3> QED
      BY <2>1, <3>3, <3>4, Zenon
  <2>3. ASSUME Before(s, x, y) PROVE Before(r, x, y)
    <3>1. PICK i \in DOMAIN s, j \in DOMAIN s : i < j /\ s[i] = x /\ s[j] = y
      BY <2>3, Zenon DEF Before
    <3> QED
      BY <2>1, <3>1, Zenon DEF Before
  <2>4. ASSUME y = m, x \in Range(s) PROVE Before(r, x, y)
    <3>1. PICK i \in DOMAIN s : s[i] = x
      BY <2>4, Zenon DEF Range
    <3> QED
      BY <2>1, <2>4, <3>1, Zenon DEF Before
  <2> QED
    BY <2>2, <2>3, <2>4 DEF r
<1> QED
  BY <1>1, <1>2

\* What Append adds to the elements.
LEMMA AppendHas ==
    ASSUME NEW S, NEW q \in Seq(S), NEW g \in S
    PROVE  /\ Append(q, g) \in Seq(S)
           /\ Range(Append(q, g)) = Range(q) \cup {g}
           /\ \A f : (Once(q, f) /\ (g = f => f \notin Range(q))) => Once(Append(q, g), f)
BY AppendIs

\* A sequence that splits in two.
LEMMA SplitIs ==
    ASSUME NEW S, NEW u \in Seq(S), NEW n \in 0 .. Len(u)
    PROVE  /\ SubSeq(u, 1, n) \in Seq(S) /\ SubSeq(u, n + 1, Len(u)) \in Seq(S)
           /\ SubSeq(u, 1, n) \o SubSeq(u, n + 1, Len(u)) = u
<1> DEFINE a == SubSeq(u, 1, n)
           b == SubSeq(u, n + 1, Len(u))
<1>0. Len(u) \in Nat /\ n \in Nat /\ n <= Len(u)
  OBVIOUS
<1>1. a \in Seq(S) /\ Len(a) = n /\ \A i \in 1 .. n : a[i] = u[i]
  OBVIOUS
<1>2. b \in Seq(S) /\ Len(b) = Len(u) - n /\ \A i \in 1 .. Len(u) - n : b[i] = u[n + i]
  OBVIOUS
<1> HIDE DEF a, b
<1>3. a \o b \in Seq(S) /\ Len(a \o b) = Len(u)
  <2>1. a \o b \in Seq(S) /\ Len(a \o b) = Len(a) + Len(b)
    BY <1>1, <1>2, ConcatProperties, Zenon
  <2> QED
    BY <1>0, <1>1, <1>2, <2>1
<1>4. ASSUME NEW i \in 1 .. Len(a \o b) PROVE (a \o b)[i] = u[i]
  <2>1. CASE i <= n
    BY <1>0, <1>1, <1>2, <1>3, <2>1, ConcatProperties
  <2>2. CASE i > n
    <3>1. i - n \in 1 .. Len(u) - n /\ n + (i - n) = i
      BY <1>0, <1>3, <2>2
    <3>2. b[i - n] = u[i]
      BY <1>2, <3>1
    <3> QED
      BY <1>0, <1>1, <1>2, <1>3, <2>2, <3>2, ConcatProperties
  <2> QED
    BY <1>0, <2>1, <2>2
<1>5. a \o b = u
  BY <1>3, <1>4, SeqEqual, Zenon
<1> QED
  BY <1>1, <1>2, <1>5, Zenon DEF a, b

\* The units of one more message.
LEMMA TwiceIs ==
    ASSUME NEW S, NEW h \in Seq(S), NEW m \in S
    PROVE  Twice(Append(h, m)) = Twice(h) \o <<m, m>>
<1> DEFINE r == Append(h, m)
           u == <<m, m>>
<1>1. /\ r \in Seq(S) /\ Len(h) \in Nat /\ Len(r) = Len(h) + 1
      /\ \A i \in 1 .. Len(h) : r[i] = h[i] /\ h[i] \in S
      /\ r[Len(h) + 1] = m
  OBVIOUS
<1>2. u \in Seq(S) /\ Len(u) = 2 /\ \A i \in 1 .. 2 : u[i] = m
  OBVIOUS
<1> HIDE DEF r, u
<1>3. /\ \A i \in 1 .. 2 * Len(h) : (i + 1) \div 2 \in 1 .. Len(h)
      /\ \A i \in 1 .. 2 * Len(h) + 2 : (i + 1) \div 2 \in 1 .. Len(h) + 1
      /\ \A i \in 1 .. 2 * Len(h) + 2 : i > 2 * Len(h) => (i + 1) \div 2 = Len(h) + 1
  BY <1>1
<1>4. Twice(h) \in Seq(S) /\ Len(Twice(h)) = 2 * Len(h)
  <2>1. Twice(h) \in [1 .. 2 * Len(h) -> S]
    BY <1>1, <1>3 DEF Twice
  <2> QED
    BY <1>1, <2>1
<1>5. Twice(r) \in Seq(S) /\ Len(Twice(r)) = 2 * Len(h) + 2
  <2>0. 2 * Len(r) = 2 * Len(h) + 2 /\ \A i \in 1 .. Len(h) + 1 : r[i] \in S
    BY <1>1
  <2>1. Twice(r) \in [1 .. 2 * Len(h) + 2 -> S]
    BY <1>1, <1>3, <2>0 DEF Twice
  <2> QED
    BY <1>1, <2>1
<1>6. /\ Twice(h) \o u \in Seq(S) /\ Len(Twice(h) \o u) = 2 * Len(h) + 2
      /\ \A i \in 1 .. 2 * Len(h) + 2 :
            (Twice(h) \o u)[i] = IF i <= 2 * Len(h) THEN Twice(h)[i] ELSE u[i - 2 * Len(h)]
  <2> DEFINE v == Twice(h)
  <2>0. v \in Seq(S) /\ Len(v) = 2 * Len(h)
    BY <1>4
  <2> HIDE DEF v
  <2>1. /\ v \o u \in Seq(S) /\ Len(v \o u) = Len(v) + Len(u)
        /\ \A i \in 1 .. Len(v) + Len(u) : (v \o u)[i] = IF i <= Len(v) THEN v[i] ELSE u[i - Len(v)]
    BY <1>2, <2>0, ConcatProperties, Zenon
  <2> QED
    BY <1>2, <2>0, <2>1, Zenon DEF v
<1>7. ASSUME NEW i \in 1 .. 2 * Len(h) + 2 PROVE Twice(r)[i] = (Twice(h) \o u)[i]
  <2>0. Twice(r)[i] = r[(i + 1) \div 2]
    BY <1>1, <1>7 DEF Twice
  <2>1. CASE i <= 2 * Len(h)
    <3>1. i \in 1 .. 2 * Len(h)
      BY <1>1, <2>1
    <3>2. Twice(h)[i] = h[(i + 1) \div 2] /\ (i + 1) \div 2 \in 1 .. Len(h)
      BY <1>3, <3>1 DEF Twice
    <3>3. (Twice(h) \o u)[i] = Twice(h)[i]
      BY <1>6, <2>1, Zenon
    <3> QED
      BY <1>1, <2>0, <3>2, <3>3
  <2>2. CASE i > 2 * Len(h)
    <3>0. i - 2 * Len(h) \in 1 .. 2 /\ ~(i <= 2 * Len(h))
      BY <1>1, <2>2
    <3>1. (i + 1) \div 2 = Len(h) + 1
      BY <1>3, <2>2, Zenon
    <3>2. (Twice(h) \o u)[i] = u[i - 2 * Len(h)]
      BY <1>6, <3>0, Zenon
    <3> QED
      BY <1>1, <1>2, <2>0, <3>0, <3>1, <3>2
  <2>3. i <= 2 * Len(h) \/ i > 2 * Len(h)
    BY <1>1
  <2> QED
    BY <2>1, <2>2, <2>3, Zenon
<1>8. Twice(r) = Twice(h) \o u
  BY <1>5, <1>6, <1>7, SeqEqual
<1> QED
  BY <1>8 DEF r, u
-----------------------------------------------------------------------------
(* The invariant.                                                          *)

\* Who sends, and what carries a message to the loop.
Senders == Users \cup {Loop}
Send(m) == <<"send_in_loop", m>>

\* No functor or call takes a message any more: the connection is closed, or nothing waits
\* in its buffer and the socket fails every write, or nobody holds it.
Closed == state_ = "kDisconnected"
Deaf == output_buffer_ = <<>> /\ (wr_shut \/ peer \in {"reset", "closed"})
Gone ==
    /\ ~in_map /\ held = {} /\ finishing = 0 /\ Range(todo) \subseteq {"functors"}
    /\ \A f \in Range(queue) : f[1] \notin Strong
Stuck == Closed \/ Deaf \/ Gone

\* The types, and that a user in a call holds the connection.
Fitting ==
    /\ accepted \in [Senders -> Seq(Payloads)]
    /\ handled \in Seq(Payloads) /\ wire \in Seq(Payloads)
    /\ \A t \in Users : call[t] # Idle => t \in held

\* A message has one sender.
Apart == \A t, u \in Senders : \A x : (x \in Range(accepted[t]) /\ x \in Range(accepted[u])) => t = u

\* What left was sent, and leaves once.
Taken ==
    /\ IsInjective(handled)
    /\ \A x \in Range(handled) : \E t \in Senders : x \in Range(accepted[t])

\* What is queued was sent, is queued once and has not left.
Queued ==
    \A x \in Payloads : Send(x) \in Range(queue) =>
        /\ x \notin Range(handled) /\ Once(queue, Send(x))
        /\ \E t \in Senders : x \in Range(accepted[t])

\* What a user is about to queue is the last message it sent, not queued and not left.
Called ==
    \A t \in Users : \A x \in Payloads : call[t] = Send(x) =>
        /\ x \in Range(accepted[t]) /\ \A y : ~Before(accepted[t], x, y)
        /\ x \notin Range(handled) /\ Send(x) \notin Range(queue)

\* No message is lost while messages are taken.
Accounted ==
    \A t \in Senders : \A x \in Range(accepted[t]) :
        \/ Stuck
        \/ x \in Range(handled)
        \/ t \in Users /\ (Send(x) \in Range(queue) \/ call[t] = Send(x))

\* Messages are queued in their sender's order ...
OrderedIn(q) ==
    \A t \in Users : \A x, y \in Payloads : Before(accepted[t], x, y) =>
        \A a, b \in DOMAIN q : (q[a] = Send(x) /\ q[b] = Send(y)) => a < b

\* ... and leave in it.
Precedes(h, x, p) == \E q \in 1 .. p - 1 : h[q] = x
InOrder ==
    \A t \in Senders : \A x, y \in Payloads : Before(accepted[t], x, y) =>
        \A p \in DOMAIN handled : handled[p] = y => Precedes(handled, x, p)

\* What left, left whole.
Whole == wire \o output_buffer_ = Twice(handled)

\* The invariant.
OrderInv ==
    /\ Fitting /\ Apart /\ Taken /\ Queued /\ Called /\ Accounted
    /\ OrderedIn(queue) /\ InOrder /\ Whole

\* Nothing was sent on a new connection.
LEMMA OrderInvInit == Init => OrderInv
<1> SUFFICES ASSUME Init PROVE OrderInv
  OBVIOUS
<1>1. /\ accepted = [t \in Senders |-> <<>>] /\ handled = <<>> /\ wire = <<>> /\ output_buffer_ = <<>>
      /\ call = [t \in Users |-> Idle] /\ queue = <<Established>>
  BY DEF Init, Senders, Established
<1>2. \A t \in Senders : Range(accepted[t]) = {} /\ \A x, y : ~Before(accepted[t], x, y)
  BY <1>1, ShortIs DEF Before
<1>3. Range(queue) = {Established} /\ Range(handled) = {} /\ IsInjective(handled)
  BY <1>1, ShortIs, Zenon
<1>4. \A x : Send(x) # Established /\ Send(x) # Idle
  BY DEF Send, Established, Idle
<1>5. Fitting
  BY <1>1 DEF Fitting
<1>6. Whole
  <2>1. Twice(<<>>) = <<>>
    BY DEF Twice
  <2> QED
    BY <1>1, <2>1 DEF Whole
<1>7. Users \subseteq Senders
  BY DEF Senders
<1>8. Apart /\ Taken
  BY <1>2, <1>3, Zenon DEF Apart, Taken
<1>9. Queued
  BY <1>3, <1>4, Zenon DEF Queued
<1>10. Called
  <2>1. \A t \in Users : call[t] = Idle
    BY <1>1
  <2> QED
    BY <1>4, <2>1, Zenon DEF Called
<1>11. Accounted
  BY <1>2, Zenon DEF Accounted
<1>12. OrderedIn(queue) /\ InOrder
  BY <1>2, <1>7, Zenon DEF OrderedIn, InOrder
<1> QED
  BY <1>5, <1>6, <1>8, <1>9, <1>10, <1>11, <1>12 DEF OrderInv

\* The invariant says what SentInOrder says.
LEMMA OrderInvImplies == OrderInv => SentInOrder
<1> SUFFICES ASSUME OrderInv PROVE SentInOrder
  OBVIOUS
<1>1. ASSUME NEW t \in DOMAIN accepted, NEW i \in DOMAIN accepted[t], NEW j \in DOMAIN accepted[t],
             NEW p \in DOMAIN handled, i < j, accepted[t][j] = handled[p]
      PROVE  \E q \in 1 .. p - 1 : accepted[t][i] = handled[q]
  <2>1. t \in Senders /\ accepted[t] \in Seq(Payloads)
    BY DEF OrderInv, Fitting
  <2>2. accepted[t][i] \in Payloads /\ accepted[t][j] \in Payloads
    BY <2>1
  <2>3. Before(accepted[t], accepted[t][i], accepted[t][j])
    BY <1>1, Zenon DEF Before
  <2> QED
    BY <1>1, <2>1, <2>2, <2>3, Zenon DEF OrderInv, InOrder, Precedes
<1> QED
  BY <1>1 DEF OrderInv, Taken, Whole, SentInOrder

\* What a functor that sends is.
LEMMA SendsAre ==
    /\ \A x, y : Send(x) = Send(y) => x = y
    /\ \A x \in Payloads : Send(x) \in Functors /\ Send(x) \in UserFunctors
    /\ \A f \in Functors : f[1] = "send_in_loop" => f[2] \in Payloads /\ f = Send(f[2])
    /\ \A x : \A f \in Reads \cup {Established, Destroyed, <<"write_complete">>, <<"high_water_mark">>,
                                   <<"shutdown_in_loop">>, <<"force_close_in_loop">>, Idle} :
          f # Send(x)
    /\ \A x : Send(x)[1] = "send_in_loop"
BY DEF Send, Functors, UserFunctors, Sends, Reads, Established, Destroyed, Idle

-----------------------------------------------------------------------------
(* Once stuck, a connection stays so and takes nothing.                    *)

\* A closed connection stays closed.
LEMMA ClosedStays ==
    ASSUME ConnInv, [Next]_vars, Closed
    PROVE  Closed' /\ handled' = handled
<1>1. state_ = "kDisconnected" /\ state_ \notin {"kConnecting", "kConnected", "kDisconnecting"}
  BY DEF Closed
<1>2. CASE \E t \in Users : \/ \E m \in use.messages : UserSend(t, m)
                            \/ UserShutdown(t) \/ UserForceClose(t) \/ UserReading(t)
                            \/ UserForceCloseWithDelay(t) \/ Enqueue(t) \/ DropPtr(t)
  BY <1>1, <1>2 DEF Closed, UserSend, UserShutdown, UserForceClose, UserReading,
     UserForceCloseWithDelay, UserCall, send, shutdown, Closing, Reading, Enqueue, DropPtr, conn, history
<1>3. CASE RunFunctor
  <2>1. batch > 0
    BY <1>3 DEF RunFunctor
  <2>2. Head(queue)[1] # "connect_established"
    BY <1>1, <2>1, HeadQueue, FunctorsAre DEF ConnInv, Connecting
  <2>3. state_' = state_ \/ state_' = "kDisconnected"
    BY <1>3, <2>2, Zenon DEF RunFunctor, connect_destroyed, force_close_in_loop, handle_close, conn
  <2>4. handled' = handled
    BY <1>1, <1>3 DEF RunFunctor, send_in_loop
  <2> QED
    BY <1>1, <2>3, <2>4 DEF Closed
<1>4. CASE CallbackCalls
  BY <1>1, <1>4 DEF Closed, CallbackCalls, send, shutdown, Closing, Reading
<1>5. CASE CallbackReturns \/ Finish \/ RemoveChannel \/ HandleError \/ Swap \/ HandleWrite
  BY <1>1, <1>5 DEF Closed, CallbackReturns, Finish, RemoveChannel, HandleError, Swap, HandleWrite,
     conn, history
<1>6. CASE HandleClose \/ HandleRead
  BY <1>1, <1>6, Zenon DEF Closed, HandleClose, HandleRead, handle_close
<1>7. CASE PollStep \/ TimerFires \/ RemoveConnection \/ ServerDies \/ PeerCloses \/ UNCHANGED vars
  BY <1>1, <1>7, Zenon DEF Closed, PollStep, Poll, TimerFires, RemoveConnection, ServerDies, PeerCloses, vars,
     conn, history
<1> QED
  BY <1>2, <1>3, <1>4, <1>5, <1>6, <1>7, Zenon DEF Next, LoopStep

\* What send_in_loop does with a message when every write fails.
LEMMA DeafSend ==
    ASSUME ConnInv, NEW m, NEW q, send_in_loop(m, q), Deaf, ~Closed
    PROVE  output_buffer_' = <<>> /\ handled' = handled
<1>1. output_buffer_ = <<>> /\ ~is_write_event(ch) /\ state_ # "kDisconnected"
  BY DEF ConnInv, Buffered, Deaf, Closed
<1>2. WriteResults(2) = {-1}
  BY DEF Deaf, WriteResults
<1>3. output_buffer_' = <<>> \o <<>> /\ handled' = handled
  BY <1>1, <1>2 DEF send_in_loop
<1> QED
  BY <1>3

\* A socket that fails every write goes on doing so, and nothing enters the buffer.
LEMMA DeafStays ==
    ASSUME ConnInv, [Next]_vars, Deaf, ~Closed
    PROVE  Deaf' /\ handled' = handled
<1>1. /\ output_buffer_ = <<>> /\ ~is_write_event(ch) /\ state_ # "kDisconnected"
      /\ wr_shut \/ peer \in {"reset", "closed"}
      /\ wr_shut \in BOOLEAN
  BY DEF ConnInv, Typed, Buffered, Deaf, Closed
<1> SUFFICES /\ output_buffer_' = <<>> /\ handled' = handled
             /\ wr_shut => wr_shut'
             /\ peer \in {"reset", "closed"} => peer' \in {"reset", "closed"}
  BY <1>1, Zenon DEF Deaf
<1>2. CASE \E t \in Users : \/ \E m \in use.messages : UserSend(t, m)
                            \/ UserShutdown(t) \/ UserForceClose(t) \/ UserReading(t)
                            \/ UserForceCloseWithDelay(t) \/ Enqueue(t) \/ DropPtr(t)
  BY <1>1, <1>2 DEF UserSend, UserShutdown, UserForceClose, UserReading,
     UserForceCloseWithDelay, UserCall, Enqueue, DropPtr, conn, history, net
<1>3. CASE RunFunctor
  <2>1. peer' = peer
    BY <1>3 DEF RunFunctor
  <2>2. \/ UNCHANGED <<output_buffer_, handled, wr_shut>>
        \/ UNCHANGED <<output_buffer_, handled>> /\ shutdown_in_loop
        \/ \E m, q : send_in_loop(m, q) /\ UNCHANGED wr_shut
    BY <1>3, Zenon DEF RunFunctor, conn
  <2>3. \A m, q : send_in_loop(m, q) => output_buffer_' = <<>> /\ handled' = handled
    BY DeafSend, Zenon
  <2>4. shutdown_in_loop /\ wr_shut => wr_shut'
    BY <1>1, Zenon DEF shutdown_in_loop
  <2> QED
    BY <1>1, <2>1, <2>2, <2>3, <2>4, Zenon
<1>4. CASE CallbackCalls
  <2>1. peer' = peer
    BY <1>4 DEF CallbackCalls
  <2>2. \/ UNCHANGED <<output_buffer_, handled, wr_shut>>
        \/ UNCHANGED <<output_buffer_, handled>> /\ shutdown_in_loop
        \/ \E m, q : send_in_loop(m, q) /\ UNCHANGED wr_shut
    BY <1>4, Zenon DEF CallbackCalls, net
  <2>3. \A m, q : send_in_loop(m, q) => output_buffer_' = <<>> /\ handled' = handled
    BY DeafSend, Zenon
  <2>4. shutdown_in_loop /\ wr_shut => wr_shut'
    BY <1>1, Zenon DEF shutdown_in_loop
  <2> QED
    BY <1>1, <2>1, <2>2, <2>3, <2>4, Zenon
<1>5. CASE CallbackReturns \/ Finish \/ RemoveChannel \/ HandleError \/ Swap \/ HandleClose
  BY <1>1, <1>5 DEF CallbackReturns, Finish, RemoveChannel, HandleError, Swap, HandleClose,
     conn, history, net
<1>6. CASE HandleRead
  BY <1>1, <1>6 DEF HandleRead
<1>7. CASE HandleWrite
  BY <1>1, <1>7 DEF HandleWrite, history
<1>8. CASE PollStep \/ TimerFires \/ RemoveConnection \/ ServerDies \/ PeerCloses \/ UNCHANGED vars
  BY <1>1, <1>8, Zenon DEF PollStep, Poll, TimerFires, RemoveConnection, ServerDies, PeerCloses, vars,
     conn, history, net
<1> QED
  BY <1>2, <1>3, <1>4, <1>5, <1>6, <1>7, <1>8, Zenon DEF Next, LoopStep

\* A connection nobody holds is held by nobody again.
LEMMA GoneStays ==
    ASSUME ConnInv, Fitting, [Next]_vars, Gone
    PROVE  Gone' /\ handled' = handled
<1>1. /\ ~in_map /\ held = {} /\ finishing = 0 /\ Range(todo) \subseteq {"functors"}
      /\ \A f \in Range(queue) : f[1] \notin Strong
  BY DEF Gone
<1>2. todo # <<>> => Head(todo) = "functors" /\ Range(Tail(todo)) \subseteq {"functors"}
  <2>0. todo \in Seq(Items)
    BY DEF ConnInv, Typed
  <2>1. ASSUME todo # <<>> PROVE Head(todo) \in Range(todo) /\ Range(todo) = Range(Tail(todo)) \cup {Head(todo)}
    BY <2>0, <2>1, TailIs, Zenon
  <2> QED
    BY <1>1, <2>1
<1>3. todo = <<>> => ~Alive
  BY <1>1 DEF Alive, Range
<1>4. \A t \in Users : t \notin held /\ call[t] = Idle
  BY <1>1 DEF Fitting
<1>5. /\ \A item \in {"callback", "finish", "remove", "close", "error", "read", "write"} : ~At(item)
  BY <1>2 DEF At
<1>6. CASE \E t \in Users : \/ \E m \in use.messages : UserSend(t, m)
                            \/ UserShutdown(t) \/ UserForceClose(t) \/ UserReading(t)
                            \/ UserForceCloseWithDelay(t) \/ Enqueue(t) \/ DropPtr(t)
  BY <1>4, <1>6, Zenon DEF UserSend, UserShutdown, UserForceClose, UserReading,
     UserForceCloseWithDelay, UserCall, Enqueue, DropPtr
<1>7. CASE RunFunctor
  <2>1. batch > 0 /\ todo = <<>>
    BY <1>7 DEF RunFunctor
  <2>2. /\ queue' = Tail(queue) /\ todo' = todo /\ held' = held /\ handled' = handled
        /\ in_map' = in_map /\ finishing' = finishing
    BY <1>3, <1>7, <2>1 DEF RunFunctor, owner
  <2>3. Range(queue') \subseteq Range(queue)
    BY <2>1, <2>2, HeadQueue
  <2> QED
    BY <1>1, <2>2, <2>3 DEF Gone
<1>8. CASE CallbackCalls \/ CallbackReturns \/ Finish \/ RemoveChannel \/ HandleError \/ HandleClose
           \/ HandleRead \/ HandleWrite
  BY <1>5, <1>8, Zenon DEF CallbackCalls, CallbackReturns, Finish, RemoveChannel, HandleError,
     HandleClose, HandleRead, HandleWrite
<1>9. CASE Swap
  <2>1. /\ queue' = queue /\ todo' = Tail(todo) /\ todo # <<>> /\ held' = held /\ handled' = handled
        /\ in_map' = in_map /\ finishing' = finishing
    BY <1>9 DEF Swap, At, owner, users, history
  <2> QED
    BY <1>1, <1>2, <2>1 DEF Gone
<1>10. CASE PollStep
  <2>1. PICK revents : Poll(revents)
    BY <1>10, Zenon DEF PollStep
  <2>2. /\ queue' = queue /\ held' = held /\ handled' = handled
        /\ in_map' = in_map /\ finishing' = finishing
        /\ todo = <<>> /\ todo' = handle_event(revents) \o <<"functors">>
    BY <2>1 DEF Poll, owner, users, history
  <2>3. revents = {}
    BY <1>3, <2>1, <2>2 DEF Poll
  <2>4. todo' = <<"functors">>
    BY <2>2, <2>3 DEF handle_event
  <2>5. Range(todo') = {"functors"}
    BY <2>4, ShortIs, Zenon
  <2> QED
    BY <1>1, <2>2, <2>5 DEF Gone
<1>11. CASE TimerFires
  <2>1. /\ queue' = queue /\ held' = held /\ handled' = handled
        /\ in_map' = in_map /\ finishing' = finishing /\ todo' = <<"functors">>
    BY <1>3, <1>11 DEF TimerFires, owner, history
  <2>2. Range(todo') = {"functors"}
    BY <2>1, ShortIs, Zenon
  <2> QED
    BY <1>1, <2>1, <2>2 DEF Gone
<1>12. CASE RemoveConnection
  <2>1. finishing > 0
    BY <1>12, Zenon DEF RemoveConnection
  <2> QED
    BY <1>1, <2>1
<1>13. CASE ServerDies
  BY <1>1, <1>13 DEF ServerDies, users, history, Gone
<1>14. CASE PeerCloses \/ UNCHANGED vars
  BY <1>1, <1>14 DEF PeerCloses, vars, loop, owner, users, history, Gone
<1> QED
  BY <1>6, <1>7, <1>8, <1>9, <1>10, <1>11, <1>12, <1>13, <1>14, Zenon DEF Next, LoopStep

\* Together.
LEMMA StuckStays ==
    ASSUME ConnInv, Fitting, [Next]_vars, Stuck
    PROVE  Stuck' /\ handled' = handled
BY ClosedStays, DeafStays, GoneStays, Zenon DEF Stuck
-----------------------------------------------------------------------------
(* Steps that send nothing.                                                *)

\* q holds the sends of the queue, in order, but for those of the messages in d.
QueueKeeps(q, d) ==
    /\ q \in Seq(Functors) /\ OrderedIn(q)
    /\ \A x \in Payloads : /\ Send(x) \in Range(q) <=> (Send(x) \in Range(queue) /\ x \notin d)
                           /\ Send(x) \in Range(q) => Once(q, Send(x))

\* The queue itself does.
LEMMA SameKeeps == (ConnInv /\ OrderInv) => QueueKeeps(queue, {})
BY Zenon DEF ConnInv, Typed, OrderInv, Queued, QueueKeeps

\* And with a functor that sends nothing.
LEMMA AppendKeeps ==
    ASSUME NEW q, NEW d, QueueKeeps(q, d), NEW f \in Functors, \A x : f # Send(x)
    PROVE  QueueKeeps(Append(q, f), d)
<1> DEFINE r == Append(q, f)
<1>0. q \in Seq(Functors)
  BY DEF QueueKeeps
<1>1. /\ r \in Seq(Functors) /\ Range(r) = Range(q) \cup {f}
      /\ \A g : (Once(q, g) /\ (f = g => g \notin Range(q))) => Once(r, g)
  BY <1>0, AppendHas, Zenon
<1>2. \A k \in DOMAIN r : r[k] # f => k \in DOMAIN q /\ r[k] = q[k]
  BY <1>0
<1> HIDE DEF r
<1>3. OrderedIn(r)
  <2>1. OrderedIn(q)
    BY DEF QueueKeeps
  <2>2. \A a \in DOMAIN r : \A x : r[a] = Send(x) => a \in DOMAIN q /\ q[a] = Send(x)
    BY <1>2, Zenon
  <2> QED
    BY <2>1, <2>2, Zenon DEF OrderedIn
<1>4. ASSUME NEW x \in Payloads
      PROVE  /\ Send(x) \in Range(r) <=> (Send(x) \in Range(queue) /\ x \notin d)
             /\ Send(x) \in Range(r) => Once(r, Send(x))
  <2>1. Send(x) \in Range(r) <=> Send(x) \in Range(q)
    BY <1>1
  <2>2. Send(x) \in Range(q) => Once(q, Send(x))
    BY Zenon DEF QueueKeeps
  <2>3. Once(q, Send(x)) => Once(r, Send(x))
    BY <1>1, Zenon
  <2> QED
    BY <2>1, <2>2, <2>3, Zenon DEF QueueKeeps
<1>5. QueueKeeps(r, d)
  BY <1>1, <1>3, <1>4, Zenon DEF QueueKeeps
<1> QED
  BY <1>5 DEF r

\* And without its head.
LEMMA TailKeeps ==
    ASSUME ConnInv, OrderInv, batch > 0
    PROVE  /\ Head(queue) \in Functors
           /\ (\A x : Head(queue) # Send(x)) => QueueKeeps(Tail(queue), {})
           /\ \A x \in Payloads : Head(queue) = Send(x) => QueueKeeps(Tail(queue), {x})
           /\ \A t \in Users : \A x, y \in Payloads :
                 (Before(accepted[t], x, y) /\ Head(queue) = Send(y)) => Send(x) \notin Range(queue)
<1> DEFINE q == Tail(queue)
           f == Head(queue)
<1>1. /\ q \in Seq(Functors) /\ f \in Functors /\ f \in Range(queue)
      /\ Range(queue) = Range(q) \cup {f}
      /\ \A g : Once(queue, g) => Once(q, g) /\ (f = g => g \notin Range(q))
  BY HeadQueue, Zenon
<1>2. /\ 1 \in DOMAIN queue /\ f = queue[1]
      /\ \A k \in DOMAIN queue : ~(k < 1)
      /\ \A k \in DOMAIN q : k + 1 \in DOMAIN queue /\ q[k] = queue[k + 1] /\ k \in Nat
  <2>1. queue \in Seq(Functors) /\ batch \in 0 .. Len(queue)
    BY DEF ConnInv, Typed
  <2>2. queue # <<>>
    BY <2>1
  <2> QED
    BY <2>1, <2>2
<1> HIDE DEF q, f
<1>3. OrderedIn(queue) /\ \A x \in Payloads : Send(x) \in Range(queue) => Once(queue, Send(x))
  BY DEF OrderInv, Queued
<1>4. OrderedIn(q)
  <2> SUFFICES ASSUME NEW t \in Users, NEW x \in Payloads, NEW y \in Payloads, Before(accepted[t], x, y),
                      NEW a \in DOMAIN q, NEW b \in DOMAIN q, q[a] = Send(x), q[b] = Send(y)
               PROVE  a < b
    BY Zenon DEF OrderedIn
  <2>1. a + 1 < b + 1
    BY <1>2, <1>3, Zenon DEF OrderedIn
  <2> QED
    BY <1>2, <2>1
<1>5. ASSUME NEW x \in Payloads
      PROVE  /\ Send(x) \in Range(q) => Once(q, Send(x))
             /\ Send(x) \in Range(q) <=> (Send(x) \in Range(queue) /\ f # Send(x))
  BY <1>1, <1>3, Zenon
<1>6. (\A x : f # Send(x)) => QueueKeeps(q, {})
  BY <1>1, <1>4, <1>5, Zenon DEF QueueKeeps
<1>7. ASSUME NEW x \in Payloads, f = Send(x) PROVE QueueKeeps(q, {x})
  <2>1. \A y \in Payloads : f # Send(y) <=> y \notin {x}
    BY <1>7, SendsAre, Zenon
  <2> QED
    BY <1>1, <1>4, <1>5, <2>1, Zenon DEF QueueKeeps
<1>8. ASSUME NEW t \in Users, NEW x \in Payloads, NEW y \in Payloads, Before(accepted[t], x, y), f = Send(y),
             Send(x) \in Range(queue)
      PROVE  FALSE
  <2>1. PICK a \in DOMAIN queue : queue[a] = Send(x)
    BY <1>8, Zenon DEF Range
  <2>2. a < 1
    BY <1>2, <1>3, <1>8, <2>1, Zenon DEF OrderedIn
  <2> QED
    BY <1>2, <2>2, Zenon
<1> QED
  BY <1>1, <1>6, <1>7, <1>8 DEF q, f

\* The messages users are about to queue are the same.
CallKeeps ==
    /\ \A t \in Users : \A x \in Payloads : call'[t] = Send(x) <=> call[t] = Send(x)
    /\ \A t \in Users : call'[t] # Idle => t \in held'

\* The invariant survives a step that takes no message and, unless it leaves the
\* connection stuck, loses none.
LEMMA QuietOrder ==
    ASSUME OrderInv, UNCHANGED <<accepted, handled>>, Stuck => Stuck',
           NEW d, QueueKeeps(queue', d), d = {} \/ Stuck',
           CallKeeps, wire' \in Seq(Payloads), Whole'
    PROVE  OrderInv'
<1>0. \A t \in Senders : \A x \in Range(accepted[t]) : x \in Payloads
  BY DEF OrderInv, Fitting, Range
<1>1. Fitting'
  BY Zenon DEF OrderInv, Fitting, CallKeeps
<1>2. Apart' /\ Taken' /\ InOrder'
  <2>1. Apart /\ Taken /\ InOrder
    BY DEF OrderInv
  <2>2. Apart'
    BY <2>1 DEF Apart
  <2>3. Taken'
    BY <2>1 DEF Taken
  <2>4. InOrder'
    BY <2>1 DEF InOrder
  <2> QED
    BY <2>2, <2>3, <2>4
<1>3. Queued'
  BY Zenon DEF OrderInv, Queued, QueueKeeps
<1>4. Called'
  BY Zenon DEF OrderInv, Called, QueueKeeps, CallKeeps
<1>5. Accounted'
  <2> SUFFICES ASSUME NEW t \in Senders, NEW x \in Range(accepted[t]), ~Stuck', x \notin Range(handled)
               PROVE  t \in Users /\ (Send(x) \in Range(queue') \/ call'[t] = Send(x))
    BY Zenon DEF Accounted
  <2>1. t \in Users /\ (Send(x) \in Range(queue) \/ call[t] = Send(x))
    BY Zenon DEF OrderInv, Accounted
  <2>2. x \in Payloads /\ x \notin d
    BY <1>0, Zenon
  <2> QED
    BY <2>1, <2>2, Zenon DEF QueueKeeps, CallKeeps
<1>6. OrderedIn(queue)'
  BY Zenon DEF QueueKeeps, OrderedIn
<1> QED
  BY <1>1, <1>2, <1>3, <1>4, <1>5, <1>6 DEF OrderInv

-----------------------------------------------------------------------------
(* Steps that send, queue and take.                                        *)

\* A call of send is accepted.
LEMMA AcceptIs ==
    ASSUME ConnInv, OrderInv, NEW t \in Senders, NEW m \in use.messages, send(t, m)
    PROVE  /\ m \in Payloads /\ \A u \in Senders : m \notin Range(accepted[u])
           /\ accepted' \in [Senders -> Seq(Payloads)]
           /\ \A u \in Senders : u # t => accepted'[u] = accepted[u]
           /\ Range(accepted'[t]) = Range(accepted[t]) \cup {m}
           /\ \A x, y : Before(accepted'[t], x, y) <=>
                           Before(accepted[t], x, y) \/ (y = m /\ x \in Range(accepted[t]))
<1>1. m \in Payloads /\ accepted \in [Senders -> Seq(Payloads)]
  BY UsersAre, Zenon DEF OrderInv, Fitting
<1>2. \A u \in Senders : m \notin Range(accepted[u])
  BY <1>1 DEF send, Fresh
<1>3. accepted' = [accepted EXCEPT ![t] = Append(@, m)]
  BY DEF send
<1>4. accepted[t] \in Seq(Payloads)
  BY <1>1
<1>5. Append(accepted[t], m) \in Seq(Payloads)
  BY <1>1, <1>4
<1>6. /\ accepted' \in [Senders -> Seq(Payloads)] /\ accepted'[t] = Append(accepted[t], m)
      /\ \A u \in Senders : u # t => accepted'[u] = accepted[u]
  BY <1>1, <1>3, <1>5
<1>7. Range(Append(accepted[t], m)) = Range(accepted[t]) \cup {m}
  BY <1>1, <1>4, AppendHas, Zenon
<1>8. \A x, y : Before(Append(accepted[t], m), x, y) <=>
                   Before(accepted[t], x, y) \/ (y = m /\ x \in Range(accepted[t]))
  BY <1>1, <1>4, BeforeIs, Zenon
<1> QED
  BY <1>1, <1>2, <1>6, <1>7, <1>8, Zenon

\* Only what was sent is before anything.
LEMMA SentIs ==
    ASSUME OrderInv
    PROVE  \A t \in Senders : /\ \A x \in Range(accepted[t]) : x \in Payloads
                              /\ \A x, y : Before(accepted[t], x, y) =>
                                    x \in Range(accepted[t]) /\ y \in Range(accepted[t])
<1>1. \A t \in Senders : accepted[t] \in Seq(Payloads)
  BY DEF OrderInv, Fitting
<1>2. \A t \in Senders : \A x \in Range(accepted[t]) : x \in Payloads
  BY <1>1 DEF Range
<1> QED
  BY <1>1, <1>2, BeforeIs, Zenon

\* A user has sent a message and is about to queue it.
LEMMA UserSendOrder ==
    ASSUME ConnInv, OrderInv, NEW t \in Users, NEW m \in use.messages, UserSend(t, m), Stuck => Stuck'
    PROVE  OrderInv'
<1>1. /\ send(t, m) /\ call[t] = Idle /\ t \in held /\ call' = [call EXCEPT ![t] = Send(m)]
      /\ UNCHANGED <<queue, handled, wire, output_buffer_, held>>
  BY DEF UserSend, UserCall, loop, net, Send
<1>2. t \in Senders /\ Users \subseteq Senders
  BY DEF Senders
<1>3. /\ m \in Payloads /\ \A u \in Senders : m \notin Range(accepted[u])
      /\ accepted' \in [Senders -> Seq(Payloads)]
      /\ \A u \in Senders : u # t => accepted'[u] = accepted[u]
      /\ Range(accepted'[t]) = Range(accepted[t]) \cup {m}
      /\ \A x, y : Before(accepted'[t], x, y) <=>
                      Before(accepted[t], x, y) \/ (y = m /\ x \in Range(accepted[t]))
  BY <1>1, <1>2, AcceptIs, Zenon
<1>4. call'[t] = Send(m) /\ \A u \in Users : u # t => call'[u] = call[u]
  <2>1. call \in [Users -> UserFunctors \cup {Idle}]
    BY UsersAre
  <2> QED
    BY <1>1, <2>1
<1>5. m \notin Range(handled) /\ Send(m) \notin Range(queue)
  BY <1>3, Zenon DEF OrderInv, Taken, Queued
<1>6. \A u \in Senders : Range(accepted[u]) \subseteq Range(accepted'[u])
  BY <1>3, Zenon
<1>7. Fitting'
  BY <1>1, <1>3, <1>4, Zenon DEF OrderInv, Fitting
<1>8. Apart'
  <2> SUFFICES ASSUME NEW u \in Senders, NEW v \in Senders, NEW x, x \in Range(accepted'[u]), x \in Range(accepted'[v])
               PROVE  u = v
    BY Zenon DEF Apart
  <2>1. CASE x = m
    BY <1>3, <2>1, Zenon
  <2>2. CASE x # m
    <3>1. x \in Range(accepted[u]) /\ x \in Range(accepted[v])
      BY <1>3, <2>2
    <3> QED
      BY <3>1, Zenon DEF OrderInv, Apart
  <2> QED
    BY <2>1, <2>2
<1>9. Taken'
  BY <1>1, <1>6, Zenon DEF OrderInv, Taken
<1>10. Queued'
  BY <1>1, <1>6, Zenon DEF OrderInv, Queued
<1>11. Called'
  <2> SUFFICES ASSUME NEW u \in Users, NEW x \in Payloads, call'[u] = Send(x)
               PROVE  /\ x \in Range(accepted'[u]) /\ \A y : ~Before(accepted'[u], x, y)
                      /\ x \notin Range(handled') /\ Send(x) \notin Range(queue')
    BY Zenon DEF Called
  <2>1. CASE u = t
    <3>1. x = m
      BY <1>4, <2>1, SendsAre, Zenon
    <3>2. \A y : ~Before(accepted[t], m, y)
      BY <1>2, <1>3, SentIs, Zenon
    <3>3. m \in Range(accepted'[t]) /\ \A y : ~Before(accepted'[t], m, y)
      BY <1>2, <1>3, <3>2
    <3> QED
      BY <1>1, <1>5, <2>1, <3>1, <3>3, Zenon
  <2>2. CASE u # t
    <3>1. call[u] = Send(x) /\ accepted'[u] = accepted[u]
      BY <1>2, <1>3, <1>4, <2>2, Zenon
    <3> QED
      BY <1>1, <3>1, Zenon DEF OrderInv, Called
  <2> QED
    BY <2>1, <2>2
<1>12. Accounted'
  <2> SUFFICES ASSUME NEW u \in Senders, NEW x \in Range(accepted'[u]), ~Stuck', x \notin Range(handled')
               PROVE  u \in Users /\ (Send(x) \in Range(queue') \/ call'[u] = Send(x))
    BY Zenon DEF Accounted
  <2>1. CASE x = m
    <3>1. u = t
      BY <1>3, <2>1, Zenon
    <3> QED
      BY <1>4, <2>1, <3>1, Zenon
  <2>2. CASE x # m
    <3>1. x \in Range(accepted[u])
      BY <1>3, <2>2
    <3>2. u \in Users /\ (Send(x) \in Range(queue) \/ call[u] = Send(x))
      BY <1>1, <3>1, Zenon DEF OrderInv, Accounted
    <3>3. call[t] # Send(x)
      BY <1>1, SendsAre, Zenon
    <3> QED
      BY <1>1, <1>4, <3>2, <3>3, Zenon
  <2> QED
    BY <2>1, <2>2
<1>13. OrderedIn(queue)'
  <2> SUFFICES ASSUME NEW u \in Users, NEW x \in Payloads, NEW y \in Payloads, Before(accepted'[u], x, y),
                      NEW a \in DOMAIN queue', NEW b \in DOMAIN queue', queue'[a] = Send(x), queue'[b] = Send(y)
               PROVE  a < b
    BY Zenon DEF OrderedIn
  <2>1. y # m
    BY <1>1, <1>5, Zenon DEF Range
  <2>2. Before(accepted[u], x, y)
    BY <1>2, <1>3, <2>1, Zenon
  <2> QED
    BY <1>1, <2>2, Zenon DEF OrderInv, OrderedIn
<1>14. InOrder'
  <2> SUFFICES ASSUME NEW u \in Senders, NEW x \in Payloads, NEW y \in Payloads, Before(accepted'[u], x, y),
                      NEW p \in DOMAIN handled', handled'[p] = y
               PROVE  Precedes(handled', x, p)
    BY Zenon DEF InOrder
  <2>1. y # m
    BY <1>1, <1>5, Zenon DEF Range
  <2>2. Before(accepted[u], x, y)
    BY <1>3, <2>1, Zenon
  <2> QED
    BY <1>1, <2>2, Zenon DEF OrderInv, InOrder
<1>15. Whole'
  BY <1>1 DEF OrderInv, Whole
<1> QED
  BY <1>7, <1>8, <1>9, <1>10, <1>11, <1>12, <1>13, <1>14, <1>15 DEF OrderInv

\* A user queues what it was about to.
LEMMA EnqueueOrder ==
    ASSUME ConnInv, OrderInv, NEW t \in Users, Enqueue(t), Stuck => Stuck'
    PROVE  OrderInv'
<1> DEFINE f == call[t]
<1>1. /\ f # Idle /\ queue' = Append(queue, f) /\ call' = [call EXCEPT ![t] = Idle]
      /\ UNCHANGED <<accepted, handled, wire, output_buffer_, held>>
  BY DEF Enqueue, conn, net, history
<1>2. f \in UserFunctors /\ f \in Functors /\ queue \in Seq(Functors)
  <2>1. call \in [Users -> UserFunctors \cup {Idle}] /\ queue \in Seq(Functors)
    BY DEF ConnInv, Typed
  <2> QED
    BY <1>1, <2>1 DEF Functors
<1>3. call'[t] = Idle /\ \A u \in Users : u # t => call'[u] = call[u]
  <2>1. call \in [Users -> UserFunctors \cup {Idle}]
    BY UsersAre
  <2> QED
    BY <1>1, <2>1
<1> HIDE DEF f
<1>4. wire' \in Seq(Payloads) /\ Whole'
  BY <1>1 DEF OrderInv, Fitting, Whole
<1>5. CASE \A x : f # Send(x)
  <2>1. QueueKeeps(queue', {})
    BY <1>1, <1>2, <1>5, SameKeeps, AppendKeeps, Zenon
  <2>2. CallKeeps
    <3>1. \A x : Idle # Send(x)
      BY SendsAre, Zenon
    <3> QED
      BY <1>1, <1>3, <1>5, <3>1, Zenon DEF CallKeeps, OrderInv, Fitting, f
  <2> QED
    BY <1>1, <1>4, <2>1, <2>2, QuietOrder
<1>6. CASE \E x : f = Send(x)
  <2>1. PICK m \in Payloads : f = Send(m)
    <3>1. f[1] = "send_in_loop"
      BY <1>6, SendsAre, Zenon
    <3> QED
      BY <1>2, <3>1, SendsAre, Zenon
  <2>2. /\ m \in Range(accepted[t]) /\ \A y : ~Before(accepted[t], m, y)
        /\ m \notin Range(handled) /\ Send(m) \notin Range(queue)
    BY <2>1, Zenon DEF OrderInv, Called, f
  <2>3. t \in Senders /\ Users \subseteq Senders
    BY DEF Senders
  <2>4. /\ Range(queue') = Range(queue) \cup {Send(m)}
        /\ \A g : (Once(queue, g) /\ (f = g => g \notin Range(queue))) => Once(queue', g)
    <3>1. /\ Range(Append(queue, f)) = Range(queue) \cup {f}
          /\ \A g : (Once(queue, g) /\ (f = g => g \notin Range(queue))) => Once(Append(queue, f), g)
      <4>1. f \in Functors /\ queue \in Seq(Functors)
        BY <1>2
      <4> QED
        BY <4>1, AppendHas, Zenon
    <3> QED
      BY <1>1, <2>1, <3>1, Zenon
  <2>5. /\ \A k \in DOMAIN queue' : (k \in DOMAIN queue /\ queue'[k] = queue[k]) \/ (k = Len(queue) + 1 /\ queue'[k] = Send(m))
        /\ \A k \in DOMAIN queue : k < Len(queue) + 1
    BY <1>1, <1>2, <2>1
  <2>6. Once(queue', Send(m))
    <3>1. Once(queue, Send(m))
      BY <2>2, Zenon DEF Once, Range
    <3> QED
      BY <2>2, <2>4, <3>1, Zenon
  <2>7. Fitting'
    BY <1>1, <1>3, Zenon DEF OrderInv, Fitting
  <2>8. Apart' /\ Taken' /\ InOrder'
    <3>1. Apart /\ Taken /\ InOrder
      BY DEF OrderInv
    <3>0. accepted' = accepted /\ handled' = handled
      BY <1>1
    <3>2. Apart'
      BY <3>0, <3>1 DEF Apart
    <3>3. Taken'
      BY <3>0, <3>1 DEF Taken
    <3>4. InOrder'
      BY <3>0, <3>1 DEF InOrder
    <3> QED
      BY <3>2, <3>3, <3>4
  <2>9. Queued'
    <3> SUFFICES ASSUME NEW x \in Payloads, Send(x) \in Range(queue')
                 PROVE  /\ x \notin Range(handled) /\ Once(queue', Send(x))
                        /\ \E u \in Senders : x \in Range(accepted[u])
      BY <1>1, Zenon DEF Queued
    <3>1. CASE x = m
      BY <2>2, <2>3, <2>6, <3>1, Zenon
    <3>2. CASE x # m
      <4>1. Send(x) \in Range(queue) /\ f # Send(x)
        BY <2>1, <2>4, <3>2, SendsAre, Zenon
      <4> QED
        BY <2>4, <4>1, Zenon DEF OrderInv, Queued
    <3> QED
      BY <3>1, <3>2
  <2>10. Called'
    <3> SUFFICES ASSUME NEW u \in Users, NEW x \in Payloads, call'[u] = Send(x)
                 PROVE  /\ x \in Range(accepted[u]) /\ \A y : ~Before(accepted[u], x, y)
                        /\ x \notin Range(handled) /\ Send(x) \notin Range(queue')
      BY <1>1, Zenon DEF Called
    <3>1. u # t /\ call[u] = Send(x)
      BY <1>3, SendsAre, Zenon
    <3>2. /\ x \in Range(accepted[u]) /\ \A y : ~Before(accepted[u], x, y)
          /\ x \notin Range(handled) /\ Send(x) \notin Range(queue)
      BY <3>1, Zenon DEF OrderInv, Called
    <3>3. x # m
      BY <2>2, <2>3, <3>1, <3>2, Zenon DEF OrderInv, Apart
    <3>4. Send(x) # Send(m)
      BY <3>3, SendsAre, Zenon
    <3> QED
      BY <2>4, <3>2, <3>4
  <2>11. Accounted'
    <3> SUFFICES ASSUME NEW u \in Senders, NEW x \in Range(accepted[u]), ~Stuck', x \notin Range(handled)
                 PROVE  u \in Users /\ (Send(x) \in Range(queue') \/ call'[u] = Send(x))
      BY <1>1, Zenon DEF Accounted
    <3>1. u \in Users /\ (Send(x) \in Range(queue) \/ call[u] = Send(x))
      BY Zenon DEF OrderInv, Accounted
    <3>2. CASE Send(x) \in Range(queue)
      BY <2>4, <3>1, <3>2
    <3>3. CASE call[u] = Send(x) /\ u # t
      BY <1>3, <3>1, <3>3, Zenon
    <3>4. CASE call[u] = Send(x) /\ u = t
      BY <2>1, <2>4, <3>1, <3>4 DEF f
    <3> QED
      BY <3>1, <3>2, <3>3, <3>4, Zenon
  <2>12. OrderedIn(queue)'
    <3> SUFFICES ASSUME NEW u \in Users, NEW x \in Payloads, NEW y \in Payloads, Before(accepted[u], x, y),
                        NEW a \in DOMAIN queue', NEW b \in DOMAIN queue', queue'[a] = Send(x), queue'[b] = Send(y)
                 PROVE  a < b
      BY <1>1, Zenon DEF OrderedIn
    <3>1. x # m
      <4>1. ASSUME x = m PROVE FALSE
        <5>1. x \in Range(accepted[u])
          BY <2>3, SentIs, Zenon
        <5>2. u = t
          BY <2>2, <2>3, <4>1, <5>1, Zenon DEF OrderInv, Apart
        <5> QED
          BY <2>2, <4>1, <5>2, Zenon
      <4> QED
        BY <4>1
    <3>2. a \in DOMAIN queue /\ queue[a] = Send(x)
      BY <2>5, <3>1, SendsAre, Zenon
    <3>3. CASE b \in DOMAIN queue /\ queue'[b] = queue[b]
      BY <3>2, <3>3, Zenon DEF OrderInv, OrderedIn
    <3>4. CASE b = Len(queue) + 1
      BY <2>5, <3>2, <3>4, Zenon
    <3> QED
      BY <2>5, <3>3, <3>4, Zenon
  <2> QED
    BY <1>4, <2>7, <2>8, <2>9, <2>10, <2>11, <2>12 DEF OrderInv
<1> QED
  BY <1>5, <1>6, Zenon
\* What send_in_loop does with a message: all of it is written or buffered, or none is and
\* none will be any more.
LEMMA SendTakes ==
    ASSUME ConnInv, OrderInv, NEW m \in Payloads, NEW q, send_in_loop(m, q),
           UNCHANGED <<state_, wr_shut, peer>>
    PROVE  /\ wire' \in Seq(Payloads) /\ Whole'
           /\ queue' \in {q, Append(q, <<"write_complete">>), Append(q, <<"high_water_mark">>)}
           /\ (handled' = handled /\ Stuck') \/ handled' = Append(handled, m)
<1>1. /\ output_buffer_ \in Seq(Payloads) /\ wire \in Seq(Payloads) /\ handled \in Seq(Payloads)
      /\ wire \o output_buffer_ = Twice(handled)
  BY DEF ConnInv, Typed, OrderInv, Fitting, Whole
<1>2. CASE state_ = "kDisconnected"
  <2>1. queue' = q /\ UNCHANGED <<output_buffer_, wire, handled>>
    BY <1>2 DEF send_in_loop
  <2>2. Stuck'
    BY <1>2 DEF Stuck, Closed
  <2> QED
    BY <1>1, <2>1, <2>2 DEF Whole
<1>3. CASE state_ # "kDisconnected"
  <2> DEFINE direct == ~is_write_event(ch) /\ output_buffer_ = <<>>
             u == <<m, m>>
  <2>1. PICK n \in IF direct THEN WriteResults(2) ELSE {0} :
          /\ wire' = wire \o SubSeq(u, 1, n)
          /\ output_buffer_' = output_buffer_ \o (IF n = -1 THEN <<>> ELSE SubSeq(u, n + 1, 2))
          /\ handled' = IF n = -1 THEN handled ELSE Append(handled, m)
          /\ queue' \in {q, Append(q, <<"write_complete">>), Append(q, <<"high_water_mark">>)}
    BY <1>3, Zenon DEF send_in_loop
  <2>2. /\ n \in -1 .. 2 /\ (n # 0 => output_buffer_ = <<>>)
        /\ n = -1 => (wr_shut \/ peer \in {"reset", "closed"})
    BY <2>1 DEF WriteResults
  <2>3. u \in Seq(Payloads) /\ Len(u) = 2
    OBVIOUS
  <2> HIDE DEF u
  <2>4. CASE n = -1
    <3>1. SubSeq(u, 1, n) = <<>>
      BY <2>4, SubSeqEmpty
    <3>2. wire' = wire /\ output_buffer_' = <<>> /\ output_buffer_ = <<>> /\ handled' = handled
      BY <1>1, <2>1, <2>2, <2>4, <3>1, ConcatEmptySeq
    <3>3. Deaf'
      BY <2>2, <2>4, <3>2, Zenon DEF Deaf
    <3> QED
      BY <1>1, <2>1, <3>2, <3>3 DEF Whole, Stuck
  <2>5. CASE n # -1
    <3> DEFINE a == SubSeq(u, 1, n)
               b == SubSeq(u, n + 1, 2)
    <3>0. n \in 0 .. Len(u)
      BY <2>2, <2>3, <2>5
    <3>1. a \in Seq(Payloads) /\ b \in Seq(Payloads) /\ a \o b = u
      BY <2>3, <3>0, SplitIs, Zenon
    <3>2. wire' = wire \o a /\ output_buffer_' = output_buffer_ \o b /\ handled' = Append(handled, m)
      BY <2>1, <2>5, Zenon
    <3>3. n = 0 => a = <<>>
      BY SubSeqEmpty
    <3> HIDE DEF a, b
    <3>4. wire' \in Seq(Payloads)
      BY <1>1, <3>1, <3>2, ConcatProperties
    <3>5. Twice(handled') = (wire \o output_buffer_) \o u
      BY <1>1, <3>2, TwiceIs, Zenon DEF u
    <3>6. wire' \o output_buffer_' = (wire \o output_buffer_) \o u
      <4>1. CASE n = 0
        <5>1. wire' = wire /\ b = u
          BY <1>1, <3>1, <3>2, <3>3, <4>1, ConcatEmptySeq
        <5>0. wire \in Seq(Payloads) /\ output_buffer_ \in Seq(Payloads) /\ u \in Seq(Payloads)
          BY <1>1, <2>3
        <5>2. (wire \o output_buffer_) \o u = wire \o (output_buffer_ \o u)
          BY <5>0
        <5> QED
          BY <3>2, <5>1, <5>2, Zenon
      <4>2. CASE n # 0
        <5>1. output_buffer_ = <<>> /\ output_buffer_' = b /\ wire \o output_buffer_ = wire
          BY <1>1, <2>2, <3>1, <3>2, <4>2, ConcatEmptySeq
        <5>0. wire \in Seq(Payloads) /\ a \in Seq(Payloads) /\ b \in Seq(Payloads)
          BY <1>1, <3>1
        <5>2. (wire \o a) \o b = wire \o (a \o b)
          BY <5>0
        <5> QED
          BY <3>1, <3>2, <5>1, <5>2, Zenon
      <4> QED
        BY <4>1, <4>2, Zenon
    <3> QED
      BY <2>1, <3>2, <3>4, <3>5, <3>6, Zenon DEF Whole
  <2> QED
    BY <2>4, <2>5
<1> QED
  BY <1>2, <1>3

\* What handle_write sends comes off the front of the buffer.
LEMMA WriteTakes ==
    ASSUME ConnInv, OrderInv, HandleWrite
    PROVE  /\ wire' \in Seq(Payloads) /\ Whole'
           /\ queue' \in {queue, Append(queue, <<"write_complete">>)}
<1>1. /\ output_buffer_ \in Seq(Payloads) /\ wire \in Seq(Payloads)
      /\ wire \o output_buffer_ = Twice(handled) /\ handled' = handled
  BY DEF ConnInv, Typed, OrderInv, Fitting, Whole, HandleWrite, history
<1>2. CASE ~is_write_event(ch)
  BY <1>1, <1>2 DEF HandleWrite, Whole
<1>3. CASE is_write_event(ch)
  <2>1. PICK n \in WriteResults(Len(output_buffer_)) :
          /\ wire' = wire \o SubSeq(output_buffer_, 1, n)
          /\ output_buffer_' = IF n > 0 THEN SubSeq(output_buffer_, n + 1, Len(output_buffer_))
                               ELSE output_buffer_
          /\ queue' \in {queue, Append(queue, <<"write_complete">>)}
    BY <1>3, Zenon DEF HandleWrite
  <2>2. n \in -1 .. Len(output_buffer_) /\ Len(output_buffer_) \in Nat
    BY <1>1, <2>1 DEF WriteResults
  <2>3. CASE n > 0
    <3> DEFINE a == SubSeq(output_buffer_, 1, n)
               b == SubSeq(output_buffer_, n + 1, Len(output_buffer_))
    <3>0. n \in 0 .. Len(output_buffer_)
      BY <2>2, <2>3
    <3>1. a \in Seq(Payloads) /\ b \in Seq(Payloads) /\ a \o b = output_buffer_
      BY <1>1, <3>0, SplitIs, Zenon
    <3>2. wire' = wire \o a /\ output_buffer_' = b
      BY <2>1, <2>3, Zenon
    <3> HIDE DEF a, b
    <3>3. wire' \in Seq(Payloads)
      BY <1>1, <3>1, <3>2, ConcatProperties
    <3>4. wire' \o output_buffer_' = wire \o output_buffer_
      <4>0. wire \in Seq(Payloads) /\ a \in Seq(Payloads) /\ b \in Seq(Payloads)
        BY <1>1, <3>1
      <4>1. (wire \o a) \o b = wire \o (a \o b)
        BY <4>0
      <4> QED
        BY <3>1, <3>2, <4>1, Zenon
    <3> QED
      BY <1>1, <2>1, <3>3, <3>4, Zenon DEF Whole
  <2>4. CASE ~(n > 0)
    <3>1. SubSeq(output_buffer_, 1, n) = <<>>
      BY <2>2, <2>4, SubSeqEmpty
    <3>2. wire' = wire /\ output_buffer_' = output_buffer_
      BY <1>1, <2>1, <2>4, <3>1, ConcatEmptySeq, Zenon
    <3> QED
      BY <1>1, <2>1, <3>2, Zenon DEF Whole
  <2> QED
    BY <2>3, <2>4
<1> QED
  BY <1>2, <1>3

\* What precedes p when m has left too.
LeftAt(m, x, p) ==
    \/ handled'[p] = m /\ (x \in Range(handled) => Precedes(handled', x, p))
    \/ /\ p \in DOMAIN handled /\ handled[p] = handled'[p]
       /\ Precedes(handled, x, p) => Precedes(handled', x, p)

\* One more message has left.
LEMMA HandledIs ==
    ASSUME OrderInv, NEW m \in Payloads, m \notin Range(handled), handled' = Append(handled, m)
    PROVE  /\ handled' \in Seq(Payloads) /\ IsInjective(handled') /\ handled' # handled
           /\ Range(handled') = Range(handled) \cup {m}
           /\ \A x : \A p \in DOMAIN handled' : LeftAt(m, x, p)
<1> DEFINE h == handled
           r == Append(handled, m)
           N == Len(handled) + 1
<1>1. h \in Seq(Payloads) /\ IsInjective(h)
  BY DEF OrderInv, Fitting, Taken
<1>2. /\ r \in Seq(Payloads) /\ r # h
      /\ \A k \in DOMAIN h : r[k] = h[k]
      /\ \A k \in DOMAIN r : k \in DOMAIN h \/ k = N
      /\ r[N] = m /\ DOMAIN h = 1 .. N - 1
      /\ \A k \in DOMAIN h : \A q \in 1 .. k - 1 : q \in DOMAIN h
  <2>1. Len(r) = Len(h) + 1 /\ Len(h) \in Nat
    BY <1>1
  <2> QED
    BY <1>1, <2>1
<1>3. Range(r) = Range(h) \cup {m}
  BY <1>1, AppendHas, Zenon
<1> HIDE DEF h, r, N
<1>4. \A k \in DOMAIN h : h[k] # m
  BY Zenon DEF Range, h
<1>5. IsInjective(r)
  BY <1>1, <1>2, <1>4, Zenon DEF IsInjective
<1>6. ASSUME NEW x, NEW p \in DOMAIN r
      PROVE  \/ r[p] = m /\ (x \in Range(h) => Precedes(r, x, p))
             \/ /\ p \in DOMAIN h /\ h[p] = r[p]
                /\ Precedes(h, x, p) => Precedes(r, x, p)
  <2>1. CASE p \in DOMAIN h
    BY <1>2, <1>6, <2>1, Zenon DEF Precedes
  <2>2. CASE p = N
    <3>1. ASSUME x \in Range(h) PROVE Precedes(r, x, p)
      <4>1. PICK q \in DOMAIN h : h[q] = x
        BY <3>1, Zenon DEF Range
      <4> QED
        BY <1>2, <2>2, <4>1, Zenon DEF Precedes
    <3> QED
      BY <1>2, <2>2, <3>1, Zenon
  <2> QED
    BY <1>2, <2>1, <2>2, Zenon
<1>7. handled' = r /\ handled = h
  BY DEF r, h
<1> QED
  BY <1>2, <1>3, <1>5, <1>6, <1>7, Zenon DEF LeftAt

\* The loop takes the message at the head of the queue.
LEMMA TakeOrder ==
    ASSUME ConnInv, OrderInv, Stuck => Stuck' /\ handled' = handled,
           NEW m \in Payloads, batch > 0, Head(queue) = Send(m), QueueKeeps(queue', {m}),
           handled' = Append(handled, m), UNCHANGED <<accepted, call, held>>,
           wire' \in Seq(Payloads), Whole'
    PROVE  OrderInv'
<1>1. Send(m) \in Range(queue)
  BY HeadQueue
<1>2. m \notin Range(handled) /\ \E t \in Senders : m \in Range(accepted[t])
  BY <1>1, Zenon DEF OrderInv, Queued
<1>3. /\ handled' \in Seq(Payloads) /\ IsInjective(handled') /\ handled' # handled
      /\ Range(handled') = Range(handled) \cup {m}
      /\ \A x : \A p \in DOMAIN handled' : LeftAt(m, x, p)
  BY <1>2, HandledIs, Zenon
<1>4. ~Stuck
  BY <1>3, Zenon
<1>5. \A x \in Payloads : x # m => (x \in Range(handled') <=> x \in Range(handled))
  BY <1>3
<1>6. Fitting' /\ Apart'
  BY <1>3, Zenon DEF OrderInv, Fitting, Apart
<1>7. Taken'
  <2>1. \A x \in Range(handled') : \E t \in Senders : x \in Range(accepted[t])
    BY <1>2, <1>3 DEF OrderInv, Taken
  <2> QED
    BY <1>3, <2>1, Zenon DEF Taken
<1>8. Queued'
  <2> SUFFICES ASSUME NEW x \in Payloads, Send(x) \in Range(queue')
               PROVE  /\ x \notin Range(handled') /\ Once(queue', Send(x))
                      /\ \E t \in Senders : x \in Range(accepted[t])
    BY Zenon DEF Queued
  <2>1. Send(x) \in Range(queue) /\ x # m /\ Once(queue', Send(x))
    BY Zenon DEF QueueKeeps
  <2> QED
    BY <1>5, <2>1, Zenon DEF OrderInv, Queued
<1>9. Called'
  <2> SUFFICES ASSUME NEW t \in Users, NEW x \in Payloads, call[t] = Send(x)
               PROVE  /\ x \in Range(accepted[t]) /\ \A y : ~Before(accepted[t], x, y)
                      /\ x \notin Range(handled') /\ Send(x) \notin Range(queue')
    BY Zenon DEF Called
  <2>1. /\ x \in Range(accepted[t]) /\ \A y : ~Before(accepted[t], x, y)
        /\ x \notin Range(handled) /\ Send(x) \notin Range(queue)
    BY Zenon DEF OrderInv, Called
  <2>2. x # m /\ Send(x) \notin Range(queue')
    BY <1>1, <2>1, Zenon DEF QueueKeeps
  <2> QED
    BY <1>5, <2>1, <2>2, Zenon
<1>10. Accounted'
  <2> SUFFICES ASSUME NEW t \in Senders, NEW x \in Range(accepted[t]), x \notin Range(handled')
               PROVE  t \in Users /\ (Send(x) \in Range(queue') \/ call[t] = Send(x))
    BY Zenon DEF Accounted
  <2>1. x \notin Range(handled) /\ x \notin {m} /\ x \in Payloads
    BY <1>3, SentIs
  <2>2. t \in Users /\ (Send(x) \in Range(queue) \/ call[t] = Send(x))
    BY <1>4, <2>1, Zenon DEF OrderInv, Accounted
  <2> QED
    BY <2>1, <2>2, Zenon DEF QueueKeeps
<1>11. OrderedIn(queue)'
  BY Zenon DEF QueueKeeps, OrderedIn
<1>12. InOrder'
  <2> SUFFICES ASSUME NEW t \in Senders, NEW x \in Payloads, NEW y \in Payloads, Before(accepted[t], x, y),
                      NEW p \in DOMAIN handled', handled'[p] = y
               PROVE  Precedes(handled', x, p)
    BY Zenon DEF InOrder
  <2>1. CASE y = m /\ (x \in Range(handled) => Precedes(handled', x, p))
    <3>1. x \in Range(accepted[t])
      BY SentIs, Zenon
    <3>2. \/ x \in Range(handled)
          \/ t \in Users /\ (Send(x) \in Range(queue) \/ call[t] = Send(x))
      BY <1>4, <3>1, Zenon DEF OrderInv, Accounted
    <3>3. t \in Users => Send(x) \notin Range(queue)
      BY <2>1, TailKeeps, Zenon
    <3>4. t \in Users => call[t] # Send(x)
      BY Zenon DEF OrderInv, Called
    <3> QED
      BY <2>1, <3>2, <3>3, <3>4, Zenon
  <2>2. CASE /\ p \in DOMAIN handled /\ handled[p] = y
             /\ Precedes(handled, x, p) => Precedes(handled', x, p)
    BY <2>2, Zenon DEF OrderInv, InOrder
  <2>3. LeftAt(m, x, p)
    BY <1>3, Zenon
  <2> QED
    BY <2>1, <2>2, <2>3, Zenon DEF LeftAt
<1> QED
  BY <1>6, <1>7, <1>8, <1>9, <1>10, <1>11, <1>12 DEF OrderInv

\* A call of send from a callback is taken at once, or leaves the connection stuck.
LEMMA CallbackOrder ==
    ASSUME ConnInv, OrderInv, Stuck => Stuck' /\ handled' = handled,
           NEW m \in use.messages, send(Loop, m), QueueKeeps(queue', {}),
           (handled' = handled /\ Stuck') \/ handled' = Append(handled, m),
           UNCHANGED <<call, held>>, wire' \in Seq(Payloads), Whole'
    PROVE  OrderInv'
<1>1. Loop \in Senders /\ Users \subseteq Senders /\ Loop \notin Users
  BY UsesAssumption DEF Senders
<1>2. /\ m \in Payloads /\ \A u \in Senders : m \notin Range(accepted[u])
      /\ accepted' \in [Senders -> Seq(Payloads)]
      /\ \A u \in Senders : u # Loop => accepted'[u] = accepted[u]
      /\ Range(accepted'[Loop]) = Range(accepted[Loop]) \cup {m}
      /\ \A x, y : Before(accepted'[Loop], x, y) <=>
                      Before(accepted[Loop], x, y) \/ (y = m /\ x \in Range(accepted[Loop]))
  BY <1>1, AcceptIs, Zenon
<1>3. m \notin Range(handled) /\ Send(m) \notin Range(queue)
  BY <1>2, Zenon DEF OrderInv, Taken, Queued
<1>4. \A u \in Users : accepted'[u] = accepted[u] /\ call[u] # Send(m)
  BY <1>1, <1>2, Zenon DEF OrderInv, Called
<1>5. \A u \in Senders : Range(accepted[u]) \subseteq Range(accepted'[u])
  BY <1>2, Zenon
<1>6. /\ handled' \in Seq(Payloads) /\ IsInjective(handled')
      /\ Range(handled) \subseteq Range(handled') /\ Range(handled') \subseteq Range(handled) \cup {m}
      /\ Stuck' \/ (~Stuck /\ m \in Range(handled'))
  <2>1. CASE handled' = handled /\ Stuck'
    BY <2>1, Zenon DEF OrderInv, Fitting, Taken
  <2>2. CASE handled' = Append(handled, m)
    <3>1. /\ handled' \in Seq(Payloads) /\ IsInjective(handled') /\ handled' # handled
          /\ Range(handled') = Range(handled) \cup {m}
      BY <1>2, <1>3, <2>2, HandledIs, Zenon
    <3> QED
      BY <3>1
  <2> QED
    BY <2>1, <2>2
<1>7. Fitting'
  BY <1>2, <1>6, Zenon DEF OrderInv, Fitting
<1>8. Apart'
  <2> SUFFICES ASSUME NEW u \in Senders, NEW v \in Senders, NEW x, x \in Range(accepted'[u]), x \in Range(accepted'[v])
               PROVE  u = v
    BY Zenon DEF Apart
  <2>1. CASE x = m
    BY <1>2, <2>1, Zenon
  <2>2. CASE x # m
    <3>1. x \in Range(accepted[u]) /\ x \in Range(accepted[v])
      BY <1>2, <2>2
    <3> QED
      BY <3>1, Zenon DEF OrderInv, Apart
  <2> QED
    BY <2>1, <2>2
<1>9. Taken'
  <2>1. \A x \in Range(handled') : \E t \in Senders : x \in Range(accepted'[t])
    <3>1. m \in Range(accepted'[Loop])
      BY <1>2
    <3>2. \A x \in Range(handled) : \E t \in Senders : x \in Range(accepted'[t])
      BY <1>5, Zenon DEF OrderInv, Taken
    <3> QED
      BY <1>1, <1>6, <3>1, <3>2
  <2> QED
    BY <1>6, <2>1, Zenon DEF Taken
<1>10. Queued'
  <2> SUFFICES ASSUME NEW x \in Payloads, Send(x) \in Range(queue')
               PROVE  /\ x \notin Range(handled') /\ Once(queue', Send(x))
                      /\ \E t \in Senders : x \in Range(accepted'[t])
    BY Zenon DEF Queued
  <2>1. Send(x) \in Range(queue) /\ x # m /\ Once(queue', Send(x))
    BY <1>3, Zenon DEF QueueKeeps
  <2>2. x \notin Range(handled) /\ \E t \in Senders : x \in Range(accepted[t])
    BY <2>1, Zenon DEF OrderInv, Queued
  <2>3. x \notin Range(handled')
    BY <1>6, <2>1, <2>2
  <2> QED
    BY <1>5, <2>1, <2>2, <2>3, Zenon
<1>11. Called'
  <2> SUFFICES ASSUME NEW t \in Users, NEW x \in Payloads, call[t] = Send(x)
               PROVE  /\ x \in Range(accepted'[t]) /\ \A y : ~Before(accepted'[t], x, y)
                      /\ x \notin Range(handled') /\ Send(x) \notin Range(queue')
    BY Zenon DEF Called
  <2>1. /\ x \in Range(accepted[t]) /\ \A y : ~Before(accepted[t], x, y)
        /\ x \notin Range(handled) /\ Send(x) \notin Range(queue)
    BY Zenon DEF OrderInv, Called
  <2>2. x # m /\ Send(x) \notin Range(queue') /\ accepted'[t] = accepted[t]
    BY <1>4, <2>1, Zenon DEF QueueKeeps
  <2>3. x \notin Range(handled')
    BY <1>6, <2>1, <2>2
  <2> QED
    BY <2>1, <2>2, <2>3, Zenon
<1>12. Accounted'
  <2> SUFFICES ASSUME NEW t \in Senders, NEW x \in Range(accepted'[t]), ~Stuck', x \notin Range(handled')
               PROVE  t \in Users /\ (Send(x) \in Range(queue') \/ call[t] = Send(x))
    BY Zenon DEF Accounted
  <2>1. ~Stuck /\ x # m /\ x \notin Range(handled)
    BY <1>6
  <2>2. x \in Range(accepted[t])
    BY <1>2, <2>1
  <2>3. t \in Users /\ (Send(x) \in Range(queue) \/ call[t] = Send(x))
    BY <2>1, <2>2, Zenon DEF OrderInv, Accounted
  <2>4. x \in Payloads /\ x \notin {}
    BY <2>2, SentIs
  <2> QED
    BY <2>3, <2>4, Zenon DEF QueueKeeps
<1>13. OrderedIn(queue)'
  BY <1>4, Zenon DEF QueueKeeps, OrderedIn
<1>14. InOrder'
  <2> SUFFICES ASSUME NEW t \in Senders, NEW x \in Payloads, NEW y \in Payloads, Before(accepted'[t], x, y),
                      NEW p \in DOMAIN handled', handled'[p] = y
               PROVE  Precedes(handled', x, p)
    BY Zenon DEF InOrder
  <2>1. CASE y # m
    <3>1. Before(accepted[t], x, y)
      BY <1>2, <2>1, Zenon
    <3>2. CASE handled' = handled
      BY <3>1, <3>2, Zenon DEF OrderInv, InOrder
    <3>3. CASE handled' = Append(handled, m)
      <4>0. LeftAt(m, x, p)
        BY <1>2, <1>3, <3>3, HandledIs, Zenon
      <4>1. /\ p \in DOMAIN handled /\ handled[p] = y
            /\ Precedes(handled, x, p) => Precedes(handled', x, p)
        BY <2>1, <4>0, Zenon DEF LeftAt
      <4> QED
        BY <3>1, <4>1, Zenon DEF OrderInv, InOrder
    <3> QED
      BY <3>2, <3>3
  <2>2. CASE y = m
    <3>1. ~Before(accepted[t], x, y)
      <4>1. Before(accepted[t], x, y) => y \in Range(accepted[t])
        BY SentIs, Zenon
      <4> QED
        BY <1>2, <2>2, <4>1
    <3>2. t = Loop /\ x \in Range(accepted[Loop])
      BY <1>2, <2>2, <3>1, Zenon
    <3>3. handled' = Append(handled, m)
      BY <1>3, <2>2, Zenon DEF Range
    <3>4. ~Stuck
      <4>1. handled' # handled
        BY <1>2, <1>3, <3>3, HandledIs, Zenon
      <4> QED
        BY <4>1, Zenon
    <3>5. x \in Range(handled)
      BY <1>1, <3>2, <3>4, Zenon DEF OrderInv, Accounted
    <3>6. m \notin Range(handled) /\ \A q \in DOMAIN handled : handled[q] # m
      BY <1>3, Zenon DEF Range
    <3>7. LeftAt(m, x, p)
      BY <1>2, <1>3, <3>3, HandledIs, Zenon
    <3> QED
      BY <2>2, <3>5, <3>6, <3>7, Zenon DEF LeftAt
  <2> QED
    BY <2>1, <2>2
<1> QED
  BY <1>7, <1>8, <1>9, <1>10, <1>11, <1>12, <1>13, <1>14 DEF OrderInv
-----------------------------------------------------------------------------
(* The steps.                                                              *)

\* A step that leaves messages, buffer and wire alone, but for functors that send nothing.
LEMMA CalmOrder ==
    ASSUME ConnInv, OrderInv, Stuck => Stuck', QueueKeeps(queue', {}), CallKeeps,
           UNCHANGED <<accepted, handled, wire, output_buffer_>>
    PROVE  OrderInv'
<1>1. wire' \in Seq(Payloads) /\ Whole'
  BY DEF OrderInv, Fitting, Whole
<1> QED
  BY <1>1, QuietOrder, Zenon

\* A queue that gets a functor that sends nothing, or none.
LEMMA NotifyKeeps ==
    ASSUME NEW q, NEW d, QueueKeeps(q, d)
    PROVE  \A f \in {<<"write_complete">>, <<"high_water_mark">>, <<"force_close_in_loop">>, Destroyed} :
              QueueKeeps(Append(q, f), d)
<1>1. ASSUME NEW f \in {<<"write_complete">>, <<"high_water_mark">>, <<"force_close_in_loop">>, Destroyed}
      PROVE  f \in Functors /\ \A x : f # Send(x)
  <2>1. f \in Functors
    BY DEF Functors, UserFunctors
  <2> QED
    BY <2>1, SendsAre, Zenon
<1> QED
  BY <1>1, AppendKeeps, Zenon

\* Calls that do not change keep.
LEMMA SameCalls == (OrderInv /\ UNCHANGED <<call, held>>) => CallKeeps
BY Zenon DEF OrderInv, Fitting, CallKeeps

\* The calls of users other than send, and what is outside the loop.
LEMMA UserOrder ==
    ASSUME ConnInv, OrderInv, Stuck => Stuck', NEW t \in Users,
           \/ UserShutdown(t) \/ UserForceClose(t) \/ UserReading(t) \/ UserForceCloseWithDelay(t)
           \/ DropPtr(t)
    PROVE  OrderInv'
<1>1. UNCHANGED <<queue, accepted, handled, wire, output_buffer_>>
  BY DEF UserShutdown, UserForceClose, UserReading, UserForceCloseWithDelay, DropPtr, UserCall, shutdown,
         Closing, Reading, loop, net, conn, history
<1>2. QueueKeeps(queue', {})
  BY <1>1, SameKeeps, Zenon
<1>3. CallKeeps
  <2>0. call \in [Users -> UserFunctors \cup {Idle}]
    BY UsersAre
  <2>1. CASE UserForceCloseWithDelay(t)
    <3>1. UNCHANGED <<call, held>>
      BY <2>1 DEF UserForceCloseWithDelay
    <3> QED
      BY <3>1, SameCalls
  <2>2. CASE DropPtr(t)
    <3>1. call' = call /\ call[t] = Idle /\ held' = held \ {t}
      BY <2>2 DEF DropPtr
    <3>2. \A u \in Users : call[u] # Idle => u \in held /\ u # t
      BY <3>1 DEF OrderInv, Fitting
    <3> QED
      BY <3>1, <3>2 DEF CallKeeps
  <2>3. CASE UserShutdown(t) \/ UserForceClose(t) \/ UserReading(t)
    <3>1. PICK f \in Reads \cup {<<"shutdown_in_loop">>, <<"force_close_in_loop">>} : UserCall(t, f)
      BY <2>3 DEF UserShutdown, UserForceClose, UserReading, Reads
    <3>2. t \in held /\ call[t] = Idle /\ call' = [call EXCEPT ![t] = f] /\ held' = held
      BY <3>1 DEF UserCall
    <3>3. call'[t] = f /\ \A u \in Users : u # t => call'[u] = call[u]
      BY <2>0, <3>2
    <3>4. \A x : f # Send(x) /\ Idle # Send(x)
      BY SendsAre, Zenon
    <3>5. \A u \in Users : call[u] # Idle => u \in held
      BY DEF OrderInv, Fitting
    <3> QED
      BY <3>2, <3>3, <3>4, <3>5, Zenon DEF CallKeeps
  <2> QED
    BY <2>1, <2>2, <2>3
<1> QED
  BY <1>1, <1>2, <1>3, CalmOrder, Zenon

\* The functors.
LEMMA FunctorOrder ==
    ASSUME ConnInv, OrderInv, Stuck => Stuck' /\ handled' = handled, RunFunctor
    PROVE  OrderInv'
<1> DEFINE f == Head(queue)
           q == Tail(queue)
<1>1. batch > 0 /\ todo = <<>> /\ UNCHANGED <<call, accepted, peer>>
  BY DEF RunFunctor
<1>2. /\ f \in Functors
      /\ (\A x : f # Send(x)) => QueueKeeps(q, {})
      /\ \A x \in Payloads : f = Send(x) => QueueKeeps(q, {x})
  BY <1>1, TailKeeps, Zenon
<1> HIDE DEF f, q
<1>3. f[1] = "send_in_loop" => f[2] \in Payloads /\ f = Send(f[2])
  BY <1>2, SendsAre, Zenon
<1>4. f[1] # "send_in_loop" => \A x : f # Send(x)
  BY SendsAre, Zenon
<1>5. CASE ~Alive
  <2>1. queue' = q /\ UNCHANGED <<held, handled, wire, output_buffer_>>
    BY <1>5 DEF RunFunctor, conn, q
  <2>2. Gone
    <3>1. Range(todo) = {}
      BY <1>1, ShortIs
    <3>2. ~in_map /\ held = {} /\ ~(finishing > 0) /\ \A i \in DOMAIN queue : queue[i][1] \notin Strong
      BY <1>5 DEF Alive
    <3>3. finishing = 0
      BY <3>2 DEF ConnInv, Typed
    <3> QED
      BY <3>1, <3>2, <3>3 DEF Gone, Range
  <2>3. Stuck'
    BY <2>2 DEF Stuck
  <2>4. wire' \in Seq(Payloads) /\ Whole' /\ CallKeeps
    BY <1>1, <2>1, SameCalls DEF OrderInv, Fitting, Whole
  <2>5. \E d : QueueKeeps(queue', d)
    BY <1>2, <1>3, <1>4, <2>1, Zenon
  <2> QED
    BY <1>1, <2>1, <2>3, <2>4, <2>5, QuietOrder, Zenon
<1>6. CASE Alive /\ f[1] = "send_in_loop"
  <2> DEFINE m == f[2]
  <2>1. m \in Payloads /\ f = Send(m) /\ QueueKeeps(q, {m})
    BY <1>2, <1>3, <1>6, Zenon
  <2>2. send_in_loop(m, q) /\ UNCHANGED <<state_, wr_shut, held>>
    BY <1>6 DEF RunFunctor, f, q
  <2> HIDE DEF m
  <2>3. /\ wire' \in Seq(Payloads) /\ Whole'
        /\ queue' \in {q, Append(q, <<"write_complete">>), Append(q, <<"high_water_mark">>)}
        /\ (handled' = handled /\ Stuck') \/ handled' = Append(handled, m)
    BY <1>1, <2>1, <2>2, SendTakes
  <2>4. QueueKeeps(queue', {m})
    BY <2>1, <2>3, NotifyKeeps, Zenon
  <2>5. CASE handled' = handled /\ Stuck'
    <3>1. CallKeeps
      BY <1>1, <2>2, SameCalls
    <3> QED
      BY <1>1, <2>3, <2>4, <2>5, <3>1, QuietOrder
  <2>6. CASE handled' = Append(handled, m)
    <3>1. Head(queue) = Send(m)
      BY <2>1 DEF f
    <3> QED
      BY <1>1, <2>1, <2>2, <2>3, <2>4, <2>6, <3>1, TakeOrder
  <2> QED
    BY <2>3, <2>5, <2>6
<1>7. CASE Alive /\ f[1] # "send_in_loop"
  <2>1. queue' = q /\ UNCHANGED <<handled, wire, output_buffer_>>
    BY <1>7 DEF RunFunctor, f, q
  <2>2. QueueKeeps(queue', {})
    BY <1>2, <1>4, <1>7, <2>1, Zenon
  <2>3. held \subseteq held'
    <3>1. held \subseteq Users
      BY DEF ConnInv, Typed
    <3> QED
      BY <1>7, <3>1, Zenon DEF RunFunctor, connect_established, connect_destroyed, force_close_in_loop
  <2>4. CallKeeps
    <3>1. \A t \in Users : call[t] # Idle => t \in held
      BY DEF OrderInv, Fitting
    <3> QED
      BY <1>1, <2>3, <3>1, Zenon DEF CallKeeps
  <2> QED
    BY <1>1, <2>1, <2>2, <2>4, CalmOrder
<1> QED
  BY <1>5, <1>6, <1>7, Zenon

\* What user code does when it is called back on the loop thread.
LEMMA CallbackCallsOrder ==
    ASSUME ConnInv, OrderInv, Stuck => Stuck' /\ handled' = handled, CallbackCalls
    PROVE  OrderInv'
<1>1. UNCHANGED <<call, held, peer>> /\ CallKeeps
  BY SameCalls DEF CallbackCalls
<1>2. QueueKeeps(queue, {})
  BY SameKeeps
<1>3. \/ \E m \in use.messages : send(Loop, m) /\ send_in_loop(m, queue) /\ UNCHANGED <<state_, wr_shut>>
      \/ /\ queue' \in {queue, Append(queue, <<"force_close_in_loop">>)}
         /\ UNCHANGED <<accepted, handled, wire, output_buffer_>>
  BY Zenon DEF CallbackCalls, send, shutdown, Closing, Reading, net
<1>4. CASE \E m \in use.messages : send(Loop, m) /\ send_in_loop(m, queue) /\ UNCHANGED <<state_, wr_shut>>
  <2>1. PICK m \in use.messages : send(Loop, m) /\ send_in_loop(m, queue) /\ UNCHANGED <<state_, wr_shut>>
    BY <1>4
  <2>2. m \in Payloads
    BY UsersAre, Zenon
  <2>3. /\ wire' \in Seq(Payloads) /\ Whole'
        /\ queue' \in {queue, Append(queue, <<"write_complete">>), Append(queue, <<"high_water_mark">>)}
        /\ (handled' = handled /\ Stuck') \/ handled' = Append(handled, m)
    BY <1>1, <2>1, <2>2, SendTakes
  <2>4. QueueKeeps(queue', {})
    BY <1>2, <2>3, NotifyKeeps, Zenon
  <2> QED
    BY <1>1, <2>1, <2>3, <2>4, CallbackOrder, Zenon
<1>5. CASE /\ queue' \in {queue, Append(queue, <<"force_close_in_loop">>)}
           /\ UNCHANGED <<accepted, handled, wire, output_buffer_>>
  <2>1. QueueKeeps(queue', {})
    BY <1>2, <1>5, NotifyKeeps, Zenon
  <2> QED
    BY <1>1, <1>5, <2>1, CalmOrder, Zenon
<1> QED
  BY <1>3, <1>4, <1>5, Zenon

\* The handlers, the poller, the timer, the server and the peer.
LEMMA OtherOrder ==
    ASSUME ConnInv, OrderInv, Stuck => Stuck',
           \/ CallbackReturns \/ Finish \/ RemoveChannel \/ HandleClose \/ HandleError \/ HandleRead
           \/ HandleWrite \/ Swap \/ PollStep \/ TimerFires \/ RemoveConnection \/ ServerDies
           \/ PeerCloses \/ UNCHANGED vars
    PROVE  OrderInv'
<1>1. UNCHANGED <<call, held, accepted, handled>>
  BY Zenon DEF CallbackReturns, Finish, RemoveChannel, HandleClose, HandleError, HandleRead, HandleWrite, Swap,
         PollStep, Poll, TimerFires, RemoveConnection, ServerDies, PeerCloses, vars, users, history
<1>2. CallKeeps /\ QueueKeeps(queue, {})
  BY <1>1, SameCalls, SameKeeps
<1>3. CASE HandleWrite
  <2>1. /\ wire' \in Seq(Payloads) /\ Whole'
        /\ queue' \in {queue, Append(queue, <<"write_complete">>)}
    BY <1>3, WriteTakes
  <2>2. QueueKeeps(queue', {})
    BY <1>2, <2>1, NotifyKeeps, Zenon
  <2> QED
    BY <1>1, <1>2, <2>1, <2>2, QuietOrder, Zenon
<1>4. CASE ~HandleWrite
  <2>1. /\ queue' \in {queue, Append(queue, <<"force_close_in_loop">>), Append(queue, Destroyed)}
        /\ UNCHANGED <<wire, output_buffer_>>
    BY <1>4, Zenon DEF CallbackReturns, Finish, RemoveChannel, HandleClose, HandleError, HandleRead, Swap,
       PollStep, Poll, TimerFires, RemoveConnection, ServerDies, PeerCloses, vars, conn, loop, net, Destroyed
  <2>2. QueueKeeps(queue', {})
    BY <1>2, <2>1, NotifyKeeps, Zenon
  <2> QED
    BY <1>1, <1>2, <2>1, <2>2, CalmOrder, Zenon
<1> QED
  BY <1>3, <1>4

\* Every step keeps the invariant.
LEMMA OrderInvNext == (ConnInv /\ OrderInv /\ [Next]_vars) => OrderInv'
<1> SUFFICES ASSUME ConnInv, OrderInv, [Next]_vars PROVE OrderInv'
  OBVIOUS
<1>1. Stuck => Stuck' /\ handled' = handled
  BY StuckStays, Zenon DEF OrderInv
<1>2. CASE \E t \in Users : \E m \in use.messages : UserSend(t, m)
  BY <1>1, <1>2, UserSendOrder, Zenon
<1>3. CASE \E t \in Users : Enqueue(t)
  BY <1>1, <1>3, EnqueueOrder, Zenon
<1>4. CASE \E t \in Users : \/ UserShutdown(t) \/ UserForceClose(t) \/ UserReading(t)
                            \/ UserForceCloseWithDelay(t) \/ DropPtr(t)
  BY <1>1, <1>4, UserOrder, Zenon
<1>5. CASE RunFunctor
  BY <1>1, <1>5, FunctorOrder
<1>6. CASE CallbackCalls
  BY <1>1, <1>6, CallbackCallsOrder
<1>7. CASE \/ CallbackReturns \/ Finish \/ RemoveChannel \/ HandleClose \/ HandleError \/ HandleRead
           \/ HandleWrite \/ Swap \/ PollStep \/ TimerFires \/ RemoveConnection \/ ServerDies
           \/ PeerCloses \/ UNCHANGED vars
  BY <1>1, <1>7, OtherOrder
<1> QED
  BY <1>2, <1>3, <1>4, <1>5, <1>6, <1>7, Zenon DEF Next, LoopStep

\* Bytes leave whole and in order: what is on the wire and in output_buffer_ is always the
\* messages send_in_loop took, each once, and in the order each thread sent them, however
\* user threads, callbacks, partial and failed writes, closes and the end interleave.
THEOREM OrderAlwaysKept == Spec => []SentInOrder
<1>1. Spec => []ConnInv
  BY ConnInvAlways
<1>2. Init => OrderInv
  BY OrderInvInit
<1>3. (ConnInv /\ OrderInv /\ [Next]_vars) => OrderInv'
  BY OrderInvNext
<1>4. OrderInv => SentInOrder
  BY OrderInvImplies
<1> QED
  BY <1>1, <1>2, <1>3, <1>4, PTL DEF Spec
=============================================================================
