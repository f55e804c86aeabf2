------------------------ MODULE TcpConnectionProofs ------------------------
(***************************************************************************)
(* Proofs about one TcpConnection, for any users, messages, marks and ways *)
(* of using it: its fields agree, no assertion fails in plain use and it   *)
(* goes away closed and unregistered; and its FIN follows its data.        *)
(***************************************************************************)
EXTENDS TcpConnection, SequenceTheorems, TLAPS

-----------------------------------------------------------------------------
(* Sequences as sets.                                                      *)

\* f is in q at most once.
Once(q, f) == \A j, k \in DOMAIN q : (q[j] = f /\ q[k] = f) => j = k

\* Taking the first element out.
LEMMA TailIs ==
    ASSUME NEW S, NEW q \in Seq(S), q # <<>>
    PROVE  /\ Tail(q) \in Seq(S) /\ Len(Tail(q)) = Len(q) - 1 /\ Len(q) \in Nat \ {0}
           /\ Head(q) \in S /\ Head(q) \in Range(q)
           /\ Range(q) = Range(Tail(q)) \cup {Head(q)}
           /\ \A f : Once(q, f) => Once(Tail(q), f) /\ (Head(q) = f => f \notin Range(Tail(q)))
           /\ IsInjective(q) => /\ IsInjective(Tail(q))
                                /\ Range(Tail(q)) = Range(q) \ {Head(q)}
<1>1. /\ Tail(q) \in Seq(S) /\ Len(Tail(q)) = Len(q) - 1 /\ Len(q) \in Nat \ {0}
      /\ Head(q) = q[1] /\ 1 \in DOMAIN q /\ q[1] \in S
      /\ \A k \in DOMAIN Tail(q) : k \in Nat \ {0} /\ k + 1 \in DOMAIN q /\ Tail(q)[k] = q[k + 1]
      /\ \A k \in DOMAIN q : k \in Nat \ {0} /\ (k # 1 => k - 1 \in DOMAIN Tail(q))
  OBVIOUS
<1>2. \A k \in DOMAIN q : k # 1 => Tail(q)[k - 1] = q[k]
  BY <1>1
<1>3. Range(q) = Range(Tail(q)) \cup {Head(q)} /\ Head(q) \in Range(q)
  <2>1. Range(Tail(q)) \subseteq Range(q) /\ Head(q) \in Range(q)
    BY <1>1, Zenon DEF Range
  <2>2. ASSUME NEW k \in DOMAIN q PROVE q[k] \in Range(Tail(q)) \cup {Head(q)}
    BY <1>1, <1>2 DEF Range
  <2> QED
    BY <2>1, <2>2, Zenon DEF Range
<1>4. ASSUME NEW f, Once(q, f)
      PROVE  Once(Tail(q), f) /\ (Head(q) = f => f \notin Range(Tail(q)))
  <2>1. ASSUME NEW j \in DOMAIN Tail(q), NEW k \in DOMAIN Tail(q), Tail(q)[j] = f, Tail(q)[k] = f
        PROVE  j = k
    <3>1. j + 1 = k + 1
      BY <1>1, <1>4, <2>1 DEF Once
    <3> QED
      BY <1>1, <3>1
  <2>2. ASSUME Head(q) = f, NEW k \in DOMAIN Tail(q), Tail(q)[k] = f PROVE FALSE
    <3>1. k + 1 = 1
      BY <1>1, <1>4, <2>2 DEF Once
    <3> QED
      BY <1>1, <3>1
  <2> QED
    BY <2>1, <2>2 DEF Once, Range
<1>5. ASSUME IsInjective(q)
      PROVE  IsInjective(Tail(q)) /\ Range(Tail(q)) = Range(q) \ {Head(q)}
  <2>1. \A f : Once(q, f)
    BY <1>5, Zenon DEF IsInjective, Once
  <2>2. IsInjective(Tail(q))
    BY <1>4, <2>1, Zenon DEF IsInjective, Once
  <2> QED
    BY <1>3, <1>4, <2>1, <2>2
<1> QED
  BY <1>1, <1>3, <1>4, <1>5

\* Adding an element at the end.
LEMMA AppendIs ==
    ASSUME NEW S, NEW q \in Seq(S), NEW g \in S
    PROVE  /\ Append(q, g) \in Seq(S) /\ Len(Append(q, g)) = Len(q) + 1 /\ Len(q) \in Nat
           /\ Range(Append(q, g)) = Range(q) \cup {g}
           /\ \A f : (Once(q, f) /\ (g = f => f \notin Range(q))) => Once(Append(q, g), f)
           /\ q # <<>> => Head(Append(q, g)) = Head(q)
<1> DEFINE r == Append(q, g)
<1>1. /\ r \in Seq(S) /\ Len(r) = Len(q) + 1 /\ Len(q) \in Nat
      /\ \A k \in DOMAIN q : k \in DOMAIN r /\ r[k] = q[k] /\ k # Len(q) + 1
      /\ \A k \in DOMAIN r : k \in DOMAIN q \/ k = Len(q) + 1
      /\ Len(q) + 1 \in DOMAIN r /\ r[Len(q) + 1] = g
      /\ q # <<>> => Head(r) = Head(q)
  OBVIOUS
<1> HIDE DEF r
<1>2. Range(r) = Range(q) \cup {g}
  BY <1>1, Zenon DEF Range
<1>3. ASSUME NEW f, Once(q, f), g = f => f \notin Range(q) PROVE Once(r, f)
  <2>1. \A k \in DOMAIN q : q[k] \in Range(q)
    BY DEF Range
  <2> QED
    BY <1>1, <1>3, <2>1, Zenon DEF Once
<1> QED
  BY <1>1, <1>2, <1>3 DEF r

\* Putting one sequence before another.
LEMMA ConcatIs ==
    ASSUME NEW S, NEW s \in Seq(S), NEW q \in Seq(S)
    PROVE  /\ s \o q \in Seq(S) /\ Range(s \o q) = Range(s) \cup Range(q)
           /\ (IsInjective(s) /\ IsInjective(q) /\ Range(s) \cap Range(q) = {}) =>
                 IsInjective(s \o q)
<1> DEFINE r == s \o q
<1>1. /\ r \in Seq(S) /\ Len(s) \in Nat /\ Len(q) \in Nat /\ Len(r) = Len(s) + Len(q)
      /\ DOMAIN r = 1 .. Len(r) /\ DOMAIN s = 1 .. Len(s) /\ DOMAIN q = 1 .. Len(q)
      /\ \A k \in DOMAIN s : r[k] = s[k]
      /\ \A k \in DOMAIN q : r[k + Len(s)] = q[k]
  OBVIOUS
<1> HIDE DEF r
<1>2. /\ \A k \in DOMAIN s : k \in DOMAIN r
      /\ \A k \in DOMAIN q : k + Len(s) \in DOMAIN r
      /\ \A k \in DOMAIN r : k \in DOMAIN s \/ (k - Len(s) \in DOMAIN q /\ k - Len(s) + Len(s) = k)
  BY <1>1
<1>3. \A k \in DOMAIN r : IF k \in DOMAIN s THEN r[k] = s[k]
                          ELSE k - Len(s) \in DOMAIN q /\ r[k] = q[k - Len(s)]
  BY <1>1, <1>2
<1>4. Range(r) = Range(s) \cup Range(q)
  <2>1. \A k \in DOMAIN r : r[k] \in Range(s) \cup Range(q)
    BY <1>3, Zenon DEF Range
  <2>2. \A k \in DOMAIN s : s[k] \in Range(r)
    BY <1>1, <1>2 DEF Range
  <2>3. \A k \in DOMAIN q : q[k] \in Range(r)
    BY <1>1, <1>2 DEF Range
  <2> QED
    BY <2>1, <2>2, <2>3, Zenon DEF Range
<1>5. ASSUME IsInjective(s), IsInjective(q), Range(s) \cap Range(q) = {},
             NEW j \in DOMAIN r, NEW k \in DOMAIN r, r[j] = r[k]
      PROVE  j = k
  <2>1. \A i \in DOMAIN s : s[i] \in Range(s) /\ s[i] \notin Range(q)
    BY <1>5 DEF Range
  <2>2. \A i \in DOMAIN q : q[i] \in Range(q)
    BY DEF Range
  <2>3. CASE j \in DOMAIN s
    BY <1>3, <1>5, <2>1, <2>2, <2>3, Zenon DEF IsInjective
  <2>4. CASE j \notin DOMAIN s
    <3>1. k \notin DOMAIN s
      BY <1>3, <1>5, <2>1, <2>2, <2>4, Zenon
    <3>2. j - Len(s) = k - Len(s)
      BY <1>3, <1>5, <2>4, <3>1, Zenon DEF IsInjective
    <3> QED
      BY <1>1, <3>2
  <2> QED
    BY <2>3, <2>4
<1> QED
  BY <1>1, <1>4, <1>5 DEF r, IsInjective

\* Sequences of one and two elements.
LEMMA ShortIs ==
    /\ \A S : \A x \in S : <<x>> \in Seq(S) /\ Range(<<x>>) = {x} /\ IsInjective(<<x>>)
    /\ \A S : \A x, y \in S : /\ <<x, y>> \in Seq(S) /\ Range(<<x, y>>) = {x, y}
                              /\ x # y => IsInjective(<<x, y>>)
    /\ \A S : <<>> \in Seq(S)
    /\ Range(<<>>) = {} /\ IsInjective(<<>>)
<1>1. ASSUME NEW S, NEW x \in S
      PROVE  <<x>> \in Seq(S) /\ Range(<<x>>) = {x} /\ IsInjective(<<x>>)
  BY DEF Range, IsInjective
<1>2. ASSUME NEW S, NEW x \in S, NEW y \in S
      PROVE  /\ <<x, y>> \in Seq(S) /\ Range(<<x, y>>) = {x, y}
             /\ x # y => IsInjective(<<x, y>>)
  BY DEF Range, IsInjective
<1>3. Range(<<>>) = {} /\ IsInjective(<<>>) /\ \A S : <<>> \in Seq(S)
  BY DEF Range, IsInjective
<1> QED
  BY <1>1, <1>2, <1>3

-----------------------------------------------------------------------------
(* The invariant.                                                          *)

\* What users send, ...
Payloads == UNION {u.messages : u \in Uses}
Sends == {<<"send_in_loop", m>> : m \in Payloads}
Reads == {<<"start_read_in_loop">>, <<"stop_read_in_loop">>}

\* ... what they queue, what else is queued, ...
UserFunctors == Sends \cup Reads \cup {<<"shutdown_in_loop">>, <<"force_close_in_loop">>}
Established == <<"connect_established">>
Destroyed == <<"connect_destroyed">>
Functors == UserFunctors \cup {Established, Destroyed, <<"write_complete">>, <<"high_water_mark">>}

\* ... and what a handler has left to do.
Items == {"callback", "finish", "remove", "close", "error", "read", "write", "functors"}
Open == {"kConnected", "kDisconnecting"}
Peers == {"open", "fin", "reset", "closed"}

\* The types, and that connect_established is queued once.
Typed ==
    /\ use \in Uses /\ state_ \in Open \cup {"kConnecting", "kDisconnected"}
    /\ reading_ \in BOOLEAN /\ ch \in ChannelType /\ output_buffer_ \in Seq(Payloads)
    /\ queue \in Seq(Functors) /\ Once(queue, Established) /\ batch \in 0 .. Len(queue)
    /\ todo \in Seq(Items) /\ IsInjective(todo)
    /\ {in_map, server, wr_shut} \subseteq BOOLEAN /\ finishing \in Nat
    /\ call \in [Users -> UserFunctors \cup {Idle}] /\ held \subseteq Users /\ peer \in Peers

\* A handler calls at most one of handle_close and handle_read, and what they call back
\* is over before the next one.
Handling(s) ==
    /\ ~({"close", "read"} \subseteq Range(s))
    /\ {"callback", "finish", "remove"} \cap Range(s) # {} => {"close", "read"} \cap Range(s) = {}

\* connect_established is the first functor to run.
Connecting ==
    /\ Established \in Range(queue) <=> state_ = "kConnecting"
    /\ state_ = "kConnecting" => /\ Head(queue) = Established /\ ch = NewChannel
                                 /\ Range(todo) \subseteq {"functors"}

\* Unsent data is listened for, and there is none after our FIN.
Buffered ==
    /\ state_ # "kDisconnected" => (output_buffer_ # <<>> <=> is_write_event(ch))
    /\ ShutdownAfterBuffer

\* A connection in plain use is registered and in the map while it is open ...
Kept ==
    /\ in_map /\ closes = 0 /\ finishing = 0 /\ Destroyed \notin Range(queue)
    /\ {"finish", "remove"} \cap Range(todo) = {}
    /\ state_ # "kConnecting" => ch.status = "Added" /\ is_read_event(ch)

\* ... and when it is closed one thing is on its way that leads to its end: finish_cb_, the
\* removal from the map, connect_destroyed, or Channel::remove.
Leaving ==
    /\ closes = 1 /\ is_none_event(ch) /\ {"close", "read"} \cap Range(todo) = {}
    /\ finishing \in {0, 1} /\ ("finish" \in Range(todo) => finishing = 0)
    /\ in_map <=> "finish" \in Range(todo) \/ finishing = 1
    /\ Destroyed \in Range(queue) => ~in_map /\ "remove" \notin Range(todo)
    /\ "remove" \in Range(todo) => ~in_map
    /\ ch.status = IF in_map \/ Destroyed \in Range(queue) \/ "remove" \in Range(todo)
                   THEN "Deleted" ELSE "Init"

\* What holds in plain use.
PlainInv ==
    /\ server /\ aborted = "no" /\ Once(queue, Destroyed)
    /\ Range(queue) \cap Reads = {} /\ \A t \in Users : call[t] \notin Reads
    /\ IF state_ = "kDisconnected" THEN Leaving ELSE Kept

\* The invariant.
ConnInv == Typed /\ Handling(todo) /\ Connecting /\ Buffered /\ (Plain => PlainInv)

\* A connection that has just been stored in the map.
LEMMA ConnInvInit == Init => ConnInv
<1> SUFFICES ASSUME Init PROVE ConnInv
  OBVIOUS
<1>1. /\ queue \in Seq(Functors) /\ Len(queue) = 1 /\ Range(queue) = {Established}
      /\ Head(queue) = Established /\ \A f : Once(queue, f)
  <2>1. queue = <<Established>> /\ Established \in Functors
    BY DEF Init, Functors, Established
  <2> HIDE DEF Established
  <2>2. queue \in Seq(Functors) /\ Range(queue) = {Established}
    BY <2>1, ShortIs, Zenon
  <2>3. Len(queue) = 1 /\ Head(queue) = Established /\ \A f : Once(queue, f)
    BY <2>1 DEF Once
  <2> QED
    BY <2>2, <2>3
<1>2. todo \in Seq(Items) /\ IsInjective(todo) /\ Range(todo) = {} /\ output_buffer_ \in Seq(Payloads)
  BY ShortIs DEF Init
<1>3. ch \in ChannelType /\ ch = NewChannel /\ ~is_write_event(ch)
  BY DEF Init, NewChannel, ChannelType, Statuses, Events, is_write_event
<1>4. Typed
  <2>1. call \in [Users -> UserFunctors \cup {Idle}]
    BY DEF Init
  <2>2. /\ use \in Uses /\ state_ = "kConnecting" /\ reading_ = TRUE /\ batch = 0 /\ in_map = TRUE
        /\ server = TRUE /\ finishing = 0 /\ held = {} /\ peer = "open" /\ wr_shut = FALSE
    BY DEF Init
  <2>3. reading_ \in BOOLEAN /\ {in_map, server, wr_shut} \subseteq BOOLEAN /\ peer \in Peers
    BY <2>2, Zenon DEF Peers
  <2>4. batch \in 0 .. Len(queue) /\ finishing \in Nat
    BY <1>1, <2>2
  <2> QED
    BY <1>1, <1>2, <1>3, <2>1, <2>2, <2>3, <2>4, Zenon DEF Typed
<1>5. Handling(todo) /\ Connecting /\ Buffered
  BY <1>1, <1>2, <1>3 DEF Init, Handling, Connecting, Buffered, ShutdownAfterBuffer
<1>6. PlainInv
  <2>1. Destroyed \notin Range(queue) /\ Range(queue) \cap Reads = {}
    BY <1>1 DEF Destroyed, Established, Reads
  <2>2. \A t \in Users : call[t] \notin Reads
    BY DEF Init, Idle, Reads
  <2> QED
    BY <1>1, <1>2, <1>3, <2>1, <2>2 DEF Init, PlainInv, Kept
<1> QED
  BY <1>4, <1>5, <1>6 DEF ConnInv

\* Somebody holds the connection.
LEMMA AliveIs ==
    /\ in_map \/ finishing > 0 \/ todo # <<>> => Alive
    /\ \A f \in Range(queue) : f[1] \in Strong => Alive
BY DEF Alive, Range

\* A connection nobody holds has been through all of it.
LEMMA ConnInvImplies == ConnInv => ConnectionClean /\ ShutdownAfterBuffer
<1> SUFFICES ASSUME ConnInv PROVE ConnectionClean /\ ShutdownAfterBuffer
  OBVIOUS
<1>1. TypeOK
  BY DEF ConnInv, Typed, Buffered, TypeOK, Open, Peers
<1>2. ChecksHold
  BY DEF ConnInv, PlainInv, ChecksHold, NoCheckFails
<1>3. ASSUME Plain PROVE closes \leq 1 /\ (~Alive => state_ = "kDisconnected" /\ ch.status = "Init" /\ closes = 1)
  <2>1. PlainInv
    BY <1>3 DEF ConnInv
  <2>2. closes \in {0, 1}
    BY <2>1 DEF PlainInv, Kept, Leaving
  <2>3. ASSUME ~Alive PROVE state_ = "kDisconnected" /\ ch.status = "Init" /\ closes = 1
    <3>1. ~in_map /\ todo = <<>> /\ Destroyed \notin Range(queue)
      BY <2>3, AliveIs DEF Strong, Destroyed
    <3>2. Range(todo) = {}
      BY <3>1, ShortIs
    <3> QED
      BY <2>1, <3>1, <3>2 DEF PlainInv, Kept, Leaving
  <2> QED
    BY <2>2, <2>3
<1> QED
  BY <1>1, <1>2, <1>3 DEF ConnectionClean, DestroyedClean, ConnInv, Buffered

-----------------------------------------------------------------------------
(* Steps that do not end the life of the connection.                       *)

\* q is what may become of the queue, b of the batch ...
QueueMoves(q, b) ==
    /\ q \in Seq(Functors) /\ b \in 0 .. Len(q)
    /\ Once(q, Established) /\ (Plain => Once(q, Destroyed) /\ Range(q) \cap Reads = {})
    /\ \A f \in {Established, Destroyed} : f \in Range(q) <=> f \in Range(queue)
    /\ state_ = "kConnecting" => Head(q) = Head(queue)

\* ... and s of what is left to do.
TodoMoves(s) ==
    /\ s \in Seq(Items) /\ IsInjective(s) /\ Handling(s)
    /\ \A x \in {"finish", "remove"} : x \in Range(s) <=> x \in Range(todo)
    /\ state_ = "kConnecting" => Range(s) \subseteq {"functors"}
    /\ (Plain /\ state_ = "kDisconnected") => {"close", "read"} \cap Range(s) = {}

\* The state only moves to kDisconnecting.
StateMoves == state_' = state_ \/ (state_ \in Open /\ state_' = "kDisconnecting")

\* The channel of a connection that is open stays registered for reading.
ChannelMoves ==
    \/ ch' = ch
    \/ /\ state_ # "kConnecting"
       /\ Plain => state_ \in Open /\ ch'.status = "Added" /\ is_read_event(ch')

\* The invariant survives such steps.
LEMMA QuietKeeps ==
    ASSUME ConnInv, UNCHANGED <<use, in_map, server, finishing, closes, aborted>>,
           StateMoves, QueueMoves(queue', batch'), TodoMoves(todo'), ChannelMoves,
           reading_' \in BOOLEAN, ch' \in ChannelType, output_buffer_' \in Seq(Payloads),
           wr_shut' \in BOOLEAN, held' \subseteq Users, peer' \in Peers,
           call' \in [Users -> UserFunctors \cup {Idle}],
           Plain => \A t \in Users : call'[t] \notin Reads,
           Buffered'
    PROVE  ConnInv'
<1>1. Typed'
  BY DEF ConnInv, Typed, StateMoves, QueueMoves, TodoMoves, Open
<1>2. Handling(todo')
  BY DEF TodoMoves
<1>3. state_' = "kConnecting" <=> state_ = "kConnecting"
  BY DEF StateMoves, Open
<1>4. Connecting'
  <2>1. Established \in Range(queue') <=> state_' = "kConnecting"
    BY <1>3 DEF ConnInv, Connecting, QueueMoves
  <2>2. state_' = "kConnecting" => /\ Head(queue') = Established /\ ch' = NewChannel
                                   /\ Range(todo') \subseteq {"functors"}
    BY <1>3 DEF ConnInv, Connecting, QueueMoves, TodoMoves, ChannelMoves
  <2> QED
    BY <2>1, <2>2 DEF Connecting
<1>5. ASSUME Plain PROVE PlainInv'
  <2>1. PlainInv
    BY <1>5 DEF ConnInv
  <2>2. Destroyed \in Range(queue') <=> Destroyed \in Range(queue)
    BY DEF QueueMoves
  <2>3. /\ server' /\ aborted' = "no" /\ Once(queue', Destroyed)
        /\ Range(queue') \cap Reads = {} /\ \A t \in Users : call'[t] \notin Reads
    BY <1>5, <2>1 DEF PlainInv, QueueMoves
  <2>4. "finish" \in Range(todo') <=> "finish" \in Range(todo)
    BY DEF TodoMoves
  <2>5. "remove" \in Range(todo') <=> "remove" \in Range(todo)
    BY DEF TodoMoves
  <2>6. CASE state_ = "kDisconnected"
    <3>1. state_' = "kDisconnected" /\ ch' = ch /\ {"close", "read"} \cap Range(todo') = {}
      BY <1>5, <2>6 DEF StateMoves, ChannelMoves, TodoMoves, Open
    <3>2. Leaving'
      BY <2>1, <2>2, <2>4, <2>5, <2>6, <3>1 DEF PlainInv, Leaving, is_none_event
    <3> QED
      BY <2>3, <3>1, <3>2 DEF PlainInv
  <2>7. CASE state_ # "kDisconnected"
    <3>0. Kept
      BY <2>1, <2>7 DEF PlainInv
    <3>1. state_' # "kDisconnected"
      BY <2>7 DEF StateMoves
    <3>2. state_' # "kConnecting" => ch'.status = "Added" /\ is_read_event(ch')
      BY <1>3, <1>5, <3>0 DEF ChannelMoves, Kept, Open
    <3>3. Kept'
      BY <2>2, <2>4, <2>5, <3>0, <3>2 DEF Kept
    <3> QED
      BY <2>3, <3>1, <3>3 DEF PlainInv
  <2> QED
    BY <2>6, <2>7
<1>6. Plain' => Plain
  BY DEF Plain
<1> QED
  BY <1>1, <1>2, <1>4, <1>5, <1>6 DEF ConnInv

\* What Poller::update_channel does to a channel that wants e.
LEMMA UpdateIs ==
    ASSUME NEW c \in ChannelType, NEW e \in SUBSET Events
    PROVE  LET d == update([c EXCEPT !.events = e])
           IN /\ d \in ChannelType /\ d.events = e
              /\ d.status = IF c.status = "Added" /\ e = {} THEN "Deleted" ELSE "Added"
<1> DEFINE b == [c EXCEPT !.events = e]
           s == IF b.status # "Added" THEN "Added" ELSE IF b.events = {} THEN "Deleted" ELSE "Added"
<1>1. b \in ChannelType /\ b.events = e /\ b.status = c.status
  BY DEF ChannelType
<1>2. s \in Statuses
  BY DEF Statuses
<1>3. update(b) = [b EXCEPT !.status = s]
  BY DEF update, is_none_event
<1> HIDE DEF b, s
<1>4. update(b) \in ChannelType /\ update(b).events = b.events /\ update(b).status = s
  BY <1>1, <1>2, <1>3 DEF ChannelType
<1>5. s = IF c.status = "Added" /\ e = {} THEN "Deleted" ELSE "Added"
  BY <1>1 DEF s
<1> QED
  BY <1>1, <1>4, <1>5 DEF b

\* What the operations of a channel do to its fields.
LEMMA ChannelIs ==
    ASSUME NEW c \in ChannelType
    PROVE  /\ c.events \subseteq Events /\ c.status \in Statuses
           /\ enable_write_event(c) \in ChannelType /\ enable_write_event(c).status = "Added"
           /\ enable_write_event(c).events = c.events \cup {"W"}
           /\ enable_read_event(c) \in ChannelType /\ enable_read_event(c).status = "Added"
           /\ enable_read_event(c).events = c.events \cup {"R"}
           /\ disable_write_event(c) \in ChannelType
           /\ disable_write_event(c).events = c.events \ {"W"}
           /\ (c.status = "Added" /\ "R" \in c.events) => disable_write_event(c).status = "Added"
           /\ disable_read_event(c) \in ChannelType
           /\ disable_read_event(c).events = c.events \ {"R"}
           /\ disable_all_event(c) \in ChannelType /\ disable_all_event(c).events = {}
           /\ c.status = "Added" => disable_all_event(c).status = "Deleted"
           /\ remove(c) \in ChannelType /\ remove(c).events = c.events /\ remove(c).status = "Init"
<1>1. c.events \in SUBSET Events /\ c.status \in Statuses
  BY DEF ChannelType
<1>2. "R" \in Events /\ "W" \in Events
  BY DEF Events
<1> DEFINE Updated(d, e) ==
             /\ d \in ChannelType /\ d.events = e
             /\ d.status = IF c.status = "Added" /\ e = {} THEN "Deleted" ELSE "Added"
<1>3. \A e \in SUBSET Events : Updated(update([c EXCEPT !.events = e]), e)
  BY UpdateIs
<1> HIDE DEF Updated
<1>4. /\ Updated(enable_write_event(c), c.events \cup {"W"})
      /\ Updated(enable_read_event(c), c.events \cup {"R"})
      /\ Updated(disable_write_event(c), c.events \ {"W"})
      /\ Updated(disable_read_event(c), c.events \ {"R"})
      /\ Updated(disable_all_event(c), {})
  <2>1. /\ c.events \cup {"W"} \in SUBSET Events /\ c.events \cup {"R"} \in SUBSET Events
        /\ c.events \ {"W"} \in SUBSET Events /\ c.events \ {"R"} \in SUBSET Events
        /\ {} \in SUBSET Events
    BY <1>1, <1>2
  <2> QED
    BY <1>3, <2>1, Zenon DEF enable_write_event, enable_read_event, disable_write_event,
                            disable_read_event, disable_all_event
<1>5. remove(c) \in ChannelType /\ remove(c).events = c.events /\ remove(c).status = "Init"
  BY DEF remove, ChannelType, Statuses
<1> QED
  BY <1>1, <1>4, <1>5 DEF Updated

\* The functors are told apart by their names.
LEMMA FunctorsAre ==
    /\ Established \in Functors /\ Destroyed \in Functors /\ Established # Destroyed
    /\ \A f \in UserFunctors \cup {<<"write_complete">>, <<"high_water_mark">>} :
          f \in Functors /\ f \notin {Established, Destroyed} /\ f[1] \notin {"connect_established", "connect_destroyed"}
    /\ {<<"write_complete">>, <<"high_water_mark">>, <<"shutdown_in_loop">>, <<"force_close_in_loop">>}
          \cap (Reads \cup {Idle}) = {}
    /\ Sends \cap Reads = {} /\ Idle \notin Reads
    /\ \A m : <<"send_in_loop", m>> \notin {Established, Destroyed}
    /\ \A f \in Functors : /\ f[1] = "connect_established" <=> f = Established
                           /\ f[1] = "connect_destroyed" <=> f = Destroyed
                           /\ f[1] = "send_in_loop" => f[2] \in Payloads /\ f = <<"send_in_loop", f[2]>>
                           /\ f[1] \in {"start_read_in_loop", "stop_read_in_loop"} => f \in Reads
BY DEF Established, Destroyed, Functors, UserFunctors, Sends, Reads, Idle

\* The queue as it is, swapped or not.
LEMMA SameQueue ==
    ASSUME ConnInv
    PROVE  /\ QueueMoves(queue, batch) /\ QueueMoves(queue, Len(queue))
           /\ state_ = "kConnecting" => queue # <<>>
<1>1. Len(queue) \in 0 .. Len(queue) /\ (queue = <<>> => Range(queue) = {})
  BY ShortIs DEF ConnInv, Typed
<1> QED
  BY <1>1, Zenon DEF ConnInv, Typed, QueueMoves, PlainInv, Connecting

\* Queueing a functor.
LEMMA AppendQueue ==
    ASSUME ConnInv, NEW q, NEW b, QueueMoves(q, b), NEW f \in Functors,
           f \notin {Established, Destroyed}, Plain => f \notin Reads
    PROVE  QueueMoves(Append(q, f), b)
<1>1. q \in Seq(Functors) /\ b \in 0 .. Len(q)
  BY DEF QueueMoves
<1>2. /\ Append(q, f) \in Seq(Functors) /\ Len(Append(q, f)) = Len(q) + 1 /\ Len(q) \in Nat
      /\ Range(Append(q, f)) = Range(q) \cup {f}
      /\ \A g : (Once(q, g) /\ (f = g => g \notin Range(q))) => Once(Append(q, f), g)
      /\ q # <<>> => Head(Append(q, f)) = Head(q)
  BY <1>1, AppendIs
<1>3. b \in 0 .. Len(Append(q, f))
  BY <1>1, <1>2
<1>4. state_ = "kConnecting" => q # <<>>
  <2>1. state_ = "kConnecting" => Established \in Range(q)
    BY DEF QueueMoves, ConnInv, Connecting
  <2> QED
    BY <2>1, ShortIs
<1> QED
  BY <1>2, <1>3, <1>4 DEF QueueMoves

\* Taking a functor other than connect_established and connect_destroyed out of the batch.
LEMMA TailQueue ==
    ASSUME ConnInv, batch > 0, Head(queue) \notin {Established, Destroyed}
    PROVE  /\ QueueMoves(Tail(queue), batch - 1) /\ state_ # "kConnecting"
           /\ Head(queue) \in Functors /\ Head(queue) \in Range(queue)
<1>1. queue \in Seq(Functors) /\ batch \in 0 .. Len(queue) /\ Once(queue, Established)
  BY DEF ConnInv, Typed
<1>2. queue # <<>>
  BY <1>1
<1>3. /\ Tail(queue) \in Seq(Functors) /\ Len(Tail(queue)) = Len(queue) - 1 /\ Len(queue) \in Nat
      /\ Head(queue) \in Functors /\ Head(queue) \in Range(queue)
      /\ Range(queue) = Range(Tail(queue)) \cup {Head(queue)}
      /\ \A f : Once(queue, f) => Once(Tail(queue), f)
  BY <1>1, <1>2, TailIs
<1>4. batch - 1 \in 0 .. Len(Tail(queue))
  BY <1>1, <1>3
<1>5. state_ # "kConnecting"
  BY DEF ConnInv, Connecting
<1>6. Plain => Once(queue, Destroyed) /\ Range(queue) \cap Reads = {}
  BY DEF ConnInv, PlainInv
<1>7. Plain => Once(Tail(queue), Destroyed) /\ Range(Tail(queue)) \cap Reads = {}
  BY <1>3, <1>6
<1> QED
  BY <1>1, <1>3, <1>4, <1>5, <1>7 DEF QueueMoves

\* What is left to do, as it is or without its head.
LEMMA SameTodo == ConnInv => TodoMoves(todo)
BY DEF ConnInv, Typed, TodoMoves, Connecting, PlainInv, Leaving

\* ... without its head.
LEMMA TailTodo ==
    ASSUME ConnInv, todo # <<>>, Head(todo) \notin {"finish", "remove"}
    PROVE  TodoMoves(Tail(todo))
<1>1. todo \in Seq(Items) /\ IsInjective(todo) /\ Handling(todo)
  BY DEF ConnInv, Typed
<1>2. /\ Tail(todo) \in Seq(Items) /\ IsInjective(Tail(todo))
      /\ Range(Tail(todo)) = Range(todo) \ {Head(todo)}
  BY <1>1, TailIs
<1>3. Handling(Tail(todo))
  BY <1>1, <1>2 DEF Handling
<1> QED
  BY <1>2, <1>3, SameTodo DEF TodoMoves

\* Nothing was left to do.
LEMMA NewTodo ==
    ASSUME ConnInv, todo = <<>>
    PROVE  TodoMoves(<<"functors">>) /\ (state_ # "kConnecting" => TodoMoves(<<"callback">>))
<1>1. Range(todo) = {}
  BY ShortIs
<1>2. "functors" \in Items /\ "callback" \in Items
  BY DEF Items
<1>3. /\ <<"functors">> \in Seq(Items) /\ IsInjective(<<"functors">>) /\ Range(<<"functors">>) = {"functors"}
      /\ <<"callback">> \in Seq(Items) /\ IsInjective(<<"callback">>) /\ Range(<<"callback">>) = {"callback"}
  BY <1>2, ShortIs, Zenon
<1> QED
  BY <1>1, <1>3 DEF TodoMoves, Handling

\* Steps that leave the data and the channel alone.
LEMMA CalmKeeps ==
    ASSUME ConnInv, UNCHANGED <<use, in_map, server, finishing, closes, aborted, reading_,
                                output_buffer_, ch, wr_shut>>,
           StateMoves, QueueMoves(queue', batch'), TodoMoves(todo'),
           held' \subseteq Users, peer' \in Peers,
           call' \in [Users -> UserFunctors \cup {Idle}],
           Plain => \A t \in Users : call'[t] \notin Reads
    PROVE  ConnInv'
<1>1. Buffered'
  BY DEF ConnInv, Buffered, ShutdownAfterBuffer, StateMoves, Open
<1>2. reading_' \in BOOLEAN /\ ch' \in ChannelType /\ output_buffer_' \in Seq(Payloads) /\ wr_shut' \in BOOLEAN
  BY DEF ConnInv, Typed
<1>3. ChannelMoves
  BY DEF ChannelMoves
<1> QED
  BY <1>1, <1>2, <1>3, QuietKeeps

-----------------------------------------------------------------------------
(* The users, and what the loop does without touching the data.            *)

\* The users' side of the invariant.
LEMMA UsersAre ==
    ASSUME ConnInv
    PROVE  /\ held \subseteq Users /\ peer \in Peers /\ call \in [Users -> UserFunctors \cup {Idle}]
           /\ Plain => \A t \in Users : call[t] \notin Reads
           /\ \A m \in use.messages : m \in Payloads /\ <<"send_in_loop", m>> \in Sends
           /\ Plain => "start_read" \notin use.calls /\ "stop_read" \notin use.calls
<1>1. /\ held \subseteq Users /\ peer \in Peers /\ call \in [Users -> UserFunctors \cup {Idle}]
      /\ use \in Uses
  BY DEF ConnInv, Typed
<1>2. Plain => \A t \in Users : call[t] \notin Reads
  BY DEF ConnInv, PlainInv
<1>3. \A m \in use.messages : m \in Payloads /\ <<"send_in_loop", m>> \in Sends
  BY <1>1, Zenon DEF Payloads, Sends
<1>4. Plain => "start_read" \notin use.calls /\ "stop_read" \notin use.calls
  BY DEF Plain, Writing
<1> QED
  BY <1>1, <1>2, <1>3, <1>4

\* The first half of a user's call.
LEMMA UserKeeps ==
    ASSUME ConnInv, NEW t \in Users,
           \/ \E m \in use.messages : UserSend(t, m)
           \/ UserShutdown(t) \/ UserForceClose(t) \/ UserReading(t) \/ UserForceCloseWithDelay(t)
    PROVE  ConnInv'
<1>1. /\ UNCHANGED <<use, in_map, server, finishing, closes, aborted, reading_, output_buffer_, ch,
                     wr_shut, queue, batch, todo, held, peer>>
      /\ StateMoves
  BY DEF UserSend, UserShutdown, UserForceClose, UserReading, UserForceCloseWithDelay, UserCall,
         send, shutdown, Closing, Reading, loop, owner, net, StateMoves, Open
<1>2. \/ call' = call
      \/ \E f \in UserFunctors : /\ call' = [call EXCEPT ![t] = f] /\ (Plain => f \notin Reads)
  <2>1. ASSUME NEW m \in use.messages, UserSend(t, m)
        PROVE  \E f \in UserFunctors : call' = [call EXCEPT ![t] = f] /\ (Plain => f \notin Reads)
    <3>1. <<"send_in_loop", m>> \in UserFunctors /\ <<"send_in_loop", m>> \notin Reads
      BY UsersAre, FunctorsAre, Zenon DEF UserFunctors
    <3> QED
      BY <2>1, <3>1, Zenon DEF UserSend, UserCall
  <2>2. CASE UserShutdown(t)
    <3>1. <<"shutdown_in_loop">> \in UserFunctors /\ <<"shutdown_in_loop">> \notin Reads
      BY FunctorsAre DEF UserFunctors
    <3> QED
      BY <2>2, <3>1, Zenon DEF UserShutdown, UserCall
  <2>3. CASE UserForceClose(t)
    <3>1. <<"force_close_in_loop">> \in UserFunctors /\ <<"force_close_in_loop">> \notin Reads
      BY FunctorsAre DEF UserFunctors
    <3> QED
      BY <2>3, <3>1, Zenon DEF UserForceClose, UserCall
  <2>4. CASE UserReading(t)
    <3>1. ~Plain
      BY <2>4, UsersAre DEF UserReading, Reading
    <3>2. <<"start_read_in_loop">> \in UserFunctors /\ <<"stop_read_in_loop">> \in UserFunctors
      BY DEF UserFunctors, Reads
    <3> QED
      BY <2>4, <3>1, <3>2, Zenon DEF UserReading, UserCall
  <2>5. CASE UserForceCloseWithDelay(t)
    BY <2>5 DEF UserForceCloseWithDelay
  <2> QED
    BY <2>1, <2>2, <2>3, <2>4, <2>5
<1>3. /\ call' \in [Users -> UserFunctors \cup {Idle}]
      /\ Plain => \A u \in Users : call'[u] \notin Reads
  BY <1>2, UsersAre
<1>4. QueueMoves(queue', batch') /\ TodoMoves(todo') /\ held' \subseteq Users /\ peer' \in Peers
  BY <1>1, SameQueue, SameTodo, UsersAre
<1> QED
  BY <1>1, <1>3, <1>4, CalmKeeps

\* The second half, a user that lets go, and a peer that closes.
LEMMA OutsideKeeps ==
    ASSUME ConnInv, UNCHANGED vars \/ PeerCloses \/ \E t \in Users : Enqueue(t) \/ DropPtr(t)
    PROVE  ConnInv'
<1>1. /\ UNCHANGED <<use, in_map, server, finishing, closes, aborted, reading_, output_buffer_, ch,
                     wr_shut, batch, todo, state_>>
      /\ held' \subseteq held /\ StateMoves
  BY DEF vars, conn, loop, owner, users, net, history, PeerCloses, Enqueue, DropPtr, StateMoves
<1>2. peer' \in Peers
  BY UsersAre DEF vars, net, PeerCloses, Enqueue, DropPtr, Peers
<1>3. /\ QueueMoves(queue', batch) /\ call' \in [Users -> UserFunctors \cup {Idle}]
      /\ Plain => \A u \in Users : call'[u] \notin Reads
  <2>1. CASE UNCHANGED <<queue, call>>
    BY <2>1, UsersAre, SameQueue
  <2>2. ASSUME NEW t \in Users, Enqueue(t)
        PROVE  /\ QueueMoves(queue', batch) /\ call' \in [Users -> UserFunctors \cup {Idle}]
               /\ Plain => \A u \in Users : call'[u] \notin Reads
    <3>1. /\ queue' = Append(queue, call[t]) /\ call' = [call EXCEPT ![t] = Idle] /\ call[t] # Idle
      BY <2>2 DEF Enqueue
    <3>2. call[t] \in UserFunctors /\ (Plain => call[t] \notin Reads)
      BY <3>1, UsersAre
    <3>3. call[t] \in Functors /\ call[t] \notin {Established, Destroyed}
      BY <3>2, FunctorsAre
    <3>4. QueueMoves(queue', batch)
      BY <3>1, <3>2, <3>3, SameQueue, AppendQueue
    <3>5. /\ call' \in [Users -> UserFunctors \cup {Idle}]
          /\ Plain => \A u \in Users : call'[u] \notin Reads
      BY <3>1, UsersAre, FunctorsAre
    <3> QED
      BY <3>4, <3>5
  <2>3. UNCHANGED <<queue, call>> \/ \E t \in Users : Enqueue(t)
    BY DEF vars, loop, users, PeerCloses, DropPtr
  <2> QED
    BY <2>1, <2>2, <2>3
<1>4. TodoMoves(todo') /\ held' \subseteq Users
  BY <1>1, SameTodo, UsersAre
<1> QED
  BY <1>1, <1>2, <1>3, <1>4, CalmKeeps

\* The ends of handlers: a callback returns, an error is logged, the vector is swapped.
LEMMA PassKeeps ==
    ASSUME ConnInv, CallbackReturns \/ HandleError \/ Swap
    PROVE  ConnInv'
<1>1. /\ UNCHANGED <<use, in_map, server, finishing, closes, aborted, reading_, output_buffer_, ch,
                     wr_shut, state_, queue, call, held, peer>>
      /\ StateMoves /\ batch' \in {batch, Len(queue)}
      /\ todo # <<>> /\ todo' = Tail(todo) /\ Head(todo) \notin {"finish", "remove"}
  BY DEF conn, owner, users, net, history, CallbackReturns, HandleError, Swap, At, StateMoves
<1>2. QueueMoves(queue', batch') /\ TodoMoves(todo')
  BY <1>1, SameQueue, TailTodo
<1>3. /\ held' \subseteq Users /\ peer' \in Peers /\ call' \in [Users -> UserFunctors \cup {Idle}]
      /\ Plain => \A u \in Users : call'[u] \notin Reads
  BY <1>1, UsersAre
<1> QED
  BY <1>1, <1>2, <1>3, CalmKeeps

\* The callbacks of a poll: none in plain use once the connection is closed, because the
\* channel is no longer listened to.
LEMMA PollTodo ==
    ASSUME ConnInv, NEW revents, todo = <<>>, ch.status = "Added" \/ revents = {}
    PROVE  TodoMoves(handle_event(revents) \o <<"functors">>)
<1> DEFINE a == IF "HUP" \in revents /\ "R" \notin revents THEN <<"close">> ELSE <<>>
           b == IF "ERR" \in revents THEN <<"error">> ELSE <<>>
           c == IF "R" \in revents THEN <<"read">> ELSE <<>>
           d == IF "W" \in revents THEN <<"write">> ELSE <<>>
           s == handle_event(revents) \o <<"functors">>
<1>1. /\ \A x \in Items : <<x>> \in Seq(Items) /\ Range(<<x>>) = {x} /\ IsInjective(<<x>>)
      /\ <<>> \in Seq(Items) /\ Range(<<>>) = {} /\ IsInjective(<<>>)
      /\ {"close", "error", "read", "write", "functors"} \subseteq Items
  BY ShortIs, Zenon DEF Items
<1>2. /\ a \in Seq(Items) /\ IsInjective(a) /\ Range(a) \subseteq {"close"}
      /\ b \in Seq(Items) /\ IsInjective(b) /\ Range(b) \subseteq {"error"}
      /\ c \in Seq(Items) /\ IsInjective(c) /\ Range(c) \subseteq {"read"}
      /\ d \in Seq(Items) /\ IsInjective(d) /\ Range(d) \subseteq {"write"}
      /\ <<"functors">> \in Seq(Items) /\ IsInjective(<<"functors">>) /\ Range(<<"functors">>) = {"functors"}
      /\ Range(a) # {} => Range(c) = {}
      /\ revents = {} => Range(a) = {} /\ Range(b) = {} /\ Range(c) = {} /\ Range(d) = {}
  BY <1>1
<1>3. s = (((a \o b) \o c) \o d) \o <<"functors">>
  BY DEF handle_event
<1> HIDE DEF a, b, c, d, s
<1>0. \A x, y \in Seq(Items) :
         /\ x \o y \in Seq(Items) /\ Range(x \o y) = Range(x) \cup Range(y)
         /\ (IsInjective(x) /\ IsInjective(y) /\ Range(x) \cap Range(y) = {}) => IsInjective(x \o y)
  BY ConcatIs, Zenon
<1>4. /\ a \o b \in Seq(Items) /\ IsInjective(a \o b) /\ Range(a \o b) = Range(a) \cup Range(b)
  <2>1. Range(a) \cap Range(b) = {}
    BY <1>2
  <2> QED
    BY <1>0, <1>2, <2>1, Zenon
<1>5. /\ (a \o b) \o c \in Seq(Items) /\ IsInjective((a \o b) \o c)
      /\ Range((a \o b) \o c) = Range(a) \cup Range(b) \cup Range(c)
  <2>1. Range(a \o b) \cap Range(c) = {}
    BY <1>2, <1>4
  <2>2. /\ (a \o b) \o c \in Seq(Items) /\ IsInjective((a \o b) \o c)
        /\ Range((a \o b) \o c) = Range(a \o b) \cup Range(c)
    BY <1>0, <1>2, <1>4, <2>1, Zenon
  <2> QED
    BY <1>4, <2>2
<1>6. /\ ((a \o b) \o c) \o d \in Seq(Items) /\ IsInjective(((a \o b) \o c) \o d)
      /\ Range(((a \o b) \o c) \o d) = Range(a) \cup Range(b) \cup Range(c) \cup Range(d)
  <2>1. Range((a \o b) \o c) \cap Range(d) = {}
    BY <1>2, <1>5
  <2>2. /\ ((a \o b) \o c) \o d \in Seq(Items) /\ IsInjective(((a \o b) \o c) \o d)
        /\ Range(((a \o b) \o c) \o d) = Range((a \o b) \o c) \cup Range(d)
    BY <1>0, <1>2, <1>5, <2>1, Zenon
  <2> QED
    BY <1>5, <2>2
<1>7. /\ s \in Seq(Items) /\ IsInjective(s)
      /\ Range(s) = Range(a) \cup Range(b) \cup Range(c) \cup Range(d) \cup {"functors"}
  <2>1. Range(((a \o b) \o c) \o d) \cap Range(<<"functors">>) = {}
    BY <1>2, <1>6
  <2>2. s \in Seq(Items) /\ IsInjective(s) /\ Range(s) = Range(((a \o b) \o c) \o d) \cup Range(<<"functors">>)
    BY <1>0, <1>2, <1>3, <1>6, <2>1, Zenon
  <2> QED
    BY <1>2, <1>6, <2>2
<1>8. Handling(s) /\ \A x \in {"finish", "remove"} : x \notin Range(s)
  BY <1>2, <1>7 DEF Handling
<1>9. Range(todo) = {}
  BY ShortIs
<1>10. revents = {} => Range(s) = {"functors"}
  BY <1>2, <1>7
<1>11. state_ = "kConnecting" => revents = {}
  BY DEF ConnInv, Connecting, NewChannel
<1>12. (Plain /\ state_ = "kDisconnected") => revents = {}
  BY DEF ConnInv, PlainInv, Leaving
<1>13. TodoMoves(s)
  BY <1>7, <1>8, <1>9, <1>10, <1>11, <1>12 DEF TodoMoves
<1> QED
  BY <1>13 DEF s

\* Polling.
LEMMA PollKeeps ==
    ASSUME ConnInv, NEW revents, Poll(revents)
    PROVE  ConnInv'
<1>1. /\ UNCHANGED <<use, in_map, server, finishing, closes, aborted, reading_, output_buffer_, ch,
                     wr_shut, state_, queue, batch, call, held, peer>>
      /\ StateMoves /\ todo = <<>> /\ todo' = handle_event(revents) \o <<"functors">>
      /\ ch.status = "Added" \/ revents = {}
  BY DEF conn, owner, users, net, history, Poll, StateMoves
<1>2. QueueMoves(queue', batch') /\ TodoMoves(todo')
  BY <1>1, SameQueue, PollTodo
<1>3. /\ held' \subseteq Users /\ peer' \in Peers /\ call' \in [Users -> UserFunctors \cup {Idle}]
      /\ Plain => \A u \in Users : call'[u] \notin Reads
  BY <1>1, UsersAre
<1> QED
  BY <1>1, <1>2, <1>3, CalmKeeps

\* The timer of force_close_with_delay.
LEMMA TimerKeeps ==
    ASSUME ConnInv, TimerFires
    PROVE  ConnInv'
<1>1. /\ UNCHANGED <<use, in_map, server, finishing, closes, aborted, reading_, output_buffer_, ch,
                     wr_shut, batch, call, held, peer>>
      /\ StateMoves /\ todo = <<>> /\ todo' = <<"functors">>
      /\ queue' = queue \/ queue' = Append(queue, <<"force_close_in_loop">>)
  BY DEF owner, net, history, TimerFires, StateMoves, Open
<1>2. /\ <<"force_close_in_loop">> \in Functors /\ <<"force_close_in_loop">> \notin {Established, Destroyed}
      /\ <<"force_close_in_loop">> \notin Reads
  BY FunctorsAre DEF UserFunctors
<1>3. QueueMoves(Append(queue, <<"force_close_in_loop">>), batch)
  BY <1>2, SameQueue, AppendQueue
<1>4. QueueMoves(queue', batch') /\ TodoMoves(todo')
  BY <1>1, <1>3, SameQueue, NewTodo, Zenon
<1>5. /\ held' \subseteq Users /\ peer' \in Peers /\ call' \in [Users -> UserFunctors \cup {Idle}]
      /\ Plain => \A u \in Users : call'[u] \notin Reads
  BY <1>1, UsersAre
<1> QED
  BY <1>1, <1>4, <1>5, CalmKeeps

-----------------------------------------------------------------------------
(* The data.                                                               *)

\* The part of a message that is not written.
LEMMA UnitsAre ==
    ASSUME NEW m \in Payloads, NEW n \in -1 .. 2
    PROVE  LET remaining == IF n = -1 THEN <<>> ELSE SubSeq(<<m, m>>, n + 1, 2)
           IN remaining \in Seq(Payloads) /\ (remaining = <<>> <=> n \in {-1, 2})
<1> DEFINE u == <<m, m>>
<1>1. u \in Seq(Payloads) /\ Len(u) = 2 /\ u[1] = m /\ u[2] = m
  OBVIOUS
<1> HIDE DEF u
<1>2. ASSUME n # -1 PROVE SubSeq(u, n + 1, 2) \in Seq(Payloads) /\ (SubSeq(u, n + 1, 2) = <<>> <=> n = 2)
  <2>0. n \in 0 .. 2
    BY <1>2
  <2>1. \A v \in Seq(Payloads) : \A k \in 1 .. Len(v) + 1 :
           SubSeq(v, k, Len(v)) \in Seq(Payloads) /\ Len(SubSeq(v, k, Len(v))) = Len(v) - k + 1
    OBVIOUS
  <2>2. SubSeq(u, n + 1, 2) \in Seq(Payloads) /\ Len(SubSeq(u, n + 1, 2)) = 2 - (n + 1) + 1
    <3>1. n + 1 \in 1 .. Len(u) + 1
      BY <1>1, <2>0
    <3>2. SubSeq(u, n + 1, Len(u)) \in Seq(Payloads) /\ Len(SubSeq(u, n + 1, Len(u))) = Len(u) - (n + 1) + 1
      BY <1>1, <2>1, <3>1, Zenon
    <3> QED
      BY <1>1, <3>2
  <2>3. \A x \in Seq(Payloads) : x = <<>> <=> Len(x) = 0
    OBVIOUS
  <2>4. Len(SubSeq(u, n + 1, 2)) = 0 <=> n = 2
    <3>1. n \in 0 .. 2
      BY <1>2
    <3> HIDE <1>2
    <3> QED
      BY <2>2, <3>1
  <2> QED
    BY <2>2, <2>3, <2>4, Zenon
<1> QED
  BY <1>2, ShortIs DEF u

\* send_in_loop buffers what it cannot write and listens for room; after our FIN it
\* buffers nothing.
LEMMA SendIs ==
    ASSUME ConnInv, NEW m \in Payloads, NEW q, send_in_loop(m, q), state_ # "kConnecting",
           UNCHANGED <<wr_shut, state_>>
    PROVE  /\ Buffered' /\ ch' \in ChannelType /\ output_buffer_' \in Seq(Payloads) /\ ChannelMoves
           /\ queue' \in {q, Append(q, <<"write_complete">>), Append(q, <<"high_water_mark">>)}
<1>1. ch \in ChannelType /\ output_buffer_ \in Seq(Payloads) /\ Buffered
  BY DEF ConnInv, Typed
<1>2. CASE state_ = "kDisconnected"
  <2>1. queue' = q /\ UNCHANGED <<output_buffer_, ch>>
    BY <1>2 DEF send_in_loop
  <2> QED
    BY <1>1, <1>2, <2>1 DEF Buffered, ShutdownAfterBuffer, ChannelMoves
<1>3. CASE state_ # "kDisconnected"
  <2> DEFINE direct == ~is_write_event(ch) /\ output_buffer_ = <<>>
  <2>1. PICK n \in IF direct THEN WriteResults(2) ELSE {0} :
          LET remaining == IF n = -1 THEN <<>> ELSE SubSeq(<<m, m>>, n + 1, 2)
          IN /\ output_buffer_' = output_buffer_ \o remaining
             /\ ch' = IF remaining # <<>> /\ ~is_write_event(ch) THEN enable_write_event(ch) ELSE ch
             /\ queue' \in {q, Append(q, <<"write_complete">>), Append(q, <<"high_water_mark">>)}
    BY <1>3, Zenon DEF send_in_loop
  <2> DEFINE remaining == IF n = -1 THEN <<>> ELSE SubSeq(<<m, m>>, n + 1, 2)
  <2>2. n \in -1 .. 2 /\ (direct /\ wr_shut => n = -1)
    BY <2>1 DEF WriteResults
  <2>3. remaining \in Seq(Payloads) /\ (remaining = <<>> <=> n \in {-1, 2})
    BY <2>2, UnitsAre
  <2>4. /\ output_buffer_' = output_buffer_ \o remaining
        /\ ch' = IF remaining # <<>> /\ ~is_write_event(ch) THEN enable_write_event(ch) ELSE ch
    BY <2>1
  <2>5. output_buffer_ # <<>> <=> is_write_event(ch)
    BY <1>1, <1>3 DEF Buffered
  <2>6. wr_shut => output_buffer_ = <<>>
    BY <1>1, <1>3 DEF Buffered, ShutdownAfterBuffer
  <2>7. wr_shut => remaining = <<>>
    BY <2>2, <2>3, <2>5, <2>6
  <2> HIDE DEF remaining
  <2>8. /\ output_buffer_' \in Seq(Payloads)
        /\ output_buffer_' = <<>> <=> output_buffer_ = <<>> /\ remaining = <<>>
    BY <1>1, <2>3, <2>4
  <2>9. /\ ch' \in ChannelType /\ (is_write_event(ch') <=> is_write_event(ch) \/ remaining # <<>>)
        /\ ch' = ch \/ (ch'.status = "Added" /\ (is_read_event(ch) => is_read_event(ch')))
    <3>1. /\ enable_write_event(ch) \in ChannelType /\ enable_write_event(ch).status = "Added"
          /\ enable_write_event(ch).events = ch.events \cup {"W"}
      BY <1>1, ChannelIs, Zenon
    <3> QED
      BY <1>1, <2>4, <3>1 DEF is_write_event, is_read_event
  <2>10. Buffered'
    BY <1>3, <2>5, <2>6, <2>7, <2>8, <2>9 DEF Buffered, ShutdownAfterBuffer
  <2>11. ChannelMoves
    <3>1. Plain => is_read_event(ch) /\ state_ \in Open
      BY <1>3 DEF ConnInv, PlainInv, Kept, Typed
    <3> QED
      BY <2>9, <3>1 DEF ChannelMoves
  <2> QED
    BY <2>1, <2>8, <2>9, <2>10, <2>11, Zenon
<1> QED
  BY <1>2, <1>3

\* shutdown_in_loop sends our FIN if nothing is buffered.
LEMMA ShutIs ==
    ASSUME ConnInv, shutdown_in_loop, StateMoves, UNCHANGED <<output_buffer_, ch>>
    PROVE  Buffered' /\ wr_shut' \in BOOLEAN
<1>1. wr_shut' = (wr_shut \/ ~is_write_event(ch)) /\ wr_shut \in BOOLEAN /\ Buffered
  BY DEF shutdown_in_loop, ConnInv, Typed
<1>2. state_' # "kDisconnected" => state_ # "kDisconnected"
  BY DEF StateMoves, Open
<1> QED
  BY <1>1, <1>2 DEF Buffered, ShutdownAfterBuffer

\* start_read_in_loop and stop_read_in_loop leave the write event alone.
LEMMA ReadingIs ==
    ASSUME ConnInv, start_read_in_loop \/ stop_read_in_loop, state_ # "kConnecting", ~Plain,
           UNCHANGED <<output_buffer_, wr_shut, state_>>
    PROVE  Buffered' /\ ch' \in ChannelType /\ reading_' \in BOOLEAN /\ ChannelMoves
<1>1. ch \in ChannelType /\ Buffered
  BY DEF ConnInv, Typed
<1>2. ch' \in {ch, enable_read_event(ch), disable_read_event(ch)} /\ reading_' \in BOOLEAN
  BY Zenon DEF start_read_in_loop, stop_read_in_loop
<1>3. ch' \in ChannelType /\ (is_write_event(ch') <=> is_write_event(ch))
  <2>1. /\ enable_read_event(ch) \in ChannelType /\ enable_read_event(ch).events = ch.events \cup {"R"}
        /\ disable_read_event(ch) \in ChannelType /\ disable_read_event(ch).events = ch.events \ {"R"}
    BY <1>1, ChannelIs, Zenon
  <2> QED
    BY <1>1, <1>2, <2>1 DEF is_write_event
<1> QED
  BY <1>1, <1>2, <1>3 DEF Buffered, ShutdownAfterBuffer, ChannelMoves

\* handle_write: it listens as long as something is left.
LEMMA HandleWriteKeeps ==
    ASSUME ConnInv, HandleWrite
    PROVE  ConnInv'
<1>0. /\ UNCHANGED <<use, state_, reading_, batch, in_map, server, finishing, call, held, peer, closes,
                     aborted>>
      /\ todo # <<>> /\ Head(todo) = "write" /\ todo' = Tail(todo)
  BY DEF HandleWrite, At, owner, users, history
<1>1. ch \in ChannelType /\ output_buffer_ \in Seq(Payloads) /\ Buffered /\ wr_shut \in BOOLEAN
  BY DEF ConnInv, Typed
<1>2. TodoMoves(todo') /\ StateMoves
  BY <1>0, TailTodo DEF StateMoves
<1>3. /\ held' \subseteq Users /\ peer' \in Peers /\ call' \in [Users -> UserFunctors \cup {Idle}]
      /\ Plain => \A u \in Users : call'[u] \notin Reads
  BY <1>0, UsersAre
<1>4. state_ # "kConnecting"
  <2>1. "write" \in Range(todo)
    BY <1>0, TailIs DEF ConnInv, Typed
  <2> QED
    BY <2>1 DEF ConnInv, Connecting
<1>5. CASE ~is_write_event(ch)
  <2>1. UNCHANGED <<output_buffer_, ch, queue, wr_shut>>
    BY <1>5 DEF HandleWrite
  <2>2. QueueMoves(queue', batch')
    BY <1>0, <2>1, SameQueue
  <2> QED
    BY <1>0, <1>2, <1>3, <2>1, <2>2, CalmKeeps
<1>6. CASE is_write_event(ch)
  <2>1. PICK n \in WriteResults(Len(output_buffer_)) :
          LET left == IF n > 0 THEN SubSeq(output_buffer_, n + 1, Len(output_buffer_))
                               ELSE output_buffer_
              sent == n > 0 /\ left = <<>>
          IN /\ output_buffer_' = left
             /\ ch' = IF sent THEN disable_write_event(ch) ELSE ch
             /\ queue' = IF sent THEN Append(queue, <<"write_complete">>) ELSE queue
             /\ wr_shut' = (wr_shut \/ (sent /\ state_ = "kDisconnecting"))
    BY <1>6 DEF HandleWrite
  <2> DEFINE left == IF n > 0 THEN SubSeq(output_buffer_, n + 1, Len(output_buffer_))
                     ELSE output_buffer_
             sent == n > 0 /\ left = <<>>
  <2>2. n \in -1 .. Len(output_buffer_) /\ Len(output_buffer_) \in Nat
    BY <1>1, <2>1 DEF WriteResults
  <2>3. left \in Seq(Payloads)
    BY <1>1, <2>2
  <2>4. /\ output_buffer_' = left
        /\ ch' = IF sent THEN disable_write_event(ch) ELSE ch
        /\ queue' = IF sent THEN Append(queue, <<"write_complete">>) ELSE queue
        /\ wr_shut' = (wr_shut \/ (sent /\ state_ = "kDisconnecting"))
    BY <2>1
  <2>5. sent => left = <<>>
    OBVIOUS
  <2>6. left = <<>> => sent \/ output_buffer_ = <<>>
    OBVIOUS
  <2>7. output_buffer_ = <<>> => left = <<>>
    BY <2>2
  <2> HIDE DEF left, sent
  <2>8. /\ ch' \in ChannelType /\ (is_write_event(ch') <=> ~sent)
        /\ (ch.status = "Added" /\ is_read_event(ch)) => (ch'.status = "Added" /\ is_read_event(ch'))
    <3>1. /\ disable_write_event(ch) \in ChannelType /\ disable_write_event(ch).events = ch.events \ {"W"}
          /\ (ch.status = "Added" /\ "R" \in ch.events) => disable_write_event(ch).status = "Added"
      BY <1>1, ChannelIs, Zenon
    <3> QED
      BY <1>1, <1>6, <2>4, <3>1 DEF is_write_event, is_read_event
  <2>9. Buffered'
    <3>1. state_ # "kDisconnected" => output_buffer_ # <<>> /\ ~wr_shut
      BY <1>1, <1>6 DEF Buffered, ShutdownAfterBuffer
    <3> QED
      BY <1>0, <2>4, <2>5, <2>6, <2>8, <3>1, Zenon DEF Buffered, ShutdownAfterBuffer
  <2>10. ChannelMoves
    <3>1. Plain => state_ \in Open /\ ch.status = "Added" /\ is_read_event(ch)
      BY <1>4, <1>6 DEF ConnInv, PlainInv, Kept, Leaving, Typed, is_none_event, is_write_event
    <3> QED
      BY <1>4, <2>8, <3>1 DEF ChannelMoves
  <2>11. QueueMoves(queue', batch')
    <3>1. /\ <<"write_complete">> \in Functors /\ <<"write_complete">> \notin {Established, Destroyed}
          /\ <<"write_complete">> \notin Reads
      BY FunctorsAre
    <3>2. QueueMoves(Append(queue, <<"write_complete">>), batch)
      BY <3>1, SameQueue, AppendQueue
    <3> QED
      BY <1>0, <2>4, <3>2, SameQueue
  <2>12. wr_shut' \in BOOLEAN /\ reading_' \in BOOLEAN
    BY <1>0, <2>4 DEF ConnInv, Typed
  <2> QED
    BY <1>0, <1>2, <1>3, <2>3, <2>4, <2>8, <2>9, <2>10, <2>11, <2>12, QuietKeeps
<1> QED
  BY <1>5, <1>6
\* Queueing the functors that call back the user.
LEMMA NotifyQueue ==
    ASSUME ConnInv, NEW q, NEW b, QueueMoves(q, b), queue' \in {q, Append(q, <<"write_complete">>), Append(q, <<"high_water_mark">>)}
    PROVE  QueueMoves(queue', b)
<1>1. \A f \in {<<"write_complete">>, <<"high_water_mark">>} :
         f \in Functors /\ f \notin {Established, Destroyed} /\ f \notin Reads
  BY FunctorsAre
<1>2. QueueMoves(Append(q, <<"write_complete">>), b) /\ QueueMoves(Append(q, <<"high_water_mark">>), b)
  BY <1>1, AppendQueue
<1> QED
  BY <1>2, Zenon

\* What user code does when it is called back on the loop thread.
LEMMA CallbackKeeps ==
    ASSUME ConnInv, CallbackCalls
    PROVE  ConnInv'
<1>1. /\ UNCHANGED <<use, batch, todo, in_map, server, finishing, call, held, peer, closes, aborted>>
      /\ todo # <<>> /\ Head(todo) = "callback"
  BY DEF CallbackCalls, At, owner
<1>2. state_ # "kConnecting"
  <2>1. "callback" \in Range(todo)
    BY <1>1, TailIs DEF ConnInv, Typed
  <2> QED
    BY <2>1 DEF ConnInv, Connecting
<1>3. TodoMoves(todo') /\ QueueMoves(queue, batch')
  BY <1>1, SameTodo, SameQueue
<1>4. /\ held' \subseteq Users /\ peer' \in Peers /\ call' \in [Users -> UserFunctors \cup {Idle}]
      /\ Plain => \A u \in Users : call'[u] \notin Reads
  BY <1>1, UsersAre
<1>5. reading_ \in BOOLEAN /\ ch \in ChannelType /\ output_buffer_ \in Seq(Payloads) /\ wr_shut \in BOOLEAN
  BY DEF ConnInv, Typed
<1>6. ASSUME NEW m \in use.messages, send(Loop, m), send_in_loop(m, queue), UNCHANGED <<reading_, wr_shut>>
      PROVE  ConnInv'
  <2>1. m \in Payloads /\ state_' = state_ /\ StateMoves
    BY <1>6, UsersAre, Zenon DEF send, StateMoves
  <2>2. /\ Buffered' /\ ch' \in ChannelType /\ output_buffer_' \in Seq(Payloads) /\ ChannelMoves
        /\ queue' \in {queue, Append(queue, <<"write_complete">>), Append(queue, <<"high_water_mark">>)}
    BY <1>2, <1>6, <2>1, SendIs
  <2>3. QueueMoves(queue', batch')
    BY <1>3, <2>2, NotifyQueue
  <2> QED
    BY <1>1, <1>3, <1>4, <1>5, <1>6, <2>1, <2>2, <2>3, QuietKeeps
<1>7. ASSUME shutdown(Loop), shutdown_in_loop, UNCHANGED <<reading_, output_buffer_, ch, queue>>
      PROVE  ConnInv'
  <2>1. StateMoves
    BY <1>7 DEF shutdown, StateMoves, Open
  <2>2. Buffered' /\ wr_shut' \in BOOLEAN /\ ChannelMoves
    BY <1>7, <2>1, ShutIs DEF ChannelMoves
  <2> QED
    BY <1>1, <1>3, <1>4, <1>5, <1>7, <2>1, <2>2, QuietKeeps
<1>8. ASSUME NEW c, Closing(c), UNCHANGED <<reading_, output_buffer_, ch, wr_shut>>,
             queue' = queue \/ queue' = Append(queue, <<"force_close_in_loop">>)
      PROVE  ConnInv'
  <2>1. StateMoves
    BY <1>8 DEF Closing, StateMoves, Open
  <2>2. /\ <<"force_close_in_loop">> \in Functors /\ <<"force_close_in_loop">> \notin {Established, Destroyed}
        /\ <<"force_close_in_loop">> \notin Reads
    BY FunctorsAre DEF UserFunctors
  <2>3. QueueMoves(queue', batch')
    BY <1>3, <1>8, <2>2, AppendQueue, Zenon
  <2> QED
    BY <1>1, <1>3, <1>4, <1>8, <2>1, <2>3, CalmKeeps
<1>9. ASSUME NEW c \in {"start_read", "stop_read"}, Reading(c), start_read_in_loop \/ stop_read_in_loop,
             UNCHANGED <<output_buffer_, queue, wr_shut>>
      PROVE  ConnInv'
  <2>1. state_' = state_ /\ StateMoves /\ ~Plain
    BY <1>9, UsersAre DEF Reading, StateMoves
  <2>2. Buffered' /\ ch' \in ChannelType /\ reading_' \in BOOLEAN /\ ChannelMoves
    BY <1>2, <1>9, <2>1, ReadingIs
  <2> QED
    BY <1>1, <1>3, <1>4, <1>5, <1>9, <2>1, <2>2, QuietKeeps
<1>10. \/ \E m \in use.messages : send(Loop, m) /\ send_in_loop(m, queue) /\ UNCHANGED <<reading_, wr_shut>>
       \/ shutdown(Loop) /\ shutdown_in_loop /\ UNCHANGED <<reading_, output_buffer_, ch, queue>>
       \/ \E c \in {"force_close", "force_close_with_delay"} :
             /\ Closing(c) /\ UNCHANGED <<reading_, output_buffer_, ch, wr_shut>>
             /\ queue' = queue \/ queue' = Append(queue, <<"force_close_in_loop">>)
       \/ \E c \in {"start_read", "stop_read"} :
             /\ Reading(c) /\ (start_read_in_loop \/ stop_read_in_loop)
             /\ UNCHANGED <<output_buffer_, queue, wr_shut>>
  BY DEF CallbackCalls, net
<1> QED
  BY <1>6, <1>7, <1>8, <1>9, <1>10

-----------------------------------------------------------------------------
(* The functors.                                                           *)

\* Functors that do not close the connection.
LEMMA PlainFunctorKeeps ==
    ASSUME ConnInv, RunFunctor, Head(queue) \notin {Established, Destroyed},
           state_' = state_, UNCHANGED <<closes, aborted>>
    PROVE  ConnInv'
<1>1. /\ UNCHANGED <<use, in_map, server, finishing, call, peer>>
      /\ todo = <<>> /\ batch > 0 /\ batch' = batch - 1
  BY DEF RunFunctor, owner
<1> DEFINE f == Head(queue)
           q == Tail(queue)
<1>2. QueueMoves(q, batch') /\ state_ # "kConnecting" /\ f \in Functors /\ f \in Range(queue)
  BY <1>1, TailQueue
<1>3. TodoMoves(todo) /\ TodoMoves(<<"callback">>) /\ StateMoves
  BY <1>1, <1>2, SameTodo, NewTodo DEF StateMoves
<1>4. /\ peer' \in Peers /\ call' \in [Users -> UserFunctors \cup {Idle}] /\ held \subseteq Users
      /\ Plain => \A u \in Users : call'[u] \notin Reads
  BY <1>1, UsersAre
<1>5. reading_ \in BOOLEAN /\ ch \in ChannelType /\ output_buffer_ \in Seq(Payloads) /\ wr_shut \in BOOLEAN
  BY DEF ConnInv, Typed
<1>6. f[1] \notin {"connect_established", "connect_destroyed"}
  BY <1>2, FunctorsAre
<1>7. CASE queue' = q /\ todo' \in {todo, <<"callback">>} /\ UNCHANGED <<reading_, output_buffer_, ch, held, wr_shut>>
  BY <1>1, <1>2, <1>3, <1>4, <1>7, CalmKeeps
<1>8. CASE f[1] = "send_in_loop" /\ send_in_loop(f[2], q) /\ UNCHANGED <<reading_, wr_shut, todo, held>>
  <2>1. f[2] \in Payloads
    BY <1>2, <1>8, FunctorsAre
  <2>2. /\ Buffered' /\ ch' \in ChannelType /\ output_buffer_' \in Seq(Payloads) /\ ChannelMoves
        /\ queue' \in {q, Append(q, <<"write_complete">>), Append(q, <<"high_water_mark">>)}
    BY <1>2, <1>8, <2>1, SendIs, Zenon
  <2>3. QueueMoves(queue', batch')
    BY <1>2, <2>2, NotifyQueue, Zenon
  <2> QED
    BY <1>1, <1>3, <1>4, <1>5, <1>8, <2>2, <2>3, QuietKeeps
<1>9. CASE shutdown_in_loop /\ queue' = q /\ UNCHANGED <<reading_, output_buffer_, ch, todo, held>>
  <2>1. Buffered' /\ wr_shut' \in BOOLEAN /\ ChannelMoves
    BY <1>3, <1>9, ShutIs DEF ChannelMoves
  <2> QED
    BY <1>1, <1>2, <1>3, <1>4, <1>5, <1>9, <2>1, QuietKeeps
<1>10. CASE /\ f[1] \in {"start_read_in_loop", "stop_read_in_loop"}
            /\ start_read_in_loop \/ stop_read_in_loop
            /\ queue' = q /\ UNCHANGED <<output_buffer_, wr_shut, todo, held>>
  <2>1. ~Plain
    <3>1. f \in Reads
      BY <1>2, <1>10, FunctorsAre
    <3> QED
      BY <1>2, <3>1 DEF ConnInv, PlainInv
  <2>2. Buffered' /\ ch' \in ChannelType /\ reading_' \in BOOLEAN /\ ChannelMoves
    BY <1>2, <1>10, <2>1, ReadingIs
  <2> QED
    BY <1>1, <1>2, <1>3, <1>4, <1>5, <1>10, <2>2, QuietKeeps
<1>11. \/ queue' = q /\ todo' \in {todo, <<"callback">>} /\ UNCHANGED <<reading_, output_buffer_, ch, held, wr_shut>>
       \/ f[1] = "send_in_loop" /\ send_in_loop(f[2], q) /\ UNCHANGED <<reading_, wr_shut, todo, held>>
       \/ shutdown_in_loop /\ queue' = q /\ UNCHANGED <<reading_, output_buffer_, ch, todo, held>>
       \/ /\ f[1] \in {"start_read_in_loop", "stop_read_in_loop"}
          /\ start_read_in_loop \/ stop_read_in_loop
          /\ queue' = q /\ UNCHANGED <<output_buffer_, wr_shut, todo, held>>
  <2>1. state_' = "kDisconnected" => state_ \notin Open
    BY DEF Open
  <2>2. CASE f[1] = "force_close_in_loop" /\ force_close_in_loop /\ queue' = q
             /\ UNCHANGED <<reading_, output_buffer_, wr_shut, wire, handled>>
    BY <2>1, <2>2, Zenon DEF force_close_in_loop, handle_close, Open
  <2> QED
    BY <1>6, <2>2 DEF RunFunctor, conn
<1> QED
  BY <1>7, <1>8, <1>9, <1>10, <1>11

-----------------------------------------------------------------------------
(* The end of the connection.                                              *)

\* handle_close: in plain use the connection was open, and finish_cb_ comes next.
LEMMA CloseKeeps ==
    ASSUME ConnInv, NEW rest \in Seq(Items), IsInjective(rest),
           Range(rest) \subseteq {"error", "write", "functors"},
           handle_close(rest), QueueMoves(queue', batch'),
           state_ # "kConnecting", Plain => state_ \in Open, peer' \in Peers,
           UNCHANGED <<use, reading_, output_buffer_, in_map, server, finishing, call, held, wr_shut>>
    PROVE  ConnInv'
<1>1. /\ state_' = "kDisconnected" /\ ch' = disable_all_event(ch) /\ closes' = closes + 1
      /\ todo' = <<"callback", "finish">> \o rest
      /\ state_ \in Open => aborted' = aborted
  BY Zenon DEF handle_close, Check, Open
<1>2. /\ ch' \in ChannelType /\ is_none_event(ch') /\ (ch.status = "Added" => ch'.status = "Deleted")
  <2>1. ch \in ChannelType
    BY DEF ConnInv, Typed
  <2>2. /\ disable_all_event(ch) \in ChannelType /\ disable_all_event(ch).events = {}
        /\ ch.status = "Added" => disable_all_event(ch).status = "Deleted"
    BY <2>1, ChannelIs, Zenon
  <2> QED
    BY <1>1, <2>2 DEF is_none_event
<1>3. /\ todo' \in Seq(Items) /\ IsInjective(todo')
      /\ Range(todo') = {"callback", "finish"} \cup Range(rest)
  <2> DEFINE s == <<"callback", "finish">>
  <2>1. s \in Seq(Items) /\ IsInjective(s) /\ Range(s) = {"callback", "finish"}
    <3>1. "callback" \in Items /\ "finish" \in Items /\ "callback" # "finish"
      BY DEF Items
    <3>2. \A x, y \in Items : /\ <<x, y>> \in Seq(Items) /\ Range(<<x, y>>) = {x, y}
                              /\ x # y => IsInjective(<<x, y>>)
      BY ShortIs, Zenon
    <3> QED
      BY <3>1, <3>2
  <2>2. Range(s) \cap Range(rest) = {}
    BY <2>1
  <2>3. todo' = s \o rest
    BY <1>1
  <2> HIDE DEF s
  <2>4. \A x, y \in Seq(Items) :
         /\ x \o y \in Seq(Items) /\ Range(x \o y) = Range(x) \cup Range(y)
         /\ (IsInjective(x) /\ IsInjective(y) /\ Range(x) \cap Range(y) = {}) => IsInjective(x \o y)
    BY ConcatIs, Zenon
  <2>5. s \o rest \in Seq(Items) /\ IsInjective(s \o rest) /\ Range(s \o rest) = Range(s) \cup Range(rest)
    BY <2>1, <2>2, <2>4, Zenon
  <2> QED
    BY <2>1, <2>3, <2>5
<1>4. Handling(todo')
  BY <1>3 DEF Handling
<1>5. Typed'
  <2>1. queue' \in Seq(Functors) /\ Once(queue', Established) /\ batch' \in 0 .. Len(queue')
    BY DEF QueueMoves
  <2> QED
    BY <1>1, <1>2, <1>3, <2>1 DEF ConnInv, Typed
<1>6. Connecting' /\ Buffered'
  BY <1>1 DEF QueueMoves, ConnInv, Connecting, Buffered, ShutdownAfterBuffer
<1>7. ASSUME Plain PROVE PlainInv'
  <2>1. PlainInv /\ state_ \in Open /\ Kept
    BY <1>7 DEF ConnInv, PlainInv, Open
  <2>2. /\ server' /\ aborted' = "no" /\ Once(queue', Destroyed)
        /\ Range(queue') \cap Reads = {} /\ \A t \in Users : call'[t] \notin Reads
    BY <1>1, <1>7, <2>1 DEF PlainInv, QueueMoves
  <2>3. Destroyed \notin Range(queue')
    BY <2>1 DEF Kept, QueueMoves
  <2>4. ch'.status = "Deleted"
    BY <1>2, <2>1 DEF Kept
  <2>5. Leaving'
    BY <1>1, <1>2, <1>3, <2>1, <2>3, <2>4 DEF Kept, Leaving
  <2> QED
    BY <1>1, <2>2, <2>5 DEF PlainInv
<1>8. Plain' => Plain
  BY DEF Plain
<1> QED
  BY <1>4, <1>5, <1>6, <1>7, <1>8 DEF ConnInv

\* force_close_in_loop.
LEMMA ForceCloseKeeps ==
    ASSUME ConnInv, RunFunctor, Head(queue) \notin {Established, Destroyed},
           force_close_in_loop, queue' = Tail(queue),
           UNCHANGED <<reading_, output_buffer_, wr_shut>>
    PROVE  ConnInv'
<1>1. /\ UNCHANGED <<use, in_map, server, finishing, call, held, peer>>
      /\ todo = <<>> /\ batch > 0 /\ batch' = batch - 1
  BY DEF RunFunctor, force_close_in_loop, owner
<1>2. CASE state_ \in Open
  <2>1. handle_close(<<>>)
    BY <1>2 DEF force_close_in_loop, Open
  <2>2. QueueMoves(queue', batch') /\ peer' \in Peers /\ state_ # "kConnecting"
    BY <1>1, TailQueue, UsersAre
  <2>3. <<>> \in Seq(Items) /\ IsInjective(<<>>) /\ Range(<<>>) \subseteq {"error", "write", "functors"}
    BY ShortIs
  <2> QED
    BY <1>1, <1>2, <2>1, <2>2, <2>3, CloseKeeps, Zenon
<1>3. CASE state_ \notin Open
  <2>1. UNCHANGED <<state_, closes, aborted>>
    BY <1>3 DEF force_close_in_loop, Open
  <2> QED
    BY <2>1, PlainFunctorKeeps
<1> QED
  BY <1>2, <1>3

\* What is left of a handler that calls handle_close or handle_read.
LEMMA ReadTodo ==
    ASSUME ConnInv, todo # <<>>, Head(todo) \in {"close", "read"}
    PROVE  /\ Tail(todo) \in Seq(Items) /\ IsInjective(Tail(todo))
           /\ Range(Tail(todo)) \subseteq {"error", "write", "functors"}
           /\ state_ # "kConnecting" /\ (Plain => state_ \in Open)
           /\ "finish" \notin Range(todo) /\ "remove" \notin Range(todo)
<1>1. todo \in Seq(Items) /\ IsInjective(todo) /\ Handling(todo)
  BY DEF ConnInv, Typed
<1>2. /\ Tail(todo) \in Seq(Items) /\ IsInjective(Tail(todo)) /\ Head(todo) \in Range(todo)
      /\ Range(Tail(todo)) = Range(todo) \ {Head(todo)}
  BY <1>1, TailIs
<1>3. Range(todo) \subseteq Items
  BY <1>1 DEF Range
<1>4. Range(Tail(todo)) \subseteq {"error", "write", "functors"}
  BY <1>1, <1>2, <1>3 DEF Handling, Items
<1>5. state_ # "kConnecting"
  BY <1>2 DEF ConnInv, Connecting
<1>6. ASSUME Plain PROVE state_ # "kDisconnected"
  BY <1>2, <1>6 DEF ConnInv, PlainInv, Leaving
<1>7. state_ \in Open \cup {"kConnecting", "kDisconnected"}
  BY DEF ConnInv, Typed
<1>8. "finish" \notin Range(todo) /\ "remove" \notin Range(todo)
  BY <1>1, <1>2 DEF Handling
<1> QED
  BY <1>2, <1>4, <1>5, <1>6, <1>7, <1>8

\* handle_close from the poll, and handle_read.
LEMMA ReadKeeps ==
    ASSUME ConnInv, HandleClose \/ HandleRead
    PROVE  ConnInv'
<1>1. /\ UNCHANGED <<use, reading_, output_buffer_, queue, batch, in_map, server, finishing, call, held, wr_shut>>
      /\ todo # <<>> /\ Head(todo) \in {"close", "read"}
  BY DEF HandleClose, HandleRead, At, owner, users, net
<1>2. /\ Tail(todo) \in Seq(Items) /\ IsInjective(Tail(todo))
      /\ Range(Tail(todo)) \subseteq {"error", "write", "functors"}
      /\ state_ # "kConnecting" /\ (Plain => state_ \in Open)
      /\ "finish" \notin Range(todo) /\ "remove" \notin Range(todo)
  BY <1>1, ReadTodo
<1>3. QueueMoves(queue', batch') /\ peer' \in Peers
  BY <1>1, SameQueue, UsersAre DEF HandleClose, HandleRead, net, Peers
<1>4. /\ held' \subseteq Users /\ call' \in [Users -> UserFunctors \cup {Idle}]
      /\ Plain => \A u \in Users : call'[u] \notin Reads
  BY <1>1, UsersAre
<1>5. CASE handle_close(Tail(todo))
  BY <1>1, <1>2, <1>3, <1>5, CloseKeeps, Zenon
<1>6. CASE /\ todo' \in {<<"callback">> \o Tail(todo), Tail(todo)}
           /\ UNCHANGED <<state_, ch, closes, aborted>>
  <2> DEFINE s == <<"callback">>
  <2>1. s \in Seq(Items) /\ IsInjective(s) /\ Range(s) = {"callback"}
    <3>1. "callback" \in Items
      BY DEF Items
    <3> QED
      BY <3>1, ShortIs, Zenon
  <2>2. Range(s) \cap Range(Tail(todo)) = {}
    BY <1>2, <2>1
  <2> HIDE DEF s
  <2>7. \A x, y \in Seq(Items) :
         /\ x \o y \in Seq(Items) /\ Range(x \o y) = Range(x) \cup Range(y)
         /\ (IsInjective(x) /\ IsInjective(y) /\ Range(x) \cap Range(y) = {}) => IsInjective(x \o y)
    BY ConcatIs, Zenon
  <2>3. /\ s \o Tail(todo) \in Seq(Items) /\ IsInjective(s \o Tail(todo))
        /\ Range(s \o Tail(todo)) = {"callback"} \cup Range(Tail(todo))
    <3>1. /\ s \o Tail(todo) \in Seq(Items) /\ IsInjective(s \o Tail(todo))
          /\ Range(s \o Tail(todo)) = Range(s) \cup Range(Tail(todo))
      BY <1>2, <2>1, <2>2, <2>7, Zenon
    <3> QED
      BY <2>1, <3>1
  <2>4. /\ todo' \in Seq(Items) /\ IsInjective(todo')
        /\ Range(todo') \subseteq {"callback", "error", "write", "functors"}
    BY <1>2, <1>6, <2>3, Zenon DEF s
  <2>5. TodoMoves(todo')
    BY <1>2, <2>4 DEF TodoMoves, Handling
  <2>6. StateMoves
    BY <1>6 DEF StateMoves
  <2> QED
    BY <1>1, <1>3, <1>4, <1>6, <2>5, <2>6, CalmKeeps
<1> QED
  BY <1>5, <1>6 DEF HandleClose, HandleRead

\* The functor at the head of the batch.
LEMMA HeadQueue ==
    ASSUME ConnInv, batch > 0
    PROVE  /\ Tail(queue) \in Seq(Functors) /\ batch - 1 \in 0 .. Len(Tail(queue))
           /\ Head(queue) \in Functors /\ Head(queue) \in Range(queue)
           /\ Range(queue) = Range(Tail(queue)) \cup {Head(queue)}
           /\ \A f : Once(queue, f) => Once(Tail(queue), f) /\ (Head(queue) = f => f \notin Range(Tail(queue)))
<1>1. queue \in Seq(Functors) /\ batch \in 0 .. Len(queue) /\ queue # <<>>
  BY DEF ConnInv, Typed
<1>2. /\ Tail(queue) \in Seq(Functors) /\ Len(Tail(queue)) = Len(queue) - 1 /\ Len(queue) \in Nat \ {0}
      /\ Head(queue) \in Functors /\ Head(queue) \in Range(queue)
      /\ Range(queue) = Range(Tail(queue)) \cup {Head(queue)}
      /\ \A f : Once(queue, f) => Once(Tail(queue), f) /\ (Head(queue) = f => f \notin Range(Tail(queue)))
  BY <1>1, TailIs
<1>3. batch - 1 \in 0 .. Len(Tail(queue))
  BY <1>1, <1>2
<1> QED
  BY <1>2, <1>3

\* connect_established.
LEMMA EstablishedKeeps ==
    ASSUME ConnInv, Head(queue) = Established, batch > 0, batch' = batch - 1,
           connect_established, queue' = Tail(queue),
           UNCHANGED <<use, reading_, output_buffer_, in_map, server, finishing, call, peer, wr_shut>>
    PROVE  ConnInv'
<1>1. /\ Tail(queue) \in Seq(Functors) /\ batch - 1 \in 0 .. Len(Tail(queue))
      /\ Head(queue) \in Range(queue) /\ Range(queue) = Range(Tail(queue)) \cup {Head(queue)}
      /\ \A f : Once(queue, f) => Once(Tail(queue), f) /\ (Head(queue) = f => f \notin Range(Tail(queue)))
  BY HeadQueue
<1>2. state_ = "kConnecting" /\ ch = NewChannel /\ Once(queue, Established)
  BY <1>1 DEF ConnInv, Connecting, Typed
<1>3. /\ state_' = "kConnected" /\ ch' = enable_read_event(ch) /\ todo' = <<"callback">>
      /\ held' = Users /\ closes' = closes /\ aborted' = aborted
  BY <1>2 DEF connect_established, Check
<1>4. /\ ch' \in ChannelType /\ ch'.status = "Added" /\ is_read_event(ch') /\ ~is_write_event(ch')
  <2>1. ch \in ChannelType /\ "W" \notin ch.events
    BY <1>2 DEF ConnInv, Typed, NewChannel
  <2> QED
    <3>1. /\ enable_read_event(ch) \in ChannelType /\ enable_read_event(ch).status = "Added"
          /\ enable_read_event(ch).events = ch.events \cup {"R"}
      BY <2>1, ChannelIs, Zenon
    <3> QED
      BY <1>3, <2>1, <3>1 DEF is_read_event, is_write_event
<1>5. output_buffer_ = <<>>
  BY <1>2 DEF ConnInv, Buffered, NewChannel, is_write_event
<1>6. todo' \in Seq(Items) /\ IsInjective(todo') /\ Range(todo') = {"callback"}
  <2>1. "callback" \in Items
    BY DEF Items
  <2> QED
    BY <1>3, <2>1, ShortIs, Zenon
<1>7. Typed'
  <2>1. state_' \in Open \cup {"kConnecting", "kDisconnected"}
    BY <1>3 DEF Open
  <2>2. Once(queue', Established)
    BY <1>1, <1>2
  <2> QED
    BY <1>1, <1>3, <1>4, <1>6, <2>1, <2>2 DEF ConnInv, Typed
<1>8. Handling(todo') /\ Connecting' /\ Buffered'
  BY <1>1, <1>2, <1>3, <1>4, <1>5, <1>6 DEF Handling, Connecting, Buffered, ShutdownAfterBuffer
<1>9. ASSUME Plain PROVE PlainInv'
  <2>1. PlainInv /\ Kept
    BY <1>2, <1>9 DEF ConnInv, PlainInv
  <2>2. Kept'
    BY <1>1, <1>3, <1>4, <1>6, <2>1 DEF Kept
  <2>3. Once(queue', Destroyed) /\ Range(queue') \cap Reads = {}
    BY <1>1, <2>1 DEF PlainInv
  <2> QED
    BY <1>3, <2>1, <2>2, <2>3 DEF PlainInv
<1>10. Plain' => Plain
  BY DEF Plain
<1> QED
  BY <1>7, <1>8, <1>9, <1>10 DEF ConnInv

\* connect_destroyed: in plain use the connection is closed.
LEMMA DestroyedKeeps ==
    ASSUME ConnInv, Head(queue) = Destroyed, batch > 0, batch' = batch - 1, todo = <<>>,
           connect_destroyed, queue' = Tail(queue),
           UNCHANGED <<use, reading_, output_buffer_, in_map, server, finishing, call, peer, wr_shut>>
    PROVE  ConnInv'
<1>1. /\ Tail(queue) \in Seq(Functors) /\ batch - 1 \in 0 .. Len(Tail(queue))
      /\ Head(queue) \in Range(queue) /\ Range(queue) = Range(Tail(queue)) \cup {Head(queue)}
      /\ \A f : Once(queue, f) => Once(Tail(queue), f) /\ (Head(queue) = f => f \notin Range(Tail(queue)))
  BY HeadQueue
<1>2. state_ # "kConnecting" /\ Once(queue, Established) /\ Established \notin Range(Tail(queue))
  BY <1>1, FunctorsAre DEF ConnInv, Connecting, Typed
<1>3. /\ held' = held /\ aborted' = aborted
      /\ \/ state_' = "kDisconnected" /\ ch' = disable_all_event(ch) /\ todo' = <<"callback", "remove">> /\ state_ = "kConnected"
         \/ UNCHANGED <<state_, ch, closes>> /\ todo' = <<"remove">>
  BY DEF connect_destroyed
<1>4. ch' \in ChannelType
  <2>1. ch \in ChannelType
    BY DEF ConnInv, Typed
  <2>2. disable_all_event(ch) \in ChannelType
    BY <2>1, ChannelIs, Zenon
  <2> QED
    BY <1>3, <2>1, <2>2
<1>5. /\ todo' \in Seq(Items) /\ IsInjective(todo') /\ Range(todo') \subseteq {"callback", "remove"}
      /\ todo' = <<"remove">> => Range(todo') = {"remove"}
  <2>1. "callback" \in Items /\ "remove" \in Items /\ "callback" # "remove"
    BY DEF Items
  <2>2. \A x, y \in Items : /\ <<x, y>> \in Seq(Items) /\ Range(<<x, y>>) = {x, y}
                            /\ x # y => IsInjective(<<x, y>>)
    BY ShortIs, Zenon
  <2>3. \A x \in Items : <<x>> \in Seq(Items) /\ Range(<<x>>) = {x} /\ IsInjective(<<x>>)
    BY ShortIs, Zenon
  <2>4. CASE todo' = <<"remove">>
    <3>1. <<"remove">> \in Seq(Items) /\ Range(<<"remove">>) = {"remove"} /\ IsInjective(<<"remove">>)
      BY <2>1, <2>3, Zenon
    <3> QED
      BY <2>4, <3>1
  <2>5. CASE todo' = <<"callback", "remove">>
    <3>1. /\ <<"callback", "remove">> \in Seq(Items) /\ Range(<<"callback", "remove">>) = {"callback", "remove"}
          /\ IsInjective(<<"callback", "remove">>)
      BY <2>1, <2>2, Zenon
    <3>2. todo' # <<"remove">>
      BY <2>5
    <3> QED
      BY <2>5, <3>1, <3>2
  <2> QED
    BY <1>3, <2>4, <2>5
<1>6. Typed'
  <2>1. state_' \in Open \cup {"kConnecting", "kDisconnected"}
    BY <1>3 DEF ConnInv, Typed
  <2>2. Once(queue', Established)
    BY <1>1, <1>2
  <2> QED
    BY <1>1, <1>3, <1>4, <1>5, <2>1, <2>2 DEF ConnInv, Typed
<1>7. Handling(todo') /\ Connecting' /\ Buffered'
  <2>1. Handling(todo')
    BY <1>5 DEF Handling
  <2>2. state_' # "kConnecting" /\ Established \notin Range(queue')
    BY <1>2, <1>3
  <2>3. Buffered'
    BY <1>3 DEF ConnInv, Buffered, ShutdownAfterBuffer
  <2> QED
    BY <2>1, <2>2, <2>3 DEF Connecting
<1>8. ASSUME Plain PROVE PlainInv'
  <2>1. PlainInv /\ state_ = "kDisconnected" /\ Leaving
    BY <1>1, <1>8 DEF ConnInv, PlainInv, Kept
  <2>2. UNCHANGED <<state_, ch, closes>> /\ todo' = <<"remove">> /\ Range(todo') = {"remove"}
    BY <1>3, <1>5, <2>1
  <2>3. Destroyed \notin Range(queue') /\ Once(queue', Destroyed) /\ Range(queue') \cap Reads = {}
    BY <1>1, <2>1 DEF PlainInv
  <2>4. Range(todo) = {}
    BY ShortIs
  <2>5. ~in_map /\ finishing = 0 /\ ch.status = "Deleted" /\ closes = 1 /\ is_none_event(ch)
    BY <1>1, <2>1, <2>4 DEF Leaving
  <2>6. Leaving'
    BY <2>2, <2>3, <2>5 DEF Leaving, is_none_event
  <2> QED
    BY <1>3, <2>1, <2>2, <2>3, <2>6 DEF PlainInv
<1>9. Plain' => Plain
  BY DEF Plain
<1> QED
  BY <1>6, <1>7, <1>8, <1>9 DEF ConnInv

\* The next functor of the batch.
LEMMA FunctorKeeps ==
    ASSUME ConnInv, RunFunctor
    PROVE  ConnInv'
<1> DEFINE f == Head(queue)
<1>1. /\ UNCHANGED <<use, in_map, server, finishing, call, peer>>
      /\ todo = <<>> /\ batch > 0 /\ batch' = batch - 1
  BY DEF RunFunctor, owner
<1>2. f \in Functors /\ f \in Range(queue)
  BY <1>1, HeadQueue
<1>3. /\ f[1] = "connect_established" <=> f = Established
      /\ f[1] = "connect_destroyed" <=> f = Destroyed
  BY <1>2, FunctorsAre
<1>4. CASE f \in {Established, Destroyed}
  <2>1. Alive
    <3>1. f[1] \in Strong
      BY <1>3, <1>4 DEF Strong
    <3> QED
      BY <1>2, <3>1, AliveIs
  <2>2. /\ \/ f = Established /\ connect_established
           \/ f = Destroyed /\ connect_destroyed
        /\ queue' = Tail(queue) /\ UNCHANGED <<reading_, output_buffer_, wr_shut>>
    BY <1>3, <1>4, <2>1 DEF RunFunctor
  <2> QED
    BY <1>1, <2>2, EstablishedKeeps, DestroyedKeeps
<1>5. CASE f \notin {Established, Destroyed}
  <2>1. CASE force_close_in_loop /\ queue' = Tail(queue) /\ UNCHANGED <<reading_, output_buffer_, wr_shut>>
    BY <1>5, <2>1, ForceCloseKeeps
  <2>2. CASE UNCHANGED <<state_, closes, aborted>>
    BY <1>5, <2>2, PlainFunctorKeeps
  <2>3. f[1] \notin {"connect_established", "connect_destroyed"}
    BY <1>3, <1>5
  <2> QED
    BY <2>1, <2>2, <2>3 DEF RunFunctor, conn
<1> QED
  BY <1>4, <1>5

\* finish_cb_: the connection is to be removed from the map.
LEMMA FinishKeeps ==
    ASSUME ConnInv, Finish
    PROVE  ConnInv'
<1>1. /\ UNCHANGED <<use, state_, reading_, output_buffer_, ch, queue, batch, in_map, server, call, held,
                     peer, wr_shut, closes, aborted>>
      /\ todo # <<>> /\ Head(todo) = "finish" /\ todo' = Tail(todo)
      /\ finishing' = finishing + (IF server THEN 1 ELSE 0)
  BY DEF Finish, At, conn, users, net, history
<1>2. todo \in Seq(Items) /\ IsInjective(todo) /\ Handling(todo) /\ finishing \in Nat
  BY DEF ConnInv, Typed
<1>3. /\ todo' \in Seq(Items) /\ IsInjective(todo') /\ "finish" \in Range(todo)
      /\ Range(todo') = Range(todo) \ {"finish"}
  BY <1>1, <1>2, TailIs
<1>4. Handling(todo') /\ finishing' \in Nat
  BY <1>1, <1>2, <1>3 DEF Handling
<1>5. Typed'
  BY <1>1, <1>3, <1>4 DEF ConnInv, Typed
<1>6. Connecting' /\ Buffered'
  BY <1>1, <1>3 DEF ConnInv, Connecting, Buffered, ShutdownAfterBuffer
<1>7. ASSUME Plain PROVE PlainInv'
  <2>1. PlainInv /\ state_ = "kDisconnected" /\ Leaving
    BY <1>3, <1>7 DEF ConnInv, PlainInv, Kept
  <2>2. finishing' = 1 /\ in_map
    BY <1>1, <1>3, <2>1 DEF PlainInv, Leaving
  <2>3. Leaving'
    BY <1>1, <1>3, <2>1, <2>2 DEF Leaving, is_none_event
  <2> QED
    BY <1>1, <2>1, <2>3 DEF PlainInv
<1>8. Plain' => Plain
  BY <1>1 DEF Plain
<1> QED
  BY <1>4, <1>5, <1>6, <1>7, <1>8 DEF ConnInv

\* Channel::remove: in plain use the channel is disabled and known to the poller.
LEMMA RemoveKeeps ==
    ASSUME ConnInv, RemoveChannel
    PROVE  ConnInv'
<1>1. /\ UNCHANGED <<use, state_, reading_, output_buffer_, queue, batch, in_map, server, finishing, call, held,
                     peer, wr_shut, closes>>
      /\ todo # <<>> /\ Head(todo) = "remove" /\ todo' = Tail(todo) /\ ch' = remove(ch)
      /\ (is_none_event(ch) /\ ch.status # "Init") => aborted' = aborted
  BY DEF RemoveChannel, At, owner, users, net, history, Check
<1>2. todo \in Seq(Items) /\ IsInjective(todo) /\ Handling(todo) /\ ch \in ChannelType
  BY DEF ConnInv, Typed
<1>3. /\ todo' \in Seq(Items) /\ IsInjective(todo') /\ "remove" \in Range(todo)
      /\ Range(todo') = Range(todo) \ {"remove"}
  BY <1>1, <1>2, TailIs
<1>4. /\ Handling(todo') /\ ch' \in ChannelType /\ ch'.status = "Init" /\ (is_write_event(ch') <=> is_write_event(ch))
      /\ is_none_event(ch') <=> is_none_event(ch)
  <2>1. remove(ch) \in ChannelType /\ remove(ch).events = ch.events /\ remove(ch).status = "Init"
    BY <1>2, ChannelIs, Zenon
  <2>2. Handling(todo')
    BY <1>2, <1>3 DEF Handling
  <2> QED
    BY <1>1, <2>1, <2>2 DEF is_write_event, is_none_event
<1>5. Typed'
  BY <1>1, <1>3, <1>4 DEF ConnInv, Typed
<1>6. Connecting' /\ Buffered'
  <2>1. state_ # "kConnecting"
    BY <1>3 DEF ConnInv, Connecting
  <2> QED
    BY <1>1, <1>4, <2>1, Zenon DEF ConnInv, Connecting, Buffered, ShutdownAfterBuffer
<1>7. ASSUME Plain PROVE PlainInv'
  <2>1. PlainInv /\ state_ = "kDisconnected" /\ Leaving
    BY <1>3, <1>7 DEF ConnInv, PlainInv, Kept
  <2>2. ~in_map /\ Destroyed \notin Range(queue) /\ ch.status = "Deleted" /\ aborted' = aborted
    BY <1>1, <1>3, <2>1 DEF Leaving
  <2>3. Leaving'
    BY <1>1, <1>3, <1>4, <2>1, <2>2 DEF Leaving
  <2> QED
    BY <1>1, <2>1, <2>2, <2>3 DEF PlainInv
<1>8. Plain' => Plain
  BY <1>1 DEF Plain
<1> QED
  BY <1>4, <1>5, <1>6, <1>7, <1>8 DEF ConnInv

\* The server's loop: remove_connection_in_loop, and ~TcpServer.
LEMMA ServerKeeps ==
    ASSUME ConnInv, RemoveConnection \/ ServerDies
    PROVE  ConnInv'
<1>1. /\ UNCHANGED <<use, state_, reading_, output_buffer_, ch, batch, todo, call, held, peer, wr_shut, closes>>
  BY Zenon DEF RemoveConnection, ServerDies, conn, users, net, history
<1>10. queue' \in {queue, Append(queue, Destroyed)}
  BY Zenon DEF RemoveConnection, ServerDies, Destroyed
<1>11. in_map' = FALSE /\ {in_map', server'} \subseteq BOOLEAN
  BY Zenon DEF RemoveConnection, ServerDies, ConnInv, Typed
<1>2. finishing' \in Nat
  <2>1. finishing \in Nat
    BY DEF ConnInv, Typed
  <2>2. CASE RemoveConnection
    <3>1. finishing > 0 /\ finishing' = finishing - 1
      BY <2>2, Zenon DEF RemoveConnection
    <3> QED
      BY <2>1, <3>1
  <2>3. CASE ServerDies
    BY <2>3 DEF ServerDies
  <2> QED
    BY <2>2, <2>3
<1>3. queue \in Seq(Functors) /\ Once(queue, Established) /\ batch \in 0 .. Len(queue)
  BY DEF ConnInv, Typed
<1>4. /\ Append(queue, Destroyed) \in Seq(Functors) /\ Len(Append(queue, Destroyed)) = Len(queue) + 1
      /\ Len(queue) \in Nat /\ Range(Append(queue, Destroyed)) = Range(queue) \cup {Destroyed}
      /\ \A f : (Once(queue, f) /\ (Destroyed = f => f \notin Range(queue))) => Once(Append(queue, Destroyed), f)
      /\ queue # <<>> => Head(Append(queue, Destroyed)) = Head(queue)
  BY <1>3, FunctorsAre, AppendIs
<1>5. queue' \in Seq(Functors) /\ Once(queue', Established) /\ batch' \in 0 .. Len(queue')
  <2>1. CASE queue' = queue
    BY <1>1, <1>3, <2>1
  <2>2. CASE queue' = Append(queue, Destroyed)
    <3>1. queue' \in Seq(Functors) /\ Once(queue', Established)
      BY <1>3, <1>4, <2>2, FunctorsAre, Zenon
    <3>2. batch' \in 0 .. Len(queue')
      BY <1>1, <1>3, <1>4, <2>2
    <3> QED
      BY <3>1, <3>2
  <2> QED
    BY <1>10, <2>1, <2>2
<1>6. Typed' /\ Handling(todo') /\ Buffered'
  BY <1>1, <1>2, <1>5, <1>11 DEF ConnInv, Typed, Buffered, ShutdownAfterBuffer
<1>7. Connecting'
  <2>1. Established \in Range(queue') <=> Established \in Range(queue)
    BY <1>4, <1>10, FunctorsAre, Zenon
  <2>2. state_ = "kConnecting" => Head(queue') = Head(queue)
    BY <1>4, <1>10, SameQueue
  <2> QED
    BY <1>1, <2>1, <2>2 DEF ConnInv, Connecting
<1>8. ASSUME Plain PROVE PlainInv'
  <2>1. RemoveConnection
    BY <1>8 DEF Plain, ServerDies
  <2>2. PlainInv /\ finishing > 0
    BY <1>8, <2>1, Zenon DEF ConnInv, RemoveConnection
  <2>3. state_ = "kDisconnected" /\ Leaving
    BY <2>2 DEF PlainInv, Kept
  <2>4. finishing = 1 /\ in_map /\ "finish" \notin Range(todo) /\ "remove" \notin Range(todo)
        /\ Destroyed \notin Range(queue) /\ ch.status = "Deleted"
    BY <2>2, <2>3 DEF Leaving
  <2>5. /\ finishing' = 0 /\ aborted' = aborted /\ server' = server /\ queue' = Append(queue, Destroyed)
    BY <2>1, <2>4 DEF RemoveConnection, Check, Destroyed
  <2>6. Destroyed \in Range(queue') /\ Once(queue', Destroyed) /\ Range(queue') \cap Reads = {}
    <3>1. Destroyed \notin Reads
      BY DEF Destroyed, Reads
    <3> QED
      BY <1>4, <2>2, <2>4, <2>5, <3>1 DEF PlainInv
  <2>7. Leaving'
    <3>1. closes' = 1 /\ is_none_event(ch)' /\ ({"close", "read"} \cap Range(todo) = {})'
      BY <1>1, <2>3 DEF Leaving, is_none_event
    <3>2. /\ ch'.status = "Deleted" /\ "finish" \notin Range(todo') /\ "remove" \notin Range(todo')
          /\ in_map' = FALSE
      BY <1>1, <1>11, <2>4
    <3> QED
      BY <2>5, <2>6, <3>1, <3>2 DEF Leaving
  <2> QED
    BY <1>1, <2>2, <2>3, <2>5, <2>6, <2>7 DEF PlainInv
<1>9. Plain' => Plain
  BY <1>1 DEF Plain
<1> QED
  BY <1>6, <1>7, <1>8, <1>9 DEF ConnInv

\* Every step.
LEMMA ConnInvStep == ConnInv /\ [Next]_vars => ConnInv'
<1> SUFFICES ASSUME ConnInv, [Next]_vars PROVE ConnInv'
  OBVIOUS
<1>1. ASSUME NEW t \in Users,
             \/ \E m \in use.messages : UserSend(t, m)
             \/ UserShutdown(t) \/ UserForceClose(t) \/ UserReading(t) \/ UserForceCloseWithDelay(t)
      PROVE  ConnInv'
  BY <1>1, UserKeeps
<1>2. CASE UNCHANGED vars \/ PeerCloses \/ \E t \in Users : Enqueue(t) \/ DropPtr(t)
  BY <1>2, OutsideKeeps
<1>3. CASE CallbackReturns \/ HandleError \/ Swap
  BY <1>3, PassKeeps
<1>4. CASE RunFunctor
  BY <1>4, FunctorKeeps
<1>5. CASE HandleClose \/ HandleRead
  BY <1>5, ReadKeeps
<1>6. CASE Finish
  BY <1>6, FinishKeeps
<1>7. CASE RemoveChannel
  BY <1>7, RemoveKeeps
<1>8. CASE HandleWrite
  BY <1>8, HandleWriteKeeps
<1>9. CASE CallbackCalls
  BY <1>9, CallbackKeeps
<1>10. CASE PollStep
  BY <1>10, PollKeeps DEF PollStep
<1>11. CASE TimerFires
  BY <1>11, TimerKeeps
<1>12. CASE RemoveConnection \/ ServerDies
  BY <1>12, ServerKeeps
<1> QED
  BY <1>1, <1>2, <1>3, <1>4, <1>5, <1>6, <1>7, <1>8, <1>9, <1>10, <1>11, <1>12, Zenon DEF Next, LoopStep

\* The invariant always holds.
LEMMA ConnInvAlways == Spec => []ConnInv
BY ConnInvInit, ConnInvStep, PTL DEF Spec

\* A TcpConnection's fields agree in every state, whatever its users, its server and its
\* peer do; in plain use (no start_read, stop_read or ~TcpServer) no CHECK of it fails, the
\* user hears of its end at most once, and it is destroyed closed and unregistered.
THEOREM ConnectionAlwaysClean == Spec => []ConnectionClean
BY ConnInvAlways, ConnInvImplies, PTL

\* A TcpConnection's FIN goes out only when nothing is left in the output buffer, and
\* nothing is buffered after it, until the connection is closed.
THEOREM FinAlwaysAfterBuffer == Spec => []ShutdownAfterBuffer
BY ConnInvAlways, ConnInvImplies, PTL
=============================================================================
