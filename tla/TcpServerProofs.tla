--------------------------- MODULE TcpServerProofs ---------------------------
(***************************************************************************)
(* Proofs about TcpServer: while no worker is being ended no check of the  *)
(* server fails, but the one for a connection that is being shut down when *)
(* the server ends, and connections go away clean; and the map has every   *)
(* connection that is not closed.                                          *)
(***************************************************************************)
EXTENDS TcpServer, WellFoundedInduction, TLAPS

\* A set of naturals that is not empty has a least element.
LEMMA LeastNatural ==
    ASSUME NEW T \in SUBSET Nat, T # {}
    PROVE  \E x \in T : \A y \in T : x <= y
<1> DEFINE R == {ss \in Nat \X Nat : ss[1] < ss[2]}
<1>1. IsWellFoundedOn(R, Nat)
  BY NatLessThanWellFounded DEF OpToRel
<1> HIDE DEF R
<1>2. PICK x \in T : \A y \in T : <<y, x>> \notin R
  BY <1>1, WFMin, Zenon
<1>3. \A y \in T : ~(y < x)
  BY <1>2, Zenon DEF R
<1>4. \A y \in T : x <= y
  BY <1>3
<1> QED
  BY <1>4

-----------------------------------------------------------------------------
(* The functors of the loops, as sets.                                     *)

\* What a functor may do.
Ops == {"established", "destroyed", "remove"}

\* The functors of loop l that have not run yet.
Pending(q, b, l) == Range(q[l]) \cup Range(b[l])

\* No functor is queued twice.
Tidy(q, b) ==
    /\ q \in [Loops -> Seq(Functors)] /\ b \in [Loops -> Seq(Functors)]
    /\ \A l \in Loops : /\ IsInjective(q[l]) /\ IsInjective(b[l])
                        /\ Range(q[l]) \cap Range(b[l]) = {}

\* A functor is what it does and the connection it does it to.
LEMMA FunctorFields ==
    /\ \A o \in Ops, c \in Conns : F(o, c) \in Functors /\ F(o, c).op = o /\ F(o, c).c = c
    /\ \A f \in Functors : f.op \in Ops /\ f.c \in Conns /\ f = F(f.op, f.c)
    /\ \A o, p \in Ops, c, d \in Conns : F(o, c) = F(p, d) => o = p /\ c = d
BY DEF F, Functors, Ops

\* Appending adds one element to the range.
LEMMA AppendRange ==
    ASSUME NEW S, NEW s \in Seq(S), NEW e \in S
    PROVE  /\ Append(s, e) \in Seq(S) /\ Range(Append(s, e)) = Range(s) \cup {e}
           /\ (IsInjective(s) /\ e \notin Range(s)) => IsInjective(Append(s, e))
<1>1. /\ Append(s, e) \in Seq(S) /\ DOMAIN Append(s, e) = 1 .. Len(s) + 1 /\ DOMAIN s = 1 .. Len(s)
      /\ Len(s) \in Nat /\ Append(s, e)[Len(s) + 1] = e
      /\ \A i \in 1 .. Len(s) : Append(s, e)[i] = s[i]
  OBVIOUS
<1>2. Range(Append(s, e)) = Range(s) \cup {e}
  <2>1. \A x \in Range(Append(s, e)) : x \in Range(s) \cup {e}
    BY <1>1 DEF Range
  <2>2. \A x \in Range(s) : x \in Range(Append(s, e))
    BY <1>1 DEF Range
  <2>3. e \in Range(Append(s, e))
    BY <1>1 DEF Range
  <2> QED
    BY <2>1, <2>2, <2>3
<1>3. (IsInjective(s) /\ e \notin Range(s)) => IsInjective(Append(s, e))
  BY <1>1 DEF IsInjective, Range
<1> QED
  BY <1>1, <1>2, <1>3

\* The tail of a sequence without repetitions is the sequence without its head.
LEMMA TailRange ==
    ASSUME NEW S, NEW s \in Seq(S), s # <<>>, IsInjective(s)
    PROVE  /\ Tail(s) \in Seq(S) /\ Range(Tail(s)) = Range(s) \ {Head(s)}
           /\ Head(s) \in S /\ Head(s) \in Range(s) /\ IsInjective(Tail(s))
<1>1. /\ Tail(s) \in Seq(S) /\ DOMAIN Tail(s) = 1 .. Len(s) - 1 /\ DOMAIN s = 1 .. Len(s)
      /\ Len(s) \in Nat \ {0} /\ Head(s) = s[1] /\ Head(s) \in S
      /\ \A i \in 1 .. Len(s) - 1 : Tail(s)[i] = s[i + 1]
  OBVIOUS
<1>2. \A i, j \in 1 .. Len(s) : s[i] = s[j] => i = j
  BY <1>1 DEF IsInjective
<1>3. IsInjective(Tail(s))
  BY <1>1, <1>2 DEF IsInjective
<1>4. Range(Tail(s)) = Range(s) \ {Head(s)}
  <2>1. \A x \in Range(Tail(s)) : x \in Range(s) /\ x # Head(s)
    BY <1>1, <1>2 DEF Range
  <2>2. ASSUME NEW x \in Range(s), x # Head(s)
        PROVE  x \in Range(Tail(s))
    <3>1. PICK i \in 1 .. Len(s) : x = s[i]
      BY <1>1 DEF Range
    <3>2. i - 1 \in 1 .. Len(s) - 1 /\ Tail(s)[i - 1] = x
      BY <1>1, <2>2, <3>1
    <3> QED
      BY <1>1, <3>2, Zenon DEF Range
  <2> QED
    BY <2>1, <2>2
<1>5. Head(s) \in Range(s)
  BY <1>1 DEF Range
<1> QED
  BY <1>1, <1>3, <1>4, <1>5

\* queue_in_own_loop of a functor that is not queued yet.
LEMMA PostIs ==
    ASSUME NEW q, NEW b, Tidy(q, b), NEW l \in Loops, NEW o \in Ops, NEW c \in Conns,
           F(o, c) \notin Pending(q, b, l)
    PROVE  /\ Tidy(Post(q, l, o, c), b)
           /\ Pending(Post(q, l, o, c), b, l) = Pending(q, b, l) \cup {F(o, c)}
           /\ \A k \in Loops : k # l => Pending(Post(q, l, o, c), b, k) = Pending(q, b, k)
<1> DEFINE e == F(o, c)  p == Post(q, l, o, c)
<1>1. e \in Functors
  BY FunctorFields
<1> HIDE DEF e
<1>2. p = [q EXCEPT ![l] = Append(q[l], e)]
  BY DEF Post, e
<1> HIDE DEF p
<1>3. q[l] \in Seq(Functors) /\ IsInjective(q[l]) /\ e \notin Range(q[l]) /\ e \notin Range(b[l])
  BY DEF Tidy, Pending, e
<1>4. /\ Append(q[l], e) \in Seq(Functors) /\ Range(Append(q[l], e)) = Range(q[l]) \cup {e}
      /\ IsInjective(Append(q[l], e))
  BY <1>1, <1>3, AppendRange
<1>5. /\ p \in [Loops -> Seq(Functors)] /\ p[l] = Append(q[l], e)
      /\ \A k \in Loops : k # l => p[k] = q[k]
  BY <1>2, <1>4 DEF Tidy
<1>6. Tidy(p, b)
  <2>1. \A k \in Loops : IsInjective(p[k]) /\ IsInjective(b[k])
    BY <1>4, <1>5, Zenon DEF Tidy
  <2>2. \A k \in Loops : Range(p[k]) \cap Range(b[k]) = {}
    <3>1. Range(p[l]) \cap Range(b[l]) = {}
      BY <1>3, <1>4, <1>5 DEF Tidy
    <3> QED
      BY <1>5, <3>1, Zenon DEF Tidy
  <2> QED
    BY <1>5, <2>1, <2>2 DEF Tidy
<1>7. Pending(p, b, l) = Pending(q, b, l) \cup {e}
  BY <1>4, <1>5 DEF Pending
<1>8. \A k \in Loops : k # l => Pending(p, b, k) = Pending(q, b, k)
  BY <1>5 DEF Pending
<1> QED
  BY <1>6, <1>7, <1>8 DEF p, e

\* Batch d is b without the functor at the head of loop l's.
Removes(q, b, l, d) ==
    /\ Tidy(q, d) /\ Head(b[l]) \in Functors /\ Head(b[l]) \in Pending(q, b, l)
    /\ Pending(q, d, l) = Pending(q, b, l) \ {Head(b[l])}
    /\ \A k \in Loops : k # l => Pending(q, d, k) = Pending(q, b, k)
    /\ \A k \in Loops : b[k] = <<>> => d[k] = <<>>

\* Running the first functor of a batch.
LEMMA TakeIs ==
    ASSUME NEW q, NEW b, Tidy(q, b), NEW l \in Loops, b[l] # <<>>, NEW d,
           d = [b EXCEPT ![l] = Tail(b[l])]
    PROVE  Removes(q, b, l, d)
<1>1. b[l] \in Seq(Functors) /\ IsInjective(b[l]) /\ Range(q[l]) \cap Range(b[l]) = {}
  BY DEF Tidy
<1>2. /\ Tail(b[l]) \in Seq(Functors) /\ Range(Tail(b[l])) = Range(b[l]) \ {Head(b[l])}
      /\ Head(b[l]) \in Functors /\ Head(b[l]) \in Range(b[l]) /\ IsInjective(Tail(b[l]))
  BY <1>1, TailRange
<1>3. /\ d \in [Loops -> Seq(Functors)] /\ d[l] = Tail(b[l])
      /\ \A k \in Loops : k # l => d[k] = b[k]
  BY <1>2 DEF Tidy
<1>4. Tidy(q, d)
  <2>1. \A k \in Loops : IsInjective(q[k]) /\ IsInjective(d[k])
    BY <1>2, <1>3 DEF Tidy
  <2>2. \A k \in Loops : Range(q[k]) \cap Range(d[k]) = {}
    <3>1. Range(q[l]) \cap Range(d[l]) = {}
      BY <1>1, <1>2, <1>3
    <3> QED
      BY <1>3, <3>1 DEF Tidy
  <2> QED
    BY <1>3, <2>1, <2>2 DEF Tidy
<1>5. Pending(q, d, l) = Pending(q, b, l) \ {Head(b[l])}
  BY <1>1, <1>2, <1>3 DEF Pending
<1>6. \A k \in Loops : k # l => Pending(q, d, k) = Pending(q, b, k)
  BY <1>3 DEF Pending
<1>7. Head(b[l]) \in Pending(q, b, l)
  BY <1>2 DEF Pending
<1> QED
  BY <1>2, <1>3, <1>4, <1>5, <1>6, <1>7, Zenon DEF Removes

\* The loops on which a functor is pending.
Where(q, b, o, c) == {l \in Loops : F(o, c) \in Pending(q, b, l)}

\* Queueing a functor, in terms of where functors are.
LEMMA PostWhere ==
    ASSUME NEW q, NEW b, Tidy(q, b), NEW l \in Loops, NEW o \in Ops, NEW c \in Conns,
           l \notin Where(q, b, o, c), NEW p, p = Post(q, l, o, c)
    PROVE  /\ Tidy(p, b) /\ Where(p, b, o, c) = Where(q, b, o, c) \cup {l}
           /\ \A m \in Ops, e \in Conns : (m # o \/ e # c) => Where(p, b, m, e) = Where(q, b, m, e)
<1>1. F(o, c) \notin Pending(q, b, l)
  BY DEF Where
<1>2. /\ Tidy(p, b) /\ Pending(p, b, l) = Pending(q, b, l) \cup {F(o, c)}
      /\ \A k \in Loops : k # l => Pending(p, b, k) = Pending(q, b, k)
  BY <1>1, PostIs
<1>3. Where(p, b, o, c) = Where(q, b, o, c) \cup {l}
  BY <1>2 DEF Where
<1>4. ASSUME NEW m \in Ops, NEW e \in Conns, m # o \/ e # c
      PROVE  Where(p, b, m, e) = Where(q, b, m, e)
  <2>1. F(m, e) # F(o, c)
    BY <1>4, FunctorFields
  <2> QED
    BY <1>2, <2>1 DEF Where
<1> QED
  BY <1>2, <1>3, <1>4

\* From b to d loop l takes the functor that does o to c out of its batch.
Takes(q, b, l, d, o, c) ==
    /\ o = Head(b[l]).op /\ c = Head(b[l]).c
    /\ Tidy(q, d) /\ l \in Where(q, b, o, c) /\ Where(q, d, o, c) = Where(q, b, o, c) \ {l}
    /\ \A m \in Ops, e \in Conns : (m # o \/ e # c) => Where(q, d, m, e) = Where(q, b, m, e)
    /\ \A k \in Loops : b[k] = <<>> => d[k] = <<>>

\* Running a functor, in terms of where functors are.
LEMMA TakeWhere ==
    ASSUME NEW q, NEW b, Tidy(q, b), NEW l \in Loops, b[l] # <<>>, NEW d,
           d = [b EXCEPT ![l] = Tail(b[l])]
    PROVE  \E o \in Ops, c \in Conns : Takes(q, b, l, d, o, c)
<1> DEFINE f == Head(b[l])
<1>1. Removes(q, b, l, d)
  BY TakeIs, Zenon
<1>2. /\ Tidy(q, d) /\ f \in Functors /\ f \in Pending(q, b, l)
      /\ Pending(q, d, l) = Pending(q, b, l) \ {f}
      /\ \A k \in Loops : k # l => Pending(q, d, k) = Pending(q, b, k)
      /\ \A k \in Loops : b[k] = <<>> => d[k] = <<>>
  BY <1>1, Zenon DEF Removes
<1> HIDE DEF f
<1>3. f.op \in Ops /\ f.c \in Conns /\ f = F(f.op, f.c)
  BY <1>2, FunctorFields
<1>4. l \in Where(q, b, f.op, f.c) /\ Where(q, d, f.op, f.c) = Where(q, b, f.op, f.c) \ {l}
  BY <1>2, <1>3, Zenon DEF Where
<1>5. ASSUME NEW m \in Ops, NEW e \in Conns, m # f.op \/ e # f.c
      PROVE  Where(q, d, m, e) = Where(q, b, m, e)
  <2>1. F(m, e) # f
    BY <1>3, <1>5, FunctorFields
  <2> QED
    BY <1>2, <2>1, Zenon DEF Where
<1> QED
  BY <1>2, <1>3, <1>4, <1>5, Zenon DEF f, Takes

-----------------------------------------------------------------------------
(* The inductive invariant.                                                *)

\* The fields keep their types; the destructor is what Base is in when it runs.
Typed ==
    /\ loops_ \in Pools /\ next_conn_id_ \in 1 .. NumConns + 1 /\ next_ \in Nat
    /\ loops_ # <<>> => next_ < Len(loops_)
    /\ connections_ \subseteq Conns
    /\ loop \in [Conns -> Loops] /\ (loops_ = <<>> => \A c \in Conns : loop[c] = Base)
    /\ state_ \in [Conns -> States]
    /\ registered \in [Conns -> BOOLEAN]
    /\ queue \in [Loops -> Seq(Functors)] /\ batch \in [Loops -> Seq(Functors)]
    /\ pc \in [Loops -> {"events", "functors", "exited", "dtor"}]
    /\ quit_ \in [Loops -> BOOLEAN] /\ closing \in [Loops -> Conns \cup {NoConn}]
    /\ pc[Base] = "dtor" <=> server = "dying"

\* ~TcpServer has met a connection that is being shut down.
MetShutdown ==
    /\ aborted = "Channel::remove" /\ server = "dying"
    /\ \E c \in Conns \ connections_ : state_[c] = "kDisconnecting"

\* Without workers to end no loop quits, and the server is not left to a callback.
Steady ==
    /\ Tidy(queue, batch) /\ aborted = "no"
    /\ \A l \in Loops : ~quit_[l] /\ (pc[l] = "events" => batch[l] = <<>>)
    /\ server \in {"alive", "dying", "dead"} /\ (server = "dead" => connections_ = {})

\* The workers whose remove_connection is called for c.
Closer(c) == {l \in Loops : closing[l] = c}

\* Where a connection is between new_connection and connect_destroyed: what its state_,
\* its channel, the map and the functors that are on their way say of each other.
Phase(c) ==
    /\ state_[c] = "none" <=> c >= next_conn_id_
    /\ state_[c] \in {"kConnecting", "kConnected", "kDisconnecting"} => c \in connections_
    /\ c \in connections_ => state_[c] # "none"
    /\ state_[c] = "kConnecting" => loop[c] # Base
    /\ (state_[c] = "kDisconnected" /\ c \in connections_) => loop[c] # Base
    /\ state_[c] \in {"none", "kConnecting"} => ~registered[c]
    /\ c \in connections_ => (registered[c] <=> state_[c] # "kConnecting")
    /\ Closer(c) # {} => Closer(c) = {loop[c]} /\ state_[c] = "kDisconnected" /\ c \in connections_
    /\ Where(queue, batch, "established", c) = IF state_[c] = "kConnecting" THEN {loop[c]} ELSE {}
    /\ Where(queue, batch, "destroyed", c) =
        IF state_[c] = "kDisconnected" /\ c \notin connections_ /\ registered[c] THEN {loop[c]} ELSE {}
    /\ Where(queue, batch, "remove", c) =
        IF state_[c] = "kDisconnected" /\ c \in connections_ /\ Closer(c) = {} THEN {Base} ELSE {}

\* What holds at every step until then.
Good == Typed /\ Steady /\ \A c \in Conns : Phase(c)

\* The invariant.
ServerInv == Typed /\ (~EndsWorkers => MetShutdown \/ Good)

\* Nothing has happened yet.
LEMMA ServerInvInit == Init => ServerInv
<1> SUFFICES ASSUME Init PROVE ServerInv
  OBVIOUS
<1>1. Base \in Loops /\ NumConns \in Nat /\ Conns \subseteq Nat \ {0}
  BY ServerAssumption DEF Loops, Conns
<1>2. loops_ \in Pools /\ (loops_ # <<>> => 0 < Len(loops_))
  <2>1. loops_ \in Pools /\ loops_ \in Seq(Loops \ {Base})
    BY ServerAssumption DEF Init
  <2> QED
    BY <2>1
<1>3. Typed
  BY <1>1, <1>2 DEF Init, Typed, NoConn, States
<1>4. \A l \in Loops : queue[l] = <<>> /\ batch[l] = <<>> /\ closing[l] = NoConn
  BY DEF Init
<1>5. \A l \in Loops : Range(queue[l]) = {} /\ Range(batch[l]) = {}
  BY <1>4 DEF Range
<1>6. Tidy(queue, batch)
  BY <1>3, <1>4, <1>5 DEF Tidy, Typed, IsInjective
<1>7. \A c \in Conns, o \in Ops : Where(queue, batch, o, c) = {}
  BY <1>5 DEF Where, Pending
<1>8. \A c \in Conns : Closer(c) = {}
  BY <1>1, <1>4 DEF Closer, NoConn
<1>9. Steady
  BY <1>4, <1>6 DEF Init, Steady
<1>10. \A c \in Conns : state_[c] = "none" /\ ~registered[c] /\ c \notin connections_ /\ c >= next_conn_id_
  BY <1>1 DEF Init
<1>11. \A c \in Conns : Phase(c)
  BY <1>7, <1>8, <1>10 DEF Phase, Ops
<1> QED
  BY <1>3, <1>9, <1>11, Zenon DEF ServerInv, Good

\* What the invariant says of the checks, the connections that go away, and the map.
LEMMA ServerInvImplies == ServerInv => ServerClean /\ MapComplete
<1> SUFFICES ASSUME ServerInv PROVE ServerClean /\ MapComplete
  OBVIOUS
<1>1. TypeOK
  BY DEF ServerInv, Typed, TypeOK
<1>2. ChecksHold
  BY DEF ServerInv, Good, Steady, ChecksHold, MetShutdown
<1>3. DestroyedClean
  <2> SUFFICES ASSUME ~EndsWorkers, aborted = "no", NEW c \in Conns, state_[c] # "none",
                      ~Referenced(c)
               PROVE  state_[c] = "kDisconnected" /\ ~registered[c]
    BY DEF DestroyedClean, ReleasedClean
  <2>1. Phase(c) /\ c \notin connections_ /\ loop[c] \in Loops
    BY DEF ServerInv, Good, Typed, Referenced, MetShutdown
  <2>2. \A o \in Ops : Where(queue, batch, o, c) = {}
    <3>1. \A l \in Loops : \A f \in Pending(queue, batch, l) : f.c # c
      BY DEF Referenced, Pending
    <3> QED
      BY <3>1, FunctorFields DEF Where
  <2>3. Where(queue, batch, "established", c) = {} /\ Where(queue, batch, "destroyed", c) = {}
    BY <2>2 DEF Ops
  <2>4. state_[c] = "kDisconnected"
    BY <2>1 DEF Phase, ServerInv, Typed, States
  <2> QED
    BY <2>1, <2>3, <2>4 DEF Phase
<1>4. MapComplete
  <2> SUFFICES ASSUME server = "alive", NEW c \in Conns
               PROVE  /\ state_[c] \in {"kConnecting", "kConnected", "kDisconnecting"} => c \in connections_
                      /\ (c \in connections_ /\ state_[c] = "kDisconnected") =>
                          \/ \E l \in Loops : closing[l] = c
                          \/ F("remove", c) \in Range(queue[Base]) \cup Range(batch[Base])
    BY DEF MapComplete
  <2>1. Phase(c)
    BY DEF ServerInv, Good, EndsWorkers, MetShutdown
  <2>2. ASSUME c \in connections_, state_[c] = "kDisconnected", \A l \in Loops : closing[l] # c
        PROVE  F("remove", c) \in Range(queue[Base]) \cup Range(batch[Base])
    <3>1. Closer(c) = {}
      BY <2>2 DEF Closer
    <3>2. Base \in Where(queue, batch, "remove", c)
      BY <2>1, <2>2, <3>1 DEF Phase
    <3> QED
      BY <3>2 DEF Where, Pending
  <2>3. state_[c] \in {"kConnecting", "kConnected", "kDisconnecting"} => c \in connections_
    BY <2>1 DEF Phase
  <2> QED
    BY <2>2, <2>3
<1> QED
  BY <1>1, <1>2, <1>3, <1>4 DEF ServerClean

-----------------------------------------------------------------------------
(* The steps keep the types.                                               *)

\* queue_in_own_loop keeps the queues queues.
LEMMA PostTyped ==
    ASSUME NEW q \in [Loops -> Seq(Functors)], NEW l \in Loops, NEW o \in Ops, NEW c \in Conns
    PROVE  Post(q, l, o, c) \in [Loops -> Seq(Functors)]
<1>1. F(o, c) \in Functors
  BY FunctorFields
<1> QED
  BY <1>1 DEF Post

\* get_next_loop returns a worker, or Base if there is none.
LEMMA NextLoopIs ==
    ASSUME Typed
    PROVE  LET r == get_next_loop(next_)
           IN /\ r[1] \in Loops /\ r[2] \in Nat /\ (loops_ = <<>> => r[1] = Base)
              /\ loops_ # <<>> => r[2] < Len(loops_) /\ r[1] # Base
<1>1. loops_ \in Seq(Loops \ {Base}) /\ Base \in Loops
  BY ServerAssumption DEF Typed, Loops
<1>2. CASE loops_ = <<>>
  BY <1>1, <1>2 DEF get_next_loop
<1>3. CASE loops_ # <<>>
  <2>1. next_ + 1 \in 1 .. Len(loops_) /\ Len(loops_) \in Nat
    BY <1>1, <1>3 DEF Typed
  <2>2. loops_[next_ + 1] \in Loops \ {Base}
    BY <1>1, <2>1
  <2> QED
    BY <1>3, <2>1, <2>2 DEF get_next_loop, Typed
<1> QED
  BY <1>2, <1>3

\* The first connection of the map that ~TcpServer meets.
LEMMA FirstIs ==
    ASSUME Typed, connections_ # {}
    PROVE  (CHOOSE x \in connections_ : \A y \in connections_ : x <= y) \in connections_
<1>1. connections_ \in SUBSET Nat
  BY ServerAssumption DEF Typed, Conns
<1>2. \E x \in connections_ : \A y \in connections_ : x <= y
  BY <1>1, LeastNatural
<1> QED
  BY <1>2

\* The steps keep the types, the workers stay the same ones, and a server that is gone
\* does not come back.
LEMMA TypedStep == Typed /\ [Next]_vars => Typed' /\ loops_' = loops_ /\ (EndsWorkers => EndsWorkers')
<1> SUFFICES ASSUME Typed, [Next]_vars
             PROVE  Typed' /\ loops_' = loops_ /\ (EndsWorkers => EndsWorkers')
  OBVIOUS
<1>0. Base \in Loops /\ NoConn \notin Conns /\ NumConns \in Nat
  BY ServerAssumption DEF Loops, NoConn, Conns
<1>a. queue \in [Loops -> Seq(Functors)] /\ {"established", "destroyed", "remove"} \subseteq Ops
  BY DEF Typed, Ops
<1>s. {"kConnecting", "kConnected", "kDisconnecting", "kDisconnected"} \subseteq States
  BY DEF States
<1>b. \A l \in Loops, o \in Ops, c \in Conns : Post(queue, l, o, c) \in [Loops -> Seq(Functors)]
  BY <1>a, PostTyped, Zenon
<1>1. CASE UNCHANGED vars
  BY <1>1 DEF vars, map, conn, exec, Typed, EndsWorkers
<1>2. CASE new_connection
  <2> DEFINE c == next_conn_id_  l == get_next_loop(next_)[1]
  <2>1. /\ c \in Conns /\ l \in Loops /\ (loops_ = <<>> => l = Base)
        /\ get_next_loop(next_)[2] \in Nat /\ (loops_ # <<>> => get_next_loop(next_)[2] < Len(loops_))
    BY <1>2, NextLoopIs DEF new_connection
  <2>2. /\ next_conn_id_' = c + 1 /\ next_' = get_next_loop(next_)[2]
        /\ loop' = [loop EXCEPT ![c] = l] /\ connections_' = connections_ \cup {c}
        /\ UNCHANGED <<loops_, batch, pc, quit_, closing, server>>
        /\ queue' = queue \/ queue' = Post(queue, l, "established", c)
        /\ \/ state_' = [state_ EXCEPT ![c] = "kConnected"]
           \/ state_' = [state_ EXCEPT ![c] = "kConnecting"]
        /\ registered' = registered \/ registered' = [registered EXCEPT ![c] = TRUE]
    BY <1>2 DEF new_connection
  <2> HIDE DEF l
  <2>3. queue' \in [Loops -> Seq(Functors)]
    BY <1>a, <1>b, <2>1, <2>2
  <2>4. next_conn_id_' \in 1 .. NumConns + 1
    BY <1>0, <2>1, <2>2 DEF Conns
  <2>5. loop' \in [Conns -> Loops] /\ (loops_ = <<>> => \A d \in Conns : loop'[d] = Base)
    BY <2>1, <2>2 DEF Typed
  <2>6. state_' \in [Conns -> States]
    BY <1>s, <2>1, <2>2 DEF Typed
  <2> QED
    BY <2>1, <2>2, <2>3, <2>4, <2>5, <2>6, Zenon DEF Typed, EndsWorkers
<1>3. ASSUME NEW c \in Conns, handle_close(c)
      PROVE  Typed' /\ loops_' = loops_ /\ (EndsWorkers => EndsWorkers')
  <2>1. loop[c] \in Loops
    BY DEF Typed
  <2>2. /\ state_' = [state_ EXCEPT ![c] = "kDisconnected"]
        /\ UNCHANGED <<loops_, next_conn_id_, next_, loop, registered, batch, pc, quit_, server>>
        /\ queue' = queue \/ queue' = Post(queue, loop[c], "destroyed", c)
        /\ connections_' \subseteq connections_
        /\ \/ closing' = closing \/ closing' = [closing EXCEPT ![loop[c]] = c]
           \/ closing' = [closing EXCEPT ![loop[c]] = NoConn]
    BY <1>3 DEF handle_close, remove_connection_in_loop
  <2>3. queue' \in [Loops -> Seq(Functors)]
    BY <1>a, <1>b, <2>1, <2>2
  <2>4. closing' \in [Loops -> Conns \cup {NoConn}]
    BY <2>2, Zenon DEF Typed
  <2>5. state_' \in [Conns -> States]
    BY <1>s, <2>2, Zenon DEF Typed
  <2> QED
    BY <2>2, <2>3, <2>4, <2>5 DEF Typed, EndsWorkers
<1>c. ASSUME NEW c \in Conns, shutdown(c)
      PROVE  Typed' /\ loops_' = loops_ /\ (EndsWorkers => EndsWorkers')
  <2>1. state_' \in [Conns -> States]
    BY <1>s, <1>c, Zenon DEF shutdown, Typed
  <2> QED
    BY <1>c, <2>1 DEF shutdown, Typed, EndsWorkers, map, exec
<1>4. ASSUME NEW l \in Loops, remove_connection(l)
      PROVE  Typed' /\ loops_' = loops_ /\ (EndsWorkers => EndsWorkers')
  <2>1. /\ closing[l] \in Conns /\ queue' = Post(queue, Base, "remove", closing[l])
        /\ closing' = [closing EXCEPT ![l] = NoConn]
        /\ UNCHANGED <<loops_, map, conn, batch, pc, quit_, server>>
    BY <1>4 DEF remove_connection, Typed
  <2>2. queue' \in [Loops -> Seq(Functors)]
    BY <1>0, <1>a, <1>b, <2>1
  <2> QED
    BY <2>1, <2>2 DEF Typed, EndsWorkers, map, conn
<1>5. ASSUME NEW l \in Loops, Swap(l)
      PROVE  Typed' /\ loops_' = loops_ /\ (EndsWorkers => EndsWorkers')
  <2>1. /\ batch' \in [Loops -> Seq(Functors)] /\ queue' \in [Loops -> Seq(Functors)]
        /\ pc' \in [Loops -> {"events", "functors", "exited", "dtor"}]
        /\ pc'[Base] = "dtor" <=> server = "dying"
    BY <1>0, <1>5 DEF Swap, Typed
  <2> QED
    BY <1>5, <2>1 DEF Swap, Typed, EndsWorkers, map, conn
<1>6. ASSUME NEW l \in Loops, RunFunctor(l)
      PROVE  Typed' /\ loops_' = loops_ /\ (EndsWorkers => EndsWorkers')
  <2> DEFINE f == Head(batch[l])
  <2>1. /\ batch' = [batch EXCEPT ![l] = Tail(@)] /\ batch[l] # <<>>
        /\ UNCHANGED <<loops_, next_conn_id_, next_, loop, pc, quit_, closing, server>>
        /\ connections_' = connections_ \/ connections_' = connections_ \ {f.c}
        /\ \/ registered' = registered \/ registered' = [registered EXCEPT ![f.c] = TRUE]
           \/ registered' = [registered EXCEPT ![f.c] = (state_[f.c] = "kDisconnecting")]
        /\ queue' = queue \/ queue' = Post(queue, loop[f.c], "destroyed", f.c)
        /\ \/ state_' = state_ \/ state_' = [state_ EXCEPT ![f.c] = "kConnected"]
           \/ state_' = [state_ EXCEPT ![f.c] = IF @ = "kConnected" THEN "kDisconnected" ELSE @]
    BY <1>6 DEF RunFunctor, connect_established, connect_destroyed, remove_connection_in_loop
  <2>2. batch[l] \in Seq(Functors)
    BY DEF Typed
  <2>3. f \in Functors /\ batch' \in [Loops -> Seq(Functors)]
    BY <2>1, <2>2 DEF Typed
  <2> HIDE DEF f
  <2>4. f.c \in Conns /\ loop[f.c] \in Loops
    BY <2>3, FunctorFields DEF Typed
  <2>5. queue' \in [Loops -> Seq(Functors)]
    BY <1>a, <1>b, <2>1, <2>4
  <2>6. state_' \in [Conns -> States]
    BY <1>s, <2>1, <2>4, Zenon DEF Typed
  <2> QED
    BY <2>1, <2>3, <2>5, <2>6, Zenon DEF Typed, EndsWorkers
<1>7. ASSUME NEW l \in Loops, EndIteration(l)
      PROVE  Typed' /\ loops_' = loops_ /\ (EndsWorkers => EndsWorkers')
  <2>1. /\ queue' \in [Loops -> Seq(Functors)]
        /\ pc' \in [Loops -> {"events", "functors", "exited", "dtor"}]
        /\ pc'[Base] = "dtor" <=> server = "dying"
    BY <1>0, <1>7 DEF EndIteration, Typed
  <2> QED
    BY <1>7, <2>1 DEF EndIteration, Typed, EndsWorkers, map, conn
<1>8. CASE DropServer
  <2>1. /\ pc' \in [Loops -> {"events", "functors", "exited", "dtor"}]
        /\ pc'[Base] = "dtor" <=> server' = "dying"
    BY <1>0, <1>8, Zenon DEF DropServer, Typed
  <2> QED
    BY <1>8, <2>1 DEF DropServer, Typed, EndsWorkers, map, conn
<1>9. CASE DestroyNext
  <2> DEFINE c == CHOOSE x \in connections_ : \A y \in connections_ : x <= y
  <2>1. c \in Conns /\ loop[c] \in Loops
    BY <1>9, FirstIs DEF DestroyNext, Typed
  <2>2. /\ connections_' = connections_ \ {c}
        /\ queue' = queue \/ queue' = Post(queue, loop[c], "destroyed", c)
        /\ \/ registered' = registered
           \/ registered' = [registered EXCEPT ![c] = (state_[c] = "kDisconnecting")]
        /\ \/ state_' = state_
           \/ state_' = [state_ EXCEPT ![c] = IF @ = "kConnected" THEN "kDisconnected" ELSE @]
        /\ UNCHANGED <<loops_, next_conn_id_, next_, loop, batch, pc, quit_, closing, server>>
    BY <1>9 DEF DestroyNext, connect_destroyed
  <2> HIDE DEF c
  <2>3. queue' \in [Loops -> Seq(Functors)]
    BY <1>a, <1>b, <2>1, <2>2
  <2>4. state_' \in [Conns -> States]
    BY <1>s, <2>1, <2>2, Zenon DEF Typed
  <2> QED
    BY <2>2, <2>3, <2>4, Zenon DEF Typed, EndsWorkers
<1>10. CASE QuitWorker
  BY <1>10, Zenon DEF QuitWorker, Typed, EndsWorkers, map, conn
<1>11. CASE Dead
  <2>1. /\ pc' \in [Loops -> {"events", "functors", "exited", "dtor"}]
        /\ pc'[Base] = "dtor" <=> server' = "dying"
    BY <1>0, <1>11 DEF Dead, Typed
  <2> QED
    BY <1>11, <2>1 DEF Dead, Typed, EndsWorkers, map, conn
<1> QED
  BY <1>1, <1>2, <1>3, <1>c, <1>4, <1>5, <1>6, <1>7, <1>8, <1>9, <1>10, <1>11 DEF Next

-----------------------------------------------------------------------------
(* The steps keep the phases of the connections.                           *)

\* A connection the step does not touch.
LEMMA PhaseFrame ==
    ASSUME NEW c \in Conns, Phase(c), state_'[c] = state_[c], registered'[c] = registered[c],
           loop'[c] = loop[c], c \in connections_' <=> c \in connections_, Closer(c)' = Closer(c),
           c >= next_conn_id_' <=> c >= next_conn_id_,
           \A o \in Ops : Where(queue', batch', o, c) = Where(queue, batch, o, c)
    PROVE  Phase(c)'
<1>1. /\ Where(queue', batch', "established", c) = Where(queue, batch, "established", c)
      /\ Where(queue', batch', "destroyed", c) = Where(queue, batch, "destroyed", c)
      /\ Where(queue', batch', "remove", c) = Where(queue, batch, "remove", c)
  BY DEF Ops
<1> QED
  BY <1>1, Zenon DEF Phase

\* A new connection, established at once on Base or by a functor on its worker.
LEMMA NewConnectionKeeps ==
    ASSUME Good, ~EndsWorkers, new_connection
    PROVE  Steady' /\ \A c \in Conns : Phase(c)'
<1> DEFINE l == get_next_loop(next_)[1]
<1>n. PICK n \in Conns : n = next_conn_id_
  BY DEF new_connection
<1>0. Typed /\ Steady /\ Phase(n) /\ Base \in Loops /\ Conns \subseteq Nat
  BY ServerAssumption DEF Good, Loops, Conns
<1>1. l \in Loops
  BY <1>0, NextLoopIs
<1>2. /\ next_conn_id_' = n + 1 /\ loop' = [loop EXCEPT ![n] = l]
      /\ connections_' = connections_ \cup {n} /\ Alive
      /\ UNCHANGED <<loops_, batch, pc, quit_, closing, server, aborted>>
      /\ l = Base => /\ state_' = [state_ EXCEPT ![n] = "kConnected"]
                     /\ registered' = [registered EXCEPT ![n] = TRUE] /\ queue' = queue
      /\ l # Base => /\ state_' = [state_ EXCEPT ![n] = "kConnecting"]
                     /\ queue' = Post(queue, l, "established", n) /\ registered' = registered
  BY <1>n DEF new_connection
<1> HIDE DEF l
<1>3. /\ state_[n] = "none" /\ ~registered[n] /\ Closer(n) = {}
      /\ \A o \in Ops : Where(queue, batch, o, n) = {}
  BY <1>0, <1>n DEF Phase, Ops
<1>4. \A c \in Conns : Closer(c)' = Closer(c)
  BY <1>2 DEF Closer
<1>5. /\ Tidy(queue', batch')
      /\ Where(queue', batch', "established", n) = IF l = Base THEN {} ELSE {l}
      /\ \A o \in Ops, c \in Conns : (o # "established" \/ c # n) =>
            Where(queue', batch', o, c) = Where(queue, batch, o, c)
  <2>0. "established" \in Ops /\ Tidy(queue, batch)
    BY <1>0 DEF Ops, Steady
  <2>1. CASE l = Base
    BY <1>2, <1>3, <2>0, <2>1
  <2>2. CASE l # Base
    <3>1. l \notin Where(queue, batch, "established", n)
      BY <1>3, <2>0
    <3> QED
      BY <1>0, <1>1, <1>2, <1>3, <2>0, <2>2, <3>1, PostWhere
  <2> QED
    BY <2>1, <2>2
<1>6. Steady'
  BY <1>0, <1>2, <1>5 DEF Steady, Alive
<1>7. Phase(n)'
  <2>1. /\ loop'[n] = l /\ n \in connections_' /\ ~(n >= next_conn_id_') /\ Closer(n)' = {}
        /\ state_'[n] = IF l = Base THEN "kConnected" ELSE "kConnecting"
        /\ registered'[n] <=> l = Base
    BY <1>0, <1>2, <1>3, <1>4 DEF Typed
  <2>2. Where(queue', batch', "destroyed", n) = {} /\ Where(queue', batch', "remove", n) = {}
    BY <1>0, <1>3, <1>5 DEF Ops
  <2> QED
    BY <1>5, <2>1, <2>2 DEF Phase
<1>8. ASSUME NEW c \in Conns, c # n
      PROVE  Phase(c)'
  <2>1. /\ Phase(c) /\ state_'[c] = state_[c] /\ registered'[c] = registered[c]
        /\ loop'[c] = loop[c] /\ (c \in connections_' <=> c \in connections_)
        /\ \A o \in Ops : Where(queue', batch', o, c) = Where(queue, batch, o, c)
    BY <1>0, <1>2, <1>5, <1>8 DEF Typed, Good
  <2>2. c >= next_conn_id_' <=> c >= next_conn_id_
    BY <1>0, <1>2, <1>8, <1>n
  <2> QED
    BY <1>4, <2>1, <2>2, PhaseFrame
<1> QED
  BY <1>6, <1>7, <1>8

\* remove_connection_in_loop for a connection that is closed and still in the map.
LEMMA RemoveInLoopKeeps ==
    ASSUME Typed, NEW q, NEW b, Tidy(q, b), NEW c \in Conns, c \in connections_, aborted = "no",
           Where(q, b, "destroyed", c) = {},
           remove_connection_in_loop(c), queue' = Post(q, loop[c], "destroyed", c), batch' = b
    PROVE  /\ Tidy(queue', batch') /\ connections_' = connections_ \ {c} /\ aborted' = "no"
           /\ Where(queue', batch', "destroyed", c) = {loop[c]}
           /\ \A o \in Ops, d \in Conns : (o # "destroyed" \/ d # c) =>
                Where(queue', batch', o, d) = Where(q, b, o, d)
<1>1. loop[c] \in Loops /\ "destroyed" \in Ops /\ loop[c] \notin Where(q, b, "destroyed", c)
  BY DEF Typed, Ops
<1>2. /\ Tidy(queue', b) /\ Where(queue', b, "destroyed", c) = Where(q, b, "destroyed", c) \cup {loop[c]}
      /\ \A o \in Ops, d \in Conns : (o # "destroyed" \/ d # c) =>
            Where(queue', b, o, d) = Where(q, b, o, d)
  BY <1>1, PostWhere
<1> QED
  BY <1>2 DEF remove_connection_in_loop

\* The peer closes a connection.
LEMMA HandleCloseKeeps ==
    ASSUME Good, ~EndsWorkers, NEW c \in Conns, handle_close(c)
    PROVE  Steady' /\ \A d \in Conns : Phase(d)'
<1>0. /\ Typed /\ Steady /\ Phase(c) /\ Base \in Loops /\ loop[c] \in Loops
      /\ NoConn \notin Conns /\ c # NoConn
  BY ServerAssumption DEF Good, Typed, Loops, NoConn, Conns
<1>1. /\ registered[c] /\ state_[c] \in {"kConnected", "kDisconnecting"}
      /\ closing[loop[c]] = NoConn /\ pc[loop[c]] \in {"events", "functors"}
      /\ state_' = [state_ EXCEPT ![c] = "kDisconnected"]
      /\ UNCHANGED <<loops_, next_conn_id_, next_, loop, registered, batch, pc, quit_, server>>
  BY DEF handle_close, Running
<1>2. c \in connections_ /\ Closer(c) = {} /\ \A o \in Ops : Where(queue, batch, o, c) = {}
  BY <1>0, <1>1 DEF Phase, Ops
<1>3. loop[c] # Base => server = "alive"
  BY <1>0 DEF Typed, EndsWorkers
<1>4. loop[c] = Base => server = "alive"
  BY <1>0, <1>1, <1>2 DEF Typed, Steady
<1>5. Alive
  BY <1>3, <1>4 DEF Alive
<1>6. CASE loop[c] = Base
  <2>1. remove_connection_in_loop(c) /\ UNCHANGED closing
    BY <1>5, <1>6 DEF handle_close
  <2>2. /\ Tidy(queue', batch') /\ connections_' = connections_ \ {c} /\ aborted' = "no"
        /\ Where(queue', batch', "destroyed", c) = {loop[c]}
        /\ \A o \in Ops, d \in Conns : (o # "destroyed" \/ d # c) =>
              Where(queue', batch', o, d) = Where(queue, batch, o, d)
    <3>1. /\ Tidy(queue, batch) /\ aborted = "no" /\ Where(queue, batch, "destroyed", c) = {}
          /\ queue' = Post(queue, loop[c], "destroyed", c) /\ batch' = batch
      BY <1>0, <1>1, <1>2, <2>1 DEF Steady, Ops, remove_connection_in_loop
    <3> QED
      BY <1>0, <1>2, <2>1, <3>1, RemoveInLoopKeeps
  <2>3. Steady'
    BY <1>0, <1>1, <2>2 DEF Steady
  <2>4. \A d \in Conns : Closer(d)' = Closer(d)
    BY <2>1 DEF Closer
  <2>5. Phase(c)'
    <3>1. /\ state_'[c] = "kDisconnected" /\ registered'[c] /\ c \notin connections_'
          /\ Closer(c)' = {} /\ loop'[c] = loop[c]
      BY <1>0, <1>1, <1>2, <2>2, <2>4 DEF Typed
    <3>2. Where(queue', batch', "established", c) = {} /\ Where(queue', batch', "remove", c) = {}
      BY <1>2, <2>2 DEF Ops
    <3>3. ~(c >= next_conn_id_')
      BY <1>0, <1>1 DEF Phase
    <3> QED
      BY <2>2, <3>1, <3>2, <3>3 DEF Phase
  <2>6. ASSUME NEW d \in Conns, d # c
        PROVE  Phase(d)'
    <3>1. /\ Phase(d) /\ state_'[d] = state_[d] /\ registered'[d] = registered[d]
          /\ loop'[d] = loop[d] /\ (d \in connections_' <=> d \in connections_)
          /\ \A o \in Ops : Where(queue', batch', o, d) = Where(queue, batch, o, d)
          /\ (d >= next_conn_id_' <=> d >= next_conn_id_)
      BY <1>0, <1>1, <2>2, <2>6 DEF Typed, Good
    <3> QED
      BY <2>4, <3>1, PhaseFrame
  <2> QED
    BY <2>3, <2>5, <2>6
<1>7. CASE loop[c] # Base
  <2>1. closing' = [closing EXCEPT ![loop[c]] = c] /\ UNCHANGED <<connections_, queue, aborted>>
    BY <1>5, <1>7 DEF handle_close
  <2>2. /\ \A o \in Ops, d \in Conns : Where(queue', batch', o, d) = Where(queue, batch, o, d)
        /\ Tidy(queue', batch')
    BY <1>0, <1>1, <2>1 DEF Steady
  <2>3. Steady'
    BY <1>0, <1>1, <2>1, <2>2 DEF Steady
  <2>4. Closer(c)' = {loop[c]} /\ \A d \in Conns : d # c => Closer(d)' = Closer(d)
    BY <1>0, <1>1, <1>2, <2>1 DEF Closer, Typed
  <2>5. Phase(c)'
    <3>1. /\ state_'[c] = "kDisconnected" /\ registered'[c] /\ c \in connections_'
          /\ loop'[c] = loop[c]
      BY <1>0, <1>1, <1>2, <2>1 DEF Typed
    <3>2. /\ Where(queue', batch', "established", c) = {} /\ Where(queue', batch', "remove", c) = {}
          /\ Where(queue', batch', "destroyed", c) = {}
      BY <1>2, <2>2 DEF Ops
    <3>3. ~(c >= next_conn_id_')
      BY <1>0, <1>1 DEF Phase
    <3> QED
      BY <1>7, <2>4, <3>1, <3>2, <3>3 DEF Phase
  <2>6. ASSUME NEW d \in Conns, d # c
        PROVE  Phase(d)'
    <3>1. /\ Phase(d) /\ state_'[d] = state_[d] /\ registered'[d] = registered[d]
          /\ loop'[d] = loop[d] /\ (d \in connections_' <=> d \in connections_)
          /\ \A o \in Ops : Where(queue', batch', o, d) = Where(queue, batch, o, d)
          /\ (d >= next_conn_id_' <=> d >= next_conn_id_)
      BY <1>0, <1>1, <2>1, <2>2, <2>6 DEF Typed, Good
    <3> QED
      BY <2>4, <2>6, <3>1, PhaseFrame
  <2> QED
    BY <2>3, <2>5, <2>6
<1> QED
  BY <1>6, <1>7

\* The user shuts a connection down.
LEMMA ShutdownKeeps ==
    ASSUME Good, NEW c \in Conns, shutdown(c)
    PROVE  Steady' /\ \A d \in Conns : Phase(d)'
<1>0. Typed /\ Steady
  BY DEF Good
<1>1. /\ state_[c] = "kConnected" /\ state_' = [state_ EXCEPT ![c] = "kDisconnecting"]
      /\ UNCHANGED <<next_conn_id_, connections_, loop, registered, queue, batch, pc, quit_, closing,
                     server, aborted>>
  BY DEF shutdown, map, exec
<1>2. Steady'
  BY <1>0, <1>1 DEF Steady
<1>3. \A d \in Conns : Closer(d)' = Closer(d)
  BY <1>1 DEF Closer
<1>4. \A d \in Conns, o \in Ops : Where(queue', batch', o, d) = Where(queue, batch, o, d)
  BY <1>1
<1>5. Phase(c)'
  <2>1. Phase(c) /\ state_'[c] = "kDisconnecting"
    BY <1>0, <1>1 DEF Good, Typed
  <2>2. /\ Where(queue', batch', "established", c) = {} /\ Where(queue', batch', "destroyed", c) = {}
        /\ Where(queue', batch', "remove", c) = {}
    BY <1>1, <2>1 DEF Phase
  <2> QED
    BY <1>1, <1>3, <2>1, <2>2 DEF Phase
<1>6. ASSUME NEW d \in Conns, d # c
      PROVE  Phase(d)'
  <2>1. /\ Phase(d) /\ state_'[d] = state_[d] /\ registered'[d] = registered[d]
        /\ loop'[d] = loop[d] /\ (d \in connections_' <=> d \in connections_)
        /\ (d >= next_conn_id_' <=> d >= next_conn_id_)
    BY <1>0, <1>1, <1>6 DEF Typed, Good
  <2> QED
    BY <1>3, <1>4, <2>1, PhaseFrame
<1> QED
  BY <1>2, <1>5, <1>6

\* A step that leaves the connections, the map and what is pending alone.
LEMMA QuietKeeps ==
    ASSUME \A c \in Conns : Phase(c), UNCHANGED <<map, conn, closing>>,
           \A c \in Conns, o \in Ops : Where(queue', batch', o, c) = Where(queue, batch, o, c)
    PROVE  \A c \in Conns : Phase(c)'
<1> SUFFICES ASSUME NEW c \in Conns PROVE Phase(c)'
  OBVIOUS
<1>1. Closer(c)' = Closer(c)
  BY DEF Closer
<1> QED
  BY <1>1, PhaseFrame DEF map, conn

\* remove_connection on a worker: the request is on its way to Base.
LEMMA RemoveConnectionKeeps ==
    ASSUME Good, ~EndsWorkers, NEW l \in Loops, remove_connection(l)
    PROVE  Steady' /\ \A c \in Conns : Phase(c)'
<1>1. PICK c \in Conns : c = closing[l]
  BY DEF remove_connection, Good, Typed
<1>0. Typed /\ Steady /\ Phase(c) /\ Base \in Loops /\ NoConn \notin Conns /\ "remove" \in Ops
  BY ServerAssumption DEF Good, Loops, NoConn, Conns, Ops
<1>2. l \in Closer(c)
  BY <1>1 DEF Closer
<1>3. /\ Closer(c) = {loop[c]} /\ l = loop[c] /\ state_[c] = "kDisconnected" /\ c \in connections_
      /\ loop[c] # Base /\ registered[c]
  BY <1>0, <1>2 DEF Phase
<1>4. \A o \in Ops : Where(queue, batch, o, c) = {}
  BY <1>0, <1>3 DEF Phase, Ops
<1>5. server = "alive"
  BY <1>0, <1>3 DEF Typed, EndsWorkers
<1>6. /\ queue' = Post(queue, Base, "remove", c) /\ closing' = [closing EXCEPT ![l] = NoConn]
      /\ aborted' = aborted /\ UNCHANGED <<loops_, map, conn, batch, pc, quit_, server>>
  BY <1>1, <1>5 DEF remove_connection
<1>7. /\ Tidy(queue', batch) /\ Where(queue', batch, "remove", c) = {Base}
      /\ \A o \in Ops, d \in Conns : (o # "remove" \/ d # c) =>
            Where(queue', batch, o, d) = Where(queue, batch, o, d)
  <2>1. Tidy(queue, batch) /\ Base \notin Where(queue, batch, "remove", c)
    BY <1>0, <1>4 DEF Steady
  <2>2. /\ Tidy(queue', batch) /\ Where(queue', batch, "remove", c) = Where(queue, batch, "remove", c) \cup {Base}
        /\ \A o \in Ops, d \in Conns : (o # "remove" \/ d # c) =>
              Where(queue', batch, o, d) = Where(queue, batch, o, d)
    BY <1>0, <1>6, <2>1, PostWhere
  <2> QED
    BY <1>0, <1>4, <2>2
<1>8. batch' = batch
  BY <1>6
<1>9. Steady'
  BY <1>0, <1>6, <1>7, <1>8 DEF Steady, map
<1>10. Closer(c)' = {} /\ \A d \in Conns : d # c => Closer(d)' = Closer(d)
  BY <1>0, <1>1, <1>3, <1>6 DEF Closer, Typed
<1>11. Phase(c)'
  <2>1. /\ Where(queue', batch', "established", c) = {} /\ Where(queue', batch', "destroyed", c) = {}
        /\ Where(queue', batch', "remove", c) = {Base}
    BY <1>4, <1>7, <1>8 DEF Ops
  <2>2. state_[c] = "none" <=> c >= next_conn_id_
    BY <1>0 DEF Phase
  <2> QED
    BY <1>3, <1>6, <1>10, <2>1, <2>2 DEF Phase, map, conn
<1>12. ASSUME NEW d \in Conns, d # c
       PROVE  Phase(d)'
  <2>1. Phase(d) /\ \A o \in Ops : Where(queue', batch', o, d) = Where(queue, batch, o, d)
    BY <1>7, <1>8, <1>12 DEF Good
  <2> QED
    BY <1>6, <1>10, <1>12, <2>1, PhaseFrame DEF map, conn
<1> QED
  BY <1>9, <1>11, <1>12

\* Swapping the functors out.
LEMMA SwapKeeps ==
    ASSUME Good, ~EndsWorkers, NEW l \in Loops, Swap(l)
    PROVE  Steady' /\ \A c \in Conns : Phase(c)'
<1>0. Typed /\ Steady /\ Tidy(queue, batch)
  BY DEF Good, Steady
<1>1. /\ batch[l] = <<>> /\ batch' = [batch EXCEPT ![l] = queue[l]] /\ queue' = [queue EXCEPT ![l] = <<>>]
      /\ pc' = [pc EXCEPT ![l] = "functors"]
      /\ UNCHANGED <<loops_, map, conn, quit_, closing, server, aborted>>
  BY <1>0 DEF Swap, Steady
<1>2. /\ queue' \in [Loops -> Seq(Functors)] /\ batch' \in [Loops -> Seq(Functors)]
      /\ queue'[l] = <<>> /\ batch'[l] = queue[l]
      /\ \A k \in Loops : k # l => queue'[k] = queue[k] /\ batch'[k] = batch[k]
  BY <1>0, <1>1 DEF Typed
<1>3. Range(<<>>) = {} /\ IsInjective(<<>>)
  BY DEF Range, IsInjective
<1>4. Tidy(queue', batch')
  <2>1. ASSUME NEW k \in Loops
        PROVE  /\ IsInjective(queue'[k]) /\ IsInjective(batch'[k])
               /\ Range(queue'[k]) \cap Range(batch'[k]) = {}
    <3>1. CASE k = l
      BY <1>0, <1>2, <1>3, <3>1 DEF Tidy
    <3>2. CASE k # l
      BY <1>0, <1>2, <3>2 DEF Tidy
    <3> QED
      BY <3>1, <3>2
  <2> QED
    BY <1>2, <2>1 DEF Tidy
<1>5. \A k \in Loops : Pending(queue', batch', k) = Pending(queue, batch, k)
  BY <1>1, <1>2, <1>3 DEF Pending
<1>6. \A c \in Conns, o \in Ops : Where(queue', batch', o, c) = Where(queue, batch, o, c)
  BY <1>5 DEF Where
<1>7. Steady'
  <2>1. \A k \in Loops : pc'[k] = "events" => batch'[k] = <<>>
    BY <1>0, <1>1, <1>2 DEF Steady, Typed
  <2> QED
    BY <1>0, <1>1, <1>4, <2>1 DEF Steady, map
<1> QED
  BY <1>1, <1>6, <1>7, QuietKeeps, Zenon DEF Good

\* The end of an iteration: no loop quits.
LEMMA EndIterationKeeps ==
    ASSUME Good, ~EndsWorkers, NEW l \in Loops, EndIteration(l)
    PROVE  Steady' /\ \A c \in Conns : Phase(c)'
<1>0. Typed /\ Steady
  BY DEF Good
<1>1. /\ batch[l] = <<>> /\ pc' = [pc EXCEPT ![l] = "events"]
      /\ queue' = [queue EXCEPT ![l] = queue[l]]
      /\ UNCHANGED <<loops_, map, conn, batch, quit_, closing, server, aborted>>
  BY <1>0, Zenon DEF EndIteration, Steady
<1>2. queue' = queue
  BY <1>0, <1>1 DEF Typed
<1>3. Steady'
  <2>1. \A k \in Loops : pc'[k] = "events" => batch'[k] = <<>>
    BY <1>0, <1>1 DEF Steady, Typed
  <2> QED
    BY <1>0, <1>1, <1>2, <2>1 DEF Steady, map
<1>4. \A c \in Conns, o \in Ops : Where(queue', batch', o, c) = Where(queue, batch, o, c)
  BY <1>1, <1>2
<1> QED
  BY <1>1, <1>3, <1>4, QuietKeeps, Zenon DEF Good

\* The user lets go of a server without workers: its destructor starts.
LEMMA DropServerKeeps ==
    ASSUME Good, ~EndsWorkers', DropServer, ~EndsWorkers
    PROVE  Steady' /\ \A c \in Conns : Phase(c)'
<1>0. Typed /\ Steady /\ Base \in Loops
  BY DEF Good, Loops
<1>1. loops_ = <<>>
  BY DEF DropServer, EndsWorkers
<1>2. ASSUME NEW l \in Loops PROVE closing[l] = NoConn
  <2> SUFFICES ASSUME NEW c \in Conns, closing[l] = c PROVE FALSE
    BY <1>0 DEF Typed
  <2>1. Closer(c) # {} /\ Phase(c)
    BY DEF Closer, Good
  <2>2. loop[c] # Base
    BY <2>1 DEF Phase
  <2> QED
    BY <1>0, <1>1, <2>2 DEF Typed
<1>3. /\ server' = "dying" /\ pc' = [pc EXCEPT ![Base] = "dtor"]
      /\ UNCHANGED <<loops_, map, conn, queue, batch, quit_, closing, aborted>>
  BY <1>2 DEF DropServer
<1>4. Steady'
  <2>1. \A k \in Loops : pc'[k] = "events" => batch'[k] = <<>>
    BY <1>0, <1>3 DEF Steady, Typed
  <2> QED
    BY <1>0, <1>3, <2>1 DEF Steady, map
<1>5. \A c \in Conns, o \in Ops : Where(queue', batch', o, c) = Where(queue, batch, o, c)
  BY <1>3
<1> QED
  BY <1>3, <1>4, <1>5, QuietKeeps DEF Good

\* The destructor of a server without workers is over.
LEMMA DeadKeeps ==
    ASSUME Good, ~EndsWorkers, Dead
    PROVE  Steady' /\ \A c \in Conns : Phase(c)'
<1>0. Typed /\ Steady /\ Base \in Loops
  BY DEF Good, Loops
<1>1. /\ connections_ = {} /\ server' = "dead" /\ pc' = [pc EXCEPT ![Base] = "functors"]
      /\ UNCHANGED <<loops_, map, conn, queue, batch, quit_, closing, aborted>>
  BY DEF Dead
<1>2. Steady'
  <2>1. \A k \in Loops : pc'[k] = "events" => batch'[k] = <<>>
    BY <1>0, <1>1 DEF Steady, Typed
  <2> QED
    BY <1>0, <1>1, <2>1 DEF Steady, map
<1>3. \A c \in Conns, o \in Ops : Where(queue', batch', o, c) = Where(queue, batch, o, c)
  BY <1>1
<1> QED
  BY <1>1, <1>2, <1>3, QuietKeeps DEF Good

\* One round of ~TcpServer without workers: the connection is established, on Base.
LEMMA DestroyNextKeeps ==
    ASSUME Good, ~EndsWorkers, DestroyNext
    PROVE  MetShutdown' \/ (Steady' /\ \A c \in Conns : Phase(c)')
<1>1. PICK c \in Conns : c \in connections_ /\
        c = CHOOSE x \in connections_ : \A y \in connections_ : x <= y
  BY FirstIs DEF Good, Typed, DestroyNext
<1>0. Typed /\ Steady /\ Phase(c) /\ Base \in Loops
  BY DEF Good, Loops
<1>2. loops_ = <<>> /\ loop[c] = Base
  BY <1>0 DEF Typed, EndsWorkers, DestroyNext
<1>3. state_[c] \in {"kConnected", "kDisconnecting"}
  BY <1>0, <1>1, <1>2 DEF Phase, Typed, States
<1>s. CASE state_[c] = "kDisconnecting"
  <2>1. /\ connections_' = connections_ \ {c} /\ aborted' = "Channel::remove" /\ server' = server
        /\ state_' = [state_ EXCEPT ![c] = state_[c]]
    BY <1>1, <1>2, <1>s DEF DestroyNext, connect_destroyed
  <2>2. state_'[c] = "kDisconnecting" /\ server = "dying"
    BY <1>0, <1>s, <2>1 DEF Typed, DestroyNext
  <2> QED
    BY <2>1, <2>2 DEF MetShutdown
<1> SUFFICES ASSUME state_[c] = "kConnected" PROVE Steady' /\ \A d \in Conns : Phase(d)'
  BY <1>3, <1>s
<1>4. Closer(c) = {} /\ \A o \in Ops : Where(queue, batch, o, c) = {}
  BY <1>0, <1>3 DEF Phase, Ops
<1>5. /\ connections_' = connections_ \ {c}
      /\ state_' = [state_ EXCEPT ![c] = "kDisconnected"] /\ registered' = [registered EXCEPT ![c] = FALSE]
      /\ UNCHANGED <<loops_, next_conn_id_, next_, loop, queue, batch, pc, quit_, closing, server, aborted>>
  BY <1>1, <1>2, <1>3 DEF DestroyNext, connect_destroyed
<1>6. Steady'
  BY <1>0, <1>5 DEF Steady
<1>7. /\ \A d \in Conns, o \in Ops : Where(queue', batch', o, d) = Where(queue, batch, o, d)
      /\ \A d \in Conns : Closer(d)' = Closer(d)
  BY <1>5 DEF Closer
<1>8. Phase(c)'
  <2>1. /\ state_'[c] = "kDisconnected" /\ ~registered'[c] /\ c \notin connections_' /\ Closer(c)' = {}
    BY <1>0, <1>4, <1>5, <1>7 DEF Typed
  <2>2. /\ Where(queue', batch', "established", c) = {} /\ Where(queue', batch', "destroyed", c) = {}
        /\ Where(queue', batch', "remove", c) = {}
    BY <1>4, <1>7 DEF Ops
  <2>3. ~(c >= next_conn_id_')
    BY <1>0, <1>3, <1>5 DEF Phase
  <2> QED
    BY <2>1, <2>2, <2>3 DEF Phase
<1>9. ASSUME NEW d \in Conns, d # c
      PROVE  Phase(d)'
  <2>1. /\ Phase(d) /\ state_'[d] = state_[d] /\ registered'[d] = registered[d] /\ loop'[d] = loop[d]
        /\ (d \in connections_' <=> d \in connections_) /\ (d >= next_conn_id_' <=> d >= next_conn_id_)
    BY <1>0, <1>5, <1>9 DEF Typed, Good
  <2> QED
    BY <1>7, <2>1, PhaseFrame
<1> QED
  BY <1>6, <1>8, <1>9

\* Running a functor: what it finds is what it was queued for.
LEMMA RunFunctorKeeps ==
    ASSUME Good, ~EndsWorkers, NEW l \in Loops, RunFunctor(l)
    PROVE  Steady' /\ \A c \in Conns : Phase(c)'
<1>1. batch[l] # <<>> /\ batch' = [batch EXCEPT ![l] = Tail(batch[l])]
  BY DEF RunFunctor
<1>2. Typed /\ Steady /\ Tidy(queue, batch)
  BY DEF Good, Steady
<1>t. PICK o \in Ops, c \in Conns : Takes(queue, batch, l, batch', o, c)
  BY <1>1, <1>2, TakeWhere, Zenon
<1>3. /\ o = Head(batch[l]).op /\ c = Head(batch[l]).c
      /\ Tidy(queue, batch') /\ l \in Where(queue, batch, o, c)
      /\ Where(queue, batch', o, c) = Where(queue, batch, o, c) \ {l}
      /\ \A m \in Ops, e \in Conns : (m # o \/ e # c) => Where(queue, batch', m, e) = Where(queue, batch, m, e)
      /\ \A k \in Loops : batch[k] = <<>> => batch'[k] = <<>>
  BY <1>t DEF Takes
<1>4. /\ UNCHANGED <<loops_, next_conn_id_, next_, loop, pc, quit_, closing, server>>
      /\ \/ o = "established" /\ connect_established(c) /\ UNCHANGED <<connections_, queue>>
         \/ o = "destroyed" /\ connect_destroyed(c) /\ UNCHANGED <<connections_, queue>>
         \/ o = "remove" /\ Alive /\ remove_connection_in_loop(c) /\ UNCHANGED <<state_, registered>>
         \/ o = "remove" /\ ~Alive
  BY <1>3 DEF RunFunctor
<1>5. Phase(c) /\ loop[c] \in Loops /\ Base \in Loops
  BY <1>2 DEF Good, Typed, Loops
<1>6. \A d \in Conns : Closer(d)' = Closer(d)
  BY <1>4 DEF Closer
<1>7. ASSUME aborted' = "no", Tidy(queue', batch'), connections_' \subseteq connections_
      PROVE  Steady'
  BY <1>2, <1>3, <1>4, <1>7 DEF Steady
<1>8. ASSUME NEW d \in Conns, d # c, state_'[d] = state_[d], registered'[d] = registered[d],
             d \in connections_' <=> d \in connections_,
             \A m \in Ops : Where(queue', batch', m, d) = Where(queue, batch, m, d)
      PROVE  Phase(d)'
  <2>1. /\ Phase(d) /\ loop'[d] = loop[d] /\ Closer(d)' = Closer(d)
        /\ (d >= next_conn_id_' <=> d >= next_conn_id_)
    BY <1>4, <1>6 DEF Good
  <2> QED
    BY <1>8, <2>1, PhaseFrame
<1>9. (state_[c] = "none" <=> c >= next_conn_id_) /\ next_conn_id_' = next_conn_id_ /\ loop'[c] = loop[c]
  BY <1>4, <1>5 DEF Phase
<1>10. CASE o = "established" /\ connect_established(c) /\ UNCHANGED <<connections_, queue>>
  <2>1. state_[c] = "kConnecting" /\ Where(queue, batch, o, c) = {l} /\ c \in connections_ /\ Closer(c) = {}
    BY <1>3, <1>5, <1>10, Zenon DEF Phase
  <2>2. /\ state_' = [state_ EXCEPT ![c] = "kConnected"] /\ registered' = [registered EXCEPT ![c] = TRUE]
        /\ aborted' = "no"
    BY <1>2, <1>10, <2>1 DEF connect_established, Steady
  <2>3. Steady'
    BY <1>3, <1>7, <1>10, <2>2
  <2>4. Phase(c)'
    <3>1. state_'[c] = "kConnected" /\ registered'[c] /\ c \in connections_' /\ Closer(c)' = {}
      BY <1>2, <1>6, <1>10, <2>1, <2>2 DEF Typed
    <3>2. Where(queue, batch, "destroyed", c) = {} /\ Where(queue, batch, "remove", c) = {}
      BY <1>5, <2>1 DEF Phase
    <3>3. /\ Where(queue', batch', "established", c) = {} /\ Where(queue', batch', "destroyed", c) = {}
          /\ Where(queue', batch', "remove", c) = {}
      BY <1>3, <1>10, <2>1, <3>2 DEF Ops
    <3> QED
      BY <1>9, <2>1, <3>1, <3>3 DEF Phase
  <2>5. ASSUME NEW d \in Conns, d # c PROVE Phase(d)'
    BY <1>2, <1>3, <1>8, <1>10, <2>2, <2>5 DEF Typed
  <2> QED
    BY <2>3, <2>4, <2>5
<1>11. CASE o = "destroyed" /\ connect_destroyed(c) /\ UNCHANGED <<connections_, queue>>
  <2>1. /\ state_[c] = "kDisconnected" /\ c \notin connections_ /\ Closer(c) = {}
        /\ Where(queue, batch, o, c) = {l}
    BY <1>3, <1>5, <1>11, Zenon DEF Phase
  <2>2. /\ state_' = [state_ EXCEPT ![c] = "kDisconnected"] /\ registered' = [registered EXCEPT ![c] = FALSE]
        /\ aborted' = aborted
    BY <1>11, <2>1 DEF connect_destroyed
  <2>3. Steady'
    BY <1>2, <1>3, <1>7, <1>11, <2>2 DEF Steady
  <2>4. Phase(c)'
    <3>1. state_'[c] = "kDisconnected" /\ ~registered'[c] /\ c \notin connections_' /\ Closer(c)' = {}
      BY <1>2, <1>6, <1>11, <2>1, <2>2 DEF Typed
    <3>2. Where(queue, batch, "established", c) = {} /\ Where(queue, batch, "remove", c) = {}
      BY <1>5, <2>1 DEF Phase
    <3>3. /\ Where(queue', batch', "established", c) = {} /\ Where(queue', batch', "destroyed", c) = {}
          /\ Where(queue', batch', "remove", c) = {}
      BY <1>3, <1>11, <2>1, <3>2 DEF Ops
    <3> QED
      BY <1>9, <2>1, <3>1, <3>3 DEF Phase
  <2>5. ASSUME NEW d \in Conns, d # c PROVE Phase(d)'
    BY <1>2, <1>3, <1>8, <1>11, <2>2, <2>5 DEF Typed
  <2> QED
    BY <2>3, <2>4, <2>5
<1>12. ASSUME o = "remove"
       PROVE  /\ state_[c] = "kDisconnected" /\ c \in connections_ /\ Closer(c) = {} /\ registered[c]
              /\ Where(queue, batch, o, c) = {l} /\ loop[c] # Base
  BY <1>3, <1>5, <1>12, Zenon DEF Phase
<1>13. CASE o = "remove" /\ Alive /\ remove_connection_in_loop(c) /\ UNCHANGED <<state_, registered>>
  <2>1. Where(queue, batch, "established", c) = {} /\ Where(queue, batch, "destroyed", c) = {}
    BY <1>5, <1>12, <1>13 DEF Phase
  <2>2. /\ Where(queue, batch', "established", c) = {} /\ Where(queue, batch', "destroyed", c) = {}
        /\ Where(queue, batch', "remove", c) = {}
    <3>1. Where(queue, batch', "remove", c) = {}
      BY <1>3, <1>12, <1>13, Zenon
    <3>2. "remove" # "established" /\ "remove" # "destroyed" /\ {"established", "destroyed"} \subseteq Ops
      BY DEF Ops
    <3> QED
      BY <1>3, <1>13, <2>1, <3>1, <3>2, Zenon
  <2>3. /\ Tidy(queue', batch') /\ connections_' = connections_ \ {c} /\ aborted' = "no"
        /\ Where(queue', batch', "destroyed", c) = {loop[c]}
        /\ \A m \in Ops, d \in Conns : (m # "destroyed" \/ d # c) =>
              Where(queue', batch', m, d) = Where(queue, batch', m, d)
    <3>1. aborted = "no" /\ queue' = Post(queue, loop[c], "destroyed", c)
      BY <1>2, <1>13 DEF Steady, remove_connection_in_loop
    <3>2. /\ Typed /\ Tidy(queue, batch') /\ c \in connections_ /\ remove_connection_in_loop(c)
          /\ Where(queue, batch', "destroyed", c) = {}
      BY <1>2, <1>3, <1>12, <1>13, <2>2
    <3> QED
      BY <3>1, <3>2, RemoveInLoopKeeps
  <2>4. Steady'
    BY <1>7, <2>3
  <2>5. Phase(c)'
    <3>1. state_'[c] = "kDisconnected" /\ registered'[c] /\ c \notin connections_' /\ Closer(c)' = {}
      BY <1>6, <1>12, <1>13, <2>3
    <3>2. Where(queue', batch', "established", c) = {} /\ Where(queue', batch', "remove", c) = {}
      BY <2>2, <2>3 DEF Ops
    <3> QED
      BY <1>9, <1>12, <1>13, <2>3, <3>1, <3>2, Zenon DEF Phase
  <2>6. ASSUME NEW d \in Conns, d # c PROVE Phase(d)'
    BY <1>3, <1>8, <1>13, <2>3, <2>6, Zenon
  <2> QED
    BY <2>4, <2>5, <2>6
<1>14. CASE o = "remove" /\ ~Alive
  <2>1. server = "alive"
    BY <1>2, <1>12, <1>14 DEF Typed, EndsWorkers
  <2> QED
    BY <1>14, <2>1 DEF Alive
<1> QED
  BY <1>4, <1>10, <1>11, <1>13, <1>14

\* The inductive step.
LEMMA ServerInvStep == ServerInv /\ [Next]_vars => ServerInv'
<1> SUFFICES ASSUME ServerInv, [Next]_vars PROVE ServerInv'
  OBVIOUS
<1>1. Typed' /\ loops_' = loops_ /\ (EndsWorkers => EndsWorkers')
  BY TypedStep DEF ServerInv
<1> SUFFICES ASSUME ~EndsWorkers' PROVE MetShutdown' \/ (Steady' /\ \A c \in Conns : Phase(c)')
  BY <1>1, Zenon DEF ServerInv, Good
<1>2. ~EndsWorkers
  BY <1>1
<1>m. CASE aborted # "no"
  <2>1. UNCHANGED vars
    BY <1>m DEF Next, new_connection, shutdown, handle_close, remove_connection, Swap, RunFunctor,
                EndIteration, DropServer, DestroyNext, QuitWorker, Dead, Running
  <2>2. MetShutdown
    BY <1>2, <1>m DEF ServerInv, Good, Steady
  <2> QED
    BY <2>1, <2>2 DEF MetShutdown, vars, map, conn
<1> SUFFICES ASSUME aborted = "no" PROVE MetShutdown' \/ (Steady' /\ \A c \in Conns : Phase(c)')
  BY <1>m
<1>g. Good
  BY <1>2 DEF ServerInv, MetShutdown
<1>3. CASE UNCHANGED vars
  <2>1. \A c \in Conns, o \in Ops : Where(queue', batch', o, c) = Where(queue, batch, o, c)
    BY <1>3 DEF vars, exec
  <2>2. Steady'
    BY <1>g, <1>3 DEF vars, exec, map, conn, Good, Steady
  <2> QED
    BY <1>g, <1>3, <2>1, <2>2, QuietKeeps DEF vars, Good
<1>4. CASE QuitWorker
  <2>1. loops_ # <<>> /\ server # "alive"
    BY <1>4 DEF QuitWorker, ServerInv, Typed
  <2> QED
    BY <1>2, <2>1 DEF EndsWorkers
<1> QED
  BY <1>2, <1>g, <1>3, <1>4, NewConnectionKeeps, ShutdownKeeps, HandleCloseKeeps, RemoveConnectionKeeps, SwapKeeps,
     RunFunctorKeeps, EndIterationKeeps, DropServerKeeps, DestroyNextKeeps, DeadKeeps DEF Next

\* In every order of the steps of the loops and of the user's shutdowns, for any number of
\* loops and connections: as long as no worker is being ended, no check of the server or its
\* connections fails, but Channel::remove's where ~TcpServer meets a connection that is being
\* shut down, and a connection that nobody refers to any more is disconnected and unregistered.
THEOREM ServerAlwaysClean == Spec => []ServerClean
<1>1. Init => ServerInv
  BY ServerInvInit
<1>2. ServerInv /\ [Next]_vars => ServerInv'
  BY ServerInvStep
<1>3. ServerInv => ServerClean
  BY ServerInvImplies
<1> QED
  BY <1>1, <1>2, <1>3, PTL DEF Spec

\* And the map of a server that is alive has every connection that is not closed.
THEOREM MapAlwaysComplete == Spec => []MapComplete
<1>1. Init => ServerInv
  BY ServerInvInit
<1>2. ServerInv /\ [Next]_vars => ServerInv'
  BY ServerInvStep
<1>3. ServerInv => MapComplete
  BY ServerInvImplies
<1> QED
  BY <1>1, <1>2, <1>3, PTL DEF Spec
=============================================================================
