-------------------------- MODULE TimerPoolProofs ---------------------------
(***************************************************************************)
(* Proofs that the sets of TimerPool and its timerfd agree, for any number *)
(* of timers, addresses, delays and intervals, and that a timer that has   *)
(* been cancelled stays cancelled when callbacks cancel no timer whose add *)
(* is queued.                                                              *)
(***************************************************************************)
EXTENDS TimerPool, FiniteSetTheorems, TLAPS

\* Every set of natural numbers that is not empty has a least element.
LEMMA LeastNatural ==
    ASSUME NEW T \in SUBSET Nat, T # {}
    PROVE  \E x \in T : \A y \in T : x <= y
<1> DEFINE R == {ss \in Nat \X Nat : ss[1] < ss[2]}
<1>1. IsWellFoundedOn(R, Nat)
  BY NatLessThanWellFounded DEF OpToRel
<1> HIDE DEF R
<1>2. PICK x \in T : \A y \in T : <<y, x>> \notin R
  BY <1>1, WFMin, Zenon
<1>3. \A y \in T : ~(y < x)
  BY <1>2, Zenon DEF R
<1>4. \A y \in T : x <= y
  BY <1>3
<1> QED
  BY <1>4

\* Of a set of timers that is not empty there is an earliest one.
LEMMA EarliestIs ==
    ASSUME NEW ts, ts # {}, ts \subseteq Nat \X Addresses
    PROVE  Earliest(ts) \in ts /\ \A x \in ts : Earliest(ts)[1] <= x[1]
<1> DEFINE T == {x[1] : x \in ts}
<1>1. T \in SUBSET Nat /\ T # {}
  OBVIOUS
<1>2. PICK n \in T : \A m \in T : n <= m
  BY <1>1, LeastNatural, Zenon
<1>3. \E e \in ts : \A x \in ts : e[1] <= x[1]
  BY <1>2
<1> QED
  BY <1>3 DEF Earliest

-----------------------------------------------------------------------------
\* What a Timer, a TimerId and a functor of the pool may be.
TimerRecs == [expired : Nat, interval : Nat, sequence : Int]
TimerIds == Addresses \X Nat
Functors == ({"add"} \X Addresses) \cup ({"cancel"} \X TimerIds)

\* The entry that timers_ and expired_timers have for the timer at a.
Entry(a) == <<heap[a].expired, a>>
\* The timer at a waits to expire, is being called, or is about to be added.
Waits(a) == Entry(a) \in timers_
Called(a) == Entry(a) \in expired_timers \cup expired_done
Adds(a) == \E i \in DOMAIN queue : queue[i] = <<"add", a>>

\* The types, and that a timer has a sequence number that was given out.
Typed ==
    /\ now \in Nat /\ sequence \in 0 .. MaxTimers /\ curr \in Nat /\ timerfd \in Int
    /\ heap \in [Addresses -> TimerRecs]
    /\ \A a \in Addresses : Allocated(a) => heap[a].sequence \in 0 .. sequence - 1
    /\ calling_expired_timers_ \in BOOLEAN
    /\ ~calling_expired_timers_ => expired_timers = {} /\ expired_done = {}
    /\ queue \in Seq(Functors)
    /\ ids \subseteq TimerIds /\ cancelled \subseteq TimerIds
    /\ adding = NoTimer \/ adding \in TimerIds

\* A timer that exists waits to be added, waits to expire or is being called: at most one
\* of the three.
Placed ==
    /\ \A e \in timers_ : e[2] \in Addresses /\ e = Entry(e[2])
    /\ \A e \in expired_timers \cup expired_done : e[2] \in Addresses /\ e = Entry(e[2])
    /\ \A a \in Addresses :
          /\ Waits(a) \/ Called(a) \/ Adds(a) => Allocated(a)
          /\ ~(Waits(a) /\ Called(a)) /\ ~(Waits(a) /\ Adds(a)) /\ ~(Called(a) /\ Adds(a))
    /\ \A i, j \in DOMAIN queue : (queue[i] = queue[j] /\ queue[i][1] = "add") => i = j

\* active_timers_ has the ids of the timers in timers_.
Active ==
    /\ \A a \in Addresses : Waits(a) => Id(a) \in active_timers_
    /\ \A id \in active_timers_ : id[1] \in Addresses /\ Waits(id[1]) /\ id = Id(id[1])

\* The timerfd is armed for the earliest of them, or earlier.
Armed == Idle => \A e \in timers_ : timerfd # Disarmed /\ timerfd <= e[1]

\* The invariant.
PoolInv == Typed /\ Placed /\ Active /\ Armed

\* There are no timers yet.
LEMMA PoolInvInit == Init => PoolInv
<1> SUFFICES ASSUME Init PROVE PoolInv
  OBVIOUS
<1>1. Free \in TimerRecs
  BY DEF Free, TimerRecs
<1>2. \A a \in Addresses : ~Allocated(a) /\ ~Waits(a) /\ ~Called(a) /\ ~Adds(a)
  BY DEF Init, Allocated, Waits, Called, Adds
<1>3. queue \in Seq(Functors)
  BY DEF Init
<1>4. now \in Nat /\ sequence \in 0 .. MaxTimers /\ curr \in Nat /\ timerfd \in Int
  BY TimerAssumption DEF Init, Disarmed
<1>5. heap \in [Addresses -> TimerRecs]
  BY <1>1 DEF Init
<1>6. /\ ids = {} /\ cancelled = {} /\ adding = NoTimer /\ expired_timers = {}
      /\ expired_done = {} /\ calling_expired_timers_ = FALSE
  BY DEF Init
<1>7. Typed
  BY <1>2, <1>3, <1>4, <1>5, <1>6, Zenon DEF Typed
<1> QED
  BY <1>2, <1>7 DEF Init, PoolInv, Placed, Active, Armed

\* What a new Timer is.
LEMMA NewTimerFields ==
    ASSUME NEW d \in Delays, NEW i \in Intervals, Typed
    PROVE  /\ NewTimer(d, i) \in TimerRecs /\ NewTimer(d, i) # Free
           /\ NewTimer(d, i).sequence = sequence /\ NewTimer(d, i).expired = now + d
BY TimerAssumption DEF NewTimer, TimerRecs, Free, Typed

\* What is left of a deleted one, and what update makes of one it starts again.
LEMMA TimerFields ==
    /\ Free \in TimerRecs /\ Free.sequence = -1
    /\ \A r \in TimerRecs : \A e \in Nat :
          /\ [r EXCEPT !.expired = e] \in TimerRecs
          /\ [r EXCEPT !.expired = e].expired = e
          /\ [r EXCEPT !.expired = e].sequence = r.sequence
BY DEF Free, TimerRecs

\* The two sets and the timerfd agree, from the invariant.
LEMMA PoolInvImplies == PoolInv => TimersAgree
<1> SUFFICES ASSUME PoolInv PROVE TimersAgree
  OBVIOUS
<1> USE DEF PoolInv
<1> DEFINE waiting == {e[2] : e \in timers_}
           called == {e[2] : e \in expired_timers \cup expired_done}
<1>1. timers_ \subseteq Nat \X Addresses
  BY DEF Typed, Placed, Entry, TimerRecs
<1>2. \A a : a \in waiting <=> a \in Addresses /\ Waits(a)
  BY DEF Placed, Waits, Entry
<1>3. \A a : a \in called <=> a \in Addresses /\ Called(a)
  BY DEF Placed, Called, Entry
<1>4. active_timers_ = {Id(a) : a \in waiting}
  BY <1>2 DEF Active
<1>5. (\A a \in waiting \cup called : Allocated(a)) /\ waiting \cap called = {}
  BY <1>2, <1>3 DEF Placed
<1>6. Cardinality(timers_) = Cardinality(active_timers_)
  <2> DEFINE f == [e \in timers_ |-> Id(e[2])]
             g == [e \in timers_ |-> e[2]]
  <2>1. g \in Injection(timers_, Addresses)
    BY DEF Placed, Injection, IsInjective, Entry
  <2>2. IsFiniteSet(timers_)
    BY <2>1, FS_Injection, TimerAssumption
  <2>3. f \in [timers_ -> active_timers_]
    BY DEF Active, Placed, Waits
  <2>4. \A x, y \in timers_ : f[x] = f[y] => x = y
    BY DEF Placed, Id, Entry
  <2>5. \A id \in active_timers_ : \E e \in timers_ : f[e] = id
    BY Zenon DEF Active, Waits, Entry
  <2>6. f \in Bijection(timers_, active_timers_)
    BY <2>3, <2>4, <2>5 DEF Bijection, Injection, Surjection, IsInjective
  <2> QED
    BY <2>2, <2>6, FS_Bijection DEF ExistsBijection
<1>7. TypeOK
  BY <1>4, <1>5, <1>6, Zenon DEF TypeOK, Typed
<1>8. ArmedForEarliest
  BY <1>1, EarliestIs DEF ArmedForEarliest, Armed
<1> QED
  BY <1>7, <1>8 DEF TimersAgree

-----------------------------------------------------------------------------
\* An address without a timer is in none of the sets and not in the queue.
LEMMA FreeIsNowhere ==
    ASSUME Placed, NEW a \in Addresses, ~Allocated(a)
    PROVE  /\ \A e \in timers_ \cup expired_timers \cup expired_done : e[2] # a
           /\ \A k \in DOMAIN queue : queue[k] # <<"add", a>>
BY DEF Placed, Waits, Called, Adds

\* The sets hold times and addresses.
LEMMA EntriesTyped ==
    ASSUME PoolInv
    PROVE  timers_ \cup expired_timers \cup expired_done \subseteq Nat \X Addresses
BY DEF PoolInv, Typed, Placed, Entry, TimerRecs

\* ... and the functors' arguments are of their types.
LEMMA QueueTyped ==
    ASSUME Typed
    PROVE  \A k \in DOMAIN queue : /\ queue[k] = <<queue[k][1], queue[k][2]>>
                                   /\ queue[k][1] \in {"add", "cancel"}
                                   /\ queue[k][1] = "add" => queue[k][2] \in Addresses
                                   /\ queue[k][1] = "cancel" => queue[k][2] \in TimerIds
<1>1. \A f \in Functors : /\ f = <<f[1], f[2]>> /\ f[1] \in {"add", "cancel"}
                          /\ f[1] = "add" => f[2] \in Addresses
                          /\ f[1] = "cancel" => f[2] \in TimerIds
  BY DEF Functors
<1>2. \A k \in DOMAIN queue : queue[k] \in Functors
  BY DEF Typed
<1> QED
  BY <1>1, <1>2

\* TimerFD::reset arms the timerfd, or aborts.
LEMMA ResetArms ==
    ASSUME NEW e \in Nat, now \in Nat, timerfd \in Int, reset(e)
    PROVE  /\ timerfd' \in Int
           /\ fault' = "no" => fault = "no" /\ timerfd' = e /\ e # Disarmed
<1>0. timerfd' = e \/ timerfd' = timerfd
  BY Zenon DEF reset
<1>1. timerfd' \in Int
  BY <1>0
<1>2. fault' = "no" => fault = "no"
  BY DEF reset
<1>3. fault' = "no" => timerfd' = e
  BY DEF reset
<1>4. e # Disarmed
  BY DEF Disarmed
<1> QED
  BY <1>1, <1>2, <1>3, <1>4

\* reset for the earliest of ts leaves the timerfd armed for all of ts.
LEMMA ResetEarliestArms ==
    ASSUME NEW ts, ts \subseteq Nat \X Addresses, now \in Nat, timerfd \in Int, reset_earliest(ts)
    PROVE  /\ timerfd' \in Int
           /\ fault' = "no" => fault = "no" /\ \A x \in ts : timerfd' # Disarmed /\ timerfd' <= x[1]
<1>1. CASE ts = {}
  BY <1>1 DEF reset_earliest
<1>2. CASE ts # {}
  <2>1. Earliest(ts) \in ts /\ \A x \in ts : Earliest(ts)[1] <= x[1]
    BY <1>2, EarliestIs
  <2>2. reset(Earliest(ts)[1]) /\ Earliest(ts)[1] \in Nat
    BY <1>2, <2>1 DEF reset_earliest
  <2> QED
    BY <2>1, <2>2, ResetArms
<1> QED
  BY <1>1, <1>2

\* Steps that leave the timers alone: add_timer's return, cancel() in another thread, time.
LEMMA OutsideKeeps ==
    ASSUME PoolInv,
           AddTimerReturns \/ Tick \/ UNCHANGED vars \/ \E id \in ids : CancelTimer(id)
    PROVE  PoolInv'
<1>0. UNCHANGED <<sequence, heap, timers_, active_timers_, timerfd, expired_timers, expired_done,
                  curr, calling_expired_timers_, cancelled>>
  BY Zenon DEF AddTimerReturns, Tick, vars, CancelTimer, pool, batch
<1>1. now' \in Nat /\ ids' \subseteq TimerIds /\ (adding' = NoTimer \/ adding' \in TimerIds)
  <2>0. now \in Nat /\ ids \subseteq TimerIds /\ (adding = NoTimer \/ adding \in TimerIds)
    BY DEF PoolInv, Typed
  <2>1. CASE AddTimerReturns
    BY <2>0, <2>1, Zenon DEF AddTimerReturns
  <2>2. CASE Tick
    BY <2>0, <2>2 DEF Tick
  <2>3. CASE UNCHANGED vars
    BY <2>0, <2>3 DEF vars
  <2>4. ASSUME NEW id \in ids, CancelTimer(id) PROVE <1>1!:
    BY <2>0, <2>4 DEF CancelTimer
  <2> QED
    BY <2>1, <2>2, <2>3, <2>4
<1>2. \/ UNCHANGED queue
      \/ \E id \in TimerIds : queue' = Append(queue, <<"cancel", id>>)
  BY Zenon DEF AddTimerReturns, Tick, vars, CancelTimer, PoolInv, Typed
<1>3. queue' \in Seq(Functors)
  <2>1. \A id \in TimerIds : <<"cancel", id>> \in Functors
    BY DEF Functors
  <2>2. ASSUME NEW id \in TimerIds, queue' = Append(queue, <<"cancel", id>>)
        PROVE  queue' \in Seq(Functors)
    BY <2>1, <2>2 DEF PoolInv, Typed
  <2> QED
    BY <1>2, <2>2 DEF PoolInv, Typed
<1>4. Typed'
  BY <1>0, <1>1, <1>3 DEF PoolInv, Typed, Allocated
<1>5. \A a \in Addresses : /\ Waits(a)' = Waits(a) /\ Called(a)' = Called(a)
                           /\ Allocated(a)' = Allocated(a) /\ Id(a)' = Id(a) /\ Entry(a)' = Entry(a)
  BY <1>0 DEF Waits, Called, Allocated, Id, Entry
<1>6. /\ \A a \in Addresses : Adds(a)' => Adds(a)
      /\ \A i, j \in DOMAIN queue' : (queue'[i] = queue'[j] /\ queue'[i][1] = "add") => i = j
  <2>1. CASE UNCHANGED queue
    BY <2>1 DEF Adds, PoolInv, Placed
  <2>2. ASSUME NEW id \in TimerIds, queue' = Append(queue, <<"cancel", id>>)
        PROVE  <1>6!:
    <3>1. /\ DOMAIN queue' = 1 .. Len(queue) + 1 /\ DOMAIN queue = 1 .. Len(queue)
          /\ \A i \in DOMAIN queue : queue'[i] = queue[i]
          /\ queue'[Len(queue) + 1] = <<"cancel", id>> /\ Len(queue) \in Nat
      BY <2>2 DEF PoolInv, Typed
    <3> QED
      BY <3>1 DEF Adds, PoolInv, Placed
  <2> QED
    BY <1>2, <2>1, <2>2
<1>7. Placed'
  BY <1>0, <1>5, <1>6 DEF PoolInv, Placed
<1>8. Active'
  BY <1>0, <1>5 DEF PoolInv, Active
<1>9. Armed'
  <2>1. fault' = "no" => fault = "no"
    BY DEF AddTimerReturns, Tick, vars, CancelTimer
  <2> QED
    BY <1>0, <2>1 DEF PoolInv, Armed, Idle
<1> QED
  BY <1>4, <1>7, <1>8, <1>9 DEF PoolInv

\* add_timer, in another thread: a timer that waits to be added.
LEMMA AddTimerKeeps ==
    ASSUME PoolInv, NEW a \in Addresses, NEW d \in Delays, NEW i \in Intervals, AddTimer(a, d, i)
    PROVE  PoolInv'
<1>0. /\ ~Allocated(a) /\ sequence < MaxTimers /\ sequence' = sequence + 1
      /\ heap' = [heap EXCEPT ![a] = NewTimer(d, i)]
      /\ queue' = Append(queue, <<"add", a>>)
      /\ adding' = <<a, sequence>>
      /\ UNCHANGED <<now, timers_, active_timers_, timerfd, canceling_timers_, batch, ids,
                   cancelled, fault>>
  BY DEF AddTimer
<1>1. /\ NewTimer(d, i) \in TimerRecs /\ NewTimer(d, i) # Free
      /\ NewTimer(d, i).sequence = sequence /\ sequence \in Nat /\ MaxTimers \in Nat
  BY NewTimerFields, TimerAssumption DEF PoolInv, Typed
<1>2. /\ \A b \in Addresses : b # a => heap'[b] = heap[b]
      /\ heap'[a] = NewTimer(d, i) /\ heap' \in [Addresses -> TimerRecs]
  BY <1>0, <1>1 DEF PoolInv, Typed
<1>3. /\ DOMAIN queue' = 1 .. Len(queue) + 1 /\ DOMAIN queue = 1 .. Len(queue)
      /\ \A k \in DOMAIN queue : queue'[k] = queue[k]
      /\ queue'[Len(queue) + 1] = <<"add", a>> /\ Len(queue) \in Nat
      /\ queue' \in Seq(Functors)
  <2>1. <<"add", a>> \in Functors
    BY DEF Functors
  <2> QED
    BY <1>0, <2>1 DEF PoolInv, Typed
<1>4. Typed'
  BY <1>0, <1>1, <1>2, <1>3 DEF PoolInv, Typed, Allocated, TimerIds, batch
<1>5. /\ \A e \in timers_ \cup expired_timers \cup expired_done : e[2] # a
      /\ \A k \in DOMAIN queue : queue[k] # <<"add", a>>
  BY <1>0, FreeIsNowhere DEF PoolInv
<1>6. /\ ~Waits(a)' /\ ~Called(a)' /\ Allocated(a)'
      /\ \A b \in Addresses : b # a =>
            /\ Waits(b)' = Waits(b) /\ Called(b)' = Called(b) /\ (Adds(b)' <=> Adds(b))
            /\ Allocated(b)' = Allocated(b) /\ Id(b)' = Id(b) /\ Entry(b)' = Entry(b)
  <2>1. ~Waits(a)' /\ ~Called(a)' /\ Allocated(a)'
    BY <1>0, <1>1, <1>2, <1>5 DEF Waits, Called, Allocated, Entry, batch
  <2>2. ASSUME NEW b \in Addresses, b # a
        PROVE  /\ Waits(b)' = Waits(b) /\ Called(b)' = Called(b)
               /\ Allocated(b)' = Allocated(b) /\ Id(b)' = Id(b) /\ Entry(b)' = Entry(b)
    BY <1>0, <1>2, <2>2 DEF Waits, Called, Allocated, Id, Entry, batch
  <2>3. ASSUME NEW b \in Addresses, b # a PROVE Adds(b)' <=> Adds(b)
    <3>1. ASSUME NEW k \in DOMAIN queue', queue'[k] = <<"add", b>> PROVE Adds(b)
      BY <1>3, <2>3, <3>1 DEF Adds
    <3>2. ASSUME NEW k \in DOMAIN queue, queue[k] = <<"add", b>> PROVE Adds(b)'
      BY <1>3, <3>2 DEF Adds
    <3> QED
      BY <3>1, <3>2 DEF Adds
  <2> QED
    BY <2>1, <2>2, <2>3
<1>7. Placed'
  <2>1. \A j, k \in DOMAIN queue' : (queue'[j] = queue'[k] /\ queue'[j][1] = "add") => j = k
    BY <1>3, <1>5 DEF PoolInv, Placed
  <2>2. \A e \in timers_ \cup expired_timers \cup expired_done : e[2] \in Addresses /\ e = Entry(e[2])'
    BY <1>5, <1>6 DEF PoolInv, Placed
  <2> QED
    BY <1>0, <1>6, <2>1, <2>2, Zenon DEF PoolInv, Placed, batch
<1>8. Active'
  <2>1. \A id \in active_timers_ : id[1] \in Addresses /\ id[1] # a /\ Waits(id[1]) /\ id = Id(id[1])
    BY <1>5 DEF PoolInv, Active, Waits, Entry
  <2> QED
    BY <1>0, <1>6, <2>1 DEF PoolInv, Active
<1>9. Armed'
  BY <1>0 DEF PoolInv, Armed, Idle, batch
<1> QED
  BY <1>4, <1>7, <1>8, <1>9 DEF PoolInv

\* The functor that was queued first is taken out of the queue.
LEMMA TailIs ==
    ASSUME PoolInv, queue # <<>>, queue' = Tail(queue)
    PROVE  /\ queue' \in Seq(Functors) /\ Head(queue) = queue[1] /\ 1 \in DOMAIN queue
           /\ \A k \in DOMAIN queue' : k + 1 \in DOMAIN queue /\ queue'[k] = queue[k + 1]
           /\ \A j, k \in DOMAIN queue' : (queue'[j] = queue'[k] /\ queue'[j][1] = "add") => j = k
           /\ \A a \in Addresses : Adds(a)' => Adds(a)
           /\ \A a \in Addresses : queue[1] = <<"add", a>> => Adds(a) /\ ~Adds(a)'
<1>1. queue \in Seq(Functors)
  BY DEF PoolInv, Typed
<1>2. /\ queue' \in Seq(Functors) /\ Head(queue) = queue[1] /\ 1 \in DOMAIN queue
      /\ \A k \in DOMAIN queue' : k \in Nat \ {0} /\ k + 1 \in DOMAIN queue /\ queue'[k] = queue[k + 1]
  BY <1>1
<1>3. \A j, k \in DOMAIN queue : (queue[j] = queue[k] /\ queue[j][1] = "add") => j = k
  BY DEF PoolInv, Placed
<1>4. \A j, k \in DOMAIN queue' : (queue'[j] = queue'[k] /\ queue'[j][1] = "add") => j = k
  BY <1>2, <1>3
<1>5. \A a \in Addresses : Adds(a)' => Adds(a)
  BY <1>2, Zenon DEF Adds
<1>6. ASSUME NEW a \in Addresses, queue[1] = <<"add", a>> PROVE Adds(a) /\ ~Adds(a)'
  <2>1. Adds(a)
    BY <1>2, <1>6 DEF Adds
  <2>2. ASSUME NEW k \in DOMAIN queue', queue'[k] = <<"add", a>> PROVE FALSE
    <3>0. /\ k + 1 \in DOMAIN queue /\ 1 \in DOMAIN queue /\ queue[k + 1] = queue[1]
          /\ queue[1][1] = "add"
      BY <1>2, <1>6, <2>2
    <3>1. k + 1 = 1
      BY <1>3, <3>0
    <3>2. k \in Nat \ {0}
      BY <1>2
    <3> QED
      BY <3>1, <3>2
  <2> QED
    BY <2>1, <2>2 DEF Adds
<1> QED
  BY <1>2, <1>4, <1>5, <1>6

\* What add_timer_in_own_loop does for a timer h at an address that is in none of the sets.
LEMMA AddPlaces ==
    ASSUME PoolInv, NEW a \in Addresses, NEW h \in TimerRecs, h # Free,
           h.sequence \in 0 .. sequence' - 1, sequence' \in {sequence, sequence + 1},
           heap' = [heap EXCEPT ![a] = h],
           \A e \in timers_ \cup expired_timers \cup expired_done : e[2] # a,
           (expired_timers \cup expired_done)' = expired_timers \cup expired_done,
           \A b \in Addresses : Adds(b)' => Adds(b) /\ b # a,
           \A j, k \in DOMAIN queue' : (queue'[j] = queue'[k] /\ queue'[j][1] = "add") => j = k,
           add_timer_in_own_loop(a, h)
    PROVE  /\ heap' \in [Addresses -> TimerRecs]
           /\ \A b \in Addresses : Allocated(b)' => heap'[b].sequence \in 0 .. sequence' - 1
           /\ timerfd' \in Int /\ Placed' /\ Active'
           /\ (fault' = "no" /\ Idle) => \A x \in timers_' : timerfd' # Disarmed /\ timerfd' <= x[1]
<1>0. /\ timers_' = timers_ \cup {<<h.expired, a>>}
      /\ active_timers_' = active_timers_ \cup {<<a, h.sequence>>}
      /\ ResetIfEarliest(a, h.expired)
  BY DEF add_timer_in_own_loop
<1>1. /\ \A b \in Addresses : b # a => heap'[b] = heap[b]
      /\ heap'[a] = h /\ heap' \in [Addresses -> TimerRecs] /\ sequence \in Nat
      /\ h.expired \in Nat /\ h.sequence \in Int /\ now \in Nat /\ timerfd \in Int
  BY DEF PoolInv, Typed, TimerRecs
<1>2. \A b \in Addresses : Allocated(b)' => heap'[b].sequence \in 0 .. sequence' - 1
  BY <1>1 DEF PoolInv, Typed, Allocated
<1>3. /\ Entry(a)' = <<h.expired, a>> /\ Id(a)' = <<a, h.sequence>> /\ Allocated(a)'
      /\ Waits(a)' /\ ~Called(a)' /\ ~Adds(a)'
  BY <1>0, <1>1 DEF Entry, Id, Allocated, Waits, Called
<1>4. ASSUME NEW b \in Addresses, b # a
      PROVE  /\ Entry(b)' = Entry(b) /\ Id(b)' = Id(b) /\ (Allocated(b)' <=> Allocated(b))
             /\ (Waits(b)' <=> Waits(b)) /\ (Called(b)' <=> Called(b))
  BY <1>0, <1>1, <1>4 DEF Entry, Id, Allocated, Waits, Called
<1>5. Placed'
  <2>1. \A e \in timers_' : e[2] \in Addresses /\ e = Entry(e[2])'
    BY <1>0, <1>3, <1>4 DEF PoolInv, Placed
  <2>2. \A e \in (expired_timers \cup expired_done)' : e[2] \in Addresses /\ e = Entry(e[2])'
    BY <1>4 DEF PoolInv, Placed
  <2>3. ASSUME NEW b \in Addresses
        PROVE  /\ Waits(b)' \/ Called(b)' \/ Adds(b)' => Allocated(b)'
               /\ ~(Waits(b)' /\ Called(b)') /\ ~(Waits(b)' /\ Adds(b)') /\ ~(Called(b)' /\ Adds(b)')
    BY <1>3, <1>4 DEF PoolInv, Placed
  <2> QED
    BY <2>1, <2>2, <2>3 DEF Placed
<1>6. Active'
  <2>1. ASSUME NEW id \in active_timers_ PROVE id[1] \in Addresses /\ Waits(id[1])' /\ id = Id(id[1])'
    <3>1. id[1] \in Addresses /\ Waits(id[1]) /\ id = Id(id[1])
      BY DEF PoolInv, Active
    <3>2. id[1] # a
      BY <3>1 DEF Waits, Entry
    <3> QED
      BY <3>1, <3>2, <1>4
  <2>2. \A b \in Addresses : Waits(b)' => Id(b)' \in active_timers_'
    BY <1>0, <1>3, <1>4 DEF PoolInv, Active
  <2>3. ASSUME NEW id \in active_timers_' PROVE id[1] \in Addresses /\ Waits(id[1])' /\ id = Id(id[1])'
    BY <1>0, <1>3, <2>1
  <2> QED
    BY <2>2, <2>3 DEF Active
<1>7. /\ timerfd' \in Int
      /\ (fault' = "no" /\ Idle) => \A x \in timers_' : timerfd' # Disarmed /\ timerfd' <= x[1]
  <2>0. \A x \in timers_ : x[1] \in Nat
    BY EntriesTyped
  <2>1. CASE \A x \in timers_ : x[1] > h.expired
    <3>1. reset(h.expired)
      BY <1>0, <2>1 DEF ResetIfEarliest
    <3>2. timerfd' \in Int /\ (fault' = "no" => timerfd' = h.expired /\ h.expired # Disarmed)
      BY <1>1, <3>1, ResetArms
    <3> QED
      BY <1>0, <1>1, <2>0, <2>1, <3>2
  <2>2. CASE ~\A x \in timers_ : x[1] > h.expired
    <3>1. timerfd' = timerfd
      BY <1>0, <2>2 DEF ResetIfEarliest
    <3>2. Idle => \A x \in timers_ : timerfd # Disarmed /\ timerfd <= x[1]
      BY DEF PoolInv, Armed
    <3>3. PICK y \in timers_ : y[1] <= h.expired
      BY <1>1, <2>0, <2>2
    <3>4. Idle => timerfd # Disarmed /\ timerfd <= h.expired
      BY <1>1, <2>0, <3>2, <3>3
    <3> QED
      BY <1>0, <1>1, <3>1, <3>2, <3>4
  <2> QED
    BY <2>1, <2>2
<1> QED
  BY <1>1, <1>2, <1>5, <1>6, <1>7

\* What cancel_timer_in_own_loop does.
LEMMA CancelPlaces ==
    ASSUME PoolInv, NEW id \in TimerIds, UNCHANGED sequence, cancel_timer_in_own_loop(id),
           (expired_timers \cup expired_done)' = expired_timers \cup expired_done,
           \A b \in Addresses : Adds(b)' => Adds(b),
           \A j, k \in DOMAIN queue' : (queue'[j] = queue'[k] /\ queue'[j][1] = "add") => j = k
    PROVE  /\ heap' \in [Addresses -> TimerRecs]
           /\ \A b \in Addresses : Allocated(b)' => heap'[b].sequence \in 0 .. sequence' - 1
           /\ timerfd' \in Int /\ Placed' /\ Active' /\ cancelled' \subseteq TimerIds
           /\ fault' = "no" => fault = "no" /\ \A x \in timers_' : timerfd' # Disarmed /\ timerfd' <= x[1]
<1>0. timers_' \subseteq timers_ /\ cancelled' = cancelled \cup {id} /\ reset_earliest(timers_')
  BY DEF cancel_timer_in_own_loop
<1>1. cancelled' \subseteq TimerIds /\ now \in Nat /\ timerfd \in Int
  BY <1>0 DEF PoolInv, Typed
<1>2. /\ timerfd' \in Int
      /\ fault' = "no" => fault = "no" /\ \A x \in timers_' : timerfd' # Disarmed /\ timerfd' <= x[1]
  <2>1. timers_' \subseteq Nat \X Addresses
    BY <1>0, EntriesTyped
  <2> QED
    BY <1>0, <1>1, <2>1, ResetEarliestArms
<1>3. CASE id \notin active_timers_
  <2>1. UNCHANGED <<timers_, active_timers_, heap>>
    BY <1>3 DEF cancel_timer_in_own_loop
  <2>2. \A b \in Addresses : /\ Entry(b)' = Entry(b) /\ Id(b)' = Id(b) /\ Allocated(b)' = Allocated(b)
                             /\ Waits(b)' = Waits(b) /\ Called(b)' = Called(b)
    BY <2>1 DEF Entry, Id, Allocated, Waits, Called
  <2>3. Placed'
    BY <2>1, <2>2 DEF PoolInv, Placed
  <2>4. Active'
    BY <2>1, <2>2 DEF PoolInv, Active
  <2> QED
    BY <1>1, <1>2, <2>1, <2>2, <2>3, <2>4 DEF PoolInv, Typed
<1>4. CASE id \in active_timers_
  <2> DEFINE a == id[1]
  <2>0. a \in Addresses /\ Waits(a) /\ id = Id(a)
    BY <1>4 DEF PoolInv, Active
  <2>1. /\ timers_' = timers_ \ {Entry(a)} /\ active_timers_' = active_timers_ \ {Id(a)}
        /\ heap' = [heap EXCEPT ![a] = Free]
    BY <1>4, <2>0 DEF cancel_timer_in_own_loop, Entry
  <2>2. ~Called(a) /\ ~Adds(a)
    BY <2>0 DEF PoolInv, Placed
  <2> HIDE DEF a
  <2>3. /\ \A b \in Addresses : b # a => heap'[b] = heap[b]
        /\ heap'[a] = Free /\ heap' \in [Addresses -> TimerRecs] /\ ~Allocated(a)'
    BY <2>0, <2>1, TimerFields DEF PoolInv, Typed, Allocated
  <2>4. \A b \in Addresses : Allocated(b)' => b # a /\ heap'[b].sequence \in 0 .. sequence' - 1
    BY <2>3 DEF PoolInv, Typed, Allocated
  <2>5. \A e \in timers_' \cup expired_timers \cup expired_done : e[2] # a
    BY <2>0, <2>1, <2>2 DEF PoolInv, Placed, Waits, Called
  <2>6. ASSUME NEW b \in Addresses, b # a
        PROVE  /\ Entry(b)' = Entry(b) /\ Id(b)' = Id(b) /\ (Allocated(b)' <=> Allocated(b))
               /\ (Waits(b)' <=> Waits(b)) /\ (Called(b)' <=> Called(b))
    BY <2>0, <2>1, <2>3, <2>6 DEF Entry, Id, Allocated, Waits, Called
  <2>7. ~Waits(a)' /\ ~Called(a)' /\ ~Adds(a)'
    BY <2>0, <2>2, <2>5 DEF Entry, Waits, Called
  <2>8. Placed'
    <3>1. \A e \in timers_' : e[2] \in Addresses /\ e = Entry(e[2])'
      BY <1>0, <2>5, <2>6 DEF PoolInv, Placed
    <3>2. \A e \in (expired_timers \cup expired_done)' : e[2] \in Addresses /\ e = Entry(e[2])'
      BY <2>5, <2>6 DEF PoolInv, Placed
    <3>3. ASSUME NEW b \in Addresses
          PROVE  /\ Waits(b)' \/ Called(b)' \/ Adds(b)' => Allocated(b)'
                 /\ ~(Waits(b)' /\ Called(b)') /\ ~(Waits(b)' /\ Adds(b)') /\ ~(Called(b)' /\ Adds(b)')
      BY <2>6, <2>7 DEF PoolInv, Placed
    <3> QED
      BY <3>1, <3>2, <3>3 DEF Placed
  <2>9. Active'
    <3>1. \A b \in Addresses : b # a => Id(b) # Id(a)
      BY DEF Id
    <3>2. \A b \in Addresses : Waits(b)' => Id(b)' \in active_timers_'
      BY <2>1, <2>6, <2>7, <3>1 DEF PoolInv, Active
    <3>3. ASSUME NEW i \in active_timers_' PROVE i[1] \in Addresses /\ Waits(i[1])' /\ i = Id(i[1])'
      <4>1. i # Id(a) /\ i[1] \in Addresses /\ Waits(i[1]) /\ i = Id(i[1])
        BY <2>1 DEF PoolInv, Active
      <4> QED
        BY <4>1, <2>6
    <3> QED
      BY <3>2, <3>3 DEF Active
  <2> QED
    BY <1>1, <1>2, <2>3, <2>4, <2>8, <2>9
<1> QED
  BY <1>3, <1>4

\* A functor of another thread: the timer that waited to be added waits to expire, or one
\* is cancelled.
LEMMA RunFunctorKeeps ==
    ASSUME PoolInv, RunFunctor
    PROVE  PoolInv'
<1> DEFINE f == Head(queue)
<1>0. /\ Idle /\ queue # <<>> /\ queue' = Tail(queue)
      /\ UNCHANGED <<now, sequence, batch, adding, ids>>
      /\ \/ /\ f[1] = "add" /\ add_timer_in_own_loop(f[2], heap[f[2]])
            /\ UNCHANGED <<heap, canceling_timers_, cancelled>>
         \/ f[1] = "cancel" /\ cancel_timer_in_own_loop(f[2])
  BY DEF RunFunctor
<1>1. /\ queue' \in Seq(Functors) /\ f = queue[1] /\ 1 \in DOMAIN queue
      /\ \A j, k \in DOMAIN queue' : (queue'[j] = queue'[k] /\ queue'[j][1] = "add") => j = k
      /\ \A a \in Addresses : Adds(a)' => Adds(a)
      /\ \A a \in Addresses : queue[1] = <<"add", a>> => Adds(a) /\ ~Adds(a)'
  BY <1>0, TailIs
<1>2. f = <<f[1], f[2]>> /\ (f[1] = "add" => f[2] \in Addresses) /\ (f[1] = "cancel" => f[2] \in TimerIds)
  BY <1>1, QueueTyped DEF PoolInv
<1>3. /\ (expired_timers \cup expired_done)' = expired_timers \cup expired_done
      /\ UNCHANGED <<expired_timers, expired_done, curr, calling_expired_timers_>>
  BY <1>0 DEF batch
<1>4. ASSUME f[1] = "add", add_timer_in_own_loop(f[2], heap[f[2]]), UNCHANGED <<heap, cancelled>>
      PROVE  PoolInv'
  <2>a. PICK a \in Addresses : a = f[2] /\ queue[1] = <<"add", a>>
    BY <1>1, <1>2, <1>4
  <2>0. Adds(a) /\ ~Adds(a)' /\ sequence \in Nat
    BY <1>1, <2>a DEF PoolInv, Typed
  <2>1. Allocated(a) /\ ~Waits(a) /\ ~Called(a)
    BY <2>0 DEF PoolInv, Placed
  <2>2. /\ heap[a] \in TimerRecs /\ heap[a] # Free /\ heap[a].sequence \in 0 .. sequence' - 1
        /\ heap' = [heap EXCEPT ![a] = heap[a]]
    BY <1>0, <1>4, <2>0, <2>1, Zenon DEF PoolInv, Typed, Allocated
  <2>3. \A e \in timers_ \cup expired_timers \cup expired_done : e[2] # a
    BY <2>1 DEF PoolInv, Placed, Waits, Called
  <2>4. \A b \in Addresses : Adds(b)' => Adds(b) /\ b # a
    BY <1>1, <2>0
  <2>5. add_timer_in_own_loop(a, heap[a])
    BY <1>4, <2>a
  <2> HIDE DEF f
  <2>6. /\ heap' \in [Addresses -> TimerRecs]
        /\ \A b \in Addresses : Allocated(b)' => heap'[b].sequence \in 0 .. sequence' - 1
        /\ timerfd' \in Int /\ Placed' /\ Active'
        /\ (fault' = "no" /\ Idle) => \A x \in timers_' : timerfd' # Disarmed /\ timerfd' <= x[1]
    BY <1>0, <1>1, <1>3, <2>0, <2>2, <2>3, <2>4, <2>5, AddPlaces, Zenon
  <2>7. Typed'
    BY <1>0, <1>1, <1>3, <1>4, <2>6 DEF PoolInv, Typed
  <2>8. Armed'
    BY <1>0, <2>6 DEF Armed, Idle
  <2> QED
    BY <2>6, <2>7, <2>8 DEF PoolInv
<1>5. ASSUME f[1] = "cancel", cancel_timer_in_own_loop(f[2]) PROVE PoolInv'
  <2>1. f[2] \in TimerIds
    BY <1>2, <1>5
  <2> HIDE DEF f
  <2>2. /\ heap' \in [Addresses -> TimerRecs]
        /\ \A b \in Addresses : Allocated(b)' => heap'[b].sequence \in 0 .. sequence' - 1
        /\ timerfd' \in Int /\ Placed' /\ Active' /\ cancelled' \subseteq TimerIds
        /\ fault' = "no" => fault = "no" /\ \A x \in timers_' : timerfd' # Disarmed /\ timerfd' <= x[1]
    BY <1>0, <1>1, <1>3, <1>5, <2>1, CancelPlaces
  <2>3. Typed'
    BY <1>0, <1>1, <1>3, <2>2 DEF PoolInv, Typed
  <2>4. Armed'
    BY <2>2 DEF Armed, Idle
  <2> QED
    BY <2>2, <2>3, <2>4 DEF PoolInv
<1> QED
  BY <1>0, <1>4, <1>5

\* handle_read: the expired timers go over to the ones being called.
LEMMA HandleReadKeeps ==
    ASSUME PoolInv, HandleRead
    PROVE  PoolInv'
<1>0. /\ expired_timers = {} /\ expired_done = {} /\ now \in Nat
      /\ expired_timers' = {e \in timers_ : e[1] <= now} /\ expired_done' = {} /\ curr' = now
      /\ timers_' = timers_ \ expired_timers' /\ timerfd' = Disarmed
      /\ active_timers_' = active_timers_ \ {Id(e[2]) : e \in expired_timers'}
      /\ calling_expired_timers_' = TRUE
      /\ UNCHANGED <<now, sequence, heap, queue, adding, ids, cancelled>>
  BY DEF HandleRead, fill_expired_timers, Idle, PoolInv, Typed
<1>1. timerfd' \in Int
  BY <1>0 DEF Disarmed
<1>2. Typed'
  BY <1>0, <1>1 DEF PoolInv, Typed, Allocated
<1>3. ASSUME NEW b \in Addresses
      PROVE  /\ Entry(b)' = Entry(b) /\ Id(b)' = Id(b) /\ (Allocated(b)' <=> Allocated(b))
             /\ (Adds(b)' <=> Adds(b))
             /\ (Waits(b)' <=> Waits(b) /\ Entry(b) \notin expired_timers')
             /\ (Called(b)' <=> Waits(b) /\ Entry(b) \in expired_timers')
  BY <1>0 DEF Entry, Id, Allocated, Waits, Called, Adds
<1>4. Placed'
  <2>1. \A e \in timers_ : e[2] \in Addresses /\ e = Entry(e[2])'
    BY <1>3 DEF PoolInv, Placed
  <2>2. ASSUME NEW b \in Addresses
        PROVE  /\ Waits(b)' \/ Called(b)' \/ Adds(b)' => Allocated(b)'
               /\ ~(Waits(b)' /\ Called(b)') /\ ~(Waits(b)' /\ Adds(b)') /\ ~(Called(b)' /\ Adds(b)')
    BY <1>3 DEF PoolInv, Placed
  <2>3. \A j, k \in DOMAIN queue' : (queue'[j] = queue'[k] /\ queue'[j][1] = "add") => j = k
    BY <1>0, Zenon DEF PoolInv, Placed
  <2> QED
    BY <1>0, <2>1, <2>2, <2>3 DEF Placed
<1>5. Active'
  <2>1. ASSUME NEW b \in Addresses, Waits(b)' PROVE Id(b)' \in active_timers_'
    <3>1. Id(b) \in active_timers_
      BY <1>3, <2>1 DEF PoolInv, Active
    <3>2. ASSUME NEW e \in expired_timers' PROVE Id(e[2]) # Id(b)
      <4>1. e[2] \in Addresses /\ e = Entry(e[2])
        BY <1>0 DEF PoolInv, Placed
      <4>2. e # Entry(b)
        BY <1>3, <2>1
      <4> QED
        BY <4>1, <4>2 DEF Id
    <3> QED
      BY <1>0, <1>3, <3>1, <3>2
  <2>2. ASSUME NEW id \in active_timers_' PROVE id[1] \in Addresses /\ Waits(id[1])' /\ id = Id(id[1])'
    <3>1. id \in active_timers_ /\ id[1] \in Addresses /\ Waits(id[1]) /\ id = Id(id[1])
      BY <1>0 DEF PoolInv, Active
    <3>2. Entry(id[1]) \in expired_timers' => id \in {Id(e[2]) : e \in expired_timers'}
      BY <3>1 DEF Entry
    <3> QED
      BY <1>0, <1>3, <3>1, <3>2
  <2> QED
    BY <2>1, <2>2 DEF Active
<1>6. Armed'
  BY <1>0 DEF Armed, Idle
<1> QED
  BY <1>2, <1>4, <1>5, <1>6 DEF PoolInv

\* A callback: the timer stays among the ones called, whatever the callback does.
LEMMA RunTimerKeeps ==
    ASSUME PoolInv, RunTimer
    PROVE  PoolInv'
<1> DEFINE e == Earliest(expired_timers)
<1>0. /\ fault = "no" /\ expired_timers # {}
      /\ expired_timers' = expired_timers \ {e} /\ expired_done' = expired_done \cup {e}
      /\ UNCHANGED <<now, curr, calling_expired_timers_, queue, adding>>
  BY DEF RunTimer
<1>1. e \in expired_timers
  <2>1. expired_timers \subseteq Nat \X Addresses
    BY EntriesTyped
  <2> QED
    BY <1>0, <2>1, EarliestIs
<1> HIDE DEF e
<1>2. /\ (expired_timers \cup expired_done)' = expired_timers \cup expired_done
      /\ calling_expired_timers_ = TRUE /\ sequence \in Nat /\ MaxTimers \in Nat
  BY <1>0, <1>1, TimerAssumption DEF PoolInv, Typed
<1>3. /\ \A b \in Addresses : Adds(b)' <=> Adds(b)
      /\ \A j, k \in DOMAIN queue' : (queue'[j] = queue'[k] /\ queue'[j][1] = "add") => j = k
  BY <1>0 DEF Adds, PoolInv, Placed
<1>4. Armed'
  BY <1>0, <1>2 DEF Armed, Idle
<1>5. ASSUME UNCHANGED <<sequence, pool, ids, cancelled>> PROVE PoolInv'
  <2>1. UNCHANGED <<sequence, heap, timers_, active_timers_, timerfd, ids, cancelled>>
    BY <1>5 DEF pool
  <2>2. \A b \in Addresses : /\ Entry(b)' = Entry(b) /\ Id(b)' = Id(b) /\ (Allocated(b)' <=> Allocated(b))
                             /\ (Waits(b)' <=> Waits(b)) /\ (Called(b)' <=> Called(b))
    BY <1>2, <2>1 DEF Entry, Id, Allocated, Waits, Called
  <2>3. Typed'
    BY <1>0, <1>2, <2>1 DEF PoolInv, Typed, Allocated
  <2>4. Placed'
    BY <1>2, <1>3, <2>1, <2>2 DEF PoolInv, Placed
  <2>5. Active'
    BY <2>1, <2>2 DEF PoolInv, Active
  <2> QED
    BY <1>4, <2>3, <2>4, <2>5 DEF PoolInv
<1>6. ASSUME NEW id \in ids, cancel_timer_in_own_loop(id), ids' = ids \ {id}, UNCHANGED sequence
      PROVE  PoolInv'
  <2>1. id \in TimerIds /\ ids' \subseteq TimerIds
    BY <1>6 DEF PoolInv, Typed
  <2>2. /\ heap' \in [Addresses -> TimerRecs]
        /\ \A b \in Addresses : Allocated(b)' => heap'[b].sequence \in 0 .. sequence' - 1
        /\ timerfd' \in Int /\ Placed' /\ Active' /\ cancelled' \subseteq TimerIds
    BY <1>2, <1>3, <1>6, <2>1, CancelPlaces
  <2>3. Typed'
    BY <1>0, <1>2, <1>6, <2>1, <2>2 DEF PoolInv, Typed
  <2> QED
    BY <1>4, <2>2, <2>3 DEF PoolInv
<1>7. ASSUME NEW a \in Addresses, NEW d \in Delays, NEW i \in Intervals,
             ~Allocated(a), sequence < MaxTimers, add_timer_in_own_loop(a, NewTimer(d, i)),
             heap' = [heap EXCEPT ![a] = NewTimer(d, i)], sequence' = sequence + 1,
             ids' = ids \cup {<<a, sequence>>}, UNCHANGED cancelled
      PROVE  PoolInv'
  <2>1. /\ NewTimer(d, i) \in TimerRecs /\ NewTimer(d, i) # Free
        /\ NewTimer(d, i).sequence \in 0 .. sequence' - 1
    BY <1>2, <1>7, NewTimerFields DEF PoolInv
  <2>2. /\ \A x \in timers_ \cup expired_timers \cup expired_done : x[2] # a
        /\ ~Adds(a)
    BY <1>7, FreeIsNowhere DEF PoolInv, Adds
  <2>3. /\ heap' \in [Addresses -> TimerRecs]
        /\ \A b \in Addresses : Allocated(b)' => heap'[b].sequence \in 0 .. sequence' - 1
        /\ timerfd' \in Int /\ Placed' /\ Active'
    BY <1>2, <1>3, <1>7, <2>1, <2>2, AddPlaces, Zenon
  <2>4. ids' \subseteq TimerIds /\ sequence' \in 0 .. MaxTimers
    BY <1>2, <1>7 DEF PoolInv, Typed, TimerIds
  <2>5. Typed'
    BY <1>0, <1>2, <1>7, <2>3, <2>4 DEF PoolInv, Typed
  <2> QED
    BY <1>4, <2>3, <2>5 DEF PoolInv
<1> QED
  BY <1>5, <1>6, <1>7, Zenon DEF RunTimer

\* update: the timers that were called are started again or deleted.
LEMMA UpdateKeeps ==
    ASSUME PoolInv, Update
    PROVE  PoolInv'
<1> DEFINE done == {e[2] : e \in expired_done}
           again == {a \in done : heap[a].interval > 0 /\ Id(a) \notin canceling_timers_}
<1>0. /\ expired_timers = {}
      /\ heap' = [a \in Addresses |->
                     IF a \in again THEN [heap[a] EXCEPT !.expired = curr + heap[a].interval]
                     ELSE IF a \in done THEN Free ELSE heap[a]]
      /\ timers_' = timers_ \cup {<<heap'[a].expired, a>> : a \in again}
      /\ active_timers_' = active_timers_ \cup {Id(a) : a \in again}
      /\ reset_earliest(timers_')
      /\ calling_expired_timers_' = FALSE /\ expired_done' = {}
      /\ UNCHANGED <<now, sequence, canceling_timers_, expired_timers, curr, queue, adding, ids,
                     cancelled>>
  BY DEF Update
<1>1. \A a : a \in done <=> a \in Addresses /\ Called(a)
  BY <1>0, Zenon DEF PoolInv, Placed, Called, Entry
<1>2. again \subseteq done
  OBVIOUS
<1> HIDE DEF done, again
<1>3. ASSUME NEW b \in again
      PROVE  /\ b \in Addresses /\ heap'[b] \in TimerRecs /\ heap'[b] # Free
             /\ heap'[b].sequence = heap[b].sequence /\ heap[b].sequence \in 0 .. sequence - 1
             /\ ~Waits(b) /\ ~Adds(b) /\ ~Called(b)' /\ Entry(b)' \in timers_'
             /\ Id(b)' = Id(b) /\ Id(b) \in active_timers_'
  <2>1. b \in Addresses /\ Called(b) /\ heap[b] \in TimerRecs /\ Allocated(b)
    BY <1>1, <1>2 DEF PoolInv, Placed, Typed
  <2>2. heap[b].sequence \in 0 .. sequence - 1 /\ curr + heap[b].interval \in Nat
    BY <2>1 DEF PoolInv, Typed, TimerRecs
  <2>3. heap'[b] = [heap[b] EXCEPT !.expired = curr + heap[b].interval]
    BY <1>0, <2>1
  <2>4. heap'[b] \in TimerRecs /\ heap'[b].sequence = heap[b].sequence
    BY <2>1, <2>2, <2>3, TimerFields
  <2>5. heap'[b] # Free
    <3>0. sequence \in Nat
      BY DEF PoolInv, Typed
    <3>1. heap'[b].sequence # -1
      BY <2>2, <2>4, <3>0
    <3> QED
      BY <3>1, TimerFields
  <2>6. ~Waits(b) /\ ~Adds(b)
    BY <2>1 DEF PoolInv, Placed
  <2>7. ~Called(b)' /\ Entry(b)' \in timers_' /\ Id(b) \in active_timers_' /\ Id(b)' = Id(b)
    BY <1>0, <2>4 DEF Called, Entry, Id
  <2> QED
    BY <2>1, <2>2, <2>4, <2>5, <2>6, <2>7
<1>4. ASSUME NEW b \in Addresses, b \in done, b \notin again
      PROVE  /\ heap'[b] = Free /\ ~Waits(b) /\ ~Adds(b)
             /\ ~Waits(b)' /\ ~Called(b)'
  <2>1. heap'[b] = Free
    BY <1>0, <1>4
  <2>2. ~Waits(b) /\ ~Adds(b) /\ ~Called(b)'
    BY <1>0, <1>1, <1>4 DEF PoolInv, Placed, Called
  <2>3. \A e \in timers_ : e[2] # b
    BY <2>2 DEF PoolInv, Placed, Waits
  <2>4. \A e \in timers_' : e[2] # b
    BY <1>0, <1>4, <2>3
  <2> QED
    BY <2>1, <2>2, <2>4 DEF Waits, Entry
<1>5. ASSUME NEW b \in Addresses, b \notin done
      PROVE  /\ heap'[b] = heap[b] /\ Entry(b)' = Entry(b) /\ Id(b)' = Id(b)
             /\ (Allocated(b)' <=> Allocated(b)) /\ (Waits(b)' <=> Waits(b)) /\ ~Called(b)'
  <2>1. heap'[b] = heap[b]
    BY <1>0, <1>2, <1>5
  <2>2. Entry(b)' = Entry(b) /\ Id(b)' = Id(b) /\ (Allocated(b)' <=> Allocated(b))
    BY <2>1 DEF Entry, Id, Allocated
  <2>3. Entry(b) \notin {<<heap'[a].expired, a>> : a \in again}
    BY <1>2, <1>5 DEF Entry
  <2>4. Waits(b)' <=> Waits(b)
    BY <1>0, <2>2, <2>3, Zenon DEF Waits
  <2> QED
    BY <1>0, <2>1, <2>2, <2>4 DEF Called
<1>6. /\ heap' \in [Addresses -> TimerRecs]
      /\ \A b \in Addresses : Allocated(b)' => heap'[b].sequence \in 0 .. sequence' - 1
  <2>1. \A b \in Addresses : heap'[b] \in TimerRecs
    BY <1>3, <1>4, <1>5, TimerFields DEF PoolInv, Typed
  <2>2. ASSUME NEW b \in Addresses, Allocated(b)' PROVE heap'[b].sequence \in 0 .. sequence - 1
    BY <1>3, <1>4, <1>5, <2>2, Zenon DEF PoolInv, Typed, Allocated
  <2> QED
    BY <1>0, <2>1, <2>2
<1>7. Placed'
  <2>1. ASSUME NEW e \in timers_' PROVE e[2] \in Addresses /\ e = Entry(e[2])'
    <3>1. CASE e \in timers_
      <4>1. e[2] \in Addresses /\ e = Entry(e[2]) /\ Waits(e[2])
        BY <3>1 DEF PoolInv, Placed, Waits
      <4>2. e[2] \notin done
        BY <1>1, <4>1, Zenon DEF PoolInv, Placed
      <4> QED
        BY <1>5, <4>1, <4>2, Zenon
    <3>2. CASE e \in {<<heap'[a].expired, a>> : a \in again}
      BY <1>3, <3>2 DEF Entry
    <3> QED
      BY <1>0, <3>1, <3>2, Zenon
  <2>2. ASSUME NEW b \in Addresses
        PROVE  /\ Waits(b)' \/ Called(b)' \/ Adds(b)' => Allocated(b)'
               /\ ~(Waits(b)' /\ Called(b)') /\ ~(Waits(b)' /\ Adds(b)') /\ ~(Called(b)' /\ Adds(b)')
    <3>0. Adds(b)' <=> Adds(b)
      BY <1>0 DEF Adds
    <3>1. CASE b \in again
      BY <1>3, <3>0, <3>1 DEF Allocated
    <3>2. CASE b \in done /\ b \notin again
      BY <1>4, <3>0, <3>2
    <3>3. CASE b \notin done
      BY <1>5, <3>0, <3>3 DEF PoolInv, Placed
    <3> QED
      BY <3>1, <3>2, <3>3
  <2>3. \A j, k \in DOMAIN queue' : (queue'[j] = queue'[k] /\ queue'[j][1] = "add") => j = k
    BY <1>0 DEF PoolInv, Placed
  <2> QED
    BY <1>0, <2>1, <2>2, <2>3, Zenon DEF Placed
<1>8. Active'
  <2>1. ASSUME NEW b \in Addresses, Waits(b)' PROVE Id(b)' \in active_timers_'
    <3>1. CASE b \in again
      BY <1>3, <3>1
    <3>2. CASE b \notin done
      BY <1>0, <1>5, <2>1, <3>2, Zenon DEF PoolInv, Active
    <3> QED
      BY <1>4, <2>1, <3>1, <3>2
  <2>2. ASSUME NEW id \in active_timers_' PROVE id[1] \in Addresses /\ Waits(id[1])' /\ id = Id(id[1])'
    <3>1. CASE id \in active_timers_
      <4>1. id[1] \in Addresses /\ Waits(id[1]) /\ id = Id(id[1])
        BY <3>1 DEF PoolInv, Active
      <4>2. id[1] \notin done
        BY <1>1, <4>1 DEF PoolInv, Placed
      <4> QED
        BY <1>5, <4>1, <4>2, Zenon
    <3>2. ASSUME NEW a \in again, id = Id(a)
          PROVE  id[1] \in Addresses /\ Waits(id[1])' /\ id = Id(id[1])'
      <4>1. id[1] = a
        BY <3>2 DEF Id
      <4> QED
        BY <1>3, <3>2, <4>1 DEF Waits
    <3> QED
      BY <1>0, <3>1, <3>2
  <2> QED
    BY <2>1, <2>2 DEF Active
<1>9. /\ timerfd' \in Int
      /\ fault' = "no" => fault = "no" /\ \A x \in timers_' : timerfd' # Disarmed /\ timerfd' <= x[1]
  <2>1. timers_' \subseteq Nat \X Addresses
    BY <1>6, <1>7 DEF Placed, Entry, TimerRecs
  <2> QED
    BY <1>0, <2>1, ResetEarliestArms, Zenon DEF PoolInv, Typed
<1>10. Typed'
  BY <1>0, <1>6, <1>9, Zenon DEF PoolInv, Typed
<1>11. Armed'
  BY <1>9 DEF Armed, Idle
<1> QED
  BY <1>7, <1>8, <1>10, <1>11 DEF PoolInv

\* The inductive step.
LEMMA PoolInvStep == PoolInv /\ [Next]_vars => PoolInv'
BY OutsideKeeps, AddTimerKeeps, RunFunctorKeeps, HandleReadKeeps, RunTimerKeeps, UpdateKeeps DEF Next

\* The two sets of timers agree with each other and with what is allocated, and the one
\* timerfd is armed early enough.
THEOREM TimersAlwaysAgree == Spec => []TimersAgree
<1>1. Init => PoolInv
  BY PoolInvInit
<1>2. PoolInv /\ [Next]_vars => PoolInv'
  BY PoolInvStep
<1>3. PoolInv => TimersAgree
  BY PoolInvImplies
<1> QED
  BY <1>1, <1>2, <1>3, PTL DEF Spec

-----------------------------------------------------------------------------
(* Cancelling.                                                             *)

\* The TimerIds whose sequence numbers have been given out.
Given == Addresses \X (0 .. sequence - 1)

\* A cancelled timer is not waiting; if it is being called, update will not start it
\* again; and it is not about to be added, because the functor that cancels a timer is
\* queued after the one that adds it.
CancelInv ==
    /\ cancelled \subseteq Given /\ ids \subseteq Given /\ (adding = NoTimer \/ adding \in Given)
    /\ active_timers_ \cap cancelled = {}
    /\ \A a \in Addresses : Called(a) /\ Id(a) \in cancelled => Id(a) \in canceling_timers_
    /\ \A a \in Addresses : Adds(a) => Id(a) \notin cancelled
    /\ \A i \in DOMAIN queue : queue[i][1] = "cancel" =>
          /\ queue[i][2] \in Given
          /\ \A j \in DOMAIN queue, a \in Addresses :
                (queue[j] = <<"add", a>> /\ Id(a) = queue[i][2]) => j < i

\* Nothing has been cancelled yet.
LEMMA CancelInvInit == Init => CancelInv
BY DEF Init, CancelInv, Called, Adds

\* Sequence numbers only grow.
LEMMA GivenGrows ==
    ASSUME sequence \in Nat, sequence' \in {sequence, sequence + 1}
    PROVE  Given \subseteq Given' /\ \A a \in Addresses : <<a, sequence>> \notin Given
BY DEF Given

\* Steps that leave the timers alone.
LEMMA CancelOutside ==
    ASSUME PoolInv, CancelInv,
           AddTimerReturns \/ Tick \/ UNCHANGED vars \/ \E id \in ids : CancelTimer(id)
    PROVE  CancelInv'
<1>0. UNCHANGED <<sequence, heap, timers_, active_timers_, canceling_timers_, expired_timers,
                  expired_done, cancelled>>
  BY Zenon DEF AddTimerReturns, Tick, vars, CancelTimer, pool, batch
<1>1. ids' \subseteq Given /\ (adding' = NoTimer \/ adding' \in Given)
  <2>0. ids \subseteq Given /\ (adding = NoTimer \/ adding \in Given)
    BY DEF CancelInv
  <2>1. CASE AddTimerReturns
    BY <2>0, <2>1, Zenon DEF AddTimerReturns
  <2>2. CASE Tick
    BY <2>0, <2>2 DEF Tick
  <2>3. CASE UNCHANGED vars
    BY <2>0, <2>3 DEF vars
  <2>4. ASSUME NEW id \in ids, CancelTimer(id) PROVE <1>1!:
    BY <2>0, <2>4 DEF CancelTimer
  <2> QED
    BY <2>1, <2>2, <2>3, <2>4
<1>2. \/ UNCHANGED queue
      \/ \E id \in ids : queue' = Append(queue, <<"cancel", id>>)
  BY Zenon DEF AddTimerReturns, Tick, vars, CancelTimer
<1>3. /\ \A a \in Addresses : Called(a)' = Called(a) /\ Id(a)' = Id(a)
      /\ Given' = Given
  BY <1>0 DEF Called, Id, Entry, Given
<1>4. /\ \A a \in Addresses : Adds(a)' => Adds(a)
      /\ \A i \in DOMAIN queue' : queue'[i][1] = "cancel" =>
          /\ queue'[i][2] \in Given
          /\ \A j \in DOMAIN queue', a \in Addresses :
                (queue'[j] = <<"add", a>> /\ Id(a) = queue'[i][2]) => j < i
  <2>1. CASE UNCHANGED queue
    BY <2>1 DEF Adds, CancelInv
  <2>2. ASSUME NEW id \in ids, queue' = Append(queue, <<"cancel", id>>)
        PROVE  <1>4!:
    <3>1. /\ DOMAIN queue' = 1 .. Len(queue) + 1 /\ DOMAIN queue = 1 .. Len(queue)
          /\ \A i \in DOMAIN queue : queue'[i] = queue[i]
          /\ queue'[Len(queue) + 1] = <<"cancel", id>> /\ Len(queue) \in Nat
      BY <2>2 DEF PoolInv, Typed
    <3>2. id \in Given
      BY DEF CancelInv
    <3>3. \A a \in Addresses : Adds(a)' => Adds(a)
      BY <3>1 DEF Adds
    <3>4. ASSUME NEW i \in DOMAIN queue', queue'[i][1] = "cancel" PROVE queue'[i][2] \in Given
      BY <3>1, <3>2, <3>4 DEF CancelInv
    <3>5. ASSUME NEW i \in DOMAIN queue', queue'[i][1] = "cancel", NEW j \in DOMAIN queue',
                 NEW a \in Addresses, queue'[j] = <<"add", a>>, Id(a) = queue'[i][2]
          PROVE  j < i
      <4>1. j \in DOMAIN queue /\ queue[j] = <<"add", a>>
        BY <3>1, <3>5
      <4>2. CASE i \in DOMAIN queue
        BY <3>1, <3>5, <4>1, <4>2 DEF CancelInv
      <4>3. CASE i = Len(queue) + 1
        BY <3>1, <4>1, <4>3
      <4> QED
        BY <3>1, <4>2, <4>3
    <3> QED
      BY <3>3, <3>4, <3>5
  <2> QED
    BY <1>2, <2>1, <2>2
<1> QED
  BY <1>0, <1>1, <1>3, <1>4 DEF CancelInv

\* add_timer, in another thread.
LEMMA CancelAddTimer ==
    ASSUME PoolInv, CancelInv, NEW a \in Addresses, NEW d \in Delays, NEW i \in Intervals,
           AddTimer(a, d, i)
    PROVE  CancelInv'
<1>0. /\ ~Allocated(a) /\ sequence' = sequence + 1
      /\ heap' = [heap EXCEPT ![a] = NewTimer(d, i)]
      /\ queue' = Append(queue, <<"add", a>>)
      /\ adding' = <<a, sequence>>
      /\ UNCHANGED <<active_timers_, canceling_timers_, expired_timers, expired_done, ids, cancelled>>
  BY DEF AddTimer, batch
<1>1. /\ DOMAIN queue' = 1 .. Len(queue) + 1 /\ DOMAIN queue = 1 .. Len(queue)
      /\ \A k \in DOMAIN queue : queue'[k] = queue[k]
      /\ queue'[Len(queue) + 1] = <<"add", a>> /\ Len(queue) \in Nat
  BY <1>0 DEF PoolInv, Typed
<1>2. /\ \A e \in timers_ \cup expired_timers \cup expired_done : e[2] # a
      /\ \A k \in DOMAIN queue : queue[k] # <<"add", a>>
  BY <1>0, FreeIsNowhere DEF PoolInv
<1>3. Id(a)' = <<a, sequence>> /\ \A b \in Addresses : b # a => Id(b)' = Id(b) /\ Called(b)' = Called(b)
  BY <1>0, NewTimerFields DEF PoolInv, Typed, Id, Called, Entry
<1>4. sequence \in Nat /\ Given \subseteq Given' /\ <<a, sequence>> \notin Given /\ adding' \in Given'
  BY <1>0, GivenGrows DEF PoolInv, Typed, Given
<1>5. ~Called(a)' /\ \A b \in Addresses : Adds(b)' /\ b # a => Adds(b)
  BY <1>0, <1>1, <1>2 DEF Called, Entry, Adds
<1>6. ASSUME NEW k \in DOMAIN queue', queue'[k][1] = "cancel"
      PROVE  /\ queue'[k][2] \in Given'
             /\ \A j \in DOMAIN queue', b \in Addresses :
                   (queue'[j] = <<"add", b>> /\ Id(b)' = queue'[k][2]) => j < k
  <2>1. k \in DOMAIN queue /\ queue'[k] = queue[k]
    BY <1>1, <1>6
  <2>2. queue[k][2] \in Given
    BY <1>6, <2>1 DEF CancelInv
  <2>3. ASSUME NEW j \in DOMAIN queue', NEW b \in Addresses, queue'[j] = <<"add", b>>,
               Id(b)' = queue'[k][2]
        PROVE  j < k
    <3>1. b # a
      BY <1>3, <1>4, <2>1, <2>2, <2>3
    <3>2. j \in DOMAIN queue /\ queue[j] = <<"add", b>> /\ Id(b) = queue[k][2]
      BY <1>1, <1>3, <2>1, <2>3, <3>1
    <3> QED
      BY <1>6, <2>1, <3>2 DEF CancelInv
  <2> QED
    BY <1>4, <2>1, <2>2, <2>3
<1>7. \A b \in Addresses : Adds(b)' => Id(b)' \notin cancelled
  BY <1>3, <1>4, <1>5 DEF CancelInv
<1>8. \A b \in Addresses : Called(b)' /\ Id(b)' \in cancelled => Id(b)' \in canceling_timers_
  BY <1>3, <1>5 DEF CancelInv
<1> QED
  BY <1>0, <1>4, <1>6, <1>7, <1>8, Zenon DEF CancelInv

\* cancel_timer_in_own_loop, of a timer that is not about to be added.
LEMMA CancelCancels ==
    ASSUME PoolInv, CancelInv, NEW id \in Given, cancel_timer_in_own_loop(id),
           \A b \in Addresses : Adds(b)' => Adds(b) /\ Id(b) # id,
           (expired_timers \cup expired_done)' = expired_timers \cup expired_done
    PROVE  /\ cancelled' = cancelled \cup {id} /\ active_timers_' \cap cancelled' = {}
           /\ \A b \in Addresses : Called(b)' /\ Id(b)' \in cancelled' => Id(b)' \in canceling_timers_'
           /\ \A b \in Addresses : Adds(b)' => Id(b)' = Id(b) /\ Id(b)' \notin cancelled'
<1>0. cancelled' = cancelled \cup {id}
  BY DEF cancel_timer_in_own_loop
<1>1. active_timers_' \cap cancelled' = {}
  BY DEF cancel_timer_in_own_loop, CancelInv
<1>2. CASE id \notin active_timers_
  <2>1. /\ UNCHANGED heap
        /\ canceling_timers_' = IF calling_expired_timers_ THEN canceling_timers_ \cup {id}
                                                            ELSE canceling_timers_
    BY <1>2 DEF cancel_timer_in_own_loop
  <2>2. \A b \in Addresses : Id(b)' = Id(b) /\ (Called(b)' <=> Called(b))
    BY <2>1 DEF Id, Called, Entry
  <2>3. ASSUME NEW b \in Addresses, Called(b)', Id(b)' \in cancelled'
        PROVE  Id(b)' \in canceling_timers_'
    <3>1. calling_expired_timers_ = TRUE
      BY <2>2, <2>3 DEF Called, PoolInv, Typed
    <3> QED
      BY <1>0, <2>1, <2>2, <2>3, <3>1 DEF CancelInv
  <2>4. \A b \in Addresses : Adds(b)' => Id(b)' = Id(b) /\ Id(b)' \notin cancelled'
    BY <1>0, <2>2 DEF CancelInv
  <2> QED
    BY <1>0, <1>1, <2>3, <2>4
<1>3. CASE id \in active_timers_
  <2>0. id[1] \in Addresses /\ Waits(id[1]) /\ id = Id(id[1])
    BY <1>3 DEF PoolInv, Active
  <2>1. heap' = [heap EXCEPT ![id[1]] = Free] /\ UNCHANGED canceling_timers_
    BY <1>3 DEF cancel_timer_in_own_loop
  <2>2. \A e \in expired_timers \cup expired_done : e[2] # id[1]
    BY <2>0 DEF PoolInv, Placed, Called
  <2>3. \A b \in Addresses : b # id[1] => Id(b)' = Id(b) /\ (Called(b)' <=> Called(b))
    BY <2>1 DEF Id, Called, Entry, PoolInv, Typed
  <2>4. ~Called(id[1])' /\ ~Adds(id[1])
    BY <2>0, <2>2, Zenon DEF PoolInv, Placed, Called, Entry
  <2>5. \A b \in Addresses : Called(b)' => b # id[1] /\ Called(b) /\ Id(b)' = Id(b) /\ Id(b) # id
    BY <2>0, <2>3, <2>4 DEF Id
  <2>6. \A b \in Addresses : Called(b)' /\ Id(b)' \in cancelled' => Id(b)' \in canceling_timers_'
    BY <1>0, <2>1, <2>5 DEF CancelInv
  <2>7. \A b \in Addresses : Adds(b)' => Id(b)' = Id(b) /\ Id(b)' \notin cancelled'
    BY <1>0, <2>3, <2>4 DEF CancelInv
  <2> QED
    BY <1>0, <1>1, <2>6, <2>7
<1> QED
  BY <1>2, <1>3

\* A functor of another thread.  The one that cancels a timer finds it added.
LEMMA CancelRunFunctor ==
    ASSUME PoolInv, CancelInv, RunFunctor
    PROVE  CancelInv'
<1> DEFINE f == Head(queue)
<1>0. /\ Idle /\ queue # <<>> /\ queue' = Tail(queue)
      /\ UNCHANGED <<now, sequence, batch, adding, ids>>
      /\ \/ /\ f[1] = "add" /\ add_timer_in_own_loop(f[2], heap[f[2]])
            /\ UNCHANGED <<heap, canceling_timers_, cancelled>>
         \/ f[1] = "cancel" /\ cancel_timer_in_own_loop(f[2])
  BY DEF RunFunctor
<1>1. /\ f = queue[1] /\ 1 \in DOMAIN queue
      /\ \A k \in DOMAIN queue' : k + 1 \in DOMAIN queue /\ queue'[k] = queue[k + 1]
      /\ \A a \in Addresses : Adds(a)' => Adds(a)
  BY <1>0, TailIs
<1>2. DOMAIN queue' \subseteq Nat \ {0}
  BY <1>0 DEF PoolInv, Typed
<1>3. Given' = Given /\ (expired_timers \cup expired_done)' = expired_timers \cup expired_done
  BY <1>0 DEF Given, batch
<1>4. ASSUME NEW i \in DOMAIN queue', queue'[i][1] = "cancel",
             \A a \in Addresses : Adds(a)' => Id(a)' = Id(a)
      PROVE  /\ queue'[i][2] \in Given
             /\ \A j \in DOMAIN queue', a \in Addresses :
                   (queue'[j] = <<"add", a>> /\ Id(a)' = queue'[i][2]) => j < i
  <2>1. i + 1 \in DOMAIN queue /\ queue'[i] = queue[i + 1]
    BY <1>1
  <2>2. queue'[i][2] \in Given
    BY <1>4, <2>1 DEF CancelInv
  <2>3. ASSUME NEW j \in DOMAIN queue', NEW a \in Addresses, queue'[j] = <<"add", a>>,
               Id(a)' = queue'[i][2]
        PROVE  j < i
    <3>1. Id(a)' = Id(a)
      BY <1>4, <2>3 DEF Adds
    <3>2. j + 1 \in DOMAIN queue /\ queue[j + 1] = <<"add", a>> /\ Id(a) = queue[i + 1][2]
      BY <1>1, <2>1, <2>3, <3>1
    <3>3. j + 1 < i + 1
      BY <1>4, <2>1, <3>2 DEF CancelInv
    <3> QED
      BY <1>2, <3>3
  <2> QED
    BY <2>2, <2>3
<1>5. ASSUME f[1] = "add", add_timer_in_own_loop(f[2], heap[f[2]]),
             UNCHANGED <<heap, canceling_timers_, cancelled>>
      PROVE  CancelInv'
  <2>1. PICK a \in Addresses : a = f[2] /\ queue[1] = <<"add", a>>
    BY <1>1, <1>5, QueueTyped DEF PoolInv
  <2>2. Id(a) \notin cancelled
    BY <1>1, <2>1 DEF CancelInv, Adds
  <2>3. active_timers_' = active_timers_ \cup {Id(a)}
    BY <1>5, <2>1 DEF add_timer_in_own_loop, Id
  <2>4. \A b \in Addresses : Id(b)' = Id(b) /\ (Called(b)' <=> Called(b))
    BY <1>3, <1>5 DEF Id, Called, Entry
  <2>5. \A b \in Addresses : Adds(b)' => Id(b)' \notin cancelled
    BY <1>1, <2>4 DEF CancelInv
  <2>6. active_timers_' \cap cancelled' = {}
    BY <1>5, <2>2, <2>3 DEF CancelInv
  <2>7. \A b \in Addresses : Called(b)' /\ Id(b)' \in cancelled' => Id(b)' \in canceling_timers_'
    BY <1>5, <2>4 DEF CancelInv
  <2>8. cancelled' \subseteq Given' /\ ids' \subseteq Given' /\ (adding' = NoTimer \/ adding' \in Given')
    BY <1>0, <1>3, <1>5, Zenon DEF CancelInv
  <2> HIDE DEF f
  <2> QED
    BY <1>3, <1>4, <1>5, <2>4, <2>5, <2>6, <2>7, <2>8, Zenon DEF CancelInv
<1>6. ASSUME f[1] = "cancel", cancel_timer_in_own_loop(f[2])
      PROVE  CancelInv'
  <2>1. PICK id \in Given : id = f[2] /\ queue[1][2] = id /\ queue[1][1] = "cancel"
    BY <1>1, <1>6 DEF CancelInv
  <2>2. ASSUME NEW b \in Addresses, Adds(b)' PROVE Adds(b) /\ Id(b) # id
    <3>1. PICK k \in DOMAIN queue' : queue'[k] = <<"add", b>>
      BY <2>2 DEF Adds
    <3>2. k + 1 \in DOMAIN queue /\ queue[k + 1] = <<"add", b>>
      BY <1>1, <3>1
    <3>3. Id(b) = id => k + 1 < 1
      BY <1>1, <2>1, <3>2 DEF CancelInv
    <3> QED
      BY <1>1, <1>2, <2>2, <3>1, <3>3
  <2>3. cancel_timer_in_own_loop(id)
    BY <1>6, <2>1
  <2> HIDE DEF f
  <2>4. /\ cancelled' = cancelled \cup {id} /\ active_timers_' \cap cancelled' = {}
        /\ \A b \in Addresses : Called(b)' /\ Id(b)' \in cancelled' => Id(b)' \in canceling_timers_'
        /\ \A b \in Addresses : Adds(b)' => Id(b)' = Id(b) /\ Id(b)' \notin cancelled'
    BY <1>3, <2>2, <2>3, CancelCancels
  <2>5. cancelled' \subseteq Given' /\ ids' \subseteq Given' /\ (adding' = NoTimer \/ adding' \in Given')
    BY <1>0, <1>3, <2>4 DEF CancelInv
  <2> QED
    BY <1>3, <1>4, <2>4, <2>5, Zenon DEF CancelInv
<1> QED
  BY <1>0, <1>5, <1>6, Zenon

\* handle_read: none of the timers it is going to call is cancelled.
LEMMA CancelHandleRead ==
    ASSUME PoolInv, CancelInv, HandleRead
    PROVE  CancelInv'
<1>0. /\ expired_timers' \subseteq timers_ /\ expired_done' = {}
      /\ active_timers_' \subseteq active_timers_
      /\ UNCHANGED <<sequence, heap, queue, adding, ids, cancelled>>
  BY DEF HandleRead, fill_expired_timers
<1>1. \A b \in Addresses : Id(b)' = Id(b) /\ Entry(b)' = Entry(b) /\ (Adds(b)' <=> Adds(b))
  BY <1>0 DEF Id, Entry, Adds
<1>2. \A b \in Addresses : Called(b)' => Id(b) \in active_timers_
  BY <1>0, <1>1 DEF Called, PoolInv, Active, Waits
<1>3. Given' = Given
  BY <1>0 DEF Given
<1>4. \A b \in Addresses : Called(b)' => Id(b)' \notin cancelled'
  BY <1>0, <1>1, <1>2 DEF CancelInv
<1>5. active_timers_' \cap cancelled' = {}
  BY <1>0 DEF CancelInv
<1> QED
  BY <1>0, <1>1, <1>3, <1>4, <1>5, Zenon DEF CancelInv

\* A callback: it cancels no timer that is about to be added, and adds new ones only.
LEMMA CancelRunTimer ==
    ASSUME ~Handover, PoolInv, CancelInv, RunTimer
    PROVE  CancelInv'
<1> DEFINE e == Earliest(expired_timers)
<1>0. /\ expired_timers # {}
      /\ expired_timers' = expired_timers \ {e} /\ expired_done' = expired_done \cup {e}
      /\ UNCHANGED <<now, queue, adding>>
  BY DEF RunTimer
<1>1. e \in expired_timers
  <2>1. expired_timers \subseteq Nat \X Addresses
    BY EntriesTyped
  <2> QED
    BY <1>0, <2>1, EarliestIs
<1> HIDE DEF e
<1>2. (expired_timers \cup expired_done)' = expired_timers \cup expired_done /\ sequence \in Nat
  BY <1>0, <1>1 DEF PoolInv, Typed
<1>3. \A b \in Addresses : Adds(b)' <=> Adds(b)
  BY <1>0 DEF Adds
<1>4. ASSUME UNCHANGED <<sequence, pool, canceling_timers_, ids, cancelled>> PROVE CancelInv'
  <2>1. UNCHANGED <<sequence, heap, active_timers_, canceling_timers_, ids, cancelled>>
    BY <1>4 DEF pool
  <2>2. Given' = Given /\ \A b \in Addresses : Id(b)' = Id(b) /\ (Called(b)' <=> Called(b))
    BY <1>2, <2>1 DEF Id, Called, Entry, Given
  <2> QED
    BY <1>0, <1>3, <2>1, <2>2, Zenon DEF CancelInv
<1>5. ASSUME NEW id \in ids, <<"add", id[1]>> \notin Range(queue), cancel_timer_in_own_loop(id),
             ids' = ids \ {id}, UNCHANGED sequence
      PROVE  CancelInv'
  <2>1. id \in Given /\ Given' = Given
    BY <1>5 DEF CancelInv, Given
  <2>2. ASSUME NEW b \in Addresses, Adds(b)' PROVE Adds(b) /\ Id(b) # id
    <3>1. b # id[1]
      BY <1>3, <1>5, <2>2 DEF Adds, Range
    <3> QED
      BY <1>3, <2>2, <3>1 DEF Id
  <2>3. /\ cancelled' = cancelled \cup {id} /\ active_timers_' \cap cancelled' = {}
        /\ \A b \in Addresses : Called(b)' /\ Id(b)' \in cancelled' => Id(b)' \in canceling_timers_'
        /\ \A b \in Addresses : Adds(b)' => Id(b)' = Id(b) /\ Id(b)' \notin cancelled'
    BY <1>2, <1>5, <2>1, <2>2, CancelCancels
  <2>4. cancelled' \subseteq Given' /\ ids' \subseteq Given' /\ (adding' = NoTimer \/ adding' \in Given')
    BY <1>0, <1>5, <2>1, <2>3, Zenon DEF CancelInv
  <2>5. ASSUME NEW i \in DOMAIN queue', queue'[i][1] = "cancel"
        PROVE  /\ queue'[i][2] \in Given'
               /\ \A j \in DOMAIN queue', a \in Addresses :
                     (queue'[j] = <<"add", a>> /\ Id(a)' = queue'[i][2]) => j < i
    BY <1>0, <2>1, <2>3, <2>5 DEF CancelInv, Adds
  <2> QED
    BY <2>3, <2>4, <2>5 DEF CancelInv
<1>6. ASSUME NEW a \in Addresses, NEW d \in Delays, NEW i \in Intervals,
             ~Allocated(a), add_timer_in_own_loop(a, NewTimer(d, i)),
             heap' = [heap EXCEPT ![a] = NewTimer(d, i)], sequence' = sequence + 1,
             ids' = ids \cup {<<a, sequence>>}, UNCHANGED <<canceling_timers_, cancelled>>
      PROVE  CancelInv'
  <2>1. /\ \A x \in timers_ \cup expired_timers \cup expired_done : x[2] # a
        /\ ~Adds(a)
    BY <1>6, FreeIsNowhere DEF PoolInv, Adds
  <2>2. NewTimer(d, i).sequence = sequence
    BY NewTimerFields DEF PoolInv
  <2>3. /\ active_timers_' = active_timers_ \cup {<<a, sequence>>}
        /\ \A b \in Addresses : b # a => Id(b)' = Id(b) /\ (Called(b)' <=> Called(b))
    BY <1>2, <1>6, <2>2 DEF add_timer_in_own_loop, Id, Called, Entry, PoolInv, Typed
  <2>4. Given \subseteq Given' /\ <<a, sequence>> \notin Given /\ <<a, sequence>> \in Given'
    BY <1>2, <1>6, GivenGrows DEF Given
  <2>5. ~Called(a)'
    BY <1>2, <2>1 DEF Called, Entry
  <2>6. active_timers_' \cap cancelled' = {}
    BY <1>6, <2>3, <2>4, Zenon DEF CancelInv
  <2>7. \A b \in Addresses : Called(b)' /\ Id(b)' \in cancelled' => Id(b)' \in canceling_timers_'
    BY <1>6, <2>3, <2>5 DEF CancelInv
  <2>8. \A b \in Addresses : Adds(b)' => b # a /\ Id(b)' = Id(b) /\ Id(b)' \notin cancelled'
    BY <1>3, <1>6, <2>1, <2>3, Zenon DEF CancelInv
  <2>9. cancelled' \subseteq Given' /\ ids' \subseteq Given' /\ (adding' = NoTimer \/ adding' \in Given')
    BY <1>0, <1>6, <2>4, Zenon DEF CancelInv
  <2>10. ASSUME NEW k \in DOMAIN queue', queue'[k][1] = "cancel"
        PROVE  /\ queue'[k][2] \in Given'
               /\ \A j \in DOMAIN queue', b \in Addresses :
                     (queue'[j] = <<"add", b>> /\ Id(b)' = queue'[k][2]) => j < k
    BY <1>0, <2>4, <2>8, <2>10 DEF CancelInv, Adds
  <2> QED
    BY <2>6, <2>7, <2>8, <2>9, <2>10, Zenon DEF CancelInv
<1> QED
  BY <1>4, <1>5, <1>6, Zenon DEF RunTimer

\* update: a timer that was cancelled while it was called is not started again.
LEMMA CancelUpdate ==
    ASSUME PoolInv, CancelInv, Update
    PROVE  CancelInv'
<1> DEFINE done == {e[2] : e \in expired_done}
           again == {a \in done : heap[a].interval > 0 /\ Id(a) \notin canceling_timers_}
<1>0. /\ expired_timers' = {} /\ expired_done' = {} /\ expired_timers = {}
      /\ heap' = [a \in Addresses |->
                     IF a \in again THEN [heap[a] EXCEPT !.expired = curr + heap[a].interval]
                     ELSE IF a \in done THEN Free ELSE heap[a]]
      /\ active_timers_' = active_timers_ \cup {Id(a) : a \in again}
      /\ UNCHANGED <<sequence, queue, adding, ids, cancelled>>
  BY DEF Update
<1>1. \A a : a \in done <=> a \in Addresses /\ Called(a)
  BY <1>0, Zenon DEF PoolInv, Placed, Called, Entry
<1>2. \A a \in again : a \in Addresses /\ Called(a) /\ Id(a) \notin canceling_timers_
  BY <1>1
<1>3. again \subseteq done
  OBVIOUS
<1> HIDE DEF done, again
<1>4. active_timers_' \cap cancelled' = {}
  BY <1>0, <1>2 DEF CancelInv
<1>5. \A b \in Addresses : ~Called(b)' /\ (Adds(b)' <=> Adds(b))
  BY <1>0 DEF Called, Adds
<1>6. \A b \in Addresses : Adds(b) => b \notin done
  BY <1>1 DEF PoolInv, Placed
<1>7. \A b \in Addresses : Adds(b) => Id(b)' = Id(b)
  BY <1>0, <1>3, <1>6 DEF Id
<1>8. Given' = Given
  BY <1>0 DEF Given
<1>9. ASSUME NEW k \in DOMAIN queue', queue'[k][1] = "cancel"
      PROVE  /\ queue'[k][2] \in Given'
             /\ \A j \in DOMAIN queue', b \in Addresses :
                   (queue'[j] = <<"add", b>> /\ Id(b)' = queue'[k][2]) => j < k
  BY <1>0, <1>7, <1>8, <1>9 DEF CancelInv, Adds
<1> QED
  BY <1>0, <1>4, <1>5, <1>7, <1>8, <1>9 DEF CancelInv

\* Once the callbacks of a pass are done a cancelled timer is not waiting again, if no
\* callback cancels a timer that another thread is still adding.
THEOREM CancelAlwaysStops == ~Handover => (Spec => []CancelStops)
<1> SUFFICES ASSUME ~Handover PROVE Spec => []CancelStops
  OBVIOUS
<1>1. Init => PoolInv /\ CancelInv
  BY PoolInvInit, CancelInvInit
<1>2. PoolInv /\ CancelInv /\ [Next]_vars => PoolInv' /\ CancelInv'
  BY PoolInvStep, CancelOutside, CancelAddTimer, CancelRunFunctor, CancelHandleRead,
     CancelRunTimer, CancelUpdate DEF Next
<1>3. CancelInv => CancelStops
  BY DEF CancelInv, CancelStops
<1> QED
  BY <1>1, <1>2, <1>3, PTL DEF Spec
=============================================================================
