-------------------------- MODULE ThreadPoolProofs --------------------------
(***************************************************************************)
(* Proofs about the ThreadPool, for any workers, producers, tasks, bounds  *)
(* and repeat counts.                                                      *)
(***************************************************************************)
EXTENDS ThreadPool, FiniteSetTheorems, TLAPS

-----------------------------------------------------------------------------
(* The invariant.                                                          *)

\* A callback: a task or the null one.
Callbacks == Tasks \cup {Quit}

\* What producers are in.
JobMaps == [Producers -> [cb : Callbacks, left : Nat]]

\* The fields have their types.
PoolTyped ==
    /\ running_ \in BOOLEAN /\ thread_main_cbs_ \in Seq(Callbacks)
    /\ tp_empty_cv_ \in SUBSET Workers /\ tp_full_cv_ \in SUBSET Producers
    /\ pc \in [Workers -> {"none", "while", "locked", "run", "exited"}]
    /\ task \in [Workers -> Callbacks]
    /\ job \in JobMaps
    /\ phase \in {"new", "running", "joining", "stopping", "joined", "stopped"}
    /\ accepted \in [Tasks -> Nat] /\ ran \in [Tasks -> Nat]

\* Where the threads are in the pool's life.
PoolPhased ==
    /\ running_ <=> phase \in {"running", "joining"}
    /\ phase \in {"joined", "stopped"} => \A w \in Workers : pc[w] = "exited"
    /\ phase = "new" => \A w \in Workers : pc[w] = "none"
    /\ phase \in {"new", "joined", "stopped"} => thread_main_cbs_ = <<>>
    /\ phase \notin {"running", "joining"} => \A p \in Producers : job[p].left = 0
    /\ phase = "running" => \A p \in Producers : job[p].left > 0 => job[p].cb \in Tasks
    /\ phase = "joining" => /\ job[Main].cb = Quit
                            /\ \A p \in Producers \ {Main} : job[p].left = 0

\* Who sleeps has a reason to.
PoolSleepers ==
    /\ \A w \in tp_empty_cv_ : pc[w] = "locked"
    /\ \A p \in tp_full_cv_ : job[p].left > 0

\* The queue keeps its bound; the last null callback is behind everything else.
PoolQueued ==
    /\ max_task_size_ > 0 => Len(thread_main_cbs_) <= max_task_size_
    /\ (phase = "joining" /\ job[Main].left = 0 /\ thread_main_cbs_ # <<>>) =>
            thread_main_cbs_[Len(thread_main_cbs_)] = Quit

\* Where the copies of a callback are: in a queue, with a worker, still to be pushed.
Queued(s, t) == {k \in DOMAIN s : s[k] = t}
Held(c, k, t) == {w \in Workers : c[w] = "run" /\ k[w] = t}
Owed(j, t) == {x \in Producers \X Nat : j[x[1]].cb = t /\ x[2] \in 1 .. j[x[1]].left}

\* k, if the two are the same.
Times(k, x, y) == IF x = y THEN k ELSE 0

\* The workers that have left loop().
Exited(c) == {w \in Workers : c[w] = "exited"}

\* How many there are.
Copies(s, c, k, j, t) ==
    Cardinality(Queued(s, t)) + Cardinality(Held(c, k, t)) + Cardinality(Owed(j, t))

\* Every copy of a task that was accepted has run or is somewhere; every worker that has
\* left had its null callback.
PoolBalanced ==
    LET copies(t) == Copies(thread_main_cbs_, pc, task, job, t)
    IN  /\ \A t \in Callbacks : IsFiniteSet(Owed(job, t))
        /\ phase # "stopped" => \A t \in Tasks : accepted[t] = ran[t] + copies(t)
        /\ phase = "stopped" => \A t \in Tasks : ran[t] <= accepted[t]
        /\ phase = "running" => copies(Quit) + Cardinality(Exited(pc)) = 0
        /\ phase = "joining" => copies(Quit) + Cardinality(Exited(pc)) = Cardinality(Workers)

\* All of it.
PoolInv == PoolTyped /\ PoolPhased /\ PoolSleepers /\ PoolQueued /\ PoolBalanced

\* No call of run_task has more to push than the queue holds.
BatchesFit == max_task_size_ > 0 => \A n \in Repeats : n <= max_task_size_

\* Then a queue that is not empty has a worker awake.
PoolAwake ==
    phase = "running" =>
        /\ thread_main_cbs_ # <<>> => tp_empty_cv_ # Workers
        /\ max_task_size_ > 0 => \A p \in Producers : job[p].left <= max_task_size_

-----------------------------------------------------------------------------
(* Counting.                                                               *)

\* None or k of them.
LEMMA TimesNat ==
    ASSUME NEW k \in Nat, NEW x, NEW y
    PROVE  Times(k, x, y) \in Nat
<1> QED
  BY DEF Times

\* The places of a callback in a queue are finitely many.
LEMMA QueuedFinite ==
    ASSUME NEW s \in Seq(Callbacks), NEW t
    PROVE  IsFiniteSet(Queued(s, t)) /\ Cardinality(Queued(s, t)) \in Nat
<1>1. IsFiniteSet(1 .. Len(s))
  BY FS_Interval
<1>2. Queued(s, t) \in SUBSET (1 .. Len(s))
  BY DEF Queued
<1> QED
  BY <1>1, <1>2, FS_Subset, FS_CardinalityType

\* Two sets that have nothing in common add up.
LEMMA DisjointUnion ==
    ASSUME NEW S, NEW T, IsFiniteSet(S), IsFiniteSet(T), S \cap T = {}
    PROVE  IsFiniteSet(S \cup T) /\ Cardinality(S \cup T) = Cardinality(S) + Cardinality(T)
<1>1. Cardinality(S \cap T) = 0
  BY FS_EmptySet
<1>2. Cardinality(S) \in Nat /\ Cardinality(T) \in Nat
  BY FS_CardinalityType
<1>3. /\ IsFiniteSet(S \cup T)
      /\ Cardinality(S \cup T) = Cardinality(S) + Cardinality(T) - Cardinality(S \cap T)
  BY FS_Union, Zenon
<1> QED
  BY <1>1, <1>2, <1>3, SMT

\* The size of an interval.
LEMMA IntervalSize ==
    ASSUME NEW a \in Nat, NEW k \in Nat
    PROVE  IsFiniteSet((a + 1) .. (a + k)) /\ Cardinality((a + 1) .. (a + k)) = k
<1>1. a + 1 \in Int /\ a + k \in Int
  OBVIOUS
<1>2. /\ IsFiniteSet((a + 1) .. (a + k))
      /\ Cardinality((a + 1) .. (a + k)) = IF a + 1 > a + k THEN 0 ELSE (a + k) - (a + 1) + 1
  BY <1>1, FS_Interval
<1> QED
  BY <1>2

\* A queue after k pushes of a callback.
Pushed(s, c, k, u) == u = s \o [i \in 1 .. k |-> c]

\* It is k longer, and what is new is at its end.
LEMMA PushedLonger ==
    ASSUME NEW s \in Seq(Callbacks), NEW k \in Nat, NEW c \in Callbacks, NEW u, Pushed(s, c, k, u)
    PROVE  /\ u \in Seq(Callbacks) /\ Len(u) = Len(s) + k
           /\ \A i \in 1 .. Len(u) : u[i] = IF i <= Len(s) THEN s[i] ELSE c
<1> DEFINE r == [i \in 1 .. k |-> c]
<1>1. r \in Seq(Callbacks) /\ Len(r) = k /\ \A i \in 1 .. k : r[i] = c
  OBVIOUS
<1>2. u = s \o r
  BY DEF Pushed
<1> HIDE DEF r
<1>3. u \in Seq(Callbacks) /\ Len(u) = Len(s) + k
  <2>1. s \o r \in Seq(Callbacks) /\ Len(s \o r) = Len(s) + Len(r)
    BY <1>1
  <2> QED
    BY <1>1, <1>2, <2>1
<1>4. ASSUME NEW i \in 1 .. Len(u) PROVE u[i] = IF i <= Len(s) THEN s[i] ELSE c
  <2>1. i \in 1 .. (Len(s) + Len(r)) /\ Len(s) \in Nat
    BY <1>1, <1>3
  <2>2. u[i] = IF i <= Len(s) THEN s[i] ELSE r[i - Len(s)]
    BY <1>1, <1>2, <2>1
  <2> QED
    BY <1>1, <2>1, <2>2
<1> QED
  BY <1>3, <1>4

\* k copies pushed are k more places.
LEMMA QueuedPush ==
    ASSUME NEW s \in Seq(Callbacks), NEW k \in Nat, NEW c \in Callbacks, NEW t,
           NEW u, Pushed(s, c, k, u)
    PROVE  Cardinality(Queued(u, t)) = Cardinality(Queued(s, t)) + Times(k, t, c)
<1>1. u \in Seq(Callbacks) /\ Len(u) = Len(s) + k
  BY PushedLonger
<1>2. \A i \in 1 .. Len(u) : u[i] = IF i <= Len(s) THEN s[i] ELSE c
  BY PushedLonger
<1>3. CASE t = c
  <2>1. Queued(u, t) = Queued(s, t) \cup ((Len(s) + 1) .. (Len(s) + k))
    BY <1>1, <1>2, <1>3 DEF Queued
  <2>2. Queued(s, t) \cap ((Len(s) + 1) .. (Len(s) + k)) = {}
    BY DEF Queued
  <2>3. /\ IsFiniteSet((Len(s) + 1) .. (Len(s) + k))
        /\ Cardinality((Len(s) + 1) .. (Len(s) + k)) = k
    BY IntervalSize
  <2>4. Cardinality(Queued(s, t) \cup ((Len(s) + 1) .. (Len(s) + k))) = Cardinality(Queued(s, t)) + k
    BY <2>2, <2>3, QueuedFinite, DisjointUnion, Zenon
  <2> QED
    BY <1>3, <2>1, <2>4 DEF Times
<1>4. CASE t # c
  <2>1. Queued(u, t) = Queued(s, t)
    BY <1>1, <1>2, <1>4 DEF Queued
  <2> QED
    BY <1>4, <2>1, QueuedFinite DEF Times
<1> QED
  BY <1>3, <1>4

\* Taking the head is one place less for what it was.
LEMMA QueuedTake ==
    ASSUME NEW s \in Seq(Callbacks), s # <<>>, NEW t, NEW u, u = Tail(s)
    PROVE  /\ u \in Seq(Callbacks) /\ Len(u) = Len(s) - 1
           /\ u # <<>> => u[Len(u)] = s[Len(s)]
           /\ Cardinality(Queued(s, t)) = Cardinality(Queued(u, t)) + Times(1, t, Head(s))
<1>1. u \in Seq(Callbacks) /\ Len(u) = Len(s) - 1 /\ Len(s) \in Nat \ {0} /\ Head(s) = s[1]
  OBVIOUS
<1>2. \A i \in 1 .. Len(u) : u[i] = s[i + 1]
  BY <1>1
<1>3. u # <<>> => u[Len(u)] = s[Len(s)]
  BY <1>1, <1>2
<1> DEFINE R == Queued(s, t) \ {1}
           f == [i \in R |-> i - 1]
<1>4. f \in Bijection(R, Queued(u, t))
  <2>1. \A i \in R : i \in Int /\ f[i] = i - 1 /\ i - 1 \in Queued(u, t)
    BY <1>1, <1>2 DEF Queued
  <2>2. f \in [R -> Queued(u, t)]
    BY <2>1
  <2>3. \A i, j \in R : f[i] = f[j] => i = j
    BY <2>1
  <2>4. \A y \in Queued(u, t) : y + 1 \in R /\ f[y + 1] = y
    BY <1>1, <1>2 DEF Queued
  <2> HIDE DEF f
  <2> QED
    BY <2>2, <2>3, <2>4 DEF Bijection, Injection, IsInjective, Surjection
<1>5. IsFiniteSet(Queued(s, t)) /\ Cardinality(Queued(s, t)) \in Nat
  BY QueuedFinite
<1>6. /\ IsFiniteSet(R)
      /\ Cardinality(R) = IF 1 \in Queued(s, t) THEN Cardinality(Queued(s, t)) - 1
                                                ELSE Cardinality(Queued(s, t))
  BY <1>5, FS_RemoveElement
<1>7. Cardinality(Queued(u, t)) = Cardinality(R)
  BY <1>4, <1>6, FS_Bijection DEF ExistsBijection
<1>8. 1 \in Queued(s, t) <=> t = Head(s)
  BY <1>1 DEF Queued
<1> QED
  BY <1>1, <1>3, <1>5, <1>6, <1>7, <1>8 DEF Times

\* Producer p has k more to push than before, of the same callback or of a new one.
MoreFor(j, i, p, k) ==
    /\ \A q \in Producers \ {p} : i[q] = j[q]
    /\ i[p].left = j[p].left + k
    /\ j[p].left = 0 \/ j[p].cb = i[p].cb

\* k more pushes owed are k more pairs.
LEMMA OwedMore ==
    ASSUME NEW j \in JobMaps,
           NEW i \in JobMaps,
           NEW p \in Producers, NEW k \in Nat, NEW t,
           MoreFor(j, i, p, k),
           IsFiniteSet(Owed(j, t)) \/ IsFiniteSet(Owed(i, t))
    PROVE  /\ IsFiniteSet(Owed(i, t)) /\ IsFiniteSet(Owed(j, t))
           /\ Cardinality(Owed(i, t)) = Cardinality(Owed(j, t)) + Times(k, t, i[p].cb)
<1> DEFINE a == j[p].left
           N == (a + 1) .. (a + k)
           D == {p} \X N
           f == [n \in N |-> <<p, n>>]
<1>1. a \in Nat /\ i[p].left = a + k /\ i[p].cb \in Callbacks /\ j[p].cb \in Callbacks
  BY DEF JobMaps, MoreFor
<1>0. /\ \A q \in Producers \ {p} : i[q] = j[q]
      /\ j[p].left = 0 \/ j[p].cb = i[p].cb
  BY DEF MoreFor
<1>2. /\ IsFiniteSet(N) /\ Cardinality(N) = k
  BY <1>1, IntervalSize
<1>3. f \in Bijection(N, D)
  <2>1. f \in [N -> D]
    OBVIOUS
  <2>2. \A m, n \in N : f[m] = f[n] => m = n
    OBVIOUS
  <2>3. \A y \in D : \E n \in N : f[n] = y
    OBVIOUS
  <2> HIDE DEF f
  <2> QED
    BY <2>1, <2>2, <2>3 DEF Bijection, Injection, IsInjective, Surjection
<1>4. IsFiniteSet(D) /\ Cardinality(D) = k
  BY <1>2, <1>3, FS_Bijection DEF ExistsBijection
<1>5. \A x \in Producers \X Nat : x = <<x[1], x[2]>> /\ x[1] \in Producers /\ x[2] \in Nat
  OBVIOUS
<1>6. CASE t = i[p].cb
  <2>1. Owed(i, t) = Owed(j, t) \cup D
    <3>1. ASSUME NEW x \in Owed(i, t) PROVE x \in Owed(j, t) \cup D
      BY <1>1, <1>5, <1>6, <1>0 DEF Owed
    <3>2. ASSUME NEW x \in Owed(j, t) PROVE x \in Owed(i, t)
      BY <1>1, <1>5, <1>6, <1>0 DEF Owed
    <3>3. ASSUME NEW x \in D PROVE x \in Owed(i, t)
      BY <1>1, <1>6, <1>0 DEF Owed
    <3> HIDE DEF D
    <3> QED
      BY <3>1, <3>2, <3>3
  <2>2. Owed(j, t) \cap D = {}
    BY <1>1, <1>0 DEF Owed
  <2> HIDE DEF D
  <2>3. IsFiniteSet(Owed(j, t))
    <3>1. CASE IsFiniteSet(Owed(i, t))
      BY <2>1, <3>1, FS_Subset
    <3> QED
      BY <3>1
  <2> QED
    BY <1>4, <1>6, <2>1, <2>2, <2>3, DisjointUnion DEF Times
<1>7. CASE t # i[p].cb
  <2>1. Owed(i, t) = Owed(j, t)
    BY <1>1, <1>5, <1>7, <1>0 DEF Owed
  <2> QED
    BY <1>7, <2>1, FS_CardinalityType DEF Times
<1> QED
  BY <1>6, <1>7

\* The workers that hold a callback, and those that have left, are finitely many.
LEMMA HeldFinite ==
    ASSUME NEW c, NEW k, NEW t
    PROVE  /\ IsFiniteSet(Held(c, k, t)) /\ IsFiniteSet(Exited(c))
           /\ Cardinality(Held(c, k, t)) \in Nat /\ Cardinality(Exited(c)) \in Nat
<1>1. Held(c, k, t) \in SUBSET Workers /\ Exited(c) \in SUBSET Workers
  BY DEF Held, Exited
<1> QED
  BY <1>1, ThreadsAssumption, FS_Subset, FS_CardinalityType

\* Where worker w is.
At(c, w, x) == c[w] = x

\* Nobody but worker w moves.
OnlyMoves(w, c, k, d, l) == \A v \in Workers \ {w} : d[v] = c[v] /\ l[v] = k[v]

\* A worker that takes a callback holds one more.
LEMMA HeldGain ==
    ASSUME NEW c, NEW k, NEW w \in Workers, NEW t, NEW d, NEW l,
           At(c, w, "locked"), At(d, w, "run"), OnlyMoves(w, c, k, d, l)
    PROVE  /\ Cardinality(Held(d, l, t)) = Cardinality(Held(c, k, t)) + Times(1, t, l[w])
           /\ Exited(d) = Exited(c)
<1>1. Exited(d) = Exited(c)
  BY DEF At, Exited, OnlyMoves
<1>2. IsFiniteSet(Held(c, k, t)) /\ Cardinality(Held(c, k, t)) \in Nat
  BY HeldFinite
<1>3. w \notin Held(c, k, t)
  BY DEF At, Held, OnlyMoves
<1>4. CASE t = l[w]
  <2>1. Held(d, l, t) = Held(c, k, t) \cup {w}
    BY <1>4 DEF At, Held, OnlyMoves
  <2> QED
    BY <1>1, <1>2, <1>3, <1>4, <2>1, FS_AddElement, Zenon DEF Times
<1>5. CASE t # l[w]
  <2>1. Held(d, l, t) = Held(c, k, t)
    BY <1>5 DEF At, Held, OnlyMoves
  <2> QED
    BY <1>1, <1>2, <1>5, <2>1 DEF Times
<1> QED
  BY <1>4, <1>5

\* A worker that is done with its callback holds one less.
LEMMA HeldLose ==
    ASSUME NEW c, NEW k, NEW w \in Workers, NEW t, NEW d,
           At(c, w, "run"), ~At(d, w, "run"), OnlyMoves(w, c, k, d, k)
    PROVE  Cardinality(Held(c, k, t)) = Cardinality(Held(d, k, t)) + Times(1, t, k[w])
<1>1. IsFiniteSet(Held(d, k, t)) /\ Cardinality(Held(d, k, t)) \in Nat
  BY HeldFinite
<1>2. w \notin Held(d, k, t)
  BY DEF At, Held, OnlyMoves
<1>3. CASE t = k[w]
  <2>1. Held(c, k, t) = Held(d, k, t) \cup {w}
    BY <1>3 DEF At, Held, OnlyMoves
  <2> QED
    BY <1>1, <1>2, <1>3, <2>1, FS_AddElement DEF Times
<1>4. CASE t # k[w]
  <2>1. Held(c, k, t) = Held(d, k, t)
    BY <1>4 DEF At, Held, OnlyMoves
  <2> QED
    BY <1>1, <1>4, <2>1 DEF Times
<1> QED
  BY <1>3, <1>4

\* If it leaves, one more has left.
LEMMA ExitedMore ==
    ASSUME NEW c, NEW k, NEW w \in Workers, NEW d,
           At(c, w, "run"), OnlyMoves(w, c, k, d, k)
    PROVE  Cardinality(Exited(d)) = Cardinality(Exited(c)) + Times(1, d[w], "exited")
<1>1. IsFiniteSet(Exited(c)) /\ Cardinality(Exited(c)) \in Nat
  BY HeldFinite
<1>2. w \notin Exited(c)
  BY DEF At, Exited, OnlyMoves
<1>3. CASE d[w] = "exited"
  <2>1. Exited(d) = Exited(c) \cup {w}
    BY <1>3 DEF At, Exited, OnlyMoves
  <2> QED
    BY <1>1, <1>2, <1>3, <2>1, FS_AddElement DEF Times
<1>4. CASE d[w] # "exited"
  <2>1. Exited(d) = Exited(c)
    BY <1>4 DEF At, Exited, OnlyMoves
  <2> QED
    BY <1>1, <1>4, <2>1 DEF Times
<1> QED
  BY <1>3, <1>4

\* Where there is nothing, there are no copies.
LEMMA NoCopies ==
    ASSUME NEW c, NEW k, NEW j, NEW t,
           \A w \in Workers : c[w] # "run",
           \A p \in Producers : j[p].left = 0
    PROVE  Copies(<<>>, c, k, j, t) = 0 /\ Owed(j, t) = {}
<1>1. Queued(<<>>, t) = {}
  BY DEF Queued
<1>2. Held(c, k, t) = {}
  BY DEF Held
<1>3. Owed(j, t) = {}
  BY DEF Owed
<1> QED
  BY <1>1, <1>2, <1>3, FS_EmptySet DEF Copies

\* The numbers of copies are numbers.
LEMMA CopiesNat ==
    ASSUME NEW s \in Seq(Callbacks), NEW c, NEW k, NEW j, NEW t, IsFiniteSet(Owed(j, t))
    PROVE  /\ Cardinality(Queued(s, t)) \in Nat /\ Cardinality(Held(c, k, t)) \in Nat
           /\ Cardinality(Owed(j, t)) \in Nat /\ Copies(s, c, k, j, t) \in Nat
           /\ Cardinality(Exited(c)) \in Nat
<1>1. Cardinality(Queued(s, t)) \in Nat
  BY QueuedFinite
<1>2. Cardinality(Held(c, k, t)) \in Nat /\ Cardinality(Exited(c)) \in Nat
  BY HeldFinite
<1>3. Cardinality(Owed(j, t)) \in Nat
  BY FS_CardinalityType
<1> QED
  BY <1>1, <1>2, <1>3 DEF Copies

-----------------------------------------------------------------------------
(* Every step keeps the invariant.                                         *)

\* A pool that was not started.
LEMMA PoolInvInit == ThreadsInit => PoolInv
<1> SUFFICES ASSUME ThreadsInit PROVE PoolInv
  OBVIOUS
<1>1. PoolTyped
  <2>1. Quit \in Callbacks
    BY DEF Callbacks
  <2>2. job \in JobMaps
    BY <2>1 DEF ThreadsInit, JobMaps, NoJob
  <2>3. thread_main_cbs_ \in Seq(Callbacks)
    BY DEF ThreadsInit
  <2> QED
    BY <2>1, <2>2, <2>3, Zenon DEF ThreadsInit, PoolTyped
<1>2. PoolPhased /\ PoolSleepers /\ PoolQueued
  BY ThreadsAssumption DEF ThreadsInit, PoolPhased, PoolSleepers, PoolQueued, NoJob
<1>3. \A w \in Workers : pc[w] # "run"
  BY DEF ThreadsInit
<1>4. \A p \in Producers : job[p].left = 0
  BY DEF ThreadsInit, NoJob
<1>5. ASSUME NEW t
      PROVE  /\ Copies(thread_main_cbs_, pc, task, job, t) = 0 /\ Owed(job, t) = {}
  BY <1>3, <1>4, NoCopies DEF ThreadsInit
<1>6. PoolBalanced
  BY <1>5, FS_EmptySet DEF ThreadsInit, PoolBalanced
<1> QED
  BY <1>1, <1>2, <1>6 DEF PoolInv

\* Starting the pool, at first or again.
LEMMA StartKeeps == PoolInv /\ start => PoolInv'
<1> SUFFICES ASSUME PoolInv, start PROVE PoolInv'
  OBVIOUS
<1>1. PoolTyped'
  BY DEF PoolInv, PoolTyped, start
<1>2. \A w \in Workers : pc'[w] = "while"
  BY DEF start
<1>3. /\ \A p \in Producers : job'[p].left = 0
      /\ thread_main_cbs_' = <<>> /\ tp_empty_cv_' = {} /\ tp_full_cv_' = {}
  <2>1. \A p \in Producers : job[p].left = 0
    BY DEF PoolInv, PoolPhased, start
  <2>2. \A w \in Workers : pc[w] # "locked"
    BY DEF PoolInv, PoolPhased, start
  <2>3. tp_empty_cv_ = {} /\ tp_full_cv_ = {}
    BY <2>1, <2>2 DEF PoolInv, PoolTyped, PoolSleepers
  <2> QED
    BY <2>1, <2>3 DEF PoolInv, PoolPhased, start
<1>4. PoolPhased' /\ PoolSleepers' /\ PoolQueued'
  BY <1>2, <1>3, ThreadsAssumption DEF PoolPhased, PoolSleepers, PoolQueued, start
<1>5. ASSUME NEW t
      PROVE  Copies(thread_main_cbs_', pc', task', job', t) = 0 /\ Owed(job', t) = {}
  <2>1. \A w \in Workers : pc'[w] # "run"
    BY <1>2
  <2> QED
    BY <1>3, <2>1, NoCopies, Zenon
<1>6. Cardinality(Exited(pc')) = 0
  <2>1. Exited(pc') = {}
    BY <1>2 DEF Exited
  <2> QED
    BY <2>1, FS_EmptySet
<1>7. PoolBalanced'
  BY <1>5, <1>6, FS_EmptySet DEF start, PoolBalanced
<1> QED
  BY <1>1, <1>4, <1>7 DEF PoolInv

\* run_task() takes a callback n times, if the pool runs.
LEMMA RunTaskKeeps ==
    ASSUME PoolInv, NEW p \in Producers, NEW t \in Tasks, NEW n \in Repeats, run_task(p, t, n)
    PROVE  PoolInv'
<1>0. n \in Nat \ {0}
  BY ThreadsAssumption
<1>1. CASE ~running_
  <2>1. UNCHANGED <<running_, thread_main_cbs_, tp_empty_cv_, tp_full_cv_, pc, task, job, phase,
                    accepted, ran>>
    BY <1>1 DEF run_task
  <2> QED
    BY <2>1 DEF PoolInv, PoolTyped, PoolPhased, PoolSleepers, PoolQueued, PoolBalanced
<1>2. CASE running_
  <2>1. /\ job' = [job EXCEPT ![p] = [cb |-> t, left |-> n]]
        /\ accepted' = [accepted EXCEPT ![t] = @ + n]
        /\ UNCHANGED <<running_, thread_main_cbs_, tp_empty_cv_, tp_full_cv_, pc, task, phase, ran>>
        /\ phase = "running" /\ job[p].left = 0
    BY <1>2 DEF run_task, PoolInv, PoolPhased
  <2>2. PoolTyped'
    BY <1>0, <2>1 DEF PoolInv, PoolTyped, JobMaps, Callbacks
  <2>3. \A q \in Producers : job'[q] = IF q = p THEN [cb |-> t, left |-> n] ELSE job[q]
    BY <2>1 DEF PoolInv, PoolTyped, JobMaps
  <2>4. PoolPhased' /\ PoolSleepers' /\ PoolQueued'
    BY <1>0, <2>1, <2>3 DEF PoolInv, PoolTyped, PoolPhased, PoolSleepers, PoolQueued
  <2>5. ASSUME NEW u \in Callbacks
        PROVE  /\ IsFiniteSet(Owed(job', u))
               /\ Copies(thread_main_cbs_, pc, task, job, u) \in Nat
               /\ Copies(thread_main_cbs_', pc', task', job', u) =
                      Copies(thread_main_cbs_, pc, task, job, u) + Times(n, u, t)
    <3>1. IsFiniteSet(Owed(job, u)) /\ thread_main_cbs_ \in Seq(Callbacks)
      BY DEF PoolInv, PoolTyped, PoolBalanced
    <3>2. /\ job \in JobMaps
          /\ job' \in JobMaps
      BY <2>2 DEF PoolInv, PoolTyped
    <3>3. MoreFor(job, job', p, n) /\ job'[p].cb = t /\ n \in Nat
      BY <1>0, <2>1, <2>3 DEF MoreFor
    <3>4. /\ IsFiniteSet(Owed(job', u))
          /\ Cardinality(Owed(job', u)) = Cardinality(Owed(job, u)) + Times(n, u, t)
      BY <3>1, <3>2, <3>3, OwedMore
    <3>5. /\ Cardinality(Queued(thread_main_cbs_, u)) \in Nat
          /\ Cardinality(Held(pc, task, u)) \in Nat
          /\ Cardinality(Owed(job, u)) \in Nat
      BY <3>1, CopiesNat
    <3> QED
      BY <1>0, <2>1, <3>4, <3>5, TimesNat DEF Copies
  <2>6. PoolBalanced'
    <3>1. \A u \in Tasks : accepted'[u] = IF u = t THEN accepted[u] + n ELSE accepted[u]
      BY <2>1 DEF PoolInv, PoolTyped
    <3>2. \A u \in Tasks : accepted'[u] = ran'[u] + Copies(thread_main_cbs_', pc', task', job', u)
      <4> SUFFICES ASSUME NEW u \in Tasks
                   PROVE  accepted'[u] = ran'[u] + Copies(thread_main_cbs_', pc', task', job', u)
        OBVIOUS
      <4>1. accepted[u] = ran[u] + Copies(thread_main_cbs_, pc, task, job, u) /\ ran[u] \in Nat
        BY <2>1 DEF PoolInv, PoolTyped, PoolBalanced
      <4>2. /\ Copies(thread_main_cbs_, pc, task, job, u) \in Nat
            /\ Copies(thread_main_cbs_', pc', task', job', u) =
                   Copies(thread_main_cbs_, pc, task, job, u) + Times(n, u, t)
        BY <2>5 DEF Callbacks
      <4> QED
        BY <1>0, <2>1, <3>1, <4>1, <4>2 DEF Times
    <3>3. Copies(thread_main_cbs_', pc', task', job', Quit) =
              Copies(thread_main_cbs_, pc, task, job, Quit)
      BY <2>5, ThreadsAssumption DEF Callbacks, Times
    <3> QED
      BY <2>1, <2>5, <3>2, <3>3, Zenon DEF PoolInv, PoolBalanced
  <2> QED
    BY <2>2, <2>4, <2>6 DEF PoolInv
<1> QED
  BY <1>1, <1>2 DEF PoolInv, PoolTyped

\* The step of run_task() that pushes.
LEMMA PushKeeps ==
    ASSUME PoolInv, NEW p \in Producers, Push(p)
    PROVE  PoolInv'
<1>1. PICK k \in 0 .. job[p].left :
        LET s == thread_main_cbs_ \o [i \in 1 .. k |-> job[p].cb]
            left == job[p].left - k
        IN /\ \A i \in 0 .. k - 1 : ~full(SubSeq(s, 1, Len(thread_main_cbs_) + i))
           /\ left = 0 \/ full(s)
           /\ thread_main_cbs_' = s
           /\ job' = [job EXCEPT ![p].left = left]
           /\ IF left = 0 THEN tp_empty_cv_' \in Signalled(tp_empty_cv_) /\ UNCHANGED tp_full_cv_
                          ELSE tp_full_cv_' = tp_full_cv_ \cup {p} /\ UNCHANGED tp_empty_cv_
  BY Zenon DEF Push
<1>2. /\ UNCHANGED <<running_, pc, task, phase, accepted, ran>>
      /\ job[p].left > 0 /\ p \notin tp_full_cv_
  BY DEF Push, life, counts
<1> DEFINE c == job[p].cb
           q == thread_main_cbs_
<1>3. /\ q \in Seq(Callbacks) /\ c \in Callbacks /\ job[p].left \in Nat /\ k \in Nat
      /\ k <= job[p].left /\ Pushed(q, c, k, q')
  BY <1>1 DEF PoolInv, PoolTyped, JobMaps, Pushed
<1>4. /\ q' \in Seq(Callbacks) /\ Len(q') = Len(q) + k
      /\ k > 0 => q'[Len(q')] = c
  <2>1. q' \in Seq(Callbacks) /\ Len(q') = Len(q) + k
    BY <1>3, PushedLonger
  <2>2. \A i \in 1 .. Len(q') : q'[i] = IF i <= Len(q) THEN q[i] ELSE c
    BY <1>3, PushedLonger
  <2> QED
    BY <1>3, <2>1, <2>2
<1>5. /\ \A r \in Producers :
            job'[r] = IF r = p THEN [cb |-> c, left |-> job[p].left - k] ELSE job[r]
      /\ job' \in JobMaps
  <2>1. job' = [job EXCEPT ![p].left = job[p].left - k] /\ job[p].left - k \in Nat
    BY <1>1, <1>3
  <2> QED
    BY <2>1 DEF PoolInv, PoolTyped, JobMaps
<1>6. \A r \in Producers : /\ job'[r].cb = job[r].cb /\ job'[r].left <= job[r].left
                           /\ job[r].left \in Nat /\ job'[r].left \in Nat
  <2> SUFFICES ASSUME NEW r \in Producers
               PROVE  /\ job'[r].cb = job[r].cb /\ job'[r].left <= job[r].left
                      /\ job[r].left \in Nat /\ job'[r].left \in Nat
    OBVIOUS
  <2>1. job[r].left \in Nat /\ job'[r].left \in Nat
    BY <1>5 DEF PoolInv, PoolTyped, JobMaps
  <2> QED
    BY <1>3, <1>5, <2>1
<1>7. /\ tp_empty_cv_' \subseteq tp_empty_cv_ /\ tp_full_cv_' \subseteq tp_full_cv_ \cup {p}
      /\ p \in tp_full_cv_' => job[p].left - k > 0
  <2>1. CASE job[p].left - k = 0
    BY <1>1, <1>2, <2>1 DEF Signalled
  <2>2. CASE job[p].left - k # 0
    BY <1>1, <1>3, <2>2
  <2> QED
    BY <2>1, <2>2
<1>8. PoolTyped'
  BY <1>2, <1>4, <1>5, <1>7 DEF PoolInv, PoolTyped
<1>9. PoolPhased'
  <2>1. phase \in {"running", "joining"}
    BY <1>2 DEF PoolInv, PoolPhased
  <2> QED
    BY <1>2, <1>6, <2>1, ThreadsAssumption DEF PoolInv, PoolPhased
<1>10. PoolSleepers'
  <2>1. ASSUME NEW r \in tp_full_cv_' PROVE job'[r].left > 0
    <3>1. r \in Producers /\ (r # p => job[r].left > 0)
      BY <1>7 DEF PoolInv, PoolTyped, PoolSleepers
    <3> QED
      BY <1>5, <1>7, <3>1
  <2> QED
    BY <1>2, <1>7, <2>1 DEF PoolInv, PoolSleepers
<1>11. PoolQueued'
  <2>1. ASSUME max_task_size_ > 0 PROVE Len(q') <= max_task_size_
    <3>1. CASE k = 0
      BY <1>3, <1>4, <2>1, <3>1 DEF PoolInv, PoolQueued
    <3>2. CASE k > 0
      <4>1. k - 1 \in 0 .. k - 1
        BY <1>3, <3>2
      <4>2. ~full(SubSeq(q', 1, Len(q) + (k - 1)))
        BY <1>1, <4>1
      <4>3. Len(SubSeq(q', 1, Len(q) + (k - 1))) = Len(q) + (k - 1)
        BY <1>3, <1>4, <3>2
      <4> QED
        BY <1>3, <1>4, <2>1, <4>2, <4>3, ThreadsAssumption DEF full
    <3> QED
      BY <1>3, <3>1, <3>2
  <2>2. ASSUME phase' = "joining", job'[Main].left = 0, q' # <<>> PROVE q'[Len(q')] = Quit
    <3>1. p = Main /\ job[Main].cb = Quit
      BY <1>2, <2>2 DEF PoolInv, PoolPhased
    <3> QED
      BY <1>2, <1>3, <1>4, <1>5, <2>2, <3>1
  <2> QED
    BY <2>1, <2>2 DEF PoolQueued
<1>12. ASSUME NEW u \in Callbacks
       PROVE  /\ IsFiniteSet(Owed(job', u))
              /\ Copies(q', pc', task', job', u) = Copies(q, pc, task, job, u)
  <2>1. IsFiniteSet(Owed(job, u))
    BY DEF PoolInv, PoolBalanced
  <2>2. job \in JobMaps
    BY DEF PoolInv, PoolTyped
  <2>3. MoreFor(job', job, p, k)
    BY <1>3, <1>5 DEF MoreFor
  <2>4. /\ IsFiniteSet(Owed(job', u))
        /\ Cardinality(Owed(job, u)) = Cardinality(Owed(job', u)) + Times(k, u, c)
    BY <1>3, <1>5, <2>1, <2>2, <2>3, OwedMore
  <2>5. Cardinality(Queued(q', u)) = Cardinality(Queued(q, u)) + Times(k, u, c)
    BY <1>3, QueuedPush
  <2>6. /\ Cardinality(Queued(q, u)) \in Nat /\ Cardinality(Held(pc, task, u)) \in Nat
        /\ Cardinality(Owed(job', u)) \in Nat
    BY <1>3, <2>4, CopiesNat, Zenon
  <2> HIDE DEF q, c
  <2> QED
    BY <1>2, <1>3, <2>4, <2>5, <2>6, TimesNat DEF Copies
<1>13. PoolBalanced'
  BY <1>2, <1>12 DEF PoolInv, PoolBalanced, Callbacks
<1> QED
  BY <1>8, <1>9, <1>10, <1>11, <1>13 DEF PoolInv

\* joinall() has as many null callbacks to push as there are workers.
LEMMA JoinallKeeps == PoolInv /\ joinall => PoolInv'
<1> SUFFICES ASSUME PoolInv, joinall PROVE PoolInv'
  OBVIOUS
<1> DEFINE n == Cardinality(Workers)
<1>1. n \in Nat \ {0}
  BY ThreadsAssumption, FS_CardinalityType, FS_EmptySet
<1>2. /\ phase = "running" /\ phase' = "joining" /\ \A p \in Producers : job[p].left = 0
      /\ job' = [job EXCEPT ![Main] = [cb |-> Quit, left |-> n]]
      /\ UNCHANGED <<running_, thread_main_cbs_, tp_empty_cv_, tp_full_cv_, pc, task, accepted, ran>>
  BY DEF joinall, counts
<1> HIDE DEF n
<1>3. /\ job' \in JobMaps
      /\ \A p \in Producers : job'[p] = IF p = Main THEN [cb |-> Quit, left |-> n] ELSE job[p]
  BY <1>1, <1>2, Zenon DEF PoolInv, PoolTyped, JobMaps, Callbacks
<1>4. PoolTyped'
  BY <1>2, <1>3 DEF PoolInv, PoolTyped
<1>5. PoolPhased' /\ PoolQueued'
  BY <1>1, <1>2, <1>3, ThreadsAssumption DEF PoolInv, PoolPhased, PoolQueued
<1>6. PoolSleepers'
  BY <1>2 DEF PoolInv, PoolTyped, PoolSleepers
<1>7. ASSUME NEW u \in Callbacks
      PROVE  /\ IsFiniteSet(Owed(job', u))
             /\ Copies(thread_main_cbs_', pc', task', job', u) =
                    Copies(thread_main_cbs_, pc, task, job, u) + Times(n, u, Quit)
             /\ Copies(thread_main_cbs_, pc, task, job, u) \in Nat
  <2>1. /\ IsFiniteSet(Owed(job, u)) /\ thread_main_cbs_ \in Seq(Callbacks) /\ job \in JobMaps
    BY DEF PoolInv, PoolTyped, PoolBalanced
  <2>2. MoreFor(job, job', Main, n) /\ job'[Main].cb = Quit /\ n \in Nat /\ Main \in Producers
    BY <1>1, <1>2, <1>3, ThreadsAssumption DEF MoreFor
  <2>3. /\ IsFiniteSet(Owed(job', u))
        /\ Cardinality(Owed(job', u)) = Cardinality(Owed(job, u)) + Times(n, u, Quit)
    BY <1>3, <2>1, <2>2, OwedMore
  <2>4. /\ Cardinality(Queued(thread_main_cbs_, u)) \in Nat /\ Cardinality(Held(pc, task, u)) \in Nat
        /\ Cardinality(Owed(job, u)) \in Nat
    BY <2>1, CopiesNat, Zenon
  <2> QED
    BY <1>1, <1>2, <2>3, <2>4, TimesNat DEF Copies
<1>8. PoolBalanced'
  <2>1. \A u \in Tasks : Copies(thread_main_cbs_', pc', task', job', u) =
                             Copies(thread_main_cbs_, pc, task, job, u)
    BY <1>7, ThreadsAssumption DEF Times, Callbacks
  <2>2. /\ Copies(thread_main_cbs_', pc', task', job', Quit) =
               Copies(thread_main_cbs_, pc, task, job, Quit) + n
        /\ Copies(thread_main_cbs_, pc, task, job, Quit) \in Nat
    BY <1>7 DEF Times, Callbacks
  <2>3. Cardinality(Exited(pc)) \in Nat
    BY HeldFinite
  <2>4. /\ Copies(thread_main_cbs_, pc, task, job, Quit) + Cardinality(Exited(pc)) = 0
        /\ \A u \in Tasks : accepted[u] = ran[u] + Copies(thread_main_cbs_, pc, task, job, u)
    BY <1>2 DEF PoolInv, PoolBalanced
  <2>5. Copies(thread_main_cbs_', pc', task', job', Quit) + Cardinality(Exited(pc')) =
            Cardinality(Workers)
    BY <1>1, <1>2, <2>2, <2>3, <2>4 DEF n
  <2> QED
    BY <1>2, <1>7, <2>1, <2>4, <2>5, Zenon DEF PoolBalanced
<1> QED
  BY <1>4, <1>5, <1>6, <1>8 DEF PoolInv

\* stop() wakes every worker.
LEMMA StopKeeps == PoolInv /\ stop => PoolInv'
<1> SUFFICES ASSUME PoolInv, stop PROVE PoolInv'
  OBVIOUS
<1>1. /\ phase = "running" /\ phase' = "stopping" /\ \A p \in Producers : job[p].left = 0
      /\ running_' = FALSE /\ tp_empty_cv_' = {}
      /\ UNCHANGED <<thread_main_cbs_, tp_full_cv_, pc, task, job, accepted, ran>>
  BY DEF stop, counts
<1>2. PoolTyped'
  BY <1>1, Zenon DEF PoolInv, PoolTyped
<1>3. PoolPhased' /\ PoolSleepers' /\ PoolQueued'
  BY <1>1 DEF PoolInv, PoolPhased, PoolSleepers, PoolQueued
<1>4. PoolBalanced'
  BY <1>1 DEF PoolInv, PoolBalanced
<1> QED
  BY <1>2, <1>3, <1>4 DEF PoolInv

\* When all workers have left, joinall() finds an empty queue.
LEMMA JoinedEmpty ==
    ASSUME PoolInv, phase = "joining", job[Main].left = 0, \A w \in Workers : pc[w] = "exited"
    PROVE  thread_main_cbs_ = <<>>
<1>1. Exited(pc) = Workers
  BY DEF Exited
<1>2. IsFiniteSet(Owed(job, Quit)) /\ thread_main_cbs_ \in Seq(Callbacks)
  BY DEF PoolInv, PoolTyped, PoolBalanced, Callbacks
<1>3. /\ Cardinality(Queued(thread_main_cbs_, Quit)) \in Nat
      /\ Cardinality(Held(pc, task, Quit)) \in Nat
      /\ Cardinality(Owed(job, Quit)) \in Nat
      /\ Cardinality(Workers) \in Nat
  BY <1>2, CopiesNat, ThreadsAssumption, FS_CardinalityType
<1>4. Copies(thread_main_cbs_, pc, task, job, Quit) + Cardinality(Workers) = Cardinality(Workers)
  BY <1>1 DEF PoolInv, PoolBalanced
<1>5. Cardinality(Queued(thread_main_cbs_, Quit)) = 0
  BY <1>3, <1>4 DEF Copies
<1>6. Queued(thread_main_cbs_, Quit) = {}
  BY <1>2, <1>5, QueuedFinite, FS_EmptySet
<1>7. ASSUME thread_main_cbs_ # <<>> PROVE FALSE
  <2>1. thread_main_cbs_[Len(thread_main_cbs_)] = Quit
    BY <1>7 DEF PoolInv, PoolQueued
  <2>2. Len(thread_main_cbs_) \in DOMAIN thread_main_cbs_
    BY <1>2, <1>7
  <2> QED
    BY <1>6, <2>1, <2>2 DEF Queued
<1> QED
  BY <1>7

\* Joining the threads, at the end of joinall() or of stop().
LEMMA JoinThreadsKeeps == PoolInv /\ JoinThreads => PoolInv'
<1> SUFFICES ASSUME PoolInv, JoinThreads PROVE PoolInv'
  OBVIOUS
<1>1. /\ phase \in {"joining", "stopping"} /\ job[Main].left = 0
      /\ \A w \in Workers : pc[w] = "exited"
      /\ phase' = (IF phase = "joining" THEN "joined" ELSE "stopped")
      /\ running_' = FALSE
      /\ UNCHANGED <<tp_empty_cv_, tp_full_cv_, pc, task, job, accepted, ran>>
  BY DEF JoinThreads, counts
<1>2. thread_main_cbs_' = <<>>
  <2>1. CASE phase = "joining"
    BY <1>1, <2>1, JoinedEmpty DEF JoinThreads
  <2>2. CASE phase = "stopping"
    BY <2>2 DEF JoinThreads
  <2> QED
    BY <1>1, <2>1, <2>2
<1>3. \A p \in Producers : job[p].left = 0
  BY <1>1 DEF PoolInv, PoolPhased
<1>4. PoolTyped'
  <2>1. thread_main_cbs_' \in Seq(Callbacks)
    BY <1>2
  <2>2. phase' \in {"new", "running", "joining", "stopping", "joined", "stopped"}
    BY <1>1
  <2> QED
    BY <1>1, <2>1, <2>2, Zenon DEF PoolInv, PoolTyped
<1>5. PoolPhased'
  BY <1>1, <1>2, <1>3 DEF PoolPhased
<1>6. PoolSleepers' /\ PoolQueued'
  BY <1>1, <1>2, ThreadsAssumption DEF PoolInv, PoolSleepers, PoolQueued
<1>7. ASSUME NEW u \in Callbacks
      PROVE  /\ IsFiniteSet(Owed(job, u))
             /\ Copies(thread_main_cbs_, pc, task, job, u) \in Nat
             /\ Copies(<<>>, pc, task, job, u) = 0
  <2>1. IsFiniteSet(Owed(job, u)) /\ thread_main_cbs_ \in Seq(Callbacks)
    BY DEF PoolInv, PoolTyped, PoolBalanced
  <2>2. Copies(thread_main_cbs_, pc, task, job, u) \in Nat
    BY <2>1, CopiesNat
  <2>3. \A w \in Workers : pc[w] # "run"
    BY <1>1
  <2> QED
    BY <1>3, <2>1, <2>2, <2>3, NoCopies
<1>8. \A u \in Tasks : /\ accepted[u] = ran[u] + Copies(thread_main_cbs_, pc, task, job, u)
                       /\ accepted[u] \in Nat /\ ran[u] \in Nat
                       /\ Copies(thread_main_cbs_, pc, task, job, u) \in Nat
                       /\ Copies(<<>>, pc, task, job, u) = 0
  BY <1>1, <1>7 DEF PoolInv, PoolTyped, PoolBalanced, Callbacks
<1>9. PoolBalanced'
  <2>1. CASE phase = "joining"
    <3>1. thread_main_cbs_ = <<>>
      BY <1>1, <2>1, JoinedEmpty
    <3> QED
      BY <1>1, <1>2, <1>7, <1>8, <2>1, <3>1 DEF PoolBalanced
  <2>2. CASE phase = "stopping"
    <3>1. \A u \in Tasks : ran[u] <= accepted[u]
      BY <1>8
    <3> QED
      BY <1>1, <1>7, <2>2, <3>1 DEF PoolBalanced
  <2> QED
    BY <1>1, <2>1, <2>2
<1> QED
  BY <1>4, <1>5, <1>6, <1>9 DEF PoolInv

\* A worker looks at running_.
LEMMA WhileKeeps ==
    ASSUME PoolInv, NEW w \in Workers, While(w)
    PROVE  PoolInv'
<1>1. /\ pc[w] = "while" /\ pc' = [pc EXCEPT ![w] = IF running_ THEN "locked" ELSE "exited"]
      /\ UNCHANGED <<running_, thread_main_cbs_, tp_empty_cv_, tp_full_cv_, task, job, phase,
                     accepted, ran>>
  BY DEF While, life, counts
<1>2. /\ pc' \in [Workers -> {"none", "while", "locked", "run", "exited"}]
      /\ \A v \in Workers : pc'[v] = IF v # w THEN pc[v] ELSE IF running_ THEN "locked" ELSE "exited"
  BY <1>1 DEF PoolInv, PoolTyped
<1>3. PoolTyped'
  BY <1>1, <1>2 DEF PoolInv, PoolTyped
<1>4. PoolPhased'
  BY <1>1, <1>2 DEF PoolInv, PoolPhased
<1>5. PoolSleepers' /\ PoolQueued'
  BY <1>1, <1>2 DEF PoolInv, PoolTyped, PoolSleepers, PoolQueued
<1>6. \A u : Held(pc', task', u) = Held(pc, task, u)
  BY <1>1, <1>2 DEF Held
<1>7. running_ => Exited(pc') = Exited(pc)
  BY <1>1, <1>2 DEF Exited
<1>8. \A u : Copies(thread_main_cbs_', pc', task', job', u) = Copies(thread_main_cbs_, pc, task, job, u)
  BY <1>1, <1>6, Zenon DEF Copies
<1>9. phase \in {"running", "joining"} => Exited(pc') = Exited(pc)
  BY <1>7 DEF PoolInv, PoolPhased
<1>10. PoolBalanced'
  BY <1>1, <1>8, <1>9, Zenon DEF PoolInv, PoolBalanced
<1> QED
  BY <1>3, <1>4, <1>5, <1>10 DEF PoolInv

\* A worker takes a callback out of the queue ...
TakesTask(w) ==
    /\ pc[w] = "locked" /\ w \notin tp_empty_cv_
    /\ thread_main_cbs_ # <<>> /\ running_
    /\ task' = [task EXCEPT ![w] = Head(thread_main_cbs_)]
    /\ thread_main_cbs_' = Tail(thread_main_cbs_)
    /\ pc' = [pc EXCEPT ![w] = "run"]
    /\ tp_full_cv_' \subseteq tp_full_cv_
    /\ UNCHANGED <<running_, tp_empty_cv_, job, phase, accepted, ran>>

\* ... and has it then, instead of the queue.
LEMMA TakeTaskKeeps ==
    ASSUME PoolInv, NEW w \in Workers, TakesTask(w)
    PROVE  PoolInv'
<1>0. /\ UNCHANGED <<running_, tp_empty_cv_, job, phase, accepted, ran>>
      /\ tp_full_cv_' \subseteq tp_full_cv_ /\ running_
      /\ pc[w] = "locked" /\ w \notin tp_empty_cv_
  BY DEF TakesTask
<1> DEFINE q == thread_main_cbs_
<1>1. q \in Seq(Callbacks) /\ q # <<>> /\ q' = Tail(q)
  BY DEF PoolInv, PoolTyped, TakesTask
<1>2. /\ q' \in Seq(Callbacks) /\ Len(q') = Len(q) - 1
      /\ q' # <<>> => q'[Len(q')] = q[Len(q)]
      /\ \A u : Cardinality(Queued(q, u)) = Cardinality(Queued(q', u)) + Times(1, u, Head(q))
  BY <1>1, QueuedTake, Zenon
<1>3. /\ Head(q) \in Callbacks /\ Len(q) \in Nat
  BY <1>1
<1>4. /\ pc' \in [Workers -> {"none", "while", "locked", "run", "exited"}]
      /\ pc'[w] = "run" /\ \A v \in Workers \ {w} : pc'[v] = pc[v]
  BY DEF PoolInv, PoolTyped, TakesTask
<1>5. /\ task' \in [Workers -> Callbacks] /\ task'[w] = Head(q)
      /\ \A v \in Workers \ {w} : task'[v] = task[v]
  BY <1>3 DEF PoolInv, PoolTyped, TakesTask
<1>6. PoolTyped'
  BY <1>0, <1>2, <1>4, <1>5 DEF PoolInv, PoolTyped
<1>7. phase \in {"running", "joining"}
  BY <1>0 DEF PoolInv, PoolPhased
<1>8. PoolPhased'
  BY <1>0, <1>7 DEF PoolInv, PoolPhased
<1>9. PoolSleepers'
  BY <1>0, <1>4 DEF PoolInv, PoolTyped, PoolSleepers
<1>10. PoolQueued'
  <2>1. max_task_size_ > 0 => Len(q') <= max_task_size_
    BY <1>2, <1>3, ThreadsAssumption DEF PoolInv, PoolQueued
  <2>2. (phase' = "joining" /\ job'[Main].left = 0 /\ q' # <<>>) => q'[Len(q')] = Quit
    BY <1>0, <1>1, <1>2 DEF PoolInv, PoolQueued
  <2> QED
    BY <2>1, <2>2 DEF PoolQueued
<1>11. ASSUME NEW u
       PROVE  /\ Cardinality(Held(pc', task', u)) =
                     Cardinality(Held(pc, task, u)) + Times(1, u, task'[w])
              /\ Exited(pc') = Exited(pc)
  <2>1. OnlyMoves(w, pc, task, pc', task') /\ At(pc, w, "locked") /\ At(pc', w, "run")
    BY <1>0, <1>4, <1>5 DEF OnlyMoves, At
  <2> QED
    BY <2>1, HeldGain
<1>12. ASSUME NEW u \in Callbacks
       PROVE  Copies(q', pc', task', job', u) = Copies(q, pc, task, job, u)
  <2>1. IsFiniteSet(Owed(job, u))
    BY DEF PoolInv, PoolBalanced
  <2>2. /\ Cardinality(Queued(q', u)) \in Nat /\ Cardinality(Held(pc, task, u)) \in Nat
        /\ Cardinality(Owed(job, u)) \in Nat
    BY <1>2, <2>1, CopiesNat, Zenon
  <2>3. Cardinality(Queued(q, u)) = Cardinality(Queued(q', u)) + Times(1, u, Head(q))
    BY <1>2
  <2>4. Cardinality(Held(pc', task', u)) = Cardinality(Held(pc, task, u)) + Times(1, u, Head(q))
    BY <1>5, <1>11
  <2> HIDE DEF q
  <2> QED
    BY <1>0, <2>2, <2>3, <2>4, TimesNat DEF Copies
<1>13. PoolBalanced'
  BY <1>0, <1>7, <1>11, <1>12, Zenon DEF PoolInv, PoolBalanced, Callbacks
<1> QED
  BY <1>6, <1>8, <1>9, <1>10, <1>13 DEF PoolInv

\* What a worker does under lock_.
LEMMA TakeKeeps ==
    ASSUME PoolInv, NEW w \in Workers, Take(w)
    PROVE  PoolInv'
<1>0. /\ pc[w] = "locked" /\ w \notin tp_empty_cv_
      /\ UNCHANGED <<running_, job, phase, accepted, ran>>
  BY DEF Take, life, counts
<1>1. CASE /\ thread_main_cbs_ = <<>> /\ running_
           /\ tp_empty_cv_' = tp_empty_cv_ \cup {w}
           /\ UNCHANGED <<pc, task, thread_main_cbs_, tp_full_cv_>>
  <2>1. PoolTyped' /\ PoolPhased' /\ PoolSleepers' /\ PoolQueued'
    BY <1>0, <1>1 DEF PoolInv, PoolTyped, PoolPhased, PoolSleepers, PoolQueued
  <2>2. PoolBalanced'
    BY <1>0, <1>1, Zenon DEF PoolInv, PoolBalanced
  <2> QED
    BY <2>1, <2>2 DEF PoolInv
<1>2. CASE /\ ~running_
           /\ pc' = [pc EXCEPT ![w] = "exited"]
           /\ UNCHANGED <<task, thread_main_cbs_, tp_empty_cv_, tp_full_cv_>>
  <2>1. /\ pc' \in [Workers -> {"none", "while", "locked", "run", "exited"}]
        /\ \A v \in Workers : pc'[v] = IF v # w THEN pc[v] ELSE "exited"
    BY <1>2 DEF PoolInv, PoolTyped
  <2>2. phase \notin {"running", "joining", "new"}
    BY <1>0, <1>2 DEF PoolInv, PoolPhased
  <2>3. PoolTyped'
    BY <1>0, <1>2, <2>1 DEF PoolInv, PoolTyped
  <2>4. PoolPhased' /\ PoolSleepers' /\ PoolQueued'
    BY <1>0, <1>2, <2>1, <2>2 DEF PoolInv, PoolTyped, PoolPhased, PoolSleepers, PoolQueued
  <2>5. \A u : Held(pc', task', u) = Held(pc, task, u)
    BY <1>0, <1>2, <2>1 DEF Held
  <2>6. \A u : Copies(thread_main_cbs_', pc', task', job', u) =
                   Copies(thread_main_cbs_, pc, task, job, u)
    BY <1>0, <1>2, <2>5, Zenon DEF Copies
  <2>7. PoolBalanced'
    BY <1>0, <2>2, <2>6 DEF PoolInv, PoolBalanced
  <2> QED
    BY <2>3, <2>4, <2>7 DEF PoolInv
<1>3. CASE /\ thread_main_cbs_ # <<>> /\ running_
           /\ task' = [task EXCEPT ![w] = Head(thread_main_cbs_)]
           /\ thread_main_cbs_' = Tail(thread_main_cbs_)
           /\ IF max_task_size_ > 0 THEN tp_full_cv_' \in Signalled(tp_full_cv_)
                                    ELSE UNCHANGED tp_full_cv_
           /\ pc' = [pc EXCEPT ![w] = "run"]
           /\ UNCHANGED tp_empty_cv_
  <2>1. tp_full_cv_' \subseteq tp_full_cv_
    BY <1>3 DEF Signalled
  <2> QED
    BY <1>0, <1>3, <2>1, TakeTaskKeeps, Zenon DEF TakesTask
<1> QED
  BY <1>1, <1>2, <1>3 DEF Take

\* A worker runs what it has taken.
LEMMA RunKeeps ==
    ASSUME PoolInv, NEW w \in Workers, Run(w)
    PROVE  PoolInv'
<1>1. /\ pc[w] = "run"
      /\ UNCHANGED <<running_, thread_main_cbs_, tp_full_cv_, task, job, phase, accepted>>
  BY DEF Run, life
<1>2. /\ pc' \in [Workers -> {"none", "while", "locked", "run", "exited"}]
      /\ pc'[w] = (IF task[w] = Quit THEN "exited" ELSE "while")
      /\ \A v \in Workers \ {w} : pc'[v] = pc[v]
  BY Zenon DEF Run, PoolInv, PoolTyped
<1>3. /\ task[w] \in Callbacks
      /\ IF task[w] = Quit THEN ran' = ran ELSE ran' = [ran EXCEPT ![task[w]] = @ + 1]
      /\ tp_empty_cv_' \subseteq tp_empty_cv_
  BY DEF Run, PoolInv, PoolTyped, Signalled
<1>4. ran' \in [Tasks -> Nat] /\ \A u \in Tasks : ran'[u] = ran[u] + Times(1, u, task[w])
  <2>1. CASE task[w] = Quit
    BY <1>3, <2>1, ThreadsAssumption DEF PoolInv, PoolTyped, Times
  <2>2. CASE task[w] # Quit
    BY <1>3, <2>2 DEF PoolInv, PoolTyped, Times
  <2> QED
    BY <2>1, <2>2
<1>5. PoolTyped'
  BY <1>1, <1>2, <1>3, <1>4 DEF PoolInv, PoolTyped
<1>6. phase \notin {"new", "joined", "stopped"}
  BY <1>1 DEF PoolInv, PoolPhased
<1>7. PoolPhased' /\ PoolQueued'
  BY <1>1, <1>6 DEF PoolInv, PoolPhased, PoolQueued
<1>8. PoolSleepers'
  BY <1>1, <1>2, <1>3 DEF PoolInv, PoolTyped, PoolSleepers
<1>9. ASSUME NEW u
      PROVE  /\ Cardinality(Held(pc, task, u)) = Cardinality(Held(pc', task, u)) + Times(1, u, task[w])
             /\ Cardinality(Exited(pc')) = Cardinality(Exited(pc)) + Times(1, pc'[w], "exited")
  <2>1. OnlyMoves(w, pc, task, pc', task) /\ At(pc, w, "run") /\ ~At(pc', w, "run")
    BY <1>1, <1>2 DEF OnlyMoves, At
  <2> QED
    <3>1. Cardinality(Held(pc, task, u)) = Cardinality(Held(pc', task, u)) + Times(1, u, task[w])
      BY <2>1, HeldLose
    <3>2. Cardinality(Exited(pc')) = Cardinality(Exited(pc)) + Times(1, pc'[w], "exited")
      BY <2>1, ExitedMore
    <3> QED
      BY <3>1, <3>2
<1>10. ASSUME NEW u \in Callbacks
       PROVE  /\ Copies(thread_main_cbs_', pc', task', job', u) \in Nat
              /\ Copies(thread_main_cbs_, pc, task, job, u) =
                     Copies(thread_main_cbs_', pc', task', job', u) + Times(1, u, task[w])
  <2>1. IsFiniteSet(Owed(job, u)) /\ thread_main_cbs_ \in Seq(Callbacks)
    BY DEF PoolInv, PoolTyped, PoolBalanced
  <2>2. /\ Cardinality(Queued(thread_main_cbs_, u)) \in Nat
        /\ Cardinality(Held(pc', task, u)) \in Nat
        /\ Cardinality(Owed(job, u)) \in Nat
    BY <2>1, CopiesNat, Zenon
  <2>3. Cardinality(Held(pc, task, u)) = Cardinality(Held(pc', task, u)) + Times(1, u, task[w])
    BY <1>9
  <2> QED
    <3>1. /\ Copies(thread_main_cbs_', pc', task', job', u) =
                 Cardinality(Queued(thread_main_cbs_, u)) + Cardinality(Held(pc', task, u))
                     + Cardinality(Owed(job, u))
      BY <1>1 DEF Copies
    <3> QED
      BY <2>2, <2>3, <3>1, TimesNat DEF Copies
<1>11. ASSUME NEW u \in Tasks
       PROVE  accepted'[u] = ran'[u] + Copies(thread_main_cbs_', pc', task', job', u)
  <2>1. accepted[u] = ran[u] + Copies(thread_main_cbs_, pc, task, job, u) /\ ran[u] \in Nat
    BY <1>6 DEF PoolInv, PoolTyped, PoolBalanced
  <2>2. /\ Copies(thread_main_cbs_', pc', task', job', u) \in Nat
        /\ Copies(thread_main_cbs_, pc, task, job, u) =
               Copies(thread_main_cbs_', pc', task', job', u) + Times(1, u, task[w])
    BY <1>10 DEF Callbacks
  <2>3. ran'[u] = ran[u] + Times(1, u, task[w])
    BY <1>4
  <2>4. Times(1, u, task[w]) \in Nat
    BY TimesNat
  <2>5. accepted'[u] = accepted[u]
    BY <1>1
  <2> DEFINE C == Copies(thread_main_cbs_, pc, task, job, u)
             D == Copies(thread_main_cbs_', pc', task', job', u)
             T == Times(1, u, task[w])
  <2>6. accepted[u] = ran[u] + C /\ ran[u] \in Nat /\ D \in Nat /\ C = D + T /\ T \in Nat
    BY <2>1, <2>2, <2>4
  <2>7. ran'[u] = ran[u] + T
    BY <2>3
  <2> HIDE DEF C, D, T
  <2>8. accepted[u] = ran'[u] + D
    BY <2>6, <2>7
  <2> QED
    BY <2>5, <2>8 DEF D
<1>12. Copies(thread_main_cbs_', pc', task', job', Quit) + Cardinality(Exited(pc')) =
           Copies(thread_main_cbs_, pc, task, job, Quit) + Cardinality(Exited(pc))
  <2>1. /\ Copies(thread_main_cbs_', pc', task', job', Quit) \in Nat
        /\ Copies(thread_main_cbs_, pc, task, job, Quit) =
               Copies(thread_main_cbs_', pc', task', job', Quit) + Times(1, Quit, task[w])
    BY <1>10 DEF Callbacks
  <2>2. Cardinality(Exited(pc')) = Cardinality(Exited(pc)) + Times(1, pc'[w], "exited")
    BY <1>9
  <2>3. Cardinality(Exited(pc)) \in Nat
    BY HeldFinite
  <2>4. Times(1, Quit, task[w]) = Times(1, pc'[w], "exited") /\ Times(1, Quit, task[w]) \in Nat
    BY <1>2 DEF Times
  <2> QED
    BY <2>1, <2>2, <2>3, <2>4
<1>13. PoolBalanced'
  BY <1>1, <1>6, <1>11, <1>12, Zenon DEF PoolInv, PoolBalanced
<1> QED
  BY <1>5, <1>7, <1>8, <1>13 DEF PoolInv

\* A spurious wakeup.
LEMMA ThreadsWakeKeeps == PoolInv /\ ThreadsWake => PoolInv'
<1> SUFFICES ASSUME PoolInv, ThreadsWake PROVE PoolInv'
  OBVIOUS
<1>1. /\ tp_empty_cv_' \subseteq tp_empty_cv_ /\ tp_full_cv_' \subseteq tp_full_cv_
      /\ UNCHANGED <<running_, thread_main_cbs_, pc, task, job, phase, accepted, ran>>
  BY DEF ThreadsWake, life, counts
<1>2. PoolTyped' /\ PoolPhased' /\ PoolSleepers' /\ PoolQueued'
  BY <1>1 DEF PoolInv, PoolTyped, PoolPhased, PoolSleepers, PoolQueued
<1>3. PoolBalanced'
  BY <1>1, Zenon DEF PoolInv, PoolBalanced
<1> QED
  BY <1>2, <1>3 DEF PoolInv

\* Nothing happens.
LEMMA PoolStutter == PoolInv /\ UNCHANGED tvars => PoolInv'
<1> SUFFICES ASSUME PoolInv, UNCHANGED tvars PROVE PoolInv'
  OBVIOUS
<1>1. UNCHANGED <<running_, thread_main_cbs_, tp_empty_cv_, tp_full_cv_, pc, task, job, phase,
                  accepted, ran>>
  BY DEF tvars, life, counts
<1>2. PoolTyped' /\ PoolPhased' /\ PoolSleepers' /\ PoolQueued'
  BY <1>1 DEF PoolInv, PoolTyped, PoolPhased, PoolSleepers, PoolQueued
<1>3. PoolBalanced'
  BY <1>1, Zenon DEF PoolInv, PoolBalanced
<1> QED
  BY <1>2, <1>3 DEF PoolInv

\* Every step.
LEMMA PoolStep == PoolInv /\ [ThreadsNext]_tvars => PoolInv'
<1> SUFFICES ASSUME PoolInv, [ThreadsNext]_tvars PROVE PoolInv'
  OBVIOUS
<1> QED
  BY StartKeeps, RunTaskKeeps, PushKeeps, JoinallKeeps, StopKeeps, JoinThreadsKeeps, WhileKeeps,
     TakeKeeps, RunKeeps, ThreadsWakeKeeps, PoolStutter DEF ThreadsNext

\* What the invariant says of the bound and of joinall().
LEMMA PoolInvImplies == PoolInv => ThreadsTypeOK /\ JoinedAllRun
<1> SUFFICES ASSUME PoolInv PROVE ThreadsTypeOK /\ JoinedAllRun
  OBVIOUS
<1>1. ThreadsTypeOK
  BY DEF PoolInv, PoolTyped, PoolQueued, ThreadsTypeOK, Callbacks
<1>2. ASSUME NEW t \in Tasks, phase # "stopped"
      PROVE  /\ accepted[t] = ran[t] + Copies(thread_main_cbs_, pc, task, job, t)
             /\ Copies(thread_main_cbs_, pc, task, job, t) \in Nat
             /\ accepted[t] \in Nat /\ ran[t] \in Nat
  <2>1. IsFiniteSet(Owed(job, t)) /\ thread_main_cbs_ \in Seq(Callbacks)
    BY DEF PoolInv, PoolTyped, PoolBalanced, Callbacks
  <2>2. Copies(thread_main_cbs_, pc, task, job, t) \in Nat
    BY <2>1, CopiesNat
  <2> QED
    BY <1>2, <2>2 DEF PoolInv, PoolTyped, PoolBalanced
<1>3. ASSUME NEW t \in Tasks PROVE ran[t] <= accepted[t]
  <2>1. CASE phase = "stopped"
    BY <2>1 DEF PoolInv, PoolBalanced
  <2>2. CASE phase # "stopped"
    BY <1>2, <2>2
  <2> QED
    BY <2>1, <2>2
<1>4. ASSUME phase = "joined" PROVE ran = accepted /\ thread_main_cbs_ = <<>>
  <2>1. /\ thread_main_cbs_ = <<>>
        /\ \A w \in Workers : pc[w] # "run"
        /\ \A p \in Producers : job[p].left = 0
    BY <1>4 DEF PoolInv, PoolPhased
  <2>2. \A t : Copies(<<>>, pc, task, job, t) = 0
    BY <2>1, NoCopies
  <2>3. \A t \in Tasks : ran[t] = accepted[t]
    BY <1>2, <1>4, <2>1, <2>2
  <2> QED
    BY <2>1, <2>3 DEF PoolInv, PoolTyped
<1> QED
  BY <1>1, <1>3, <1>4 DEF JoinedAllRun

\* If no batch is larger than the queue, no step puts the last worker that is awake to
\* sleep, or fills an empty queue without a signal.
LEMMA AwakeStep ==
    ASSUME BatchesFit, PoolInv, PoolAwake, [ThreadsNext]_tvars
    PROVE  PoolAwake'
<1>1. CASE start
  <2>1. thread_main_cbs_' = <<>> /\ \A p \in Producers : job'[p].left = 0
    BY <1>1 DEF start, PoolInv, PoolPhased
  <2> QED
    BY <2>1, ThreadsAssumption DEF PoolAwake
<1>2. CASE joinall \/ stop \/ JoinThreads
  <2>1. phase' # "running"
    BY <1>2 DEF joinall, stop, JoinThreads
  <2> QED
    BY <2>1 DEF PoolAwake
<1>3. ASSUME NEW p \in Producers, NEW t \in Tasks, NEW n \in Repeats, run_task(p, t, n)
      PROVE  PoolAwake'
  <2>1. \A r \in Producers : job'[r].left = job[r].left \/ job'[r].left = n
    <3>1. CASE running_
      <4>1. job' = [job EXCEPT ![p] = [cb |-> t, left |-> n]]
        BY <1>3, <3>1 DEF run_task
      <4> QED
        BY <4>1 DEF PoolInv, PoolTyped, JobMaps
    <3>2. CASE ~running_
      BY <1>3, <3>2 DEF run_task
    <3> QED
      BY <3>1, <3>2
  <2>2. UNCHANGED <<thread_main_cbs_, tp_empty_cv_, phase>>
    BY <1>3 DEF run_task
  <2> QED
    BY <2>1, <2>2 DEF PoolAwake, BatchesFit
<1>4. ASSUME NEW p \in Producers, Push(p), phase' = "running"
      PROVE  PoolAwake'
  <2>1. PICK k \in 0 .. job[p].left :
          LET s == thread_main_cbs_ \o [i \in 1 .. k |-> job[p].cb]
              left == job[p].left - k
          IN /\ \A i \in 0 .. k - 1 : ~full(SubSeq(s, 1, Len(thread_main_cbs_) + i))
             /\ left = 0 \/ full(s)
             /\ thread_main_cbs_' = s
             /\ job' = [job EXCEPT ![p].left = left]
             /\ IF left = 0 THEN tp_empty_cv_' \in Signalled(tp_empty_cv_) /\ UNCHANGED tp_full_cv_
                            ELSE tp_full_cv_' = tp_full_cv_ \cup {p} /\ UNCHANGED tp_empty_cv_
    BY <1>4, Zenon DEF Push
  <2>2. phase = "running" /\ job[p].left \in Nat /\ k \in Nat /\ k <= job[p].left
    BY <1>4 DEF Push, life, PoolInv, PoolTyped, JobMaps
  <2>3. ASSUME max_task_size_ > 0, NEW r \in Producers PROVE job'[r].left <= max_task_size_
    <3>1. job'[r].left = IF r = p THEN job[r].left - k ELSE job[r].left
      BY <2>1 DEF PoolInv, PoolTyped, JobMaps
    <3>2. job[r].left <= max_task_size_ /\ job[r].left \in Nat
      BY <2>2, <2>3 DEF PoolAwake, PoolInv, PoolTyped, JobMaps
    <3> QED
      BY <2>2, <3>1, <3>2, ThreadsAssumption
  <2>4. tp_empty_cv_' # Workers
    <3>1. CASE job[p].left - k = 0
      <4>1. tp_empty_cv_' \in Signalled(tp_empty_cv_) /\ tp_empty_cv_ \subseteq Workers
        BY <2>1, <3>1 DEF PoolInv, PoolTyped
      <4> QED
        BY <4>1, ThreadsAssumption DEF Signalled
    <3>2. CASE job[p].left - k # 0
      <4>1. tp_empty_cv_' = tp_empty_cv_ /\ full(thread_main_cbs_')
        BY <2>1, <3>2
      <4>2. Pushed(thread_main_cbs_, job[p].cb, k, thread_main_cbs_')
        BY <2>1 DEF Pushed
      <4>3. thread_main_cbs_ \in Seq(Callbacks) /\ job[p].cb \in Callbacks
        BY DEF PoolInv, PoolTyped, JobMaps
      <4>4. Len(thread_main_cbs_') = Len(thread_main_cbs_) + k
        BY <2>2, <4>2, <4>3, PushedLonger
      <4>5. max_task_size_ > 0 /\ max_task_size_ <= Len(thread_main_cbs_) + k
        BY <4>1, <4>4 DEF full
      <4>6. job[p].left <= max_task_size_
        BY <2>2, <4>5 DEF PoolAwake
      <4>7. Len(thread_main_cbs_) # 0
        BY <2>2, <3>2, <4>5, <4>6, ThreadsAssumption
      <4>8. thread_main_cbs_ # <<>>
        BY <4>7
      <4> QED
        BY <2>2, <4>1, <4>8 DEF PoolAwake
    <3> QED
      BY <3>1, <3>2
  <2> QED
    BY <2>3, <2>4 DEF PoolAwake
<1>5. ASSUME NEW w \in Workers, While(w) PROVE PoolAwake'
  BY <1>5 DEF While, life, PoolAwake
<1>6. ASSUME NEW w \in Workers, Take(w) PROVE PoolAwake'
  <2>1. UNCHANGED <<job, phase>> /\ w \notin tp_empty_cv_
    BY <1>6 DEF Take, life
  <2>2. (tp_empty_cv_' = tp_empty_cv_) \/ thread_main_cbs_' = <<>>
    BY <1>6 DEF Take
  <2> QED
    BY <2>1, <2>2 DEF PoolAwake
<1>7. ASSUME NEW w \in Workers, Run(w) PROVE PoolAwake'
  <2>1. UNCHANGED <<thread_main_cbs_, job, phase>> /\ tp_empty_cv_' \subseteq tp_empty_cv_
    BY <1>7 DEF Run, life, Signalled
  <2>2. w \notin tp_empty_cv_
    BY <1>7 DEF Run, PoolInv, PoolSleepers
  <2> QED
    BY <2>1, <2>2 DEF PoolAwake
<1>8. CASE ThreadsWake
  <2>1. UNCHANGED <<thread_main_cbs_, job, phase>>
    BY <1>8 DEF ThreadsWake, life
  <2>2. tp_empty_cv_' = tp_empty_cv_ \/ tp_empty_cv_' # Workers
    BY <1>8 DEF ThreadsWake, PoolInv, PoolTyped
  <2> QED
    BY <2>1, <2>2 DEF PoolAwake
<1>9. CASE UNCHANGED tvars
  BY <1>9 DEF tvars, life, PoolAwake
<1>10. CASE phase' # "running"
  BY <1>10 DEF PoolAwake
<1> QED
  BY <1>1, <1>2, <1>3, <1>4, <1>5, <1>6, <1>7, <1>8, <1>9, <1>10 DEF ThreadsNext

\* Whatever the tasks, the bound and the repeat counts: the queue keeps its bound, joinall()
\* returns with every accepted task run, and no task runs more often than it was accepted.
THEOREM AcceptedAlwaysRun == ThreadsSpec => [](ThreadsTypeOK /\ JoinedAllRun)
<1> QED
  BY PoolInvInit, PoolStep, PoolInvImplies, PTL DEF ThreadsSpec

\* When no call of run_task() has more to push than the queue holds, tasks also never wait
\* with all workers asleep: one signal per call is enough.
THEOREM TasksAlwaysServed == BatchesFit => (ThreadsSpec => []TasksServed)
<1> SUFFICES ASSUME BatchesFit PROVE ThreadsSpec => []TasksServed
  OBVIOUS
<1>1. ThreadsInit => PoolInv /\ PoolAwake
  <2>1. ThreadsInit => PoolAwake
    BY DEF ThreadsInit, PoolAwake
  <2> QED
    BY <2>1, PoolInvInit
<1>2. PoolInv /\ PoolAwake /\ [ThreadsNext]_tvars => PoolInv' /\ PoolAwake'
  BY PoolStep, AwakeStep
<1>3. PoolInv /\ PoolAwake => TasksServed
  BY PoolInvImplies DEF PoolAwake, TasksServed, NotAllAsleep
<1> QED
  BY <1>1, <1>2, <1>3, PTL DEF ThreadsSpec
=============================================================================
