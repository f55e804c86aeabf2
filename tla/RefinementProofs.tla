-------------------------- MODULE RefinementProofs --------------------------
(***************************************************************************)
(* The two refinements, and the invariants they rest on.  For every set of *)
(* threads and functors: the type invariant, that no wakeup is lost, and   *)
(* that the loop's queue implements a serial executor.  For every kind of  *)
(* byte, every number and every limit of the buffers and every data given  *)
(* to them: byte buffers are queues of bytes.                              *)
(***************************************************************************)
EXTENDS EventLoop, Buffering, SequenceTheorems, TLAPS

-----------------------------------------------------------------------------
(* EventLoop: wakeups and the queue of functors.                           *)

\* Some functor that the owner did not queue before loop() is waiting.
LateWaiting == ~(Elements(wakeup_functors_) \subseteq early)

\* From the swap until the next poll returns every late functor and every quit()
\* still has its wakeup ahead of it or already in the eventfd.
WakeupInv ==
    /\ TypeOK
    /\ (pc \in {"created", "run", "while", "poll"} /\ LateWaiting) =>
            eventfd > 0 \/ \E t \in Threads : call[t] = "pushed"
    /\ (pc = "poll" /\ quit_) =>
            eventfd > 0 \/ \E t \in Threads : call[t] = "quitting"

\* Appending adds exactly the appended functor to the waiting ones (push_back).
LEMMA ElementsAppend ==
    ASSUME NEW S, NEW s \in Seq(S), NEW x \in S
    PROVE  Elements(Append(s, x)) = Elements(s) \cup {x}
<1>1. /\ DOMAIN s = 1 .. Len(s)
      /\ Len(s) \in Nat
      /\ DOMAIN Append(s, x) = 1 .. Len(s) + 1
      /\ \A i \in 1 .. Len(s) : Append(s, x)[i] = s[i]
      /\ Append(s, x)[Len(s) + 1] = x
  BY AppendProperties, LenProperties
<1>2. 1 .. Len(s) + 1 = (1 .. Len(s)) \cup {Len(s) + 1}
  BY <1>1
<1> QED
  BY <1>1, <1>2 DEF Elements

\* The constructor gives every field a value of its type.
LEMMA InitTypeOK == Init => TypeOK
<1> SUFFICES ASSUME Init PROVE TypeOK
  OBVIOUS
<1> QED
  BY EmptySeq, Zenon DEF Init, TypeOK, LoopPoints

\* The constructor establishes the invariant.
LEMMA InitWakeupInv == Init => WakeupInv
<1> SUFFICES ASSUME Init PROVE WakeupInv
  OBVIOUS
<1>1. TypeOK
  BY InitTypeOK
<1>2. Elements(wakeup_functors_) = {}
  BY DEF Init, Elements
<1> QED
  BY <1>1, <1>2 DEF Init, WakeupInv, LateWaiting

\* What a callback of the loop thread may do to the queue, the eventfd and quit_.
LEMMA CallbackTypes ==
    ASSUME TypeOK, Callback
    PROVE  /\ wakeup_functors_' \in Seq(Functors)
           /\ eventfd' \in Nat
           /\ quit_' \in BOOLEAN
<1>1. CASE UNCHANGED <<wakeup_functors_, eventfd, quit_>>
  BY <1>1 DEF TypeOK
<1>2. CASE UNCHANGED quit_ /\ \E f \in Functors : QueueOwn(f)
  BY <1>2, AppendProperties DEF TypeOK, QueueOwn
<1>3. CASE quit_' = TRUE /\ UNCHANGED <<wakeup_functors_, eventfd>>
  BY <1>3 DEF TypeOK
<1> QED
  BY <1>1, <1>2, <1>3, Zenon DEF Callback

\* Every step of the loop thread and of its callers keeps the types.
LEMMA NextTypeOK == TypeOK /\ [Next]_vars => TypeOK'
<1> SUFFICES ASSUME TypeOK, [Next]_vars PROVE TypeOK'
  OBVIOUS
<1> USE DEF TypeOK, LoopPoints
<1>1. ASSUME NEW t \in Threads, NEW f \in Functors, Push(t, f) PROVE TypeOK'
  BY <1>1 DEF Push
<1>2. ASSUME NEW t \in Threads, Quit(t) PROVE TypeOK'
  BY <1>2 DEF Quit
<1>3. ASSUME NEW t \in Threads, Wakeup(t) PROVE TypeOK'
  BY <1>3 DEF Wakeup
<1>4. CASE QueueBeforeLoop
  BY <1>4 DEF QueueBeforeLoop, QueueOwn
<1>5. ASSUME NEW io \in SUBSET {"io"}, PollReturn(io) PROVE TypeOK'
  BY <1>5 DEF PollReturn
<1>6. CASE PollTimeout
  BY <1>6 DEF PollTimeout
<1>7. CASE LoopStep
  <2>1. CASE Loop
    BY <2>1 DEF Loop
  <2>2. CASE While
    BY <2>2 DEF While
  <2>3. CASE HandleRead
    BY <2>3 DEF HandleRead
  <2>4. CASE HandleIO
    <3>1. wakeup_functors_' \in Seq(Functors) /\ eventfd' \in Nat /\ quit_' \in BOOLEAN
      BY <2>4, CallbackTypes DEF HandleIO
    <3> QED
      BY <2>4, <3>1 DEF HandleIO
  <2>5. CASE BeginCalling
    BY <2>5 DEF BeginCalling
  <2>6. CASE Swap
    BY <2>6 DEF Swap
  <2>7. CASE RunFunctor
    <3>1. wakeup_functors_' \in Seq(Functors) /\ eventfd' \in Nat /\ quit_' \in BOOLEAN
      BY <2>7, CallbackTypes DEF RunFunctor
    <3>2. Head(functors) \in Functors /\ Tail(functors) \in Seq(Functors)
      BY <2>7, HeadTailProperties DEF RunFunctor
    <3>3. functors' \in Seq(Functors) /\ ran' \in Seq(Functors)
      BY <2>7, <3>2, AppendProperties DEF RunFunctor
    <3> QED
      BY <2>7, <3>1, <3>3 DEF RunFunctor
  <2>8. CASE EndCalling
    BY <2>8, Zenon DEF EndCalling
  <2> QED
    BY <1>7, <2>1, <2>2, <2>3, <2>4, <2>5, <2>6, <2>7, <2>8 DEF LoopStep
<1>8. CASE UNCHANGED vars
  BY <1>8 DEF vars
<1> QED
  BY <1>1, <1>2, <1>3, <1>4, <1>5, <1>6, <1>7, <1>8 DEF Next

\* Every step keeps the invariant: a push is followed by its wakeup, the eventfd
\* is only reset between a poll and the swap that takes all functors.
LEMMA NextWakeupInv == WakeupInv /\ [Next]_vars => WakeupInv'
<1> SUFFICES ASSUME WakeupInv, [Next]_vars PROVE WakeupInv'
  OBVIOUS
<1>0. TypeOK'
  BY NextTypeOK DEF WakeupInv
<1> USE <1>0 DEF WakeupInv, LateWaiting
<1>1. ASSUME NEW t \in Threads, NEW f \in Functors, Push(t, f) PROVE WakeupInv'
  BY <1>1 DEF Push, TypeOK
<1>2. ASSUME NEW t \in Threads, Quit(t) PROVE WakeupInv'
  BY <1>2 DEF Quit, TypeOK
<1>3. ASSUME NEW t \in Threads, Wakeup(t) PROVE WakeupInv'
  BY <1>3 DEF Wakeup, TypeOK
<1>4. CASE QueueBeforeLoop
  <2>1. PICK f \in Functors : QueueOwn(f) /\ early' = early \cup {f}
    BY <1>4 DEF QueueBeforeLoop
  <2>2. Elements(wakeup_functors_)' = Elements(wakeup_functors_) \cup {f}
    BY <2>1, ElementsAppend DEF QueueOwn, TypeOK
  <2> QED
    BY <1>4, <2>1, <2>2 DEF QueueBeforeLoop, QueueOwn, TypeOK
<1>5. ASSUME NEW io \in SUBSET {"io"}, PollReturn(io) PROVE WakeupInv'
  BY <1>5 DEF PollReturn, TypeOK
<1>6. CASE PollTimeout
  BY <1>6 DEF PollTimeout, TypeOK
<1>7. CASE LoopStep
  <2>1. CASE Loop
    BY <2>1 DEF Loop, TypeOK
  <2>2. CASE While
    BY <2>2 DEF While, TypeOK
  <2>3. CASE HandleRead
    BY <2>3 DEF HandleRead, TypeOK
  <2>4. CASE HandleIO
    BY <2>4 DEF HandleIO, TypeOK
  <2>5. CASE BeginCalling
    BY <2>5 DEF BeginCalling, TypeOK
  <2>6. CASE Swap
    <3>1. Elements(wakeup_functors_)' = {}
      BY <2>6 DEF Swap, Elements
    <3> QED
      BY <2>6, <3>1 DEF Swap, TypeOK
  <2>7. CASE RunFunctor
    <3>1. CASE \E f \in Functors : QueueOwn(f)
      BY <2>7, <3>1 DEF RunFunctor, QueueOwn, TypeOK
    <3>2. CASE UNCHANGED <<wakeup_functors_, eventfd>>
      BY <2>7, <3>2 DEF RunFunctor, Elements, TypeOK
    <3> QED
      BY <2>7, <3>1, <3>2 DEF RunFunctor, Callback
  <2>8. CASE EndCalling
    BY <2>8 DEF EndCalling, TypeOK
  <2> QED
    BY <1>7, <2>1, <2>2, <2>3, <2>4, <2>5, <2>6, <2>7, <2>8 DEF LoopStep
<1>8. CASE UNCHANGED vars
  BY <1>8 DEF vars, Elements
<1> QED
  BY <1>1, <1>2, <1>3, <1>4, <1>5, <1>6, <1>7, <1>8 DEF Next

\* The fields of EventLoop and the local vector keep their types.
THEOREM TypeCorrect == Spec => []TypeOK
<1> QED
  BY InitTypeOK, NextTypeOK, PTL DEF Spec

\* queue_in_own_loop and quit() never leave the loop asleep with work or a quit
\* request that nobody will wake it for, whatever the number of threads.
THEOREM WakeupNeverLost == Spec => []NoLostWakeup
<1>1. WakeupInv => NoLostWakeup
  BY DEF WakeupInv, NoLostWakeup, LateWaiting, TypeOK
<1> QED
  BY <1>1, InitWakeupInv, NextWakeupInv, PTL DEF Spec

-----------------------------------------------------------------------------
(* Refinement: functors \o wakeup_functors_ is the executor's queue.       *)

\* The local vector of do_calling_wakeup_functors is empty outside its loop.
BatchInv == TypeOK /\ (pc # "run" => functors = <<>>)

\* push_back while a batch is running appends to the whole pending queue.
LEMMA ConcatAppend ==
    ASSUME NEW S, NEW s \in Seq(S), NEW t \in Seq(S), NEW x \in S
    PROVE  s \o Append(t, x) = Append(s \o t, x)
<1>1. Append(t, x) = t \o <<x>> /\ <<x>> \in Seq(S)
  BY AppendIsConcat, AppendProperties, EmptySeq
<1>2. s \o t \in Seq(S)
  BY ConcatProperties
<1> QED
  BY <1>1, <1>2, AppendIsConcat, ConcatAssociative

\* Taking the first functor of the batch takes the first of the pending queue.
LEMMA ConcatHeadTail ==
    ASSUME NEW S, NEW s \in Seq(S), NEW t \in Seq(S), s # <<>>
    PROVE  /\ s \o t # <<>>
           /\ Head(s \o t) = Head(s)
           /\ Tail(s \o t) = Tail(s) \o t
<1> DEFINE st == s \o t
<1>1. /\ st \in Seq(S) /\ Len(st) = Len(s) + Len(t)
      /\ \A i \in 1 .. Len(s) + Len(t) :
             st[i] = IF i <= Len(s) THEN s[i] ELSE t[i - Len(s)]
      /\ Len(s) \in Nat \ {0} /\ Len(t) \in Nat
  BY ConcatProperties, LenProperties, EmptySeq
<1>2. st # <<>>
  BY <1>1, EmptySeq
<1>3. Head(st) = Head(s)
  BY <1>1
<1>4. /\ Tail(s) \in Seq(S) /\ Len(Tail(s)) = Len(s) - 1
      /\ \A i \in 1 .. Len(s) - 1 : Tail(s)[i] = s[i + 1]
  BY HeadTailProperties
<1>5. /\ Tail(st) \in Seq(S) /\ Len(Tail(st)) = Len(st) - 1
      /\ \A i \in 1 .. Len(st) - 1 : Tail(st)[i] = st[i + 1]
  BY <1>1, <1>2, HeadTailProperties
<1>6. /\ Tail(s) \o t \in Seq(S)
      /\ Len(Tail(s) \o t) = Len(s) - 1 + Len(t)
      /\ \A i \in 1 .. Len(s) - 1 + Len(t) :
             (Tail(s) \o t)[i] = IF i <= Len(s) - 1 THEN Tail(s)[i]
                                                    ELSE t[i - (Len(s) - 1)]
  BY <1>4, ConcatProperties
<1>7. \A i \in 1 .. Len(Tail(st)) : Tail(st)[i] = (Tail(s) \o t)[i]
  <2> SUFFICES ASSUME NEW i \in 1 .. Len(Tail(st))
               PROVE  Tail(st)[i] = (Tail(s) \o t)[i]
    OBVIOUS
  <2>1. i \in 1 .. Len(s) - 1 + Len(t) /\ i + 1 \in 1 .. Len(s) + Len(t)
    BY <1>1, <1>5
  <2>2. Tail(st)[i] = st[i + 1]
    BY <1>5
  <2>3. CASE i <= Len(s) - 1
    <3>1. i \in 1 .. Len(s) - 1 /\ i + 1 <= Len(s)
      BY <1>1, <2>1, <2>3
    <3> QED
      BY <1>1, <1>4, <1>6, <2>1, <2>2, <2>3, <3>1
  <2>4. CASE ~(i <= Len(s) - 1)
    <3>1. ~(i + 1 <= Len(s)) /\ (i + 1) - Len(s) = i - (Len(s) - 1)
      BY <1>1, <2>1, <2>4
    <3> QED
      BY <1>1, <1>6, <2>1, <2>2, <2>4, <3>1
  <2> QED
    BY <2>3, <2>4
<1>8. Len(Tail(st)) = Len(Tail(s) \o t)
  BY <1>1, <1>5, <1>6
<1>9. Tail(st) = Tail(s) \o t
  BY <1>5, <1>6, <1>7, <1>8, SeqEqual
<1> QED
  BY <1>2, <1>3, <1>9

\* Only the loop of do_calling_wakeup_functors sees a batch.
LEMMA NextBatchInv == BatchInv /\ [Next]_vars => BatchInv'
<1> SUFFICES ASSUME BatchInv, [Next]_vars PROVE BatchInv'
  OBVIOUS
<1>0. TypeOK'
  BY NextTypeOK DEF BatchInv
<1> QED
  BY <1>0 DEF BatchInv, Next, LoopStep, vars, Push, Quit, Wakeup, QueueBeforeLoop,
     PollReturn, PollTimeout, Loop, While, HandleRead, HandleIO, BeginCalling, Swap,
     RunFunctor, EndCalling

\* A push, by any thread, submits one functor.
LEMMA AppendSubmits ==
    ASSUME TypeOK, NEW f \in Functors,
           wakeup_functors_' = Append(wakeup_functors_, f),
           UNCHANGED <<functors, ran>>
    PROVE  Executor!Submit
<1>1. functors \o Append(wakeup_functors_, f)
          = Append(functors \o wakeup_functors_, f)
  BY ConcatAppend DEF TypeOK
<1>2. (functors \o wakeup_functors_)' = Append(functors \o wakeup_functors_, f)
  BY <1>1
<1> QED
  BY <1>2 DEF Executor!Submit

\* Every step of the loop and of its callers is a step of the executor, or none.
LEMMA NextSimulates ==
    BatchInv /\ [Next]_vars => [Executor!Next]_<<functors \o wakeup_functors_, ran>>
<1> SUFFICES ASSUME BatchInv, [Next]_vars
             PROVE  Executor!Next \/ UNCHANGED <<functors \o wakeup_functors_, ran>>
  OBVIOUS
<1> USE DEF BatchInv
<1>1. ASSUME NEW t \in Threads, NEW f \in Functors, Push(t, f) PROVE Executor!Next
  BY <1>1, AppendSubmits DEF Push, Executor!Next
<1>2. CASE QueueBeforeLoop
  BY <1>2, AppendSubmits DEF QueueBeforeLoop, QueueOwn, Executor!Next
<1>3. CASE HandleIO /\ \E f \in Functors : QueueOwn(f)
  BY <1>3, AppendSubmits DEF HandleIO, QueueOwn, Executor!Next
<1>4. CASE Swap
  <2>1. functors = <<>> /\ wakeup_functors_ \in Seq(Functors)
    BY <1>4 DEF Swap, TypeOK
  <2>2. /\ <<>> \o wakeup_functors_ = wakeup_functors_
        /\ wakeup_functors_ \o <<>> = wakeup_functors_
    BY <2>1, ConcatEmptySeq
  <2> QED
    BY <1>4, <2>1, <2>2 DEF Swap
<1>5. CASE RunFunctor
  <2>1. /\ functors \o wakeup_functors_ # <<>>
        /\ Head(functors \o wakeup_functors_) = Head(functors)
        /\ Tail(functors \o wakeup_functors_) = Tail(functors) \o wakeup_functors_
        /\ Tail(functors) \in Seq(Functors)
    <3>1. functors \in Seq(Functors) /\ wakeup_functors_ \in Seq(Functors) /\ functors # <<>>
      BY <1>5 DEF RunFunctor, TypeOK
    <3>2. Tail(functors) \in Seq(Functors)
      BY <3>1, HeadTailProperties
    <3> QED
      BY <3>1, <3>2, ConcatHeadTail
  <2>2. CASE UNCHANGED wakeup_functors_
    BY <1>5, <2>1, <2>2, Zenon DEF RunFunctor, Executor!Next, Executor!Run
  <2>3. CASE \E f \in Functors : QueueOwn(f)
    <3>1. PICK f \in Functors : wakeup_functors_' = Append(wakeup_functors_, f)
      BY <2>3 DEF QueueOwn
    <3>2. Tail(functors) \o Append(wakeup_functors_, f)
              = Append(Tail(functors) \o wakeup_functors_, f)
      BY <2>1, ConcatAppend DEF TypeOK
    <3> QED
      BY <1>5, <2>1, <3>1, <3>2, Zenon DEF RunFunctor, Executor!Next, Executor!Run
  <2> QED
    BY <1>5, <2>2, <2>3 DEF RunFunctor, Callback
<1>6. CASE UNCHANGED <<functors, wakeup_functors_, ran>>
  BY <1>6
<1> QED
  BY <1>1, <1>2, <1>3, <1>4, <1>5, <1>6, Zenon DEF Next, LoopStep, vars, Quit, Wakeup,
     PollReturn, PollTimeout, Loop, While, HandleRead, HandleIO, Callback,
     BeginCalling, EndCalling

\* queue_in_own_loop and do_calling_wakeup_functors implement a serial executor:
\* each functor runs at most once, in the order it was pushed, one at a time.
THEOREM LoopIsSerialExecutor == Spec => SerialExecution
<1>1. Init => Executor!Init
  <2> SUFFICES ASSUME Init PROVE Executor!Init
    OBVIOUS
  <2>1. <<>> \o <<>> = <<>>
    BY EmptySeq, ConcatEmptySeq
  <2> QED
    BY <2>1 DEF Init, Executor!Init
<1>2. Init => BatchInv
  BY InitTypeOK DEF Init, BatchInv
<1> QED
  BY <1>1, <1>2, NextBatchInv, NextSimulates, PTL DEF Spec, SerialExecution, Executor!Spec

-----------------------------------------------------------------------------
(* Buffering: buffers and queues of bytes.                                 *)

\* A function on 1 .. n is a sequence of length n.
LEMMA FunctionIsSeq ==
    ASSUME NEW S, NEW n \in Nat, NEW f, f \in [1 .. n -> S]
    PROVE  f \in Seq(S) /\ Len(f) = n
  BY SMT

\* A sequence that starts as s and goes on as t is their concatenation.
LEMMA IsConcat ==
    ASSUME NEW s \in Seq(Byte), NEW t \in Seq(Byte), NEW u \in Seq(Byte),
           Len(u) = Len(s) + Len(t),
           \A i \in 1 .. Len(s) : u[i] = s[i],
           \A i \in 1 .. Len(t) : u[Len(s) + i] = t[i]
    PROVE  u = s \o t
  <1>1. s \o t \in Seq(Byte) /\ Len(s \o t) = Len(s) + Len(t)
    BY ConcatProperties
  <1>2. ASSUME NEW i \in 1 .. Len(u) PROVE u[i] = (s \o t)[i]
    <2>1. CASE i <= Len(s)
      BY <2>1, ConcatProperties
    <2>2. CASE i > Len(s)
      <3>1. i - Len(s) \in 1 .. Len(t) /\ u[Len(s) + (i - Len(s))] = t[i - Len(s)]
        BY <2>2
      <3> QED
        BY <2>2, <3>1, ConcatProperties
    <2> QED
      BY <2>1, <2>2
  <1> QED
    BY <1>1, <1>2, SeqEqual

\* What a buffer reads as is a sequence of bytes.
LEMMA Readable ==
    ASSUME NEW b, Shaped(b)
    PROVE  /\ to_string(b) \in Seq(Byte) /\ Len(to_string(b)) = readable_bytes(b)
           /\ readable_bytes(b) \in Nat
           /\ \A i \in 1 .. readable_bytes(b) : to_string(b)[i] = b.buffer_[b.reader_index_ + i]
  <1>1. /\ b.reader_index_ \in Nat /\ b.writer_index_ \in Nat /\ b.buffer_ \in Seq(Byte)
        /\ b.reader_index_ <= b.writer_index_ /\ b.writer_index_ <= Len(b.buffer_)
    BY DEF Shaped, Buffers, size
  <1>2. readable_bytes(b) \in Nat
    BY <1>1 DEF readable_bytes
  <1>3. to_string(b) \in [1 .. readable_bytes(b) -> Byte]
    BY <1>1, <1>2 DEF to_string, readable_bytes
  <1> QED
    BY <1>2, <1>3, FunctionIsSeq DEF to_string

\* Two buffers with the same readable bytes read as the same sequence.
LEMMA SameReadable ==
    ASSUME NEW b, NEW c, readable_bytes(b) = readable_bytes(c),
           \A i \in 1 .. readable_bytes(b) :
               b.buffer_[b.reader_index_ + i] = c.buffer_[c.reader_index_ + i]
    PROVE  to_string(b) = to_string(c)
  BY DEF to_string

\* The parts of Shaped, as the provers use them.
LEMMA ShapedParts ==
    ASSUME NEW b, Shaped(b)
    PROVE  /\ b = [max_size_ |-> b.max_size_, reader_index_ |-> b.reader_index_,
                   writer_index_ |-> b.writer_index_, buffer_ |-> b.buffer_]
           /\ b.max_size_ \in Nat \cup {kUnLimitSize}
           /\ b.reader_index_ \in Nat /\ b.writer_index_ \in Nat /\ b.buffer_ \in Seq(Byte)
           /\ b.reader_index_ <= b.writer_index_ /\ b.writer_index_ <= Len(b.buffer_)
           /\ Fixed(b) => b.max_size_ \in Nat /\ b.writer_index_ <= b.max_size_
           /\ size(b) = Len(b.buffer_) /\ size(b) \in Nat
  BY DEF Shaped, Buffers, size, Fixed

\* reset leaves an empty buffer.
LEMMA ResetEmpties ==
    ASSUME NEW b, Shaped(b)
    PROVE  Shaped(reset(b)) /\ to_string(reset(b)) = <<>> /\ Fixed(reset(b)) = Fixed(b)
  <1>0. /\ reset(b).max_size_ = b.max_size_ /\ reset(b).reader_index_ = 0
        /\ reset(b).writer_index_ = 0 /\ reset(b).buffer_ = b.buffer_
    BY ShapedParts DEF reset
  <1>a. reset(b) \in Buffers
    BY Zenon DEF Shaped, Buffers, reset
  <1>1. Shaped(reset(b)) /\ Fixed(reset(b)) = Fixed(b)
    BY <1>0, <1>a, ShapedParts DEF Shaped, size, Fixed
  <1>2. readable_bytes(reset(b)) = 0
    BY ShapedParts DEF readable_bytes, reset
  <1>3. to_string(reset(b)) \in Seq(Byte) /\ Len(to_string(reset(b))) = 0
    BY <1>1, <1>2, Readable
  <1> QED
    BY <1>1, <1>3, EmptySeq

\* has_read drops the first len bytes, and everything when there are no more.
LEMMA HasReadDrops ==
    ASSUME NEW b, Shaped(b), NEW n \in 0 .. readable_bytes(b)
    PROVE  /\ Shaped(has_read(b, n)) /\ Fixed(has_read(b, n)) = Fixed(b)
           /\ to_string(has_read(b, n)) = SubSeq(to_string(b), n + 1, Len(to_string(b)))
  <1>0. readable_bytes(b) \in Nat /\ to_string(b) \in Seq(Byte)
        /\ Len(to_string(b)) = readable_bytes(b)
    BY Readable
  <1> DEFINE rest == SubSeq(to_string(b), n + 1, Len(to_string(b)))
  <1>1. /\ rest \in Seq(Byte) /\ Len(rest) = readable_bytes(b) - n
        /\ \A i \in 1 .. readable_bytes(b) - n : rest[i] = to_string(b)[n + i]
    BY <1>0, SMT
  <1>2. CASE n < readable_bytes(b)
    <2>1. has_read(b, n) = [b EXCEPT !.reader_index_ = @ + n]
      BY <1>2 DEF has_read
    <2>2. Shaped(has_read(b, n)) /\ Fixed(has_read(b, n)) = Fixed(b)
      BY <2>1, <1>2, ShapedParts DEF Shaped, Buffers, size, Fixed, readable_bytes
    <2>3. readable_bytes(has_read(b, n)) = readable_bytes(b) - n
      BY <2>1, ShapedParts DEF readable_bytes
    <2>4. /\ to_string(has_read(b, n)) \in Seq(Byte)
          /\ Len(to_string(has_read(b, n))) = readable_bytes(b) - n
          /\ \A i \in 1 .. readable_bytes(b) - n :
                 to_string(has_read(b, n))[i] = b.buffer_[b.reader_index_ + n + i]
      <3>1. has_read(b, n).buffer_ = b.buffer_
            /\ has_read(b, n).reader_index_ = b.reader_index_ + n
        BY <2>1, ShapedParts
      <3> QED
        BY <2>2, <2>3, <3>1, Readable
    <2>5. ASSUME NEW i \in 1 .. readable_bytes(b) - n
          PROVE  to_string(b)[n + i] = b.buffer_[b.reader_index_ + n + i]
      <3>1. n + i \in 1 .. readable_bytes(b)
        BY <1>0
      <3>2. b.reader_index_ + (n + i) = b.reader_index_ + n + i
        BY ShapedParts
      <3> QED
        BY <3>1, <3>2, Readable
    <2>6. to_string(has_read(b, n)) = rest
      <3> HIDE DEF rest
      <3>1. ASSUME NEW i \in 1 .. readable_bytes(b) - n
            PROVE  to_string(has_read(b, n))[i] = rest[i]
        BY <1>1, <2>4, <2>5
      <3> QED
        BY <1>1, <2>4, <3>1, SeqEqual
    <2> QED
      BY <2>2, <2>6
  <1>3. CASE ~(n < readable_bytes(b))
    <2>1. has_read(b, n) = reset(b) /\ n = readable_bytes(b)
      BY <1>3, <1>0 DEF has_read
    <2>2. Len(rest) = 0
      BY <2>1, <1>1, <1>0
    <2>3. rest = <<>>
      BY <2>2, <1>1, EmptySeq
    <2> QED
      BY <2>1, <2>3, ResetEmpties, Zenon
  <1> QED
    BY <1>2, <1>3

\* Migration to the front changes nothing a reader sees and frees room.
LEMMA MigrationKeeps ==
    ASSUME NEW b, Shaped(b)
    PROVE  LET m == migration_buffer_data(b)
           IN /\ Shaped(m) /\ m.max_size_ = b.max_size_ /\ size(m) = size(b)
              /\ m.reader_index_ = 0 /\ m.writer_index_ <= b.writer_index_
              /\ to_string(m) = to_string(b)
  <1> DEFINE m == migration_buffer_data(b)
             moved == [i \in 1 .. size(b) |->
                          IF i <= readable_bytes(b) THEN b.buffer_[b.reader_index_ + i]
                          ELSE b.buffer_[i]]
  <1>1. CASE b.reader_index_ = 0
    <2>1. m = b
      BY <1>1 DEF migration_buffer_data
    <2> QED
      BY <1>1, <2>1, ShapedParts
  <1>2. CASE b.reader_index_ # 0
    <2>1. m = [b EXCEPT !.reader_index_ = 0, !.writer_index_ = readable_bytes(b),
                        !.buffer_ = moved]
      BY <1>2 DEF migration_buffer_data
    <2>2. readable_bytes(b) \in Nat /\ readable_bytes(b) <= b.writer_index_
          /\ b.reader_index_ + readable_bytes(b) <= size(b)
      BY ShapedParts DEF readable_bytes
    <2>3. moved \in [1 .. size(b) -> Byte]
      BY <2>2, ShapedParts
    <2>4. moved \in Seq(Byte) /\ Len(moved) = size(b)
      BY <2>3, ShapedParts, FunctionIsSeq
    <2>5. /\ m.max_size_ = b.max_size_ /\ m.reader_index_ = 0
          /\ m.writer_index_ = readable_bytes(b) /\ m.buffer_ = moved
      BY <2>1, ShapedParts
    <2>6. m \in Buffers
      <3> HIDE DEF moved, m
      <3>1. b \in Buffers
        BY DEF Shaped
      <3> QED
        BY <2>1, <2>2, <2>4, <3>1, Zenon DEF Buffers
    <2>7. Shaped(m)
      BY <2>2, <2>4, <2>5, <2>6, ShapedParts DEF Shaped, size, Fixed
    <2>8. readable_bytes(m) = readable_bytes(b)
      BY <2>5, <2>2 DEF readable_bytes
    <2>9. ASSUME NEW i \in 1 .. readable_bytes(b)
          PROVE  b.buffer_[b.reader_index_ + i] = m.buffer_[m.reader_index_ + i]
      BY <2>2, <2>5, ShapedParts
    <2>10. to_string(b) = to_string(m)
      BY <2>8, <2>9, SameReadable
    <2> QED
      BY <2>2, <2>4, <2>5, <2>7, <2>10 DEF size
  <1> QED
    BY <1>1, <1>2

\* make_writable_bytes shows a reader the same bytes; an unlimited buffer
\* has the room afterwards, and a buffer that says it has it does have it.
LEMMA MakesRoom ==
    ASSUME NEW b, Shaped(b), NEW len \in Nat
    PROVE  LET m == make_writable_bytes(b, len)
           IN /\ Shaped(m) /\ m.max_size_ = b.max_size_ /\ to_string(m) = to_string(b)
              /\ ~Fixed(b) => writable_bytes(m) >= len
              /\ writable_bytes(m) >= len => m.writer_index_ + len <= size(m)
  <1> DEFINE m == make_writable_bytes(b, len)
             longer == resize(b.buffer_, b.writer_index_ + len)
  <1>1. CASE real_writeable_bytes(b) < len /\ Fixed(b) /\ b.max_size_ - b.writer_index_ < len
    <2>1. m = b
      BY <1>1 DEF make_writable_bytes
    <2>2. ~(writable_bytes(b) >= len)
      BY <1>1, ShapedParts DEF writable_bytes
    <2> QED
      BY <1>1, <2>1, <2>2
  <1>2. CASE real_writeable_bytes(b) < len /\ ~(Fixed(b) /\ b.max_size_ - b.writer_index_ < len)
    <2>1. m = [b EXCEPT !.buffer_ = longer]
      BY <1>2 DEF make_writable_bytes
    <2>2. size(b) < b.writer_index_ + len
      BY <1>2, ShapedParts DEF real_writeable_bytes, Lower
    <2>3. longer \in [1 .. b.writer_index_ + len -> Byte]
      BY ShapedParts, BytesAssumption DEF resize
    <2>4. longer \in Seq(Byte) /\ Len(longer) = b.writer_index_ + len
      BY <2>3, ShapedParts, FunctionIsSeq
    <2>5. /\ m.max_size_ = b.max_size_ /\ m.reader_index_ = b.reader_index_
          /\ m.writer_index_ = b.writer_index_ /\ m.buffer_ = longer
      BY <2>1, ShapedParts
    <2>6. m \in Buffers
      BY <2>1, <2>4, ShapedParts DEF Buffers
    <2>7. Shaped(m)
      BY <2>4, <2>5, <2>6, ShapedParts DEF Shaped, size, Fixed
    <2>8. ASSUME NEW i \in 1 .. readable_bytes(b)
          PROVE  b.buffer_[b.reader_index_ + i] = m.buffer_[m.reader_index_ + i]
      <3>1. b.reader_index_ + i \in 1 .. Len(b.buffer_)
            /\ b.reader_index_ + i \in 1 .. b.writer_index_ + len
        BY ShapedParts DEF readable_bytes
      <3> QED
        BY <3>1, <2>5 DEF resize
    <2>9. readable_bytes(b) = readable_bytes(m)
      BY <2>5 DEF readable_bytes
    <2>10. to_string(b) = to_string(m)
      BY <2>8, <2>9, SameReadable
    <2>11. m.writer_index_ + len <= size(m) /\ (~Fixed(b) => writable_bytes(m) >= len)
      BY <2>4, <2>5, ShapedParts DEF size, writable_bytes, Fixed
    <2> QED
      BY <2>5, <2>7, <2>10, <2>11
  <1>3. CASE ~(real_writeable_bytes(b) < len)
    <2>1. m = migration_buffer_data(b)
      BY <1>3 DEF make_writable_bytes
    <2>2. /\ Shaped(m) /\ m.max_size_ = b.max_size_ /\ size(m) = size(b)
          /\ m.writer_index_ <= b.writer_index_ /\ to_string(m) = to_string(b)
      BY <2>1, MigrationKeeps
    <2>3. b.writer_index_ + len <= size(b)
      BY <1>3, ShapedParts DEF real_writeable_bytes, Lower
    <2>4. m.writer_index_ \in Nat /\ size(m) \in Nat
      BY <2>2, ShapedParts
    <2>5. m.writer_index_ + len <= size(m) /\ (~Fixed(b) => writable_bytes(m) >= len)
      BY <2>2, <2>3, <2>4, ShapedParts DEF writable_bytes, Fixed
    <2> QED
      BY <2>2, <2>5
  <1> QED
    BY <1>1, <1>2, <1>3

\* Copying data to begin_write() puts it after what was readable.
LEMMA WrittenAppends ==
    ASSUME NEW b, Shaped(b), NEW data \in Seq(Byte),
           b.writer_index_ + Len(data) <= size(b),
           Fixed(b) => b.writer_index_ + Len(data) <= b.max_size_
    PROVE  /\ Shaped(Written(b, data)) /\ Written(b, data).max_size_ = b.max_size_
           /\ Written(b, data).writer_index_ = b.writer_index_ + Len(data)
           /\ size(Written(b, data)) = size(b)
           /\ to_string(Written(b, data)) = to_string(b) \o data
  <1> DEFINE w == Written(b, data)
             filled == [i \in 1 .. size(b) |->
                            IF i > b.writer_index_ /\ i <= b.writer_index_ + Len(data)
                            THEN data[i - b.writer_index_] ELSE b.buffer_[i]]
  <1>0. Len(data) \in Nat /\ readable_bytes(b) \in Nat
    BY Readable
  <1>1. /\ w.max_size_ = b.max_size_ /\ w.reader_index_ = b.reader_index_
        /\ w.writer_index_ = b.writer_index_ + Len(data) /\ w.buffer_ = filled
        /\ w = [b EXCEPT !.writer_index_ = @ + Len(data), !.buffer_ = filled]
    BY ShapedParts DEF Written
  <1>2. filled \in [1 .. size(b) -> Byte]
    BY <1>0, ShapedParts
  <1>3. filled \in Seq(Byte) /\ Len(filled) = size(b)
    <2> HIDE DEF filled
    <2> QED
      BY <1>2, ShapedParts, FunctionIsSeq
  <1>4. w \in Buffers
    <2> HIDE DEF filled, w
    <2>1. b \in Buffers /\ b.writer_index_ + Len(data) \in Nat
      BY <1>0 DEF Shaped, Buffers
    <2> QED
      BY <1>1, <1>3, <2>1, Zenon DEF Buffers
  <1>5. Shaped(w) /\ size(w) = size(b)
    BY <1>0, <1>1, <1>3, <1>4, ShapedParts DEF Shaped, size, Fixed
  <1>6. readable_bytes(w) = readable_bytes(b) + Len(data)
    BY <1>0, <1>1, ShapedParts DEF readable_bytes
  <1>7. /\ to_string(w) \in Seq(Byte) /\ Len(to_string(w)) = readable_bytes(b) + Len(data)
        /\ \A i \in 1 .. readable_bytes(b) + Len(data) :
               to_string(w)[i] = filled[b.reader_index_ + i]
    <2> HIDE DEF filled, w
    <2>1. /\ to_string(w) \in Seq(Byte) /\ Len(to_string(w)) = readable_bytes(w)
          /\ \A i \in 1 .. readable_bytes(w) :
                 to_string(w)[i] = w.buffer_[w.reader_index_ + i]
      BY <1>5, Readable
    <2> QED
      BY <1>1, <1>6, <2>1
  <1>8. /\ to_string(b) \in Seq(Byte) /\ Len(to_string(b)) = readable_bytes(b)
        /\ \A i \in 1 .. readable_bytes(b) : to_string(b)[i] = b.buffer_[b.reader_index_ + i]
    BY Readable
  <1>9. ASSUME NEW i \in 1 .. Len(to_string(b)) PROVE to_string(w)[i] = to_string(b)[i]
    <2>1. b.reader_index_ + i \in 1 .. size(b) /\ b.reader_index_ + i <= b.writer_index_
      BY <1>8, ShapedParts DEF readable_bytes
    <2>2. filled[b.reader_index_ + i] = b.buffer_[b.reader_index_ + i]
      BY <2>1, ShapedParts
    <2> QED
      BY <1>0, <1>7, <1>8, <2>2
  <1>10. ASSUME NEW i \in 1 .. Len(data)
         PROVE  to_string(w)[Len(to_string(b)) + i] = data[i]
    <2>1. Len(to_string(b)) + i \in 1 .. readable_bytes(b) + Len(data)
      BY <1>0, <1>8
    <2>2. b.reader_index_ + (Len(to_string(b)) + i) = b.writer_index_ + i
      BY <1>8, ShapedParts DEF readable_bytes
    <2>3. b.writer_index_ + i \in 1 .. size(b) /\ (b.writer_index_ + i) - b.writer_index_ = i
      BY <1>0, ShapedParts
    <2>4. filled[b.writer_index_ + i] = data[i]
      BY <1>0, <2>3, ShapedParts
    <2> QED
      BY <1>7, <2>1, <2>2, <2>4
  <1>11. to_string(w) = to_string(b) \o data
    <2> HIDE DEF filled, w
    <2>1. Len(to_string(w)) = Len(to_string(b)) + Len(data)
      BY <1>7, <1>8
    <2> QED
      BY <1>7, <1>8, <1>9, <1>10, <2>1, IsConcat, Zenon
  <1> QED
    BY <1>1, <1>5, <1>11, Zenon

\* append adds all the data or nothing, and an unlimited buffer takes it.
LEMMA AppendAppends ==
    ASSUME NEW b, Shaped(b), NEW data \in Seq(Byte)
    PROVE  /\ Shaped(append(b, data)) /\ append(b, data).max_size_ = b.max_size_
           /\ Appends(b, Len(data)) => to_string(append(b, data)) = to_string(b) \o data
           /\ ~Appends(b, Len(data)) => to_string(append(b, data)) = to_string(b)
           /\ ~Fixed(b) => Appends(b, Len(data))
  <1> DEFINE m == make_writable_bytes(b, Len(data))
  <1>1. /\ Shaped(m) /\ m.max_size_ = b.max_size_ /\ to_string(m) = to_string(b)
        /\ ~Fixed(b) => writable_bytes(m) >= Len(data)
        /\ writable_bytes(m) >= Len(data) => m.writer_index_ + Len(data) <= size(m)
    BY MakesRoom
  <1>2. CASE Appends(b, Len(data))
    <2>1. append(b, data) = Written(m, data) /\ writable_bytes(m) >= Len(data)
      BY <1>2 DEF append, Appends
    <2>2. Fixed(m) => m.writer_index_ + Len(data) <= m.max_size_
      <3>1. Fixed(m) => m.max_size_ \in Nat /\ m.writer_index_ \in Nat
        BY <1>1, ShapedParts
      <3> QED
        BY <2>1, <3>1 DEF writable_bytes
    <2>3. /\ Shaped(Written(m, data)) /\ Written(m, data).max_size_ = m.max_size_
          /\ to_string(Written(m, data)) = to_string(m) \o data
      BY <1>1, <2>1, <2>2, WrittenAppends
    <2> QED
      BY <1>1, <1>2, <2>1, <2>3
  <1>3. CASE ~Appends(b, Len(data))
    <2>1. append(b, data) = m /\ ~(writable_bytes(m) >= Len(data))
      BY <1>3 DEF append, Appends
    <2> QED
      BY <1>1, <1>3, <2>1
  <1> QED
    BY <1>2, <1>3

\* read_fd adds what readv returned, the part in extrabuf included.
LEMMA ReadFdAppends ==
    ASSUME NEW b, Shaped(b), ~Fixed(b), NEW data \in Seq(Byte)
    PROVE  /\ Shaped(read_fd(b, data)) /\ read_fd(b, data).max_size_ = b.max_size_
           /\ to_string(read_fd(b, data)) = to_string(b) \o data
  <1> DEFINE writable == writable_bytes(b)
             first == SubSeq(data, 1, writable)
             extra == SubSeq(data, writable + 1, Len(data))
  <1>0. writable \in Nat /\ b.writer_index_ + writable = size(b)
    BY ShapedParts DEF writable_bytes
  <1>1. CASE Len(data) <= writable
    <2>1. read_fd(b, data) = Written(b, data)
      BY <1>1 DEF read_fd
    <2>2. b.writer_index_ + Len(data) <= size(b)
      BY <1>0, <1>1, ShapedParts
    <2> QED
      BY <2>1, <2>2, WrittenAppends
  <1>2. CASE Len(data) > writable
    <2>1. read_fd(b, data) = append(Written(b, first), extra)
      BY <1>0, <1>2 DEF read_fd
    <2>2. first \in Seq(Byte) /\ Len(first) = writable /\ extra \in Seq(Byte)
          /\ data = first \o extra
      <3>1. first \in Seq(Byte) /\ Len(first) = writable
            /\ \A i \in 1 .. writable : first[i] = data[i]
        BY <1>0, <1>2, SMT
      <3>2. extra \in Seq(Byte) /\ Len(extra) = Len(data) - writable
            /\ \A i \in 1 .. Len(data) - writable : extra[i] = data[writable + i]
        BY <1>0, <1>2, SMT
      <3> HIDE DEF first, extra, writable
      <3>3. Len(data) = Len(first) + Len(extra)
        BY <1>0, <3>1, <3>2
      <3>4. /\ \A i \in 1 .. Len(first) : data[i] = first[i]
            /\ \A i \in 1 .. Len(extra) : data[Len(first) + i] = extra[i]
        BY <3>1, <3>2
      <3>5. first \in Seq(Byte) /\ extra \in Seq(Byte)
        BY <3>1, <3>2
      <3>6. data = first \o extra
        BY <3>3, <3>4, <3>5, IsConcat
      <3> QED
        BY <3>1, <3>2, <3>6
    <2> HIDE DEF first, extra
    <2>3. b.writer_index_ + Len(first) <= size(b)
      BY <1>0, <2>2, ShapedParts
    <2>4. /\ Shaped(Written(b, first)) /\ Written(b, first).max_size_ = b.max_size_
          /\ to_string(Written(b, first)) = to_string(b) \o first
      BY <2>2, <2>3, WrittenAppends
    <2>5. ~Fixed(Written(b, first))
      BY <2>4 DEF Fixed
    <2>6. /\ Shaped(append(Written(b, first), extra))
          /\ append(Written(b, first), extra).max_size_ = b.max_size_
          /\ to_string(append(Written(b, first), extra)) = (to_string(b) \o first) \o extra
      BY <2>2, <2>4, <2>5, AppendAppends, Zenon
    <2>7. (to_string(b) \o first) \o extra = to_string(b) \o data
      <3>1. to_string(b) \in Seq(Byte)
        BY Readable
      <3>2. (to_string(b) \o first) \o extra = to_string(b) \o (first \o extra)
        BY <2>2, <3>1, ConcatAssociative
      <3> QED
        BY <2>2, <3>2
    <2> QED
      BY <2>1, <2>6, <2>7
  <1> QED
    BY <1>0, <1>1, <1>2

\* shrink cuts the vector to the readable bytes.
LEMMA ShrinkKeeps ==
    ASSUME NEW b, Shaped(b)
    PROVE  /\ Shaped(shrink(b)) /\ shrink(b).max_size_ = b.max_size_
           /\ to_string(shrink(b)) = to_string(b)
  <1> DEFINE m == migration_buffer_data(b)
             cut == [i \in 1 .. readable_bytes(m) |-> m.buffer_[i]]
             s == shrink(b)
  <1>1. Shaped(m) /\ m.max_size_ = b.max_size_ /\ m.reader_index_ = 0 /\ to_string(m) = to_string(b)
    BY MigrationKeeps
  <1>2. s = [m EXCEPT !.buffer_ = cut]
    BY DEF shrink
  <1> HIDE DEF m, s
  <1>3. /\ m \in Buffers /\ m.writer_index_ \in Nat /\ m.buffer_ \in Seq(Byte)
        /\ m.writer_index_ <= Len(m.buffer_) /\ readable_bytes(m) = m.writer_index_
        /\ Fixed(m) => m.writer_index_ <= m.max_size_
    BY <1>1, ShapedParts DEF Shaped, readable_bytes
  <1>4. cut \in [1 .. readable_bytes(m) -> Byte]
    BY <1>3
  <1>5. cut \in Seq(Byte) /\ Len(cut) = m.writer_index_
    <2> HIDE DEF cut
    <2> QED
      BY <1>3, <1>4, FunctionIsSeq
  <1>6. /\ s.max_size_ = m.max_size_ /\ s.reader_index_ = 0 /\ s.writer_index_ = m.writer_index_
        /\ s.buffer_ = cut /\ s \in Buffers
    <2> HIDE DEF cut
    <2> QED
      BY <1>1, <1>2, <1>3, <1>5 DEF Buffers
  <1>7. Shaped(s)
    <2> HIDE DEF cut
    <2> QED
      BY <1>3, <1>5, <1>6 DEF Shaped, size, Fixed
  <1>8. readable_bytes(m) = readable_bytes(s)
    BY <1>1, <1>6 DEF readable_bytes
  <1>9. ASSUME NEW i \in 1 .. readable_bytes(m)
        PROVE  m.buffer_[m.reader_index_ + i] = s.buffer_[s.reader_index_ + i]
    BY <1>1, <1>6
  <1>10. to_string(m) = to_string(s)
    BY <1>8, <1>9, SameReadable
  <1> QED
    BY <1>1, <1>6, <1>7, <1>10 DEF s

\* A new buffer is empty.
LEMMA NewIsEmpty ==
    ASSUME NEW limit \in Limits
    PROVE  Shaped(ByteBuffer(limit, InitSize)) /\ to_string(ByteBuffer(limit, InitSize)) = <<>>
  <1> DEFINE n == IF limit > 0 THEN limit ELSE InitSize
             b == ByteBuffer(limit, InitSize)
  <1>1. limit \in Nat \cup {kUnLimitSize} /\ n \in Nat
    BY SizesAssumption DEF kUnLimitSize
  <1>2. Zeros(n) \in Seq(Byte) /\ Len(Zeros(n)) = n
    <2> HIDE DEF n
    <2>1. Zeros(n) \in [1 .. n -> Byte]
      BY <1>1, BytesAssumption DEF Zeros
    <2> QED
      BY <1>1, <2>1, FunctionIsSeq
  <1>3. b = [max_size_ |-> limit, reader_index_ |-> 0, writer_index_ |-> 0, buffer_ |-> Zeros(n)]
    BY DEF ByteBuffer
  <1> HIDE DEF b, n
  <1>4. Shaped(b) /\ readable_bytes(b) = 0
    BY <1>1, <1>2, <1>3 DEF Shaped, Buffers, size, Fixed, kUnLimitSize, readable_bytes
  <1>5. to_string(b) = <<>>
    BY <1>4, Readable, EmptySeq
  <1> QED
    BY <1>4, <1>5 DEF b

\* What a move leaves behind is an empty buffer.
LEMMA MovedFromEmpty ==
    ASSUME NEW b, Shaped(b)
    PROVE  /\ Shaped(MoveFrom(b)) /\ to_string(MoveFrom(b)) = <<>>
           /\ MoveFrom(b).max_size_ = b.max_size_
  <1>1. /\ Shaped(reset(b)) /\ reset(b).reader_index_ = 0 /\ reset(b).writer_index_ = 0
        /\ reset(b).max_size_ = b.max_size_
    <2>1. Shaped(reset(b))
      BY ResetEmpties
    <2>2. /\ reset(b).reader_index_ = 0 /\ reset(b).writer_index_ = 0
          /\ reset(b).max_size_ = b.max_size_
      BY ShapedParts DEF reset
    <2> QED
      BY <2>1, <2>2
  <1>2. reset(b) \in Buffers
    BY <1>1 DEF Shaped
  <1>3. /\ MoveFrom(b) \in Buffers /\ MoveFrom(b).reader_index_ = 0
        /\ MoveFrom(b).writer_index_ = 0 /\ MoveFrom(b).max_size_ = b.max_size_
        /\ MoveFrom(b).buffer_ = <<>>
    <2> DEFINE r == reset(b)
               v == <<>>
    <2>1. MoveFrom(b) = [r EXCEPT !.buffer_ = v]
      BY DEF MoveFrom
    <2>2. v \in Seq(Byte)
      OBVIOUS
    <2>3. r \in Buffers /\ r.reader_index_ = 0 /\ r.writer_index_ = 0 /\ r.max_size_ = b.max_size_
      BY <1>1, <1>2
    <2> HIDE DEF r, v
    <2>4. /\ MoveFrom(b) \in Buffers /\ MoveFrom(b).reader_index_ = 0
          /\ MoveFrom(b).writer_index_ = 0 /\ MoveFrom(b).max_size_ = b.max_size_
          /\ MoveFrom(b).buffer_ = v
      BY <2>1, <2>2, <2>3 DEF Buffers
    <2> QED
      BY <2>4 DEF v
  <1>4. Len(<<>>) = 0
    OBVIOUS
  <1>a. size(MoveFrom(b)) = 0
    BY <1>3, <1>4 DEF size
  <1>5. Shaped(MoveFrom(b)) /\ readable_bytes(MoveFrom(b)) = 0
    BY <1>3, <1>a, ShapedParts DEF Shaped, Fixed, readable_bytes
  <1>6. to_string(MoveFrom(b)) = <<>>
    BY <1>5, Readable, EmptySeq
  <1> QED
    BY <1>3, <1>5, <1>6

-----------------------------------------------------------------------------
\* The inductive invariant: every buffer is a buffer and is shaped.
BuffersInv == buf \in [Names -> Buffers] /\ AllShaped

\* What one call on one buffer does to the queues: the others keep theirs.
LEMMA OneBuffer ==
    ASSUME BuffersInv, NEW b \in Names, NEW new, Becomes(b, new), Shaped(new),
           new.max_size_ = buf[b].max_size_
    PROVE  /\ BuffersInv' /\ bounded' = bounded
           /\ content' = [content EXCEPT ![b] = to_string(new)]
  <1>1. buf' = [buf EXCEPT ![b] = new] /\ new \in Buffers /\ buf \in [Names -> Buffers]
    BY DEF Becomes, Shaped, BuffersInv
  <1>2. \A c \in Names : buf'[c] = IF c = b THEN new ELSE buf[c]
    BY <1>1
  <1>3. BuffersInv'
    BY <1>1, <1>2 DEF BuffersInv, AllShaped
  <1>4. \A c \in Names : Fixed(buf'[c]) = Fixed(buf[c])
    BY <1>2 DEF Fixed
  <1>5. bounded' = bounded
    BY <1>4 DEF bounded
  <1>6. content' = [content EXCEPT ![b] = to_string(new)]
    BY <1>2, Zenon DEF content
  <1> QED
    BY <1>3, <1>5, <1>6

\* A step of the buffers keeps the invariant and is a step of the queues.
LEMMA StepIsQueueStep ==
    ASSUME BuffersInv, [BuffersNext]_bvars
    PROVE  BuffersInv' /\ [Queue!Next]_<<content, bounded, last_call>>
  <1>0. \A c \in Names : /\ Shaped(buf[c]) /\ content[c] = to_string(buf[c])
                         /\ to_string(buf[c]) \in Seq(Byte) /\ bounded[c] = Fixed(buf[c])
    BY Readable DEF BuffersInv, AllShaped, content, bounded
  <1>1. ASSUME NEW b \in Names, AppendTo(b)
        PROVE  BuffersInv' /\ Queue!Next
    <2>1. PICK data \in Chunks : Becomes(b, append(buf[b], data))
                                 /\ Called(data, Appends(buf[b], Len(data)))
      BY <1>1 DEF AppendTo
    <2>2. data \in Seq(Byte) /\ last_call' = [data |-> data, ok |-> Appends(buf[b], Len(data))]
      BY <2>1, SizesAssumption DEF Called
    <2>3. /\ Shaped(append(buf[b], data)) /\ append(buf[b], data).max_size_ = buf[b].max_size_
          /\ Appends(buf[b], Len(data)) => to_string(append(buf[b], data)) = content[b] \o data
          /\ ~Appends(buf[b], Len(data)) => to_string(append(buf[b], data)) = content[b]
          /\ ~bounded[b] => Appends(buf[b], Len(data))
      <3>1. Shaped(buf[b]) /\ content[b] = to_string(buf[b]) /\ bounded[b] = Fixed(buf[b])
        BY <1>0
      <3>2. /\ Shaped(append(buf[b], data)) /\ append(buf[b], data).max_size_ = buf[b].max_size_
            /\ Appends(buf[b], Len(data)) =>
                   to_string(append(buf[b], data)) = to_string(buf[b]) \o data
            /\ ~Appends(buf[b], Len(data)) => to_string(append(buf[b], data)) = to_string(buf[b])
            /\ ~Fixed(buf[b]) => Appends(buf[b], Len(data))
        BY <2>2, <3>1, AppendAppends, Zenon
      <3> QED
        BY <3>1, <3>2, Zenon
    <2>4. /\ BuffersInv' /\ bounded' = bounded
          /\ content' = [content EXCEPT ![b] = to_string(append(buf[b], data))]
      BY <2>1, <2>3, OneBuffer
    <2>5. CASE Appends(buf[b], Len(data))
      <3>1. Queue!Put(b)
        BY <2>2, <2>3, <2>4, <2>5, Zenon DEF Queue!Put
      <3> QED
        BY <2>4, <3>1 DEF Queue!Next
    <2>6. CASE ~Appends(buf[b], Len(data))
      <3>1. content' = content
        BY <2>3, <2>4, <2>6, Zenon DEF content
      <3>2. Queue!Refuse(b)
        BY <2>2, <2>3, <2>4, <2>6, <3>1 DEF Queue!Refuse
      <3> QED
        BY <2>4, <3>2 DEF Queue!Next
    <2> QED
      BY <2>5, <2>6
  <1>2. ASSUME NEW b \in Names, ReadFd(b)
        PROVE  BuffersInv' /\ Queue!Next
    <2>1. PICK data \in Chunks : ~Fixed(buf[b]) /\ Becomes(b, read_fd(buf[b], data))
                                 /\ Called(data, TRUE)
      BY <1>2, Zenon DEF ReadFd
    <2>2. data \in Seq(Byte) /\ last_call' = [data |-> data, ok |-> TRUE]
      BY <2>1, SizesAssumption DEF Called
    <2>3. /\ Shaped(read_fd(buf[b], data)) /\ read_fd(buf[b], data).max_size_ = buf[b].max_size_
          /\ to_string(read_fd(buf[b], data)) = content[b] \o data
      BY <1>0, <2>1, <2>2, ReadFdAppends, Zenon
    <2>4. /\ BuffersInv' /\ bounded' = bounded
          /\ content' = [content EXCEPT ![b] = content[b] \o data]
      BY <2>1, <2>3, OneBuffer
    <2>5. Queue!Put(b)
      BY <2>2, <2>4 DEF Queue!Put
    <2> QED
      BY <2>4, <2>5 DEF Queue!Next
  <1>3. ASSUME NEW b \in Names, TakenAsString(b)
        PROVE  BuffersInv' /\ Queue!Next
    <2>1. PICK n \in 0 .. readable_bytes(buf[b]) :
              /\ Becomes(b, has_read(buf[b], n))
              /\ Called(SubSeq(to_string(buf[b]), 1, n), TRUE)
      BY <1>3, Zenon DEF TakenAsString
    <2>2. /\ Shaped(has_read(buf[b], n))
          /\ to_string(has_read(buf[b], n)) = SubSeq(content[b], n + 1, Len(content[b]))
      BY <1>0, HasReadDrops
    <2>3. has_read(buf[b], n).max_size_ = buf[b].max_size_
      BY <1>0, ShapedParts DEF has_read, reset
    <2>4. /\ BuffersInv' /\ bounded' = bounded
          /\ content' = [content EXCEPT ![b] = SubSeq(content[b], n + 1, Len(content[b]))]
      BY <2>1, <2>2, <2>3, OneBuffer
    <2>5. n \in 0 .. Len(content[b])
      BY <1>0, Readable
    <2>6. Queue!Take(b)
      BY <1>0, <2>1, <2>4, <2>5, Zenon DEF Queue!Take, Called
    <2> QED
      BY <2>4, <2>6 DEF Queue!Next
  <1>4. ASSUME NEW b \in Names, HasReadAll(b)
        PROVE  BuffersInv' /\ Queue!Next
    <2>1. Becomes(b, reset(buf[b])) /\ last_call' = [data |-> content[b], ok |-> TRUE]
      BY <1>0, <1>4, Zenon DEF HasReadAll, Called
    <2>2. Shaped(reset(buf[b])) /\ to_string(reset(buf[b])) = <<>>
      BY <1>0, ResetEmpties
    <2>3. reset(buf[b]).max_size_ = buf[b].max_size_
      BY <1>0, ShapedParts DEF reset
    <2>4. BuffersInv' /\ bounded' = bounded /\ content' = [content EXCEPT ![b] = <<>>]
      BY <2>1, <2>2, <2>3, OneBuffer
    <2>5. /\ Len(content[b]) \in 0 .. Len(content[b])
          /\ SubSeq(content[b], 1, Len(content[b])) = content[b]
          /\ SubSeq(content[b], Len(content[b]) + 1, Len(content[b])) = <<>>
      <3>1. content[b] \in Seq(Byte) /\ Len(content[b]) \in Nat
        BY <1>0
      <3>2. SubSeq(content[b], Len(content[b]) + 1, Len(content[b])) \in Seq(Byte)
            /\ Len(SubSeq(content[b], Len(content[b]) + 1, Len(content[b]))) = 0
        BY <3>1, SMT
      <3>3. SubSeq(content[b], Len(content[b]) + 1, Len(content[b])) = <<>>
        BY <3>2, EmptySeq
      <3>4. SubSeq(content[b], 1, Len(content[b])) = content[b]
        BY <3>1, SubSeqFull
      <3> QED
        BY <3>1, <3>3, <3>4
    <2>6. Queue!Take(b)
      BY <2>1, <2>4, <2>5, Zenon DEF Queue!Take
    <2> QED
      BY <2>4, <2>6 DEF Queue!Next
  <1>5. ASSUME NEW b \in Names, Shrink(b)
        PROVE  BuffersInv' /\ Queue!Next
    <2>1. Becomes(b, shrink(buf[b])) /\ last_call' = [data |-> <<>>, ok |-> TRUE]
      BY <1>5 DEF Shrink, Called
    <2>2. /\ Shaped(shrink(buf[b])) /\ shrink(buf[b]).max_size_ = buf[b].max_size_
          /\ to_string(shrink(buf[b])) = content[b]
      BY <1>0, ShrinkKeeps
    <2>3. BuffersInv' /\ bounded' = bounded /\ content' = [content EXCEPT ![b] = content[b]]
      BY <2>1, <2>2, OneBuffer
    <2>4. content[b] \o <<>> = content[b] /\ <<>> \in Seq(Byte)
      BY <1>0, ConcatEmptySeq
    <2>5. Queue!Put(b)
      BY <2>1, <2>3, <2>4 DEF Queue!Put
    <2> QED
      BY <2>3, <2>5 DEF Queue!Next
  <1>6. ASSUME NEW b \in Names, NEW a \in Names \ {b}, MoveConstruct(a, b) \/ MoveAssign(a, b)
        PROVE  BuffersInv' /\ Queue!Next
    <2>1. PICK left : /\ buf' = [buf EXCEPT ![b] = buf[a], ![a] = left] /\ last_call' = last_call
                      /\ Shaped(left) /\ to_string(left) = <<>>
                      /\ Fixed(left) \in {bounded[a], bounded[b]}
      <3>1. CASE MoveConstruct(a, b)
        <4>1. Fixed(MoveFrom(buf[a])) = bounded[a]
          BY <1>0, MovedFromEmpty DEF Fixed
        <4> QED
          BY <1>0, <3>1, <4>1, MovedFromEmpty, Zenon DEF MoveConstruct, MoveTo
      <3>2. CASE MoveAssign(a, b)
        <4>1. Shaped(reset(buf[b])) /\ to_string(reset(buf[b])) = <<>>
              /\ Fixed(reset(buf[b])) = bounded[b]
          BY <1>0, ResetEmpties
        <4>2. buf' = [buf EXCEPT ![b] = buf[a], ![a] = reset(buf[b])] /\ last_call' = last_call
          BY <3>2 DEF MoveAssign, AssignFrom
        <4> QED
          BY <4>1, <4>2, Zenon
      <3> QED
        BY <1>6, <3>1, <3>2
    <2>2. \A c \in Names : buf'[c] = IF c = a THEN left ELSE IF c = b THEN buf[a] ELSE buf[c]
      BY <2>1 DEF BuffersInv
    <2>3. BuffersInv'
      <3>1. left \in Buffers
        BY <2>1 DEF Shaped
      <3>2. buf' \in [Names -> Buffers]
        BY <2>1, <3>1 DEF BuffersInv
      <3>3. AllShaped'
        BY <2>1, <2>2 DEF BuffersInv, AllShaped
      <3> QED
        BY <3>2, <3>3 DEF BuffersInv
    <2>4. content' = [content EXCEPT ![a] = <<>>, ![b] = content[a]]
      <3> DEFINE empty == <<>>
      <3>1. to_string(left) = empty
        BY <2>1
      <3> HIDE DEF empty
      <3>2. content' = [c \in Names |-> IF c = a THEN empty ELSE IF c = b THEN content[a]
                                        ELSE content[c]]
        BY <2>2, <3>1 DEF content
      <3>3. [content EXCEPT ![a] = empty, ![b] = content[a]]
            = [c \in Names |-> IF c = a THEN empty ELSE IF c = b THEN content[a] ELSE content[c]]
        BY Zenon DEF content
      <3> QED
        BY <3>2, <3>3 DEF empty
    <2>5. bounded' = [bounded EXCEPT ![a] = Fixed(left), ![b] = bounded[a]]
      <3>1. bounded' = [c \in Names |-> IF c = a THEN Fixed(left) ELSE IF c = b THEN bounded[a]
                                        ELSE bounded[c]]
        BY <2>2, Zenon DEF bounded
      <3>2. [bounded EXCEPT ![a] = Fixed(left), ![b] = bounded[a]]
            = [c \in Names |-> IF c = a THEN Fixed(left) ELSE IF c = b THEN bounded[a]
                               ELSE bounded[c]]
        BY Zenon DEF bounded
      <3> QED
        BY <3>1, <3>2
    <2>6. Queue!Move(a, b)
      BY <2>1, <2>4, <2>5, Zenon DEF Queue!Move
    <2> QED
      BY <2>3, <2>6 DEF Queue!Next
  <1>7. CASE UNCHANGED bvars
    BY <1>7 DEF bvars, BuffersInv, AllShaped, content, bounded
  <1> QED
    BY <1>1, <1>2, <1>3, <1>4, <1>5, <1>6, <1>7 DEF BuffersNext

\* The buffers start shaped and as empty queues.
LEMMA InitIsQueueInit ==
    ASSUME BuffersInit
    PROVE  BuffersInv /\ Queue!Init
  <1>1. PICK limit \in [Names -> Limits] : buf = [b \in Names |-> ByteBuffer(limit[b], InitSize)]
    BY DEF BuffersInit
  <1>2. \A b \in Names : Shaped(buf[b]) /\ to_string(buf[b]) = <<>>
    BY <1>1, NewIsEmpty
  <1>3. BuffersInv
    BY <1>1, <1>2 DEF BuffersInv, AllShaped, Shaped
  <1>4. content = [b \in Names |-> <<>>] /\ bounded \in [Names -> BOOLEAN]
    BY <1>2 DEF content, bounded, Fixed
  <1> QED
    BY <1>3, <1>4 DEF Queue!Init, BuffersInit

\* The order of the indices drawn above class ByteBuffer holds after any
\* sequence of calls.
THEOREM IndicesInOrder == BuffersSpec => []AllShaped
  <1>1. BuffersInit => BuffersInv
    BY InitIsQueueInit
  <1>2. BuffersInv /\ [BuffersNext]_bvars => BuffersInv'
    BY StepIsQueueStep
  <1>3. BuffersInv => AllShaped
    BY DEF BuffersInv
  <1> QED
    BY <1>1, <1>2, <1>3, PTL DEF BuffersSpec

\* The buffers implement the queues of bytes they promise to be, whatever
\* their limits, their initial size and the data.
THEOREM BuffersImplementQueues == BuffersSpec => BuffersAreQueues
  <1>1. BuffersInit => BuffersInv /\ Queue!Init
    BY InitIsQueueInit
  <1>2. BuffersInv /\ [BuffersNext]_bvars => BuffersInv' /\ [Queue!Next]_<<content, bounded, last_call>>
    BY StepIsQueueStep
  <1> QED
    BY <1>1, <1>2, PTL DEF BuffersSpec, BuffersAreQueues, Queue!Spec
=============================================================================
