--------------------------- MODULE SerialExecutor ---------------------------
(***************************************************************************)
(* What run_in_own_loop and queue_in_own_loop promise their callers        *)
(* (include/EventLoop.h, "Internal method"): the submitted functors run    *)
(* one at a time, each exactly once, in the order they were submitted.     *)
(* Modules that model a component living in a loop use this promise.       *)
(***************************************************************************)
EXTENDS Sequences

CONSTANT Functors

VARIABLES queue,    \* submitted and not yet run, oldest first
          done      \* run, oldest first

Init == queue = <<>> /\ done = <<>>

Submit == /\ \E f \in Functors : queue' = Append(queue, f)
          /\ UNCHANGED done

\* The oldest functor runs; it may itself submit one.
Run == /\ queue # <<>>
       /\ done' = Append(done, Head(queue))
       /\ \/ queue' = Tail(queue)
          \/ \E f \in Functors : queue' = Append(Tail(queue), f)

Next == Submit \/ Run

Spec == Init /\ [][Next]_<<queue, done>>
=============================================================================
