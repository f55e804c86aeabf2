----------------------------- MODULE MCServices -----------------------------
(***************************************************************************)
(* The parts in which threads, processes or the kernel take turns, in one  *)
(* run: a behaviour is one of the part it has picked, the others stay idle *)
(* in a state in which none of their fair actions is enabled.              *)
(***************************************************************************)
EXTENDS ThreadPool, EventLoopPool, BlockingQueue, Protorpc, Signals, Acceptor

\* A pool without threads that has been destroyed.
LoopsIdle ==
    /\ num_threads_ = 0 /\ quits = FALSE /\ loops_ = <<>> /\ base_at = "destroyed" /\ i = 1
    /\ asleep = FALSE /\ loop = FALSE
    /\ start_called_ = All(FALSE) /\ started_ = All(FALSE) /\ joined_ = All(FALSE)
    /\ latch_ = All(1) /\ owning_loop_ = All(FALSE) /\ exiting_ = All(FALSE)
    /\ tpc = All("none") /\ quit_ = All(FALSE) /\ check_failed = "no"

\* A queue whose threads have made all their calls.
QueueIdle ==
    /\ max_size_ = 0 /\ queue_ = <<>> /\ lock_ = MutexLock /\ empty_cv_ = {} /\ full_cv_ = {}
    /\ where = [t \in QueueThreads |-> "out"] /\ todo = [t \in QueueThreads |-> 0]
    /\ spurious = 0 /\ unsound = FALSE

\* An acceptor that has not been constructed.
AcceptorIdle == AcceptorInit /\ alone /\ has_cb

-----------------------------------------------------------------------------
VARIABLE part

servars == <<part, tvars, lpvars, qvars, rvars, sgvars, avars>>

ServicesInit ==
    /\ part \in {"threads", "loops", "queue", "rpc", "signals", "acceptor"}
    /\ IF part = "loops" THEN LoopsInit ELSE LoopsIdle
    /\ IF part = "queue" THEN QueueInit ELSE QueueIdle
    /\ IF part = "acceptor" THEN AcceptorInit ELSE AcceptorIdle
    /\ ThreadsInit /\ RpcInit /\ SignalsInit

ServicesNext ==
    /\ \/ part = "threads" /\ ThreadsNext /\ UNCHANGED <<lpvars, qvars, rvars, sgvars, avars>>
       \/ part = "loops" /\ LoopsNext /\ UNCHANGED <<tvars, qvars, rvars, sgvars, avars>>
       \/ part = "queue" /\ QueueNext /\ UNCHANGED <<tvars, lpvars, rvars, sgvars, avars>>
       \/ part = "rpc" /\ RpcNext /\ UNCHANGED <<tvars, lpvars, qvars, sgvars, avars>>
       \/ part = "signals" /\ SignalsNext /\ UNCHANGED <<tvars, lpvars, qvars, rvars, avars>>
       \/ part = "acceptor" /\ AcceptorNext /\ UNCHANGED <<tvars, lpvars, qvars, rvars, sgvars>>
    /\ UNCHANGED part

ServicesSpec ==
    /\ ServicesInit /\ [][ServicesNext]_servars
    /\ ThreadsFairness /\ LoopsFairness /\ QueueFairness /\ RpcFairness /\ SignalsFairness
    /\ AcceptorFairness
=============================================================================
