---------------------------- MODULE FifoExecutor ----------------------------
(***************************************************************************)
(* What EventLoop::queueInLoop promises its callers, with the threads, the *)
(* mutex, the eventfd and the batches left out: the submitted functors     *)
(* form one queue, and the loop thread runs them one at a time, each once, *)
(* in the order of their submission.                                       *)
(***************************************************************************)
EXTENDS Naturals, Sequences

CONSTANT Functor      \* the functors that may be submitted

VARIABLES queue,      \* submitted and not yet run, oldest first
          executed    \* run, in the order in which they were started

vars == <<queue, executed>>

Init == queue = <<>> /\ executed = <<>>

Submit(f) == /\ queue' = Append(queue, f)
             /\ UNCHANGED executed

Execute == /\ queue # <<>>
           /\ executed' = Append(executed, Head(queue))
           /\ queue' = Tail(queue)

Next == Execute \/ \E f \in Functor : Submit(f)

Spec == Init /\ [][Next]_vars
=============================================================================
