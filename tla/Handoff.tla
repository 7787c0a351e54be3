------------------------------- MODULE Handoff -------------------------------
(***************************************************************************)
(* What a caller that hands a closure to another thread may rely on.       *)
(* Both hand-offs of the server promise it: EventLoop::addtask (a worker   *)
(* to an IO thread) and Threadpool/Tpl::enqueue (any thread to a pool).    *)
(* Closures start in the order in which they were posted, none twice, and  *)
(* as long as the receiver is not closed each posted one is started.       *)
(***************************************************************************)
EXTENDS Sequences

CONSTANT Task

VARIABLES pending,    \* posted and not yet started, oldest first
          delivered,  \* started, in starting order
          closed      \* the receiver was told to stop

vars == <<pending, delivered, closed>>

Init == pending = <<>> /\ delivered = <<>> /\ closed = FALSE

Post(fn) == pending' = Append(pending, fn) /\ UNCHANGED <<delivered, closed>>

Deliver ==
  /\ pending # <<>>
  /\ delivered' = Append(delivered, Head(pending))
  /\ pending' = Tail(pending)
  /\ UNCHANGED closed

Close == closed' = TRUE /\ UNCHANGED <<pending, delivered>>

Next == (\E fn \in Task : Post(fn)) \/ Deliver \/ Close

Spec == Init /\ [][Next]_vars /\ WF_vars(~closed /\ Deliver)
=============================================================================
