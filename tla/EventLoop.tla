------------------------------ MODULE EventLoop ------------------------------
(***************************************************************************)
(* One sub event loop of the multi-threaded reactor: EventLoop::run in its *)
(* IO thread, EventLoop::addtask called by worker threads (through         *)
(* Connection::sendmessage), and EventLoop::stop called by the thread that *)
(* shuts the server down.  The loop blocks only in epoll_wait; an eventfd  *)
(* (wakeupfd_), watched level-triggered, is what gets it out.              *)
(*                                                                         *)
(* The events of client descriptors are abstracted to "epoll_wait returned *)
(* without the wakeup channel": their handlers run in the loop's thread    *)
(* and use neither task_queue nor wakeupfd_ (is_inloop_thread sends them   *)
(* straight to send_inloop).                                               *)
(***************************************************************************)
EXTENDS Naturals, Sequences

CONSTANTS Caller,  \* the threads that call addtask
          Task,    \* the closures they pass, each passed once
          Loop,    \* the loop's own thread
          Free     \* mutex_ has no holder

ASSUME ThreadsDiffer == Loop # Free

VARIABLES
  task_queue,  \* EventLoop::task_queue
  mutex_,      \* EventLoop::mutex_: Loop while handle_wakeup drains, else Free
  wakeupfd_,   \* the eventfd's counter
  stop_,       \* EventLoop::stop_
  lpc,         \* where the loop's thread is in run and handle_wakeup
  woken,       \* the batch epoll_wait returned holds wakeup_channel
  cpc,         \* where each caller is in addtask
  arg,         \* the closure each caller passes (or last passed)
  spc,         \* where the shutting-down thread is in stop
  used,        \* history: the closures passed so far
  ran          \* history: the closures run, in order

vars == <<task_queue, mutex_, wakeupfd_, stop_, lpc, woken, cpc, arg, spc,
          used, ran>>

Init ==
  /\ task_queue = <<>> /\ mutex_ = Free /\ wakeupfd_ = 0 /\ stop_ = FALSE
  /\ lpc = "start" /\ woken = FALSE
  /\ cpc = [t \in Caller |-> "idle"] /\ arg \in [Caller -> Task]
  /\ spc = "idle"
  /\ used = {} /\ ran = <<>>

-----------------------------------------------------------------------------
(* The loop's thread. *)

\* The pool's thread enters run and learns its own id.
Enter ==
  /\ lpc = "start" /\ lpc' = "test"
  /\ UNCHANGED <<task_queue, mutex_, wakeupfd_, stop_, woken, cpc, arg, spc,
                 used, ran>>

\* Mutant: the eventfd is read after the queue has been drained and unlocked.
ReadThenTestStop ==
  /\ lpc = "test"
  /\ lpc' = IF stop_ THEN "done" ELSE "wait"
  /\ wakeupfd_' = 0
  /\ UNCHANGED <<task_queue, mutex_, stop_, woken, cpc, arg, spc, used, ran>>

\* while (!stop_)
TestStop ==
  /\ lpc = "test"
  /\ lpc' = IF stop_ THEN "done" ELSE "wait"
  /\ UNCHANGED <<task_queue, mutex_, wakeupfd_, stop_, woken, cpc, arg, spc,
                 used, ran>>

\* epoll_wait returns and reports the eventfd, readable while its counter is
\* not zero.
EpollWake ==
  /\ lpc = "wait" /\ wakeupfd_ > 0
  /\ lpc' = "events" /\ woken' = TRUE
  /\ UNCHANGED <<task_queue, mutex_, wakeupfd_, stop_, cpc, arg, spc, used, ran>>

\* epoll_wait returns for client descriptors only: the eventfd is not
\* readable, or MaxEvents other descriptors filled the batch.
EpollClients ==
  /\ lpc = "wait"
  /\ lpc' = "events" /\ woken' = FALSE
  /\ UNCHANGED <<task_queue, mutex_, wakeupfd_, stop_, cpc, arg, spc, used, ran>>

\* handleevent on wakeup_channel: handle_wakeup begins by reading the
\* eventfd, which resets it.  Without it in the batch, back to the test.
ReadWakeup ==
  /\ lpc = "events"
  /\ \/ woken /\ wakeupfd_' = 0 /\ lpc' = "lock"
     \/ ~woken /\ lpc' = "test" /\ UNCHANGED wakeupfd_
  /\ UNCHANGED <<task_queue, mutex_, stop_, woken, cpc, arg, spc, used, ran>>

LockQueue ==
  /\ lpc = "lock" /\ mutex_ = Free
  /\ lpc' = "drain" /\ mutex_' = Loop
  /\ UNCHANGED <<task_queue, wakeupfd_, stop_, woken, cpc, arg, spc, used, ran>>

\* Mutant: the queue is used as a stack.
RunTaskNewest ==
  /\ lpc = "drain" /\ task_queue # <<>>
  /\ ran' = Append(ran, task_queue[Len(task_queue)])
  /\ task_queue' = SubSeq(task_queue, 1, Len(task_queue) - 1)
  /\ UNCHANGED <<mutex_, wakeupfd_, stop_, lpc, woken, cpc, arg, spc, used>>

\* One iteration of while(!task_queue.empty()): move out the front, pop, run.
\* The lock stays held while the closure runs.
RunTask ==
  /\ lpc = "drain" /\ task_queue # <<>>
  /\ ran' = Append(ran, Head(task_queue))
  /\ task_queue' = Tail(task_queue)
  /\ UNCHANGED <<mutex_, wakeupfd_, stop_, lpc, woken, cpc, arg, spc, used>>

\* Mutant: back to epoll_wait without testing stop_.
UnlockQueueAndWait ==
  /\ lpc = "drain" /\ task_queue = <<>>
  /\ lpc' = "wait" /\ mutex_' = Free
  /\ UNCHANGED <<task_queue, wakeupfd_, stop_, woken, cpc, arg, spc, used, ran>>

\* The queue is empty: handle_wakeup returns and releases the lock.
UnlockQueue ==
  /\ lpc = "drain" /\ task_queue = <<>>
  /\ lpc' = "test" /\ mutex_' = Free
  /\ UNCHANGED <<task_queue, wakeupfd_, stop_, woken, cpc, arg, spc, used, ran>>

-----------------------------------------------------------------------------
(* addtask, in a caller's thread. *)

Call(t) ==
  /\ cpc[t] = "idle"
  /\ \E fn \in Task \ used :
       /\ arg' = [arg EXCEPT ![t] = fn]
       /\ used' = used \cup {fn}
  /\ cpc' = [cpc EXCEPT ![t] = "push"]
  /\ UNCHANGED <<task_queue, mutex_, wakeupfd_, stop_, lpc, woken, spc, ran>>

\* Mutant: lock() instead of lock_guard, never released.
PushKeepsLock(t) ==
  /\ cpc[t] = "push" /\ mutex_ = Free
  /\ task_queue' = Append(task_queue, arg[t])
  /\ mutex_' = t
  /\ cpc' = [cpc EXCEPT ![t] = "wakeup"]
  /\ UNCHANGED <<wakeupfd_, stop_, lpc, woken, arg, spc, used, ran>>

\* lock_guard, push, unlock.  Nothing else happens while the lock is held and
\* task_queue is read only under the lock, so this is one step.
Push(t) ==
  /\ cpc[t] = "push" /\ mutex_ = Free
  /\ task_queue' = Append(task_queue, arg[t])
  /\ cpc' = [cpc EXCEPT ![t] = "wakeup"]
  /\ UNCHANGED <<mutex_, wakeupfd_, stop_, lpc, woken, arg, spc, used, ran>>

\* wakeup(): write(wakeupfd_, 1) adds one to the counter.
Wakeup(t) ==
  /\ cpc[t] = "wakeup"
  /\ wakeupfd_' = wakeupfd_ + 1
  /\ cpc' = [cpc EXCEPT ![t] = "idle"]
  /\ UNCHANGED <<task_queue, mutex_, stop_, lpc, woken, arg, spc, used, ran>>

-----------------------------------------------------------------------------
(* stop, in the thread that shuts the server down. *)

\* Mutant: only the main loop is woken.
StopStoreOnly ==
  /\ spc = "idle" /\ spc' = "done"
  /\ stop_' = TRUE
  /\ UNCHANGED <<task_queue, mutex_, wakeupfd_, lpc, woken, cpc, arg, used, ran>>

StopStore ==
  /\ spc = "idle" /\ spc' = "wakeup"
  /\ stop_' = TRUE
  /\ UNCHANGED <<task_queue, mutex_, wakeupfd_, lpc, woken, cpc, arg, used, ran>>

StopWakeup ==
  /\ spc = "wakeup" /\ spc' = "done"
  /\ wakeupfd_' = wakeupfd_ + 1
  /\ UNCHANGED <<task_queue, mutex_, stop_, lpc, woken, cpc, arg, used, ran>>

-----------------------------------------------------------------------------
LoopStep ==
  \/ Enter \/ TestStop \/ EpollWake \/ ReadWakeup
  \/ LockQueue \/ RunTask \/ UnlockQueue

AddStep(t) == Push(t) \/ Wakeup(t)

Next ==
  \/ LoopStep \/ EpollClients
  \/ \E t \in Caller : Call(t) \/ AddStep(t)
  \/ StopStore \/ StopWakeup

Spec == Init /\ [][Next]_vars

\* The scheduler runs every thread that can take a step; nobody has to call
\* addtask or stop, and no client has to send anything.  The kernel puts a
\* reported level-triggered descriptor at the end of its ready list, so the
\* eventfd is reported even if client events keep filling the batch.
FairSpec ==
  /\ Spec
  /\ WF_vars(LoopStep) /\ SF_vars(EpollWake)
  /\ \A t \in Caller : WF_vars(AddStep(t))
  /\ WF_vars(StopWakeup)

-----------------------------------------------------------------------------
TypeOK ==
  /\ task_queue \in Seq(Task) /\ ran \in Seq(Task)
  /\ mutex_ \in {Loop, Free}
  /\ wakeupfd_ \in Nat
  /\ stop_ \in BOOLEAN /\ woken \in BOOLEAN
  /\ lpc \in {"start", "test", "wait", "events", "lock", "drain", "done"}
  /\ cpc \in [Caller -> {"idle", "push", "wakeup"}]
  /\ arg \in [Caller -> Task]
  /\ spc \in {"idle", "wakeup", "done"}
  /\ used \subseteq Task

\* When the loop is about to block in epoll_wait with nothing to wake it
\* (counter zero, no caller between push and wakeup), no closure is waiting
\* in the queue: reading the eventfd before draining, and writing it after
\* pushing, leaves no window in which a closure is forgotten.
NoLostWakeup ==
  lpc = "wait" /\ wakeupfd_ = 0 /\ (\A t \in Caller : cpc[t] # "wakeup")
    => task_queue = <<>>

\* Once stop() has returned, the loop is not blocked without the eventfd
\* being readable, whatever callers and clients did in between.
StopIsNoticed == spc = "done" /\ lpc = "wait" => wakeupfd_ > 0

\* run() returns after stop(), although the loop may be blocked or draining.
StopEndsRun == stop_ ~> lpc = "done"

\* The loop implements the hand-off: closures run in the order in which they
\* were pushed, none is lost or repeated, and each is run unless stop_ is set.
H == INSTANCE Handoff WITH pending <- task_queue, delivered <- ran,
                           closed <- stop_
ImplementsHandoff == H!Spec
=============================================================================
