---------------------------- MODULE EventLoop_proof ----------------------------
(***************************************************************************)
(* EventLoop for every set of callers and closures: its type invariant, no *)
(* forgotten closure, stop() noticed, and every step a step of Handoff.    *)
(***************************************************************************)
EXTENDS EventLoop, TLAPS

\* The lock is the loop's exactly while it drains.
LockHeldWhileDraining == mutex_ = Loop <=> lpc = "drain"

\* A closure in the queue has somebody who will see to it: the eventfd is
\* readable, a caller is about to write it, or the loop is on its way to the
\* queue, having read the eventfd.
QueueHasWaker ==
  task_queue # <<>> =>
    \/ wakeupfd_ > 0
    \/ \E t \in Caller : cpc[t] = "wakeup"
    \/ lpc \in {"lock", "drain"}

\* stop() stores the flag before it writes the eventfd.
FlagBeforeWakeup == spc # "idle" => stop_

IInv ==
  /\ TypeOK /\ LockHeldWhileDraining
  /\ QueueHasWaker
  /\ FlagBeforeWakeup /\ StopIsNoticed

-----------------------------------------------------------------------------
LEMMA InitIInv == ASSUME Init PROVE IInv
<1>1. TypeOK
  <2>1. task_queue \in Seq(Task) /\ ran \in Seq(Task)
    BY DEF Init
  <2>2. cpc \in [Caller -> {"idle", "push", "wakeup"}]
    BY DEF Init
  <2>3. mutex_ \in {Loop, Free} /\ wakeupfd_ \in Nat /\ stop_ \in BOOLEAN
    BY DEF Init
  <2>4. woken \in BOOLEAN /\ arg \in [Caller -> Task] /\ used \subseteq Task
    BY DEF Init
  <2>5. QED  BY <2>1, <2>2, <2>3, <2>4 DEF Init, TypeOK
<1>2. LockHeldWhileDraining
  BY ThreadsDiffer DEF Init, LockHeldWhileDraining
<1>3. QueueHasWaker /\ FlagBeforeWakeup /\ StopIsNoticed
  BY DEF Init, QueueHasWaker, FlagBeforeWakeup, StopIsNoticed
<1>4. QED  BY <1>1, <1>2, <1>3 DEF IInv

\* Every action keeps the types: one step per action.
LEMMA TypeStep == ASSUME TypeOK, [Next]_vars PROVE TypeOK'
<1> USE DEF TypeOK
<1>1. CASE Enter  BY <1>1 DEF Enter
<1>2. CASE TestStop  BY <1>2 DEF TestStop
<1>3. CASE EpollWake  BY <1>3 DEF EpollWake
<1>4. CASE ReadWakeup  BY <1>4 DEF ReadWakeup
<1>5. CASE LockQueue  BY <1>5 DEF LockQueue
<1>6. CASE RunTask
  <2>1. Head(task_queue) \in Task /\ Tail(task_queue) \in Seq(Task)
    BY <1>6 DEF RunTask
  <2>2. QED  BY <1>6, <2>1 DEF RunTask
<1>7. CASE UnlockQueue  BY <1>7 DEF UnlockQueue
<1>8. CASE EpollClients  BY <1>8 DEF EpollClients
<1>9. ASSUME NEW t \in Caller, Call(t) PROVE TypeOK'
  BY <1>9 DEF Call
<1>10. ASSUME NEW t \in Caller, Push(t) PROVE TypeOK'
  BY <1>10 DEF Push
<1>11. ASSUME NEW t \in Caller, Wakeup(t) PROVE TypeOK'
  BY <1>11 DEF Wakeup
<1>12. CASE StopStore  BY <1>12 DEF StopStore
<1>13. CASE StopWakeup  BY <1>13 DEF StopWakeup
<1>14. CASE UNCHANGED vars  BY <1>14 DEF vars
<1>15. QED
  BY <1>1, <1>2, <1>3, <1>4, <1>5, <1>6, <1>7, <1>8, <1>9, <1>10, <1>11,
     <1>12, <1>13, <1>14 DEF Next, LoopStep, AddStep

\* Every action keeps the whole invariant: one step per action.
LEMMA StepIInv == ASSUME IInv, [Next]_vars PROVE IInv'
<1> SUFFICES (LockHeldWhileDraining /\ QueueHasWaker
               /\ FlagBeforeWakeup /\ StopIsNoticed)'
  BY TypeStep DEF IInv
<1> USE ThreadsDiffer DEF IInv, TypeOK, LockHeldWhileDraining, QueueHasWaker,
                          FlagBeforeWakeup, StopIsNoticed
<1>1. CASE Enter  BY <1>1 DEF Enter
<1>2. CASE TestStop  BY <1>2 DEF TestStop
<1>3. CASE EpollWake  BY <1>3 DEF EpollWake
<1>4. CASE ReadWakeup  BY <1>4 DEF ReadWakeup
<1>5. CASE LockQueue  BY <1>5 DEF LockQueue
<1>6. CASE RunTask  BY <1>6 DEF RunTask
<1>7. CASE UnlockQueue  BY <1>7 DEF UnlockQueue
<1>8. CASE EpollClients  BY <1>8 DEF EpollClients
<1>9. ASSUME NEW t \in Caller, Call(t)
      PROVE (LockHeldWhileDraining /\ QueueHasWaker
              /\ FlagBeforeWakeup /\ StopIsNoticed)'
  <2>1. \A u \in Caller : cpc[u] = "wakeup" => cpc'[u] = "wakeup"
    BY <1>9 DEF Call
  <2>2. QED  BY <1>9, <2>1 DEF Call
<1>10. ASSUME NEW t \in Caller, Push(t)
       PROVE (LockHeldWhileDraining /\ QueueHasWaker
               /\ FlagBeforeWakeup /\ StopIsNoticed)'
  <2>1. cpc'[t] = "wakeup"
    BY <1>10 DEF Push
  <2>2. QED  BY <1>10, <2>1 DEF Push
<1>11. ASSUME NEW t \in Caller, Wakeup(t)
       PROVE (LockHeldWhileDraining /\ QueueHasWaker
               /\ FlagBeforeWakeup /\ StopIsNoticed)'
  BY <1>11 DEF Wakeup
<1>12. CASE StopStore  BY <1>12 DEF StopStore
<1>13. CASE StopWakeup  BY <1>13 DEF StopWakeup
<1>14. CASE UNCHANGED vars  BY <1>14 DEF vars
<1>15. QED
  BY <1>1, <1>2, <1>3, <1>4, <1>5, <1>6, <1>7, <1>8, <1>9, <1>10, <1>11,
     <1>12, <1>13, <1>14 DEF Next, LoopStep, AddStep

LEMMA Invariance == Spec => []IInv
<1>1. Init => IInv  BY InitIInv
<1>2. IInv /\ [Next]_vars => IInv'  BY StepIInv
<1>3. QED  BY <1>1, <1>2, PTL DEF Spec

-----------------------------------------------------------------------------
\* Every variable of run, addtask and stop keeps its type.
THEOREM Typing == Spec => []TypeOK
<1>1. IInv => TypeOK  BY DEF IInv
<1>2. QED  BY <1>1, Invariance, PTL

\* However many threads call addtask, and wherever client events and the stop
\* request fall, the loop never blocks in epoll_wait on a zero eventfd with a
\* closure in its queue that nobody is about to announce.
THEOREM NothingForgotten == Spec => []NoLostWakeup
<1>1. IInv => NoLostWakeup
  BY DEF IInv, TypeOK, QueueHasWaker, NoLostWakeup
<1>2. QED  BY <1>1, Invariance, PTL

\* After stop() has returned the loop cannot block: it either is on its way
\* to the test of stop_ or has a readable eventfd.
THEOREM StopNoticed == Spec => []StopIsNoticed
<1>1. IInv => StopIsNoticed  BY DEF IInv
<1>2. QED  BY <1>1, Invariance, PTL

\* The safety half of ImplementsHandoff: the loop's queue and what it ran are
\* at every step those of the abstract hand-off, so closures start in the
\* order of the pushes, none is lost and none is run twice.
THEOREM HandoffSteps == Spec => H!Init /\ [][H!Next]_H!vars
<1>1. Init => H!Init
  BY DEF Init, H!Init
<1>2. ASSUME IInv, [Next]_vars PROVE [H!Next]_H!vars
  <2> USE DEF H!vars
  <2>1. CASE RunTask
    <3>1. H!Deliver  BY <2>1 DEF RunTask, H!Deliver
    <3>2. QED  BY <3>1 DEF H!Next
  <2>2. ASSUME NEW t \in Caller, Push(t) PROVE [H!Next]_H!vars
    <3>1. arg[t] \in Task  BY <1>2 DEF IInv, TypeOK
    <3>2. H!Post(arg[t])  BY <2>2 DEF Push, H!Post
    <3>3. QED  BY <3>1, <3>2 DEF H!Next
  <2>3. CASE StopStore
    <3>1. H!Close  BY <2>3 DEF StopStore, H!Close
    <3>2. QED  BY <3>1 DEF H!Next
  <2>4. CASE Enter \/ TestStop \/ EpollWake \/ ReadWakeup \/ LockQueue
             \/ UnlockQueue \/ EpollClients \/ StopWakeup \/ UNCHANGED vars
    BY <2>4 DEF Enter, TestStop, EpollWake, ReadWakeup, LockQueue,
       UnlockQueue, EpollClients, StopWakeup, vars
  <2>5. ASSUME NEW t \in Caller, Call(t) \/ Wakeup(t) PROVE UNCHANGED H!vars
    BY <2>5 DEF Call, Wakeup
  <2>6. QED
    BY <1>2, <2>1, <2>2, <2>3, <2>4, <2>5 DEF Next, LoopStep, AddStep
<1>3. QED  BY <1>1, <1>2, Invariance, PTL DEF Spec
=============================================================================
