--------------------------- MODULE Lifecycle_proof ---------------------------
(***************************************************************************)
(* Lifecycle for every number of IO threads and loops: its types, the pool *)
(* of IO threads used as module ThreadPool supposes, and no thread left    *)
(* that could use the server when it is freed, wherever the signal comes   *)
(* and whichever constructor fails.                                        *)
(***************************************************************************)
EXTENDS Lifecycle, TLAPS

\* How far the constructors are.  A thread of the pool does nothing before
\* there is a pool.
StartOK ==
  /\ ~PoolMade => made = 0 /\ \A t \in IoThread : wpc[t] = "lock"
  /\ mpc = "loop" => made < threadnum

\* A loop that closes a Connection has one.
CloseOK == \A l \in Loop : lpc[l] = "close" => conns[l] > 0

\* Each loop whose run has been entered and has not returned is run by a thread.
RunOK ==
  \A l \in Loop : lpc[l] \notin {"new", "left"} =>
    \E t \in IoThread : wpc[t] = "run" /\ task[t] = l

\* Main is inside enqueue where it says, and nowhere when exit runs.
EnqueueOK ==
  /\ ppc[Main] = "notify" <=> mpc = "notify"
  /\ xpc # "none" => mpc \notin {"enqueue", "notify"}

\* The order of destruction: the pool after Tpl, the server after the pool.
OrderOK ==
  /\ dpc # "alive" => xpc \in {"Threadpool", "server", "freed"}
  /\ xpc \in {"Threadpool", "server", "freed"} => tpl = "none" \/ Destroyed
  /\ xpc \in {"server", "freed"} /\ PoolMade =>
       \A t \in IoThread : wpc[t] = "exit"

IInv == TypeOK /\ StartOK /\ CloseOK /\ RunOK /\ EnqueueOK /\ OrderOK

-----------------------------------------------------------------------------
LEMMA LoopFacts ==
  /\ 1 \in Loop /\ Loop \subseteq Nat /\ IoThread \subseteq Nat
  /\ \A n \in 0 .. threadnum : 1 .. n \subseteq Loop
BY LifecycleAssumption DEF Loop, IoThread

\* The queue holds loops.
LEMMA QueueFacts ==
  ASSUME q \in Seq(Loop), q # <<>>
  PROVE  Head(q) \in Loop /\ Tail(q) \in Seq(Loop)
OBVIOUS

LEMMA InitOK == Init => IInv
<1> SUFFICES ASSUME Init PROVE IInv
  OBVIOUS
<1>1. TypeOK
  <2>1. Pool!TypeOK
    <3>1. Pool!Init  BY DEF Init
    <3>2. <<>> \in Seq(Loop)  OBVIOUS
    <3>3. QED  BY <3>1, <3>2 DEF Pool!Init, Pool!TypeOK
  <2>2. QED
    BY <2>1, LoopFacts, LifecycleAssumption DEF Init, TypeOK
<1>2. StartOK /\ CloseOK /\ RunOK /\ EnqueueOK /\ OrderOK
  BY LifecycleAssumption
  DEF Init, StartOK, PoolMade, CloseOK, RunOK, EnqueueOK, OrderOK, Destroyed, Pool!Init
<1>3. QED  BY <1>1, <1>2 DEF IInv

-----------------------------------------------------------------------------
(* The steps of main and of the constructors. *)

LEMMA BootStep == ASSUME IInv, Boot PROVE IInv'
<1> USE LoopFacts, LifecycleAssumption DEF IInv, Goto, At
<1>1. CASE InstallHandlers \/ Listen \/ MakePool \/ Publish
  <2> USE <1>1 DEF InstallHandlers, Listen, MakePool, Publish, loops, business, pool
  <2>1. TypeOK'  BY DEF TypeOK, Pool!TypeOK
  <2>2. StartOK' /\ CloseOK' /\ EnqueueOK'
    BY DEF StartOK, PoolMade, CloseOK, EnqueueOK
  <2>3. RunOK' /\ OrderOK'
    BY DEF RunOK, OrderOK, Destroyed
  <2>4. QED  BY <2>1, <2>2, <2>3
<1>2. CASE ListenFails \/ LoopFails
  <2> USE <1>2 DEF ListenFails, LoopFails, ExitAt, loops, business, pool
  <2>1. TypeOK'  BY DEF TypeOK, Pool!TypeOK
  <2>2. StartOK' /\ CloseOK' /\ EnqueueOK'
    BY DEF StartOK, PoolMade, CloseOK, EnqueueOK
  <2>3. RunOK' /\ OrderOK'
    BY DEF RunOK, OrderOK, Destroyed, PoolMade
  <2>4. QED  BY <2>1, <2>2, <2>3
<1>3. CASE MakeLoop
  <2> USE <1>3 DEF MakeLoop, loops, business, pool
  <2>1. TypeOK'  BY DEF TypeOK, Pool!TypeOK, StartOK
  <2>2. StartOK' /\ CloseOK' /\ EnqueueOK'
    BY DEF StartOK, PoolMade, CloseOK, EnqueueOK
  <2>3. RunOK' /\ OrderOK'
    BY DEF RunOK, OrderOK, Destroyed, PoolMade
  <2>4. QED  BY <2>1, <2>2, <2>3
<1>4. CASE Enqueue
  <2> USE <1>4 DEF Enqueue, loops, business, Pool!Emplace
  <2>1. TypeOK'
    <3>1. Pool!TypeOK'  BY DEF TypeOK, Pool!TypeOK
    <3>2. QED  BY <3>1 DEF TypeOK
  <2>2. StartOK' /\ CloseOK' /\ EnqueueOK'
    BY DEF StartOK, PoolMade, CloseOK, EnqueueOK, TypeOK, Pool!TypeOK
  <2>3. RunOK' /\ OrderOK'
    BY DEF RunOK, OrderOK, Destroyed, PoolMade
  <2>4. QED  BY <2>1, <2>2, <2>3
<1>5. CASE NotifyIo
  <2> USE <1>5 DEF NotifyIo, loops, business, Pool!NotifyOne
  <2>1. TypeOK'  BY DEF TypeOK, Pool!TypeOK, NextLoop
  <2>2. StartOK' /\ CloseOK' /\ EnqueueOK'
    BY DEF StartOK, PoolMade, CloseOK, EnqueueOK, NextLoop, TypeOK, Pool!TypeOK
  <2>3. RunOK' /\ OrderOK'
    BY DEF RunOK, OrderOK, Destroyed, PoolMade, TypeOK, Pool!TypeOK
  <2>4. QED  BY <2>1, <2>2, <2>3
<1>6. CASE MakeTpl
  <2> USE <1>6 DEF MakeTpl, loops, pool
  <2>1. TypeOK'  BY DEF TypeOK, Pool!TypeOK
  <2>2. StartOK' /\ CloseOK' /\ EnqueueOK'
    BY DEF StartOK, PoolMade, CloseOK, EnqueueOK
  <2>3. RunOK' /\ OrderOK'
    BY DEF RunOK, OrderOK, Destroyed, PoolMade
  <2>4. QED  BY <2>1, <2>2, <2>3
<1>7. QED  BY <1>1, <1>2, <1>3, <1>4, <1>5, <1>6 DEF Boot

LEMMA ServeStep == ASSUME IInv, Serve \/ Signal PROVE IInv'
<1> USE LoopFacts, LifecycleAssumption DEF IInv, Goto, At
<1>1. ASSUME NEW l \in Loop, Lock(l) PROVE IInv'
  <2> USE <1>1 DEF Lock, business, pool
  <2>1. conns' \in [Loop -> 0 .. MaxConns]
    BY DEF TypeOK
  <2>2. TypeOK'  BY <2>1 DEF TypeOK, Pool!TypeOK
  <2>3. CloseOK'  BY DEF CloseOK, TypeOK
  <2>4. StartOK' /\ EnqueueOK' /\ RunOK' /\ OrderOK'
    BY DEF StartOK, PoolMade, EnqueueOK, RunOK, OrderOK
  <2>5. QED  BY <2>2, <2>3, <2>4
<1>2. CASE Unlock
  <2> USE <1>2 DEF Unlock, loops, business, pool
  <2>1. TypeOK'  BY DEF TypeOK, Pool!TypeOK
  <2>2. StartOK' /\ EnqueueOK' /\ RunOK' /\ CloseOK' /\ OrderOK'
    BY DEF StartOK, PoolMade, EnqueueOK, RunOK, CloseOK, OrderOK, Destroyed
  <2>3. QED  BY <2>1, <2>2
<1>3. CASE Signal
  <2> USE <1>3 DEF Signal, NoServer, loops, business, pool
  <2>1. TypeOK'  BY DEF TypeOK, Pool!TypeOK
  <2>2. StartOK' /\ EnqueueOK' /\ RunOK' /\ CloseOK' /\ OrderOK'
    BY DEF StartOK, PoolMade, Served, EnqueueOK, RunOK, CloseOK, OrderOK, Destroyed
  <2>3. QED  BY <2>1, <2>2
<1>4. QED  BY <1>1, <1>2, <1>3 DEF Serve

-----------------------------------------------------------------------------
(* The steps of Stop_tcp and exit. *)

LEMMA ExitStepOK == ASSUME IInv, Exit PROVE IInv'
<1> USE LoopFacts, LifecycleAssumption DEF IInv, ExitStep
<1>1. ASSUME NEW l \in Loop, Stop(l) PROVE IInv'
  <2> USE <1>1 DEF Stop, Awake, main, business, pool
  <2>1. TypeOK'  BY DEF TypeOK, Pool!TypeOK
  <2>2. StartOK' /\ EnqueueOK' /\ RunOK' /\ CloseOK' /\ OrderOK'
    BY DEF StartOK, PoolMade, EnqueueOK, RunOK, CloseOK, OrderOK, Destroyed
  <2>3. QED  BY <2>1, <2>2
<1>2. CASE CallExit \/ StopTpl \/ JoinTpl
  <2> USE <1>2 DEF CallExit, StopTpl, JoinTpl, AfterTpl, loops, pool
  <2>1. TypeOK'
    <3>1. Pool!TypeOK'  BY DEF TypeOK, Pool!TypeOK
    <3>2. QED  BY <3>1 DEF TypeOK
  <2>2. StartOK' /\ EnqueueOK' /\ RunOK' /\ CloseOK'
    BY DEF StartOK, PoolMade, EnqueueOK, RunOK, CloseOK
  <2>3. OrderOK'  BY DEF OrderOK, PoolMade, Destroyed
  <2>4. QED  BY <2>1, <2>2, <2>3
<1>3. CASE StopPool
  <2> USE <1>3 DEF StopPool, loops, pool
  <2>1. TypeOK'
    <3>1. Pool!TypeOK'  BY DEF TypeOK, Pool!TypeOK
    <3>2. QED  BY <3>1 DEF TypeOK
  <2>2. StartOK' /\ EnqueueOK' /\ RunOK' /\ CloseOK'
    BY DEF StartOK, PoolMade, EnqueueOK, RunOK, CloseOK
  <2>3. OrderOK'  BY DEF OrderOK, PoolMade, Destroyed
  <2>4. QED  BY <2>1, <2>2, <2>3
<1>4. CASE NotifyPool
  <2> USE <1>4 DEF NotifyPool, loops, Pool!NotifyAll
  <2>1. TypeOK'
    <3>1. Pool!TypeOK'  BY DEF TypeOK, Pool!TypeOK
    <3>2. QED  BY <3>1 DEF TypeOK
  <2>2. StartOK' /\ EnqueueOK' /\ CloseOK'
    BY DEF StartOK, PoolMade, EnqueueOK, CloseOK
  <2>3. RunOK'  BY DEF RunOK, TypeOK, Pool!TypeOK
  <2>4. OrderOK'  BY DEF OrderOK, PoolMade, Destroyed
  <2>5. QED  BY <2>1, <2>2, <2>3, <2>4
<1>5. CASE JoinPool
  <2> USE <1>5 DEF JoinPool, loops, Pool!Join
  <2>1. TypeOK'
    <3>1. Pool!TypeOK'  BY DEF TypeOK, Pool!TypeOK
    <3>2. QED  BY <3>1 DEF TypeOK
  <2>2. StartOK' /\ EnqueueOK' /\ RunOK' /\ CloseOK'
    BY DEF StartOK, PoolMade, EnqueueOK, RunOK, CloseOK
  <2>3. OrderOK'  BY DEF OrderOK, PoolMade, Destroyed
  <2>4. QED  BY <2>1, <2>2, <2>3
<1>6. CASE FreeServer \/ End
  <2> USE <1>6 DEF FreeServer, End, loops, business, pool
  <2>1. TypeOK'
    <3>1. Pool!TypeOK'  BY DEF TypeOK, Pool!TypeOK
    <3>2. QED  BY <3>1 DEF TypeOK
  <2>2. StartOK' /\ EnqueueOK' /\ RunOK' /\ CloseOK'
    BY DEF StartOK, PoolMade, EnqueueOK, RunOK, CloseOK
  <2>3. OrderOK'  BY DEF OrderOK, PoolMade, Destroyed
  <2>4. QED  BY <2>1, <2>2, <2>3
<1>7. QED  BY <1>1, <1>2, <1>3, <1>4, <1>5, <1>6 DEF Exit

-----------------------------------------------------------------------------
(* The steps of the IO threads. *)

LEMMA ThreadStepOK ==
  ASSUME IInv, NEW t \in IoThread, ThreadStep(t) PROVE IInv'
<1> USE LoopFacts, LifecycleAssumption DEF IInv, main, loops, business
<1>1. CASE PoolStep(t)
  <2> USE <1>1 DEF PoolStep, Pool!Lock, Pool!PredFalse, Pool!Sleep, Pool!Exit
  <2>1. TypeOK'
    <3>1. Pool!TypeOK'  BY DEF TypeOK, Pool!TypeOK
    <3>2. QED  BY <3>1 DEF TypeOK
  <2>2. StartOK' /\ EnqueueOK' /\ CloseOK'
    BY DEF StartOK, PoolMade, EnqueueOK, CloseOK
  <2>3. RunOK'  BY DEF RunOK, TypeOK, Pool!TypeOK
  <2>4. OrderOK'  BY DEF OrderOK, PoolMade, Destroyed, TypeOK, Pool!TypeOK
  <2>5. QED  BY <2>1, <2>2, <2>3, <2>4
<1>2. CASE EnterRun(t)
  <2> USE <1>2 DEF EnterRun, Pool!Take
  <2>1. Head(q) \in Loop /\ Tail(q) \in Seq(Loop)
    BY QueueFacts DEF TypeOK, Pool!TypeOK
  <2>2. TypeOK'
    <3>1. Pool!TypeOK'
      <4>1. started' \in Seq(Loop)  BY <2>1 DEF TypeOK, Pool!TypeOK
      <4>2. wpc' \in [IoThread -> {"lock", "pred", "block", "sleep", "run", "exit"}]
        BY DEF TypeOK, Pool!TypeOK
      <4>3. task' \in [IoThread -> Loop]  BY <2>1 DEF TypeOK, Pool!TypeOK
      <4>4. q' \in Seq(Loop) /\ mtx' \in IoThread \cup {Free}
        BY <2>1 DEF TypeOK, Pool!TypeOK
      <4>5. UNCHANGED <<stop, ppc, dpc, enqueued, finished>>  OBVIOUS
      <4>6. QED  BY ONLY <4>1, <4>2, <4>3, <4>4, <4>5, TypeOK DEF TypeOK, Pool!TypeOK
    <3>2. lpc' \in [Loop -> {"new", "test", "wait", "batch", "close", "left"}]
      BY <2>1 DEF TypeOK
    <3>3. UNCHANGED <<mpc, xpc, outcome, made, stop_, wakeupfd_, conns, workers,
                      tpl, jobs>>
      BY DEF main, business
    <3>4. QED  BY <3>1, <3>2, <3>3 DEF TypeOK
  <2>3. StartOK' /\ EnqueueOK' /\ CloseOK'
    BY <2>1 DEF StartOK, PoolMade, EnqueueOK, CloseOK, TypeOK
  <2>4. RunOK'
    <3> SUFFICES ASSUME NEW l \in Loop, lpc'[l] \notin {"new", "left"}
                 PROVE \E u \in IoThread : wpc'[u] = "run" /\ task'[u] = l
      BY DEF RunOK
    <3>1. CASE l = Head(q)  BY <3>1, <2>1 DEF TypeOK, Pool!TypeOK
    <3>2. CASE l # Head(q)
      <4>1. lpc[l] \notin {"new", "left"}
        BY <3>2, <2>1 DEF TypeOK
      <4>2. PICK u \in IoThread : wpc[u] = "run" /\ task[u] = l
        BY <4>1 DEF RunOK
      <4>3. QED  BY <4>2 DEF TypeOK, Pool!TypeOK
    <3>3. QED  BY <3>1, <3>2
  <2>5. OrderOK'  BY DEF OrderOK, PoolMade, Destroyed
  <2>6. QED  BY <2>2, <2>3, <2>4, <2>5
<1>3. CASE LeaveRun(t)
  <2> USE <1>3 DEF LeaveRun, Pool!Run
  <2>1. TypeOK'
    <3>1. Pool!TypeOK'  BY DEF TypeOK, Pool!TypeOK
    <3>2. QED  BY <3>1 DEF TypeOK
  <2>2. StartOK' /\ EnqueueOK' /\ CloseOK'
    BY DEF StartOK, PoolMade, EnqueueOK, CloseOK, TypeOK, Pool!TypeOK
  <2>3. RunOK'  BY DEF RunOK, TypeOK, Pool!TypeOK
  <2>4. OrderOK'  BY DEF OrderOK, PoolMade, Destroyed
  <2>5. QED  BY <2>1, <2>2, <2>3, <2>4
<1>4. QED  BY <1>1, <1>2, <1>3 DEF ThreadStep

\* What happens inside run() moves a loop that has been entered.
LEMMA LoopStepOK ==
  ASSUME IInv, NEW l \in Loop, LoopStep(l) \/ HandleMessage(l) \/ RunJob(l)
  PROVE  IInv'
<1> USE LoopFacts, LifecycleAssumption DEF IInv, Move, main, business, pool
<1>1. CASE TestStop(l) \/ Poll(l) \/ Close(l) \/ EndBatch(l)
  <2> USE <1>1 DEF TestStop, Poll, Close, EndBatch
  <2>1. TypeOK'
    <3>1. Pool!TypeOK'  BY DEF TypeOK, Pool!TypeOK
    <3>2. /\ lpc' \in [Loop -> {"new", "test", "wait", "batch", "close", "left"}]
          /\ wakeupfd_' \in [Loop -> BOOLEAN]
      BY DEF TypeOK
    <3>3. UNCHANGED <<mpc, xpc, outcome, made, stop_, conns, workers, tpl, jobs>>
      OBVIOUS
    <3>4. QED  BY <3>1, <3>2, <3>3 DEF TypeOK
  <2>2. CloseOK'  BY DEF CloseOK, TypeOK
  <2>3. RunOK'  BY DEF RunOK, TypeOK
  <2>4. StartOK' /\ EnqueueOK' /\ OrderOK'
    BY DEF StartOK, PoolMade, EnqueueOK, OrderOK, Destroyed
  <2>5. QED  BY <2>1, <2>2, <2>3, <2>4
<1>2. CASE Erase(l)
  <2> USE <1>2 DEF Erase
  <2>1. conns' \in [Loop -> 0 .. MaxConns]
    BY DEF TypeOK, CloseOK
  <2>2. TypeOK'  BY <2>1 DEF TypeOK, Pool!TypeOK
  <2>3. CloseOK'  BY DEF CloseOK, TypeOK
  <2>4. RunOK'  BY DEF RunOK, TypeOK
  <2>5. StartOK' /\ EnqueueOK' /\ OrderOK'
    BY DEF StartOK, PoolMade, EnqueueOK, OrderOK, Destroyed
  <2>6. QED  BY <2>2, <2>3, <2>4, <2>5
<1>3. CASE HandleMessage(l) \/ RunJob(l)
  <2> USE <1>3 DEF HandleMessage, RunJob, loops
  <2>1. TypeOK'
    <3>1. Pool!TypeOK'  BY DEF TypeOK, Pool!TypeOK
    <3>2. jobs' \in 0 .. MaxJobs  BY DEF TypeOK
    <3>3. /\ wakeupfd_' \in [Loop -> BOOLEAN]
          /\ tpl' \in {"none", "alive", "joining", "overslept", "gone", "used"}
          /\ outcome' \in {"running", "ended", "crashed"}
      BY DEF TypeOK
    <3>4. UNCHANGED <<mpc, xpc, made, stop_, lpc, conns, workers>>
      OBVIOUS
    <3>5. QED  BY <3>1, <3>2, <3>3, <3>4 DEF TypeOK
  <2>2. CloseOK' /\ RunOK'  BY DEF CloseOK, RunOK
  <2>3. StartOK' /\ EnqueueOK' /\ OrderOK'
    BY DEF StartOK, PoolMade, EnqueueOK, OrderOK, Destroyed
  <2>4. QED  BY <2>1, <2>2, <2>3
<1>4. QED  BY <1>1, <1>2, <1>3 DEF LoopStep

LEMMA Stutter == ASSUME IInv, UNCHANGED vars PROVE IInv'
<1> USE DEF IInv, vars, main, loops, business, pool
<1>1. TypeOK'  BY DEF TypeOK, Pool!TypeOK
<1>2. StartOK' /\ CloseOK' /\ RunOK' /\ EnqueueOK' /\ OrderOK'
  BY DEF StartOK, PoolMade, CloseOK, RunOK, EnqueueOK, OrderOK, Destroyed
<1>3. QED  BY <1>1, <1>2

LEMMA Inductive == ASSUME IInv, [Next]_vars PROVE IInv'
BY BootStep, ServeStep, ExitStepOK, ThreadStepOK, LoopStepOK, Stutter DEF Next

LEMMA Invariance == Spec => []IInv
BY InitOK, Inductive, PTL DEF Spec

-----------------------------------------------------------------------------
\* The type invariant, for every number of IO threads.
THEOREM Typing == Spec => []TypeOK
<1>1. IInv => TypeOK  BY DEF IInv
<1>2. QED  BY <1>1, Invariance, PTL

\* At the point where the server is freed, run() has returned in every thread
\* and every thread has been joined: a loop that is still in run() has a thread
\* in it, and that thread has not left the pool.
THEOREM FreedLast == Spec => []NothingOutlivesTheServer
<1>1. ASSUME IInv PROVE NothingOutlivesTheServer
  <2> SUFFICES ASSUME xpc = "freed" PROVE NothingOutlivesTheServer!2
    BY DEF NothingOutlivesTheServer
  <2> USE <1>1 DEF IInv
  <2>1. PoolMade => \A t \in IoThread : wpc[t] = "exit"
    BY DEF OrderOK
  <2>2. \A t \in IoThread : wpc[t] # "run"
    BY <2>1 DEF StartOK
  <2>3. \A l \in Loop : lpc[l] \in {"new", "left"}
    BY <2>2 DEF RunOK
  <2>4. tpl = "none" \/ Destroyed
    BY DEF OrderOK
  <2>5. QED  BY <2>1, <2>3, <2>4
<1>2. QED  BY <1>1, Invariance, PTL

-----------------------------------------------------------------------------
\* Every step of the program is one of the pool, or does not touch it.
LEMMA PoolStepOK == ASSUME IInv, [Next]_vars PROVE [Pool!Next]_(Pool!vars)
<1> USE DEF Pool!Next, Pool!WorkerStep
<1>1. CASE UNCHANGED pool  BY <1>1 DEF pool, Pool!vars
<1>2. CASE Boot
  <2>1. CASE Enqueue  BY <2>1 DEF Enqueue
  <2>2. CASE NotifyIo  BY <2>2 DEF NotifyIo
  <2>3. CASE ~Enqueue /\ ~NotifyIo
    BY <1>1, <1>2, <2>3 DEF Boot, InstallHandlers, Listen, ListenFails, MakePool,
       MakeLoop, LoopFails, MakeTpl, Publish, ExitAt
  <2>4. QED  BY <2>1, <2>2, <2>3
<1>3. CASE Serve \/ Signal
  BY <1>1, <1>3 DEF Serve, Lock, Unlock, Signal
<1>4. CASE Exit
  <2>1. CASE StopPool
    <3>1. ASSUME PoolMade, dpc = "alive", xpc = "Threadpool", StopPool
          PROVE Pool!SetStop
      <4>1. ppc[Main] = "idle"
        BY <3>1 DEF IInv, EnqueueOK, TypeOK, Pool!TypeOK
      <4>2. QED  BY <4>1, <3>1 DEF StopPool, Pool!SetStop
    <3>2. QED  BY <1>1, <2>1, <3>1 DEF StopPool, ExitStep
  <2>2. CASE NotifyPool  BY <2>2 DEF NotifyPool
  <2>3. CASE JoinPool  BY <2>3 DEF JoinPool
  <2>4. CASE ~StopPool /\ ~NotifyPool /\ ~JoinPool
    BY <1>1, <1>4, <2>4 DEF Exit, Stop, CallExit, StopTpl, JoinTpl, FreeServer, End
  <2>5. QED  BY <2>1, <2>2, <2>3, <2>4
<1>5. ASSUME NEW t \in IoThread, ThreadStep(t) PROVE Pool!Next
  BY <1>5 DEF ThreadStep, PoolStep, EnterRun, LeaveRun
<1>6. ASSUME NEW l \in Loop, LoopStep(l) \/ HandleMessage(l) \/ RunJob(l)
      PROVE UNCHANGED pool
  BY <1>6 DEF LoopStep, TestStop, Poll, Close, Erase, EndBatch, Move,
     HandleMessage, RunJob
<1>7. CASE UNCHANGED vars  BY <1>1, <1>7 DEF vars
<1>8. QED  BY <1>1, <1>2, <1>3, <1>4, <1>5, <1>6, <1>7 DEF Next

\* The program uses the pool as module ThreadPool supposes: nobody is inside
\* enqueue, or enters it, once the destructor has begun.
THEOREM PoolUse == Spec => PoolUsedAsSpecified
<1>1. Init => Pool!Init  BY DEF Init
<1>2. IInv /\ [Next]_vars => [Pool!Next]_(Pool!vars)  BY PoolStepOK
<1>3. QED
  BY <1>1, <1>2, Invariance, PTL DEF Spec, PoolUsedAsSpecified, Pool!Spec
=============================================================================
