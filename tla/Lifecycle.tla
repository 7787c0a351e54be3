------------------------------ MODULE Lifecycle ------------------------------
(***************************************************************************)
(* The program from main to its end: the server is put together, the IO    *)
(* threads run its loops, a signal stops them, and exit destroys what is   *)
(* static, latest first: Tpl, Threadpool, the server.                      *)
(*                                                                         *)
(* The IO threads are the pool of module ThreadPool, whose closures are    *)
(* the calls of EventLoop::run.  Of a loop only what decides whether it    *)
(* returns is kept.  Of Tpl, the same kind of pool, what it owes: the      *)
(* number of closures, and whether its worker slept through notify_all.    *)
(*                                                                         *)
(* The kernel gives SIGINT and SIGTERM to the main thread, which never     *)
(* blocks them, so Stop_tcp interrupts main: mpc is then where it stood.   *)
(***************************************************************************)
EXTENDS Naturals, Sequences, FiniteSets

CONSTANTS
  threadnum,    \* IO threads, and loops
  WorkThreads,  \* the choices of workthreadnum, at most 1
  MaxConns,     \* bound: connections on one loop
  MaxJobs,      \* bound: closures in Tpl
  Main, Free

ASSUME LifecycleAssumption ==
  /\ threadnum \in Nat \ {0} /\ WorkThreads \subseteq {0, 1}
  /\ MaxConns \in Nat /\ MaxJobs \in Nat
  /\ Main \notin Nat /\ Free \notin Nat

VARIABLES
  mpc,      \* where the main thread is (or was interrupted)
  xpc,      \* where it is in Stop_tcp and exit, or "none"
  outcome,  \* of the process: "running", "ended", "crashed"
  made,     \* how many loops there are in sub_eloops
  stop_, wakeupfd_, \* of each loop; the eventfd as "readable"
  lpc,      \* where each loop's run is; "left" after its return
  conns,    \* connections on each loop
  workers,  \* workthreadnum
  tpl, jobs,        \* Tpl and its closures, waiting or running; "used" when it
                    \* has been called after its destruction
  q, mtx, stop, wpc, task, ppc, dpc, enqueued, started, finished \* Threadpool

main == <<mpc, xpc, outcome, made>>
loops == <<stop_, wakeupfd_, lpc, conns>>
business == <<workers, tpl, jobs>>
pool == <<q, mtx, stop, wpc, task, ppc, dpc, enqueued, started, finished>>
vars == <<main, loops, business, pool>>

Loop == 1 .. threadnum
\* Threadpool::Get_pl(threadnum): a thread for each loop.
IoThread == 1 .. threadnum

Pool == INSTANCE ThreadPool WITH
  Worker <- IoThread, Producer <- {Main}, Task <- Loop,
  StopUnderLock <- FALSE, LateEnqueue <- FALSE

Init ==
  /\ mpc = "main" /\ xpc = "none" /\ outcome = "running" /\ made = 0
  /\ stop_ = [l \in Loop |-> FALSE] /\ wakeupfd_ = [l \in Loop |-> FALSE]
  /\ lpc = [l \in Loop |-> "new"] /\ conns = [l \in Loop |-> 0]
  /\ workers \in WorkThreads /\ tpl = "none" /\ jobs = 0
  /\ Pool!Init /\ task = [t \in IoThread |-> 1]

-----------------------------------------------------------------------------
(* main and the constructors it calls. *)

Running == outcome = "running"

\* Main stands at a and is not interrupted.
At(a) == mpc = a /\ xpc = "none" /\ Running
Goto(a, b) == At(a) /\ mpc' = b /\ UNCHANGED <<xpc, outcome>>

\* signal(SIGTERM,Stop_tcp); signal(SIGINT,Stop_tcp);
InstallHandlers ==
  Goto("main", "listen") /\ UNCHANGED <<made, loops, business, pool>>

\* The main loop, the alarm and the Acceptor's listening socket.
Listen == Goto("listen", "pool") /\ UNCHANGED <<made, loops, business, pool>>

\* exit(-1), called by a constructor.
ExitAt(a) ==
  At(a) /\ xpc' = "Tpl" /\ UNCHANGED <<mpc, outcome, made, loops, business, pool>>

\* socket, bind or listen fails.
ListenFails == ExitAt("listen")

\* Threadpool::Get_pl: its threads start.
MakePool == Goto("pool", "loop") /\ UNCHANGED <<made, loops, business, pool>>
PoolMade == mpc \notin {"main", "listen", "pool"}

MakeLoop ==
  /\ Goto("loop", "enqueue") /\ made' = made + 1
  /\ UNCHANGED <<loops, business, pool>>

\* epoll_create fails.
LoopFails == ExitAt("loop")

\* tpl->enqueue(std::bind(&EventLoop::run, ...)): the closure of the new loop.
Enqueue ==
  /\ Goto("enqueue", "notify") /\ Pool!Emplace(Main) /\ enqueued' = 1 .. made
  /\ UNCHANGED <<made, loops, business>>

\* Mutant of NextLoop: one turn more.
NextLoopOneMore == IF made <= threadnum THEN "loop" ELSE "tpl"
\* for (int i = 0; i < threadnum; i++)
NextLoop == IF made < threadnum THEN "loop" ELSE "tpl"

\* Mutant of NotifyIo: notify_one is left out.
SkipNotify ==
  /\ Goto("notify", NextLoop) /\ ppc' = [ppc EXCEPT ![Main] = "idle"]
  /\ UNCHANGED <<made, loops, business, q, mtx, stop, wpc, task, dpc, enqueued,
                 started, finished>>

NotifyIo ==
  /\ Goto("notify", NextLoop) /\ Pool!NotifyOne(Main)
  /\ UNCHANGED <<made, loops, business>>

\* Tpl::Get_pl(workthreadnum)
MakeTpl ==
  /\ Goto("tpl", "publish") /\ tpl' = "alive"
  /\ UNCHANGED <<made, loops, workers, jobs, pool>>

\* EchoServer's callbacks are set, es is assigned, and the main loop runs.
Publish == Goto("publish", "wait") /\ UNCHANGED <<made, loops, business, pool>>
\* es != nullptr
Served == mpc \in {"wait", "locked"}

\* newconnection and handle_timer take m_mutex, to insert a Connection of loop l
\* into the map or to erase an idle one.  (Module Tcpserver has the steps before
\* and after; the IO threads hold m_mutex within one step only.)
Lock(l) ==
  /\ Goto("wait", "locked")
  /\ \/ conns[l] < MaxConns /\ conns' = [conns EXCEPT ![l] = @ + 1]
     \/ /\ conns[l] > 0 /\ lpc[l] # "close"
        /\ conns' = [conns EXCEPT ![l] = @ - 1]
  /\ UNCHANGED <<made, stop_, wakeupfd_, lpc, business, pool>>
Unlock == Goto("locked", "wait") /\ UNCHANGED <<made, loops, business, pool>>

Boot ==
  \/ InstallHandlers \/ Listen \/ ListenFails \/ MakePool \/ MakeLoop
  \/ LoopFails \/ Enqueue \/ NotifyIo \/ MakeTpl \/ Publish
Serve == (\E l \in Loop : Lock(l)) \/ Unlock

-----------------------------------------------------------------------------
(* Stop_tcp. *)

\* Mutant of NoServer: if (es) es->Stop(); exit(0);
ExitWithoutServer == xpc' = "Tpl" /\ UNCHANGED outcome
\* es->Stop() with es still null.
NoServer == outcome' = "crashed" /\ UNCHANGED xpc

Signal ==
  /\ mpc # "main" /\ xpc = "none" /\ Running
  /\ \/ Served /\ xpc' = "stop" /\ UNCHANGED outcome
     \/ ~Served /\ NoServer
  /\ UNCHANGED <<mpc, made, loops, business, pool>>

\* Mutant of Awake: stop() does not write the eventfd.
AwakeNobody(l) == wakeupfd_
Awake(l) == [wakeupfd_ EXCEPT ![l] = TRUE]

\* Tcpserver::stop: stop_ and then the eventfd of one loop after the other.
\* (Module EventLoop has the two writes apart.)
Stop(l) ==
  /\ xpc = "stop" /\ ~stop_[l] /\ \A k \in 1 .. l - 1 : stop_[k]
  /\ stop_' = [stop_ EXCEPT ![l] = TRUE] /\ wakeupfd_' = Awake(l)
  /\ UNCHANGED <<main, lpc, conns, business, pool>>

-----------------------------------------------------------------------------
(* exit *)

ExitStep(a, b) ==
  /\ Running /\ xpc = a /\ xpc' = b
  /\ UNCHANGED <<mpc, outcome, made, loops, workers, jobs>>

CallExit ==
  ExitStep("stop", "Tpl") /\ (\A l \in Loop : stop_[l]) /\ UNCHANGED <<tpl, pool>>

\* ~Tpl: stop.store(true), notify_all.  A worker that is about to sleep misses
\* both (module ThreadPool).
StopTpl ==
  \/ ExitStep("Tpl", "Threadpool") /\ tpl = "none" /\ UNCHANGED <<tpl, pool>>
  \/ /\ ExitStep("Tpl", "Tpl") /\ tpl = "alive" /\ UNCHANGED pool
     /\ \/ tpl' = "joining"
        \/ workers > 0 /\ jobs = 0 /\ tpl' = "overslept"

\* Mutant of AfterTpl: the pool's singleton was made before the server.
ServerAfterTpl == "server"
\* Static objects are destroyed in the reverse order of their construction.
AfterTpl == "Threadpool"

\* ~Tpl: t.join() returns, the closures have all run.
JoinTpl ==
  /\ ExitStep("Tpl", AfterTpl) /\ tpl = "joining" /\ jobs = 0
  /\ tpl' = "gone" /\ UNCHANGED pool

\* ~Threadpool, if there is one: stop.store(true), whoever is in enqueue ...
StopPool ==
  \/ ExitStep("Threadpool", "server") /\ ~PoolMade /\ UNCHANGED <<tpl, pool>>
  \/ /\ ExitStep("Threadpool", "Threadpool") /\ PoolMade /\ UNCHANGED tpl
     /\ dpc = "alive" /\ dpc' = "notify" /\ stop' = TRUE
     /\ UNCHANGED <<q, mtx, wpc, task, ppc, enqueued, started, finished>>

\* ... notify_all, and join.
NotifyPool ==
  ExitStep("Threadpool", "Threadpool") /\ Pool!NotifyAll /\ UNCHANGED tpl
JoinPool == ExitStep("Threadpool", "server") /\ Pool!Join /\ UNCHANGED tpl

\* ~Tcpserver calls stop() again; then its loops are freed.
FreeServer ==
  /\ Running /\ xpc = "server" /\ xpc' = "freed"
  /\ IF Served THEN wakeupfd_' = [l \in Loop |-> TRUE] ELSE UNCHANGED wakeupfd_
  /\ UNCHANGED <<mpc, outcome, made, stop_, lpc, conns, business, pool>>

End ==
  /\ xpc = "freed" /\ Running /\ outcome' = "ended"
  /\ UNCHANGED <<mpc, xpc, made, loops, business, pool>>

Exit ==
  \/ (\E l \in Loop : Stop(l)) \/ CallExit \/ StopTpl \/ JoinTpl
  \/ StopPool \/ NotifyPool \/ JoinPool \/ FreeServer \/ End

-----------------------------------------------------------------------------
(* The IO threads and the worker. *)

\* What a pool thread does outside of its closures.  (Spurious wakeups, which
\* module ThreadPool has, could only cut short a hang here.)
PoolStep(t) ==
  /\ Running /\ PoolMade
  /\ Pool!Lock(t) \/ Pool!PredFalse(t) \/ Pool!Sleep(t) \/ Pool!Exit(t)
  /\ UNCHANGED <<main, loops, business>>

\* The thread takes a closure and is in run() of a loop ...
EnterRun(t) ==
  /\ Running /\ PoolMade /\ Pool!Take(t)
  /\ lpc' = [lpc EXCEPT ![Head(q)] = "test"]
  /\ UNCHANGED <<main, stop_, wakeupfd_, conns, business>>

\* ... which has returned.
LeaveRun(t) ==
  /\ Running /\ wpc[t] = "run" /\ lpc[task[t]] = "left" /\ Pool!Run(t)
  /\ UNCHANGED <<main, loops, business>>

Move(l, a, b) ==
  /\ Running /\ lpc[l] = a /\ lpc' = [lpc EXCEPT ![l] = b]
  /\ UNCHANGED <<main, stop_, pool>>

\* while (!stop_)
TestStop(l) ==
  /\ Move(l, "test", IF stop_[l] THEN "left" ELSE "wait")
  /\ UNCHANGED <<wakeupfd_, conns, business>>

\* epoll_wait returns for the eventfd, which handle_wakeup reads, or a client.
Poll(l) ==
  /\ Move(l, "wait", "batch") /\ (wakeupfd_[l] \/ conns[l] > 0)
  /\ wakeupfd_' = [wakeupfd_ EXCEPT ![l] = FALSE]
  /\ UNCHANGED <<conns, business>>

\* HandleMessage gives Tpl a closure, and wakes a worker.  Without workers the
\* answer is given here, and nothing of this changes.  If Tpl is destroyed already
\* its size() and enqueue() are undefined: the program dies of them, or goes on
\* and the closure is lost.
Destroyed == tpl \in {"gone", "used"}
HandleMessage(l) ==
  /\ Running /\ lpc[l] = "batch" /\ conns[l] > 0
  /\ \/ /\ ~Destroyed /\ workers > 0 /\ jobs < MaxJobs /\ jobs' = jobs + 1
        /\ tpl' = IF tpl = "overslept" THEN "joining" ELSE tpl
        /\ UNCHANGED outcome
     \/ /\ Destroyed /\ tpl' = "used" /\ outcome' \in {"running", "crashed"}
        /\ UNCHANGED jobs
  /\ UNCHANGED <<mpc, xpc, made, loops, workers, pool>>

\* closeconnection, called at the end of a stream, waits for m_mutex ...
Close(l) ==
  Move(l, "batch", "close") /\ conns[l] > 0
    /\ UNCHANGED <<wakeupfd_, conns, business>>
\* ... erases and deletes the Connection.
Erase(l) ==
  /\ Move(l, "close", "batch") /\ mpc # "locked"
  /\ conns' = [conns EXCEPT ![l] = @ - 1]
  /\ UNCHANGED <<wakeupfd_, business>>

EndBatch(l) ==
  Move(l, "batch", "test") /\ UNCHANGED <<wakeupfd_, conns, business>>

\* A worker runs a closure; sendmessage gives the reply to the loop.
RunJob(l) ==
  /\ Running /\ jobs > 0 /\ tpl \in {"alive", "joining"} /\ jobs' = jobs - 1
  /\ wakeupfd_' = [wakeupfd_ EXCEPT ![l] = TRUE]
  /\ UNCHANGED <<main, stop_, lpc, conns, workers, tpl, pool>>

LoopStep(l) == TestStop(l) \/ Poll(l) \/ Close(l) \/ Erase(l) \/ EndBatch(l)
ThreadStep(t) == PoolStep(t) \/ EnterRun(t) \/ LeaveRun(t)

-----------------------------------------------------------------------------
Next ==
  \/ Boot \/ Serve \/ Signal \/ Exit
  \/ \E t \in IoThread : ThreadStep(t)
  \/ \E l \in Loop : LoopStep(l) \/ HandleMessage(l) \/ RunJob(l)

Spec == Init /\ [][Next]_vars

\* Every thread goes on.  Nobody has to connect, and no signal has to come.
FairSpec ==
  /\ Spec /\ WF_vars(Boot \/ Exit) /\ WF_vars(\E l \in Loop : RunJob(l))
  /\ \A t \in IoThread : WF_vars(ThreadStep(t))
  /\ \A l \in Loop : WF_vars(LoopStep(l))

-----------------------------------------------------------------------------
TypeOK ==
  /\ mpc \in {"main", "listen", "pool", "loop", "enqueue", "notify", "tpl",
              "publish", "wait", "locked"}
  /\ xpc \in {"none", "stop", "Tpl", "Threadpool", "server", "freed"}
  /\ outcome \in {"running", "ended", "crashed"} /\ made \in 0 .. threadnum
  /\ stop_ \in [Loop -> BOOLEAN] /\ wakeupfd_ \in [Loop -> BOOLEAN]
  /\ lpc \in [Loop -> {"new", "test", "wait", "batch", "close", "left"}]
  /\ conns \in [Loop -> 0 .. MaxConns]
  /\ workers \in WorkThreads /\ jobs \in 0 .. MaxJobs
  /\ tpl \in {"none", "alive", "joining", "overslept", "gone", "used"}
  /\ Pool!TypeOK

\* When the server is freed no thread is left that could use it: each loop's
\* run has returned, each IO thread and worker has been joined.  (Of Tpl the
\* same cannot be said: see HandleMessage.)
NothingOutlivesTheServer ==
  xpc = "freed" =>
    /\ \A l \in Loop : lpc[l] \in {"new", "left"}
    /\ PoolMade => \A t \in IoThread : wpc[t] = "exit"
    /\ tpl = "none" \/ Destroyed

\* Threadpool is used as module ThreadPool supposes, whenever the signal comes
\* and whichever constructor fails: each loop is enqueued once, and nobody is
\* inside enqueue, or enters it, once the pool is being destroyed.
PoolUsedAsSpecified == Pool!Spec

\* Each loop gets a thread of its own, although run() never gives one back
\* before it is stopped (unless the program is told to stop first).
LoopsComeUp == \A l \in Loop : Served ~> (lpc[l] # "new" \/ xpc # "none")

\* What can keep exit() from returning: the signal came while main held
\* m_mutex, and an IO thread waits for it; a thread slept through notify_all; a
\* constructor failed while loops nobody has stopped were running.
Stuck ==
  \/ mpc = "locked" /\ \E l \in Loop : lpc[l] = "close"
  \/ tpl = "overslept" \/ (dpc = "join" /\ \E t \in IoThread : wpc[t] = "sleep")
  \/ ~Served /\ \E l \in Loop : lpc[l] = "wait"

\* Stop_tcp and exit end the process, if only by a crash on the destroyed Tpl,
\* unless it hangs for one of these reasons: no loop stays in epoll_wait, and no
\* queued closure keeps Tpl from ending.
EndsOrStuck == (xpc # "none") ~> (outcome # "running" \/ Stuck)

\* "Let the server exit decently by a signal" (Update log): once Stop_tcp runs,
\* the process ends.
ProcessEnds == (xpc = "stop") ~> (outcome # "running")
=============================================================================
