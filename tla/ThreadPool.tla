------------------------------ MODULE ThreadPool ------------------------------
(***************************************************************************)
(* The thread pools: Threadpool (runs the IO loops) and Tpl (runs the      *)
(* business code) of the reactor, and the stand-alone Threadpool of        *)
(* single-reactor/threadpool.  The three share enqueue and the worker's    *)
(* loop and differ in their destructor, which the constants select:        *)
(*                                                                         *)
(*                            StopUnderLock    LateEnqueue                 *)
(*    single-reactor pool         TRUE            FALSE                    *)
(*    Threadpool                  FALSE           FALSE                    *)
(*    Tpl                         FALSE           TRUE                     *)
(*                                                                         *)
(* cv.wait(lck, pred) is the loop the standard defines: test pred with the *)
(* lock held, and while it is false release the lock and sleep in one      *)
(* step, wake by a notification or spuriously, and take the lock again.    *)
(* What the code does between two lock operations is one step; testing     *)
(* pred and going to sleep are two, since notify needs no lock.            *)
(***************************************************************************)
EXTENDS Naturals, Sequences, FiniteSets

CONSTANTS
  Worker,         \* threads: the pool's threads
  Producer,       \* the threads that call enqueue
  Task,           \* the closures they enqueue, each once
  Free,           \* mtx has no holder
  StopUnderLock,  \* the destructor takes mtx to set stop
  LateEnqueue     \* enqueue may still be called while the destructor runs

ASSUME PoolAssumption ==
  /\ IsFiniteSet(Worker) /\ Worker # {} /\ IsFiniteSet(Producer)
  /\ Worker \cap Producer = {} /\ Free \notin Worker
  /\ StopUnderLock \in BOOLEAN /\ LateEnqueue \in BOOLEAN

VARIABLES
  q,        \* the queue of closures
  mtx,      \* the holder of mtx, or Free
  stop,
  wpc,      \* where each worker is; "sleep" is blocked in cv.wait
  task,     \* the closure each worker took (or last took)
  ppc,      \* where each producer is in enqueue
  dpc,      \* where the destructor is
  enqueued, \* history: the closures enqueued so far
  started,  \* history: the closures taken, in order
  finished  \* history: the closures whose call returned

vars == <<q, mtx, stop, wpc, task, ppc, dpc, enqueued, started, finished>>

Init ==
  /\ q = <<>> /\ mtx = Free /\ stop = FALSE
  /\ wpc = [w \in Worker |-> "lock"] /\ task \in [Worker -> Task]
  /\ ppc = [p \in Producer |-> "idle"]
  /\ dpc = "alive"
  /\ enqueued = {} /\ started = <<>> /\ finished = {}

-----------------------------------------------------------------------------
(* A worker. *)

\* unique_lock<mutex> lck(mtx), or the lock taken again inside cv.wait.
Lock(w) ==
  /\ wpc[w] = "lock" /\ mtx = Free
  /\ wpc' = [wpc EXCEPT ![w] = "pred"] /\ mtx' = w
  /\ UNCHANGED <<q, stop, task, ppc, dpc, enqueued, started, finished>>

\* Mutant: the newest closure first.
TakeNewest(w) ==
  /\ wpc[w] = "pred" /\ q # <<>>
  /\ task' = [task EXCEPT ![w] = q[Len(q)]] /\ q' = SubSeq(q, 1, Len(q) - 1)
  /\ started' = Append(started, q[Len(q)])
  /\ wpc' = [wpc EXCEPT ![w] = "run"] /\ mtx' = Free
  /\ UNCHANGED <<stop, ppc, dpc, enqueued, finished>>

\* pred holds because the queue is not empty: take the front, pop, unlock.
Take(w) ==
  /\ wpc[w] = "pred" /\ q # <<>>
  /\ task' = [task EXCEPT ![w] = Head(q)] /\ q' = Tail(q)
  /\ started' = Append(started, Head(q))
  /\ wpc' = [wpc EXCEPT ![w] = "run"] /\ mtx' = Free
  /\ UNCHANGED <<stop, ppc, dpc, enqueued, finished>>

\* task()
Run(w) ==
  /\ wpc[w] = "run"
  /\ finished' = finished \cup {task[w]}
  /\ wpc' = [wpc EXCEPT ![w] = "lock"]
  /\ UNCHANGED <<q, mtx, stop, task, ppc, dpc, enqueued, started>>

\* Mutant: if(stop) return;
ExitOnStop(w) ==
  /\ wpc[w] = "pred" /\ stop
  /\ wpc' = [wpc EXCEPT ![w] = "exit"] /\ mtx' = Free
  /\ UNCHANGED <<q, stop, task, ppc, dpc, enqueued, started, finished>>

\* if(stop&&q.empty()) return;
Exit(w) ==
  /\ wpc[w] = "pred" /\ q = <<>> /\ stop
  /\ wpc' = [wpc EXCEPT ![w] = "exit"] /\ mtx' = Free
  /\ UNCHANGED <<q, stop, task, ppc, dpc, enqueued, started, finished>>

\* pred does not hold: the worker is going to sleep, lock still held ...
PredFalse(w) ==
  /\ wpc[w] = "pred" /\ q = <<>> /\ ~stop
  /\ wpc' = [wpc EXCEPT ![w] = "block"]
  /\ UNCHANGED <<q, mtx, stop, task, ppc, dpc, enqueued, started, finished>>

\* ... and sleeps, which releases the lock.
Sleep(w) ==
  /\ wpc[w] = "block"
  /\ wpc' = [wpc EXCEPT ![w] = "sleep"] /\ mtx' = Free
  /\ UNCHANGED <<q, stop, task, ppc, dpc, enqueued, started, finished>>

Spurious(w) ==
  /\ wpc[w] = "sleep"
  /\ wpc' = [wpc EXCEPT ![w] = "lock"]
  /\ UNCHANGED <<q, mtx, stop, task, ppc, dpc, enqueued, started, finished>>

-----------------------------------------------------------------------------
(* enqueue *)

\* Mutants: the lock is not released; nobody is notified.
EmplaceKeepsLock(p) ==
  /\ ppc[p] = "idle" /\ mtx = Free /\ dpc = "alive"
  /\ \E fn \in Task \ enqueued :
       q' = Append(q, fn) /\ enqueued' = enqueued \cup {fn}
  /\ ppc' = [ppc EXCEPT ![p] = "notify"] /\ mtx' = p
  /\ UNCHANGED <<stop, wpc, task, dpc, started, finished>>

\* lock, emplace, unlock.
Emplace(p) ==
  /\ ppc[p] = "idle" /\ mtx = Free
  /\ dpc = "alive" \/ (LateEnqueue /\ dpc # "joined")
  /\ \E fn \in Task \ enqueued :
       q' = Append(q, fn) /\ enqueued' = enqueued \cup {fn}
  /\ ppc' = [ppc EXCEPT ![p] = "notify"]
  /\ UNCHANGED <<mtx, stop, wpc, task, dpc, started, finished>>

\* Mutant: notify only when the queue was empty before.
NotifyFirstOnly(p) ==
  /\ ppc[p] = "notify"
  /\ \/ Len(q) = 1 /\ \E w \in Worker : /\ wpc[w] = "sleep"
                                        /\ wpc' = [wpc EXCEPT ![w] = "lock"]
     \/ (Len(q) = 1 => \A w \in Worker : wpc[w] # "sleep") /\ UNCHANGED wpc
  /\ ppc' = [ppc EXCEPT ![p] = "idle"]
  /\ UNCHANGED <<q, mtx, stop, task, dpc, enqueued, started, finished>>

\* cv.notify_one(): wakes one sleeper, if there is one.
NotifyOne(p) ==
  /\ ppc[p] = "notify"
  /\ \/ \E w \in Worker : /\ wpc[w] = "sleep"
                          /\ wpc' = [wpc EXCEPT ![w] = "lock"]
     \/ (\A w \in Worker : wpc[w] # "sleep") /\ UNCHANGED wpc
  /\ ppc' = [ppc EXCEPT ![p] = "idle"]
  /\ UNCHANGED <<q, mtx, stop, task, dpc, enqueued, started, finished>>

-----------------------------------------------------------------------------
(* The destructor *)

\* Mutant: the flag alone is thought to be enough.
SetStopWithoutLock ==
  /\ dpc = "alive" /\ dpc' = "notify"
  /\ \A p \in Producer : ppc[p] = "idle"
  /\ stop' = TRUE
  /\ UNCHANGED <<q, mtx, wpc, task, ppc, enqueued, started, finished>>

\* { unique_lock<mutex> lck(mtx); stop=true; } or stop.store(true).  A pool
\* whose callers are done with it has nobody inside enqueue.
SetStop ==
  /\ dpc = "alive" /\ dpc' = "notify"
  /\ LateEnqueue \/ \A p \in Producer : ppc[p] = "idle"
  /\ StopUnderLock => mtx = Free
  /\ stop' = TRUE
  /\ UNCHANGED <<q, mtx, wpc, task, ppc, enqueued, started, finished>>

\* Mutant: notify_one instead of notify_all.
NotifySingle ==
  /\ dpc = "notify" /\ dpc' = "join"
  /\ \/ \E w \in Worker : wpc[w] = "sleep" /\ wpc' = [wpc EXCEPT ![w] = "lock"]
     \/ (\A w \in Worker : wpc[w] # "sleep") /\ UNCHANGED wpc
  /\ UNCHANGED <<q, mtx, stop, task, ppc, enqueued, started, finished>>

\* cv.notify_all()
NotifyAll ==
  /\ dpc = "notify" /\ dpc' = "join"
  /\ wpc' = [w \in Worker |-> IF wpc[w] = "sleep" THEN "lock" ELSE wpc[w]]
  /\ UNCHANGED <<q, mtx, stop, task, ppc, enqueued, started, finished>>

\* for(auto& t:threads) t.join();
Join ==
  /\ dpc = "join" /\ \A w \in Worker : wpc[w] = "exit"
  /\ dpc' = "joined"
  /\ UNCHANGED <<q, mtx, stop, wpc, task, ppc, enqueued, started, finished>>

-----------------------------------------------------------------------------
WorkerStep(w) ==
  Lock(w) \/ Take(w) \/ Run(w) \/ Exit(w) \/ PredFalse(w) \/ Sleep(w)

Next ==
  \/ \E w \in Worker : WorkerStep(w) \/ Spurious(w)
  \/ \E p \in Producer : Emplace(p) \/ NotifyOne(p)
  \/ SetStop \/ NotifyAll \/ Join

Spec == Init /\ [][Next]_vars

\* Every thread inside the pool keeps running, and a thread that keeps asking
\* for the lock gets it in the end.  Nobody has to enqueue, nobody has to
\* destroy the pool, and no wakeup has to be spurious; a destructor that has
\* started is executed.
FairSpec ==
  /\ Spec
  /\ \A w \in Worker : WF_vars(WorkerStep(w)) /\ SF_vars(Lock(w))
  /\ \A p \in Producer : WF_vars(NotifyOne(p))
  /\ WF_vars(NotifyAll) /\ WF_vars(Join)

-----------------------------------------------------------------------------
TypeOK ==
  /\ q \in Seq(Task) /\ started \in Seq(Task)
  /\ mtx \in Worker \cup {Free}
  /\ stop \in BOOLEAN
  /\ wpc \in [Worker -> {"lock", "pred", "block", "sleep", "run", "exit"}]
  /\ task \in [Worker -> Task]
  /\ ppc \in [Producer -> {"idle", "notify"}]
  /\ dpc \in {"alive", "notify", "join", "joined"}
  /\ enqueued \subseteq Task /\ finished \subseteq Task

\* Those who are on their way to the queue, or to waking somebody for it.
Coming == {p \in Producer : ppc[p] = "notify"}
            \cup {w \in Worker : wpc[w] \in {"lock", "pred"}}

\* While a worker sleeps, or is about to, each closure in the queue has
\* somebody of its own coming for it: notify_one outside the lock never
\* leaves a closure to a worker that is busy with another one.
NoStrandedTask ==
  (\E w \in Worker : wpc[w] \in {"block", "sleep"})
    => Len(q) <= Cardinality(Coming)

\* When the destructor returns, the queue is empty and each closure that was
\* enqueued has run to its end: stop does not discard work.
DrainedAtJoin == dpc = "joined" => q = <<>> /\ finished = enqueued

\* After notify_all no worker sleeps or is about to sleep, so that the
\* destructor does not join a thread nobody will wake.
StopReachesAll ==
  dpc \in {"join", "joined"}
    => \A w \in Worker : wpc[w] \notin {"block", "sleep"}

\* A destructor that has begun returns.
DestructorReturns == stop ~> dpc = "joined"

\* The pool implements the hand-off, and is never closed: closures start in
\* the order of enqueue, none twice, all of them, stop or no stop.
H == INSTANCE Handoff WITH pending <- q, delivered <- started,
                           closed <- FALSE
ImplementsHandoff == H!Spec
=============================================================================
