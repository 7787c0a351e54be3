---------------------------- MODULE ThreadPool_proof ----------------------------
(***************************************************************************)
(* ThreadPool for every number of workers, producers and closures: its     *)
(* types, one waker per waiting closure, a queue drained at join (when     *)
(* nobody enqueues late), a stop that reaches all workers (when it is set  *)
(* under the lock), and every step a step of Handoff.                      *)
(***************************************************************************)
EXTENDS ThreadPool, FiniteSetTheorems, TLAPS

MutexOK == \A w \in Worker : mtx = w <=> wpc[w] \in {"pred", "block"}

\* A worker that found pred false holds the lock until it sleeps, so that the
\* queue stays as it saw it.
BlockedOnEmpty == \A w \in Worker : wpc[w] = "block" => q = <<>>

StopFlag == stop <=> dpc # "alive"

\* The stop flag does not move between the test of pred and the sleep.
StopSeenUnderLock ==
  StopUnderLock /\ stop => \A w \in Worker : wpc[w] # "block"

\* Nobody is inside enqueue any more, and a worker leaves an empty queue.
NoLateCall == ~LateEnqueue /\ stop => \A p \in Producer : ppc[p] = "idle"
LeftEmpty ==
  ~LateEnqueue => \A w \in Worker : wpc[w] = "exit" => stop /\ q = <<>>

\* Where each closure is that was ever enqueued.
InQueue(fn) == \E i \in 1..Len(q) : q[i] = fn
Running(fn) == \E w \in Worker : wpc[w] = "run" /\ task[w] = fn
Accounted ==
  \A fn \in Task : fn \in enqueued <=> InQueue(fn) \/ Running(fn) \/ fn \in finished

IInv ==
  /\ TypeOK /\ MutexOK /\ BlockedOnEmpty
  /\ StopFlag /\ StopSeenUnderLock /\ NoLateCall /\ LeftEmpty
  /\ NoStrandedTask
  /\ Accounted
  /\ StopUnderLock => StopReachesAll
  /\ dpc = "joined" => \A w \in Worker : wpc[w] = "exit"

-----------------------------------------------------------------------------
\* The elements of a queue are its head and those of its tail.
LEMMA HeadOrTail ==
  ASSUME NEW s \in Seq(Task), s # <<>>
  PROVE  /\ Head(s) \in Task /\ Tail(s) \in Seq(Task)
         /\ Len(Tail(s)) = Len(s) - 1 /\ Len(s) \in Nat \ {0}
         /\ \A fn : (\E i \in 1..Len(s) : s[i] = fn)
                    <=> fn = Head(s) \/ (\E i \in 1..Len(Tail(s)) : Tail(s)[i] = fn)
<1>1. /\ Head(s) \in Task /\ Tail(s) \in Seq(Task)
      /\ Len(Tail(s)) = Len(s) - 1 /\ Len(s) \in Nat \ {0}
      /\ Head(s) = s[1]
      /\ \A i \in 1..Len(Tail(s)) : Tail(s)[i] = s[i + 1]
  OBVIOUS
<1>2. ASSUME NEW fn, NEW i \in 1..Len(s), s[i] = fn
      PROVE fn = Head(s) \/ (\E j \in 1..Len(Tail(s)) : Tail(s)[j] = fn)
  <2>1. CASE i = 1  BY <1>1, <1>2, <2>1
  <2>2. CASE i # 1
    <3>1. i - 1 \in 1..Len(Tail(s)) /\ Tail(s)[i - 1] = s[i]
      BY <1>1, <2>2
    <3>2. QED  BY <1>2, <3>1
  <2>3. QED  BY <2>1, <2>2
<1>3. ASSUME NEW fn,
             fn = Head(s) \/ (\E j \in 1..Len(Tail(s)) : Tail(s)[j] = fn)
      PROVE \E i \in 1..Len(s) : s[i] = fn
  <2>1. 1 \in 1..Len(s)  BY <1>1
  <2>2. \A j \in 1..Len(Tail(s)) : j + 1 \in 1..Len(s)  BY <1>1
  <2>3. QED  BY <1>1, <1>3, <2>1, <2>2
<1>4. QED  BY <1>1, <1>2, <1>3

\* The elements of a queue after a push.
LEMMA AppendElements ==
  ASSUME NEW s \in Seq(Task), NEW e \in Task
  PROVE  /\ Len(Append(s, e)) = Len(s) + 1 /\ Len(s) \in Nat
         /\ \A fn : (\E i \in 1..Len(Append(s, e)) : Append(s, e)[i] = fn)
                    <=> fn = e \/ (\E i \in 1..Len(s) : s[i] = fn)
<1>1. /\ Len(Append(s, e)) = Len(s) + 1 /\ Len(s) \in Nat
      /\ Append(s, e)[Len(s) + 1] = e
      /\ \A i \in 1..Len(s) : Append(s, e)[i] = s[i]
  OBVIOUS
<1>2. Len(s) + 1 \in 1..Len(Append(s, e))  BY <1>1
<1>3. \A i \in 1..Len(Append(s, e)) : i = Len(s) + 1 \/ i \in 1..Len(s)
  BY <1>1
<1>4. \A i \in 1..Len(s) : i \in 1..Len(Append(s, e))
  BY <1>1
<1>5. QED  BY <1>1, <1>2, <1>3, <1>4

\* Every action keeps the types: one step per action.
LEMMA TypeStep == ASSUME TypeOK, [Next]_vars PROVE TypeOK'
<1> USE DEF TypeOK
<1>1. ASSUME NEW w \in Worker, Lock(w) PROVE TypeOK'
  BY <1>1 DEF Lock
<1>2. ASSUME NEW w \in Worker, Take(w) PROVE TypeOK'
  <2>1. Head(q) \in Task /\ Tail(q) \in Seq(Task)
    BY <1>2, HeadOrTail DEF Take
  <2>2. QED  BY <1>2, <2>1 DEF Take
<1>3. ASSUME NEW w \in Worker, Run(w) PROVE TypeOK'
  BY <1>3 DEF Run
<1>4. ASSUME NEW w \in Worker, Exit(w) PROVE TypeOK'
  BY <1>4 DEF Exit
<1>5. ASSUME NEW w \in Worker, PredFalse(w) PROVE TypeOK'
  BY <1>5 DEF PredFalse
<1>6. ASSUME NEW w \in Worker, Sleep(w) PROVE TypeOK'
  BY <1>6 DEF Sleep
<1>7. ASSUME NEW w \in Worker, Spurious(w) PROVE TypeOK'
  BY <1>7 DEF Spurious
<1>8. ASSUME NEW p \in Producer, Emplace(p) PROVE TypeOK'
  BY <1>8 DEF Emplace
<1>9. ASSUME NEW p \in Producer, NotifyOne(p) PROVE TypeOK'
  BY <1>9 DEF NotifyOne
<1>10. CASE SetStop  BY <1>10 DEF SetStop
<1>11. CASE NotifyAll  BY <1>11 DEF NotifyAll
<1>12. CASE Join  BY <1>12 DEF Join
<1>13. CASE UNCHANGED vars  BY <1>13 DEF vars
<1>14. QED
  BY <1>1, <1>2, <1>3, <1>4, <1>5, <1>6, <1>7, <1>8, <1>9, <1>10, <1>11,
     <1>12, <1>13 DEF Next, WorkerStep

\* The lock, and what a worker about to sleep knows while it holds it.
LEMMA LockStep ==
  ASSUME IInv, [Next]_vars
  PROVE  (MutexOK /\ BlockedOnEmpty /\ StopSeenUnderLock)'
<1> USE PoolAssumption DEF IInv, TypeOK, MutexOK, BlockedOnEmpty, StopFlag,
                           StopSeenUnderLock
<1> DEFINE Goal == (MutexOK /\ BlockedOnEmpty /\ StopSeenUnderLock)'
<1>1. ASSUME NEW w \in Worker, Lock(w) PROVE Goal
  BY <1>1 DEF Lock
<1>2. ASSUME NEW w \in Worker, Take(w) PROVE Goal
  BY <1>2 DEF Take
<1>3. ASSUME NEW w \in Worker, Run(w) PROVE Goal
  BY <1>3 DEF Run
<1>4. ASSUME NEW w \in Worker, Exit(w) PROVE Goal
  BY <1>4 DEF Exit
<1>5. ASSUME NEW w \in Worker, PredFalse(w) PROVE Goal
  BY <1>5 DEF PredFalse
<1>6. ASSUME NEW w \in Worker, Sleep(w) PROVE Goal
  BY <1>6 DEF Sleep
<1>7. ASSUME NEW w \in Worker, Spurious(w) PROVE Goal
  BY <1>7 DEF Spurious
<1>8. ASSUME NEW p \in Producer, Emplace(p) PROVE Goal
  BY <1>8 DEF Emplace
<1>9. ASSUME NEW p \in Producer, NotifyOne(p) PROVE Goal
  BY <1>9 DEF NotifyOne
<1>10. CASE SetStop  BY <1>10 DEF SetStop
<1>11. CASE NotifyAll  BY <1>11 DEF NotifyAll
<1>12. CASE Join  BY <1>12 DEF Join
<1>13. CASE UNCHANGED vars  BY <1>13 DEF vars
<1>14. QED
  BY <1>1, <1>2, <1>3, <1>4, <1>5, <1>6, <1>7, <1>8, <1>9, <1>10, <1>11,
     <1>12, <1>13 DEF Next, WorkerStep

\* The destructor: what holds once stop is set, notified and joined.
StopParts ==
  /\ StopFlag /\ NoLateCall /\ LeftEmpty
  /\ StopUnderLock => StopReachesAll
  /\ dpc = "joined" => \A w \in Worker : wpc[w] = "exit"

LEMMA StopStep == ASSUME IInv, [Next]_vars PROVE StopParts'
<1> USE PoolAssumption DEF IInv, TypeOK, MutexOK, StopFlag, StopSeenUnderLock,
                           NoLateCall, LeftEmpty, StopReachesAll, StopParts
<1>1. ASSUME NEW w \in Worker, Lock(w) PROVE StopParts'
  BY <1>1 DEF Lock
<1>2. ASSUME NEW w \in Worker, Take(w) PROVE StopParts'
  BY <1>2 DEF Take
<1>3. ASSUME NEW w \in Worker, Run(w) PROVE StopParts'
  BY <1>3 DEF Run
<1>4. ASSUME NEW w \in Worker, Exit(w) PROVE StopParts'
  BY <1>4 DEF Exit
<1>5. ASSUME NEW w \in Worker, PredFalse(w) PROVE StopParts'
  BY <1>5 DEF PredFalse
<1>6. ASSUME NEW w \in Worker, Sleep(w) PROVE StopParts'
  BY <1>6 DEF Sleep
<1>7. ASSUME NEW w \in Worker, Spurious(w) PROVE StopParts'
  BY <1>7 DEF Spurious
<1>8. ASSUME NEW p \in Producer, Emplace(p) PROVE StopParts'
  BY <1>8 DEF Emplace
<1>9. ASSUME NEW p \in Producer, NotifyOne(p) PROVE StopParts'
  BY <1>9 DEF NotifyOne
<1>10. CASE SetStop  BY <1>10 DEF SetStop
<1>11. CASE NotifyAll  BY <1>11 DEF NotifyAll
<1>12. CASE Join  BY <1>12 DEF Join
<1>13. CASE UNCHANGED vars  BY <1>13 DEF vars
<1>14. QED
  BY <1>1, <1>2, <1>3, <1>4, <1>5, <1>6, <1>7, <1>8, <1>9, <1>10, <1>11,
     <1>12, <1>13 DEF Next, WorkerStep

\* Only finitely many can be coming, so that counting them makes sense.
LEMMA ComingFinite == IsFiniteSet(Coming) /\ Cardinality(Coming) \in Nat
<1>1. IsFiniteSet(Worker \cup Producer)
  BY PoolAssumption, FS_Union
<1>2. Coming \in SUBSET (Worker \cup Producer)
  BY DEF Coming
<1>3. QED  BY <1>1, <1>2, FS_Subset, FS_CardinalityType

\* Each closure that waits while a worker sleeps keeps a waker of its own: one
\* step per action, each saying who joins or leaves Coming.
LEMMA ComingStep == ASSUME IInv, [Next]_vars PROVE NoStrandedTask'
<1> USE PoolAssumption DEF IInv, TypeOK
<1> DEFINE Asleep == \E w \in Worker : wpc[w] \in {"block", "sleep"}
<1>a. IsFiniteSet(Coming) /\ Cardinality(Coming) \in Nat /\ Len(q) \in Nat
  BY ComingFinite
<1>b. Cardinality(Coming') \in Nat
  <2>1. IsFiniteSet(Worker \cup Producer)
    BY FS_Union
  <2>2. Coming' \in SUBSET (Worker \cup Producer)
    BY DEF Coming
  <2>3. QED  BY <2>1, <2>2, FS_Subset, FS_CardinalityType
<1>c. Asleep => Len(q) <= Cardinality(Coming)
  BY DEF NoStrandedTask
<1>d. ASSUME q' = <<>> PROVE NoStrandedTask'
  BY <1>b, <1>d DEF NoStrandedTask
<1>e. ASSUME Asleep' => Asleep, q' = q, Coming' = Coming PROVE NoStrandedTask'
  BY <1>c, <1>e DEF NoStrandedTask
<1>f. ASSUME Asleep' => Asleep, q' = q, NEW x, Coming' = Coming \cup {x}
      PROVE NoStrandedTask'
  <2> HIDE DEF IInv, TypeOK
  <2>1. Cardinality(Coming \cup {x})
          = IF x \in Coming THEN Cardinality(Coming) ELSE Cardinality(Coming) + 1
    BY <1>a, FS_AddElement
  <2>2. Cardinality(Coming') >= Cardinality(Coming)
    BY <1>a, <1>f, <2>1
  <2>3. QED  BY <1>a, <1>b, <1>c, <1>f, <2>2 DEF NoStrandedTask
<1>1. ASSUME NEW w \in Worker, Lock(w) PROVE NoStrandedTask'
  <2>1. Coming' = Coming /\ q' = q
    BY <1>1 DEF Lock, Coming
  <2>2. Asleep' => Asleep  BY <1>1 DEF Lock
  <2>3. QED  BY <1>e, <2>1, <2>2
<1>2. ASSUME NEW w \in Worker, Take(w) PROVE NoStrandedTask'
  <2>1. w \in Coming /\ Coming' = Coming \ {w}
    BY <1>2 DEF Take, Coming
  <2>2. Cardinality(Coming') = Cardinality(Coming) - 1
    BY <1>a, <2>1, FS_RemoveElement
  <2>3. Len(q') = Len(q) - 1
    BY <1>2, HeadOrTail DEF Take
  <2>4. Asleep' => Asleep  BY <1>2 DEF Take
  <2>5. QED  BY <1>a, <1>b, <1>c, <2>2, <2>3, <2>4 DEF NoStrandedTask
<1>3. ASSUME NEW w \in Worker, Run(w) PROVE NoStrandedTask'
  <2>1. Coming' = Coming \cup {w} /\ q' = q
    BY <1>3 DEF Run, Coming
  <2>2. Asleep' => Asleep  BY <1>3 DEF Run
  <2>3. QED  BY <1>f, <2>1, <2>2
<1>4. ASSUME NEW w \in Worker, Exit(w) \/ PredFalse(w) PROVE NoStrandedTask'
  BY <1>d, <1>4 DEF Exit, PredFalse
<1>5. ASSUME NEW w \in Worker, Sleep(w) PROVE NoStrandedTask'
  <2>1. Coming' = Coming /\ q' = q
    BY <1>5 DEF Sleep, Coming
  <2>2. Asleep  BY <1>5 DEF Sleep
  <2>3. QED  BY <1>e, <2>1, <2>2
<1>6. ASSUME NEW w \in Worker, Spurious(w) PROVE NoStrandedTask'
  <2>1. Coming' = Coming \cup {w} /\ q' = q
    BY <1>6 DEF Spurious, Coming
  <2>2. Asleep  BY <1>6 DEF Spurious
  <2>3. QED  BY <1>f, <2>1, <2>2
<1>7. ASSUME NEW p \in Producer, Emplace(p) PROVE NoStrandedTask'
  <2>1. p \notin Coming /\ Coming' = Coming \cup {p}
    BY <1>7 DEF Emplace, Coming
  <2>2. Cardinality(Coming') = Cardinality(Coming) + 1
    BY <1>a, <2>1, FS_AddElement
  <2>3. Len(q') = Len(q) + 1
    BY <1>7, AppendElements DEF Emplace
  <2>4. Asleep' => Asleep  BY <1>7 DEF Emplace
  <2>5. QED  BY <1>a, <1>b, <1>c, <2>2, <2>3, <2>4 DEF NoStrandedTask
<1>8. ASSUME NEW p \in Producer, NotifyOne(p) PROVE NoStrandedTask'
  <2>1. ASSUME NEW w \in Worker, wpc[w] = "sleep",
               wpc' = [wpc EXCEPT ![w] = "lock"]
        PROVE NoStrandedTask'
    <3>1. p \in Coming /\ w \notin Coming \ {p}
      BY <1>8, <2>1 DEF NotifyOne, Coming
    <3>2. Coming' = (Coming \ {p}) \cup {w}
      BY <1>8, <2>1 DEF NotifyOne, Coming
    <3>3. /\ IsFiniteSet(Coming \ {p})
          /\ Cardinality(Coming \ {p}) = Cardinality(Coming) - 1
      BY <1>a, <3>1, FS_RemoveElement
    <3>4. Cardinality(Coming') = Cardinality(Coming \ {p}) + 1
      BY <3>1, <3>2, <3>3, FS_AddElement
    <3>5. Asleep /\ q' = q  BY <1>8, <2>1 DEF NotifyOne
    <3>6. QED  BY <1>a, <1>c, <3>3, <3>4, <3>5 DEF NoStrandedTask
  <2>2. CASE (\A w \in Worker : wpc[w] # "sleep") /\ wpc' = wpc
    <3>1. Asleep' => q' = <<>>
      BY <1>8, <2>2 DEF NotifyOne, BlockedOnEmpty
    <3>2. QED  BY <1>d, <3>1 DEF NoStrandedTask
  <2>3. QED  BY <1>8, <2>1, <2>2 DEF NotifyOne
<1>9. CASE NotifyAll
  <2>1. Asleep' => q' = <<>>
    BY <1>9 DEF NotifyAll, BlockedOnEmpty
  <2>2. QED  BY <1>d, <2>1 DEF NoStrandedTask
<1>10. CASE SetStop \/ Join \/ UNCHANGED vars
  <2>1. q' = q /\ wpc' = wpc /\ ppc' = ppc
    BY <1>10 DEF SetStop, Join, vars
  <2>2. Coming' = Coming /\ (Asleep' => Asleep)
    BY <2>1 DEF Coming
  <2>3. QED  BY <1>e, <2>1, <2>2
<1>11. QED
  BY <1>1, <1>2, <1>3, <1>4, <1>5, <1>6, <1>7, <1>8, <1>9, <1>10
     DEF Next, WorkerStep

\* A closure that was enqueued is in the queue, being called, or finished: one
\* step per action that moves one.
LEMMA AccountedStep == ASSUME IInv, [Next]_vars PROVE Accounted'
<1> USE DEF IInv, TypeOK
<1>1. ASSUME NEW w \in Worker, Take(w) PROVE Accounted'
  <2>1. \A fn : InQueue(fn) <=> fn = Head(q) \/ InQueue(fn)'
    <3>1. q # <<>> /\ q \in Seq(Task) /\ q' = Tail(q)  BY <1>1 DEF Take
    <3> HIDE DEF IInv, TypeOK
    <3>2. \A fn : (\E i \in 1..Len(q) : q[i] = fn)
                  <=> fn = Head(q) \/ (\E i \in 1..Len(Tail(q)) : Tail(q)[i] = fn)
      BY <3>1, HeadOrTail
    <3>3. QED  BY <3>1, <3>2 DEF InQueue
  <2>2. \A fn : Running(fn)' <=> fn = Head(q) \/ Running(fn)
    BY <1>1 DEF Take, Running
  <2>3. enqueued' = enqueued /\ finished' = finished
    BY <1>1 DEF Take
  <2>4. QED  BY <2>1, <2>2, <2>3 DEF Accounted
<1>2. ASSUME NEW w \in Worker, Run(w) PROVE Accounted'
  <2>1. \A fn : Running(fn) <=> fn = task[w] \/ Running(fn)'
    <3>1. ASSUME NEW fn, NEW v \in Worker, wpc[v] = "run", task[v] = fn
          PROVE fn = task[w] \/ Running(fn)'
      BY <1>2, <3>1 DEF Run, Running
    <3>2. ASSUME NEW fn, Running(fn)' PROVE Running(fn)
      BY <1>2, <3>2 DEF Run, Running
    <3>3. Running(task[w])  BY <1>2 DEF Run, Running
    <3>4. QED  BY <3>1, <3>2, <3>3 DEF Running
  <2>2. \A fn : InQueue(fn)' <=> InQueue(fn)
    BY <1>2 DEF Run, InQueue
  <2>3. enqueued' = enqueued /\ finished' = finished \cup {task[w]}
    BY <1>2 DEF Run
  <2>4. QED  BY <2>1, <2>2, <2>3 DEF Accounted
<1>3. ASSUME NEW p \in Producer, Emplace(p) PROVE Accounted'
  <2>1. PICK e \in Task : q' = Append(q, e) /\ enqueued' = enqueued \cup {e}
    BY <1>3 DEF Emplace
  <2>2. \A fn : InQueue(fn)' <=> fn = e \/ InQueue(fn)
    BY <2>1, AppendElements DEF InQueue
  <2>3. \A fn : Running(fn)' <=> Running(fn)
    BY <1>3 DEF Emplace, Running
  <2>4. finished' = finished  BY <1>3 DEF Emplace
  <2>5. QED  BY <2>1, <2>2, <2>3, <2>4 DEF Accounted
<1>4. ASSUME UNCHANGED <<q, task, enqueued, finished>>,
             \A w \in Worker : wpc'[w] = "run" <=> wpc[w] = "run"
      PROVE Accounted'
  BY <1>4 DEF Accounted, InQueue, Running
<1>5. ASSUME NEW w \in Worker,
             Lock(w) \/ Exit(w) \/ PredFalse(w) \/ Sleep(w) \/ Spurious(w)
      PROVE Accounted'
  BY <1>4, <1>5 DEF Lock, Exit, PredFalse, Sleep, Spurious
<1>6. ASSUME NEW p \in Producer, NotifyOne(p) PROVE Accounted'
  BY <1>4, <1>6 DEF NotifyOne
<1>7. CASE SetStop \/ NotifyAll \/ Join \/ UNCHANGED vars
  BY <1>4, <1>7 DEF SetStop, NotifyAll, Join, vars
<1>8. QED
  BY <1>1, <1>2, <1>3, <1>5, <1>6, <1>7 DEF Next, WorkerStep

LEMMA InitIInv == ASSUME Init PROVE IInv
<1> USE PoolAssumption DEF Init
<1>1. TypeOK
  <2>1. q \in Seq(Task) /\ started \in Seq(Task)
    OBVIOUS
  <2>2. /\ wpc \in [Worker -> {"lock", "pred", "block", "sleep", "run", "exit"}]
        /\ task \in [Worker -> Task]
        /\ ppc \in [Producer -> {"idle", "notify"}]
    OBVIOUS
  <2>3. /\ mtx \in Worker \cup {Free} /\ stop \in BOOLEAN
        /\ enqueued \subseteq Task /\ finished \subseteq Task
    OBVIOUS
  <2>4. QED  BY <2>1, <2>2, <2>3 DEF TypeOK
<1>2. MutexOK /\ BlockedOnEmpty /\ StopFlag /\ StopSeenUnderLock
      /\ NoLateCall /\ LeftEmpty
  BY DEF MutexOK, BlockedOnEmpty, StopFlag, StopSeenUnderLock, NoLateCall,
         LeftEmpty
<1>3. NoStrandedTask  BY DEF NoStrandedTask
<1>4. Accounted  BY DEF Accounted, InQueue, Running
<1>5. StopReachesAll /\ dpc # "joined"  BY DEF StopReachesAll
<1>6. QED  BY <1>1, <1>2, <1>3, <1>4, <1>5 DEF IInv

LEMMA Invariance == Spec => []IInv
<1>1. Init => IInv  BY InitIInv
<1>2. ASSUME IInv, [Next]_vars PROVE IInv'
  <2>1. TypeOK'  BY <1>2, TypeStep DEF IInv
  <2>2. QED
    BY <1>2, <2>1, LockStep, StopStep, ComingStep, AccountedStep
       DEF IInv, StopParts
<1>3. QED  BY <1>1, <1>2, PTL DEF Spec

-----------------------------------------------------------------------------
\* Every variable of the pool keeps its type.
THEOREM Typing == Spec => []TypeOK
<1>1. IInv => TypeOK  BY DEF IInv
<1>2. QED  BY <1>1, Invariance, PTL

\* For any number of workers and callers, and either destructor: while a
\* worker sleeps, each waiting closure has a caller about to notify or an
\* awake worker of its own, so notifying after the unlock loses nothing.
THEOREM NoneStranded == Spec => []NoStrandedTask
<1>1. IInv => NoStrandedTask  BY DEF IInv
<1>2. QED  BY <1>1, Invariance, PTL

\* A pool whose callers are done with it has called every closure to its end
\* when its destructor returns.
THEOREM Drained == ASSUME ~LateEnqueue PROVE Spec => []DrainedAtJoin
<1>1. ASSUME IInv PROVE DrainedAtJoin
  <2> SUFFICES ASSUME dpc = "joined" PROVE q = <<>> /\ finished = enqueued
    BY DEF DrainedAtJoin
  <2>1. \A w \in Worker : wpc[w] = "exit"
    BY <1>1 DEF IInv
  <2>2. q = <<>>
    BY <1>1, <2>1, PoolAssumption DEF IInv, LeftEmpty
  <2>3. \A fn \in Task : ~InQueue(fn) /\ ~Running(fn)
    BY <2>1, <2>2 DEF InQueue, Running
  <2>4. \A fn \in Task : fn \in enqueued <=> fn \in finished
    BY <1>1, <2>3 DEF IInv, Accounted
  <2>5. enqueued \subseteq Task /\ finished \subseteq Task
    BY <1>1 DEF IInv, TypeOK
  <2>6. QED  BY <2>2, <2>4, <2>5
<1>2. QED  BY <1>1, Invariance, PTL

\* A destructor that sets stop under the lock leaves no worker asleep, or
\* about to sleep, behind its notify_all.
THEOREM StopReaches == ASSUME StopUnderLock PROVE Spec => []StopReachesAll
<1>1. IInv => StopReachesAll  BY DEF IInv
<1>2. QED  BY <1>1, Invariance, PTL

\* The safety half of ImplementsHandoff: closures are taken in the order of
\* enqueue, none is lost and none is taken twice, in every variant.
THEOREM HandoffSteps == Spec => H!Init /\ [][H!Next]_H!vars
<1>1. Init => H!Init
  BY DEF Init, H!Init
<1>2. ASSUME IInv, [Next]_vars PROVE [H!Next]_H!vars
  <2>1. ASSUME NEW w \in Worker, Take(w) PROVE H!Next
    <3>1. H!Deliver  BY <2>1 DEF Take, H!Deliver
    <3>2. QED  BY <3>1 DEF H!Next
  <2>2. ASSUME NEW p \in Producer, Emplace(p) PROVE H!Next
    <3>1. \E fn \in Task : H!Post(fn)  BY <2>2 DEF Emplace, H!Post
    <3>2. QED  BY <3>1 DEF H!Next
  <2>3. ASSUME NEW w \in Worker,
               Lock(w) \/ Run(w) \/ Exit(w) \/ PredFalse(w) \/ Sleep(w)
                 \/ Spurious(w)
        PROVE UNCHANGED H!vars
    BY <2>3 DEF Lock, Run, Exit, PredFalse, Sleep, Spurious, H!vars
  <2>4. ASSUME NEW p \in Producer, NotifyOne(p) PROVE UNCHANGED H!vars
    BY <2>4 DEF NotifyOne, H!vars
  <2>5. CASE SetStop \/ NotifyAll \/ Join \/ UNCHANGED vars
    BY <2>5 DEF SetStop, NotifyAll, Join, vars, H!vars
  <2>6. QED
    BY <1>2, <2>1, <2>2, <2>3, <2>4, <2>5 DEF Next, WorkerStep
<1>3. QED  BY <1>1, <1>2, Invariance, PTL DEF Spec
=============================================================================
