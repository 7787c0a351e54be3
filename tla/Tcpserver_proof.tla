---------------------------- MODULE Tcpserver_proof ----------------------------
(***************************************************************************)
(* Tcpserver for every number of clients, descriptors, heap cells, workers *)
(* and loops: its types; the map is exact up to the first undefined step;  *)
(* and until an alarm finds the first Connection expired: an IO thread     *)
(* never meets a Connection that is gone, the map stays exact, which dead  *)
(* pointers are used, and where replies go without workers.                *)
(***************************************************************************)
EXTENDS Tcpserver, TLAPS

Busy(l) == lpc[l] # "handle"

\* newconnection sets four callbacks, and a worker has what it took.
SetupOK ==
  /\ mpc = "insert" => mconn \in Client /\ conn[mconn].callbacks = 0
  /\ mpc = "callbacks" => mconn \in Client /\ conn[mconn].callbacks <= 3
WorkerOK == \A w \in Worker : wpc[w] # "wait" => wconn[w] \in Client

\* A Connection that exists has a descriptor and a cell.
PlacedOK == \A c \in live : conn[c].fd \in Fd /\ conn[c].cell \in Addr

Basic == TypeOK /\ SetupOK /\ WorkerOK /\ PlacedOK

\* Connections that exist share neither descriptor nor cell, and none of them
\* still waits to be accepted.
HeapOK ==
  /\ \A c \in live : c \notin backlog
  /\ \A c, d \in live :
       conn[c].fd = conn[d].fd \/ conn[c].cell = conn[d].cell => c = d

\* What an IO thread is closing was accepted before.
ClosingOK == \A l \in Loop : Busy(l) => lconn[l] \in Client \ backlog

\* What the epoll instances report exists.
EdgeOK == edge \subseteq live

\* The iterator is at a node while that node is to be erased.
IteratorOK ==
  /\ mpc = "erase" => it \in Fd
  /\ mpc \in {"erase", "delete"} => mconn \in Client

Listed(c) == \E fd \in Fd : connections[fd] = c

\* Up to the first undefined step: who is in the map, and who may not be.
MapLive ==
  \A fd \in Fd : connections[fd] # None =>
    connections[fd] \in live /\ conn[connections[fd]].fd = fd
LiveListed ==
  \A c \in live :
    \/ connections[conn[c].fd] = c
    \/ mpc \in {"insert", "delete"} /\ mconn = c
    \/ \E l \in Loop : lpc[l] = "delete" /\ lconn[l] = c
Inserting ==
  mpc = "insert" => /\ mconn \in live /\ ~Listed(mconn)
                    /\ \A l \in Loop : Busy(l) => lconn[l] # mconn
TimerErasing == mpc = "erase" => connections[it] \in {mconn, None}
TimerDeleting == mpc = "delete" => ~Listed(mconn)
LoopDeleting == \A l \in Loop : lpc[l] = "delete" => ~Listed(lconn[l])

Exact ==
  /\ MapLive /\ LiveListed /\ Inserting
  /\ TimerErasing /\ TimerDeleting /\ LoopDeleting

\* Until a Connection is found expired the timer deletes nothing, whatever an IO
\* thread holds exists and belongs to that thread's own loop, and what it is
\* closing is not to be handled again.
Held(l, c) == c \in live /\ LoopOf(conn[c].fd) = l

Silent ==
  /\ mpc \notin {"erase", "delete"}
  /\ \A l \in Loop : Busy(l) => Held(l, lconn[l])
  /\ \A l \in Loop : \A c \in batch[l] :
       Held(l, c) /\ (Busy(l) => lconn[l] # c)
  /\ stale \cap {"event", "close"} = {}

SilentInv == ~expired => Silent

ExactSoFar == stale \subseteq {"setup", "reply"} \/ ~expired => Exact

IInv ==
  /\ Basic /\ HeapOK /\ ClosingOK /\ EdgeOK /\ IteratorOK
  /\ SilentInv /\ ExactSoFar

-----------------------------------------------------------------------------
(* What the helpers do. *)

Kinds == {"setup", "event", "close", "reply", "timer", "iterator"}

\* A pointer leads to a Connection that exists.
LEMMA AtLive ==
  ASSUME TypeOK, NEW p, NEW c \in At(p)
  PROVE  c \in live /\ c \in Client
  BY DEF At, TypeOK

\* Every use of a pointer keeps the history in its types, and never shrinks it.
LEMMA History ==
  ASSUME TypeOK, NEW k \in Kinds, NEW p, NEW c,
         Valid \/ (Reaches(p, c, k) /\ crashed' \in BOOLEAN) \/ Dangling(k)
  PROVE  stale' \subseteq Kinds /\ crashed' \in BOOLEAN /\ stale \subseteq stale'
  BY DEF TypeOK, Kinds, Valid, Reaches, Dangling

\* What handling an event does to the Connection it leads to.
LEMMA EventEffects ==
  ASSUME TypeOK, NEW l \in Loop, NEW c \in live,
         ReadMessage(l, c) \/ ReadEnd(l, c) \/ HandleError(l, c)
  PROVE  /\ UNCHANGED conn \/ conn' = [conn EXCEPT ![c].disconnect_ = TRUE]
         /\ edge' \subseteq edge \cup {c} /\ crashed' \in BOOLEAN
         /\ \/ UNCHANGED <<lpc, lconn>>
            \/ /\ conn[c].callbacks >= 1
               /\ lpc' = [lpc EXCEPT ![l] = "erase"]
               /\ lconn' = [lconn EXCEPT ![l] = c]
<1>1. ASSUME NEW k \in {1, 2}, Close(l, c, k)
      PROVE  /\ UNCHANGED conn \/ conn' = [conn EXCEPT ![c].disconnect_ = TRUE]
             /\ edge' \subseteq edge \cup {c} /\ crashed' \in BOOLEAN
             /\ \/ UNCHANGED <<lpc, lconn>>
                \/ /\ conn[c].callbacks >= 1
                   /\ lpc' = [lpc EXCEPT ![l] = "erase"]
                   /\ lconn' = [lconn EXCEPT ![l] = c]
  <2>1. conn[c].callbacks \in 0 .. 4
    BY DEF TypeOK, Fields
  <2>2. crashed' \in BOOLEAN
    BY <1>1 DEF Close, TypeOK
  <2>3. QED  BY <1>1, <2>1, <2>2 DEF Close
<1>2. CASE ReadMessage(l, c)
  BY <1>2 DEF ReadMessage, TypeOK
<1>3. QED  BY <1>1, <1>2 DEF ReadEnd, HandleError

LEMMA FieldUpdate ==
  ASSUME NEW r \in Fields
  PROVE  /\ \A n \in 0 .. 4 : [r EXCEPT !.callbacks = n] \in Fields
         /\ [r EXCEPT !.disconnect_ = TRUE] \in Fields
         /\ r.callbacks \in 0 .. 4 /\ r.fd \in Fd \cup {None}
         /\ r.cell \in Addr \cup {None}
  BY DEF Fields

\* Setting a callback or disconnect_ keeps the types, and every Connection's
\* descriptor and cell.
SamePlace == \A d \in Client : conn'[d].fd = conn[d].fd /\ conn'[d].cell = conn[d].cell

LEMMA SetOne ==
  ASSUME TypeOK, NEW c \in Client, NEW n \in 0 .. 4,
         conn' = [conn EXCEPT ![c].callbacks = n]
  PROVE  conn' \in [Client -> Fields] /\ SamePlace
<1>1. conn[c] \in Fields
  BY DEF TypeOK
<1>2. [conn[c] EXCEPT !.callbacks = n] \in Fields
  BY <1>1, FieldUpdate
<1>3. conn' \in [Client -> Fields]
  BY <1>2 DEF TypeOK
<1>4. SamePlace
  BY <1>1 DEF TypeOK, SamePlace, Fields
<1>5. QED  BY <1>3, <1>4

LEMMA SetDisconnect ==
  ASSUME TypeOK, NEW c \in Client, conn' = [conn EXCEPT ![c].disconnect_ = TRUE]
  PROVE  conn' \in [Client -> Fields] /\ SamePlace
<1>1. conn[c] \in Fields
  BY DEF TypeOK
<1>2. [conn[c] EXCEPT !.disconnect_ = TRUE] \in Fields
  BY <1>1, FieldUpdate
<1>3. conn' \in [Client -> Fields]
  BY <1>2 DEF TypeOK
<1>4. SamePlace
  BY <1>1 DEF TypeOK, SamePlace, Fields
<1>5. QED  BY <1>3, <1>4

\* delete keeps the types.
LEMMA DeleteTypes ==
  ASSUME TypeOK, NEW c, Delete(c)
  PROVE  /\ live' \subseteq live /\ live' \subseteq Client /\ edge' \subseteq Client
  BY DEF Delete, TypeOK

-----------------------------------------------------------------------------
(* What steps do to the Connections. *)

\* A step that changes a Connection makes a new one, sets the next callback or
\* clears them all, or sets disconnect_.
LEMMA ConnSteps ==
  ASSUME Basic, [Next]_vars
  PROVE  \/ \E c \in Client : NewConnection(c)
         \/ conn' \in [Client -> Fields] /\ SamePlace
<1> USE DEF Basic
<1>1. CASE UNCHANGED conn
  BY <1>1 DEF SamePlace, TypeOK
<1>2. CASE SetCallback /\ ~UNCHANGED conn
  <2>1. mconn \in Client /\ conn[mconn].callbacks + 1 \in 0 .. 4
    <3>1. mconn \in Client /\ conn[mconn].callbacks <= 3
      BY <1>2 DEF SetCallback, SetupOK
    <3>2. conn[mconn].callbacks \in 0 .. 4
      BY <3>1, FieldUpdate DEF TypeOK
    <3>3. QED  BY <3>1, <3>2
  <2>2. conn' = [conn EXCEPT ![mconn].callbacks = conn[mconn].callbacks + 1]
    BY <1>2, <2>1 DEF SetCallback, TypeOK
  <2>3. QED  BY <2>1, <2>2, SetOne
<1>3. CASE Expired /\ ~UNCHANGED conn
  <2>1. PICK c \in Client : conn' = [conn EXCEPT ![c].callbacks = 0]
    BY <1>3, AtLive DEF Expired
  <2>2. 0 \in 0 .. 4  OBVIOUS
  <2>3. QED  BY <2>1, <2>2, SetOne
<1>4. ASSUME NEW l \in Loop, HandleEvent(l), ~UNCHANGED conn
      PROVE conn' \in [Client -> Fields] /\ SamePlace
  <2>1. PICK c \in Client : conn' = [conn EXCEPT ![c].disconnect_ = TRUE]
    BY <1>4, AtLive, EventEffects DEF HandleEvent
  <2>2. QED  BY <2>1, SetDisconnect
<1>5. QED
  BY <1>1, <1>2, <1>3, <1>4
  DEF Next, vars, heap, ClientStep, MainStep, LoopStep, WorkerStep, Send, Fin, Reset,
      Insert, EndScan, NotExpired, TimerErase, TimerDelete, TimerFires, Poll,
      CloseErase, CloseDelete, RunTask, Take, TestDisconnect, AddTask
-----------------------------------------------------------------------------
(* Types. *)

LEMMA HistorySteps ==
  ASSUME TypeOK, [Next]_vars
  PROVE  /\ stale' \subseteq Kinds /\ crashed' \in BOOLEAN /\ stale \subseteq stale'
         /\ expired => expired'
<1> DEFINE Goal == stale' \subseteq Kinds /\ crashed' \in BOOLEAN /\ stale \subseteq stale'
<1> USE DEF Kinds
<1>1. Valid \/ UNCHANGED vars => Goal
  BY DEF Valid, vars, TypeOK
<1>2. SetCallback => Goal
  BY DEF SetCallback, Valid, Dangling, TypeOK
<1>3. NotExpired \/ TimerErase => Goal
  <2>1. NotExpired \/ TimerErase => UseIterator
    BY DEF NotExpired, TimerErase
  <2>2. UseIterator => Goal
    BY DEF UseIterator, Valid, Dangling, TypeOK
  <2>3. QED  BY <2>1, <2>2
<1>4. Expired => Goal
  <2>1. Expired => crashed' \in BOOLEAN  BY DEF Expired, Dangling, TypeOK
  <2>2. QED  BY <2>1, History DEF Expired
<1>5. TimerDelete => Goal
  <2>1. TimerDelete => crashed' \in BOOLEAN  BY DEF TimerDelete, Dangling, TypeOK
  <2>2. QED  BY <2>1, History DEF TimerDelete
<1>6. ASSUME NEW l \in Loop, HandleEvent(l)
      PROVE  Goal
  <2>1. crashed' \in BOOLEAN
    BY <1>6, AtLive, EventEffects DEF HandleEvent, Dangling
  <2>2. QED  BY <1>6, <2>1, History DEF HandleEvent
<1>7. ASSUME NEW l \in Loop, CloseErase(l)
      PROVE  Goal
  <2>1. crashed' \in BOOLEAN  BY <1>7 DEF CloseErase, Dangling, TypeOK
  <2>2. QED  BY <1>7, <2>1, History DEF CloseErase
<1>8. ASSUME NEW l \in Loop, CloseDelete(l)
      PROVE  Goal
  <2>1. crashed' \in BOOLEAN  BY <1>8 DEF CloseDelete, Dangling, TypeOK
  <2>2. QED  BY <1>8, <2>1, History DEF CloseDelete
<1>9. ASSUME NEW l \in Loop, RunTask(l)
      PROVE  Goal
  <2>1. crashed' \in BOOLEAN  BY <1>9 DEF RunTask, Dangling, TypeOK
  <2>2. QED  BY <1>9, <2>1, History DEF RunTask
<1>10. ASSUME NEW w \in Worker, TestDisconnect(w) \/ AddTask(w)
      PROVE  Goal
  <2>1. crashed' \in BOOLEAN
    BY <1>10 DEF TestDisconnect, AddTask, Dangling, TypeOK
  <2>2. QED  BY <1>10, <2>1, History DEF TestDisconnect, AddTask
<1>11. Goal
  BY <1>1, <1>2, <1>3, <1>4, <1>5, <1>6, <1>7, <1>8, <1>9, <1>10
  DEF Next, ClientStep, MainStep, LoopStep, WorkerStep, Send, Fin, Reset,
      NewConnection, Insert, EndScan, TimerFires, Poll, Take
<1>12. expired => expired'
  BY DEF Next, vars, main, ClientStep, MainStep, LoopStep, WorkerStep, Send, Fin, Reset,
     NewConnection, Insert, SetCallback, EndScan, NotExpired, Expired, TimerErase,
     TimerDelete, TimerFires, Poll, HandleEvent, CloseErase, CloseDelete, RunTask,
     Take, TestDisconnect, AddTask
<1>13. QED  BY <1>11, <1>12

LEMMA BasicStep ==
  ASSUME Basic, [Next]_vars
  PROVE  Basic'
<1> USE ServerAssumption DEF Basic
<1>1. stale' \subseteq Kinds /\ crashed' \in BOOLEAN
  BY HistorySteps
<1>2. conn' \in [Client -> Fields]
  <2>1. ASSUME NEW c \in Client, NewConnection(c) PROVE conn' \in [Client -> Fields]
    <3>1. PICK fd \in Fd, cell \in Addr :
            conn' = [conn EXCEPT ![c] = [fd |-> fd, cell |-> cell, callbacks |-> 0,
                                         disconnect_ |-> FALSE]]
      BY <2>1 DEF NewConnection
    <3>2. [fd |-> fd, cell |-> cell, callbacks |-> 0, disconnect_ |-> FALSE] \in Fields
      BY DEF Fields
    <3>3. QED  BY <3>1, <3>2 DEF TypeOK
  <2>2. QED  BY <2>1, ConnSteps
<1>3. ASSUME NEW c \in Client, Send(c)
      PROVE TypeOK'
  BY <1>1, <1>2, <1>3
  DEF TypeOK, Kinds, Send, kernel, heap, main, io, queues, Arrives, PlacedOK
<1>4. ASSUME NEW c \in Client, Fin(c) \/ Reset(c)
      PROVE TypeOK'
  BY <1>1, <1>2, <1>4
  DEF TypeOK, Kinds, Fin, Reset, kernel, heap, main, io, queues, Arrives, PlacedOK
<1>5. ASSUME NEW c \in Client, NewConnection(c)
      PROVE TypeOK'
  BY <1>1, <1>2, <1>5
  DEF TypeOK, Kinds, NewConnection, kernel, heap, main, io, queues
<1>6. ASSUME Insert
      PROVE TypeOK'
  BY <1>1, <1>2, <1>6
  DEF TypeOK, Kinds, Insert, kernel, heap, main, io, queues
<1>7. ASSUME SetCallback
      PROVE TypeOK'
  BY <1>1, <1>2, <1>7
  DEF TypeOK, Kinds, SetCallback, kernel, heap, main, io, queues
<1>8. ASSUME EndScan
      PROVE TypeOK'
  BY <1>1, <1>2, <1>8
  DEF TypeOK, Kinds, EndScan, kernel, heap, main, io, queues
<1>9. ASSUME NotExpired
      PROVE TypeOK'
  BY <1>1, <1>2, <1>9
  DEF TypeOK, Kinds, NotExpired, kernel, heap, main, io, queues, After, First
<1>10. ASSUME Expired
      PROVE TypeOK'
  BY <1>1, <1>2, <1>10
  DEF TypeOK, Kinds, Expired, kernel, heap, main, io, queues
<1>11. ASSUME TimerErase
      PROVE TypeOK'
  BY <1>1, <1>2, <1>11
  DEF TypeOK, Kinds, TimerErase, kernel, heap, main, io, queues, After, First
<1>12. ASSUME TimerDelete
      PROVE TypeOK'
  BY <1>1, <1>2, <1>12, AtLive, DeleteTypes
  DEF TypeOK, Kinds, TimerDelete, kernel, heap, main, io, queues
<1>13. ASSUME TimerFires
      PROVE TypeOK'
  BY <1>1, <1>2, <1>13
  DEF TypeOK, Kinds, TimerFires, kernel, heap, main, io, queues, First
<1>14. ASSUME NEW l \in Loop, Poll(l)
      PROVE TypeOK'
  BY <1>1, <1>2, <1>14
  DEF TypeOK, Kinds, Poll, kernel, heap, main, io, queues
<1>15. ASSUME NEW l \in Loop, HandleEvent(l)
      PROVE TypeOK'
  <2>1. ASSUME NEW c \in live, ReadMessage(l, c) \/ ReadEnd(l, c) \/ HandleError(l, c)
        PROVE  /\ msg' \in [Client -> {"none", "unread", "read"}] /\ edge' \subseteq Client
               /\ lpc' \in [Loop -> {"handle", "erase", "delete"}]
               /\ lconn' \in [Loop -> Client \cup {None}]
               /\ sent' \subseteq Client \X Client /\ q' \in Seq(Client)
               /\ task_queue' \in [Loop -> Seq(Client)]
    <3>1. c \in Client
      BY DEF TypeOK
    <3>2. edge' \subseteq Client
      BY <2>1, <3>1, EventEffects DEF TypeOK
    <3>3. /\ lpc' \in [Loop -> {"handle", "erase", "delete"}]
          /\ lconn' \in [Loop -> Client \cup {None}]
      <4>1. \/ UNCHANGED <<lpc, lconn>>
            \/ /\ lpc' = [lpc EXCEPT ![l] = "erase"]
               /\ lconn' = [lconn EXCEPT ![l] = c]
        BY <2>1, EventEffects
      <4>2. /\ lpc \in [Loop -> {"handle", "erase", "delete"}]
            /\ lconn \in [Loop -> Client \cup {None}]
        BY DEF TypeOK
      <4>3. QED  BY <3>1, <4>1, <4>2
    <3>4. /\ msg' \in [Client -> {"none", "unread", "read"}]
          /\ sent' \subseteq Client \X Client /\ q' \in Seq(Client)
      <4>1. /\ q' = q \/ q' = Append(q, c)
            /\ sent' = sent \/ sent' = sent \cup {<<c, c>>}
            /\ msg' = msg \/ Consume(c)
        BY <2>1 DEF ReadMessage, ReadEnd, HandleError
      <4>2. q' \in Seq(Client) /\ sent' \subseteq Client \X Client
        <5>1. q \in Seq(Client) /\ sent \subseteq Client \X Client
          BY DEF TypeOK
        <5>2. q' \in Seq(Client)
          BY <3>1, <4>1, <5>1
        <5>3. sent' \subseteq Client \X Client
          BY <3>1, <4>1, <5>1
        <5>4. QED  BY <5>2, <5>3
      <4>3. msg' \in [Client -> {"none", "unread", "read"}]
        BY <4>1 DEF Consume, TypeOK
      <4>4. QED  BY <4>2, <4>3
    <3>5. task_queue' \in [Loop -> Seq(Client)]
      <4>1. \A k \in Loop : Append(task_queue[k], c) \in Seq(Client)
        BY <3>1 DEF TypeOK
      <4>2. \/ UNCHANGED task_queue
            \/ \E k : task_queue' = [task_queue EXCEPT ![k] = Append(@, c)]
        BY <2>1 DEF ReadMessage, ReadEnd, HandleError
      <4>3. ASSUME NEW k, task_queue' = [task_queue EXCEPT ![k] = Append(@, c)]
            PROVE  task_queue' \in [Loop -> Seq(Client)]
        BY <4>1, <4>3 DEF TypeOK
      <4>4. QED  BY <4>2, <4>3 DEF TypeOK
    <3>6. QED  BY <3>2, <3>3, <3>4, <3>5
  <2>2. PICK p \in batch[l] :
          /\ batch' = [batch EXCEPT ![l] = @ \ {p}]
          /\ \/ \E c \in At(p) : ReadMessage(l, c) \/ ReadEnd(l, c) \/ HandleError(l, c)
             \/ UNCHANGED <<msg, edge, conn, lpc, lconn, sent, q, task_queue>>
    BY <1>15 DEF HandleEvent
  <2>3. batch' \in [Loop -> SUBSET Client]
    BY <2>2 DEF TypeOK
  <2>4. CASE \E c \in At(p) : ReadMessage(l, c) \/ ReadEnd(l, c) \/ HandleError(l, c)
    <3>1. PICK c \in live : ReadMessage(l, c) \/ ReadEnd(l, c) \/ HandleError(l, c)
      BY <2>4, AtLive
    <3>2. QED
      BY <1>1, <1>2, <1>15, <2>1, <2>3, <3>1 DEF HandleEvent, TypeOK, Kinds, main
  <2>5. CASE UNCHANGED <<msg, edge, conn, lpc, lconn, sent, q, task_queue>>
    BY <1>1, <1>2, <1>15, <2>3, <2>5 DEF HandleEvent, TypeOK, Kinds, main
  <2>6. QED  BY <2>2, <2>4, <2>5
<1>16. ASSUME NEW l \in Loop, CloseErase(l)
      PROVE TypeOK'
  BY <1>1, <1>2, <1>16
  DEF TypeOK, Kinds, CloseErase, kernel, heap, main, io, queues
<1>17. ASSUME NEW l \in Loop, CloseDelete(l)
      PROVE TypeOK'
  BY <1>1, <1>2, <1>17, AtLive, DeleteTypes
  DEF TypeOK, Kinds, CloseDelete, kernel, heap, main, io, queues
<1>18. ASSUME NEW l \in Loop, RunTask(l)
      PROVE TypeOK'
  <2>1. task_queue[l] \in Seq(Client) /\ task_queue[l] # <<>>
    BY <1>18 DEF TypeOK, RunTask
  <2>2. Head(task_queue[l]) \in Client /\ Tail(task_queue[l]) \in Seq(Client)
    BY <2>1
  <2>3. task_queue' \in [Loop -> Seq(Client)]
    BY <1>18, <2>2 DEF RunTask, TypeOK
  <2>4. sent' \subseteq Client \X Client
    BY <1>18, <2>2, AtLive DEF RunTask, TypeOK
  <2>5. QED
    BY <1>1, <1>2, <1>18, <2>3, <2>4 DEF TypeOK, Kinds, RunTask, kernel, heap, main, io
<1>19. ASSUME NEW w \in Worker, Take(w)
      PROVE TypeOK'
  BY <1>1, <1>2, <1>19
  DEF TypeOK, Kinds, Take, kernel, heap, main, io, queues
<1>20. ASSUME NEW w \in Worker, TestDisconnect(w)
      PROVE TypeOK'
  BY <1>1, <1>2, <1>20
  DEF TypeOK, Kinds, TestDisconnect, kernel, heap, main, io, queues
<1>21. ASSUME NEW w \in Worker, AddTask(w)
      PROVE TypeOK'
  <2>1. wconn[w] \in Client
    BY <1>21 DEF AddTask, WorkerOK
  <2>2. task_queue' \in [Loop -> Seq(Client)]
    <3>1. \A k \in Loop : Append(task_queue[k], wconn[w]) \in Seq(Client)
      BY <2>1 DEF TypeOK
    <3>2. \/ UNCHANGED task_queue
          \/ \E k : task_queue' = [task_queue EXCEPT ![k] = Append(@, wconn[w])]
      BY <1>21 DEF AddTask
    <3>3. ASSUME NEW k, task_queue' = [task_queue EXCEPT ![k] = Append(@, wconn[w])]
          PROVE task_queue' \in [Loop -> Seq(Client)]
      BY <3>1, <3>3 DEF TypeOK
    <3>4. QED  BY <3>2, <3>3 DEF TypeOK
  <2>3. QED
    BY <1>1, <1>2, <1>21, <2>2 DEF TypeOK, Kinds, AddTask, kernel, heap, main, io
<1>22. ASSUME UNCHANGED vars
      PROVE TypeOK'
  BY <1>22 DEF vars, kernel, heap, main, io, queues, TypeOK
<1>23. TypeOK'
  BY <1>3, <1>4, <1>5, <1>6, <1>7, <1>8, <1>9, <1>10, <1>11, <1>12, <1>13,
     <1>14, <1>15, <1>16, <1>17, <1>18, <1>19, <1>20, <1>21, <1>22
  DEF Next, ClientStep, MainStep, LoopStep, WorkerStep
<1>24. SetupOK'
  <2>1. CASE Insert \/ SetCallback
    <3>1. mconn \in Client /\ mconn' = mconn
      BY <2>1 DEF Insert, SetCallback, SetupOK
    <3>2. CASE Insert
      BY <3>1, <3>2 DEF Insert, SetupOK
    <3>3. CASE SetCallback
      <4>1. CASE mpc' = "callbacks"
        <5>1. /\ conn[mconn].callbacks <= 3 /\ conn[mconn].callbacks # 3
              /\ conn' = [conn EXCEPT ![mconn].callbacks = conn[mconn].callbacks + 1]
          BY <3>1, <3>3, <4>1 DEF SetCallback, SetupOK, TypeOK
        <5>2. conn[mconn] \in Fields /\ conn[mconn].callbacks \in 0 .. 4
          BY <3>1, FieldUpdate DEF TypeOK
        <5>3. conn'[mconn].callbacks = conn[mconn].callbacks + 1
          BY <3>1, <5>1, <5>2 DEF TypeOK, Fields
        <5>4. QED  BY <3>1, <4>1, <5>1, <5>2, <5>3 DEF SetupOK
      <4>2. QED  BY <3>3, <4>1 DEF SetCallback, SetupOK
    <3>4. QED  BY <2>1, <3>2, <3>3
  <2>2. ASSUME NEW c \in Client, NewConnection(c)
        PROVE SetupOK'
    BY <2>2 DEF NewConnection, SetupOK, TypeOK
  <2>3. CASE mpc' \notin {"insert", "callbacks"}
    BY <2>3 DEF SetupOK
  <2>4. CASE UNCHANGED <<mpc, mconn, conn>>
    BY <2>4 DEF SetupOK
  <2>5. ASSUME NEW l \in Loop, HandleEvent(l)
        PROVE SetupOK'
    <3>1. /\ UNCHANGED <<mpc, mconn>>
          /\ \/ UNCHANGED conn
             \/ \E c \in Client : conn' = [conn EXCEPT ![c].disconnect_ = TRUE]
      BY <2>5, AtLive, EventEffects DEF HandleEvent, main
    <3>2. CASE UNCHANGED conn
      BY <3>1, <3>2 DEF SetupOK
    <3>3. ASSUME NEW c \in Client, conn' = [conn EXCEPT ![c].disconnect_ = TRUE]
          PROVE SetupOK'
      <4>1. \A d \in Client : conn[d] \in Fields  BY DEF TypeOK
      <4>2. \A d \in Client : conn'[d].callbacks = conn[d].callbacks
        BY <3>3, <4>1 DEF TypeOK, Fields
      <4>3. QED  BY <3>1, <4>2 DEF SetupOK
    <3>4. QED  BY <3>1, <3>2, <3>3
  <2>6. QED
    BY <2>1, <2>2, <2>3, <2>4, <2>5
    DEF Next, vars, heap, main, ClientStep, MainStep, LoopStep, WorkerStep, Send,
        Fin, Reset, EndScan, NotExpired, Expired, TimerErase, TimerDelete, TimerFires,
        Poll, CloseErase, CloseDelete, RunTask, Take, TestDisconnect, AddTask
<1>25. WorkerOK'
  <2>1. ASSUME NEW w \in Worker, Take(w)
        PROVE WorkerOK'
    BY <2>1 DEF Take, WorkerOK, TypeOK
  <2>2. ASSUME NEW w \in Worker, TestDisconnect(w) \/ AddTask(w)
        PROVE WorkerOK'
    BY <2>2 DEF TestDisconnect, AddTask, WorkerOK, TypeOK
  <2>3. CASE UNCHANGED <<wpc, wconn>>
    BY <2>3 DEF WorkerOK
  <2>4. QED
    BY <2>1, <2>2, <2>3
    DEF Next, vars, queues, ClientStep, MainStep, LoopStep, WorkerStep, Send, Fin, Reset,
        NewConnection, Insert, SetCallback, EndScan, NotExpired, Expired,
        TimerErase, TimerDelete, TimerFires, Poll, HandleEvent, CloseErase,
        CloseDelete, RunTask
<1>26. PlacedOK'
  <2>1. ASSUME NEW c \in Client, NewConnection(c)
        PROVE PlacedOK'
    BY <2>1 DEF NewConnection, PlacedOK, TypeOK
  <2>2. CASE SamePlace /\ live' \subseteq live
    BY <2>2 DEF SamePlace, PlacedOK, TypeOK
  <2>3. (\E c \in Client : NewConnection(c)) \/ live' \subseteq live
    BY DEF Next, vars, heap, ClientStep, MainStep, LoopStep, WorkerStep, Send, Fin, Reset,
           Insert, SetCallback, EndScan, NotExpired, Expired, TimerErase,
           TimerDelete, TimerFires, Poll, HandleEvent, CloseErase, CloseDelete,
           RunTask, Take, TestDisconnect, AddTask, Delete
  <2>4. QED  BY <2>1, <2>2, <2>3, ConnSteps
<1>27. QED  BY <1>23, <1>24, <1>25, <1>26

LEMMA BasicInit == Init => Basic
<1> SUFFICES ASSUME Init PROVE Basic
  OBVIOUS
<1>1. [fd |-> None, cell |-> None, callbacks |-> 0, disconnect_ |-> FALSE] \in Fields
  BY DEF Fields
<1>2. conn \in [Client -> Fields]
  BY <1>1 DEF Init
<1>3. TypeOK
  <2>1. /\ backlog \subseteq Client /\ fin \subseteq Client /\ rst \subseteq Client
        /\ msg \in [Client -> {"none", "unread", "read"}] /\ edge \subseteq Client
        /\ live \subseteq Client /\ connections \in [Fd -> Client \cup {None}]
    BY DEF Init
  <2>2. /\ mpc = "wait" /\ mconn \in Client \cup {None} /\ it \in Fd \cup {None}
        /\ expired \in BOOLEAN
        /\ lpc \in [Loop -> {"handle", "erase", "delete"}]
        /\ lconn \in [Loop -> Client \cup {None}]
        /\ batch \in [Loop -> SUBSET Client]
    BY DEF Init
  <2>3. /\ task_queue \in [Loop -> Seq(Client)] /\ q \in Seq(Client)
        /\ wpc \in [Worker -> {"wait", "test", "add"}]
        /\ wconn \in [Worker -> Client \cup {None}]
    BY DEF Init
  <2>4. sent = {} /\ stale = {} /\ crashed = FALSE
    BY DEF Init
  <2>5. QED  BY <1>2, <2>1, <2>2, <2>3, <2>4 DEF TypeOK
<1>4. QED
  BY <1>3 DEF Init, Basic, SetupOK, WorkerOK, PlacedOK

\* Every variable stays in its type.
THEOREM Typing == Spec => []TypeOK
<1>1. Basic /\ [Next]_vars => Basic'
  BY BasicStep
<1>2. Basic => TypeOK
  BY DEF Basic
<1>3. QED  BY <1>1, <1>2, BasicInit, PTL DEF Spec

-----------------------------------------------------------------------------
(* The map. *)

\* A step makes a Connection, or leaves every place as it is.
LEMMA LiveSteps ==
  ASSUME Basic, [Next]_vars
  PROVE  \/ \E c \in Client : NewConnection(c)
         \/ SamePlace /\ live' \subseteq live /\ backlog' = backlog
<1>1. \/ \E c \in Client : NewConnection(c)
      \/ live' \subseteq live /\ backlog' = backlog
  BY DEF Next, vars, heap, kernel, ClientStep, MainStep, LoopStep, WorkerStep, Send,
         Fin, Reset, Insert, SetCallback, EndScan, NotExpired, Expired, TimerErase,
         TimerDelete, TimerFires, Poll, HandleEvent, CloseErase, CloseDelete,
         RunTask, Take, TestDisconnect, AddTask, Delete
<1>2. QED  BY <1>1, ConnSteps

\* What a new Connection is.
LEMMA NewOne ==
  ASSUME Basic, HeapOK, NEW c \in Client, NewConnection(c)
  PROVE  /\ c \in backlog /\ c \notin live /\ live' = live \cup {c}
         /\ backlog' = backlog \ {c} /\ conn'[c].callbacks = 0
         /\ \A d \in Client \ {c} : conn'[d] = conn[d]
         /\ conn'[c].fd \in Fd
         /\ \A d \in live : conn'[c].fd # conn[d].fd /\ conn'[c].cell # conn[d].cell
         /\ mpc = "wait" /\ mpc' = "insert" /\ mconn' = c
         /\ UNCHANGED <<connections, it, expired, lpc, lconn, batch, stale>>
<1>1. PICK fd \in Fd \ {conn[d].fd : d \in live}, cell \in Addr \ {conn[d].cell : d \in live} :
        conn' = [conn EXCEPT ![c] = [fd |-> fd, cell |-> cell, callbacks |-> 0,
                                     disconnect_ |-> FALSE]]
  BY DEF NewConnection
<1>2. /\ conn'[c].fd = fd /\ conn'[c].cell = cell /\ conn'[c].callbacks = 0
      /\ \A d \in Client \ {c} : conn'[d] = conn[d]
  BY <1>1 DEF Basic, TypeOK
<1>3. \A d \in live : fd # conn[d].fd /\ cell # conn[d].cell
  OBVIOUS
<1>4. QED
  BY <1>1, <1>2, <1>3 DEF NewConnection, HeapOK, Valid, io

LEMMA HeapStep ==
  ASSUME Basic, HeapOK, [Next]_vars
  PROVE  HeapOK'
<1>1. ASSUME NEW c \in Client, NewConnection(c)
      PROVE HeapOK'
  <2>1. /\ c \in backlog /\ c \notin live /\ live' = live \cup {c}
        /\ backlog' = backlog \ {c}
        /\ \A d \in live : conn'[d] = conn[d]
        /\ \A d \in live : conn'[c].fd # conn[d].fd /\ conn'[c].cell # conn[d].cell
    BY <1>1, NewOne DEF Basic, TypeOK
  <2>2. \A d \in live' : d \notin backlog'
    BY <2>1 DEF HeapOK
  <2>3. ASSUME NEW d \in live', NEW e \in live',
               conn'[d].fd = conn'[e].fd \/ conn'[d].cell = conn'[e].cell
        PROVE d = e
    BY <2>1, <2>3 DEF HeapOK
  <2>4. QED  BY <2>2, <2>3 DEF HeapOK
<1>2. CASE SamePlace /\ live' \subseteq live /\ backlog' = backlog
  BY <1>2 DEF HeapOK, SamePlace, Basic, TypeOK
<1>3. QED  BY <1>1, <1>2, LiveSteps

LEMMA ClosingStep ==
  ASSUME Basic, HeapOK, ClosingOK, [Next]_vars
  PROVE  ClosingOK'
<1>1. backlog' \subseteq backlog
  BY LiveSteps, NewOne
<1>2. CASE UNCHANGED <<lpc, lconn>>
  BY <1>1, <1>2 DEF ClosingOK, Busy
<1>3. ASSUME NEW l \in Loop, CloseErase(l) \/ CloseDelete(l)
      PROVE ClosingOK'
  <2>1. UNCHANGED lconn /\ lpc[l] # "handle" /\ \A k \in Loop \ {l} : lpc'[k] = lpc[k]
    BY <1>3 DEF CloseErase, CloseDelete, Basic, TypeOK
  <2>2. QED  BY <1>1, <2>1 DEF ClosingOK, Busy
<1>4. ASSUME NEW l \in Loop, HandleEvent(l)
      PROVE ClosingOK'
  <2>1. \/ UNCHANGED <<lpc, lconn>>
        \/ \E c \in live : /\ lconn' = [lconn EXCEPT ![l] = c]
                           /\ \A k \in Loop \ {l} : lpc'[k] = lpc[k]
    BY <1>4, AtLive, EventEffects DEF HandleEvent, Basic, TypeOK
  <2>2. QED  BY <1>1, <1>2, <2>1 DEF ClosingOK, Busy, HeapOK, Basic, TypeOK
<1>5. QED
  BY <1>2, <1>3, <1>4
  DEF Next, vars, io, ClientStep, MainStep, LoopStep, WorkerStep, Send, Fin, Reset,
      NewConnection, Insert, SetCallback, EndScan, NotExpired, Expired,
      TimerErase, TimerDelete, TimerFires, Poll, RunTask, Take,
      TestDisconnect, AddTask

LEMMA EdgeStep ==
  ASSUME Basic, HeapOK, EdgeOK, [Next]_vars
  PROVE  EdgeOK'
<1>1. CASE UNCHANGED <<edge, live>>
  BY <1>1 DEF EdgeOK
<1>2. ASSUME NEW c \in Client, Send(c) \/ Fin(c) \/ Reset(c)
      PROVE EdgeOK'
  BY <1>2 DEF Send, Fin, Reset, Arrives, heap, EdgeOK
<1>3. ASSUME NEW c \in Client, NewConnection(c)
      PROVE EdgeOK'
  BY <1>3 DEF NewConnection, EdgeOK
<1>4. ASSUME NEW c, Delete(c)
      PROVE EdgeOK'
  BY <1>4 DEF Delete, EdgeOK
<1>5. ASSUME NEW l \in Loop, Poll(l)
      PROVE EdgeOK'
  BY <1>5 DEF Poll, heap, EdgeOK
<1>6. ASSUME NEW l \in Loop, HandleEvent(l)
      PROVE EdgeOK'
  <2>1. edge' \subseteq edge \cup live /\ live' = live
    BY <1>6, AtLive, EventEffects DEF HandleEvent, Basic
  <2>2. QED  BY <2>1 DEF EdgeOK
<1>7. QED
  BY <1>1, <1>2, <1>3, <1>4, <1>5, <1>6
  DEF Next, vars, heap, kernel, ClientStep, MainStep, LoopStep, WorkerStep, Insert,
      SetCallback, EndScan, NotExpired, Expired, TimerErase, TimerDelete,
      TimerFires, CloseErase, CloseDelete, RunTask, Take, TestDisconnect, AddTask

LEMMA IteratorStep ==
  ASSUME Basic, IteratorOK, [Next]_vars
  PROVE  IteratorOK'
<1>1. CASE Expired
  BY <1>1 DEF Expired, IteratorOK, Basic, TypeOK
<1>2. CASE UNCHANGED <<mpc, mconn, it>>
  BY <1>2 DEF IteratorOK
<1>3. CASE mpc' \notin {"erase", "delete"}
  BY <1>3 DEF IteratorOK
<1>4. CASE TimerErase
  BY <1>4 DEF TimerErase, IteratorOK
<1>5. QED
  BY <1>1, <1>2, <1>3, <1>4
  DEF Next, vars, main, ClientStep, MainStep, LoopStep, WorkerStep, Send, Fin, Reset,
      NewConnection, Insert, SetCallback, EndScan, NotExpired,
      TimerDelete, TimerFires, Poll, HandleEvent, CloseErase, CloseDelete,
      RunTask, Take, TestDisconnect, AddTask

LEMMA SilentStep ==
  ASSUME IInv, [Next]_vars
  PROVE  SilentInv'
<1> DEFINE NoneStale == stale \cap {"event", "close"} = {}
<1> USE DEF IInv, Basic
<1> SUFFICES ASSUME ~expired'
             PROVE  Silent'
  BY DEF SilentInv
<1>0. ~expired
  BY HistorySteps
<1>1. /\ mpc \notin {"erase", "delete"} /\ NoneStale
      /\ \A l \in Loop : Busy(l) => Held(l, lconn[l])
      /\ \A l \in Loop : \A c \in batch[l] : Held(l, c) /\ (Busy(l) => lconn[l] # c)
  BY <1>0 DEF SilentInv, Silent
<1>2. /\ lpc \in [Loop -> {"handle", "erase", "delete"}]
      /\ lconn \in [Loop -> Client \cup {None}] /\ live \subseteq Client
      /\ batch \in [Loop -> SUBSET Client]
  BY DEF TypeOK
\* A pointer to a Connection that exists leads to that Connection.
<1>3. ASSUME NEW p \in live
      PROVE  At(p) = {p}
  BY DEF At, HeapOK
<1>4. ASSUME UNCHANGED <<lpc, lconn, batch>>, NoneStale',
             mpc' \notin {"erase", "delete"},
             \A c \in live : c \in live' /\ conn'[c].fd = conn[c].fd
      PROVE  Silent'
  BY <1>1, <1>4 DEF Silent, Held, Busy
\* Steps outside the IO threads: nothing they hold goes away.
<1>5. CASE UNCHANGED vars
  BY <1>1, <1>4, <1>5 DEF vars, heap, main, io
<1>6. ASSUME NEW c \in Client, Send(c) \/ Fin(c) \/ Reset(c)
      PROVE  Silent'
  BY <1>1, <1>4, <1>6 DEF Send, Fin, Reset, heap, main, io, Valid
<1>7. ASSUME NEW c \in Client, NewConnection(c)
      PROVE  Silent'
  BY <1>1, <1>2, <1>4, <1>7, NewOne
<1>8. CASE Insert
  BY <1>1, <1>4, <1>8 DEF Insert, io, Valid
<1>9. CASE SetCallback
  <2>1. SamePlace
    BY <1>9, ConnSteps DEF NewConnection, SetCallback
  <2>2. QED
    BY <1>1, <1>2, <1>4, <1>9, <2>1
    DEF SetCallback, SamePlace, io, Valid, Dangling
<1>10. CASE EndScan \/ NotExpired \/ TimerFires
  BY <1>1, <1>4, <1>10 DEF EndScan, NotExpired, TimerFires, UseIterator, heap, io,
     Valid, Dangling
<1>18. ~Expired /\ ~TimerErase /\ ~TimerDelete
  BY <1>1 DEF Expired, TimerErase, TimerDelete
<1>11. ASSUME NEW w \in Worker, WorkerStep(w)
       PROVE  Silent'
  BY <1>1, <1>4, <1>11 DEF WorkerStep, Take, TestDisconnect, AddTask, heap, main, io,
     Valid, Reaches, Dangling
\* An IO thread.
<1>12. ASSUME NEW l \in Loop, RunTask(l)
       PROVE  Silent'
  BY <1>1, <1>4, <1>12 DEF RunTask, heap, main, io, Reaches, Dangling
<1>13. ASSUME NEW l \in Loop, Poll(l)
       PROVE  Silent'
  <2>1. PICK ready : /\ ready = {c \in edge : LoopOf(conn[c].fd) = l
                                             /\ (conn[c].disconnect_ => c \in rst)}
                     /\ batch' = [batch EXCEPT ![l] = ready]
    BY <1>13 DEF Poll
  <2>2. /\ lpc[l] = "handle" /\ UNCHANGED <<live, conn, mpc, lpc, lconn, stale>>
    BY <1>13 DEF Poll, heap, main, Valid
  <2>3. \A c \in batch'[l] : Held(l, c)'
    BY <1>2, <2>1, <2>2 DEF Held, EdgeOK, TypeOK
  <2>4. \A k \in Loop \ {l} : batch'[k] = batch[k]
    BY <1>2, <2>1
  <2>5. QED
    BY <1>1, <2>2, <2>3, <2>4 DEF Silent, Held, Busy
<1>14. ASSUME NEW l \in Loop, HandleEvent(l)
       PROVE  Silent'
  <2>1. PICK p \in batch[l] :
          /\ batch' = [batch EXCEPT ![l] = @ \ {p}]
          /\ \/ \E c \in At(p) :
                  /\ \/ ReadMessage(l, c) \/ ReadEnd(l, c)
                     \/ c # p /\ HandleError(l, c)
                  /\ Reaches(p, c, "event")
             \/ At(p) = {} /\ Dangling("event")
    BY <1>14 DEF HandleEvent
  <2>2. Held(l, p) /\ At(p) = {p}
    BY <1>1, <1>3 DEF Held
  <2>3. (ReadMessage(l, p) \/ ReadEnd(l, p)) /\ UNCHANGED stale
    BY <2>1, <2>2 DEF Reaches
  <2>4. lpc[l] = "handle" /\ UNCHANGED <<live, mpc>>
    BY <1>14 DEF HandleEvent, main
  <2>5. SamePlace
    BY <1>14, <2>4, ConnSteps DEF NewConnection
  <2>6. /\ \A k \in Loop \ {l} : /\ lpc'[k] = lpc[k] /\ lconn'[k] = lconn[k]
                                /\ batch'[k] = batch[k]
        /\ batch'[l] = batch[l] \ {p}
        /\ Busy(l)' => lconn'[l] = p
    BY <1>2, <2>1, <2>2, <2>3, <2>4, EventEffects DEF Busy, Held
  <2>7. \A k \in Loop : \A c \in Client : Held(k, c) => Held(k, c)'
    BY <2>4, <2>5 DEF Held, SamePlace
  <2>8. QED
    BY <1>1, <1>2, <2>2, <2>3, <2>4, <2>6, <2>7 DEF Silent, Busy, Held
<1>15. ASSUME NEW l \in Loop, CloseErase(l)
       PROVE  Silent'
  <2>1. Busy(l) /\ lconn[l] \in live
    BY <1>1, <1>15 DEF CloseErase, Busy, Held
  <2>2. /\ UNCHANGED <<live, conn, mpc, lconn, batch, stale>>
        /\ lpc' = [lpc EXCEPT ![l] = "delete"]
    BY <1>3, <1>15, <2>1 DEF CloseErase, main, Reaches
  <2>3. \A k \in Loop : Busy(k)' => Busy(k)
    BY <1>2, <2>1, <2>2 DEF Busy
  <2>4. QED
    BY <1>1, <2>2, <2>3 DEF Silent, Held
<1>16. ASSUME NEW l \in Loop, CloseDelete(l)
       PROVE  Silent'
  <2>1. Busy(l) /\ Held(l, lconn[l])
    BY <1>1, <1>16 DEF CloseDelete, Busy
  <2>2. /\ UNCHANGED <<conn, mpc, lconn, batch, stale>> /\ live' = live \ {lconn[l]}
        /\ lpc' = [lpc EXCEPT ![l] = "handle"]
    BY <1>3, <1>16, <2>1 DEF CloseDelete, main, Reaches, Delete, Held
  <2>3. \A k \in Loop : Busy(k)' => Busy(k) /\ k # l
    BY <1>2, <2>1, <2>2 DEF Busy
  <2>4. \A k \in Loop : \A c \in live : Held(k, c) /\ c # lconn[l] => Held(k, c)'
    BY <2>2 DEF Held
  <2>5. \A k \in Loop : \A c \in batch[k] : c # lconn[l]
    BY <1>1, <2>1 DEF Held
  <2>6. \A k \in Loop \ {l} : Busy(k) => lconn[k] # lconn[l]
    BY <1>1, <2>1 DEF Held
  <2>7. QED
    BY <1>1, <2>2, <2>3, <2>4, <2>5, <2>6 DEF Silent, Held
<1>17. QED
  BY <1>5, <1>6, <1>7, <1>8, <1>9, <1>10, <1>11, <1>12, <1>13, <1>14, <1>15, <1>16,
     <1>18
  DEF Next, ClientStep, MainStep, LoopStep

LEMMA ExactStep ==
  ASSUME IInv, [Next]_vars
  PROVE  ExactSoFar'
<1> USE DEF IInv, Basic
<1> DEFINE Defined == stale \subseteq {"setup", "reply"}
<1> SUFFICES ASSUME Defined' \/ ~expired'
             PROVE  Exact'
  BY DEF ExactSoFar
<1>0. Defined \/ ~expired
  BY HistorySteps
<1>1. MapLive /\ LiveListed /\ Inserting /\ TimerErasing /\ TimerDeleting /\ LoopDeleting
  BY <1>0 DEF ExactSoFar, Exact
<1>2. /\ connections \in [Fd -> Client \cup {None}] /\ None \notin Client
      /\ lpc \in [Loop -> {"handle", "erase", "delete"}]
      /\ lconn \in [Loop -> Client \cup {None}] /\ live \subseteq Client
  BY ServerAssumption DEF TypeOK
\* A step of the timer's after the first Connection it found expired, and an IO
\* thread's close, use their own pointer.
<1>3. ASSUME Defined', NEW k \in {"event", "close", "timer", "iterator"}
      PROVE  /\ ~Dangling(k)
             /\ \A p : \A c : Reaches(p, c, k) => c = p
  BY <1>3 DEF Dangling, Reaches
<1>17. mpc \in {"erase", "delete"} => Defined'
  <2>1. CASE ~expired'
    BY <2>1, HistorySteps DEF SilentInv, Silent
  <2>2. QED  BY <2>1
<1>18. ASSUME NEW l \in Loop, Busy(l), At(lconn[l]) = {} /\ Dangling("close")
       PROVE  FALSE
  <2>1. CASE Defined'
    BY <1>3, <1>18, <2>1
  <2>2. CASE ~expired'
    BY <1>18, <2>2, HistorySteps DEF SilentInv, Silent, Held, At
  <2>3. QED  BY <2>1, <2>2
<1>19. ASSUME NEW l \in Loop, Busy(l),
              NEW c \in At(lconn[l]), Reaches(lconn[l], c, "close")
       PROVE  c = lconn[l]
  <2>1. CASE Defined'
    BY <1>3, <1>19, <2>1
  <2>2. CASE ~expired'
    <3>1. lconn[l] \in live
      BY <1>19, <2>2, HistorySteps DEF SilentInv, Silent, Held
    <3>2. QED  BY <1>19, <3>1 DEF At, HeapOK
  <2>3. QED  BY <2>1, <2>2
<1>4. CASE SamePlace /\ UNCHANGED <<live, connections, mpc, mconn, it, lpc, lconn>>
  BY <1>1, <1>2, <1>4 DEF Exact, MapLive, LiveListed, Inserting, TimerErasing,
     TimerDeleting, LoopDeleting, Listed, Busy, SamePlace
<1>5. CASE /\ SamePlace /\ UNCHANGED <<live, connections, mconn, lpc, lconn>>
           /\ {mpc, mpc'} \subseteq {"wait", "scan", "callbacks"}
  BY <1>1, <1>2, <1>5 DEF Exact, MapLive, LiveListed, Inserting, TimerErasing,
     TimerDeleting, LoopDeleting, Listed, Busy, SamePlace
<1>6. ASSUME NEW c \in Client, NewConnection(c)
      PROVE Exact'
  <2>1. /\ c \in backlog /\ c \notin live /\ live' = live \cup {c}
        /\ \A d \in live : conn'[d] = conn[d]
        /\ mpc = "wait" /\ mpc' = "insert" /\ mconn' = c
        /\ UNCHANGED <<connections, it, lpc, lconn>>
    BY <1>2, <1>6, NewOne
  <2>2. MapLive'
    BY <1>1, <2>1 DEF MapLive
  <2>3. LiveListed'
    BY <1>1, <2>1 DEF LiveListed
  <2>4. Inserting'
    BY <1>1, <1>2, <2>1 DEF Inserting, MapLive, Listed, ClosingOK, Busy
  <2>5. LoopDeleting'
    BY <1>1, <2>1 DEF LoopDeleting, Listed
  <2>6. QED
    BY <2>1, <2>2, <2>3, <2>4, <2>5 DEF Exact, TimerErasing, TimerDeleting
<1>7. CASE Insert
  <2>1. /\ mpc = "insert" /\ mpc' = "callbacks" /\ mconn \in live
        /\ conn[mconn].fd \in Fd
        /\ connections' = [connections EXCEPT ![conn[mconn].fd] = mconn]
        /\ UNCHANGED <<live, conn, mconn, lpc, lconn>>
    BY <1>1, <1>7 DEF Insert, Inserting, PlacedOK, io
  <2>2. MapLive'
    BY <1>1, <1>2, <2>1 DEF MapLive
  <2>3. LiveListed'
    <3>1. ASSUME NEW d \in live, d # mconn
          PROVE connections'[conn[d].fd] = connections[conn[d].fd]
      BY <1>2, <2>1, <3>1 DEF HeapOK, PlacedOK
    <3>2. QED  BY <1>1, <1>2, <2>1, <3>1 DEF LiveListed
  <2>4. LoopDeleting'
    BY <1>1, <1>2, <2>1 DEF LoopDeleting, Listed, Inserting, Busy
  <2>5. QED
    BY <2>1, <2>2, <2>3, <2>4
    DEF Exact, Inserting, TimerErasing, TimerDeleting
<1>8. CASE SetCallback
  <2>1. SamePlace
    BY <1>8, ConnSteps DEF NewConnection, SetCallback
  <2>2. QED  BY <1>5, <1>8, <2>1 DEF SetCallback, io
<1>9. CASE EndScan \/ NotExpired \/ TimerFires
  BY <1>5, <1>9 DEF EndScan, NotExpired, TimerFires, heap, io, SamePlace
<1>10. CASE Expired
  <2>1. SamePlace
    BY <1>10, ConnSteps DEF NewConnection, Expired
  <2>2. /\ mpc = "scan" /\ mpc' = "erase" /\ mconn' = connections[it]
        /\ UNCHANGED <<live, connections, it, lpc, lconn>>
    BY <1>10 DEF Expired, io
  <2>3. QED
    BY <1>1, <1>2, <2>1, <2>2 DEF Exact, MapLive, LiveListed, Inserting,
       TimerErasing, TimerDeleting, LoopDeleting, Listed, Busy, SamePlace
<1>11. CASE TimerErase
  <2>1. /\ mpc = "erase" /\ mpc' = "delete" /\ connections[it] # None
        /\ it \in Fd /\ connections' = [connections EXCEPT ![it] = None]
        /\ UNCHANGED <<live, conn, mconn, lpc, lconn>>
    BY <1>3, <1>11, <1>17 DEF TimerErase, UseIterator, IteratorOK, io
  <2>2. connections[it] = mconn /\ mconn \in live /\ conn[mconn].fd = it
    BY <1>1, <2>1 DEF TimerErasing, MapLive
  <2>3. MapLive'
    BY <1>1, <1>2, <2>1 DEF MapLive
  <2>4. LiveListed'
    <3>1. ASSUME NEW d \in live, d # mconn
          PROVE connections'[conn[d].fd] = connections[conn[d].fd]
      BY <1>2, <2>1, <2>2, <3>1 DEF HeapOK, PlacedOK
    <3>2. QED  BY <1>1, <2>1, <3>1 DEF LiveListed
  <2>5. TimerDeleting'
    BY <1>1, <1>2, <2>1, <2>2 DEF TimerDeleting, MapLive, Listed
  <2>6. LoopDeleting'
    BY <1>1, <1>2, <2>1 DEF LoopDeleting, Listed, ClosingOK, Busy
  <2>7. QED
    BY <2>1, <2>3, <2>4, <2>5, <2>6 DEF Exact, Inserting, TimerErasing
<1>12. CASE TimerDelete
  <2>1. mpc = "delete" /\ mpc' = "scan" /\ UNCHANGED <<conn, connections, mconn, lpc, lconn>>
    BY <1>12 DEF TimerDelete, io
  <2>2. live' = live \ {mconn}
    BY <1>3, <1>12, <1>17 DEF TimerDelete, Delete
  <2>3. QED
    BY <1>1, <1>2, <2>1, <2>2 DEF Exact, MapLive, LiveListed, Inserting,
       TimerErasing, TimerDeleting, LoopDeleting, Listed, Busy
<1>13. ASSUME NEW l \in Loop, HandleEvent(l)
       PROVE Exact'
  <2>1. /\ lpc[l] = "handle" /\ UNCHANGED <<live, connections, mpc, mconn, it>>
    BY <1>13 DEF HandleEvent, main
  <2>2. SamePlace
    BY <1>13, ConnSteps, <2>1 DEF NewConnection
  <2>3. \/ UNCHANGED <<lpc, lconn>>
        \/ \E c \in live : /\ lconn' = [lconn EXCEPT ![l] = c]
                           /\ conn[c].callbacks >= 1
                           /\ lpc' = [lpc EXCEPT ![l] = "erase"]
    BY <1>13, AtLive, EventEffects DEF HandleEvent
  <2>4. ASSUME NEW c \in live, lconn' = [lconn EXCEPT ![l] = c],
               conn[c].callbacks >= 1, lpc' = [lpc EXCEPT ![l] = "erase"]
        PROVE Exact'
    <3>1. lpc'[l] # "delete" /\ \A k \in Loop \ {l} : lpc'[k] = lpc[k] /\ lconn'[k] = lconn[k]
      BY <1>2, <2>1, <2>4
    <3>2. LiveListed'
      BY <1>1, <1>2, <2>1, <2>2, <3>1 DEF LiveListed, SamePlace
    <3>3. Inserting'
      BY <1>1, <1>2, <2>1, <2>4, <3>1 DEF Inserting, Listed, Busy, SetupOK
    <3>4. LoopDeleting'
      BY <1>1, <2>1, <3>1 DEF LoopDeleting, Listed
    <3>5. MapLive'
      BY <1>1, <1>2, <2>1, <2>2 DEF MapLive, SamePlace
    <3>6. QED
      BY <1>1, <2>1, <3>2, <3>3, <3>4, <3>5
      DEF Exact, TimerErasing, TimerDeleting, Listed
  <2>5. QED  BY <1>4, <2>1, <2>2, <2>3, <2>4
<1>14. ASSUME NEW l \in Loop, CloseErase(l)
       PROVE Exact'
  <2> DEFINE c == lconn[l]
  <2>1. /\ lpc[l] = "erase" /\ lpc' = [lpc EXCEPT ![l] = "delete"] /\ c \in live
        /\ connections' = [connections EXCEPT ![conn[c].fd] = None]
        /\ UNCHANGED <<live, conn, mpc, mconn, it, lconn>>
    <3>1. Busy(l) /\ ~(At(lconn[l]) = {} /\ Dangling("close"))
      BY <1>14, <1>18 DEF CloseErase, Busy
    <3>2. QED  BY <1>14, <1>19, <3>1, AtLive DEF CloseErase, kernel, main
  <2>2. conn[c].fd \in Fd
    BY <2>1 DEF PlacedOK
  <2>3. MapLive'
    BY <1>1, <1>2, <2>1, <2>2 DEF MapLive
  <2>4. LiveListed'
    <3>1. ASSUME NEW d \in live, d # c
          PROVE connections'[conn[d].fd] = connections[conn[d].fd]
      BY <1>2, <2>1, <2>2, <3>1 DEF HeapOK, PlacedOK
    <3>2. \A k \in Loop : lpc[k] = "delete" => lpc'[k] = "delete"
      BY <1>2, <2>1
    <3>3. lpc'[l] = "delete"
      BY <1>2, <2>1
    <3>4. QED  BY <1>1, <2>1, <3>1, <3>2, <3>3 DEF LiveListed
  <2>5. ~Listed(c)'
    BY <1>1, <1>2, <2>1, <2>2 DEF MapLive, Listed
  <2>6. \A d \in Client : Listed(d)' => Listed(d)
    BY <1>2, <2>1, <2>2 DEF Listed
  <2>7. LoopDeleting'
    BY <1>1, <1>2, <2>1, <2>5, <2>6 DEF LoopDeleting, ClosingOK, Busy, Listed
  <2>8. Inserting' /\ TimerDeleting'
    <3>1. \A k \in Loop : Busy(k)' => Busy(k)
      BY <1>2, <2>1 DEF Busy
    <3>2. Inserting'
      BY <1>1, <1>2, <2>1, <2>6, <3>1 DEF Inserting, Listed
    <3>3. TimerDeleting'
      BY <1>1, <2>1, <2>6 DEF TimerDeleting, IteratorOK, Listed
    <3>4. QED  BY <3>2, <3>3
  <2>9. TimerErasing'
    BY <1>1, <1>2, <2>1, <2>2 DEF TimerErasing, IteratorOK
  <2>10. QED  BY <2>3, <2>4, <2>7, <2>8, <2>9 DEF Exact
<1>15. ASSUME NEW l \in Loop, CloseDelete(l)
       PROVE Exact'
  <2> DEFINE c == lconn[l]
  <2>1. /\ lpc[l] = "delete" /\ lpc' = [lpc EXCEPT ![l] = "handle"]
        /\ UNCHANGED <<conn, connections, mpc, mconn, it, lconn>>
    BY <1>15 DEF CloseDelete, main
  <2>2. live' = live \ {c}
    <3>1. Busy(l) /\ ~(At(lconn[l]) = {} /\ Dangling("close"))
      BY <1>15, <1>18 DEF CloseDelete, Busy
    <3>2. QED  BY <1>15, <1>19, <3>1 DEF CloseDelete, Delete
  <2>3. ~Listed(c) /\ \A k \in Loop \ {l} : lpc'[k] = lpc[k]
    BY <1>1, <1>2, <2>1 DEF LoopDeleting
  <2>4. MapLive'
    BY <1>1, <2>1, <2>2, <2>3 DEF MapLive, Listed
  <2>5. LiveListed'
    BY <1>1, <2>1, <2>2, <2>3 DEF LiveListed
  <2>6. Inserting'
    BY <1>1, <1>2, <2>1, <2>2 DEF Inserting, Listed, Busy
  <2>7. QED
    BY <1>1, <1>2, <2>1, <2>4, <2>5, <2>6
    DEF Exact, TimerErasing, TimerDeleting, LoopDeleting, Listed
<1>16. QED
  <2>1. CASE UNCHANGED vars
    BY <1>4, <2>1 DEF vars, heap, main, io, SamePlace
  <2>2. ASSUME NEW c \in Client, Send(c) \/ Fin(c) \/ Reset(c)
        PROVE Exact'
    BY <1>4, <2>2 DEF Send, Fin, Reset, heap, main, io, SamePlace
  <2>3. ASSUME NEW l \in Loop, Poll(l) \/ RunTask(l)
        PROVE Exact'
    BY <1>4, <2>3 DEF Poll, RunTask, heap, main, io, SamePlace
  <2>4. ASSUME NEW w \in Worker, WorkerStep(w)
        PROVE Exact'
    BY <1>4, <2>4 DEF WorkerStep, Take, TestDisconnect, AddTask, heap, main, io, SamePlace
  <2>5. QED
    BY <1>6, <1>7, <1>8, <1>9, <1>10, <1>11, <1>12, <1>13, <1>14, <1>15, <2>1, <2>2,
       <2>3, <2>4
    DEF Next, ClientStep, MainStep, LoopStep

LEMMA Inductive ==
  IInv /\ [Next]_vars => IInv'
  BY BasicStep, HeapStep, ClosingStep, EdgeStep, IteratorStep, SilentStep, ExactStep
  DEF IInv

LEMMA Initially == Init => IInv
<1> SUFFICES ASSUME Init
             PROVE  IInv
  OBVIOUS
<1>1. /\ live = {} /\ edge = {} /\ mpc = "wait" /\ stale = {}
      /\ \A l \in Loop : lpc[l] = "handle" /\ batch[l] = {}
      /\ \A fd \in Fd : connections[fd] = None
  BY DEF Init
<1>2. Exact
  BY <1>1 DEF Exact, MapLive, LiveListed, Inserting, TimerErasing, TimerDeleting,
     LoopDeleting
<1>3. Silent
  BY <1>1 DEF Silent, Busy
<1>4. QED
  BY <1>1, <1>2, <1>3, BasicInit
  DEF IInv, HeapOK, ClosingOK, EdgeOK, IteratorOK, ExactSoFar, SilentInv, Busy

\* Up to the first undefined step the map holds the Connections that exist,
\* each under its own descriptor (Tcpserver::connections).
THEOREM MapStaysExact == Spec => []MapExact
<1>1. IInv => MapExact
  BY DEF IInv, ExactSoFar, Exact, MapLive, LiveListed, MapExact
<1>2. QED  BY <1>1, Inductive, Initially, PTL DEF Spec

-----------------------------------------------------------------------------
(* Until the timer finds a Connection expired. *)

\* Until the first alarm that finds a Connection expired, no IO thread handles an
\* event for, closes or deletes a Connection that is gone (Connection::onmessage,
\* Tcpserver::closeconnection).
THEOREM LoopsMeetTheLiving == Spec => []LoopHoldsLive
<1>1. IInv => LoopHoldsLive
  BY DEF IInv, SilentInv, Silent, LoopHoldsLive
<1>2. QED  BY <1>1, Inductive, Initially, PTL DEF Spec

\* Until then the map is exact without any exception: whatever stale closures
\* (send_inloop), the set-up in newconnection and the walk of handle_timer do, no
\* step of them spoils Tcpserver::connections.
THEOREM MapAlwaysExact == Spec => [](~expired => Exact)
<1>1. IInv => (~expired => Exact)
  BY DEF IInv, ExactSoFar
<1>2. QED  BY <1>1, Inductive, Initially, PTL DEF Spec

-----------------------------------------------------------------------------
(* A server without workers. *)

\* Until a Connection is found expired, no closure waits for a loop, and what was
\* sent went where it should: HandleMessage answers in the thread of the
\* Connection's own loop.
Unqueued ==
  /\ \A l \in Loop : task_queue[l] = <<>>
  /\ RepliesReachTheirClient
NoClosures == Worker = {} /\ ~expired => Unqueued

LEMMA NoClosuresStep ==
  ASSUME IInv, NoClosures, [Next]_vars
  PROVE  NoClosures'
<1> SUFFICES ASSUME Worker = {}, ~expired'
             PROVE  Unqueued'
  BY DEF NoClosures
<1>1. Unqueued /\ ~expired
  BY HistorySteps DEF NoClosures, IInv, Basic
<1>2. CASE UNCHANGED <<task_queue, sent>>
  BY <1>1, <1>2 DEF Unqueued, RepliesReachTheirClient
<1>3. ASSUME NEW l \in Loop, HandleEvent(l)
      PROVE  Unqueued'
  <2>1. PICK p \in batch[l] :
          \/ \E c \in At(p) : \/ ReadMessage(l, c) \/ ReadEnd(l, c)
                              \/ c # p /\ HandleError(l, c)
          \/ UNCHANGED <<sent, task_queue>>
    BY <1>3 DEF HandleEvent
  \* The pointer in the batch leads to its own Connection, of this loop.
  <2>2. At(p) = {p} /\ LoopOf(conn[p].fd) = l
    BY <1>1 DEF IInv, SilentInv, Silent, Held, At, HeapOK
  <2>3. CASE UNCHANGED <<sent, task_queue>>
    BY <1>2, <2>3
  <2>4. CASE ReadMessage(l, p)
    <3>1. UNCHANGED task_queue /\ sent' \subseteq sent \cup {<<p, p>>}
      BY <2>2, <2>4 DEF ReadMessage
    <3>2. QED  BY <1>1, <3>1 DEF Unqueued, RepliesReachTheirClient
  <2>5. QED  BY <2>1, <2>2, <2>3, <2>4 DEF ReadEnd
<1>4. ASSUME NEW l \in Loop
      PROVE  ~RunTask(l)
  BY <1>1 DEF Unqueued, RunTask
<1>5. QED
  BY <1>2, <1>3, <1>4
  DEF Next, vars, ClientStep, MainStep, LoopStep, Send, Fin, Reset, NewConnection,
      Insert, SetCallback, EndScan, NotExpired, Expired, TimerErase, TimerDelete,
      TimerFires, Poll, CloseErase, CloseDelete, queues

\* A step that uses a stale pointer is the set-up's or an iterator's, an IO
\* thread's or the timer's with a Connection, or a closure's.
LEMMA KindSteps ==
  ASSUME [Next]_vars
  PROVE  \/ stale' \subseteq stale \cup {"setup", "iterator", "event", "close"}
         \/ expired'
         \/ mpc = "delete"
         \/ \E l \in Loop : RunTask(l)
         \/ \E w \in Worker : WorkerStep(w)
<1>1. CASE Valid \/ UNCHANGED vars
  BY <1>1 DEF Valid, vars
<1>2. CASE SetCallback
  BY <1>2 DEF SetCallback, Valid, Dangling
<1>3. CASE NotExpired \/ TimerErase
  BY <1>3 DEF NotExpired, TimerErase, UseIterator, Valid, Dangling
<1>4. CASE Expired \/ TimerDelete
  BY <1>4 DEF Expired, TimerDelete
<1>5. ASSUME NEW l \in Loop, HandleEvent(l)
      PROVE  stale' \subseteq stale \cup {"event"}
  BY <1>5 DEF HandleEvent, Reaches, Dangling
<1>6. ASSUME NEW l \in Loop, CloseErase(l) \/ CloseDelete(l)
      PROVE  stale' \subseteq stale \cup {"close"}
  BY <1>6 DEF CloseErase, CloseDelete, Reaches, Dangling
<1>7. QED
  BY <1>1, <1>2, <1>3, <1>4, <1>5, <1>6
  DEF Next, ClientStep, MainStep, LoopStep, Send, Fin, Reset, NewConnection, Insert,
      EndScan, TimerFires, Poll

StaleInv == Worker = {} /\ ~expired => stale \subseteq {"setup", "iterator"}

LEMMA StaleStep ==
  ASSUME IInv, NoClosures, StaleInv, [Next]_vars
  PROVE  StaleInv'
<1> SUFFICES ASSUME Worker = {}, ~expired'
             PROVE  stale' \subseteq {"setup", "iterator"}
  BY DEF StaleInv
<1>1. ~expired /\ stale' \cap {"event", "close"} = {}
  BY HistorySteps, SilentStep DEF SilentInv, Silent, IInv, Basic
<1>2. mpc # "delete" /\ \A l \in Loop : ~RunTask(l)
  BY <1>1 DEF IInv, SilentInv, Silent, NoClosures, Unqueued, RunTask
<1>3. stale \subseteq {"setup", "iterator"}
  BY <1>1 DEF StaleInv
<1>4. stale' \subseteq stale \cup {"setup", "iterator", "event", "close"}
  BY <1>2, KindSteps
<1>5. QED  BY <1>1, <1>3, <1>4

LEMMA WithoutWorkers == Spec => [](NoClosures /\ StaleInv)
<1>1. Init => NoClosures /\ StaleInv
  BY DEF Init, NoClosures, Unqueued, StaleInv, RepliesReachTheirClient
<1>2. IInv /\ NoClosures /\ [Next]_vars => NoClosures'
  BY NoClosuresStep
<1>3. IInv /\ NoClosures /\ StaleInv /\ [Next]_vars => StaleInv'
  BY StaleStep
<1>4. QED  BY <1>1, <1>2, <1>3, Inductive, Initially, PTL DEF Spec

\* A server without workers, as main starts it (tcp.cpp:22), sends each reply to the
\* client whose message it answers, until a Connection is found expired.
\* Connection::sendmessage leaves a closure for the loop when another thread calls
\* it: that this never happens here rests on every IO thread's holding Connections
\* of its own loop only.
THEOREM RepliesWithoutWorkers == Spec => []NoStrayReply
<1>1. NoClosures => NoStrayReply
  BY DEF NoClosures, Unqueued, NoStrayReply
<1>2. QED  BY <1>1, WithoutWorkers, PTL

\* A server without workers, until a Connection is found expired, uses what was
\* deleted in two places only: the set-up in Tcpserver::newconnection, and the
\* iterator with which handle_timer walks the map without the lock.
THEOREM OnlySetUpIsStale ==
  ASSUME Worker = {}
  PROVE  Spec => [](~expired => stale \subseteq {"setup", "iterator"})
<1>1. StaleInv => (~expired => stale \subseteq {"setup", "iterator"})
  BY DEF StaleInv
<1>2. QED  BY <1>1, WithoutWorkers, PTL
=============================================================================
