------------------------------ MODULE Tcpserver ------------------------------
(***************************************************************************)
(* The life of a Connection: accepted and set up by the main thread        *)
(* (Acceptor::handle_newconnection, Tcpserver::newconnection), served and  *)
(* deleted by the IO thread of its loop (Connection::onmessage,            *)
(* Tcpserver::closeconnection), used through plain pointers by the worker  *)
(* threads (EchoServer::Handledata, Connection::sendmessage) and by the    *)
(* closures they leave for the loop (send_inloop), and deleted by the main *)
(* thread when it finds it idle (Tcpserver::handle_timer).                 *)
(*                                                                         *)
(* Each client connects once, so a Connection, and a pointer to it, is     *)
(* named by its client.  Descriptors and heap cells are used again after   *)
(* close and delete.  Using a pointer to a deleted Connection is undefined: *)
(* the program dies there, or the statement does nothing; if the cell      *)
(* holds a new Connection by then, the statement applies to that one.      *)
(*                                                                         *)
(* A reply handed to send_inloop counts as sent: the output buffer, and    *)
(* the write events that empty it, are not in this module.                 *)
(***************************************************************************)
EXTENDS Naturals, Sequences

CONSTANTS
  Client,     \* each connects once and sends at most one message
  Resetting,  \* those that may reset their connection
  Fd,         \* the descriptors accept may return
  Addr,       \* the heap cells for Connection objects
  Worker,     \* the threads of Tpl; without any the IO thread does their work
  threadnum,  \* how many sub loops, one IO thread each
  Alarm,      \* the timer goes off (FALSE: the time before its first alarm)
  None

ASSUME ServerAssumption ==
  /\ Resetting \subseteq Client /\ Fd \subseteq Nat /\ threadnum \in Nat \ {0}
  /\ Alarm \in BOOLEAN
  /\ None \notin Client \cup Fd \cup Addr

Loop == 0 .. threadnum - 1

VARIABLES
  \* The kernel and the clients
  backlog,      \* the clients that wait to be accepted
  fin,          \* the clients that have closed their end, by a FIN or a reset
  rst,          \* those of them that have reset the connection
  msg,          \* each client's message: "none", "unread" or "read"
  edge,         \* the Connections whose descriptors have an event to report
  \* The heap
  live,         \* the Connections that exist
  conn,         \* of each: fd, cell, disconnect_, and how many callbacks are
                \* set, in the order close, error, message, completion
  connections,  \* Tcpserver::connections
  \* The threads
  mpc, mconn,   \* the main thread: where it is and the pointer it holds
  it,           \* handle_timer's iterator, the key it points to, or None
  expired,      \* it has found a Connection expired (history)
  lpc, lconn,   \* the same of each IO thread
  batch,        \* each IO thread: the channels epoll_wait returned, unhandled
  task_queue,   \* each loop's closures: send_inloop on these Connections
  q,            \* Tpl's queue: closures Handledata(conn, message)
  wpc, wconn,   \* each worker
  \* History
  sent,         \* pairs: a reply to a message of the first went to the second
  stale,        \* the kinds of pointers used after their object was gone
  crashed       \* the program died of one, or called exit(-1)

kernel == <<backlog, fin, rst, msg, edge>>
heap == <<live, conn, connections>>
main == <<mpc, mconn, it, expired>>
io == <<lpc, lconn, batch>>
queues == <<task_queue, q, wpc, wconn>>
vars == <<kernel, heap, main, io, queues, sent, stale, crashed>>

Init ==
  /\ backlog = Client /\ fin = {} /\ rst = {} /\ edge = {}
  /\ msg = [c \in Client |-> "none"]
  /\ live = {} /\ connections = [fd \in Fd |-> None]
  /\ conn = [c \in Client |->
               [fd |-> None, cell |-> None, callbacks |-> 0, disconnect_ |-> FALSE]]
  /\ mpc = "wait" /\ mconn = None /\ it = None /\ expired = FALSE
  /\ lpc = [l \in Loop |-> "handle"] /\ lconn = [l \in Loop |-> None]
  /\ batch = [l \in Loop |-> {}] /\ task_queue = [l \in Loop |-> <<>>]
  /\ q = <<>> /\ wpc = [w \in Worker |-> "wait"] /\ wconn = [w \in Worker |-> None]
  /\ sent = {} /\ stale = {} /\ crashed = FALSE

LoopOf(fd) == fd % threadnum

-----------------------------------------------------------------------------
(* Pointers.  A program that died takes no step. *)

\* What pointer p leads to: p while it exists, else whatever is in its cell.
At(p) == {c \in live : conn[c].cell = conn[p].cell}

Valid == ~crashed /\ UNCHANGED <<stale, crashed>>

\* p was used and led to c.
Reaches(p, c, kind) ==
  /\ ~crashed
  /\ stale' = IF c = p THEN stale ELSE stale \cup {kind}

\* The memory p leads to is free: the program dies of its use, or goes on.
Dangling(kind) == ~crashed /\ crashed' \in BOOLEAN /\ stale' = stale \cup {kind}

\* delete c: the channel goes, and ~Socket closes the descriptor, which takes
\* it off the epoll tree.  Nothing else does: see Close.
Delete(c) == live' = live \ {c} /\ edge' = edge \ {c}

-----------------------------------------------------------------------------
(* The clients.  They may have sent and closed before accept returns them. *)

Arrives(c) == edge' = IF c \in live THEN edge \cup {c} ELSE edge

Send(c) ==
  /\ c \notin fin /\ msg[c] = "none"
  /\ msg' = [msg EXCEPT ![c] = "unread"] /\ Arrives(c)
  /\ UNCHANGED <<backlog, fin, rst, heap, main, io, queues, sent>> /\ Valid

Fin(c) ==
  /\ c \notin fin
  /\ fin' = fin \cup {c} /\ Arrives(c)
  /\ UNCHANGED <<backlog, rst, msg, heap, main, io, queues, sent>> /\ Valid

\* A reset, before or after a FIN.  onmessage goes on past the error of read(),
\* to the end of the stream.
Reset(c) ==
  /\ c \in Resetting \ rst
  /\ rst' = rst \cup {c} /\ fin' = fin \cup {c} /\ Arrives(c)
  /\ UNCHANGED <<backlog, msg, heap, main, io, queues, sent>> /\ Valid

-----------------------------------------------------------------------------
(* The main thread: a new connection. *)

\* Mutant of NewConnection: the close callback is set by the constructor,
\* before the Connection is in the map.
NewConnectionCallbackFirst(c) ==
  /\ mpc = "wait" /\ c \in backlog
  /\ \E fd \in Fd \ {conn[d].fd : d \in live},
        cell \in Addr \ {conn[d].cell : d \in live} :
       /\ conn' = [conn EXCEPT ![c] = [fd |-> fd, cell |-> cell, callbacks |-> 1,
                                       disconnect_ |-> FALSE]]
  /\ edge' = IF c \in fin \/ msg[c] = "unread" THEN edge \cup {c} ELSE edge
  /\ live' = live \cup {c} /\ backlog' = backlog \ {c}
  /\ mconn' = c /\ mpc' = "insert"
  /\ UNCHANGED <<fin, rst, msg, connections, it, expired, io, queues, sent>>
  /\ Valid

\* accept returns a descriptor that is not open, and new Connection a cell
\* that is free; the constructor puts the channel on the epoll tree of its
\* loop, which reports what has already arrived.  From here on the IO thread
\* can see the object.
NewConnection(c) ==
  /\ mpc = "wait" /\ c \in backlog
  /\ \E fd \in Fd \ {conn[d].fd : d \in live},
        cell \in Addr \ {conn[d].cell : d \in live} :
       /\ conn' = [conn EXCEPT ![c] = [fd |-> fd, cell |-> cell, callbacks |-> 0,
                                       disconnect_ |-> FALSE]]
  /\ edge' = IF c \in fin \/ msg[c] = "unread" THEN edge \cup {c} ELSE edge
  /\ live' = live \cup {c} /\ backlog' = backlog \ {c}
  /\ mconn' = c /\ mpc' = "insert"
  /\ UNCHANGED <<fin, rst, msg, connections, it, expired, io, queues, sent>>
  /\ Valid

\* { lock_guard; connections[clientfd]=connection; }
Insert ==
  /\ mpc = "insert" /\ mpc' = "callbacks"
  /\ connections' = [connections EXCEPT ![conn[mconn].fd] = mconn]
  /\ UNCHANGED <<kernel, live, conn, mconn, it, expired, io, queues, sent>> /\ Valid

\* Mutant of SetCallback: it does not stop after the fourth.
SetCallbackFive ==
  /\ mpc = "callbacks"
  /\ \/ /\ mconn \in live /\ Valid
        /\ conn' = [conn EXCEPT ![mconn].callbacks = @ + 1]
        /\ mpc' = IF conn[mconn].callbacks = 4 THEN "wait" ELSE "callbacks"
     \/ mconn \notin live /\ Dangling("setup") /\ mpc' = "wait" /\ UNCHANGED conn
  /\ UNCHANGED <<kernel, live, connections, mconn, it, expired, io, queues, sent>>

\* setclosecallback, seterrorcallback, setmessagecallback and
\* setsendcompletioncallback, one after the other.  No cell is allocated in
\* between, so a stale pointer leads to free memory.
SetCallback ==
  /\ mpc = "callbacks"
  /\ \/ /\ mconn \in live /\ Valid
        /\ conn' = [conn EXCEPT ![mconn].callbacks = @ + 1]
        /\ mpc' = IF conn[mconn].callbacks = 3 THEN "wait" ELSE "callbacks"
     \/ mconn \notin live /\ Dangling("setup") /\ mpc' = "wait" /\ UNCHANGED conn
  /\ UNCHANGED <<kernel, live, connections, mconn, it, expired, io, queues, sent>>

-----------------------------------------------------------------------------
(* The main thread: handle_timer.  It walks connections without the lock. *)

\* Where an iterator to the first of these keys points: the smallest, or end().
First(keys) ==
  IF keys = {} THEN {None} ELSE {k \in keys : \A j \in keys : k <= j}

After(fd) == First({k \in Fd : connections[k] # None /\ k > fd})

\* The node `it` points to is still in the map, or was erased meanwhile.
UseIterator == IF connections[it] # None THEN Valid ELSE Dangling("iterator")

TimerFires ==
  /\ Alarm /\ mpc = "wait" /\ mpc' = "scan"
  /\ it' \in First({k \in Fd : connections[k] # None})
  /\ UNCHANGED <<kernel, heap, mconn, expired, io, queues, sent>> /\ Valid

EndScan ==
  /\ mpc = "scan" /\ it = None /\ mpc' = "wait"
  /\ UNCHANGED <<kernel, heap, mconn, it, expired, io, queues, sent>> /\ Valid

\* it->second->timeout(now, timeout) is false: ++it
NotExpired ==
  /\ mpc = "scan" /\ it # None /\ UseIterator
  /\ it' \in After(it)
  /\ UNCHANGED <<kernel, heap, mpc, mconn, expired, io, queues, sent>>

\* It is true (when a client was last heard of is left open): the four
\* callbacks are set to nullptr ...
Expired ==
  /\ mpc = "scan" /\ it # None /\ connections[it] # None
  /\ mconn' = connections[it] /\ mpc' = "erase"
  /\ \/ \E c \in At(connections[it]) :
          /\ Reaches(connections[it], c, "timer") /\ UNCHANGED crashed
          /\ conn' = [conn EXCEPT ![c].callbacks = 0]
     \/ At(connections[it]) = {} /\ Dangling("timer") /\ UNCHANGED conn
  /\ expired' = TRUE
  /\ UNCHANGED <<kernel, live, connections, it, io, queues, sent>>

\* ... { lock_guard; it = connections.erase(it); } ...
TimerErase ==
  /\ mpc = "erase" /\ mpc' = "delete" /\ UseIterator
  /\ connections' = [connections EXCEPT ![it] = None]
  /\ it' \in After(it)
  /\ UNCHANGED <<kernel, live, conn, mconn, expired, io, queues, sent>>

\* Mutant of TimerDelete: the Connection is not deleted.
TimerKeep ==
  /\ mpc = "delete" /\ mpc' = "scan"
  /\ UNCHANGED <<kernel, heap, mconn, it, expired, io, queues, sent>> /\ Valid

\* ... delete conn.
TimerDelete ==
  /\ mpc = "delete" /\ mpc' = "scan"
  /\ \/ \E c \in At(mconn) :
          Delete(c) /\ Reaches(mconn, c, "timer") /\ UNCHANGED crashed
     \/ At(mconn) = {} /\ Dangling("timer") /\ UNCHANGED <<live, edge>>
  /\ UNCHANGED <<backlog, fin, rst, msg, conn, connections, mconn, it, expired, io,
                 queues, sent>>

-----------------------------------------------------------------------------
(* An IO thread. *)

\* Mutant of Poll: all loops share one epoll instance.
PollShared(l) ==
  /\ lpc[l] = "handle" /\ batch[l] = {}
  /\ LET ready == {c \in edge : conn[c].disconnect_ => c \in rst}
     IN  /\ ready # {} /\ batch' = [batch EXCEPT ![l] = ready]
         /\ edge' = edge \ {c \in ready : ~conn[c].disconnect_}
  /\ UNCHANGED <<backlog, fin, rst, msg, heap, main, lpc, lconn, queues, sent>>
  /\ Valid

\* epoll_wait returns the channels with new input.  One that remove() has been
\* called on reports a reset only, and reports it each time: EPOLLET is off.
Poll(l) ==
  /\ lpc[l] = "handle" /\ batch[l] = {}
  /\ LET ready == {c \in edge : LoopOf(conn[c].fd) = l
                                /\ (conn[c].disconnect_ => c \in rst)}
     IN  /\ ready # {} /\ batch' = [batch EXCEPT ![l] = ready]
         /\ edge' = edge \ {c \in ready : ~conn[c].disconnect_}
  /\ UNCHANGED <<backlog, fin, rst, msg, heap, main, lpc, lconn, queues, sent>>
  /\ Valid

Consume(c) == msg' = [msg EXCEPT ![c] = IF @ = "unread" THEN "read" ELSE @]

\* Mutant of ReadMessage: the closure is queued for the loop in every case.
ReadMessageQueued(l, c) ==
  /\ c \notin fin /\ Consume(c)
  /\ LET handled == msg[c] = "unread" /\ conn[c].callbacks >= 3
     IN  /\ q' = IF handled /\ Worker # {} THEN Append(q, c) ELSE q
         /\ task_queue' = IF handled /\ Worker = {}
                          THEN [task_queue EXCEPT ![LoopOf(conn[c].fd)] = Append(@, c)]
                          ELSE task_queue
  /\ UNCHANGED <<edge, conn, lpc, lconn, sent, crashed>>

\* onmessage up to EAGAIN: a message goes to HandleMessage if that callback is
\* set.  Without workers HandleMessage replies itself: sendmessage does nothing
\* once the Connection is closed, calls send_inloop in the thread of the
\* Connection's own loop, and leaves a closure for that loop in any other.
ReadMessage(l, c) ==
  /\ c \notin fin /\ Consume(c)
  /\ LET handled == msg[c] = "unread" /\ conn[c].callbacks >= 3
         replies == handled /\ Worker = {} /\ ~conn[c].disconnect_
         own     == LoopOf(conn[c].fd)
     IN  /\ q' = IF handled /\ Worker # {} THEN Append(q, c) ELSE q
         /\ sent' = IF replies /\ own = l THEN sent \cup {<<c, c>>} ELSE sent
         /\ task_queue' = IF replies /\ own # l
                          THEN [task_queue EXCEPT ![own] = Append(@, c)]
                          ELSE task_queue
  /\ UNCHANGED <<edge, conn, lpc, lconn, crashed>>

\* remove() and close_client() or error_client().  remove() clears inepoll_
\* before removechannel tests it, so the descriptor stays on the tree without
\* events, and a reset is reported still.  For a channel that was removed before,
\* remove() adds the descriptor a second time: EEXIST, exit(-1).  The closing
\* goes on in Tcpserver if the callback, the k-th, is set.
Close(l, c, k) ==
  \/ /\ conn[c].disconnect_ /\ crashed' = TRUE
     /\ UNCHANGED <<edge, conn, lpc, lconn>>
  \/ /\ ~conn[c].disconnect_ /\ UNCHANGED crashed
     /\ conn' = [conn EXCEPT ![c].disconnect_ = TRUE]
     /\ edge' = IF c \in rst THEN edge \cup {c} ELSE edge
     /\ \/ /\ conn[c].callbacks >= k
           /\ lpc' = [lpc EXCEPT ![l] = "erase"] /\ lconn' = [lconn EXCEPT ![l] = c]
        \/ conn[c].callbacks < k /\ UNCHANGED <<lpc, lconn>>

\* onmessage up to the end of the stream: what was read before it is dropped.
ReadEnd(l, c) ==
  /\ c \in fin /\ Consume(c) /\ Close(l, c, 1)
  /\ UNCHANGED <<sent, q, task_queue>>

\* handleevent's last branch, on a channel without reported events: nothing has
\* set the revent_ of a channel that took the place of one in the batch.
HandleError(l, c) == Close(l, c, 2) /\ UNCHANGED <<msg, sent, q, task_queue>>

\* ch->handleevent() on a channel of the batch.
HandleEvent(l) ==
  /\ lpc[l] = "handle"
  /\ \E p \in batch[l] :
       /\ batch' = [batch EXCEPT ![l] = @ \ {p}]
       /\ \/ \E c \in At(p) :
               /\ \/ ReadMessage(l, c) \/ ReadEnd(l, c)
                  \/ c # p /\ HandleError(l, c)
               /\ Reaches(p, c, "event")
          \/ /\ At(p) = {} /\ Dangling("event")
             /\ UNCHANGED <<msg, edge, conn, lpc, lconn, sent, q, task_queue>>
  /\ UNCHANGED <<backlog, fin, rst, live, connections, main, wpc, wconn>>

\* closeconnection: { lock_guard; connections.erase(connection->fd()); } ...
CloseErase(l) ==
  /\ lpc[l] = "erase" /\ lpc' = [lpc EXCEPT ![l] = "delete"]
  /\ \/ \E c \in At(lconn[l]) :
          /\ Reaches(lconn[l], c, "close") /\ UNCHANGED crashed
          /\ connections' = [connections EXCEPT ![conn[c].fd] = None]
     \/ At(lconn[l]) = {} /\ Dangling("close") /\ UNCHANGED connections
  /\ UNCHANGED <<kernel, live, conn, main, lconn, batch, queues, sent>>

\* ... delete connection;
CloseDelete(l) ==
  /\ lpc[l] = "delete" /\ lpc' = [lpc EXCEPT ![l] = "handle"]
  /\ \/ \E c \in At(lconn[l]) :
          Delete(c) /\ Reaches(lconn[l], c, "close") /\ UNCHANGED crashed
     \/ At(lconn[l]) = {} /\ Dangling("close") /\ UNCHANGED <<live, edge>>
  /\ UNCHANGED <<backlog, fin, rst, msg, conn, connections, main, lconn, batch,
                 queues, sent>>

\* A closure that sendmessage left, run by handle_wakeup: send_inloop.  It does
\* not test disconnect_, and enabwriting on a channel that remove() has been
\* called on adds the descriptor a second time, as in Close.
RunTask(l) ==
  /\ lpc[l] = "handle" /\ task_queue[l] # <<>>
  /\ task_queue' = [task_queue EXCEPT ![l] = Tail(@)]
  /\ LET p == Head(task_queue[l])
     IN  \/ \E c \in At(p) :
              /\ Reaches(p, c, "reply")
              /\ \/ /\ ~conn[c].disconnect_ /\ UNCHANGED crashed
                    /\ sent' = sent \cup {<<p, c>>}
                 \/ conn[c].disconnect_ /\ crashed' = TRUE /\ UNCHANGED sent
         \/ At(p) = {} /\ Dangling("reply") /\ UNCHANGED sent
  /\ UNCHANGED <<kernel, heap, main, io, q, wpc, wconn>>

-----------------------------------------------------------------------------
(* A worker: Handledata(conn, message), which calls sendmessage. *)

Take(w) ==
  /\ wpc[w] = "wait" /\ q # <<>> /\ wpc' = [wpc EXCEPT ![w] = "test"]
  /\ wconn' = [wconn EXCEPT ![w] = Head(q)] /\ q' = Tail(q)
  /\ UNCHANGED <<kernel, heap, main, io, task_queue, sent>> /\ Valid

\* Mutant of TestDisconnect: the test is the wrong way round.
TestConnected(w) ==
  /\ wpc[w] = "test"
  /\ \/ \E c \in At(wconn[w]) :
          /\ Reaches(wconn[w], c, "reply") /\ UNCHANGED crashed
          /\ wpc' = [wpc EXCEPT ![w] = IF conn[c].disconnect_ THEN "add" ELSE "wait"]
     \/ /\ At(wconn[w]) = {} /\ Dangling("reply")
        /\ wpc' = [wpc EXCEPT ![w] = "wait"]
  /\ UNCHANGED <<kernel, heap, main, io, task_queue, q, wconn, sent>>

\* if(disconnect_==true) return;
TestDisconnect(w) ==
  /\ wpc[w] = "test"
  /\ \/ \E c \in At(wconn[w]) :
          /\ Reaches(wconn[w], c, "reply") /\ UNCHANGED crashed
          /\ wpc' = [wpc EXCEPT ![w] = IF conn[c].disconnect_ THEN "wait" ELSE "add"]
     \/ /\ At(wconn[w]) = {} /\ Dangling("reply")
        /\ wpc' = [wpc EXCEPT ![w] = "wait"]
  /\ UNCHANGED <<kernel, heap, main, io, task_queue, q, wconn, sent>>

\* loop_->addtask(std::bind(&Connection::send_inloop, this, message))
AddTask(w) ==
  /\ wpc[w] = "add" /\ wpc' = [wpc EXCEPT ![w] = "wait"]
  /\ \/ \E c \in At(wconn[w]) :
          /\ Reaches(wconn[w], c, "reply") /\ UNCHANGED crashed
          /\ task_queue' =
               [task_queue EXCEPT ![LoopOf(conn[c].fd)] = Append(@, wconn[w])]
     \/ At(wconn[w]) = {} /\ Dangling("reply") /\ UNCHANGED task_queue
  /\ UNCHANGED <<kernel, heap, main, io, q, wconn, sent>>

-----------------------------------------------------------------------------
ClientStep == \E c \in Client : Send(c) \/ Fin(c) \/ Reset(c)
MainStep ==
  \/ \E c \in Client : NewConnection(c)
  \/ Insert \/ SetCallback
  \/ EndScan \/ NotExpired \/ Expired \/ TimerErase \/ TimerDelete
LoopStep(l) ==
  Poll(l) \/ HandleEvent(l) \/ CloseErase(l) \/ CloseDelete(l) \/ RunTask(l)
WorkerStep(w) == Take(w) \/ TestDisconnect(w) \/ AddTask(w)

Next ==
  \/ ClientStep \/ MainStep \/ TimerFires
  \/ \E l \in Loop : LoopStep(l)
  \/ \E w \in Worker : WorkerStep(w)

Spec == Init /\ [][Next]_vars

\* Every thread that can take a step takes one in the end; clients need not
\* send or close.  The alarm is set again after each time, and a connection
\* nobody sends on is found expired in one of the walks.
FairSpec ==
  /\ Spec
  /\ WF_vars(MainStep) /\ WF_vars(TimerFires) /\ SF_vars(Expired)
  /\ \A l \in Loop : /\ WF_vars(CloseErase(l) \/ CloseDelete(l))
                     /\ WF_vars(Poll(l) \/ HandleEvent(l)) /\ WF_vars(RunTask(l))
  /\ \A w \in Worker : WF_vars(WorkerStep(w))

-----------------------------------------------------------------------------
Fields == [fd: Fd \cup {None}, cell: Addr \cup {None}, callbacks: 0 .. 4,
           disconnect_: BOOLEAN]

TypeOK ==
  /\ backlog \subseteq Client /\ fin \subseteq Client /\ rst \subseteq Client
  /\ msg \in [Client -> {"none", "unread", "read"}] /\ edge \subseteq Client
  /\ live \subseteq Client /\ connections \in [Fd -> Client \cup {None}]
  /\ conn \in [Client -> Fields]
  /\ mpc \in {"wait", "insert", "callbacks", "scan", "erase", "delete"}
  /\ mconn \in Client \cup {None} /\ it \in Fd \cup {None} /\ expired \in BOOLEAN
  /\ lpc \in [Loop -> {"handle", "erase", "delete"}]
  /\ lconn \in [Loop -> Client \cup {None}] /\ batch \in [Loop -> SUBSET Client]
  /\ task_queue \in [Loop -> Seq(Client)] /\ q \in Seq(Client)
  /\ wpc \in [Worker -> {"wait", "test", "add"}]
  /\ wconn \in [Worker -> Client \cup {None}]
  /\ sent \subseteq Client \X Client
  /\ stale \subseteq {"setup", "event", "close", "reply", "timer", "iterator"}
  /\ crashed \in BOOLEAN

\* Up to the first undefined step, connections is exact: what it holds is a
\* Connection that exists and owns the descriptor it is listed under, and a
\* Connection is listed except before its insertion and between its erasure
\* and its deletion.
MapExact ==
  stale \subseteq {"setup", "reply"} =>
    /\ \A fd \in Fd : connections[fd] # None =>
         connections[fd] \in live /\ conn[connections[fd]].fd = fd
    /\ \A c \in live :
         \/ connections[conn[c].fd] = c
         \/ mpc \in {"insert", "delete"} /\ mconn = c
         \/ \E l \in Loop : lpc[l] = "delete" /\ lconn[l] = c

\* Until the first alarm that finds a Connection expired, an IO thread never
\* handles an event for, closes or deletes a Connection that is gone.
LoopHoldsLive == ~expired => stale \cap {"event", "close"} = {}

\* newconnection does not use a Connection that is gone.
NoStaleSetup == "setup" \notin stale

\* A reply goes to the client whose message it answers.
RepliesReachTheirClient == \A p \in sent : p[1] = p[2]

\* A server without workers, as main starts it (tcp.cpp:22), sends every reply to
\* its client until the first alarm that finds a Connection expired: its loops
\* leave no closure behind that could outlive its Connection.
NoStrayReply == Worker = {} /\ ~expired => RepliesReachTheirClient

\* A client that has closed its connection has its Connection deleted and its
\* descriptor closed.
ClosedIsReclaimed ==
  \A c \in Client : c \in fin /\ c \notin backlog ~> crashed \/ c \notin live

Answered(c) == <<c, c>> \in sent \/ c \in fin \/ crashed

\* A message that arrives once its connection is set up is answered, unless
\* its client closes: before the first alarm newconnection and the close are the
\* only gaps.  (The timer, which takes the callbacks away, makes a third.)
SetUpIsAnswered ==
  \A c \in Client :
    c \in live /\ conn[c].callbacks = 4 /\ msg[c] = "unread" ~> Answered(c)
=============================================================================
