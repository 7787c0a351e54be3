---------------------------- MODULE SingleReactor ----------------------------
(***************************************************************************)
(* The earlier server, src/single-reactor/reactor: one thread accepts,     *)
(* reads, answers and closes.  epoll_wait returns a vector of channels,    *)
(* whose handlers run one after the other; a handler may create or delete  *)
(* Connections.  A reply is given to send() at once, and what the send     *)
(* buffer does not take is lost: HandleMessage makes no use of             *)
(* outputbuffer_.                                                          *)
(*                                                                         *)
(* Only the thread touches the program's state, so a step goes from one    *)
(* system call to the next: the clients and the kernel act between them.   *)
(* A Connection, and its channel, are named by the client.  A message and  *)
(* its reply have two units each, so both may be cut in the middle.        *)
(***************************************************************************)
EXTENDS Naturals, Sequences, FiniteSets, Functions

CONSTANTS
  Client,     \* each connects once
  Fd,         \* the descriptors accept may return
  Last,       \* how many messages each client may send
  Blank,      \* the pairs <<c, m>>: the text of message m of client c is " "
  SndBuf,     \* the units a send buffer takes
  Limits,     \* pairs: the descriptors the process may have for connections,
              \* and MaxEvents, how many events epoll_wait returns
  Listener,   \* the channel of the listening socket
  None

ASSUME SingleReactorAssumption ==
  /\ Last \in [Client -> Nat] /\ SndBuf \in Nat
  /\ Limits \subseteq Nat \X (Nat \ {0})
  /\ Blank \subseteq Client \X Nat
  /\ Listener \notin Client /\ None \notin Client

VARIABLES
  limits,       \* one of Limits, chosen at the start
  \* The kernel and the clients
  outside,      \* the clients that have not connected
  backlog,      \* those that wait to be accepted
  arrived,      \* the units each has sent
  fin,          \* those that have shut down their sending side
  reset,        \* the error a reset has left on the socket, or "none"
  unacked,      \* the units in each send buffer
  ready,        \* epoll's ready list
  \* The program
  connections,  \* Tcpserver::connections, which owns the Connections
  read, parsed, \* of each inputbuffer_: units read, messages taken out
  batch,        \* the channels epoll_wait returned, not yet handled
  pc,           \* what is done with the first of them: "handle" or "reply"
  killed,       \* SIGPIPE
  \* History
  replies       \* to each client: <<message, units that send() took>>

socket == <<limits, outside, backlog, arrived, fin, reset>>
input == <<read, parsed>>
program == <<connections, input, batch, pc, killed, replies>>
vars == <<socket, unacked, ready, program>>

Channel == Client \cup {Listener}

Init ==
  /\ limits \in Limits /\ outside = Client /\ backlog = {} /\ fin = {}
  /\ arrived = [c \in Client |-> 0]
  /\ reset = [c \in Client |-> "none"] /\ unacked = [c \in Client |-> 0]
  /\ ready = <<>> /\ connections = [fd \in Fd |-> None]
  /\ read = [c \in Client |-> 0] /\ parsed = [c \in Client |-> 0]
  /\ batch = <<>> /\ pc = "handle" /\ killed = FALSE
  /\ replies = [c \in Client |-> <<>>]

MaxEvents == limits[2]

Live(c) == \E fd \in Fd : connections[fd] = c
Open == {fd \in Fd : connections[fd] # None}
Free == IF Cardinality(Open) < limits[1] THEN Fd \ Open ELSE {}

\* The elements of s that are in S, in their order: the k-th of them has k of
\* them up to it.
Filter(s, S) ==
  LET I == {i \in DOMAIN s : s[i] \in S}
      Rank(i) == Cardinality({j \in I : j <= i})
  IN  [k \in 1 .. Cardinality(I) |-> s[CHOOSE i \in I : Rank(i) = k]]

-----------------------------------------------------------------------------
(* The clients and the kernel. *)

\* An event on a socket that is on the epoll tree: its item goes to the ready
\* list, unless it is there.
Signal(ch) ==
  ready' = IF (ch = Listener \/ Live(ch)) /\ ch \notin Range(ready)
             THEN Append(ready, ch) ELSE ready

Connect(c) ==
  /\ c \in outside /\ ~killed
  /\ outside' = outside \ {c} /\ backlog' = backlog \cup {c} /\ Signal(Listener)
  /\ UNCHANGED <<limits, arrived, fin, reset, unacked, program>>

\* A client may send before it is accepted; what it does after its connection
\* was closed does not reach the server.
Connected(c) == (c \in backlog \/ Live(c)) /\ reset[c] = "none" /\ ~killed
Sending(c) == Connected(c) /\ c \notin fin

Arrive(c) ==
  /\ Sending(c) /\ arrived[c] < 2 * Last[c]
  /\ arrived' = [arrived EXCEPT ![c] = @ + 1] /\ Signal(c)
  /\ UNCHANGED <<limits, outside, backlog, fin, reset, unacked, program>>

Fin(c) ==
  /\ Sending(c) /\ fin' = fin \cup {c} /\ Signal(c)
  /\ UNCHANGED <<limits, outside, backlog, arrived, reset, unacked, program>>

\* A reset leaves EPIPE on a socket that has seen the end of the stream.
Reset(c) ==
  /\ Connected(c)
  /\ reset' = [reset EXCEPT ![c] = IF c \in fin THEN "EPIPE" ELSE "ECONNRESET"]
  /\ Signal(c)
  /\ UNCHANGED <<limits, outside, backlog, arrived, fin, unacked, program>>

\* The client takes a unit out of the send buffer.  Nobody waits for that.
Ack(c) ==
  /\ Connected(c) /\ unacked[c] > 0
  /\ unacked' = [unacked EXCEPT ![c] = @ - 1]
  /\ UNCHANGED <<socket, ready, program>>

-----------------------------------------------------------------------------
(* EventLoop::run and Epoll::loop. *)

Reportable(ch) ==
  IF ch = Listener THEN backlog # {}
  ELSE arrived[ch] > read[ch] \/ ch \in fin \/ reset[ch] # "none"

Smaller(i, j) == IF i <= j THEN i ELSE j

\* Mutants: the listening socket is edge triggered too; what exceeds MaxEvents
\* is thrown away.
RestEdge(events, n) == SubSeq(events, n + 1, Len(events))
RestDropped(events, n) ==
  IF Listener \in Range(events) THEN <<Listener>> ELSE <<>>

\* The ready list when the first n events were returned: client sockets (useET)
\* leave it; the listening socket, which is level triggered, goes to its end.
Rest(events, n) ==
  SubSeq(events, n + 1, Len(events))
    \o (IF Listener \in Range(SubSeq(events, 1, n)) THEN <<Listener>> ELSE <<>>)

\* epoll_wait returns the first items of the ready list that have something to
\* report.
Poll ==
  /\ batch = <<>> /\ ~killed
  /\ LET events == Filter(ready, {ch \in Channel : Reportable(ch)})
         n == Smaller(MaxEvents, Len(events))
     IN  /\ n > 0
         /\ batch' = SubSeq(events, 1, n)
         /\ ready' = Rest(events, n)
  /\ UNCHANGED <<socket, unacked, connections, input, pc, killed, replies>>

\* The handler of a channel runs.
Handles(ch) == ~killed /\ pc = "handle" /\ batch # <<>> /\ Head(batch) = ch

-----------------------------------------------------------------------------
(* Acceptor::newconnection and Tcpserver::newconnection. *)

\* The Connection's constructor calls enabreading, and updatechannel puts the
\* descriptor on the epoll tree, which reports what has arrived already.
Watch(c) == ready' = IF Reportable(c) THEN Append(ready, c) ELSE ready

\* One accept for each event.
Accept ==
  /\ Handles(Listener) /\ batch' = Tail(batch)
  /\ \E c \in backlog, fd \in Free :
       /\ backlog' = backlog \ {c}
       /\ connections' = [connections EXCEPT ![fd] = c]
       /\ Watch(c)
  /\ UNCHANGED <<limits, outside, arrived, fin, reset, unacked, input, pc,
                 killed, replies>>

\* accept has no descriptor: "accept failed", and the listening socket will be
\* reported again.
AcceptFails ==
  /\ Handles(Listener) /\ Free = {} /\ batch' = Tail(batch)
  /\ UNCHANGED <<socket, unacked, ready, connections, input, pc, killed, replies>>

-----------------------------------------------------------------------------
(* Connection::onmessage, from Channel::handleevent. *)

\* closeconnection: erasing the Connection from the map deletes it; its Socket
\* closes the descriptor, which takes it off the epoll tree.
Close(c) ==
  /\ connections' = [fd \in Fd |-> IF connections[fd] = c THEN None
                                   ELSE connections[fd]]
  /\ ready' = Filter(ready, Channel \ {c})

Ended(c) == c \in fin \/ reset[c] # "none"

\* What is left to handle after closecallback() and its break; a mutant without
\* the break.
BatchNoBreak == batch
BatchAfterClose == Tail(batch)

\* Up to the end of the stream, or to an error and then the end.  What was
\* read before it is never parsed.
ReadEnd(c) ==
  /\ Handles(c) /\ Ended(c) /\ Close(c) /\ batch' = BatchAfterClose
  /\ read' = [read EXCEPT ![c] = arrived[c]]
  /\ UNCHANGED <<socket, unacked, parsed, pc, killed, replies>>

\* The units in the input buffer after the reads, which go on until EAGAIN; a
\* mutant with one read() for each event.
ReadOne(c) == Smaller(read[c] + 1, arrived[c])
ReadUp(c) == arrived[c]

\* Up to EAGAIN; then the messages are taken out of the buffer.
ReadAll(c) ==
  /\ Handles(c) /\ ~Ended(c) /\ pc' = "reply"
  /\ read' = [read EXCEPT ![c] = ReadUp(c)]
  /\ UNCHANGED <<socket, unacked, ready, connections, parsed, batch, killed,
                 replies>>

\* Mutant of Complete: a message counts as soon as its header is there.
CompleteHeader(c) == (read[c] + 1) \div 2

\* How many messages have been read in full: getmessage compares the size of
\* the buffer with the length in the header.
Complete(c) == read[c] \div 2

\* The messages of the client at the head of the batch are handled.
Replies(c) == ~killed /\ pc = "reply" /\ Head(batch) = c
NextMessage(c) == parsed[c] + 1

\* send() takes what there is room for.  On a socket that was reset it fails,
\* and the next time it raises SIGPIPE.
send(c, m) ==
  \/ /\ reset[c] = "none" /\ UNCHANGED <<reset, killed>>
     /\ LET n == Smaller(2, SndBuf - unacked[c])
        IN  /\ unacked' = [unacked EXCEPT ![c] = @ + n]
            /\ replies' = IF n = 0 THEN replies
                          ELSE [replies EXCEPT ![c] = Append(@, <<m, n>>)]
  \/ /\ reset[c] = "ECONNRESET" /\ reset' = [reset EXCEPT ![c] = "EPIPE"]
     /\ UNCHANGED <<unacked, replies, killed>>
  \/ /\ reset[c] = "EPIPE" /\ killed' = TRUE
     /\ UNCHANGED <<unacked, replies, reset>>

\* getmessage erases the message it returns; a mutant that does not.
NotErased(c) == parsed[c]
Erased(c) == parsed[c] + 1

\* getmessage returns a message, and messagecallback_ leads to HandleMessage.
HandleMessage(c) ==
  /\ Replies(c) /\ parsed[c] < Complete(c)
  /\ <<c, NextMessage(c)>> \notin Blank
  /\ parsed' = [parsed EXCEPT ![c] = Erased(c)]
  /\ send(c, NextMessage(c))
  /\ UNCHANGED <<limits, outside, backlog, arrived, fin, ready, connections, read,
                 batch, pc>>

\* getmessage returns " ": there is no complete message, or " " was its text.
StopParsing(c) ==
  /\ Replies(c)
  /\ \/ parsed[c] = Complete(c) /\ UNCHANGED parsed
     \/ /\ parsed[c] < Complete(c) /\ <<c, NextMessage(c)>> \in Blank
        /\ parsed' = [parsed EXCEPT ![c] = @ + 1]
  /\ pc' = "handle" /\ batch' = Tail(batch)
  /\ UNCHANGED <<socket, unacked, ready, connections, read, killed, replies>>

-----------------------------------------------------------------------------
ClientStep ==
  \E c \in Client : Connect(c) \/ Arrive(c) \/ Fin(c) \/ Reset(c) \/ Ack(c)

run ==
  \/ Poll \/ Accept \/ AcceptFails
  \/ \E c \in Client :
       ReadEnd(c) \/ ReadAll(c) \/ HandleMessage(c) \/ StopParsing(c)

Next == ClientStep \/ run

Spec == Init /\ [][Next]_vars

\* The thread goes on; the clients may do as they like.
FairSpec == Spec /\ WF_vars(run)
-----------------------------------------------------------------------------
TypeOK ==
  /\ limits \in Limits /\ outside \cup backlog \cup fin \subseteq Client
  /\ arrived \in [Client -> Nat] /\ read \in [Client -> Nat]
  /\ parsed \in [Client -> Nat]
  /\ \A c \in Client : /\ 2 * parsed[c] <= read[c] /\ read[c] <= arrived[c]
                       /\ arrived[c] <= 2 * Last[c]
  /\ reset \in [Client -> {"none", "ECONNRESET", "EPIPE"}]
  /\ unacked \in [Client -> 0 .. SndBuf]
  /\ ready \in Seq(Channel) /\ batch \in Seq(Channel)
  /\ connections \in [Fd -> Client \cup {None}]
  /\ pc \in {"handle", "reply"} /\ killed \in BOOLEAN
  /\ replies \in [Client -> Seq(Nat \X {1, 2})]

\* The pointers of one epoll_wait stay good until they are used: although
\* handlers delete Connections, no channel still to be handled is one of a
\* Connection that is gone, and none is there twice.
BatchIsLive ==
  /\ \A i \in DOMAIN batch : batch[i] = Listener \/ Live(batch[i])
  /\ \A i, j \in DOMAIN batch : batch[i] = batch[j] => i = j

\* Input is reported once (EPOLLET) and waiting clients are accepted one for
\* each event, yet none of it is overlooked: what is unread, or unaccepted, is
\* on the ready list, or its handler is still to run.
InputIsReported ==
  LET handling == IF pc = "reply" THEN Tail(batch) ELSE batch
  IN  \A ch \in Channel :
        Reportable(ch) /\ (ch = Listener \/ Live(ch)) /\ ~killed
          => ch \in Range(ready) \cup Range(handling)

\* The answers a client gets come as Echo promises: none before its message, in
\* order, none twice, although other connections come and go in between.
E == INSTANCE Echo WITH
  asked <- [c \in Client |-> arrived[c] \div 2],
  answers <- [c \in Client |-> [i \in DOMAIN replies[c] |-> replies[c][i][1]]]
ImplementsEcho == E!Spec

\* A client waits for ever to be accepted only if, from some time on, no
\* descriptor is free (or the program died).
EveryClientIsAccepted ==
  \A c \in Client : []<>(c \notin backlog \/ killed) \/ <>[](Free = {})

\* However many connections are ready at once, again and again the server has
\* done for each all there is to do: closed it, if it has ended, or handed over
\* all messages that have arrived.  (Those behind a message " " may be stuck.)
NothingToDo(c) ==
  ~Ended(c) /\ (\/ parsed[c] = arrived[c] \div 2
                \/ \E m \in 1 .. parsed[c] : <<c, m>> \in Blank)
EveryClientIsServed ==
  \A c \in Client : []<>(killed \/ (Live(c) => NothingToDo(c)))
=============================================================================
