----------------------------- MODULE Connection -----------------------------
(***************************************************************************)
(* The data path of one Connection, from its constructor to its deletion,  *)
(* while newconnection sets its callbacks one by one and after it: the     *)
(* edge-triggered epoll item of its Channel (Channel.cpp, Epoll.cpp),      *)
(* Connection::onmessage and the framing of Buffer::getmessage, the worker *)
(* threads of Tpl (EchoServer::HandleMessage and Handledata),              *)
(* Connection::send_inloop and send_client, and the idle timer.            *)
(*                                                                         *)
(* The client sends the messages 1, 2, ... Last.  A message on the wire,   *)
(* request or reply, is two units, because TCP may split it anywhere; the  *)
(* byte stream is in order, so positions in it are numbers of units.  Each *)
(* handler runs to its end in the IO thread and is one step; between       *)
(* epoll_wait and the handler, the kernel and the other threads go on.     *)
(***************************************************************************)
EXTENDS Naturals, Sequences, FiniteSets, Functions

CONSTANTS
  Last,     \* how many messages the client sends
  Blanks,   \* the sets of messages whose text may be " "
  Sizes,    \* how many workers Tpl may have; 0: the IO thread does their work
  SndBuf    \* how many units the socket's send buffer holds

ASSUME ConnectionAssumption ==
  /\ Last \in Nat /\ Sizes \subseteq Nat /\ SndBuf \in Nat \ {0}
  /\ Blanks \subseteq SUBSET (1 .. Last)

Message == 1 .. Last
Event == {"IN", "OUT", "ERR"}    \* "ERR" stands for EPOLLERR and EPOLLHUP
Flag == Event \cup {"ET"}

VARIABLES
  \* The kernel's side
  blank,     \* the messages the client sends with the text " "
  arrived,   \* units that have come in
  fin,       \* the client has shut its sending side down
  reset,     \* the error a reset left on the socket: "none", ECONNRESET, EPIPE
  ready,     \* the item is on epoll's ready list
  acked,     \* units of replies that have left the send buffer
  \* The Connection
  channel,   \* [event_, inepoll_] of its Channel, and of the epoll tree:
             \* whether the descriptor is on it, and the flags it is set to
  revents,   \* what epoll_wait reported and is not yet handled
  read,      \* units read into inputbuffer_
  parsed,    \* messages getmessage has taken out of it
  replies,   \* the messages whose replies went to outputbuffer_, in order
  written,   \* units sent from outputbuffer_
  disconnect_,
  callbacks, \* set...callback calls of the main thread: four by newconnection,
             \* then four with nullptr by handle_timer
  life,      \* "open", "deleted", or the process is gone: "exit", "sigpipe"
  \* The other threads
  size,      \* Tpl::size()
  q,         \* Tpl's queue: closures Handledata(conn, message)
  busy,      \* the messages workers have taken
  task_queue,\* the loop's closures: send_inloop(reply)
  handled    \* history: the messages given to HandleMessage

socket == <<blank, arrived, fin, reset, ready, acked>>
buffers == <<read, parsed, replies, written>>
threads == <<size, q, busy, task_queue>>
vars == <<socket, channel, revents, buffers, disconnect_, callbacks, life,
          threads, handled>>

\* The constructor has run: epoll watches the descriptor, no callback is set.
Init ==
  /\ blank \in Blanks /\ arrived = 0 /\ fin = FALSE /\ reset = "none"
  /\ ready = FALSE /\ acked = 0
  /\ channel = [event_ |-> {"ET", "IN"}, inepoll_ |-> TRUE, ontree |-> TRUE,
                set |-> {"ET", "IN"}]
  /\ revents = {} /\ read = 0 /\ parsed = 0 /\ replies = <<>> /\ written = 0
  /\ disconnect_ = FALSE /\ callbacks = 0 /\ life = "open"
  /\ size \in Sizes /\ q = <<>> /\ busy = {} /\ task_queue = <<>>
  /\ handled = {}

Unsent == 2 * Len(replies) - written    \* outputbuffer_.size()
Room == SndBuf - (written - acked)      \* of the send buffer

\* Both calls go through the callbacks in one order: the close callback is the
\* first to be set and to be cleared, the message callback the third.
IsSet(k) == callbacks \in k .. k + 3
closecallback_ == IsSet(1)
messagecallback_ == IsSet(3)

-----------------------------------------------------------------------------
(* Channel and Epoll, as functions of the channel.  EPOLL_CTL_ADD of a      *)
(* descriptor that is on the tree already fails with EEXIST, and            *)
(* updatechannel then calls exit(-1).                                       *)

UpdateFails(ch) == ~ch.inepoll_ /\ ch.ontree

updatechannel(ch) ==
  [ch EXCEPT !.set = ch.event_, !.ontree = TRUE, !.inepoll_ = TRUE]

\* EPOLL_CTL_DEL, if inepoll_ says so.
removechannel(ch) == [ch EXCEPT !.ontree = @ /\ ~ch.inepoll_]

enabwriting(ch) == [ch EXCEPT !.event_ = @ \cup {"OUT"}]
disabwriting(ch) == [ch EXCEPT !.event_ = @ \ {"OUT"}]
disableall(ch) == [ch EXCEPT !.event_ = {}]    \* EPOLLET goes too

\* remove: disableall and its update, then setoutepoll, then removechannel.
remove(ch) ==
  removechannel([updatechannel(disableall(ch)) EXCEPT !.inepoll_ = FALSE])

\* What the socket is ready for, out of the events its item is set to; errors
\* and hang-ups are always reported.
Status ==
  {e \in Event :
     /\ channel.ontree /\ e \in channel.set \cup {"ERR"}
     /\ e = "IN" => arrived > read \/ fin \/ reset # "none"
     /\ e = "OUT" => Room > 0 \/ reset # "none"
     /\ e = "ERR" => reset # "none"}

\* An update of the channel: the kernel puts the item on the ready list if the
\* socket is ready for an event it is now set to.
Update(ch) ==
  \/ UpdateFails(ch) /\ life' = "exit" /\ UNCHANGED <<channel, ready>>
  \/ /\ ~UpdateFails(ch) /\ channel' = updatechannel(ch)
     /\ ready' = (ready \/ Status' # {})
     /\ UNCHANGED life

-----------------------------------------------------------------------------
(* The client and the network. *)

\* An event on the socket puts its item on the ready list if it is set to it.
Signal(e) ==
  ready' = (ready \/ (channel.ontree /\ e \in channel.set \cup {"ERR"}))

Arrive ==
  /\ life = "open" /\ ~fin /\ reset = "none" /\ arrived < 2 * Last
  /\ arrived' = arrived + 1 /\ Signal("IN")
  /\ UNCHANGED <<blank, fin, reset, acked, channel, revents, buffers,
                 disconnect_, callbacks, life, threads, handled>>

Fin ==
  /\ life = "open" /\ ~fin /\ reset = "none"
  /\ fin' = TRUE /\ Signal("IN")
  /\ UNCHANGED <<blank, arrived, reset, acked, channel, revents, buffers,
                 disconnect_, callbacks, life, threads, handled>>

\* A reset leaves EPIPE on a socket that has seen the end of the stream.
Reset ==
  /\ life = "open" /\ reset = "none"
  /\ reset' = IF fin THEN "EPIPE" ELSE "ECONNRESET"
  /\ Signal("ERR")
  /\ UNCHANGED <<blank, arrived, fin, acked, channel, revents, buffers,
                 disconnect_, callbacks, life, threads, handled>>

\* The client has received some more: a full send buffer becomes writable.
Ack ==
  /\ life = "open" /\ reset = "none" /\ acked < written
  /\ acked' = acked + 1
  /\ IF Room = 0 THEN Signal("OUT") ELSE UNCHANGED ready
  /\ UNCHANGED <<blank, arrived, fin, reset, channel, revents, buffers,
                 disconnect_, callbacks, life, threads, handled>>

-----------------------------------------------------------------------------
(* The IO thread. *)

\* epoll_wait takes the item off the ready list and reports what the socket is
\* ready for now.  Without EPOLLET an item that is reported stays on the list.
Poll ==
  /\ life = "open" /\ revents = {} /\ ready
  /\ revents' = Status
  /\ ready' = (Status # {} /\ "ET" \notin channel.set)
  /\ UNCHANGED <<blank, arrived, fin, reset, acked, channel, buffers,
                 disconnect_, callbacks, life, threads, handled>>

\* The close callback deletes the Connection, if it is still set; a mutant that
\* waits for outputbuffer_ to be sent.
DeletesWhenSent == closecallback_ /\ Unsent = 0
Deletes == closecallback_

\* remove(), then close_client() or error_client(), whose callback deletes the
\* Connection.  The EPOLL_CTL_MOD of remove() puts the item on the ready list
\* again if the socket has been reset.
RemoveAndClose ==
  /\ disconnect_' = TRUE
  /\ IF UpdateFails(channel) THEN life' = "exit" /\ UNCHANGED <<channel, ready>>
     ELSE /\ channel' = remove(channel) /\ ready' = (ready \/ Status' # {})
          /\ life' = IF Deletes THEN "deleted" ELSE life

\* onmessage up to the end of the stream, or to the error of a reset, which
\* this read() takes off the socket, and then the end.  What is in inputbuffer_
\* stays there.
ReadEnd ==
  /\ fin \/ reset # "none"
  /\ read' = arrived /\ reset' = IF reset = "none" THEN "none" ELSE "EPIPE"
  /\ UNCHANGED <<parsed, replies, written, q, handled>>
  /\ RemoveAndClose

\* Mutant of Complete: a message counts as soon as its header is there.
CompleteHeader == (arrived + 1) \div 2

\* How many messages the stream holds in full: getmessage compares the size of
\* the buffer with the length in the header.
Complete == arrived \div 2

\* A complete message " " not taken out yet: what getmessage returns if there
\* is no message, it returns for this one too.
Stops == {m \in blank : parsed < m /\ m <= Complete}

\* while(true): getmessage until there is no complete message, or up to the
\* first of these.
Parsed == IF Stops = {} THEN Complete
          ELSE CHOOSE m \in Stops : \A n \in Stops : m <= n

\* The messages that go to HandleMessage, in order; the one that stopped the
\* loop does not, and none does while the callback is not set.
Taken ==
  LET last == IF Stops = {} THEN Parsed ELSE Parsed - 1
  IN  IF messagecallback_ THEN [i \in 1 .. last - parsed |-> parsed + i] ELSE <<>>

\* What is read, until EAGAIN; a mutant with one read() for each event.
ReadOne == IF arrived > read THEN read + 1 ELSE read
ReadUp == arrived

\* enabwriting, which always calls epoll_ctl; a mutant that skips the call if
\* write events are enabled already.
EnableOnce == IF "OUT" \in channel.event_ THEN UNCHANGED <<channel, ready, life>>
              ELSE Update(enabwriting(channel))
Enable == Update(enabwriting(channel))

\* onmessage up to EAGAIN.  Without workers each message is answered at once:
\* its reply is appended and write events are enabled.
ReadMessages ==
  /\ ~fin /\ reset = "none" /\ UNCHANGED <<reset, disconnect_>>
  /\ read' = ReadUp /\ parsed' = Parsed
  /\ handled' = handled \cup {Taken[i] : i \in DOMAIN Taken}
  /\ \/ /\ size > 0 /\ q' = q \o Taken
        /\ UNCHANGED <<replies, written, channel, ready, life>>
     \/ /\ size = 0 /\ replies' = replies \o Taken /\ UNCHANGED <<q, written>>
        /\ IF Taken = <<>> THEN UNCHANGED <<channel, ready, life>>
           ELSE Enable

onmessage == ReadEnd \/ ReadMessages

\* send() writes what the send buffer takes.  An empty outputbuffer_ needs no
\* more write events.
Written == IF Unsent <= Room THEN written + Unsent ELSE written + Room

\* outputbuffer_.size()==0; a mutant that does not test it.
NeverSent == FALSE
AllSent == written' = 2 * Len(replies)

send_client ==
  /\ UNCHANGED <<read, parsed, replies, disconnect_, q, handled>>
  /\ \/ /\ reset = "none" /\ UNCHANGED reset /\ written' = Written
        /\ IF AllSent THEN Update(disabwriting(channel))
           ELSE UNCHANGED <<channel, ready, life>>
     \/ /\ reset = "ECONNRESET" /\ reset' = "EPIPE"      \* "send failed"
        /\ UNCHANGED written
        /\ IF Unsent = 0 THEN Update(disabwriting(channel))
           ELSE UNCHANGED <<channel, ready, life>>
     \/ /\ reset = "EPIPE" /\ life' = "sigpipe"
        /\ UNCHANGED <<written, channel, ready, reset>>

\* Neither input nor output: remove() and error_client().  While the item is
\* set to input a reset reports input too, so this is its second remove().
HandleError ==
  /\ UNCHANGED <<reset, buffers, q, handled>>
  /\ RemoveAndClose

\* Mutant of handleevent: output first.
OutputFirst ==
  \/ "OUT" \in revents /\ send_client
  \/ revents \cap {"IN", "OUT"} = {"IN"} /\ onmessage
  \/ revents = {"ERR"} /\ HandleError

\* Channel::handleevent: input first, output only without input.
handleevent ==
  \/ "IN" \in revents /\ onmessage
  \/ revents \cap {"IN", "OUT"} = {"OUT"} /\ send_client
  \/ revents = {"ERR"} /\ HandleError

HandleEvent ==
  /\ life = "open" /\ revents # {} /\ revents' = {}
  /\ UNCHANGED <<blank, arrived, fin, acked, callbacks, size, busy, task_queue>>
  /\ handleevent

\* A closure, run by handle_wakeup: send_inloop.
RunTask ==
  /\ life = "open" /\ task_queue # <<>>
  /\ task_queue' = Tail(task_queue)
  /\ replies' = Append(replies, Head(task_queue))
  /\ UNCHANGED <<blank, arrived, fin, reset, acked, revents, read, parsed,
                 written, disconnect_, callbacks, size, q, busy, handled>>
  /\ Enable

-----------------------------------------------------------------------------
(* The workers: Handledata, which calls sendmessage. *)

\* Mutant of Take: the queue is a stack.
TakeNewest ==
  /\ life = "open" /\ q # <<>> /\ Cardinality(busy) < size
  /\ busy' = busy \cup {q[Len(q)]} /\ q' = SubSeq(q, 1, Len(q) - 1)
  /\ UNCHANGED <<socket, channel, revents, buffers, disconnect_, callbacks,
                 life, size, task_queue, handled>>

Take ==
  /\ life = "open" /\ q # <<>> /\ Cardinality(busy) < size
  /\ busy' = busy \cup {Head(q)} /\ q' = Tail(q)
  /\ UNCHANGED <<socket, channel, revents, buffers, disconnect_, callbacks,
                 life, size, task_queue, handled>>

\* addtask unless disconnect_; a mutant with the test the wrong way round.
QueuedIfClosed(m) == IF disconnect_ THEN Append(task_queue, m) ELSE task_queue
Queued(m) == IF disconnect_ THEN task_queue ELSE Append(task_queue, m)

sendmessage(m) ==
  /\ life = "open" /\ m \in busy
  /\ busy' = busy \ {m}
  /\ task_queue' = Queued(m)
  /\ UNCHANGED <<socket, channel, revents, buffers, disconnect_, callbacks,
                 life, size, q, handled>>

-----------------------------------------------------------------------------
(* The main thread. *)

SetNext ==
  /\ life = "open" /\ callbacks' = callbacks + 1
  /\ UNCHANGED <<socket, channel, revents, buffers, disconnect_, life, threads,
                 handled>>

\* newconnection.
SetCallback == callbacks < 4 /\ SetNext

\* handle_timer finds that no message has come for a while.
Expired == callbacks = 4 /\ SetNext
ClearCallback == callbacks \in 5 .. 7 /\ SetNext

TimerDelete ==
  /\ life = "open" /\ callbacks = 8
  /\ life' = "deleted"
  /\ UNCHANGED <<socket, channel, revents, buffers, disconnect_, callbacks,
                 threads, handled>>

-----------------------------------------------------------------------------
LoopStep == Poll \/ HandleEvent
MainStep == SetCallback \/ ClearCallback \/ TimerDelete
WorkerStep == Take \/ \E m \in Message : sendmessage(m)
Next ==
  \/ Arrive \/ Fin \/ Reset \/ Ack
  \/ LoopStep \/ RunTask \/ WorkerStep
  \/ MainStep \/ Expired

Spec == Init /\ [][Next]_vars

\* Every thread that can take a step takes one in the end, and the client
\* receives what was sent to it and finishes each message it has begun.  It
\* need not send.  The alarm is fair too, but is left out here: it ends every
\* Connection, and would make EveryMessageAnswered hold by that alone.
PoliteSpec ==
  /\ Spec
  /\ WF_vars(LoopStep) /\ WF_vars(RunTask) /\ WF_vars(WorkerStep)
  /\ WF_vars(MainStep) /\ WF_vars(Ack)
  /\ WF_vars(Arrive /\ arrived % 2 = 1)

-----------------------------------------------------------------------------
TypeOK ==
  /\ blank \in Blanks /\ arrived \in 0 .. 2 * Last /\ fin \in BOOLEAN
  /\ reset \in {"none", "ECONNRESET", "EPIPE"} /\ ready \in BOOLEAN
  /\ acked \in Nat /\ written \in Nat /\ acked <= written
  /\ channel \in [event_: SUBSET Flag, inepoll_: BOOLEAN, ontree: BOOLEAN,
                  set: SUBSET Flag]
  /\ revents \in SUBSET Event
  /\ read \in 0 .. arrived /\ parsed \in 0 .. Last /\ 2 * parsed <= read
  /\ replies \in Seq(Message) /\ written <= 2 * Len(replies)
  /\ written - acked <= SndBuf
  /\ disconnect_ \in BOOLEAN /\ callbacks \in 0 .. 8
  /\ life \in {"open", "deleted", "exit", "sigpipe"}
  /\ size \in Sizes /\ q \in Seq(Message) /\ busy \subseteq Message
  /\ task_queue \in Seq(Message) /\ handled \subseteq Message

Connected == life = "open" /\ ~disconnect_

\* Unread input is never forgotten, although an edge is reported once: while
\* there is some, epoll will report the socket, or onmessage is about to run.
InputIsReported ==
  Connected /\ (arrived > read \/ fin) => ready \/ "IN" \in revents

\* Write events are enabled exactly while outputbuffer_ holds something.
WritesWhileUnsent == Connected => ("OUT" \in channel.set <=> Unsent > 0)

\* Each message handed to HandleMessage is in one place until it is answered:
\* none is lost between the threads, and none is answered twice.
AnsweredOnce ==
  Connected =>
    /\ handled = Range(q) \cup busy \cup Range(task_queue) \cup Range(replies)
    /\ Cardinality(handled) =
         Len(q) + Cardinality(busy) + Len(task_queue) + Len(replies)

\* With at most one worker, replies go out in the order of the messages.
RepliesInOrder ==
  size <= 1 => \A i, j \in DOMAIN replies : i < j => replies[i] < replies[j]

\* A channel operation ends the process only on a Connection that has closed
\* with its close callback not set and was not deleted: the client has reset it
\* before newconnection set the callback, or the timer has taken it away.
ExitsOnlyWhenClosed ==
  [][life = "open" /\ life' = "exit" =>
       disconnect_ /\ (callbacks > 4 \/ reset # "none")]_vars

\* A reset makes send() kill the process only if both the end of the stream
\* and the reset came after epoll_wait had reported the socket writable.
SigpipeOnlyInWindow ==
  [][life' = "sigpipe" /\ life = "open" => fin /\ revents = {"OUT"}]_vars

Answered(m) == \E i \in DOMAIN replies : replies[i] = m /\ acked >= 2 * i

\* Every message a polite client completes is answered, to the last byte,
\* unless the connection ends or the message was read before its callback was
\* set.  (Replies may be stuck behind a message " ".)
EveryMessageAnswered ==
  \A m \in Message :
    blank = {} /\ callbacks >= 3 /\ arrived >= 2 * m /\ parsed < m
      ~> Answered(m) \/ ~Connected

\* The idle timer does not delete a Connection that owes its client a reply
\* which the socket has room for and nobody is about to send.
NoReplyLeftBehind ==
  [][TimerDelete /\ Unsent > 0 /\ Room > 0 /\ ~fin /\ reset = "none"
       => ready \/ revents # {}]_vars
=============================================================================
