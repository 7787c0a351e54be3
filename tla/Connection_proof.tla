--------------------------- MODULE Connection_proof ---------------------------
(***************************************************************************)
(* Connection for every number of messages, of workers, and every size of  *)
(* the send buffer: its types, no overlooked input, write events exactly   *)
(* while output waits, no message lost, doubled or overtaken on its way    *)
(* through the threads, and what can and cannot end the process.           *)
(***************************************************************************)
EXTENDS Connection, SequenceLemmas

\* No message is between HandleMessage and its reply.
Idle == q = <<>> /\ busy = {} /\ task_queue = <<>>

\* Until remove() the channel watches input and its item on the tree is as the
\* channel says; after it nothing is watched, and the next update would fail.
ChannelOK ==
  /\ ~disconnect_ => /\ channel.ontree /\ channel.inepoll_
                     /\ "IN" \in channel.set /\ channel.event_ = channel.set
  /\ disconnect_ => /\ channel.ontree /\ ~channel.inepoll_
                    /\ channel.set = {}

\* No message goes to the threads before its callback is set.  A Connection that
\* has closed and is still there is only reported for a reset, and if the timer
\* has not touched it, it closed before its callbacks were set.
ClosedOK ==
  /\ callbacks < 3 => Idle
  /\ disconnect_ /\ life = "open" => /\ revents \subseteq {"ERR"}
                                    /\ (callbacks <= 4 => Idle)

\* What may have been reported, and still be waiting for its handler.
ReportOK ==
  /\ "OUT" \in revents /\ "ERR" \in revents => "IN" \in revents
  /\ "ERR" \in revents => reset # "none"
  /\ reset = "EPIPE" /\ "OUT" \in revents /\ "IN" \notin revents => fin

\* A message is handled once it is parsed.  It is in one place: none of the
\* queue's is there twice, or with a worker.
PlaceOK ==
  /\ handled \subseteq 1 .. parsed
  /\ Connected => IsInjective(q) /\ Range(q) \cap busy = {}

\* With at most one worker, messages do not overtake each other on the way
\* from q through busy and task_queue to replies.
OrderOK ==
  /\ Cardinality(busy) <= size
  /\ size = 0 => q = <<>> /\ busy = {} /\ task_queue = <<>>
  /\ Range(q) \cup busy \cup Range(task_queue) \cup Range(replies) \subseteq 1 .. parsed
  /\ size <= 1 =>
       /\ Increasing(replies) /\ Increasing(task_queue) /\ Increasing(q)
       /\ Before(Range(replies), Range(task_queue) \cup busy \cup Range(q))
       /\ Before(Range(task_queue), busy \cup Range(q))
       /\ Before(busy, Range(q))

IInv ==
  /\ TypeOK /\ ChannelOK /\ ReportOK /\ PlaceOK /\ OrderOK
  /\ ClosedOK /\ InputIsReported /\ WritesWhileUnsent /\ AnsweredOnce

-----------------------------------------------------------------------------
(* The operators of Connection. *)

\* getmessage takes out no more than has come in, and nothing twice.
LEMMA ParsedOK ==
  ASSUME TypeOK
  PROVE  /\ Complete \in parsed .. Last /\ 2 * Complete <= arrived
         /\ Parsed \in parsed .. Complete
         /\ Stops # {} => parsed < Parsed
<1>1. /\ arrived \in Nat /\ parsed \in Nat /\ Last \in Nat
      /\ 2 * parsed <= arrived /\ arrived <= 2 * Last
  BY ConnectionAssumption DEF TypeOK
<1>2. Complete \in Nat /\ 2 * Complete <= arrived /\ arrived < 2 * Complete + 2
  BY <1>1 DEF Complete
<1>3. Complete \in parsed .. Last
  BY <1>1, <1>2
<1>4. Stops \subseteq Nat
  <2>1. blank \subseteq 1 .. Last
    <3>1. blank \in SUBSET (1 .. Last)
      BY ConnectionAssumption DEF TypeOK
    <3>2. QED  BY <3>1
  <2>2. Stops \subseteq blank
    BY DEF Stops
  <2>3. QED  BY <1>1, <2>1, <2>2
<1>5. CASE Stops = {}
  BY <1>1, <1>2, <1>3, <1>5 DEF Parsed
<1>6. CASE Stops # {}
  <2>1. \E m \in Stops : \A n \in Stops : m <= n
    BY <1>4, <1>6, Least
  <2>2. Parsed \in Stops
    BY <1>6, <2>1 DEF Parsed
  <2>3. Parsed \in Nat /\ parsed < Parsed /\ Parsed <= Complete
    BY <1>4, <2>2 DEF Stops
  <2>4. QED  BY <1>1, <1>2, <1>3, <2>3
<1>7. QED  BY <1>5, <1>6

\* What onmessage hands on are the messages that follow, in their order.
LEMMA TakenOK ==
  ASSUME TypeOK
  PROVE  /\ Taken \in Seq(Message) /\ IsInjective(Taken) /\ Increasing(Taken)
         /\ Range(Taken) \subseteq parsed + 1 .. Parsed
         /\ IsFiniteSet(Range(Taken)) /\ Cardinality(Range(Taken)) = Len(Taken)
<1> DEFINE last == IF Stops = {} THEN Parsed ELSE Parsed - 1
           n == IF messagecallback_ THEN last - parsed ELSE 0
<1>1. /\ parsed \in Nat /\ Parsed \in Nat /\ n \in Nat /\ parsed + n <= Parsed
      /\ Parsed <= Last /\ Last \in Nat
  <2>1. parsed \in Nat /\ Last \in Nat
    BY ConnectionAssumption DEF TypeOK
  <2>2. /\ Parsed \in Nat /\ Parsed <= Last /\ parsed <= Parsed
        /\ Stops # {} => parsed < Parsed
    BY <2>1, ParsedOK
  <2>3. n \in {0, Parsed - parsed} \/ (n = Parsed - 1 - parsed /\ parsed < Parsed)
    BY <2>2
  <2>4. n \in Nat /\ parsed + n <= Parsed
    <3> HIDE DEF n
    <3> QED  BY <2>1, <2>2, <2>3
  <2>5. QED  BY <2>1, <2>2, <2>4
<1>2. Taken = [i \in 1 .. n |-> parsed + i]
  <2>1. CASE messagecallback_  BY <2>1 DEF Taken
  <2>2. CASE ~messagecallback_
    <3>1. 1 .. n = {}  BY <2>2
    <3>2. Taken = <<>>  BY <2>2 DEF Taken
    <3>3. QED  BY <3>1, <3>2
  <2>3. QED  BY <2>1, <2>2
<1> HIDE DEF n
<1>3. Taken \in Seq(Message) /\ Len(Taken) = n /\ DOMAIN Taken = 1 .. n
  BY <1>1, <1>2 DEF Message
<1>4. IsInjective(Taken) /\ Increasing(Taken)
  BY <1>1, <1>2 DEF IsInjective, Increasing
<1>5. Range(Taken) = parsed + 1 .. parsed + n
  <2>1. \A m \in parsed + 1 .. parsed + n :
          m - parsed \in 1 .. n /\ m = parsed + (m - parsed)
    BY <1>1
  <2>2. \A m \in parsed + 1 .. parsed + n : m \in Range(Taken)
    BY <1>2, <2>1 DEF Range
  <2>3. Range(Taken) \subseteq parsed + 1 .. parsed + n
    BY <1>1, <1>2 DEF Range
  <2>4. QED  BY <2>2, <2>3
<1>6. IsFiniteSet(Range(Taken)) /\ Cardinality(Range(Taken)) = n
  BY <1>1, <1>5, FS_Interval
<1>7. QED  BY <1>1, <1>3, <1>4, <1>5, <1>6

\* Nothing is handed on before the message callback is set.
LEMMA NoneTaken == ASSUME TypeOK, callbacks < 3 PROVE Taken = <<>>
BY DEF TypeOK, Taken, messagecallback_, IsSet

\* An update of the channel of a Connection that was removed ends the process;
\* any other leaves the item on the tree, set to the channel's events, and may
\* put it on the ready list.
LEMMA UpdateOK ==
  ASSUME TypeOK, ChannelOK, NEW ch \in {enabwriting(channel), disabwriting(channel)},
         Update(ch)
  PROVE  \/ disconnect_ /\ life' = "exit" /\ UNCHANGED <<channel, ready>>
         \/ /\ ~disconnect_ /\ UNCHANGED life
            /\ channel' = [channel EXCEPT !.event_ = ch.event_, !.set = ch.event_]
            /\ ready' \in BOOLEAN /\ (ready => ready')
<1> USE DEF enabwriting, disabwriting
<1>1. ch.inepoll_ = channel.inepoll_ /\ ch.ontree = channel.ontree
  BY DEF TypeOK
<1>2. CASE disconnect_
  <2>1. UpdateFails(channel) /\ UpdateFails(ch)
    BY <1>1, <1>2 DEF ChannelOK, UpdateFails
  <2>2. QED  BY <1>2, <2>1 DEF Update
<1>3. CASE ~disconnect_
  <2>1. ~UpdateFails(ch)
    BY <1>1, <1>3 DEF ChannelOK, UpdateFails
  <2>2. UNCHANGED life /\ channel' = updatechannel(ch) /\ ready' = (ready \/ Status' # {})
    BY <2>1 DEF Update
  <2>3. updatechannel(ch) = [channel EXCEPT !.event_ = ch.event_, !.set = ch.event_]
    BY <1>1, <1>3 DEF updatechannel, ChannelOK, TypeOK
  <2>4. ready \in BOOLEAN
    BY DEF TypeOK
  <2>5. ready' \in BOOLEAN /\ (ready => ready')
    BY <2>2, <2>4
  <2>6. QED  BY <1>3, <2>2, <2>3, <2>5
<1>4. QED  BY <1>2, <1>3 DEF TypeOK

LEMMA EnableOK ==
  ASSUME TypeOK, ChannelOK, Enable
  PROVE  \/ disconnect_ /\ life' = "exit" /\ UNCHANGED <<channel, ready>>
         \/ /\ ~disconnect_ /\ UNCHANGED life
            /\ channel' = [channel EXCEPT !.event_ = channel.event_ \cup {"OUT"},
                                          !.set = channel.event_ \cup {"OUT"}]
            /\ ready' \in BOOLEAN /\ (ready => ready')
<1>1. enabwriting(channel).event_ = channel.event_ \cup {"OUT"}
  BY DEF enabwriting, TypeOK
<1>2. QED  BY <1>1, UpdateOK DEF Enable

LEMMA DisableOK ==
  ASSUME TypeOK, ChannelOK, Update(disabwriting(channel))
  PROVE  \/ disconnect_ /\ life' = "exit" /\ UNCHANGED <<channel, ready>>
         \/ /\ ~disconnect_ /\ UNCHANGED life
            /\ channel' = [channel EXCEPT !.event_ = channel.event_ \ {"OUT"},
                                          !.set = channel.event_ \ {"OUT"}]
            /\ ready' \in BOOLEAN /\ (ready => ready')
<1>1. disabwriting(channel).event_ = channel.event_ \ {"OUT"}
  BY DEF disabwriting, TypeOK
<1>2. QED  BY <1>1, UpdateOK

LEMMA InitOK == Init => IInv
<1> SUFFICES ASSUME Init PROVE IInv
  OBVIOUS
<1> USE ConnectionAssumption DEF Init
<1>1. TypeOK
  <2>1. /\ 0 \in 0 .. 2 * Last /\ 0 \in 0 .. Last /\ 0 \in 0 .. 0 /\ 0 - 0 <= SndBuf
        /\ <<>> \in Seq(Message) /\ Len(<<>>) = 0
    OBVIOUS
  <2>2. channel \in [event_: SUBSET Flag, inepoll_: BOOLEAN, ontree: BOOLEAN,
                     set: SUBSET Flag]
    BY DEF Event, Flag
  <2>3. /\ arrived \in 0 .. 2 * Last /\ read \in 0 .. arrived /\ parsed \in 0 .. Last
        /\ 2 * parsed <= read /\ acked \in Nat /\ written \in Nat /\ acked <= written
        /\ written <= 2 * Len(replies) /\ written - acked <= SndBuf
    BY <2>1
  <2>4. /\ replies \in Seq(Message) /\ q \in Seq(Message) /\ task_queue \in Seq(Message)
        /\ busy \subseteq Message /\ handled \subseteq Message
        /\ revents \in SUBSET Event
    BY <2>1
  <2>5. callbacks \in 0 .. 8
    OBVIOUS
  <2>6. /\ blank \in Blanks /\ fin \in BOOLEAN /\ ready \in BOOLEAN
        /\ reset \in {"none", "ECONNRESET", "EPIPE"} /\ disconnect_ \in BOOLEAN
        /\ life \in {"open", "deleted", "exit", "sigpipe"} /\ size \in Sizes
    OBVIOUS
  <2> HIDE DEF Init
  <2>7. QED  BY <2>2, <2>3, <2>4, <2>5, <2>6 DEF TypeOK
<1>2. ChannelOK /\ ReportOK /\ ClosedOK
  BY DEF ChannelOK, ReportOK, ClosedOK, Idle
<1>3. Range(q) = {} /\ Range(task_queue) = {} /\ Range(replies) = {} /\ Cardinality({}) = 0
  BY FS_EmptySet DEF Range
<1>4. PlaceOK /\ AnsweredOnce
  BY <1>3 DEF PlaceOK, AnsweredOnce, IsInjective
<1>5. OrderOK
  BY <1>3 DEF OrderOK, Increasing, Before
<1>6. InputIsReported /\ WritesWhileUnsent
  BY DEF InputIsReported, WritesWhileUnsent, Unsent
<1>7. QED  BY <1>1, <1>2, <1>4, <1>5, <1>6 DEF IInv

-----------------------------------------------------------------------------
(* The client, the network and the kernel. *)

\* What concerns the messages alone is kept by steps that move none.
LEMMA NoneMoves ==
  ASSUME IInv, UNCHANGED <<parsed, size, q, busy, task_queue, replies, handled>>,
         Connected' => Connected
  PROVE  PlaceOK' /\ OrderOK' /\ AnsweredOnce'
BY DEF IInv, PlaceOK, OrderOK, AnsweredOnce

LEMMA ClientStepOK == ASSUME IInv, Arrive \/ Fin \/ Reset \/ Ack PROVE IInv'
<1> USE DEF IInv
<1>1. PlaceOK' /\ OrderOK' /\ AnsweredOnce'
  BY NoneMoves DEF Arrive, Fin, Reset, Ack, buffers, threads, Connected
<1>2. ChannelOK' /\ ClosedOK'
  BY DEF Arrive, Fin, Reset, Ack, ChannelOK, ClosedOK, Idle, buffers, threads
<1>3. CASE Arrive
  <2> USE <1>3 DEF Arrive, buffers, threads
  <2>1. TypeOK'
    <3>1. ready' \in BOOLEAN
      BY DEF TypeOK, Signal
    <3>2. arrived' \in 0 .. 2 * Last /\ read' \in 0 .. arrived'
      BY ConnectionAssumption DEF TypeOK
    <3>3. QED  BY <3>1, <3>2 DEF TypeOK
  <2>2. ReportOK' /\ WritesWhileUnsent'
    BY DEF ReportOK, WritesWhileUnsent, Connected, Unsent
  <2>3. InputIsReported'
    BY DEF InputIsReported, Connected, Signal, ChannelOK
  <2>4. QED  BY <1>1, <1>2, <2>1, <2>2, <2>3
<1>4. CASE Fin
  <2> USE <1>4 DEF Fin, buffers, threads
  <2>1. TypeOK'
    BY DEF TypeOK, Signal
  <2>2. ReportOK' /\ WritesWhileUnsent'
    BY DEF ReportOK, WritesWhileUnsent, Connected, Unsent
  <2>3. InputIsReported'
    BY DEF InputIsReported, Connected, Signal, ChannelOK
  <2>4. QED  BY <1>1, <1>2, <2>1, <2>2, <2>3
<1>5. CASE Reset
  <2> USE <1>5 DEF Reset, buffers, threads
  <2>1. TypeOK'
    BY DEF TypeOK, Signal
  <2>2. ReportOK' /\ WritesWhileUnsent'
    BY DEF ReportOK, WritesWhileUnsent, Connected, Unsent
  <2>3. InputIsReported'
    BY DEF InputIsReported, Connected, Signal
  <2>4. QED  BY <1>1, <1>2, <2>1, <2>2, <2>3
<1>6. CASE Ack
  <2> USE <1>6 DEF Ack, buffers, threads
  <2>1. ready' \in BOOLEAN /\ (ready => ready')
    BY DEF TypeOK, Signal
  <2>2. TypeOK'
    <3>1. acked' \in Nat /\ acked' <= written' /\ written' - acked' <= SndBuf
      BY ConnectionAssumption DEF TypeOK
    <3>2. QED  BY <2>1, <3>1 DEF TypeOK
  <2>3. ReportOK' /\ WritesWhileUnsent'
    BY DEF ReportOK, WritesWhileUnsent, Connected, Unsent
  <2>4. InputIsReported'
    BY <2>1 DEF InputIsReported, Connected
  <2>5. QED  BY <1>1, <1>2, <2>2, <2>3, <2>4
<1>7. QED  BY <1>3, <1>4, <1>5, <1>6

LEMMA PollOK == ASSUME IInv, Poll PROVE IInv'
<1> USE DEF IInv, Poll, buffers, threads
<1>1. PlaceOK' /\ OrderOK' /\ AnsweredOnce'
  BY NoneMoves DEF Connected
<1>2. ChannelOK' /\ WritesWhileUnsent'
  BY DEF ChannelOK, WritesWhileUnsent, Connected, Unsent
<1>3. TypeOK'
  BY DEF TypeOK, Status
<1>4. ReportOK'
  <2>1. "OUT" \in Status => "IN" \in channel.set
    BY DEF Status, ChannelOK, TypeOK
  <2>2. reset # "none" /\ "OUT" \in Status => "IN" \in Status
    BY <2>1 DEF Status, Event
  <2>3. "ERR" \in Status => reset # "none"
    BY DEF Status
  <2>4. QED  BY <2>2, <2>3 DEF ReportOK
<1>5. ClosedOK'
  <2>1. disconnect_ => Status \subseteq {"ERR"}
    BY DEF Status, ChannelOK
  <2>2. QED  BY <2>1 DEF ClosedOK, Idle
<1>6. InputIsReported'
  <2>1. Connected /\ (arrived > read \/ fin) => "IN" \in Status
    BY DEF Status, Event, ChannelOK, Connected
  <2>2. QED  BY <2>1 DEF InputIsReported, Connected
<1>7. QED  BY <1>1, <1>2, <1>3, <1>4, <1>5, <1>6

-----------------------------------------------------------------------------
(* handleevent. *)

\* After remove() nothing is left to say about input and output.
LEMMA CloseOK ==
  ASSUME IInv, life = "open", RemoveAndClose, revents' = {},
         UNCHANGED <<callbacks, q, busy, task_queue>>
  PROVE  /\ channel' \in [event_: SUBSET Flag, inepoll_: BOOLEAN, ontree: BOOLEAN,
                          set: SUBSET Flag]
         /\ life' \in {"open", "deleted", "exit"} /\ disconnect_' = TRUE
         /\ ready' \in BOOLEAN
         /\ ChannelOK' /\ ClosedOK' /\ ~Connected'
         /\ InputIsReported' /\ WritesWhileUnsent'
<1> USE DEF IInv, RemoveAndClose
<1>1. disconnect_' = TRUE /\ ~Connected'
  BY DEF Connected
<1>2. InputIsReported' /\ WritesWhileUnsent'
  BY <1>1 DEF InputIsReported, WritesWhileUnsent
<1>3. CASE UpdateFails(channel)
  <2>1. disconnect_
    BY <1>3 DEF UpdateFails, ChannelOK, TypeOK
  <2>2. life' = "exit" /\ UNCHANGED <<channel, ready>>
    BY <1>3
  <2>3. QED
    BY <1>1, <1>2, <2>1, <2>2 DEF ChannelOK, ClosedOK, Idle, TypeOK
<1>4. CASE ~UpdateFails(channel)
  <2>1. /\ channel' = remove(channel) /\ ready' = (ready \/ Status' # {})
        /\ life' = IF closecallback_ THEN "deleted" ELSE "open"
    BY <1>4 DEF Deletes
  <2>2. /\ channel' \in [event_: SUBSET Flag, inepoll_: BOOLEAN, ontree: BOOLEAN,
                         set: SUBSET Flag]
        /\ channel'.ontree /\ ~channel'.inepoll_ /\ channel'.set = {}
    BY <2>1 DEF remove, removechannel, updatechannel, disableall, TypeOK
  <2>3. life' = "open" /\ callbacks <= 4 => callbacks = 0
    BY <2>1 DEF closecallback_, IsSet, TypeOK
  <2>4. ClosedOK'
    BY <2>3 DEF ClosedOK, Idle
  <2>5. QED
    BY <1>1, <1>2, <2>1, <2>2, <2>4 DEF ChannelOK, TypeOK
<1>5. QED  BY <1>3, <1>4

LEMMA ReadEndOK ==
  ASSUME IInv, HandleEvent, ReadEnd \/ HandleError
  PROVE  IInv'
<1> USE DEF IInv, HandleEvent
<1>1. /\ RemoveAndClose
      /\ UNCHANGED <<parsed, replies, written, q, handled>>
      /\ read' \in {read, arrived} /\ reset' \in {"none", reset, "EPIPE"}
  BY DEF ReadEnd, HandleError, buffers
<1> HIDE DEF HandleEvent
<1>2. /\ life = "open" /\ revents' = {}
      /\ UNCHANGED <<blank, arrived, fin, acked, callbacks, size, busy, task_queue>>
  BY DEF HandleEvent
<1>3. /\ channel' \in [event_: SUBSET Flag, inepoll_: BOOLEAN, ontree: BOOLEAN,
                       set: SUBSET Flag]
      /\ life' \in {"open", "deleted", "exit"} /\ disconnect_' = TRUE
      /\ ready' \in BOOLEAN
      /\ ChannelOK' /\ ClosedOK' /\ ~Connected'
      /\ InputIsReported' /\ WritesWhileUnsent'
  BY <1>1, <1>2, CloseOK
<1>4. TypeOK'
  <2>1. read' \in 0 .. arrived' /\ 2 * parsed' <= read'
    BY <1>1, <1>2 DEF TypeOK
  <2>2. QED  BY <1>1, <1>2, <1>3, <2>1 DEF TypeOK
<1>5. ReportOK'
  BY <1>2 DEF ReportOK
<1>6. PlaceOK' /\ OrderOK' /\ AnsweredOnce'
  BY <1>1, <1>2, <1>3, NoneMoves
<1>7. QED  BY <1>3, <1>4, <1>5, <1>6

\* onmessage with messages to take out: those of Taken are new, and behind all
\* that are on their way.
LEMMA ReadMessagesOK ==
  ASSUME IInv, HandleEvent, ReadMessages, "IN" \in revents
  PROVE  IInv'
<1> USE DEF IInv
<1> DEFINE new == Range(Taken)
<1>1. /\ life = "open" /\ revents' = {}
      /\ UNCHANGED <<blank, arrived, fin, acked, callbacks, size, busy, task_queue,
                     disconnect_, reset>>
      /\ ~fin /\ read' = arrived /\ parsed' = Parsed /\ handled' = handled \cup new
  BY DEF HandleEvent, ReadMessages, ReadUp, Range
<1>2. \/ size > 0 /\ q' = q \o Taken /\ UNCHANGED <<replies, written, channel, ready, life>>
      \/ /\ size = 0 /\ replies' = replies \o Taken /\ UNCHANGED <<q, written>>
         /\ IF Taken = <<>> THEN UNCHANGED <<channel, ready, life>> ELSE Enable
  BY DEF ReadMessages
<1>3. /\ Taken \in Seq(Message) /\ IsInjective(Taken) /\ Increasing(Taken)
      /\ new \subseteq parsed + 1 .. Parsed
      /\ IsFiniteSet(new) /\ Cardinality(new) = Len(Taken)
      /\ Parsed \in parsed .. Last /\ 2 * Parsed <= arrived
      /\ callbacks < 3 => Taken = <<>>
  <2>1. Parsed \in parsed .. Last /\ 2 * Parsed <= arrived
    <3>1. /\ parsed \in Nat /\ Last \in Nat /\ arrived \in Nat
          /\ Complete \in parsed .. Last /\ 2 * Complete <= arrived
          /\ Parsed \in parsed .. Complete
      BY ParsedOK, ConnectionAssumption DEF TypeOK
    <3>2. QED  BY <3>1
  <2>2. callbacks < 3 => Taken = <<>>
    BY NoneTaken
  <2>3. /\ Taken \in Seq(Message) /\ IsInjective(Taken) /\ Increasing(Taken)
        /\ new \subseteq parsed + 1 .. Parsed
        /\ IsFiniteSet(new) /\ Cardinality(new) = Len(Taken)
    BY TakenOK
  <2>4. QED  BY <2>1, <2>2, <2>3
<1>4. /\ parsed \in Nat /\ Parsed \in Nat /\ Last \in Nat /\ arrived \in Nat
      /\ written \in Nat
      /\ q \in Seq(Message) /\ replies \in Seq(Message) /\ task_queue \in Seq(Message)
      /\ new \subseteq Message /\ 1 .. parsed \subseteq 1 .. Parsed
  BY <1>3, ConnectionAssumption DEF TypeOK, Message
<1> HIDE DEF new
<1>5. /\ q' \in Seq(Message) /\ replies' \in Seq(Message)
      /\ Range(q') \cup Range(replies') = Range(q) \cup Range(replies) \cup new
      /\ Len(q') + Len(replies') = Len(q) + Len(replies) + Len(Taken)
      /\ Len(replies) <= Len(replies')
  <2>1. /\ Len(Taken) \in Nat /\ Len(q) \in Nat /\ Len(replies) \in Nat
    BY <1>3, <1>4
  <2>2. CASE size > 0
    <3>1. /\ q' = q \o Taken /\ UNCHANGED replies
          /\ q \o Taken \in Seq(Message) /\ Len(q \o Taken) = Len(q) + Len(Taken)
          /\ Range(q \o Taken) = Range(q) \cup new
      BY <1>2, <1>3, <1>4, <2>2, ConcatElements DEF TypeOK, new
    <3>2. QED  BY <1>4, <2>1, <3>1
  <2>3. CASE size = 0
    <3>1. /\ replies' = replies \o Taken /\ UNCHANGED q
          /\ replies \o Taken \in Seq(Message)
          /\ Len(replies \o Taken) = Len(replies) + Len(Taken)
          /\ Range(replies \o Taken) = Range(replies) \cup new
      BY <1>2, <1>3, <1>4, <2>3, ConcatElements DEF new
    <3>2. QED  BY <1>4, <2>1, <3>1
  <2>4. QED  BY <1>2, <2>2, <2>3
\* The channel: unchanged, or told to watch for output.
<1>6. \/ UNCHANGED <<channel, ready, life>> /\ (size = 0 => Taken = <<>>)
      \/ disconnect_ /\ life' = "exit" /\ UNCHANGED <<channel, ready>>
      \/ /\ ~disconnect_ /\ UNCHANGED life /\ ready' \in BOOLEAN /\ (ready => ready')
         /\ size = 0 /\ Taken # <<>>
         /\ channel' = [channel EXCEPT !.event_ = channel.event_ \cup {"OUT"},
                                       !.set = channel.event_ \cup {"OUT"}]
  <2>1. CASE size = 0 /\ Taken # <<>>
    <3>1. Enable
      BY <1>2, <2>1
    <3>2. QED  BY <2>1, <3>1, EnableOK
  <2>2. CASE ~(size = 0 /\ Taken # <<>>)
    BY <1>2, <2>2
  <2>3. QED  BY <2>1, <2>2
<1>7. TypeOK'
  <2>1. /\ channel' \in [event_: SUBSET Flag, inepoll_: BOOLEAN, ontree: BOOLEAN,
                         set: SUBSET Flag]
        /\ life' \in {"open", "deleted", "exit", "sigpipe"} /\ ready' \in BOOLEAN
    BY <1>6 DEF TypeOK, Event, Flag
  <2>2. /\ read' \in 0 .. arrived' /\ parsed' \in 0 .. Last /\ 2 * parsed' <= read'
    BY <1>1, <1>3, <1>4
  <2>3. written' \in Nat /\ acked' <= written' /\ written' <= 2 * Len(replies')
        /\ written' - acked' <= SndBuf
    BY <1>1, <1>2, <1>4, <1>5 DEF TypeOK
  <2>4. handled' \subseteq Message /\ revents' \in SUBSET Event
    BY <1>1, <1>4 DEF TypeOK
  <2>5. QED  BY <1>1, <1>2, <1>5, <2>1, <2>2, <2>3, <2>4 DEF TypeOK
<1>8. ChannelOK' /\ ClosedOK'
  <2>1. ChannelOK'
    BY <1>1, <1>6 DEF ChannelOK, TypeOK
  <2>2. callbacks < 3 => q' = q
    BY <1>2, <1>3, <1>4, ConcatEmptySeq
  <2>3. callbacks < 3 => Idle'
    BY <1>1, <2>2 DEF ClosedOK, Idle
  <2>4. ~disconnect_
    BY <1>1 DEF ClosedOK
  <2>5. QED  BY <1>1, <2>1, <2>3, <2>4 DEF ClosedOK
<1>9. ReportOK' /\ InputIsReported'
  BY <1>1, <1>4 DEF ReportOK, InputIsReported
<1>10. Connected' => Connected
  BY <1>1 DEF Connected
<1>11. WritesWhileUnsent'
  <2> SUFFICES ASSUME Connected' PROVE ("OUT" \in channel'.set <=> Unsent' > 0)
    BY DEF WritesWhileUnsent
  <2>1. Connected /\ ("OUT" \in channel.set <=> Unsent > 0) /\ life' = "open"
    BY <1>10 DEF WritesWhileUnsent, Connected
  <2>2. CASE UNCHANGED <<channel, ready, life>> /\ (size = 0 => Taken = <<>>)
    <3>1. UNCHANGED replies
      BY <1>2, <1>4, <2>2, ConcatEmptySeq
    <3>2. QED  BY <1>2, <2>1, <2>2, <3>1 DEF Unsent
  <2>3. CASE ~disconnect_ /\ size = 0 /\ Taken # <<>> /\ "OUT" \in channel'.set
    <3>1. replies' = replies \o Taken /\ UNCHANGED written
      BY <1>2, <2>3
    <3>2. /\ Len(replies) \in Nat /\ Len(Taken) \in Nat \ {0}
          /\ Len(replies') = Len(replies) + Len(Taken)
      BY <1>3, <1>4, <2>3, <3>1
    <3>3. written <= 2 * Len(replies)
      BY DEF TypeOK
    <3>4. 2 * Len(replies') - written' > 0
      BY <1>4, <3>1, <3>2, <3>3
    <3>5. QED  BY <2>3, <3>4 DEF Unsent
  <2>4. QED  BY <1>6, <2>1, <2>2, <2>3 DEF TypeOK
<1>12. PlaceOK'
  <2>1. handled' \subseteq 1 .. parsed'
    BY <1>1, <1>3, <1>4 DEF PlaceOK
  <2>2. ASSUME Connected' PROVE IsInjective(q') /\ Range(q') \cap busy' = {}
    <3>1. /\ IsInjective(q) /\ Range(q) \cap busy = {}
          /\ Range(q) \subseteq 1 .. parsed /\ busy \subseteq 1 .. parsed
      BY <1>10, <2>2 DEF PlaceOK, OrderOK
    <3>2. CASE q' = q \o Taken
      <4>1. Range(q) \cap new = {} /\ new \cap busy = {}
        BY <1>3, <1>4, <3>1
      <4>2. IsInjective(q \o Taken) /\ Range(q \o Taken) = Range(q) \cup new
        BY <1>3, <1>4, <3>1, <4>1, ConcatElements DEF new
      <4>3. QED  BY <1>1, <3>1, <3>2, <4>1, <4>2
    <3>3. CASE UNCHANGED q
      BY <1>1, <3>1, <3>3
    <3>4. QED  BY <1>2, <3>2, <3>3
  <2>3. QED  BY <2>1, <2>2 DEF PlaceOK
<1>13. AnsweredOnce'
  <2> SUFFICES ASSUME Connected'
               PROVE /\ handled' = Range(q') \cup busy' \cup Range(task_queue') \cup Range(replies')
                     /\ Cardinality(handled') =
                          Len(q') + Cardinality(busy') + Len(task_queue') + Len(replies')
    BY DEF AnsweredOnce
  <2>1. /\ handled = Range(q) \cup busy \cup Range(task_queue) \cup Range(replies)
        /\ Cardinality(handled) = Len(q) + Cardinality(busy) + Len(task_queue) + Len(replies)
    BY <1>10 DEF AnsweredOnce
  <2>2. handled' = Range(q') \cup busy' \cup Range(task_queue') \cup Range(replies')
    BY <1>1, <1>5, <2>1
  <2>3. IsFiniteSet(handled) /\ handled \cap new = {}
    <3>1. handled \subseteq 1 .. parsed /\ IsFiniteSet(1 .. parsed)
      BY <1>4, FS_Interval DEF PlaceOK
    <3>2. IsFiniteSet(handled)
      BY <3>1, FS_Subset
    <3>3. QED  BY <1>3, <1>4, <3>1, <3>2
  <2>4. Cardinality(handled') = Cardinality(handled) + Len(Taken)
    <3>1. Cardinality(handled \cup new)
            = Cardinality(handled) + Cardinality(new) - Cardinality(handled \cap new)
      BY <1>3, <2>3, FS_Union
    <3>2. Cardinality(handled \cap new) = 0
      BY <2>3, FS_EmptySet
    <3>3. Cardinality(handled) \in Nat /\ Len(Taken) \in Nat
      BY <1>3, <2>3, FS_CardinalityType
    <3>4. QED  BY <1>1, <1>3, <3>1, <3>2, <3>3
  <2>5. busy \subseteq handled /\ IsFiniteSet(busy) /\ Cardinality(busy) \in Nat
    BY <2>1, <2>3, FS_Subset, FS_CardinalityType
  <2>6. /\ Len(q) \in Nat /\ Len(q') \in Nat /\ Len(replies) \in Nat
        /\ Len(replies') \in Nat /\ Len(task_queue) \in Nat /\ Len(Taken) \in Nat
    BY <1>3, <1>4, <1>5
  <2>7. UNCHANGED <<busy, task_queue>>
    BY <1>1
  <2>8. Len(q') + Len(replies') = Len(q) + Len(replies) + Len(Taken)
    BY <1>5
  <2>9. Cardinality(handled') = Len(q') + Cardinality(busy') + Len(task_queue') + Len(replies')
    <3> HIDE DEF IInv
    <3>1. /\ Cardinality(busy') = Cardinality(busy) /\ Len(task_queue') = Len(task_queue)
          /\ Cardinality(handled) = Len(q) + Cardinality(busy) + Len(task_queue) + Len(replies)
      BY <2>1, <2>7
    <3> DEFINE a == Len(q)
               b == Cardinality(busy)
               c == Len(task_queue)
               d == Len(replies)
               k == Len(Taken)
               a1 == Len(q')
               d1 == Len(replies')
    <3>2. /\ a \in Nat /\ b \in Nat /\ c \in Nat /\ d \in Nat /\ k \in Nat
          /\ a1 \in Nat /\ d1 \in Nat /\ a1 + d1 = a + d + k
      BY <2>5, <2>6, <2>8
    <3>3. Cardinality(handled') = (a + b + c + d) + k
      BY <2>4, <3>1
    <3>4. a1 + Cardinality(busy') + Len(task_queue') + d1 = a1 + b + c + d1
      BY <3>1
    <3> HIDE DEF a, b, c, d, k, a1, d1
    <3>5. (a + b + c + d) + k = a1 + b + c + d1
      BY <3>2
    <3>6. QED  BY <3>3, <3>4, <3>5 DEF a1, d1
  <2>10. QED  BY <2>2, <2>9
<1>14. OrderOK'
  <2>1. /\ Range(q) \subseteq 1 .. parsed /\ busy \subseteq 1 .. parsed
        /\ Range(task_queue) \subseteq 1 .. parsed /\ Range(replies) \subseteq 1 .. parsed
        /\ Cardinality(busy) <= size
        /\ size = 0 => q = <<>> /\ busy = {} /\ task_queue = <<>>
    BY DEF OrderOK
  <2>2. /\ Before(Range(q), new) /\ Before(busy, new)
        /\ Before(Range(task_queue), new) /\ Before(Range(replies), new)
    BY <1>3, <1>4, <2>1 DEF Before
  <2>3. /\ Range(q') \cup busy' \cup Range(task_queue') \cup Range(replies') \subseteq 1 .. parsed'
    <3>1. Range(q') \cup Range(replies') \subseteq 1 .. Parsed
      <4>1. new \subseteq 1 .. Parsed
        BY <1>3, <1>4
      <4>2. Range(q) \cup Range(replies) \subseteq 1 .. Parsed
        BY <1>4, <2>1
      <4>3. QED  BY <1>5, <4>1, <4>2
    <3>2. busy' \cup Range(task_queue') \subseteq 1 .. Parsed
      BY <1>1, <1>4, <2>1
    <3>3. QED  BY <1>1, <3>1, <3>2
  <2>4. size \in Nat
    BY ConnectionAssumption DEF TypeOK
  <2>5. CASE size > 0
    <3>1. /\ q' = q \o Taken /\ UNCHANGED <<replies, busy, task_queue, size>>
          /\ Range(q \o Taken) = Range(q) \cup new
          /\ Increasing(q) => Increasing(q \o Taken)
      BY <1>1, <1>2, <1>3, <1>4, <2>2, <2>4, <2>5, ConcatElements DEF new
    <3>2. QED  BY <2>1, <2>2, <2>3, <2>4, <2>5, <3>1 DEF OrderOK, Before
  <2>6. CASE size = 0
    <3>1. /\ replies' = replies \o Taken /\ UNCHANGED <<q, busy, task_queue, size>>
          /\ Increasing(replies) => Increasing(replies \o Taken)
      BY <1>1, <1>2, <1>3, <1>4, <2>2, <2>6, ConcatElements DEF new
    <3>2. Range(q) = {} /\ Range(task_queue) = {}
      BY <2>1, <2>6 DEF Range
    <3>3. QED  BY <2>1, <2>3, <2>6, <3>1, <3>2 DEF OrderOK, Before
  <2>7. QED  BY <2>4, <2>5, <2>6
<1>15. QED
  BY <1>7, <1>8, <1>9, <1>11, <1>12, <1>13, <1>14

\* What is sent was waiting and has room; once nothing waits, the channel is
\* told so.  An EPIPE is met only after both the end of the stream and a reset.
LEMMA SendClientOK ==
  ASSUME IInv, HandleEvent, send_client, "OUT" \in revents, "IN" \notin revents
  PROVE  IInv'
<1> USE DEF IInv
<1>1. /\ life = "open" /\ revents' = {}
      /\ UNCHANGED <<blank, arrived, fin, acked, callbacks, size, busy, task_queue>>
      /\ UNCHANGED <<read, parsed, replies, disconnect_, q, handled>>
  BY DEF HandleEvent, send_client
<1>2. PlaceOK' /\ OrderOK' /\ AnsweredOnce' /\ (Connected' => Connected)
  BY <1>1, NoneMoves DEF Connected
<1>3. ReportOK'
  BY <1>1 DEF ReportOK
<1>4. /\ written \in Nat /\ acked \in Nat /\ Len(replies) \in Nat /\ SndBuf \in Nat
      /\ acked <= written /\ written <= 2 * Len(replies) /\ written - acked <= SndBuf
  BY ConnectionAssumption DEF TypeOK
<1>5. ASSUME /\ \/ UNCHANGED <<channel, ready, life>> /\ 2 * Len(replies) # written'
                \/ Update(disabwriting(channel)) /\ 2 * Len(replies) = written'
             /\ reset' \in {"none", "ECONNRESET", "EPIPE"}
             /\ written' \in Nat /\ acked <= written' /\ written' <= 2 * Len(replies)
             /\ written' - acked <= SndBuf /\ written <= written'
      PROVE  IInv'
  <2>1. \/ UNCHANGED <<channel, ready, life>> /\ 2 * Len(replies) # written'
        \/ disconnect_ /\ life' = "exit" /\ UNCHANGED <<channel, ready>>
        \/ /\ ~disconnect_ /\ UNCHANGED life /\ ready' \in BOOLEAN /\ (ready => ready')
           /\ 2 * Len(replies) = written'
           /\ channel' = [channel EXCEPT !.event_ = channel.event_ \ {"OUT"},
                                         !.set = channel.event_ \ {"OUT"}]
    BY <1>5, DisableOK
  <2>2. TypeOK'
    <3>1. /\ channel' \in [event_: SUBSET Flag, inepoll_: BOOLEAN, ontree: BOOLEAN,
                           set: SUBSET Flag]
          /\ life' \in {"open", "deleted", "exit", "sigpipe"} /\ ready' \in BOOLEAN
      BY <2>1 DEF TypeOK
    <3>2. QED  BY <1>1, <1>5, <3>1 DEF TypeOK
  <2>3. ChannelOK' /\ ClosedOK'
    BY <1>1, <2>1 DEF ChannelOK, ClosedOK, Idle, TypeOK
  <2>4. InputIsReported'
    BY <1>1, <2>1 DEF InputIsReported, Connected
  <2>5. WritesWhileUnsent'
    <3> SUFFICES ASSUME Connected' PROVE ("OUT" \in channel'.set <=> Unsent' > 0)
      BY DEF WritesWhileUnsent
    <3>1. Connected /\ ("OUT" \in channel.set <=> 2 * Len(replies) - written > 0)
      BY <1>2 DEF WritesWhileUnsent, Unsent
    <3>2. Unsent' = 2 * Len(replies) - written'
      BY <1>1 DEF Unsent
    <3>3. CASE UNCHANGED <<channel, ready, life>> /\ 2 * Len(replies) # written'
      <4>1. 2 * Len(replies) - written' > 0 /\ 2 * Len(replies) - written > 0
        BY <1>4, <1>5, <2>1, <3>1, <3>3
      <4>2. QED  BY <3>1, <3>2, <3>3, <4>1
    <3>4. CASE 2 * Len(replies) = written' /\ "OUT" \notin channel'.set
      BY <1>4, <3>2, <3>4
    <3>5. QED  BY <1>1, <2>1, <3>1, <3>3, <3>4 DEF Connected, TypeOK
  <2>6. QED  BY <1>2, <1>3, <2>2, <2>3, <2>4, <2>5
<1>6. CASE reset = "none" /\ UNCHANGED reset /\ written' = Written
  <2>1. /\ written' \in Nat /\ acked <= written' /\ written' <= 2 * Len(replies)
        /\ written' - acked <= SndBuf /\ written <= written'
    BY <1>4, <1>6 DEF Written, Unsent, Room
  <2>2. IF 2 * Len(replies) = written' THEN Update(disabwriting(channel))
        ELSE UNCHANGED <<channel, ready, life>>
    BY <1>6 DEF send_client, AllSent
  <2>3. QED  BY <1>5, <1>6, <2>1, <2>2 DEF TypeOK
<1>7. CASE reset = "ECONNRESET" /\ reset' = "EPIPE" /\ UNCHANGED written
  <2>1. IF 2 * Len(replies) - written = 0 THEN Update(disabwriting(channel))
        ELSE UNCHANGED <<channel, ready, life>>
    BY <1>7 DEF send_client, Unsent
  <2>2. 2 * Len(replies) - written = 0 <=> 2 * Len(replies) = written
    BY <1>4
  <2>3. QED  BY <1>4, <1>5, <1>7, <2>1, <2>2
<1>8. CASE life' = "sigpipe" /\ UNCHANGED <<written, channel, ready, reset>>
  <2>1. ~Connected'
    BY <1>8 DEF Connected
  <2>2. TypeOK'
    BY <1>1, <1>8 DEF TypeOK
  <2>3. ChannelOK' /\ ClosedOK' /\ InputIsReported' /\ WritesWhileUnsent'
    BY <1>1, <1>8, <2>1
    DEF ChannelOK, ClosedOK, Idle, InputIsReported, WritesWhileUnsent
  <2>4. QED  BY <1>2, <1>3, <2>2, <2>3
<1>9. QED  BY <1>6, <1>7, <1>8 DEF send_client

\* Channel::handleevent, whole.
LEMMA HandleEventOK == ASSUME IInv, HandleEvent PROVE IInv'
<1>1. CASE "IN" \in revents /\ onmessage
  BY <1>1, ReadEndOK, ReadMessagesOK DEF onmessage
<1>2. CASE revents \cap {"IN", "OUT"} = {"OUT"} /\ send_client
  BY <1>2, SendClientOK
<1>3. CASE HandleError
  BY <1>3, ReadEndOK DEF HandleError
<1>4. QED  BY <1>1, <1>2, <1>3 DEF HandleEvent, handleevent

-----------------------------------------------------------------------------
(* The loop's closures, the workers and the timer. *)

\* send_inloop moves the oldest reply of task_queue to the end of replies, and
\* has write events enabled.
LEMMA RunTaskOK == ASSUME IInv, RunTask PROVE IInv'
<1> USE DEF IInv
<1> DEFINE m == Head(task_queue)
<1>1. /\ life = "open" /\ task_queue # <<>> /\ task_queue' = Tail(task_queue)
      /\ replies' = Append(replies, m)
      /\ UNCHANGED <<blank, arrived, fin, reset, acked, revents, read, parsed,
                     written, disconnect_, callbacks, size, q, busy, handled>>
  BY DEF RunTask
<1>2. \/ disconnect_ /\ life' = "exit" /\ UNCHANGED <<channel, ready>>
      \/ /\ ~disconnect_ /\ UNCHANGED life
         /\ channel' = [channel EXCEPT !.event_ = channel.event_ \cup {"OUT"},
                                       !.set = channel.event_ \cup {"OUT"}]
         /\ ready' \in BOOLEAN /\ (ready => ready')
  BY EnableOK DEF RunTask
<1>3. /\ m \in Message
      /\ Tail(task_queue) \in Seq(Message) /\ Len(Tail(task_queue)) = Len(task_queue) - 1
      /\ Range(task_queue) = Range(Tail(task_queue)) \cup {m}
      /\ Increasing(task_queue) => /\ Increasing(Tail(task_queue))
                                   /\ Before({m}, Range(Tail(task_queue)))
  BY <1>1, TailElements DEF TypeOK
<1>4. /\ replies' \in Seq(Message) /\ Len(replies') = Len(replies) + 1
      /\ Range(replies') = Range(replies) \cup {m}
      /\ Increasing(replies) /\ Before(Range(replies), {m}) => Increasing(replies')
  <2>1. replies \in Seq(Message)
    BY DEF TypeOK
  <2> HIDE DEF m
  <2>2. QED  BY <1>1, <1>3, <2>1, AppendElements, AppendOrder
<1> HIDE DEF m
<1>5. /\ written \in Nat /\ Len(replies) \in Nat /\ Len(task_queue) \in Nat
      /\ written <= 2 * Len(replies)
  BY DEF TypeOK
<1>6. TypeOK'
  <2>1. /\ channel' \in [event_: SUBSET Flag, inepoll_: BOOLEAN, ontree: BOOLEAN,
                         set: SUBSET Flag]
        /\ life' \in {"open", "deleted", "exit", "sigpipe"} /\ ready' \in BOOLEAN
    BY <1>2 DEF TypeOK, Event, Flag
  <2>2. written' <= 2 * Len(replies')
    BY <1>1, <1>4, <1>5
  <2>3. QED  BY <1>1, <1>3, <1>4, <2>1, <2>2 DEF TypeOK
<1>7. ChannelOK' /\ ClosedOK'
  BY <1>1, <1>2 DEF ChannelOK, ClosedOK, Idle, TypeOK
<1>8. ReportOK' /\ InputIsReported' /\ (Connected' => Connected)
  BY <1>1, <1>2 DEF ReportOK, InputIsReported, Connected
<1>9. WritesWhileUnsent'
  <2>1. Connected' => "OUT" \in channel'.set
    BY <1>1, <1>2 DEF Connected, TypeOK
  <2>2. Unsent' > 0
    BY <1>1, <1>4, <1>5 DEF Unsent
  <2>3. QED  BY <2>1, <2>2 DEF WritesWhileUnsent
<1>10. PlaceOK'
  BY <1>1, <1>8 DEF PlaceOK
<1>11. AnsweredOnce'
  <2> SUFFICES ASSUME Connected'
               PROVE /\ handled' = Range(q') \cup busy' \cup Range(task_queue') \cup Range(replies')
                     /\ Cardinality(handled') =
                          Len(q') + Cardinality(busy') + Len(task_queue') + Len(replies')
    BY DEF AnsweredOnce
  <2>1. /\ handled = Range(q) \cup busy \cup Range(task_queue) \cup Range(replies)
        /\ Cardinality(handled) = Len(q) + Cardinality(busy) + Len(task_queue) + Len(replies)
    BY <1>8 DEF AnsweredOnce
  <2>2. handled' = Range(q') \cup busy' \cup Range(task_queue') \cup Range(replies')
    BY <1>1, <1>3, <1>4, <2>1
  <2>3. IsFiniteSet(busy)
    <3>1. handled \subseteq 1 .. parsed /\ IsFiniteSet(1 .. parsed)
      BY FS_Interval DEF PlaceOK, TypeOK
    <3>2. QED  BY <2>1, <3>1, FS_Subset
  <2>4. Cardinality(busy) \in Nat /\ Len(q) \in Nat
    BY <2>3, FS_CardinalityType DEF TypeOK
  <2>5. Len(task_queue') + Len(replies') = Len(task_queue) + Len(replies)
    BY <1>1, <1>3, <1>4, <1>5
  <2>6. Cardinality(handled') = Len(q') + Cardinality(busy') + Len(task_queue') + Len(replies')
    <3> DEFINE a == Len(q)
               b == Cardinality(busy)
               c == Len(task_queue)
               d == Len(replies)
    <3>1. a \in Nat /\ b \in Nat /\ c \in Nat /\ d \in Nat
      BY <1>5, <2>4
    <3>2. Cardinality(handled') = a + b + c + d
      BY <1>1, <2>1
    <3>3. Len(task_queue') = c - 1 /\ Len(replies') = d + 1 /\ Len(q') = a /\ Cardinality(busy') = b
      BY <1>1, <1>3, <1>4
    <3> HIDE DEF a, b, c, d
    <3>4. a + b + c + d = a + b + (c - 1) + (d + 1)
      BY <3>1
    <3>5. QED  BY <3>2, <3>3, <3>4
  <2>7. QED  BY <2>2, <2>6
<1>12. OrderOK'
  <2>1. /\ Range(q') = Range(q) /\ busy' = busy
        /\ Range(task_queue') \subseteq Range(task_queue)
        /\ m \in Range(task_queue)
        /\ Range(replies') = Range(replies) \cup {m}
    BY <1>1, <1>3, <1>4
  <2>2. task_queue # <<>> /\ (size = 0 => task_queue = <<>>)
    BY <1>1 DEF OrderOK
  <2>3. Range(q') \cup busy' \cup Range(task_queue') \cup Range(replies') \subseteq 1 .. parsed'
    BY <1>1, <2>1 DEF OrderOK
  <2>4. ASSUME size <= 1
        PROVE  /\ Increasing(replies') /\ Increasing(task_queue') /\ Increasing(q')
               /\ Before(Range(replies'), Range(task_queue') \cup busy' \cup Range(q'))
               /\ Before(Range(task_queue'), busy' \cup Range(q'))
               /\ Before(busy', Range(q'))
    <3>1. /\ Increasing(replies) /\ Increasing(task_queue) /\ Increasing(q)
          /\ Before(Range(replies), Range(task_queue) \cup busy \cup Range(q))
          /\ Before(Range(task_queue), busy \cup Range(q))
          /\ Before(busy, Range(q))
      BY <2>4 DEF OrderOK
    <3>2. Before(Range(replies), {m})
      BY <2>1, <3>1 DEF Before
    <3>3. Increasing(replies') /\ Increasing(task_queue') /\ Increasing(q')
      BY <1>1, <1>3, <1>4, <3>1, <3>2
    <3>4. Before({m}, Range(task_queue'))
      BY <1>1, <1>3, <3>1
    <3>5. Before(Range(replies'), Range(task_queue') \cup busy' \cup Range(q'))
      BY <2>1, <3>1, <3>4 DEF Before
    <3>6. Before(Range(task_queue'), busy' \cup Range(q')) /\ Before(busy', Range(q'))
      BY <2>1, <3>1 DEF Before
    <3>7. QED  BY <3>3, <3>5, <3>6
  <2>5. QED  BY <1>1, <2>2, <2>3, <2>4 DEF OrderOK
<1>13. QED
  BY <1>6, <1>7, <1>8, <1>9, <1>10, <1>11, <1>12

\* A worker takes the oldest closure of the queue.
LEMMA TakeOK == ASSUME IInv, Take PROVE IInv'
<1> USE DEF IInv
<1> DEFINE m == Head(q)
<1>1. /\ life = "open" /\ q # <<>> /\ Cardinality(busy) < size
      /\ busy' = busy \cup {m} /\ q' = Tail(q)
      /\ UNCHANGED <<socket, channel, revents, buffers, disconnect_, callbacks,
                     life, size, task_queue, handled>>
  BY DEF Take
<1>2. /\ m \in Message /\ m \in Range(q)
      /\ Tail(q) \in Seq(Message) /\ Len(Tail(q)) = Len(q) - 1
      /\ Range(q) = Range(Tail(q)) \cup {m}
      /\ IsInjective(q) => IsInjective(Tail(q)) /\ m \notin Range(Tail(q))
      /\ Increasing(q) => Increasing(Tail(q)) /\ Before({m}, Range(Tail(q)))
  BY <1>1, TailElements DEF TypeOK
<1> HIDE DEF m
<1>3. IsFiniteSet(busy) /\ Cardinality(busy) \in Nat
  <2>1. busy \subseteq 1 .. parsed /\ IsFiniteSet(1 .. parsed)
    BY FS_Interval DEF OrderOK, TypeOK
  <2>2. QED  BY <2>1, FS_Subset, FS_CardinalityType
<1>4. /\ m \in busy => Cardinality(busy') = Cardinality(busy)
      /\ m \notin busy => Cardinality(busy') = Cardinality(busy) + 1
  BY <1>1, <1>3, FS_AddElement
<1>5. TypeOK'
  BY <1>1, <1>2 DEF TypeOK, socket, buffers
<1>6. /\ ChannelOK' /\ ClosedOK' /\ ReportOK'
      /\ InputIsReported' /\ WritesWhileUnsent' /\ (Connected' <=> Connected)
  BY <1>1 DEF ChannelOK, ClosedOK, Idle, ReportOK, InputIsReported,
              WritesWhileUnsent, Unsent, Connected, socket, buffers
<1>7. PlaceOK'
  <2>1. handled' \subseteq 1 .. parsed'
    BY <1>1 DEF PlaceOK, buffers
  <2>2. Connected => IsInjective(Tail(q)) /\ Range(Tail(q)) \cap (busy \cup {m}) = {}
    BY <1>2 DEF PlaceOK
  <2>3. QED  BY <1>1, <1>6, <2>1, <2>2 DEF PlaceOK
<1>8. AnsweredOnce'
  <2> SUFFICES ASSUME Connected
               PROVE /\ handled' = Range(q') \cup busy' \cup Range(task_queue') \cup Range(replies')
                     /\ Cardinality(handled') =
                          Len(q') + Cardinality(busy') + Len(task_queue') + Len(replies')
    BY <1>6 DEF AnsweredOnce
  <2>1. /\ handled = Range(q) \cup busy \cup Range(task_queue) \cup Range(replies)
        /\ Cardinality(handled) = Len(q) + Cardinality(busy) + Len(task_queue) + Len(replies)
    BY DEF AnsweredOnce
  <2>2. handled' = Range(q') \cup busy' \cup Range(task_queue') \cup Range(replies')
    BY <1>1, <1>2, <2>1 DEF buffers
  <2>3. m \notin busy
    BY <1>2 DEF PlaceOK
  <2>4. Cardinality(handled') = Len(q') + Cardinality(busy') + Len(task_queue') + Len(replies')
    <3> DEFINE a == Len(q)
               b == Cardinality(busy)
               c == Len(task_queue)
               d == Len(replies)
    <3>1. a \in Nat /\ b \in Nat /\ c \in Nat /\ d \in Nat
      BY <1>3 DEF TypeOK
    <3>2. Cardinality(handled') = a + b + c + d
      BY <1>1, <2>1
    <3>3. Len(task_queue') = c /\ Len(replies') = d /\ Len(q') = a - 1 /\ Cardinality(busy') = b + 1
      BY <1>1, <1>2, <1>4, <2>3 DEF buffers
    <3> HIDE DEF a, b, c, d
    <3>4. a + b + c + d = (a - 1) + (b + 1) + c + d
      BY <3>1
    <3>5. QED  BY <3>2, <3>3, <3>4
  <2>5. QED  BY <2>2, <2>4
<1>9. OrderOK'
  <2>1. /\ Range(q') \subseteq Range(q) /\ busy' = busy \cup {m} /\ m \in Range(q)
        /\ UNCHANGED <<task_queue, replies, parsed, size>>
    BY <1>1, <1>2 DEF buffers
  <2>2. size \in Nat
    BY ConnectionAssumption DEF TypeOK
  <2>3. Cardinality(busy') <= size' /\ size # 0
    BY <1>1, <1>3, <1>4, <2>2
  <2>4. Range(q') \cup busy' \cup Range(task_queue') \cup Range(replies') \subseteq 1 .. parsed'
    BY <2>1 DEF OrderOK
  <2>5. ASSUME size <= 1
        PROVE  /\ Increasing(replies') /\ Increasing(task_queue') /\ Increasing(q')
               /\ Before(Range(replies'), Range(task_queue') \cup busy' \cup Range(q'))
               /\ Before(Range(task_queue'), busy' \cup Range(q'))
               /\ Before(busy', Range(q'))
    <3>1. busy = {}
      <4>1. Cardinality(busy) = 0
        BY <1>1, <1>3, <2>2, <2>5
      <4>2. QED  BY <1>3, <4>1, FS_EmptySet
    <3>2. /\ Increasing(replies) /\ Increasing(task_queue) /\ Increasing(q)
          /\ Before(Range(replies), Range(task_queue) \cup busy \cup Range(q))
          /\ Before(Range(task_queue), busy \cup Range(q))
      BY <2>5 DEF OrderOK
    <3>3. Increasing(q') /\ Before({m}, Range(q'))
      BY <1>1, <1>2, <3>2
    <3>4. QED  BY <2>1, <3>1, <3>2, <3>3 DEF Before
  <2>6. QED  BY <2>1, <2>3, <2>4, <2>5 DEF OrderOK
<1>10. QED  BY <1>5, <1>6, <1>7, <1>8, <1>9

\* Handledata's last call: the closure goes to the loop, unless disconnect_.
LEMMA SendmessageOK ==
  ASSUME IInv, NEW m \in Message, sendmessage(m)
  PROVE  IInv'
<1> USE DEF IInv
<1>1. /\ life = "open" /\ m \in busy /\ busy' = busy \ {m} /\ task_queue' = Queued(m)
      /\ UNCHANGED <<socket, channel, revents, buffers, disconnect_, callbacks,
                     life, size, q, handled>>
  BY DEF sendmessage
<1>2. IsFiniteSet(busy) /\ Cardinality(busy) \in Nat
  <2>1. busy \subseteq 1 .. parsed /\ IsFiniteSet(1 .. parsed)
    BY FS_Interval DEF OrderOK, TypeOK
  <2>2. QED  BY <2>1, FS_Subset, FS_CardinalityType
<1>3. Cardinality(busy') = Cardinality(busy) - 1
  BY <1>1, <1>2, FS_RemoveElement
<1>4. /\ Append(task_queue, m) \in Seq(Message)
      /\ Len(Append(task_queue, m)) = Len(task_queue) + 1
      /\ Range(Append(task_queue, m)) = Range(task_queue) \cup {m}
      /\ Increasing(task_queue) /\ Before(Range(task_queue), {m})
           => Increasing(Append(task_queue, m))
  <2>1. task_queue \in Seq(Message)
    BY DEF TypeOK
  <2>2. QED  BY <2>1, AppendElements, AppendOrder
<1>5. \/ disconnect_ /\ UNCHANGED task_queue
      \/ ~disconnect_ /\ task_queue' = Append(task_queue, m)
  BY <1>1 DEF Queued, TypeOK
<1>6. TypeOK'
  BY <1>1, <1>4, <1>5 DEF TypeOK, socket, buffers
<1>7. /\ ChannelOK' /\ ClosedOK' /\ ReportOK'
      /\ InputIsReported' /\ WritesWhileUnsent' /\ (Connected' <=> Connected)
  BY <1>1 DEF ChannelOK, ClosedOK, Idle, ReportOK, InputIsReported,
              WritesWhileUnsent, Unsent, Connected, socket, buffers
<1>8. PlaceOK'
  BY <1>1, <1>7 DEF PlaceOK, buffers
<1>9. AnsweredOnce'
  <2> SUFFICES ASSUME Connected
               PROVE /\ handled' = Range(q') \cup busy' \cup Range(task_queue') \cup Range(replies')
                     /\ Cardinality(handled') =
                          Len(q') + Cardinality(busy') + Len(task_queue') + Len(replies')
    BY <1>7 DEF AnsweredOnce
  <2>1. /\ handled = Range(q) \cup busy \cup Range(task_queue) \cup Range(replies)
        /\ Cardinality(handled) = Len(q) + Cardinality(busy) + Len(task_queue) + Len(replies)
    BY DEF AnsweredOnce
  <2>2. task_queue' = Append(task_queue, m)
    BY <1>5 DEF Connected
  <2>3. handled' = Range(q') \cup busy' \cup Range(task_queue') \cup Range(replies')
    <3>1. busy = busy' \cup {m} /\ Range(task_queue') = Range(task_queue) \cup {m}
      BY <1>1, <1>4, <2>2
    <3>2. QED  BY <1>1, <2>1, <3>1 DEF buffers
  <2>4. Cardinality(handled') = Len(q') + Cardinality(busy') + Len(task_queue') + Len(replies')
    <3> DEFINE a == Len(q)
               b == Cardinality(busy)
               c == Len(task_queue)
               d == Len(replies)
    <3>1. a \in Nat /\ b \in Nat /\ c \in Nat /\ d \in Nat
      BY <1>2 DEF TypeOK
    <3>2. Cardinality(handled') = a + b + c + d
      BY <1>1, <2>1
    <3>3. Len(task_queue') = c + 1 /\ Len(replies') = d /\ Len(q') = a /\ Cardinality(busy') = b - 1
      BY <1>1, <1>3, <1>4, <2>2 DEF buffers
    <3> HIDE DEF a, b, c, d
    <3>4. a + b + c + d = a + (b - 1) + (c + 1) + d
      BY <3>1
    <3>5. QED  BY <3>2, <3>3, <3>4
  <2>5. QED  BY <2>3, <2>4
<1>10. OrderOK'
  <2>1. /\ busy' \subseteq busy /\ m \in busy
        /\ Range(task_queue') \subseteq Range(task_queue) \cup {m}
        /\ UNCHANGED <<q, replies, parsed, size>>
    BY <1>1, <1>4, <1>5 DEF buffers
  <2>2. size \in Nat
    BY ConnectionAssumption DEF TypeOK
  <2>3. Cardinality(busy') <= size' /\ size # 0
    BY <1>1, <1>2, <1>3, <2>1, <2>2 DEF OrderOK
  <2>4. Range(q') \cup busy' \cup Range(task_queue') \cup Range(replies') \subseteq 1 .. parsed'
    BY <2>1 DEF OrderOK
  <2>5. ASSUME size <= 1
        PROVE  /\ Increasing(replies') /\ Increasing(task_queue') /\ Increasing(q')
               /\ Before(Range(replies'), Range(task_queue') \cup busy' \cup Range(q'))
               /\ Before(Range(task_queue'), busy' \cup Range(q'))
               /\ Before(busy', Range(q'))
    <3>1. busy' = {}
      <4>1. Cardinality(busy) <= 1
        BY <1>2, <2>2, <2>5 DEF OrderOK
      <4>2. Cardinality(busy') = 0 /\ IsFiniteSet(busy')
        <5>1. IsFiniteSet(busy') /\ Cardinality(busy') \in Nat
          BY <1>2, <2>1, FS_Subset, FS_CardinalityType
        <5>2. QED  BY <1>2, <1>3, <4>1, <5>1
      <4>3. QED  BY <4>2, FS_EmptySet
    <3>2. /\ Increasing(replies) /\ Increasing(task_queue) /\ Increasing(q)
          /\ Before(Range(replies), Range(task_queue) \cup busy \cup Range(q))
          /\ Before(Range(task_queue), busy \cup Range(q))
          /\ Before(busy, Range(q))
      BY <2>5 DEF OrderOK
    <3>3. Increasing(task_queue')
      BY <1>4, <1>5, <2>1, <3>2 DEF Before
    <3>4. QED  BY <2>1, <3>1, <3>2, <3>3 DEF Before
  <2>6. QED  BY <2>1, <2>3, <2>4, <2>5 DEF OrderOK
<1>11. QED  BY <1>6, <1>7, <1>8, <1>9, <1>10

\* The main thread: newconnection and the idle timer.
LEMMA MainOK == ASSUME IInv, MainStep \/ Expired PROVE IInv'
<1> USE DEF IInv
<1>1. /\ UNCHANGED <<socket, channel, revents, buffers, disconnect_, threads, handled>>
      /\ life = "open" /\ life' \in {"open", "deleted"}
      /\ callbacks' \in 0 .. 8 /\ callbacks <= callbacks'
      /\ callbacks <= 4 /\ callbacks' > 4 => callbacks = 4
  BY DEF MainStep, SetCallback, Expired, ClearCallback, SetNext, TimerDelete, TypeOK
<1>2. PlaceOK' /\ OrderOK' /\ AnsweredOnce'
  BY <1>1, NoneMoves DEF buffers, threads, Connected
<1>3. TypeOK'
  BY <1>1 DEF buffers, threads, socket, TypeOK
<1>4. ReportOK' /\ InputIsReported' /\ WritesWhileUnsent'
  BY <1>1 DEF buffers, threads, socket, ReportOK, InputIsReported,
              WritesWhileUnsent, Unsent, Connected
<1>5. ChannelOK' /\ ClosedOK'
  BY <1>1 DEF buffers, threads, socket, ChannelOK, ClosedOK, Idle, TypeOK
<1>6. QED  BY <1>2, <1>3, <1>4, <1>5

LEMMA Stutter == ASSUME IInv, UNCHANGED vars PROVE IInv'
<1> USE DEF IInv
<1> USE DEF vars, socket, buffers, threads
<1>1. PlaceOK' /\ OrderOK' /\ AnsweredOnce'
  BY NoneMoves DEF Connected
<1>2. TypeOK'
  BY DEF TypeOK
<1>3. ChannelOK' /\ ClosedOK' /\ ReportOK' /\ InputIsReported' /\ WritesWhileUnsent'
  BY DEF ChannelOK, ClosedOK, Idle, ReportOK, InputIsReported,
         WritesWhileUnsent, Unsent, Connected
<1>4. QED  BY <1>1, <1>2, <1>3

LEMMA Inductive == IInv /\ [Next]_vars => IInv'
<1> SUFFICES ASSUME IInv, [Next]_vars PROVE IInv'
  OBVIOUS
<1>1. CASE Arrive \/ Fin \/ Reset \/ Ack
  BY <1>1, ClientStepOK
<1>2. CASE LoopStep
  BY <1>2, PollOK, HandleEventOK DEF LoopStep
<1>3. CASE RunTask
  BY <1>3, RunTaskOK
<1>4. CASE WorkerStep
  BY <1>4, TakeOK, SendmessageOK DEF WorkerStep
<1>5. CASE MainStep \/ Expired
  BY <1>5, MainOK
<1>6. CASE UNCHANGED vars
  BY <1>6, Stutter
<1>7. QED  BY <1>1, <1>2, <1>3, <1>4, <1>5, <1>6 DEF Next

LEMMA Invariance == Spec => []IInv
BY InitOK, Inductive, PTL DEF Spec

-----------------------------------------------------------------------------
\* Every variable keeps its type; the read position never passes what has come
\* in, nor the parsed messages what was read, nor the sent units the replies.
THEOREM Typing == Spec => []TypeOK
BY Invariance, PTL DEF IInv

\* Edge-triggered input is never overlooked (onmessage reads until EAGAIN).
THEOREM NoInputOverlooked == Spec => []InputIsReported
BY Invariance, PTL DEF IInv

\* Write events are enabled exactly while outputbuffer_ holds something
\* (send_inloop, send_client), so neither replies nor the thread hang on them.
THEOREM WriteEvents == Spec => []WritesWhileUnsent
BY Invariance, PTL DEF IInv

\* For any number of workers, each message that was handled is in one place:
\* the queue, a worker, task_queue or the replies (HandleMessage to
\* send_inloop).
THEOREM OneAnswer == Spec => []AnsweredOnce
BY Invariance, PTL DEF IInv

\* With at most one worker, replies go out in the order of the requests
\* (EchoServer::HandleMessage and Handledata).
THEOREM RepliesKeepOrder == Spec => []RepliesInOrder
<1>1. IInv => RepliesInOrder
  BY DEF IInv, OrderOK, RepliesInOrder, Increasing
<1>2. QED  BY Invariance, <1>1, PTL

\* updatechannel's exit(-1) is only reached on a Connection that has closed
\* without its close callback: the client reset it before newconnection had set
\* the callback, or the timer had taken it away.
THEOREM ExitNeedsGap == Spec => ExitsOnlyWhenClosed
<1>1. ASSUME IInv, Next, life = "open", life' = "exit"
      PROVE  disconnect_ /\ (callbacks > 4 \/ reset # "none")
  <2> USE DEF IInv
  <2>1. RunTask \/ HandleEvent
    BY <1>1 DEF Next, LoopStep, Arrive, Fin, Reset, Ack, Poll, WorkerStep, Take,
                sendmessage, MainStep, SetCallback, Expired, ClearCallback, SetNext,
                TimerDelete
  <2>2. CASE RunTask
    <3>1. disconnect_ /\ task_queue # <<>>
      BY <1>1, <2>2, EnableOK DEF RunTask
    <3>2. QED  BY <1>1, <3>1 DEF ClosedOK, Idle, TypeOK
  <2>3. CASE HandleEvent
    <3>1. disconnect_
      <4>1. CASE ReadEnd \/ HandleError
        BY <1>1, <4>1 DEF ReadEnd, HandleError, RemoveAndClose, UpdateFails,
                          ChannelOK, TypeOK
      <4>2. CASE ReadMessages
        BY <1>1, <4>2, EnableOK DEF ReadMessages
      <4>3. CASE send_client
        BY <1>1, <4>3, DisableOK DEF send_client
      <4>4. QED  BY <2>3, <4>1, <4>2, <4>3 DEF HandleEvent, handleevent, onmessage
    <3>2. revents = {"ERR"}
      BY <1>1, <2>3, <3>1 DEF HandleEvent, ClosedOK
    <3>3. QED  BY <1>1, <3>1, <3>2 DEF ReportOK
  <2>4. QED  BY <2>1, <2>2, <2>3
<1>2. IInv /\ [Next]_vars
        => [life = "open" /\ life' = "exit" =>
              disconnect_ /\ (callbacks > 4 \/ reset # "none")]_vars
  BY <1>1
<1>3. QED  BY Invariance, <1>2, PTL DEF Spec, ExitsOnlyWhenClosed

\* A signal SIGPIPE, which ends the process, needs the end of the stream and
\* then a reset between epoll_wait and send_client.
THEOREM SigpipeNeedsWindow == Spec => SigpipeOnlyInWindow
<1>1. ASSUME IInv, Next, life' = "sigpipe", life = "open"
      PROVE  fin /\ revents = {"OUT"}
  <2> USE DEF IInv
  <2>1. ASSUME NEW ch, Update(ch) PROVE life' # "sigpipe"
    BY <1>1, <2>1 DEF Update
  <2>2. ASSUME RemoveAndClose PROVE life' # "sigpipe"
    BY <1>1, <2>2 DEF RemoveAndClose
  <2>3. HandleEvent
    <3>1. ~ (Arrive \/ Fin \/ Reset \/ Ack \/ Poll \/ WorkerStep \/ MainStep \/ Expired)
      BY <1>1 DEF Arrive, Fin, Reset, Ack, Poll, WorkerStep, Take, sendmessage,
                  MainStep, SetCallback, Expired, ClearCallback, SetNext, TimerDelete
    <3>2. ~RunTask
      BY <1>1, <2>1 DEF RunTask, Enable
    <3>3. QED  BY <1>1, <3>1, <3>2 DEF Next, LoopStep
  <2>4. ~ReadEnd /\ ~HandleError
    BY <1>1, <2>2 DEF ReadEnd, HandleError
  <2>5. ~ReadMessages
    BY <1>1, <2>1 DEF ReadMessages, Enable
  <2>6. revents \cap {"IN", "OUT"} = {"OUT"} /\ send_client
    BY <2>3, <2>4, <2>5 DEF HandleEvent, handleevent, onmessage
  <2>7. reset = "EPIPE"
    BY <1>1, <2>1, <2>6 DEF send_client
  <2>8. "OUT" \in revents /\ "IN" \notin revents /\ revents \subseteq {"IN", "OUT", "ERR"}
    <3>1. revents \in SUBSET Event
      BY <1>1 DEF TypeOK
    <3>2. "IN" \notin {"OUT"} /\ "OUT" \in {"OUT"}
      OBVIOUS
    <3> HIDE DEF IInv
    <3>3. "OUT" \in revents /\ "IN" \notin revents
      BY <2>6, <3>2
    <3>4. QED  BY <3>1, <3>3 DEF Event
  <2>9. fin /\ "ERR" \notin revents
    <3>1. ReportOK
      BY <1>1
    <3> HIDE DEF IInv
    <3>2. QED  BY <2>7, <2>8, <3>1 DEF ReportOK
  <2>10. QED  BY <2>8, <2>9
<1>2. IInv /\ [Next]_vars => [life' = "sigpipe" /\ life = "open" => fin /\ revents = {"OUT"}]_vars
  BY <1>1
<1>3. QED  BY Invariance, <1>2, PTL DEF Spec, SigpipeOnlyInWindow
=============================================================================
