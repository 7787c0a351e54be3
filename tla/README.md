# Specifications of the-second-tree

TLA+ specifications, model-checking configurations and proofs for the
multi-threaded reactor in `src/reactor-2025-3-3` and for the two programs it
grew from, the single-threaded reactor and the thread pool in
`src/single-reactor`.  The program is an echo
server over TCP in the style of muduo: one thread accepts, several IO threads
run edge-triggered event loops, and optional worker threads run the business
code.

## The system

| Part | State | Operations | Who calls them |
|---|---|---|---|
| `EventLoop` | task queue and its mutex, eventfd, `stop_` | `run`, `handle_wakeup`; `addtask`, `wakeup`; `stop` | its IO thread; any thread; the stopping thread |
| `Threadpool`, `Tpl` | queue, mutex, condition variable, `stop`, threads | worker loop; `enqueue`; destructor | pool threads; any thread; static destruction |
| `Tcpserver` | map descriptor → `Connection*`, its mutex, the loops | `newconnection`, `handle_timer`; `closeconnection`, `errorconnection` | main thread; IO threads |
| `Acceptor` | listening socket | `handle_newconnection` | main thread |
| `Connection` | two buffers, `disconnect_`, four callbacks, time of last message | `onmessage`, `send_client`, `send_inloop`; `sendmessage` | its IO thread; IO thread or worker |
| `Channel`, `Epoll` | watched events, `inepoll_`; the epoll tree | `enabwriting`, `disabwriting`, `remove`, `handleevent`, `updatechannel` | the IO thread, once also the main thread |
| `Buffer` | bytes | `append`, `erase`, `getmessage` | the IO thread |
| `EchoServer` | the two pools | `HandleMessage`, `Handledata` | IO thread; worker |
| `tcp.cpp` | the server, a global | `main`; `Stop_tcp` on SIGINT, SIGTERM | the main thread, also as a signal handler |
| `client.cpp` (two) | one buffer, `len` | send a frame, receive a frame | a process of its own |

The single-threaded reactor in `src/single-reactor/reactor` has the same classes
without pools, mutexes, task queues and timer; its `Tcpserver` owns the
`Connection`s (`unique_ptr` in the map), and `HandleMessage` calls `send` itself.

How they interact:

* The main thread accepts a descriptor and constructs the `Connection`.  The
  constructor already puts the descriptor on the epoll tree of one of the
  running loops; only then is the object put into the map and are its callbacks
  set.
* An IO thread reads until `EAGAIN`, parses messages and hands each one to
  `HandleMessage`: with no workers it is answered at once, else a closure with
  a plain `Connection*` goes to `Tpl`.
* A worker calls `sendmessage`, which tests `disconnect_` and gives the loop a
  closure `send_inloop`; the eventfd wakes the loop.
* `main` constructs the server: the main loop, the listening socket, the pool of
  IO threads, one loop after the other, each handed to the pool as a closure
  `EventLoop::run`, and `Tpl`.  Its constructors call `exit(-1)` when a system
  call fails, also when loops are running already.
* A signal interrupts the main thread, wherever it is, and the handler stops the
  loops and calls `exit`, which destroys `Tpl`, `Threadpool` and the server.
* The IO thread deletes a `Connection` at the end of its stream.  The timer,
  in the main thread, deletes one that has sent no message for a while.

What is hard to test: three kinds of threads share raw pointers whose owner may
delete them; two hand-offs between threads depend on the order of two
writes; edge-triggered events are reported once; and descriptors and memory are
used again as soon as they are free.  `PROJECT.json` lists these places one by
one under `hazards`, with the properties about each.

## Modules

| Module | Models | Abstraction |
|---|---|---|
| `Handoff` | what both hand-offs promise: closures start in the order of posting, none twice, each one unless the receiver is closed | |
| `EventLoop` | one sub loop, the callers of `addtask`, one call of `stop` | client events are "something else to do" |
| `ThreadPool` | the three pools, which differ in the destructor: does it take the lock, may callers still enqueue | closures are tokens |
| `Tcpserver` | the life of Connections: accept, set-up, input, close, reset, worker closures, the timer; descriptor and memory reuse | one message per client; a reply handed to `send_inloop` counts as sent |
| `Connection` | the data of one Connection from its constructor on: epoll item, channel, callbacks, both buffers, framing, workers, reset, timer | two units per message, buffers are positions in the stream |
| `Lifecycle` | the program from `main` to the end of `exit`: construction, the signal, `Tcpserver::stop`, the destructors; uses `ThreadPool` for its IO threads | of a loop what decides whether `run` returns; `Tpl` as a number of closures; the main thread's work as whether it holds `m_mutex` |
| `Codec` | the bytes: frames, `Buffer::getmessage` with its half-read headers, both clients | small bytes; short texts |
| `Echo` | what clients are promised: answers in the order of their messages, none twice, none too early | |
| `SingleReactor` | the single-threaded server: ready list, batch, accept, read, answer, close | two units per message and reply |
| `*_proof` | theorems about the module of that name | |
| `SequenceLemmas` | facts about queues that `Connection_proof`, `SingleReactor_proof` and `Codec_proof` share | |
| `MC*` | the module as the runs check it | |

### EventLoop

`lpc` walks through `run` and `handle_wakeup`: `test` (line 18), `wait`
(blocked in `epoll_wait`), `events`, `lock`, `drain`.  What happens with
`mutex_` held by a caller is one step (`Push`), because nobody can look at the
queue meanwhile; the loop holds `mutex_` while it runs closures, so each closure
is a step of its own.  Writing the eventfd (`Wakeup`) and storing `stop_` are
steps of their own.  `EpollClients` lets `epoll_wait` return without the eventfd
even if it is readable, for a batch full of other descriptors.

### ThreadPool

`cv.wait(lck, pred)` is the loop of its definition.  Testing the predicate
(`PredFalse`) and going to sleep (`Sleep`, which releases the lock) are two
steps: `notify_one` and `notify_all` need no lock, and an atomic `stop` may be
stored between them.  Spurious wakeups are allowed.  The constants
`StopUnderLock` and `LateEnqueue` select the pool:

| | `StopUnderLock` | `LateEnqueue` |
|---|---|---|
| stand-alone `Threadpool` | TRUE | FALSE |
| reactor's `Threadpool` | FALSE | FALSE |
| `Tpl` | FALSE | TRUE |

### Tcpserver

A Connection is named by its client, a descriptor is a number, and `Addr` are
the heap cells: `NewConnection` may return any free cell and any free
descriptor, also those just freed by another thread.  A pointer to a deleted
Connection is followed through its cell (`At`): a new Connection in that cell
takes the effect, as it would in the program; with the cell free the program
dies or the statement does nothing (`Dangling`).  `stale` records which kind of
pointer was used after its object was gone, so that properties can say exactly
who does so.  `mpc`, `lpc` and `wpc` place the main thread, the IO threads and
the workers between the statements of the code; each lock_guard block is a step.

`edge` is what epoll has to report: an event arrives once (`EPOLLET`), but a reset
of a descriptor on which `remove` was called is reported at each poll, since
`remove` leaves it on the tree without `EPOLLET`.  Another `remove`, or the
`enabwriting` of `send_inloop`, then adds it a second time and ends the process
(`Close`, `RunTask`).  `sendmessage` replies at once only in the thread of the
Connection's own loop; a stale pointer could lead an IO thread to a Connection
of another loop, and it then leaves a closure (`ReadMessage`).

`expired` is a history variable: the timer has found a Connection expired.  From
then on an IO thread may hold a pointer to what the timer deletes, in its batch or
while it closes, and use it at any later time.  Where a property speaks of the
time until then, it does not speak of the time between two later alarms.

### Connection

A handler runs to its end in one step, since only the IO thread touches the
buffers; `Poll` is a step before it, because the kernel and other threads go on
between `epoll_wait` and the handler.  `ready` is epoll's ready list, which an
edge-triggered item enters at an event, or at an `epoll_ctl` that finds the
socket ready, and leaves when it is reported.  `updatechannel`, `removechannel`,
`enabwriting`, `disabwriting`, `disableall` and `remove` are functions on the
channel.  `send_client` follows the error a reset leaves on a socket: the
first `send` returns `ECONNRESET`, the next raises `SIGPIPE`.
`callbacks` counts the calls of the main thread: four in `newconnection`, after the
constructor has registered the descriptor with a running loop, and four in
`handle_timer`, which set them to `nullptr`.

`remove` clears `inepoll_` before `removechannel` tests it, so `EPOLL_CTL_DEL` is
never called: the descriptor stays on the tree, with errors only, until it is
closed.  The `EPOLL_CTL_MOD` in `remove` itself puts a socket that was reset on the
ready list again, and the next `remove` ends the process.  As a rule the
Connection is deleted first; it is not while the close callback is not set: before
`newconnection` has set it and after the timer has taken it away
(`ExitsOnlyWhenClosed`).

### SingleReactor

Everything the program does is done by one thread, so a step goes from one
system call to the next, and clients and kernel act in between: `Poll`
(`Epoll::loop`), then for each channel of `batch`, in its order, `Accept` or
`AcceptFails`, or `ReadEnd`, or `ReadAll` followed by one `HandleMessage` for
each message, each with its `send`, up to `StopParsing`.  `ready` is the ready
list in its order: client sockets leave it when they are reported, the
level-triggered listening socket goes to its end.  A Connection exists as long as
it is in `connections`, which owns it.  `replies` keeps what `send` took of each
reply: 2 units, 1 if the buffer became full, and no entry if it was full; the
code does not look at the result, so the rest is lost.  A poll splits `ready` into
what it reports and what it keeps, each in the old order (`Filter`).

### Lifecycle

`mpc` is where the main thread is in `main`, the constructors and the main loop,
and `xpc` where it is in `Stop_tcp` and `exit` once a signal or a failed system
call has brought it there; `mpc` then says where it was interrupted, since the
handler never returns.  The IO threads are
`Pool == INSTANCE ThreadPool` with the loops as its closures: `Enqueue`,
`NotifyIo`, `EnterRun`, `LeaveRun`, `StopPool`, `NotifyPool` and `JoinPool` are
its actions `Emplace`, `NotifyOne`, `Take`, `Run`, `SetStop`, `NotifyAll` and
`Join`, placed where the program performs them, and `PoolUsedAsSpecified` says
that nothing else happens to the pool.  What one action of `Lifecycle` joins the
modules before it have apart: the steps of `addtask` and `stop` (`EventLoop`),
those of `newconnection`, the timer and a close (`Tcpserver`).  `tpl` is
`"overslept"` when the worker is between the predicate and its sleep as `~Tpl`
stores the flag and notifies; the next closure wakes it, if one comes.

`exit` destroys `Tpl` before it joins the IO threads, and `HandleMessage` calls its
`size` and `enqueue` whenever a message comes.  When `Tpl` is gone these are
undefined: the model records the use (`tpl = "used"`), the closure is lost, and the
process dies or goes on.

Assumed: the kernel gives a signal for the process to the main thread, as Linux
does while that thread does not block it; there is one signal; the locks of the
standard streams and the allocator, which the handler also takes, are not modelled
(they give the same hang as `m_mutex`); IO threads do not call `exit` themselves.

Three things keep `exit` from returning, and the definition of `Stuck` names
them; the model needs all three:

* the signal came while the main thread held `m_mutex` (`newconnection`,
  `handle_timer`), and an IO thread waits for it in `closeconnection`;
* a thread of `Threadpool`, or the worker, slept through `notify_all`;
* a constructor called `exit(-1)` after a loop was started: nobody stops it.

A signal before `es` is assigned meets a null pointer (`NoServer`): the process
dies of that without touching the pools.

### Codec

A message is a sequence of bytes with values `0 .. Base-1`, a header four of
them, least significant first and signed, as in an `int`.  `getmessage` copies
the header before it knows that four bytes are there.  `Fetched` is the set of
what it may get: the bytes of the buffer, the terminator of the `std::string`,
then stale memory.  `HeaderIsGenuine` says why this is harmless: the terminator
makes a partial header decode to a length that is too large, or negative and
then, compared unsigned, larger than any size.  (`Base > 4` is needed for this,
and 256 is.)

`window` tells the two clients apart.  `client.cpp` of the reactor sends a
message and waits; that of the single-threaded reactor sends all and then
receives one reply more than there are, until its timeout.  Both ignore what
`recv` returns; once one returns less than it was asked for, the model stops
following the client (`"lost"`), which takes text for lengths from there on.  The
server answers each message where it is parsed, as both programs do
(`tcp.cpp:22` starts no worker).

`LengthAssumption` says that the length of a reply is an `int` that is not
negative: the lengths in the code are `int`s, and both clients keep messages and
replies in buffers of 1024 bytes.

The text `" "` is a message like any other on the wire, and `getmessage`'s
answer when there is none: `onmessage` drops it and leaves what is behind it in
the buffer.  `StaysInFrame` and `RepliesMatch` hold of such messages too,
`AnswersArrive` leaves them out, and neither client sends one.

## Runs

All runs switch the deadlock check off, because all of these systems may come to
rest: clients need not send, and a stopped loop, a destroyed pool and a closed
connection take no more steps.

| Run | Question | Result |
|---|---|---|
| `EventLoop` | Does the hand-off forget a closure, a wakeup or a stop? Does it implement `Handoff`? | no; yes |
| `ThreadPool` | The same of a pool that stops under its lock, up to the return of its destructor | holds |
| `Tcpserver` | Is the map exact, do IO threads touch only the living, are messages answered, before the first alarm? | holds, although workers may use dead Connections |
| `Tcpserver_timer` | With the alarm and without workers: do replies reach their client, is everything reclaimed? | holds, the first until the timer finds a Connection expired |
| `Tcpserver_stray_reply` | Does each reply go to its own client? | violated: closures outlive their Connection, whose memory is used again |
| `Tcpserver_stale_setup` | Is a Connection alive while `newconnection` sets it up? | violated: the IO thread may delete it as soon as the close callback is set |
| `Connection` | Is input overlooked, output forgotten, a message lost, doubled or reordered? When can a channel operation or a `send` end the process? | holds, with the exceptions the properties name |
| `Connection_reply_left` | Is a reply sent once the socket is writable, at the latest before the timer ends the Connection? | violated: a write event reported with a read event is dropped, and the reply goes with the Connection |
| `SingleReactor` | Do the pointers of a batch stay good? Is each client accepted, served and answered in order (`Echo`)? | holds |
| `Lifecycle` | Does every loop come up? Is a thread left when the server is freed, whenever the signal comes? Does the process end? | none is; it ends, or hangs for a reason `Stuck` names |
| `Lifecycle_hang` | Does the process end after a signal? | violated: an IO thread that has left `run` sleeps through the stop of its pool |
| `Codec` | Is the stream ever misread, whatever the cuts? Does each client get its replies, and all of them? | no; yes, up to a short `recv` and a text `" "` |

The violated properties quote what a comment or the iteration log says of the
program; `PROJECT.json` gives the quotations under `findings`.

What some of the properties do not say:

* `SetUpIsAnswered` names two gaps, the set-up and the close, and is checked without
  the alarm.  The timer, which takes the callbacks away, is a third.
* `MapExact` ends at the first use of a dead pointer by an IO thread or by the timer.
  It is checked before the first alarm, and proved with the timer.
  A Connection that both delete at once is such a use: the model has it, and no
  property forbids it.  The same goes for its walk of the map, without the mutex,
  to an entry that an IO thread has erased.
* `EveryMessageAnswered` leaves out messages that were read before their callback
  was set, and clients that send `" "`, whose next messages may stay in the buffer.
  The idle timer is not fair there; it would end every Connection.
* `NothingOutlivesTheServer` is about the server, which goes last.  `Tpl` goes first,
  and IO threads may call it when it is gone (`HandleMessage` in `Lifecycle` has it).
* `ExitsOnlyWhenClosed` names the two ways in which a reset makes a channel operation
  end the process; nothing in the code closes them.
* `EndsOrStuck` permits the hangs that `Stuck` names.
* `ImplementsEcho` is about order and repetition.  Whether a reply is whole is not
  asked: `send`'s result is ignored in that program.
* `RepliesMatch` ends at the client's first short `recv`.

### Bounds

* `EventLoop`: two callers, three closures, one stop.  Two closures can be
  announced by one reading of the eventfd while a third is under way.  The
  safety properties are proved for any number.
* `ThreadPool`: two workers, two callers, three closures: a notification can
  find each worker running, asleep or about to sleep, and there are more
  closures than workers.  Safety is proved for any number.
* `Tcpserver`: two clients, two descriptors, two cells, two loops, one worker:
  the smallest instance where a descriptor or a cell gets a second owner while
  pointers to the first are about, and where both loops or one have the work.
  Of the two clients one may reset its connection.  In `Tcpserver_timer` there is
  one cell, so that each new Connection takes the place of the one before it, and
  no worker, and the liveness check stays small; `MapExact` is
  proved without these bounds.
* `Lifecycle`: two IO threads and loops, so that one loop can be stopped, running
  or unborn while the other is in any other state; one connection for each, so that a
  close can wait for `m_mutex`; no worker or one, and one closure.  `Lifecycle_hang`
  needs no worker.  Safety is proved for any number of threads.
* `Codec`: three messages, so that one is ahead of, and one behind, a message cut
  at any byte; texts of no, one and two bytes and `" "`; `Base = 6` and a prefix
  of four bytes, so that a reply's length needs a second byte of the header.
  Safety is proved for every size of byte, every set of texts whose replies have
  lengths that are `int`s, and any number of messages.
* `SingleReactor`: two clients, one with two messages, one with `" "`; one or two
  descriptors, so that a descriptor is used again and `accept` fails; one or two
  events for each `epoll_wait`, so that a batch holds both connections, or fewer
  sockets than are ready; a send buffer of two units, so that replies are cut
  and lost.  Safety and the implementation of `Echo` are proved without bounds.
* `Connection`: three messages of two units and a send buffer of three, so that
  replies leave in parts; no worker, one or two; the second message may be
  `" "`.  A message is split at most once, which is enough for "incomplete":
  the code makes one comparison.  Safety is proved for any number of messages and
  workers and any send buffer.

### Fairness

* A thread that can take a step takes one in the end: weak fairness of each
  thread's steps.
* A thread that keeps asking for a mutex gets it (`SF(Lock)` in `ThreadPool`):
  other threads may take it in between, and the pool does not need more than
  this of `std::mutex`.
* A level-triggered eventfd is reported in the end although client events keep
  coming (`SF(EpollWake)`): the kernel puts a reported level-triggered item at
  the end of its list.
* `Tcpserver`: the alarm is set again each time it is handled; a connection on
  which nobody sends is found idle in some walk (`SF(Expired)`).  Nothing makes
  clients send or close.
* `SingleReactor`: weak fairness of the one thread; clients need not do anything.
* `Lifecycle`: each thread goes on (`WF`); nobody has to connect, send or signal.
  Its liveness needs no fairness of the locks.
* `Codec`: the server's loop and the client's program go on; a `recv` never has to
  come back short.
* `Connection` (`PoliteSpec`): the peer receives what was sent and finishes each
  message it has begun; it need not send.  The main thread goes on with the set-up,
  and with a deletion it has begun.  That the alarm expires every idle Connection
  is left out, since `EveryMessageAnswered` would hold by that alone.

## What is proved

All theorems hold for every value of the constants that the modules' named
assumptions allow.

* `EventLoop_proof`: `Typing`, `NothingForgotten` (`NoLostWakeup`),
  `StopNoticed` (`StopIsNoticed`), `HandoffSteps`.  `NoLostWakeup` is not
  inductive: the invariant adds that a closure in the queue has a wakeup behind
  it (the eventfd is not zero, or a caller stands between push and wakeup)
  unless the loop is on its way to drain it, and who holds the mutex.
* `ThreadPool_proof`: `Typing`, `NoneStranded`, `Drained`, `StopReaches`,
  `HandoffSteps`.  `NoStrandedTask` compares the length of the queue with the
  number of those coming for it, so its steps are about cardinalities of sets
  that gain and lose one element.  `Drained` assumes that callers are done
  (`~LateEnqueue`), `StopReaches` that the flag is set under the lock; neither
  `NoneStranded` nor `HandoffSteps` needs these.
* `Lifecycle_proof`: `Typing`; `FreedLast` (`NothingOutlivesTheServer`); `PoolUse`
  (`PoolUsedAsSpecified`), which composes the program with `ThreadPool`.  The
  invariant says that a loop whose `run` has begun and not returned has a thread
  in it (`RunOK`), so that threads that have left the pool leave no loop running;
  that the main thread is not inside `enqueue` when `exit` runs (`EnqueueOK`); and
  in which order the destructors go (`OrderOK`).
* `Tcpserver_proof`: `Typing`; `MapStaysExact` (`MapExact`), with and without
  timer and workers; `LoopsMeetTheLiving` (`LoopHoldsLive`).
  The invariant has parts: living Connections have distinct descriptors and
  cells and are not in the backlog (`HeapOK`); what an IO thread is closing was
  accepted before (`ClosingOK`); what epoll has to report exists (`EdgeOK`);
  where the timer's iterator may point (`IteratorOK`); and exactness together
  with the positions of the threads (`ExactSoFar`).  For the loops
  `SilentInv` adds that until the timer finds a Connection expired what an IO thread
  holds exists and belongs to its own loop, and that what it is closing is not in its
  batch.  What stale closures do
  disturbs none of this: `send_inloop` and `sendmessage` change no pointer of
  the map or of an IO thread.  Three theorems say where the program's dead
  pointers are *not*, until the first alarm that finds a Connection expired: the map
  is exact without the exception `MapExact` makes (`MapAlwaysExact`); without
  workers, which is how `main` starts the server, every reply goes to its own client
  (`RepliesWithoutWorkers`, for `NoStrayReply`), because each IO thread holds
  living Connections of its own loop only and so `sendmessage` never leaves a
  closure; and without workers the set-up in `newconnection` and the timer's walk
  are the only statements that can use what is gone (`OnlySetUpIsStale`).
* `Connection_proof`: `Typing`; `NoInputOverlooked` (`InputIsReported`);
  `WriteEvents` (`WritesWhileUnsent`); `OneAnswer` (`AnsweredOnce`);
  `RepliesKeepOrder` (`RepliesInOrder`); and the action properties `ExitNeedsGap`
  (`ExitsOnlyWhenClosed`) and `SigpipeNeedsWindow` (`SigpipeOnlyInWindow`).  None but the types
  is inductive by itself.  The invariant adds that the item on the epoll tree
  watches what the channel says until `remove`, and that after it the next update
  fails (`ChannelOK`); that nothing is on its way between the threads before the
  message callback is set, and that a closed Connection that is still there is
  only reported for a reset (`ClosedOK`); which events `epoll_wait` can report together, which is why
  a write event without input meets a broken pipe only behind the end of the stream
  (`ReportOK`); that a message is at most
  once in the pool's queue and with a worker (`PlaceOK`); and for the order, that
  with one worker the message it has comes before all that are queued and behind all
  that are in `task_queue` and the replies (`OrderOK`).
* `SingleReactor_proof`: `Typing`; `NoDeadChannel` (`BatchIsLive`);
  `NoInputOverlooked` (`InputIsReported`); `EchoImplemented` (`ImplementsEcho`), the
  refinement step by step: a unit that completes a message is `Ask`, a `send` that
  takes anything is `Answer`, the rest stutters.  The invariant says who waits outside
  and in the backlog (`WaitOK`), that the ready list has no channel twice and
  none without a Connection (`ReadyOK`), what the head of the batch is while
  replies are sent (`HandleOK`), and that no reply is to a message that was not
  parsed (`ReplyOK`), which gives `Answer` its guard; what `Filter` returns is settled
  with the rank of an element (`FilterElements`).  `AnswersInOrder` carries over
  what `Echo` promises: that each client is answered messages it has sent, in their
  order and none twice, is inductive for `Echo`, and the refinement does the rest.
* `Codec_proof`: `Typing`; `StreamKept` (`StaysInFrame`); `RepliesKept`
  (`RepliesMatch`).  The invariant says that the input buffer and the bytes on the way
  are the frames of the messages sent and not cut off (`ServerOK`); that the
  bytes to the client are the frames of the replies due, less the header it has
  read (`ClientOK`); and that a client that closes has its `Count` replies
  (`CountOK`).  The proof has three layers.  The arithmetic of a header: four digits
  give the number back (`HeaderInverse`), and a partial header with the string's
  terminator decodes to a length that the test refuses (`PartialHeader`).  Streams:
  `FlattenSeq` takes concatenation to concatenation (`FlattenConcat`).  Cutting: what
  is cut off the front of a stream is its first frame, wherever the reads cut
  (`ServerCut`, `ClientCut`).
* `SequenceLemmas`: what is in a sequence, and in what order, after `Append`, `Tail`,
  concatenation and a cut, and that a set of numbers has a least element (`Least`).

Induction is the difficulty under the last two.  The library's induction theorems
cannot be instantiated, so an induction on a length is done on the set of lengths
for which the claim holds: if it lacks a number it lacks a least one (`Upto`, from
`Least`, from the well-foundedness of `<`).  `FlattenSeq` is shown to be a
recursive function first (`FlattenFunction`).

Every invariant that a passing run checks is stated by a theorem.  Only
model-checked: the liveness properties (`StopEndsRun`, `DestructorReturns`,
`SetUpIsAnswered`, `ClosedIsReclaimed`, `EveryMessageAnswered`,
`EveryClientIsAccepted`, `EveryClientIsServed`, `LoopsComeUp`, `EndsOrStuck`,
`AnswersArrive`) and the liveness half of `ImplementsHandoff`, whose steps
`HandoffSteps` proves: temporal fairness and `ENABLED` are out of the prover's
reach.  Liveness is checked at the bounds above and no further.

## Not modelled

* `epoll_wait` interrupted by a signal that the program does not handle, and
  failures of `timerfd_create`, `eventfd` and `pthread_create`.  Failures of
  `socket`, `bind`, `listen`, `epoll_create`, `accept` and `send` are modelled
  (`Lifecycle`, `SingleReactor`, `Connection`).
* A second signal, and the locks inside the C++ library that the handler takes.
* `handle_timer` walks the map without the lock.  `Tcpserver` has what this does
  to its iterator (`UseIterator`: the entry may have been erased), not what a
  concurrent erase does to the nodes of the tree on the way.
* Messages read together with the end of the stream are dropped with the
  Connection (`ReadEnd` in `Connection`, `ReadToEnd` in `Codec`): a client that
  shuts down its sending side before it has its replies loses them.
* In `Tcpserver`, a message read before `setmessagecallback` is dropped and an
  end read before `setclosecallback` leaves the Connection to the timer, or to a
  reset, which then ends the process; the module has all of these, and the answers
  and the reclaiming are stated around them.
* Socket options, addresses, time stamps, printing and the load scripts.
* In the single-threaded reactor, `sendmessage`, `setwritecallback` and
  `outputbuffer_`, which have no caller; `errorcallback`, since a socket watched
  for input reports an error together with input; the callback for timeouts,
  since `epoll_wait` has none.

## Plan

1. `Handoff`, `EventLoop`: modelled, checked; safety and the steps of `Handoff`
   proved.
2. `ThreadPool`: modelled, checked; safety and the steps of `Handoff` proved.
3. `Tcpserver`: modelled, checked; safety proved, and which pointers can go stale
   until the timer finds a Connection expired.  Left: what can go stale after that,
   when the timer and an IO thread may delete the same Connection.
4. `Connection`: modelled, checked; safety proved.
5. `Lifecycle`: modelled, checked; types, order of destruction and the use of the
   pool proved.
6. `Codec`: modelled, checked; safety proved.
7. `Echo`: stated, implemented by `SingleReactor`, proved.  (`Connection` says the
   same with `AnsweredOnce` and `RepliesInOrder`: its one `send` may finish several
   replies, which no single step of `Echo` does, and with two workers they change
   places.)
8. `SingleReactor`: modelled, checked; safety and the steps of `Echo` proved.
