# A TLA+ verification of libfon9

libfon9 is a C++ base library for low-latency trading programs: threads and
timers, devices for sockets, FIX and exchange sessions, market data, trees of
data for administration, remote calls. This directory holds TLA+ models of its
core mechanisms, what TLC checks of them on small instances and what TLAPS
proves of them for all instances.

    tlc -workers 2 -config <run>.cfg <Module>      # a run of PROJECT.json
    tlapm <Module>Proofs.tla                       # the proofs

`PROJECT.json` lists components, runs, the mutants that break each property,
the lines of the source every definition stands for, and the hazards the
properties are meant for.

## 1. The system

    FIX session  <->  io::Session  <->  io::Device  ->  AQueue  ->  default thread pool
        |                                   |                          (MessageQueue)
    FixRecorder -> Appender (file)       FdrService (epoll threads)
                                            |
    PkReceiver -> PkContFeeder           TimerThread <- every timer: Device, PkContFeeder,
        |                                                FixSession (through its Device), SchTask
    market data channels -> symbols -> subscribers -> rc / web

Threads: the pool runs the tasks of queues, one epoll thread (or more) the
events of sockets, one timer thread all timers, the application sends from
threads of its own. Nearly everything hard about the library is where these
meet, in short critical sections with the work done outside of them.

| component | state | operations | what is hard | what makes it correct |
|---|---|---|---|---|
| `AQueue` | worker state, kinds of work in place, queued tasks | AddTask, ALocker (in place or not), InplaceOrWait, TakeCall | every operation is a critical section plus an unlocked post or job; a caller may ring, or rely on someone else to | exclusion, order, no task forgotten, no second worker |
| `io::Device`, TCP client on epoll | device state, addresses, socket, send buffer, enabled events, `CommonTimer_` | open, close, linger, dispose, send, the socket's events, timer, name resolver | four kinds of threads; events of a replaced socket; work in place against tasks | order of the data; somebody always goes on with sending, receiving, retrying, closing |
| `TimerThread`, `TimerEntry` | timers in line, the one being called, the thread's sleep | RunAt, RunAfter, Stop/Dispose (no wait or wait) | calls outside the lock, stop against a running call, missed notification | a timer in line is called, a stopped one is quiet |
| FIX session | the two sequence numbers, kept messages, range under request, session state | send, replay, gap fill, reset, receive, logon, test, logout, timer | loss with the link, gaps in replays, operator's resets | every Report exactly once and in order; the sides agree |
| FIX replay | the record, the flag `IsReplayingAll_` | Replay against Send and SequenceReset of other threads | the record is read without the lock | no gap on the line |
| `FixRecorder` | numbers in memory, lines in a file written later | Write*, reset, IDX lines, Initialize | a stop at any point | the numbers are found again |
| `PkContFeeder` | next number, pendings, timer | FeedPacket, timer, Clear | several receivers, timer against feeder, overflow of numbers | in order, nothing waits for ever, losses are counted |
| TCP server (`TcpServerBase`, `FdrTcpListener`, `DeviceListener`) | the listener in use, its clients by number, a client's state | open, reopen, close, accept, refuse, aclose, error of the socket | accepting against Dispose; clients leave the list in their own threads; an error of an old listener | the list is that of who is up; one listener is in use; who is in the list goes with it, and is freed once |
| datagrams, files, IOCP | like Device | | | not modelled |
| `SchTask` | configuration, state, when the timer calls | Check, Start, Restart, stop, the timer's call | the timer's call against the owner's calls; no telling after a stop | the owner is told what the schedule says, of changes only; a Restart is carried out |
| `MessageQueue`, `ThreadController`, `DefaultThreadPool` | queue, thread state, who waits | add, wait, take, end (now, after work), barrier | a message without a notify; the pool ended while threads fall asleep | no message waits beside sleeping threads; what was accepted is done; the end returns |
| `Appender`, `LogFileAppender` | queued nodes, nodes being written, worker, waiters | append, write, rotate, flush, wait for consumed, destroy | waiters called outside the lock; control nodes under it; errors | written once and in order; who waits is woken |
| multicast channels of the futures exchange (`ExgMcChannel`, `ExgMrRecoverSession`) | channel state, snapshot rounds, sessions, what was asked | packet, snapshot, request, answer, error, suspend | sessions that leave with a request; a round that is not whole | a gap is recovered or given up; the book is whole and continuous |
| trading lines (`fmkt::TradingLineManager`, `LocalHelper`) | lines, queue, flow control, whom it helps | send, queue, reject, line ready or broken, help | lines that break while a queue is sent; managers that help each other | each request at one place, in order; a queue is never left to nobody |
| TMP order lines (`ExgLineTmpSession`, `ExgLineTmpLog`) | numbers of both directions, log, header | logon, report, order, reopen | a stop between report, log and header | no report and no number is skipped or used twice |
| `rc` sessions, `PoDupLogon` | session state, who is online, the policy | version, logon, logout, calls, kick, policy change | the lock is free between the table and the telling | places are counted and given back once; who was told to go goes |
| Inn files (`InnFile`, `InnStream`, `InnApf`) | rooms in a file, what waits for a stream, streams to be looked at | append, flush, read, update, destroy, make | a flag under several locks; a stop between two writes | a stream is what was appended; the file can be read after any stop |
| `Subject` | subscribers in order, the index of the publication | subscribe, unsubscribe, publish, clear | all of it is called from within a publication | everybody is called once; the index follows |
| `rc` subscriptions (`RcSvcReqSubr`, `RcSeedVisitorServer`, `RcSvsTicket`) | the client's indices and requests that wait, the server's list, the seeds' subscribers | subscribe, unsubscribe, answer, notify, end, link broken | answers that cross an unsubscribe; an index that is used again; the tree is looked for unlocked | what comes is for who has the index; both sides agree; nobody else is unsubscribed; who asks is answered |
| the rest of `auth`, `rc`, `seed`, `web` | policies, trees, subscriptions | visit, subscribe | messages that cross | not modelled |
| buffers, conversions, FIX text, decoders, cryptography | data | pure functions | | conversions are candidates for reference definitions; the rest is not modelled |

`PROJECT.json` has the same list with the files and a reason for each part that
is not modelled.

## 2. The modules

| module | what it models | source |
|---|---|---|
| `SerialOps` | what AQueue promises: tasks one at a time in order, exclusive jobs in place | AQueue.hpp, as its users rely on it |
| `AQueue`, `MCAQueue` | the queue itself | fon9/AQueue.hpp |
| `QueueProofs` | proofs about AQueue, among them that it implements SerialOps, and about TradingLine | |
| `TcpClient` | the TCP client device on epoll | io/Device, SocketClientDevice, FdrTcpClient, FdrSocket, SendBuffer, FdrServiceEpoll |
| `TcpClientProofs` | data in order, nothing left to nobody, disposed for good, for any senders and configurations | |
| `Timer` | the timer thread and its timers | Timer, ThreadController |
| `FixEngine` | one FIX engine as operators on a record | fix/FixSession, FixReceiver, FixSender, FixRecorder |
| `FixLink` | two engines over a link that breaks | EXTENDS FixEngine |
| `SessionProofs` | of FixLink: each Report handled once and in order, nobody ahead of its peer, ready only after the recovery; of Timer: the line matches the keys, a stopped timer is quiet, no timer is slept over | |
| `FixReplay` | an open-ended replay with other threads sending | fix/FixSender, FixRecorder_Searcher |
| `FixRecorder` | the record file, stops and restarts | fix/FixRecorder, FixRecorder_Searcher |
| `FixRecordProofs` | the numbers are recoverable and a replay leaves no gap, for any record | |
| `PkCont` | packets in order | PkCont |
| `McRecover` | lost packets asked for again | f9twf/ExgMcChannel, ExgMrRecover |
| `McSnapshot` | basic info, snapshot and real-time channel wait for each other | f9twf/ExgMcChannel |
| `TradingLine` | requests, lines, queue and helpers | fon9/fmkt/TradingLine, TradingLineHelper1 |
| `TmpLine` | a TMP order line and its log | f9twf/ExgLineTmpSession, ExgLineTmpLog |
| `LogFile` | the log file with writer, rotation and flushers | Appender, FileAppender, LogFile, Worker, buffer/DcQueueList |
| `ThreadPool` | a queue of tasks, its threads and its end | MessageQueue, ThreadController, DefaultThreadPool |
| `SchTask` | a daily schedule and its task | SchTask |
| `ThreadProofs` | of ThreadPool: messages in order, none beside sleeping threads, who ends the pool is told, what was accepted is done; of SchTask: Check is right for any week, the owner is told what it says, a stopped task is quiet, only changes are told | |
| `RcLogon` | sessions of an rc server that log on as one user | rc/RcSession, RcFuncConnServer, auth/PoDupLogon, SaslScram |
| `RcLogonProofs` | a user has as many sessions online as the policy allowed, and no others | |
| `RcSubscribe` | subscriptions to seeds over an rc session | rc/RcSvcReqSubr, RcSvcReq, RcSvcAck, RcSeedVisitorClient, RcSeedVisitorServer, RcSvsTicket, ObjPool, Subr |
| `InnApf` | streams in one file | InnApf, InnStream, InnFile |
| `Subject` | a subject that is used while it publishes | Subr, SortedVector |
| `Listener` | a TCP server on epoll and the clients it accepts | io/TcpServerBase, FdrTcpServer, Server, Device, FdrServiceEpoll |
| `ListenerProofs` | the list is that of the clients, one listener is in use, nobody is left behind, a device is freed when nothing uses it | |
| `MCMarket`, `MCMarketPromises` | instances of the market's modules, side by side | |
| `MCServices`, `MCServicePromises` | instances of the framework's modules, side by side | |
| `MCServicesProofs` | what is proved of FixReplay, ThreadPool, SchTask, RcLogon, Listener and TradingLine holds of the instances that are checked | |

How the pieces fit: TcpClient uses the queue by its contract (tasks in order,
none together with a job in place of another thread), which is what AQueue is
proved to implement. FixLink's channel, ordered while the link is up and empty
when it breaks, is what TcpClient's `SentOnItsSocket` establishes for one link.
FixLink takes a recorder that loses nothing; FixRecorder is about what a stop
leaves. ThreadPool is the pool AQueue posts to and LogFile's worker runs in.
A client of Listener is, once it is
accepted, the device that TcpClient has from LinkReady on.
McRecover takes from PkCont that what waits is given or given up, SchTask and
LogFile from Timer that a timer that is due calls. FixLink takes a handler of an engine as one step; FixReplay opens the
one handler that the code runs partly without its lock.

### AQueue
An action is one critical section; the unlocked parts are actions of their own
(posting TakeCall to the pool, running a task, leaving a job). `workingKind`
and `countGetter` are the flags, `inplace` the jobs they stand for, `posting`
and `calls` the TakeCalls that are coming. `done` is a history of the tasks
run.

### TcpClient
`dev` is the device with its socket in `dev.sock`: id, connecting or connected,
the SendBuffer (`status`, `sending`, `queue`), the enabled events `bits`,
whether epoll has the handler (`reg`), what is pending for the fdr thread. An
action is a critical section or a whole task of the op thread; sending in place
is four actions (take the flag, write unlocked, look at the queue, leave) since
others may push meanwhile. The fdr thread takes an event (`FdrEvent`) and
handles it in a later step, so that the device may have replaced the socket in
between; sockets are told apart by a number, never reused. Data is the number
of the message: order is all that matters.

### Timer
One critical section is one action. StopAndWait and DisposeAndWait go round
(`call[c]`) while the timer is being called; RunAfter reads the clock before
it takes the lock. The thread sleeps until `wakeAt` or a notification; a
timer's call is the caller `TimerThr` with the same operations.

### FixEngine and FixLink
A handler calls one function after another on the same engine, so each function
is an operator from an engine to an engine, `out` being what it sends; FixLink
moves `out` to the channel. A message is a type, a number, PossDupFlag and two
numbers. `Report` stands for types that never expire (kept over a gap,
replayed), `Order` for those that may have expired when they are replayed
(any subset of them, at each replay).

Constants that describe the environment, not the code: `AppStates` are the
session states in which the application uses its FixSender; `ForeignSides` are
engines of another vendor, which count a ResendRequest as a message and answer
the whole of a range. fix_link has one, since between two fon9 engines two of
the divergences of section 6 (counting, the end of a range) occur within a few
steps and everything after them is a consequence; the fon9 side is the code in
full, its peer differs in these two operators only (`NoPreRecord`, `Rest`).

### FixReplay, FixRecorder
FixReplay: `ReplayStart` and `ReplayEnd` hold the recorder's lock, `ReloadNext`
does not. FixRecorder: `Crash` may come between any two lines, also of one
call, and between the device and the recording of a message; `Initialize` is
the backward search.

### PkCont
A packet is known by its place in the stream, of which the code sees `Wire`.
FeedPacket unlocks before it starts the timer, so `feeder[f] = "run"` is a
state between; Clear first waits for the timer, then locks.

### McRecover
A channel over PkCont's contract (`ch`: next number, pendings, what was given
and lost) and its sessions: `recovers` is RecoverRequestors_' order, `st` and
`ready` a session's state, `asked` what it was asked and by whom, `todo` the
requests it keeps for later. `called` is the state between the timer thread's
call and its work, in which the channel may receive, and a session's break,
error or answer may overtake. Other channels share the sessions; they are only
their requests (`others`). `orphaned` remembers a case of section 6.

### McSnapshot
The three channels of a market, each with its pendings, its state and its log.
A round of the snapshot is its messages' numbers; `net.last[r]` is the number
of the last real-time packet that round r covers. Basic info going round is
two steps (`doing`), since the channel unlocks before it tells the others.
`out` is what the symbols were given. Three constants say what the environment
grants: that the first real-time packet after the start arrives, that rounds
are apart by more than the feeder waits, and that one thread receives for the
three. Without the first `BookIsContinuous` is refuted, without either of the
others `SnapshotFirst`: the code relies on them, and nothing in it says so.

### TradingLine
A manager's critical sections, the queue sent request by request (`loop`), the
flow control's timer, lines that are ready, busy, full or broken, an offer that
works for one asker at a time (`working`, `notices`). What a line answers is
the environment's choice in `Send`; a choice of Broken has to be told later
(`tell`). A request's `fate` is where it is: it is neither lost nor doubled.

### TmpLine
`Receive` puts a report into the log, `Handle` gives it on and moves the
number: the process may crash between. `log.file` is what is on disk, `log.buf`
what the appender still has, `log.head` the header, which may be older than the
file, `Open` what a new process finds. The exchange sends again what is behind
the number of the logon, may leave one out (the line has to close) or lose one.

### LogFile
`queue`, `work`, `waiters`, `called` are the fields of the Appender; data nodes
are numbered, control nodes open a file, check the time or wake a thread. The
worker's state is Worker.hpp's. Under the lock a step is atomic; the write, the
call of the waiters and the post to the pool are steps of their own.

### ThreadPool
A step is one critical section of the queue's mutex, a task, or the arrival at
the barrier. A thread is running, waiting, notified or out; a waiting one may
wake by itself. The ender's calls (`pc`) are those of WaitDefaultThreadPoolQuit
or, by `plan`, of MessageQueue alone. `ExitHandler` is the handler of a Windows
console's end, which notifies from a thread of its own.

### SchTask
Time is seconds of a short week; `Check` is the code's in the form of what is
in schedule and when to look again, with `CheckIsRight` as its reference: at no
second before the next look does the answer change. The timer thread's call is
three steps (taken, locked, told). One thread calls Start, Restart and the
stops, as the owners in the library do.

### RcLogon
A session is called by its device's thread; `Hears` is a message by the
session's state, `closing` an asynchronous close in the device's queue. The
table of PolicyMaps_ (`table`, `count`) changes under its lock; `kicks` are
those who were found in it and not yet told, `pc` and `verdict` the logon
between the table and the telling.

### RcSubscribe
One tree, one session, and what another session has at the same seeds
(`others`). A subscription is a number (`asked`), so that an index that is used
again is told apart from its earlier use; on the line are indices with that
number beside them, which only properties look at. `pend` are the requests
that wait for the layout, `objs` and `free` the client's ObjPool, `seedIdx` the
seeds' SubrIndex_. At the server `list` is SubrList_, `regs` its RcSvsSubr,
`runners`, `unsubs` and `resets` what has been given to the tree: a subscribe
runner, and the two critical sections of an unsubscribe. A seed notifies with
its subscribers locked, so a notification and its sending are one step. A link
breaks at either side first; the server's list is moved out and taken apart in
two steps.

### InnApf
The file is `rooms` (a room's next, DataSize, cells) and `exHeader` (where each
recorded stream begins); everything else is the process and is gone with it.
`op[k]` is what is being done under the lock of stream k: the flush, the write
of cells, of DataSize, of a new room, its header and its link are steps, and
the process may stop after each. `pend` is PendingAppend_, `flag`
IsNeedsChangedUpdate_, `changed` ChangedStreams_; `at` is an appending thread
between its lock and CheckCurrInfoChanged, `upd` UpdateChanged in the pool or
in the destructor. What is appended is numbered, so that the order tells.

### Subject
`frames` are the calls of Combine that run, one within the other; whoever is
called by the innermost may call anything. `next` is NextEmitIdx_, `prv` what
each Combine will set it back to. A subscription has a number that is never
used again beside its SubConn; `due` and `given` are whom a publication has
still to call and has called.

### Listener
`ops` is the server's OpQueue_; `disp` is where its op thread is in
DeviceListener::Dispose, which is four steps (IsDisposing_ and the handler, the
swap of the list, each client, what comes after it), since the accepting
thread and the clients' queues go on meanwhile. `loop[l]` is the accepting
thread in OnFdrEvent_Handling: accept, the list under its lock, the list's
reference, Initialize and AsyncOpen, the log. `dev[c]` is the client's device
with its queue, its references (`refs`: the list, the loop, the fdr thread, a
queue that has tasks) and its connection (`peer`). `crossed` are the clients that
got a task, or whose listener was disposed of, between accept and the end of
Initialize; what becomes of them is in section 6. A read of IsDisposing_ without
the lock is one step with what follows it in the same thread up to the next lock.

### The unions
MCMarket and MCServices, and the two with promises, instantiate their modules
each with variables of its own, or, for a second instance of the same module,
with those of the first (`feed_nextSeq`, ...) and let one of them run
in a behaviour: `part` is chosen at the start and does not change, and the
others stand still at one initial state; a
property is stated for the part that runs. The states of a union are the sum of
its parts', not the product. Nothing interacts in a union; what one component
relies on of another is named above. Their properties are conjunctions of what
one component owes; the module has each part with its comment.

## 3. What the runs check

| run | instance | distinct states | shows |
|---|---|---|---|
| `aqueue` | 3 callers, 2 pool threads, kinds Get, Set, Send, Recv, 4 tasks | 70 thousand | exclusion, order, no lost wake-up, one call in flight, refinement of SerialOps; a task is run and a waiter returns in the end |
| `client` | 1 sender, the session sending from the fdr thread, 1 command, 2 sockets, 2 messages each, a configuration that cannot be parsed and a name, a retry after LinkError | 4 million | data in order; sending, receiving, retrying and a lingering close are never left to nobody; a disposed device stays so |
| `timer` | 2 timers, 1 client and the timers' calls, 2 starts, the thread ended or not | 380 thousand | line and keys match, sleep, stop; timers are called and waiters return |
| `fix_link` | 2 links, 2 application messages from either side, 8 numbers, 1 timer event that sends | 1 million | Reports exactly once, in order; no receiver ahead; ready only after recovery |
| `fix_commands` | 1 operator command, numbers set back to 1 | 130 thousand | numbers agree when quiet; recovering ends |
| `fix_replay_skipped` | 4 messages, 1 replay | violation | a Report is passed over |
| `fix_recorder` | 2 numbers, 5 lines, 2 starts | 400 thousand | the numbers are recoverable from the record |
| `log_locked` | 1 thread, rotation by size, a file that cannot be opened | violation | the log's writer waits for the lock it holds |
| `market` | PkCont: 6 packets, 2 copies, 2 feeders, overtaking by 2, Clear; and 7 packets across the overflow. McRecover: 4 packets, a Primary and a Secondary, 1 break, 1 error, 1 other request. McSnapshot: rounds of 4, 2 rounds, 3 real-time packets. TmpLine: 3 reports, 1 order, 3 links, 1 crash, 1 gap, 1 loss | 1.1 million | order, nothing left out, no book with a hole; no gap is left to nobody; numbers go on |
| `market_promises` | McRecover with 3 packets, TradingLine with 2 requests and 1 break, TmpLine with 2 reports | 27 thousand | gaps are recovered or given up, queues drained, reports handled |
| `services` | LogFile: 2 threads, a message each, 1 flush, 1 error. FixReplay: 4 messages, 2 replays. ThreadPool: 3 threads, 2 tasks, either way to end. SchTask: weeks of 2 days of 3 seconds, every configuration, 2 calls, 6 seconds. RcLogon: 2 sessions of a user, a policy of 2 or 1, either answer to one too many, changed once. RcSubscribe: 4 subscriptions to a seed, 1 change, every index used again; and 2 subscriptions to 2 seeds, one to a tab that is not there, 1 change, 1 break, another session. InnApf: 1 buffering appender, 1 reader, 3 items in rooms of 2, 2 lives; and 2 streams, 1 direct appender, rooms of 1. Subject: 4 subscriptions of 2 subscribers, 3 publications, nested twice with Unsubscribe and Clear, or one at a time with UnsubscribeAll. Listener: 2 clients, a capacity of 1, 2 listeners, 2 commands or errors, aclose and alclose; 3 clients with a capacity of 2; and 1 client with 3 commands or errors. TradingLine: 2 managers, one helps, 3 requests, 2 breaks | 1.6 million | what is written, replayed, taken, told, counted, accepted and subscribed is right; no request is left to nobody |
| `service_promises` | LogFile with 1 flush, PkCont with 4 packets, ThreadPool with 2 threads, a task and 2 rounds of the barrier, SchTask with a week of 1 day of 2 seconds, RcLogon with 2 sessions and either answer to a second logon, RcSubscribe with 1 seed, 2 subscriptions and 1 break, Listener with 1 client, 1 listener and 2 commands | 33 thousand | what these services promise happens |

Every property has a mutant of the code's definitions that breaks it under the
run's own configuration; they stand in the modules before the definition they
change ("Mutant: ..."). A property of several parts has one for each part.

**Why the bounds are enough.** AQueue: three callers let one job be in place,
one queue behind it and one wait; four tasks give two batches; two pool threads
give a TakeCall that comes too early or twice. TcpClient: two sockets give an
event of an old one, two messages a queue behind the one being sent, one
command meets every state because the device also opens, fails and retries by
itself; a larger instance (two addresses, two commands, one message) was run
once by hand. FIX: three losses in a row are needed for two gaps with kept
messages between and a replay that breaks; two links and eight numbers reach
it. PkCont: `kMaxGapAllow` is 4 with MaxSeqNo 9, more than six packets with
overtaking by two can use; two copies from two feeders give every race of the
timer's start. Timer: two timers give a new first one; MaxTime 1 gives due and
not due. McRecover: requests are for at most 2 packets, so a gap of 3 takes two
and may be shared by both sessions; one break, one error and one foreign
request are enough for every way in which the asked session leaves.
McSnapshot: a round of 4 has a message that is neither first nor last after
one is lost. TradingLine: three requests are one being sent, one in the queue
and one behind it. TmpLine: three links are one before the crash, one after it
and one after a gap. LogFile: one thread logs while the other flushes.
ThreadPool: of three threads one works, one sleeps and one is notified.
SchTask: two days give every pair of yesterday and today; a schedule may begin
and end on any second. RcLogon: with one place a second session is refused, or
let in for the first, while either breaks; that the places are counted with any
number of sessions is proved (section 4). RcSubscribe: four subscriptions let an
index be given up, used again and given up again while answers to its first use are
under way; two seeds let an index change its seed. InnApf: three items fill a room and begin the next;
the second life reads what the first left and may append to it; two streams
take turns in making rooms. Subject: of four subscriptions one is before, one
behind and one at the index, and one is new. Listener: with room for one, two
clients let one be refused, leave and make room, or take the other's number;
with room for two, three let one in the middle of the list leave; three commands
are an open, an error and a reopen that overtakes the error's task. Deadlock is not checked:
in each instance the bounded environment (tasks, links, packets, commands)
comes to an end, after which the system rests.

**Fairness.** aqueue: a thread that is between its unlock and its post, in a
job or in a task goes on, and the pool runs what was posted. timer: the thread
runs, the clock advances, a call that waits is scheduled; strong fairness of
`EmitEnd` says that a timer's call returns, whatever timers it starts. PkCont:
feeders finish their call and the timer thread works; no packet need ever
arrive. fix_commands: receivers and timers run again and again and a close that
was asked for is done; neither the link nor the application need do anything.
McRecover: a session's thread goes on, and the timer thread calls a timer that
is put in line again and again (strong: each packet may set it anew).
TradingLine: a manager's timer, its loop and the end of the request it works
on are scheduled although the lines' changes disable them in between (strong),
and a line tells that it is broken or ready. TmpLine: a link gets ready in the
end (strong), what a line has received is handled, a closing link ends.
LogFile: the pool runs a task, the timer calls, the writer and the waiting
threads go on. ThreadPool: threads are scheduled, a timed wait times out;
SchTask: clock, timer thread and owner go on; RcLogon: who waits in a device's
queue is called, and the timeout of a logon fires; RcSubscribe: both sides read what
comes, a tree runs what it is given and a broken link is cleared, while nobody
need call anything. Listener: the server's op thread, the accepting
thread and the clients' queues go on, and a peer that is told the end closes;
nobody need connect. TcpClient has no fairness:
"in the end it sends" is stated as an invariant that names who will, which
needs no scheduler and is the stronger claim here, since the peer may never
read. In a union a condition's parts are for one component each; the one that
runs is what it is about.

## 4. What is proved

QueueProofs, of AQueue, for any sets of callers and pool threads and any bounds:

* `TypeCorrect`, `Serialised` (OpSafe), `NoTaskForgotten` (NoLostWakeup),
  `RungOnce` (OneCallInFlight), `Fifo` (RunInOrder), and `Refinement`: every
  behaviour is one of SerialOps under the mapping of `pending`, `executed`,
  `opBusy` to queue and batch, history, and `taking`.
* The invariant: NoLostWakeup is not inductive. `TakeCall` returns without a
  word when a job is in place, so one has to know that the state is never
  `Ringing` then; that holds since a job in place leaves the state alone or
  rings only when the last flag is cleared, which needs that the flags are
  exactly the jobs in place (`FlagsExact`) and the counter exactly the getters
  (a cardinality). `IInv` is these together.
* Assumptions: the constants' types, callers finite and apart from the pool.

FixRecordProofs, of FixRecorder, for any numbers and any record:
`NumbersRecoverable` and `RecorderTypeCorrect`. What one more line does to the backward search is a lemma
(`LastSendAppend`, `LastRecvAppend`), and with it Recoverable is inductive: an
IDX or RST line is behind what it sums up, and its numbers are those after the
call.

SessionProofs, of Timer, for any timers, clients, intervals and bounds:

* `TypeCorrect`, `KeysInLine` (LineMatchesKeys), `StopIsQuiet`
  (StoppedIsQuiet) and `DisposedStays` (DisposedForGood). They rest on one
  invariant: only because the line holds just the timers whose key says so,
  each under that key, does Erase find what SetupRun put there, and only then
  is the timer that the thread takes out neither stopped nor disposed. A call
  under way knows its timer (`CallsOK`). What entering and leaving the line do
  is a lemma each, and every step that moves a timer cites one of them.
* `NeverOverslept` (NeverSleepsOverATimer), from the assumption that RunAt is
  not called for exactly one second ago (`OneBehind = FALSE`; section 6 has what
  happens then). It needs `Asleep`: a thread that sleeps
  without end has an empty line and says so in CvWaitSecs_, so a timer that
  starts is the first and its wait differs, and SetupRun notifies.
* Assumptions: intervals and bounds are natural numbers.

RcLogonProofs, for any number of sessions and, but for the types, any policies
(`PoliciesOK`: a number and one of the two actions), changed however often:

* `PlacesAreCountedAlways`, `NoPlaceForTheGoneAlways`, `OnlineHasAPlaceAlways`
  and `ServedIfAllowedAlways`, the parts of RcPlacesKept. None is inductive:
  the table changes under the lock, and those that have to go are told after it
  by the thread that took their places. So the invariant keeps the table and
  the lists of those still to be told apart (`Parted`: each without repetition,
  no two sharing a session), says that who has Online_ is in just one of them
  (`Onlines`), and that a session asks for its place once, with its link up,
  and gives it back when the link is gone (`Logons`); `Alloweds` then follows
  from what CheckLogon answered.
* What CheckLogon takes from the front of the table and what it leaves, and the
  removal and the appending of one session, are lemmas about sequences
  (`SplitDistinct` and those after it).

ThreadProofs, of SchTask, for a week and a day of any length (`WeekOK`: neither is empty)
and any clock:

* `CheckIsAlwaysRight`: what Check says of a time and of the next one is what
  the configuration means. This is arithmetic: a time is one day and one second
  (`DivMod`), times are ordered by their days first (`DaysInOrder`), within a
  week some day is on (`SomeDayIsOn`), and NextStart is the first that is; the
  schedule that ends today and the one that ends tomorrow are a lemma each
  (`ChecksToday`, `ChecksNextDay`).
* `StoppedStaysQuiet` and `OnlyChangesAreTold`, from an invariant that says
  what was told last for every state of the task (`ToldIsState`), also while
  the timer thread is between its unlock and the event.
* `OwnerIsToldWhatIs` (ToldWhatIs). It needs to look ahead: `Watches` says that
  up to the second before the timer calls, the state is what the configuration
  in use says, and for ever when no timer is set. A check that was made at an
  earlier time than it is stored (the clock is read before the lock) still
  covers the present one, since the timer has not called yet; that is where
  the theorem about Check enters (`HoldsUpToTheNext`).

FixRecordProofs, of FixReplay, for any record, any numbers and any number of
replays, from no assumption at all:

* `LineHasNoGap` (NoGapOnTheLine). What was rebuilt so far, appended to what
  the line has, joins from the number the peer asked for to BeginSeqNo_
  (`Rebuilt`), and appending one message that begins where the line ends keeps
  it so (`JoinOne`): a record that is passed over is covered by the GapFill
  before the next Report. That the last GapFill ends at the next number to send
  needs the reader to be behind the last reset and not past the number it looks
  for (`ReadsOn`), and this the numbers to grow between resets (`Ordered`,
  `RecordIsOrdered`). While a replay is under way the senders only record; the
  lock at its end is why the rest of the line is what Rebuilt speaks of.
* The exception is in the property: a SequenceReset during a replay never
  reaches the line (section 6).

ThreadProofs, of ThreadPool, for any number of threads and tasks (`PoolOK`: a pool has a
thread, and who ends it is none of them):

* `WorkHasAThread` (NobodySleepsBesideWork) is inductive beside the invariant
  that counts: `running_` is the number of threads that have not ended
  (`Lives`), so that the notify CheckNotify saves is saved only while a thread
  is awake that takes the message; what a thread that wakes or sleeps adds to
  and takes from the awake ones are lemmas about cardinalities.
* `EnderIsAlwaysTold` (EnderIsTold), from `Lives`: who ends the pool waits only
  while a thread runs, and the thread that brings the count to none tells it.
* `MessagesInOrder` (TakenInOrder) and `AcceptedIsDone` (DoneWhenEnded). `Once`
  and `InOneHand` follow a task from the queue into the one hand that took it
  and from there to what is done; `NothingLeft` says that a thread that was not
  hurried ends on an empty queue.

TcpClientProofs, for any senders, configurations and bounds (`ClientAssumption`):

* `ClientInvariant`: the invariant that the three others rest on. The properties
  say that somebody is on the way; to keep that, one has to know what the
  others may do before he comes. A job in place has the queue to itself and no
  task that sends was left behind it (`InPlace`, the contract of AQueue); tasks
  and events that are late are of a link that there was, and what they say of
  the present one is so (`Known`); epoll forgets a socket only when a failure is
  on the way to the device (`Failing`). A device between two tasks is `Settled`,
  and what one task of the op thread makes of it is said once for all of them
  (`Moves`, `DeviceTask`): its socket stays, goes, or is a new one.
* `SentInItsOrder` (SentOnItsSocket). `InOrder` extends the order of what was
  written to all that was accepted: written, being written, in the buffer and in
  tasks, in this order; a lingering device is left out, since it drops the tasks
  that send.
* `SomeoneAlwaysGoesOn` (SomeoneGoesOn). `Sends` is its part about sending in
  the form that is inductive: only while nobody holds the job is somebody on the
  way.
* `StaysDisposedForGood` (DisposedForGood), an action property: every task looks
  at the state first, and a settled device that is disposed has nothing.

ListenerProofs, for any number of clients, listeners and commands and any
capacity (`ServerOK`: these are numbers):

* `ServerInvariant`: the invariant in two halves. The server's (`InUse`, `Says`)
  is kept without a word about the clients: the listener in use is the last that
  was made, all others are disposing, and a socket that does not hear is known
  to the server or an error is queued. The clients' (`Lists`, `News`, `AllKept`)
  says for each device who holds it: `refs` is the sum of the list or of who
  disposes of it, the queue when it has tasks, the fdr thread and the accepting
  loop (`Fine`), and until its listener is disposing it is in the list exactly
  while it is up. What was in the list is then either taken (`disp.devs`), told,
  or on its way out by itself.
* `Fine` speaks of one device and six facts about its surroundings, so that a
  step is about the device it changes (`DeviceChanges`, `ClientLeaves`,
  `LoopSteps`) and all others stay (`OthersStay`). What a task leaves of a device
  is one lemma (`RestIs`), whose answers are then put into Fine (`RestIsFine`).
* `ListIsAlwaysExact`, `OneAlwaysListens`, `NobodyIsEverLeftBehind` and
  `FreedOnlyWhenUnused` follow. The clients that got a task, or whose listener
  was disposed of, while they were being accepted (`crossed`) are left out, as
  in the properties: for them the invariant is false (section 6).

QueueProofs, of TradingLine, for any managers, lines, requests, offers and breaks
(`TradeOK`: every line has its manager, and no manager is its own offer):

* `TradingInvariant`: each request is where its fate says (`SentBy`, `LinesKnown`),
  and every queue has its requests in the order in which they came, behind none
  that came later and has gone (`Ordered`). A line, a timer, an offer and a line
  that broke all take up a queue the same way, so what an outcome of ByLinesOnly
  makes of it is said once (`WhatApplied`).
* `RequestsAtOnePlace` (EachAtOnePlace), `RequestsInOrder` (InOrder) and
  `HelpsOneRequest` (HelpsOneAtATime) follow.
* `SomeoneAlwaysSends` (SomeoneWillSend) needs more: that a queue waits because
  none of the manager's lines could have sent (`LinesCannot`), and that its
  offer, when it has lines, works for somebody or waits for a line itself
  (`OfferCannot`). It is proved for lines that support every request, as in the
  runs; with one that does not, it is false (section 6).

SessionProofs, of FixLink, while no operator sets a number and both engines replay
(`Undisturbed`, as in the run fix_link; with an operator's number Reports are skipped
or given again, as he wants it). For any peers (`ForeignSides`), any states in which the
applications send, any kinds of messages and any bounds:

* `LinkInvariant`. A Report may be lost or given twice through what one engine
  believes of the other, so the invariant relates one engine's record to what is
  in flight and to what the other has counted, kept and asked for. What is sent
  for the first time is beyond all that the receiver has counted and behind all
  that is in flight (`Beyond`, `Behind`); what is sent again may be anywhere, but
  a GapFill leaves out no Report (`Valid`). So a message with the expected number
  and no PossDupFlag finds no gap open (`NoGap`), and what is kept over a gap is
  beyond what was asked for (`Asked`), which is why it is neither dropped nor
  handled a second time.
* Each handler is a lemma about one engine (`...Good`), whatever it is called
  from: it may send (`Sending`), and between noting a gap and asking for it
  `Asked` is not so (`Midway`). Then each step of the link is one call, and what
  holds of one side holds of the other (`LinkedBack`).
* The loops over the kept messages (CheckMsgKeeper) and over the record
  (Replayer::Reload) are functions of the turn in FixEngine. Their invariants
  (`Turned`, `Reloaded`) hold at every turn by `Induct`, which says of a set of
  numbers what NaturalsInduction says of an operator, and follows from the
  least number that is not in it (WFMin).
* `LinkReportsOnceInOrder` (ReportsOnceInOrder), `LinkNeverAhead` (NeverAhead)
  and the action property `LinkReadyAfterRecovery` (ReadyAfterRecovery) follow.
  `LinkTypeCorrect` adds that numbers, connections and ticks keep to the bounds.

MCServicesProofs: the theorems about FixReplay, ThreadPool, SchTask, RcLogon,
Listener and TradingLine for the instances that the run services checks side by side: `LineHasNoGap`
(ReplayLeavesNoGap), `PoolAlwaysTakesAll` (PoolTakesAll), `SchAlwaysTellsRight`
(SchTellsRight), `RcPlacesAlwaysKept` (RcPlacesKept),
`ServerAlwaysKeepsItsClients` (ServerKeepsItsClients), `TradingAlwaysInOrder`
(TradingOnceInOrder) and `TradingAlwaysHelpsOne` (TradingHelpsOne). For each it shows that the constants of
the run satisfy the module's hypothesis, that the instance under the proofs is
that of MCServices (`Same...`, definition by definition), and that a behaviour
in which this part works is one of the part's specification (`Only...Works`).

The type invariants are part of these theorems and of no run; TypeCorrect is
there because everything else rests on it.

Only model-checked:

* liveness (WF, SF and leads-to are not within the prover's reach);
* operators who set numbers and an engine that does not replay (FixLink under
  FixLink_commands.cfg);
* the log file, subscriptions over rc: nothing there is out of reach in
  principle, the invariants are large and come next;
* PkCont, TmpLine, McRecover where order is stated by a fold or a sorted set: the
  library's induction theorems take an operator, which the provers cannot
  instantiate, and the folds are not functions of the turn;
* what a fold or a search computes on the bounded inputs of the runs.

## 5. What is left out of the modelled parts

* AQueue: what a task does; its memory.
* TcpClient: SendDirect and RecvDirect (a session that handles the receiving
  before the lock), a connect() that succeeds at once (see 6), properties and
  information, the session's own timer, the end of the fdr thread, destruction
  of the device. UpdateFdrEvent is done at once; the fdr thread may delay it,
  which only makes events of a disabled kind arrive, and those the model has
  through events taken before.
* Timer: counting of references, the destructor.
* FIX: text, a wrong CompID, missing tags (they end in a Reject); threads of
  one engine except for the replay (planned); encryption of the logon and its
  policies.
* FixRecorder: the size at which an IDX line is due is a choice at every call.
* PkCont: CheckLogLost, ResetBiggerNextSeq, called by one kind of channel.
* McRecover, McSnapshot: a reset of the sequence (SeqReset), the end of a day,
  tunnels from another host, the contents of packets, the configuration of
  groups. A handler that unlocks the pendings and starts the timer is one step
  (PkCont has the race).
* TradingLine: which of several free lines is taken; groups of managers with
  more than one asker in a chain; statistics.
* TmpLine: checksums and lengths, orders in flight, the configuration records.
* LogFile: file names, Seek, a node written in part.
* ThreadPool: handlers that take batches, other wait policies; that
  CyclicBarrier is a local variable of the waiting function, and what a
  spurious wake-up does to it (tiSleep is taken to be long enough).
* SchTask: time zones, parsing, the report of the next time; a second thread
  that calls; a new configuration differs in its days only.
* RcLogon: the initiator's side, framing, heartbeats, what other users do (a
  place is one user's), and what is told to a session whose device is already
  being destroyed (see 6).
* RcSubscribe: the other requests, subscriptions of a whole tree, streams and
  their flow control; a tree stays as it is (`treeOk`), so that its rejection
  comes with the first answer or never (see 6); the client's calls are those of
  one thread, since a request is sent after the lock of the trees is released
  and two threads' calls for one seed may be swapped on the line.
* InnApf: StreamRW::Write at a position, errors of a write, exHeader as a stream
  whose records may lie across two rooms, ExpectedRoomSize_ by room; Reduce,
  Rewrite and ClearRoom, which InnApf does not use; whether the system keeps
  the order of writes over a loss of power (the model's stop is the process's).
* Subject: a vector that moves a subscriber while it is being called; a Subject
  with another mutex.
* Listener: a session that refuses to open, socket options, an accept or a
  SetNonBlock that fails, what clients send and receive, the info of a device;
  Windows completion ports. A Device that retries does so after some time.

## 6. Divergences

Where the code does other than what a comment, a document or its own next line
says. Those that are runs of their own: `fix_replay_skipped`, `log_locked`; see
`findings` in PROJECT.json. The others are not runs; a property that states one
is in the module named, and TLC refutes it with the constants given.

* `RequestIsAnswered` (FixLink, the constants of FixLink.cfg with ForeignSides
  = {}). fon9/fix/FixSender.cpp:229: FixSender.hpp:96 documents Replay as
  inclusive: "重送, 包含 beginSeqNo 及 endSeqNo." (resend, including beginSeqNo
  and endSeqNo). Replayer::Run fills the rest of a bounded range only if
  `this->BeginSeqNo_ < this->EndSeqNo_`, and FixSender::GapFill has the same
  strict test (FixSender.cpp:283): when the one number left is endSeqNo itself
  and its message is not replayed (a Logon behind lost Reports), nothing at all
  is sent for it. The session stays in LogonRecovering until the timer closes
  it, and the next logon repeats it.
* `NeverSleepsOverATimer` (Timer, the constants of Timer.cfg with OneBehind =
  TRUE, Intervals = {1, 2}, MaxTime = 2). fon9/Timer.cpp:90: Timer.hpp:46:
  "thread 的睡眠時間: 最接近的 timer.TimeStamp_ - now" (the thread sleeps for the
  nearest timer's time - now). A thread with no timers sleeps without end and
  keeps CvWaitSecs_ = -1 second (Timer.cpp:142). SetupRun does not notify it
  when the interval it computes is the same (:90): a RunAt for exactly one
  second ago is put in line and the thread sleeps on until another timer is
  started. SchTask and IoManagerTree call RunAt with times that may have passed.
* `ConformIsCounted` (FixLink, the constants of FixLink.cfg with ForeignSides = {}).
  fon9/fix/FixReceiver.cpp:52: FixConfig.hpp:24-27 says of NoPreRecord: "則在
  FixMsgHandler 處理 FixSeqSt::Conform 通知時, 應呼叫
  `fixRecorder.WriteInputConform(rxargs);` 才能正確處理接收序號." (the handler should
  call WriteInputConform for the received number to be handled correctly).
  FixReceiver::OnRecvResendRequest is configured with NoPreRecord
  (FixReceiver.cpp:49) and never does: it writes a "y" line
  (FixReceiver.cpp:57), which leaves NextRecvSeq_ alone. TLC shows a
  ResendRequest with the expected number that does not move the number on, so
  that the peer's next message is taken for a gap.
* `DoneMeansCaughtUp` (FixLink, the constants of FixLink.cfg with ForeignSides = {}).
  fon9/fix/FixReceiver.cpp:139: FixReceiver.cpp:143 comments the end of
  CheckMsgKeeper with "Ya! 補齊了!" (all is made up for) and calls OnRecoverDone.
  The test before it, `newSeqNo < this->LastGapSeqNo_`, is strict although
  LastGapSeqNo_ is the number of a message that was itself dropped when it was
  not kept (OnMsgSeqNumNotExpected, FixReceiver.cpp:222-226): if it directly
  follows the requested range, newSeqNo = LastGapSeqNo_, and the recovery is
  declared done with that message still missing.
* `ResetReachesPeer` (FixReplay, MaxSent = 4, MaxReplays = 2). fon9/fix/FixSender.cpp:215:
  src/fon9/fix/FixSender.cpp:218-219: "應該是另一 thread 重設了新的序號. 所以要送 SeqReset
  給對方!" (another thread has reset the number, so a SeqReset has to be sent). A
  SequenceReset that another thread makes while IsReplayingAll_ is set goes
  only to the record (Send, FixSender.cpp:53); FindNext reads on over its RST
  line, so a Report recorded behind it with a lower number is rebuilt with
  PossDupFlag and BeginSeqNo_ becomes its number + 1, which equals the next
  number: no SeqReset is sent, and the peer, which expects a higher number,
  drops the Report as a duplicate.
* `SentIsWritten` (FixRecorder, the constants of FixRecorder.cfg). fon9/fix/FixSender.cpp:51:
  src/fon9/fix/FixRecorder.hpp:32 says of a sent message "呼叫 SendASAP() 送出前,
  會先寫入." (it is written before SendASAP() is called). FixSender::Send hands
  the message to the device first (FixSender.cpp:51) and then gives its line
  to the appender (:56), whose thread writes it later. A process that stops in
  between has sent a message its file does not hold, and Initialize gives its
  number to the next message.
* `GivenAsNumbered` (PkCont, the constants of Cont in MCMarket with TimerFires = TRUE).
  fon9/PkCont.cpp:32: src/fon9/PkCont.cpp:69-71 says a number kept across the
  overflow is kept as seq + MaxSeqNo + 1 and "在 pks 取出後, 再將 i->Seq_ 調整回來"
  (adjusted back when taken out of pks). FeedPacket does so (:51-54),
  PkContOnTimer does not: the packet is given with the number MaxSeqNo + 1 +
  seq, NextSeq_ becomes seq + 2, and the packet seq + 1 is dropped as a
  duplicate when it arrives.
* `AllGiven` (PkCont, the constants of Cont in MCMarket with Window = 2).
  fon9/PkCont.cpp:72: src/fon9/PkCont.cpp:69-70 says the number is raised by
  MaxSeqNo + 1 so that the pendings are sorted right ("這樣在
  pks->insert(PkRec{seq}); 的排序才會正確"). It is raised only while NextSeq_ is
  still before the overflow: packet 2 kept as MaxSeqNo + 3 is sorted behind
  packet 3 kept as 3 once NextSeq_ has gone back to 1. When packet 1 then
  fills the gap the first pending is 3, not 2, and nothing more is given
  although every packet has arrived; the timer gives 3 before 2.
* `GivenOnce` (PkCont, the constants of Cont in MCMarket with TimerFires =
  TRUE and Window = 3). fon9/PkCont.cpp:90: src/fon9/PkCont.hpp:14 says a packet whose number
  was already passed is a duplicate and dropped ("若封包序號小於期望, 視為重複封包, 拋棄之"),
  and the set of pendings keeps one of each number. A packet that arrives
  before the overflow is kept as seq + MaxSeqNo + 1; the same packet from the
  other source, after NextSeq_ has gone back to FirstSeqNoAfterOverflow, is
  kept as seq. Both are given.
* `LostIsCounted` (PkCont, the constants of Feed in MCMarket with WaitInterval = 0).
  fon9/PkCont.cpp:87: src/fon9/PkCont.hpp:60 "遺失的封包數量: 根據 Seq 計算." (the number
  of lost packets, reckoned from their numbers). With WaitInterval_ = 0, which
  src/f9twf/ExgMcChannel.hpp asks for behind an McTunnel, FeedPacket jumps to
  __PK_RECEIVED over the gap and LostCount_ stays as it is. ExgMcChannel takes
  an unchanged LostCount_ as the proof that a snapshot cycle was received
  whole (src/f9twf/ExgMcChannel.cpp:479).
* `StopWaits` (Timer, the constants of Timer.cfg). fon9/Timer.cpp:45:
  src/fon9/Timer.hpp:124-126: when the timer has been taken out to call
  OnTimer(), "則會等 OnTimer() 結束後才會返回 StopAndWait()" (StopAndWait returns only
  after OnTimer() has ended). When the timer was disposed by DisposeNoWait
  during its call, StopAndWait leaves at line 45 while the call is running.
* fon9/Timer.cpp:33: src/fon9/Timer.hpp:18 says of Disposed: "Timer 已呼叫
  Dispose...() 相關函式, 無法再啟動 Run...() 相關函式." (a Dispose...() function was
  called, Run...() can no longer start it). DisposeAndWait sets Disposed only
  when the timer is in line: one that was never started, or is in its call,
  stays NoWaiting, and a later RunAfter - of a thread that still holds the
  object, or of the call that DisposeAndWait was waiting for before it goes
  round again - puts it in line.
* `StoppedIsQuiet` (Timer, the constants of Timer.cfg, without the condition ~IsThreadEnding).
  fon9/Timer.cpp:43: src/fon9/Timer.hpp:124-126 promises that StopAndWait
  returns only after OnTimer() has ended. Once the thread has been told to end
  (NotifyForEndNow, at the exit of the program) the loop is not entered at
  all, though the thread may still be in the timer's call; DisposeAndWait
  (:31) does the same, and destructors rely on it.

* `SomeoneWillAlwaysRecover` (McRecover, the constants of Mr in MCMarket).
  f9twf/ExgMcChannel.cpp:173: PkCont.hpp:16 says of a gap "則等候一小段時間,
  若仍沒收到連續封包, 則放棄等候." (it is waited for a short time and given up if it is
  still not continuous). A session that leaves with an open request hands it
  back; the channel's timer is started again only if the session was the first
  of the channel's list. One further behind takes the request with it, and what
  waits is neither asked for nor given up until the next packet is lost.
  `SomeoneWillRecover` and `PendingsRecovered` leave this case (`orphaned`) out.
* `SnapshotIsNewer` (McSnapshot, the constants of Snap in MCMarket with RoundLen
  = 3, Before = 0). f9twf/ExgMcChannel.cpp:508 "[捨棄小於等於] 末筆處理序號之相關暫存即時行情"
  (the kept packets up to the snapshot's last number are discarded). Packets
  that are received while the basic info is told to the others may be given
  from the snapshot's own last number on: TLC shows one whose number is the
  snapshot's given after it.
* `SomeoneWillAlwaysSend` (TradingLine, the constants of Trade in MCServices).
  fon9/fmkt/TradingLineHelper1.cpp:109-111: "可能無法更新 this->WorkingRequest_
  的後續狀態, 這會造成 asker 永遠等不到支援!!!" (the state of WorkingRequest_ may not be
  updated, and the asker would wait for support for ever); so the asker is told
  whenever a line of the offer breaks. But when a request of the offer itself
  is what finds the line broken, SendRequest_ByLinesOnly erases the line
  (TradingLine.cpp:305) and OnTradingLineBroken, which looks for it, returns
  early: nobody is told. `SomeoneWillSend` leaves this case (`unheard`) out.
* `WokenOnce` (LogFile, the constants of Log in MCServices).
  fon9/buffer/DcQueueList.cpp:120-124: BufferNode.hpp:166 says a virtual node is
  called once when it is consumed and then freed. ConsumeErr calls
  OnBufferConsumedErr of every node behind the first and then NodeConsumed,
  which calls it again (DcQueueList.hpp:34-39): a BufferNodeWaiter counts its
  latch down twice.
* `OthersStay` and `BothAgree` (RcSubscribe, the constants of Share in MCServices
  with Readded = TRUE). fon9/rc/RcSvsTicket.cpp:42: "必定可以取消註冊, 因為需要取消者,
  必定已經訂閱成功." (it can always be unsubscribed, since who has to unsubscribe has
  certainly subscribed). A seed that is removed ends its subscriptions, but the
  server keeps each with its SubConn until its index is used again or the link
  breaks. A SubConn is a number that a Subject counts from 1 (Subr.hpp:12); when
  the seed has come back under the same key, the old one unsubscribes whoever
  has that number now: another session, or the same one's new subscription.
  The runs have Readded FALSE.
* `SomeoneWillUpdate` (InnApf, the constants of Apf in MCServices with Appenders =
  {"a", "b"}). fon9/InnApf.cpp:195: InnApf.hpp:202 says of AppendBuffered "將 buf 放入
  queue, 在另一個 thread 執行寫入動作." (buf is put into a queue and written in another
  thread). IsNeedsChangedUpdate_ is set by each append under the pendings' lock,
  but read after it: a second append sets it to FALSE before the first has read
  it, neither puts the stream into ChangedStreams_, and no later append does
  while something waits. The data stays in memory until somebody reads the
  stream; the destructor's UpdateChanged does not know of it.
* `NothingOverwritten` (InnApf, the constants of Apf in MCServices with Directs =
  {"d"}). fon9/InnStream.cpp:220: InnStream::Append finds the end and then
  writes through Work, which flushes once more (SeekWithFlush): what was
  buffered in between goes to that end first and is overwritten. The library
  appends to a stream by one of the two only.
* `IndexIsInside` (Subject, the constants of All in MCServices with MaxDepth = 2,
  or with Removals = {"all", "clear"}). fon9/Subr.hpp:184: the comment of Publish
  (Subr.hpp:198-204) allows removals under a nested Publish, at the price of a
  message that is missed. But the outer NextEmitIdx_ is set back to what it was,
  and may be behind the end; so it is after Clear, which does not reset it.
  UnsubscribeAll then gives remove_if a range that ends behind the vector's end.
Seen while modelling the device, without a property:

* A TCP client that lingers and whose link fails does not close:
  `OnSocketError` goes to `OpImpl_ConnectToNext` (SocketClientDevice.hpp:180,
  SocketClientDevice.cpp:33), which ends in LinkError or connects to the next
  address. `OpThr_SetBrokenState`, which closes in Lingering
  (Device.cpp:120-122), is not called there.
* When a socket is written to in place after it was found unwritable, nobody
  turns detection of writable off once the buffer is empty (`DisableEventBit`
  has no caller); the fdr thread then gets the event again and again.
* Tasks hold the raw pointer of the socket's object (SocketClientDevice.hpp:172,
  :186, DeviceStartSend.hpp:43). One that is late cannot tell a new socket that
  was given the same address; the model's numbers can.
* `FdrTcpClientImpl::OpImpl_ConnectTo` leaves its state at Connecting when
  connect() succeeds at once, so that the first writable event is taken for the
  connection and turns all detection off (FdrSocketClient.hpp:45-50); the
  datagram device sets Connected.
* FdrService.hpp:168 says that a removed handler gets no event again even after
  UpdateFdrEvent; FdrServiceEpoll.cpp:134-150 adds it back. `Update` in
  TcpClient does what the code does.

Seen while modelling the other components, without a property:

* Trading lines: with a line that does not support a request (NotFor not empty,
  for instance the offer's line and r2) `SomeoneWillSend` is refuted. A request
  queued for a busy line stays queued when that line breaks, since the offer
  still has a ready line (`IsSendable`); that line never takes it, and nobody
  looks at the queue again. And when the last request of an offer's own queue is
  answered NoReadyLine, its askers are not told that the queue is empty
  (TradingLine.cpp:80). The runs have NotFor empty. NotifyToAsker locks the asker
  while the offer is locked.
* TMP: a report is in the log before its number is checked, so that the log of a
  closed line has the report that was refused; a number lowered by L30
  (CheckL30_EndOutBoundNum) is not in the header until something else changes.
* Log file: the writer and a thread that flushes may call each other without
  end; `WaitersAreWoken` says what is owed whether or not they do.
* Multicast: 'Z' of the snapshot is dispatched when it arrives, before the basic
  info has gone round, and again with the round.
* Thread pool: WaitDefaultThreadPoolQuit reads the state and then adds its
  barrier's tasks. If another thread ends the pool in between they are refused,
  which is not looked at, and it waits at the barrier for ever. `EndReturns` is
  for a program that ends its pool in one place. OnBeforeThreadStart changes the
  state without the lock; two threads may both join.
* rc logon: `GetSessionSt() > Connecting` (RcFuncConnServer.cpp:15) lets a second
  Connection message through to SendConnecting, whose assertion says
  `SessionSt_ < Connecting` (RcSession.hpp:59); a SASL message after a failed
  proof meets `assert(UserId_.empty() ...)` (RcSession.hpp:71). A session that
  is told to go is told outside of PolicyMaps_'s lock by another thread, which
  may come after its device has begun to be destroyed; `reject` keeps a pointer
  before it unlocks and then uses the member instead (PoDupLogon.cpp:53, :62). A
  session that has received Logout may still finish its SASL and become ready.
* Schedules: one whose Start equals its End is told out one second late; a
  Restart while EmitOnTimer waits for the lock is told at once, and its delay is
  overwritten by that call; a Restart on an off day of a schedule without end
  tells OutSch; a Start beside two StopAndWait of other threads may lose the
  event that the schedule has ended.
* rc subscriptions: a tree that is refused once takes with it all the client's
  subscriptions of that tree (a comment at RcSvcAck.cpp:74 says so), while the
  server keeps them, and their notifications find no index. A request that
  waited for the layout and whose tab is not there is reported, and keeps its
  index for good (IndicesAreKept leaves it out). An index more than 100 beyond
  the end of the server's list logs the client out; indices of cancelled requests are left
  out of what the server sees, which the comment at RcSeedVisitorServer.cpp:226
  allows for up to that number (with Skip = 0 NeverKicked is refuted). The
  assertion at RcSvsTicket.cpp:61 does not hold when the link breaks or the
  index is used again before the runner comes, as the lines below it expect;
  the rejector gives an index back without clearing its Seeds_, which
  SubrRec::OnPodReady asserts to be null.
* Servers (Listener): `ClientsGoWithTheirListener` is refuted. Server.hpp:106
  says that a listener that is replaced disposes of its clients and disappears
  with the last of them, and the destructor's comment (Server.cpp:69) that its
  list is then empty. A client that is put into the list after Dispose has
  swapped it is told nothing: it stays up, RemoveAcceptedClient returns at once
  (Server.cpp:102), so that the list's reference is never given back and neither
  the client nor the listener is freed. AddAcceptedClient does not look at
  IsDisposing_ under the lock.
* `LogReadsADevice` is refuted. FdrTcpServer.cpp:174-177 reads the client's
  number for the log after the loop's DeviceSP has gone out of scope (:161): if
  the listener is disposed of, or the client is closed by its number, between
  the two, the device may be freed.
* AddAcceptedClient puts the client into the list before it takes the list's
  reference and before Initialize (Server.cpp:93, :95, :98). Who is told to go in
  between is set to Initialized again, which is what the assertion at
  Device.cpp:22 is about, and then opens; a Dispose there releases a reference
  that was not yet taken. NobodyIsLeftBehind and FreedWhenUnused are for the others.
* A client that lingers has left the list: it is not counted in the capacity,
  aclose does not find it, and it is not disposed of with its listener. Closing
  a client shuts down what it sends; its device stays until the peer closes.
  The listening socket of a listener that was disposed of is open until its last
  client is gone, and what connects to it meanwhile is not accepted.

## 7. Plan

Done: the queue, the device on top of it, timers, FIX, packets in order; the
futures exchange's channels, its order lines, trading lines; the log file, the
thread pool, schedules, logons and subscriptions over rc; Inn files and
subjects; the TCP server. Next, in this order:

1. Streams of market data and their recovery (MdRtStream) on InnApf and Subject.
2. `FixThreads`: session, timer, operator and application threads of one engine
   (FixSession.cpp:304).
3. Io managers on SchTask and Listener.
4. `FlowControlCalc`, PkReceiver and the Bitv encoding as algorithms against
   reference definitions.
5. Inn files: rooms that are freed and used again (InnDbf), the syncer.

Proofs, in this order: the subscriptions of rc (SubscriptionsAgree); the log
file (FilesWritten).
PkCont comes after them: what it gives is put in order by a fold over a sorted
set, which would first have to be written as a function of the turn, as the loops
of FixEngine are.
