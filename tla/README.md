# Specifications of `my_cpp_code`

TLA+ specifications, TLC models and TLAPS proofs for the programs of this
repository. The repository is a collection: one real server (`myserver`, a
multi-reactor HTTP server after muduo), two small programs (`rss_b`,
`waybar_tomato_clock`) and many studies. The core is `myserver`; the two programs and
the studies that have concurrent state worth checking are modelled as well.

## Inventory

| Component | Source (under `src/myserver`) | State | Operations | Correct when |
|---|---|---|---|---|
| event loop | `common/event_loop.cpp` | `m_quit`, `m_callPendingFunctors`, `m_pendingFunctors` (under `m_mutex`), the eventfd, the active channels | `loop`, `quit`, `runInLoop`, `queueInLoop`, `wakeup`, `handleRead`, `doPendingFunctors` | every functor handed over runs once, in order, without waiting for the poll timeout |
| poller, channel | `common/epoll_poller.cpp`, `net/channel.cpp` | `m_events`, `m_index`, the poller's map, the kernel's interest list | `updateChannel`, `removeChannel`, `poll`, `handleEvent` | the three views of a registration agree: no fatal `epoll_ctl`, no event for a destroyed channel |
| tcp connection | `net/tcp_connection.cpp` | `m_state`, output buffer, write interest, socket | `send`, `shutdown`, `connectEstablished`, `connectDestroyed`, `handleRead/Write/Close/Error` | up and down are reported once, data goes out before the FIN, nothing is written after the close |
| tcp server, acceptor, pool | `net/tcp_server.cpp`, `net/acceptor.cpp`, `common/event_loop_threadpool.cpp` | `m_connections`, `m_nextConnId`, `m_next` | `newConnection`, `removeConnection(InLoop)`, `~TcpServer`, `getNextLoop` | each connection is torn down once, on its own loop, and released |
| buffer | `include/buffer.h`, `common/buffer.cpp` | vector, reader and writer index | `append`, `readFd`, `retrieve` | bytes come out as they went in |
| http | `http/`, `main/main.cpp` | the parser's context, the input buffer | `onMessage`, `parseRequest`, `onRequest` | one right answer per connection, a refusal for what is malformed |
| timers | `common/timer_queue.cpp` | the ordered set of timers, the timerfd | `addTimer`, `handleRead`, `reset` | every timer is called, none after its deletion |
| loop thread | `thread/` | `m_loop` under a mutex and a condition | `startLoop`, `threadFunc`, destructor | start and stop handshakes end, no pointer outlives the loop |
| logging, sockets, addresses | `common/logging.cpp`, `net/mysocket.cpp`, ... | none of interest | formatting, wrappers | - |

| Component | Source (under `src`) | State | Operations | Correct when |
|---|---|---|---|---|
| rss reader | `rss_b/src/main.cpp` | per source status, gap and `next_execute` in MySQL; articles in MySQL and MongoDB | select the due sources, fetch, insert, update, sleep | no hour is missed, the gap follows the outcomes, no article is lost or stored twice |
| tomato clock | `waybar_tomato_clock/` | the session's counters, the FIFO of clicks | read, count, wait for a click, show | sessions last their time, old clicks end no wait |
| turn-taking exercises | `any/concurrency/LT_1195_*`, `LT_1115_*` | a counter or two semaphores | print, pass the turn | output in order, all threads return |
| reclaiming stack | `cpp_concurrency_2nd/lock_free_stack.cpp` | head, list of nodes to delete, threads in `pop` | `push`, `pop`, `try_recliam` | no node used after its deletion, no value lost or doubled |

How they interact. One loop runs in one thread. The base loop accepts and picks
an io loop round robin; from then on the base loop and the connection's io loop
talk only through `queueInLoop` (`connectEstablished`, `removeConnectionInLoop`,
`connectDestroyed`). `send` and `shutdown` may be called by any thread: they read
the atomic `m_state` and hand the rest to the connection's loop. The poller keeps
a raw pointer to each registered channel; the channel is owned by its connection,
which is kept alive by the server's map and by the functors that hold a
`shared_ptr`. HttpServer is the message callback and runs in the io loop.

Hard behaviours: pushes and eventfd writes interleaving with the loop's swap and
poll; `m_state` tested in one thread and set in another; three-step teardown over
two loops, racing with the server's destructor; partial and failing writes; TCP
segments cut anywhere; the timerfd set again between `poll()` and its handler; a loop
on the stack of a thread that others hold a pointer to; two databases written one after
the other by a process that may stop in between; clicks left in a FIFO; memory that is
freed and handed out again under a compare-and-exchange.
The hazards, each at its line and with the properties that cover it, are listed in
`PROJECT.json`.

## Modules

| Module | What it is |
|---|---|
| `FifoExecutor` | abstract specification of what `queueInLoop` promises: one queue, run in order |
| `EventLoop` | the reactor, all threads; refines `FifoExecutor` |
| `EventLoopProofs` | its proofs, and those of `EventLoopThread` |
| `EpollPoller` | channel registration, as operators on a channel |
| `TcpServer` | server, pool, connections, channels, user threads and peers; a loop in it is the queue `EventLoop` is proved to implement; uses `EpollPoller` |
| `TcpServerProofs` | its proofs |
| `Buffer`, `BufferProofs` | the byte buffer and its proofs |
| `HttpServer`, `HttpServerProofs` | parsing and answering on one connection, over the stream `Buffer` provides, and its proofs |
| `TimerQueue`, `TimerQueueProofs` | the timers of a loop and their proofs |
| `EventLoopThread` | `EventLoop` with the thread that runs it and the owner that starts and destroys that thread |
| `RssSchedule` | when `rss_b` fetches a source |
| `RssStore` | what it does with the articles, over two stores |
| `TomatoClock` | the clock and its clickers |
| `TurnTaking` | five classes of threads that take turns |
| `ReclaimingStack` | the lock-free stack that counts the threads in `pop` |
| `Programs` | `Buffer`, `HttpServer`, `TimerQueue` and the last five modules side by side, one of which runs; checked by TLC and extended by their proofs |
| `RssProofs`, `ConcurrencyProofs`, `ProgramProofs` | proofs about `RssSchedule` and `RssStore`; about `ReclaimingStack` and `TurnTaking`; about `TomatoClock` and the types of all eight |
| `MC*` | the instances TLC checks |

Operators introduced by a comment "Mutant" are not part of the specification: each
is a plausible wrong version of the definition that follows it, and the property
paired with it in `PROJECT.json` fails when it takes that definition's place.

**EventLoop.** Variables carry the code's names. `pc` is the loop thread's place in
`loop()`. Another thread's `queueInLoop` is two actions, `QueueInLoop` (the push) and
`WakeupLoop` (the write after the mutex is released); its `quit` is two as well, `Quit`
(`m_quit` is set) and `QuitReturns` (`m_tid` is read after that), and `quitting` holds the
threads between them. One call in `loop()` is one action. `queued` and `executed` are histories. The kernel is external: an eventfd is a
bounded counter, `epoll_wait` returns some ready channels or times out.

**EventLoopThread.** A loop either belongs to `main()` (then the steps are `EventLoop`'s) or
is an object on a thread's stack. `ownerPc` is where the owner is in `startLoop` or the
destructor, `threadPc` where the thread is in `threadFunc`, `m_loop` whether the pointer is
set. The destructor's unguarded read of `m_loop` and the two halves of its `quit()` through it
are three steps. Between the halves the thread may leave `threadFunc` and destroy the
`EventLoop` on its stack, and `quit()` then reads `m_tid` of an object that is gone: the run
`event_loop_dangling` shows it. What does hold is `NoDanglingEntry`: no call begins on a loop
that is not there. Only the destructor calls `quit()` on an io loop, and threads have stopped
using the server when it is destroyed; without the latter `NoDanglingEntry` would fail, since
nothing but the callers' discipline keeps a `queueInLoop` from reaching a loop that has gone.
`DestructorReturns` excludes a destruction before the thread has entered `loop()`: there
`m_quit = false` undoes the `quit()` and the join never returns. So it does not cover that
hang, which follows from the code without a search.

**TcpServer.** A connection is a record: `state` is `m_state`, `out` the output buffer
(who sent each unit), `events`/`index` the channel's fields, `mapped` and `armed` the
poller's map and the kernel's interest list, `fin` whether the write side is shut. A
handler or functor is one action, since all it touches is its thread's, except that
user threads call `send` and `shutdown` in two actions, the test of `m_state` and what
follows it, and that the callbacks of one `handleEvent` are separate actions. A reset
makes one read fail, or none when `handleError` has cleared the socket's error.

**HttpServer.** Bytes are pieces of lines (a good request line, a text with a colon,
another text, CRLF) in arbitrary segments; one iteration of `parseRequest` is one
action, so a loop that never ends shows as a step that changes nothing for ever.

**TimerQueue.** Time passes between any two steps. `Poll` puts the timer channel in
the active list, and timers may be added before `HandleRead` gets its turn. The history
`swallowed` records the one event that leaves waiting timers without a timerfd: it fired
after `handleRead` took the time and before it read, so that the batch is empty and `reset()`
sets nothing. `ArmedUnlessSwallowed` says that there is no other way, and `timer_queue_lost`
that this one loses a timer.

**RssSchedule.** The clock is a place in a pair of hours and `next_execute` the time from now
until then, so that the state is finite. A fetch takes time, the sleep is computed with the
code's two roundings and margin, and may end early by what the cut to seconds loses. A pass
of half an hour or more makes `sleep_to_next_hour` skip an hour (at 10:36 it sleeps until
12:00:05); `OnSchedule` is about shorter ones and says so. The query names no order, so the due
sources come in any. `GapFollowsStreak` is the rule of `update_2_db`: the fourth failure in a row
doubles the gap, the fourth fetch in a row with something new halves it, and a fetch with nothing
new only ends a run. The design notes in `rss_b/README.md:29` have three where the code has four,
and demote a source for three fetches without anything new, which the code never does;
`rss_schedule_three` shows the first difference.

**RssStore.** Each statement on a database is one action with its failure as another; a
`mysqlx::Error` inside the `try` passes over the article, every other exception ends the
process at any point, and a new one starts without the locals.

**TomatoClock.** A click carries, as history, whether the rest had run out when it was made.
`read_action_non_block` is one action; the two cleaning loops repeat it until it finds
nothing. The session the program starts with is one display shorter than the 25 minutes its
README promises, because the count goes down before the first display and only sessions
begun by a click are given one more: `tomato_clock_first` shows it, and `LaterSessionsFull` is
about the others.

**TurnTaking.** `class` chooses the version. A turn under the mutex is one action; with an
atomic or semaphores, taking the turn, printing and passing it on are three. Condition
variables wake spuriously at any time.

**ReclaimingStack.** The source gives the stack in pieces over three class templates; the
module puts them together under the names of the pieces. One access to shared memory is
one action, and `new` may hand out a deleted node again. `pop()` of an empty stack while
another thread is in `pop()` writes through a null pointer (`chain_pending_node(nullptr)`):
the model ends there, and its properties hold up to that point. Nothing in the source says
what `pop()` of an empty stack promises, so this is listed as a hazard and not as a finding.

## Runs

| Run | Question | Result |
|---|---|---|
| `event_loop` | a loop of `main()` or of a loop thread, two threads, loop callbacks: lost wakeups, order, refinement, functors run, `quit` ends the loop, start and destruction of the thread | holds |
| `event_loop_quit` | does another thread's `quit()` wake the loop, as its comment says? | no: the test is `isInLoopThread()` where it should be its negation |
| `event_loop_dangling` | is the loop still there when another thread's `quit()` looks at it again? | no: the thread may have ended meanwhile |
| `tcp_server` | two connections, up to two io loops, a sending thread, `~TcpServer`: registration, callbacks, teardown, FIN | holds |
| `tcp_server_users` | another thread that sends and shuts down, partial writes, write-complete callback, `~TcpServer`: `epoll_ctl`, write interest, closed connections are released, shutdowns complete | holds |
| `tcp_server_give_up` | is nothing written after the close, as the log message says? | no: `shutdown()` in another thread can overwrite `kDisconnected` |
| `http_server_malformed` | is a malformed request line answered with 400? | no: `parseRequest` never returns |
| `timer_queue_lost` | is every timer called? | no: an empty batch re-arms nothing |
| `programs` | buffer: indices and contents; HTTP: framing, one answer, the right answer, whole requests answered; timers: ownership, timerfd armed except after the race of `timer_queue_lost`; rss schedule and stores, tomato clock, turn taking, reclaiming stack | holds |
| `rss_store_orphans` | does every article in MySQL have its document in MongoDB, as by the transaction in the comment? | no: there is none, and a failure in between is never repaired |
| `rss_schedule_three` | do three fetches in a row with something new shorten a source's gap, as the README plans? | no: four do |
| `tomato_clock_first` | does every session last its 25 or 5 minutes, as the README says? | no: the first is one display short |

Bounds, and why they are enough. `event_loop`: two threads, so that one can be between
push and write while the other's write is consumed, one call each, an eventfd that is
full at 1; the safety properties are also proved without bounds. `tcp_server`: two
connections and two io loops, for one loop serving another connection during a teardown; connections share nothing but the loops and the map. One
unit per message there, two in `tcp_server_users`, where partial writes matter. `programs`:
buffer sizes scaled so that six bytes reach every branch; six pieces hold an HTTP request
with a header, or two short requests, in every segmentation; one timer expired, one added
meanwhile, one waiting, and time that saturates at 3; an hour of six ticks has places on both sides of the half hour and the half
hour itself, where the even hour is taken; a gap of at most 2 is reached and left, and two
sources make one pass longer than one fetch. Two feeds of two articles out of three links,
for two sources, hold every mix of old and new and a link that both sources have. Sessions
of 3 and 2 displays and a FIFO of two clicks. n = 15 is the first fizzbuzz. Three threads,
three cells and four calls let one thread hold a pointer while the second frees the node and
the third gets its cell again.
Runs end where their bound is used up or the server is gone, so deadlock is not checked
in them; in `event_loop` it is, since a loop that has not quit can always poll (and
`quit()` may be called again after it has).

`tcp_server` lets another thread call `send` but not `shutdown`: with `shutdown` the race
of `tcp_server_give_up` also breaks `CallbacksPaired`, `TornDownOnce` and
`NoDanglingRegistration` (a connection registered again after its close is closed
again, or destroyed while registered), and `FinAfterOwnData` fails because `shutdown()`
changes the state at once while the thread's own `send()` is still queued. Where users
only send, every closer is a loop, whose own sends are never queued: what
`FinAfterOwnData` says about the queue is then empty, and what it says about the output buffer
is what is checked. The program's only caller, HttpServer, shuts down in the connection's own loop, where all of
them hold.

Fairness. `event_loop`: weak fairness of the loop thread's steps, of each thread between
push and write, and of `epoll_wait` while the eventfd is readable; the poll timeout is
assumed only in `QuitEndsLoop` and `DestructorReturns`, which say so in their own
statements; the owner and the new thread go on, a waiter on `m_cond` only when notified.
`tcp_server_users`: a thread finishes a call it has begun, a loop runs its queue in every iteration however many events it has (strong fairness of the
queue), `epoll_wait`, whose ready list rotates, goes on reporting a closed peer or a
writable socket (strong fairness), and a connected peer goes on reading. `http_server_malformed`,
`timer_queue_lost`: weak fairness of the one thread, and of time. `programs`: weak fairness
of each turn-taking thread's own steps and of the loop thread of HttpServer, none of spurious
wakeups. Since one component runs in a behaviour, the threads are numbered and a number's
fairness serves all that have it.

What the passing HTTP properties do not say: a request whose header lines arrive in a later
segment is parsed by a new context and gets no answer. `FramedByLines` and
`ResponseMatchesRequest` hold there too; `http_server_malformed` is the run that shows it.

## Proofs

Every safety property that a passing run checks is also proved, for every value of the
constants. The assumptions are the named `ASSUME`s of the modules, which TLC evaluates in
the runs, and one hypothesis written into four theorems (`LoopsShutDown`, below).

`EventLoopProofs` assumes that the loop thread is not one of the others, that the wakeup
channel is not one of the others and that the eventfd can hold at least 1.

- `TypeCorrect`: `Spec => []TypeOK`.
- `NoWakeupIsLost`: `Spec => []NoLostWakeup`. The property only speaks of `pc = "poll"` and
  is not inductive. `WakeupInv` adds what holds at every place of the loop: outside the
  places where pending functors are about to be swapped anyway, pending functors imply
  a readable eventfd or a thread that is about to write; in `doPendingFunctors` the flag
  is set, so the loop's own pushes write too. `handleRead` may empty the eventfd
  because the swap follows before the next poll.
- `Refinement`: `Spec => Executor!Spec`, with the batch followed by the pending vector as
  the abstract queue: a push is `Submit`, running a functor is `Execute`, the swap and
  everything else stutter. It rests on lemmas on concatenation.
- `RunsExactlyOnceInOrder` from the same step lemma.
- `HostImplementsLoop`: `EventLoopThread`'s specification implies `EventLoop`'s (without
  fairness), so all of the above holds of the loops in the pool's threads.
- `EntryNeverDangles`: `NoDanglingEntry`. `HostInv` says that the pointer is set exactly while
  the thread is in `loop()`, that nothing before the destructor sets `m_quit` on a hosted
  loop, and that nobody is inside `queueInLoop` when the destructor starts. It says nothing
  of the second half of `quit()`, which may well find the loop gone.

`TcpServerProofs`, for any number of connections, io loops, users and sends.

- `CommonInv` holds whatever the users call: the types; everything queued, handled or called
  is about a connection that exists; and each connection is sound, that is, index, interest
  list and channel agree, write interest is on exactly while there is output. From it:
  `ServerTypeCorrect`, `UpdatesNeverFatal` (`NoFatalUpdate`), `OutputNeverStranded`
  (`WriteInterestMatchesOutput`). One lemma for each handler of `TcpConnection` says what it does
  to a sound connection; the actions of `TcpServer` only place these.
- `TeardownInv` relates the map, the queues of the loops and the phase of every connection: a
  created connection is in the map, or exactly one `removeConnectionInLoop` or
  `connectDestroyed` is under way for it, or it is destroyed; functors of one connection are
  queued in an order in which each still finds it. From it: `TornDownExactlyOnce`,
  `CallbacksComeInPairs`, `NothingDangles` (`NoDanglingRegistration`), `FinComesLast`
  (`FinAfterOwnData`). These four assume `LoopsShutDown`, that the user threads only send
  (`UserOps \subseteq {"send"}`): only a loop's own thread calls `shutdown()`, as HttpServer
  does. The run `tcp_server_give_up` shows why the hypothesis is needed.

`BufferProofs`, `HttpServerProofs` and `TimerQueueProofs` prove their invariants of the
component's own specification and then, by a lemma that a behaviour of `Programs` is one of the
component (`BufferRuns`, `HttpRuns`, `TimersRun`), the properties as `Programs` states them.

`BufferProofs`: `BufferAlways`, the component's specification implies
`[](TypeOK /\ IndicesOrdered /\ StreamPreserved)`, for any alphabet and sizes. The three are inductive together; one lemma per branch of
`append` says what it does to the readable bytes, and `readFd` with the stack buffer is
shown to be an append on contents whose room has been filled.

`HttpServerProofs`, for streams of any length in any segments. `FramedByLines` is inductive
with the types: a line is taken off the buffer up to the first CRLF, so that what remains
begins where a line begins. `ContextInv` says what the parser's state knows of the stream (the
request line it has kept came at the start of a line, and `kGotAll` means an empty line has come)
and `AnswerInv` that there is no answer while connected; `AnsweredAtMostOnce` and
`AnswersWhatWasAsked` follow.

`TimerQueueProofs`, for any timers and intervals. `OwnInv` extends `OwnedOnce` by the places of
`handleRead`: an entry of the vector that has not been put back or deleted is in no queue,
and the vector has no timer twice. `TimersKeptArmed` (`ArmedUnlessSwallowed`) rests on `ArmInv`,
which extends the property to the places of `handleRead` where it must hold, and adds that the
timerfd is never set before the earliest timer is due: a read that takes an expiration away
then finds that timer expired, and `reset()` sets the timerfd again, unless the timerfd fired
after `handleRead` had taken the time, which is what `swallowed` records.

`RssProofs`. The constants are a finite set of sources, an hour of any number of ticks and a
gap limit of at least one hour.

- `NoHourMissed` (`OnSchedule`) is an argument about places within an hour, written
  `AfterMark(t, r)`: a time to come is a mark (`MarkInv`); the process wakes at a mark or a tick
  after it (`WakeInv`); in a pass that is still short the clock tells how long it has taken, and
  a source that is not waiting to be fetched is due at the next mark or later (`FetchInv`). The
  lemmas on `Round` and on the remainder by an hour hold for every length of the hour.
- `GapFollowsOutcomes` (`GapFollowsStreak`) by cases on the outcome and the run before it.
- `DocumentsAlwaysMatch` and `ArticlesNeverMissed`: `StoreInv` adds, while an article is between
  its two inserts, that its row is the last one and has no document, and, within the loop over
  a feed, that the articles before the current one are stored or refused.

`ConcurrencyProofs`.

- `NeverUsedAfterFree` and `PoppedExactlyOnce`. Every node has a role (free, new, on the stack,
  won, taken, doomed, in a thread's chain, pending) and, in five of them, an owner; that such an
  account exists is the invariant, and each step is shown to have an account after it. A thread in
  the loop of `pop()` holds a node it does not own, but never a free or a doomed one: a node is
  deleted only after the count has shown that nobody else is in `pop()`. The two properties need each other: a value is
  returned once because `head` is never a node that was freed and handed out again while the
  comparison was prepared.
- `OutputInOrder` (`PrintedInOrder`), for any N and all five classes: one thread at most has the
  turn, and the counter or the semaphores say which.

`ProgramProofs`. `LaterSessionsShownInFull` (every session but the first) and `WaitEndsFresh`: what is left of a session and what has
been shown add up to its length, and while the clock waits the FIFO holds only clicks made
since. `ProgramsTypeCorrect` collects the types of the eight components.

Only model-checked: liveness (`QueuedFunctorRuns`, `QuitEndsLoop`, `StartLoopReturns`,
`DestructorReturns`, `ClosedIsReleased`, `ShutdownCompletes`, `WholeRequestAnswered`, `AllFinish`),
which needs fairness and is outside the prover's reach, and the eight violations.

## Not modelled

In `myserver`: logging, sockets and addresses (I/O and formatting); the text of HTTP
responses; the high water mark callback and the `ThreadInitCallback`, which nothing sets;
failing `accept` calls; SIGPIPE, which nothing ignores and whose default would end the
process where the model takes the code's `EPIPE` branch; clocks that are set back.

In the other programs: HTTP and XML of `rss_b`; several clock processes on one FIFO path.

The rest of the repository. More than half of its lines are vendored (`httplib.h` twice,
pugixml): not this repository's logic. Most of what remains are studies of the language and
its library, book exercises and demonstrations of one system call each, with no state that
outlives a `main()`; the work-stealing pool, the hazard-pointer and split-count stacks are
fragments that do not compile. The models therefore cover the programs and a small share of
all lines, and no honest model would cover a large one.

## Plan

1. Done: event loop with its abstraction and proofs, loop thread, poller, connections and
   server, buffer with proofs, HTTP, timers, `rss_b`, tomato clock, turn taking, reclaiming
   stack.
2. Done: proofs of every safety property the passing runs check.
3. Left: shorter proofs where two step lemmas repeat an argument (`TcpServerProofs`,
   `ConcurrencyProofs`), and a refinement of `TcpServer`'s loops to `EventLoop` stated as a
   theorem rather than as the queue both share.
