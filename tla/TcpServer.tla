------------------------------ MODULE TcpServer ------------------------------
(***************************************************************************)
(* The life of the connections of myserver: TcpServer and Acceptor on the  *)
(* base loop, TcpConnection and its Channel on the io loop that            *)
(* EventLoopThreadPool chose, and user threads that call send and shutdown *)
(* on a connection they hold.                                              *)
(*                                                                         *)
(* A loop is what EventLoop is shown to implement: a queue of functors run *)
(* in order by one thread, here interleaved with the events epoll reports  *)
(* on the connections registered with it.  Loop 0 is the base loop.  A     *)
(* handler or a functor is one step: all it touches belongs to its loop's  *)
(* thread, except m_state, which a user thread reads and writes in steps   *)
(* of its own, and the queues of other loops, to which it only appends.    *)
(* The callbacks of one handleEvent are separate steps, so other threads   *)
(* act between them.                                                       *)
(*                                                                         *)
(* The socket and the peer are external: the peer may close (reads return  *)
(* 0) or reset (one read fails, later ones return 0, writes fail); a write *)
(* after our own FIN fails too; any other write takes some of its bytes.   *)
(* A connection object lives while the map, a queued functor, a handler or *)
(* a user thread refers to it; the functors that send() and shutdown()     *)
(* queue, which hold a raw pointer, are taken to refer to it as well.      *)
(***************************************************************************)
EXTENDS Integers, Sequences, FiniteSets, SequencesExt, EpollPoller

CONSTANTS MaxConn,           \* bound: connections accepted
          MaxThreads,        \* bound: io loops of the pool
          Users,             \* user threads, other than the loops' own
          UserOps,           \* what they call: send, shutdown
          MsgLen,            \* length of a message, in units of output
          MaxSend,           \* bound: sends on each connection
          HasWriteComplete,  \* a WriteCompleteCallback is set
          Destroys           \* ~TcpServer may run while connections are open

ASSUME ServerAssumption ==
  /\ MaxConn \in Nat /\ MaxThreads \in Nat /\ MaxSend \in Nat
  /\ Users \intersect {"none", "loop", "server"} = {}
  /\ UserOps \subseteq {"send", "shutdown"}
  /\ MsgLen \in Nat \ {0}
  /\ HasWriteComplete \in BOOLEAN /\ Destroys \in BOOLEAN

Conn  == 1..MaxConn
Loops == 0..MaxThreads
Idle  == [c |-> 0]    \* not in an event, not in a call
Revents == {"hup", "err", "in", "out"}

VARIABLES
  conn,           \* the TcpConnection objects
  peer,           \* external: what the peer has done
  m_connections,  \* TcpServer's map
  m_nextConnId,
  m_numThreads,   \* io loops: set by setThreadNum before start()
  m_next,         \* EventLoopThreadPool's round robin index
  queue,          \* pending functors of every loop
  handling,       \* the event a loop is dispatching, or Idle
  user,           \* the call a user thread is in the middle of, or Idle
  server          \* "up", "dtor" (in ~TcpServer) or "gone"

pool == <<m_numThreads, m_next>>
vars == <<conn, peer, m_connections, m_nextConnId, pool, queue, handling,
          user, server>>

NewConnection(l) ==
  [state |-> "kConnecting", loop |-> l, out |-> <<>>, fin |-> FALSE,
   events |-> {}, index |-> kNew, mapped |-> FALSE, armed |-> {}, fatal |-> FALSE,
   sends |-> 0,          \* send() calls so far
   closer |-> "none",    \* who first passed shutdown()
   reports |-> <<>>,     \* what connectionCallback has been told
   closed |-> 0,         \* runs of handleClose
   destroyed |-> 0,      \* runs of connectDestroyed
   late |-> FALSE]       \* sendInLoop wrote or buffered after handleClose

NoConnection == [state |-> "none"]
Created(c) == conn[c].state # "none"

Functor(fn, c, by) == [fn |-> fn, c |-> c, by |-> by]
Post(q, l, f) == [q EXCEPT ![l] = Append(@, f)]

Init ==
  /\ conn = [c \in Conn |-> NoConnection]
  /\ peer = [c \in Conn |-> "open"]
  /\ m_connections = {}
  /\ m_nextConnId = 1
  /\ m_numThreads \in 0..MaxThreads
  /\ m_next = 0
  /\ queue = [l \in Loops |-> <<>>]
  /\ handling = [l \in Loops |-> Idle]
  /\ user = [u \in Users |-> Idle]
  /\ server = "up"

-----------------------------------------------------------------------------
(* TcpConnection, as operators on one connection r.                        *)

(* A write fails with EPIPE or ECONNRESET.                                 *)
Broken(r, p) == r.fin \/ p \in {"reset", "dead"}

(* sendInLoop writes at once only when nothing is waiting to be written.   *)
WritesNow(r) == r.state # "kDisconnected" /\ ~IsWrite(r) /\ r.out = <<>>

(* sendInLoop of one message of caller `by`, of which the kernel takes k   *)
(* units (0 is EWOULDBLOCK): what is left is buffered and write interest   *)
(* enabled; on a broken connection it is dropped.                          *)
SendInLoop(r, p, by, k) ==
  LET left == [i \in 1..(IF WritesNow(r) THEN MsgLen - k ELSE MsgLen) |-> by]
      kept == [r EXCEPT !.out = @ \o left, !.late = @ \/ r.closed > 0]
  IN  CASE r.state = "kDisconnected" -> r
        [] WritesNow(r) /\ Broken(r, p) -> r
        [] OTHER -> IF left # <<>> /\ ~IsWrite(r) THEN EnableWrite(kept) ELSE kept

(* Mutant: the write side is shut down with output waiting.                *)
ShutdownAtOnce(r) == [r EXCEPT !.fin = TRUE]

(* shutdownWrite() waits for the output: see HandleWrite.                  *)
ShutdownInLoop(r) == IF IsWrite(r) THEN r ELSE [r EXCEPT !.fin = TRUE]

Disconnecting(r, by) ==
  [r EXCEPT !.state = "kDisconnecting", !.closer = IF @ = "none" THEN by ELSE @]

(* connectionCallback is told connected(): up or down.                     *)
Report(r) == [r EXCEPT !.reports = Append(@, IF r.state = "kConnected" THEN "up" ELSE "down")]

ConnectEstablished(r) == Report(EnableRead([r EXCEPT !.state = "kConnected"]))

(* Mutant: the channel stays with the poller.                              *)
DestroyedNotRemoved(r) ==
  LET down == IF r.state = "kConnected"
              THEN Report(DisableAll([r EXCEPT !.state = "kDisconnected"]))
              ELSE r
  IN  [down EXCEPT !.destroyed = @ + 1]

(* connectDestroyed: the way down for a connection that is still up when   *)
(* the server goes, and only the removal from the poller after a close.    *)
ConnectDestroyed(r) ==
  LET down == IF r.state = "kConnected"
              THEN Report(DisableAll([r EXCEPT !.state = "kDisconnected"]))
              ELSE r
  IN  [RemoveChannel(down) EXCEPT !.destroyed = @ + 1]

(* Mutants: the state is left at kConnected; the channel stays armed.      *)
CloseKeepsState(r) == [Report(DisableAll(r)) EXCEPT !.closed = @ + 1]
CloseKeepsEvents(r) ==
  [Report([r EXCEPT !.state = "kDisconnected"]) EXCEPT !.closed = @ + 1]

(* handleClose up to closeCallback.                                        *)
HandleClose(r) ==
  [Report(DisableAll([r EXCEPT !.state = "kDisconnected"])) EXCEPT !.closed = @ + 1]

(* Mutants: write interest stays on; a shutdown() that waits is forgotten. *)
WriteKeepsInterest(r, p, k) ==
  IF ~IsWrite(r) \/ Broken(r, p) \/ k = 0 THEN r
  ELSE [r EXCEPT !.out = SubSeq(r.out, k + 1, Len(r.out))]
WriteForgetsShutdown(r, p, k) ==
  IF ~IsWrite(r) \/ Broken(r, p) \/ k = 0 THEN r
  ELSE LET written == [r EXCEPT !.out = SubSeq(r.out, k + 1, Len(r.out))]
       IN  IF written.out = <<>> THEN DisableWrite(written) ELSE written

(* handleWrite, of which the kernel takes k units of the output buffer: at *)
(* least one, for epoll has just reported the socket writable.             *)
HandleWrite(r, p, k) ==
  LET left    == SubSeq(r.out, k + 1, Len(r.out))
      written == [r EXCEPT !.out = left]
      drained == DisableWrite(written)
  IN  IF ~IsWrite(r) \/ Broken(r, p) \/ k = 0 THEN r
      ELSE IF left # <<>> THEN written
      ELSE IF r.state = "kDisconnecting" THEN ShutdownInLoop(drained) ELSE drained

(* The WriteCompleteCallback queued, through the loop, by a write that     *)
(* leaves nothing to write.                                                *)
Completed(q, l, c, yes) ==
  IF HasWriteComplete /\ yes THEN Post(q, l, Functor("writeComplete", c, "loop")) ELSE q

-----------------------------------------------------------------------------
(* TcpServer, on the base loop.                                            *)

Running(l) == handling[l] = Idle /\ (l = 0 => server = "up")

(* closeCallback: removeConnection runs removeConnectionInLoop on the base *)
(* loop, which erases the connection and has connectDestroyed queued.      *)
CloseCallback(l, c) ==
  IF l = 0
  THEN /\ m_connections' = m_connections \ {c}
       /\ queue' = Post(queue, conn[c].loop, Functor("connectDestroyed", c, "server"))
  ELSE /\ queue' = Post(queue, 0, Functor("removeConnectionInLoop", c, "server"))
       /\ UNCHANGED m_connections

(* Mutant: the index runs one past the last loop.                          *)
IndexTooFar == IF m_numThreads = 0 \/ m_next + 1 > m_numThreads THEN 0 ELSE m_next + 1

(* EventLoopThreadPool::getNextLoop.                                       *)
NextLoop == IF m_numThreads = 0 THEN 0 ELSE m_next + 1
NextIndex == IF m_numThreads = 0 \/ m_next + 1 >= m_numThreads THEN 0 ELSE m_next + 1

(* Acceptor::handleRead and TcpServer::newConnection.                      *)
Accept ==
  /\ Running(0)
  /\ m_nextConnId <= MaxConn
  /\ LET c == m_nextConnId
         r == NewConnection(NextLoop)
     IN  /\ m_connections' = m_connections \union {c}
         /\ conn' = [conn EXCEPT ![c] = IF NextLoop = 0 THEN ConnectEstablished(r) ELSE r]
         /\ queue' = IF NextLoop = 0 THEN queue
                     ELSE Post(queue, NextLoop, Functor("connectEstablished", c, "server"))
  /\ m_nextConnId' = m_nextConnId + 1
  /\ m_next' = NextIndex
  /\ UNCHANGED <<m_numThreads, peer, handling, user, server>>

(* ~TcpServer, after the base loop has ended: connectDestroyed for every   *)
(* connection, on its own loop.                                            *)
ServerDtor ==
  /\ Destroys
  /\ Running(0)
  /\ server' = "dtor"
  /\ UNCHANGED <<conn, peer, m_connections, m_nextConnId, pool, queue, handling, user>>

DtorConnection(c) ==
  /\ server = "dtor"
  /\ c \in m_connections
  /\ m_connections' = m_connections \ {c}
  /\ IF conn[c].loop = 0
     THEN conn' = [conn EXCEPT ![c] = ConnectDestroyed(@)] /\ UNCHANGED queue
     ELSE /\ queue' = Post(queue, conn[c].loop, Functor("connectDestroyed", c, "server"))
          /\ UNCHANGED conn
  /\ UNCHANGED <<peer, m_nextConnId, pool, handling, user, server>>

DtorDone ==
  /\ server = "dtor"
  /\ m_connections = {}
  /\ server' = "gone"
  /\ UNCHANGED <<conn, peer, m_connections, m_nextConnId, pool, queue, handling, user>>

-----------------------------------------------------------------------------
(* A loop runs the functor at the head of its queue.                       *)

Pending(l, fn) == Running(l) /\ queue[l] # <<>> /\ Head(queue[l]).fn = fn
Rest(l) == [queue EXCEPT ![l] = Tail(@)]
Target(l) == Head(queue[l]).c

RunConnectEstablished(l) ==
  /\ Pending(l, "connectEstablished")
  /\ conn' = [conn EXCEPT ![Target(l)] = ConnectEstablished(@)]
  /\ queue' = Rest(l)
  /\ UNCHANGED <<peer, m_connections, m_nextConnId, pool, handling, user, server>>

(* Mutant: the connection is erased and never destroyed.                   *)
RemoveOnlyErases(l) ==
  /\ Pending(l, "removeConnectionInLoop")
  /\ m_connections' = m_connections \ {Target(l)}
  /\ queue' = Rest(l)
  /\ UNCHANGED <<conn, peer, m_nextConnId, pool, handling, user, server>>

RunRemoveConnection(l) ==
  /\ Pending(l, "removeConnectionInLoop")
  /\ m_connections' = m_connections \ {Target(l)}
  /\ queue' = Post(Rest(l), conn[Target(l)].loop, Functor("connectDestroyed", Target(l), "server"))
  /\ UNCHANGED <<conn, peer, m_nextConnId, pool, handling, user, server>>

RunConnectDestroyed(l) ==
  /\ Pending(l, "connectDestroyed")
  /\ conn' = [conn EXCEPT ![Target(l)] = ConnectDestroyed(@)]
  /\ queue' = Rest(l)
  /\ UNCHANGED <<peer, m_connections, m_nextConnId, pool, handling, user, server>>

RunSendInLoop(l) ==
  /\ Pending(l, "sendInLoop")
  /\ LET c == Target(l)
         r == conn[c]
     IN  \E k \in 0..MsgLen :
           /\ conn' = [conn EXCEPT ![c] = SendInLoop(r, peer[c], Head(queue[l]).by, k)]
           /\ queue' = Completed(Rest(l), l, c, WritesNow(r) /\ ~Broken(r, peer[c]) /\ k = MsgLen)
  /\ UNCHANGED <<peer, m_connections, m_nextConnId, pool, handling, user, server>>

RunShutdownInLoop(l) ==
  /\ Pending(l, "shutdownInLoop")
  /\ conn' = [conn EXCEPT ![Target(l)] = ShutdownInLoop(@)]
  /\ queue' = Rest(l)
  /\ UNCHANGED <<peer, m_connections, m_nextConnId, pool, handling, user, server>>

RunWriteComplete(l) ==
  /\ Pending(l, "writeComplete")
  /\ queue' = Rest(l)
  /\ UNCHANGED <<conn, peer, m_connections, m_nextConnId, pool, handling, user, server>>

RunFunctor(l) ==
  \/ RunConnectEstablished(l) \/ RunRemoveConnection(l) \/ RunConnectDestroyed(l)
  \/ RunSendInLoop(l) \/ RunShutdownInLoop(l) \/ RunWriteComplete(l)

-----------------------------------------------------------------------------
(* A loop dispatches an event: Channel::handleEventWithGuard.              *)

Hup(c) == peer[c] \in {"reset", "dead"} \/ (peer[c] = "eof" /\ conn[c].fin)

(* epoll_wait reports on a registered connection, level triggered.         *)
TakeEvent(l, c, revents) ==
  /\ Running(l)
  /\ revents # {}
  /\ "hup" \in revents <=> Hup(c)
  /\ "err" \in revents <=> peer[c] = "reset"
  /\ "in" \in conn[c].armed /\ peer[c] # "open" => "in" \in revents
  /\ handling' = [handling EXCEPT ![l] = [c |-> c, revents |-> revents]]
  /\ UNCHANGED <<conn, peer, m_connections, m_nextConnId, pool, queue, user, server>>

Poll(c) ==
  /\ Created(c)
  /\ \E revents \in SUBSET conn[c].armed : TakeEvent(conn[c].loop, c, revents)

(* The callbacks come in the order close, error, read, write; e is next    *)
(* when what precedes it has been dealt with.                              *)
Before(e) == CASE e = "hup" -> {}
               [] e = "err" -> {"hup"}
               [] e = "in"  -> {"hup", "err"}
               [] e = "out" -> {"hup", "err", "in"}
Dispatching(l, e) ==
  /\ handling[l] # Idle
  /\ e \in handling[l].revents
  /\ handling[l].revents \intersect Before(e) = {}
Dispatched(l, e) ==
  handling' = [handling EXCEPT ![l] =
                 IF @.revents = {e} THEN Idle ELSE [c |-> @.c, revents |-> @.revents \ {e}]]

(* A hangup without EPOLLIN is a close; with it the read will find out.    *)
HupEvent(l) ==
  /\ Dispatching(l, "hup")
  /\ LET c == handling[l].c
     IN  IF "in" \in handling[l].revents
         THEN UNCHANGED <<conn, m_connections, queue>>
         ELSE /\ conn' = [conn EXCEPT ![c] = HandleClose(@)]
              /\ CloseCallback(l, c)
  /\ Dispatched(l, "hup")
  /\ UNCHANGED <<peer, m_nextConnId, pool, user, server>>

(* handleError only logs, but its getsockopt clears the socket's error, so *)
(* that the read after it finds the end of the stream.                     *)
ErrEvent(l) ==
  /\ Dispatching(l, "err")
  /\ peer' = [peer EXCEPT ![handling[l].c] = "dead"]
  /\ Dispatched(l, "err")
  /\ UNCHANGED <<conn, m_connections, m_nextConnId, pool, queue, user, server>>

(* handleRead with n = 0.                                                  *)
ReadEof(l) ==
  /\ Dispatching(l, "in")
  /\ LET c == handling[l].c
     IN  /\ peer[c] \in {"eof", "dead"}
         /\ conn' = [conn EXCEPT ![c] = HandleClose(@)]
         /\ CloseCallback(l, c)
  /\ Dispatched(l, "in")
  /\ UNCHANGED <<peer, m_nextConnId, pool, user, server>>

(* handleRead with n < 0, when the reset came after the poll.              *)
ReadError(l) ==
  /\ Dispatching(l, "in")
  /\ peer[handling[l].c] = "reset"
  /\ peer' = [peer EXCEPT ![handling[l].c] = "dead"]
  /\ Dispatched(l, "in")
  /\ UNCHANGED <<conn, m_connections, m_nextConnId, pool, queue, user, server>>

(* handleRead with data: the message callback may send, and then shut the  *)
(* connection down, as HttpServer::onMessage does.                         *)
ReadMessage(l) ==
  /\ Dispatching(l, "in")
  /\ LET c == handling[l].c
         r == conn[c]
     IN  /\ peer[c] = "open"
         /\ \E send, shut \in BOOLEAN, k \in 0..MsgLen :
              LET sends == send /\ r.state = "kConnected"
                  sent  == IF sends THEN [SendInLoop(r, peer[c], "loop", k) EXCEPT !.sends = @ + 1]
                           ELSE r
              IN  /\ sends => r.sends < MaxSend
                  /\ conn' = [conn EXCEPT ![c] =
                       IF shut /\ sent.state = "kConnected"
                       THEN ShutdownInLoop(Disconnecting(sent, "loop")) ELSE sent]
                  /\ queue' = Completed(queue, l, c, sends /\ WritesNow(r) /\ ~Broken(r, peer[c]) /\ k = MsgLen)
  /\ Dispatched(l, "in")
  /\ UNCHANGED <<peer, m_connections, m_nextConnId, pool, user, server>>

WriteEvent(l) ==
  /\ Dispatching(l, "out")
  /\ LET c == handling[l].c
         r == conn[c]
     IN  \E k \in 0..Len(r.out) :
           /\ k = 0 => r.out = <<>>
           /\ conn' = [conn EXCEPT ![c] = HandleWrite(r, peer[c], k)]
           /\ queue' = Completed(queue, l, c, IsWrite(r) /\ ~Broken(r, peer[c]) /\ k > 0 /\ k = Len(r.out))
  /\ Dispatched(l, "out")
  /\ UNCHANGED <<peer, m_connections, m_nextConnId, pool, user, server>>

Dispatch(l) ==
  HupEvent(l) \/ ErrEvent(l) \/ ReadEof(l) \/ ReadError(l) \/ ReadMessage(l) \/ WriteEvent(l)

-----------------------------------------------------------------------------
(* A user thread, which is not the loop's: send() and shutdown() read      *)
(* m_state first and act on what they read later.                          *)

UserCall(u, c, op) ==
  /\ user[u] = Idle
  /\ Created(c) /\ conn[c].state = "kConnected"
  /\ op = "send" => conn[c].sends < MaxSend
  /\ conn' = [conn EXCEPT ![c].sends = IF op = "send" THEN @ + 1 ELSE @]
  /\ user' = [user EXCEPT ![u] = [op |-> op, c |-> c]]
  /\ UNCHANGED <<peer, m_connections, m_nextConnId, pool, queue, handling, server>>

UserSend(u) ==
  /\ user[u] # Idle /\ user[u].op = "send"
  /\ LET c == user[u].c
     IN  queue' = Post(queue, conn[c].loop, Functor("sendInLoop", c, u))
  /\ user' = [user EXCEPT ![u] = Idle]
  /\ UNCHANGED <<conn, peer, m_connections, m_nextConnId, pool, handling, server>>

UserShutdown(u) ==
  /\ user[u] # Idle /\ user[u].op = "shutdown"
  /\ LET c == user[u].c
     IN  /\ conn' = [conn EXCEPT ![c] = Disconnecting(@, u)]
         /\ queue' = Post(queue, conn[c].loop, Functor("shutdownInLoop", c, u))
  /\ user' = [user EXCEPT ![u] = Idle]
  /\ UNCHANGED <<peer, m_connections, m_nextConnId, pool, handling, server>>

(* The peer closes its side or resets the connection.                      *)
PeerActs(c, what) ==
  /\ Created(c)
  /\ \/ what = "eof" /\ peer[c] = "open"
     \/ what = "reset" /\ peer[c] \in {"open", "eof"}
  /\ peer' = [peer EXCEPT ![c] = what]
  /\ UNCHANGED <<conn, m_connections, m_nextConnId, pool, queue, handling, user, server>>

-----------------------------------------------------------------------------
Next ==
  \/ Accept \/ ServerDtor \/ DtorDone
  \/ \E c \in Conn : DtorConnection(c) \/ Poll(c) \/ \E what \in {"eof", "reset"} : PeerActs(c, what)
  \/ \E l \in Loops : RunFunctor(l) \/ Dispatch(l)
  \/ \E u \in Users : \/ UserSend(u) \/ UserShutdown(u)
                      \/ \E c \in Conn, op \in UserOps : UserCall(u, c, op)

Spec == Init /\ [][Next]_vars

(* Every loop runs its queue in each iteration, however many events it     *)
(* has; epoll, whose ready list rotates, keeps reporting a closed peer or  *)
(* a writable socket until the loop takes it; a peer that stays            *)
(* connected keeps reading, so that the socket becomes writable again; and *)
(* a thread inside send() or shutdown() finishes the call.                 *)
TakeClosed(c) == peer[c] # "open" /\ Poll(c)
TakeWritable(c) ==
  /\ Created(c)
  /\ \E revents \in SUBSET conn[c].armed :
       "out" \in revents /\ TakeEvent(conn[c].loop, c, revents)

Fairness ==
  /\ \A l \in Loops : SF_vars(RunFunctor(l)) /\ WF_vars(Dispatch(l))
  /\ \A c \in Conn : SF_vars(TakeClosed(c)) /\ SF_vars(TakeWritable(c))
  /\ \A u \in Users : WF_vars(UserSend(u) \/ UserShutdown(u))

FairSpec == Spec /\ Fairness

-----------------------------------------------------------------------------
(* Properties.                                                             *)

Callers == Users \union {"server", "loop"}

Connection ==
  [state : {"kConnecting", "kConnected", "kDisconnecting", "kDisconnected"},
   loop : Loops, out : Seq(Callers), fin : BOOLEAN,
   events : SUBSET {"in", "out"}, index : {kNew, kAdded, kDeleted},
   mapped : BOOLEAN, armed : SUBSET Revents, fatal : BOOLEAN,
   sends : 0..MaxSend, closer : Callers \union {"none"}, reports : Seq({"up", "down"}),
   closed : Nat, destroyed : Nat, late : BOOLEAN]

Functors ==
  [fn : {"connectEstablished", "removeConnectionInLoop", "connectDestroyed",
         "sendInLoop", "shutdownInLoop", "writeComplete"},
   c : Conn, by : Callers]

TypeOK ==
  /\ conn \in [Conn -> Connection \union {NoConnection}]
  /\ peer \in [Conn -> {"open", "eof", "reset", "dead"}]
  /\ m_connections \subseteq Conn
  /\ m_nextConnId \in 1..MaxConn + 1
  /\ m_numThreads \in 0..MaxThreads
  /\ m_next \in 0..m_numThreads /\ (m_next = m_numThreads => m_numThreads = 0)
  /\ queue \in [Loops -> Seq(Functors)]
  /\ handling \in [Loops -> {Idle} \union [c : Conn, revents : (SUBSET Revents) \ {{}}]]
  /\ user \in [Users -> {Idle} \union [op : UserOps, c : Conn]]
  /\ server \in {"up", "dtor", "gone"}

(* Nothing refers to the connection any more: its destructor runs.         *)
Released(c) ==
  /\ Created(c) /\ c \notin m_connections
  /\ \A l \in Loops : /\ \A i \in DOMAIN queue[l] : queue[l][i].c # c
                      /\ handling[l].c # c
  /\ \A u \in Users : user[u].c # c

(* When the last reference to a connection goes, its channel is in neither *)
(* the kernel's interest list nor the poller's map: epoll never hands back *)
(* a pointer to a destroyed channel.                                       *)
NoDanglingRegistration ==
  \A c \in Conn : Released(c) => conn[c].armed = {} /\ ~conn[c].mapped

(* The user's connectionCallback is told up once and then down at most     *)
(* once, through whichever of handleClose and connectDestroyed comes first.*)
CallbacksPaired ==
  \A c \in Conn : Created(c) => IsPrefix(conn[c].reports, <<"up", "down">>)

(* However close events, removeConnection and ~TcpServer interleave, a     *)
(* connection is closed and destroyed at most once, and it is not          *)
(* destroyed while the server still lists it.                              *)
TornDownOnce ==
  \A c \in Conn : Created(c) =>
    /\ conn[c].closed <= 1 /\ conn[c].destroyed <= 1
    /\ conn[c].destroyed = 1 => c \notin m_connections

(* No add or modify of the interest list fails, which would abort the      *)
(* process.                                                                *)
NoFatalUpdate == \A c \in Conn : Created(c) => ~conn[c].fatal

(* While a connection is open, EPOLLOUT is asked for exactly while output  *)
(* is waiting: data is never left without an event to write it, and the    *)
(* loop never spins on a writable socket with nothing to write.            *)
WriteInterestMatchesOutput ==
  \A c \in Conn : Created(c) /\ conn[c].closed = 0 /\ conn[c].destroyed = 0 =>
    (IsWrite(conn[c]) <=> conn[c].out # <<>>)

(* What a thread sent before it called shutdown() is written before the    *)
(* FIN, whether it was written at once, buffered or still in the queue.    *)
(* A loop that sends on its own connection never queues the send, so where *)
(* the users only send, and every closer is a loop, the second conjunct    *)
(* adds nothing; the first is the one that shutdownInLoop has to see to.   *)
FinAfterOwnData ==
  \A c \in Conn : Created(c) /\ conn[c].fin /\ conn[c].closed = 0 =>
    /\ conn[c].closer \notin ToSet(conn[c].out)
    /\ \A l \in Loops : \A i \in DOMAIN queue[l] :
         ~(/\ queue[l][i].fn = "sendInLoop" /\ queue[l][i].c = c
           /\ queue[l][i].by = conn[c].closer)

(* "disconnected, give up write": no output after handleClose.             *)
GivesUpWrite == \A c \in Conn : Created(c) => ~conn[c].late

(* While the server runs, a peer that closes or resets has its connection  *)
(* destroyed and released.                                                 *)
ClosedIsReleased ==
  \A c \in Conn : (Created(c) /\ peer[c] # "open") ~>
    (server # "up" \/ (Released(c) /\ conn[c].destroyed >= 1))

(* While the server runs, a shutdown() gets its FIN out, after whatever    *)
(* output was waiting, or the connection is closed.                        *)
ShutdownCompletes ==
  \A c \in Conn : conn[c].state = "kDisconnecting" ~>
    (server # "up" \/ (Created(c) /\ (conn[c].fin \/ conn[c].closed > 0)))
=============================================================================
