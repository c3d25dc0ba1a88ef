--------------------------- MODULE EventLoopThread ---------------------------
(***************************************************************************)
(* Who runs an event loop (thread/event_loop_thread.cpp, thread/           *)
(* mythread.cpp).  The base loop is an object of main(), which calls       *)
(* loop() on it: there the program is EventLoop as it stands.  An io loop  *)
(* is an object on the stack of a thread that an EventLoopThread starts in *)
(* startLoop() and joins in its destructor; the owner (the thread that     *)
(* runs EventLoopThreadPool::start and, at the end, ~TcpServer) learns its *)
(* address through m_loop, under m_mutex and m_cond.                       *)
(*                                                                         *)
(* The other threads get the address from the owner, and have stopped      *)
(* using the server when it is destroyed.  Nobody but the destructor calls *)
(* quit() on an io loop.                                                   *)
(***************************************************************************)
EXTENDS EventLoop

CONSTANT Owner          \* the thread that starts and destroys the loop thread

ASSUME OwnerAssumption == Owner \in Threads

VARIABLES
  hosted,     \* Boolean: the loop belongs to an EventLoopThread, not to main()
  ownerPc,    \* where the owner is: "new", in startLoop() at "sem_wait", "lock"
              \* or "wait", "running", in ~EventLoopThread at "quit" (about to call
              \* it), "quitting" (inside it) or "join", "gone"
  threadPc,   \* where the thread is: "none", "started", in threadFunc() at
              \* "func", "loop" or "leaving", "ended"
  m_loop,     \* Boolean: m_loop # nullptr; the destructor reads it unguarded
  notified    \* Boolean: the owner waiting on m_cond has been notified

hostVars == <<hosted, ownerPc, threadPc, m_loop, notified>>
allVars  == <<vars, hostVars>>

HostInit ==
  /\ Init
  /\ hosted \in BOOLEAN
  /\ ownerPc = "new"
  /\ threadPc = "none"
  /\ m_loop = FALSE
  /\ notified = FALSE

(* The EventLoop on the thread's stack exists.                             *)
Alive == hosted => threadPc \in {"func", "loop", "leaving"}

-----------------------------------------------------------------------------
(* The owner.                                                              *)

OwnerGoes(from, to) == hosted /\ ownerPc = from /\ ownerPc' = to

(* MyThread::start() creates the thread ...                                *)
StartThread ==
  /\ OwnerGoes("new", "sem_wait")
  /\ threadPc' = "started"
  /\ UNCHANGED <<vars, hosted, m_loop, notified>>

(* ... and waits until it has posted the semaphore.                        *)
SemWait ==
  /\ OwnerGoes("sem_wait", "lock")
  /\ threadPc # "started"
  /\ UNCHANGED <<vars, hosted, threadPc, m_loop, notified>>

(* Mutant: the wait without the test of m_loop, which misses a             *)
(* notification that came before it.                                       *)
WaitUnconditionally ==
  /\ hosted
  /\ \/ ownerPc = "lock" /\ ownerPc' = "wait" /\ notified' = FALSE
     \/ ownerPc = "wait" /\ notified /\ ownerPc' = "running" /\ UNCHANGED notified
  /\ UNCHANGED <<vars, hosted, threadPc, m_loop>>

(* The loop of startLoop(), under m_mutex: the owner leaves it when m_loop *)
(* is set, and otherwise waits; it is awake again when notified, or for no *)
(* reason.                                                                 *)
WaitForLoop ==
  /\ hosted
  /\ \/ ownerPc = "lock" /\ ownerPc' = (IF m_loop THEN "running" ELSE "wait")
     \/ ownerPc = "wait" /\ ownerPc' = "lock"
  /\ notified' = FALSE
  /\ UNCHANGED <<vars, hosted, threadPc, m_loop>>

(* ~EventLoopThread reads m_loop, without m_mutex: only a loop that is     *)
(* there is told to quit ...                                               *)
Destroy ==
  /\ OwnerGoes("running", IF m_loop THEN "quit" ELSE "gone")
  /\ pushed = {}
  /\ UNCHANGED <<vars, hosted, threadPc, m_loop, notified>>

(* Mutant: the destructor only joins.                                      *)
JoinWithoutQuit ==
  /\ OwnerGoes("quit", "join")
  /\ UNCHANGED <<vars, hosted, threadPc, m_loop, notified>>

(* ... through the pointer it has read: quit() sets m_quit ...             *)
DestroyQuits ==
  /\ OwnerGoes("quit", "quitting")
  /\ Quit(Owner)
  /\ UNCHANGED <<hosted, threadPc, m_loop, notified>>

(* ... and reads m_tid through the same pointer, while the thread may have *)
(* left loop() and destroyed the EventLoop.  The stack of a thread is kept *)
(* until it is joined, so the read gives some value; whatever it is, and   *)
(* whether or not quit() then writes to a closed descriptor, it returns,   *)
(* and nothing is left of the loop that it could change ...                *)
DestroyQuitReturns ==
  /\ OwnerGoes("quitting", "join")
  /\ QuitReturns(Owner)
  /\ UNCHANGED <<hosted, threadPc, m_loop, notified>>

(* ... and joined.                                                         *)
Join ==
  /\ OwnerGoes("join", "gone")
  /\ threadPc = "ended"
  /\ UNCHANGED <<vars, hosted, threadPc, m_loop, notified>>

-----------------------------------------------------------------------------
(* The new thread.                                                         *)

(* It posts the semaphore and enters threadFunc(), whose first statement   *)
(* constructs the EventLoop.  No caller sets a ThreadInitCallback.         *)
EnterThreadFunc ==
  /\ threadPc = "started"
  /\ threadPc' = "func"
  /\ UNCHANGED <<vars, hosted, ownerPc, m_loop, notified>>

(* m_loop is published and the owner notified, under m_mutex.              *)
Publish ==
  /\ threadPc = "func"
  /\ m_loop' = TRUE
  /\ notified' = TRUE
  /\ threadPc' = "loop"
  /\ UNCHANGED <<vars, hosted, ownerPc>>

(* Mutant: the thread ends without taking m_loop back.                     *)
LeaveKeepingPointer ==
  /\ threadPc = "loop" /\ pc = "exited"
  /\ threadPc' = "leaving"
  /\ UNCHANGED <<vars, hosted, ownerPc, m_loop, notified>>

(* loop() has returned: m_loop is taken back under m_mutex ...             *)
LeaveThreadFunc ==
  /\ threadPc = "loop" /\ pc = "exited"
  /\ m_loop' = FALSE
  /\ threadPc' = "leaving"
  /\ UNCHANGED <<vars, hosted, ownerPc, notified>>

(* ... and the EventLoop on the stack is destroyed.                        *)
EndThread ==
  /\ threadPc = "leaving"
  /\ threadPc' = "ended"
  /\ UNCHANGED <<vars, hosted, ownerPc, m_loop, notified>>

-----------------------------------------------------------------------------
(* EventLoop's steps, taken by whoever runs or uses the loop.              *)

InLoop == hosted => threadPc = "loop"
InUse  == hosted => ownerPc = "running"

LoopThreadStep == InLoop /\ LoopStep /\ UNCHANGED hostVars
PollWakes      == Readable /\ PollActive /\ UNCHANGED hostVars
ThreadWakes(t) == WakeupLoop(t) /\ UNCHANGED hostVars

OwnerStep  == StartThread \/ SemWait \/ DestroyQuits \/ DestroyQuitReturns \/ Join
NewThread  == EnterThreadFunc \/ Publish \/ LeaveThreadFunc \/ EndThread

HostNext ==
  \/ OwnerStep \/ WaitForLoop \/ Destroy
  \/ NewThread
  \/ LoopThreadStep
  \/ /\ PollActive \/ PollTimeout \/ QueueInCallback
     /\ UNCHANGED hostVars
  \/ ~hosted /\ QuitInCallback /\ UNCHANGED hostVars
  \/ \E t \in Threads : ~hosted /\ (Quit(t) \/ QuitReturns(t)) /\ UNCHANGED hostVars
  \/ \E t \in Threads : InUse /\ QueueInLoop(t) /\ UNCHANGED hostVars
  \/ \E t \in Threads : ThreadWakes(t)
  \/ ownerPc = "gone" /\ UNCHANGED allVars

HostSpec == HostInit /\ [][HostNext]_allVars

(* The threads keep running; a waiter is sure to run again only when it    *)
(* has been notified.  Nothing makes the owner destroy the loop thread.    *)
HostFairSpec ==
  /\ HostSpec
  /\ WF_allVars(LoopThreadStep)
  /\ WF_allVars(PollWakes)
  /\ \A t \in Threads : WF_allVars(ThreadWakes(t))
  /\ WF_allVars(OwnerStep)
  /\ WF_allVars((ownerPc = "lock" \/ notified) /\ WaitForLoop)
  /\ WF_allVars(NewThread)

-----------------------------------------------------------------------------
(* Properties.                                                             *)

(* Nobody starts to use an EventLoop that has gone: m_loop, the pointer    *)
(* with which the destructor is about to call quit(), and the pointer      *)
(* through which a thread that has pushed is about to wake the loop, are   *)
(* those of an EventLoop still on its thread's stack.  It says nothing of  *)
(* the rest of quit(), after m_quit is set: see QuitEndsOnLiveLoop.        *)
NoDanglingEntry == m_loop \/ ownerPc = "quit" \/ pushed # {} => Alive

(* The comment in quit(), that a thread other than the loop's may call it, *)
(* taken at its word: the object is still there when quit() reads m_tid.   *)
(* The code does not ensure it: once m_quit is set the thread is free to   *)
(* leave threadFunc().                                                     *)
QuitEndsOnLiveLoop == ownerPc = "quitting" => Alive

(* The start handshake ends: a notification that comes before the wait is  *)
(* not missed.                                                             *)
StartLoopReturns == (ownerPc = "sem_wait") ~> (ownerPc = "running")

(* The destructor returns if the thread was inside loop() when it read     *)
(* m_loop.  Without that condition it would not: loop() begins by setting  *)
(* m_quit to false, and the owner would wait in join() for ever.           *)
DestructorReturns ==
  WF_vars(PollTimeout) => ((ownerPc = "quit" /\ pc # "start") ~> (ownerPc = "gone"))
=============================================================================
