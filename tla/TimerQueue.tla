------------------------------ MODULE TimerQueue ------------------------------
(***************************************************************************)
(* The timers of an EventLoop (common/timer_queue.cpp, common/timer.cpp):  *)
(* a set ordered by expiration, and one timerfd kept armed for its first   *)
(* element.  All steps are the loop thread's, but time passes and the      *)
(* timerfd fires between any two of them: poll() puts the timer channel in *)
(* the active list, the callbacks of channels before it in the list may    *)
(* still add timers and set the timerfd anew, and only then handleRead     *)
(* runs.  addTimer from another thread is addTimerInLoop in a functor.     *)
(*                                                                         *)
(* External: the timerfd, set to an expiry, readable once that is reached  *)
(* and disarmed by the read.  The wall clock of Timestamp::now() and the   *)
(* timerfd's CLOCK_MONOTONIC are one clock, now: nobody sets the time.     *)
(* Time saturates at the bound MaxTime, so that what is due after it is    *)
(* due at it.                                                              *)
(***************************************************************************)
EXTENDS Integers, Sequences, FiniteSets

CONSTANTS NumTimers,    \* bound: timers added
          Intervals,    \* the intervals they may have; 0 is a one-shot timer
          MaxTime,      \* bound on the clock
          MinDelay      \* the 100 microseconds of resetTimerfd

Timers == 1..NumTimers
Never == -1
Capped(x) == IF x > MaxTime THEN MaxTime ELSE x

VARIABLES
  now,
  timer,       \* the Timer objects: expiration, interval, and whether they live
  m_timers,    \* entries <<expiration, timer>>
  m_timerFd,   \* when it fires, or Never
  active,      \* poll() returned the timer channel
  pc,          \* "loop", or in handleRead: "read", "run" or "reset"
  readNow,     \* handleRead's now
  expired,     \* handleRead's vector
  next,        \* the element its loop is at
  ran,         \* history: timers whose callback has been called
  swallowed    \* history: the timerfd fired between handleRead's now and its
               \* read, and has not been set since

handler == <<readNow, expired, next>>
vars == <<now, timer, m_timers, m_timerFd, active, pc, handler, ran, swallowed>>

NoTimer == [expiration |-> 0, interval |-> 0, life |-> "none"]

Init ==
  /\ now = 0
  /\ timer = [t \in Timers |-> NoTimer]
  /\ m_timers = {}
  /\ m_timerFd = Never
  /\ active = FALSE
  /\ pc = "loop"
  /\ readNow = 0 /\ expired = <<>> /\ next = 1
  /\ ran = {} /\ swallowed = FALSE

-----------------------------------------------------------------------------
Readable == m_timerFd # Never /\ now >= m_timerFd

(* resetTimerfd: the delay until expiration, at least MinDelay.            *)
ResetTimerfd(expiration) ==
  Capped(now + IF expiration - now < MinDelay THEN MinDelay ELSE expiration - now)

Earliest(entries) ==
  CHOOSE e \in {x[1] : x \in entries} : \A x \in entries : e <= x[1]

EarliestChanged(when) == m_timers = {} \/ when < Earliest(m_timers)

(* Mutant: the expired entries stay in the queue.                          *)
KeepExpired(entries) == entries

(* getExpired leaves the entries after now: the sentry it looks for comes  *)
(* after every entry with expiration now.                                  *)
NotExpired(entries) == {x \in entries : x[1] > readNow}

(* The order of m_timers: by expiration, and by timer when they are due at *)
(* the same time.  InOrder: entries, each once, as a sequence so ordered.  *)
Sooner(x, y) == x[1] < y[1] \/ (x[1] = y[1] /\ x[2] < y[2])
InOrder(entries) ==
  {s \in [1..Cardinality(entries) -> entries] :
     /\ \A x \in entries : \E i \in DOMAIN s : s[i] = x
     /\ \A i, j \in DOMAIN s : i < j => Sooner(s[i], s[j])}

-----------------------------------------------------------------------------
(* Time passes.                                                            *)
Tick ==
  /\ now < MaxTime
  /\ now' = now + 1
  /\ UNCHANGED <<timer, m_timers, m_timerFd, active, pc, handler, ran, swallowed>>

(* addTimerInLoop, in a functor, a channel's callback or a timer's.        *)
AddTimer(t, when, interval) ==
  /\ pc = "loop" \/ (pc = "run" /\ next > 1)
  /\ timer[t].life = "none"
  /\ timer' = [timer EXCEPT ![t] = [expiration |-> when, interval |-> interval, life |-> "live"]]
  /\ m_timers' = m_timers \union {<<when, t>>}
  /\ m_timerFd' = IF EarliestChanged(when) THEN ResetTimerfd(when) ELSE m_timerFd
  /\ swallowed' = (swallowed /\ ~EarliestChanged(when))
  /\ UNCHANGED <<now, active, pc, handler, ran>>

Poll ==
  /\ pc = "loop"
  /\ ~active /\ Readable
  /\ active' = TRUE
  /\ UNCHANGED <<now, timer, m_timers, m_timerFd, pc, handler, ran, swallowed>>

(* handleRead takes the time ...                                           *)
HandleRead ==
  /\ pc = "loop"
  /\ active
  /\ active' = FALSE
  /\ readNow' = now
  /\ pc' = "read"
  /\ UNCHANGED <<now, timer, m_timers, m_timerFd, expired, next, ran, swallowed>>

(* ... reads the timerfd, in vain if it has been set again, and takes the  *)
(* expired entries in order ...                                            *)
ReadTimerFd ==
  /\ pc = "read"
  /\ m_timerFd' = IF Readable THEN Never ELSE m_timerFd
  /\ expired' \in InOrder({x \in m_timers : x[1] <= readNow})
  /\ m_timers' = NotExpired(m_timers)
  /\ next' = 1
  /\ pc' = "run"
  /\ swallowed' = (swallowed \/ (Readable /\ m_timerFd > readNow))
  /\ UNCHANGED <<now, timer, active, readNow, ran>>

(* ... calls them ...                                                      *)
Run ==
  /\ pc = "run"
  /\ next <= Len(expired)
  /\ ran' = ran \union {expired[next][2]}
  /\ next' = next + 1
  /\ UNCHANGED <<now, timer, m_timers, m_timerFd, active, pc, readNow, expired, swallowed>>

RunDone ==
  /\ pc = "run"
  /\ next > Len(expired)
  /\ next' = 1
  /\ pc' = "reset"
  /\ UNCHANGED <<now, timer, m_timers, m_timerFd, active, readNow, expired, ran, swallowed>>

(* Mutant: the timerfd is not set for what remains.                        *)
ResetWithoutTimerfd ==
  /\ pc = "reset"
  /\ next <= Len(expired)
  /\ LET t == expired[next][2]
         again == Capped(now + timer[t].interval)
     IN  IF timer[t].interval > 0
         THEN /\ timer' = [timer EXCEPT ![t].expiration = again]
              /\ m_timers' = m_timers \union {<<again, t>>}
         ELSE /\ timer' = [timer EXCEPT ![t].life = "deleted"]
              /\ UNCHANGED m_timers
  /\ next' = next + 1
  /\ UNCHANGED <<now, m_timerFd, active, pc, readNow, expired, ran, swallowed>>

(* ... and reset() restarts or deletes each, setting the timerfd for what  *)
(* is then the first.                                                      *)
Reset ==
  /\ pc = "reset"
  /\ next <= Len(expired)
  /\ LET t == expired[next][2]
         again == Capped(now + timer[t].interval)
     IN  IF timer[t].interval > 0
         THEN /\ timer' = [timer EXCEPT ![t].expiration = again]
              /\ m_timers' = m_timers \union {<<again, t>>}
         ELSE /\ timer' = [timer EXCEPT ![t].life = "deleted"]
              /\ UNCHANGED m_timers
  /\ m_timerFd' = IF m_timers' # {} THEN ResetTimerfd(Earliest(m_timers')) ELSE m_timerFd
  /\ swallowed' = (swallowed /\ m_timers' = {})
  /\ next' = next + 1
  /\ UNCHANGED <<now, active, pc, readNow, expired, ran>>

ResetDone ==
  /\ pc = "reset"
  /\ next > Len(expired)
  /\ expired' = <<>> /\ next' = 1
  /\ pc' = "loop"
  /\ UNCHANGED <<now, timer, m_timers, m_timerFd, active, readNow, ran, swallowed>>

-----------------------------------------------------------------------------
LoopStep == Poll \/ HandleRead \/ ReadTimerFd \/ Run \/ RunDone \/ Reset \/ ResetDone

Next ==
  \/ LoopStep
  \/ Tick
  \/ \E t \in Timers, when \in 0..MaxTime, interval \in Intervals : AddTimer(t, when, interval)

Spec == Init /\ [][Next]_vars

(* The loop thread keeps running, epoll_wait reports a readable timerfd,   *)
(* and time passes.                                                        *)
FairSpec == Spec /\ WF_vars(LoopStep) /\ WF_vars(Tick)

-----------------------------------------------------------------------------
(* Properties.                                                             *)

TypeOK ==
  /\ now \in 0..MaxTime
  /\ timer \in [Timers -> [expiration : 0..MaxTime, interval : Intervals \union {0},
                           life : {"none", "live", "deleted"}]]
  /\ m_timers \subseteq (0..MaxTime) \X Timers
  /\ m_timerFd \in 0..MaxTime \union {Never}
  /\ active \in BOOLEAN
  /\ pc \in {"loop", "read", "run", "reset"}
  /\ readNow \in 0..MaxTime
  /\ expired \in Seq((0..MaxTime) \X Timers)
  /\ next \in 1..Len(expired) + 1
  /\ ran \subseteq Timers
  /\ swallowed \in BOOLEAN

(* The timerfd is going to fire, and no later than the first timer is due  *)
(* or, if that is overdue, than the least delay.                           *)
ArmedForEarliest ==
  /\ m_timerFd # Never
  /\ m_timerFd <= Earliest(m_timers) \/ m_timerFd <= now + MinDelay

(* Timers that wait while the loop polls, or goes on to the channels after *)
(* poll(), are going to be served in time, whatever was added by channels  *)
(* between poll() and handleRead or by the callbacks it ran, and whatever  *)
(* time passed between any two steps.  The one way to leave them unserved  *)
(* is the race that EveryTimerRuns shows: the timerfd, set anew between    *)
(* poll() and handleRead, fires after handleRead has taken the time and    *)
(* before it reads.                                                        *)
ArmedUnlessSwallowed ==
  pc = "loop" /\ m_timers # {} => ArmedForEarliest \/ swallowed

(* Every live timer is in exactly one place, filed under its expiration in *)
(* the queue or in the handler's vector, and a deleted one in neither: no  *)
(* timer is lost, run after it is deleted, or filed under a stale key.     *)
OwnedOnce ==
  LET held == {expired[i][2] : i \in (IF pc = "reset" THEN next ELSE 1)..Len(expired)}
  IN  \A t \in Timers :
        LET filed == {x \in m_timers : x[2] = t}
        IN  IF timer[t].life # "live" THEN filed = {} /\ t \notin held
            ELSE IF t \in held THEN filed = {}
            ELSE filed = {<<timer[t].expiration, t>>}

(* addTimer's "callback, expiration": every timer added is called.         *)
EveryTimerRuns == \A t \in Timers : timer[t].life = "live" ~> t \in ran
=============================================================================
