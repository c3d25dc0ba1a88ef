--------------------------- MODULE TimerQueueProofs ---------------------------
(***************************************************************************)
(* Proofs about TimerQueue for any number of timers, any intervals and any *)
(* bound on the clock.                                                     *)
(***************************************************************************)
EXTENDS Programs, SequenceTheorems, FiniteSetTheorems, TLAPS

USE TimerConstants DEF TimerConstants, TimerQ!Timers, TimerQ!Never

(* The entries of the queue, and the Timer objects.                        *)
Entries == (0..MaxTime) \X TimerQ!Timers
TimerObject == [expiration : 0..MaxTime, interval : Intervals \union {0},
                life : {"none", "live", "deleted"}]

-----------------------------------------------------------------------------
(* A set of numbers has a smallest one.                                    *)
LEMMA LeastElement ==
  ASSUME NEW I \in SUBSET Nat, I # {}
  PROVE  \E x \in I : \A y \in I : x <= y
  <1>. DEFINE R == OpToRel(<, Nat)
  <1>1. IsWellFoundedOn(R, Nat)
    BY NatLessThanWellFounded
  <1>2. PICK x \in I : \A y \in I : ~(<<y, x>> \in R)
    <2>. HIDE DEF R
    <2>. QED
      BY <1>1, WFMin
  <1>3. ASSUME NEW y \in I
        PROVE  x <= y
    <2>1. x \in Nat /\ y \in Nat /\ ~(y < x)
      BY <1>2 DEF OpToRel
    <2>. QED
      BY <2>1
  <1>. QED
    BY <1>3

(* The expiration of the first entry.                                      *)
LEMMA EarliestEntry ==
  ASSUME NEW E \in SUBSET Entries, E # {}
  PROVE  /\ TimerQ!Earliest(E) \in 0..MaxTime
         /\ \A x \in E : TimerQ!Earliest(E) <= x[1]
         /\ \E x \in E : x[1] = TimerQ!Earliest(E)
  <1>. DEFINE I == {x[1] : x \in E}
  <1>1. I \in SUBSET (0..MaxTime) /\ I # {}
    BY DEF Entries
  <1>2. \E e \in I : \A y \in I : e <= y
    <2>. HIDE DEF I
    <2>1. I \in SUBSET Nat
      BY <1>1
    <2>. QED
      BY <1>1, <2>1, LeastElement
  <1>3. \E e \in I : \A x \in E : e <= x[1]
    BY <1>2
  <1>4. TimerQ!Earliest(E) \in I /\ \A x \in E : TimerQ!Earliest(E) <= x[1]
    BY <1>3 DEF TimerQ!Earliest
  <1>5. \E x \in E : x[1] = TimerQ!Earliest(E)
    BY <1>4
  <1>. QED
    BY <1>1, <1>4, <1>5

(* It is the only expiration in the set with none before it.               *)
LEMMA EarliestIs ==
  ASSUME NEW E \in SUBSET Entries, NEW x \in E, \A y \in E : x[1] <= y[1]
  PROVE  TimerQ!Earliest(E) = x[1]
  <1>1. /\ TimerQ!Earliest(E) \in 0..MaxTime
        /\ TimerQ!Earliest(E) <= x[1] /\ x[1] <= TimerQ!Earliest(E)
    BY EarliestEntry
  <1>2. x[1] \in 0..MaxTime
    BY DEF Entries
  <1>. QED
    BY <1>1, <1>2

(* The time the timerfd is set to: not before the expiration, and no later *)
(* than it or than the least delay.                                        *)
LEMMA ResetTime ==
  ASSUME now \in 0..MaxTime, NEW e \in 0..MaxTime
  PROVE  /\ TimerQ!ResetTimerfd(e) \in 0..MaxTime
         /\ e <= TimerQ!ResetTimerfd(e)
         /\ TimerQ!ResetTimerfd(e) <= e \/ TimerQ!ResetTimerfd(e) <= now + MinDelay
  <1>1. CASE e - now < MinDelay
    BY <1>1 DEF TimerQ!ResetTimerfd, TimerQ!Capped
  <1>2. CASE ~(e - now < MinDelay)
    BY <1>2 DEF TimerQ!ResetTimerfd, TimerQ!Capped
  <1>. QED
    BY <1>1, <1>2

(* What getExpired returns.                                                *)
LEMMA InOrderSeq ==
  ASSUME NEW E \in SUBSET Entries, NEW s \in TimerQ!InOrder(E)
  PROVE  /\ s \in Seq(Entries) /\ Len(s) \in Nat /\ DOMAIN s = 1..Len(s)
         /\ \A i \in 1..Len(s) : s[i] \in E
         /\ \A x \in E : \E i \in 1..Len(s) : s[i] = x
         /\ \A i, h \in 1..Len(s) : i < h => TimerQ!Sooner(s[i], s[h])
  <1>1. IsFiniteSet(Entries)
    <2>1. IsFiniteSet(0..MaxTime) /\ IsFiniteSet(TimerQ!Timers)
      BY FS_Interval
    <2>. QED
      BY <2>1, FS_Product DEF Entries
  <1>2. Cardinality(E) \in Nat
    BY <1>1, FS_Subset, FS_CardinalityType
  <1>. DEFINE n == Cardinality(E)
  <1>3. /\ s \in [1..n -> E]
        /\ \A x \in E : \E i \in DOMAIN s : s[i] = x
        /\ \A i, h \in DOMAIN s : i < h => TimerQ!Sooner(s[i], s[h])
    <2>1. n = TimerQ!Cardinality(E)
      BY DEF Cardinality, TimerQ!Cardinality
    <2>. HIDE DEF n
    <2>. QED
      BY <2>1 DEF TimerQ!InOrder
  <1>. HIDE DEF n
  <1>4. n \in Nat
    BY <1>2 DEF n
  <1>5. s \in Seq(E) /\ Len(s) = n
    BY <1>3, <1>4
  <1>6. s \in Seq(Entries)
    BY <1>3, <1>4
  <1>. QED
    BY <1>3, <1>4, <1>5, <1>6

-----------------------------------------------------------------------------
(* Type correctness of every state of TimerQueue.                          *)
LEMMA TimerTypes == TimerQ!Spec => []TimerQ!TypeOK
  <1>1. TimerQ!Init => TimerQ!TypeOK
    <2>. SUFFICES ASSUME TimerQ!Init PROVE TimerQ!TypeOK
      OBVIOUS
    <2>1. expired \in Seq((0..MaxTime) \X TimerQ!Timers) /\ Len(expired) = 0 /\ nextExpired = 1
      BY DEF TimerQ!Init
    <2>2. timer \in [TimerQ!Timers -> TimerObject]
      BY DEF TimerQ!Init, TimerQ!NoTimer, TimerObject
    <2>3. nextExpired \in 1..Len(expired) + 1
      BY <2>1
    <2>0. 0 \in 0..MaxTime
      OBVIOUS
    <2>4. /\ now = 0 /\ m_timers = {} /\ m_timerFd = TimerQ!Never /\ active = FALSE
          /\ timerPc = "loop" /\ readNow = 0 /\ ran = {} /\ swallowed = FALSE
      BY DEF TimerQ!Init
    <2>. QED
      BY <2>0, <2>1, <2>2, <2>3, <2>4 DEF TimerQ!TypeOK, TimerObject
  <1>2. TimerQ!TypeOK /\ [TimerQ!Next]_(TimerQ!vars) => TimerQ!TypeOK'
    <2>. SUFFICES ASSUME TimerQ!TypeOK, [TimerQ!Next]_(TimerQ!vars)
                  PROVE  TimerQ!TypeOK'
      OBVIOUS
    <2>0. Len(expired) \in Nat /\ \A i \in 1..Len(expired) : expired[i] \in Entries
      BY DEF TimerQ!TypeOK, Entries
    <2>1. CASE TimerQ!Tick
      BY <2>1 DEF TimerQ!Tick, TimerQ!TypeOK, TimerQ!handler
    <2>2. ASSUME NEW t \in TimerQ!Timers, NEW when \in 0..MaxTime, NEW interval \in Intervals,
                 TimerQ!AddTimer(t, when, interval)
          PROVE  TimerQ!TypeOK'
      <3>1. TimerQ!ResetTimerfd(when) \in 0..MaxTime
        BY ResetTime DEF TimerQ!TypeOK
      <3>2. m_timers' \subseteq Entries
        <4>1. m_timers' = m_timers \union {<<when, t>>} /\ <<when, t>> \in Entries
          BY <2>2 DEF TimerQ!AddTimer, Entries
        <4>. QED
          BY <4>1 DEF TimerQ!TypeOK, Entries
      <3>. QED
        BY <2>2, <3>1, <3>2 DEF TimerQ!AddTimer, TimerQ!TypeOK, TimerQ!handler, Entries
    <2>3. CASE TimerQ!Poll
      BY <2>3 DEF TimerQ!Poll, TimerQ!TypeOK, TimerQ!handler
    <2>4. CASE TimerQ!HandleRead
      BY <2>4 DEF TimerQ!HandleRead, TimerQ!TypeOK
    <2>5. CASE TimerQ!ReadTimerFd
      <3>. DEFINE E == {x \in m_timers : x[1] <= readNow}
      <3>1. E \in SUBSET Entries /\ expired' \in TimerQ!InOrder(E)
        BY <2>5 DEF TimerQ!ReadTimerFd, TimerQ!TypeOK, Entries
      <3>. HIDE DEF E
      <3>2. expired' \in Seq(Entries) /\ Len(expired') \in Nat
        BY <3>1, InOrderSeq
      <3>3. nextExpired' \in 1..Len(expired') + 1
        BY <2>5, <3>2 DEF TimerQ!ReadTimerFd
      <3>. QED
        BY <2>5, <3>2, <3>3
           DEF TimerQ!ReadTimerFd, TimerQ!TypeOK, TimerQ!NotExpired, Entries
    <2>6. CASE TimerQ!Run
      <3>1. nextExpired \in 1..Len(expired) /\ nextExpired + 1 \in 1..Len(expired) + 1
        BY <2>0, <2>6 DEF TimerQ!Run, TimerQ!TypeOK
      <3>2. expired[nextExpired] \in Entries
        BY <2>0, <3>1
      <3>3. expired[nextExpired][2] \in TimerQ!Timers
        BY <3>2 DEF Entries
      <3>. QED
        BY <2>6, <3>1, <3>3 DEF TimerQ!Run, TimerQ!TypeOK
    <2>7. CASE TimerQ!RunDone
      BY <2>0, <2>7 DEF TimerQ!RunDone, TimerQ!TypeOK
    <2>8. CASE TimerQ!Reset
      <3>. DEFINE t == expired[nextExpired][2]
                  again == TimerQ!Capped(now + timer[t].interval)
      <3>1. t \in TimerQ!Timers
        <4>1. nextExpired \in 1..Len(expired)
          BY <2>0, <2>8 DEF TimerQ!Reset, TimerQ!TypeOK
        <4>2. expired[nextExpired] \in Entries
          BY <2>0, <4>1
        <4>. QED
          BY <4>2 DEF Entries
      <3>. HIDE DEF t
      <3>2. timer[t].interval \in Nat /\ again \in 0..MaxTime
        <4>1. timer[t] \in TimerObject
          BY <3>1 DEF TimerQ!TypeOK, TimerObject
        <4>2. timer[t].interval \in Nat /\ now \in 0..MaxTime
          <5>1. timer[t].interval \in Intervals \union {0}
            BY <4>1 DEF TimerObject
          <5>2. now \in 0..MaxTime
            BY DEF TimerQ!TypeOK
          <5>3. \A n \in Intervals : n \in Nat
            BY Zenon
          <5>. HIDE TimerConstants
          <5>. QED
            BY <5>1, <5>2, <5>3
        <4>3. ASSUME NEW x \in Nat
              PROVE  TimerQ!Capped(x) \in 0..MaxTime
          BY DEF TimerQ!Capped
        <4>4. now + timer[t].interval \in Nat
          BY <4>2
        <4>. QED
          <5>1. TimerQ!Capped(now + timer[t].interval) \in 0..MaxTime
            BY <4>3, <4>4
          <5>. QED
            BY <4>2, <5>1
      <3>. HIDE DEF again
      <3>3. /\ timer' = [timer EXCEPT ![t].expiration = again]
               \/ timer' = [timer EXCEPT ![t].life = "deleted"]
            /\ m_timers' = m_timers \union {<<again, t>>} \/ m_timers' = m_timers
        BY <2>8 DEF TimerQ!Reset, t, again
      <3>4. m_timers' \subseteq Entries
        BY <3>1, <3>2, <3>3 DEF TimerQ!TypeOK, Entries
      <3>5. timer' \in [TimerQ!Timers -> TimerObject]
        <4>1. timer \in [TimerQ!Timers -> TimerObject] /\ timer[t] \in TimerObject
          BY <3>1 DEF TimerQ!TypeOK, TimerObject
        <4>2. /\ [timer[t] EXCEPT !.expiration = again] \in TimerObject
              /\ [timer[t] EXCEPT !.life = "deleted"] \in TimerObject
          BY <3>2, <4>1 DEF TimerObject
        <4>3. \E o \in TimerObject : timer' = [timer EXCEPT ![t] = o]
          BY <3>3, <4>2
        <4>. QED
          BY <3>1, <4>1, <4>3
      <3>6. m_timerFd' \in 0..MaxTime \union {TimerQ!Never}
        <4>1. m_timers' # {} => TimerQ!Earliest(m_timers') \in 0..MaxTime
          BY <3>4, EarliestEntry
        <4>. QED
          BY <2>8, <4>1, ResetTime DEF TimerQ!Reset, TimerQ!TypeOK
      <3>7. nextExpired' \in 1..Len(expired') + 1
        <4>1. nextExpired <= Len(expired) /\ nextExpired' = nextExpired + 1 /\ expired' = expired
          BY <2>8 DEF TimerQ!Reset
        <4>. QED
          BY <2>0, <4>1 DEF TimerQ!TypeOK
      <3>. QED
        BY <2>8, <3>4, <3>5, <3>6, <3>7
           DEF TimerQ!Reset, TimerQ!TypeOK, Entries, TimerObject
    <2>9. CASE TimerQ!ResetDone
      BY <2>9 DEF TimerQ!ResetDone, TimerQ!TypeOK
    <2>10. CASE UNCHANGED TimerQ!vars
      BY <2>10 DEF TimerQ!vars, TimerQ!handler, TimerQ!TypeOK
    <2>. QED
      BY <2>1, <2>2, <2>3, <2>4, <2>5, <2>6, <2>7, <2>8, <2>9, <2>10
         DEF TimerQ!Next, TimerQ!LoopStep
  <1>. QED
    BY <1>1, <1>2, PTL DEF TimerQ!Spec

(* The other programs leave the timers alone.                              *)
LEMMA TimersRun == Spec => TimerQ!Spec
  <1>1. Init => TimerQ!Init
    BY DEF Init
  <1>2. [Next]_vars => [TimerQ!Next]_(TimerQ!vars)
    BY DEF Next, BufferNext, HttpNext, TimersNext, ScheduleNext, StoreNext, TomatoNext,
           TurnsNext, StackNext, vars, serverVars, timerVars, TimerQ!vars, TimerQ!handler
  <1>. QED
    BY <1>1, <1>2, PTL DEF Spec, TimerQ!Spec

(* Type correctness of every state of TimerQueue.                          *)
THEOREM TimersTypeCorrect == Spec => []TimerQ!TypeOK
  BY TimerTypes, TimersRun, PTL

-----------------------------------------------------------------------------
(* Where the timerfd matters: outside handleRead, before it has read the   *)
(* timerfd, in one that found nothing expired, and in reset() once it has  *)
(* set the timerfd.                                                        *)
Zone ==
  \/ timerPc \in {"loop", "read"}
  \/ expired = <<>>
  \/ timerPc = "reset" /\ nextExpired > 1

(* There the timerfd is armed in time.  It is not set before the first     *)
(* timer is due, either: a read that finds it fired finds that timer       *)
(* expired, unless it fired after handleRead had taken the time.           *)
Armed ==
  TimerQ!ArmedForEarliest /\ TimerQ!Earliest(m_timers) <= m_timerFd
ArmInv == Zone /\ m_timers # {} /\ ~swallowed => Armed

(* Setting the timerfd for the first timer arms it.                        *)
LEMMA SetArms ==
  ASSUME TimerQ!TypeOK, TimerQ!TypeOK', m_timers' # {}, now' = now,
         m_timerFd' = TimerQ!ResetTimerfd(TimerQ!Earliest(m_timers'))
  PROVE  Armed'
  <1>. DEFINE e == TimerQ!Earliest(m_timers')
  <1>1. e \in 0..MaxTime
    BY EarliestEntry DEF TimerQ!TypeOK, Entries
  <1>2. m_timerFd' = TimerQ!ResetTimerfd(e)
    OBVIOUS
  <1>. HIDE DEF e
  <1>3. /\ m_timerFd' \in 0..MaxTime /\ e <= m_timerFd'
        /\ m_timerFd' <= e \/ m_timerFd' <= now' + MinDelay
    BY <1>1, <1>2, ResetTime DEF TimerQ!TypeOK
  <1>. QED
    BY <1>3 DEF TimerQ!ArmedForEarliest, Armed, e

(* A timer is added: it is the first, and the timerfd is set for it, or    *)
(* the first stays the first.                                              *)
LEMMA AddArms ==
  ASSUME TimerQ!TypeOK, TimerQ!TypeOK', ArmInv, NEW t \in TimerQ!Timers,
         NEW when \in 0..MaxTime, NEW interval \in Intervals, TimerQ!AddTimer(t, when, interval)
  PROVE  ArmInv'
  <1>. SUFFICES ASSUME Zone', ~swallowed'
                PROVE  Armed'
    BY DEF ArmInv
  <1>1. /\ UNCHANGED <<now, expired, timerPc, nextExpired>>
        /\ m_timers' = m_timers \union {<<when, t>>} /\ m_timers' # {}
    BY DEF TimerQ!AddTimer, TimerQ!handler
  <1>2. Zone
    BY <1>1 DEF Zone
  <1>3. m_timers \in SUBSET Entries /\ m_timers' \in SUBSET Entries
    BY DEF TimerQ!TypeOK, Entries
  <1>4. <<when, t>> \in m_timers' /\ <<when, t>>[1] = when
    BY <1>1
  <1>5. \A x \in m_timers : x[1] \in 0..MaxTime
    BY <1>3 DEF Entries
  <1>6. CASE TimerQ!EarliestChanged(when)
    <2>1. \A x \in m_timers : when <= x[1]
      <3>1. CASE m_timers = {}
        BY <3>1
      <3>2. CASE m_timers # {} /\ when < TimerQ!Earliest(m_timers)
        <4>1. /\ TimerQ!Earliest(m_timers) \in 0..MaxTime
              /\ \A x \in m_timers : TimerQ!Earliest(m_timers) <= x[1]
          BY <1>3, <3>2, EarliestEntry
        <4>. QED
          BY <1>5, <3>2, <4>1
      <3>. QED
        BY <1>6, <3>1, <3>2 DEF TimerQ!EarliestChanged
    <2>2. \A x \in m_timers' : <<when, t>>[1] <= x[1]
      BY <1>1, <1>4, <2>1
    <2>3. TimerQ!Earliest(m_timers') = when
      BY <1>3, <1>4, <2>2, EarliestIs
    <2>4. m_timerFd' = TimerQ!ResetTimerfd(when)
      BY <1>6 DEF TimerQ!AddTimer
    <2>. QED
      BY <1>1, <2>3, <2>4, SetArms
  <1>7. CASE ~TimerQ!EarliestChanged(when)
    <2>1. /\ m_timers # {} /\ ~(when < TimerQ!Earliest(m_timers))
          /\ m_timerFd' = m_timerFd /\ ~swallowed
      BY <1>7 DEF TimerQ!EarliestChanged, TimerQ!AddTimer
    <2>2. Armed
      BY <1>2, <2>1 DEF ArmInv
    <2>3. PICK x \in m_timers : x[1] = TimerQ!Earliest(m_timers)
      BY <1>3, <2>1, EarliestEntry
    <2>4. /\ TimerQ!Earliest(m_timers) \in 0..MaxTime
          /\ \A y \in m_timers : TimerQ!Earliest(m_timers) <= y[1]
      BY <1>3, <2>1, EarliestEntry
    <2>5. x \in m_timers' /\ \A y \in m_timers' : x[1] <= y[1]
      BY <1>1, <1>4, <2>1, <2>3, <2>4
    <2>6. TimerQ!Earliest(m_timers') = TimerQ!Earliest(m_timers)
      BY <1>3, <2>3, <2>5, EarliestIs
    <2>. QED
      BY <1>1, <2>1, <2>2, <2>6 DEF Armed, TimerQ!ArmedForEarliest
  <1>. QED
    BY <1>6, <1>7

(* handleRead reads the timerfd: if it disarms it and finds no timer       *)
(* expired, then the expiry was later than the time it had taken.          *)
LEMMA ReadArms ==
  ASSUME TimerQ!TypeOK, TimerQ!TypeOK', ArmInv, TimerQ!ReadTimerFd
  PROVE  ArmInv'
  <1>. DEFINE E == {x \in m_timers : x[1] <= readNow}
  <1>1. /\ timerPc = "read" /\ timerPc' = "run" /\ now' = now
        /\ m_timerFd' = IF TimerQ!Readable THEN TimerQ!Never ELSE m_timerFd
        /\ expired' \in TimerQ!InOrder(E)
        /\ m_timers' = {x \in m_timers : x[1] > readNow}
        /\ swallowed' = (swallowed \/ (TimerQ!Readable /\ m_timerFd > readNow))
    BY DEF TimerQ!ReadTimerFd, TimerQ!NotExpired
  <1>. SUFFICES ASSUME Zone', m_timers' # {}, ~swallowed'
                PROVE  Armed'
    BY DEF ArmInv
  <1>2. ~swallowed /\ ~(TimerQ!Readable /\ m_timerFd > readNow)
    BY <1>1
  <1>3. m_timers \in SUBSET Entries /\ \A x \in m_timers : x[1] \in 0..MaxTime
    BY DEF TimerQ!TypeOK, Entries
  <1>4. E = {}
    <2>1. expired' = <<>>
      BY <1>1 DEF Zone
    <2>2. E \in SUBSET Entries
      BY <1>3
    <2>. HIDE DEF E
    <2>3. \A x \in E : \E i \in 1..Len(expired') : expired'[i] = x
      BY <1>1, <2>2, InOrderSeq
    <2>. QED
      BY <2>1, <2>3
  <1>5. m_timers' = m_timers
    <2>1. ASSUME NEW x \in m_timers
          PROVE  x[1] > readNow
      <3>1. x \notin E
        BY <1>4
      <3>2. x[1] \in 0..MaxTime /\ readNow \in 0..MaxTime /\ ~(x[1] <= readNow)
        BY <1>3, <3>1 DEF TimerQ!TypeOK
      <3>. QED
        BY <3>2
    <2>. QED
      BY <1>1, <2>1
  <1>6. Armed
    BY <1>1, <1>2, <1>5 DEF ArmInv, Zone
  <1>7. ~TimerQ!Readable
    <2>1. PICK x \in m_timers : x[1] = TimerQ!Earliest(m_timers)
      BY <1>3, <1>5, EarliestEntry
    <2>2. ~(x[1] <= readNow) /\ x[1] <= m_timerFd /\ x[1] \in 0..MaxTime
      BY <1>3, <1>4, <1>6, <2>1 DEF Armed
    <2>3. readNow \in 0..MaxTime /\ m_timerFd \in Int
      BY DEF TimerQ!TypeOK
    <2>4. m_timerFd > readNow
      BY <2>2, <2>3
    <2>. QED
      BY <1>2, <2>4
  <1>. QED
    BY <1>1, <1>5, <1>6, <1>7 DEF Armed, TimerQ!ArmedForEarliest

(* A step that leaves the queue and the timerfd alone.                     *)
LEMMA StillArmed ==
  ASSUME ArmInv, Zone' => Zone, UNCHANGED <<now, m_timers, m_timerFd, swallowed>>
  PROVE  ArmInv'
  BY DEF ArmInv, Armed, TimerQ!ArmedForEarliest

(* Timers that wait while the loop polls, or goes on to the channels after *)
(* poll(), have the timerfd set for the first of them in time, except when *)
(* the timerfd has fired between handleRead's taking the time and its read *)
(* and has not been set since.                                             *)
THEOREM TimersKeptArmed == Spec => []ArmedUnlessSwallowed
  <1>1. TimerQ!Init => ArmInv
    BY DEF TimerQ!Init, ArmInv
  <1>2. TimerQ!TypeOK /\ TimerQ!TypeOK' /\ ArmInv /\ [TimerQ!Next]_(TimerQ!vars) => ArmInv'
    <2>. SUFFICES ASSUME TimerQ!TypeOK, TimerQ!TypeOK', ArmInv, [TimerQ!Next]_(TimerQ!vars)
                  PROVE  ArmInv'
      OBVIOUS
    <2>0. Len(expired) \in Nat /\ nextExpired \in Nat
      BY DEF TimerQ!TypeOK
    <2>1. CASE TimerQ!Tick
      <3>1. /\ UNCHANGED <<timerPc, nextExpired, expired, m_timers, m_timerFd, swallowed>>
            /\ now' = now + 1
        BY <2>1 DEF TimerQ!Tick, TimerQ!handler
      <3>2. TimerQ!Earliest(m_timers') = TimerQ!Earliest(m_timers) /\ (Zone' <=> Zone)
        BY <3>1 DEF Zone
      <3>3. now \in Nat /\ m_timerFd \in Int
        BY DEF TimerQ!TypeOK
      <3>4. Armed => Armed'
        BY <3>1, <3>2, <3>3 DEF Armed, TimerQ!ArmedForEarliest
      <3>. QED
        BY <3>1, <3>2, <3>4 DEF ArmInv
    <2>2. ASSUME NEW t \in TimerQ!Timers, NEW when \in 0..MaxTime, NEW interval \in Intervals,
                 TimerQ!AddTimer(t, when, interval)
          PROVE  ArmInv'
      BY <2>2, AddArms
    <2>3. CASE TimerQ!Poll \/ TimerQ!HandleRead
      BY <2>3, StillArmed DEF TimerQ!Poll, TimerQ!HandleRead, TimerQ!handler, Zone
    <2>4. CASE TimerQ!ReadTimerFd
      BY <2>4, ReadArms
    <2>5. CASE TimerQ!Run
      <3>1. timerPc = "run" /\ UNCHANGED <<timerPc, expired>> /\ nextExpired <= Len(expired)
        BY <2>5 DEF TimerQ!Run
      <3>2. Zone' => Zone
        BY <3>1 DEF Zone
      <3>. QED
        BY <2>5, <3>2, StillArmed DEF TimerQ!Run
    <2>6. CASE TimerQ!RunDone
      <3>1. Zone' => Zone
        BY <2>6 DEF TimerQ!RunDone, Zone
      <3>. QED
        BY <2>6, <3>1, StillArmed DEF TimerQ!RunDone
    <2>7. CASE TimerQ!Reset
      <3>1. now' = now /\ (m_timers' # {} =>
                             m_timerFd' = TimerQ!ResetTimerfd(TimerQ!Earliest(m_timers')))
        BY <2>7 DEF TimerQ!Reset
      <3>2. m_timers' # {} => Armed'
        BY <3>1, SetArms
      <3>. QED
        BY <3>2 DEF ArmInv
    <2>8. CASE TimerQ!ResetDone
      <3>1. Zone
        <4>1. timerPc = "reset" /\ nextExpired > Len(expired)
          BY <2>8 DEF TimerQ!ResetDone
        <4>2. expired = <<>> \/ Len(expired) > 0
          BY DEF TimerQ!TypeOK
        <4>. QED
          BY <2>0, <4>1, <4>2 DEF Zone
      <3>. QED
        BY <2>8, <3>1, StillArmed DEF TimerQ!ResetDone
    <2>9. CASE UNCHANGED TimerQ!vars
      BY <2>9, StillArmed DEF TimerQ!vars, TimerQ!handler, Zone
    <2>. QED
      BY <2>1, <2>2, <2>3, <2>4, <2>5, <2>6, <2>7, <2>8, <2>9
         DEF TimerQ!Next, TimerQ!LoopStep
  <1>3. ArmInv => TimerQ!ArmedUnlessSwallowed
    BY DEF ArmInv, Armed, Zone, TimerQ!ArmedUnlessSwallowed
  <1>. QED
    BY <1>1, <1>2, <1>3, TimerTypes, TimersRun, PTL
       DEF TimerQ!Spec, ArmedUnlessSwallowed
-----------------------------------------------------------------------------
(* Where a timer is, one entry at a time.  StillHeld(i): the i-th entry of   *)
(* handleRead's vector still belongs to it.                                *)
StillHeld(i) == i \in 1..Len(expired) /\ (timerPc = "reset" => nextExpired <= i)
(* handleRead still has the timer.                                         *)
Held(t) == \E i \in 1..Len(expired) : StillHeld(i) /\ expired[i][2] = t

(* Outside handleRead the vector is empty, and no timer is in it twice.    *)
VectorOK ==
  /\ timerPc \in {"loop", "read"} => expired = <<>>
  /\ \A i, h \in 1..Len(expired) : i # h => expired[i][2] # expired[h][2]

(* OwnedOnce, with the fact that makes it inductive.                       *)
OwnInv ==
  /\ VectorOK
  /\ \A x \in m_timers : /\ timer[x[2]].life = "live" /\ x[1] = timer[x[2]].expiration
                         /\ ~Held(x[2])
  /\ \A t \in TimerQ!Timers : Held(t) => timer[t].life = "live"
  /\ \A t \in TimerQ!Timers : timer[t].life = "live" /\ ~Held(t) =>
                         <<timer[t].expiration, t>> \in m_timers

(* Entries are pairs.                                                      *)
LEMMA EntryPair ==
  ASSUME NEW x \in Entries
  PROVE  x = <<x[1], x[2]>> /\ x[1] \in 0..MaxTime /\ x[2] \in TimerQ!Timers
  BY DEF Entries

(* The inductive form implies the property.                                *)
LEMMA OwnInvSuffices == ASSUME TimerQ!TypeOK, OwnInv PROVE TimerQ!OwnedOnce
  <1>. DEFINE held == {expired[i][2] :
                         i \in (IF timerPc = "reset" THEN nextExpired ELSE 1)..Len(expired)}
              filed(t) == {x \in m_timers : x[2] = t}
  <1>0. Len(expired) \in Nat /\ nextExpired \in 1..Len(expired) + 1
    BY DEF TimerQ!TypeOK
  <1>1. \A t : t \in held <=> Held(t)
    BY <1>0 DEF Held, StillHeld
  <1>2. ASSUME NEW t \in TimerQ!Timers
        PROVE  IF timer[t].life # "live" THEN filed(t) = {} /\ t \notin held
               ELSE IF t \in held THEN filed(t) = {}
               ELSE filed(t) = {<<timer[t].expiration, t>>}
    <2>. HIDE DEF held
    <2>0. \A x \in m_timers : x = <<x[1], x[2]>>
      BY EntryPair DEF TimerQ!TypeOK, Entries
    <2>1. CASE timer[t].life # "live"
      BY <1>1, <2>1 DEF OwnInv
    <2>2. CASE timer[t].life = "live" /\ t \in held
      BY <1>1, <2>2 DEF OwnInv
    <2>3. CASE timer[t].life = "live" /\ t \notin held
      <3>1. <<timer[t].expiration, t>> \in m_timers
        BY <1>1, <2>3 DEF OwnInv
      <3>2. ASSUME NEW x \in filed(t)
            PROVE  x = <<timer[t].expiration, t>>
        BY <2>0 DEF OwnInv
      <3>3. <<timer[t].expiration, t>>[2] = t
        OBVIOUS
      <3>. QED
        BY <2>3, <3>1, <3>2, <3>3
    <2>. QED
      BY <2>1, <2>2, <2>3
  <1>. QED
    BY <1>2 DEF TimerQ!OwnedOnce

(* Adding a timer files it.                                                *)
LEMMA AddOwns ==
  ASSUME TimerQ!TypeOK, TimerQ!TypeOK', OwnInv, NEW t \in TimerQ!Timers, NEW when \in 0..MaxTime,
         NEW interval \in Intervals, TimerQ!AddTimer(t, when, interval)
  PROVE  OwnInv'
  <1>1. /\ UNCHANGED <<expired, timerPc, nextExpired>> /\ timer[t].life = "none"
        /\ m_timers' = m_timers \union {<<when, t>>}
        /\ timer' = [timer EXCEPT ![t] =
                       [expiration |-> when, interval |-> interval, life |-> "live"]]
    BY DEF TimerQ!AddTimer, TimerQ!handler
  <1>2. /\ timer'[t].life = "live" /\ timer'[t].expiration = when
        /\ \A u \in TimerQ!Timers : u # t => timer'[u] = timer[u]
    BY <1>1 DEF TimerQ!TypeOK
  <1>3. \A u : Held(u)' <=> Held(u)
    BY <1>1 DEF Held, StillHeld
  <1>4. \A x \in m_timers : x[2] \in TimerQ!Timers /\ x[2] # t
    BY <1>1, EntryPair DEF TimerQ!TypeOK, OwnInv, Entries
  <1>5. ~Held(t)
    BY <1>1 DEF OwnInv
  <1>6. <<when, t>>[1] = when /\ <<when, t>>[2] = t
    OBVIOUS
  <1>7. ASSUME NEW x \in m_timers'
        PROVE  /\ timer'[x[2]].life = "live" /\ x[1] = timer'[x[2]].expiration
               /\ ~Held(x[2])'
    <2>1. CASE x \in m_timers
      BY <1>2, <1>3, <1>4, <2>1 DEF OwnInv
    <2>2. CASE x = <<when, t>>
      BY <1>2, <1>3, <1>5, <1>6, <2>2
    <2>. QED
      BY <1>1, <2>1, <2>2
  <1>8. ASSUME NEW u \in TimerQ!Timers
        PROVE  /\ Held(u)' => timer'[u].life = "live"
               /\ timer'[u].life = "live" /\ ~Held(u)' => <<timer'[u].expiration, u>> \in m_timers'
    <2>1. CASE u = t
      BY <1>1, <1>2, <2>1
    <2>2. CASE u # t
      BY <1>1, <1>2, <1>3, <2>2 DEF OwnInv
    <2>. QED
      BY <2>1, <2>2
  <1>9. VectorOK'
    BY <1>1 DEF OwnInv, VectorOK
  <1>. QED
    BY <1>7, <1>8, <1>9 DEF OwnInv

(* getExpired moves entries from the queue to the vector.                  *)
LEMMA ReadOwns ==
  ASSUME TimerQ!TypeOK, TimerQ!TypeOK', OwnInv, TimerQ!ReadTimerFd
  PROVE  OwnInv'
  <1>. DEFINE E == {x \in m_timers : x[1] <= readNow}
  <1>0. /\ m_timers \subseteq Entries /\ readNow \in Nat
        /\ \A x \in m_timers : x = <<x[1], x[2]>> /\ x[1] \in Nat /\ x[2] \in TimerQ!Timers
    BY EntryPair DEF TimerQ!TypeOK, Entries
  <1>1. /\ expired' \in TimerQ!InOrder(E) /\ E \in SUBSET Entries
        /\ m_timers' = {x \in m_timers : x[1] > readNow}
        /\ timer' = timer /\ nextExpired' = 1 /\ timerPc' = "run" /\ expired = <<>>
    BY <1>0 DEF TimerQ!ReadTimerFd, TimerQ!NotExpired, OwnInv, VectorOK
  <1>2. /\ Len(expired') \in Nat
        /\ \A i \in 1..Len(expired') : expired'[i] \in E
        /\ \A x \in E : \E i \in 1..Len(expired') : expired'[i] = x
        /\ \A i, h \in 1..Len(expired') : i < h => TimerQ!Sooner(expired'[i], expired'[h])
    <2>. HIDE DEF E
    <2>. QED
      BY <1>1, InOrderSeq
  <1>3. \A u : ~Held(u)
    BY <1>1 DEF Held
  <1>4. \A u : Held(u)' <=> \E x \in E : x[2] = u
    <2>. HIDE DEF E
    <2>1. \A u : Held(u)' <=> \E i \in 1..Len(expired') : expired'[i][2] = u
      BY <1>1 DEF Held, StillHeld
    <2>. QED
      BY <1>2, <2>1
  <1>5. \A x, y \in m_timers : x[2] = y[2] => x = y
    BY <1>0 DEF OwnInv
  <1>6. ASSUME NEW i \in 1..Len(expired'), NEW h \in 1..Len(expired'), i # h
        PROVE  expired'[i][2] # expired'[h][2]
    <2>1. expired'[i] \in m_timers /\ expired'[h] \in m_timers
      BY <1>2
    <2>2. \A x \in m_timers : ~TimerQ!Sooner(x, x)
      BY <1>0 DEF TimerQ!Sooner
    <2>3. i < h \/ h < i
      BY <1>2, <1>6
    <2>4. expired'[i] # expired'[h]
      <3>. HIDE DEF E
      <3>. QED
        BY <1>2, <2>1, <2>2, <2>3
    <2>. QED
      BY <1>5, <2>1, <2>4
  <1>7. ASSUME NEW x \in m_timers'
        PROVE  /\ timer'[x[2]].life = "live" /\ x[1] = timer'[x[2]].expiration
               /\ ~Held(x[2])'
    <2>1. x \in m_timers /\ x \notin E
      BY <1>0, <1>1
    <2>2. \A y \in E : y \in m_timers
      OBVIOUS
    <2>3. ~Held(x[2])'
      <3>. HIDE DEF E
      <3>. QED
        BY <1>4, <1>5, <2>1, <2>2
    <2>. QED
      BY <1>1, <2>1, <2>3 DEF OwnInv
  <1>8. ASSUME NEW u \in TimerQ!Timers
        PROVE  /\ Held(u)' => timer'[u].life = "live"
               /\ timer'[u].life = "live" /\ ~Held(u)' => <<timer'[u].expiration, u>> \in m_timers'
    <2>1. Held(u)' => timer'[u].life = "live"
      BY <1>1, <1>4 DEF OwnInv
    <2>2. ASSUME timer'[u].life = "live", ~Held(u)'
          PROVE  <<timer'[u].expiration, u>> \in m_timers'
      <3>. DEFINE x == <<timer[u].expiration, u>>
      <3>1. x \in m_timers /\ x[2] = u
        BY <1>1, <1>3, <2>2 DEF OwnInv
      <3>. HIDE DEF x
      <3>2. x \notin E
        BY <1>4, <2>2, <3>1
      <3>3. x \in m_timers'
        BY <1>0, <1>1, <3>1, <3>2
      <3>. QED
        BY <1>1, <3>3 DEF x
    <2>. QED
      BY <2>1, <2>2
  <1>9. VectorOK'
    BY <1>1, <1>6 DEF VectorOK
  <1>. QED
    BY <1>7, <1>8, <1>9 DEF OwnInv

(* reset() files a timer again, or deletes it.                             *)
LEMMA ResetOwns ==
  ASSUME TimerQ!TypeOK, TimerQ!TypeOK', OwnInv, TimerQ!Reset
  PROVE  OwnInv'
  <1>. DEFINE t == expired[nextExpired][2]
              again == TimerQ!Capped(now + timer[t].interval)
  <1>0. /\ Len(expired) \in Nat /\ nextExpired \in 1..Len(expired) /\ timerPc = "reset"
        /\ UNCHANGED <<expired, timerPc>> /\ nextExpired' = nextExpired + 1
    BY DEF TimerQ!TypeOK, TimerQ!Reset
  <1>1. t \in TimerQ!Timers
    <2>1. expired[nextExpired] \in Entries
      BY <1>0 DEF TimerQ!TypeOK, Entries
    <2>. QED
      BY <2>1, EntryPair
  <1>2. Held(t) /\ timer[t].life = "live"
    BY <1>0, <1>1 DEF Held, StillHeld, OwnInv
  <1>3. \/ /\ timer' = [timer EXCEPT ![t].expiration = again]
           /\ m_timers' = m_timers \union {<<again, t>>}
        \/ /\ timer' = [timer EXCEPT ![t].life = "deleted"]
           /\ m_timers' = m_timers
    BY DEF TimerQ!Reset
  <1>4. \A u : Held(u)' <=> Held(u) /\ u # t
    <2>1. ASSUME NEW i \in 1..Len(expired)
          PROVE  StillHeld(i)' <=> StillHeld(i) /\ i # nextExpired
      BY <1>0 DEF StillHeld
    <2>2. ASSUME NEW i \in 1..Len(expired), i # nextExpired
          PROVE  expired[i][2] # t
      BY <1>0, <2>2 DEF OwnInv, VectorOK
    <2>. QED
      BY <1>0, <2>1, <2>2 DEF Held
  <1>. HIDE DEF t
  <1>5. \A x \in m_timers : x[2] \in TimerQ!Timers /\ x[2] # t
    BY <1>2, EntryPair DEF TimerQ!TypeOK, OwnInv, Entries
  <1>. HIDE DEF again
  <1>6. \A u \in TimerQ!Timers : u # t => timer'[u] = timer[u]
    BY <1>1, <1>3 DEF TimerQ!TypeOK
  <1>7. <<again, t>>[1] = again /\ <<again, t>>[2] = t
    OBVIOUS
  <1>8. VectorOK'
    BY <1>0 DEF OwnInv, VectorOK
  <1>9. CASE /\ timer' = [timer EXCEPT ![t].expiration = again]
             /\ m_timers' = m_timers \union {<<again, t>>}
    <2>1. timer'[t].life = "live" /\ timer'[t].expiration = again
      BY <1>1, <1>2, <1>9 DEF TimerQ!TypeOK
    <2>2. ASSUME NEW x \in m_timers'
          PROVE  /\ timer'[x[2]].life = "live" /\ x[1] = timer'[x[2]].expiration
                 /\ ~Held(x[2])'
      <3>1. CASE x \in m_timers
        BY <1>4, <1>5, <1>6, <3>1 DEF OwnInv
      <3>2. CASE x = <<again, t>>
        BY <1>4, <1>7, <2>1, <3>2
      <3>. QED
        BY <1>9, <3>1, <3>2
    <2>3. ASSUME NEW u \in TimerQ!Timers
          PROVE  /\ Held(u)' => timer'[u].life = "live"
                 /\ timer'[u].life = "live" /\ ~Held(u)' =>
                      <<timer'[u].expiration, u>> \in m_timers'
      <3>1. CASE u = t
        BY <1>4, <1>9, <2>1, <3>1
      <3>2. CASE u # t
        BY <1>4, <1>6, <1>9, <3>2 DEF OwnInv
      <3>. QED
        BY <3>1, <3>2
    <2>. QED
      BY <1>8, <2>2, <2>3 DEF OwnInv
  <1>10. CASE /\ timer' = [timer EXCEPT ![t].life = "deleted"]
             /\ m_timers' = m_timers
    <2>1. timer'[t].life = "deleted"
      BY <1>1, <1>10 DEF TimerQ!TypeOK
    <2>2. ASSUME NEW x \in m_timers'
          PROVE  /\ timer'[x[2]].life = "live" /\ x[1] = timer'[x[2]].expiration
                 /\ ~Held(x[2])'
      BY <1>4, <1>5, <1>6, <1>10 DEF OwnInv
    <2>3. ASSUME NEW u \in TimerQ!Timers
          PROVE  /\ Held(u)' => timer'[u].life = "live"
                 /\ timer'[u].life = "live" /\ ~Held(u)' =>
                      <<timer'[u].expiration, u>> \in m_timers'
      <3>1. CASE u = t
        BY <1>4, <2>1, <3>1
      <3>2. CASE u # t
        BY <1>4, <1>6, <1>10, <3>2 DEF OwnInv
      <3>. QED
        BY <3>1, <3>2
    <2>. QED
      BY <1>8, <2>2, <2>3 DEF OwnInv
  <1>. QED
    BY <1>3, <1>9, <1>10

(* A step that moves no timer.                                             *)
LEMMA StillOwned ==
  ASSUME OwnInv, UNCHANGED <<timer, m_timers>>,
         VectorOK',
         \A t : Held(t)' <=> Held(t)
  PROVE  OwnInv'
  BY DEF OwnInv

(* Every live timer is in exactly one place, filed under its expiration in *)
(* the queue or in the handler's vector, and a deleted one in neither.     *)
THEOREM TimersOwnedOnce == Spec => []OwnedOnce
  <1>1. TimerQ!Init => OwnInv
    BY DEF TimerQ!Init, OwnInv, VectorOK, Held, StillHeld, TimerQ!NoTimer
  <1>2. TimerQ!TypeOK /\ TimerQ!TypeOK' /\ OwnInv /\ [TimerQ!Next]_(TimerQ!vars) => OwnInv'
    <2>. SUFFICES ASSUME TimerQ!TypeOK, TimerQ!TypeOK', OwnInv, [TimerQ!Next]_(TimerQ!vars)
                  PROVE  OwnInv'
      OBVIOUS
    <2>1. CASE /\ UNCHANGED <<timer, m_timers, timerPc, expired>>
               /\ timerPc = "reset" => UNCHANGED nextExpired
      <3>1. \A t : Held(t)' <=> Held(t)
        BY <2>1 DEF Held, StillHeld
      <3>. QED
        BY <2>1, <3>1, StillOwned DEF OwnInv, VectorOK
    <2>2. ASSUME NEW t \in TimerQ!Timers, NEW when \in 0..MaxTime, NEW interval \in Intervals,
                 TimerQ!AddTimer(t, when, interval)
          PROVE  OwnInv'
      BY <2>2, AddOwns
    <2>3. CASE TimerQ!HandleRead
      <3>1. UNCHANGED <<timer, m_timers, expired>> /\ timerPc = "loop" /\ timerPc' = "read"
        BY <2>3 DEF TimerQ!HandleRead
      <3>2. \A t : Held(t)' <=> Held(t)
        BY <3>1 DEF Held, StillHeld
      <3>. QED
        BY <3>1, <3>2, StillOwned DEF OwnInv, VectorOK
    <2>4. CASE TimerQ!ReadTimerFd
      BY <2>4, ReadOwns
    <2>5. CASE TimerQ!RunDone
      <3>1. /\ UNCHANGED <<timer, m_timers, expired>>
            /\ timerPc = "run" /\ timerPc' = "reset" /\ nextExpired' = 1
        BY <2>5 DEF TimerQ!RunDone
      <3>2. \A t : Held(t)' <=> Held(t)
        BY <3>1 DEF Held, StillHeld
      <3>. QED
        BY <3>1, <3>2, StillOwned DEF OwnInv, VectorOK
    <2>6. CASE TimerQ!Reset
      BY <2>6, ResetOwns
    <2>7. CASE TimerQ!ResetDone
      <3>1. UNCHANGED <<timer, m_timers>> /\ expired' = <<>> /\ Len(expired') = 0
        BY <2>7 DEF TimerQ!ResetDone
      <3>2. \A t : Held(t)' <=> Held(t)
        <4>1. /\ timerPc = "reset" /\ nextExpired > Len(expired)
              /\ Len(expired) \in Nat /\ nextExpired \in Nat
          BY <2>7 DEF TimerQ!ResetDone, TimerQ!TypeOK
        <4>2. \A i \in 1..Len(expired) : ~StillHeld(i)
          BY <4>1 DEF StillHeld
        <4>. QED
          BY <3>1, <4>2 DEF Held
      <3>. QED
        BY <3>1, <3>2, StillOwned DEF OwnInv, VectorOK
    <2>. QED
      BY <2>1, <2>2, <2>3, <2>4, <2>5, <2>6, <2>7
         DEF TimerQ!Next, TimerQ!LoopStep, TimerQ!Tick, TimerQ!Poll, TimerQ!Run,
             TimerQ!vars, TimerQ!handler
  <1>. QED
    BY <1>1, <1>2, OwnInvSuffices, TimerTypes, TimersRun, PTL DEF TimerQ!Spec, OwnedOnce
=============================================================================
