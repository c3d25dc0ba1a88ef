------------------------------- MODULE Programs -------------------------------
(***************************************************************************)
(* The components that run by themselves, side by side, for TLC and for    *)
(* the proofs: three parts of myserver that belong to one loop thread, and *)
(* the smaller programs of the repository.  They have nothing in common: a *)
(* behaviour is one of one component, chosen in the initial state, and the *)
(* variables of the others keep their initial values.                      *)
(***************************************************************************)
EXTENDS Integers, Sequences, FiniteSets

CONSTANTS
  \* Buffer, HttpServer and TimerQueue
  Byte, Zero, kCheapPrepend, kInitialSize, ExtraLen, MaxBytes, MaxPieces,
  NumTimers, Intervals, MaxTime, MinDelay,
  \* RssSchedule and RssStore
  Sources, Hour, MAX_GAP, MaxFetch, MaxDown, Links, MaxEntries, MaxFetches,
  \* TomatoClock
  WORK_DOWN_COUNT, REST_DOWN_COUNT, MaxFifo,
  \* TurnTaking
  N,
  \* ReclaimingStack
  StackThreads, Nodes, Initial, MaxOps

VARIABLES
  program,
  \* Buffer
  m_buffer, m_size, m_readerIndex, m_writerIndex, put, taken,
  \* HttpServer
  received, m_inputBuffer, httpPc, m_state, m_request, ok, connState, sent,
  \* TimerQueue
  now, timer, m_timers, m_timerFd, active, timerPc, readNow, expired, nextExpired, ran,
  swallowed,
  \* RssSchedule
  clock, row, schedulePc, vrs, took, before, streak,
  \* RssStore
  rss_item, rssitem, storePc, source, vre, latest, j, itemid, hasNew, failed, fetches,
  \* TomatoClock
  fifo, clockPc, action, is_work, worked_cnt, rested_cnt, shown, first, ended, waitEndedBy,
  \* TurnTaking
  class, cnt, sem, turnPc, rounds, out,
  \* ReclaimingStack
  head, to_be_deleted, threads_in_pop, next, data, live, stackPc, old, nxt, chain,
  crashed, ops, pushed, popped

Buf      == INSTANCE Buffer
Http     == INSTANCE HttpServer WITH pc <- httpPc
TimerQ   == INSTANCE TimerQueue WITH pc <- timerPc, next <- nextExpired
Schedule == INSTANCE RssSchedule WITH pc <- schedulePc
Store    == INSTANCE RssStore WITH pc <- storePc
Tomato   == INSTANCE TomatoClock WITH pc <- clockPc
Turns    == INSTANCE TurnTaking WITH pc <- turnPc
Stack    == INSTANCE ReclaimingStack WITH pc <- stackPc, Threads <- StackThreads

-----------------------------------------------------------------------------
(* vector::resize fills with a byte.                                       *)
ASSUME BufferConstants ==
  /\ Zero \in Byte
  /\ kCheapPrepend \in Nat /\ kInitialSize \in Nat
  /\ ExtraLen \in Nat /\ MaxBytes \in Nat

(* What the peer of an HttpServer sends is bounded.                        *)
ASSUME HttpConstants == MaxPieces \in Nat

(* Intervals are whole ticks, and the least delay is a tick or more.       *)
ASSUME TimerConstants ==
  /\ NumTimers \in Nat /\ MaxTime \in Nat /\ MinDelay \in Nat \ {0}
  /\ Intervals \subseteq Nat

(* There are finitely many sources; an hour has ticks, and a gap may be an *)
(* hour at least.                                                          *)
ASSUME ScheduleConstants ==
  /\ IsFiniteSet(Sources)
  /\ Hour \in Nat \ {0} /\ MAX_GAP \in Nat \ {0}
  /\ MaxFetch \in Nat /\ MaxDown \in Nat

(* How much rss_b is given to store is bounded.                            *)
ASSUME StoreConstants == MaxEntries \in Nat /\ MaxFetches \in Nat

(* waybar_tomato_clock/common.h: both sessions have a length.              *)
ASSUME ClockConstants ==
  WORK_DOWN_COUNT \in Nat \ {0} /\ REST_DOWN_COUNT \in Nat \ {0}

(* How often foo and bar are printed, or how far fizzbuzz counts.          *)
ASSUME TurnConstants == N \in Nat

(* new never gives the null pointer, and there are finitely many threads.  *)
ASSUME StackConstants ==
  /\ Stack!Null \notin Nodes
  /\ IsFiniteSet(StackThreads)
  /\ Initial \in Nat /\ 1..Initial \subseteq Nodes

-----------------------------------------------------------------------------
Programs == {"buffer", "http", "timers", "schedule", "store", "tomato", "turns", "stack"}

bufferVars   == <<m_buffer, m_size, m_readerIndex, m_writerIndex, put, taken>>
httpVars     == <<received, m_inputBuffer, httpPc, m_state, m_request, ok, connState, sent>>
timerVars    == <<now, timer, m_timers, m_timerFd, active, timerPc, readNow, expired,
                  nextExpired, ran, swallowed>>
serverVars   == <<bufferVars, httpVars, timerVars>>
scheduleVars == <<clock, row, schedulePc, vrs, took, before, streak>>
storeVars    == <<rss_item, rssitem, storePc, source, vre, latest, j, itemid, hasNew,
                  failed, fetches>>
tomatoVars   == <<fifo, clockPc, action, is_work, worked_cnt, rested_cnt, shown, first,
                  ended, waitEndedBy>>
turnsVars    == <<class, cnt, sem, turnPc, rounds, out>>
stackVars    == <<head, to_be_deleted, threads_in_pop, next, data, live, stackPc, old, nxt,
                  chain, crashed, ops, pushed, popped>>

vars == <<program, serverVars, scheduleVars, storeVars, tomatoVars, turnsVars, stackVars>>

Init ==
  /\ program \in Programs
  /\ Buf!Init /\ Http!Init /\ TimerQ!Init
  /\ Schedule!Init /\ (program # "schedule" => clock = 0)
  /\ Store!Init /\ (program # "store" => source = CHOOSE s \in Sources : TRUE)
  /\ Tomato!Init
  /\ Turns!Init /\ (program # "turns" => class = "FooBar")
  /\ Stack!Init

programVars == <<scheduleVars, storeVars, tomatoVars, turnsVars, stackVars>>

BufferNext ==
  /\ program = "buffer" /\ Buf!Next
  /\ UNCHANGED <<program, httpVars, timerVars, programVars>>
HttpNext ==
  /\ program = "http" /\ Http!Next
  /\ UNCHANGED <<program, bufferVars, timerVars, programVars>>
TimersNext ==
  /\ program = "timers" /\ TimerQ!Next
  /\ UNCHANGED <<program, bufferVars, httpVars, programVars>>
ScheduleNext ==
  /\ program = "schedule" /\ Schedule!Next
  /\ UNCHANGED <<program, serverVars, storeVars, tomatoVars, turnsVars, stackVars>>
StoreNext ==
  /\ program = "store" /\ Store!Next
  /\ UNCHANGED <<program, serverVars, scheduleVars, tomatoVars, turnsVars, stackVars>>
TomatoNext ==
  /\ program = "tomato" /\ Tomato!Next
  /\ UNCHANGED <<program, serverVars, scheduleVars, storeVars, turnsVars, stackVars>>
TurnsNext ==
  /\ program = "turns" /\ Turns!Next
  /\ UNCHANGED <<program, serverVars, scheduleVars, storeVars, tomatoVars, stackVars>>
StackNext ==
  /\ program = "stack" /\ Stack!Next
  /\ UNCHANGED <<program, serverVars, scheduleVars, storeVars, tomatoVars, turnsVars>>

Next ==
  \/ BufferNext \/ HttpNext \/ TimersNext
  \/ ScheduleNext \/ StoreNext \/ TomatoNext \/ TurnsNext \/ StackNext

(* Fairness is that of TurnTaking and of HttpServer, the components here   *)
(* with a liveness property: each of their threads keeps running.  As only *)
(* one class of one component runs, its threads are numbered; the loop     *)
(* thread of HttpServer is number 1.                                       *)
TurnStep(t) ==
  /\ program = "turns" /\ t \in Turns!Threads /\ Turns!Step(t)
  /\ UNCHANGED <<program, serverVars, scheduleVars, storeVars, tomatoVars, stackVars>>
HttpStep ==
  /\ program = "http" /\ Http!ServerStep
  /\ UNCHANGED <<program, bufferVars, timerVars, programVars>>

Number == <<{"fizz", "foo"}, {"buzz", "bar"}, {"fizzbuzz"}, {"number"}>>
ThreadStep(i) ==
  \/ i = 1 /\ HttpStep
  \/ \E t \in Number[i] : TurnStep(t)

Spec == Init /\ [][Next]_vars /\ \A i \in 1..4 : WF_vars(ThreadStep(i))

-----------------------------------------------------------------------------
(* Every variable of every program has its type.                           *)
TypeOK ==
  /\ program \in Programs
  /\ Buf!TypeOK /\ Http!TypeOK /\ TimerQ!TypeOK
  /\ Schedule!TypeOK /\ Store!TypeOK /\ Tomato!TypeOK /\ Turns!TypeOK /\ Stack!TypeOK

(* Buffer: the two indices stay in order and inside the vector.            *)
IndicesOrdered == Buf!IndicesOrdered

(* Buffer: what can be read is what was put in and not yet retrieved.      *)
StreamPreserved == Buf!StreamPreserved

(* HttpServer: the input buffer begins where a line of the stream begins.  *)
FramedByLines == Http!FramedByLines

(* HttpServer: a connection is answered at most once.                      *)
AnsweredOnce == Http!AnsweredOnce

(* HttpServer: a page or a 404 answers a request the peer really sent.     *)
ResponseMatchesRequest == Http!ResponseMatchesRequest

(* HttpServer: a request that arrives whole is answered.                   *)
WholeRequestAnswered == Http!WholeRequestAnswered

(* TimerQueue: waiting timers have the timerfd set in time, unless the one *)
(* race that loses an expiry has happened.                                 *)
ArmedUnlessSwallowed == TimerQ!ArmedUnlessSwallowed

(* TimerQueue: every live timer is in exactly one place.                   *)
OwnedOnce == TimerQ!OwnedOnce

(* RssSchedule: the gap of a source follows the runs of equal outcomes.    *)
GapFollowsStreak == Schedule!GapFollowsStreak

(* RssSchedule: after a short pass no due source has missed its hour.      *)
OnSchedule == Schedule!OnSchedule

(* RssStore: documents refer to the row with their link, one each.         *)
DocumentsMatchRows == Store!DocumentsMatchRows

(* RssStore: no article of a processed feed is passed over.                *)
NoArticleMissed == Store!NoArticleMissed

(* TomatoClock: a session that runs out, other than the program's first,   *)
(* has been shown in full.                                                 *)
LaterSessionsFull == Tomato!LaterSessionsFull

(* TomatoClock: the wait is ended by a click made during it.               *)
NoStaleClickEndsWait == Tomato!NoStaleClickEndsWait

(* TurnTaking: the output is the required one.                             *)
PrintedInOrder == Turns!PrintedInOrder

(* TurnTaking: all threads return.                                         *)
AllFinish == (program = "turns") ~> (\A t \in Turns!Threads : turnPc[t] = "done")

(* ReclaimingStack: nobody touches a deleted node.                         *)
NoUseAfterFree == Stack!NoUseAfterFree

(* ReclaimingStack: values are neither lost nor returned twice.            *)
EachPoppedOnce == Stack!EachPoppedOnce
=============================================================================
