---------------------------- MODULE ProgramProofs ----------------------------
(***************************************************************************)
(* Proofs about TomatoClock for any lengths of the sessions and any number *)
(* of clicks: a session that runs out has been shown in full, unless it is *)
(* the first after the start, and no click from before ends a wait.  With  *)
(* the proofs about the other components, the types of all of them.        *)
(***************************************************************************)
EXTENDS BufferProofs, HttpServerProofs, TimerQueueProofs, RssProofs, ConcurrencyProofs

USE ClockConstants DEF ClockConstants, Tomato!FullLength


(* Where the loop is: before the count; after it, with a session to be     *)
(* shown; at the end of a rest.                                            *)
Running == {"read", "count"}
Displaying == {"show", "cleanAgain"}
RanOut == {"clean", "wait"}

(* What is left of the session that runs.                                  *)
Left == IF is_work THEN worked_cnt ELSE rested_cnt
(* How long that session is.                                               *)
Length == IF is_work THEN WORK_DOWN_COUNT ELSE REST_DOWN_COUNT

(* What is left and what has been shown add up to the session: while it is *)
(* about to be shown what is left is not shown yet, and the first session  *)
(* is counted down once before it is shown at all.                         *)
CountInv ==
  /\ first => is_work
  /\ clockPc \in Running => Left >= 1 /\ Left + shown = IF first THEN Length ELSE Length + 1
  /\ clockPc \in Displaying => Left >= 1 /\ Left + shown = IF first THEN Length - 1 ELSE Length
  /\ clockPc \in RanOut \union {"cleanAgain"} => shown = 0 /\ ~first
  /\ Tomato!LaterSessionsFull

(* When the wait begins the FIFO is empty, and what comes then is new.     *)
WaitInv ==
  /\ clockPc = "wait" => \A i \in DOMAIN fifo : fifo[i].waiting
  /\ Tomato!NoStaleClickEndsWait

(* The inductive invariant of the clock.                                   *)
ClockInv == Tomato!TypeOK /\ CountInv /\ WaitInv

(* The program starts with a work session that has not been shown.         *)
LEMMA ClockInit ==
  ASSUME Tomato!Init
  PROVE  ClockInv
  <1>1. /\ WORK_DOWN_COUNT \in 0..WORK_DOWN_COUNT /\ REST_DOWN_COUNT \in 0..REST_DOWN_COUNT
        /\ 0 \in Nat
    OBVIOUS
  <1>2. fifo \in Seq(Tomato!ClickRecord) /\ waitEndedBy \in Tomato!ClickRecord
    BY DEF Tomato!Init, Tomato!ClickRecord, Tomato!Clicks
  <1>3. Tomato!TypeOK
    BY <1>1, <1>2 DEF Tomato!Init, Tomato!TypeOK
  <1>4. CountInv
    BY DEF Tomato!Init, CountInv, Running, Displaying, RanOut, Left, Length,
       Tomato!LaterSessionsFull, Tomato!Full
  <1>5. WaitInv
    BY DEF Tomato!Init, WaitInv, Tomato!NoStaleClickEndsWait
  <1>. QED
    BY <1>3, <1>4, <1>5 DEF ClockInv

(* A click changes nothing but the FIFO.                                   *)
LEMMA ClickStep ==
  ASSUME ClockInv, NEW ch \in Tomato!Clicks, Tomato!Click(ch)
  PROVE  ClockInv'
  <1>. DEFINE w == clockPc \in {"clean", "wait"}
              c == [ch |-> ch, waiting |-> w]
  <1>1. c \in Tomato!ClickRecord /\ (clockPc = "wait" => c.waiting)
    <2>1. w \in BOOLEAN /\ (clockPc = "wait" => w)
      OBVIOUS
    <2>. HIDE DEF w
    <2>. QED
      BY <2>1 DEF Tomato!ClickRecord
  <1>2. fifo' = Append(fifo, c) /\ fifo \in Seq(Tomato!ClickRecord)
    BY DEF Tomato!Click, ClockInv, Tomato!TypeOK
  <1>. HIDE DEF c
  <1>3. /\ fifo' \in Seq(Tomato!ClickRecord)
        /\ \A i \in DOMAIN fifo' : fifo'[i] = c \/ (i \in DOMAIN fifo /\ fifo'[i] = fifo[i])
    BY <1>1, <1>2
  <1>4. /\ clockPc' = clockPc /\ action' = action /\ is_work' = is_work /\ worked_cnt' = worked_cnt
        /\ rested_cnt' = rested_cnt /\ shown' = shown /\ first' = first /\ ended' = ended
        /\ waitEndedBy' = waitEndedBy
    BY DEF Tomato!Click, Tomato!counters, Tomato!history
  <1>5. Tomato!TypeOK'
    BY <1>3, <1>4 DEF ClockInv, Tomato!TypeOK
  <1>6. CountInv'
    BY <1>4 DEF ClockInv, CountInv, Left, Length, Tomato!LaterSessionsFull
  <1>7. WaitInv'
    BY <1>1, <1>3, <1>4 DEF ClockInv, WaitInv, Tomato!NoStaleClickEndsWait
  <1>. QED
    BY <1>5, <1>6, <1>7 DEF ClockInv

(* A click that begins a session was read.  The count then goes four ways: *)
(* work or rest goes on or runs out.                                       *)
New == action \in {"L", "R"}

(* A second of work that is not the last one.                              *)
LEMMA WorkGoesOn ==
  ASSUME Tomato!Count, first \in BOOLEAN, Tomato!Chosen.work, ~(Tomato!Chosen.worked - 1 <= 0)
  PROVE  /\ is_work' = TRUE /\ worked_cnt' = Tomato!Chosen.worked - 1
         /\ rested_cnt' = Tomato!Chosen.rested
         /\ clockPc' = "show" /\ ended' = ended
         /\ New => shown' = 0 /\ first' = FALSE
         /\ ~New => shown' = shown /\ first' = first
  BY Zenon DEF Tomato!Count, New

(* The last second of work: the rest begins.                               *)
LEMMA WorkRunsOut ==
  ASSUME Tomato!Count, first \in BOOLEAN, Tomato!Chosen.work, Tomato!Chosen.worked - 1 <= 0, ~New
  PROVE  /\ is_work' = FALSE /\ worked_cnt' = Tomato!Chosen.worked - 1
         /\ rested_cnt' = REST_DOWN_COUNT
         /\ clockPc' = "show" /\ shown' = 0 /\ first' = FALSE
         /\ ended' = [work |-> Tomato!Chosen.work, shown |-> shown, first |-> first]
  BY Zenon DEF Tomato!Count, New

(* A second of rest that is not the last one.                              *)
LEMMA RestGoesOn ==
  ASSUME Tomato!Count, first \in BOOLEAN, ~Tomato!Chosen.work, ~(Tomato!Chosen.rested - 1 <= 0)
  PROVE  /\ is_work' = FALSE /\ worked_cnt' = Tomato!Chosen.worked
         /\ rested_cnt' = Tomato!Chosen.rested - 1
         /\ clockPc' = "show" /\ ended' = ended
         /\ New => shown' = 0 /\ first' = FALSE
         /\ ~New => shown' = shown /\ first' = first
  BY Zenon DEF Tomato!Count, New

(* The last second of rest: the clock waits for a click.                   *)
LEMMA RestRunsOut ==
  ASSUME Tomato!Count, first \in BOOLEAN, ~Tomato!Chosen.work, Tomato!Chosen.rested - 1 <= 0, ~New
  PROVE  /\ is_work' = FALSE /\ worked_cnt' = Tomato!Chosen.worked
         /\ rested_cnt' = Tomato!Chosen.rested - 1
         /\ clockPc' = "clean" /\ shown' = 0 /\ first' = FALSE
         /\ ended' = [work |-> Tomato!Chosen.work, shown |-> shown, first |-> first]
  BY Zenon DEF Tomato!Count, New

(* The count, with the session a click may have begun.                     *)
LEMMA CountStep ==
  ASSUME ClockInv, Tomato!Count
  PROVE  ClockInv'
  <1>1. /\ fifo' = fifo /\ action' = action /\ waitEndedBy' = waitEndedBy /\ clockPc = "count"
        /\ clockPc' \in {"clean", "show"}
    BY DEF Tomato!Count
  <1>2. /\ worked_cnt \in 0..WORK_DOWN_COUNT /\ rested_cnt \in 0..REST_DOWN_COUNT
        /\ shown \in Nat /\ is_work \in BOOLEAN /\ first \in BOOLEAN
        /\ WORK_DOWN_COUNT \in Nat /\ REST_DOWN_COUNT \in Nat
        /\ WORK_DOWN_COUNT >= 1 /\ REST_DOWN_COUNT >= 1
    BY DEF ClockInv, Tomato!TypeOK
  <1>3. /\ first => is_work
        /\ is_work => /\ worked_cnt >= 1
                      /\ worked_cnt + shown = IF first THEN WORK_DOWN_COUNT ELSE WORK_DOWN_COUNT + 1
        /\ ~is_work => rested_cnt >= 1 /\ rested_cnt + shown = REST_DOWN_COUNT + 1
    BY <1>1, <1>2 DEF ClockInv, CountInv, Running, Left, Length
  <1>. DEFINE Numbers == /\ shown' \in Nat
                         /\ worked_cnt' \in 0..WORK_DOWN_COUNT
                         /\ rested_cnt' \in 0..REST_DOWN_COUNT
              Booleans == is_work' \in BOOLEAN /\ first' \in BOOLEAN
  <1>. USE DEF Left, Length, Running, Displaying, RanOut
  <1>7. Numbers /\ Booleans /\ CountInv'
    <2>4. CASE New
      <3>1. CASE action = "L"
        <4>1. /\ Tomato!Chosen.work = TRUE /\ Tomato!Chosen.worked - 1 = WORK_DOWN_COUNT
              /\ Tomato!Chosen.rested = rested_cnt
          BY <1>2, <3>1 DEF Tomato!Chosen
        <4>2. Tomato!Chosen.work /\ ~(Tomato!Chosen.worked - 1 <= 0)
          BY <1>2, <4>1
        <4>3. /\ is_work' = TRUE /\ worked_cnt' = WORK_DOWN_COUNT /\ rested_cnt' = rested_cnt
              /\ clockPc' = "show" /\ ended' = ended /\ shown' = 0 /\ first' = FALSE
          BY <1>2, <2>4, <4>1, <4>2, WorkGoesOn
        <4>4. CountInv'
          BY <1>2, <4>3 DEF CountInv, ClockInv, Tomato!LaterSessionsFull
        <4>5. Numbers
          BY <1>2, <4>3
        <4>6. Booleans
          BY <1>2, <4>3, Zenon
        <4>. QED
          BY <4>4, <4>5, <4>6
      <3>2. CASE action = "R"
        <4>1. /\ Tomato!Chosen.work = FALSE /\ Tomato!Chosen.worked = worked_cnt
              /\ Tomato!Chosen.rested - 1 = REST_DOWN_COUNT
          BY <1>2, <3>2 DEF Tomato!Chosen
        <4>2. ~Tomato!Chosen.work /\ ~(Tomato!Chosen.rested - 1 <= 0)
          BY <1>2, <4>1
        <4>3. /\ is_work' = FALSE /\ worked_cnt' = worked_cnt /\ rested_cnt' = REST_DOWN_COUNT
              /\ clockPc' = "show" /\ ended' = ended /\ shown' = 0 /\ first' = FALSE
          BY <1>2, <2>4, <4>1, <4>2, RestGoesOn
        <4>4. CountInv'
          BY <1>2, <4>3 DEF CountInv, ClockInv, Tomato!LaterSessionsFull
        <4>5. Numbers
          BY <1>2, <4>3
        <4>6. Booleans
          BY <1>2, <4>3, Zenon
        <4>. QED
          BY <4>4, <4>5, <4>6
      <3>. QED
        BY <2>4, <3>1, <3>2 DEF New
    <2>5. CASE ~New
      <3>0. Tomato!Chosen = [work |-> is_work, worked |-> worked_cnt, rested |-> rested_cnt]
        BY <2>5 DEF Tomato!Chosen, New
      <3>1. /\ Tomato!Chosen.work = is_work /\ Tomato!Chosen.worked = worked_cnt
            /\ Tomato!Chosen.rested = rested_cnt
        BY <3>0
      <3>2. CASE is_work /\ worked_cnt - 1 <= 0
        <4>1. /\ is_work' = FALSE /\ worked_cnt' = worked_cnt - 1 /\ rested_cnt' = REST_DOWN_COUNT
              /\ clockPc' = "show" /\ shown' = 0 /\ first' = FALSE
              /\ ended' = [work |-> is_work, shown |-> shown, first |-> first]
          BY <1>2, <2>5, <3>1, <3>2, WorkRunsOut
        <4>2. Tomato!LaterSessionsFull'
          BY <4>1, <1>2, <1>3, <3>2 DEF Tomato!LaterSessionsFull
        <4>3. CountInv'
          BY <4>1, <4>2, <1>2 DEF CountInv
        <4>5. Numbers
          BY <1>2, <1>3, <3>2, <4>1
        <4>6. Booleans
          BY <1>2, <4>1, Zenon
        <4>. QED
          BY <4>3, <4>5, <4>6
      <3>3. CASE is_work /\ ~(worked_cnt - 1 <= 0)
        <4>1. /\ is_work' = TRUE /\ worked_cnt' = worked_cnt - 1 /\ rested_cnt' = rested_cnt
              /\ clockPc' = "show" /\ shown' = shown /\ first' = first /\ ended' = ended
          BY <1>2, <2>5, <3>1, <3>3, WorkGoesOn
        <4>3. CountInv'
          BY <4>1, <1>2, <1>3, <3>3 DEF CountInv, ClockInv, Tomato!LaterSessionsFull
        <4>5. Numbers
          BY <1>2, <3>3, <4>1
        <4>6. Booleans
          BY <1>2, <4>1, Zenon
        <4>. QED
          BY <4>3, <4>5, <4>6
      <3>4. CASE ~is_work /\ rested_cnt - 1 <= 0
        <4>1. /\ is_work' = FALSE /\ worked_cnt' = worked_cnt /\ rested_cnt' = rested_cnt - 1
              /\ clockPc' = "clean" /\ shown' = 0 /\ first' = FALSE
              /\ ended' = [work |-> is_work, shown |-> shown, first |-> first]
          BY <1>2, <2>5, <3>1, <3>4, RestRunsOut
        <4>2. Tomato!LaterSessionsFull'
          BY <4>1, <1>2, <1>3, <3>4 DEF Tomato!LaterSessionsFull
        <4>3. CountInv'
          BY <4>1, <4>2, <1>2 DEF CountInv
        <4>5. Numbers
          BY <1>2, <1>3, <3>4, <4>1
        <4>6. Booleans
          BY <1>2, <4>1, Zenon
        <4>. QED
          BY <4>3, <4>5, <4>6
      <3>5. CASE ~is_work /\ ~(rested_cnt - 1 <= 0)
        <4>1. /\ is_work' = FALSE /\ worked_cnt' = worked_cnt /\ rested_cnt' = rested_cnt - 1
              /\ clockPc' = "show" /\ shown' = shown /\ first' = first /\ ended' = ended
          BY <1>2, <2>5, <3>1, <3>5, RestGoesOn
        <4>3. CountInv'
          BY <4>1, <1>2, <1>3, <3>5 DEF CountInv, ClockInv, Tomato!LaterSessionsFull
        <4>5. Numbers
          BY <1>2, <3>5, <4>1
        <4>6. Booleans
          BY <1>2, <4>1, Zenon
        <4>. QED
          BY <4>3, <4>5, <4>6
      <3>. QED
        BY <3>2, <3>3, <3>4, <3>5
    <2>. QED
      BY <2>4, <2>5
  <1>8. Tomato!TypeOK'
    BY <1>1, <1>7 DEF ClockInv, Tomato!TypeOK
  <1>9. WaitInv'
    BY <1>1 DEF ClockInv, WaitInv, Tomato!NoStaleClickEndsWait
  <1>. QED
    BY <1>7, <1>8, <1>9 DEF ClockInv

(* The click that ends the wait begins a session.                          *)
LEMMA WaitStep ==
  ASSUME ClockInv, Tomato!WaitForClick
  PROVE  ClockInv'
  <1>1. /\ fifo \in Seq(Tomato!ClickRecord) /\ fifo # <<>>
        /\ Tail(fifo) \in Seq(Tomato!ClickRecord) /\ Head(fifo) \in Tomato!ClickRecord
        /\ Head(fifo) = fifo[1] /\ 1 \in DOMAIN fifo
    BY DEF Tomato!WaitForClick, ClockInv, Tomato!TypeOK
  <1>2. Head(fifo).waiting
    BY <1>1 DEF Tomato!WaitForClick, ClockInv, WaitInv
  <1>3. WaitInv'
    BY <1>2 DEF Tomato!WaitForClick, WaitInv, Tomato!NoStaleClickEndsWait
  <1>4. CountInv'
    <2>1. /\ clockPc = "wait" /\ clockPc' = "cleanAgain" /\ shown' = shown /\ first' = first
          /\ ended' = ended
      BY DEF Tomato!WaitForClick
    <2>2. shown = 0 /\ ~first /\ Tomato!LaterSessionsFull
      BY <2>1 DEF ClockInv, CountInv, RanOut
    <2>3. (is_work' /\ worked_cnt' = WORK_DOWN_COUNT) \/ (~is_work' /\ rested_cnt' = REST_DOWN_COUNT)
      BY Zenon DEF Tomato!WaitForClick
    <2>4. Left' >= 1 /\ Left' = Length'
      BY <2>3 DEF Left, Length
    <2>5. Length' \in Nat
      BY DEF Length
    <2>6. Tomato!LaterSessionsFull'
      BY <2>1, <2>2 DEF Tomato!LaterSessionsFull
    <2>7. ~first' /\ shown' = 0
      BY <2>1, <2>2, Zenon
    <2>8. Left' + shown' = Length'
      <3>1. \A n \in Nat : n + 0 = n
        OBVIOUS
      <3>. QED
        BY <2>4, <2>5, <2>7, <3>1, Zenon
    <2>. QED
      BY <2>1, <2>4, <2>6, <2>7, <2>8, Zenon DEF CountInv, Running, Displaying, RanOut
  <1>5. Tomato!TypeOK'
    <2>1. worked_cnt' \in 0..WORK_DOWN_COUNT /\ rested_cnt' \in 0..REST_DOWN_COUNT
      BY DEF Tomato!WaitForClick, ClockInv, Tomato!TypeOK
    <2>. QED
      BY <1>1, <2>1 DEF Tomato!WaitForClick, ClockInv, Tomato!TypeOK
  <1>. QED
    BY <1>3, <1>4, <1>5 DEF ClockInv

(* The steps that only empty the FIFO, or show what is left.               *)
LEMMA OtherSteps ==
  ASSUME ClockInv, Tomato!ReadAction \/ Tomato!Clean \/ Tomato!CleanAgain \/ Tomato!Show
  PROVE  ClockInv'
  <1>1. /\ is_work' = is_work /\ worked_cnt' = worked_cnt /\ rested_cnt' = rested_cnt
        /\ first' = first /\ ended' = ended /\ waitEndedBy' = waitEndedBy
        /\ shown' = IF clockPc = "show" THEN shown + 1 ELSE shown
        /\ fifo' = IF clockPc = "show" THEN fifo ELSE <<>>
    BY DEF Tomato!ReadAction, Tomato!Clean, Tomato!CleanAgain, Tomato!Show,
       Tomato!counters, Tomato!history
  <1>2. \/ clockPc = "read" /\ clockPc' = "count"
        \/ clockPc = "clean" /\ clockPc' \in {"clean", "wait"}
        \/ clockPc = "cleanAgain" /\ clockPc' \in {"cleanAgain", "show"}
        \/ clockPc = "show" /\ clockPc' = "read"
    BY DEF Tomato!ReadAction, Tomato!Clean, Tomato!CleanAgain, Tomato!Show
  <1>3. action' \in Tomato!Clicks \union {Tomato!NON_CLICK}
    <2>1. CASE Tomato!ReadAction /\ fifo # <<>>
      <3>1. fifo \in Seq(Tomato!ClickRecord) /\ Len(fifo) \in 1..Len(fifo)
        BY <2>1 DEF ClockInv, Tomato!TypeOK
      <3>2. fifo[Len(fifo)] \in Tomato!ClickRecord
        BY <3>1, ElementOfSeq
      <3>. QED
        BY <2>1, <3>2 DEF Tomato!ReadAction, Tomato!ClickRecord
    <2>. QED
      BY <2>1 DEF Tomato!ReadAction, Tomato!Clean, Tomato!CleanAgain, Tomato!Show,
         ClockInv, Tomato!TypeOK
  <1>4. fifo' \in Seq(Tomato!ClickRecord)
    BY <1>1 DEF ClockInv, Tomato!TypeOK
  <1>5. Tomato!TypeOK'
    BY <1>1, <1>2, <1>3, <1>4 DEF ClockInv, Tomato!TypeOK
  <1>6. CountInv'
    BY <1>1, <1>2 DEF ClockInv, Tomato!TypeOK, CountInv, Left, Length, Running,
       Displaying, RanOut,
                      Tomato!LaterSessionsFull
  <1>7. WaitInv'
    BY <1>1, <1>2 DEF ClockInv, WaitInv, Tomato!NoStaleClickEndsWait
  <1>. QED
    BY <1>5, <1>6, <1>7 DEF ClockInv

-----------------------------------------------------------------------------
(* The clock keeps count of its sessions whatever is clicked and when.     *)
THEOREM ClockAlways ==
  Tomato!Spec => []ClockInv
  <1>1. Tomato!Init => ClockInv
    BY ClockInit
  <1>2. ClockInv /\ [Tomato!Next]_(Tomato!vars) => ClockInv'
    <2>. SUFFICES ASSUME ClockInv, [Tomato!Next]_(Tomato!vars) PROVE ClockInv'
      OBVIOUS
    <2>1. CASE UNCHANGED Tomato!vars
      BY <2>1 DEF Tomato!vars, ClockInv, Tomato!TypeOK, CountInv, WaitInv, Left, Length,
         Tomato!LaterSessionsFull,
                  Tomato!NoStaleClickEndsWait
    <2>. QED
      BY <2>1, ClickStep, CountStep, WaitStep, OtherSteps DEF Tomato!Next
  <1>. QED
    BY <1>1, <1>2, PTL DEF Tomato!Spec

(* The other programs leave the clock alone.                               *)
LEMMA ClockRuns == Spec => Tomato!Spec
  <1>1. Init => Tomato!Init
    BY DEF Init
  <1>2. [Next]_vars => [Tomato!Next]_(Tomato!vars)
    BY DEF Next, BufferNext, HttpNext, TimersNext, ScheduleNext, StoreNext, TomatoNext,
           TurnsNext, StackNext, vars, programVars, tomatoVars, Tomato!vars
  <1>. QED
    BY <1>1, <1>2, PTL DEF Spec, Tomato!Spec

(* The counts stay between zero and the length of the session, although a  *)
(* click sets one more.                                                    *)
THEOREM ClockTypeCorrect == Spec => []Tomato!TypeOK
  <1>1. ClockInv => Tomato!TypeOK
    BY DEF ClockInv
  <1>. QED
    BY <1>1, ClockRuns, ClockAlways, PTL

(* A session that runs out in main's loop has been shown for its length,   *)
(* unless it is the first after the start, which is one display short.     *)
THEOREM LaterSessionsShownInFull == Spec => []LaterSessionsFull
  <1>1. ClockInv => LaterSessionsFull
    BY DEF ClockInv, CountInv, LaterSessionsFull
  <1>. QED
    BY <1>1, ClockRuns, ClockAlways, PTL

(* The blocking read at the end of a rest returns a click made after it.   *)
THEOREM WaitEndsFresh == Spec => []NoStaleClickEndsWait
  <1>1. ClockInv => NoStaleClickEndsWait
    BY DEF ClockInv, WaitInv, NoStaleClickEndsWait
  <1>. QED
    BY <1>1, ClockRuns, ClockAlways, PTL

(* Each of the programs keeps its types, whichever runs.                   *)
THEOREM ProgramsTypeCorrect == Spec => []TypeOK
  <1>1. Init => program \in Programs
    BY DEF Init
  <1>2. program \in Programs /\ [Next]_vars => (program \in Programs)'
    BY DEF Next, BufferNext, HttpNext, TimersNext, ScheduleNext, StoreNext, TomatoNext,
           TurnsNext, StackNext, vars
  <1>3. Spec => [](program \in Programs)
    BY <1>1, <1>2, PTL DEF Spec
  <1>4. /\ program \in Programs
        /\ Buf!TypeOK /\ Http!TypeOK /\ TimerQ!TypeOK
        /\ Schedule!TypeOK /\ Store!TypeOK /\ Tomato!TypeOK /\ Turns!TypeOK /\ Stack!TypeOK
        => TypeOK
    BY DEF TypeOK
  <1>. QED
    BY <1>3, <1>4, BufferTypeCorrect, HttpTypeCorrect, TimersTypeCorrect,
       ScheduleTypeCorrect, StoreTypeCorrect, ClockTypeCorrect, TurnsTypeCorrect,
       StackTypeCorrect, PTL
=============================================================================
