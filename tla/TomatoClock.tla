----------------------------- MODULE TomatoClock -----------------------------
(***************************************************************************)
(* waybar_tomato_clock: a process that shows the rest of a work or rest    *)
(* session every ten seconds, and clicker processes that write the user's  *)
(* clicks to its FIFO.  When a rest session has run out the clock waits    *)
(* for a click.                                                            *)
(*                                                                         *)
(* read_action_non_block() is one step, taken when its last read() finds   *)
(* the FIFO empty: what it returns is the last character before that.  The *)
(* FIFO (external) never fills up; the clock holds a write end open, so a  *)
(* clicker's open() succeeds and an empty FIFO reads as EAGAIN.            *)
(***************************************************************************)
EXTENDS Naturals, Sequences

CONSTANTS WORK_DOWN_COUNT, REST_DOWN_COUNT,
          MaxFifo       \* bound: clicks in the FIFO

VARIABLES
  fifo,         \* clicks: the character, and whether the rest had run out by then
  pc,           \* in main's loop: "read", "count", "clean", "wait", "cleanAgain", "show"
  action,       \* what the read returned
  is_work, worked_cnt, rested_cnt,
  shown,        \* history: how often this session has been shown
  first,        \* history: this is the session the program started with
  ended,        \* history: the session that ran out last
  waitEndedBy   \* history: the click that ended the last wait

vars == <<fifo, pc, action, is_work, worked_cnt, rested_cnt, shown, first, ended, waitEndedBy>>
counters == <<is_work, worked_cnt, rested_cnt>>
history  == <<shown, first, ended, waitEndedBy>>

Clicks == {"L", "R", "M"}
NON_CLICK == "_"

Full == [work |-> TRUE, shown |-> WORK_DOWN_COUNT, first |-> FALSE]

Init ==
  /\ fifo = <<>> /\ pc = "read" /\ action = NON_CLICK
  /\ is_work = TRUE /\ worked_cnt = WORK_DOWN_COUNT /\ rested_cnt = REST_DOWN_COUNT
  /\ shown = 0 /\ first = TRUE
  /\ ended = Full
  /\ waitEndedBy = [ch |-> "L", waiting |-> TRUE]

(* A clicker process writes one character.                                 *)
Click(ch) ==
  /\ Len(fifo) < MaxFifo
  /\ fifo' = Append(fifo, [ch |-> ch, waiting |-> pc \in {"clean", "wait"}])
  /\ UNCHANGED <<pc, action, counters, history>>

-----------------------------------------------------------------------------
(* An iteration of the loop: take the latest click ...                     *)
ReadAction ==
  /\ pc = "read"
  /\ action' = IF fifo = <<>> THEN NON_CLICK ELSE fifo[Len(fifo)].ch
  /\ fifo' = <<>>
  /\ pc' = "count"
  /\ UNCHANGED <<counters, history>>

(* Mutant: the counts without the one more.                                *)
ChosenOneShort ==
  CASE action = "L" -> [work |-> TRUE, worked |-> WORK_DOWN_COUNT, rested |-> rested_cnt]
    [] action = "R" -> [work |-> FALSE, worked |-> worked_cnt, rested |-> REST_DOWN_COUNT]
    [] OTHER        -> [work |-> is_work, worked |-> worked_cnt, rested |-> rested_cnt]

(* A session begins: at click L or R one more, because the count goes down *)
(* before it is shown.                                                     *)
Chosen ==
  CASE action = "L" -> [work |-> TRUE, worked |-> WORK_DOWN_COUNT + 1, rested |-> rested_cnt]
    [] action = "R" -> [work |-> FALSE, worked |-> worked_cnt, rested |-> REST_DOWN_COUNT + 1]
    [] OTHER        -> [work |-> is_work, worked |-> worked_cnt, rested |-> rested_cnt]

(* ... count the session down and, when work has run out, begin to rest;   *)
(* when rest has run out, go and wait.                                     *)
Count ==
  /\ pc = "count"
  /\ LET c == Chosen
         new == action \in {"L", "R"}
         over == IF c.work THEN c.worked - 1 <= 0 ELSE c.rested - 1 <= 0
     IN  /\ is_work' = (c.work /\ ~over)
         /\ worked_cnt' = IF c.work THEN c.worked - 1 ELSE c.worked
         /\ rested_cnt' = IF c.work THEN (IF over THEN REST_DOWN_COUNT ELSE c.rested)
                                    ELSE c.rested - 1
         /\ pc' = IF over /\ ~c.work THEN "clean" ELSE "show"
         /\ shown' = IF new \/ over THEN 0 ELSE shown
         /\ first' = (first /\ ~new /\ ~over)
         /\ ended' = IF over THEN [work |-> c.work, shown |-> IF new THEN 0 ELSE shown,
                                   first |-> first /\ ~new]
                             ELSE ended
  /\ UNCHANGED <<fifo, action, waitEndedBy>>

(* Mutant: the wait begins with whatever is in the FIFO.                   *)
NoClean ==
  /\ pc = "clean"
  /\ pc' = "wait"
  /\ UNCHANGED <<fifo, action, counters, history>>

(* while (!is_non_click(read_action_non_block)): until a read is empty.    *)
Clean ==
  /\ pc = "clean"
  /\ fifo' = <<>>
  /\ pc' = IF fifo = <<>> THEN "wait" ELSE "clean"
  /\ UNCHANGED <<action, counters, history>>

(* print_manual() and the blocking read of one character.                  *)
WaitForClick ==
  /\ pc = "wait" /\ fifo # <<>>
  /\ fifo' = Tail(fifo)
  /\ waitEndedBy' = Head(fifo)
  /\ is_work' = (Head(fifo).ch = "L")
  /\ worked_cnt' = IF Head(fifo).ch = "L" THEN WORK_DOWN_COUNT ELSE worked_cnt
  /\ rested_cnt' = IF Head(fifo).ch = "L" THEN rested_cnt ELSE REST_DOWN_COUNT
  /\ pc' = "cleanAgain"
  /\ UNCHANGED <<action, shown, first, ended>>

(* The rest of what was clicked is dropped.                                *)
CleanAgain ==
  /\ pc = "cleanAgain"
  /\ fifo' = <<>>
  /\ pc' = IF fifo = <<>> THEN "show" ELSE "cleanAgain"
  /\ UNCHANGED <<action, counters, history>>

(* ... show what is left and sleep ten seconds.                            *)
Show ==
  /\ pc = "show"
  /\ shown' = shown + 1
  /\ pc' = "read"
  /\ UNCHANGED <<fifo, action, counters, first, ended, waitEndedBy>>

Next ==
  \/ ReadAction \/ Count \/ Clean \/ WaitForClick \/ CleanAgain \/ Show
  \/ \E ch \in Clicks : Click(ch)

Spec == Init /\ [][Next]_vars

-----------------------------------------------------------------------------
ClickRecord == [ch : Clicks, waiting : BOOLEAN]

TypeOK ==
  /\ fifo \in Seq(ClickRecord)
  /\ pc \in {"read", "count", "clean", "wait", "cleanAgain", "show"}
  /\ action \in Clicks \union {NON_CLICK}
  /\ is_work \in BOOLEAN
  /\ worked_cnt \in 0..WORK_DOWN_COUNT
  /\ rested_cnt \in 0..REST_DOWN_COUNT
  /\ shown \in Nat /\ first \in BOOLEAN
  /\ waitEndedBy \in ClickRecord

(* The displays, ten seconds each, of a session of 25 or of 5 minutes.     *)
FullLength(work) == IF work THEN WORK_DOWN_COUNT ELSE REST_DOWN_COUNT

(* A session that runs out has been shown for its whole length, however it *)
(* began: by running out of the one before, by a click that interrupted    *)
(* one or by the click that ended a wait.  The session the program starts  *)
(* with is left out: see EverySessionFull.                                 *)
LaterSessionsFull == ~ended.first => ended.shown = FullLength(ended.work)

(* The README's "25min 5min 25min 5min", counted down to 0: every session  *)
(* that runs out, the first too, has been shown for its whole length.  The *)
(* code starts worked_cnt without the one more that a click gives it, and  *)
(* the first session is one display short.                                 *)
EverySessionFull == ended.shown = FullLength(ended.work)

(* The click that ends the wait was made after the rest had run out, never *)
(* one left in the FIFO from before.                                       *)
NoStaleClickEndsWait == waitEndedBy.waiting
=============================================================================
