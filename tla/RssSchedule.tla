----------------------------- MODULE RssSchedule -----------------------------
(***************************************************************************)
(* When rss_b fetches a source (rss_b/src/main.cpp: main, getRssSources,   *)
(* update_2_db, sleep_to_next_hour).  One process, in a loop: read the     *)
(* sources that are due, fetch them one by one, write back each one's      *)
(* status, gap and next_execute, sleep to an hour mark.  What a fetch does *)
(* to the articles is RssStore's; here it failed, brought nothing new or   *)
(* brought something new.                                                  *)
(*                                                                         *)
(* Time.  Nothing but differences of times and their places within an hour *)
(* matters, so the clock is its place in a pair of hours (std::chrono's    *)
(* round takes a tie to the even hour), and next_execute is kept as the    *)
(* time from now until then, negative when it has passed.  Time passes     *)
(* while a source is fetched, while the process sleeps and while it is     *)
(* down.  A tick stands for the five seconds added to the hour mark, and   *)
(* is more than what the conversion to whole seconds loses.                *)
(***************************************************************************)
EXTENDS Integers, Sequences, FiniteSets

CONSTANTS Sources,      \* the active rows of rss_source
          Hour,         \* ticks in an hour
          MAX_GAP,      \* hours
          MaxFetch,     \* bound: ticks one fetch takes
          MaxDown       \* bound: ticks the process is down

VARIABLES
  clock,    \* now, within a pair of hours
  row,      \* rss_source: status, gap (hours), due = next_execute - now
  pc,       \* in main(): "select", "fetch"; or "down"
  vrs,      \* main's vector of the sources that were due, without those done
  took,     \* history: ticks since the process woke, Hour if longer or restarted
  before,   \* history: what came before this pass: "restart", a "long" or a
            \* "short" pass
  streak    \* history: how the last updates of a source went

vars == <<clock, row, pc, vrs, took, before, streak>>

Outcome == {"failed", "nothing", "new"}

MaxOf(x, y) == IF x > y THEN x ELSE y
MinOf(x, y) == IF x < y THEN x ELSE y

(* std::chrono::round<hours>: the nearest hour mark, the even one of two.  *)
Round(t) ==
  LET below == (t \div Hour) * Hour
      rest  == 2 * (t - below)
  IN  IF rest < Hour \/ (rest = Hour /\ (t \div Hour) % 2 = 0) THEN below ELSE below + Hour

Margin == 1     \* seconds(5)

(* d ticks pass; how late a source is beyond the margin does not matter.   *)
Later(d) == [s \in Sources |-> [row[s] EXCEPT !.due = MaxOf(@ - d, -(Margin + 1))]]
Pass(d) == clock' = (clock + d) % (2 * Hour)

(* A row is inserted by hand, with a next_execute in the past.             *)
Init ==
  /\ clock \in 0 .. 2 * Hour - 1
  /\ row = [s \in Sources |-> [status |-> 0, gap |-> 1, due |-> 0]]
  /\ pc = "select"
  /\ vrs = <<>>
  /\ took = Hour
  /\ before = "restart"
  /\ streak = [s \in Sources |-> [kind |-> "nothing", n |-> 0, gap |-> 1]]

-----------------------------------------------------------------------------
(* update_2_db, on the object's own copy of the row.                       *)

(* Mutant: a fetch with nothing new does not end a streak of failures.     *)
StatusKept(status, outcome) ==
  CASE outcome = "new"     -> MaxOf(0, status) + 1
    [] outcome = "nothing" -> status
    [] outcome = "failed"  -> IF status >= 0 THEN -1 ELSE status - 1

StatusAfter(status, outcome) ==
  CASE outcome = "new"     -> MaxOf(0, status) + 1
    [] outcome = "nothing" -> 0
    [] outcome = "failed"  -> IF status >= 0 THEN -1 ELSE status - 1

(* Mutant: the gap is doubled without the limit.                           *)
AdjustedUnlimited(r) ==
  IF r.status < -3 THEN [r EXCEPT !.gap = 2 * @, !.status = 0]
  ELSE IF r.status > 3 THEN [r EXCEPT !.gap = MaxOf(1, @ \div 2), !.status = 0]
  ELSE r

(* Four failures in a row double the gap, four fetches with something new  *)
(* halve it, and both start counting again.                                *)
Adjusted(r) ==
  IF r.status < -3 THEN [r EXCEPT !.gap = MinOf(2 * @, MAX_GAP), !.status = 0]
  ELSE IF r.status > 3 THEN [r EXCEPT !.gap = MaxOf(1, @ \div 2), !.status = 0]
  ELSE r

(* next_execute: gap hours from now, rounded.                              *)
NextExecute(now, gap) == Round(now + gap * Hour)

Updated(r, now, outcome) ==
  LET a == Adjusted([r EXCEPT !.status = StatusAfter(@, outcome)])
  IN  [a EXCEPT !.due = NextExecute(now, a.gap) - now]

-----------------------------------------------------------------------------
(* History: the length, modulo four, of the run of equal outcomes, and the *)
(* gap those runs should have led to.                                      *)
StreakAfter(k, outcome) ==
  LET n == IF outcome = k.kind THEN (k.n + 1) % 4 ELSE 1
      g == IF n # 0 \/ outcome = "nothing" THEN k.gap
           ELSE IF outcome = "failed" THEN MinOf(2 * k.gap, MAX_GAP)
           ELSE MaxOf(1, k.gap \div 2)
  IN  [kind |-> outcome, n |-> IF outcome = "nothing" THEN 0 ELSE n, gap |-> g]

-----------------------------------------------------------------------------
(* getRssSources(): the rows with next_execute <= now, in any order, for   *)
(* the query names none.  main() works on copies of them; nobody else      *)
(* writes the table.                                                       *)
DueSources == {s \in Sources : row[s].due <= 0}
AllRowsOf(set) ==
  {v \in [1..Cardinality(set) -> set] : \A s \in set : \E i \in DOMAIN v : v[i] = s}

Select ==
  /\ pc = "select"
  /\ vrs' \in AllRowsOf(DueSources)
  /\ pc' = "fetch"
  /\ took' = IF before = "restart" THEN Hour ELSE 0
  /\ UNCHANGED <<clock, row, before, streak>>

(* One iteration of the for loop: the fetch takes d ticks, and then        *)
(* update_2_db writes the row.                                             *)
FetchAndUpdate(d, outcome) ==
  /\ pc = "fetch" /\ vrs # <<>>
  /\ LET s == Head(vrs)
     IN  /\ row' = [Later(d) EXCEPT ![s] = Updated(row[s], clock + d, outcome)]
         /\ streak' = [streak EXCEPT ![s] = StreakAfter(@, outcome)]
  /\ vrs' = Tail(vrs)
  /\ Pass(d)
  /\ took' = MinOf(took + d, Hour)
  /\ UNCHANGED <<pc, before>>

(* Mutant: the process wakes at the hour mark.                             *)
SleepWithoutMargin(loss) ==
  /\ pc = "fetch" /\ vrs = <<>>
  /\ LET d == Round(clock + Hour) - clock - loss
     IN  Pass(d) /\ row' = Later(d)
  /\ pc' = "select"
  /\ before' = IF 2 * (took + Margin) < Hour THEN "short" ELSE "long"
  /\ UNCHANGED <<vrs, took, streak>>

(* sleep_to_next_hour(): the time to sleep is cut to whole seconds, so the *)
(* process may wake a little before the time it computed.                  *)
SleepToNextHour(loss) ==
  /\ pc = "fetch" /\ vrs = <<>>
  /\ LET d == Round(clock + Hour) + Margin - clock - loss
     IN  Pass(d) /\ row' = Later(d)
  /\ pc' = "select"
  /\ before' = IF 2 * (took + Margin) < Hour THEN "short" ELSE "long"
  /\ UNCHANGED <<vrs, took, streak>>

(* An exception that main() does not catch, from any statement but the     *)
(* insert of an article, ends the process: the row keeps its next_execute. *)
Terminate ==
  /\ pc \in {"select", "fetch"}
  /\ pc' = "down"
  /\ vrs' = <<>>
  /\ UNCHANGED <<clock, row, took, before, streak>>

(* Somebody starts it again.                                               *)
Restart(d) ==
  /\ pc = "down"
  /\ Pass(d) /\ row' = Later(d)
  /\ pc' = "select"
  /\ before' = "restart"
  /\ UNCHANGED <<vrs, took, streak>>

Next ==
  \/ Select
  \/ \E d \in 0..MaxFetch, outcome \in Outcome : FetchAndUpdate(d, outcome)
  \/ \E loss \in 0..1 : SleepToNextHour(loss)
  \/ Terminate
  \/ \E d \in 0..MaxDown : Restart(d)

Spec == Init /\ [][Next]_vars

-----------------------------------------------------------------------------
TypeOK ==
  /\ clock \in 0 .. 2 * Hour - 1
  /\ \A s \in Sources : /\ row[s].status \in -3..3
                         /\ row[s].gap \in 1..MAX_GAP
                         /\ row[s].due \in -(Margin + 1) .. (MAX_GAP + 1) * Hour
  /\ pc \in {"select", "fetch", "down"}
  /\ vrs \in Seq(Sources)
  /\ took \in 0..Hour
  /\ before \in {"restart", "long", "short"}

(* The gap of a source doubles (up to MAX_GAP) with every fourth failure   *)
(* in a row, halves (down to one hour) with every fourth fetch in a row    *)
(* that brought something new, and changes for nothing else: the signed    *)
(* status with its resets counts exactly the runs of equal outcomes.  This *)
(* is the code's rule; the README has another, see ThreeInARowPromote.     *)
GapFollowsStreak ==
  \A s \in Sources :
    /\ row[s].gap = streak[s].gap
    /\ row[s].status = CASE streak[s].kind = "failed"  -> -streak[s].n
                         [] streak[s].kind = "new"     -> streak[s].n
                         [] streak[s].kind = "nothing" -> 0

(* The README's rule: three fetches in a row that brought something new    *)
(* promote a source to a shorter gap, if it has a longer one than an hour. *)
(* (streak[s].gap is the gap the run began with.)                          *)
ThreeInARowPromote ==
  \A s \in Sources :
    streak[s].kind = "new" /\ streak[s].n = 3 /\ streak[s].gap > 1
      => row[s].gap < streak[s].gap

(* No source misses its hour by a whisker: as long as a pass takes less    *)
(* than half an hour, the next one finds every source that has become due  *)
(* no more than the margin late.  It needs the rounding in update_2_db,    *)
(* the rounding in sleep_to_next_hour and the five seconds to fit          *)
(* together.  (After a longer pass an hour is skipped: at 10:36 the        *)
(* process sleeps until 12:00:05.)                                         *)
OnSchedule ==
  pc = "select" /\ before = "short" => \A s \in Sources : row[s].due >= -Margin
=============================================================================
