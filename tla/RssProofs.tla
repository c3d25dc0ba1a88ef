----------------------------- MODULE RssProofs -----------------------------
(***************************************************************************)
(* Proofs about rss_b, for any sources, links, lengths of feeds and of     *)
(* hours.                                                                  *)
(*                                                                         *)
(* RssSchedule: the gap of a source follows the outcomes of its fetches,   *)
(* and after a short pass no source has missed its hour.  The argument is  *)
(* about places within an hour: a time to come is an hour mark, the        *)
(* process wakes at a mark or a tick after it, and in the first half of an *)
(* hour rounding gives the mark before.                                    *)
(*                                                                         *)
(* RssStore: the documents match the rows, and no article of a feed is     *)
(* passed over, whichever statements fail and whenever the process is      *)
(* started again.                                                          *)
(***************************************************************************)
EXTENDS Programs, SequenceTheorems, FiniteSetTheorems, TLAPS

USE ScheduleConstants DEF ScheduleConstants

-----------------------------------------------------------------------------
(* A number is a number of times h and a rest.                             *)
LEMMA Division ==
  ASSUME NEW x \in Int, NEW h \in Nat \ {0}
  PROVE  /\ x \div h \in Int /\ x % h \in 0..h - 1
         /\ x % h = x - h * (x \div h)
  OBVIOUS

(* A time is a number of hours and a place within one.                     *)
LEMMA Place ==
  ASSUME NEW x \in Int
  PROVE  \E q \in Int, r \in 0..Hour - 1 :
           x \div Hour = q /\ x % Hour = r /\ x = Hour * q + r
  <1>1. PICK q \in Int, r \in 0..Hour - 1 :
          x \div Hour = q /\ x % Hour = r /\ r = x - Hour * q
    BY Division
  <1>2. Hour * q \in Int
    OBVIOUS
  <1>3. x = Hour * q + r
    BY <1>1, <1>2
  <1>. QED
    BY <1>1, <1>3

(* Multiples of an hour are an hour apart.                                 *)
LEMMA HoursApart ==
  ASSUME NEW a \in Int, NEW b \in Int, a < b
  PROVE  Hour * a \in Int /\ Hour * b \in Int /\ Hour * b >= Hour * a + Hour
  <1>1. Hour * (b - a - 1) >= 0
    OBVIOUS
  <1>2. Hour * (b - a - 1) = Hour * b - Hour * a - Hour
    OBVIOUS
  <1>. QED
    BY <1>1, <1>2

(* In one way.                                                             *)
LEMMA OnePlace ==
  ASSUME NEW q \in Int, NEW r \in 0..Hour - 1, NEW x \in Int, x = Hour * q + r
  PROVE  x % Hour = r /\ x \div Hour = q
  <1>1. PICK p \in Int, s \in 0..Hour - 1 : /\ p = x \div Hour /\ s = x % Hour
                                            /\ x = Hour * p + s
    BY Place
  <1>2. ~(p < q)
    BY <1>1, HoursApart
  <1>3. ~(q < p)
    BY <1>1, HoursApart
  <1>4. p = q
    BY <1>2, <1>3
  <1>5. Hour * p \in Int
    OBVIOUS
  <1>. QED
    BY <1>1, <1>4, <1>5

(* Whole hours do not move the place within the hour.                      *)
LEMMA WholeHours ==
  ASSUME NEW x \in Int, NEW k \in Int
  PROVE  Hour * k \in Int /\ (x + Hour * k) % Hour = x % Hour
  <1>1. PICK q \in Int, r \in 0..Hour - 1 : /\ q = x \div Hour /\ r = x % Hour
                                            /\ x = Hour * q + r
    BY Place
  <1>2. PICK m \in Int : m = q + k
    OBVIOUS
  <1>3. PICK y \in Int : y = x + Hour * k
    OBVIOUS
  <1>4. Hour * (q + k) = Hour * q + Hour * k /\ Hour * q \in Int /\ Hour * k \in Int
    OBVIOUS
  <1>5. y = Hour * m + r
    BY <1>1, <1>2, <1>3, <1>4
  <1>6. y % Hour = r
    BY <1>5, OnePlace
  <1>. QED
    BY <1>1, <1>3, <1>4, <1>6

(* Nor does the clock's being kept within a pair of hours.                 *)
LEMMA PairOfHours ==
  ASSUME NEW x \in Int
  PROVE  /\ x % (2 * Hour) \in 0 .. 2 * Hour - 1
         /\ \E k \in Int : x % (2 * Hour) = x + Hour * k
  <1>1. 2 * Hour \in Nat \ {0}
    OBVIOUS
  <1>2. PICK q \in Int : q = x \div (2 * Hour) /\ x % (2 * Hour) = x - (2 * Hour) * q
    BY <1>1, Division
  <1>3. (2 * Hour) * q = Hour * (2 * q) /\ Hour * (2 * q) \in Int
    OBVIOUS
  <1>4. Hour * (-(2 * q)) = -(Hour * (2 * q))
    OBVIOUS
  <1>5. x % (2 * Hour) = x + Hour * (-(2 * q)) /\ -(2 * q) \in Int
    BY <1>2, <1>3, <1>4
  <1>6. x % (2 * Hour) \in 0 .. 2 * Hour - 1
    BY <1>1, Division
  <1>. QED
    BY <1>5, <1>6

(* The nearest hour mark is a mark, half an hour away at most, and the one *)
(* before in the first half of an hour.                                    *)
LEMMA RoundMark ==
  ASSUME NEW x \in Int
  PROVE  /\ Schedule!Round(x) \in Int /\ \E m \in Int : Schedule!Round(x) = Hour * m
         /\ 2 * (Schedule!Round(x) - x) <= Hour
         /\ 2 * (x - Schedule!Round(x)) <= Hour
         /\ \A r \in 0..Hour - 1 : r = x % Hour /\ 2 * r < Hour => Schedule!Round(x) = x - r
  <1>1. PICK q \in Int, r \in 0..Hour - 1 : /\ q = x \div Hour /\ r = x % Hour
                                            /\ x = Hour * q + r
    BY Place
  <1>2. PICK y \in Int : y = Hour * q /\ y = q * Hour /\ Hour * (q + 1) = y + Hour
    OBVIOUS
  <1>3. x = y + r /\ (x \div Hour) * Hour = y
    BY <1>1, <1>2
  <1>4. \/ Schedule!Round(x) = y /\ 2 * r <= Hour
        \/ Schedule!Round(x) = y + Hour /\ 2 * r >= Hour
    BY <1>1, <1>2, <1>3 DEF Schedule!Round
  <1>5. Schedule!Round(x) = y \/ Schedule!Round(x) = y + Hour
    BY <1>4
  <1>6. \E m \in Int : Schedule!Round(x) = Hour * m
    <2>1. q \in Int /\ q + 1 \in Int
      OBVIOUS
    <2>. QED
      BY <1>2, <1>5, <2>1
  <1>7. PICK z \in Int : z = Schedule!Round(x)
    BY <1>5
  <1>8. \/ z = y /\ 2 * r <= Hour
        \/ z = y + Hour /\ 2 * r >= Hour
    BY <1>4, <1>7
  <1>9. /\ 2 * (z - x) <= Hour /\ 2 * (x - z) <= Hour
        /\ 2 * r < Hour => z = x - r
    BY <1>3, <1>8
  <1>10. 2 * r < Hour => Schedule!Round(x) = x - r
    BY <1>7, <1>9
  <1>11. 2 * (Schedule!Round(x) - x) <= Hour /\ 2 * (x - Schedule!Round(x)) <= Hour
    BY <1>7, <1>9
  <1>. QED
    BY <1>1, <1>6, <1>7, <1>10, <1>11

-----------------------------------------------------------------------------
(* Time t is r ticks after an hour mark.                                   *)
AfterMark(t, r) == \E m \in Int : t = Hour * m + r

(* The rows, and what the histories remember of them.                      *)
ScheduleRows == [status : Int, gap : Int, due : Int]
Streaks == [kind : Schedule!Outcome, n : 0..3, gap : 1..MAX_GAP]

(* The types of the module, with those of the records.                     *)
ScheduleTypes ==
  /\ Schedule!TypeOK
  /\ row \in [Sources -> ScheduleRows] /\ streak \in [Sources -> Streaks]

(* A time to come is an hour mark.                                         *)
MarkInv == \A s \in Sources : row[s].due > 0 => AfterMark(clock, -row[s].due)

(* The process wakes at an hour mark or a tick after it.                   *)
WakeInv ==
  schedulePc = "select" /\ before # "restart" => \E e \in 0..1 : AfterMark(clock, e)

(* In a pass that is still short, the clock tells how long it has taken,   *)
(* and a source that is not waiting to be fetched is due at the next mark  *)
(* or later.                                                               *)
FetchInv ==
  schedulePc = "fetch" /\ 2 * (took + 1) < Hour =>
    \E e \in 0..1 :
      /\ AfterMark(clock, took + e)
      /\ \A s \in Sources : (\A i \in 1..Len(vrs) : vrs[i] # s)
                              => row[s].due >= Hour - (took + e)

(* The inductive invariant.                                                *)
ScheduleInv ==
  /\ ScheduleTypes /\ Schedule!GapFollowsStreak /\ MarkInv /\ WakeInv /\ FetchInv
  /\ Schedule!OnSchedule

-----------------------------------------------------------------------------
(* As time passes the place within the hour moves with it.                 *)
LEMMA PassMoves ==
  ASSUME NEW t \in Int, NEW r \in Int, NEW d \in Int, AfterMark(t, r)
  PROVE  AfterMark((t + d) % (2 * Hour), r + d)
  <1>1. PICK m \in Int : t = Hour * m + r
    BY DEF AfterMark
  <1>2. PICK x \in Int : x = t + d
    OBVIOUS
  <1>3. PICK k \in Int : x % (2 * Hour) = x + Hour * k
    BY PairOfHours
  <1>4. /\ Hour * m \in Int /\ Hour * k \in Int /\ m + k \in Int
        /\ Hour * (m + k) = Hour * m + Hour * k
    OBVIOUS
  <1>5. x + Hour * k = Hour * (m + k) + (r + d)
    BY <1>1, <1>2, <1>4
  <1>. QED
    BY <1>2, <1>3, <1>4, <1>5 DEF AfterMark

(* A mark to come is at least the next one.                                *)
LEMMA NextMark ==
  ASSUME NEW t \in Int, NEW e \in Nat, NEW u \in Int, u > 0,
         AfterMark(t, e), AfterMark(t, -u)
  PROVE  u >= Hour - e
  <1>1. PICK m \in Int : t = Hour * m + e
    BY DEF AfterMark
  <1>2. PICK n \in Int : t = Hour * n + (-u)
    BY DEF AfterMark
  <1>3. /\ Hour * m \in Int /\ Hour * n \in Int
    OBVIOUS
  <1>4. CASE m < n
    BY <1>1, <1>2, <1>3, <1>4, HoursApart
  <1>5. CASE n < m
    BY <1>1, <1>2, <1>3, <1>5, HoursApart
  <1>6. CASE m = n
    BY <1>1, <1>2, <1>3, <1>6
  <1>. QED
    BY <1>4, <1>5, <1>6

(* In the first half of an hour the nearest mark is the one before.        *)
LEMMA RoundBack ==
  ASSUME NEW x \in Int, NEW r \in Nat, 2 * r < Hour, AfterMark(x, r)
  PROVE  Schedule!Round(x) = x - r
  <1>1. PICK m \in Int : x = Hour * m + r
    BY DEF AfterMark
  <1>2. r \in 0..Hour - 1
    OBVIOUS
  <1>3. x % Hour = r
    BY <1>1, <1>2, OnePlace
  <1>. QED
    BY <1>2, <1>3, RoundMark

(* The nearest mark, seen from the time itself.                            *)
LEMMA RoundIsMark ==
  ASSUME NEW x \in Int
  PROVE  AfterMark(x, -(Schedule!Round(x) - x))
  <1>1. PICK y \in Int, m \in Int : y = Schedule!Round(x) /\ y = Hour * m
    BY RoundMark
  <1>2. Hour * m \in Int
    OBVIOUS
  <1>3. x = Hour * m + (-(y - x))
    BY <1>1, <1>2
  <1>. QED
    BY <1>1, <1>3 DEF AfterMark

(* The limit of due is a number.                                           *)
LEMMA DueLimit == (MAX_GAP + 1) * Hour \in Nat
  OBVIOUS

(* When d ticks have passed, a row is the same but for due, which is d     *)
(* less unless that is beyond the margin.                                  *)
LEMMA LaterRows ==
  ASSUME ScheduleTypes, NEW d \in Nat
  PROVE  /\ Schedule!Later(d) \in [Sources -> ScheduleRows]
         /\ \A s \in Sources :
              /\ Schedule!Later(d)[s].status = row[s].status
              /\ Schedule!Later(d)[s].gap = row[s].gap
              /\ Schedule!Later(d)[s].due >= row[s].due - d
              /\ Schedule!Later(d)[s].due \in -2 .. (MAX_GAP + 1) * Hour
              /\ Schedule!Later(d)[s].due > 0 => Schedule!Later(d)[s].due = row[s].due - d
  <1>1. Schedule!Later(d) \in [Sources -> ScheduleRows]
    BY DEF Schedule!Later, Schedule!MaxOf, Schedule!Margin, ScheduleTypes, ScheduleRows
  <1>2. ASSUME NEW s \in Sources
        PROVE  /\ Schedule!Later(d)[s].status = row[s].status
               /\ Schedule!Later(d)[s].gap = row[s].gap
               /\ Schedule!Later(d)[s].due = IF row[s].due - d > -2 THEN row[s].due - d ELSE -2
    BY DEF Schedule!Later, Schedule!MaxOf, Schedule!Margin, ScheduleTypes, ScheduleRows
  <1>3. ASSUME NEW s \in Sources
        PROVE  /\ Schedule!Later(d)[s].due >= row[s].due - d
               /\ Schedule!Later(d)[s].due \in -2 .. (MAX_GAP + 1) * Hour
               /\ Schedule!Later(d)[s].due > 0 => Schedule!Later(d)[s].due = row[s].due - d
    <2>1. PICK limit \in Nat : limit = (MAX_GAP + 1) * Hour
      BY DueLimit
    <2>2. PICK x \in Int : x = row[s].due /\ x <= limit
      BY <2>1 DEF ScheduleTypes, Schedule!TypeOK, Schedule!Margin
    <2>3. PICK y \in Int : /\ y = Schedule!Later(d)[s].due
                           /\ y = IF x - d > -2 THEN x - d ELSE -2
      BY <1>2, <2>2
    <2>4. y >= x - d /\ y \in -2 .. limit /\ (y > 0 => y = x - d)
      BY <2>2, <2>3
    <2>. QED
      BY <2>1, <2>2, <2>3, <2>4
  <1>. QED
    BY <1>1, <1>2, <1>3

(* What update_2_db makes of a row.                                        *)
LEMMA UpdatedRow ==
  ASSUME NEW r \in ScheduleRows, r.status \in -3..3, r.gap \in 1..MAX_GAP,
         NEW time \in Int, NEW o \in Schedule!Outcome,
         NEW u, u = Schedule!Updated(r, time, o)
  PROVE  /\ u \in ScheduleRows /\ u.status \in -3..3 /\ u.gap \in 1..MAX_GAP
         /\ u.due = Schedule!Round(time + u.gap * Hour) - time
         /\ o = "nothing" => u.gap = r.gap /\ u.status = 0
         /\ o = "failed" =>
              IF r.status = -3 THEN u.gap = Schedule!MinOf(2 * r.gap, MAX_GAP) /\ u.status = 0
              ELSE u.gap = r.gap /\ u.status = IF r.status >= 0 THEN -1 ELSE r.status - 1
         /\ o = "new" =>
              IF r.status = 3 THEN u.gap = Schedule!MaxOf(1, r.gap \div 2) /\ u.status = 0
              ELSE u.gap = r.gap /\ u.status = IF r.status >= 0 THEN r.status + 1 ELSE 1
  <1>1. PICK st : st = Schedule!StatusAfter(r.status, o)
    OBVIOUS
  <1>2. /\ st \in -4..4
        /\ o = "nothing" => st = 0
        /\ o = "failed" => st = IF r.status >= 0 THEN -1 ELSE r.status - 1
        /\ o = "new" => st = IF r.status >= 0 THEN r.status + 1 ELSE 1
    BY <1>1 DEF Schedule!StatusAfter, Schedule!Outcome, Schedule!MaxOf, ScheduleRows
  <1>3. PICK v : v = [r EXCEPT !.status = st]
    OBVIOUS
  <1>4. v \in ScheduleRows /\ v.status = st /\ v.gap = r.gap /\ v.due = r.due
    BY <1>2, <1>3 DEF ScheduleRows
  <1>5. PICK a : a = Schedule!Adjusted(v)
    OBVIOUS
  <1>6. PICK half \in Int : half = r.gap \div 2 /\ half <= r.gap
    <2>1. PICK g \in Int : g = r.gap /\ g >= 1
      BY DEF ScheduleRows
    <2>2. g \div 2 \in Int /\ g % 2 \in 0..1 /\ g % 2 = g - 2 * (g \div 2)
      OBVIOUS
    <2>3. g \div 2 <= g
      BY <2>1, <2>2
    <2>. QED
      BY <2>1, <2>2, <2>3
  <1>7. /\ a \in ScheduleRows
        /\ IF st < -3 THEN a.gap = Schedule!MinOf(2 * r.gap, MAX_GAP) /\ a.status = 0
           ELSE IF st > 3 THEN a.gap = Schedule!MaxOf(1, half) /\ a.status = 0
           ELSE a.gap = r.gap /\ a.status = st
    <2>1. /\ Schedule!MinOf(2 * r.gap, MAX_GAP) = Schedule!MinOf(2 * v.gap, MAX_GAP)
          /\ Schedule!MaxOf(1, half) = Schedule!MaxOf(1, v.gap \div 2)
      BY <1>4, <1>6
    <2>0. PICK double \in Int, less \in Int :
            /\ double = Schedule!MinOf(2 * r.gap, MAX_GAP) /\ less = Schedule!MaxOf(1, half)
            /\ double = Schedule!MinOf(2 * v.gap, MAX_GAP) /\ less = Schedule!MaxOf(1, v.gap \div 2)
      <3>1. Schedule!MinOf(2 * r.gap, MAX_GAP) \in Int /\ Schedule!MaxOf(1, half) \in Int
        BY DEF Schedule!MinOf, Schedule!MaxOf
      <3>. QED
        BY <2>1, <3>1
    <2>2. CASE st < -3
      <3>1. a = [v EXCEPT !.gap = Schedule!MinOf(2 * v.gap, MAX_GAP), !.status = 0]
        BY <1>4, <1>5, <2>2 DEF Schedule!Adjusted
      <3>2. a = [v EXCEPT !.gap = double, !.status = 0]
        BY <2>0, <3>1, Zenon
      <3>3. a = [status |-> 0, gap |-> double, due |-> v.due] /\ v.due \in Int
        BY <1>4, <3>2 DEF ScheduleRows
      <3>4. a \in ScheduleRows /\ a.gap = double /\ a.status = 0
        BY <3>3 DEF ScheduleRows
      <3>. QED
        BY <2>2, <2>0, <3>4
    <2>3. CASE ~(st < -3) /\ st > 3
      <3>1. a = [v EXCEPT !.gap = Schedule!MaxOf(1, v.gap \div 2), !.status = 0]
        BY <1>4, <1>5, <2>3 DEF Schedule!Adjusted
      <3>2. a = [v EXCEPT !.gap = less, !.status = 0]
        BY <2>0, <3>1, Zenon
      <3>3. a = [status |-> 0, gap |-> less, due |-> v.due] /\ v.due \in Int
        BY <1>4, <3>2 DEF ScheduleRows
      <3>4. a \in ScheduleRows /\ a.gap = less /\ a.status = 0
        BY <3>3 DEF ScheduleRows
      <3>. QED
        BY <2>3, <2>0, <3>4
    <2>4. CASE ~(st < -3) /\ ~(st > 3)
      BY <1>4, <1>5, <2>4 DEF Schedule!Adjusted
    <2>. QED
      BY <2>2, <2>3, <2>4
  <1>8. u = [a EXCEPT !.due = Schedule!NextExecute(time, a.gap) - time]
    BY <1>1, <1>3, <1>5 DEF Schedule!Updated
  <1>9. a.gap * Hour \in Int /\ time + a.gap * Hour \in Int /\ a.gap \in Int
    BY <1>7 DEF ScheduleRows
  <1>10. Schedule!NextExecute(time, a.gap) \in Int
    BY <1>9, RoundMark DEF Schedule!NextExecute
  <1>11. /\ u \in ScheduleRows /\ u.gap = a.gap /\ u.status = a.status
         /\ u.due = Schedule!Round(time + u.gap * Hour) - time
    BY <1>7, <1>8, <1>10 DEF ScheduleRows, Schedule!NextExecute
  <1>12. u.status \in -3..3 /\ u.gap \in 1..MAX_GAP
    BY <1>2, <1>6, <1>7, <1>11 DEF Schedule!MinOf, Schedule!MaxOf
  <1>. QED
    BY <1>2, <1>6, <1>7, <1>11, <1>12

(* The status with its resets counts the run of equal outcomes.            *)
CountsRun(status, k) ==
  status = CASE k.kind = "failed"  -> -k.n
             [] k.kind = "new"     -> k.n
             [] k.kind = "nothing" -> 0

(* An update keeps the gap and the status of a row in step with the run.   *)
LEMMA StreakStep ==
  ASSUME NEW r \in ScheduleRows, NEW k \in Streaks, r.gap = k.gap, CountsRun(r.status, k),
         NEW time \in Int, NEW o \in Schedule!Outcome,
         NEW u, u = Schedule!Updated(r, time, o),
         NEW w, w = Schedule!StreakAfter(k, o)
  PROVE  w \in Streaks /\ u.gap = w.gap /\ CountsRun(u.status, w)
  <1>1. /\ k.kind \in Schedule!Outcome /\ k.n \in 0..3 /\ k.gap \in 1..MAX_GAP
        /\ r.status \in -3..3 /\ r.gap \in 1..MAX_GAP
        /\ k.kind = "nothing" => r.status = 0
        /\ k.kind = "failed" => r.status = -k.n
        /\ k.kind = "new" => r.status = k.n
    BY DEF Streaks, CountsRun, Schedule!Outcome
  <1>2. /\ u \in ScheduleRows /\ u.gap \in 1..MAX_GAP
        /\ o = "nothing" => u.gap = r.gap /\ u.status = 0
        /\ o = "failed" =>
             IF r.status = -3 THEN u.gap = Schedule!MinOf(2 * r.gap, MAX_GAP) /\ u.status = 0
             ELSE u.gap = r.gap /\ u.status = IF r.status >= 0 THEN -1 ELSE r.status - 1
        /\ o = "new" =>
             IF r.status = 3 THEN u.gap = Schedule!MaxOf(1, r.gap \div 2) /\ u.status = 0
             ELSE u.gap = r.gap /\ u.status = IF r.status >= 0 THEN r.status + 1 ELSE 1
    BY <1>1, UpdatedRow
  <1>3. (k.n + 1) % 4 = IF k.n = 3 THEN 0 ELSE k.n + 1
    BY <1>1
  <1>4. PICK n \in 0..3 : /\ n = IF o = k.kind THEN (k.n + 1) % 4 ELSE 1
                          /\ n = IF o = k.kind THEN IF k.n = 3 THEN 0 ELSE k.n + 1 ELSE 1
    BY <1>1, <1>3
  <1>5. CASE o = "nothing"
    <2>1. w = [kind |-> "nothing", n |-> 0, gap |-> k.gap]
      BY <1>5 DEF Schedule!StreakAfter
    <2>2. w.kind = "nothing" /\ w.gap = k.gap /\ w \in Streaks
      BY <1>1, <2>1 DEF Streaks, Schedule!Outcome
    <2>. QED
      BY <1>2, <1>5, <2>2 DEF CountsRun
  <1>6. CASE o = "failed"
    <2>1. w = [kind |-> "failed", n |-> n,
               gap |-> IF n # 0 THEN k.gap ELSE Schedule!MinOf(2 * k.gap, MAX_GAP)]
      BY <1>4, <1>6 DEF Schedule!StreakAfter
    <2>2. n = 0 <=> r.status = -3
      BY <1>1, <1>4, <1>6 DEF Schedule!Outcome
    <2>3. w.kind = "failed" /\ w.n = n /\ w.gap = u.gap
      BY <1>1, <1>2, <1>6, <2>1, <2>2
    <2>4. w \in Streaks
      BY <1>2, <2>1, <2>3 DEF Streaks, Schedule!Outcome
    <2>5. u.status = -n
      BY <1>1, <1>2, <1>4, <1>6, <2>2 DEF Schedule!Outcome
    <2>. QED
      BY <2>3, <2>4, <2>5 DEF CountsRun
  <1>7. CASE o = "new"
    <2>1. w = [kind |-> "new", n |-> n,
               gap |-> IF n # 0 THEN k.gap ELSE Schedule!MaxOf(1, k.gap \div 2)]
      BY <1>4, <1>7 DEF Schedule!StreakAfter
    <2>2. n = 0 <=> r.status = 3
      BY <1>1, <1>4, <1>7 DEF Schedule!Outcome
    <2>3. w.kind = "new" /\ w.n = n /\ w.gap = u.gap
      BY <1>1, <1>2, <1>7, <2>1, <2>2
    <2>4. w \in Streaks
      BY <1>2, <2>1, <2>3 DEF Streaks, Schedule!Outcome
    <2>5. u.status = n
      BY <1>1, <1>2, <1>4, <1>7, <2>2 DEF Schedule!Outcome
    <2>. QED
      BY <2>3, <2>4, <2>5 DEF CountsRun
  <1>. QED
    BY <1>5, <1>6, <1>7 DEF Schedule!Outcome

-----------------------------------------------------------------------------
(* The rows and the clock, without what main() is doing.                   *)
RowsInv ==
  /\ clock \in 0 .. 2 * Hour - 1
  /\ row \in [Sources -> ScheduleRows] /\ streak \in [Sources -> Streaks]
  /\ \A s \in Sources : /\ row[s].status \in -3..3 /\ row[s].gap \in 1..MAX_GAP
                        /\ row[s].due \in -2 .. (MAX_GAP + 1) * Hour
  /\ Schedule!GapFollowsStreak
  /\ MarkInv

(* RowsInv is the part of the invariant about the rows.                    *)
LEMMA RowsPart == ScheduleInv => RowsInv
  BY DEF ScheduleInv, ScheduleTypes, Schedule!TypeOK, Schedule!Margin, RowsInv

(* The clock after d ticks.                                                *)
LEMMA ClockMoves ==
  ASSUME RowsInv, NEW d \in Int, Schedule!Pass(d)
  PROVE  /\ clock' \in 0 .. 2 * Hour - 1
         /\ \A r \in Int : AfterMark(clock, r) => AfterMark(clock', r + d)
  <1>1. clock \in Int /\ clock + d \in Int /\ clock' = (clock + d) % (2 * Hour)
    BY DEF RowsInv, Schedule!Pass
  <1>2. clock' \in 0 .. 2 * Hour - 1
    BY <1>1, PairOfHours
  <1>3. \A r \in Int : AfterMark(clock, r) => AfterMark(clock', r + d)
    BY <1>1, PassMoves
  <1>. QED
    BY <1>2, <1>3

(* The rows while nothing but time happens.                                *)
LEMMA TimePasses ==
  ASSUME ScheduleInv, NEW d \in Nat, Schedule!Pass(d), row' = Schedule!Later(d),
         UNCHANGED streak
  PROVE  RowsInv'
  <1>1. RowsInv /\ ScheduleTypes
    BY RowsPart DEF ScheduleInv
  <1>2. clock' \in 0 .. 2 * Hour - 1
    BY <1>1, ClockMoves
  <1>3. /\ row' \in [Sources -> ScheduleRows] /\ streak' \in [Sources -> Streaks]
        /\ \A s \in Sources : /\ row'[s].status = row[s].status /\ row'[s].gap = row[s].gap
                              /\ row'[s].due \in -2 .. (MAX_GAP + 1) * Hour
                              /\ row'[s].due > 0 => row'[s].due = row[s].due - d
    BY <1>1, LaterRows DEF RowsInv
  <1>4. Schedule!GapFollowsStreak'
    BY <1>1, <1>3 DEF RowsInv, Schedule!GapFollowsStreak
  <1>5. MarkInv'
    <2>. SUFFICES ASSUME NEW s \in Sources, row'[s].due > 0
                  PROVE  AfterMark(clock', -row'[s].due)
      BY DEF MarkInv, AfterMark
    <2>1. PICK u \in Int : u = row[s].due /\ row'[s].due = u - d /\ u > 0
      BY <1>1, <1>3 DEF RowsInv, ScheduleRows
    <2>2. AfterMark(clock, -u)
      BY <1>1, <2>1 DEF RowsInv, MarkInv
    <2>3. AfterMark(clock', (-u) + d)
      BY <1>1, <2>2, ClockMoves
    <2>4. (-u) + d = -(u - d)
      OBVIOUS
    <2>. QED
      BY <2>1, <2>3, <2>4
  <1>. QED
    BY <1>1, <1>2, <1>3, <1>4, <1>5 DEF RowsInv

(* The invariant after a step, from its parts.                             *)
LEMMA ScheduleParts ==
  ASSUME RowsInv', schedulePc' \in {"select", "fetch", "down"}, vrs' \in Seq(Sources),
         took' \in 0..Hour, before' \in {"restart", "long", "short"},
         WakeInv', FetchInv', Schedule!OnSchedule'
  PROVE  ScheduleInv'
  BY DEF ScheduleInv, ScheduleTypes, Schedule!TypeOK, Schedule!Margin, RowsInv

(* The variables of main() have their types.                               *)
LEMMA MainTypes ==
  ASSUME ScheduleInv
  PROVE  /\ schedulePc \in {"select", "fetch", "down"} /\ vrs \in Seq(Sources)
         /\ took \in 0..Hour /\ before \in {"restart", "long", "short"}
         /\ clock \in Int
  BY DEF ScheduleInv, ScheduleTypes, Schedule!TypeOK

(* Every due source is selected, in a sequence of sources.                 *)
LEMMA Selected ==
  ASSUME RowsInv, NEW v \in Schedule!AllRowsOf(Schedule!DueSources)
  PROVE  /\ v \in Seq(Sources)
         /\ \A s \in Sources : row[s].due <= 0 => \E i \in 1..Len(v) : v[i] = s
  <1>1. Schedule!DueSources \subseteq Sources /\ IsFiniteSet(Schedule!DueSources)
    <2>1. Schedule!DueSources \subseteq Sources
      BY DEF Schedule!DueSources
    <2>. QED
      BY <2>1, FS_Subset
  <1>2. PICK c \in Nat : c = Schedule!Cardinality(Schedule!DueSources)
    <2>1. Schedule!Cardinality(Schedule!DueSources) = Cardinality(Schedule!DueSources)
      BY DEF Schedule!Cardinality, Cardinality
    <2>. QED
      BY <1>1, <2>1, FS_CardinalityType
  <1>3. v \in [1..c -> Schedule!DueSources]
    BY <1>2 DEF Schedule!AllRowsOf
  <1>4. v \in Seq(Sources) /\ Len(v) = c /\ DOMAIN v = 1..c
    <2>1. v \in [1..c -> Sources]
      BY <1>1, <1>3
    <2>2. v \in Seq(Sources)
      BY <2>1
    <2>. QED
      BY <2>1, <2>2
  <1>5. \A s \in Schedule!DueSources : \E i \in DOMAIN v : v[i] = s
    BY DEF Schedule!AllRowsOf
  <1>. QED
    BY <1>4, <1>5 DEF Schedule!DueSources

(* getRssSources: what it leaves out is due at the next mark or later.     *)
LEMMA SelectStep ==
  ASSUME ScheduleInv, Schedule!Select
  PROVE  ScheduleInv'
  <1>0. /\ schedulePc = "select" /\ schedulePc' = "fetch"
        /\ vrs' \in Schedule!AllRowsOf(Schedule!DueSources)
        /\ took' = (IF before = "restart" THEN Hour ELSE 0)
        /\ clock' = clock /\ row' = row /\ before' = before /\ streak' = streak
    BY DEF Schedule!Select
  <1>1. RowsInv /\ RowsInv'
    BY <1>0, RowsPart DEF RowsInv, MarkInv, AfterMark, Schedule!GapFollowsStreak
  <1>2. /\ vrs' \in Seq(Sources)
        /\ \A s \in Sources : row[s].due <= 0 => \E i \in 1..Len(vrs') : vrs'[i] = s
    BY <1>0, <1>1, Selected
  <1>3. took' \in 0..Hour /\ before' \in {"restart", "long", "short"}
    BY <1>0, MainTypes
  <1>4. FetchInv'
    <2>. SUFFICES ASSUME 2 * (took' + 1) < Hour
                  PROVE  FetchInv'
      BY DEF FetchInv
    <2>1. before # "restart" /\ took' = 0
      BY <1>0
    <2>2. PICK e \in 0..1 : AfterMark(clock, e)
      BY <1>0, <2>1 DEF ScheduleInv, WakeInv
    <2>3. ASSUME NEW s \in Sources, \A i \in 1..Len(vrs') : vrs'[i] # s
          PROVE  row[s].due >= Hour - e
      <3>1. row[s].due > 0 /\ row[s].due \in Int
        <4>1. ~(row[s].due <= 0)
          BY <1>2, <2>3
        <4>2. row[s].due \in Int
          BY <1>1 DEF RowsInv, ScheduleRows
        <4>. QED
          BY <4>1, <4>2
      <3>2. AfterMark(clock, -row[s].due)
        BY <1>1, <3>1 DEF RowsInv, MarkInv
      <3>3. PICK u \in Int : u = row[s].due
        BY <3>1
      <3>. QED
        <4>1. u > 0 /\ AfterMark(clock, -u)
          BY <3>1, <3>2, <3>3
        <4>2. clock \in Int /\ e \in Nat
          BY MainTypes
        <4>3. u >= Hour - e
          BY <2>2, <4>1, <4>2, NextMark
        <4>. QED
          BY <3>3, <4>3
    <2>4. took' + e = e
      BY <2>1
    <2>5. AfterMark(clock', took' + e)
      BY <1>0, <2>2, <2>4
    <2>. QED
      BY <1>0, <2>3, <2>4, <2>5 DEF FetchInv, AfterMark
  <1>. QED
    BY <1>0, <1>1, <1>2, <1>3, <1>4, ScheduleParts DEF WakeInv, Schedule!OnSchedule

(* An exception ends the process: nothing of the database changes.         *)
LEMMA TerminateStep ==
  ASSUME ScheduleInv, Schedule!Terminate
  PROVE  ScheduleInv'
  <1>0. /\ schedulePc' = "down" /\ vrs' = <<>>
        /\ clock' = clock /\ row' = row /\ took' = took /\ before' = before
        /\ streak' = streak
    BY DEF Schedule!Terminate
  <1>1. RowsInv'
    BY <1>0, RowsPart DEF RowsInv, MarkInv, AfterMark, Schedule!GapFollowsStreak
  <1>2. took' \in 0..Hour /\ before' \in {"restart", "long", "short"} /\ vrs' \in Seq(Sources)
    BY <1>0, MainTypes
  <1>. QED
    BY <1>0, <1>1, <1>2, ScheduleParts DEF WakeInv, FetchInv, Schedule!OnSchedule

(* The first pass after a restart promises nothing about lateness.         *)
LEMMA RestartStep ==
  ASSUME ScheduleInv, NEW d \in 0..MaxDown, Schedule!Restart(d)
  PROVE  ScheduleInv'
  <1>0. /\ schedulePc' = "select" /\ before' = "restart" /\ vrs' = vrs /\ took' = took
        /\ streak' = streak /\ Schedule!Pass(d) /\ row' = Schedule!Later(d) /\ d \in Nat
    BY DEF Schedule!Restart
  <1>1. RowsInv'
    BY <1>0, TimePasses
  <1>2. took' \in 0..Hour /\ vrs' \in Seq(Sources)
    BY <1>0, MainTypes
  <1>. QED
    BY <1>0, <1>1, <1>2, ScheduleParts DEF WakeInv, FetchInv, Schedule!OnSchedule

(* sleep_to_next_hour: it ends at a mark or a tick later, and after a      *)
(* short pass at the very next one, for which every source has waited.     *)
LEMMA SleepStep ==
  ASSUME ScheduleInv, NEW loss \in 0..1, Schedule!SleepToNextHour(loss)
  PROVE  ScheduleInv'
  <1>1. PICK x \in Int : x = clock + Hour
    BY MainTypes
  <1>2. PICK y \in Int : y = Schedule!Round(x) /\ 2 * (x - y) <= Hour
    BY RoundMark
  <1>3. PICK d \in Nat : d = Schedule!Round(clock + Hour) + Schedule!Margin - clock - loss
                         /\ d = y + 1 - clock - loss
    <2>0. clock \in Int
      BY MainTypes
    <2>1. y + 1 - clock - loss \in Nat
      <3>1. 2 * (y - clock) >= Hour
        BY <1>1, <1>2, <2>0
      <3>. QED
        BY <2>0, <3>1
    <2>2. y = Schedule!Round(clock + Hour)
      BY <1>1, <1>2
    <2>. QED
      BY <2>1, <2>2 DEF Schedule!Margin
  <1>4. /\ schedulePc = "fetch" /\ vrs = <<>> /\ schedulePc' = "select"
        /\ before' = (IF 2 * (took + 1) < Hour THEN "short" ELSE "long")
        /\ vrs' = vrs /\ took' = took /\ streak' = streak
        /\ Schedule!Pass(d) /\ row' = Schedule!Later(d)
    BY <1>3 DEF Schedule!SleepToNextHour, Schedule!Margin
  <1>5. RowsInv /\ RowsInv'
    BY <1>4, TimePasses, RowsPart
  <1>6. WakeInv'
    <2>1. AfterMark(x, -(y - x))
      BY <1>2, RoundIsMark
    <2>2. AfterMark(clock, -(y - clock))
      <3>1. PICK m \in Int : x = Hour * m + (-(y - x))
        BY <2>1 DEF AfterMark
      <3>2. Hour * m \in Int
        OBVIOUS
      <3>3. Hour * m = y
        BY <3>1, <3>2
      <3>4. clock = Hour * m + (-(y - clock))
        BY <3>2, <3>3, MainTypes
      <3>. QED
        BY <3>4 DEF AfterMark
    <2>3. AfterMark(clock', -(y - clock) + d)
      BY <1>4, <1>5, <2>2, ClockMoves, MainTypes
    <2>4. -(y - clock) + d = 1 - loss /\ 1 - loss \in 0..1
      BY <1>3, MainTypes
    <2>. QED
      BY <2>3, <2>4 DEF WakeInv, AfterMark
  <1>7. Schedule!OnSchedule'
    <2>. SUFFICES ASSUME 2 * (took + 1) < Hour, NEW s \in Sources
                  PROVE  row'[s].due >= -1
      BY <1>4 DEF Schedule!OnSchedule, Schedule!Margin
    <2>1. PICK e \in 0..1 : AfterMark(clock, took + e) /\ row[s].due >= Hour - (took + e)
      BY <1>4 DEF ScheduleInv, FetchInv
    <2>2. PICK r \in Nat : r = took + e /\ 2 * r < Hour
      BY MainTypes
    <2>3. AfterMark(x, r)
      <3>1. PICK m \in Int : clock = Hour * m + r
        BY <2>1, <2>2 DEF AfterMark
      <3>2. Hour * m \in Int /\ Hour * (m + 1) = Hour * m + Hour /\ m + 1 \in Int
        OBVIOUS
      <3>3. x = Hour * (m + 1) + r
        BY <1>1, <3>1, <3>2
      <3>. QED
        BY <3>2, <3>3 DEF AfterMark
    <2>4. y = x - r
      BY <1>2, <2>2, <2>3, RoundBack
    <2>5. PICK u \in Int : u = row[s].due /\ u >= Hour - r /\ row'[s].due \in Int
                           /\ row'[s].due >= u - d
      <3>1. row[s].due \in Int /\ row'[s].due \in Int
        BY <1>5 DEF RowsInv, ScheduleRows
      <3>2. row'[s].due >= row[s].due - d
        BY <1>4, LaterRows DEF ScheduleInv
      <3>. QED
        BY <2>1, <2>2, <3>1, <3>2
    <2>6. u - d >= -1
      <3>1. clock \in Int
        BY MainTypes
      <3>2. d = Hour - r + 1 - loss
        BY <1>1, <1>3, <2>4, <3>1
      <3>. QED
        BY <2>5, <3>2
    <2>. QED
      BY <2>5, <2>6
  <1>. QED
    BY <1>4, <1>5, <1>6, <1>7, MainTypes, ScheduleParts DEF FetchInv

(* gap hours from now, rounded, is a mark to come within the limit; seen   *)
(* from the first half of an hour it is the next mark or a later one.      *)
LEMMA NextExecuteMark ==
  ASSUME NEW time \in Int, NEW g \in 1..MAX_GAP,
         NEW z, z = Schedule!Round(time + g * Hour) - time
  PROVE  /\ z \in 1 .. (MAX_GAP + 1) * Hour /\ AfterMark(time, -z)
         /\ \A r \in Nat : 2 * r < Hour /\ AfterMark(time, r) => z >= Hour - r
  <1>1. PICK y \in Int : y = g * Hour /\ y = Hour * g
    OBVIOUS
  <1>2. y >= Hour /\ y + Hour <= (MAX_GAP + 1) * Hour
    <2>1. 0 \in Int /\ g \in Int /\ MAX_GAP + 1 \in Int /\ 0 < g /\ g < MAX_GAP + 1
      OBVIOUS
    <2>2. Hour * 0 = 0 /\ Hour * (MAX_GAP + 1) = (MAX_GAP + 1) * Hour
      OBVIOUS
    <2>3. Hour * g >= Hour * 0 + Hour /\ Hour * (MAX_GAP + 1) >= Hour * g + Hour
      BY <2>1, HoursApart
    <2>. QED
      BY <1>1, <2>2, <2>3, DueLimit
  <1>3. PICK x \in Int : x = time + y
    OBVIOUS
  <1>4. PICK t \in Int, m \in Int :
          t = Schedule!Round(x) /\ t = Hour * m /\ 2 * (t - x) <= Hour /\ 2 * (x - t) <= Hour
    BY RoundMark
  <1>5. z = t - time
    BY <1>1, <1>3, <1>4
  <1>6. z \in 1 .. (MAX_GAP + 1) * Hour
    BY <1>2, <1>3, <1>4, <1>5, DueLimit
  <1>7. AfterMark(time, -z)
    <2>1. time = Hour * m + (-z)
      BY <1>4, <1>5
    <2>. QED
      BY <2>1 DEF AfterMark
  <1>8. ASSUME NEW r \in Nat, 2 * r < Hour, AfterMark(time, r)
        PROVE  z >= Hour - r
    <2>1. PICK k \in Int : time = Hour * k + r
      BY <1>8 DEF AfterMark
    <2>2. /\ Hour * k \in Int /\ Hour * g \in Int /\ k + g \in Int
          /\ Hour * (k + g) = Hour * k + Hour * g
      OBVIOUS
    <2>3. x = Hour * (k + g) + r
      BY <1>1, <1>3, <2>1, <2>2
    <2>4. AfterMark(x, r)
      BY <2>2, <2>3 DEF AfterMark
    <2>5. t = x - r
      BY <1>4, <1>8, <2>4, RoundBack
    <2>. QED
      BY <1>2, <1>3, <1>5, <2>5
  <1>. QED
    BY <1>6, <1>7, <1>8

(* A fetch and its update: the row of the source moves on by its gap, the  *)
(* others grow older.                                                      *)
LEMMA FetchStep ==
  ASSUME ScheduleInv, NEW d \in 0..MaxFetch, NEW o \in Schedule!Outcome,
         Schedule!FetchAndUpdate(d, o)
  PROVE  ScheduleInv'
  <1>1. RowsInv /\ ScheduleTypes /\ d \in Nat /\ clock \in Int /\ took \in 0..Hour
    BY RowsPart, MainTypes DEF ScheduleInv
  <1>2. PICK h : h = Head(vrs)
    OBVIOUS
  <1>3. PICK u : u = Schedule!Updated(row[h], clock + d, o)
    OBVIOUS
  <1>4. PICK w : w = Schedule!StreakAfter(streak[h], o)
    OBVIOUS
  <1>5. /\ schedulePc = "fetch" /\ vrs # <<>> /\ schedulePc' = "fetch" /\ before' = before
        /\ vrs' = Tail(vrs) /\ Schedule!Pass(d) /\ took' = Schedule!MinOf(took + d, Hour)
    BY DEF Schedule!FetchAndUpdate
  <1>6. /\ row' = [Schedule!Later(d) EXCEPT ![h] = u]
        /\ streak' = [streak EXCEPT ![h] = w]
    BY <1>2, <1>3, <1>4 DEF Schedule!FetchAndUpdate
  <1>7. /\ h \in Sources /\ vrs' \in Seq(Sources)
        /\ \A s \in Sources : (\A i \in 1..Len(vrs') : vrs'[i] # s)
                                => s = h \/ \A i \in 1..Len(vrs) : vrs[i] # s
    <2>1. vrs \in Seq(Sources) /\ vrs # <<>>
      BY <1>5, MainTypes
    <2>2. h \in Sources /\ h = vrs[1] /\ vrs' \in Seq(Sources)
      BY <1>2, <1>5, <2>1
    <2>3. ASSUME NEW s \in Sources, \A i \in 1..Len(vrs') : vrs'[i] # s, s # h,
                 NEW i \in 1..Len(vrs)
          PROVE  vrs[i] # s
      <3>1. CASE i = 1
        BY <2>2, <2>3, <3>1
      <3>2. CASE i # 1
        <4>1. i - 1 \in 1..Len(vrs') /\ vrs'[i - 1] = vrs[i]
          BY <1>5, <2>1, <3>2
        <4>. QED
          BY <2>3, <4>1
      <3>. QED
        BY <3>1, <3>2
    <2>. QED
      BY <2>2, <2>3
  <1>8. PICK time \in Int : time = clock + d
    BY <1>1
  <1>9. /\ row[h] \in ScheduleRows /\ row[h].status \in -3..3 /\ row[h].gap \in 1..MAX_GAP
        /\ streak[h] \in Streaks /\ row[h].gap = streak[h].gap
        /\ CountsRun(row[h].status, streak[h])
    BY <1>1, <1>7 DEF RowsInv, Schedule!GapFollowsStreak, CountsRun
  <1>10. /\ u \in ScheduleRows /\ u.status \in -3..3 /\ u.gap \in 1..MAX_GAP
         /\ u.due = Schedule!Round(time + u.gap * Hour) - time
    BY <1>3, <1>8, <1>9, UpdatedRow
  <1>11. w \in Streaks /\ u.gap = w.gap /\ CountsRun(u.status, w)
    BY <1>3, <1>4, <1>8, <1>9, StreakStep
  <1>12. PICK z \in Int : /\ z = u.due /\ z \in 1 .. (MAX_GAP + 1) * Hour /\ AfterMark(time, -z)
                          /\ \A r \in Nat : 2 * r < Hour /\ AfterMark(time, r) => z >= Hour - r
    <2>1. PICK g \in 1..MAX_GAP, z \in Int : g = u.gap /\ z = u.due
      BY <1>10 DEF ScheduleRows
    <2>2. z = Schedule!Round(time + g * Hour) - time
      BY <1>10, <2>1, Zenon
    <2>. QED
      BY <2>1, <2>2, NextExecuteMark
  <1>13. /\ row' \in [Sources -> ScheduleRows] /\ streak' \in [Sources -> Streaks]
         /\ row'[h] = u /\ streak'[h] = w
         /\ \A s \in Sources \ {h} : row'[s] = Schedule!Later(d)[s] /\ streak'[s] = streak[s]
    BY <1>1, <1>6, <1>7, <1>10, <1>11, LaterRows DEF RowsInv
  <1>14. /\ clock' \in 0 .. 2 * Hour - 1
         /\ \A r \in Int : AfterMark(clock, r) => AfterMark(clock', r + d)
    BY <1>1, <1>5, ClockMoves
  <1>15. \A s \in Sources \ {h} :
           /\ row'[s].status = row[s].status /\ row'[s].gap = row[s].gap
           /\ row'[s].due \in -2 .. (MAX_GAP + 1) * Hour
           /\ row'[s].due >= row[s].due - d
           /\ row'[s].due > 0 => row'[s].due = row[s].due - d
    BY <1>1, <1>13, LaterRows
  <1>16. MarkInv'
    <2>. SUFFICES ASSUME NEW s \in Sources, row'[s].due > 0
                  PROVE  AfterMark(clock', -row'[s].due)
      BY DEF MarkInv, AfterMark
    <2>1. CASE s = h
      <3>1. PICK m \in Int : time = Hour * m + (-z)
        BY <1>12 DEF AfterMark
      <3>2. Hour * m \in Int
        OBVIOUS
      <3>3. clock = Hour * m + (-z - d)
        BY <1>1, <1>8, <3>1, <3>2
      <3>4. AfterMark(clock, -z - d)
        BY <3>3 DEF AfterMark
      <3>5. -z - d \in Int /\ (-z - d) + d = -z
        BY <1>1
      <3>6. AfterMark(clock', -z)
        BY <1>14, <3>4, <3>5
      <3>. QED
        BY <1>12, <1>13, <2>1, <3>6
    <2>2. CASE s # h
      <3>1. PICK a \in Int : a = row[s].due /\ row'[s].due = a - d /\ a > 0
        BY <1>1, <1>15, <2>2 DEF RowsInv, ScheduleRows
      <3>2. AfterMark(clock, -a)
        BY <1>1, <3>1 DEF RowsInv, MarkInv
      <3>3. AfterMark(clock', (-a) + d) /\ (-a) + d = -(a - d)
        BY <1>1, <1>14, <3>2
      <3>. QED
        BY <3>1, <3>3
    <2>. QED
      BY <2>1, <2>2
  <1>17. Schedule!GapFollowsStreak'
    <2>1. CountsRun(row'[h].status, streak'[h]) /\ row'[h].gap = streak'[h].gap
      BY <1>11, <1>13
    <2>2. \A s \in Sources \ {h} : /\ row'[s].gap = streak'[s].gap
                                   /\ CountsRun(row'[s].status, streak'[s])
      BY <1>1, <1>13, <1>15 DEF RowsInv, Schedule!GapFollowsStreak, CountsRun
    <2>. QED
      BY <2>1, <2>2 DEF Schedule!GapFollowsStreak, CountsRun
  <1>18. RowsInv'
    <2>1. \A s \in Sources : /\ row'[s].status \in -3..3 /\ row'[s].gap \in 1..MAX_GAP
                             /\ row'[s].due \in -2 .. (MAX_GAP + 1) * Hour
      <3>1. \A s \in Sources \ {h} :
              /\ row'[s].status \in -3..3 /\ row'[s].gap \in 1..MAX_GAP
              /\ row'[s].due \in -2 .. (MAX_GAP + 1) * Hour
        BY <1>1, <1>15 DEF RowsInv
      <3>2. /\ row'[h].status \in -3..3 /\ row'[h].gap \in 1..MAX_GAP
            /\ row'[h].due \in -2 .. (MAX_GAP + 1) * Hour
        BY <1>10, <1>12, <1>13, DueLimit
      <3>. QED
        BY <3>1, <3>2
    <2>. QED
      BY <1>13, <1>14, <1>16, <1>17, <2>1 DEF RowsInv
  <1>19. FetchInv'
    <2>. SUFFICES ASSUME 2 * (took' + 1) < Hour
                  PROVE  FetchInv'
      BY DEF FetchInv
    <2>1. took' = took + d /\ 2 * (took + 1) < Hour
      BY <1>1, <1>5 DEF Schedule!MinOf
    <2>2. PICK e \in 0..1 :
            /\ AfterMark(clock, took + e)
            /\ \A s \in Sources : (\A i \in 1..Len(vrs) : vrs[i] # s)
                                    => row[s].due >= Hour - (took + e)
      BY <1>5, <2>1 DEF ScheduleInv, FetchInv
    <2>3. PICK r \in Nat : r = took' + e /\ 2 * r < Hour /\ r = (took + e) + d
      BY <1>1, <2>1
    <2>4. AfterMark(clock', r)
      <3>1. took + e \in Int
        BY <1>1
      <3>. QED
        BY <1>14, <2>2, <2>3, <3>1
    <2>5. AfterMark(time, r)
      <3>1. PICK m \in Int : clock = Hour * m + (took + e)
        BY <2>2 DEF AfterMark
      <3>2. PICK y \in Int : y = Hour * m
        OBVIOUS
      <3>3. PICK c \in Int : c = took + e /\ r = c + d
        BY <1>1, <2>3
      <3>4. time = y + r
        BY <1>1, <1>8, <3>1, <3>2, <3>3
      <3>5. time = Hour * m + r
        BY <3>2, <3>4
      <3>. QED
        BY <3>5 DEF AfterMark
    <2>6. ASSUME NEW s \in Sources, \A i \in 1..Len(vrs') : vrs'[i] # s
          PROVE  row'[s].due >= Hour - r
      <3>1. CASE s = h
        BY <1>12, <1>13, <2>3, <2>5, <3>1
      <3>2. CASE s # h
        <4>1. \A i \in 1..Len(vrs) : vrs[i] # s
          BY <1>7, <2>6, <3>2
        <4>2. PICK a \in Int, b \in Int : a = row[s].due /\ b = row'[s].due /\ b >= a - d
                                          /\ a >= Hour - (took + e)
          BY <1>1, <1>13, <1>15, <2>2, <3>2, <4>1 DEF RowsInv, ScheduleRows
        <4>. QED
          BY <1>1, <2>3, <4>2
      <3>. QED
        BY <3>1, <3>2
    <2>. QED
      BY <2>3, <2>4, <2>6 DEF FetchInv, AfterMark
  <1>20. took' \in 0..Hour /\ before' \in {"restart", "long", "short"}
    BY <1>1, <1>5, MainTypes DEF Schedule!MinOf
  <1>. QED
    BY <1>5, <1>7, <1>18, <1>19, <1>20, ScheduleParts DEF WakeInv, Schedule!OnSchedule

(* The start: every source is due, and none has been fetched.              *)
LEMMA ScheduleStart ==
  ASSUME Schedule!Init
  PROVE  ScheduleInv
  <1>1. /\ clock \in 0 .. 2 * Hour - 1 /\ schedulePc = "select" /\ vrs = <<>>
        /\ took = Hour /\ before = "restart"
        /\ row = [s \in Sources |-> [status |-> 0, gap |-> 1, due |-> 0]]
        /\ streak = [s \in Sources |-> [kind |-> "nothing", n |-> 0, gap |-> 1]]
    BY DEF Schedule!Init
  <1>2. vrs \in Seq(Sources) /\ took \in 0..Hour
    BY <1>1
  <1>3. row \in [Sources -> ScheduleRows] /\ streak \in [Sources -> Streaks]
    BY <1>1 DEF ScheduleRows, Streaks, Schedule!Outcome
  <1>4. \A s \in Sources : /\ row[s].status = 0 /\ row[s].gap = 1 /\ row[s].due = 0
                           /\ streak[s].kind = "nothing" /\ streak[s].gap = 1
    BY <1>1
  <1>5. \A s \in Sources : /\ row[s].status \in -3..3 /\ row[s].gap \in 1..MAX_GAP
                           /\ row[s].due \in -2 .. (MAX_GAP + 1) * Hour
    BY <1>4, DueLimit
  <1>6. Schedule!TypeOK
    BY <1>1, <1>2, <1>5 DEF Schedule!TypeOK, Schedule!Margin
  <1>7. Schedule!GapFollowsStreak
    BY <1>4 DEF Schedule!GapFollowsStreak
  <1>8. MarkInv
    BY <1>4 DEF MarkInv
  <1>. QED
    BY <1>1, <1>3, <1>6, <1>7, <1>8
       DEF ScheduleInv, ScheduleTypes, WakeInv, FetchInv, Schedule!OnSchedule

(* What main() and the table keep across passes, failures and restarts.    *)
THEOREM ScheduleAlways == Schedule!Spec => []ScheduleInv
  <1>1. Schedule!Init => ScheduleInv
    BY ScheduleStart
  <1>2. ScheduleInv /\ [Schedule!Next]_(Schedule!vars) => ScheduleInv'
    <2>1. ASSUME ScheduleInv, Schedule!Next
          PROVE  ScheduleInv'
      BY <2>1, SelectStep, FetchStep, SleepStep, TerminateStep,
         RestartStep DEF Schedule!Next
    <2>2. ASSUME ScheduleInv, UNCHANGED Schedule!vars
          PROVE  ScheduleInv'
      BY <2>2 DEF Schedule!vars, ScheduleInv, ScheduleTypes, Schedule!TypeOK, MarkInv,
         WakeInv,
                  FetchInv, AfterMark, Schedule!GapFollowsStreak, Schedule!OnSchedule
    <2>. QED
      BY <2>1, <2>2
  <1>. QED
    BY <1>1, <1>2, PTL DEF Schedule!Spec

(* The other programs leave the table of the sources alone.                *)
LEMMA ScheduleRuns == Spec => Schedule!Spec
  <1>1. Init => Schedule!Init
    BY DEF Init
  <1>2. [Next]_vars => [Schedule!Next]_(Schedule!vars)
    BY DEF Next, BufferNext, HttpNext, TimersNext, ScheduleNext, StoreNext, TomatoNext,
           TurnsNext, StackNext, vars, programVars, scheduleVars, Schedule!vars
  <1>. QED
    BY <1>1, <1>2, PTL DEF Spec, Schedule!Spec

(* Every variable of the loop and every field of rss_source keeps its      *)
(* type: the status stays within three of zero, the gap within MAX_GAP and *)
(* next_execute within the gap of now.                                     *)
THEOREM ScheduleTypeCorrect == Spec => []Schedule!TypeOK
  <1>1. ScheduleInv => Schedule!TypeOK
    BY DEF ScheduleInv, ScheduleTypes
  <1>. QED
    BY <1>1, ScheduleRuns, ScheduleAlways, PTL

(* The gap of a source doubles with the fourth failure in a row, halves    *)
(* with the fourth success and changes for nothing else.                   *)
THEOREM GapFollowsOutcomes == Spec => []GapFollowsStreak
  <1>1. ScheduleInv => GapFollowsStreak
    BY DEF ScheduleInv, GapFollowsStreak
  <1>. QED
    BY <1>1, ScheduleRuns, ScheduleAlways, PTL

(* After a pass of less than half an hour, whatever an hour and a fetch    *)
(* take, the next pass finds every source no later than the margin: the    *)
(* rounding in update_2_db and in sleep_to_next_hour fit together.         *)
THEOREM NoHourMissed == Spec => []OnSchedule
  <1>1. ScheduleInv => OnSchedule
    BY DEF ScheduleInv, OnSchedule
  <1>. QED
    BY <1>1, ScheduleRuns, ScheduleAlways, PTL

-----------------------------------------------------------------------------
HIDE ScheduleConstants DEF ScheduleConstants
USE StoreConstants DEF StoreConstants

(* The rows of the table, the documents of the collection, and where the   *)
(* loop over the entries of a feed is.                                     *)
Rows == [link : Links, source : Sources]
Documents == [itemid : Nat, link : Links]
InLoop == {"insert", "max_id", "mongo"}

(* The types, and the feed is within its bound.                            *)
StoreTypes == Store!TypeOK /\ Len(vre) <= MaxEntries

(* The rows and the documents while an article is between its two inserts: *)
(* its row is the last one, has no document yet and is the one whose id    *)
(* has been read back.                                                     *)
RowWithoutDocument ==
  /\ rss_item # <<>> /\ rss_item[Len(rss_item)].link = vre[j]
  /\ \A a \in DOMAIN rssitem : rssitem[a].itemid # Len(rss_item)

(* Every document has its row, and an article is between its inserts.      *)
DocumentInv ==
  /\ Store!DocumentsMatchRows
  /\ storePc \in {"max_id", "mongo"} => RowWithoutDocument
  /\ storePc = "mongo" => itemid = Len(rss_item)

(* The entries the loop has passed are stored or were refused; a link that *)
(* get_latest_links() gave is one of a row.                                *)
PassedUntil(i) == \A k \in DOMAIN vre : k > i => vre[k] \in Store!Stored \union failed

(* No article is missed, because the loop leaves none behind.              *)
FeedInv ==
  /\ latest \subseteq Store!Stored
  /\ storePc \in InLoop => PassedUntil(j)
  /\ storePc \in {"max_id", "mongo"} => vre[j] \in Store!Stored
  /\ Store!NoArticleMissed

(* An entry is appended to a table behind what is there.                   *)
LEMMA Appended ==
  ASSUME NEW S, NEW s \in Seq(S), NEW e \in S
  PROVE  /\ Append(s, e) \in Seq(S)
         /\ Len(Append(s, e)) = Len(s) + 1 /\ Len(s) \in Nat
         /\ DOMAIN s = 1..Len(s) /\ DOMAIN Append(s, e) = 1..Len(s) + 1
         /\ \A i \in 1..Len(s) : Append(s, e)[i] = s[i]
         /\ Append(s, e)[Len(s) + 1] = e
  OBVIOUS

(* What convert() may give is a sequence of links within the bound.        *)
LEMMA FeedIsSeq ==
  ASSUME NEW feed \in Store!Feeds
  PROVE  feed \in Seq(Links) /\ Len(feed) <= MaxEntries
  <1>1. PICK n \in 0..MaxEntries : feed \in [1..n -> Links]
    BY DEF Store!Feeds, Store!BoundedSeq, Store!SeqOf
  <1>2. n \in Nat /\ n <= MaxEntries
    BY <1>1
  <1>. QED
    BY <1>1, <1>2

(* The id that is read back is that of the last row.                       *)
LEMMA ReadsBackLast ==
  ASSUME StoreTypes, DocumentInv, Store!SelectMaxId
  PROVE  itemid' = Len(rss_item) /\ itemid' \in Nat
  <1>1. rss_item # <<>> /\ rss_item[Len(rss_item)].link = vre[j]
    BY DEF DocumentInv, RowWithoutDocument, Store!SelectMaxId
  <1>2. Len(rss_item) \in Nat /\ DOMAIN rss_item = 1..Len(rss_item) /\ Len(rss_item) # 0
    BY <1>1 DEF StoreTypes, Store!TypeOK
  <1>. DEFINE Is(i) == /\ rss_item[i].link = vre[j]
                       /\ \A k \in DOMAIN rss_item : rss_item[k].link = vre[j] => k <= i
  <1>3. Len(rss_item) \in DOMAIN rss_item /\ Is(Len(rss_item))
    BY <1>1, <1>2
  <1>4. \A i \in DOMAIN rss_item : Is(i) => i = Len(rss_item)
    BY <1>1, <1>2
  <1>5. itemid' = CHOOSE i \in DOMAIN rss_item : Is(i)
    BY DEF Store!SelectMaxId
  <1>. HIDE DEF Is
  <1>. QED
    BY <1>2, <1>3, <1>4, <1>5

(* The types hold, and no entry beyond the feed is looked at.              *)
LEMMA StoreTypesStep ==
  ASSUME StoreTypes, DocumentInv, [Store!Next]_(Store!vars)
  PROVE  StoreTypes'
  <1>. USE DEF StoreTypes, Store!TypeOK, Store!stores, Store!locals
  <1>0. /\ Len(vre) \in Nat /\ DOMAIN vre = 1..Len(vre)
        /\ MaxEntries \in Nat /\ MaxFetches \in Nat /\ j \in Nat /\ fetches \in Nat
        /\ \A i \in DOMAIN vre : vre[i] \in Links
    OBVIOUS
  <1>1. CASE \E s \in Sources, feed \in Store!Feeds : Store!Fetch(s, feed)
    <2>1. PICK s \in Sources, feed \in Store!Feeds : Store!Fetch(s, feed)
      BY <1>1
    <2>2. feed \in Seq(Links) /\ Len(feed) <= MaxEntries
      BY FeedIsSeq
    <2>3. fetches' \in 0..MaxFetches /\ vre' \in Seq(Links) /\ Len(vre') <= MaxEntries
      BY <2>1, <2>2, <1>0 DEF Store!Fetch
    <2>. QED
      BY <2>1, <2>3 DEF Store!Fetch
  <1>2. CASE Store!GetLatestLinks
    <2>1. latest' \subseteq Links
      <3>1. \A i \in DOMAIN rss_item : rss_item[i].link \in Links
        <4>1. rss_item \in Seq([link : Links, source : Sources])
          OBVIOUS
        <4>2. \A i \in DOMAIN rss_item : rss_item[i] \in [link : Links, source : Sources]
          BY <4>1, ElementOfSeq, LenProperties
        <4>. QED
          BY <4>2
      <3>. QED
        BY <3>1, <1>2 DEF Store!GetLatestLinks
    <2>2. storePc' \in {"update", "insert"} /\ (storePc' = "insert" => vre # <<>>)
      BY <1>2 DEF Store!GetLatestLinks
    <2>3. vre # <<>> => Len(vre) \in 1..Len(vre)
      BY <1>0
    <2>4. j' \in 0..MaxEntries /\ (storePc' \in InLoop => j' \in DOMAIN vre')
      BY <1>2, <1>0, <2>2, <2>3 DEF Store!GetLatestLinks, InLoop
    <2>. QED
      BY <1>2, <2>1, <2>2, <2>4 DEF Store!GetLatestLinks, InLoop
  <1>3. CASE Store!SkipKnown \/ Store!RefuseDuplicate \/ Store!MaxIdFails
    BY <1>3, <1>0 DEF Store!SkipKnown, Store!RefuseDuplicate, Store!MaxIdFails,
       Store!NextEntry
  <1>4. CASE Store!InsertRow
    <2>1. [link |-> vre[j], source |-> source] \in [link : Links, source : Sources]
      BY <1>4, <1>0 DEF Store!InsertRow
    <2>. QED
      BY <1>4, <1>0, <2>1, Appended DEF Store!InsertRow
  <1>5. CASE Store!RefuseRow
    BY <1>5, <1>0 DEF Store!RefuseRow, Store!NextEntry
  <1>6. CASE Store!SelectMaxId
    <2>1. itemid' \in Nat
      BY <1>6, ReadsBackLast
    <2>. QED
      BY <1>6, <1>0, <2>1 DEF Store!SelectMaxId
  <1>7. CASE Store!InsertDocument
    <2>1. [itemid |-> itemid, link |-> vre[j]] \in [itemid : Nat, link : Links]
      BY <1>7, <1>0 DEF Store!InsertDocument
    <2>2. rssitem' \in Seq([itemid : Nat, link : Links])
      BY <1>7, <2>1, Appended DEF Store!InsertDocument
    <2>. QED
      BY <1>7, <1>0, <2>2 DEF Store!InsertDocument, Store!NextEntry
  <1>8. CASE Store!UpdateSource \/ Store!Terminate
    BY <1>8, <1>0 DEF Store!UpdateSource, Store!Terminate
  <1>9. CASE Store!Restart
    <2>1. vre' \in Seq(Links) /\ Len(vre') <= MaxEntries /\ j' \in 0..MaxEntries
      BY <1>9, <1>0 DEF Store!Restart
    <2>2. itemid' \in Nat /\ latest' \subseteq Links /\ failed' \subseteq Links
      BY <1>9 DEF Store!Restart
    <2>. QED
      BY <1>9, <2>1, <2>2 DEF Store!Restart
  <1>10. CASE UNCHANGED Store!vars
    BY <1>10 DEF Store!vars
  <1>. QED
    BY <1>1, <1>2, <1>3, <1>4, <1>5, <1>6, <1>7, <1>8, <1>9, <1>10 DEF Store!Next

(* The loop goes on, and the documents stay as they are.                   *)
LEMMA DocumentsStep ==
  ASSUME StoreTypes, DocumentInv, [Store!Next]_(Store!vars)
  PROVE  DocumentInv'
  <1>0. /\ Len(rss_item) \in Nat /\ DOMAIN rss_item = 1..Len(rss_item)
        /\ Len(rssitem) \in Nat /\ DOMAIN rssitem = 1..Len(rssitem)
        /\ rss_item \in Seq(Rows) /\ rssitem \in Seq(Documents)
    BY DEF StoreTypes, Store!TypeOK, Rows, Documents
  <1>1. CASE Store!InsertRow
    <2>. DEFINE r == [link |-> vre[j], source |-> source]
    <2>1. r \in Rows /\ r.link = vre[j]
      BY <1>1 DEF Store!InsertRow, StoreTypes, Store!TypeOK, Rows
    <2>2. rss_item' = Append(rss_item, r) /\ rssitem' = rssitem /\ vre' = vre /\ j' = j
          /\ storePc' = "max_id"
      BY <1>1 DEF Store!InsertRow, Store!locals
    <2>. HIDE DEF r
    <2>3. /\ rss_item' # <<>> /\ Len(rss_item') = Len(rss_item) + 1
          /\ DOMAIN rss_item' = 1..Len(rss_item) + 1
          /\ \A i \in 1..Len(rss_item) : rss_item'[i] = rss_item[i]
          /\ rss_item'[Len(rss_item) + 1] = r
      BY <2>1, <2>2, <1>0, Appended
    <2>4. \A a \in DOMAIN rssitem : /\ rssitem[a].itemid \in 1..Len(rss_item)
                                    /\ rss_item[rssitem[a].itemid].link = rssitem[a].link
      BY <1>0 DEF DocumentInv, Store!DocumentsMatchRows, Store!ToSet
    <2>5. Store!DocumentsMatchRows'
      BY <2>2, <2>3, <2>4, <1>0 DEF DocumentInv, Store!DocumentsMatchRows, Store!ToSet
    <2>6. RowWithoutDocument'
      BY <2>1, <2>2, <2>3, <2>4, <1>0 DEF RowWithoutDocument
    <2>. QED
      BY <2>2, <2>5, <2>6 DEF DocumentInv
  <1>2. CASE Store!SelectMaxId
    BY <1>2, ReadsBackLast
    DEF Store!SelectMaxId, DocumentInv, RowWithoutDocument, Store!DocumentsMatchRows, Store!stores
  <1>3. CASE Store!InsertDocument
    <2>. DEFINE d == [itemid |-> itemid, link |-> vre[j]]
    <2>1. d \in Documents /\ d.itemid = itemid /\ d.link = vre[j]
      BY <1>3 DEF Store!InsertDocument, StoreTypes, Store!TypeOK, Documents
    <2>2. rssitem' = Append(rssitem, d) /\ rss_item' = rss_item /\ storePc' \in {"update", "insert"}
      BY <1>3 DEF Store!InsertDocument, Store!NextEntry
    <2>. HIDE DEF d
    <2>3. /\ DOMAIN rssitem' = 1..Len(rssitem) + 1
          /\ \A i \in 1..Len(rssitem) : rssitem'[i] = rssitem[i]
          /\ rssitem'[Len(rssitem) + 1] = d
      BY <2>1, <2>2, <1>0, Appended
    <2>4. /\ itemid = Len(rss_item) /\ itemid \in DOMAIN rss_item
          /\ rss_item[itemid].link = vre[j]
          /\ \A a \in DOMAIN rssitem : rssitem[a].itemid # itemid
      BY <1>3, <1>0 DEF Store!InsertDocument, DocumentInv, RowWithoutDocument
    <2>8. \A a \in DOMAIN rssitem : /\ rssitem[a].itemid \in DOMAIN rss_item
                                    /\ rss_item[rssitem[a].itemid].link = rssitem[a].link
      BY DEF DocumentInv, Store!DocumentsMatchRows, Store!ToSet
    <2>5. \A a \in DOMAIN rssitem' : /\ rssitem'[a].itemid \in DOMAIN rss_item
                                     /\ rss_item[rssitem'[a].itemid].link = rssitem'[a].link
      <3>1. \A a \in 1..Len(rssitem) : rssitem'[a] = rssitem[a] /\ a \in DOMAIN rssitem
        BY <2>3, <1>0
      <3>2. \A a \in DOMAIN rssitem' : a \in 1..Len(rssitem) \/ a = Len(rssitem) + 1
        BY <2>3, <1>0
      <3>. QED
        BY <2>1, <2>3, <2>4, <2>8, <3>1, <3>2
    <2>6. \A a, b \in DOMAIN rssitem' : rssitem'[a].itemid = rssitem'[b].itemid => a = b
      BY <2>1, <2>3, <2>4, <1>0 DEF DocumentInv, Store!DocumentsMatchRows
    <2>7. Store!DocumentsMatchRows'
      BY <2>2, <2>5, <2>6 DEF Store!DocumentsMatchRows, Store!ToSet
    <2>. QED
      BY <2>2, <2>7 DEF DocumentInv
  <1>4. CASE \/ \E s \in Sources, feed \in Store!Feeds : Store!Fetch(s, feed)
             \/ Store!GetLatestLinks \/ Store!SkipKnown \/ Store!RefuseDuplicate \/ Store!RefuseRow
             \/ Store!MaxIdFails \/ Store!UpdateSource \/ Store!Terminate \/ Store!Restart
    <2>1. UNCHANGED Store!stores /\ storePc' \notin {"max_id", "mongo"}
      BY <1>4 DEF Store!Fetch, Store!GetLatestLinks, Store!SkipKnown,
         Store!RefuseDuplicate, Store!RefuseRow, Store!MaxIdFails,
                  Store!UpdateSource, Store!Terminate, Store!Restart, Store!NextEntry, Store!stores
    <2>. QED
      BY <2>1 DEF DocumentInv, Store!DocumentsMatchRows, Store!stores
  <1>5. CASE UNCHANGED Store!vars
    BY <1>5 DEF Store!vars, Store!stores, Store!locals, DocumentInv,
       Store!DocumentsMatchRows, RowWithoutDocument
  <1>. QED
    BY <1>1, <1>2, <1>3, <1>4, <1>5 DEF Store!Next

(* An entry that is stored or refused may be passed.                       *)
LEMMA PassEntry ==
  ASSUME StoreTypes, storePc \in InLoop, PassedUntil(j), Store!NextEntry, vre' = vre,
         Store!Stored \subseteq Store!Stored', failed \subseteq failed',
         vre[j] \in Store!Stored' \union failed'
  PROVE  /\ storePc' \in InLoop => PassedUntil(j)'
         /\ Store!NoArticleMissed'
         /\ storePc' \notin {"max_id", "mongo"}
  <1>1. j \in DOMAIN vre /\ j \in Nat /\ j >= 1 /\ DOMAIN vre = 1..Len(vre)
        /\ Len(vre) \in Nat
    BY DEF StoreTypes, Store!TypeOK, InLoop
  <1>2. \A k \in DOMAIN vre : k > j - 1 => k = j \/ k > j
    BY <1>1
  <1>3. \A k \in DOMAIN vre : k > j - 1 => vre[k] \in Store!Stored' \union failed'
    BY <1>2 DEF PassedUntil
  <1>4. j' = j - 1 /\ storePc' = IF j = 1 THEN "update" ELSE "insert"
    BY DEF Store!NextEntry
  <1>5. PassedUntil(j)'
    BY <1>3, <1>4 DEF PassedUntil
  <1>6. storePc' = "update" => \A k \in DOMAIN vre : vre[k] \in Store!Stored' \union failed'
    BY <1>1, <1>3, <1>4
  <1>7. Store!NoArticleMissed'
    BY <1>6 DEF Store!NoArticleMissed, Store!ToSet
  <1>. QED
    BY <1>4, <1>5, <1>7

(* Nothing of a feed is passed over.                                       *)
LEMMA FeedStep ==
  ASSUME StoreTypes, FeedInv, [Store!Next]_(Store!vars)
  PROVE  FeedInv'
  <1>1. CASE Store!GetLatestLinks
    <2>1. latest' \subseteq Store!Stored /\ Store!Stored' = Store!Stored
      BY <1>1 DEF Store!GetLatestLinks, Store!Stored, Store!stores
    <2>2. /\ vre' = vre /\ failed' = failed /\ j' = Len(vre)
          /\ storePc' = IF vre = <<>> THEN "update" ELSE "insert"
      BY <1>1 DEF Store!GetLatestLinks
    <2>3. Len(vre) \in Nat /\ DOMAIN vre = 1..Len(vre)
      BY DEF StoreTypes, Store!TypeOK
    <2>4. PassedUntil(j)'
      BY <2>2, <2>3 DEF PassedUntil
    <2>5. Store!NoArticleMissed'
      BY <2>2, <2>3 DEF Store!NoArticleMissed, Store!ToSet
    <2>. QED
      BY <2>1, <2>2, <2>4, <2>5 DEF FeedInv
  <1>2. CASE Store!SkipKnown \/ Store!RefuseDuplicate \/ Store!RefuseRow \/ Store!MaxIdFails \/ Store!InsertDocument
    <2>1. /\ storePc \in InLoop /\ Store!NextEntry /\ vre' = vre /\ latest' = latest
          /\ rss_item' = rss_item
      BY <1>2 DEF Store!SkipKnown, Store!RefuseDuplicate, Store!RefuseRow,
         Store!MaxIdFails, Store!InsertDocument, InLoop,
                  Store!stores, Store!locals
    <2>2. failed \subseteq failed' /\ Store!Stored' = Store!Stored
      BY <1>2, <2>1 DEF Store!SkipKnown, Store!RefuseDuplicate, Store!RefuseRow,
         Store!MaxIdFails, Store!InsertDocument,
                        Store!locals, Store!Stored
    <2>3. vre[j] \in Store!Stored \union failed'
      BY <1>2 DEF Store!SkipKnown, Store!RefuseDuplicate, Store!RefuseRow,
         Store!MaxIdFails, Store!InsertDocument, FeedInv
    <2>4. PassedUntil(j) /\ latest \subseteq Store!Stored
      BY <2>1 DEF FeedInv
    <2>5. /\ storePc' \in InLoop => PassedUntil(j)'
          /\ Store!NoArticleMissed'
          /\ storePc' \notin {"max_id", "mongo"}
      BY <2>1, <2>2, <2>3, <2>4, PassEntry
    <2>. QED
      BY <2>1, <2>2, <2>4, <2>5 DEF FeedInv
  <1>3. CASE Store!InsertRow
    <2>. DEFINE r == [link |-> vre[j], source |-> source]
    <2>1. rss_item \in Seq(Rows) /\ r \in Rows /\ r.link = vre[j]
      BY <1>3 DEF Store!InsertRow, StoreTypes, Store!TypeOK, Rows
    <2>2. rss_item' = Append(rss_item, r) /\ vre' = vre /\ latest' = latest /\ j' = j
          /\ failed' = failed /\ storePc' = "max_id" /\ storePc = "insert"
      BY <1>3 DEF Store!InsertRow, Store!locals
    <2>. HIDE DEF r
    <2>3. /\ DOMAIN rss_item = 1..Len(rss_item) /\ Len(rss_item) \in Nat
          /\ DOMAIN rss_item' = 1..Len(rss_item) + 1
          /\ \A i \in 1..Len(rss_item) : rss_item'[i] = rss_item[i]
          /\ rss_item'[Len(rss_item) + 1] = r
      BY <2>1, <2>2, Appended
    <2>4. Store!Stored \subseteq Store!Stored' /\ vre[j] \in Store!Stored'
      BY <2>1, <2>3 DEF Store!Stored
    <2>5. PassedUntil(j)'
      BY <2>2, <2>4 DEF FeedInv, InLoop, PassedUntil
    <2>. QED
      BY <2>2, <2>4, <2>5 DEF FeedInv, Store!NoArticleMissed
  <1>4. CASE Store!SelectMaxId
    BY <1>4 DEF Store!SelectMaxId, FeedInv, InLoop, PassedUntil, Store!Stored,
       Store!NoArticleMissed, Store!stores
  <1>5. CASE \/ \E s \in Sources, feed \in Store!Feeds : Store!Fetch(s, feed)
             \/ Store!UpdateSource \/ Store!Terminate \/ Store!Restart
    <2>1. /\ rss_item' = rss_item /\ latest' \in {latest, {}}
          /\ storePc' \in {"latest", "fetch", "down"}
      BY <1>5 DEF Store!Fetch, Store!UpdateSource, Store!Terminate, Store!Restart,
         Store!stores, Store!locals
    <2>. QED
      BY <2>1 DEF FeedInv, Store!Stored, Store!NoArticleMissed, InLoop
  <1>6. CASE UNCHANGED Store!vars
    BY <1>6 DEF Store!vars, Store!stores, Store!locals, FeedInv, Store!Stored,
       Store!NoArticleMissed, PassedUntil
  <1>. QED
    BY <1>1, <1>2, <1>3, <1>4, <1>5, <1>6 DEF Store!Next

-----------------------------------------------------------------------------
(* The inductive invariant of the store.                                   *)
StoreInv == StoreTypes /\ DocumentInv /\ FeedInv

(* The empty stores of the start.                                          *)
LEMMA StoreInit ==
  ASSUME Store!Init
  PROVE  StoreInv
  <1>1. /\ MaxEntries \in Nat /\ MaxFetches \in Nat
        /\ 0 \in 0..MaxEntries /\ 0 \in 0..MaxFetches
    OBVIOUS
  <1>2. StoreTypes
    <2>1. vre \in Seq(Links) /\ Len(vre) <= MaxEntries
      BY <1>1 DEF Store!Init
    <2>2. rss_item \in Seq([link : Links, source : Sources])
      BY DEF Store!Init
    <2>3. rssitem \in Seq([itemid : Nat, link : Links])
      BY DEF Store!Init
    <2>4. itemid \in Nat /\ latest \subseteq Links /\ failed \subseteq Links
      BY DEF Store!Init
    <2>. QED
      BY <1>1, <2>1, <2>2, <2>3, <2>4 DEF Store!Init, StoreTypes, Store!TypeOK
  <1>3. DocumentInv
    BY DEF Store!Init, DocumentInv, Store!DocumentsMatchRows, Store!ToSet
  <1>4. FeedInv
    BY DEF Store!Init, FeedInv, Store!NoArticleMissed, InLoop
  <1>. QED
    BY <1>2, <1>3, <1>4 DEF StoreInv

(* What the process keeps between any two statements, across failures and  *)
(* restarts: the types, the documents' rows and the articles passed.       *)
THEOREM StoreAlways == Store!Spec => []StoreInv
  <1>1. Store!Init => StoreInv
    BY StoreInit
  <1>2. StoreInv /\ [Store!Next]_(Store!vars) => StoreInv'
    BY StoreTypesStep, DocumentsStep, FeedStep DEF StoreInv
  <1>. QED
    BY <1>1, <1>2, PTL DEF Store!Spec

(* The other programs leave the stores alone.                              *)
LEMMA StoreRuns == Spec => Store!Spec
  <1>1. Init => Store!Init
    BY DEF Init
  <1>2. [Next]_vars => [Store!Next]_(Store!vars)
    BY DEF Next, BufferNext, HttpNext, TimersNext, ScheduleNext, StoreNext, TomatoNext,
           TurnsNext, StackNext, vars, programVars, storeVars, Store!vars, Store!stores, Store!locals
  <1>. QED
    BY <1>1, <1>2, PTL DEF Spec, Store!Spec

(* Every variable of rss_b's loop keeps its type; in particular main()     *)
(* looks at no entry outside the feed.                                     *)
THEOREM StoreTypeCorrect == Spec => []Store!TypeOK
  <1>1. StoreInv => Store!TypeOK
    BY DEF StoreInv, StoreTypes
  <1>. QED
    BY <1>1, StoreRuns, StoreAlways, PTL

(* Every document carries the id of the row with its link and no row has   *)
(* two, whatever fails between insert_2_db and insert_2_mongo.             *)
THEOREM DocumentsAlwaysMatch == Spec => []DocumentsMatchRows
  <1>1. StoreInv => DocumentsMatchRows
    BY DEF StoreInv, DocumentInv, DocumentsMatchRows
  <1>. QED
    BY <1>1, StoreRuns, StoreAlways, PTL

(* When main() has gone through a feed, each article is in the table or    *)
(* was refused: get_latest_links never hides a new one.                    *)
THEOREM ArticlesNeverMissed == Spec => []NoArticleMissed
  <1>1. StoreInv => NoArticleMissed
    BY DEF StoreInv, FeedInv, NoArticleMissed
  <1>. QED
    BY <1>1, StoreRuns, StoreAlways, PTL
=============================================================================
