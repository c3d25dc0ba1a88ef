------------------------------ MODULE TurnTaking ------------------------------
(***************************************************************************)
(* Threads that take turns to print (any/concurrency/LT_1195_fizzbuzz.cpp, *)
(* LT_1115_foobar.cpp): four threads that print fizz, buzz, fizzbuzz and   *)
(* the numbers from 1 to n, and two that print foo and bar n times, each   *)
(* in several versions.                                                    *)
(*   FizzBuzz   mutex and condition variable, notify_all after each turn   *)
(*   FizzBuzz_  an atomic counter, polled                                  *)
(*   FooBar     two semaphores                                             *)
(*   FooBar_2   mutex and condition variable, notify_one after each turn   *)
(*   FooBar_1   an atomic counter, polled                                  *)
(* A turn under a mutex is one step; without one, taking the turn,         *)
(* printing and passing the turn on are three.                             *)
(***************************************************************************)
EXTENDS Naturals, Sequences

CONSTANT N      \* n

VARIABLES
  class,      \* the version that runs
  cnt,        \* idx, ati or cnt
  sem,        \* the semaphores semf and semb
  pc,         \* of each thread: "ready", "waiting" (on cv), "print", "pass", "done"
  rounds,     \* i of foo and bar
  out         \* what has been printed

vars == <<class, cnt, sem, pc, rounds, out>>

FizzBuzzes == {"FizzBuzz", "FizzBuzz_"}
WithCv     == {"FizzBuzz", "FooBar_2"}
Atomics    == {"FizzBuzz_", "FooBar_1"}
Classes    == FizzBuzzes \union {"FooBar", "FooBar_1", "FooBar_2"}

Threads == IF class \in FizzBuzzes THEN {"fizz", "buzz", "fizzbuzz", "number"}
                                   ELSE {"foo", "bar"}

Init ==
  /\ class \in Classes
  /\ cnt = IF class \in FizzBuzzes THEN 1 ELSE 0
  /\ sem = [foo |-> 1, bar |-> 0]
  /\ pc = [t \in Threads |-> "ready"]
  /\ rounds = [t \in Threads |-> 0]
  /\ out = <<>>

-----------------------------------------------------------------------------
(* The conditions as the threads test them.                                *)
Turn(t) ==
  CASE t = "fizz"     -> cnt % 3 = 0 /\ cnt % 5 # 0
    [] t = "buzz"     -> cnt % 3 # 0 /\ cnt % 5 = 0
    [] t = "fizzbuzz" -> cnt % 3 = 0 /\ cnt % 5 = 0
    [] t = "number"   -> cnt % 3 # 0 /\ cnt % 5 # 0
    [] t = "foo"      -> cnt % 2 = 0
    [] t = "bar"      -> cnt % 2 = 1

Over(t) == IF class \in FizzBuzzes THEN cnt > N ELSE rounds[t] = N

(* Mutant: the counter is loaded once for the bound and again for the      *)
(* turn, so the turn may be past the bound.                                *)
TurnOfSecondLoad(t) == Turn(t)

MayEnter(t) == ~Over(t) /\ Turn(t)

Waiters == {t \in Threads : pc[t] = "waiting"}

(* pc after t has gone to `at' and ws have been notified.                  *)
Goes(t, at, ws) == [u \in Threads |-> IF u = t THEN at
                                      ELSE IF u \in ws THEN "ready" ELSE pc[u]]

NotifyOne == IF Waiters = {} THEN {{}} ELSE {{w} : w \in Waiters}

(* Mutant: one waiter is woken, whoever it is.                             *)
NotifyOneAfterTurn == NotifyOne

(* Whom a turn may wake: FizzBuzz calls notify_all, FooBar_2 notify_one.   *)
NotifyAfterTurn == IF class = "FizzBuzz" THEN {Waiters} ELSE NotifyOne

-----------------------------------------------------------------------------
(* With a condition variable: a turn, or a wait, under the mutex.          *)
CvTurn(t) ==
  /\ class \in WithCv /\ pc[t] = "ready"
  /\ MayEnter(t)
  /\ out' = Append(out, t)
  /\ cnt' = cnt + 1
  /\ rounds' = [rounds EXCEPT ![t] = IF class \in FizzBuzzes THEN @ ELSE @ + 1]
  /\ \E ws \in NotifyAfterTurn : pc' = Goes(t, "ready", ws)
  /\ UNCHANGED <<class, sem>>

CvWait(t) ==
  /\ class \in WithCv /\ pc[t] = "ready"
  /\ ~Over(t) /\ ~Turn(t)
  /\ pc' = [pc EXCEPT ![t] = "waiting"]
  /\ UNCHANGED <<class, cnt, sem, rounds, out>>

(* A waiter may wake for no reason.                                        *)
SpuriousWakeup(t) ==
  /\ pc[t] = "waiting"
  /\ pc' = [pc EXCEPT ![t] = "ready"]
  /\ UNCHANGED <<class, cnt, sem, rounds, out>>

(* The thread returns; FizzBuzz notifies once more.                        *)
Return(t) ==
  /\ pc[t] = "ready"
  /\ Over(t)
  /\ \E ws \in (IF class = "FizzBuzz" THEN NotifyOne ELSE {{}}) : pc' = Goes(t, "done", ws)
  /\ UNCHANGED <<class, cnt, sem, rounds, out>>

(* With an atomic: a load that finds the turn.  One that does not changes  *)
(* nothing.                                                                *)
Load(t) ==
  /\ class \in Atomics /\ pc[t] = "ready"
  /\ MayEnter(t)
  /\ pc' = [pc EXCEPT ![t] = "print"]
  /\ UNCHANGED <<class, cnt, sem, rounds, out>>

(* With semaphores: acquire().                                             *)
Acquire(t) ==
  /\ class = "FooBar" /\ pc[t] = "ready"
  /\ ~Over(t) /\ sem[t] > 0
  /\ sem' = [sem EXCEPT ![t] = @ - 1]
  /\ pc' = [pc EXCEPT ![t] = "print"]
  /\ UNCHANGED <<class, cnt, rounds, out>>

PrintOut(t) ==
  /\ pc[t] = "print"
  /\ out' = Append(out, t)
  /\ pc' = [pc EXCEPT ![t] = "pass"]
  /\ UNCHANGED <<class, cnt, sem, rounds>>

(* The turn goes on: the atomic is incremented, or the other semaphore     *)
(* released.                                                               *)
PassTurn(t) ==
  /\ pc[t] = "pass"
  /\ IF class = "FooBar"
     THEN /\ sem' = [sem EXCEPT ![IF t = "foo" THEN "bar" ELSE "foo"] = @ + 1]
          /\ UNCHANGED cnt
     ELSE cnt' = cnt + 1 /\ UNCHANGED sem
  /\ rounds' = [rounds EXCEPT ![t] = IF class \in FizzBuzzes THEN @ ELSE @ + 1]
  /\ pc' = [pc EXCEPT ![t] = "ready"]
  /\ UNCHANGED <<class, out>>

-----------------------------------------------------------------------------
Step(t) ==
  \/ CvTurn(t) \/ CvWait(t)
  \/ Load(t) \/ Acquire(t) \/ PrintOut(t) \/ PassTurn(t)
  \/ Return(t)

Next == \E t \in Threads : Step(t) \/ SpuriousWakeup(t)

Spec == Init /\ [][Next]_vars

(* Every thread keeps running; nothing is assumed of spurious wakeups.     *)
AnyThread == {"fizz", "buzz", "fizzbuzz", "number", "foo", "bar"}
Fairness == \A t \in AnyThread : WF_vars(t \in Threads /\ Step(t))

FairSpec == Spec /\ Fairness

-----------------------------------------------------------------------------
TypeOK ==
  /\ class \in Classes
  /\ cnt \in Nat
  /\ sem \in [{"foo", "bar"} -> 0..1]
  /\ pc \in [Threads -> {"ready", "waiting", "print", "pass", "done"}]
  /\ rounds \in [Threads -> 0..N]
  /\ out \in Seq(Threads)

(* Who has to print in the i-th place.                                     *)
Expected(i) ==
  IF class \in FizzBuzzes
  THEN IF i % 15 = 0 THEN "fizzbuzz"
       ELSE IF i % 3 = 0 THEN "fizz" ELSE IF i % 5 = 0 THEN "buzz" ELSE "number"
  ELSE IF i % 2 = 1 THEN "foo" ELSE "bar"

(* Whatever the scheduling, the output is the required one as far as it    *)
(* goes, and complete when all threads have returned.                      *)
PrintedInOrder ==
  LET all == IF class \in FizzBuzzes THEN N ELSE 2 * N
  IN  /\ Len(out) <= all
      /\ \A i \in DOMAIN out : out[i] = Expected(i)
      /\ (\A t \in Threads : pc[t] = "done") => Len(out) = all

(* No thread waits for ever: all of them return.                           *)
AllFinish == <>(\A t \in Threads : pc[t] = "done")
=============================================================================
