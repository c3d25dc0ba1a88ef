--------------------------- MODULE ReclaimingStack ---------------------------
(***************************************************************************)
(* The lock-free stack of cpp_concurrency_2nd/lock_free_stack.cpp that     *)
(* counts the threads in pop() and deletes popped nodes only when nobody   *)
(* else can hold them: push of lock_free_stack, pop of lock_free_stack_3,  *)
(* try_recliam and the functions under it of lock_free_stack_4, which the  *)
(* source gives in pieces.                                                 *)
(*                                                                         *)
(* A step is one access to memory that other threads can see; a list taken *)
(* out of to_be_deleted is walked in one.  A node is a cell of memory that *)
(* new may hand out again after delete, which is what makes a stale        *)
(* pointer compare equal.  compare_exchange_weak's spurious failures only  *)
(* repeat a loop and are left out.                                         *)
(*                                                                         *)
(* A pop() of an empty stack while another thread is in pop() goes on to   *)
(* chain_pending_node(nullptr), which writes through the null pointer: the *)
(* process ends there.                                                     *)
(***************************************************************************)
EXTENDS Naturals, Sequences, FiniteSets

CONSTANTS Threads,
          Nodes,        \* cells new can hand out: 1..n
          Initial,      \* values on the stack at the start
          MaxOps        \* bound: calls of push and pop

Null == 0

VARIABLES
  head, to_be_deleted, threads_in_pop,
  next, data,   \* fields of the nodes; data is 0 when taken
  live,         \* the nodes between new and delete
  pc,           \* of each thread
  old,          \* old, the node pop() is after; nd in push
  nxt,          \* old->next as read for the exchange
  chain,        \* first and last of chain_pending_nodes
  crashed,      \* the process has written through a null pointer
  ops,          \* calls so far
  pushed,       \* history: values pushed, 1..pushed
  popped        \* history: values returned by pop()

shared == <<head, to_be_deleted, threads_in_pop, next, data, live>>
vars == <<shared, pc, old, nxt, chain, crashed, ops, pushed, popped>>

PC == {"idle", "pushCas", "load", "readNext", "cas", "swap", "test", "claim", "leave",
       "chainBack", "chainBackCas", "deleteOld", "chainOld", "chainOldCas", "leaveLast"}

NoChain == [first |-> Null, last |-> Null]

Init ==
  /\ head = Initial
  /\ to_be_deleted = Null
  /\ threads_in_pop = 0
  /\ next = [n \in Nodes |-> IF n \in 1..Initial THEN n - 1 ELSE Null]
  /\ data = [n \in Nodes |-> IF n \in 1..Initial THEN n ELSE 0]
  /\ live = 1..Initial
  /\ pc = [t \in Threads |-> "idle"]
  /\ old = [t \in Threads |-> Null]
  /\ nxt = [t \in Threads |-> Null]
  /\ chain = [t \in Threads |-> NoChain]
  /\ crashed = FALSE
  /\ ops = 0
  /\ pushed = Initial
  /\ popped = <<>>

Goto(t, at) == pc' = [pc EXCEPT ![t] = at]

(* The nodes a walk along next from n comes to: the smallest set with n    *)
(* that next does not lead out of.                                         *)
Closed(set) == \A m \in set : next[m] \in set \union {Null}
ListFrom(n) ==
  {m \in Nodes : \A set \in SUBSET Nodes :
                   Closed(set) /\ n \in set \union {Null} => m \in set}

(* The walk of chain_pending_nodes to the end of a list.                   *)
LastOf(list) == CHOOSE n \in list : next[n] = Null

-----------------------------------------------------------------------------
(* push: a new node that points to the head ...                            *)
Push(t) ==
  /\ pc[t] = "idle" /\ ops < MaxOps
  /\ \E n \in Nodes \ live :
       /\ live' = live \union {n}
       /\ data' = [data EXCEPT ![n] = pushed + 1]
       /\ next' = [next EXCEPT ![n] = head]
       /\ old' = [old EXCEPT ![t] = n]
  /\ pushed' = pushed + 1
  /\ ops' = ops + 1
  /\ Goto(t, "pushCas")
  /\ UNCHANGED <<head, to_be_deleted, threads_in_pop, nxt, chain, crashed, popped>>

(* ... becomes the head unless that has changed.                           *)
PushCas(t) ==
  /\ pc[t] = "pushCas"
  /\ IF head = next[old[t]]
     THEN head' = old[t] /\ Goto(t, "idle") /\ UNCHANGED next
     ELSE next' = [next EXCEPT ![old[t]] = head] /\ UNCHANGED <<head, pc>>
  /\ UNCHANGED <<to_be_deleted, threads_in_pop, data, live, old, nxt, chain, crashed, ops, pushed, popped>>

(* pop: the thread counts itself ...                                       *)
PopEnter(t) ==
  /\ pc[t] = "idle" /\ ops < MaxOps
  /\ threads_in_pop' = threads_in_pop + 1
  /\ ops' = ops + 1
  /\ Goto(t, "load")
  /\ UNCHANGED <<head, to_be_deleted, next, data, live, old, nxt, chain, crashed, pushed, popped>>

(* ... loads the head ...                                                  *)
PopLoad(t) ==
  /\ pc[t] = "load"
  /\ old' = [old EXCEPT ![t] = head]
  /\ Goto(t, IF head = Null THEN "test" ELSE "readNext")
  /\ UNCHANGED <<shared, nxt, chain, crashed, ops, pushed, popped>>

(* ... reads old->next ...                                                 *)
PopReadNext(t) ==
  /\ pc[t] = "readNext"
  /\ nxt' = [nxt EXCEPT ![t] = next[old[t]]]
  /\ Goto(t, "cas")
  /\ UNCHANGED <<shared, old, chain, crashed, ops, pushed, popped>>

(* ... and makes it the head, or starts again from the head it found ...   *)
PopCas(t) ==
  /\ pc[t] = "cas"
  /\ IF head = old[t]
     THEN head' = nxt[t] /\ Goto(t, "swap") /\ UNCHANGED old
     ELSE /\ old' = [old EXCEPT ![t] = head]
          /\ Goto(t, IF head = Null THEN "test" ELSE "readNext")
          /\ UNCHANGED head
  /\ UNCHANGED <<to_be_deleted, threads_in_pop, next, data, live, nxt, chain, crashed, ops, pushed, popped>>

(* ... and takes the data, which leaves the node without.                  *)
PopSwap(t) ==
  /\ pc[t] = "swap"
  /\ popped' = Append(popped, data[old[t]])
  /\ data' = [data EXCEPT ![old[t]] = 0]
  /\ Goto(t, "test")
  /\ UNCHANGED <<head, to_be_deleted, threads_in_pop, next, live, old, nxt, chain, crashed, ops, pushed>>

-----------------------------------------------------------------------------
(* try_recliam(old).                                                       *)

(* Mutant: the node is deleted at once, whoever else is in pop().          *)
DeleteAtOnce(t) ==
  /\ pc[t] = "test"
  /\ threads_in_pop' = threads_in_pop - 1
  /\ Goto(t, "deleteOld")
  /\ UNCHANGED <<head, to_be_deleted, next, data, live, old, nxt, chain, crashed, ops, pushed, popped>>

(* Alone in pop()?  A null old is not chained but crashes.                 *)
TestAlone(t) ==
  /\ pc[t] = "test"
  /\ chain' = [chain EXCEPT ![t] = [first |-> old[t], last |-> old[t]]]
  /\ IF threads_in_pop = 1
     THEN Goto(t, "claim") /\ UNCHANGED crashed
     ELSE IF old[t] = Null
     THEN crashed' = TRUE /\ UNCHANGED pc
     ELSE Goto(t, "chainOld") /\ UNCHANGED crashed
  /\ UNCHANGED <<shared, old, nxt, ops, pushed, popped>>

(* to_be_deleted.exchange(nullptr).                                        *)
Claim(t) ==
  /\ pc[t] = "claim"
  /\ LET list == ListFrom(to_be_deleted)
     IN  chain' = [chain EXCEPT ![t] =
                     IF list = {} THEN NoChain
                     ELSE [first |-> to_be_deleted,
                           last  |-> LastOf(list)]]
  /\ to_be_deleted' = Null
  /\ Goto(t, "leave")
  /\ UNCHANGED <<head, threads_in_pop, next, data, live, old, nxt, crashed, ops, pushed, popped>>

(* Mutant: what has been claimed is deleted without another look at the    *)
(* count.                                                                  *)
LeaveAndDelete(t) ==
  /\ pc[t] = "leave"
  /\ threads_in_pop' = threads_in_pop - 1
  /\ live' = live \ ListFrom(chain[t].first)
  /\ Goto(t, "deleteOld")
  /\ UNCHANGED <<head, to_be_deleted, next, data, old, nxt, chain, crashed, ops, pushed, popped>>

(* if (!--threads_in_pop): still alone, the claimed nodes are deleted;     *)
(* otherwise they are chained again.                                       *)
Leave(t) ==
  /\ pc[t] = "leave"
  /\ threads_in_pop' = threads_in_pop - 1
  /\ IF threads_in_pop = 1
     THEN live' = live \ ListFrom(chain[t].first) /\ Goto(t, "deleteOld")
     ELSE Goto(t, IF chain[t].first = Null THEN "deleteOld" ELSE "chainBack") /\ UNCHANGED live
  /\ UNCHANGED <<head, to_be_deleted, next, data, old, nxt, chain, crashed, ops, pushed, popped>>

(* chain_pending_nodes(first, last): last->next = to_be_deleted ...        *)
ChainLoad(t) ==
  /\ pc[t] \in {"chainBack", "chainOld"}
  /\ next' = [next EXCEPT ![chain[t].last] = to_be_deleted]
  /\ Goto(t, IF pc[t] = "chainBack" THEN "chainBackCas" ELSE "chainOldCas")
  /\ UNCHANGED <<head, to_be_deleted, threads_in_pop, data, live, old, nxt, chain, crashed, ops, pushed, popped>>

(* ... and first becomes its head unless that has changed.                 *)
ChainCas(t) ==
  /\ pc[t] \in {"chainBackCas", "chainOldCas"}
  /\ IF to_be_deleted = next[chain[t].last]
     THEN /\ to_be_deleted' = chain[t].first
          /\ Goto(t, IF pc[t] = "chainBackCas" THEN "deleteOld" ELSE "leaveLast")
          /\ UNCHANGED next
     ELSE next' = [next EXCEPT ![chain[t].last] = to_be_deleted] /\ UNCHANGED <<to_be_deleted, pc>>
  /\ UNCHANGED <<head, threads_in_pop, data, live, old, nxt, chain, crashed, ops, pushed, popped>>

(* delete old_head.                                                        *)
DeleteOld(t) ==
  /\ pc[t] = "deleteOld"
  /\ live' = live \ {old[t]}
  /\ Goto(t, "idle")
  /\ UNCHANGED <<head, to_be_deleted, threads_in_pop, next, data, old, nxt, chain, crashed, ops, pushed, popped>>

(* --threads_in_pop after chaining.                                        *)
LeaveLast(t) ==
  /\ pc[t] = "leaveLast"
  /\ threads_in_pop' = threads_in_pop - 1
  /\ Goto(t, "idle")
  /\ UNCHANGED <<head, to_be_deleted, next, data, live, old, nxt, chain, crashed, ops, pushed, popped>>

Step(t) ==
  \/ Push(t) \/ PushCas(t)
  \/ PopEnter(t) \/ PopLoad(t) \/ PopReadNext(t) \/ PopCas(t) \/ PopSwap(t)
  \/ TestAlone(t) \/ Claim(t) \/ Leave(t)
  \/ ChainLoad(t) \/ ChainCas(t) \/ DeleteOld(t) \/ LeaveLast(t)

Next == ~crashed /\ \E t \in Threads : Step(t)

Spec == Init /\ [][Next]_vars

-----------------------------------------------------------------------------
TypeOK ==
  /\ head \in Nodes \union {Null} /\ to_be_deleted \in Nodes \union {Null}
  /\ threads_in_pop \in 0..Cardinality(Threads)
  /\ next \in [Nodes -> Nodes \union {Null}]
  /\ live \subseteq Nodes
  /\ pc \in [Threads -> PC]
  /\ old \in [Threads -> Nodes \union {Null}]

(* No thread is about to read, write or delete a node that has been        *)
(* deleted, and no list leads to one.                                      *)
NoUseAfterFree ==
  /\ \A t \in Threads :
       /\ pc[t] \in {"readNext", "swap", "chainOld", "chainOldCas"} => old[t] \in live
       /\ pc[t] = "deleteOld" /\ old[t] # Null => old[t] \in live
       /\ pc[t] \in {"chainBack", "chainBackCas"} => chain[t].last \in live
  /\ ListFrom(head) \union ListFrom(to_be_deleted) \subseteq live

(* Every value pushed is popped at most once and, when no call is in       *)
(* progress, is either popped or on the stack: none is lost or returned    *)
(* twice, although nodes are used again, and no pop() finds its node       *)
(* emptied by another.                                                     *)
EachPoppedOnce ==
  LET returned == {popped[i] : i \in DOMAIN popped}
      kept     == {data[n] : n \in ListFrom(head)}
  IN  /\ 0 \notin returned
      /\ \A a, b \in DOMAIN popped : popped[a] = popped[b] => a = b
      /\ (\A t \in Threads : pc[t] = "idle") =>
           returned \union kept = 1..pushed /\ returned \intersect kept = {}
=============================================================================
