-------------------------- MODULE ConcurrencyProofs --------------------------
(***************************************************************************)
(* Proofs about the studies of concurrency.                                *)
(*                                                                         *)
(* ReclaimingStack, for any number of threads, nodes and calls: no thread  *)
(* uses a node that has been deleted, and every value is popped once,      *)
(* although nodes are used again.                                          *)
(*                                                                         *)
(* The argument.  Every node has an owner: nobody (free), the stack, the   *)
(* list of nodes to be deleted, or one thread, in one of five roles.       *)
(*   new      allocated by a push() that has not succeeded yet             *)
(*   won      taken off the stack by a pop() that has not swapped the data *)
(*   taken    the same after the swap, before the count is tested          *)
(*   doomed   its owner found itself alone in pop() and will delete it     *)
(*   chain    in a list the owner has claimed, or is about to chain        *)
(* A thread in the loop of pop() holds a node it does not own.  It is safe *)
(* because a node becomes doomed, or is deleted from a claimed list, only  *)
(* when the count says that nobody else is in pop(), and what is loaded    *)
(* from head later is owned by the stack.                                  *)
(*                                                                         *)
(* TurnTaking, for any N and all of its classes: what is printed is what   *)
(* the exercise asks for.  One thread at most has the turn, and the counts *)
(* and the semaphores say which.                                           *)
(***************************************************************************)
EXTENDS Programs, SequenceTheorems, FiniteSetTheorems, WellFoundedInduction, TLAPS

USE StackConstants DEF StackConstants

-----------------------------------------------------------------------------
(* Who owns a node: k gives the role, b the thread.                        *)
Kinds == {"free", "new", "stack", "won", "taken", "doomed", "chain", "pending"}

OnStack(k)    == {n \in Nodes : k[n] = "stack"}
Pending(k)    == {n \in Nodes : k[n] = "pending"}
Mine(k, b, t) == {n \in Nodes : k[n] = "chain" /\ b[n] = t}
Full(k)       == {n \in Nodes : k[n] \in {"new", "stack", "won"}}

(* Between the increment and the decrement of threads_in_pop; where a      *)
(* thread has a chain; where old is a node only this thread may delete.    *)
InPop    == {"load", "readNext", "cas", "swap", "test", "claim", "leave", "chainOld",
             "chainOldCas", "leaveLast"}
ChainPcs == {"leave", "chainBack", "chainBackCas", "chainOld", "chainOldCas"}
DoomPcs  == {"claim", "leave", "chainBack", "chainBackCas", "deleteOld"}

(* A walk within the set comes to an end.                                  *)
Ends(set) == \A part \in SUBSET set :
               part # {} /\ Stack!Closed(part) => \E n \in part : next[n] = Stack!Null

(* The stack is a list that begins at head and has no node twice.          *)
StackOK(k) ==
  /\ head # Stack!Null => head \in OnStack(k)
  /\ Stack!Closed(OnStack(k))
  /\ OnStack(k) \subseteq Stack!ListFrom(head)
  /\ \A n \in OnStack(k) : next[n] # head
  /\ \A m, n \in OnStack(k) : next[m] = next[n] /\ next[n] # Stack!Null => m = n

(* The list of nodes to be deleted begins at to_be_deleted and ends.       *)
PendingOK(k) ==
  /\ to_be_deleted # Stack!Null => to_be_deleted \in Pending(k)
  /\ to_be_deleted = Stack!Null => Pending(k) = {}
  /\ Stack!Closed(Pending(k))
  /\ Ends(Pending(k))

(* What a thread owns, by where it is.                                     *)
OwnsOld(k, b, t) ==
  /\ stackPc[t] = "pushCas" => old[t] # Stack!Null /\ k[old[t]] = "new" /\ b[old[t]] = t
  /\ stackPc[t] = "swap" => old[t] # Stack!Null /\ k[old[t]] = "won" /\ b[old[t]] = t
  /\ stackPc[t] = "test" /\ old[t] # Stack!Null => k[old[t]] = "taken" /\ b[old[t]] = t
  /\ stackPc[t] \in DoomPcs /\ old[t] # Stack!Null => k[old[t]] = "doomed" /\ b[old[t]] = t

(* The list a thread has claimed or is about to chain: only its last node  *)
(* may lead out of it.                                                     *)
OwnsChain(k, b, t) ==
  /\ stackPc[t] \in ChainPcs /\ chain[t].first # Stack!Null =>
       /\ chain[t].first \in Mine(k, b, t) /\ chain[t].last \in Mine(k, b, t)
       /\ \A n \in Mine(k, b, t) :
            n # chain[t].last => next[n] \in Mine(k, b, t) \union {Stack!Null}
       /\ Ends(Mine(k, b, t) \ {chain[t].last})
       /\ stackPc[t] \in {"leave", "chainBack"} => next[chain[t].last] = Stack!Null
  /\ stackPc[t] \in ChainPcs \ {"leave"} => chain[t].first # Stack!Null
  /\ stackPc[t] \in {"chainOld", "chainOldCas"} => chain[t] = [first |-> old[t], last |-> old[t]]

(* What a thread in the loop of pop() holds is not about to be deleted,    *)
(* and while it is on the stack its next is the one the thread has read:   *)
(* the exchange cannot mistake a node for an earlier use of it.            *)
Holds(k, t) ==
  /\ stackPc[t] \in {"readNext", "cas"} =>
       old[t] # Stack!Null /\ k[old[t]] \notin {"free", "new", "doomed"}
  /\ stackPc[t] = "cas" /\ k[old[t]] = "stack" => nxt[t] = next[old[t]]

(* A node of a thread is one the thread knows of.                          *)
Known(k, b, n) ==
  /\ k[n] = "new" => b[n] \in StackThreads /\ stackPc[b[n]] = "pushCas" /\ old[b[n]] = n
  /\ k[n] = "won" => b[n] \in StackThreads /\ stackPc[b[n]] = "swap" /\ old[b[n]] = n
  /\ k[n] = "chain" => /\ b[n] \in StackThreads /\ stackPc[b[n]] \in ChainPcs
                       /\ chain[b[n]].first # Stack!Null

(* A value pushed is on one node or has been returned, once.               *)
Returned == {popped[i] : i \in DOMAIN popped}

(* The nodes of Full are the ones that carry a value.                      *)
ValuesOK(k) ==
  /\ \A n \in Full(k) : data[n] \in 1..pushed /\ data[n] \notin Returned
  /\ \A m, n \in Full(k) : data[m] = data[n] => m = n
  /\ \A v \in 1..pushed : v \in Returned \/ \E n \in Full(k) : data[n] = v
  /\ Returned \subseteq 1..pushed
  /\ \A i, m \in DOMAIN popped : popped[i] = popped[m] => i = m

(* k and b are an account of who owns what.                                *)
Owned(k, b) ==
  /\ k \in [Nodes -> Kinds] /\ b \in [Nodes -> StackThreads \union {Stack!Null}]
  /\ \A n \in Nodes : k[n] # "free" => n \in live
  /\ StackOK(k) /\ PendingOK(k)
  /\ \A t \in StackThreads : OwnsOld(k, b, t) /\ OwnsChain(k, b, t) /\ Holds(k, t)
  /\ \A n \in Nodes : Known(k, b, n)
  /\ ValuesOK(k)

(* The count is that of the threads in pop().                              *)
InPopNow == {t \in StackThreads : stackPc[t] \in InPop}

(* The ranges, those of the history variables included, and the count.     *)
Types ==
  /\ Stack!TypeOK
  /\ nxt \in [StackThreads -> Nodes \union {Stack!Null}]
  /\ chain \in [StackThreads -> [first : Nodes \union {Stack!Null}, last : Nodes \union {Stack!Null}]]
  /\ data \in [Nodes -> Nat] /\ pushed \in Nat /\ popped \in Seq(Nat)
  /\ threads_in_pop = Cardinality(InPopNow)

(* The invariant: some account of the ownership is right.                  *)
StackInv == Types /\ \E k, b : Owned(k, b)


-----------------------------------------------------------------------------
(* Cardinality in the instance of ReclaimingStack is Cardinality.          *)
LEMMA NumberOfThreads == Stack!Cardinality(StackThreads) = Cardinality(StackThreads)
  BY DEF Stack!Cardinality, Cardinality

(* A closed set that has the first node has the list; the list is closed.  *)
LEMMA ListWithin ==
  ASSUME NEW set \in SUBSET Nodes, Stack!Closed(set), NEW h, h \in set \union {Stack!Null}
  PROVE  Stack!ListFrom(h) \subseteq set
  BY DEF Stack!ListFrom

(* The list from h is a set of nodes that is closed and has h.             *)
LEMMA ListIsClosed ==
  ASSUME Types, NEW h \in Nodes \union {Stack!Null}
  PROVE  /\ Stack!ListFrom(h) \in SUBSET Nodes /\ Stack!Closed(Stack!ListFrom(h))
         /\ h # Stack!Null => h \in Stack!ListFrom(h)
  <1>1. Stack!ListFrom(h) \in SUBSET Nodes /\ (h # Stack!Null => h \in Stack!ListFrom(h))
    BY DEF Stack!ListFrom
  <1>2. ASSUME NEW m \in Stack!ListFrom(h), next[m] # Stack!Null
        PROVE  next[m] \in Stack!ListFrom(h)
    <2>1. m \in Nodes /\ next[m] \in Nodes
      BY <1>2 DEF Types, Stack!TypeOK, Stack!ListFrom
    <2>2. ASSUME NEW set \in SUBSET Nodes, Stack!Closed(set), h \in set \union {Stack!Null}
          PROVE  next[m] \in set
      <3>1. m \in set
        BY <2>2 DEF Stack!ListFrom
      <3>. QED
        BY <1>2, <2>2, <3>1 DEF Stack!Closed
    <2>. QED
      BY <2>1, <2>2 DEF Stack!ListFrom
  <1>. QED
    BY <1>1, <1>2 DEF Stack!Closed

(* No node can be reached from the null pointer.                           *)
LEMMA EmptyList == Stack!ListFrom(Stack!Null) = {}
  <1>1. {} \in SUBSET Nodes /\ Stack!Closed({}) /\ Stack!Null \in {} \union {Stack!Null}
    BY DEF Stack!Closed
  <1>2. Stack!ListFrom(Stack!Null) \subseteq {}
    BY <1>1, ListWithin
  <1>. QED
    BY <1>2

(* The walk of chain_pending_nodes finds the end of the list.              *)
LEMMA WalkEnds ==
  ASSUME Types, NEW k, PendingOK(k), to_be_deleted # Stack!Null
  PROVE  /\ Stack!ListFrom(to_be_deleted) # {}
         /\ Stack!LastOf(Stack!ListFrom(to_be_deleted)) \in Pending(k)
         /\ next[Stack!LastOf(Stack!ListFrom(to_be_deleted))] = Stack!Null
  <1>. DEFINE list == Stack!ListFrom(to_be_deleted)
  <1>1. Pending(k) \in SUBSET Nodes /\ to_be_deleted \in Pending(k) /\ Stack!Closed(Pending(k))
        /\ Ends(Pending(k))
    BY DEF PendingOK, Pending
  <1>2. list \subseteq Pending(k)
    BY <1>1, ListWithin
  <1>3. Stack!Closed(list) /\ list # {}
    BY <1>1, ListIsClosed
  <1>4. PICK n \in list : next[n] = Stack!Null
    BY <1>1, <1>2, <1>3 DEF Ends
  <1>. HIDE DEF list
  <1>5. Stack!LastOf(list) \in list /\ next[Stack!LastOf(list)] = Stack!Null
    BY <1>4 DEF Stack!LastOf
  <1>. QED
    BY <1>2, <1>3, <1>5 DEF list

-----------------------------------------------------------------------------
(* What a step leaves alone where it does not write.                       *)
LEMMA ClosedFrame ==
  ASSUME NEW set, \A n \in set : next'[n] = next[n]
  PROVE  Stack!Closed(set)' <=> Stack!Closed(set)
  BY DEF Stack!Closed

(* What becomes of a set whose nodes a step does not relink.               *)
LEMMA EndsFrame ==
  ASSUME NEW set, \A n \in set : next'[n] = next[n], Ends(set)
  PROVE  Ends(set)'
  <1>. SUFFICES ASSUME NEW part \in SUBSET set, part # {}, Stack!Closed(part)'
                PROVE  \E n \in part : next'[n] = Stack!Null
    BY DEF Ends
  <1>1. Stack!Closed(part)
    BY ClosedFrame
  <1>. QED
    BY <1>1 DEF Ends

(* A step that leaves head and the nodes of the stack alone.               *)
LEMMA StackFrame ==
  ASSUME NEW k, StackOK(k), head' = head, \A n \in OnStack(k) : next'[n] = next[n],
         NEW k2, OnStack(k2) = OnStack(k)
  PROVE  StackOK(k2)'
  <1>. DEFINE S == OnStack(k)
  <1>1. S \in SUBSET Nodes
    BY DEF OnStack
  <1>2. Stack!Closed(S)'
    BY ClosedFrame DEF StackOK
  <1>3. ASSUME NEW X \in SUBSET Nodes, Stack!Closed(X)', head' \in X \union {Stack!Null}
        PROVE  S \subseteq X
    <2>1. Stack!Closed(X \intersect S)
      BY <1>3 DEF Stack!Closed, StackOK
    <2>2. head \in (X \intersect S) \union {Stack!Null} /\ X \intersect S \in SUBSET Nodes
      BY <1>3, <1>1 DEF StackOK
    <2>. QED
      BY <2>1, <2>2, ListWithin DEF StackOK
  <1>4. S \subseteq Stack!ListFrom(head)'
    BY <1>1, <1>3 DEF Stack!ListFrom
  <1>5. OnStack(k2)' = S
    BY DEF OnStack
  <1>. QED
    BY <1>2, <1>4, <1>5 DEF StackOK

(* A step that leaves the list of nodes to be deleted alone.               *)
LEMMA PendingFrame ==
  ASSUME NEW k, PendingOK(k), to_be_deleted' = to_be_deleted,
         \A n \in Pending(k) : next'[n] = next[n], NEW k2, Pending(k2) = Pending(k)
  PROVE  PendingOK(k2)'
  <1>. DEFINE P == Pending(k)
  <1>1. Stack!Closed(P)' /\ Ends(P)'
    BY ClosedFrame, EndsFrame DEF PendingOK
  <1>2. Pending(k2)' = P
    BY DEF Pending
  <1>. QED
    BY <1>1, <1>2 DEF PendingOK


(* Roles in which a node is a thread's.                                    *)
ThreadKinds == {"new", "won", "taken", "doomed", "chain"}

(* Nobody but t moves: another thread's state is what it was, and so are   *)
(* the nodes it owns.                                                      *)
OnlyMoves(t) ==
  \A u \in StackThreads \ {t} : /\ stackPc'[u] = stackPc[u] /\ old'[u] = old[u]
                           /\ nxt'[u] = nxt[u] /\ chain'[u] = chain[u]

(* The new account leaves what other threads own to them, and no other     *)
(* thread gets a chain from it.                                            *)
Respects(k, b, k2, b2, t) ==
  \A n \in Nodes :
    /\ k[n] \in ThreadKinds /\ b[n] # t => k2[n] = k[n] /\ b2[n] = b[n] /\ next'[n] = next[n]
    /\ k2[n] = "chain" /\ b2[n] # t => k[n] = "chain" /\ b2[n] = b[n]

(* The node another thread owns stays its own.                             *)
LEMMA OldFrame ==
  ASSUME Types, NEW k, NEW b, NEW k2, NEW b2, NEW t \in StackThreads, OnlyMoves(t),
         Respects(k, b, k2, b2, t),
         NEW u \in StackThreads, u # t, OwnsOld(k, b, u)
  PROVE  OwnsOld(k2, b2, u)'
  <1>1. stackPc'[u] = stackPc[u] /\ old'[u] = old[u]
    BY DEF OnlyMoves
  <1>2. old[u] # Stack!Null => old[u] \in Nodes
    BY DEF Types, Stack!TypeOK
  <1>3. old[u] # Stack!Null /\ k[old[u]] \in ThreadKinds /\ b[old[u]] = u =>
          k2[old[u]] = k[old[u]] /\ b2[old[u]] = b[old[u]]
    BY <1>2 DEF Respects
  <1>. QED
    BY <1>1, <1>3 DEF OwnsOld, ThreadKinds

(* The list another thread has claimed stays its own.                      *)
LEMMA ChainFrame ==
  ASSUME Types, NEW k, NEW b, NEW k2, NEW b2, NEW t \in StackThreads, OnlyMoves(t),
         Respects(k, b, k2, b2, t),
         NEW u \in StackThreads, u # t, OwnsChain(k, b, u)
  PROVE  OwnsChain(k2, b2, u)'
  <1>. DEFINE M == Mine(k, b, u)
  <1>1. stackPc'[u] = stackPc[u] /\ old'[u] = old[u] /\ chain'[u] = chain[u]
    BY DEF OnlyMoves
  <1>2. Mine(k2, b2, u)' = M
    BY DEF Mine, Respects, ThreadKinds
  <1>3. \A n \in M : next'[n] = next[n]
    BY DEF Mine, Respects, ThreadKinds
  <1>4. \A n \in M \ {chain[u].last} : next'[n] = next[n]
    BY <1>3
  <1>5. Ends(M \ {chain[u].last}) => Ends(M \ {chain[u].last})'
    <2>. DEFINE X == M \ {chain[u].last}
    <2>1. (X)' = X
      BY <1>1, <1>2 DEF Mine
    <2>. PICK Y : Y = X
      OBVIOUS
    <2>2. \A n \in Y : next'[n] = next[n]
      BY <1>4
    <2>3. Ends(Y) => Ends(Y)'
      BY <2>2, EndsFrame
    <2>. QED
      BY <2>1, <2>3
  <1>. QED
    BY <1>1, <1>2, <1>3, <1>5 DEF OwnsChain


(* A node that another thread may hold stays one that it may hold, and one *)
(* that is on the stack was so before and points where it did.             *)
Keeps(k, k2) ==
  \A n \in Nodes : k[n] \notin {"free", "new", "doomed"} =>
    /\ k2[n] \notin {"free", "new", "doomed"}
    /\ k2[n] = "stack" => k[n] = "stack" /\ next'[n] = next[n]

(* What another thread in the loop of pop() holds stays safe.              *)
LEMMA HoldsFrame ==
  ASSUME Types, NEW k, NEW k2, NEW t \in StackThreads, OnlyMoves(t),
         NEW u \in StackThreads, u # t, Holds(k, u),
         stackPc[u] \in {"readNext", "cas"} => Keeps(k, k2)
  PROVE  Holds(k2, u)'
  <1>1. stackPc'[u] = stackPc[u] /\ old'[u] = old[u] /\ nxt'[u] = nxt[u]
    BY DEF OnlyMoves
  <1>2. old[u] # Stack!Null => old[u] \in Nodes
    BY DEF Types, Stack!TypeOK
  <1>. QED
    BY <1>1, <1>2 DEF Holds, Keeps

(* A node of another thread is still one that thread knows of.             *)
LEMMA KnownFrame ==
  ASSUME NEW k, NEW b, NEW k2, NEW b2, NEW t \in StackThreads, OnlyMoves(t),
         NEW n \in Nodes, Known(k, b, n), k2[n] = k[n], b2[n] = b[n], b[n] # t
  PROVE  Known(k2, b2, n)'
  BY DEF Known, OnlyMoves

(* A step that moves no value.                                             *)
LEMMA ValuesFrame ==
  ASSUME NEW k, NEW k2, ValuesOK(k), Full(k2) = Full(k),
         \A n \in Full(k) : data'[n] = data[n], pushed' = pushed, popped' = popped
  PROVE  ValuesOK(k2)'
  <1>1. Full(k2)' = Full(k) /\ Returned' = Returned
    BY DEF Full, Returned
  <1>. QED
    BY <1>1 DEF ValuesOK

(* A step of t keeps the ownership if it does so for t itself.             *)
LEMMA Frame ==
  ASSUME Types, NEW k, NEW b, Owned(k, b),
         NEW k2 \in [Nodes -> Kinds], NEW b2 \in [Nodes -> StackThreads \union {Stack!Null}],
         NEW t \in StackThreads, OnlyMoves(t), Respects(k, b, k2, b2, t),
         \A u \in StackThreads : u # t /\ stackPc[u] \in {"readNext", "cas"} => Keeps(k, k2),
         \A n \in Nodes : k2[n] # "free" => n \in live',
         StackOK(k2)', PendingOK(k2)',
         OwnsOld(k2, b2, t)', OwnsChain(k2, b2, t)', Holds(k2, t)',
         \A n \in Nodes : Known(k2, b2, n)',
         ValuesOK(k2)'
  PROVE  Owned(k2, b2)'
  <1>1. ASSUME NEW u \in StackThreads, u # t
        PROVE  OwnsOld(k2, b2, u)' /\ OwnsChain(k2, b2, u)' /\ Holds(k2, u)'
    BY <1>1, OldFrame, ChainFrame, HoldsFrame DEF Owned
  <1>. QED
    BY <1>1 DEF Owned

(* When the count is one, nobody else is in pop().                         *)
LEMMA Alone ==
  ASSUME Types, threads_in_pop = 1, NEW t \in StackThreads, stackPc[t] \in InPop
  PROVE  \A u \in StackThreads : u # t => stackPc[u] \notin InPop
  <1>1. IsFiniteSet(InPopNow) /\ t \in InPopNow /\ Cardinality(InPopNow) = 1
    <2>1. InPopNow \subseteq StackThreads /\ t \in InPopNow
      BY DEF InPopNow
    <2>. QED
      BY <2>1, FS_Subset DEF Types
  <1>2. PICK x : InPopNow = {x}
    BY <1>1, FS_Singleton
  <1>. QED
    BY <1>1, <1>2 DEF InPopNow

(* How the number of threads in pop() follows a move of one of them.       *)
LEMMA CountFrame ==
  ASSUME Types, NEW t \in StackThreads, stackPc' \in [StackThreads -> Stack!PC],
         \A u \in StackThreads : u # t => stackPc'[u] = stackPc[u]
  PROVE  /\ stackPc[t] \in InPop /\ stackPc'[t] \in InPop => Cardinality(InPopNow') = threads_in_pop
         /\ stackPc[t] \notin InPop /\ stackPc'[t] \notin InPop => Cardinality(InPopNow') = threads_in_pop
         /\ stackPc[t] \notin InPop /\ stackPc'[t] \in InPop =>
              Cardinality(InPopNow') = threads_in_pop + 1
         /\ stackPc[t] \in InPop /\ stackPc'[t] \notin InPop =>
              Cardinality(InPopNow') = threads_in_pop - 1
         /\ Cardinality(InPopNow') \in 0..Cardinality(StackThreads)
  <1>1. IsFiniteSet(InPopNow) /\ threads_in_pop = Cardinality(InPopNow)
    BY FS_Subset DEF Types, InPopNow
  <1>2. (stackPc[t] \in InPop <=> stackPc'[t] \in InPop) => InPopNow' = InPopNow
    BY DEF InPopNow
  <1>3. stackPc[t] \notin InPop /\ stackPc'[t] \in InPop => InPopNow' = InPopNow \union {t} /\ t \notin InPopNow
    BY DEF InPopNow
  <1>4. stackPc[t] \in InPop /\ stackPc'[t] \notin InPop => InPopNow' = InPopNow \ {t} /\ t \in InPopNow
    BY DEF InPopNow
  <1>5. InPopNow' \subseteq StackThreads
    BY DEF InPopNow
  <1>6. Cardinality(InPopNow') \in Nat /\ Cardinality(StackThreads) \in Nat
        /\ Cardinality(InPopNow') <= Cardinality(StackThreads)
    BY <1>5, FS_Subset, FS_CardinalityType
  <1>. QED
    BY <1>1, <1>2, <1>3, <1>4, <1>6, FS_AddElement, FS_RemoveElement


-----------------------------------------------------------------------------
(* The types, and the count of the threads in pop().                       *)
LEMMA TypesStep ==
  ASSUME Types, NEW k, NEW b, Owned(k, b), NEW t \in StackThreads, Stack!Step(t)
  PROVE  Types' /\ OnlyMoves(t)
  <1>. DEFINE Ref == Nodes \union {Stack!Null}
  <1>0. /\ head \in Ref /\ to_be_deleted \in Ref /\ threads_in_pop \in Nat
        /\ next \in [Nodes -> Ref] /\ live \subseteq Nodes /\ stackPc \in [StackThreads -> Stack!PC]
        /\ old \in [StackThreads -> Ref] /\ nxt \in [StackThreads -> Ref]
        /\ chain \in [StackThreads -> [first : Ref, last : Ref]]
        /\ data \in [Nodes -> Nat] /\ pushed \in Nat /\ popped \in Seq(Nat)
    BY FS_CardinalityType DEF Types, Stack!TypeOK
  <1>a. Stack!Null \in Ref
    OBVIOUS
  <1>. HIDE DEF Ref
  <1>1. CASE Stack!Push(t)
    <2>1. PICK n \in Nodes \ live :
             /\ live' = live \union {n} /\ data' = [data EXCEPT ![n] = pushed + 1]
             /\ next' = [next EXCEPT ![n] = head] /\ old' = [old EXCEPT ![t] = n]
      BY <1>1 DEF Stack!Push
    <2>2. n \in Ref
      BY DEF Ref
    <2>3. /\ live' \subseteq Nodes /\ next' \in [Nodes -> Ref]
          /\ old' \in [StackThreads -> Ref] /\ data' \in [Nodes -> Nat]
      BY <1>0, <2>1, <2>2
    <2>4. /\ stackPc[t] = "idle" /\ stackPc' = [stackPc EXCEPT ![t] = "pushCas"] /\ threads_in_pop' = threads_in_pop
          /\ pushed' = pushed + 1 /\ head' = head /\ to_be_deleted' = to_be_deleted
          /\ nxt' = nxt /\ chain' = chain /\ popped' = popped
      BY <1>1 DEF Stack!Push, Stack!Goto
    <2>5. stackPc' \in [StackThreads -> Stack!PC] /\ stackPc'[t] = "pushCas" /\ \A u \in StackThreads : u # t => stackPc'[u] = stackPc[u]
      BY <1>0, <2>4 DEF Stack!PC
    <2>6. /\ threads_in_pop' = Cardinality(InPopNow')
          /\ Cardinality(InPopNow') \in 0..Cardinality(StackThreads)
      BY <2>4, <2>5, CountFrame DEF InPop
    <2>7. OnlyMoves(t)
      BY <1>0, <2>1, <2>4, <2>5 DEF OnlyMoves
    <2>. QED
      BY <1>0, <2>3, <2>4, <2>5, <2>6, <2>7 DEF Types, Stack!TypeOK, Ref
  <1>2. CASE Stack!PushCas(t)
    <2>0. /\ stackPc[t] = "pushCas"
          /\ \/ head' = old[t] /\ next' = next /\ stackPc' = [stackPc EXCEPT ![t] = "idle"]
             \/ head' = head /\ next' = [next EXCEPT ![old[t]] = head] /\ stackPc' = stackPc
      BY <1>2 DEF Stack!PushCas, Stack!Goto
    <2>4. head' \in Ref
      BY <1>0, <2>0
    <2>5. next' \in [Nodes -> Ref]
      BY <1>0, <2>0
    <2>6. stackPc' \in [StackThreads -> Stack!PC]
      BY <1>0, <2>0 DEF Stack!PC
    <2>1. /\ stackPc[t] = "pushCas" /\ stackPc'[t] \in {"pushCas", "idle"}
          /\ \A u \in StackThreads : u # t => stackPc'[u] = stackPc[u]
      BY <1>0, <2>0
    <2>2. /\ to_be_deleted' = to_be_deleted /\ threads_in_pop' = threads_in_pop /\ data' = data
          /\ live' = live /\ old' = old /\ nxt' = nxt /\ chain' = chain /\ pushed' = pushed
          /\ popped' = popped
      BY <1>2 DEF Stack!PushCas
    <2>3. /\ threads_in_pop' = Cardinality(InPopNow')
          /\ Cardinality(InPopNow') \in 0..Cardinality(StackThreads)
      BY <2>1, <2>2, <2>6, CountFrame DEF InPop
    <2>. QED
      BY <1>0, <2>1, <2>2, <2>3, <2>4, <2>5, <2>6 DEF Types, Stack!TypeOK, Ref, OnlyMoves
  <1>3. CASE Stack!PopEnter(t) \/ Stack!LeaveLast(t) \/ Stack!DeleteOld(t)
    <2>1. /\ stackPc' \in [StackThreads -> Stack!PC]
          /\ \A u \in StackThreads : u # t => stackPc'[u] = stackPc[u]
          /\ live' \subseteq Nodes
          /\ \/ stackPc[t] = "idle" /\ stackPc'[t] = "load" /\ threads_in_pop' = threads_in_pop + 1
             \/ stackPc[t] = "leaveLast" /\ stackPc'[t] = "idle" /\ threads_in_pop' = threads_in_pop - 1
             \/ stackPc[t] = "deleteOld" /\ stackPc'[t] = "idle" /\ threads_in_pop' = threads_in_pop
      BY <1>0, <1>3 DEF Stack!PopEnter, Stack!LeaveLast, Stack!DeleteOld, Stack!Goto,
         Stack!PC
    <2>2. /\ head' = head /\ to_be_deleted' = to_be_deleted /\ next' = next /\ data' = data
          /\ old' = old /\ nxt' = nxt /\ chain' = chain /\ pushed' = pushed
          /\ popped' = popped
      BY <1>3 DEF Stack!PopEnter, Stack!LeaveLast, Stack!DeleteOld
    <2>3. /\ threads_in_pop' = Cardinality(InPopNow')
          /\ Cardinality(InPopNow') \in 0..Cardinality(StackThreads)
      BY <2>1, CountFrame DEF InPop
    <2>. QED
      BY <1>0, <2>1, <2>2, <2>3, NumberOfThreads DEF Types, Stack!TypeOK, Ref, OnlyMoves
  <1>4. CASE Stack!PopLoad(t) \/ Stack!PopReadNext(t) \/ Stack!PopCas(t)
    <2>0. stackPc[t] = "readNext" => next[old[t]] \in Ref
      <3>1. stackPc[t] = "readNext" => old[t] # Stack!Null
        BY DEF Owned, Holds
      <3>. QED
        BY <1>0, <3>1 DEF Ref
    <2>1. /\ stackPc' \in [StackThreads -> Stack!PC]
          /\ \A u \in StackThreads : u # t => stackPc'[u] = stackPc[u]
          /\ stackPc[t] \in InPop /\ stackPc'[t] \in InPop
      BY <1>0, <1>4 DEF Stack!PopLoad, Stack!PopReadNext, Stack!PopCas, Stack!Goto,
         Stack!PC, InPop
    <2>2. /\ old' \in [StackThreads -> Ref] /\ nxt' \in [StackThreads -> Ref] /\ head' \in Ref
          /\ \A u \in StackThreads : u # t => old'[u] = old[u] /\ nxt'[u] = nxt[u]
      BY <1>0, <1>4, <2>0 DEF Stack!PopLoad, Stack!PopReadNext, Stack!PopCas, Stack!shared
    <2>3. /\ to_be_deleted' = to_be_deleted /\ next' = next /\ data' = data
          /\ live' = live /\ chain' = chain /\ pushed' = pushed /\ popped' = popped
          /\ threads_in_pop' = threads_in_pop
      BY <1>4 DEF Stack!PopLoad, Stack!PopReadNext, Stack!PopCas, Stack!shared
    <2>4. /\ threads_in_pop' = Cardinality(InPopNow')
          /\ Cardinality(InPopNow') \in 0..Cardinality(StackThreads)
      BY <2>1, <2>3, CountFrame
    <2>. QED
      BY <1>0, <2>1, <2>2, <2>3, <2>4 DEF Types, Stack!TypeOK, Ref, OnlyMoves
  <1>5. CASE Stack!PopSwap(t)
    <2>0. old[t] \in Nodes
      BY <1>0, <1>5 DEF Owned, OwnsOld, Stack!PopSwap, Ref
    <2>1. /\ stackPc' \in [StackThreads -> Stack!PC]
          /\ \A u \in StackThreads : u # t => stackPc'[u] = stackPc[u]
          /\ stackPc[t] = "swap" /\ stackPc'[t] = "test"
      BY <1>0, <1>5 DEF Stack!PopSwap, Stack!Goto, Stack!PC
    <2>2. data' \in [Nodes -> Nat] /\ popped' \in Seq(Nat)
      BY <1>0, <1>5, <2>0 DEF Stack!PopSwap
    <2>3. /\ head' = head /\ to_be_deleted' = to_be_deleted /\ next' = next
          /\ live' = live /\ chain' = chain /\ pushed' = pushed /\ old' = old /\ nxt' = nxt
          /\ threads_in_pop' = threads_in_pop
      BY <1>5 DEF Stack!PopSwap
    <2>4. /\ threads_in_pop' = Cardinality(InPopNow')
          /\ Cardinality(InPopNow') \in 0..Cardinality(StackThreads)
      BY <2>1, <2>3, CountFrame DEF InPop
    <2>. QED
      BY <1>0, <2>1, <2>2, <2>3, <2>4 DEF Types, Stack!TypeOK, Ref, OnlyMoves
  <1>6. CASE Stack!TestAlone(t)
    <2>1. /\ stackPc' \in [StackThreads -> Stack!PC]
          /\ \A u \in StackThreads : u # t => stackPc'[u] = stackPc[u]
          /\ stackPc[t] = "test" /\ stackPc'[t] \in {"claim", "chainOld", "test"}
      BY <1>0, <1>6 DEF Stack!TestAlone, Stack!Goto, Stack!PC
    <2>2. chain' \in [StackThreads -> [first : Ref, last : Ref]]
          /\ \A u \in StackThreads : u # t => chain'[u] = chain[u]
      BY <1>0, <1>6 DEF Stack!TestAlone
    <2>3. /\ head' = head /\ to_be_deleted' = to_be_deleted /\ next' = next /\ data' = data
          /\ live' = live /\ pushed' = pushed /\ old' = old /\ nxt' = nxt /\ popped' = popped
          /\ threads_in_pop' = threads_in_pop
      BY <1>6 DEF Stack!TestAlone, Stack!shared
    <2>4. /\ threads_in_pop' = Cardinality(InPopNow')
          /\ Cardinality(InPopNow') \in 0..Cardinality(StackThreads)
      BY <2>1, <2>3, CountFrame DEF InPop
    <2>. QED
      BY <1>0, <2>1, <2>2, <2>3, <2>4 DEF Types, Stack!TypeOK, Ref, OnlyMoves
  <1>7. CASE Stack!Claim(t)
    <2>. DEFINE list == Stack!ListFrom(to_be_deleted)
                c == IF list = {} THEN Stack!NoChain
                     ELSE [first |-> to_be_deleted, last |-> Stack!LastOf(list)]
    <2>1. c \in [first : Ref, last : Ref]
      <3>1. to_be_deleted = Stack!Null => list = {}
        BY EmptyList
      <3>2. to_be_deleted # Stack!Null => Stack!LastOf(list) \in Nodes
        BY WalkEnds DEF Owned, Pending
      <3>. QED
        BY <1>0, <3>1, <3>2 DEF Stack!NoChain, Ref
    <2>. HIDE DEF c
    <2>2. chain' = [chain EXCEPT ![t] = c]
      BY <1>7 DEF Stack!Claim, c
    <2>3. /\ stackPc' \in [StackThreads -> Stack!PC]
          /\ \A u \in StackThreads : u # t => stackPc'[u] = stackPc[u]
          /\ stackPc[t] = "claim" /\ stackPc'[t] = "leave"
      BY <1>0, <1>7 DEF Stack!Claim, Stack!Goto, Stack!PC
    <2>4. /\ head' = head /\ to_be_deleted' = Stack!Null /\ next' = next /\ data' = data
          /\ live' = live /\ pushed' = pushed /\ old' = old /\ nxt' = nxt /\ popped' = popped
          /\ threads_in_pop' = threads_in_pop
      BY <1>7 DEF Stack!Claim
    <2>5. /\ threads_in_pop' = Cardinality(InPopNow')
          /\ Cardinality(InPopNow') \in 0..Cardinality(StackThreads)
      BY <2>3, <2>4, CountFrame DEF InPop
    <2>6. chain' \in [StackThreads -> [first : Ref, last : Ref]]
          /\ \A u \in StackThreads : u # t => chain'[u] = chain[u]
      BY <1>0, <2>1, <2>2
    <2>. QED
      BY <1>0, <1>a, <2>3, <2>4, <2>5, <2>6 DEF Types, Stack!TypeOK, Ref, OnlyMoves
  <1>8. CASE Stack!Leave(t)
    <2>1. /\ stackPc' \in [StackThreads -> Stack!PC]
          /\ \A u \in StackThreads : u # t => stackPc'[u] = stackPc[u]
          /\ stackPc[t] = "leave" /\ stackPc'[t] \in {"deleteOld", "chainBack"} /\ live' \subseteq Nodes
      BY <1>0, <1>8 DEF Stack!Leave, Stack!Goto, Stack!PC
    <2>2. /\ head' = head /\ to_be_deleted' = to_be_deleted /\ next' = next /\ data' = data
          /\ pushed' = pushed /\ old' = old /\ nxt' = nxt /\ popped' = popped /\ chain' = chain
          /\ threads_in_pop' = threads_in_pop - 1
      BY <1>8 DEF Stack!Leave
    <2>3. /\ threads_in_pop' = Cardinality(InPopNow')
          /\ Cardinality(InPopNow') \in 0..Cardinality(StackThreads)
      BY <2>1, <2>2, CountFrame DEF InPop
    <2>. QED
      BY <1>0, <2>1, <2>2, <2>3, NumberOfThreads DEF Types, Stack!TypeOK, Ref, OnlyMoves
  <1>9. CASE Stack!ChainLoad(t) \/ Stack!ChainCas(t)
    <2>0. chain[t].first \in Ref
      BY <1>0
    <2>1. /\ stackPc' \in [StackThreads -> Stack!PC]
          /\ \A u \in StackThreads : u # t => stackPc'[u] = stackPc[u]
          /\ \/ stackPc[t] \in {"chainBack", "chainBackCas"} /\ stackPc'[t] \in {"chainBackCas", "deleteOld"}
             \/ stackPc[t] \in {"chainOld", "chainOldCas"} /\ stackPc'[t] \in {"chainOldCas", "leaveLast"}
      BY <1>0, <1>9 DEF Stack!ChainLoad, Stack!ChainCas, Stack!Goto, Stack!PC
    <2>2. next' \in [Nodes -> Ref] /\ to_be_deleted' \in Ref
      BY <1>0, <1>9, <2>0 DEF Stack!ChainLoad, Stack!ChainCas
    <2>3. /\ head' = head /\ data' = data /\ live' = live
          /\ pushed' = pushed /\ old' = old /\ nxt' = nxt /\ popped' = popped /\ chain' = chain
          /\ threads_in_pop' = threads_in_pop
      BY <1>9 DEF Stack!ChainLoad, Stack!ChainCas
    <2>4. /\ threads_in_pop' = Cardinality(InPopNow')
          /\ Cardinality(InPopNow') \in 0..Cardinality(StackThreads)
      BY <2>1, <2>3, CountFrame DEF InPop
    <2>. QED
      BY <1>0, <2>1, <2>2, <2>3, <2>4 DEF Types, Stack!TypeOK, Ref, OnlyMoves
  <1>. QED
    BY <1>1, <1>2, <1>3, <1>4, <1>5, <1>6, <1>7, <1>8, <1>9 DEF Stack!Step


-----------------------------------------------------------------------------
(* Steps that change no node and no list: only t's own place matters.      *)
LEMMA QuietFrame ==
  ASSUME Types, NEW k, NEW b, Owned(k, b), NEW t \in StackThreads, OnlyMoves(t),
         head' = head, to_be_deleted' = to_be_deleted, next' = next, live' = live,
         data' = data, pushed' = pushed, popped' = popped,
         OwnsOld(k, b, t)', OwnsChain(k, b, t)', Holds(k, t)',
         \A n \in Nodes : b[n] = t => Known(k, b, n)'
  PROVE  Owned(k, b)'
  <1>1. /\ k \in [Nodes -> Kinds] /\ b \in [Nodes -> StackThreads \union {Stack!Null}]
        /\ \A n \in Nodes : k[n] # "free" => n \in live
        /\ StackOK(k) /\ PendingOK(k) /\ ValuesOK(k)
        /\ \A n \in Nodes : Known(k, b, n)
    BY DEF Owned
  <1>2. StackOK(k)'
    BY <1>1, StackFrame
  <1>3. PendingOK(k)'
    BY <1>1, PendingFrame
  <1>4. ValuesOK(k)'
    BY <1>1, ValuesFrame
  <1>5. Respects(k, b, k, b, t) /\ Keeps(k, k)
    BY DEF Respects, Keeps
  <1>6. \A n \in Nodes : Known(k, b, n)'
    BY <1>1, KnownFrame
  <1>. QED
    BY <1>1, <1>2, <1>3, <1>4, <1>5, <1>6, Frame

(* Entering pop(), loading the head, reading next, leaving after chaining. *)
LEMMA QuietSteps ==
  ASSUME Types, NEW k, NEW b, Owned(k, b), NEW t \in StackThreads, OnlyMoves(t),
         \/ Stack!PopEnter(t) \/ Stack!PopLoad(t) \/ Stack!PopReadNext(t) \/ Stack!LeaveLast(t)
         \/ Stack!PopCas(t) /\ head # old[t]
  PROVE  Owned(k, b)'
  <1>1. /\ head' = head /\ to_be_deleted' = to_be_deleted /\ next' = next /\ live' = live
        /\ data' = data /\ pushed' = pushed /\ popped' = popped /\ chain' = chain
    BY DEF Stack!PopEnter, Stack!PopLoad, Stack!PopReadNext, Stack!LeaveLast,
       Stack!PopCas, Stack!shared
  <1>2. stackPc \in [StackThreads -> Stack!PC] /\ old \in [StackThreads -> Nodes \union {Stack!Null}]
        /\ nxt \in [StackThreads -> Nodes \union {Stack!Null}]
    BY DEF Types, Stack!TypeOK
  <1>3. \/ stackPc[t] = "idle" /\ stackPc'[t] = "load"
        \/ stackPc[t] = "leaveLast" /\ stackPc'[t] = "idle"
        \/ /\ stackPc[t] \in {"load", "cas"} /\ old'[t] = head
           /\ stackPc'[t] = IF head = Stack!Null THEN "test" ELSE "readNext"
        \/ /\ stackPc[t] = "readNext" /\ stackPc'[t] = "cas" /\ old'[t] = old[t]
           /\ nxt'[t] = next[old[t]]
    BY <1>2 DEF Stack!PopEnter, Stack!PopLoad, Stack!PopReadNext, Stack!LeaveLast,
       Stack!PopCas, Stack!Goto
  <1>4. OwnsOld(k, b, t)'
    BY <1>3 DEF OwnsOld, DoomPcs
  <1>5. OwnsChain(k, b, t)'
    BY <1>3 DEF OwnsChain, ChainPcs
  <1>6. Holds(k, t)'
    <2>1. head # Stack!Null => k[head] = "stack"
      BY DEF Owned, StackOK, OnStack
    <2>2. Holds(k, t)
      BY DEF Owned
    <2>. QED
      BY <1>1, <1>3, <2>1, <2>2 DEF Holds
  <1>7. \A n \in Nodes : b[n] = t => Known(k, b, n)'
    <2>1. \A n \in Nodes : b[n] = t => k[n] \notin {"new", "won", "chain"}
      BY <1>3 DEF Owned, Known, ChainPcs
    <2>. QED
      BY <2>1 DEF Known
  <1>. QED
    BY <1>1, <1>4, <1>5, <1>6, <1>7, QuietFrame

(* A push() that has not succeeded yet.                                    *)
LEMMA PushStep ==
  ASSUME Types, NEW k, NEW b, Owned(k, b), NEW t \in StackThreads, OnlyMoves(t),
         Stack!Push(t)
  PROVE  \E k2, b2 : Owned(k2, b2)'
  <1>1. PICK n \in Nodes \ live :
           /\ live' = live \union {n} /\ data' = [data EXCEPT ![n] = pushed + 1]
           /\ next' = [next EXCEPT ![n] = head] /\ old' = [old EXCEPT ![t] = n]
    BY DEF Stack!Push
  <1>2. PICK k2 : k2 = [k EXCEPT ![n] = "new"]
    OBVIOUS
  <1>3. PICK b2 : b2 = [b EXCEPT ![n] = t]
    OBVIOUS
  <1>4. /\ k \in [Nodes -> Kinds] /\ b \in [Nodes -> StackThreads \union {Stack!Null}]
        /\ \A m \in Nodes : k[m] # "free" => m \in live
        /\ StackOK(k) /\ PendingOK(k) /\ ValuesOK(k)
        /\ \A m \in Nodes : Known(k, b, m)
    BY DEF Owned
  <1>5. /\ stackPc[t] = "idle" /\ stackPc'[t] = "pushCas" /\ old'[t] = n /\ n # Stack!Null
        /\ head' = head /\ to_be_deleted' = to_be_deleted /\ pushed' = pushed + 1
        /\ popped' = popped
    BY <1>1 DEF Stack!Push, Stack!Goto, Types, Stack!TypeOK
  <1>6. /\ k2 \in [Nodes -> Kinds] /\ b2 \in [Nodes -> StackThreads \union {Stack!Null}]
        /\ k[n] = "free" /\ k2[n] = "new" /\ b2[n] = t
        /\ \A m \in Nodes : m # n => k2[m] = k[m] /\ b2[m] = b[m]
    BY <1>2, <1>3, <1>4 DEF Kinds
  <1>7. \A m \in Nodes : m # n => next'[m] = next[m] /\ data'[m] = data[m]
    BY <1>1 DEF Types, Stack!TypeOK
  <1>8. StackOK(k2)'
    <2>1. OnStack(k2) = OnStack(k) /\ \A m \in OnStack(k) : next'[m] = next[m]
      BY <1>6, <1>7 DEF OnStack
    <2>. QED
      BY <1>4, <1>5, <2>1, StackFrame
  <1>9. PendingOK(k2)'
    <2>1. Pending(k2) = Pending(k) /\ \A m \in Pending(k) : next'[m] = next[m]
      BY <1>6, <1>7 DEF Pending
    <2>. QED
      BY <1>4, <1>5, <2>1, PendingFrame
  <1>10. Respects(k, b, k2, b2, t) /\ Keeps(k, k2)
    BY <1>6, <1>7 DEF Respects, Keeps, ThreadKinds
  <1>11. OwnsOld(k2, b2, t)' /\ OwnsChain(k2, b2, t)' /\ Holds(k2, t)'
    BY <1>5, <1>6 DEF OwnsOld, OwnsChain, Holds, DoomPcs, ChainPcs
  <1>12. \A m \in Nodes : Known(k2, b2, m)'
    <2>1. Known(k2, b2, n)'
      BY <1>5, <1>6 DEF Known
    <2>2. ASSUME NEW m \in Nodes, m # n
          PROVE  Known(k2, b2, m)'
      <3>1. CASE b[m] = t
        BY <1>4, <1>5, <1>6, <2>2, <3>1 DEF Known, ChainPcs
      <3>. QED
        BY <1>4, <1>6, <2>2, <3>1, KnownFrame
    <2>. QED
      BY <2>1, <2>2
  <1>13. ValuesOK(k2)'
    <2>1. /\ Full(k2)' = Full(k) \union {n} /\ n \notin Full(k) /\ Returned' = Returned
          /\ Full(k) \subseteq Nodes
      BY <1>5, <1>6 DEF Full, Returned
    <2>2. /\ data'[n] = pushed + 1 /\ pushed \in Nat /\ pushed' = pushed + 1
          /\ \A m \in Full(k) : data'[m] = data[m]
      BY <1>1, <1>5, <1>7, <2>1 DEF Types
    <2>3. /\ \A m \in Full(k) : data[m] \in 1..pushed /\ data[m] \notin Returned
          /\ \A m, l \in Full(k) : data[m] = data[l] => m = l
          /\ \A v \in 1..pushed : v \in Returned \/ \E m \in Full(k) : data[m] = v
          /\ Returned \subseteq 1..pushed
          /\ \A i, m \in DOMAIN popped : popped[i] = popped[m] => i = m
      BY <1>4 DEF ValuesOK
    <2>4. \A m \in Full(k2)' : data'[m] \in 1..pushed' /\ data'[m] \notin Returned'
      BY <2>1, <2>2, <2>3
    <2>5. \A m, l \in Full(k2)' : data'[m] = data'[l] => m = l
      BY <2>1, <2>2, <2>3
    <2>6. \A v \in 1..pushed' : v \in Returned' \/ \E m \in Full(k2)' : data'[m] = v
      BY <2>1, <2>2, <2>3
    <2>7. Returned' \subseteq 1..pushed'
      BY <2>1, <2>2, <2>3
    <2>. QED
      BY <1>5, <2>3, <2>4, <2>5, <2>6, <2>7 DEF ValuesOK
  <1>14. \A m \in Nodes : k2[m] # "free" => m \in live'
    BY <1>1, <1>4, <1>6
  <1>15. Owned(k2, b2)'
    BY <1>6, <1>8, <1>9, <1>10, <1>11, <1>12, <1>13, <1>14, Frame
  <1>. QED
    BY <1>15


(* The exchange of push() fails: its own node is written.                  *)
LEMMA PushRetryStep ==
  ASSUME Types, NEW k, NEW b, Owned(k, b), NEW t \in StackThreads, OnlyMoves(t),
         Stack!PushCas(t), head # next[old[t]]
  PROVE  Owned(k, b)'
  <1>1. /\ k \in [Nodes -> Kinds] /\ b \in [Nodes -> StackThreads \union {Stack!Null}]
        /\ \A m \in Nodes : k[m] # "free" => m \in live
        /\ StackOK(k) /\ PendingOK(k) /\ ValuesOK(k)
        /\ \A m \in Nodes : Known(k, b, m)
        /\ OwnsOld(k, b, t)
    BY DEF Owned
  <1>2. /\ stackPc[t] = "pushCas" /\ stackPc' = stackPc /\ next' = [next EXCEPT ![old[t]] = head]
        /\ head' = head /\ to_be_deleted' = to_be_deleted /\ data' = data /\ live' = live
        /\ old' = old /\ chain' = chain /\ pushed' = pushed /\ popped' = popped
    BY DEF Stack!PushCas
  <1>3. old[t] \in Nodes /\ k[old[t]] = "new" /\ b[old[t]] = t /\ old[t] # Stack!Null
    BY <1>1, <1>2 DEF OwnsOld, Types, Stack!TypeOK
  <1>4. \A m \in Nodes : m # old[t] => next'[m] = next[m]
    BY <1>2 DEF Types, Stack!TypeOK
  <1>5. StackOK(k)'
    <2>1. \A m \in OnStack(k) : next'[m] = next[m]
      BY <1>3, <1>4 DEF OnStack
    <2>. QED
      BY <1>1, <1>2, <2>1, StackFrame
  <1>6. PendingOK(k)'
    <2>1. \A m \in Pending(k) : next'[m] = next[m]
      BY <1>3, <1>4 DEF Pending
    <2>. QED
      BY <1>1, <1>2, <2>1, PendingFrame
  <1>7. Respects(k, b, k, b, t) /\ Keeps(k, k)
    BY <1>3, <1>4 DEF Respects, Keeps, ThreadKinds
  <1>8. OwnsOld(k, b, t)' /\ OwnsChain(k, b, t)' /\ Holds(k, t)'
    BY <1>2, <1>3 DEF OwnsOld, OwnsChain, Holds, DoomPcs, ChainPcs
  <1>9. \A m \in Nodes : Known(k, b, m)'
    BY <1>1, <1>2 DEF Known
  <1>10. ValuesOK(k)'
    BY <1>1, <1>2, ValuesFrame
  <1>11. \A m \in Nodes : k[m] # "free" => m \in live'
    BY <1>1, <1>2
  <1>. QED
    BY <1>1, <1>5, <1>6, <1>7, <1>8, <1>9, <1>10, <1>11, Frame

(* The exchange of push() succeeds: its node is the head.                  *)
LEMMA PushDoneStep ==
  ASSUME Types, NEW k, NEW b, Owned(k, b), NEW t \in StackThreads, OnlyMoves(t),
         Stack!PushCas(t), head = next[old[t]]
  PROVE  \E k2, b2 : Owned(k2, b2)'
  <1>1. /\ k \in [Nodes -> Kinds] /\ b \in [Nodes -> StackThreads \union {Stack!Null}]
        /\ \A m \in Nodes : k[m] # "free" => m \in live
        /\ StackOK(k) /\ PendingOK(k) /\ ValuesOK(k)
        /\ \A m \in Nodes : Known(k, b, m)
        /\ OwnsOld(k, b, t)
    BY DEF Owned
  <1>. PICK n : n = old[t]
    OBVIOUS
  <1>2. /\ stackPc[t] = "pushCas" /\ stackPc'[t] = "idle" /\ next' = next /\ head' = n
        /\ to_be_deleted' = to_be_deleted /\ data' = data /\ live' = live
        /\ old' = old /\ chain' = chain /\ pushed' = pushed /\ popped' = popped
    BY DEF Stack!PushCas, Stack!Goto, Types, Stack!TypeOK
  <1>3. n \in Nodes /\ k[n] = "new" /\ b[n] = t /\ n # Stack!Null
    BY <1>1, <1>2 DEF OwnsOld, Types, Stack!TypeOK
  <1>4. PICK k2 : k2 = [k EXCEPT ![n] = "stack"]
    OBVIOUS
  <1>5. /\ k2 \in [Nodes -> Kinds] /\ k2[n] = "stack"
        /\ \A m \in Nodes : m # n => k2[m] = k[m]
    BY <1>1, <1>3, <1>4 DEF Kinds
  <1>6. StackOK(k2)'
    <2>1. OnStack(k2) = OnStack(k) \union {n} /\ n \notin OnStack(k) /\ OnStack(k2) \in SUBSET Nodes
      BY <1>3, <1>5 DEF OnStack
    <2>2. /\ head # Stack!Null => head \in OnStack(k)
          /\ Stack!Closed(OnStack(k)) /\ OnStack(k) \subseteq Stack!ListFrom(head)
          /\ \A m \in OnStack(k) : next[m] # head
          /\ \A m, l \in OnStack(k) : next[m] = next[l] /\ next[l] # Stack!Null => m = l
      BY <1>1 DEF StackOK
    <2>3. head' \in OnStack(k2) /\ next'[n] = head
      BY <1>2, <2>1
    <2>4. Stack!Closed(OnStack(k2))'
      BY <1>2, <2>1, <2>2, <2>3 DEF Stack!Closed, OnStack
    <2>5. ASSUME NEW X \in SUBSET Nodes, Stack!Closed(X)', head' \in X \union {Stack!Null}
          PROVE  OnStack(k2) \subseteq X
      <3>1. Stack!Closed(X) /\ n \in X
        BY <1>2, <1>3, <2>5 DEF Stack!Closed
      <3>2. head \in X \union {Stack!Null}
        BY <3>1 DEF Stack!Closed
      <3>. QED
        BY <2>1, <2>2, <3>1, <3>2, ListWithin
    <2>6. OnStack(k2) \subseteq Stack!ListFrom(head)'
      BY <2>1, <2>5 DEF Stack!ListFrom
    <2>7. \A m \in OnStack(k2) : next'[m] # head'
      <3>1. \A m \in OnStack(k) : next[m] # n
        BY <1>3, <2>1, <2>2 DEF Stack!Closed
      <3>2. next[n] # n
        BY <1>3, <2>1, <2>2
      <3>. QED
        BY <1>2, <2>1, <3>1, <3>2
    <2>8. \A m, l \in OnStack(k2) : next'[m] = next'[l] /\ next'[l] # Stack!Null => m = l
      BY <1>2, <2>1, <2>2, <2>3
    <2>. QED
      BY <2>3, <2>4, <2>6, <2>7, <2>8 DEF StackOK, OnStack
  <1>7. PendingOK(k2)'
    <2>1. Pending(k2) = Pending(k)
      BY <1>3, <1>5 DEF Pending
    <2>. QED
      BY <1>1, <1>2, <2>1, PendingFrame
  <1>8. Respects(k, b, k2, b, t) /\ Keeps(k, k2)
    BY <1>2, <1>3, <1>5 DEF Respects, Keeps, ThreadKinds
  <1>9. OwnsOld(k2, b, t)' /\ OwnsChain(k2, b, t)' /\ Holds(k2, t)'
    BY <1>2 DEF OwnsOld, OwnsChain, Holds, DoomPcs, ChainPcs
  <1>10. \A m \in Nodes : Known(k2, b, m)'
    <2>1. Known(k2, b, n)'
      BY <1>5 DEF Known
    <2>2. ASSUME NEW m \in Nodes, m # n
          PROVE  Known(k2, b, m)'
      <3>1. CASE b[m] = t
        BY <1>1, <1>2, <1>5, <2>2, <3>1 DEF Known, ChainPcs
      <3>. QED
        BY <1>1, <1>5, <2>2, <3>1, KnownFrame
    <2>. QED
      BY <2>1, <2>2
  <1>11. ValuesOK(k2)'
    <2>1. Full(k2) = Full(k)
      BY <1>3, <1>5 DEF Full
    <2>. QED
      BY <1>1, <1>2, <2>1, ValuesFrame
  <1>12. \A m \in Nodes : k2[m] # "free" => m \in live'
    BY <1>1, <1>2, <1>3, <1>5
  <1>13. Owned(k2, b)'
    BY <1>1, <1>5, <1>6, <1>7, <1>8, <1>9, <1>10, <1>11, <1>12, Frame
  <1>. QED
    BY <1>13


(* The exchange of pop() succeeds: the head is the thread's, and the next  *)
(* one, as read before, is the head.                                       *)
LEMMA PopWonStep ==
  ASSUME Types, NEW k, NEW b, Owned(k, b), NEW t \in StackThreads, OnlyMoves(t),
         Stack!PopCas(t), head = old[t]
  PROVE  \E k2, b2 : Owned(k2, b2)'
  <1>1. /\ k \in [Nodes -> Kinds] /\ b \in [Nodes -> StackThreads \union {Stack!Null}]
        /\ \A m \in Nodes : k[m] # "free" => m \in live
        /\ StackOK(k) /\ PendingOK(k) /\ ValuesOK(k)
        /\ \A m \in Nodes : Known(k, b, m)
        /\ Holds(k, t)
    BY DEF Owned
  <1>. PICK n : n = old[t]
    OBVIOUS
  <1>2. /\ stackPc[t] = "cas" /\ stackPc'[t] = "swap" /\ next' = next /\ head' = nxt[t] /\ old'[t] = n
        /\ to_be_deleted' = to_be_deleted /\ data' = data /\ live' = live
        /\ chain' = chain /\ pushed' = pushed /\ popped' = popped
    BY DEF Stack!PopCas, Stack!Goto, Types, Stack!TypeOK
  <1>3. n \in Nodes /\ n # Stack!Null /\ n = head /\ k[n] = "stack" /\ nxt[t] = next[n]
    BY <1>1, <1>2 DEF Holds, StackOK, OnStack, Types, Stack!TypeOK
  <1>4. PICK k2 : k2 = [k EXCEPT ![n] = "won"]
    OBVIOUS
  <1>5. PICK b2 : b2 = [b EXCEPT ![n] = t]
    OBVIOUS
  <1>6. /\ k2 \in [Nodes -> Kinds] /\ b2 \in [Nodes -> StackThreads \union {Stack!Null}]
        /\ k2[n] = "won" /\ b2[n] = t
        /\ \A m \in Nodes : m # n => k2[m] = k[m] /\ b2[m] = b[m]
    BY <1>1, <1>3, <1>4, <1>5 DEF Kinds
  <1>7. StackOK(k2)'
    <2>1. OnStack(k2) = OnStack(k) \ {n} /\ n \in OnStack(k) /\ OnStack(k2) \in SUBSET Nodes
      BY <1>3, <1>6 DEF OnStack
    <2>2. /\ Stack!Closed(OnStack(k)) /\ OnStack(k) \subseteq Stack!ListFrom(head)
          /\ \A m \in OnStack(k) : next[m] # head
          /\ \A m, l \in OnStack(k) : next[m] = next[l] /\ next[l] # Stack!Null => m = l
      BY <1>1 DEF StackOK
    <2>3. head' = next[n] /\ (head' # Stack!Null => head' \in OnStack(k2))
      BY <1>2, <1>3, <2>1, <2>2 DEF Stack!Closed
    <2>4. Stack!Closed(OnStack(k2))'
      <3>1. \A m \in OnStack(k) \ {n} : next[m] \in (OnStack(k) \ {n}) \union {Stack!Null}
        BY <1>3, <2>1, <2>2 DEF Stack!Closed
      <3>2. OnStack(k2)' = OnStack(k) \ {n}
        BY <2>1 DEF OnStack
      <3>. QED
        BY <1>2, <3>1, <3>2 DEF Stack!Closed
    <2>5. ASSUME NEW X \in SUBSET Nodes, Stack!Closed(X)', head' \in X \union {Stack!Null}
          PROVE  OnStack(k2) \subseteq X
      <3>. DEFINE Y == X \union {n}
      <3>1. Stack!Closed(Y) /\ Y \in SUBSET Nodes /\ head \in Y \union {Stack!Null}
        BY <1>2, <1>3, <2>3, <2>5 DEF Stack!Closed
      <3>. HIDE DEF Y
      <3>2. OnStack(k) \subseteq Y
        BY <2>2, <3>1, ListWithin
      <3>. QED
        BY <2>1, <3>2 DEF Y
    <2>6. OnStack(k2) \subseteq Stack!ListFrom(head)'
      BY <2>1, <2>5 DEF Stack!ListFrom
    <2>7. \A m \in OnStack(k2) : next'[m] # head'
      <3>1. CASE head' = Stack!Null
        <4>1. Stack!Closed({})' /\ {} \in SUBSET Nodes /\ head' \in {} \union {Stack!Null}
          BY <3>1 DEF Stack!Closed
        <4>. QED
          BY <2>5, <4>1
      <3>2. CASE head' # Stack!Null
        BY <1>2, <2>1, <2>2, <2>3, <3>2
      <3>. QED
        BY <3>1, <3>2
    <2>8. \A m, l \in OnStack(k2) : next'[m] = next'[l] /\ next'[l] # Stack!Null => m = l
      BY <1>2, <2>1, <2>2
    <2>. QED
      BY <2>3, <2>4, <2>6, <2>7, <2>8 DEF StackOK, OnStack
  <1>8. PendingOK(k2)'
    <2>1. Pending(k2) = Pending(k)
      BY <1>3, <1>6 DEF Pending
    <2>. QED
      BY <1>1, <1>2, <2>1, PendingFrame
  <1>9. Respects(k, b, k2, b2, t) /\ Keeps(k, k2)
    BY <1>2, <1>3, <1>6 DEF Respects, Keeps, ThreadKinds
  <1>10. OwnsOld(k2, b2, t)' /\ OwnsChain(k2, b2, t)' /\ Holds(k2, t)'
    BY <1>2, <1>3, <1>6 DEF OwnsOld, OwnsChain, Holds, DoomPcs, ChainPcs
  <1>11. \A m \in Nodes : Known(k2, b2, m)'
    <2>1. Known(k2, b2, n)'
      BY <1>2, <1>6 DEF Known
    <2>2. ASSUME NEW m \in Nodes, m # n
          PROVE  Known(k2, b2, m)'
      <3>1. CASE b[m] = t
        BY <1>1, <1>2, <1>6, <2>2, <3>1 DEF Known, ChainPcs
      <3>. QED
        BY <1>1, <1>6, <2>2, <3>1, KnownFrame
    <2>. QED
      BY <2>1, <2>2
  <1>12. ValuesOK(k2)'
    <2>1. Full(k2) = Full(k)
      BY <1>3, <1>6 DEF Full
    <2>. QED
      BY <1>1, <1>2, <2>1, ValuesFrame
  <1>13. \A m \in Nodes : k2[m] # "free" => m \in live'
    BY <1>1, <1>2, <1>3, <1>6
  <1>14. Owned(k2, b2)'
    BY <1>6, <1>7, <1>8, <1>9, <1>10, <1>11, <1>12, <1>13, Frame
  <1>. QED
    BY <1>14

(* The data is taken: the value moves from its node to what was returned.  *)
LEMMA PopSwapStep ==
  ASSUME Types, NEW k, NEW b, Owned(k, b), NEW t \in StackThreads, OnlyMoves(t),
         Stack!PopSwap(t)
  PROVE  \E k2, b2 : Owned(k2, b2)'
  <1>1. /\ k \in [Nodes -> Kinds] /\ b \in [Nodes -> StackThreads \union {Stack!Null}]
        /\ \A m \in Nodes : k[m] # "free" => m \in live
        /\ StackOK(k) /\ PendingOK(k) /\ ValuesOK(k)
        /\ \A m \in Nodes : Known(k, b, m)
        /\ OwnsOld(k, b, t)
    BY DEF Owned
  <1>. PICK n : n = old[t]
    OBVIOUS
  <1>2. /\ stackPc[t] = "swap" /\ stackPc'[t] = "test" /\ next' = next /\ head' = head /\ old'[t] = n
        /\ to_be_deleted' = to_be_deleted /\ live' = live /\ chain' = chain
        /\ pushed' = pushed /\ popped' = Append(popped, data[n])
        /\ data' = [data EXCEPT ![n] = 0]
    BY DEF Stack!PopSwap, Stack!Goto, Types, Stack!TypeOK
  <1>3. n \in Nodes /\ n # Stack!Null /\ k[n] = "won" /\ b[n] = t
    BY <1>1, <1>2 DEF OwnsOld, Types, Stack!TypeOK
  <1>4. PICK k2 : k2 = [k EXCEPT ![n] = "taken"]
    OBVIOUS
  <1>6. /\ k2 \in [Nodes -> Kinds] /\ k2[n] = "taken"
        /\ \A m \in Nodes : m # n => k2[m] = k[m]
    BY <1>1, <1>3, <1>4 DEF Kinds
  <1>7. StackOK(k2)'
    <2>1. OnStack(k2) = OnStack(k)
      BY <1>3, <1>6 DEF OnStack
    <2>. QED
      BY <1>1, <1>2, <2>1, StackFrame
  <1>8. PendingOK(k2)'
    <2>1. Pending(k2) = Pending(k)
      BY <1>3, <1>6 DEF Pending
    <2>. QED
      BY <1>1, <1>2, <2>1, PendingFrame
  <1>9. Respects(k, b, k2, b, t) /\ Keeps(k, k2)
    BY <1>2, <1>3, <1>6 DEF Respects, Keeps, ThreadKinds
  <1>10. OwnsOld(k2, b, t)' /\ OwnsChain(k2, b, t)' /\ Holds(k2, t)'
    BY <1>2, <1>3, <1>6 DEF OwnsOld, OwnsChain, Holds, DoomPcs, ChainPcs
  <1>11. \A m \in Nodes : Known(k2, b, m)'
    <2>1. Known(k2, b, n)'
      BY <1>6 DEF Known
    <2>2. ASSUME NEW m \in Nodes, m # n
          PROVE  Known(k2, b, m)'
      <3>1. CASE b[m] = t
        BY <1>1, <1>2, <1>6, <2>2, <3>1 DEF Known, ChainPcs
      <3>. QED
        BY <1>1, <1>6, <2>2, <3>1, KnownFrame
    <2>. QED
      BY <2>1, <2>2
  <1>12. ValuesOK(k2)'
    <2>1. /\ Full(k2)' = Full(k) \ {n} /\ n \in Full(k) /\ Full(k) \subseteq Nodes
      BY <1>3, <1>6 DEF Full
    <2>2. /\ \A m \in Full(k) : data[m] \in 1..pushed /\ data[m] \notin Returned
          /\ \A m, l \in Full(k) : data[m] = data[l] => m = l
          /\ \A v \in 1..pushed : v \in Returned \/ \E m \in Full(k) : data[m] = v
          /\ Returned \subseteq 1..pushed
          /\ \A i, m \in DOMAIN popped : popped[i] = popped[m] => i = m
      BY <1>1 DEF ValuesOK
    <2>3. popped \in Seq(Nat) /\ data \in [Nodes -> Nat] /\ pushed \in Nat
      BY DEF Types
    <2>4. \A m \in Full(k) \ {n} : data'[m] = data[m]
      BY <1>2, <2>1, <2>3
    <2>5. /\ Len(popped) \in Nat /\ DOMAIN popped = 1..Len(popped)
          /\ DOMAIN popped' = 1..Len(popped) + 1 /\ popped'[Len(popped) + 1] = data[n]
          /\ \A i \in 1..Len(popped) : popped'[i] = popped[i]
      BY <1>2, <1>3, <2>3
    <2>6. Returned' = Returned \union {data[n]}
      BY <2>5 DEF Returned
    <2>7. \A m \in Full(k2)' : data'[m] \in 1..pushed' /\ data'[m] \notin Returned'
      BY <1>2, <2>1, <2>2, <2>4, <2>6
    <2>8. \A m, l \in Full(k2)' : data'[m] = data'[l] => m = l
      BY <2>1, <2>2, <2>4
    <2>9. \A v \in 1..pushed' : v \in Returned' \/ \E m \in Full(k2)' : data'[m] = v
      <3>. SUFFICES ASSUME NEW v \in 1..pushed, v \notin Returned, v # data[n]
                    PROVE  \E m \in Full(k) \ {n} : data'[m] = v
        BY <1>2, <2>1, <2>6
      <3>1. PICK m \in Full(k) : data[m] = v
        BY <2>2
      <3>. QED
        BY <2>4, <3>1
    <2>10. Returned' \subseteq 1..pushed'
      <3>1. data[n] \in 1..pushed /\ Returned \subseteq 1..pushed
        BY <2>1, <2>2
      <3>2. pushed' = pushed
        BY <1>2
      <3>. QED
        BY <2>6, <3>1, <3>2
    <2>11. \A i, m \in DOMAIN popped' : popped'[i] = popped'[m] => i = m
      <3>1. \A i \in 1..Len(popped) : popped[i] \in Returned
        BY <2>5 DEF Returned
      <3>2. data[n] \notin Returned
        BY <2>1, <2>2
      <3>. QED
        BY <2>2, <2>5, <3>1, <3>2
    <2>. QED
      BY <2>7, <2>8, <2>9, <2>10, <2>11 DEF ValuesOK
  <1>13. \A m \in Nodes : k2[m] # "free" => m \in live'
    BY <1>1, <1>2, <1>3, <1>6
  <1>14. Owned(k2, b)'
    BY <1>1, <1>6, <1>7, <1>8, <1>9, <1>10, <1>11, <1>12, <1>13, Frame
  <1>. QED
    BY <1>14


(* The count is tested: one who is alone will delete the node, others will *)
(* chain it, and an empty stack found among others ends the process.       *)
LEMMA TestStep ==
  ASSUME Types, NEW k, NEW b, Owned(k, b), NEW t \in StackThreads, OnlyMoves(t),
         Stack!TestAlone(t)
  PROVE  \E k2, b2 : Owned(k2, b2)'
  <1>1. /\ k \in [Nodes -> Kinds] /\ b \in [Nodes -> StackThreads \union {Stack!Null}]
        /\ \A m \in Nodes : k[m] # "free" => m \in live
        /\ StackOK(k) /\ PendingOK(k) /\ ValuesOK(k)
        /\ \A m \in Nodes : Known(k, b, m)
        /\ OwnsOld(k, b, t)
    BY DEF Owned
  <1>. PICK n : n = old[t]
    OBVIOUS
  <1>2. /\ stackPc[t] = "test" /\ next' = next /\ head' = head /\ old'[t] = n
        /\ to_be_deleted' = to_be_deleted /\ live' = live /\ data' = data
        /\ pushed' = pushed /\ popped' = popped
        /\ chain'[t] = [first |-> n, last |-> n]
        /\ stackPc'[t] = IF threads_in_pop = 1 THEN "claim" ELSE IF n = Stack!Null THEN "test" ELSE "chainOld"
    BY DEF Stack!TestAlone, Stack!Goto, Types, Stack!TypeOK, Stack!shared
  <1>3. n # Stack!Null => n \in Nodes /\ k[n] = "taken" /\ b[n] = t
    BY <1>1, <1>2 DEF OwnsOld, Types, Stack!TypeOK
  <1>4. \A m \in Nodes : b[m] = t => k[m] \notin {"new", "won", "chain"}
    BY <1>1, <1>2 DEF Known, ChainPcs
  <1>5. CASE n = Stack!Null
    <2>1. OwnsOld(k, b, t)' /\ OwnsChain(k, b, t)' /\ Holds(k, t)'
      BY <1>2, <1>5 DEF OwnsOld, OwnsChain, Holds, ChainPcs
    <2>2. \A m \in Nodes : b[m] = t => Known(k, b, m)'
      BY <1>4 DEF Known
    <2>3. Owned(k, b)'
      BY <1>2, <2>1, <2>2, QuietFrame
    <2>. QED
      BY <2>3
  <1>6. CASE n # Stack!Null
    <2>. PICK kind : kind = IF threads_in_pop = 1 THEN "doomed" ELSE "chain"
      OBVIOUS
    <2>1. PICK k2 : k2 = [k EXCEPT ![n] = kind]
      OBVIOUS
    <2>2. /\ k2 \in [Nodes -> Kinds] /\ k2[n] = kind /\ kind \in {"doomed", "chain"}
          /\ \A m \in Nodes : m # n => k2[m] = k[m]
      BY <1>1, <1>3, <1>6, <2>1 DEF Kinds
    <2>3. StackOK(k2)'
      <3>1. OnStack(k2) = OnStack(k)
        BY <1>3, <1>6, <2>2 DEF OnStack
      <3>. QED
        BY <1>1, <1>2, <3>1, StackFrame
    <2>4. PendingOK(k2)'
      <3>1. Pending(k2) = Pending(k)
        BY <1>3, <1>6, <2>2 DEF Pending
      <3>. QED
        BY <1>1, <1>2, <3>1, PendingFrame
    <2>5. ValuesOK(k2)'
      <3>1. Full(k2) = Full(k)
        BY <1>3, <1>6, <2>2 DEF Full
      <3>. QED
        BY <1>1, <1>2, <3>1, ValuesFrame
    <2>6. Respects(k, b, k2, b, t)
      BY <1>2, <1>3, <1>6, <2>2 DEF Respects, ThreadKinds
    <2>7. \A u \in StackThreads : u # t /\ stackPc[u] \in {"readNext", "cas"} => Keeps(k, k2)
      <3>1. CASE threads_in_pop = 1
        BY <1>2, <3>1, Alone DEF InPop
      <3>2. CASE threads_in_pop # 1
        BY <1>2, <1>3, <1>6, <2>2, <3>2 DEF Keeps
      <3>. QED
        BY <3>1, <3>2
    <2>8. OwnsOld(k2, b, t)' /\ Holds(k2, t)'
      BY <1>2, <1>3, <1>6, <2>2 DEF OwnsOld, Holds, DoomPcs
    <2>9. OwnsChain(k2, b, t)'
      <3>1. CASE threads_in_pop = 1
        BY <1>2, <3>1 DEF OwnsChain, ChainPcs
      <3>2. CASE threads_in_pop # 1
        <4>1. stackPc'[t] = "chainOld" /\ kind = "chain"
          BY <1>2, <1>6, <3>2
        <4>2. Mine(k2, b, t)' = {n}
          BY <1>3, <1>4, <1>6, <2>2, <4>1 DEF Mine
        <4>3. Ends({})'
          BY DEF Ends
        <4>4. chain'[t].first = n /\ chain'[t].last = n /\ {n} \ {n} = {}
          BY <1>2
        <4>5. Ends(Mine(k2, b, t) \ {chain[t].last})'
          BY <4>2, <4>3, <4>4 DEF Ends
        <4>. QED
          BY <1>2, <1>6, <4>1, <4>2, <4>4, <4>5 DEF OwnsChain, ChainPcs
      <3>. QED
        BY <3>1, <3>2
    <2>10. \A m \in Nodes : Known(k2, b, m)'
      <3>1. Known(k2, b, n)'
        BY <1>2, <1>3, <1>6, <2>2 DEF Known, ChainPcs
      <3>2. ASSUME NEW m \in Nodes, m # n
            PROVE  Known(k2, b, m)'
        <4>1. CASE b[m] = t
          BY <1>4, <2>2, <3>2, <4>1 DEF Known
        <4>. QED
          BY <1>1, <2>2, <3>2, <4>1, KnownFrame
      <3>. QED
        BY <3>1, <3>2
    <2>11. \A m \in Nodes : k2[m] # "free" => m \in live'
      BY <1>1, <1>2, <1>3, <1>6, <2>2
    <2>12. Owned(k2, b)'
      BY <1>1, <2>2, <2>3, <2>4, <2>5, <2>6, <2>7, <2>8, <2>9, <2>10, <2>11, Frame
    <2>. QED
      BY <2>12
  <1>. QED
    BY <1>5, <1>6

(* The doomed node is deleted.                                             *)
LEMMA DeleteStep ==
  ASSUME Types, NEW k, NEW b, Owned(k, b), NEW t \in StackThreads, OnlyMoves(t),
         Stack!DeleteOld(t)
  PROVE  \E k2, b2 : Owned(k2, b2)'
  <1>1. /\ k \in [Nodes -> Kinds] /\ b \in [Nodes -> StackThreads \union {Stack!Null}]
        /\ \A m \in Nodes : k[m] # "free" => m \in live
        /\ StackOK(k) /\ PendingOK(k) /\ ValuesOK(k)
        /\ \A m \in Nodes : Known(k, b, m)
        /\ OwnsOld(k, b, t)
    BY DEF Owned
  <1>. PICK n : n = old[t]
    OBVIOUS
  <1>2. /\ stackPc[t] = "deleteOld" /\ stackPc'[t] = "idle" /\ next' = next /\ head' = head
        /\ to_be_deleted' = to_be_deleted /\ live' = live \ {n} /\ data' = data
        /\ pushed' = pushed /\ popped' = popped /\ chain' = chain
    BY DEF Stack!DeleteOld, Stack!Goto, Types, Stack!TypeOK
  <1>3. n # Stack!Null => n \in Nodes /\ k[n] = "doomed" /\ b[n] = t
    BY <1>1, <1>2 DEF OwnsOld, Types, Stack!TypeOK, DoomPcs
  <1>4. \A m \in Nodes : b[m] = t => k[m] \notin {"new", "won", "chain"}
    BY <1>1, <1>2 DEF Known, ChainPcs
  <1>5. CASE n = Stack!Null
    <2>1. OwnsOld(k, b, t)' /\ OwnsChain(k, b, t)' /\ Holds(k, t)'
      BY <1>2 DEF OwnsOld, OwnsChain, Holds, ChainPcs, DoomPcs
    <2>2. \A m \in Nodes : b[m] = t => Known(k, b, m)'
      BY <1>4 DEF Known
    <2>3. live' = live
      BY <1>2, <1>5 DEF Types, Stack!TypeOK
    <2>4. Owned(k, b)'
      BY <1>2, <2>1, <2>2, <2>3, QuietFrame
    <2>. QED
      BY <2>4
  <1>6. CASE n # Stack!Null
    <2>1. PICK k2 : k2 = [k EXCEPT ![n] = "free"]
      OBVIOUS
    <2>2. /\ k2 \in [Nodes -> Kinds] /\ k2[n] = "free"
          /\ \A m \in Nodes : m # n => k2[m] = k[m]
      BY <1>1, <1>3, <1>6, <2>1 DEF Kinds
    <2>3. StackOK(k2)'
      <3>1. OnStack(k2) = OnStack(k)
        BY <1>3, <1>6, <2>2 DEF OnStack
      <3>. QED
        BY <1>1, <1>2, <3>1, StackFrame
    <2>4. PendingOK(k2)'
      <3>1. Pending(k2) = Pending(k)
        BY <1>3, <1>6, <2>2 DEF Pending
      <3>. QED
        BY <1>1, <1>2, <3>1, PendingFrame
    <2>5. ValuesOK(k2)'
      <3>1. Full(k2) = Full(k)
        BY <1>3, <1>6, <2>2 DEF Full
      <3>. QED
        BY <1>1, <1>2, <3>1, ValuesFrame
    <2>6. Respects(k, b, k2, b, t) /\ Keeps(k, k2)
      BY <1>2, <1>3, <1>6, <2>2 DEF Respects, ThreadKinds, Keeps
    <2>7. OwnsOld(k2, b, t)' /\ OwnsChain(k2, b, t)' /\ Holds(k2, t)'
      BY <1>2 DEF OwnsOld, OwnsChain, Holds, DoomPcs, ChainPcs
    <2>8. \A m \in Nodes : Known(k2, b, m)'
      <3>1. Known(k2, b, n)'
        BY <2>2 DEF Known
      <3>2. ASSUME NEW m \in Nodes, m # n
            PROVE  Known(k2, b, m)'
        <4>1. CASE b[m] = t
          BY <1>4, <2>2, <3>2, <4>1 DEF Known
        <4>. QED
          BY <1>1, <2>2, <3>2, <4>1, KnownFrame
      <3>. QED
        BY <3>1, <3>2
    <2>9. \A m \in Nodes : k2[m] # "free" => m \in live'
      BY <1>1, <1>2, <2>2
    <2>10. Owned(k2, b)'
      BY <1>1, <2>2, <2>3, <2>4, <2>5, <2>6, <2>7, <2>8, <2>9, Frame
    <2>. QED
      BY <2>10
  <1>. QED
    BY <1>5, <1>6


(* The pending nodes are claimed.                                          *)
LEMMA ClaimStep ==
  ASSUME Types, NEW k, NEW b, Owned(k, b), NEW t \in StackThreads, OnlyMoves(t),
         Stack!Claim(t)
  PROVE  \E k2, b2 : Owned(k2, b2)'
  <1>1. /\ k \in [Nodes -> Kinds] /\ b \in [Nodes -> StackThreads \union {Stack!Null}]
        /\ \A m \in Nodes : k[m] # "free" => m \in live
        /\ StackOK(k) /\ PendingOK(k) /\ ValuesOK(k)
        /\ \A m \in Nodes : Known(k, b, m)
        /\ OwnsOld(k, b, t)
    BY DEF Owned
  <1>2. /\ stackPc[t] = "claim" /\ stackPc'[t] = "leave" /\ next' = next /\ head' = head
        /\ to_be_deleted' = Stack!Null /\ live' = live /\ data' = data /\ old' = old
        /\ pushed' = pushed /\ popped' = popped
    BY DEF Stack!Claim, Stack!Goto, Types, Stack!TypeOK
  <1>3. \A m \in Nodes : b[m] = t => k[m] \notin {"new", "won", "chain"}
    BY <1>1, <1>2 DEF Known, ChainPcs
  <1>4. CASE to_be_deleted = Stack!Null
    <2>1. chain'[t] = Stack!NoChain
      BY <1>4, EmptyList DEF Stack!Claim, Types
    <2>2. OwnsOld(k, b, t)' /\ OwnsChain(k, b, t)' /\ Holds(k, t)'
      BY <1>1, <1>2, <2>1 DEF OwnsOld, OwnsChain, Holds, ChainPcs, DoomPcs, Stack!NoChain
    <2>3. \A m \in Nodes : b[m] = t => Known(k, b, m)'
      BY <1>3 DEF Known
    <2>4. Owned(k, b)'
      BY <1>2, <1>4, <2>2, <2>3, QuietFrame
    <2>. QED
      BY <2>4
  <1>5. CASE to_be_deleted # Stack!Null
    <2>. PICK l : l = Stack!LastOf(Stack!ListFrom(to_be_deleted))
      OBVIOUS
    <2>1. Stack!ListFrom(to_be_deleted) # {} /\ l \in Pending(k) /\ next[l] = Stack!Null
          /\ to_be_deleted \in Pending(k)
      BY <1>1, <1>5, WalkEnds DEF PendingOK
    <2>2. chain'[t] = [first |-> to_be_deleted, last |-> l]
      BY <2>1 DEF Stack!Claim, Types
    <2>3. PICK k2 : k2 = [n \in Nodes |-> IF k[n] = "pending" THEN "chain" ELSE k[n]]
      OBVIOUS
    <2>4. PICK b2 : b2 = [n \in Nodes |-> IF k[n] = "pending" THEN t ELSE b[n]]
      OBVIOUS
    <2>5. /\ k2 \in [Nodes -> Kinds] /\ b2 \in [Nodes -> StackThreads \union {Stack!Null}]
          /\ \A m \in Nodes : k[m] = "pending" => k2[m] = "chain" /\ b2[m] = t
          /\ \A m \in Nodes : k[m] # "pending" => k2[m] = k[m] /\ b2[m] = b[m]
      BY <1>1, <2>3, <2>4 DEF Kinds
    <2>6. StackOK(k2)'
      <3>1. OnStack(k2) = OnStack(k)
        BY <2>5 DEF OnStack
      <3>. QED
        BY <1>1, <1>2, <3>1, StackFrame
    <2>7. PendingOK(k2)'
      <3>1. Pending(k2)' = {}
        BY <2>5 DEF Pending
      <3>. QED
        BY <1>2, <3>1 DEF PendingOK, Stack!Closed, Ends
    <2>8. ValuesOK(k2)'
      <3>1. Full(k2) = Full(k)
        BY <2>5 DEF Full
      <3>. QED
        BY <1>1, <1>2, <3>1, ValuesFrame
    <2>9. Respects(k, b, k2, b2, t) /\ Keeps(k, k2)
      BY <1>2, <2>5 DEF Respects, ThreadKinds, Keeps
    <2>10. OwnsOld(k2, b2, t)' /\ Holds(k2, t)'
      <3>1. old[t] # Stack!Null => old[t] \in Nodes /\ k[old[t]] = "doomed" /\ b[old[t]] = t
        BY <1>1, <1>2 DEF OwnsOld, DoomPcs, Types, Stack!TypeOK
      <3>. QED
        BY <1>2, <2>5, <3>1 DEF OwnsOld, DoomPcs, Holds
    <2>11. OwnsChain(k2, b2, t)'
      <3>1. Mine(k2, b2, t)' = Pending(k)
        BY <1>3, <2>5 DEF Mine, Pending
      <3>2. chain'[t].first = to_be_deleted /\ chain'[t].last = l
        BY <2>2
      <3>3. \A n \in Pending(k) : next'[n] \in Pending(k) \union {Stack!Null}
        BY <1>1, <1>2 DEF PendingOK, Stack!Closed
      <3>4. Ends(Pending(k) \ {l})'
        <4>. PICK X : X = Pending(k) \ {l}
          OBVIOUS
        <4>1. Ends(X)
          BY <1>1 DEF PendingOK, Ends
        <4>2. Ends(X)'
          BY <1>2, <4>1, EndsFrame
        <4>. QED
          BY <4>2 DEF Pending
      <3>5. Ends(Mine(k2, b2, t) \ {chain[t].last})'
        BY <3>1, <3>2, <3>4 DEF Pending
      <3>. QED
        BY <1>2, <2>1, <3>1, <3>2, <3>3, <3>5 DEF OwnsChain, ChainPcs
    <2>12. \A m \in Nodes : Known(k2, b2, m)'
      <3>1. ASSUME NEW m \in Nodes, k[m] = "pending"
            PROVE  Known(k2, b2, m)'
        BY <1>2, <1>5, <2>2, <2>5, <3>1 DEF Known, ChainPcs
      <3>2. ASSUME NEW m \in Nodes, k[m] # "pending"
            PROVE  Known(k2, b2, m)'
        <4>1. CASE b[m] = t
          BY <1>3, <2>5, <3>2, <4>1 DEF Known
        <4>. QED
          BY <1>1, <2>5, <3>2, <4>1, KnownFrame
      <3>. QED
        BY <3>1, <3>2
    <2>13. \A m \in Nodes : k2[m] # "free" => m \in live'
      BY <1>1, <1>2, <2>5
    <2>14. Owned(k2, b2)'
      BY <2>5, <2>6, <2>7, <2>8, <2>9, <2>10, <2>11, <2>12, <2>13, Frame
    <2>. QED
      BY <2>14
  <1>. QED
    BY <1>4, <1>5

(* The thread leaves pop(); if it was alone until now, it deletes what it  *)
(* has claimed.                                                            *)
LEMMA LeaveStep ==
  ASSUME Types, NEW k, NEW b, Owned(k, b), NEW t \in StackThreads, OnlyMoves(t),
         Stack!Leave(t)
  PROVE  \E k2, b2 : Owned(k2, b2)'
  <1>1. /\ k \in [Nodes -> Kinds] /\ b \in [Nodes -> StackThreads \union {Stack!Null}]
        /\ \A m \in Nodes : k[m] # "free" => m \in live
        /\ StackOK(k) /\ PendingOK(k) /\ ValuesOK(k)
        /\ \A m \in Nodes : Known(k, b, m)
        /\ OwnsOld(k, b, t) /\ OwnsChain(k, b, t)
    BY DEF Owned
  <1>2. /\ stackPc[t] = "leave" /\ next' = next /\ head' = head
        /\ to_be_deleted' = to_be_deleted /\ data' = data /\ old' = old
        /\ pushed' = pushed /\ popped' = popped /\ chain' = chain
    BY DEF Stack!Leave
  <1>3. CASE threads_in_pop # 1
    <2>1. /\ live' = live
          /\ stackPc'[t] = IF chain[t].first = Stack!Null THEN "deleteOld" ELSE "chainBack"
      BY <1>3 DEF Stack!Leave, Stack!Goto, Types, Stack!TypeOK
    <2>2. OwnsOld(k, b, t)' /\ Holds(k, t)'
      BY <1>1, <1>2, <2>1 DEF OwnsOld, Holds, DoomPcs
    <2>3. OwnsChain(k, b, t)'
      <3>1. Mine(k, b, t)' = Mine(k, b, t)
        BY DEF Mine
      <3>2. Ends(Mine(k, b, t) \ {chain[t].last})' <=> Ends(Mine(k, b, t) \ {chain[t].last})
        BY <1>2, <3>1 DEF Ends, Stack!Closed
      <3>. QED
        BY <1>1, <1>2, <2>1, <3>1, <3>2 DEF OwnsChain, ChainPcs
    <2>4. \A m \in Nodes : b[m] = t => Known(k, b, m)'
      BY <1>1, <1>2, <2>1 DEF Known, ChainPcs
    <2>5. Owned(k, b)'
      BY <1>2, <2>1, <2>2, <2>3, <2>4, QuietFrame
    <2>. QED
      BY <2>5
  <1>4. CASE threads_in_pop = 1
    <2>1. live' = live \ Stack!ListFrom(chain[t].first) /\ stackPc'[t] = "deleteOld"
      BY <1>4 DEF Stack!Leave, Stack!Goto, Types, Stack!TypeOK
    <2>2. Stack!ListFrom(chain[t].first) \subseteq Mine(k, b, t)
      <3>1. CASE chain[t].first = Stack!Null
        BY <3>1, EmptyList
      <3>2. CASE chain[t].first # Stack!Null
        <4>1. Stack!Closed(Mine(k, b, t)) /\ chain[t].first \in Mine(k, b, t)
          BY <1>1, <1>2, <3>2 DEF OwnsChain, ChainPcs, Stack!Closed
        <4>2. Mine(k, b, t) \in SUBSET Nodes
          BY DEF Mine
        <4>. QED
          BY <4>1, <4>2, ListWithin
      <3>. QED
        BY <3>1, <3>2
    <2>3. PICK k2 : k2 = [n \in Nodes |-> IF k[n] = "chain" /\ b[n] = t THEN "free" ELSE k[n]]
      OBVIOUS
    <2>4. /\ k2 \in [Nodes -> Kinds]
          /\ \A m \in Nodes : k[m] = "chain" /\ b[m] = t => k2[m] = "free"
          /\ \A m \in Nodes : ~(k[m] = "chain" /\ b[m] = t) => k2[m] = k[m]
      BY <1>1, <2>3 DEF Kinds
    <2>5. StackOK(k2)'
      <3>1. OnStack(k2) = OnStack(k)
        BY <2>4 DEF OnStack
      <3>. QED
        BY <1>1, <1>2, <3>1, StackFrame
    <2>6. PendingOK(k2)'
      <3>1. Pending(k2) = Pending(k)
        BY <2>4 DEF Pending
      <3>. QED
        BY <1>1, <1>2, <3>1, PendingFrame
    <2>7. ValuesOK(k2)'
      <3>1. Full(k2) = Full(k)
        BY <2>4 DEF Full
      <3>. QED
        BY <1>1, <1>2, <3>1, ValuesFrame
    <2>8. Respects(k, b, k2, b, t)
      BY <1>2, <2>4 DEF Respects, ThreadKinds
    <2>9. \A u \in StackThreads : u # t /\ stackPc[u] \in {"readNext", "cas"} => Keeps(k, k2)
      BY <1>2, <1>4, Alone DEF InPop
    <2>10. OwnsOld(k2, b, t)' /\ OwnsChain(k2, b, t)' /\ Holds(k2, t)'
      <3>1. old[t] # Stack!Null => old[t] \in Nodes /\ k[old[t]] = "doomed" /\ b[old[t]] = t
        BY <1>1, <1>2 DEF OwnsOld, DoomPcs, Types, Stack!TypeOK
      <3>. QED
        BY <1>2, <2>1, <2>4, <3>1 DEF OwnsOld, OwnsChain, Holds, DoomPcs, ChainPcs
    <2>11. \A m \in Nodes : Known(k2, b, m)'
      <3>. SUFFICES ASSUME NEW m \in Nodes
                    PROVE  Known(k2, b, m)'
        OBVIOUS
      <3>1. CASE b[m] = t
        BY <1>1, <1>2, <2>4, <3>1 DEF Known
      <3>2. CASE b[m] # t
        BY <1>1, <2>4, <3>2, KnownFrame
      <3>. QED
        BY <3>1, <3>2
    <2>12. \A m \in Nodes : k2[m] # "free" => m \in live'
      BY <1>1, <2>1, <2>2, <2>4 DEF Mine
    <2>13. Owned(k2, b)'
      BY <1>1, <2>4, <2>5, <2>6, <2>7, <2>8, <2>9, <2>10, <2>11, <2>12, Frame
    <2>. QED
      BY <2>13
  <1>. QED
    BY <1>3, <1>4


(* last->next is written, before an exchange or after one that failed.     *)
LEMMA ChainWriteStep ==
  ASSUME Types, NEW k, NEW b, Owned(k, b), NEW t \in StackThreads, OnlyMoves(t),
         Stack!ChainLoad(t) \/ (Stack!ChainCas(t) /\ to_be_deleted # next[chain[t].last])
  PROVE  Owned(k, b)'
  <1>1. /\ k \in [Nodes -> Kinds] /\ b \in [Nodes -> StackThreads \union {Stack!Null}]
        /\ \A m \in Nodes : k[m] # "free" => m \in live
        /\ StackOK(k) /\ PendingOK(k) /\ ValuesOK(k)
        /\ \A m \in Nodes : Known(k, b, m)
        /\ OwnsOld(k, b, t) /\ OwnsChain(k, b, t)
    BY DEF Owned
  <1>. PICK l : l = chain[t].last
    OBVIOUS
  <1>2. /\ next' = [next EXCEPT ![l] = to_be_deleted] /\ head' = head /\ live' = live
        /\ to_be_deleted' = to_be_deleted /\ data' = data /\ old' = old
        /\ pushed' = pushed /\ popped' = popped /\ chain' = chain
    BY DEF Stack!ChainLoad, Stack!ChainCas
  <1>3. \/ stackPc[t] \in {"chainBack", "chainBackCas"} /\ stackPc'[t] = "chainBackCas"
        \/ stackPc[t] \in {"chainOld", "chainOldCas"} /\ stackPc'[t] = "chainOldCas"
    BY DEF Stack!ChainLoad, Stack!ChainCas, Stack!Goto, Types, Stack!TypeOK
  <1>. PICK M : M = Mine(k, b, t)
    OBVIOUS
  <1>4. /\ M \subseteq Nodes /\ chain[t].first # Stack!Null /\ chain[t].first \in M /\ l \in M
        /\ \A n \in M : n # l => next[n] \in M \union {Stack!Null}
        /\ Ends(M \ {l})
        /\ stackPc[t] \in {"chainOld", "chainOldCas"} => chain[t] = [first |-> old[t], last |-> old[t]]
    BY <1>1, <1>3 DEF OwnsChain, ChainPcs, Mine
  <1>5. k[l] = "chain" /\ b[l] = t /\ l \in Nodes
    BY <1>4 DEF Mine
  <1>6. \A m \in Nodes : m # l => next'[m] = next[m]
    BY <1>2 DEF Types, Stack!TypeOK
  <1>7. StackOK(k)'
    <2>1. \A m \in OnStack(k) : next'[m] = next[m]
      BY <1>5, <1>6 DEF OnStack
    <2>. QED
      BY <1>1, <1>2, <2>1, StackFrame
  <1>8. PendingOK(k)'
    <2>1. \A m \in Pending(k) : next'[m] = next[m]
      BY <1>5, <1>6 DEF Pending
    <2>. QED
      BY <1>1, <1>2, <2>1, PendingFrame
  <1>9. ValuesOK(k)'
    BY <1>1, <1>2, ValuesFrame
  <1>10. Respects(k, b, k, b, t) /\ Keeps(k, k)
    BY <1>5, <1>6 DEF Respects, Keeps, ThreadKinds
  <1>11. OwnsOld(k, b, t)' /\ Holds(k, t)'
    BY <1>1, <1>2, <1>3 DEF OwnsOld, Holds, DoomPcs
  <1>12. OwnsChain(k, b, t)'
    <2>1. Mine(k, b, t)' = M
      BY DEF Mine
    <2>2. \A n \in M : n # l => next'[n] \in M \union {Stack!Null}
      BY <1>4, <1>6
    <2>3. Ends(M \ {l})'
      <3>1. \A n \in M \ {l} : next'[n] = next[n]
        BY <1>4, <1>6
      <3>. QED
        BY <1>4, <3>1, EndsFrame
    <2>4. Ends(Mine(k, b, t) \ {chain[t].last})'
      BY <1>2, <2>1, <2>3
    <2>. QED
      BY <1>2, <1>3, <1>4, <2>1, <2>2, <2>4 DEF OwnsChain, ChainPcs
  <1>13. \A m \in Nodes : Known(k, b, m)'
    <2>. SUFFICES ASSUME NEW m \in Nodes
                  PROVE  Known(k, b, m)'
      OBVIOUS
    <2>1. CASE b[m] = t
      BY <1>1, <1>2, <1>3, <1>4, <2>1 DEF Known, ChainPcs
    <2>2. CASE b[m] # t
      BY <1>1, <2>2, KnownFrame
    <2>. QED
      BY <2>1, <2>2
  <1>14. \A m \in Nodes : k[m] # "free" => m \in live'
    BY <1>1, <1>2
  <1>. QED
    BY <1>1, <1>7, <1>8, <1>9, <1>10, <1>11, <1>12, <1>13, <1>14, Frame

(* The exchange succeeds: the chain goes in front of the pending nodes.    *)
LEMMA ChainDoneStep ==
  ASSUME Types, NEW k, NEW b, Owned(k, b), NEW t \in StackThreads, OnlyMoves(t),
         Stack!ChainCas(t), to_be_deleted = next[chain[t].last]
  PROVE  \E k2, b2 : Owned(k2, b2)'
  <1>1. /\ k \in [Nodes -> Kinds] /\ b \in [Nodes -> StackThreads \union {Stack!Null}]
        /\ \A m \in Nodes : k[m] # "free" => m \in live
        /\ StackOK(k) /\ PendingOK(k) /\ ValuesOK(k)
        /\ \A m \in Nodes : Known(k, b, m)
        /\ OwnsOld(k, b, t) /\ OwnsChain(k, b, t)
    BY DEF Owned
  <1>. PICK l : l = chain[t].last
    OBVIOUS
  <1>2. /\ next' = next /\ head' = head /\ live' = live
        /\ to_be_deleted' = chain[t].first /\ data' = data /\ old' = old
        /\ pushed' = pushed /\ popped' = popped /\ chain' = chain
    BY DEF Stack!ChainCas
  <1>3. \/ stackPc[t] = "chainBackCas" /\ stackPc'[t] = "deleteOld"
        \/ stackPc[t] = "chainOldCas" /\ stackPc'[t] = "leaveLast"
    BY DEF Stack!ChainCas, Stack!Goto, Types, Stack!TypeOK
  <1>. PICK M : M = Mine(k, b, t)
    OBVIOUS
  <1>4. /\ M \subseteq Nodes /\ chain[t].first # Stack!Null /\ chain[t].first \in M /\ l \in M
        /\ \A n \in M : n # l => next[n] \in M \union {Stack!Null}
        /\ Ends(M \ {l})
    BY <1>1, <1>3 DEF OwnsChain, ChainPcs, Mine
  <1>5. PICK k2 : k2 = [n \in Nodes |-> IF n \in M THEN "pending" ELSE k[n]]
    OBVIOUS
  <1>6. /\ k2 \in [Nodes -> Kinds]
        /\ \A m \in Nodes : m \in M => k2[m] = "pending" /\ k[m] = "chain" /\ b[m] = t
        /\ \A m \in Nodes : m \notin M => k2[m] = k[m] /\ ~(k[m] = "chain" /\ b[m] = t)
    BY <1>1, <1>5 DEF Kinds, Mine
  <1>7. StackOK(k2)'
    <2>1. OnStack(k2) = OnStack(k)
      BY <1>6 DEF OnStack
    <2>. QED
      BY <1>1, <1>2, <2>1, StackFrame
  <1>8. PendingOK(k2)'
    <2>. PICK P : P = Pending(k)
      OBVIOUS
    <2>1. Pending(k2)' = P \union M
      BY <1>4, <1>6 DEF Pending
    <2>2. /\ to_be_deleted # Stack!Null => to_be_deleted \in P
          /\ \A n \in P : next[n] \in P \union {Stack!Null}
          /\ Ends(P)
      BY <1>1 DEF PendingOK, Stack!Closed
    <2>3. \A n \in P \union M : next[n] \in (P \union M) \union {Stack!Null}
      BY <1>4, <2>2
    <2>4. ASSUME NEW Y \in SUBSET (P \union M), Y # {}, Stack!Closed(Y)
          PROVE  \E n \in Y : next[n] = Stack!Null
      <3>1. CASE Y \intersect P # {}
        <4>1. Y \intersect P \in SUBSET P /\ Stack!Closed(Y \intersect P)
          BY <2>2, <2>4 DEF Stack!Closed
        <4>. QED
          BY <2>2, <3>1, <4>1 DEF Ends
      <3>2. CASE Y \intersect P = {} /\ l \in Y
        BY <2>2, <2>4, <3>2 DEF Stack!Closed
      <3>3. CASE Y \intersect P = {} /\ l \notin Y
        <4>1. Y \in SUBSET (M \ {l})
          BY <2>4, <3>3
        <4>. QED
          BY <1>4, <2>4, <4>1 DEF Ends
      <3>. QED
        BY <3>1, <3>2, <3>3
    <2>5. Stack!Closed(P \union M)' /\ Ends(P \union M)'
      BY <1>2, <2>3, <2>4 DEF Stack!Closed, Ends
    <2>6. Stack!Closed(Pending(k2))' /\ Ends(Pending(k2))'
      BY <2>1, <2>5 DEF Stack!Closed, Ends
    <2>. QED
      BY <1>2, <1>4, <2>1, <2>6 DEF PendingOK
  <1>9. ValuesOK(k2)'
    <2>1. Full(k2) = Full(k)
      BY <1>6 DEF Full
    <2>. QED
      BY <1>1, <1>2, <2>1, ValuesFrame
  <1>10. Respects(k, b, k2, b, t) /\ Keeps(k, k2)
    BY <1>2, <1>6 DEF Respects, Keeps, ThreadKinds
  <1>11. OwnsOld(k2, b, t)' /\ OwnsChain(k2, b, t)' /\ Holds(k2, t)'
    <2>1. stackPc[t] = "chainBackCas" /\ old[t] # Stack!Null =>
             old[t] \in Nodes /\ k[old[t]] = "doomed" /\ b[old[t]] = t
      BY <1>1 DEF OwnsOld, DoomPcs, Types, Stack!TypeOK
    <2>. QED
      BY <1>2, <1>3, <1>6, <2>1 DEF OwnsOld, OwnsChain, Holds, DoomPcs, ChainPcs
  <1>12. \A m \in Nodes : Known(k2, b, m)'
    <2>. SUFFICES ASSUME NEW m \in Nodes
                  PROVE  Known(k2, b, m)'
      OBVIOUS
    <2>1. CASE b[m] = t
      BY <1>1, <1>3, <1>6, <2>1 DEF Known
    <2>2. CASE b[m] # t
      BY <1>1, <1>6, <2>2, KnownFrame
    <2>. QED
      BY <2>1, <2>2
  <1>13. \A m \in Nodes : k2[m] # "free" => m \in live'
    BY <1>1, <1>2, <1>6
  <1>14. Owned(k2, b)'
    BY <1>1, <1>6, <1>7, <1>8, <1>9, <1>10, <1>11, <1>12, <1>13, Frame
  <1>. QED
    BY <1>14


-----------------------------------------------------------------------------
(* A set of numbers that is not empty has a least one.                     *)
LEMMA LeastNumber ==
  ASSUME NEW I \in SUBSET Nat, I # {}
  PROVE  \E x \in I : \A y \in I : x =< y
  <1>. DEFINE R == OpToRel(<, Nat)
  <1>1. IsWellFoundedOn(R, Nat)
    BY NatLessThanWellFounded
  <1>2. PICK x \in I : \A y \in I : ~(<<y, x>> \in R)
    <2>. HIDE DEF R
    <2>. QED
      BY <1>1, WFMin
  <1>3. ASSUME NEW y \in I
        PROVE  x =< y
    <2>1. x \in Nat /\ y \in Nat /\ ~(y < x)
      BY <1>2 DEF OpToRel
    <2>. QED
      BY <2>1
  <1>. QED
    BY <1>3

(* The stack of the start: its values are those of its nodes.              *)
LEMMA StackInit ==
  ASSUME Stack!Init
  PROVE  StackInv
  <1>0. Initial \in Nat /\ 1..Initial \subseteq Nodes /\ 0 \notin Nodes /\ IsFiniteSet(StackThreads)
    BY DEF Stack!Null
  <1>1. PICK k : k = [n \in Nodes |-> IF n \in 1..Initial THEN "stack" ELSE "free"]
    OBVIOUS
  <1>2. PICK b : b = [n \in Nodes |-> Stack!Null]
    OBVIOUS
  <1>3. /\ k \in [Nodes -> Kinds] /\ b \in [Nodes -> StackThreads \union {Stack!Null}]
        /\ OnStack(k) = 1..Initial /\ Pending(k) = {} /\ Full(k) = 1..Initial
        /\ \A n \in Nodes : k[n] \in {"stack", "free"} /\ (k[n] = "stack" <=> n \in 1..Initial)
    BY <1>0, <1>1, <1>2 DEF Kinds, OnStack, Pending, Full
  <1>4. \A n \in 1..Initial : next[n] = n - 1 /\ data[n] = n
    BY <1>0 DEF Stack!Init
  <1>5. StackOK(k)
    <2>1. head # Stack!Null => head \in 1..Initial
      BY <1>0 DEF Stack!Init, Stack!Null
    <2>2. Stack!Closed(1..Initial)
      BY <1>0, <1>4 DEF Stack!Closed, Stack!Null
    <2>3. ASSUME NEW X \in SUBSET Nodes, Stack!Closed(X), head \in X \union {Stack!Null}
          PROVE  1..Initial \subseteq X
      <3>. DEFINE I == {i \in Nat : i < Initial /\ Initial - i \notin X}
      <3>1. SUFFICES ASSUME I # {} PROVE FALSE
        <4>1. ASSUME NEW n \in 1..Initial, n \notin X
              PROVE  Initial - n \in I
          BY <1>0, <4>1
        <4>. QED
          BY <3>1, <4>1
      <3>2. PICK i \in I : \A y \in I : i =< y
        <4>1. I \in SUBSET Nat
          OBVIOUS
        <4>. HIDE DEF I
        <4>. QED
          BY <3>1, <4>1, LeastNumber
      <3>3. i \in Nat /\ i < Initial /\ Initial - i \notin X
        BY <3>2
      <3>4. i # 0
        BY <1>0, <2>3, <3>3 DEF Stack!Init, Stack!Null
      <3>5. i - 1 \in Nat /\ i - 1 < Initial /\ ~(i <= i - 1)
        BY <1>0, <3>3, <3>4
      <3>6. Initial - (i - 1) \in X
        BY <3>2, <3>5
      <3>7. /\ Initial - (i - 1) \in 1..Initial
            /\ next[Initial - (i - 1)] = Initial - i /\ Initial - i # 0
        BY <1>0, <1>4, <3>3, <3>4
      <3>. QED
        BY <2>3, <3>3, <3>6, <3>7 DEF Stack!Closed, Stack!Null
    <2>4. 1..Initial \subseteq Stack!ListFrom(head)
      BY <1>0, <2>3 DEF Stack!ListFrom
    <2>5. \A n \in 1..Initial : next[n] # head
      BY <1>0, <1>4 DEF Stack!Init
    <2>6. \A m, n \in 1..Initial : next[m] = next[n] /\ next[n] # Stack!Null => m = n
      BY <1>0, <1>4
    <2>. QED
      BY <1>3, <2>1, <2>2, <2>4, <2>5, <2>6 DEF StackOK
  <1>6. PendingOK(k)
    BY <1>3 DEF PendingOK, Stack!Closed, Ends, Stack!Init
  <1>7. \A n \in Nodes : (k[n] # "free" => n \in live) /\ Known(k, b, n)
    BY <1>3 DEF Stack!Init, Known
  <1>8. \A t \in StackThreads : OwnsOld(k, b, t) /\ OwnsChain(k, b, t) /\ Holds(k, t)
    BY DEF Stack!Init, OwnsOld, OwnsChain, Holds, DoomPcs, ChainPcs
  <1>9. ValuesOK(k)
    <2>1. Returned = {} /\ pushed = Initial /\ DOMAIN popped = {}
      BY DEF Stack!Init, Returned
    <2>2. \A n \in Full(k) : n \in 1..Initial /\ data[n] = n
      BY <1>3, <1>4
    <2>3. \A n \in Full(k) : data[n] \in 1..pushed /\ data[n] \notin Returned
      BY <2>1, <2>2
    <2>4. \A m, n \in Full(k) : data[m] = data[n] => m = n
      BY <2>2
    <2>5. ASSUME NEW v \in 1..pushed
          PROVE  \E n \in Full(k) : data[n] = v
      <3>1. v \in 1..Initial
        BY <2>1, <2>5
      <3>2. v \in Full(k)
        BY <1>3, <3>1
      <3>. QED
        BY <2>2, <3>2
    <2>. QED
      BY <2>1, <2>3, <2>4, <2>5 DEF ValuesOK
  <1>10. Owned(k, b)
    BY <1>3, <1>5, <1>6, <1>7, <1>8, <1>9 DEF Owned
  <1>11. Types
    <2>1. InPopNow = {}
      BY DEF InPopNow, Stack!Init, InPop
    <2>2. threads_in_pop = Cardinality(InPopNow) /\ threads_in_pop \in 0..Cardinality(StackThreads)
      BY <1>0, <2>1, FS_EmptySet, FS_CardinalityType DEF Stack!Init
    <2>3. head \in Nodes \union {Stack!Null} /\ to_be_deleted \in Nodes \union {Stack!Null}
      BY <1>0 DEF Stack!Init, Stack!Null
    <2>4. next \in [Nodes -> Nodes \union {Stack!Null}]
      <3>1. \A n \in 1..Initial : n - 1 \in Nodes \union {Stack!Null}
        BY <1>0 DEF Stack!Null
      <3>. QED
        BY <3>1 DEF Stack!Init
    <2>5. data \in [Nodes -> Nat]
      BY DEF Stack!Init
    <2>6. /\ stackPc \in [StackThreads -> Stack!PC] /\ old \in [StackThreads -> Nodes \union {Stack!Null}]
          /\ nxt \in [StackThreads -> Nodes \union {Stack!Null}]
          /\ chain \in [StackThreads -> [first : Nodes \union {Stack!Null}, last : Nodes \union {Stack!Null}]]
      BY DEF Stack!Init, Stack!PC, Stack!NoChain
    <2>7. live \subseteq Nodes /\ pushed \in Nat /\ popped \in Seq(Nat)
      BY <1>0 DEF Stack!Init
    <2>. QED
      BY <2>2, <2>3, <2>4, <2>5, <2>6, <2>7, NumberOfThreads DEF Types, Stack!TypeOK
  <1>. QED
    BY <1>10, <1>11 DEF StackInv

(* Every step of every thread has an account of its own.                   *)
LEMMA StackStep ==
  ASSUME StackInv, [Stack!Next]_(Stack!vars)
  PROVE  StackInv'
  <1>1. PICK k, b : Owned(k, b)
    BY DEF StackInv
  <1>2. CASE UNCHANGED Stack!vars
    <2>1. Types'
      BY <1>2 DEF Stack!vars, Stack!shared, StackInv, Types, Stack!TypeOK, InPopNow
    <2>2. Owned(k, b)'
      BY <1>1, <1>2
      DEF Stack!vars, Stack!shared, Owned, StackOK, PendingOK, OwnsOld, OwnsChain, Holds, Known, ValuesOK,
          Stack!Closed, Ends, Stack!ListFrom, OnStack, Pending, Mine, Full, Returned
    <2>. QED
      BY <2>1, <2>2 DEF StackInv
  <1>3. CASE Stack!Next
    <2>1. PICK t \in StackThreads : Stack!Step(t)
      BY <1>3 DEF Stack!Next
    <2>2. Types' /\ OnlyMoves(t)
      BY <1>1, <2>1, TypesStep DEF StackInv
    <2>3. \E k2, b2 : Owned(k2, b2)'
      <3>. USE <1>1, <2>2 DEF StackInv
      <3>1. CASE Stack!Push(t)
        BY <3>1, PushStep
      <3>2. CASE Stack!PushCas(t)
        BY <3>2, PushRetryStep, PushDoneStep
      <3>3. CASE Stack!PopEnter(t) \/ Stack!PopLoad(t) \/ Stack!PopReadNext(t) \/ Stack!LeaveLast(t)
        BY <3>3, QuietSteps
      <3>4. CASE Stack!PopCas(t)
        BY <3>4, QuietSteps, PopWonStep
      <3>5. CASE Stack!PopSwap(t)
        BY <3>5, PopSwapStep
      <3>6. CASE Stack!TestAlone(t)
        BY <3>6, TestStep
      <3>7. CASE Stack!Claim(t)
        BY <3>7, ClaimStep
      <3>8. CASE Stack!Leave(t)
        BY <3>8, LeaveStep
      <3>9. CASE Stack!ChainLoad(t) \/ Stack!ChainCas(t)
        BY <3>9, ChainWriteStep, ChainDoneStep
      <3>10. CASE Stack!DeleteOld(t)
        BY <3>10, DeleteStep
      <3>. QED
        BY <2>1, <3>1, <3>2, <3>3, <3>4, <3>5, <3>6, <3>7, <3>8, <3>9, <3>10 DEF Stack!Step
    <2>. QED
      BY <2>2, <2>3 DEF StackInv
  <1>. QED
    BY <1>2, <1>3

-----------------------------------------------------------------------------
(* Every node has one owner at every step of any number of threads.        *)
THEOREM StackAlways == Stack!Spec => []StackInv
  <1>1. Stack!Init => StackInv
    BY StackInit
  <1>2. StackInv /\ [Stack!Next]_(Stack!vars) => StackInv'
    BY StackStep
  <1>. QED
    BY <1>1, <1>2, PTL DEF Stack!Spec

(* The other programs leave the stack alone.                               *)
LEMMA StackRuns == Spec => Stack!Spec
  <1>1. Init => Stack!Init
    BY DEF Init
  <1>2. [Next]_vars => [Stack!Next]_(Stack!vars)
    BY DEF Next, BufferNext, HttpNext, TimersNext, ScheduleNext, StoreNext, TomatoNext,
           TurnsNext, StackNext, vars, programVars, stackVars, Stack!vars, Stack!shared
  <1>. QED
    BY <1>1, <1>2, PTL DEF Spec, Stack!Spec

(* The pointers are nodes or null, and threads_in_pop counts the threads   *)
(* between its increment and its decrement.                                *)
THEOREM StackTypeCorrect == Spec => []Stack!TypeOK
  <1>1. StackInv => Stack!TypeOK
    BY DEF StackInv, Types
  <1>. QED
    BY <1>1, StackRuns, StackAlways, PTL

(* push, pop and try_recliam never touch a node between its delete and the *)
(* new that hands it out again.                                            *)
THEOREM NeverUsedAfterFree == Spec => []NoUseAfterFree
  <1>1. ASSUME StackInv
        PROVE  NoUseAfterFree
    <2>1. PICK k, b : Owned(k, b)
      BY <1>1 DEF StackInv
    <2>2. \A n \in Nodes : k[n] # "free" => n \in live
      BY <2>1 DEF Owned
    <2>3. ASSUME NEW t \in StackThreads
          PROVE  /\ stackPc[t] \in {"readNext", "swap", "chainOld", "chainOldCas"} => old[t] \in live
                 /\ stackPc[t] = "deleteOld" /\ old[t] # Stack!Null => old[t] \in live
                 /\ stackPc[t] \in {"chainBack", "chainBackCas"} => chain[t].last \in live
      <3>1. OwnsOld(k, b, t) /\ OwnsChain(k, b, t) /\ Holds(k, t)
            /\ (old[t] # Stack!Null => old[t] \in Nodes)
        BY <1>1, <2>1 DEF StackInv, Types, Stack!TypeOK, Owned
      <3>2. stackPc[t] \in {"readNext", "swap"} => old[t] \in live
        BY <2>2, <3>1 DEF Holds, OwnsOld
      <3>3. stackPc[t] = "deleteOld" /\ old[t] # Stack!Null => old[t] \in live
        BY <2>2, <3>1 DEF OwnsOld, DoomPcs
      <3>4. stackPc[t] \in {"chainOld", "chainOldCas", "chainBack", "chainBackCas"} =>
              chain[t].last \in live
        BY <2>2, <3>1 DEF OwnsChain, ChainPcs, Mine
      <3>5. stackPc[t] \in {"chainOld", "chainOldCas"} => chain[t].last = old[t]
        BY <3>1 DEF OwnsChain
      <3>. QED
        BY <3>2, <3>3, <3>4, <3>5
    <2>4. Stack!ListFrom(head) \subseteq OnStack(k) /\ Stack!ListFrom(to_be_deleted) \subseteq Pending(k)
      <3>1. OnStack(k) \in SUBSET Nodes /\ Pending(k) \in SUBSET Nodes
        BY DEF OnStack, Pending
      <3>2. Stack!Closed(OnStack(k)) /\ head \in OnStack(k) \union {Stack!Null}
        BY <2>1 DEF Owned, StackOK
      <3>3. Stack!Closed(Pending(k)) /\ to_be_deleted \in Pending(k) \union {Stack!Null}
        BY <2>1 DEF Owned, PendingOK
      <3>. QED
        BY <3>1, <3>2, <3>3, ListWithin
    <2>5. OnStack(k) \subseteq live /\ Pending(k) \subseteq live
      BY <2>2 DEF OnStack, Pending
    <2>. QED
      BY <2>3, <2>4, <2>5 DEF NoUseAfterFree, Stack!NoUseAfterFree
  <1>. QED
    BY <1>1, StackRuns, StackAlways, PTL

(* pop() returns every value pushed at most once, and none is lost.        *)
THEOREM PoppedExactlyOnce == Spec => []EachPoppedOnce
  <1>1. ASSUME StackInv
        PROVE  EachPoppedOnce
    <2>1. PICK k, b : Owned(k, b)
      BY <1>1 DEF StackInv
    <2>2. ValuesOK(k) /\ StackOK(k) /\ \A n \in Nodes : Known(k, b, n)
      BY <2>1 DEF Owned
    <2>3. OnStack(k) = Stack!ListFrom(head)
      <3>1. OnStack(k) \in SUBSET Nodes /\ Stack!Closed(OnStack(k)) /\ head \in OnStack(k) \union {Stack!Null}
            /\ OnStack(k) \subseteq Stack!ListFrom(head)
        BY <2>2 DEF OnStack, StackOK
      <3>. QED
        BY <3>1, ListWithin
    <2>4. (\A t \in StackThreads : stackPc[t] = "idle") => Full(k) = OnStack(k)
      BY <2>2 DEF Full, OnStack, Known
    <2>5. 0 \notin Returned /\ \A i, m \in DOMAIN popped : popped[i] = popped[m] => i = m
      BY <1>1, <2>2 DEF ValuesOK, StackInv, Types
    <2>. DEFINE kept == {data[n] : n \in Stack!ListFrom(head)}
    <2>6. (\A t \in StackThreads : stackPc[t] = "idle") =>
            Returned \union kept = 1..pushed /\ Returned \intersect kept = {}
      <3>. SUFFICES ASSUME \A t \in StackThreads : stackPc[t] = "idle"
                    PROVE  Returned \union kept = 1..pushed /\ Returned \intersect kept = {}
        OBVIOUS
      <3>1. Full(k) = Stack!ListFrom(head)
        BY <2>3, <2>4
      <3>2. /\ \A n \in Stack!ListFrom(head) : data[n] \in 1..pushed /\ data[n] \notin Returned
            /\ \A v \in 1..pushed : v \in Returned \/ \E n \in Stack!ListFrom(head) : data[n] = v
            /\ Returned \subseteq 1..pushed
        BY <2>2, <3>1 DEF ValuesOK
      <3>3. \A v : v \in kept <=> \E n \in Stack!ListFrom(head) : data[n] = v
        OBVIOUS
      <3>. HIDE DEF kept
      <3>. QED
        BY <3>2, <3>3, Zenon
    <2>. QED
      BY <2>5, <2>6 DEF EachPoppedOnce, Stack!EachPoppedOnce, Returned
  <1>. QED
    BY <1>1, StackRuns, StackAlways, PTL

-----------------------------------------------------------------------------
HIDE StackConstants DEF StackConstants
USE TurnConstants DEF TurnConstants

(* The classes that print foo and bar.                                    *)
FooBars == {"FooBar", "FooBar_1", "FooBar_2"}

(* A thread has the turn between the load or the acquire that finds it and *)
(* the step that passes it on.                                             *)
HasTurn(t) == turnPc[t] \in {"print", "pass"}

(* The rounds of foo and bar, which are a turn apart at most, say whose    *)
(* turn it is.                                                             *)
RoundOf(t) == IF t = "foo" THEN rounds["foo"] = rounds["bar"]
                           ELSE rounds["foo"] = rounds["bar"] + 1

(* The number of turns that are over.                                      *)
TurnsOver == IF class \in Turns!FizzBuzzes THEN cnt - 1 ELSE rounds["foo"] + rounds["bar"]
(* What has been printed is right so far, and is one turn more than the    *)
(* turns that are over while a thread has yet to pass its turn on.         *)
OutInv ==
  /\ \A i \in DOMAIN out : out[i] = Turns!Expected(i)
  /\ (\A t \in Turns!Threads : turnPc[t] # "pass") => Len(out) = TurnsOver
  /\ \A t \in Turns!Threads : turnPc[t] = "pass" => Len(out) = TurnsOver + 1

(* At most one thread has the turn, and it is the one whose turn it is.    *)
OneInv ==
  /\ \A t, u \in Turns!Threads : HasTurn(t) /\ HasTurn(u) => t = u
  /\ class \in Turns!WithCv => \A t \in Turns!Threads : ~HasTurn(t)

(* fizzbuzz: the counter stays within its range, whoever has the turn is   *)
(* the one the counter calls, and a thread returns only past N.            *)
FizzInv ==
  class \in Turns!FizzBuzzes =>
    /\ cnt \in 1..N + 1
    /\ \A t \in Turns!Threads : HasTurn(t) => Turns!Turn(t) /\ cnt <= N
    /\ \A t \in Turns!Threads : turnPc[t] = "done" => cnt > N

(* foo and bar: they are a turn apart at most, the one that has the turn   *)
(* is the one behind, and the counter or the semaphores say the same.      *)
FooInv ==
  class \in FooBars =>
    /\ rounds["foo"] - rounds["bar"] \in {0, 1}
    /\ \A t \in Turns!Threads : HasTurn(t) => RoundOf(t) /\ rounds[t] < N
    /\ \A t \in Turns!Threads : turnPc[t] = "done" => rounds[t] = N
    /\ class # "FooBar" => cnt = rounds["foo"] + rounds["bar"]
    /\ class = "FooBar" =>
         /\ \A t \in Turns!Threads : sem[t] > 0 => RoundOf(t)
         /\ \A t, u \in Turns!Threads : HasTurn(t) => sem[u] = 0

(* The inductive invariant of all classes.                                 *)
TurnInv == Turns!TypeOK /\ OneInv /\ OutInv /\ FizzInv /\ FooInv

(* With the turns in order so is the output, and it is complete when all   *)
(* have returned.                                                          *)
LEMMA TurnsOrder ==
  TurnInv => Turns!PrintedInOrder
  <1>. SUFFICES ASSUME TurnInv PROVE Turns!PrintedInOrder
    OBVIOUS
  <1>1. CASE class \in Turns!FizzBuzzes
    <2>1. Turns!Threads = {"fizz", "buzz", "fizzbuzz", "number"}
      BY <1>1 DEF Turns!Threads
    <2>2. Len(out) <= N
      BY <1>1, <2>1 DEF TurnInv, Turns!TypeOK, OutInv, FizzInv, HasTurn, TurnsOver
    <2>3. (\A t \in Turns!Threads : turnPc[t] = "done") => Len(out) = N
      BY <1>1, <2>1 DEF TurnInv, Turns!TypeOK, OutInv, FizzInv, HasTurn, TurnsOver
    <2>. QED
      BY <1>1, <2>2, <2>3 DEF TurnInv, OutInv, Turns!PrintedInOrder
  <1>2. CASE class \notin Turns!FizzBuzzes
    <2>1. Turns!Threads = {"foo", "bar"} /\ class \in FooBars
      BY <1>2 DEF Turns!Threads, TurnInv, Turns!TypeOK, Turns!Classes, FooBars
    <2>2. rounds["foo"] \in 0..N /\ rounds["bar"] \in 0..N
      BY <2>1 DEF TurnInv, Turns!TypeOK
    <2>3. Len(out) <= 2 * N
      BY <1>2, <2>1, <2>2 DEF TurnInv, OutInv, FooInv, HasTurn, TurnsOver, RoundOf
    <2>4. (\A t \in Turns!Threads : turnPc[t] = "done") => Len(out) = 2 * N
      BY <1>2, <2>1, <2>2 DEF TurnInv, OutInv, FooInv, HasTurn, TurnsOver
    <2>. QED
      BY <1>2, <2>3, <2>4 DEF TurnInv, OutInv, Turns!PrintedInOrder
  <1>. QED
    BY <1>1, <1>2


-----------------------------------------------------------------------------
(* The threads there are in each class.                                    *)
LEMMA ClassThreads ==
  ASSUME Turns!TypeOK
  PROVE  \/ /\ class \in Turns!FizzBuzzes /\ class \notin FooBars
            /\ Turns!Threads = {"fizz", "buzz", "fizzbuzz", "number"}
         \/ /\ class \in FooBars /\ class \notin Turns!FizzBuzzes
            /\ Turns!Threads = {"foo", "bar"}
            /\ rounds["foo"] \in 0..N /\ rounds["bar"] \in 0..N
  BY DEF Turns!TypeOK, Turns!Classes, Turns!FizzBuzzes, FooBars, Turns!Threads

(* It is the turn of t.                                                    *)
TurnOf(t) == IF class \in Turns!FizzBuzzes THEN Turns!Turn(t) ELSE RoundOf(t)

(* Whose turn it is is who has to print next.                              *)
LEMMA NextExpected ==
  ASSUME TurnInv, NEW t \in Turns!Threads, TurnOf(t),
         \A u \in Turns!Threads : turnPc[u] # "pass"
  PROVE  Turns!Expected(Len(out) + 1) = t
  <1>1. CASE class \in Turns!FizzBuzzes
    <2>1. Len(out) + 1 = cnt /\ cnt \in Nat /\ t \in {"fizz", "buzz", "fizzbuzz", "number"}
      BY <1>1 DEF TurnInv, FizzInv, OutInv, TurnsOver, Turns!Threads
    <2>2. (cnt % 15 = 0) <=> (cnt % 3 = 0 /\ cnt % 5 = 0)
      BY <2>1
    <2>3. Turns!Turn(t)
      BY <1>1 DEF TurnOf
    <2>. QED
      BY <1>1, <2>1, <2>2, <2>3 DEF Turns!Turn, Turns!Expected
  <1>2. CASE class \notin Turns!FizzBuzzes
    <2>1. /\ t \in {"foo", "bar"} /\ RoundOf(t)
          /\ Len(out) = rounds["foo"] + rounds["bar"]
          /\ rounds["foo"] \in Nat /\ rounds["bar"] \in Nat
      BY <1>2, ClassThreads DEF TurnInv, TurnOf, OutInv, TurnsOver
    <2>2. CASE t = "foo"
      <3>1. (Len(out) + 1) % 2 = 1
        BY <2>1, <2>2 DEF RoundOf
      <3>. QED
        BY <1>2, <2>2, <3>1 DEF Turns!Expected
    <2>3. CASE t = "bar"
      <3>1. (Len(out) + 1) % 2 # 1
        BY <2>1, <2>3 DEF RoundOf
      <3>. QED
        BY <1>2, <2>3, <3>1 DEF Turns!Expected
    <2>. QED
      BY <2>1, <2>2, <2>3
  <1>. QED
    BY <1>1, <1>2

(* Its output is then the right one.                                       *)
LEMMA Printed ==
  ASSUME TurnInv, NEW t \in Turns!Threads, TurnOf(t),
         \A u \in Turns!Threads : turnPc[u] # "pass",
         out' = Append(out, t), class' = class
  PROVE  /\ out' \in Seq(Turns!Threads)' /\ Len(out') = Len(out) + 1
         /\ \A i \in DOMAIN out' : out'[i] = Turns!Expected(i)'
  <1>1. out \in Seq(Turns!Threads) /\ Turns!Threads' = Turns!Threads
    BY DEF TurnInv, Turns!TypeOK, Turns!Threads
  <1>2. out' \in Seq(Turns!Threads) /\ Len(out') = Len(out) + 1
    BY <1>1
  <1>3. ASSUME NEW i \in DOMAIN out'
        PROVE  out'[i] = Turns!Expected(i)
    <2>1. CASE i = Len(out) + 1
      BY <1>1, <2>1, NextExpected
    <2>2. CASE i # Len(out) + 1
      <3>1. i \in DOMAIN out /\ out'[i] = out[i]
        BY <1>1, <1>2, <2>2
      <3>. QED
        BY <3>1 DEF TurnInv, OutInv
    <2>. QED
      BY <2>1, <2>2
  <1>4. \A i : Turns!Expected(i)' = Turns!Expected(i)
    BY DEF Turns!Expected
  <1>. QED
    BY <1>1, <1>2, <1>3, <1>4

(* The test that lets a thread in finds its turn.                          *)
LEMMA EntersInTurn ==
  ASSUME TurnInv, NEW t \in Turns!Threads, class # "FooBar", Turns!MayEnter(t)
  PROVE  TurnOf(t)
  <1>1. CASE class \in Turns!FizzBuzzes
    BY <1>1 DEF Turns!MayEnter, TurnOf
  <1>2. CASE class \notin Turns!FizzBuzzes
    <2>1. /\ t \in {"foo", "bar"} /\ Turns!Turn(t)
          /\ rounds["foo"] \in Nat /\ rounds["bar"] \in Nat
          /\ rounds["foo"] - rounds["bar"] \in {0, 1} /\ cnt = rounds["foo"] + rounds["bar"]
      BY <1>2, ClassThreads DEF TurnInv, Turns!MayEnter, FooInv
    <2>2. CASE t = "foo"
      <3>1. cnt % 2 = 0
        BY <2>1, <2>2 DEF Turns!Turn
      <3>2. rounds["foo"] = rounds["bar"]
        BY <2>1, <3>1
      <3>. QED
        BY <1>2, <2>2, <3>2 DEF TurnOf, RoundOf
    <2>3. CASE t = "bar"
      <3>1. cnt % 2 = 1
        BY <2>1, <2>3 DEF Turns!Turn
      <3>2. rounds["foo"] = rounds["bar"] + 1
        BY <2>1, <3>1
      <3>. QED
        BY <1>2, <2>3, <3>2 DEF TurnOf, RoundOf
    <2>. QED
      BY <2>1, <2>2, <2>3
  <1>. QED
    BY <1>1, <1>2


-----------------------------------------------------------------------------
(* Only t moves, and the class stays.                                      *)
OneMoves(t) ==
  /\ class' = class /\ Turns!Threads' = Turns!Threads
  /\ \A u \in Turns!Threads : u # t /\ turnPc[u] # "waiting" => turnPc'[u] = turnPc[u]
  /\ \A u \in Turns!Threads : u # t /\ turnPc[u] = "waiting" => turnPc'[u] \in {"ready", "waiting"}

(* What each action of t does, and when.                                   *)
LEMMA Moves ==
  ASSUME TurnInv, NEW t \in Turns!Threads, Turns!Step(t) \/ Turns!SpuriousWakeup(t)
  PROVE  /\ OneMoves(t)
         /\ turnPc' \in [Turns!Threads -> {"ready", "waiting", "print", "pass", "done"}]
  <1>1. class' = class
    BY DEF Turns!Step, Turns!SpuriousWakeup, Turns!CvTurn, Turns!CvWait, Turns!Load,
           Turns!Acquire, Turns!PrintOut, Turns!PassTurn, Turns!Return
  <1>2. Turns!Threads' = Turns!Threads
    BY <1>1 DEF Turns!Threads
  <1>3. turnPc \in [Turns!Threads -> {"ready", "waiting", "print", "pass", "done"}]
    BY DEF TurnInv, Turns!TypeOK
  <1>4. CASE Turns!CvTurn(t) \/ Turns!Return(t)
    <2>1. PICK ws \in SUBSET Turns!Waiters, at \in {"ready", "done"} :
            turnPc' = Turns!Goes(t, at, ws)
      <3>1. Turns!NotifyOne \subseteq SUBSET Turns!Waiters
        BY DEF Turns!NotifyOne
      <3>2. Turns!NotifyAfterTurn \subseteq SUBSET Turns!Waiters
        BY <3>1 DEF Turns!NotifyAfterTurn
      <3>. QED
        BY <1>4, <3>1, <3>2 DEF Turns!CvTurn, Turns!Return
    <2>2. \A u \in ws : turnPc[u] = "waiting"
      BY <2>1 DEF Turns!Waiters
    <2>. QED
      BY <1>1, <1>2, <1>3, <2>1, <2>2 DEF Turns!Goes, OneMoves
  <1>5. CASE \/ Turns!CvWait(t) \/ Turns!SpuriousWakeup(t) \/ Turns!Load(t) \/ Turns!Acquire(t)
             \/ Turns!PrintOut(t) \/ Turns!PassTurn(t)
    BY <1>1, <1>2, <1>3, <1>5 DEF Turns!CvWait, Turns!SpuriousWakeup, Turns!Load,
       Turns!Acquire,
         Turns!PrintOut, Turns!PassTurn, OneMoves
  <1>. QED
    BY <1>4, <1>5 DEF Turns!Step


(* A step of t leaves alone who else has the turn.                         *)
LEMMA Others ==
  ASSUME NEW t \in Turns!Threads, OneMoves(t), NEW u \in Turns!Threads, u # t
  PROVE  /\ HasTurn(u)' <=> HasTurn(u)
         /\ turnPc'[u] = "pass" <=> turnPc[u] = "pass"
         /\ turnPc'[u] = "done" <=> turnPc[u] = "done"
  BY DEF OneMoves, HasTurn

(* Two threads never have the turn.                                        *)
LEMMA UniqueTurn ==
  ASSUME TurnInv, NEW t \in Turns!Threads, NEW u \in Turns!Threads, TurnOf(t), TurnOf(u)
  PROVE  t = u
  <1>1. CASE class \in Turns!FizzBuzzes
    <2>1. /\ t \in {"fizz", "buzz", "fizzbuzz", "number"} /\ u \in {"fizz", "buzz", "fizzbuzz", "number"}
          /\ Turns!Turn(t) /\ Turns!Turn(u)
      BY <1>1 DEF TurnOf, Turns!Threads
    <2>2. ASSUME NEW x \in {"fizz", "buzz", "fizzbuzz", "number"}, Turns!Turn(x)
          PROVE  /\ x \in {"fizz", "fizzbuzz"} <=> cnt % 3 = 0
                 /\ x \in {"buzz", "fizzbuzz"} <=> cnt % 5 = 0
      <3>1. CASE x = "fizz"
        BY <2>2, <3>1 DEF Turns!Turn
      <3>2. CASE x = "buzz"
        BY <2>2, <3>2 DEF Turns!Turn
      <3>3. CASE x = "fizzbuzz"
        BY <2>2, <3>3 DEF Turns!Turn
      <3>4. CASE x = "number"
        BY <2>2, <3>4 DEF Turns!Turn
      <3>. QED
        BY <3>1, <3>2, <3>3, <3>4
    <2>. QED
      BY <2>1, <2>2
  <1>2. CASE class \notin Turns!FizzBuzzes
    BY <1>2, ClassThreads DEF TurnInv, TurnOf, RoundOf
  <1>. QED
    BY <1>1, <1>2

(* Who has the turn is whose turn it is.                                   *)
LEMMA HolderInTurn ==
  ASSUME TurnInv, NEW t \in Turns!Threads, HasTurn(t)
  PROVE  TurnOf(t)
  BY ClassThreads DEF TurnInv, FizzInv, FooInv, TurnOf

(* Steps that print nothing and pass nothing on: wait, wake up, return.    *)
LEMMA QuietTurn ==
  ASSUME TurnInv, NEW t \in Turns!Threads, OneMoves(t),
         turnPc' \in [Turns!Threads -> {"ready", "waiting", "print", "pass", "done"}],
         UNCHANGED <<class, cnt, sem, rounds, out>>,
         ~HasTurn(t), ~HasTurn(t)', turnPc'[t] = "done" => Turns!Over(t)
  PROVE  TurnInv'
  <1>1. /\ \A u \in Turns!Threads : HasTurn(u)' <=> HasTurn(u)
        /\ \A u \in Turns!Threads : turnPc'[u] = "pass" <=> turnPc[u] = "pass"
        /\ Turns!Threads' = Turns!Threads
    BY Others DEF HasTurn, OneMoves
  <1>2. /\ TurnsOver' = TurnsOver /\ \A u : RoundOf(u)' <=> RoundOf(u)
        /\ \A u : Turns!Turn(u)' <=> Turns!Turn(u)
        /\ \A i : Turns!Expected(i)' = Turns!Expected(i)
    BY DEF TurnsOver, RoundOf, Turns!Turn, Turns!Expected
  <1>3. \A u \in Turns!Threads : turnPc'[u] = "done" => turnPc[u] = "done" \/ Turns!Over(u)
    BY Others
  <1>4. Turns!TypeOK'
    BY <1>1 DEF TurnInv, Turns!TypeOK
  <1>5. OneInv'
    BY <1>1 DEF TurnInv, OneInv
  <1>6. OutInv'
    BY <1>1, <1>2 DEF TurnInv, OutInv
  <1>7. FizzInv'
    BY <1>1, <1>2, <1>3 DEF TurnInv, FizzInv, Turns!Over
  <1>8. FooInv'
    BY <1>1, <1>2, <1>3, ClassThreads DEF TurnInv, FooInv, Turns!Over
  <1>. QED
    BY <1>4, <1>5, <1>6, <1>7, <1>8 DEF TurnInv

(* The load that finds the turn, and acquire().                            *)
LEMMA EnterTurn ==
  ASSUME TurnInv, NEW t \in Turns!Threads, Turns!Load(t) \/ Turns!Acquire(t)
  PROVE  TurnInv'
  <1>1. /\ OneMoves(t) /\ Turns!Threads' = Turns!Threads
        /\ turnPc' \in [Turns!Threads -> {"ready", "waiting", "print", "pass", "done"}]
    BY Moves DEF Turns!Step, OneMoves
  <1>2. /\ UNCHANGED <<class, cnt, rounds, out>> /\ turnPc[t] = "ready" /\ turnPc'[t] = "print"
        /\ class \notin Turns!WithCv /\ ~Turns!Over(t)
    BY DEF Turns!Load, Turns!Acquire, Turns!MayEnter, Turns!Atomics, Turns!WithCv, TurnInv,
           Turns!TypeOK
  <1>3. TurnOf(t) /\ \A u \in Turns!Threads : ~HasTurn(u)
    <2>1. CASE Turns!Load(t)
      <3>1. TurnOf(t)
        BY <2>1, EntersInTurn DEF Turns!Load, Turns!Atomics
      <3>2. ~HasTurn(t)
        BY <1>2 DEF HasTurn
      <3>. QED
        BY <3>1, <3>2, UniqueTurn, HolderInTurn
    <2>2. CASE Turns!Acquire(t)
      <3>1. class = "FooBar" /\ sem[t] > 0 /\ class \in FooBars /\ class \notin Turns!FizzBuzzes
        BY <2>2 DEF Turns!Acquire, FooBars, Turns!FizzBuzzes
      <3>2. RoundOf(t)
        BY <3>1 DEF TurnInv, FooInv
      <3>3. \A u \in Turns!Threads : ~HasTurn(u)
        BY <3>1 DEF TurnInv, FooInv
      <3>. QED
        BY <3>1, <3>2, <3>3 DEF TurnOf
    <2>. QED
      BY <2>1, <2>2
  <1>4. /\ \A u \in Turns!Threads : HasTurn(u)' <=> u = t
        /\ \A u \in Turns!Threads : turnPc'[u] # "pass" /\ turnPc[u] # "pass"
        /\ \A u \in Turns!Threads : turnPc'[u] = "done" => turnPc[u] = "done"
    BY <1>1, <1>2, <1>3, Others DEF HasTurn
  <1>5. /\ TurnsOver' = TurnsOver /\ \A u : RoundOf(u)' <=> RoundOf(u)
        /\ \A u : Turns!Turn(u)' <=> Turns!Turn(u)
        /\ \A i : Turns!Expected(i)' = Turns!Expected(i)
    BY <1>2 DEF TurnsOver, RoundOf, Turns!Turn, Turns!Expected
  <1>6. /\ sem' \in [{"foo", "bar"} -> 0..1]
        /\ class = "FooBar" => \A u \in Turns!Threads : sem'[u] = 0
    <2>1. CASE Turns!Load(t)
      BY <2>1 DEF Turns!Load, Turns!Atomics, TurnInv, Turns!TypeOK
    <2>2. CASE Turns!Acquire(t)
      <3>1. /\ sem' = [sem EXCEPT ![t] = @ - 1] /\ sem[t] > 0 /\ sem \in [{"foo", "bar"} -> 0..1]
            /\ class = "FooBar"
        BY <2>2 DEF Turns!Acquire, TurnInv, Turns!TypeOK
      <3>2. Turns!Threads = {"foo", "bar"} /\ sem[t] = 1
        BY <3>1, ClassThreads DEF TurnInv, Turns!FizzBuzzes
      <3>3. \A u \in Turns!Threads : sem[u] > 0 => u = t
        BY <1>3, <3>1, <3>2, UniqueTurn DEF TurnInv, FooInv, TurnOf, FooBars,
           Turns!FizzBuzzes
      <3>. QED
        BY <3>1, <3>2, <3>3
    <2>. QED
      BY <2>1, <2>2
  <1>7. Turns!TypeOK'
    BY <1>1, <1>2, <1>6 DEF TurnInv, Turns!TypeOK
  <1>8. OneInv' /\ OutInv'
    BY <1>1, <1>2, <1>4, <1>5 DEF TurnInv, OneInv, OutInv
  <1>9. FizzInv'
    BY <1>1, <1>2, <1>3, <1>4, <1>5 DEF TurnInv, FizzInv, TurnOf, Turns!Over
  <1>10. FooInv'
    <2>1. class \in FooBars => RoundOf(t) /\ rounds[t] < N
      BY <1>2, <1>3, ClassThreads DEF TurnInv, TurnOf, Turns!Over
    <2>. QED
      BY <1>1, <1>2, <1>4, <1>5, <1>6, <2>1 DEF TurnInv, FooInv
  <1>. QED
    BY <1>7, <1>8, <1>9, <1>10 DEF TurnInv


(* printFizz() and the others, by the thread that has the turn.            *)
LEMMA PrintTurn ==
  ASSUME TurnInv, NEW t \in Turns!Threads, Turns!PrintOut(t)
  PROVE  TurnInv'
  <1>1. /\ OneMoves(t) /\ Turns!Threads' = Turns!Threads
        /\ turnPc' \in [Turns!Threads -> {"ready", "waiting", "print", "pass", "done"}]
    BY Moves DEF Turns!Step, OneMoves
  <1>2. /\ UNCHANGED <<class, cnt, sem, rounds>> /\ turnPc[t] = "print" /\ turnPc'[t] = "pass"
        /\ out' = Append(out, t)
    BY DEF Turns!PrintOut, TurnInv, Turns!TypeOK
  <1>3. HasTurn(t) /\ \A u \in Turns!Threads : HasTurn(u) => u = t
    BY <1>2 DEF TurnInv, OneInv, HasTurn
  <1>4. /\ \A u \in Turns!Threads : HasTurn(u)' <=> HasTurn(u)
        /\ \A u \in Turns!Threads : turnPc[u] # "pass"
        /\ \A u \in Turns!Threads : turnPc'[u] = "done" => turnPc[u] = "done"
    BY <1>1, <1>2, <1>3, Others DEF HasTurn
  <1>5. /\ TurnsOver' = TurnsOver /\ \A u : RoundOf(u)' <=> RoundOf(u)
        /\ \A u : Turns!Turn(u)' <=> Turns!Turn(u)
    BY <1>2 DEF TurnsOver, RoundOf, Turns!Turn
  <1>6. /\ out' \in Seq(Turns!Threads)' /\ Len(out') = Len(out) + 1
        /\ \A i \in DOMAIN out' : out'[i] = Turns!Expected(i)'
    BY <1>2, <1>3, <1>4, HolderInTurn, Printed
  <1>7. Turns!TypeOK'
    BY <1>1, <1>2, <1>6 DEF TurnInv, Turns!TypeOK
  <1>8. OneInv'
    BY <1>1, <1>2, <1>4 DEF TurnInv, OneInv
  <1>9. OutInv'
    BY <1>1, <1>2, <1>4, <1>5, <1>6 DEF TurnInv, OutInv
  <1>10. FizzInv'
    BY <1>1, <1>2, <1>4, <1>5 DEF TurnInv, FizzInv
  <1>11. FooInv'
    BY <1>1, <1>2, <1>4, <1>5 DEF TurnInv, FooInv
  <1>. QED
    BY <1>7, <1>8, <1>9, <1>10, <1>11 DEF TurnInv

(* A thread has taken its turn and nobody has it now: the next one's.      *)
LEMMA RoundTaken ==
  ASSUME TurnInv, NEW t \in Turns!Threads, TurnOf(t), ~Turns!Over(t), class' = class,
         rounds' = [rounds EXCEPT ![t] = IF class \in Turns!FizzBuzzes THEN @ ELSE @ + 1],
         class # "FooBar" => cnt' = cnt + 1
  PROVE  /\ rounds' \in [Turns!Threads -> 0..N] /\ TurnsOver' = TurnsOver + 1
         /\ class \in FooBars =>
              /\ rounds'["foo"] - rounds'["bar"] \in {0, 1}
              /\ class # "FooBar" => cnt' = rounds'["foo"] + rounds'["bar"]
              /\ \A u \in Turns!Threads : u # t => rounds'[u] = rounds[u] /\ RoundOf(u)'
  <1>1. CASE class \in Turns!FizzBuzzes
    <2>1. class # "FooBar" /\ cnt \in Nat /\ rounds' = rounds /\ class \notin FooBars
      BY <1>1, ClassThreads DEF Turns!FizzBuzzes, TurnInv, Turns!TypeOK
    <2>. QED
      BY <1>1, <2>1 DEF TurnsOver, TurnInv, Turns!TypeOK
  <1>2. CASE class \notin Turns!FizzBuzzes
    <2>1. /\ Turns!Threads = {"foo", "bar"} /\ class \in FooBars
          /\ rounds \in [{"foo", "bar"} -> 0..N] /\ rounds["foo"] \in 0..N /\ rounds["bar"] \in 0..N
      BY <1>2, ClassThreads DEF TurnInv, Turns!TypeOK
    <2>2. rounds[t] < N /\ rounds[t] \in Nat
      BY <1>2, <2>1 DEF Turns!Over
    <2>3. rounds' = [rounds EXCEPT ![t] = @ + 1]
      BY <1>2
    <2>4. rounds' \in [{"foo", "bar"} -> 0..N]
      BY <2>1, <2>2, <2>3
    <2>5. RoundOf(t) /\ rounds["foo"] - rounds["bar"] \in {0, 1}
      BY <1>2, <2>1 DEF TurnOf, TurnInv, FooInv
    <2>6. class # "FooBar" => cnt = rounds["foo"] + rounds["bar"]
      BY <2>1 DEF TurnInv, FooInv
    <2>7. CASE t = "foo"
      <3>1. /\ rounds["foo"] = rounds["bar"]
            /\ rounds'["foo"] = rounds["foo"] + 1 /\ rounds'["bar"] = rounds["bar"]
        BY <2>1, <2>3, <2>5, <2>7 DEF RoundOf
      <3>. QED
        BY <1>2, <2>1, <2>4, <2>6, <2>7, <3>1 DEF TurnsOver, RoundOf
    <2>8. CASE t = "bar"
      <3>1. /\ rounds["foo"] = rounds["bar"] + 1
            /\ rounds'["bar"] = rounds["bar"] + 1 /\ rounds'["foo"] = rounds["foo"]
        BY <2>1, <2>3, <2>5, <2>8 DEF RoundOf
      <3>. QED
        BY <1>2, <2>1, <2>4, <2>6, <2>8, <3>1 DEF TurnsOver, RoundOf
    <2>. QED
      BY <2>1, <2>7, <2>8
  <1>. QED
    BY <1>1, <1>2


(* The turn is passed on: the atomic is incremented, or the other          *)
(* semaphore released.                                                     *)
LEMMA PassOn ==
  ASSUME TurnInv, NEW t \in Turns!Threads, Turns!PassTurn(t)
  PROVE  TurnInv'
  <1>1. /\ OneMoves(t) /\ Turns!Threads' = Turns!Threads
        /\ turnPc' \in [Turns!Threads -> {"ready", "waiting", "print", "pass", "done"}]
    BY Moves DEF Turns!Step, OneMoves
  <1>2. /\ class' = class /\ out' = out /\ turnPc[t] = "pass" /\ turnPc'[t] = "ready"
        /\ rounds' = [rounds EXCEPT ![t] = IF class \in Turns!FizzBuzzes THEN @ ELSE @ + 1]
        /\ class # "FooBar" => cnt' = cnt + 1 /\ sem' = sem
        /\ class = "FooBar" =>
             sem' = [sem EXCEPT ![IF t = "foo" THEN "bar" ELSE "foo"] = @ + 1] /\ cnt' = cnt
    BY DEF Turns!PassTurn, TurnInv, Turns!TypeOK
  <1>3. /\ HasTurn(t) /\ \A u \in Turns!Threads : HasTurn(u) => u = t
        /\ class \notin Turns!WithCv
    BY <1>2 DEF TurnInv, OneInv, HasTurn
  <1>4. TurnOf(t) /\ ~Turns!Over(t)
    <2>1. class \in Turns!FizzBuzzes => cnt \in Nat /\ cnt <= N
      BY <1>3 DEF TurnInv, FizzInv
    <2>2. class \notin Turns!FizzBuzzes => rounds[t] < N /\ rounds[t] \in Nat
      BY <1>3, ClassThreads DEF TurnInv, FooInv
    <2>. QED
      BY <1>3, <2>1, <2>2, HolderInTurn DEF Turns!Over
  <1>5. \A u \in Turns!Threads : /\ ~HasTurn(u)' /\ turnPc'[u] # "pass"
                                 /\ turnPc'[u] = "done" => u # t /\ turnPc[u] = "done"
    BY <1>1, <1>2, <1>3, Others DEF HasTurn
  <1>6. /\ rounds' \in [Turns!Threads -> 0..N] /\ TurnsOver' = TurnsOver + 1
        /\ class \in FooBars =>
             /\ rounds'["foo"] - rounds'["bar"] \in {0, 1}
             /\ class # "FooBar" => cnt' = rounds'["foo"] + rounds'["bar"]
             /\ \A u \in Turns!Threads : u # t => rounds'[u] = rounds[u] /\ RoundOf(u)'
    BY <1>2, <1>4, RoundTaken
  <1>7. /\ sem' \in [{"foo", "bar"} -> 0..1]
        /\ class = "FooBar" => \A u \in Turns!Threads : sem'[u] > 0 => u # t
    <2>1. CASE class # "FooBar"
      BY <1>2, <2>1 DEF TurnInv, Turns!TypeOK
    <2>2. CASE class = "FooBar"
      <3>1. Turns!Threads = {"foo", "bar"} /\ sem \in [{"foo", "bar"} -> 0..1]
        BY <2>2, ClassThreads DEF TurnInv, Turns!TypeOK, Turns!FizzBuzzes
      <3>2. \A u \in Turns!Threads : sem[u] = 0
        BY <1>3, <2>2 DEF TurnInv, FooInv, FooBars
      <3>. QED
        BY <1>2, <2>2, <3>1, <3>2
    <2>. QED
      BY <2>1, <2>2
  <1>8. Turns!TypeOK'
    <2>1. cnt' \in Nat
      BY <1>2 DEF TurnInv, Turns!TypeOK
    <2>. QED
      BY <1>1, <1>2, <1>6, <1>7, <2>1 DEF TurnInv, Turns!TypeOK
  <1>9. OneInv'
    BY <1>1, <1>2, <1>5 DEF TurnInv, OneInv
  <1>10. OutInv'
    <2>1. Len(out) = TurnsOver + 1
      BY <1>2 DEF TurnInv, OutInv
    <2>2. \A i : Turns!Expected(i)' = Turns!Expected(i)
      BY <1>2 DEF Turns!Expected
    <2>. QED
      BY <1>1, <1>2, <1>5, <1>6, <2>1, <2>2 DEF TurnInv, OutInv
  <1>11. FizzInv'
    <2>. SUFFICES ASSUME class \in Turns!FizzBuzzes
                  PROVE  /\ cnt' \in 1..N + 1
                         /\ \A u \in Turns!Threads : turnPc'[u] = "done" => cnt' > N
      BY <1>1, <1>2, <1>5 DEF FizzInv
    <2>1. cnt \in 1..N + 1 /\ cnt <= N /\ cnt' = cnt + 1
      BY <1>2, <1>3 DEF TurnInv, FizzInv, Turns!FizzBuzzes
    <2>. QED
      BY <1>5, <2>1 DEF TurnInv, FizzInv
  <1>12. FooInv'
    BY <1>1, <1>2, <1>5, <1>6, <1>7 DEF TurnInv, FooInv
  <1>. QED
    BY <1>8, <1>9, <1>10, <1>11, <1>12 DEF TurnInv

(* A turn under the mutex: it is found, taken and passed on at once.       *)
LEMMA CvTurnStep ==
  ASSUME TurnInv, NEW t \in Turns!Threads, Turns!CvTurn(t)
  PROVE  TurnInv'
  <1>1. /\ OneMoves(t) /\ Turns!Threads' = Turns!Threads
        /\ turnPc' \in [Turns!Threads -> {"ready", "waiting", "print", "pass", "done"}]
    BY Moves DEF Turns!Step, OneMoves
  <1>2. /\ class' = class /\ sem' = sem /\ out' = Append(out, t)
        /\ turnPc[t] = "ready" /\ turnPc'[t] = "ready"
        /\ rounds' = [rounds EXCEPT ![t] = IF class \in Turns!FizzBuzzes THEN @ ELSE @ + 1]
        /\ cnt' = cnt + 1 /\ class # "FooBar"
    BY DEF Turns!CvTurn, Turns!Goes, Turns!WithCv
  <1>3. TurnOf(t) /\ ~Turns!Over(t)
    BY <1>2, EntersInTurn DEF Turns!CvTurn, Turns!MayEnter
  <1>4. \A u \in Turns!Threads : ~HasTurn(u) /\ turnPc[u] # "pass"
    BY DEF TurnInv, OneInv, Turns!CvTurn, HasTurn
  <1>5. \A u \in Turns!Threads : /\ ~HasTurn(u)' /\ turnPc'[u] # "pass"
                                 /\ turnPc'[u] = "done" => u # t /\ turnPc[u] = "done"
    BY <1>1, <1>2, <1>4, Others DEF HasTurn
  <1>6. /\ rounds' \in [Turns!Threads -> 0..N] /\ TurnsOver' = TurnsOver + 1
        /\ class \in FooBars =>
             /\ rounds'["foo"] - rounds'["bar"] \in {0, 1}
             /\ class # "FooBar" => cnt' = rounds'["foo"] + rounds'["bar"]
             /\ \A u \in Turns!Threads : u # t => rounds'[u] = rounds[u] /\ RoundOf(u)'
    BY <1>2, <1>3, RoundTaken
  <1>7. /\ out' \in Seq(Turns!Threads)' /\ Len(out') = Len(out) + 1
        /\ \A i \in DOMAIN out' : out'[i] = Turns!Expected(i)'
    BY <1>2, <1>3, <1>4, Printed
  <1>8. Turns!TypeOK'
    <2>1. cnt' \in Nat
      BY <1>2 DEF TurnInv, Turns!TypeOK
    <2>. QED
      BY <1>1, <1>2, <1>6, <1>7, <2>1 DEF TurnInv, Turns!TypeOK
  <1>9. OneInv'
    BY <1>1, <1>5 DEF OneInv
  <1>10. OutInv'
    BY <1>1, <1>4, <1>5, <1>6, <1>7 DEF TurnInv, OutInv
  <1>11. FizzInv'
    <2>. SUFFICES ASSUME class \in Turns!FizzBuzzes
                  PROVE  /\ cnt' \in 1..N + 1
                         /\ \A u \in Turns!Threads : turnPc'[u] = "done" => cnt' > N
      BY <1>1, <1>2, <1>5 DEF FizzInv
    <2>1. cnt \in 1..N + 1 /\ cnt <= N /\ cnt' = cnt + 1
      BY <1>2, <1>3 DEF TurnInv, FizzInv, Turns!Over
    <2>. QED
      BY <1>5, <2>1 DEF TurnInv, FizzInv
  <1>12. FooInv'
    BY <1>1, <1>2, <1>5, <1>6 DEF TurnInv, FooInv
  <1>. QED
    BY <1>8, <1>9, <1>10, <1>11, <1>12 DEF TurnInv

(* The counter starts at the first turn, and foo's semaphore is up.        *)
LEMMA TurnInit ==
  ASSUME Turns!Init
  PROVE  TurnInv
  <1>1. /\ class \in Turns!Classes /\ out = <<>> /\ sem = [foo |-> 1, bar |-> 0]
        /\ cnt = IF class \in Turns!FizzBuzzes THEN 1 ELSE 0
        /\ turnPc = [t \in Turns!Threads |-> "ready"] /\ rounds = [t \in Turns!Threads |-> 0]
    BY DEF Turns!Init
  <1>2. Turns!TypeOK
    <2>1. sem \in [{"foo", "bar"} -> 0..1] /\ cnt \in Nat /\ out \in Seq(Turns!Threads)
      BY <1>1
    <2>2. rounds \in [Turns!Threads -> 0..N]
      BY <1>1
    <2>3. turnPc \in [Turns!Threads -> {"ready", "waiting", "print", "pass", "done"}]
      BY <1>1
    <2>. QED
      BY <1>1, <2>1, <2>2, <2>3 DEF Turns!TypeOK
  <1>3. \A t \in Turns!Threads : turnPc[t] = "ready" /\ rounds[t] = 0 /\ ~HasTurn(t)
    BY <1>1 DEF HasTurn
  <1>4. OneInv
    BY <1>3 DEF OneInv
  <1>5. Len(out) = 0 /\ DOMAIN out = {}
    BY <1>1
  <1>6. TurnsOver = 0
    BY <1>1, <1>2, <1>3, ClassThreads DEF TurnsOver
  <1>7. OutInv
    BY <1>3, <1>5, <1>6 DEF OutInv
  <1>8. FizzInv
    BY <1>1, <1>3 DEF FizzInv
  <1>9. FooInv
    <2>. SUFFICES ASSUME class \in FooBars PROVE FooInv
      BY DEF FooInv
    <2>1. Turns!Threads = {"foo", "bar"} /\ class \notin Turns!FizzBuzzes
      BY <1>2, ClassThreads
    <2>2. rounds["foo"] = 0 /\ rounds["bar"] = 0 /\ cnt = 0
      BY <1>1, <1>3, <2>1
    <2>3. sem["foo"] = 1 /\ sem["bar"] = 0
      BY <1>1
    <2>. QED
      BY <1>3, <2>1, <2>2, <2>3 DEF FooInv, RoundOf
  <1>. QED
    BY <1>2, <1>4, <1>7, <1>8, <1>9 DEF TurnInv

-----------------------------------------------------------------------------
(* Every class keeps to its turns for every n and every schedule.          *)
THEOREM TurnsAlways == Turns!Spec => []TurnInv
  <1>1. Turns!Init => TurnInv
    BY TurnInit
  <1>2. ASSUME TurnInv, [Turns!Next]_(Turns!vars)
        PROVE  TurnInv'
    <2>1. CASE UNCHANGED Turns!vars
      BY <1>2, <2>1 DEF Turns!vars, TurnInv, Turns!TypeOK, OneInv, OutInv, FizzInv, FooInv,
           HasTurn, RoundOf, TurnsOver, Turns!Threads, Turns!Turn, Turns!Expected
    <2>2. ASSUME NEW t \in Turns!Threads,
                 Turns!CvWait(t) \/ Turns!SpuriousWakeup(t) \/ Turns!Return(t)
          PROVE  TurnInv'
      <3>1. /\ UNCHANGED <<class, cnt, sem, rounds, out>>
            /\ turnPc[t] \in {"ready", "waiting"} /\ turnPc'[t] \in {"ready", "waiting", "done"}
            /\ turnPc'[t] = "done" => Turns!Over(t)
        BY <1>2, <2>2 DEF TurnInv, Turns!TypeOK, Turns!CvWait, Turns!SpuriousWakeup,
           Turns!Return,
             Turns!Goes
      <3>2. ~HasTurn(t) /\ ~HasTurn(t)'
        BY <3>1 DEF HasTurn
      <3>. QED
        BY <1>2, <2>2, <3>1, <3>2, QuietTurn, Moves DEF Turns!Step
    <2>. QED
      BY <1>2, <2>1, <2>2, EnterTurn, PrintTurn, PassOn, CvTurnStep DEF Turns!Next,
         Turns!Step
  <1>. QED
    BY <1>1, <1>2, PTL DEF Turns!Spec

(* The other programs leave the turns alone.                               *)
LEMMA TurnsRun == Spec => Turns!Spec
  <1>1. Init => Turns!Init
    BY DEF Init
  <1>2. [Next]_vars => [Turns!Next]_(Turns!vars)
    BY DEF Next, BufferNext, HttpNext, TimersNext, ScheduleNext, StoreNext, TomatoNext,
           TurnsNext, StackNext, vars, programVars, turnsVars, Turns!vars
  <1>. QED
    BY <1>1, <1>2, PTL DEF Spec, Turns!Spec

(* Counters, semaphores and rounds stay within their ranges.               *)
THEOREM TurnsTypeCorrect == Spec => []Turns!TypeOK
  <1>1. TurnInv => Turns!TypeOK
    BY DEF TurnInv
  <1>. QED
    BY <1>1, TurnsRun, TurnsAlways, PTL

(* The output of FizzBuzz and FooBar, in every version, is the required    *)
(* one as far as it goes, and complete when all threads have returned.     *)
THEOREM OutputInOrder == Spec => []PrintedInOrder
  <1>1. TurnInv => PrintedInOrder
    BY TurnsOrder DEF PrintedInOrder
  <1>. QED
    BY <1>1, TurnsRun, TurnsAlways, PTL
=============================================================================
