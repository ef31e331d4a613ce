------------------------------ MODULE HeapQueue ------------------------------
(***************************************************************************)
(* The timer heap of src/heapq.c: an array whose first heapsize slots are  *)
(* a binary heap ordered by the timers' deadlines, doubled when it is      *)
(* full.  A timer that is pushed again with another deadline counts as     *)
(* another timer here, so that seconds is a constant.                      *)
(***************************************************************************)
EXTENDS Integers

CONSTANTS Timer,
          seconds,    \* timer->seconds
          NULL,
          Unwritten,  \* what malloc and realloc leave in a slot
          InitialMax  \* 1024 in the code

(* heappop tells an empty heap from a timer, a heap begins with room for    *)
(* one, and deadlines are compared as integers.                             *)
ASSUME HeapAssumption ==
  /\ NULL \notin Timer /\ Unwritten \notin Timer
  /\ seconds \in [Timer -> Int]
  /\ InitialMax \in Nat \ {0}

VARIABLES heap, heapsize, heapmax,
          popped \* what the last heappop returned

heapVars == <<heap, heapsize, heapmax, popped>>

InitHeap ==
  /\ heap = [i \in 0 .. InitialMax - 1 |-> Unwritten]
  /\ heapsize = 0
  /\ heapmax = InitialMax
  /\ popped = NULL

Within(p, n) == {p[i] : i \in 0 .. n - 1}

InHeap == Within(heap, heapsize)

Parent(pos) == (pos - 1) \div 2

Swapped(p, i, j) == [p EXCEPT ![i] = p[j], ![j] = p[i]]

(* A turn of the loop of _siftdown, of which s holds the array p and the    *)
(* index pos: an item that is due before its parent changes places with it. *)
Rise(s, startpos) ==
  LET parentpos == Parent(s.pos)
  IN  IF s.pos > startpos /\ seconds[s.p[s.pos]] < seconds[s.p[parentpos]]
        THEN [p |-> Swapped(s.p, s.pos, parentpos), pos |-> parentpos]
        ELSE s

(* _siftdown: pos halves with every turn that changes anything.             *)
SiftDown(p, startpos, pos) ==
  LET turn[k \in 0 .. pos] ==
        IF k = 0 THEN [p |-> p, pos |-> pos] ELSE Rise(turn[k - 1], startpos)
  IN  turn[pos].p

(* The child with the earlier deadline, of a pos that has one.              *)
SmallerChild(p, n, pos) ==
  LET childpos == 2 * pos + 1
      rightpos == childpos + 1
  IN  IF rightpos < n /\ seconds[p[childpos]] > seconds[p[rightpos]]
        THEN rightpos ELSE childpos

(* A turn of the loop of _siftup, which takes the item down to a leaf.      *)
Sink(s, n) ==
  LET childpos == SmallerChild(s.p, n, s.pos)
  IN  IF 2 * s.pos + 1 < n
        THEN [p |-> Swapped(s.p, s.pos, childpos), pos |-> childpos]
        ELSE s

(* _siftup of the root, from where the item may have to rise again.         *)
SiftUp(p, n) ==
  LET turn[k \in 0 .. n] ==
        IF k = 0 THEN [p |-> p, pos |-> 0] ELSE Sink(turn[k - 1], n)
  IN  SiftDown(turn[n].p, 0, turn[n].pos)

AtCapacity == heapsize >= heapmax

(* realloc to twice the size.                                               *)
Grown == [i \in 0 .. 2 * heapmax - 1 |-> IF i < heapmax THEN heap[i] ELSE Unwritten]

Heappush(val) ==
  LET p == IF AtCapacity THEN Grown ELSE heap
  IN  /\ val \notin InHeap
      /\ heapmax' = IF AtCapacity THEN 2 * heapmax ELSE heapmax
      /\ heap' = SiftDown([p EXCEPT ![heapsize] = val], 0, heapsize)
      /\ heapsize' = heapsize + 1
      /\ UNCHANGED popped

HeappopEmpty ==
  /\ heapsize = 0
  /\ popped' = NULL
  /\ UNCHANGED <<heap, heapsize, heapmax>>

(* Mutant: *p = last before retitem = *p.                                   *)
HeappopSwapped ==
  LET last == heap[heapsize - 1]
      p == [heap EXCEPT ![heapsize - 1] = NULL]
  IN  /\ heapsize > 0
      /\ heapsize' = heapsize - 1
      /\ popped' = last
      /\ heap' = IF heapsize > 1 THEN SiftUp([p EXCEPT ![0] = last], heapsize - 1) ELSE p
      /\ UNCHANGED heapmax

Heappop ==
  LET last == heap[heapsize - 1]
      p == [heap EXCEPT ![heapsize - 1] = NULL]
  IN  /\ heapsize > 0
      /\ heapsize' = heapsize - 1
      /\ popped' = IF heapsize > 1 THEN heap[0] ELSE last
      /\ heap' = IF heapsize > 1 THEN SiftUp([p EXCEPT ![0] = last], heapsize - 1) ELSE p
      /\ UNCHANGED heapmax

HeapStep == HeappopEmpty \/ Heappop \/ \E t \in Timer : Heappush(t)

HeapSpec == InitHeap /\ [][HeapStep]_heapVars
-----------------------------------------------------------------------------
HeapTypeOK ==
  /\ heapmax \in Nat \ {0} /\ heapsize \in 0 .. heapmax
  /\ heap \in [0 .. heapmax - 1 -> Timer \cup {NULL, Unwritten}]
  /\ \A i \in 0 .. heapsize - 1 : heap[i] \in Timer
  /\ popped \in Timer \cup {NULL}

(* No timer is due before its parent in the heap, after any sequence of     *)
(* pushes and pops.                                                         *)
HeapOrder ==
  \A i \in 1 .. heapsize - 1 : seconds[heap[Parent(i)]] <= seconds[heap[i]]

(* No timer is twice in the heap.                                           *)
NoDuplicates ==
  \A i, j \in 0 .. heapsize - 1 : heap[i] = heap[j] => i = j

Schedule == INSTANCE PriorityQueue WITH
  scheduled <- InHeap,
  top <- IF heapsize = 0 THEN NULL ELSE heap[0]

(* The sifts lose no timer and put none there twice, and what is on top     *)
(* and what heappop returns is a timer with the earliest deadline:          *)
(* fire_timers, which stops at the first timer that is not due, thereby     *)
(* sees every one that is.                                                  *)
ImplementsPriorityQueue == Schedule!Spec
=============================================================================
