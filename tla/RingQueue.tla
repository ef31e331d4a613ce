------------------------------ MODULE RingQueue ------------------------------
(***************************************************************************)
(* The circular buffer of src/queue.c.  slots is the array q->q, first,    *)
(* last, size and max are the fields of queue_t.  The array is allocated   *)
(* one slot longer than max, and that slot is never used, so it is left    *)
(* out.  Slots nothing was written to hold the model value Garbage.        *)
(***************************************************************************)
EXTENDS Naturals, Sequences

CONSTANTS
  Item,      \* the pointers callers queue
  Nothing,   \* NULL
  Garbage,   \* the contents of memory nobody wrote
  Ok, Full,  \* the return values 1 and -1
  InitMax,   \* the argument of init_queue
  MaxMax     \* bound: queue_push is not called on a full queue of this size

(* Every caller in src/ asks for at least one slot: loop.c for 1024,       *)
(* executor.c for 32, and create_channel turns 0 into 1.                   *)
ASSUME InitMaxAssumption == InitMax \in Nat \ {0}

VARIABLES slots, first, last, size, max, ret

ringVars == <<slots, first, last, size, max, ret>>

InitQueue ==
  /\ slots = [i \in 0 .. InitMax - 1 |-> Garbage]
  /\ first = 0
  /\ last = InitMax - 1
  /\ size = 0
  /\ max = InitMax
  /\ ret = Nothing

(* The items reindex_queue copies: it walks from old_first to old_last,    *)
(* both included, whatever size says.                                      *)
Copied == ((last + max - first) % max) + 1

(* Mutant: the doubling keeps every item at its old index.                 *)
ReindexedInPlace ==
  [i \in 0 .. 2 * max - 1 |-> IF i < max THEN slots[i] ELSE Garbage]

(* reindex_queue writes the i-th of them to slot i of the doubled array;   *)
(* old slots it does not reach keep their contents, new ones hold garbage. *)
Reindexed ==
  [i \in 0 .. 2 * max - 1 |->
     IF i < Copied THEN slots[(first + i) % max]
     ELSE IF i < max THEN slots[i] ELSE Garbage]

(* queue_push when realloc_queue finds the queue full.                     *)
PushGrow(x) ==
  /\ size >= max
  /\ max < MaxMax
  /\ slots' = [Reindexed EXCEPT ![Copied % (2 * max)] = x]
  /\ first' = 0
  /\ last' = Copied % (2 * max)
  /\ size' = size + 1
  /\ max' = 2 * max
  /\ ret' = Ok

(* Storing into a queue with a free slot, common to both push functions.   *)
Store(x) ==
  /\ size < max
  /\ last' = (last + 1) % max
  /\ slots' = [slots EXCEPT ![(last + 1) % max] = x]
  /\ size' = size + 1
  /\ ret' = Ok
  /\ UNCHANGED <<first, max>>

Push(x) == Store(x) \/ PushGrow(x)

PushNoExt(x) ==
  \/ Store(x)
  \/ /\ size >= max
     /\ ret' = Full
     /\ UNCHANGED <<slots, first, last, size, max>>

(* queue_shift leaves the slot it read as it was.                          *)
Shift ==
  \/ /\ size > 0
     /\ ret' = slots[first]
     /\ first' = (first + 1) % max
     /\ size' = size - 1
     /\ UNCHANGED <<slots, last, max>>
  \/ /\ size = 0
     /\ ret' = Nothing
     /\ UNCHANGED <<slots, first, last, size, max>>

QueueStep == Shift \/ \E x \in Item : Push(x) \/ PushNoExt(x)

QueueSpec == InitQueue /\ [][QueueStep]_ringVars
-----------------------------------------------------------------------------
(* The fields stay in the range the C code indexes with.                   *)
QueueTypeOK ==
  /\ max \in Nat \ {0}
  /\ slots \in [0 .. max - 1 -> Item \cup {Garbage}]
  /\ first \in 0 .. max - 1
  /\ last \in 0 .. max - 1
  /\ size \in 0 .. max
  /\ ret \in Item \cup {Nothing, Garbage, Ok, Full}

(* first, last and size describe the same stretch of the array: the three  *)
(* are updated by different functions and reindex_queue trusts first and   *)
(* last alone to know what to copy.                                        *)
Aligned == (last + 1) % max = (first + size) % max

(* The stretch holds only items: a shift never hands out a slot that was   *)
(* not written, or that a doubling left behind.                            *)
NoGarbage == \A i \in 0 .. size - 1 : slots[(first + i) % max] \in Item

Contents == [i \in 1 .. size |-> slots[(first + i - 1) % max]]

Abstract == INSTANCE Fifo WITH items <- Contents, cap <- max, InitCap <- InitMax

(* Whatever the sequence of pushes, shifts and doublings, and wherever the *)
(* stretch wraps around the end of the array, callers see a FIFO queue.    *)
ImplementsFifo == Abstract!Spec
=============================================================================
