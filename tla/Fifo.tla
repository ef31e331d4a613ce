-------------------------------- MODULE Fifo --------------------------------
(***************************************************************************)
(* What a queue_t of src/queue.h promises its callers (the event loop's    *)
(* pendings, the executor's pendings, a channel's buffer): a first-in      *)
(* first-out sequence with a capacity.  queue_push never refuses an item,  *)
(* it doubles the capacity of a full queue; queue_push_noext refuses an    *)
(* item when the queue is full; queue_shift takes the oldest item.         *)
(* RingQueue.tla shows that the circular buffer of src/queue.c does this.  *)
(***************************************************************************)
EXTENDS Naturals, Sequences

CONSTANTS
  Item,      \* what callers put in: pointers to handles, messages, work items
  Nothing,   \* NULL, what queue_shift returns on an empty queue
  Ok, Full,  \* the 1 and -1 of the push functions
  InitCap    \* the argument of init_queue

VARIABLES
  items,     \* the queued items, oldest first
  cap,       \* the number of items the queue can hold
  ret        \* the value the last call returned

vars == <<items, cap, ret>>

Init == items = <<>> /\ cap = InitCap /\ ret = Nothing

Push(x) ==
  /\ items' = Append(items, x)
  /\ cap' = IF Len(items) = cap THEN 2 * cap ELSE cap
  /\ ret' = Ok

PushNoExt(x) ==
  \/ /\ Len(items) < cap
     /\ items' = Append(items, x)
     /\ ret' = Ok
     /\ UNCHANGED cap
  \/ /\ Len(items) = cap
     /\ ret' = Full
     /\ UNCHANGED <<items, cap>>

Shift ==
  \/ /\ items # <<>>
     /\ ret' = Head(items)
     /\ items' = Tail(items)
     /\ UNCHANGED cap
  \/ /\ items = <<>>
     /\ ret' = Nothing
     /\ UNCHANGED <<items, cap>>

Next == Shift \/ \E x \in Item : Push(x) \/ PushNoExt(x)

Spec == Init /\ [][Next]_vars
=============================================================================
