------------------------------ MODULE WokenLoop ------------------------------
(***************************************************************************)
(* The loop's own state and, next to it, the way in which threads and      *)
(* signals wake a loop that waits.  Neither reads the other's state.       *)
(***************************************************************************)
EXTENDS EventLoop

CONSTANTS
  Thread,      \* threads that call call_soon_threadsafe()
  Signum,      \* the signals that arrive, by their numbers
  Room,        \* bound: the bytes the self-pipe holds
  MaxQueued,   \* bound: nobody hands in more while there are so many
  MaxForks     \* bound: how often the process forks

VARIABLES wpc, witem, queued, pipe, placed, signal_handlers, handler, wakeup_fd,
          tripped, caught, forked, forks

Wk == INSTANCE Wakeup WITH
        MaxPendings <- MaxQueued, pc <- wpc, item <- witem, pendings <- queued,
        catch_signal <- caught, postfork <- forked

wvars == <<wpc, witem, queued, pipe, placed, signal_handlers, handler, wakeup_fd,
           tripped, caught, forked, forks>>

(* While a thread's callback is queued, a byte is in the self-pipe or is   *)
(* about to be written: the loop does not sleep over it.                   *)
WokenForWork == Wk!WokenForWork

(* A signal that comes while the loop waits or runs has its handle called, *)
(* unless run() ends or the handler is removed.                            *)
SignalIsServed == Wk!SignalIsServed
=============================================================================
