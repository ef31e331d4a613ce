------------------------------- MODULE Sockets -------------------------------
(***************************************************************************)
(* Blocking I/O of greenlets: the trampolines and descriptor callbacks of  *)
(* src/loop.c over picoev, the socket methods of jega/ext/jsocket.py (with *)
(* the recv and send of src/jega.c) and select() of jega/ext/jselect.py.   *)
(*                                                                         *)
(* A greenlet whose system call would block registers its descriptor with  *)
(* picoev and switches to the loop's greenlet; the callback of the         *)
(* descriptor switches back.  The main greenlet starts the loop, is its    *)
(* parent, and is where a timeout is thrown, whoever was waiting.          *)
(*                                                                         *)
(* The two sockets are each other's peers.  Bytes are counted and not told *)
(* apart.  Of the loop's queue there is who is to be started or, in        *)
(* select(), to be woken.  The time a bucket of picoev stands for is one   *)
(* second, and no timeout is longer than its 127 buckets.                  *)
(***************************************************************************)
EXTENDS Integers, Sequences, FiniteSets

CONSTANTS
  Greenlet,     \* the greenlets that do I/O
  Main,         \* the one that is the loop's parent
  Loop,         \* the loop's own
  Nobody,       \* NULL
  Fd,           \* the two sockets, numbers
  Calls(_),     \* bound: the calls a greenlet may make
  Selects(_),   \* bound: the sockets it gives to select()
  Shuts(_),     \* bound: the sockets it shuts down
  MaxCalls,     \* bound: how many calls it makes
  Fragile,      \* bound: the sockets that may break
  Room,         \* bound: the bytes a socket buffers
  MaxClock      \* bound: the clock stops there

ASSUME SocketsAssumption ==
  /\ Main \in Greenlet /\ Loop \notin Greenlet /\ Nobody \notin Greenlet \cup {Loop}
  /\ Fd \subseteq Nat /\ MaxClock \in Nat

VARIABLES
  target,       \* picoev.fds: loop_id as on, events, callback and cb_arg
  interest,     \* what the kernel watches each descriptor for
  timeout_idx,  \* the second each descriptor expires in, 0 for UNUSED
  vec,          \* the timeout vectors: descriptors with a second
  now,          \* loop->now
  base_time,    \* the second of the bucket that expires next
  batch,        \* the events of epoll_wait that are still to be delivered
  bucket,       \* the descriptors of a bucket that are still to be called
  ioactivecnt,
  state,        \* self->state: "STOP" or "RUNNING"
  suspend_thread,
  pc,           \* where the loop's greenlet is
  error,        \* whether fd_callback has set IOError
  active,       \* the greenlet that runs
  place,        \* where each of the others is
  queued,       \* the greenlets in the loop's queue
  call,         \* the call a greenlet is in
  calls,        \* how many it has begun
  buffer,       \* the bytes each socket has received
  down,         \* whether the connection has been shut down
  broken,       \* the sockets epoll reports EPOLLERR for, and nothing else
  clock,        \* what time(NULL) returns
  shared,       \* history: somebody waited for a descriptor that was in use
  wild          \* history: the undefined things that were done

picoevVars == <<target, interest, timeout_idx, vec, now, base_time>>
pollVars == <<batch, bucket, pc, error>>
loopVars == <<ioactivecnt, state, suspend_thread>>
greenletVars == <<active, place, queued, call, calls>>
socketVars == <<buffer, down, broken, clock>>
historyVars == <<shared, wild>>
vars == <<picoevVars, pollVars, loopVars, greenletVars, socketVars, historyVars>>

Off == [on |-> FALSE, events |-> {}, who |-> Nobody, read |-> Nobody, write |-> Nobody]

None == [kind |-> "none", step |-> "none"]

Init ==
  /\ target = [fd \in Fd |-> Off]
  /\ interest = [fd \in Fd |-> {}]
  /\ timeout_idx = [fd \in Fd |-> 0]
  /\ vec = {}
  /\ now = 0 /\ base_time = 0 /\ clock = 0
  /\ batch = <<>> /\ bucket = {}
  /\ ioactivecnt = 1 /\ state = "STOP" /\ suspend_thread = Nobody
  /\ pc = "dead" /\ error = FALSE
  /\ active = Main
  /\ place = [g \in Greenlet |-> IF g = Main THEN "run" ELSE "new"]
  /\ queued = Greenlet \ {Main}
  /\ call = [g \in Greenlet |-> None]
  /\ calls = [g \in Greenlet |-> 0]
  /\ buffer = [fd \in Fd |-> 0]
  /\ down = FALSE /\ broken = {}
  /\ shared = FALSE /\ wild = {}
-----------------------------------------------------------------------------
(* The kernel.                                                             *)
Peer(fd) == CHOOSE other \in Fd : other # fd

Ready(fd) ==
  (IF buffer[fd] > 0 \/ down THEN {"READ"} ELSE {})
    \cup (IF buffer[Peer(fd)] < Room \/ down THEN {"WRITE"} ELSE {})

(* What epoll_wait reports of a descriptor.                                *)
Reported(fd) ==
  IF interest[fd] = {} THEN {}
  ELSE IF fd \in broken THEN {"ERR"} ELSE Ready(fd) \cap interest[fd]

(* picoev_update_events_internal: a descriptor with events old gets new    *)
(* ones.  Nothing is done for the same ones or, deferring it, for none.    *)
Watching(interests, events, old) == IF events \in {{}, old} THEN interests ELSE events

(* picoev_set_timeout: the old bit is cleared if timeout_idx still has it. *)
SetTimeout(fd, second) ==
  /\ timeout_idx' = [timeout_idx EXCEPT ![fd] = second]
  /\ vec' = (vec \ {<<fd, timeout_idx[fd]>>})
              \cup {<<fd, s>> : s \in {second} \ {0}}

(* Mutant: what the kernel watches a descriptor for already is kept.       *)
AddWatched(fd, events, g, timeout) ==
  LET second == IF timeout = 0 THEN 0 ELSE now + timeout
  IN /\ target' = [target EXCEPT ![fd] =
                     [Off EXCEPT !.on = TRUE, !.events = events, !.who = g]]
     /\ interest' = [interest EXCEPT ![fd] = IF @ = {} THEN events ELSE @]
     /\ timeout_idx' = [timeout_idx EXCEPT ![fd] = second]
     /\ vec' = vec \cup {<<fd, s>> : s \in {second} \ {0}}

(* picoev_add, whoever has the descriptor: the callback and its argument   *)
(* are replaced and timeout_idx is reset.  The new second is counted from  *)
(* loop->now, the time of the last poll.                                   *)
Add(fd, events, g, timeout) ==
  LET second == IF timeout = 0 THEN 0 ELSE now + timeout
  IN /\ target' = [target EXCEPT ![fd] =
                     [Off EXCEPT !.on = TRUE, !.events = events, !.who = g]]
     /\ interest' = [interest EXCEPT ![fd] = Watching(@, events, {})]
     /\ timeout_idx' = [timeout_idx EXCEPT ![fd] = second]
     /\ vec' = vec \cup {<<fd, s>> : s \in {second} \ {0}}

(* Mutant: the timeout of a descriptor outlives its registration.          *)
DelTimeoutKept(fd) ==
  /\ target' = [target EXCEPT ![fd] = Off]
  /\ UNCHANGED <<interest, timeout_idx, vec>>

(* picoev_del.  The kernel goes on watching until it reports an event.     *)
Del(fd) ==
  /\ target' = [target EXCEPT ![fd] = Off]
  /\ SetTimeout(fd, 0)
  /\ UNCHANGED interest
-----------------------------------------------------------------------------
(* The methods of a socket, as the calls of a greenlet: what is done       *)
(* first, what it waits for, and for how long.                             *)
Method(kind, fd, event, first, timeout, bytes) ==
  [kind |-> kind, fd |-> fd, event |-> event, step |-> first,
   timeout |-> timeout, left |-> bytes, again |-> FALSE]

(* recv of src/jega.c waits, without a timeout, before it reads.           *)
Recv(fd) == Method("recv", fd, "READ", "wait", 0, 0)

RecvInto(fd, timeout) == Method("recv_into", fd, "READ", "try", timeout, 0)

RecvFrom(fd, timeout) == Method("recvfrom", fd, "READ", "try", timeout, 0)

(* send of src/jega.c has no timeout either.                               *)
Send(fd, bytes) == Method("send", fd, "WRITE", "try", 0, bytes)

SendTo(fd, timeout, bytes) == Method("sendto", fd, "WRITE", "try", timeout, bytes)

(* sendall of a socket without a timeout; with one it is a TypeError.      *)
SendAll(fd, bytes) == Method("sendall", fd, "WRITE", "try", 0, bytes)

InCode(g) == active = g /\ place[g] = "run" /\ wild = {}

Idle(g) == InCode(g) /\ call[g] = None

CountCall(g) == calls[g] < MaxCalls /\ calls' = [calls EXCEPT ![g] = @ + 1]

Begin(g) ==
  /\ Idle(g) /\ CountCall(g)
  /\ \E c \in Calls(g) : call' = [call EXCEPT ![g] = c]
  /\ UNCHANGED <<picoevVars, pollVars, loopVars, active, place, queued,
                 socketVars, historyVars>>

Trying(g, event) ==
  InCode(g) /\ call[g].step = "try" /\ call[g].event = event

Returns(g) == call' = [call EXCEPT ![g] = None]

Waits(g) == call' = [call EXCEPT ![g].step = "wait"]

(* recv(2), which takes some of the bytes, all of them or none.            *)
Read(g) ==
  /\ Trying(g, "READ")
  /\ LET fd == call[g].fd
     IN \/ \E n \in 1 .. buffer[fd] :
             buffer' = [buffer EXCEPT ![fd] = @ - n] /\ Returns(g)
        \/ buffer[fd] = 0 /\ down /\ Returns(g) /\ UNCHANGED buffer
        \/ buffer[fd] = 0 /\ ~down /\ Waits(g) /\ UNCHANGED buffer
  /\ UNCHANGED <<picoevVars, pollVars, loopVars, active, place, queued, calls,
                 down, broken, clock, historyVars>>

(* send(2), which takes what there is room for; EPIPE when down.  sendall  *)
(* goes on with the rest, sendto gives up when it fails twice.             *)
Write(g) ==
  /\ Trying(g, "WRITE")
  /\ LET c == call[g]
         peer == Peer(c.fd)
     IN \/ \E n \in 1 .. c.left :
             /\ ~down /\ buffer[peer] + n <= Room
             /\ buffer' = [buffer EXCEPT ![peer] = @ + n]
             /\ IF c.kind = "sendall" /\ n < c.left
                  THEN call' = [call EXCEPT ![g].left = @ - n] ELSE Returns(g)
        \/ /\ ~down /\ buffer[peer] = Room
           /\ IF c.kind = "sendto" /\ c.again THEN Returns(g) ELSE Waits(g)
           /\ UNCHANGED buffer
        \/ down /\ Returns(g) /\ UNCHANGED buffer
  /\ UNCHANGED <<picoevVars, pollVars, loopVars, active, place, queued, calls,
                 down, broken, clock, historyVars>>
-----------------------------------------------------------------------------
(* The trampoline: register, switch to the loop and, when control is back, *)
(* unregister.                                                             *)

(* Switching to the loop's greenlet, which starts with a switch back to    *)
(* suspend_thread if it is a new one.                                      *)
SwitchToLoop(g, where) ==
  /\ active' = Loop
  /\ place' = [place EXCEPT ![g] = where]
  /\ state' = "RUNNING"
  /\ pc' = IF pc \in {"dead", "start"} THEN "check" ELSE pc
  /\ suspend_thread' = IF pc \in {"dead", "start"} THEN Nobody ELSE suspend_thread

(* internal_io_trampoline up to its switch, after a ready_trampoline that  *)
(* found the loop running, or started it.                                  *)
Trampoline(g) ==
  /\ InCode(g) /\ call[g].step = "wait"
  /\ pc = "dead" \/ state = "RUNNING"
  /\ LET c == call[g]
     IN /\ Add(c.fd, {c.event}, g, c.timeout)
        /\ ioactivecnt' = IF target[c.fd].on THEN ioactivecnt ELSE ioactivecnt + 1
        /\ shared' = (shared \/ target[c.fd].on)
  /\ SwitchToLoop(g, "wait")
  /\ UNCHANGED <<now, base_time, batch, bucket, error, queued, call, calls,
                 socketVars, wild>>

(* ready_trampoline when an exception has stopped the loop and not ended   *)
(* it: the main greenlet runs it and is not registered.                    *)
RunFirst(g) ==
  /\ InCode(g) /\ call[g].step = "wait"
  /\ pc # "dead" /\ state = "STOP"
  /\ active' = Loop
  /\ place' = [place EXCEPT ![g] = "runloop"]
  /\ state' = "RUNNING"
  /\ suspend_thread' = g
  /\ UNCHANGED <<picoevVars, pollVars, ioactivecnt, queued, call, calls,
                 socketVars, historyVars>>

(* Mutant: ioactivecnt is left alone when the wait ends with an exception. *)
SwitchBackUncounted(g, raised) ==
  /\ active' = g
  /\ place' = [place EXCEPT ![g] = "run"]
  /\ Del(call[g].fd)
  /\ ioactivecnt' = IF raised THEN ioactivecnt ELSE ioactivecnt - 1
  /\ IF raised THEN Returns(g)
     ELSE call' = [call EXCEPT ![g].step = "try", ![g].again = TRUE]

(* The switch has returned: picoev_del, whoever has the descriptor now.    *)
(* Control is with g, whose call goes on or, for an exception, ends.       *)
SwitchBack(g, raised) ==
  /\ active' = g
  /\ place' = [place EXCEPT ![g] = "run"]
  /\ Del(call[g].fd)
  /\ ioactivecnt' = ioactivecnt - 1
  /\ IF raised THEN Returns(g)
     ELSE call' = [call EXCEPT ![g].step = "try", ![g].again = TRUE]

-----------------------------------------------------------------------------
(* Callbacks of descriptors.  A callback_arg_t has the callbacks of at most *)
(* one reader and one writer, here by the greenlet whose select() it is.   *)

(* register_fd_callback for add_reader: there is nothing, or a callback to *)
(* merge with; one that is there already is kept and nobody is told.       *)
AddReader(t, g) ==
  IF ~t.on THEN [Off EXCEPT !.on = TRUE, !.events = {"READ"}, !.read = g]
  ELSE IF t.read = Nobody THEN [t EXCEPT !.read = g, !.events = {"READ", "WRITE"}]
  ELSE t

AddWriter(t, g) ==
  IF ~t.on THEN [Off EXCEPT !.on = TRUE, !.events = {"WRITE"}, !.write = g]
  ELSE IF t.write = Nobody THEN [t EXCEPT !.write = g, !.events = {"READ", "WRITE"}]
  ELSE t

(* remove_reader: whoever's reader it is.                                  *)
RemoveReader(t) ==
  IF ~t.on THEN t
  ELSE IF t.write # Nobody THEN [t EXCEPT !.read = Nobody, !.events = {"WRITE"}]
  ELSE Off

RemoveWriter(t) ==
  IF ~t.on THEN t
  ELSE IF t.read # Nobody THEN [t EXCEPT !.write = Nobody, !.events = {"READ"}]
  ELSE Off

(* The descriptors become those of new: picoev_add, set_events and del.    *)
Retarget(new) ==
  LET gone == {fd \in Fd : target[fd].on /\ ~new[fd].on}
      come == {fd \in Fd : ~target[fd].on /\ new[fd].on}
  IN /\ target' = new
     /\ interest' = [fd \in Fd |-> Watching(interest[fd], new[fd].events, target[fd].events)]
     /\ timeout_idx' = [fd \in Fd |-> IF fd \in gone THEN 0 ELSE timeout_idx[fd]]
     /\ vec' = {b \in vec : ~(b[1] \in gone /\ timeout_idx[b[1]] = b[2])}
     /\ ioactivecnt' = ioactivecnt + Cardinality(come) - Cardinality(gone)

(* The callback functions take a trampoline's switch_arg_t for theirs.     *)
Mistaken(fds) == \E fd \in fds : target[fd].on /\ target[fd].who # Nobody

(* select() up to the wait for its event, whose time limit Event.tla has.  *)
Select(g) ==
  /\ Idle(g) /\ g # Main /\ CountCall(g)
  /\ \E r, w \in SUBSET Selects(g) :
       /\ r \cup w # {}
       /\ IF Mistaken(r \cup w)
            THEN wild' = wild \cup {"cast"} /\ UNCHANGED <<target, interest, timeout_idx, vec, ioactivecnt>>
            ELSE /\ Retarget([fd \in Fd |->
                      LET t == IF fd \in r THEN AddReader(target[fd], g) ELSE target[fd]
                      IN IF fd \in w THEN AddWriter(t, g) ELSE t])
                 /\ UNCHANGED wild
       /\ call' = [call EXCEPT ![g] = [kind |-> "select", step |-> "select", r |-> r, w |-> w]]
  /\ active' = Loop
  /\ place' = [place EXCEPT ![g] = "event"]
  /\ UNCHANGED <<now, base_time, pollVars, state, suspend_thread, queued,
                 socketVars, shared>>

(* What is left of select() when its event is set.                         *)
Close(g) ==
  /\ InCode(g) /\ call[g].step = "select"
  /\ IF Mistaken(call[g].r \cup call[g].w)
       THEN wild' = wild \cup {"cast"} /\ UNCHANGED <<target, interest, timeout_idx, vec, ioactivecnt>>
       ELSE /\ Retarget([fd \in Fd |->
                 LET t == IF fd \in call[g].r THEN RemoveReader(target[fd]) ELSE target[fd]
                 IN IF fd \in call[g].w THEN RemoveWriter(t) ELSE t])
            /\ UNCHANGED wild
  /\ Returns(g)
  /\ UNCHANGED <<now, base_time, pollVars, state, suspend_thread, active, place,
                 queued, calls, socketVars, shared>>

(* shutdown(SHUT_RDWR), which removes the descriptor's callbacks first.    *)
Shutdown(g) ==
  /\ Idle(g) /\ CountCall(g)
  /\ \E fd \in Shuts(g) :
       /\ IF Mistaken({fd})
            THEN /\ wild' = wild \cup {"cast"}
                 /\ UNCHANGED <<target, interest, timeout_idx, vec, ioactivecnt, down>>
            ELSE /\ Retarget([target EXCEPT ![fd] = RemoveWriter(RemoveReader(@))])
                 /\ down' = TRUE
                 /\ UNCHANGED wild
  /\ UNCHANGED <<now, base_time, pollVars, state, suspend_thread, active, place,
                 queued, call, buffer, broken, clock, shared>>

(* The task of a greenlet is over; the worker it ran on goes to the loop.  *)
End(g) ==
  /\ Idle(g) /\ g # Main
  /\ active' = Loop
  /\ place' = [place EXCEPT ![g] = "done"]
  /\ UNCHANGED <<picoevVars, pollVars, loopVars, queued, call, calls,
                 socketVars, historyVars>>

(* run() by the main greenlet.  A suspend_thread left over from RunFirst   *)
(* makes a new loop come back at once.                                     *)
Run ==
  /\ Idle(Main)
  /\ IF pc = "dead" /\ suspend_thread # Nobody
       THEN /\ pc' = "start" /\ state' = "RUNNING"
            /\ UNCHANGED <<suspend_thread, active, place>>
       ELSE SwitchToLoop(Main, "inrun")
  /\ UNCHANGED <<picoevVars, batch, bucket, error, ioactivecnt, queued, call,
                 calls, socketVars, historyVars>>
-----------------------------------------------------------------------------
(* The loop.                                                               *)
InLoop(where) == active = Loop /\ pc = where /\ wild = {}

(* The main greenlet goes on from RunFirst when the loop has ended: it     *)
(* registers, cannot switch to a dead greenlet, and unregisters.           *)
TrampolineOfNoLoop ==
  LET c == call[Main]
  IN /\ active' = Main
     /\ place' = [place EXCEPT ![Main] = "run"]
     /\ target' = [target EXCEPT ![c.fd] = Off]
     /\ interest' = [interest EXCEPT ![c.fd] = Watching(@, {c.event}, {})]
     /\ timeout_idx' = [timeout_idx EXCEPT ![c.fd] = 0]
     /\ vec' = IF c.timeout = 0 THEN vec ELSE vec \ {<<c.fd, now + c.timeout>>}
     /\ ioactivecnt' = IF target[c.fd].on THEN ioactivecnt - 1 ELSE ioactivecnt
     /\ shared' = (shared \/ target[c.fd].on)
     /\ call' = [call EXCEPT ![Main].step = "try", ![Main].again = TRUE]

(* The loop's greenlet ends, and its parent goes on: out of run(), out of  *)
(* its own trampoline, or from RunFirst.                                   *)
Leave(raised) ==
  /\ pc' = "dead" /\ state' = "STOP" /\ error' = FALSE
  /\ CASE place[Main] = "wait" -> SwitchBack(Main, raised) /\ UNCHANGED shared
       [] place[Main] = "runloop" /\ ~raised -> TrampolineOfNoLoop
       [] OTHER ->
            /\ active' = Main
            /\ place' = [place EXCEPT ![Main] = "run"]
            /\ IF raised THEN Returns(Main) ELSE UNCHANGED call
            /\ UNCHANGED <<target, interest, timeout_idx, vec, ioactivecnt, shared>>

(* The while condition of LoopObject_run.                                  *)
Check ==
  /\ InLoop("check")
  /\ IF error \/ state = "STOP" \/ (queued = {} /\ ioactivecnt <= 1)
       THEN Leave(error)
       ELSE /\ pc' = "pendings"
            /\ UNCHANGED <<target, interest, timeout_idx, vec, ioactivecnt,
                           state, error, active, place, call, shared>>
  /\ UNCHANGED <<now, base_time, batch, bucket, suspend_thread, queued, calls,
                 socketVars, wild>>

(* fire_pendings: a greenlet starts, or wakes up in select().              *)
Fire(g) ==
  /\ InLoop("pendings") /\ g \in queued
  /\ queued' = queued \ {g}
  /\ active' = g
  /\ place' = [place EXCEPT ![g] = "run"]
  /\ UNCHANGED <<picoevVars, pollVars, loopVars, call, calls, socketVars, historyVars>>

(* picoev_loop_once up to the return of epoll_wait, or no call of it.      *)
Poll ==
  /\ InLoop("pendings") /\ queued = {}
  /\ IF ioactivecnt > 1
       THEN LET reported == {fd \in Fd : Reported(fd) # {}}
            IN /\ now' = clock
               /\ pc' = "batch"
               /\ \E order \in [1 .. Cardinality(reported) -> reported] :
                    /\ \A i, j \in DOMAIN order : i # j => order[i] # order[j]
                    /\ batch' = [i \in DOMAIN order |-> [fd |-> order[i], events |-> Reported(order[i])]]
       ELSE pc' = "check" /\ UNCHANGED <<now, batch>>
  /\ UNCHANGED <<target, interest, timeout_idx, vec, base_time, bucket, error,
                 loopVars, greenletVars, socketVars, historyVars>>

InBatch(fd) == InLoop("batch") /\ batch # <<>> /\ Head(batch).fd = fd

(* An event of a descriptor that is not registered: EPOLL_CTL_DEL.         *)
Unwatch(fd) ==
  /\ InBatch(fd) /\ target[fd].events = {}
  /\ batch' = Tail(batch)
  /\ interest' = [interest EXCEPT ![fd] = {}]
  /\ UNCHANGED <<target, timeout_idx, vec, now, base_time, bucket, pc, error,
                 loopVars, greenletVars, socketVars, historyVars>>

(* trampoline_switch_callback for an event; EPOLLERR alone wakes nobody.   *)
Wake(fd) ==
  /\ InBatch(fd) /\ target[fd].events # {} /\ target[fd].who # Nobody
  /\ batch' = Tail(batch)
  /\ IF Head(batch).events = {"ERR"}
       THEN UNCHANGED <<target, interest, timeout_idx, vec, ioactivecnt, active, place, call>>
       ELSE SwitchBack(target[fd].who, FALSE)
  /\ UNCHANGED <<now, base_time, bucket, pc, error, state, suspend_thread,
                 queued, calls, socketVars, historyVars>>

(* fd_callback: one callback for an event, the reader's first; it sets the *)
(* select()'s event.  The events are those of the poll, and the callbacks  *)
(* those of now.                                                           *)
CallBack(fd) ==
  /\ InBatch(fd) /\ target[fd].events # {} /\ target[fd].who = Nobody
  /\ batch' = Tail(batch)
  /\ LET events == Head(batch).events
         g == IF "READ" \in events THEN target[fd].read ELSE target[fd].write
     IN IF events = {"ERR"}
          THEN /\ Del(fd) /\ ioactivecnt' = ioactivecnt - 1 /\ error' = TRUE
               /\ UNCHANGED <<queued, wild>>
          ELSE /\ IF g = Nobody THEN wild' = wild \cup {"null"} /\ UNCHANGED queued
                  ELSE queued' = queued \cup {g} /\ UNCHANGED wild
               /\ UNCHANGED <<target, interest, timeout_idx, vec, ioactivecnt, error>>
  /\ UNCHANGED <<now, base_time, bucket, pc, state, suspend_thread, active,
                 place, call, calls, socketVars, shared>>

BatchDone ==
  /\ InLoop("batch") /\ batch = <<>>
  /\ now' = clock
  /\ pc' = "timeouts"
  /\ UNCHANGED <<target, interest, timeout_idx, vec, base_time, batch, bucket,
                 error, loopVars, greenletVars, socketVars, historyVars>>

(* picoev_handle_timeout_internal reads a bucket ...                       *)
Bucket ==
  /\ InLoop("timeouts")
  /\ IF base_time < now
       THEN bucket' = {b[1] : b \in {x \in vec : x[2] = base_time}} /\ pc' = "bucket"
       ELSE pc' = "check" /\ UNCHANGED bucket
  /\ UNCHANGED <<picoevVars, batch, error, loopVars, greenletVars, socketVars,
                 historyVars>>

BucketDone ==
  /\ InLoop("bucket") /\ bucket = {}
  /\ vec' = {b \in vec : b[2] # base_time}
  /\ base_time' = base_time + 1
  /\ pc' = "timeouts"
  /\ UNCHANGED <<target, interest, timeout_idx, now, batch, bucket, error,
                 loopVars, greenletVars, socketVars, historyVars>>

(* ... and calls its descriptors back, those too that a callback before    *)
(* has unregistered.  Of a trampoline, this stops the loop; fd_callback    *)
(* does nothing.                                                           *)
TimeOut(fd) ==
  /\ InLoop("bucket") /\ fd \in bucket /\ \A other \in bucket : fd <= other
  /\ bucket' = bucket \ {fd}
  /\ timeout_idx' = [timeout_idx EXCEPT ![fd] = 0]
  /\ wild' = IF target[fd].on THEN wild ELSE wild \cup {"expired"}
  /\ IF target[fd].who # Nobody
       THEN state' = "STOP" /\ pc' = "throw" ELSE UNCHANGED <<state, pc>>
  /\ UNCHANGED <<target, interest, vec, now, base_time, batch, error,
                 ioactivecnt, suspend_thread, greenletVars, socketVars, shared>>

(* internal_loop_handle_error: the exception is the main greenlet's, in    *)
(* its run() or in its own call, whoever was waiting.                      *)
Throw ==
  /\ InLoop("throw")
  /\ pc' = "bucket"
  /\ IF place[Main] = "wait" THEN SwitchBack(Main, TRUE)
     ELSE /\ active' = Main
          /\ place' = [place EXCEPT ![Main] = "run"]
          /\ Returns(Main)
          /\ UNCHANGED <<target, interest, timeout_idx, vec, ioactivecnt>>
  /\ UNCHANGED <<now, base_time, batch, bucket, error, state, suspend_thread,
                 queued, calls, socketVars, historyVars>>
-----------------------------------------------------------------------------
Tick ==
  /\ clock < MaxClock /\ clock' = clock + 1
  /\ UNCHANGED <<picoevVars, pollVars, loopVars, greenletVars, buffer, down,
                 broken, historyVars>>

(* The network breaks a connection in the way only EPOLLERR tells.         *)
Break ==
  /\ \E fd \in Fragile \ broken : broken' = broken \cup {fd}
  /\ UNCHANGED <<picoevVars, pollVars, loopVars, greenletVars, buffer, down,
                 clock, historyVars>>

LoopStep ==
  \/ Check \/ Poll \/ BatchDone \/ Bucket \/ BucketDone \/ Throw
  \/ \E g \in Greenlet : Fire(g)
  \/ \E fd \in Fd : Unwatch(fd) \/ Wake(fd) \/ CallBack(fd) \/ TimeOut(fd)

GreenletStep ==
  \/ Run
  \/ \E g \in Greenlet :
       \/ Begin(g) \/ Read(g) \/ Write(g) \/ Trampoline(g) \/ RunFirst(g)
       \/ Select(g) \/ Close(g) \/ Shutdown(g) \/ End(g)

Next == LoopStep \/ GreenletStep \/ Tick \/ Break

Spec == Init /\ [][Next]_vars

(* The one thread goes on; the main greenlet, when it has nothing else to  *)
(* do, runs the loop again.                                                *)
FairSpec == Spec /\ WF_vars(LoopStep \/ GreenletStep)
-----------------------------------------------------------------------------
Defined == ~shared /\ wild = {}

(* While nobody waits for a descriptor that is in use, ioactivecnt is the  *)
(* number of registered descriptors and the self-pipe, so that the loop of *)
(* LoopObject_run neither ends under a waiter nor outlives the last one.   *)
IoCountIsRegistered ==
  Defined => ioactivecnt = 1 + Cardinality({fd \in Fd : target[fd].on})

(* While nobody waits for a descriptor that is in use, who waits in a      *)
(* trampoline is registered for what it waits for, and no descriptor       *)
(* expires that is not registered with that second.                        *)
WaitersRegistered ==
  Defined =>
    /\ \A g \in Greenlet : place[g] = "wait" =>
         target[call[g].fd].who = g /\ target[call[g].fd].events = {call[g].event}
    /\ \A b \in vec : timeout_idx[b[1]] = b[2] \/ b[2] = base_time

(* A greenlet whose socket is ready wakes up: as long as nobody waits for  *)
(* a descriptor in use, it is ready until the greenlet has gone on.        *)
ReadyIsServed ==
  \A g \in Greenlet :
    (place[g] = "wait" /\ call[g].event \in Ready(call[g].fd))
      ~> \/ place[g] # "wait" \/ call[g].event \notin Ready(call[g].fd)
         \/ ~Defined \/ broken # {}
=============================================================================
