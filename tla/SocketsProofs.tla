---------------------------- MODULE SocketsProofs ----------------------------
(***************************************************************************)
(* Blocking I/O, for any number of greenlets and descriptors: the count    *)
(* that keeps the loop running is exact, and who waits is registered, as   *)
(* long as nobody waits for a descriptor that is in use.                   *)
(***************************************************************************)
EXTENDS Sockets, FiniteSetTheorems, TLAPS

Direction == {"READ", "WRITE"}

MethodCall ==
  [kind : {"recv", "recv_into", "recvfrom", "send", "sendto", "sendall"}, fd : Fd,
   event : Direction, step : {"try", "wait"}, timeout : Nat, left : Nat, again : BOOLEAN]

SelectCall == [kind : {"select"}, step : {"select"}, r : SUBSET Fd, w : SUBSET Fd]

(* The calls that greenlets make are calls of the methods, on descriptors, *)
(* which can be counted.                                                   *)
Sensible ==
  /\ IsFiniteSet(Fd)
  /\ \A g \in Greenlet :
       Calls(g) \subseteq MethodCall /\ Selects(g) \subseteq Fd /\ Shuts(g) \subseteq Fd

Places == {"new", "run", "wait", "runloop", "event", "inrun", "done"}

Target ==
  [on : BOOLEAN, events : SUBSET Direction, who : Greenlet \cup {Nobody},
   read : Greenlet \cup {Nobody}, write : Greenlet \cup {Nobody}]

On == {fd \in Fd : target[fd].on}

TypeOK ==
  /\ target \in [Fd -> Target]
  /\ timeout_idx \in [Fd -> Nat] /\ vec \subseteq Fd \X Nat /\ bucket \subseteq Fd
  /\ now \in Nat /\ base_time \in Nat /\ clock \in Nat
  /\ ioactivecnt \in Int
  /\ active \in Greenlet \cup {Loop} /\ place \in [Greenlet -> Places]
  /\ queued \subseteq Greenlet
  /\ call \in [Greenlet -> {None} \cup MethodCall \cup SelectCall]

(* One greenlet runs at a time; who is in a trampoline has a call to be    *)
(* there for, and who is in the loop's queue has yet to start or is in     *)
(* select().                                                               *)
Placed ==
  /\ \A g \in Greenlet : place[g] = "run" => active = g
  /\ \A g \in Greenlet : place[g] \in {"wait", "runloop"} => call[g] \in MethodCall
  /\ \A g \in queued : place[g] \in {"new", "event"} /\ g # Main

(* A descriptor is a trampoline's, whose greenlet waits for it, or has the *)
(* callbacks of greenlets that are in select().                            *)
Selecting(g) == g # Main /\ place[g] \in {"event", "run"} /\ call[g] \in SelectCall

Owned(fd) ==
  LET t == target[fd] IN
  /\ ~t.on => t = Off
  /\ t.who # Nobody =>
       /\ t.read = Nobody /\ t.write = Nobody
       /\ place[t.who] = "wait" /\ call[t.who].fd = fd
  /\ t.read # Nobody => Selecting(t.read) /\ fd \in call[t.read].r
  /\ t.write # Nobody => Selecting(t.write) /\ fd \in call[t.write].w

Waiting(g) ==
  place[g] = "wait" =>
    LET t == target[call[g].fd] IN t.on /\ t.who = g /\ t.events = {call[g].event}

(* While a bucket of timeouts is gone through, the main greenlet may run,  *)
(* which a timeout has been thrown into, and no other; it finds the loop   *)
(* stopped and cannot register anything.                                   *)
InBucket == pc \in {"bucket", "throw"}

Phases ==
  /\ pc = "bucket" => active = Loop \/ (active = Main /\ state = "STOP")
  /\ pc = "throw" => active = Loop /\ state = "STOP"

Expiry ==
  /\ \A fd \in Fd : ~target[fd].on => timeout_idx[fd] = 0
  /\ \A b \in vec : b[2] # 0 /\ (timeout_idx[b[1]] = b[2] \/ (InBucket /\ b[2] = base_time))
  /\ InBucket => \A fd \in bucket : timeout_idx[fd] \in {0, base_time}

Counted == ioactivecnt = 1 + Cardinality(On)

Inner ==
  /\ TypeOK /\ Placed /\ Phases /\ Expiry /\ Counted
  /\ \A fd \in Fd : Owned(fd)
  /\ \A g \in Greenlet : Waiting(g)

IInv == Defined => Inner
-----------------------------------------------------------------------------
(* What calls look like, and what they do not.                             *)
LEMMA CallShape ==
  /\ \A c \in MethodCall :
       /\ c.fd \in Fd /\ c.event \in Direction /\ c.timeout \in Nat
       /\ c.step \in {"try", "wait"} /\ c.kind # "select"
       /\ c \notin SelectCall /\ c # None
       /\ [c EXCEPT !.step = "wait"] \in MethodCall
       /\ [c EXCEPT !.step = "try", !.again = TRUE] \in MethodCall
       /\ c.left \in Nat
       /\ \A n \in Nat : [c EXCEPT !.left = n] \in MethodCall
  /\ \A c \in SelectCall : c.step = "select" /\ c.r \subseteq Fd /\ c.w \subseteq Fd /\ c # None
  /\ None.step = "none" /\ None.kind = "none"
<1>1. None.step = "none" /\ None.kind = "none"
  BY DEF None
<1>2. \A c \in SelectCall : c.step = "select" /\ c.kind = "select" /\ c.r \subseteq Fd /\ c.w \subseteq Fd
  BY DEF SelectCall
<1>3. ASSUME NEW c \in MethodCall
      PROVE  /\ c.fd \in Fd /\ c.event \in Direction /\ c.timeout \in Nat
             /\ c.step \in {"try", "wait"} /\ c.kind \notin {"select", "none"}
             /\ c.left \in Nat
  BY DEF MethodCall
<1>4. ASSUME NEW c \in MethodCall
      PROVE  /\ [c EXCEPT !.step = "wait"] \in MethodCall
             /\ [c EXCEPT !.step = "try", !.again = TRUE] \in MethodCall
             /\ \A n \in Nat : [c EXCEPT !.left = n] \in MethodCall
  BY DEF MethodCall
<1> QED
  BY <1>1, <1>2, <1>3, <1>4

LEMMA OffShape ==
  /\ Off \in Target /\ ~Off.on /\ Off.events = {}
  /\ Off.who = Nobody /\ Off.read = Nobody /\ Off.write = Nobody
BY DEF Off, Target

LEMMA InitInner == ASSUME Sensible, Init PROVE Inner
<1>1. On = {} /\ Cardinality({}) = 0
  BY FS_EmptySet DEF Init, On, Off
<1>2. TypeOK
  BY SocketsAssumption, OffShape DEF Init, TypeOK, Places
<1>3. Placed /\ Phases /\ Expiry /\ Counted
  BY <1>1, SocketsAssumption DEF Init, Placed, Phases, Expiry, Counted, InBucket
<1>4. \A fd \in Fd : Owned(fd)
  BY OffShape DEF Init, Owned
<1>5. \A g \in Greenlet : Waiting(g)
  BY DEF Init, Waiting
<1> QED
  BY <1>2, <1>3, <1>4, <1>5 DEF Inner
-----------------------------------------------------------------------------
(* What has been undefined stays so.                                       *)
LEMMA Monotone == ASSUME [Next]_vars, Defined' PROVE Defined
<1>1. CASE LoopStep
  <2>1. CASE Check
    BY <2>1 DEF Check, Leave, SwitchBack, TrampolineOfNoLoop, InLoop, Defined
  <2>2. CASE Poll
    <3>1. wild = {} /\ UNCHANGED historyVars
      BY <2>2 DEF Poll, InLoop
    <3> QED
      BY <3>1 DEF Defined, historyVars
  <2>3. CASE BatchDone \/ Bucket \/ BucketDone \/ Throw
    <3>1. wild = {} /\ UNCHANGED historyVars
      <4>1. CASE BatchDone
        BY <4>1 DEF BatchDone, InLoop
      <4>2. CASE Bucket
        BY <4>2 DEF Bucket, InLoop
      <4>3. CASE BucketDone \/ Throw
        BY <4>3 DEF BucketDone, Throw, InLoop
      <4> QED
        BY <2>3, <4>1, <4>2, <4>3
    <3> QED
      BY <3>1 DEF Defined, historyVars
  <2>4. ASSUME NEW g \in Greenlet, Fire(g) PROVE Defined
    BY <2>4 DEF Fire, historyVars, Defined
  <2>5. ASSUME NEW fd \in Fd, Unwatch(fd) \/ Wake(fd) PROVE Defined
    <3>1. wild = {} /\ UNCHANGED historyVars
      BY <2>5 DEF Unwatch, Wake, InLoop, InBatch
    <3> QED
      BY <3>1 DEF Defined, historyVars
  <2>6. ASSUME NEW fd \in Fd, CallBack(fd) \/ TimeOut(fd) PROVE Defined
    <3>1. wild = {} /\ shared' = shared
      BY <2>6 DEF CallBack, TimeOut, InLoop, InBatch
    <3> QED
      BY <3>1 DEF Defined
  <2> QED
    BY <1>1, <2>1, <2>2, <2>3, <2>4, <2>5, <2>6 DEF LoopStep
<1>2. CASE GreenletStep
  <2>1. CASE Run
    BY <2>1 DEF Run, historyVars, Defined
  <2>2. ASSUME NEW g \in Greenlet, Begin(g) \/ Read(g) \/ Write(g) \/ RunFirst(g) \/ End(g)
        PROVE  Defined
    BY <2>2 DEF Begin, Read, Write, RunFirst, End, historyVars, Defined
  <2>3. ASSUME NEW g \in Greenlet, Trampoline(g) PROVE Defined
    BY <2>3 DEF Trampoline, InCode, Defined
  <2>4. ASSUME NEW g \in Greenlet, Select(g) \/ Close(g) \/ Shutdown(g) PROVE Defined
    <3>1. wild = {} /\ shared' = shared
      BY <2>4 DEF Select, Close, Shutdown, Idle, InCode
    <3> QED
      BY <3>1 DEF Defined
  <2> QED
    BY <1>2, <2>1, <2>2, <2>3, <2>4 DEF GreenletStep
<1>3. CASE Tick \/ Break \/ UNCHANGED vars
  BY <1>3 DEF Tick, Break, vars, historyVars, Defined
<1> QED
  BY <1>1, <1>2, <1>3 DEF Next

(* A greenlet that is not in select() goes on in its code.                 *)
LEMMA GoesOn ==
  ASSUME Inner, NEW g \in Greenlet, NEW c \in {None} \cup MethodCall,
         place[g] = "run", call[g] \notin SelectCall,
         call' = [call EXCEPT ![g] = c],
         UNCHANGED <<target, timeout_idx, vec, bucket, now, base_time, clock, ioactivecnt,
                     active, place, queued, pc, state>>
  PROVE  Inner'
<1> USE DEF Inner
<1>1. TypeOK' /\ Placed' /\ Phases' /\ Expiry' /\ Counted'
  BY CallShape DEF TypeOK, Placed, Phases, Expiry, Counted, InBucket, On
<1>2. \A h \in Greenlet : h # g => call'[h] = call[h]
  BY DEF TypeOK
<1>3. ASSUME NEW fd \in Fd PROVE Owned(fd)'
  <2>1. target[fd].who # Nobody => target[fd].who \in Greenlet /\ target[fd].who # g
    BY DEF TypeOK, Target, Owned
  <2>2. target[fd].read # Nobody => target[fd].read \in Greenlet /\ target[fd].read # g
    BY DEF TypeOK, Target, Owned, Selecting
  <2>3. target[fd].write # Nobody => target[fd].write \in Greenlet /\ target[fd].write # g
    BY DEF TypeOK, Target, Owned, Selecting
  <2> QED
    BY <1>2, <2>1, <2>2, <2>3 DEF Owned, Selecting
<1>4. ASSUME NEW h \in Greenlet PROVE Waiting(h)'
  BY <1>2 DEF Waiting
<1> QED
  BY <1>1, <1>3, <1>4

LEMMA BeginReadWriteStep ==
  ASSUME Sensible, Inner, NEW g \in Greenlet, Begin(g) \/ Read(g) \/ Write(g)
  PROVE  Inner'
<1> DEFINE same == UNCHANGED <<target, timeout_idx, vec, bucket, now, base_time, clock,
                               ioactivecnt, active, place, queued, pc, state>>
<1>1. call[g] \in {None} \cup MethodCall \cup SelectCall
  BY DEF Inner, TypeOK
<1>2. ASSUME NEW event, Trying(g, event) PROVE call[g] \in MethodCall /\ place[g] = "run"
  BY <1>1, <1>2, CallShape DEF Trying, InCode
<1>3. CASE Begin(g)
  <2>1. PICK c \in Calls(g) : call' = [call EXCEPT ![g] = c]
    BY <1>3 DEF Begin
  <2>2. c \in MethodCall /\ place[g] = "run" /\ call[g] \notin SelectCall
    BY <1>3, CallShape DEF Begin, Idle, InCode, Sensible
  <2>3. same
    BY <1>3 DEF Begin, picoevVars, pollVars, loopVars, socketVars
  <2> QED
    BY <2>1, <2>2, <2>3, GoesOn
<1>4. CASE Read(g)
  <2>1. call[g] \in MethodCall /\ place[g] = "run" /\ call[g] \notin SelectCall
    <3>1. \E event : Trying(g, event)
      BY <1>4 DEF Read
    <3>2. call[g] \in MethodCall /\ place[g] = "run"
      BY <1>2, <3>1, Zenon
    <3> QED
      BY <3>2, CallShape, Zenon
  <2>2. PICK c \in {None, [call[g] EXCEPT !.step = "wait"]} : call' = [call EXCEPT ![g] = c]
    BY <1>4 DEF Read, Returns, Waits
  <2>3. c \in {None} \cup MethodCall
    BY <2>1, <2>2, CallShape
  <2>4. same
    BY <1>4 DEF Read, picoevVars, pollVars, loopVars, socketVars
  <2> QED
    BY <2>1, <2>2, <2>3, <2>4, GoesOn
<1>5. CASE Write(g)
  <2>1. call[g] \in MethodCall /\ place[g] = "run" /\ call[g] \notin SelectCall
    <3>1. \E event : Trying(g, event)
      BY <1>5 DEF Write
    <3>2. call[g] \in MethodCall /\ place[g] = "run"
      BY <1>2, <3>1, ZenonT(60)
    <3> QED
      BY <3>2, CallShape, Zenon
  <2>2. PICK c \in {None, [call[g] EXCEPT !.step = "wait"]}
                   \cup {[call[g] EXCEPT !.left = @ - n] : n \in 1 .. call[g].left} :
          (call[g].left \in Nat) /\ call' = [call EXCEPT ![g] = c]
    BY <1>5, <2>1, CallShape DEF Write, Returns, Waits
  <2>3. c \in {None} \cup MethodCall
    <3>1. ASSUME NEW n \in 1 .. call[g].left
          PROVE  [call[g] EXCEPT !.left = @ - n] \in MethodCall
      <4>1. call[g].left - n \in Nat
        BY <2>2
      <4> QED
        BY <2>1, <4>1, CallShape
    <3>2. None = c \/ [call[g] EXCEPT !.step = "wait"] = c
            \/ \E n \in 1 .. call[g].left : c = [call[g] EXCEPT !.left = @ - n]
      BY <2>2
    <3>3. [call[g] EXCEPT !.step = "wait"] \in MethodCall
      BY <2>1, CallShape, Zenon
    <3> QED
      BY <3>1, <3>2, <3>3, Zenon
  <2>4. same
    BY <1>5 DEF Write, picoevVars, pollVars, loopVars, socketVars
  <2> QED
    BY <2>1, <2>2, <2>3, <2>4, GoesOn
<1> QED
  BY <1>3, <1>4, <1>5

(* A greenlet that is neither in select() nor in a trampoline goes to the  *)
(* loop and, unless it is the main one, for good, without leaving anything *)
(* registered.                                                             *)
LEMMA GoesToLoop ==
  ASSUME Inner, NEW g \in Greenlet, NEW where \in {"runloop", "inrun", "done"},
         active = g, place[g] = "run", call[g] \notin SelectCall,
         where = "runloop" => call[g] \in MethodCall,
         place' = [place EXCEPT ![g] = where], active' = Loop,
         pc' = pc \/ (pc \in {"dead", "start"} /\ pc' = "check"),
         state' = state \/ state' = "RUNNING",
         UNCHANGED <<target, timeout_idx, vec, bucket, now, base_time, clock, ioactivecnt,
                     queued, call>>
  PROVE  Inner'
<1> USE DEF Inner
<1>1. pc # "throw" /\ (InBucket' <=> InBucket)
  BY SocketsAssumption DEF Phases, InBucket
<1>2. TypeOK' /\ Phases' /\ Expiry' /\ Counted'
  BY <1>1 DEF TypeOK, Phases, Expiry, Counted, On, Places, InBucket
<1>3. \A h \in Greenlet : h # g => place'[h] = place[h]
  BY DEF TypeOK
<1>4. place'[g] = where
  BY DEF TypeOK
<1>5. Placed'
  BY <1>3, <1>4 DEF Placed, TypeOK
<1>6. ASSUME NEW fd \in Fd PROVE Owned(fd)'
  <2>1. target[fd].who # Nobody => target[fd].who \in Greenlet /\ target[fd].who # g
    BY DEF TypeOK, Target, Owned
  <2>2. target[fd].read # Nobody => target[fd].read \in Greenlet /\ target[fd].read # g
    BY DEF TypeOK, Target, Owned, Selecting
  <2>3. target[fd].write # Nobody => target[fd].write \in Greenlet /\ target[fd].write # g
    BY DEF TypeOK, Target, Owned, Selecting
  <2> QED
    BY <1>3, <2>1, <2>2, <2>3 DEF Owned, Selecting
<1>7. ASSUME NEW h \in Greenlet PROVE Waiting(h)'
  BY <1>3, <1>4 DEF Waiting
<1> QED
  BY <1>2, <1>5, <1>6, <1>7

LEMMA RunFirstStep == ASSUME Inner, NEW g \in Greenlet, RunFirst(g) PROVE Inner'
<1>1. call[g] \in MethodCall /\ call[g] \notin SelectCall
  BY CallShape DEF Inner, TypeOK, RunFirst
<1>2. active = g /\ place[g] = "run"
  BY DEF RunFirst, InCode
<1>3. /\ place' = [place EXCEPT ![g] = "runloop"] /\ active' = Loop /\ pc' = pc
      /\ state' = "RUNNING"
      /\ UNCHANGED <<target, timeout_idx, vec, bucket, now, base_time, clock, ioactivecnt,
                     queued, call>>
  BY DEF RunFirst, picoevVars, pollVars, socketVars
<1> QED
  BY <1>1, <1>2, <1>3, GoesToLoop

LEMMA EndStep == ASSUME Inner, NEW g \in Greenlet, End(g) PROVE Inner'
<1>1. call[g] \notin SelectCall /\ active = g /\ place[g] = "run"
  BY CallShape DEF End, Idle, InCode
<1>2. /\ place' = [place EXCEPT ![g] = "done"] /\ active' = Loop /\ pc' = pc
      /\ state' = state
      /\ UNCHANGED <<target, timeout_idx, vec, bucket, now, base_time, clock, ioactivecnt,
                     queued, call>>
  BY DEF End, picoevVars, pollVars, loopVars, socketVars
<1> QED
  BY <1>1, <1>2, GoesToLoop

LEMMA RunStep == ASSUME Inner, Run PROVE Inner'
<1>1. call[Main] \notin SelectCall /\ active = Main /\ place[Main] = "run" /\ Main \in Greenlet
  BY CallShape, SocketsAssumption DEF Run, Idle, InCode
<1>2. UNCHANGED <<target, timeout_idx, vec, bucket, now, base_time, clock, ioactivecnt,
                  queued, call>>
  BY DEF Run, picoevVars, socketVars
<1>3. CASE pc = "dead" /\ suspend_thread # Nobody
  <2>1. pc' = "start" /\ UNCHANGED <<active, place>>
    BY <1>3 DEF Run
  <2> QED
    BY <1>2, <1>3, <2>1
       DEF Inner, TypeOK, Placed, Phases, Expiry, InBucket, Counted, On, Owned, Selecting, Waiting
<1>4. CASE ~(pc = "dead" /\ suspend_thread # Nobody)
  <2>1. SwitchToLoop(Main, "inrun")
    BY <1>4 DEF Run
  <2>2. /\ place' = [place EXCEPT ![Main] = "inrun"] /\ active' = Loop /\ state' = "RUNNING"
        /\ pc' = pc \/ (pc \in {"dead", "start"} /\ pc' = "check")
    BY <2>1 DEF SwitchToLoop
  <2> QED
    BY <1>1, <1>2, <2>2, GoesToLoop
<1> QED
  BY <1>3, <1>4

(* A greenlet starts, or wakes up in select().                             *)
LEMMA FireStep == ASSUME Inner, NEW g \in Greenlet, Fire(g) PROVE Inner'
<1> USE DEF Inner
<1>1. /\ active = Loop /\ pc = "pendings" /\ g \in queued /\ queued' = queued \ {g}
      /\ active' = g /\ place' = [place EXCEPT ![g] = "run"]
      /\ UNCHANGED <<target, timeout_idx, vec, bucket, now, base_time, clock, ioactivecnt,
                     call, pc, state>>
  BY DEF Fire, InLoop, picoevVars, pollVars, loopVars, socketVars
<1>2. place[g] \in {"new", "event"} /\ \A h \in Greenlet : place[h] # "run"
  BY <1>1, SocketsAssumption DEF Placed
<1>3. \A h \in Greenlet : h # g => place'[h] = place[h]
  BY <1>1 DEF TypeOK
<1>4. place'[g] = "run"
  BY <1>1 DEF TypeOK
<1>5. TypeOK' /\ Phases' /\ Expiry' /\ Counted'
  BY <1>1 DEF TypeOK, Phases, Expiry, Counted, On, Places, InBucket
<1>6. Placed'
  BY <1>1, <1>2, <1>3, <1>4 DEF Placed, TypeOK
<1>7. ASSUME NEW fd \in Fd PROVE Owned(fd)'
  <2>1. \A h \in Greenlet : Selecting(h) => Selecting(h)'
    BY <1>1, <1>3, <1>4 DEF Selecting
  <2>2. target[fd].who # Nobody => target[fd].who \in Greenlet /\ target[fd].who # g
    BY <1>2 DEF TypeOK, Target, Owned
  <2>3. target[fd].read \in Greenlet \cup {Nobody} /\ target[fd].write \in Greenlet \cup {Nobody}
    BY DEF TypeOK, Target
  <2> QED
    BY <1>1, <1>3, <2>1, <2>2, <2>3 DEF Owned
<1>8. ASSUME NEW h \in Greenlet PROVE Waiting(h)'
  BY <1>1, <1>3, <1>4 DEF Waiting
<1> QED
  BY <1>5, <1>6, <1>7, <1>8
-----------------------------------------------------------------------------
(* How the count of the registered descriptors changes.                    *)
LEMMA CountMore ==
  ASSUME IsFiniteSet(Fd), NEW fd \in Fd, fd \notin On, On' = On \cup {fd}
  PROVE  Cardinality(On') = Cardinality(On) + 1 /\ Cardinality(On) \in Nat
<1>1. IsFiniteSet(On)
  BY FS_Subset DEF On
<1> QED
  BY <1>1, FS_AddElement, FS_CardinalityType

LEMMA CountLess ==
  ASSUME IsFiniteSet(Fd), NEW fd \in Fd, fd \in On, On' = On \ {fd}
  PROVE  Cardinality(On') = Cardinality(On) - 1 /\ Cardinality(On) \in Nat
<1>1. IsFiniteSet(On)
  BY FS_Subset DEF On
<1> QED
  BY <1>1, FS_RemoveElement, FS_CardinalityType

LEMMA TrampolineStep ==
  ASSUME Sensible, Inner, NEW g \in Greenlet, Trampoline(g), Defined'
  PROVE  Inner'
<1> DEFINE fd == call[g].fd
           t == [Off EXCEPT !.on = TRUE, !.events = {call[g].event}, !.who = g]
           second == IF call[g].timeout = 0 THEN 0 ELSE now + call[g].timeout
<1> USE DEF Inner
<1>1. /\ active = g /\ place[g] = "run" /\ (pc = "dead" \/ state = "RUNNING")
      /\ active' = Loop /\ place' = [place EXCEPT ![g] = "wait"] /\ state' = "RUNNING"
      /\ pc' = IF pc \in {"dead", "start"} THEN "check" ELSE pc
      /\ UNCHANGED <<now, base_time, bucket, queued, call, clock>>
  BY DEF Trampoline, InCode, SwitchToLoop, socketVars
<1>2. /\ target' = [target EXCEPT ![fd] = t]
      /\ timeout_idx' = [timeout_idx EXCEPT ![fd] = second]
      /\ vec' = vec \cup {<<fd, s>> : s \in {second} \ {0}}
      /\ ioactivecnt' = IF target[fd].on THEN ioactivecnt ELSE ioactivecnt + 1
      /\ shared' = (shared \/ target[fd].on)
  BY DEF Trampoline, Add
<1>3. call[g] \in MethodCall /\ call[g] \notin SelectCall /\ fd \in Fd /\ second \in Nat
  <2>1. call[g] \in {None} \cup MethodCall \cup SelectCall /\ call[g].step = "wait" /\ now \in Nat
    BY DEF Trampoline, TypeOK
  <2>2. call[g] \in MethodCall /\ call[g] \notin SelectCall
    BY <2>1, CallShape
  <2>3. fd \in Fd /\ call[g].timeout \in Nat
    BY <2>2, CallShape
  <2> QED
    BY <2>1, <2>2, <2>3
<1>4. ~target[fd].on /\ timeout_idx[fd] = 0 /\ target[fd].who = Nobody
  BY <1>2, <1>3, OffShape DEF Defined, Expiry, Owned
<1>5. ~InBucket /\ ~InBucket'
  BY <1>1, SocketsAssumption DEF Phases, InBucket
<1>6. /\ t \in Target /\ t.on /\ t.events = {call[g].event} /\ t.who = g
      /\ t.read = Nobody /\ t.write = Nobody
  BY <1>3, CallShape DEF Off, Target
<1>7. /\ target'[fd] = t /\ \A f \in Fd : f # fd => target'[f] = target[f]
      /\ target' \in [Fd -> Target]
  BY <1>2, <1>3, <1>6 DEF TypeOK
<1>8. /\ place'[g] = "wait" /\ \A h \in Greenlet : h # g => place'[h] = place[h]
      /\ place' \in [Greenlet -> Places]
  BY <1>1 DEF TypeOK, Places
<1>9. TypeOK'
  <2>1. {<<fd, s>> : s \in {second} \ {0}} \subseteq Fd \X Nat
    BY <1>3
  <2> QED
    BY <1>1, <1>2, <1>3, <1>4, <1>7, <1>8, <2>1 DEF TypeOK
<1>10. Placed'
  BY <1>1, <1>3, <1>8 DEF Placed, TypeOK
<1>11. Phases'
  BY <1>5 DEF Phases, InBucket
<1>12. Expiry'
  <2>1. /\ timeout_idx'[fd] = second /\ \A f \in Fd : f # fd => timeout_idx'[f] = timeout_idx[f]
    BY <1>2, <1>3 DEF TypeOK
  <2>2. ASSUME NEW f \in Fd, ~target'[f].on PROVE timeout_idx'[f] = 0
    <3>1. f # fd
      BY <1>6, <1>7, <2>2
    <3> QED
      BY <1>7, <2>1, <2>2, <3>1 DEF Expiry
  <2>3. ASSUME NEW b \in vec' PROVE b[2] # 0 /\ timeout_idx'[b[1]] = b[2]
    <3>1. CASE b \in vec
      <4>1. b[1] \in Fd /\ b[2] # 0 /\ timeout_idx[b[1]] = b[2]
        BY <1>5, <3>1 DEF Expiry, TypeOK
      <4> QED
        BY <1>4, <2>1, <4>1
    <3>2. CASE b \in {<<fd, s>> : s \in {second} \ {0}}
      BY <2>1, <3>2
    <3> QED
      BY <1>2, <3>1, <3>2
  <2> QED
    BY <1>5, <2>2, <2>3 DEF Expiry
<1>13. Counted'
  <2>1. On' = On \cup {fd} /\ fd \notin On
    BY <1>3, <1>4, <1>6, <1>7 DEF On
  <2>2. Cardinality(On') = Cardinality(On) + 1 /\ Cardinality(On) \in Nat
    BY <1>3, <2>1, CountMore DEF Sensible
  <2> QED
    BY <1>2, <1>4, <2>2 DEF Counted
<1>14. ASSUME NEW f \in Fd PROVE Owned(f)'
  <2>1. CASE f = fd
    BY <1>1, <1>6, <1>7, <1>8, <2>1, SocketsAssumption DEF Owned
  <2>2. CASE f # fd
    <3>1. /\ target[f].who # Nobody => target[f].who \in Greenlet /\ target[f].who # g
          /\ target[f].read # Nobody => target[f].read \in Greenlet /\ target[f].read # g
          /\ target[f].write # Nobody => target[f].write \in Greenlet /\ target[f].write # g
      BY <1>1, <1>3 DEF TypeOK, Target, Owned, Selecting
    <3> QED
      BY <1>1, <1>7, <1>8, <2>2, <3>1 DEF Owned, Selecting
  <2> QED
    BY <2>1, <2>2
<1>15. ASSUME NEW h \in Greenlet PROVE Waiting(h)'
  <2>1. CASE h = g
    BY <1>1, <1>6, <1>7, <2>1 DEF Waiting
  <2>2. CASE h # g /\ place[h] = "wait"
    <3>1. call[h].fd \in Fd /\ call[h].fd # fd
      BY <1>4, <2>2, CallShape DEF Waiting, Placed
    <3> QED
      BY <1>1, <1>7, <1>8, <2>2, <3>1 DEF Waiting
  <2> QED
    BY <1>8, <2>1, <2>2 DEF Waiting
<1> QED
  BY <1>9, <1>10, <1>11, <1>12, <1>13, <1>14, <1>15

(* The switch to the loop of a greenlet returns.                           *)
LEMMA Returning ==
  ASSUME Sensible, Inner, NEW g \in Greenlet, NEW raised \in BOOLEAN,
         place[g] = "wait", active = Loop, SwitchBack(g, raised),
         InBucket' <=> InBucket, Phases',
         UNCHANGED <<bucket, now, base_time, clock, queued>>
  PROVE  Inner'
<1> DEFINE fd == call[g].fd
<1> USE DEF Inner
<1>1. call[g] \in MethodCall /\ call[g] \notin SelectCall /\ fd \in Fd
  BY CallShape DEF Placed
<1>2. /\ target' = [target EXCEPT ![fd] = Off]
      /\ timeout_idx' = [timeout_idx EXCEPT ![fd] = 0]
      /\ vec' = vec \ {<<fd, timeout_idx[fd]>>}
  <2>1. {<<fd, s>> : s \in {0} \ {0}} = {}
    OBVIOUS
  <2> QED
    BY <2>1 DEF SwitchBack, Del, SetTimeout
<1>3. /\ active' = g /\ place' = [place EXCEPT ![g] = "run"]
      /\ ioactivecnt' = ioactivecnt - 1
  BY DEF SwitchBack
<1>4. PICK c \in {None} \cup MethodCall : call' = [call EXCEPT ![g] = c]
  <2>1. [call[g] EXCEPT !.step = "try", !.again = TRUE] \in MethodCall
    BY <1>1, CallShape
  <2> QED
    BY <2>1 DEF SwitchBack, Returns
<1>5. target[fd].on /\ target[fd].who = g /\ target[fd].read = Nobody /\ target[fd].write = Nobody
  BY <1>1, SocketsAssumption DEF Waiting, Owned
<1>6. /\ target'[fd] = Off /\ \A f \in Fd : f # fd => target'[f] = target[f]
      /\ target' \in [Fd -> Target]
  BY <1>1, <1>2, OffShape DEF TypeOK
<1>7. /\ place'[g] = "run" /\ \A h \in Greenlet : h # g => place'[h] = place[h]
      /\ \A h \in Greenlet : place[h] # "run"
      /\ place' \in [Greenlet -> Places]
  BY <1>3, SocketsAssumption DEF TypeOK, Places, Placed
<1>8. /\ \A h \in Greenlet : h # g => call'[h] = call[h]
      /\ call' \in [Greenlet -> {None} \cup MethodCall \cup SelectCall]
  BY <1>4 DEF TypeOK
<1>9. TypeOK'
  BY <1>1, <1>2, <1>3, <1>6, <1>7, <1>8 DEF TypeOK
<1>10. Placed'
  BY <1>3, <1>7, <1>8 DEF Placed, TypeOK
<1>11. Expiry'
  <2>1. /\ timeout_idx'[fd] = 0 /\ \A f \in Fd : f # fd => timeout_idx'[f] = timeout_idx[f]
    BY <1>1, <1>2 DEF TypeOK
  <2>2. \A f \in Fd : ~target'[f].on => timeout_idx'[f] = 0
    BY <1>6, <2>1 DEF Expiry
  <2>3. ASSUME NEW b \in vec'
        PROVE  b[2] # 0 /\ (timeout_idx'[b[1]] = b[2] \/ (InBucket /\ b[2] = base_time))
    <3>1. /\ b = <<b[1], b[2]>> /\ b[1] \in Fd /\ b # <<fd, timeout_idx[fd]>>
          /\ b[2] # 0 /\ (timeout_idx[b[1]] = b[2] \/ (InBucket /\ b[2] = base_time))
      BY <1>2 DEF Expiry, TypeOK
    <3>2. b[1] = fd => timeout_idx[fd] # b[2]
      BY <3>1
    <3> QED
      BY <2>1, <3>1, <3>2
  <2>4. InBucket => \A f \in bucket : timeout_idx'[f] \in {0, base_time}
    BY <2>1 DEF Expiry, TypeOK
  <2> QED
    BY <2>2, <2>3, <2>4 DEF Expiry
<1>12. Counted'
  <2>1. On' = On \ {fd} /\ fd \in On
    BY <1>1, <1>5, <1>6, OffShape DEF On
  <2>2. Cardinality(On') = Cardinality(On) - 1 /\ Cardinality(On) \in Nat
    BY <1>1, <2>1, CountLess DEF Sensible
  <2> QED
    BY <1>3, <2>2 DEF Counted
<1>13. ASSUME NEW f \in Fd PROVE Owned(f)'
  <2>1. CASE f = fd
    BY <1>6, <2>1, OffShape DEF Owned
  <2>2. CASE f # fd
    <3>1. /\ target[f].who # Nobody => target[f].who \in Greenlet /\ target[f].who # g
          /\ target[f].read # Nobody => target[f].read \in Greenlet /\ target[f].read # g
          /\ target[f].write # Nobody => target[f].write \in Greenlet /\ target[f].write # g
      BY <1>1, <2>2 DEF TypeOK, Target, Owned, Selecting
    <3> QED
      BY <1>6, <1>7, <1>8, <2>2, <3>1 DEF Owned, Selecting
  <2> QED
    BY <2>1, <2>2
<1>14. ASSUME NEW h \in Greenlet PROVE Waiting(h)'
  <2>1. CASE h # g /\ place[h] = "wait"
    <3>1. call[h] \in MethodCall /\ target[call[h].fd].who = h
      BY <2>1 DEF Waiting, Placed
    <3>2. call[h].fd \in Fd /\ call[h].fd # fd
      BY <1>5, <2>1, <3>1, CallShape
    <3> QED
      BY <1>6, <1>7, <1>8, <2>1, <3>2 DEF Waiting
  <2> QED
    BY <1>7, <2>1 DEF Waiting
<1> QED
  BY <1>9, <1>10, <1>11, <1>12, <1>13, <1>14

(* Control goes to the main greenlet, which is not in a trampoline.        *)
LEMMA ToMain ==
  ASSUME Inner, NEW c \in {None} \cup MethodCall \cup SelectCall, active = Loop,
         place[Main] # "wait", c # call[Main] => c \notin SelectCall,
         active' = Main, place' = [place EXCEPT ![Main] = "run"],
         call' = [call EXCEPT ![Main] = c],
         InBucket' <=> InBucket, Phases',
         vec' \subseteq vec, \A b \in vec \ vec' : ~target[b[1]].on,
         UNCHANGED <<target, timeout_idx, bucket, now, base_time, clock, ioactivecnt, queued>>
  PROVE  Inner'
<1> USE DEF Inner
<1>1. Main \in Greenlet /\ Main # Nobody
  BY SocketsAssumption
<1>2. /\ place'[Main] = "run" /\ \A h \in Greenlet : h # Main => place'[h] = place[h]
      /\ \A h \in Greenlet : place[h] # "run"
      /\ place' \in [Greenlet -> Places]
  BY <1>1, SocketsAssumption DEF TypeOK, Places, Placed
<1>3. /\ \A h \in Greenlet : h # Main => call'[h] = call[h]
      /\ call' \in [Greenlet -> {None} \cup MethodCall \cup SelectCall]
  BY DEF TypeOK
<1>4. TypeOK'
  BY <1>1, <1>2, <1>3 DEF TypeOK
<1>5. Placed'
  BY <1>1, <1>2, <1>3 DEF Placed, TypeOK
<1>6. Expiry' /\ Counted'
  BY DEF Expiry, Counted, On, TypeOK
<1>7. ASSUME NEW f \in Fd PROVE Owned(f)'
  <2>1. /\ target[f].who # Nobody => target[f].who \in Greenlet /\ target[f].who # Main
        /\ target[f].read # Nobody => target[f].read \in Greenlet /\ target[f].read # Main
        /\ target[f].write # Nobody => target[f].write \in Greenlet /\ target[f].write # Main
    BY DEF TypeOK, Target, Owned, Selecting
  <2> QED
    BY <1>2, <1>3, <2>1 DEF Owned, Selecting
<1>8. ASSUME NEW h \in Greenlet PROVE Waiting(h)'
  BY <1>2, <1>3 DEF Waiting
<1> QED
  BY <1>4, <1>5, <1>6, <1>7, <1>8

LEMMA CheckStep == ASSUME Sensible, Inner, Check, Defined' PROVE Inner'
<1> USE DEF Inner
<1>1. /\ active = Loop /\ pc = "check"
      /\ UNCHANGED <<bucket, now, base_time, clock, queued>>
  BY DEF Check, InLoop, socketVars
<1>2. ASSUME pc' \in {"dead", "pendings"} PROVE (InBucket' <=> InBucket) /\ Phases'
  BY <1>1, <1>2 DEF InBucket, Phases
<1>3. CASE UNCHANGED <<target, timeout_idx, vec, ioactivecnt, state, active, place, call>>
             /\ pc' = "pendings"
  BY <1>1, <1>3 DEF TypeOK, Placed, Phases, Expiry, InBucket, Counted, On, Owned, Selecting, Waiting
<1>4. CASE Leave(error)
  <2>1. pc' = "dead" /\ (InBucket' <=> InBucket) /\ Phases' /\ Main \in Greenlet
    BY <1>2, <1>4, SocketsAssumption DEF Leave
  <2>2. CASE place[Main] = "wait"
    <3>1. PICK raised \in BOOLEAN : SwitchBack(Main, raised)
      <4>1. SwitchBack(Main, error)
        BY <1>4, <2>2 DEF Leave
      <4>2. SwitchBack(Main, TRUE) \/ SwitchBack(Main, FALSE)
        BY <4>1 DEF SwitchBack
      <4> QED
        BY <4>2
    <3> QED
      BY <1>1, <2>1, <2>2, <3>1, Returning
  <2>3. CASE place[Main] = "runloop" /\ ~error
    <3> DEFINE fd == call[Main].fd
               c == [call[Main] EXCEPT !.step = "try", !.again = TRUE]
    <3>1. TrampolineOfNoLoop
      BY <1>4, <2>3 DEF Leave
    <3>2. call[Main] \in MethodCall /\ fd \in Fd /\ c \in MethodCall /\ c \notin SelectCall
      BY <2>1, <2>3, CallShape DEF Placed
    <3>3. ~target[fd].on /\ target[fd] = Off /\ timeout_idx[fd] = 0
      BY <3>1, <3>2 DEF TrampolineOfNoLoop, Defined, Owned, Expiry
    <3>4. target' = target /\ timeout_idx' = timeout_idx /\ ioactivecnt' = ioactivecnt
      BY <3>1, <3>2, <3>3 DEF TrampolineOfNoLoop, TypeOK
    <3>5. vec' \subseteq vec /\ \A b \in vec \ vec' : ~target[b[1]].on
      BY <3>1, <3>3 DEF TrampolineOfNoLoop
    <3>6. /\ active' = Main /\ place' = [place EXCEPT ![Main] = "run"]
          /\ call' = [call EXCEPT ![Main] = c]
      BY <3>1 DEF TrampolineOfNoLoop
    <3> QED
      BY <1>1, <2>1, <2>3, <3>2, <3>4, <3>5, <3>6, ToMain
  <2>4. CASE ~(place[Main] = "wait") /\ ~(place[Main] = "runloop" /\ ~error)
    <3>1. /\ active' = Main /\ place' = [place EXCEPT ![Main] = "run"]
          /\ IF error THEN Returns(Main) ELSE UNCHANGED call
          /\ UNCHANGED <<target, timeout_idx, vec, ioactivecnt>>
      BY <1>4, <2>4 DEF Leave
    <3>2. call[Main] \in {None} \cup MethodCall \cup SelectCall
            /\ (~error => call' = [call EXCEPT ![Main] = call[Main]])
      BY <2>1, <3>1 DEF TypeOK
    <3>3. PICK c \in {None, call[Main]} : call' = [call EXCEPT ![Main] = c]
      BY <3>1, <3>2 DEF Returns
    <3> QED
      BY <1>1, <2>1, <2>4, <3>1, <3>2, <3>3, CallShape, ToMain
  <2> QED
    BY <2>2, <2>3, <2>4
<1> QED
  BY <1>3, <1>4 DEF Check

(* An exception is the main greenlet's.                                    *)
LEMMA ThrowStep == ASSUME Sensible, Inner, Throw PROVE Inner'
<1> USE DEF Inner
<1>1. /\ active = Loop /\ pc = "throw" /\ pc' = "bucket" /\ state' = state
      /\ UNCHANGED <<bucket, now, base_time, clock, queued>>
  BY DEF Throw, InLoop, socketVars
<1>2. Main \in Greenlet /\ (InBucket' <=> InBucket) /\ state = "STOP"
  BY <1>1, SocketsAssumption DEF InBucket, Phases
<1>3. CASE place[Main] = "wait"
  <2>1. SwitchBack(Main, TRUE)
    BY <1>3 DEF Throw
  <2>2. Phases'
    BY <1>1, <1>2, <2>1 DEF SwitchBack, Phases
  <2> QED
    BY <1>1, <1>2, <1>3, <2>1, <2>2, Returning
<1>4. CASE place[Main] # "wait"
  <2>1. /\ active' = Main /\ place' = [place EXCEPT ![Main] = "run"]
        /\ call' = [call EXCEPT ![Main] = None]
        /\ UNCHANGED <<target, timeout_idx, vec, ioactivecnt>>
    BY <1>4 DEF Throw, Returns
  <2>2. Phases'
    BY <1>1, <1>2, <2>1 DEF Phases
  <2> QED
    BY <1>1, <1>2, <1>4, <2>1, <2>2, CallShape, ToMain
<1> QED
  BY <1>3, <1>4

(* What concerns neither the descriptors nor who waits for them.           *)
LEMMA Unmoved ==
  ASSUME Sensible, Inner, InBucket' <=> InBucket, Phases',
         UNCHANGED <<target, timeout_idx, vec, ioactivecnt, active, place, call,
                     bucket, now, base_time, clock, queued>>
  PROVE  Inner'
<1> USE DEF Inner
<1>1. TypeOK'
  BY DEF TypeOK
<1>2. Placed' /\ Counted'
  BY DEF Placed, Counted, On
<1>3. Expiry'
  BY DEF Expiry
<1>4. ASSUME NEW f \in Fd PROVE Owned(f)'
  BY DEF Owned, Selecting
<1>5. ASSUME NEW g \in Greenlet PROVE Waiting(g)'
  BY DEF Waiting
<1> QED
  BY <1>1, <1>2, <1>3, <1>4, <1>5

(* An event of a descriptor wakes up its greenlet.                         *)
LEMMA WakeStep == ASSUME Sensible, Inner, NEW fd \in Fd, Wake(fd) PROVE Inner'
<1> USE DEF Inner
<1>1. /\ active = Loop /\ pc = "batch" /\ pc' = pc /\ state' = state
      /\ UNCHANGED <<bucket, now, base_time, clock, queued>>
  BY DEF Wake, InBatch, InLoop, socketVars
<1>2. (InBucket' <=> InBucket) /\ Phases'
  BY <1>1 DEF InBucket, Phases
<1>3. CASE UNCHANGED <<target, timeout_idx, vec, ioactivecnt, active, place, call>>
  BY <1>1, <1>2, <1>3, Unmoved
<1>4. CASE SwitchBack(target[fd].who, FALSE)
  <2>1. target[fd].who \in Greenlet /\ place[target[fd].who] = "wait"
    BY DEF TypeOK, Target, Owned, Wake
  <2> QED
    BY <1>1, <1>2, <1>4, <2>1, Returning
<1> QED
  BY <1>3, <1>4 DEF Wake
-----------------------------------------------------------------------------
(* Descriptors get and lose callbacks; those of trampolines stay as they   *)
(* are.                                                                    *)
LEMMA Retargeted ==
  ASSUME Sensible, Inner, NEW new \in [Fd -> Target], Retarget(new),
         \A fd \in Fd : ~new[fd].on => new[fd] = Off,
         InBucket' <=> InBucket, UNCHANGED <<bucket, base_time>>
  PROVE  /\ target' = new /\ timeout_idx' \in [Fd -> Nat] /\ vec' \subseteq vec
         /\ ioactivecnt' \in Int
         /\ Expiry' /\ Counted'
<1> DEFINE gone == {fd \in Fd : target[fd].on /\ ~new[fd].on}
           come == {fd \in Fd : ~target[fd].on /\ new[fd].on}
<1> USE DEF Inner
<1>1. /\ target' = new
      /\ timeout_idx' = [fd \in Fd |-> IF fd \in gone THEN 0 ELSE timeout_idx[fd]]
      /\ vec' = {b \in vec : ~(b[1] \in gone /\ timeout_idx[b[1]] = b[2])}
      /\ ioactivecnt' = ioactivecnt + Cardinality(come) - Cardinality(gone)
  BY DEF Retarget
<1>2. timeout_idx' \in [Fd -> Nat] /\ vec' \subseteq vec
  BY <1>1 DEF TypeOK
<1>3. Expiry'
  <2>1. ASSUME NEW fd \in Fd, ~new[fd].on PROVE timeout_idx'[fd] = 0
    BY <1>1, <2>1 DEF Expiry
  <2>2. ASSUME NEW b \in vec'
        PROVE  b[2] # 0 /\ (timeout_idx'[b[1]] = b[2] \/ (InBucket /\ b[2] = base_time))
    <3>1. /\ b[1] \in Fd /\ ~(b[1] \in gone /\ timeout_idx[b[1]] = b[2])
          /\ b[2] # 0 /\ (timeout_idx[b[1]] = b[2] \/ (InBucket /\ b[2] = base_time))
      BY <1>1 DEF Expiry, TypeOK
    <3> QED
      BY <1>1, <3>1
  <2>3. InBucket => \A fd \in bucket : timeout_idx'[fd] \in {0, base_time}
    BY <1>1 DEF Expiry, TypeOK
  <2> QED
    BY <1>1, <2>1, <2>2, <2>3 DEF Expiry
<1>4. Counted' /\ ioactivecnt' \in Int
  <2>1. IsFiniteSet(On) /\ IsFiniteSet(come) /\ IsFiniteSet(gone) /\ IsFiniteSet(On \ gone)
    BY FS_Subset DEF Sensible, On
  <2>2. On' = (On \ gone) \cup come /\ (On \ gone) \cap come = {} /\ On \cap gone = gone
    BY <1>1 DEF On
  <2>3. Cardinality(On \ gone) = Cardinality(On) - Cardinality(gone)
    BY <2>1, <2>2, FS_Difference
  <2>4. Cardinality((On \ gone) \cup come) = Cardinality(On \ gone) + Cardinality(come) - Cardinality({})
    BY <2>1, <2>2, FS_Union
  <2>5. /\ Cardinality({}) = 0 /\ Cardinality(On) \in Nat
        /\ Cardinality(come) \in Nat /\ Cardinality(gone) \in Nat
    BY <2>1, FS_EmptySet, FS_CardinalityType
  <2>6. Cardinality(On') = Cardinality(On) - Cardinality(gone) + Cardinality(come)
    BY <2>2, <2>3, <2>4, <2>5
  <2>7. ioactivecnt' = 1 + Cardinality(On')
    BY <1>1, <2>5, <2>6 DEF Counted
  <2>8. Cardinality(On') \in Nat
    BY <2>1, <2>2, FS_Union, FS_CardinalityType
  <2> QED
    BY <2>7, <2>8 DEF Counted
<1> QED
  BY <1>1, <1>2, <1>3, <1>4

(* What add_reader and add_writer, remove_reader and remove_writer make of *)
(* a descriptor that is not a trampoline's.                                *)
LEMMA Added ==
  ASSUME NEW t \in Target, t.who = Nobody, ~t.on => t = Off, NEW g \in Greenlet
  PROVE  /\ AddReader(t, g) \in Target /\ AddReader(t, g).on /\ AddReader(t, g).who = Nobody
         /\ AddReader(t, g).read \in {t.read, g} /\ AddReader(t, g).write = t.write
         /\ AddWriter(t, g) \in Target /\ AddWriter(t, g).on /\ AddWriter(t, g).who = Nobody
         /\ AddWriter(t, g).read = t.read /\ AddWriter(t, g).write \in {t.write, g}
BY DEF AddReader, AddWriter, Target, Direction, Off

LEMMA Removed ==
  ASSUME NEW t \in Target, t.who = Nobody, ~t.on => t = Off
  PROVE  /\ RemoveReader(t) \in Target /\ RemoveReader(t).who = Nobody
         /\ ~RemoveReader(t).on => RemoveReader(t) = Off
         /\ RemoveReader(t).read = Nobody /\ RemoveReader(t).write \in {t.write, Nobody}
         /\ RemoveWriter(t) \in Target /\ RemoveWriter(t).who = Nobody
         /\ ~RemoveWriter(t).on => RemoveWriter(t) = Off
         /\ RemoveWriter(t).write = Nobody /\ RemoveWriter(t).read \in {t.read, Nobody}
<1>1. /\ [t EXCEPT !.read = Nobody, !.events = {"WRITE"}] \in Target
      /\ [t EXCEPT !.write = Nobody, !.events = {"READ"}] \in Target
  BY DEF Target, Direction
<1>2. t.on \in BOOLEAN /\ t.read \in Greenlet \cup {Nobody} /\ t.write \in Greenlet \cup {Nobody}
  BY DEF Target
<1>3. CASE ~t.on
  BY <1>3, OffShape DEF RemoveReader, RemoveWriter
<1>4. CASE t.on
  <2>1. /\ RemoveReader(t) \in {Off, [t EXCEPT !.read = Nobody, !.events = {"WRITE"}]}
        /\ RemoveWriter(t) \in {Off, [t EXCEPT !.write = Nobody, !.events = {"READ"}]}
    BY <1>4 DEF RemoveReader, RemoveWriter
  <2>2. ASSUME NEW u, u \in {Off, [t EXCEPT !.read = Nobody, !.events = {"WRITE"}]}
        PROVE  /\ u \in Target /\ u.who = Nobody /\ (~u.on => u = Off)
               /\ u.read = Nobody /\ u.write \in {t.write, Nobody}
    BY <1>1, <1>4, <2>2, OffShape DEF Target
  <2>3. ASSUME NEW u, u \in {Off, [t EXCEPT !.write = Nobody, !.events = {"READ"}]}
        PROVE  /\ u \in Target /\ u.who = Nobody /\ (~u.on => u = Off)
               /\ u.write = Nobody /\ u.read \in {t.read, Nobody}
    BY <1>1, <1>4, <2>3, OffShape DEF Target
  <2> QED
    BY <2>1, <2>2, <2>3
<1> QED
  BY <1>2, <1>3, <1>4

(* What a greenlet in control makes of the descriptors of others is to     *)
(* take callbacks away; its own are those of its call of select().         *)
Reselects(g, c, new) ==
  \A fd \in Fd :
    /\ ~new[fd].on => new[fd] = Off
    /\ target[fd].who # Nobody => new[fd] = target[fd]
    /\ target[fd].who = Nobody => new[fd].who = Nobody
    /\ new[fd].read \in {target[fd].read, g, Nobody}
    /\ new[fd].write \in {target[fd].write, g, Nobody}
    /\ new[fd].read = g => c \in SelectCall /\ fd \in c.r
    /\ new[fd].write = g => c \in SelectCall /\ fd \in c.w

LEMMA Reselected ==
  ASSUME Sensible, Inner, NEW g \in Greenlet, NEW where \in {"event", "run"},
         NEW c \in {None} \cup SelectCall, NEW new \in [Fd -> Target],
         active = g, Retarget(new), Reselects(g, c, new),
         place[g] = "run", place' = [place EXCEPT ![g] = where],
         call[g] \notin MethodCall, call' = [call EXCEPT ![g] = c],
         where = "run" => active' = g /\ c = None,
         where = "event" => active' = Loop /\ g # Main,
         UNCHANGED <<bucket, now, base_time, clock, queued, pc, state>>
  PROVE  Inner'
<1> USE DEF Inner
<1>1. (InBucket' <=> InBucket) /\ \A fd \in Fd : ~new[fd].on => new[fd] = Off
  BY DEF InBucket, Reselects
<1>2. /\ target' = new /\ timeout_idx' \in [Fd -> Nat] /\ vec' \subseteq vec
      /\ ioactivecnt' \in Int
      /\ Expiry' /\ Counted'
  BY <1>1, Retargeted
<1>3. /\ place'[g] = where /\ \A h \in Greenlet : h # g => place'[h] = place[h]
      /\ place' \in [Greenlet -> Places]
  BY DEF TypeOK, Places
<1>4. /\ call'[g] = c /\ \A h \in Greenlet : h # g => call'[h] = call[h]
      /\ call' \in [Greenlet -> {None} \cup MethodCall \cup SelectCall]
  BY DEF TypeOK
<1>5. TypeOK'
  BY <1>2, <1>3, <1>4 DEF TypeOK
<1>6. Placed'
  BY <1>3, <1>4 DEF Placed, TypeOK
<1>7. Phases'
  BY SocketsAssumption DEF Phases
<1>8. ASSUME NEW fd \in Fd PROVE Owned(fd)'
  <2>1. /\ target'[fd] = new[fd]
        /\ target[fd].who \in Greenlet \cup {Nobody}
        /\ target[fd].read \in Greenlet \cup {Nobody}
        /\ target[fd].write \in Greenlet \cup {Nobody}
    BY <1>2 DEF TypeOK, Target
  <2>2. CASE target[fd].who # Nobody
    <3>1. target'[fd] = target[fd]
      BY <2>1, <2>2 DEF Reselects
    <3> QED
      BY <1>3, <1>4, <2>1, <2>2, <3>1 DEF Owned
  <2>3. CASE target[fd].who = Nobody
    <3>1. /\ target'[fd].who = Nobody /\ (~target'[fd].on => target'[fd] = Off)
          /\ target'[fd].read \in {target[fd].read, g, Nobody}
          /\ target'[fd].write \in {target[fd].write, g, Nobody}
          /\ target'[fd].read = g => c \in SelectCall /\ fd \in c.r
          /\ target'[fd].write = g => c \in SelectCall /\ fd \in c.w
      BY <2>1, <2>3 DEF Reselects
    <3>2. \A h \in Greenlet : h # g => (place'[h] = place[h] /\ call'[h] = call[h])
      BY <1>3, <1>4
    <3>3. c \in SelectCall => where = "event" /\ g # Main
      BY CallShape
    <3> QED
      BY <1>3, <1>4, <2>1, <3>1, <3>2, <3>3 DEF Owned, Selecting
  <2> QED
    BY <2>2, <2>3
<1>9. ASSUME NEW h \in Greenlet PROVE Waiting(h)'
  <2>1. CASE h # g /\ place[h] = "wait"
    <3>1. call[h] \in MethodCall /\ target[call[h].fd].who = h
      BY <2>1 DEF Waiting, Placed
    <3>2. call[h].fd \in Fd /\ h # Nobody
      BY <3>1, CallShape, SocketsAssumption
    <3>3. target'[call[h].fd] = target[call[h].fd]
      BY <1>2, <3>1, <3>2 DEF Reselects
    <3> QED
      BY <1>3, <1>4, <2>1, <3>3 DEF Waiting
  <2> QED
    BY <1>3, <2>1 DEF Waiting
<1> QED
  BY <1>2, <1>5, <1>6, <1>7, <1>8, <1>9

(* A greenlet that runs is registered only if it is in select().           *)
LEMMA OwnTargets ==
  ASSUME Inner, NEW g \in Greenlet, place[g] = "run", NEW fd \in Fd
  PROVE  /\ target[fd] \in Target /\ (~target[fd].on => target[fd] = Off)
         /\ target[fd].who # Nobody => target[fd].on
         /\ target[fd].read = g => call[g] \in SelectCall /\ fd \in call[g].r
         /\ target[fd].write = g => call[g] \in SelectCall /\ fd \in call[g].w
<1>1. Owned(fd) /\ target[fd] \in Target /\ g # Nobody
  BY SocketsAssumption DEF Inner, TypeOK
<1> QED
  BY <1>1, OffShape DEF Owned, Selecting

LEMMA SelectStep ==
  ASSUME Sensible, Inner, NEW g \in Greenlet, Select(g), Defined'
  PROVE  Inner'
<1>1. /\ active = g /\ place[g] = "run" /\ call[g] = None /\ g # Main
      /\ active' = Loop /\ place' = [place EXCEPT ![g] = "event"]
      /\ UNCHANGED <<bucket, now, base_time, clock, queued, pc, state>>
  BY DEF Select, Idle, InCode, pollVars, socketVars
<1> DEFINE First(r, fd) == IF fd \in r THEN AddReader(target[fd], g) ELSE target[fd]
           New(r, w) == [fd \in Fd |-> IF fd \in w THEN AddWriter(First(r, fd), g) ELSE First(r, fd)]
           Call(r, w) == [kind |-> "select", step |-> "select", r |-> r, w |-> w]
<1>2. PICK r \in SUBSET Selects(g), w \in SUBSET Selects(g) :
        /\ ~Mistaken(r \cup w) /\ Retarget(New(r, w))
        /\ call' = [call EXCEPT ![g] = Call(r, w)]
  BY DEF Select, Defined
<1>3. Call(r, w) \in SelectCall /\ Call(r, w).r = r /\ Call(r, w).w = w
  BY DEF SelectCall, Sensible
<1>4. ASSUME NEW fd \in Fd
      PROVE  /\ New(r, w)[fd] \in Target
             /\ ~New(r, w)[fd].on => New(r, w)[fd] = Off
             /\ target[fd].who # Nobody => New(r, w)[fd] = target[fd]
             /\ target[fd].who = Nobody => New(r, w)[fd].who = Nobody
             /\ New(r, w)[fd].read \in {target[fd].read, g, Nobody}
             /\ New(r, w)[fd].write \in {target[fd].write, g, Nobody}
             /\ New(r, w)[fd].read = g => fd \in r
             /\ New(r, w)[fd].write = g => fd \in w
  <2>1. /\ target[fd] \in Target /\ (~target[fd].on => target[fd] = Off)
        /\ target[fd].who # Nobody => target[fd].on
        /\ target[fd].read # g /\ target[fd].write # g
    BY <1>1, OwnTargets, CallShape
  <2>2. New(r, w)[fd] = IF fd \in w THEN AddWriter(First(r, fd), g) ELSE First(r, fd)
    OBVIOUS
  <2>3. CASE target[fd].who # Nobody
    <3>1. fd \notin r \cup w
      BY <1>2, <2>1, <2>3 DEF Mistaken
    <3> QED
      BY <2>1, <2>2, <2>3, <3>1
  <2>4. CASE target[fd].who = Nobody
    <3>1. /\ First(r, fd) \in Target /\ First(r, fd).who = Nobody
          /\ ~First(r, fd).on => First(r, fd) = Off
          /\ First(r, fd).write = target[fd].write
          /\ First(r, fd).read = target[fd].read \/ (First(r, fd).read = g /\ fd \in r)
      BY <2>1, <2>4, Added
    <3> HIDE DEF First
    <3>2. /\ New(r, w)[fd] \in Target /\ New(r, w)[fd].who = Nobody
          /\ ~New(r, w)[fd].on => New(r, w)[fd] = Off
          /\ New(r, w)[fd].read = First(r, fd).read
          /\ New(r, w)[fd].write = First(r, fd).write \/ (New(r, w)[fd].write = g /\ fd \in w)
      BY <2>2, <3>1, Added
    <3> QED
      BY <2>1, <2>4, <3>1, <3>2
  <2> QED
    BY <2>3, <2>4
<1>5. New(r, w) \in [Fd -> Target]
  BY <1>4
<1> HIDE DEF New, Call
<1>6. Reselects(g, Call(r, w), New(r, w))
  BY <1>3, <1>4 DEF Reselects
<1>7. call[g] \notin MethodCall
  BY <1>1, CallShape
<1> QED
  BY <1>1, <1>2, <1>3, <1>5, <1>6, <1>7, Reselected

(* The descriptors without the readers of r and the writers of w.          *)
Without(r, w) ==
  [fd \in Fd |->
     LET t == IF fd \in r THEN RemoveReader(target[fd]) ELSE target[fd]
     IN IF fd \in w THEN RemoveWriter(t) ELSE t]

LEMMA Fewer ==
  ASSUME Inner, NEW g \in Greenlet, place[g] = "run",
         NEW r \in SUBSET Fd, NEW w \in SUBSET Fd, ~Mistaken(r \cup w),
         call[g] \in SelectCall => call[g].r \subseteq r /\ call[g].w \subseteq w
  PROVE  Without(r, w) \in [Fd -> Target] /\ Reselects(g, None, Without(r, w))
<1> DEFINE new == Without(r, w)
<1> DEFINE First(fd) == IF fd \in r THEN RemoveReader(target[fd]) ELSE target[fd]
<1>1. ASSUME NEW fd \in Fd
      PROVE  /\ new[fd] \in Target
             /\ ~new[fd].on => new[fd] = Off
             /\ target[fd].who # Nobody => new[fd] = target[fd]
             /\ target[fd].who = Nobody => new[fd].who = Nobody
             /\ new[fd].read \in {target[fd].read, g, Nobody}
             /\ new[fd].write \in {target[fd].write, g, Nobody}
             /\ new[fd].read # g /\ new[fd].write # g
  <2>1. /\ target[fd] \in Target /\ (~target[fd].on => target[fd] = Off)
        /\ target[fd].who # Nobody => target[fd].on
        /\ target[fd].read = g => fd \in r
        /\ target[fd].write = g => fd \in w
        /\ g # Nobody
    BY OwnTargets, SocketsAssumption
  <2>2. new[fd] = IF fd \in w THEN RemoveWriter(First(fd)) ELSE First(fd)
    BY DEF Without
  <2>3. CASE target[fd].who # Nobody
    <3>1. fd \notin r \cup w
      BY <2>1, <2>3 DEF Mistaken
    <3> QED
      BY <2>1, <2>2, <2>3, <3>1
  <2>4. CASE target[fd].who = Nobody
    <3>1. /\ First(fd) \in Target /\ First(fd).who = Nobody
          /\ ~First(fd).on => First(fd) = Off
          /\ First(fd).write \in {target[fd].write, Nobody}
          /\ First(fd).read \in {target[fd].read, Nobody} /\ First(fd).read # g
      BY <2>1, <2>4, Removed
    <3> HIDE DEF First
    <3>2. /\ new[fd] \in Target /\ new[fd].who = Nobody
          /\ ~new[fd].on => new[fd] = Off
          /\ new[fd].read \in {First(fd).read, Nobody}
          /\ new[fd].write \in {First(fd).write, Nobody}
          /\ fd \in w => new[fd].write = Nobody
      BY <2>2, <3>1, Removed
    <3> QED
      BY <2>1, <2>4, <3>1, <3>2
  <2> QED
    BY <2>3, <2>4
<1>2. new \in [Fd -> Target]
  <2>1. new = [fd \in Fd |-> new[fd]]
    BY DEF Without
  <2> QED
    BY <1>1, <2>1
<1> QED
  BY <1>1, <1>2 DEF Reselects

LEMMA CloseStep ==
  ASSUME Sensible, Inner, NEW g \in Greenlet, Close(g), Defined'
  PROVE  Inner'
<1>1. /\ active = g /\ place[g] = "run" /\ active' = active /\ place' = place
      /\ call' = [call EXCEPT ![g] = None] /\ call[g].step = "select"
      /\ UNCHANGED <<bucket, now, base_time, clock, queued, pc, state>>
  BY DEF Close, InCode, Returns, pollVars, socketVars
<1>2. /\ call[g] \in SelectCall /\ call[g] \notin MethodCall
      /\ place' = [place EXCEPT ![g] = "run"]
  BY <1>1, CallShape DEF Inner, TypeOK
<1>3. PICK r \in SUBSET Fd, w \in SUBSET Fd : r = call[g].r /\ w = call[g].w
  BY <1>2, CallShape
<1>4. ~Mistaken(r \cup w) /\ Retarget(Without(r, w))
  BY <1>3 DEF Close, Defined, Without
<1>5. Without(r, w) \in [Fd -> Target] /\ Reselects(g, None, Without(r, w))
  BY <1>1, <1>3, <1>4, Fewer
<1> QED
  BY <1>1, <1>2, <1>4, <1>5, Reselected

LEMMA ShutdownStep ==
  ASSUME Sensible, Inner, NEW g \in Greenlet, Shutdown(g), Defined'
  PROVE  Inner'
<1>1. /\ active = g /\ place[g] = "run" /\ active' = active /\ place' = place
      /\ call' = call /\ call[g] = None
      /\ UNCHANGED <<bucket, now, base_time, clock, queued, pc, state>>
  BY DEF Shutdown, Idle, InCode, pollVars
<1>2. PICK fd \in Shuts(g) :
        ~Mistaken({fd}) /\ Retarget([target EXCEPT ![fd] = RemoveWriter(RemoveReader(@))])
  BY DEF Shutdown, Defined
<1>3. fd \in Fd
  BY DEF Sensible
<1>4. Without({fd}, {fd}) = [target EXCEPT ![fd] = RemoveWriter(RemoveReader(@))]
  BY <1>3 DEF Inner, TypeOK, Without
<1>5. {fd} \in SUBSET Fd /\ ~Mistaken({fd} \cup {fd})
  BY <1>2, <1>3 DEF Mistaken
<1>6. /\ call[g] \notin MethodCall /\ call[g] \notin SelectCall
      /\ place' = [place EXCEPT ![g] = "run"] /\ call' = [call EXCEPT ![g] = None]
  BY <1>1, CallShape DEF Inner, TypeOK
<1>7. Retarget(Without({fd}, {fd}))
  BY <1>2, <1>4
<1>8. Without({fd}, {fd}) \in [Fd -> Target] /\ Reselects(g, None, Without({fd}, {fd}))
  BY <1>1, <1>5, <1>6, Fewer
<1> QED
  BY <1>1, <1>6, <1>7, <1>8, Reselected
-----------------------------------------------------------------------------
(* A descriptor's callback runs, which puts the greenlet that is in        *)
(* select() into the loop's queue, or the descriptor has an error.         *)
LEMMA CallBackStep ==
  ASSUME Sensible, Inner, NEW fd \in Fd, CallBack(fd), Defined'
  PROVE  Inner'
<1> USE DEF Inner
<1>1. /\ active = Loop /\ pc = "batch" /\ target[fd].events # {} /\ target[fd].who = Nobody
      /\ UNCHANGED <<bucket, now, base_time, clock, pc, state, active, place, call>>
  BY DEF CallBack, InBatch, InLoop, socketVars
<1>2. Phases' /\ ~InBucket /\ ~InBucket'
  BY <1>1 DEF InBucket, Phases
<1>3. target[fd].on /\ target[fd] \in Target
  BY <1>1, OffShape DEF Owned, TypeOK
<1>4. CASE Head(batch).events = {"ERR"}
  <2>1. Del(fd) /\ ioactivecnt' = ioactivecnt - 1 /\ queued' = queued
    BY <1>4 DEF CallBack
  <2>2. /\ target' = [target EXCEPT ![fd] = Off]
        /\ timeout_idx' = [timeout_idx EXCEPT ![fd] = 0]
        /\ vec' = vec \ {<<fd, timeout_idx[fd]>>}
    <3>1. {<<fd, s>> : s \in {0} \ {0}} = {}
      OBVIOUS
    <3> QED
      BY <2>1, <3>1 DEF Del, SetTimeout
  <2>3. /\ target'[fd] = Off /\ \A f \in Fd : f # fd => target'[f] = target[f]
        /\ target' \in [Fd -> Target]
    BY <2>2, OffShape DEF TypeOK
  <2>4. TypeOK'
    BY <1>1, <2>1, <2>2, <2>3 DEF TypeOK
  <2>5. Placed'
    BY <1>1, <2>1 DEF Placed
  <2>6. Expiry'
    <3>1. timeout_idx'[fd] = 0 /\ \A f \in Fd : f # fd => timeout_idx'[f] = timeout_idx[f]
      BY <2>2 DEF TypeOK
    <3>2. \A f \in Fd : ~target'[f].on => timeout_idx'[f] = 0
      BY <2>3, <3>1 DEF Expiry
    <3>3. ASSUME NEW b \in vec' PROVE b[2] # 0 /\ timeout_idx'[b[1]] = b[2]
      <4>1. /\ b = <<b[1], b[2]>> /\ b[1] \in Fd /\ b # <<fd, timeout_idx[fd]>>
            /\ b[2] # 0 /\ timeout_idx[b[1]] = b[2]
        BY <1>2, <2>2 DEF Expiry, TypeOK
      <4> QED
        BY <3>1, <4>1
    <3> QED
      BY <1>2, <3>2, <3>3 DEF Expiry
  <2>7. Counted'
    <3>1. On' = On \ {fd} /\ fd \in On
      BY <1>3, <2>3, OffShape DEF On
    <3>2. Cardinality(On') = Cardinality(On) - 1 /\ Cardinality(On) \in Nat
      BY <3>1, CountLess DEF Sensible
    <3> QED
      BY <2>1, <3>2 DEF Counted
  <2>8. ASSUME NEW f \in Fd PROVE Owned(f)'
    <3>1. CASE f = fd
      BY <2>3, <3>1, OffShape DEF Owned
    <3>2. CASE f # fd
      BY <1>1, <2>3, <3>2 DEF Owned, Selecting
    <3> QED
      BY <3>1, <3>2
  <2>9. ASSUME NEW h \in Greenlet PROVE Waiting(h)'
    <3>1. CASE place[h] = "wait"
      <4>1. call[h] \in MethodCall /\ target[call[h].fd].who = h
        BY <3>1 DEF Waiting, Placed
      <4>2. call[h].fd \in Fd /\ call[h].fd # fd
        BY <1>1, <4>1, CallShape, SocketsAssumption
      <4> QED
        BY <1>1, <2>3, <3>1, <4>2 DEF Waiting
    <3> QED
      BY <1>1, <3>1 DEF Waiting
  <2> QED
    BY <1>2, <2>4, <2>5, <2>6, <2>7, <2>8, <2>9
<1>5. CASE Head(batch).events # {"ERR"}
  <2>1. PICK g \in {target[fd].read, target[fd].write} :
          g # Nobody /\ queued' = queued \cup {g}
    BY <1>5 DEF CallBack, Defined
  <2>2. UNCHANGED <<target, timeout_idx, vec, ioactivecnt>>
    BY <1>5 DEF CallBack
  <2>3. g \in Greenlet /\ place[g] = "event" /\ g # Main
    <3>1. g \in Greenlet /\ Selecting(g)
      BY <1>3, <2>1 DEF Target, Owned
    <3> QED
      BY <1>1, <3>1, SocketsAssumption DEF Selecting, Placed
  <2>4. TypeOK' /\ Placed'
    BY <1>1, <2>1, <2>2, <2>3 DEF TypeOK, Placed
  <2>5. Expiry' /\ Counted'
    BY <1>1, <2>2 DEF Expiry, Counted, On, InBucket
  <2>6. \A f \in Fd : Owned(f)'
    BY <1>1, <2>2 DEF Owned, Selecting
  <2>7. \A h \in Greenlet : Waiting(h)'
    BY <1>1, <2>2 DEF Waiting
  <2> QED
    BY <1>2, <2>4, <2>5, <2>6, <2>7
<1> QED
  BY <1>4, <1>5

(* A bucket of the timeout wheel is taken ...                              *)
LEMMA BucketStep == ASSUME Inner, Bucket PROVE Inner'
<1> USE DEF Inner
<1>1. /\ active = Loop /\ pc = "timeouts"
      /\ UNCHANGED <<target, timeout_idx, vec, ioactivecnt, now, base_time, clock, state,
                     queued, active, place, call>>
  BY DEF Bucket, InLoop, picoevVars, loopVars, greenletVars, socketVars
<1>2. ~InBucket /\ \A b \in vec : b[1] \in Fd /\ timeout_idx[b[1]] = b[2]
  BY <1>1 DEF InBucket, Expiry, TypeOK
<1>3. pc' # "throw" /\ bucket' \subseteq Fd /\ (InBucket' => \A fd \in bucket' : timeout_idx[fd] = base_time)
  <2>1. CASE base_time < now
    BY <1>2, <2>1 DEF Bucket
  <2>2. CASE ~(base_time < now)
    BY <2>2 DEF Bucket, InBucket, TypeOK
  <2> QED
    BY <2>1, <2>2
<1>4. TypeOK' /\ Placed' /\ Phases' /\ Counted'
  BY <1>1, <1>3 DEF TypeOK, Placed, Phases, Counted, On
<1>5. Expiry'
  BY <1>1, <1>2, <1>3 DEF Expiry, InBucket
<1>6. \A f \in Fd : Owned(f)'
  BY <1>1 DEF Owned, Selecting
<1>7. \A h \in Greenlet : Waiting(h)'
  BY <1>1 DEF Waiting
<1> QED
  BY <1>4, <1>5, <1>6, <1>7

(* ... its descriptors are called back ...                                 *)
LEMMA TimeOutStep == ASSUME Inner, NEW fd \in Fd, TimeOut(fd), Defined' PROVE Inner'
<1> USE DEF Inner
<1>1. /\ active = Loop /\ pc = "bucket" /\ fd \in bucket
      /\ bucket' = bucket \ {fd} /\ timeout_idx' = [timeout_idx EXCEPT ![fd] = 0]
      /\ UNCHANGED <<target, vec, ioactivecnt, now, base_time, clock,
                     queued, active, place, call>>
  BY DEF TimeOut, InLoop, greenletVars, socketVars
<1>2. (pc' = "throw" /\ state' = "STOP") \/ (pc' = pc /\ state' = state)
  BY DEF TimeOut
<1>3. InBucket /\ InBucket' /\ Phases'
  BY <1>1, <1>2 DEF InBucket, Phases
<1>4. TypeOK' /\ Placed' /\ Counted'
  BY <1>1 DEF TypeOK, Placed, Counted, On
<1>5. Expiry'
  <2>1. timeout_idx[fd] \in {0, base_time}
    BY <1>1, <1>3 DEF Expiry
  <2>2. timeout_idx'[fd] = 0 /\ \A f \in Fd : f # fd => timeout_idx'[f] = timeout_idx[f]
    BY <1>1 DEF TypeOK
  <2>3. \A b \in vec : b[1] \in Fd
    BY DEF TypeOK
  <2>4. ASSUME NEW b \in vec PROVE b[2] # 0 /\ (timeout_idx'[b[1]] = b[2] \/ b[2] = base_time)
    BY <1>1, <2>1, <2>2, <2>3 DEF Expiry
  <2>5. \A f \in bucket' : f \in Fd /\ timeout_idx'[f] \in {0, base_time}
    BY <1>1, <1>3, <2>2 DEF Expiry, TypeOK
  <2>6. \A f \in Fd : ~target[f].on => timeout_idx'[f] = 0
    BY <2>2 DEF Expiry
  <2> QED
    BY <1>1, <1>3, <2>4, <2>5, <2>6 DEF Expiry
<1>6. \A f \in Fd : Owned(f)'
  BY <1>1 DEF Owned, Selecting
<1>7. \A h \in Greenlet : Waiting(h)'
  BY <1>1 DEF Waiting
<1> QED
  BY <1>3, <1>4, <1>5, <1>6, <1>7

(* ... and it is over.                                                     *)
LEMMA BucketDoneStep == ASSUME Inner, BucketDone PROVE Inner'
<1> USE DEF Inner
<1>1. /\ active = Loop /\ pc = "bucket" /\ pc' = "timeouts"
      /\ vec' = {b \in vec : b[2] # base_time} /\ base_time' = base_time + 1
      /\ UNCHANGED <<target, timeout_idx, ioactivecnt, now, clock, bucket, state,
                     queued, active, place, call>>
  BY DEF BucketDone, InLoop, loopVars, greenletVars, socketVars
<1>2. ~InBucket' /\ Phases'
  BY <1>1 DEF InBucket, Phases
<1>3. TypeOK' /\ Placed' /\ Counted'
  BY <1>1 DEF TypeOK, Placed, Counted, On
<1>4. Expiry'
  BY <1>1, <1>2 DEF Expiry
<1>5. \A f \in Fd : Owned(f)'
  BY <1>1 DEF Owned, Selecting
<1>6. \A h \in Greenlet : Waiting(h)'
  BY <1>1 DEF Waiting
<1> QED
  BY <1>2, <1>3, <1>4, <1>5, <1>6

(* The other steps leave what the invariant is about alone.                *)
LEMMA OtherSteps ==
  ASSUME Inner,
         \/ Poll \/ BatchDone \/ Tick \/ Break \/ UNCHANGED vars
         \/ \E fd \in Fd : Unwatch(fd)
  PROVE  Inner'
<1> USE DEF Inner
<1>1. /\ (pc' = pc \/ (pc' \notin {"bucket", "throw"} /\ ~InBucket))
      /\ now' \in Nat /\ clock' \in Nat
      /\ UNCHANGED <<target, timeout_idx, vec, base_time, bucket, ioactivecnt, state,
                     queued, active, place, call>>
  <2>1. now \in Nat /\ clock \in Nat
    BY DEF TypeOK
  <2>2. CASE Poll
    BY <2>1, <2>2 DEF Poll, InLoop, InBucket, loopVars, greenletVars, socketVars
  <2>3. CASE BatchDone
    BY <2>1, <2>3 DEF BatchDone, InLoop, InBucket, loopVars, greenletVars, socketVars
  <2>4. CASE Tick \/ Break
    BY <2>1, <2>4 DEF Tick, Break, picoevVars, pollVars, loopVars, greenletVars
  <2>5. CASE UNCHANGED vars
    BY <2>1, <2>5 DEF vars, picoevVars, pollVars, loopVars, greenletVars, socketVars
  <2>6. ASSUME NEW fd \in Fd, Unwatch(fd) PROVE <1>1!1 /\ <1>1!2 /\ <1>1!3
    BY <2>1, <2>6 DEF Unwatch, loopVars, greenletVars, socketVars
  <2> QED
    BY <2>2, <2>3, <2>4, <2>5, <2>6
<1>2. TypeOK' /\ Placed' /\ Counted'
  BY <1>1 DEF TypeOK, Placed, Counted, On
<1>3. Phases' /\ Expiry'
  BY <1>1 DEF Phases, Expiry, InBucket
<1>4. \A f \in Fd : Owned(f)'
  BY <1>1 DEF Owned, Selecting
<1>5. \A h \in Greenlet : Waiting(h)'
  BY <1>1 DEF Waiting
<1> QED
  BY <1>2, <1>3, <1>4, <1>5

LEMMA NextIInv == ASSUME Sensible, IInv, [Next]_vars PROVE IInv'
<1> SUFFICES ASSUME Defined' PROVE Inner'
  BY DEF IInv
<1>1. Inner
  BY Monotone DEF IInv
<1>2. CASE LoopStep
  <2>1. CASE Check
    BY <1>1, <2>1, CheckStep
  <2>2. CASE Throw
    BY <1>1, <2>2, ThrowStep
  <2>3. CASE Bucket
    BY <1>1, <2>3, BucketStep
  <2>4. CASE BucketDone
    BY <1>1, <2>4, BucketDoneStep
  <2>5. CASE Poll \/ BatchDone
    BY <1>1, <2>5, OtherSteps
  <2>6. ASSUME NEW g \in Greenlet, Fire(g) PROVE Inner'
    BY <1>1, <2>6, FireStep
  <2>7. ASSUME NEW fd \in Fd, Unwatch(fd) PROVE Inner'
    BY <1>1, <2>7, OtherSteps
  <2>8. ASSUME NEW fd \in Fd, Wake(fd) PROVE Inner'
    BY <1>1, <2>8, WakeStep
  <2>9. ASSUME NEW fd \in Fd, CallBack(fd) PROVE Inner'
    BY <1>1, <2>9, CallBackStep
  <2>10. ASSUME NEW fd \in Fd, TimeOut(fd) PROVE Inner'
    BY <1>1, <2>10, TimeOutStep
  <2> QED
    BY <1>2, <2>1, <2>2, <2>3, <2>4, <2>5, <2>6, <2>7, <2>8, <2>9, <2>10 DEF LoopStep
<1>3. CASE GreenletStep
  <2>1. CASE Run
    BY <1>1, <2>1, RunStep
  <2>2. ASSUME NEW g \in Greenlet, Begin(g) \/ Read(g) \/ Write(g) PROVE Inner'
    BY <1>1, <2>2, BeginReadWriteStep
  <2>3. ASSUME NEW g \in Greenlet, Trampoline(g) PROVE Inner'
    BY <1>1, <2>3, TrampolineStep
  <2>4. ASSUME NEW g \in Greenlet, RunFirst(g) PROVE Inner'
    BY <1>1, <2>4, RunFirstStep
  <2>5. ASSUME NEW g \in Greenlet, Select(g) PROVE Inner'
    BY <1>1, <2>5, SelectStep
  <2>6. ASSUME NEW g \in Greenlet, Close(g) PROVE Inner'
    BY <1>1, <2>6, CloseStep
  <2>7. ASSUME NEW g \in Greenlet, Shutdown(g) PROVE Inner'
    BY <1>1, <2>7, ShutdownStep
  <2>8. ASSUME NEW g \in Greenlet, End(g) PROVE Inner'
    BY <1>1, <2>8, EndStep
  <2> QED
    BY <1>3, <2>1, <2>2, <2>3, <2>4, <2>5, <2>6, <2>7, <2>8 DEF GreenletStep
<1>4. CASE Tick \/ Break \/ UNCHANGED vars
  BY <1>1, <1>4, OtherSteps
<1> QED
  BY <1>2, <1>3, <1>4 DEF Next

LEMMA Inductive == ASSUME Sensible PROVE Spec => []IInv
<1>1. Init => IInv
  BY InitInner DEF IInv
<1>2. IInv /\ [Next]_vars => IInv'
  BY NextIInv
<1> QED
  BY <1>1, <1>2, PTL DEF Spec

(* While nobody waits for a descriptor that is in use, ioactivecnt, which  *)
(* internal_io_trampoline and register_fd_callback count up and down and   *)
(* LoopObject_run looks at, is the number of registered descriptors and    *)
(* one.                                                                    *)
THEOREM DescriptorCountExact == ASSUME Sensible PROVE Spec => []IoCountIsRegistered
<1>1. IInv => IoCountIsRegistered
  BY DEF IInv, Inner, Counted, On, IoCountIsRegistered
<1> QED
  BY <1>1, Inductive, PTL

(* While nobody waits for a descriptor that is in use, who waits in        *)
(* internal_io_trampoline is registered for what it waits for, and a       *)
(* descriptor is in no bucket of the timeout wheel but its own, and the    *)
(* one that is gone through.                                               *)
THEOREM RegisteredWhileWaiting == ASSUME Sensible PROVE Spec => []WaitersRegistered
<1>1. IInv => WaitersRegistered
  BY DEF IInv, Inner, Waiting, Expiry, WaitersRegistered
<1> QED
  BY <1>1, Inductive, PTL
=============================================================================
