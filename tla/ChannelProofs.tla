---------------------------- MODULE ChannelProofs ----------------------------
(***************************************************************************)
(* Messages are received in order and none is lost, and an unbuffered      *)
(* channel is a rendezvous, for any number of greenlets and messages.  And *)
(* the circular buffer of src/queue.c that the messages are kept in, for   *)
(* every set of items, every initial size and any number of doublings.     *)
(***************************************************************************)
EXTENDS Channel, RingQueue, SequenceTheorems, TLAPS

(* The greenlet that runs is the one that has control, and the notifier    *)
(* remembers a sender exactly while a receiver runs.                       *)
Control ==
  /\ \A g \in Greenlet : doing[g] = "run" <=> active = g
  /\ notifying = "caller" <=> caller # Nobody

(* The buffer holds the messages sent last, and what was received was sent *)
(* before them.                                                            *)
Numbered ==
  /\ Len(pendings) <= sent
  /\ \A i \in DOMAIN pendings : Pending(i) = (sent - Len(pendings)) + i
  /\ \A i \in DOMAIN received : received[i] <= sent - Len(pendings)

Increasing == \A i, j \in DOMAIN received : i < j => received[i] < received[j]

(* The sender that is about to be resumed has no other message pending.    *)
OneEach ==
  bufsize <= 1 /\ disturbed = {} =>
    \A i \in DOMAIN pendings : pendings[i].caller # caller

Data == Numbered /\ Increasing /\ NothingLost
Parked == WaitersReceive /\ Rendezvous /\ OneEach

IInv == ChannelTypeOK /\ Control /\ Data /\ Parked
-----------------------------------------------------------------------------
LEMMA AppendFacts ==
  ASSUME NEW S, NEW s \in Seq(S), NEW x \in S
  PROVE  /\ Append(s, x) \in Seq(S)
         /\ Len(Append(s, x)) = Len(s) + 1
         /\ DOMAIN s = 1 .. Len(s) /\ DOMAIN Append(s, x) = 1 .. Len(s) + 1
         /\ \A i \in 1 .. Len(s) : Append(s, x)[i] = s[i]
         /\ Append(s, x)[Len(s) + 1] = x
         /\ Len(s) \in Nat
  BY SMT

LEMMA TailFacts ==
  ASSUME NEW S, NEW s \in Seq(S), s # <<>>
  PROVE  /\ Tail(s) \in Seq(S) /\ Len(s) \in Nat \ {0}
         /\ Len(Tail(s)) = Len(s) - 1
         /\ DOMAIN s = 1 .. Len(s) /\ DOMAIN Tail(s) = 1 .. Len(s) - 1
         /\ \A i \in 1 .. Len(s) - 1 : Tail(s)[i] = s[i + 1]
         /\ Head(s) = s[1] /\ s[1] \in S
  BY SMT

(* A message that is queued is numbered next.                              *)
LEMMA EnqueueData ==
  ASSUME IInv, NEW g \in Greenlet, Enqueue(g)
  PROVE  /\ pendings' \in Seq(Message) /\ sent' \in 0 .. MaxSent
         /\ Len(pendings') = Len(pendings) + 1
         /\ DOMAIN pendings' = 1 .. Len(pendings) + 1
         /\ \A i \in 1 .. Len(pendings) : pendings'[i] = pendings[i]
         /\ pendings'[Len(pendings) + 1].caller = g
         /\ Data'
<1> DEFINE m == [id |-> sent + 1, caller |-> g]
<1>1. /\ sent \in Nat /\ sent < MaxSent /\ MaxSent \in Nat /\ sent' = sent + 1
      /\ pendings \in Seq(Message) /\ pendings' = Append(pendings, m)
      /\ received \in Seq(1 .. MaxSent) /\ UNCHANGED <<received, disturbed>>
  BY MaxSentAssumption DEF Enqueue, IInv, ChannelTypeOK
<1>2. m \in Message
  BY <1>1 DEF Message
<1> HIDE DEF m
<1>3. /\ pendings' \in Seq(Message) /\ Len(pendings') = Len(pendings) + 1
      /\ DOMAIN pendings = 1 .. Len(pendings)
      /\ DOMAIN pendings' = 1 .. Len(pendings) + 1
      /\ \A i \in 1 .. Len(pendings) : pendings'[i] = pendings[i]
      /\ pendings'[Len(pendings) + 1] = m /\ Len(pendings) \in Nat
  BY <1>1, <1>2, AppendFacts
<1>4. m.id = sent + 1 /\ m.caller = g
  BY DEF m
<1>5. Numbered'
  BY <1>1, <1>3, <1>4 DEF IInv, Data, Numbered, Pending
<1>6. Increasing'
  BY <1>1 DEF IInv, Data, Increasing
<1>7. Len(received) \in Nat
  BY <1>1, LenProperties
<1>8. NothingLost'
  BY <1>1, <1>3, <1>4, <1>5, <1>7 DEF IInv, Data, NothingLost, Pending, Numbered
<1> QED
  BY <1>1, <1>3, <1>4, <1>5, <1>6, <1>8 DEF Data

(* The oldest message leaves the buffer, and is received by a greenlet in  *)
(* recv().                                                                 *)
LEMMA HandOverData ==
  ASSUME IInv, NEW g \in Greenlet, pendings # <<>>, g \in receivers,
         HandOver(g), UNCHANGED <<sent, disturbed>>
  PROVE  /\ pendings' \in Seq(Message) /\ received' \in Seq(1 .. MaxSent)
         /\ Head(pendings) = pendings[1] /\ pendings[1] \in Message
         /\ Len(pendings) \in Nat \ {0} /\ Len(pendings') = Len(pendings) - 1
         /\ DOMAIN pendings = 1 .. Len(pendings)
         /\ DOMAIN pendings' = 1 .. Len(pendings) - 1
         /\ Data'
<1>1. /\ pendings \in Seq(Message) /\ pendings' = Tail(pendings)
      /\ received \in Seq(1 .. MaxSent) /\ sent \in Nat /\ MaxSent \in Nat
      /\ UNCHANGED <<sent, disturbed>>
      /\ received' = IF doing[g] = "recv" THEN Append(received, Head(pendings).id) ELSE received
  BY MaxSentAssumption DEF HandOver, SwitchWith, IInv, ChannelTypeOK
<1>2. /\ pendings' \in Seq(Message) /\ Len(pendings) \in Nat \ {0}
      /\ Len(pendings') = Len(pendings) - 1
      /\ DOMAIN pendings = 1 .. Len(pendings) /\ DOMAIN pendings' = 1 .. Len(pendings) - 1
      /\ \A i \in 1 .. Len(pendings) - 1 : pendings'[i] = pendings[i + 1]
      /\ Head(pendings) = pendings[1] /\ pendings[1] \in Message
  BY <1>1, TailFacts
<1>3. pendings[1].id = (sent - Len(pendings)) + 1 /\ pendings[1].id \in 1 .. MaxSent
  <2>1. 1 \in DOMAIN pendings
    BY <1>2
  <2>2. pendings[1].id = (sent - Len(pendings)) + 1
    BY <2>1 DEF IInv, Data, Numbered, Pending
  <2>3. pendings[1].id \in 1 .. MaxSent
    BY <1>2 DEF Message
  <2> QED
    BY <2>2, <2>3
<1>4. /\ Len(received) \in Nat /\ DOMAIN received = 1 .. Len(received)
      /\ \A i \in 1 .. Len(received) : received[i] \in Nat /\ received[i] <= sent - Len(pendings)
  <2>1. Len(received) \in Nat /\ DOMAIN received = 1 .. Len(received)
    BY <1>1, LenProperties
  <2>2. ASSUME NEW i \in 1 .. Len(received) PROVE received[i] \in 1 .. MaxSent
    BY <1>1, ElementOfSeq
  <2>3. \A i \in DOMAIN received : received[i] <= sent - Len(pendings)
    BY DEF IInv, Data, Numbered
  <2> QED
    BY <2>1, <2>2, <2>3
<1>5. /\ Len(pendings') <= sent
      /\ \A i \in 1 .. Len(pendings) - 1 :
           pendings'[i].id = (sent - Len(pendings')) + i
  <2>1. SUFFICES ASSUME NEW i \in 1 .. Len(pendings) - 1
                 PROVE  pendings'[i].id = (sent - Len(pendings')) + i
    BY <1>1, <1>2 DEF IInv, Data, Numbered
  <2>2. i + 1 \in DOMAIN pendings /\ pendings'[i] = pendings[i + 1]
    BY <1>2
  <2>3. pendings[i + 1].id = (sent - Len(pendings)) + (i + 1)
    BY <2>2 DEF IInv, Data, Numbered, Pending
  <2> QED
    BY <1>1, <1>2, <2>2, <2>3
<1>6. CASE doing[g] = "recv"
  <2>1. /\ received' \in Seq(1 .. MaxSent) /\ Len(received') = Len(received) + 1
        /\ DOMAIN received' = 1 .. Len(received) + 1
        /\ \A i \in 1 .. Len(received) : received'[i] = received[i]
        /\ received'[Len(received) + 1] = pendings[1].id
    BY <1>1, <1>2, <1>3, <1>6, AppendFacts
  <2>2. ASSUME NEW i \in DOMAIN received' PROVE received'[i] <= sent - Len(pendings')
    <3>1. CASE i \in 1 .. Len(received)
      <4>1. received'[i] \in Nat /\ received'[i] <= sent - Len(pendings)
        BY <1>4, <2>1, <3>1
      <4> QED
        BY <1>1, <1>2, <4>1
    <3>2. CASE i = Len(received) + 1
      BY <1>1, <1>2, <1>3, <2>1, <3>2
    <3> QED
      BY <1>4, <2>1, <3>1, <3>2
  <2>3. Numbered'
    BY <1>1, <1>2, <1>5, <2>2 DEF Numbered, Pending
  <2>4. Increasing'
    <3>1. ASSUME NEW i \in 1 .. Len(received) + 1, NEW j \in 1 .. Len(received) + 1, i < j
          PROVE  received'[i] < received'[j]
      <4>1. i \in 1 .. Len(received) /\ received'[i] = received[i] /\ received[i] \in Nat
        BY <1>4, <2>1, <3>1
      <4>2. CASE j \in 1 .. Len(received)
        BY <1>4, <2>1, <3>1, <4>1, <4>2 DEF IInv, Data, Increasing
      <4>3. CASE j = Len(received) + 1
        <5>1. received[i] <= sent - Len(pendings) /\ received'[j] = (sent - Len(pendings)) + 1
          BY <1>3, <1>4, <2>1, <4>1, <4>3
        <5>2. sent - Len(pendings) \in Int
          BY <1>1, <1>2
        <5>3. \A r \in Nat, d \in Int : r <= d => r < d + 1
          OBVIOUS
        <5> QED
          BY <4>1, <5>1, <5>2, <5>3, Zenon
      <4> QED
        BY <1>4, <4>2, <4>3
    <3> QED
      BY <2>1, <3>1 DEF Increasing
  <2>5. ASSUME disturbed = {}
        PROVE  /\ Len(received) + Len(pendings) = sent
               /\ \A i \in 1 .. Len(received) : received[i] = i
    BY <1>4, <2>5 DEF IInv, Data, NothingLost
  <2>6. ASSUME disturbed = {}
        PROVE  /\ Len(received') + Len(pendings') = sent
               /\ \A i \in 1 .. Len(received) + 1 : received'[i] = i
               /\ \A i \in 1 .. Len(pendings) - 1 : pendings'[i].id = Len(received') + i
    <3>1. Len(received') + Len(pendings') = sent
      <4>1. /\ Len(pendings') = Len(pendings) - 1 /\ Len(pendings) \in Nat \ {0}
            /\ Len(received') = Len(received) + 1 /\ Len(received) \in Nat
        BY <1>2, <1>4, <2>1
      <4>2. Len(received) + Len(pendings) = sent
        BY <2>5, <2>6
      <4> QED
        BY <4>1, <4>2
    <3>2. pendings[1].id = Len(received) + 1
      BY <1>1, <1>2, <1>3, <1>4, <2>5, <2>6
    <3>3. \A i \in 1 .. Len(received) + 1 : received'[i] = i
      BY <1>4, <2>1, <2>5, <2>6, <3>2
    <3>4. sent - Len(pendings') = Len(received')
      BY <1>1, <1>2, <1>4, <2>1, <3>1
    <3> QED
      BY <1>5, <3>1, <3>3, <3>4
  <2>7. NothingLost'
    BY <1>1, <1>2, <2>1, <2>6 DEF NothingLost, Pending
  <2> QED
    BY <1>1, <1>2, <2>1, <2>3, <2>4, <2>7 DEF Data
<1>7. CASE doing[g] # "recv"
  <2>1. received' = received
    BY <1>1, <1>7
  <2>2. \A i \in DOMAIN received' : received'[i] <= sent - Len(pendings')
    <3>1. \A n \in Nat : n <= sent - Len(pendings) => n <= sent - Len(pendings')
      BY <1>1, <1>2
    <3> QED
      BY <1>4, <2>1, <3>1
  <2>3. Numbered'
    BY <1>1, <1>2, <1>5, <2>2 DEF Numbered, Pending
  <2>4. Increasing'
    BY <2>1 DEF IInv, Data, Increasing
  <2>5. NothingLost'
    BY <1>1, <1>7 DEF IInv, Parked, WaitersReceive, NothingLost
  <2> QED
    BY <1>1, <1>2, <2>1, <2>3, <2>4, <2>5 DEF Data
<1> QED
  BY <1>6, <1>7

(* What concerns neither the buffer nor what was received.                 *)
LEMMA SameData ==
  ASSUME Data, UNCHANGED <<pendings, sent, received>>, disturbed \subseteq disturbed'
  PROVE  Data'
  BY DEF Data, Numbered, Increasing, NothingLost, Pending
-----------------------------------------------------------------------------
Places == {"run", "send", "recv", "away", "dead"}

(* Switches move the doing of one greenlet and keep Control.               *)
LEMMA ResumeFacts ==
  ASSUME ChannelTypeOK, Control, active = Nobody, NEW g \in Greenlet, Resume(g)
  PROVE  /\ active' \in Greenlet \cup {Nobody} /\ doing' \in [Greenlet -> Places]
         /\ \A h \in Greenlet : doing'[h] = "run" <=> active' = h
         /\ \A h \in Greenlet : h # g => doing'[h] = doing[h]
         /\ \/ doing[g] = "dead" /\ doing' = doing
            \/ doing[g] # "dead" /\ doing'[g] = "run"
  BY NobodyAssumption DEF ChannelTypeOK, Control, Resume, Places

LEMMA YieldFacts ==
  ASSUME ChannelTypeOK, Control, NEW g \in Greenlet, active = g, NEW where \in Places \ {"run"},
         Yield(g, where)
  PROVE  /\ active' = Nobody /\ doing' \in [Greenlet -> Places]
         /\ \A h \in Greenlet : doing'[h] = "run" <=> active' = h
         /\ \A h \in Greenlet : h # g => doing'[h] = doing[h]
         /\ doing[g] = "run" /\ doing'[g] = where
  BY NobodyAssumption DEF ChannelTypeOK, Control, Yield, Places

LEMMA SendStep ==
  ASSUME IInv, NEW g \in Greenlet, Send(g)
  PROVE  IInv'
<1>1. /\ Len(pendings) < Capacity /\ Enqueue(g) /\ active = g
      /\ handle' \in {"none", "scheduled", "fired"}
      /\ UNCHANGED <<bufsize, receivers, notifying, caller, received, disturbed>>
      /\ doing[g] = "run"
      /\ pendings \in Seq(Message) /\ Len(pendings) \in Nat
      /\ DOMAIN pendings = 1 .. Len(pendings)
  BY LenProperties DEF Send, Enqueue, NotifyToLoop, IInv, ChannelTypeOK, Control
<1>2. /\ pendings' \in Seq(Message) /\ sent' \in 0 .. MaxSent
      /\ Len(pendings') = Len(pendings) + 1
      /\ DOMAIN pendings' = 1 .. Len(pendings) + 1
      /\ \A i \in 1 .. Len(pendings) : pendings'[i] = pendings[i]
      /\ pendings'[Len(pendings) + 1].caller = g
      /\ Data'
  BY <1>1, EnqueueData
<1>3. /\ Capacity \in Nat /\ (bufsize <= 1 => Capacity = 1) /\ Capacity >= bufsize
      /\ bufsize \in Nat
  BY BufSizesAssumption DEF Capacity, IInv, ChannelTypeOK
<1>4. /\ active' \in Greenlet \cup {Nobody} /\ doing' \in [Greenlet -> Places]
      /\ \A h \in Greenlet : doing'[h] = "run" <=> active' = h
      /\ \A h \in Greenlet : h # g => doing'[h] = doing[h]
      /\ doing'[g] \in {"run", "send"}
      /\ bufsize <= 1 => doing'[g] = "send"
  <2>1. CASE Len(pendings') >= bufsize
    <3>1. Yield(g, "send") /\ "send" \in Places \ {"run"}
      BY <2>1 DEF Send, Places
    <3> QED
      BY <1>1, <3>1, YieldFacts DEF IInv
  <2>2. CASE ~(Len(pendings') >= bufsize)
    <3>1. UNCHANGED <<active, doing>>
      BY <2>2 DEF Send
    <3>2. bufsize > 1
      BY <1>1, <1>2, <1>3, <2>2
    <3> QED
      BY <1>1, <1>3, <3>1, <3>2 DEF IInv, ChannelTypeOK, Control, Places
  <2> QED
    BY <2>1, <2>2
<1>5. Len(pendings') <= Capacity
  BY <1>1, <1>2, <1>3
<1>6. ChannelTypeOK'
  BY <1>1, <1>2, <1>4, <1>5 DEF IInv, ChannelTypeOK, Places, Capacity
<1>7. Control'
  BY <1>1, <1>4 DEF IInv, Control
<1>8. WaitersReceive'
  BY <1>1, <1>4 DEF IInv, Parked, WaitersReceive
<1>9. ASSUME bufsize <= 1, disturbed = {}
      PROVE  /\ DOMAIN pendings = {} /\ DOMAIN pendings' = {1} /\ pendings'[1].caller = g
             /\ {h \in Greenlet : doing[h] = "send"} = {caller} \ {Nobody}
             /\ caller # g
  <2>1. Len(pendings) = 0
    BY <1>1, <1>3, <1>9
  <2>2. DOMAIN pendings = {} /\ DOMAIN pendings' = {1} /\ pendings'[1].caller = g
    BY <1>1, <1>2, <2>1
  <2>3. {h \in Greenlet : doing[h] = "send"} = {caller} \ {Nobody}
    BY <1>9, <2>2 DEF IInv, Parked, Rendezvous
  <2> QED
    BY <1>1, <2>2, <2>3, NobodyAssumption
<1>10. Rendezvous'
  <2>1. SUFFICES ASSUME bufsize <= 1, disturbed = {}
                 PROVE  {h \in Greenlet : doing'[h] = "send"} =
                          {pendings'[i].caller : i \in DOMAIN pendings'} \cup ({caller} \ {Nobody})
    BY <1>1 DEF Rendezvous
  <2>2. {h \in Greenlet : doing'[h] = "send"} = {h \in Greenlet : doing[h] = "send"} \cup {g}
    BY <1>4, <2>1
  <2> QED
    BY <1>9, <2>1, <2>2
<1>11. OneEach'
  BY <1>1, <1>9 DEF OneEach
<1> QED
  BY <1>2, <1>6, <1>7, <1>8, <1>10, <1>11 DEF IInv, Parked

(* A greenlet that gives control back otherwise, in recv() or elsewhere.   *)
LEMMA RecvStep ==
  ASSUME IInv, NEW g \in Greenlet, Recv(g)
  PROVE  IInv'
<1>1. /\ active = g /\ receivers' = receivers \cup {g} /\ Yield(g, "recv")
      /\ UNCHANGED <<bufsize, pendings, handle, notifying, caller, sent, received, disturbed>>
      /\ "recv" \in Places \ {"run"}
  BY DEF Recv, Places, historyVars
<1>2. /\ active' = Nobody /\ doing' \in [Greenlet -> Places]
      /\ \A h \in Greenlet : doing'[h] = "run" <=> active' = h
      /\ \A h \in Greenlet : h # g => doing'[h] = doing[h]
      /\ doing[g] = "run" /\ doing'[g] = "recv"
  BY <1>1, YieldFacts DEF IInv
<1>3. ChannelTypeOK'
  BY <1>1, <1>2 DEF IInv, ChannelTypeOK, Places, Capacity
<1>4. Control'
  BY <1>1, <1>2 DEF IInv, Control
<1>5. Data'
  BY <1>1, SameData DEF IInv
<1>6. WaitersReceive'
  BY <1>1, <1>2 DEF IInv, Parked, WaitersReceive
<1>7. {h \in Greenlet : doing'[h] = "send"} = {h \in Greenlet : doing[h] = "send"}
  BY <1>2
<1>8. Rendezvous' /\ OneEach'
  BY <1>1, <1>7 DEF IInv, Parked, Rendezvous, OneEach
<1> QED
  BY <1>3, <1>4, <1>5, <1>6, <1>8 DEF IInv, Parked

LEMMA LeaveStep ==
  ASSUME IInv, NEW g \in Greenlet, Leave(g)
  PROVE  IInv'
<1>1. /\ active = g
      /\ UNCHANGED <<bufsize, pendings, receivers, handle, notifying, caller, sent, received, disturbed>>
  BY DEF Leave, bufVars, historyVars
<1>2. PICK where \in {"away", "dead"} : Yield(g, where)
  BY DEF Leave
<1>3. where \in Places \ {"run"}
  BY DEF Places
<1>4. /\ active' = Nobody /\ doing' \in [Greenlet -> Places]
      /\ \A h \in Greenlet : doing'[h] = "run" <=> active' = h
      /\ \A h \in Greenlet : h # g => doing'[h] = doing[h]
      /\ doing[g] = "run" /\ doing'[g] = where
  BY <1>1, <1>2, <1>3, YieldFacts DEF IInv
<1>5. ChannelTypeOK'
  BY <1>1, <1>4 DEF IInv, ChannelTypeOK, Places, Capacity
<1>6. Control'
  BY <1>1, <1>4 DEF IInv, Control
<1>7. Data'
  BY <1>1, SameData DEF IInv
<1>8. /\ {h \in Greenlet : doing'[h] = "send"} = {h \in Greenlet : doing[h] = "send"}
      /\ {h \in Greenlet : doing'[h] = "recv"} = {h \in Greenlet : doing[h] = "recv"}
  BY <1>4
<1>9. Parked'
  BY <1>1, <1>8 DEF IInv, Parked, WaitersReceive, Rendezvous, OneEach
<1> QED
  BY <1>5, <1>6, <1>7, <1>9 DEF IInv

LEMMA NotifyStartStep ==
  ASSUME IInv, NotifyStart
  PROVE  IInv'
<1>1. /\ notifying = "no" /\ notifying' \in {"no", "next"} /\ handle' = "fired"
      /\ UNCHANGED <<bufsize, pendings, receivers, caller, active, doing, sent, received, disturbed>>
  BY DEF NotifyStart, historyVars
<1>2. ChannelTypeOK' /\ Control'
  BY <1>1 DEF IInv, ChannelTypeOK, Control, Capacity
<1>3. Data'
  BY <1>1, SameData DEF IInv
<1>4. Parked'
  BY <1>1 DEF IInv, Parked, WaitersReceive, Rendezvous, OneEach
<1> QED
  BY <1>2, <1>3, <1>4 DEF IInv

(* The notifier moves a waiter out of recv() and its message's sender from *)
(* the buffer to caller.                                                   *)
LEMMA HandOverStep ==
  ASSUME IInv, active = Nobody, notifying = "next", pendings # <<>>,
         NEW g \in receivers, HandOver(g), caller' = Head(pendings).caller,
         notifying' = "caller", UNCHANGED <<bufsize, handle, sent, disturbed>>
  PROVE  IInv'
<1>1. /\ g \in Greenlet /\ receivers \subseteq Greenlet /\ receivers' = receivers \ {g}
      /\ Resume(g) /\ caller = Nobody
  BY DEF IInv, ChannelTypeOK, Control, HandOver, SwitchWith
<1>2. /\ pendings' \in Seq(Message) /\ received' \in Seq(1 .. MaxSent)
      /\ Head(pendings) = pendings[1] /\ pendings[1] \in Message
      /\ Len(pendings) \in Nat \ {0} /\ Len(pendings') = Len(pendings) - 1
      /\ DOMAIN pendings = 1 .. Len(pendings)
      /\ DOMAIN pendings' = 1 .. Len(pendings) - 1
      /\ Data'
  BY <1>1, HandOverData
<1>3. /\ active' \in Greenlet \cup {Nobody} /\ doing' \in [Greenlet -> Places]
      /\ \A h \in Greenlet : doing'[h] = "run" <=> active' = h
      /\ \A h \in Greenlet : h # g => doing'[h] = doing[h]
      /\ \/ doing[g] = "dead" /\ doing' = doing
         \/ doing[g] # "dead" /\ doing'[g] = "run"
  BY <1>1, ResumeFacts DEF IInv
<1>4. caller' \in Greenlet /\ caller' = pendings[1].caller
  BY <1>2 DEF Message
<1>5. Capacity \in Nat /\ (bufsize <= 1 => Capacity = 1) /\ Len(pendings) <= Capacity
  BY BufSizesAssumption DEF Capacity, IInv, ChannelTypeOK
<1>6. Len(pendings') <= Capacity
  BY <1>2, <1>5
<1>7. ChannelTypeOK'
  BY <1>1, <1>2, <1>3, <1>4, <1>6 DEF IInv, ChannelTypeOK, Places, Capacity
<1>8. Control'
  BY <1>3, <1>4, NobodyAssumption DEF Control
<1>9. ASSUME disturbed = {}
      PROVE  doing[g] = "recv" /\ doing'[g] = "run"
  BY <1>1, <1>3, <1>9 DEF IInv, Parked, WaitersReceive
<1>10. WaitersReceive'
  BY <1>1, <1>3, <1>9 DEF IInv, Parked, WaitersReceive
<1>11. ASSUME bufsize <= 1, disturbed = {}
       PROVE  DOMAIN pendings = {1} /\ DOMAIN pendings' = {}
  BY <1>2, <1>5, <1>11
<1>12. Rendezvous'
  <2>1. SUFFICES ASSUME bufsize <= 1, disturbed = {}
                 PROVE  {h \in Greenlet : doing'[h] = "send"} =
                          {pendings'[i].caller : i \in DOMAIN pendings'} \cup ({caller'} \ {Nobody})
    BY DEF Rendezvous
  <2>2. {h \in Greenlet : doing'[h] = "send"} = {h \in Greenlet : doing[h] = "send"}
    BY <1>3, <1>9, <2>1
  <2>3. {h \in Greenlet : doing[h] = "send"} = {pendings[1].caller}
    BY <1>1, <1>11, <2>1 DEF IInv, Parked, Rendezvous
  <2> QED
    BY <1>4, <1>11, <2>1, <2>2, <2>3, NobodyAssumption
<1>13. OneEach'
  BY <1>11 DEF OneEach
<1> QED
  BY <1>2, <1>7, <1>8, <1>10, <1>12, <1>13 DEF IInv, Parked

LEMMA NotifyNextStep ==
  ASSUME IInv, NotifyNext
  PROVE  IInv'
<1>1. active = Nobody /\ notifying = "next" /\ UNCHANGED <<bufsize, handle, sent, disturbed>>
  BY DEF NotifyNext
<1>2. CASE /\ receivers # {} /\ pendings # <<>>
           /\ \E g \in receivers : HandOver(g)
           /\ caller' = Head(pendings).caller
           /\ notifying' = "caller"
  BY <1>1, <1>2, HandOverStep
<1>3. CASE /\ notifying' = "no"
           /\ UNCHANGED <<pendings, receivers, caller, active, doing, received>>
  <2>1. ChannelTypeOK' /\ Control'
    BY <1>1, <1>3 DEF IInv, ChannelTypeOK, Control, Capacity
  <2>2. Data'
    BY <1>1, <1>3, SameData DEF IInv
  <2>3. Parked'
    BY <1>1, <1>3 DEF IInv, Parked, WaitersReceive, Rendezvous, OneEach
  <2> QED
    BY <2>1, <2>2, <2>3 DEF IInv
<1> QED
  BY <1>2, <1>3 DEF NotifyNext

LEMMA NotifyCallerStep ==
  ASSUME IInv, NotifyCaller
  PROVE  IInv'
<1>1. /\ active = Nobody /\ notifying = "caller" /\ notifying' = "next"
      /\ Resume(caller) /\ caller' = Nobody
      /\ disturbed' = IF doing[caller] = "recv" THEN disturbed \cup {caller} ELSE disturbed
      /\ UNCHANGED <<bufsize, pendings, receivers, handle, sent, received>>
  BY DEF NotifyCaller, bufVars
<1>2. caller \in Greenlet
  BY <1>1 DEF IInv, ChannelTypeOK, Control
<1>3. /\ active' \in Greenlet \cup {Nobody} /\ doing' \in [Greenlet -> Places]
      /\ \A h \in Greenlet : doing'[h] = "run" <=> active' = h
      /\ \A h \in Greenlet : h # caller => doing'[h] = doing[h]
      /\ \/ doing[caller] = "dead" /\ doing' = doing
         \/ doing[caller] # "dead" /\ doing'[caller] = "run"
  BY <1>1, <1>2, ResumeFacts DEF IInv
<1>4. ChannelTypeOK'
  BY <1>1, <1>2, <1>3 DEF IInv, ChannelTypeOK, Places, Capacity
<1>5. Control'
  BY <1>1, <1>3 DEF Control
<1>6. Data'
  BY <1>1, SameData DEF IInv
<1>7. ASSUME disturbed' = {}
      PROVE  disturbed = {} /\ doing[caller] # "recv"
  BY <1>1, <1>7
<1>8. WaitersReceive'
  <2>1. SUFFICES ASSUME disturbed' = {}
                 PROVE  receivers = {h \in Greenlet : doing'[h] = "recv"}
    BY <1>1 DEF WaitersReceive
  <2>2. {h \in Greenlet : doing'[h] = "recv"} = {h \in Greenlet : doing[h] = "recv"}
    BY <1>2, <1>3, <1>7, <2>1
  <2> QED
    BY <1>7, <2>1, <2>2 DEF IInv, Parked, WaitersReceive
<1>9. Rendezvous'
  <2>1. SUFFICES ASSUME bufsize <= 1, disturbed' = {}
                 PROVE  {h \in Greenlet : doing'[h] = "send"} =
                          {pendings[i].caller : i \in DOMAIN pendings}
    BY <1>1 DEF Rendezvous
  <2>2. /\ {h \in Greenlet : doing[h] = "send"} =
              {pendings[i].caller : i \in DOMAIN pendings} \cup {caller}
        /\ caller \notin {pendings[i].caller : i \in DOMAIN pendings}
    BY <1>2, <1>7, <2>1, NobodyAssumption DEF IInv, Parked, Rendezvous, OneEach
  <2>3. doing'[caller] = "run"
    BY <1>2, <1>3, <2>2
  <2>4. {h \in Greenlet : doing'[h] = "send"} = {h \in Greenlet : doing[h] = "send"} \ {caller}
    BY <1>2, <1>3, <2>3
  <2> QED
    BY <2>2, <2>4
<1>10. OneEach'
  <2>1. SUFFICES ASSUME NEW i \in DOMAIN pendings
                 PROVE  pendings[i].caller # Nobody
    BY <1>1 DEF OneEach
  <2>2. pendings[i] \in Message
    BY <2>1, ElementOfSeq, LenProperties DEF IInv, ChannelTypeOK
  <2> QED
    BY <2>2, NobodyAssumption DEF Message
<1> QED
  BY <1>4, <1>5, <1>6, <1>8, <1>9, <1>10 DEF IInv, Parked

LEMMA WakeStep ==
  ASSUME IInv, NEW g \in Greenlet, Wake(g)
  PROVE  IInv'
<1>1. /\ active = Nobody /\ doing[g] = "away" /\ Resume(g)
      /\ UNCHANGED <<bufsize, pendings, receivers, handle, notifying, caller, sent, received, disturbed>>
  BY DEF Wake, bufVars, historyVars
<1>2. /\ active' \in Greenlet \cup {Nobody} /\ doing' \in [Greenlet -> Places]
      /\ \A h \in Greenlet : doing'[h] = "run" <=> active' = h
      /\ \A h \in Greenlet : h # g => doing'[h] = doing[h]
      /\ doing'[g] = "run"
  BY <1>1, ResumeFacts DEF IInv
<1>3. ChannelTypeOK'
  BY <1>1, <1>2 DEF IInv, ChannelTypeOK, Places, Capacity
<1>4. Control'
  BY <1>1, <1>2 DEF IInv, Control
<1>5. Data'
  BY <1>1, SameData DEF IInv
<1>6. /\ {h \in Greenlet : doing'[h] = "send"} = {h \in Greenlet : doing[h] = "send"}
      /\ {h \in Greenlet : doing'[h] = "recv"} = {h \in Greenlet : doing[h] = "recv"}
  BY <1>1, <1>2
<1>7. Parked'
  BY <1>1, <1>6 DEF IInv, Parked, WaitersReceive, Rendezvous, OneEach
<1> QED
  BY <1>3, <1>4, <1>5, <1>7 DEF IInv

LEMMA DisturbStep ==
  ASSUME IInv, NEW g \in Greenlet, Disturb(g)
  PROVE  IInv'
<1>1. /\ active = Nobody /\ Resume(g) /\ disturbed' = disturbed \cup {g}
      /\ UNCHANGED <<bufsize, pendings, receivers, handle, notifying, caller, sent, received>>
  BY DEF Disturb, bufVars
<1>2. /\ active' \in Greenlet \cup {Nobody} /\ doing' \in [Greenlet -> Places]
      /\ \A h \in Greenlet : doing'[h] = "run" <=> active' = h
  BY <1>1, ResumeFacts DEF IInv
<1>3. ChannelTypeOK' /\ Control'
  BY <1>1, <1>2 DEF IInv, ChannelTypeOK, Control, Places, Capacity
<1>4. Data'
  BY <1>1, SameData DEF IInv
<1>5. disturbed' # {}
  BY <1>1
<1>6. Parked'
  BY <1>5 DEF Parked, WaitersReceive, Rendezvous, OneEach
<1> QED
  BY <1>3, <1>4, <1>6 DEF IInv
-----------------------------------------------------------------------------
LEMMA InitHolds ==
  ASSUME InitChannel
  PROVE  IInv
<1>1. ChannelTypeOK
  BY MaxSentAssumption, BufSizesAssumption, NobodyAssumption DEF InitChannel, ChannelTypeOK, Capacity
<1>2. Control
  BY NobodyAssumption DEF InitChannel, Control
<1>3. Data
  BY DEF InitChannel, Data, Numbered, Increasing, NothingLost
<1>4. Parked
  BY DEF InitChannel, Parked, WaitersReceive, Rendezvous, OneEach
<1> QED
  BY <1>1, <1>2, <1>3, <1>4 DEF IInv

LEMMA StepHolds ==
  ASSUME IInv, [ChannelStep]_channelVars
  PROVE  IInv'
<1>1. CASE GreenletStep
  BY <1>1, SendStep, RecvStep, LeaveStep DEF GreenletStep
<1>2. CASE NotifyStart \/ NotifyNext \/ NotifyCaller
  BY <1>2, NotifyStartStep, NotifyNextStep, NotifyCallerStep
<1>3. CASE \E g \in Greenlet : Wake(g) \/ Disturb(g)
  BY <1>3, WakeStep, DisturbStep
<1>4. CASE UNCHANGED channelVars
  <2>1. UNCHANGED <<bufsize, pendings, receivers, handle, notifying, caller, active, doing,
                    sent, received, disturbed>>
    BY <1>4 DEF channelVars, bufVars, historyVars
  <2>2. ChannelTypeOK' /\ Control'
    BY <2>1 DEF IInv, ChannelTypeOK, Control, Capacity
  <2>3. Data'
    BY <2>1, SameData DEF IInv
  <2>4. Parked'
    BY <2>1 DEF IInv, Parked, WaitersReceive, Rendezvous, OneEach
  <2> QED
    BY <2>2, <2>3, <2>4 DEF IInv
<1> QED
  BY <1>1, <1>2, <1>3, <1>4 DEF ChannelStep

LEMMA Inductive == ChannelSpec => []IInv
<1>1. InitChannel => IInv
  BY InitHolds
<1>2. IInv /\ [ChannelStep]_channelVars => IInv'
  BY StepHolds
<1> QED
  BY <1>1, <1>2, PTL DEF ChannelSpec

(* No message overtakes another or is received twice: ChannelObject_send,  *)
(* _recv and _notify together keep the order, disturbed or not.            *)
THEOREM MessagesInOrder == ChannelSpec => [](ChannelTypeOK /\ InOrder)
<1>1. IInv => ChannelTypeOK /\ InOrder
  <2>1. SUFFICES ASSUME IInv, NEW i \in DOMAIN received, NEW j \in DOMAIN pendings
                 PROVE  received[i] < Pending(j)
    BY DEF IInv, Data, Increasing, InOrder
  <2>2. /\ pendings \in Seq(Message) /\ received \in Seq(1 .. MaxSent)
        /\ sent \in Nat /\ MaxSent \in Nat
    BY <2>1, MaxSentAssumption DEF IInv, ChannelTypeOK
  <2>3. /\ received[i] \in Nat /\ Len(pendings) \in Nat /\ j \in Nat /\ j >= 1
    BY <2>2, ElementOfSeq, LenProperties
  <2>4. received[i] <= sent - Len(pendings) /\ Pending(j) = (sent - Len(pendings)) + j
    BY <2>1 DEF IInv, Data, Numbered
  <2> QED
    BY <2>2, <2>3, <2>4
<1> QED
  BY <1>1, Inductive, PTL

(* Every message sent is received or still in the buffer, as long as no    *)
(* exception and no foreign switch ends a send() or a recv().              *)
THEOREM MessagesKept == ChannelSpec => []NothingLost
<1>1. IInv => NothingLost
  BY DEF IInv, Data
<1> QED
  BY <1>1, Inductive, PTL

(* send() on an unbuffered channel returns only after its message was      *)
(* handed to a receiver, under the same condition.                         *)
THEOREM UnbufferedRendezvous == ChannelSpec => [](Rendezvous /\ WaitersReceive)
<1>1. IInv => Rendezvous /\ WaitersReceive
  BY DEF IInv, Parked
<1> QED
  BY <1>1, Inductive, PTL
-----------------------------------------------------------------------------
(* The queue's inductive invariant.  Aligned makes reindex_queue, which    *)
(* only looks at first and last, copy exactly the items that size counts.  *)
QueueInv == QueueTypeOK /\ Aligned /\ NoGarbage

(* Every index the queue computes is below twice max, where % is one       *)
(* conditional subtraction.                                                *)
LEMMA Mod ==
  ASSUME NEW m \in Nat \ {0}, NEW i \in Nat, i < 2 * m
  PROVE  i % m = IF i < m THEN i ELSE i - m
<1>1. CASE i < m
  BY <1>1, SMT
<1>2. CASE i >= m
  <2>1. i - m \in 0 .. m - 1
    BY <1>2, SMT
  <2>2. (i - m) % m = i - m
    BY <2>1, SMT
  <2>3. i % m = (i - m) % m
    BY <1>2, SMT
  <2> QED
    BY <1>2, <2>2, <2>3
<1> QED
  BY <1>1, <1>2

Wrap(i) == IF i < max THEN i ELSE i - max

LEMMA Slot ==
  ASSUME QueueTypeOK, NEW i \in 0 .. max
  PROVE  (first + i) % max = Wrap(first + i)
BY SMT DEF QueueTypeOK, Wrap

(* Where last is: size - 1 items after first, or just before it when the   *)
(* queue is empty.                                                         *)
LEMMA LastSlot ==
  ASSUME QueueTypeOK, Aligned
  PROVE  last = IF size = 0 THEN (IF first = 0 THEN max - 1 ELSE first - 1)
                ELSE Wrap(first + size - 1)
<1>1. (last + 1) % max = Wrap(last + 1)
  BY SMT DEF QueueTypeOK, Wrap
<1>2. (first + size) % max = Wrap(first + size)
  BY Slot DEF QueueTypeOK
<1> QED
  BY <1>1, <1>2, SMT DEF QueueTypeOK, Aligned, Wrap

(* A full queue is copied whole.                                           *)
LEMMA CopiedAll ==
  ASSUME QueueTypeOK, Aligned, size >= max
  PROVE  Copied = max
<1>1. (last + max - first) % max = Wrap(last + max - first)
  BY SMT DEF QueueTypeOK, Wrap
<1> QED
  BY <1>1, LastSlot, SMT DEF QueueTypeOK, Copied, Wrap

(* What the two ways of pushing leave at each position of the queue, and   *)
(* what they keep of the old contents.                                     *)
LEMMA StoreKeeps ==
  ASSUME QueueInv, NEW x \in Item, Store(x)
  PROVE  /\ size' \in 1 .. max /\ size' = size + 1 /\ max' = max /\ first' = first
         /\ last' = Wrap(first + size)
         /\ slots' = [slots EXCEPT ![Wrap(first + size)] = x]
<1>1. (first + size) % max = Wrap(first + size)
  BY Slot DEF QueueInv, QueueTypeOK
<1>2. (last + 1) % max = Wrap(first + size)
  BY <1>1 DEF QueueInv, Aligned
<1>3. /\ max' = max /\ first' = first /\ size' = size + 1 /\ size < max
      /\ last' = (last + 1) % max
      /\ slots' = [slots EXCEPT ![(last + 1) % max] = x]
  BY DEF Store
<1>4. size' \in 1 .. max
  BY SMT DEF QueueInv, QueueTypeOK, Store
<1>5. /\ last' = Wrap(first + size)
      /\ slots' = [slots EXCEPT ![Wrap(first + size)] = x]
  BY <1>2, <1>3, Zenon
<1> QED
  BY <1>3, <1>4, <1>5, Zenon

LEMMA GrowKeeps ==
  ASSUME QueueInv, NEW x \in Item, PushGrow(x)
  PROVE  /\ size = max /\ size' = max + 1 /\ max' = 2 * max /\ first' = 0
         /\ last' = max
         /\ slots' \in [0 .. 2 * max - 1 -> Item \cup {Garbage}]
         /\ slots'[max] = x
         /\ \A i \in 0 .. max - 1 : slots'[i] = slots[(first + i) % max]
<1>1. Copied = max /\ size = max
  BY CopiedAll, SMT DEF QueueInv, QueueTypeOK, PushGrow
<1>2. max % (2 * max) = max
  BY SMT DEF QueueInv, QueueTypeOK
<1>3. \A i \in 0 .. max - 1 : (first + i) % max \in 0 .. max - 1
  BY SMT DEF QueueInv, QueueTypeOK
<1>4. Reindexed = [i \in 0 .. 2 * max - 1 |->
                     IF i < max THEN slots[(first + i) % max] ELSE Garbage]
  BY <1>1, SMT DEF QueueInv, QueueTypeOK, Reindexed
<1>5. Reindexed \in [0 .. 2 * max - 1 -> Item \cup {Garbage}]
  BY <1>3, <1>4, SMT DEF QueueInv, QueueTypeOK
<1>6. slots' = [Reindexed EXCEPT ![max] = x] /\ last' = max
  BY <1>1, <1>2 DEF PushGrow
<1>7. max \in Nat \ {0}
  BY DEF QueueInv, QueueTypeOK
<1>8. \A i \in 0 .. max - 1 : Reindexed[i] = slots[(first + i) % max]
  BY <1>4, <1>7, SMT
<1> QED
  BY <1>1, <1>5, <1>6, <1>7, <1>8, SMT DEF PushGrow

LEMMA ShiftKeeps ==
  ASSUME QueueInv, Shift, size > 0
  PROVE  /\ size' \in 0 .. max - 1 /\ size' = size - 1 /\ max' = max
         /\ last' = last /\ slots' = slots
         /\ first' = Wrap(first + 1) /\ ret' = slots[first]
<1>1. (first + 1) % max = Wrap(first + 1)
  BY SMT DEF QueueInv, QueueTypeOK, Wrap
<1>2. /\ first' = (first + 1) % max /\ size' = size - 1 /\ max' = max
      /\ last' = last /\ slots' = slots /\ ret' = slots[first]
  BY DEF Shift, QueueInv, QueueTypeOK
<1>3. size' \in 0 .. max - 1
  BY <1>2, SMT DEF QueueInv, QueueTypeOK
<1> QED
  BY <1>1, <1>2, <1>3, Zenon

(* NoGarbage without the remainder.                                        *)
LEMMA Queued ==
  ASSUME QueueInv, NEW i \in 0 .. size - 1
  PROVE  /\ Wrap(first + i) \in 0 .. max - 1
         /\ (first + i) % max = Wrap(first + i)
         /\ slots[Wrap(first + i)] \in Item
<1>1. i \in 0 .. max /\ Wrap(first + i) \in 0 .. max - 1
  BY SMT DEF QueueInv, QueueTypeOK, Wrap
<1>2. (first + i) % max = Wrap(first + i)
  BY <1>1, Slot DEF QueueInv
<1> QED
  BY <1>1, <1>2, Zenon DEF QueueInv, NoGarbage

(* The arithmetic of Aligned and of NoGarbage, to establish them again.    *)
LEMMA AlignedAgain ==
  ASSUME NEW m \in Nat \ {0}, NEW f \in 0 .. m - 1, NEW s \in 0 .. m,
         NEW l \in 0 .. m - 1,
         l = IF s = 0 THEN (IF f = 0 THEN m - 1 ELSE f - 1)
             ELSE IF f + s - 1 < m THEN f + s - 1 ELSE f + s - 1 - m
  PROVE  (l + 1) % m = (f + s) % m
<1>1. (l + 1) % m = IF l + 1 < m THEN l + 1 ELSE l + 1 - m
  BY SMT
<1>2. (f + s) % m = IF f + s < m THEN f + s ELSE f + s - m
  BY SMT
<1> QED
  BY <1>1, <1>2, SMT

LEMMA SlotAgain ==
  ASSUME NEW m \in Nat \ {0}, NEW f \in 0 .. m - 1, NEW i \in 0 .. m
  PROVE  (f + i) % m = IF f + i < m THEN f + i ELSE f + i - m
BY SMT

LEMMA InitOK == InitQueue => QueueInv
<1> SUFFICES ASSUME InitQueue PROVE QueueInv
  OBVIOUS
<1>1. QueueTypeOK
  BY InitMaxAssumption, SMT DEF InitQueue, QueueTypeOK
<1>2. (last + 1) % max = (first + size) % max
  BY InitMaxAssumption, SMT DEF InitQueue
<1> QED
  BY <1>1, <1>2, SMT DEF InitQueue, QueueInv, Aligned, NoGarbage

LEMMA StoreOK ==
  ASSUME QueueInv, NEW x \in Item, Store(x)
  PROVE  QueueInv'
<1> DEFINE j == Wrap(first + size)
<1>0. max \in Nat \ {0} /\ first \in 0 .. max - 1
  BY DEF QueueInv, QueueTypeOK
<1>1. /\ size' \in 1 .. max /\ size' = size + 1 /\ max' = max /\ first' = first
      /\ last' = j /\ slots' = [slots EXCEPT ![j] = x] /\ ret' = Ok
  BY StoreKeeps DEF Store
<1>2. j \in 0 .. max - 1
  BY <1>1, SMT DEF QueueInv, QueueTypeOK, Wrap
<1>3. QueueTypeOK'
  BY <1>1, <1>2, SMT DEF QueueInv, QueueTypeOK
<1>4. ASSUME NEW i \in 0 .. size' - 1
      PROVE  slots'[(first' + i) % max'] \in Item
  <2>1. CASE i = size
    <3>1. (first + i) % max = j
      BY <2>1, Slot DEF QueueInv, QueueTypeOK
    <3> QED
      BY <1>1, <1>2, <3>1, Zenon DEF QueueInv, QueueTypeOK
  <2>2. CASE i # size
    <3>1. i \in 0 .. size - 1
      BY <1>1, <2>2, SMT DEF QueueInv, QueueTypeOK
    <3>2. Wrap(first + i) # j
      BY <1>1, <3>1, SMT DEF QueueInv, QueueTypeOK, Wrap
    <3> QED
      BY <1>1, <1>2, <3>1, <3>2, Queued, Zenon DEF QueueInv, QueueTypeOK
  <2> QED
    BY <2>1, <2>2
<1>5. Aligned'
  <2>1. j = IF first + size' - 1 < max THEN first + size' - 1
            ELSE first + size' - 1 - max
    BY <1>1, SMT DEF QueueInv, QueueTypeOK, Wrap
  <2>2. size' \in 0 .. max /\ size' # 0
    BY <1>1, SMT
  <2> HIDE DEF j
  <2>3. (j + 1) % max = (first + size') % max
    BY <1>0, <1>2, <2>1, <2>2, AlignedAgain, Zenon
  <2> QED
    BY <1>1, <2>3, Zenon DEF Aligned
<1> QED
  BY <1>3, <1>4, <1>5, Zenon DEF QueueInv, NoGarbage

LEMMA GrowOK ==
  ASSUME QueueInv, NEW x \in Item, PushGrow(x)
  PROVE  QueueInv'
<1>0. max \in Nat \ {0} /\ size \in 0 .. max
  BY DEF QueueInv, QueueTypeOK
<1>1. /\ size = max /\ size' = max + 1 /\ max' = 2 * max /\ first' = 0
      /\ last' = max /\ ret' = Ok
      /\ slots' \in [0 .. 2 * max - 1 -> Item \cup {Garbage}]
      /\ slots'[max] = x
      /\ \A i \in 0 .. max - 1 : slots'[i] = slots[(first + i) % max]
  BY GrowKeeps DEF PushGrow
<1>2. QueueTypeOK'
  <2>1. size' \in 0 .. max' /\ max' \in Nat \ {0} /\ first' \in 0 .. max' - 1
        /\ last' \in 0 .. max' - 1
    BY <1>0, <1>1, SMT
  <2>2. 2 * max - 1 = max' - 1
    BY <1>1, Zenon
  <2> QED
    BY <1>0, <1>1, <2>1, <2>2 DEF QueueTypeOK
<1>3. ASSUME NEW i \in 0 .. size' - 1
      PROVE  slots'[(first' + i) % max'] \in Item
  <2>1. (0 + i) % (2 * max) = i
    BY <1>0, <1>1, SMT
  <2>2. CASE i = max
    BY <1>1, <2>1, <2>2, Zenon
  <2>3. CASE i # max
    <3>1. i \in 0 .. size - 1 /\ i \in 0 .. max - 1
      BY <1>0, <1>1, <2>3, SMT
    <3>2. slots[(first + i) % max] \in Item
      BY <3>1, Zenon DEF QueueInv, NoGarbage
    <3> QED
      BY <1>1, <2>1, <3>1, <3>2, Zenon
  <2> QED
    BY <2>2, <2>3
<1>4. Aligned'
  <2>1. (max + 1) % (2 * max) = (0 + (max + 1)) % (2 * max)
    BY <1>0, SMT
  <2> QED
    BY <1>1, <2>1, Zenon DEF Aligned
<1> QED
  BY <1>2, <1>3, <1>4, Zenon DEF QueueInv, NoGarbage

LEMMA ShiftOK ==
  ASSUME QueueInv, Shift, size > 0
  PROVE  QueueInv'
<1>0. /\ max \in Nat \ {0} /\ first \in 0 .. max - 1 /\ size \in 1 .. max
      /\ last \in 0 .. max - 1
  BY SMT DEF QueueInv, QueueTypeOK
<1> DEFINE f == Wrap(first + 1)
<1>1. /\ size' \in 0 .. max - 1 /\ size' = size - 1 /\ max' = max
      /\ last' = last /\ slots' = slots
      /\ first' = f /\ ret' = slots[first]
  BY ShiftKeeps, Zenon
<1>2. f \in 0 .. max - 1
  BY <1>0, SMT DEF Wrap
<1>3. QueueTypeOK'
  <2>1. slots[first] \in Item \cup {Garbage}
    BY <1>0 DEF QueueInv, QueueTypeOK
  <2> QED
    BY <1>0, <1>1, <1>2, <2>1, SMT DEF QueueInv, QueueTypeOK
<1>4. ASSUME NEW i \in 0 .. size' - 1
      PROVE  slots'[(first' + i) % max'] \in Item
  <2>1. i + 1 \in 0 .. size - 1 /\ i \in 0 .. max
    BY <1>0, <1>1, SMT
  <2>2. (f + i) % max = IF f + i < max THEN f + i ELSE f + i - max
    BY <1>0, <1>2, <2>1, SlotAgain, Zenon
  <2>3. Wrap(first + (i + 1)) = IF f + i < max THEN f + i ELSE f + i - max
    BY <1>0, <2>1, SMT DEF Wrap
  <2>4. slots[Wrap(first + (i + 1))] \in Item
    BY <2>1, Queued, Zenon
  <2> QED
    BY <1>1, <2>2, <2>3, <2>4, Zenon
<1>5. Aligned'
  <2>1. last = IF size' = 0 THEN (IF f = 0 THEN max - 1 ELSE f - 1)
               ELSE IF f + size' - 1 < max THEN f + size' - 1
                    ELSE f + size' - 1 - max
    <3>1. last = Wrap(first + size - 1)
      BY <1>0, LastSlot, SMT DEF QueueInv
    <3> QED
      BY <1>0, <1>1, <3>1, SMT DEF Wrap
  <2>2. size' \in 0 .. max
    BY <1>0, <1>1, SMT
  <2> HIDE DEF f
  <2>3. (last + 1) % max = (f + size') % max
    BY <1>0, <1>2, <2>1, <2>2, AlignedAgain, Zenon
  <2> QED
    BY <1>1, <2>3, Zenon DEF Aligned
<1> QED
  BY <1>3, <1>4, <1>5, Zenon DEF QueueInv, NoGarbage

LEMMA NextOK == QueueInv /\ [QueueStep]_ringVars => QueueInv'
<1> SUFFICES ASSUME QueueInv, [QueueStep]_ringVars PROVE QueueInv'
  OBVIOUS
<1>1. CASE Shift
  <2>1. CASE size > 0
    BY <1>1, <2>1, ShiftOK
  <2>2. CASE ~(size > 0)
    <3>1. ret' = Nothing /\ UNCHANGED <<slots, first, last, size, max>>
      BY <1>1, <2>2 DEF Shift
    <3> QED
      BY <3>1 DEF QueueInv, QueueTypeOK, Aligned, NoGarbage
  <2> QED
    BY <2>1, <2>2
<1>2. ASSUME NEW x \in Item, Push(x) PROVE QueueInv'
  BY <1>2, StoreOK, GrowOK DEF Push
<1>3. ASSUME NEW x \in Item, PushNoExt(x) PROVE QueueInv'
  <2>1. CASE Store(x)
    BY <2>1, StoreOK
  <2>2. CASE ret' = Full /\ UNCHANGED <<slots, first, last, size, max>>
    BY <2>2 DEF QueueInv, QueueTypeOK, Aligned, NoGarbage
  <2> QED
    BY <1>3, <2>1, <2>2 DEF PushNoExt
<1>4. CASE UNCHANGED ringVars
  BY <1>4 DEF ringVars, QueueInv, QueueTypeOK, Aligned, NoGarbage
<1> QED
  BY <1>1, <1>2, <1>3, <1>4 DEF QueueStep

(* The indices stay in range, the three fields agree on the queued stretch *)
(* and the stretch never holds memory queue_push did not write, whatever   *)
(* the capacity and however often realloc_queue doubled it.                *)
THEOREM QueueInvariant == QueueSpec => [](QueueTypeOK /\ Aligned /\ NoGarbage)
<1>1. QueueInv => QueueTypeOK /\ Aligned /\ NoGarbage
  BY DEF QueueInv
<1> QED
  BY <1>1, InitOK, NextOK, PTL DEF QueueSpec
-----------------------------------------------------------------------------
(* Refinement: the queued stretch, read off in order, is the sequence of   *)
(* Fifo.tla.                                                               *)
LEMMA FunctionIsSeq ==
  ASSUME NEW S, NEW n \in Nat, NEW f \in [1 .. n -> S]
  PROVE  f \in Seq(S) /\ Len(f) = n
BY SMT

LEMMA IsAppend ==
  ASSUME NEW S, NEW s \in Seq(S), NEW t \in Seq(S), NEW x \in S,
         Len(t) = Len(s) + 1, t[Len(t)] = x,
         \A i \in 1 .. Len(s) : t[i] = s[i]
  PROVE  t = Append(s, x)
<1> DEFINE u == Append(s, x)
<1>1. /\ u \in Seq(S) /\ Len(u) = Len(s) + 1 /\ u[Len(s) + 1] = x
      /\ \A i \in 1 .. Len(s) : u[i] = s[i]
  BY AppendProperties
<1>2. Len(s) \in Nat
  BY LenProperties
<1> HIDE DEF u
<1>3. \A i \in 1 .. Len(t) : t[i] = u[i]
  BY <1>1, <1>2, SMT
<1> QED
  BY <1>1, <1>3, SeqEqual DEF u

LEMMA IsTail ==
  ASSUME NEW S, NEW s \in Seq(S), NEW t \in Seq(S), s # <<>>,
         Len(t) = Len(s) - 1,
         \A i \in 1 .. Len(t) : t[i] = s[i + 1]
  PROVE  t = Tail(s)
<1>1. /\ Tail(s) \in Seq(S) /\ Len(Tail(s)) = Len(s) - 1
      /\ \A i \in 1 .. Len(Tail(s)) : Tail(s)[i] = s[i + 1]
  BY HeadTailProperties
<1> QED
  BY <1>1, SeqEqual

(* What a state says of the sequence it stands for.                        *)
Reads ==
  /\ Contents \in Seq(Item) /\ Len(Contents) = size /\ size \in Nat
  /\ \A i \in 1 .. size : Contents[i] = slots[Wrap(first + (i - 1))]

LEMMA ContentsRead == QueueInv => Reads
<1> SUFFICES ASSUME QueueInv PROVE Reads
  OBVIOUS
<1>1. size \in Nat /\ max \in Nat \ {0} /\ first \in 0 .. max - 1 /\ size \in 0 .. max
  BY DEF QueueInv, QueueTypeOK
<1>2. ASSUME NEW i \in 1 .. size
      PROVE  /\ (first + i - 1) % max = Wrap(first + (i - 1))
             /\ slots[Wrap(first + (i - 1))] \in Item
  <2>1. i - 1 \in 0 .. size - 1 /\ first + i - 1 = first + (i - 1)
    BY <1>1, SMT
  <2> QED
    BY <2>1, Queued, Zenon
<1>3. Contents \in [1 .. size -> Item]
  BY <1>2, Zenon DEF Contents
<1>4. \A i \in 1 .. size : Contents[i] = slots[Wrap(first + (i - 1))]
  BY <1>2, Zenon DEF Contents
<1> QED
  BY <1>1, <1>3, <1>4, FunctionIsSeq DEF Reads

LEMMA ContentsReadNext == QueueInv' => Reads'
BY ContentsRead, PTL

LEMMA StoreRefines ==
  ASSUME QueueInv, NEW x \in Item, Store(x)
  PROVE  Abstract!Push(x) /\ Abstract!PushNoExt(x)
<1>0. /\ max \in Nat \ {0} /\ first \in 0 .. max - 1 /\ size \in 0 .. max
      /\ size \in Nat /\ Reads /\ Reads'
  BY StoreOK, ContentsRead, ContentsReadNext DEF QueueInv, QueueTypeOK
<1> DEFINE j == Wrap(first + size)
<1>1. /\ size' \in 1 .. max /\ size' = size + 1 /\ max' = max /\ first' = first
      /\ last' = j /\ slots' = [slots EXCEPT ![j] = x] /\ ret' = Ok
  BY StoreKeeps DEF Store
<1>2. j \in 0 .. max - 1 /\ j \in DOMAIN slots
  BY <1>0, <1>1, SMT DEF QueueInv, QueueTypeOK, Wrap
<1>3. ASSUME NEW i \in 1 .. size' PROVE Contents'[i] = slots'[Wrap(first + (i - 1))]
  BY <1>0, <1>1 DEF Reads, Wrap
<1>4. Contents'[size + 1] = x
  BY <1>0, <1>1, <1>2, <1>3, SMT
<1>5. ASSUME NEW i \in 1 .. size PROVE Contents'[i] = Contents[i]
  <2>1. /\ i \in 1 .. size' /\ Wrap(first + (i - 1)) # j
        /\ Wrap(first + (i - 1)) \in 0 .. max - 1
    BY <1>0, <1>1, SMT DEF Wrap
  <2>2. slots'[Wrap(first + (i - 1))] = slots[Wrap(first + (i - 1))]
    BY <1>1, <2>1, Zenon DEF QueueInv, QueueTypeOK
  <2> QED
    BY <1>0, <1>3, <2>1, <2>2, Zenon DEF Reads
<1>6. Contents' = Append(Contents, x)
  BY <1>0, <1>1, <1>4, <1>5, IsAppend DEF Reads
<1>7. Len(Contents) # max /\ Len(Contents) < max
  BY <1>0, <1>1, SMT DEF Reads
<1> QED
  BY <1>1, <1>6, <1>7 DEF Abstract!Push, Abstract!PushNoExt

LEMMA GrowRefines ==
  ASSUME QueueInv, NEW x \in Item, PushGrow(x)
  PROVE  Abstract!Push(x)
<1>0. /\ max \in Nat \ {0} /\ first \in 0 .. max - 1 /\ size \in 0 .. max
      /\ size \in Nat /\ Reads /\ Reads'
  BY GrowOK, ContentsRead, ContentsReadNext DEF QueueInv, QueueTypeOK
<1>1. /\ size = max /\ size' = max + 1 /\ max' = 2 * max /\ first' = 0
      /\ slots'[max] = x /\ ret' = Ok
      /\ \A i \in 0 .. max - 1 : slots'[i] = slots[(first + i) % max]
  BY GrowKeeps DEF PushGrow
<1>2. ASSUME NEW i \in 1 .. size' PROVE Contents'[i] = slots'[i - 1]
  <2>0. max' = 2 * max /\ first' = 0 /\ size' = max + 1
    BY <1>1
  <2>1. Contents'[i] = slots'[IF first' + (i - 1) < max' THEN first' + (i - 1)
                              ELSE first' + (i - 1) - max']
    BY <1>0, <2>0, SMT DEF Reads, Wrap
  <2>2. (IF first' + (i - 1) < max' THEN first' + (i - 1)
         ELSE first' + (i - 1) - max') = i - 1
    BY <1>0, <1>1, SMT
  <2> QED
    BY <2>1, <2>2
<1>3. Contents'[size + 1] = x
  <2>1. size + 1 \in 1 .. size' /\ (size + 1) - 1 = max
    BY <1>0, <1>1, SMT
  <2> QED
    BY <1>1, <1>2, <2>1, Zenon
<1>4. ASSUME NEW i \in 1 .. size PROVE Contents'[i] = Contents[i]
  <2>1. /\ i \in 1 .. size' /\ i - 1 \in 0 .. max - 1
        /\ i - 1 \in 0 .. size - 1
    BY <1>0, <1>1, SMT
  <2>2. (first + (i - 1)) % max = Wrap(first + (i - 1))
    BY <2>1, Queued, Zenon
  <2> QED
    BY <1>0, <1>1, <1>2, <2>1, <2>2, Zenon DEF Reads
<1>5. Contents' = Append(Contents, x)
  <2>1. /\ Contents \in Seq(Item) /\ Contents' \in Seq(Item)
        /\ Len(Contents) = size /\ Len(Contents') = size + 1
    BY <1>0, <1>1 DEF Reads
  <2> QED
    BY <1>3, <1>4, <2>1, IsAppend
<1>6. Len(Contents) = max
  BY <1>0, <1>1 DEF Reads
<1> QED
  BY <1>1, <1>5, <1>6 DEF Abstract!Push

LEMMA ShiftRefines ==
  ASSUME QueueInv, Shift
  PROVE  Abstract!Shift
<1>0. /\ max \in Nat \ {0} /\ first \in 0 .. max - 1 /\ size \in 0 .. max
      /\ size \in Nat /\ Reads
  BY ContentsRead DEF QueueInv, QueueTypeOK
<1>1. CASE size = 0
  <2>1. Contents = <<>>
    BY <1>0, <1>1, EmptySeq DEF Reads
  <2>2. UNCHANGED <<slots, first, last, size, max>> /\ ret' = Nothing
    BY <1>0, <1>1, SMT DEF Shift
  <2>3. Contents' = Contents
    BY <2>2 DEF Contents
  <2> QED
    BY <2>1, <2>2, <2>3 DEF Abstract!Shift
<1>2. CASE size # 0
  <2>0. size > 0 /\ Reads'
    BY <1>0, <1>2, ShiftOK, ContentsReadNext, SMT
  <2> DEFINE f == Wrap(first + 1)
  <2>1. /\ size' \in 0 .. max - 1 /\ size' = size - 1 /\ max' = max
        /\ slots' = slots /\ first' = f /\ ret' = slots[first]
    BY <2>0, ShiftKeeps, Zenon
  <2>2. Contents # <<>>
    BY <1>0, <1>2, EmptySeq DEF Reads
  <2>3. Head(Contents) = slots[first]
    <3>1. 1 \in 1 .. size /\ Wrap(first + (1 - 1)) = first
      BY <1>0, <1>2, SMT DEF Wrap
    <3>2. Contents[1] = slots[first]
      BY <1>0, <3>1, Zenon DEF Reads
    <3> QED
      BY <1>0, <2>2, <3>2, SMT DEF Reads
  <2>4. ASSUME NEW i \in 1 .. size' PROVE Contents'[i] = Contents[i + 1]
    <3>0. Contents'[i] = slots'[IF first' + (i - 1) < max'
                                THEN first' + (i - 1)
                                ELSE first' + (i - 1) - max']
      BY <1>0, <2>0, <2>1, SMT DEF Reads, Wrap
    <3>1. Contents'[i] = slots[IF f + (i - 1) < max THEN f + (i - 1)
                               ELSE f + (i - 1) - max]
      BY <2>1, <3>0, Zenon
    <3>2. /\ i + 1 \in 1 .. size
          /\ Wrap(first + ((i + 1) - 1))
               = IF f + (i - 1) < max THEN f + (i - 1) ELSE f + (i - 1) - max
      BY <1>0, <2>1, SMT DEF Wrap
    <3> QED
      BY <1>0, <3>1, <3>2, Zenon DEF Reads
  <2>5. Contents' = Tail(Contents)
    BY <1>0, <2>0, <2>1, <2>2, <2>4, IsTail DEF Reads
  <2> QED
    BY <2>1, <2>2, <2>3, <2>5 DEF Abstract!Shift
<1> QED
  BY <1>1, <1>2

(* Whatever callers do, the circular buffer behaves as the FIFO queue of   *)
(* Fifo.tla: no item is lost, repeated or overtaken, across every wrap of  *)
(* the indices and every doubling.                                         *)
THEOREM QueueImplementsFifo == QueueSpec => ImplementsFifo
<1>1. InitQueue => Abstract!Init
  <2> SUFFICES ASSUME InitQueue PROVE Abstract!Init
    OBVIOUS
  <2>1. Reads /\ size = 0
    BY InitOK, ContentsRead DEF InitQueue
  <2>2. Contents = <<>>
    BY <2>1, EmptySeq DEF Reads
  <2> QED
    BY <2>2 DEF InitQueue, Abstract!Init
<1>2. QueueInv /\ [QueueStep]_ringVars => [Abstract!Next]_Abstract!vars
  <2> SUFFICES ASSUME QueueInv, [QueueStep]_ringVars PROVE [Abstract!Next]_Abstract!vars
    OBVIOUS
  <2>1. CASE Shift
    BY <2>1, ShiftRefines DEF Abstract!Next
  <2>2. ASSUME NEW x \in Item, Push(x) PROVE Abstract!Next
    BY <2>2, StoreRefines, GrowRefines DEF Push, Abstract!Next
  <2>3. ASSUME NEW x \in Item, PushNoExt(x) PROVE Abstract!Next
    <3>1. CASE Store(x)
      BY <3>1, StoreRefines DEF Abstract!Next
    <3>2. CASE /\ size >= max /\ ret' = Full
               /\ UNCHANGED <<slots, first, last, size, max>>
      <4>1. Contents' = Contents
        BY <3>2 DEF Contents
      <4>2. Len(Contents) = max
        BY <3>2, ContentsRead, SMT DEF Reads, QueueInv, QueueTypeOK
      <4> QED
        BY <3>2, <4>1, <4>2 DEF Abstract!Next, Abstract!PushNoExt
    <3> QED
      BY <2>3, <3>1, <3>2 DEF PushNoExt
  <2>4. CASE UNCHANGED ringVars
    BY <2>4 DEF ringVars, Contents, Abstract!vars
  <2> QED
    BY <2>1, <2>2, <2>3, <2>4 DEF QueueStep
<1>3. QueueSpec => []QueueInv
  BY InitOK, NextOK, PTL DEF QueueSpec
<1> QED
  BY <1>1, <1>2, <1>3, PTL DEF QueueSpec, ImplementsFifo, Abstract!Spec
=============================================================================
