------------------------------- MODULE Channel -------------------------------
(***************************************************************************)
(* ChannelObject of src/channel.c: greenlets send to and receive from a    *)
(* channel, and a notifier that runs in the event loop hands the messages  *)
(* over.                                                                   *)
(*                                                                         *)
(* Greenlets run one at a time and keep control until they switch.  The    *)
(* notifier runs in the loop's greenlet and is itself suspended while the  *)
(* greenlets it switches to run: the loop does nothing else meanwhile.     *)
(* The buffer is a queue_t that is only used without doubling (Fifo.tla).  *)
(***************************************************************************)
EXTENDS Greenlets, Naturals, Sequences

CONSTANTS
  BufSizes,  \* the arguments make_channel is called with
  MaxSent    \* bound: messages that are sent

ASSUME BufSizesAssumption == BufSizes \subseteq Nat
ASSUME MaxSentAssumption == MaxSent \in Nat

VARIABLES
  bufsize,    \* self->bufsize
  pendings,   \* the buffer; messages are numbered as they are sent
  receivers,  \* self->waiters
  handle,     \* the notifier's handle: "none", "scheduled" or "fired"
  notifying,  \* where the notifier is: "no", at "next", or at "caller"
  caller,     \* msg->caller of the message it has just handed over
  active,     \* the greenlet that runs, Nobody while the loop does
  doing,      \* of each greenlet: "run", "send", "recv", "away" or "dead"
  sent,       \* history: the number of messages sent
  received,   \* history: the messages that recv() returned
  disturbed   \* history: the greenlets that were resumed in send() or recv()
              \* by something else than the message they wait for

bufVars == <<bufsize, pendings, receivers, handle>>
historyVars == <<sent, received, disturbed>>
channelVars == <<bufVars, notifying, caller, active, doing, historyVars>>

(* init_queue is never given a size of zero.                               *)
Capacity == IF bufsize = 0 THEN 1 ELSE bufsize

InitChannel ==
  /\ bufsize \in BufSizes
  /\ pendings = <<>>
  /\ receivers = {}
  /\ handle = "none"
  /\ notifying = "no"
  /\ caller = Nobody
  /\ active = Nobody
  /\ doing = [g \in Greenlet |-> "away"]
  /\ sent = 0
  /\ received = <<>>
  /\ disturbed = {}
-----------------------------------------------------------------------------
(* greenlet_switch to a greenlet; one that has ended returns at once.      *)
Resume(g) ==
  IF doing[g] = "dead" THEN UNCHANGED <<active, doing>>
  ELSE active' = g /\ doing' = [doing EXCEPT ![g] = "run"]

(* The running greenlet switches to the loop.                              *)
Yield(g, where) ==
  /\ active' = Nobody
  /\ doing' = [doing EXCEPT ![g] = where]

(* Mutant: the notifier is scheduled only for a receiver that waits.       *)
NotifyIfWaited ==
  handle' = IF handle = "none" /\ receivers # {} THEN "scheduled" ELSE handle

(* notify_to_loop.  Nothing ever sets called of a HandleObject, so that    *)
(* the handle is made once.                                                *)
NotifyToLoop == handle' = IF handle = "none" THEN "scheduled" ELSE handle

(* The first half of send(): the message is queued and announced.          *)
Enqueue(g) ==
  /\ active = g
  /\ sent < MaxSent
  /\ pendings' = Append(pendings, [id |-> sent + 1, caller |-> g])
  /\ sent' = sent + 1
  /\ NotifyToLoop
  /\ UNCHANGED <<bufsize, receivers, notifying, caller, received, disturbed>>

(* send().  With a full buffer it raises ValueError and changes nothing.   *)
Send(g) ==
  /\ Len(pendings) < Capacity
  /\ Enqueue(g)
  /\ IF Len(pendings') >= bufsize THEN Yield(g, "send")
     ELSE UNCHANGED <<active, doing>>

Recv(g) ==
  /\ active = g
  /\ receivers' = receivers \cup {g}
  /\ Yield(g, "recv")
  /\ UNCHANGED <<bufsize, pendings, handle, notifying, caller, historyVars>>

(* A greenlet waits for something that is not this channel, or ends.       *)
Leave(g) ==
  /\ active = g
  /\ \E where \in {"away", "dead"} : Yield(g, where)
  /\ UNCHANGED <<bufVars, notifying, caller, historyVars>>
-----------------------------------------------------------------------------
(* The loop fires the notifier's handle.                                   *)
NotifyStart ==
  /\ active = Nobody /\ notifying = "no"
  /\ handle = "scheduled"
  /\ handle' = "fired"
  /\ notifying' = IF pendings = <<>> THEN "no" ELSE "next"
  /\ UNCHANGED <<bufsize, pendings, receivers, caller, active, doing, historyVars>>

(* The switch to a waiter with a message, which recv() returns.            *)
SwitchWith(g, m) ==
  /\ received' = IF doing[g] = "recv" THEN Append(received, m.id) ELSE received
  /\ Resume(g)

(* Mutant: the newest message is handed over first.                        *)
HandOverNewest(g) ==
  /\ receivers' = receivers \ {g}
  /\ pendings' = SubSeq(pendings, 1, Len(pendings) - 1)
  /\ SwitchWith(g, pendings[Len(pendings)])

(* A waiter and the oldest message are taken out together.                 *)
HandOver(g) ==
  /\ receivers' = receivers \ {g}
  /\ pendings' = Tail(pendings)
  /\ SwitchWith(g, Head(pendings))

(* Mutant: the message is taken before the waiters are looked at.          *)
NotifyNextTakesFirst ==
  /\ active = Nobody /\ notifying = "next"
  /\ pendings # <<>>
  /\ \/ /\ receivers # {}
        /\ \E g \in receivers : HandOver(g)
        /\ caller' = Head(pendings).caller
        /\ notifying' = "caller"
     \/ /\ receivers = {}
        /\ pendings' = Tail(pendings)
        /\ notifying' = "no"
        /\ UNCHANGED <<receivers, caller, active, doing, received>>
  /\ UNCHANGED <<bufsize, handle, sent, disturbed>>

(* The head of the notifier's loop.  PySet_Pop takes any waiter.  The      *)
(* notifier ends when nobody waits, and with a ValueError when somebody    *)
(* does and there is no message.                                           *)
NotifyNext ==
  /\ active = Nobody /\ notifying = "next"
  /\ \/ /\ receivers # {} /\ pendings # <<>>
        /\ \E g \in receivers : HandOver(g)
        /\ caller' = Head(pendings).caller
        /\ notifying' = "caller"
     \/ /\ receivers = {} \/ pendings = <<>>
        /\ notifying' = "no"
        /\ UNCHANGED <<pendings, receivers, caller, active, doing, received>>
  /\ UNCHANGED <<bufsize, handle, sent, disturbed>>

(* The receiver has switched back, and the notifier switches to the        *)
(* sender, whatever that does by now.                                      *)
NotifyCaller ==
  /\ active = Nobody /\ notifying = "caller"
  /\ Resume(caller)
  /\ disturbed' = IF doing[caller] = "recv" THEN disturbed \cup {caller} ELSE disturbed
  /\ caller' = Nobody
  /\ notifying' = "next"
  /\ UNCHANGED <<bufVars, sent, received>>

(* The loop switches to a greenlet that waits for something else, or that  *)
(* has not started yet.                                                    *)
Wake(g) ==
  /\ active = Nobody /\ notifying = "no"
  /\ doing[g] = "away"
  /\ Resume(g)
  /\ UNCHANGED <<bufVars, notifying, caller, historyVars>>

(* A timeout is thrown into a greenlet in send() or recv(), or a late      *)
(* switch reaches it.  Neither puts the channel's fields in order.         *)
Disturb(g) ==
  /\ active = Nobody /\ notifying = "no"
  /\ doing[g] \in {"send", "recv"}
  /\ Resume(g)
  /\ disturbed' = disturbed \cup {g}
  /\ UNCHANGED <<bufVars, notifying, caller, sent, received>>

GreenletStep == \E g \in Greenlet : Send(g) \/ Recv(g) \/ Leave(g)

ChannelStep ==
  \/ GreenletStep
  \/ NotifyStart \/ NotifyNext \/ NotifyCaller
  \/ \E g \in Greenlet : Wake(g) \/ Disturb(g)

ChannelSpec == InitChannel /\ [][ChannelStep]_channelVars

(* Greenlets give control back, and the loop reaches every handle that is  *)
(* in its queue, however often it switches to greenlets before.            *)
FairChannelSpec ==
  /\ ChannelSpec
  /\ WF_channelVars(GreenletStep) /\ WF_channelVars(NotifyNext)
  /\ WF_channelVars(NotifyCaller) /\ SF_channelVars(NotifyStart)
-----------------------------------------------------------------------------
Message == [id : 1 .. MaxSent, caller : Greenlet]

ChannelTypeOK ==
  /\ bufsize \in BufSizes
  /\ pendings \in Seq(Message) /\ Len(pendings) <= Capacity
  /\ receivers \in SUBSET Greenlet
  /\ handle \in {"none", "scheduled", "fired"}
  /\ notifying \in {"no", "next", "caller"}
  /\ caller \in Greenlet \cup {Nobody}
  /\ active \in Greenlet \cup {Nobody}
  /\ doing \in [Greenlet -> {"run", "send", "recv", "away", "dead"}]
  /\ sent \in 0 .. MaxSent
  /\ received \in Seq(1 .. MaxSent)
  /\ disturbed \in SUBSET Greenlet

Pending(i) == pendings[i].id

(* Messages are received in the order they were sent in and none twice,    *)
(* whatever happens to the greenlets: timeouts and late switches too.      *)
InOrder ==
  /\ \A i, j \in DOMAIN received : i < j => received[i] < received[j]
  /\ \A i \in DOMAIN received, j \in DOMAIN pendings : received[i] < Pending(j)

(* As long as nobody is disturbed in send() or recv(), every message that  *)
(* was sent has been received or is in the buffer.                         *)
NothingLost ==
  disturbed = {} =>
    /\ Len(received) + Len(pendings) = sent
    /\ \A i \in DOMAIN received : received[i] = i
    /\ \A i \in DOMAIN pendings : Pending(i) = Len(received) + i

(* On a channel without a buffer send() returns when the message has been  *)
(* received and not before: the senders that wait are those of the         *)
(* messages in the buffer and of the one just handed over.                 *)
Rendezvous ==
  bufsize <= 1 /\ disturbed = {} =>
    {g \in Greenlet : doing[g] = "send"} =
      {pendings[i].caller : i \in DOMAIN pendings} \cup ({caller} \ {Nobody})

(* The notifier resumes a greenlet with a message only inside of recv().   *)
WaitersReceive == disturbed = {} => receivers = {g \in Greenlet : doing[g] = "recv"}

(* A message sent before the notifier has run gets to a greenlet that      *)
(* waits for one, whichever of the two came first.                         *)
FirstIsDelivered ==
  pendings # <<>> /\ receivers # {} /\ handle # "fired"
    ~> received # <<>> \/ disturbed # {}

(* What the comment of notify_to_loop says: a send after the notifier was  *)
(* called schedules it again.                                              *)
SendReschedules ==
  [][sent' # sent /\ notifying = "no" => handle' = "scheduled"]_channelVars
=============================================================================
