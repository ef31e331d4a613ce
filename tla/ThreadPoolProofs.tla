--------------------------- MODULE ThreadPoolProofs ---------------------------
(***************************************************************************)
(* The thread pool, for any number of threads, greenlets and futures: what *)
(* is not done keeps the loop running, a function runs only while its      *)
(* future does, once, and whoever waits for futures knows for how many.    *)
(***************************************************************************)
EXTENDS ThreadPool, FiniteSetTheorems, TLAPS

Places == {"none", "get", "empty", "event", "fn", "report", "gone"}
States == {"new", "PENDING", "CANCELLED", "CANCELLED_AND_NOTIFIED", "RUNNING", "FINISHED"}
Call == {"set_running", "set_result", "release"} \X Future

(* What is in a sequence, and that nothing is in it twice.                 *)
In(s) == {s[i] : i \in 1 .. Len(s)}
Once(s) == \A i, j \in 1 .. Len(s) : s[i] = s[j] => i = j

Calls(f) == In(calls) \cap {<<"set_running", f>>, <<"set_result", f>>, <<"release", f>>}
Held(f) == \E w \in Worker : f \in item[w]

TypeOK ==
  /\ queue \in Seq(Future) /\ calls \in Seq(Call)
  /\ place \in [Worker -> Places] /\ item \in [Worker -> SUBSET Future]
  /\ state \in [Future -> States]

(* _event and _cancelled say what _set_running found.                      *)
Flags ==
  /\ event = {f \in Future : state[f] \in {"CANCELLED_AND_NOTIFIED", "RUNNING", "FINISHED"}}
  /\ cancelled = {f \in Future : state[f] = "CANCELLED_AND_NOTIFIED"}

(* What is in the queue has not been started, and nobody else has it.      *)
Queued ==
  /\ Once(queue)
  /\ \A f \in In(queue) : state[f] \in {"PENDING", "CANCELLED"} /\ ~Held(f) /\ Calls(f) = {}

(* A thread has one item, and is as far with it as the loop's thread lets  *)
(* it: it waits to be told to start, runs the function, or has asked for   *)
(* its result to be set.                                                   *)
Stage(w, f) ==
  \/ place[w] = "event" /\ Calls(f) = {<<"set_running", f>>} /\ state[f] \in {"PENDING", "CANCELLED"}
  \/ place[w] = "event" /\ Calls(f) = {} /\ state[f] \in {"CANCELLED_AND_NOTIFIED", "RUNNING"}
  \/ place[w] = "fn" /\ Calls(f) = {} /\ state[f] = "RUNNING"
  \/ place[w] = "report" /\ Calls(f) = {<<"set_result", f>>} /\ state[f] = "RUNNING"
  \/ place[w] = "report" /\ Calls(f) = {} /\ state[f] = "FINISHED"

Staged ==
  \A w \in Worker, f \in Future :
    f \in item[w] => item[w] = {f} /\ Stage(w, f) /\ \A v \in Worker : f \in item[v] => v = w

(* What nobody has in hand has no call to come but those that end it.      *)
Ending ==
  \A f \in Future : ~Held(f) =>
    \/ Calls(f) = {}
    \/ Calls(f) = {<<"set_result", f>>, <<"release", f>>} /\ state[f] = "RUNNING"
    \/ Calls(f) = {<<"release", f>>} /\ state[f] = "FINISHED"

(* The calls are different, and a result comes before its handler's        *)
(* release.                                                                *)
Ordered ==
  /\ Once(calls)
  /\ \A f \in Future, i, j \in 1 .. Len(calls) :
       calls[i] = <<"set_result", f>> /\ calls[j] = <<"release", f>> => i < j

(* A new future is nowhere.                                                *)
New ==
  \A f \in Future : state[f] = "new" => f \notin In(queue) /\ ~Held(f) /\ Calls(f) = {}

IInv == TypeOK /\ Flags /\ Queued /\ Staged /\ Ending /\ Ordered /\ New /\ KeptAlive
-----------------------------------------------------------------------------
LEMMA InOfAppend ==
  ASSUME NEW S, NEW s \in Seq(S), NEW e \in S, e \notin In(s), Once(s)
  PROVE  In(Append(s, e)) = In(s) \cup {e} /\ Once(Append(s, e))
<1>1. /\ Len(Append(s, e)) = Len(s) + 1
      /\ \A i \in 1 .. Len(s) : Append(s, e)[i] = s[i]
      /\ Append(s, e)[Len(s) + 1] = e
  OBVIOUS
<1>2. In(Append(s, e)) = In(s) \cup {e}
  BY <1>1 DEF In
<1>3. Once(Append(s, e))
  BY <1>1 DEF In, Once
<1> QED
  BY <1>2, <1>3

LEMMA InOfTail ==
  ASSUME NEW S, NEW s \in Seq(S), s # <<>>, Once(s)
  PROVE  /\ Head(s) \in In(s) /\ Head(s) \in S
         /\ In(Tail(s)) = In(s) \ {Head(s)} /\ Once(Tail(s))
<1>1. /\ Len(s) \in Nat /\ Len(s) > 0 /\ Head(s) = s[1] /\ Len(Tail(s)) = Len(s) - 1
      /\ \A i \in 1 .. Len(s) - 1 : Tail(s)[i] = s[i + 1]
  OBVIOUS
<1>2. Head(s) \in In(s) /\ Head(s) \in S
  BY <1>1 DEF In
<1>3. ASSUME NEW e \in In(Tail(s)) PROVE e \in In(s) \ {Head(s)}
  <2>1. PICK i \in 1 .. Len(s) - 1 : e = s[i + 1]
    BY <1>1 DEF In
  <2> QED
    BY <1>1, <2>1 DEF In, Once
<1>4. ASSUME NEW e \in In(s) \ {Head(s)} PROVE e \in In(Tail(s))
  <2>1. PICK i \in 1 .. Len(s) : e = s[i] /\ i # 1
    BY <1>1 DEF In
  <2>2. i - 1 \in 1 .. Len(Tail(s)) /\ Tail(s)[i - 1] = e
    BY <1>1, <2>1
  <2> QED
    BY <2>2 DEF In
<1>5. Once(Tail(s))
  BY <1>1 DEF Once
<1> QED
  BY <1>2, <1>3, <1>4, <1>5
-----------------------------------------------------------------------------
LEMMA InitIInv == ASSUME Init PROVE IInv
<1>1. In(<<>>) = {} /\ Once(<<>>)
  BY DEF In, Once
<1>2. queue = <<>> /\ calls = <<>> /\ \A f \in Future : ~Held(f) /\ Calls(f) = {}
  BY <1>1 DEF Init, Held, Calls
<1>3. TypeOK
  BY DEF TypeOK, Init, Places, States
<1>4. Queued /\ Flags /\ New /\ KeptAlive /\ Ending
  BY <1>1, <1>2 DEF Queued, Flags, New, KeptAlive, Ending, Init
<1>5. Staged /\ Ordered
  BY <1>1, <1>2 DEF Staged, Ordered, Held
<1> QED
  BY <1>3, <1>4, <1>5 DEF IInv
-----------------------------------------------------------------------------
(* A call that is handed over, and one that is served.                     *)
LEMMA Handed ==
  ASSUME IInv, NEW step \in {"set_running", "set_result", "release"}, NEW f \in Future,
         calls' = Append(calls, <<step, f>>), <<step, f>> \notin Calls(f),
         step = "set_result" => <<"release", f>> \notin Calls(f)
  PROVE  /\ calls' \in Seq(Call) /\ Ordered'
         /\ Calls(f)' = Calls(f) \cup {<<step, f>>}
         /\ \A g \in Future : g # f => Calls(g)' = Calls(g)
<1> USE DEF IInv
<1>1. <<step, f>> \in Call /\ <<step, f>> \notin In(calls) /\ Once(calls) /\ calls \in Seq(Call)
  BY DEF Call, Calls, Ordered, TypeOK
<1>2. In(calls') = In(calls) \cup {<<step, f>>} /\ Once(calls')
  BY <1>1, InOfAppend
<1>3. /\ Len(calls') = Len(calls) + 1 /\ Len(calls) \in Nat
      /\ \A i \in 1 .. Len(calls) : calls'[i] = calls[i]
      /\ calls'[Len(calls) + 1] = <<step, f>>
  BY <1>1
<1>4. ASSUME NEW g \in Future, NEW i \in 1 .. Len(calls'), NEW j \in 1 .. Len(calls'),
             calls'[i] = <<"set_result", g>>, calls'[j] = <<"release", g>>
      PROVE  i < j
  <2>1. CASE j = Len(calls) + 1
    <3>1. i # j
      BY <1>4, <2>1
    <3> QED
      BY <1>3, <2>1, <3>1
  <2>2. CASE j # Len(calls) + 1
    <3>1. j \in 1 .. Len(calls) /\ calls[j] = <<"release", g>>
      BY <1>3, <1>4, <2>2
    <3>2. i # Len(calls) + 1
      <4>1. <<"release", g>> \in In(calls)
        BY <3>1 DEF In
      <4>2. ASSUME i = Len(calls) + 1 PROVE <<step, f>> = <<"set_result", g>>
        BY <1>3, <1>4, <4>2, Zenon
      <4>3. <<step, f>> = <<"set_result", g>> => step = "set_result" /\ f = g
        OBVIOUS
      <4> QED
        BY <4>1, <4>2, <4>3 DEF Calls
    <3>3. i \in 1 .. Len(calls) /\ calls[i] = <<"set_result", g>>
      BY <1>3, <1>4, <3>2
    <3> QED
      BY <3>1, <3>3, Zenon DEF Ordered
  <2> QED
    BY <2>1, <2>2
<1>5. Ordered'
  <2>1. \A g \in Future, i, j \in 1 .. Len(calls') :
          calls'[i] = <<"set_result", g>> /\ calls'[j] = <<"release", g>> => i < j
    BY <1>4, Zenon
  <2> QED
    BY <1>2, <2>1, Zenon DEF Ordered
<1>6. Calls(f)' = Calls(f) \cup {<<step, f>>}
  BY <1>2, Zenon DEF Calls
<1>7. ASSUME NEW g \in Future, g # f PROVE Calls(g)' = Calls(g)
  <2>1. \A s : <<s, g>> # <<step, f>>
    BY <1>7, SMT
  <2>2. \A s : <<s, g>> \in In(calls') <=> <<s, g>> \in In(calls)
    BY <1>2, <2>1, Zenon
  <2> QED
    BY <2>2, Zenon DEF Calls
<1>8. calls' \in Seq(Call)
  BY <1>1, SMT
<1> QED
  BY <1>5, <1>6, <1>7, <1>8, Zenon

(* The same of a future that has no call in flight.                        *)
LEMMA HandedFirst ==
  ASSUME IInv, NEW step \in {"set_running", "set_result"}, NEW f \in Future,
         calls' = Append(calls, <<step, f>>), Calls(f) = {}
  PROVE  /\ calls' \in Seq(Call) /\ Ordered'
         /\ Calls(f)' = {<<step, f>>}
         /\ \A g \in Future : g # f => Calls(g)' = Calls(g)
<1>1. /\ step \in {"set_running", "set_result", "release"}
      /\ <<step, f>> \notin Calls(f) /\ <<"release", f>> \notin Calls(f)
  OBVIOUS
<1>2. /\ calls' \in Seq(Call) /\ Ordered'
      /\ Calls(f)' = Calls(f) \cup {<<step, f>>}
      /\ \A g \in Future : g # f => Calls(g)' = Calls(g)
  BY <1>1, Handed, Zenon
<1>3. {} \cup {<<step, f>>} = {<<step, f>>}
  OBVIOUS
<1> QED
  BY <1>2, <1>3, Zenon

LEMMA Served ==
  ASSUME IInv, calls # <<>>, calls' = Tail(calls),
         NEW step, NEW f, Head(calls) = <<step, f>>
  PROVE  /\ f \in Future /\ step \in {"set_running", "set_result", "release"}
         /\ calls' \in Seq(Call) /\ Ordered'
         /\ <<step, f>> \in Calls(f) /\ Calls(f)' = Calls(f) \ {<<step, f>>}
         /\ \A g \in Future : g # f => Calls(g)' = Calls(g)
         /\ step = "release" => <<"set_result", f>> \notin Calls(f)
<1> USE DEF IInv
<1>1. calls \in Seq(Call) /\ Once(calls)
  BY DEF TypeOK, Ordered
<1>2. /\ Head(calls) \in In(calls) /\ Head(calls) \in Call
      /\ In(calls') = In(calls) \ {Head(calls)} /\ Once(calls')
  BY <1>1, InOfTail
<1>3. f \in Future /\ step \in {"set_running", "set_result", "release"}
  BY <1>2 DEF Call
<1>4. /\ Len(calls) \in Nat /\ Len(calls) > 0 /\ Head(calls) = calls[1] /\ Len(calls') = Len(calls) - 1
      /\ \A i \in 1 .. Len(calls) - 1 : calls'[i] = calls[i + 1]
  BY <1>1
<1>5. Ordered'
  <2>1. ASSUME NEW g \in Future, NEW i \in 1 .. Len(calls'), NEW j \in 1 .. Len(calls'),
               calls'[i] = <<"set_result", g>>, calls'[j] = <<"release", g>>
        PROVE  i < j
    <3>1. /\ i + 1 \in 1 .. Len(calls) /\ j + 1 \in 1 .. Len(calls)
          /\ calls[i + 1] = <<"set_result", g>> /\ calls[j + 1] = <<"release", g>>
      BY <1>4, <2>1
    <3>2. i + 1 < j + 1
      BY <3>1 DEF Ordered
    <3> QED
      BY <3>2
  <2> QED
    BY <1>2, <2>1 DEF Ordered
<1>6. /\ <<step, f>> \in Calls(f) /\ Calls(f)' = Calls(f) \ {<<step, f>>}
      /\ \A g \in Future : g # f => Calls(g)' = Calls(g)
  BY <1>2, <1>3 DEF Calls
<1>7. ASSUME step = "release", <<"set_result", f>> \in Calls(f) PROVE FALSE
  <2>1. PICK i \in 1 .. Len(calls) : calls[i] = <<"set_result", f>>
    BY <1>7 DEF Calls, In
  <2>2. calls[1] = <<"release", f>> /\ 1 \in 1 .. Len(calls)
    BY <1>4, <1>7
  <2>3. i < 1
    BY <1>3, <2>1, <2>2 DEF Ordered
  <2> QED
    BY <2>1, <2>3
<1>8. calls' \in Seq(Call)
  BY <1>1
<1> QED
  BY <1>3, <1>5, <1>6, <1>7, <1>8
-----------------------------------------------------------------------------
LEMMA SubmitStep ==
  ASSUME IInv, NEW f \in Future, Submit(f)
  PROVE  IInv'
<1> USE DEF IInv
<1>1. /\ state[f] = "new" /\ queue' = Append(queue, f)
      /\ f \notin In(queue) /\ ~Held(f) /\ Calls(f) = {} /\ Once(queue)
      /\ UNCHANGED <<item, calls, event, cancelled>> /\ kept' = kept \cup {f}
  BY DEF Submit, New, Queued, itemVars
<1>2. In(queue') = In(queue) \cup {f} /\ Once(queue')
  BY <1>1, InOfAppend DEF TypeOK
<1>3. \A g \in Future : state'[g] = IF g = f THEN "PENDING" ELSE state[g]
  BY DEF Submit, TypeOK
<1>4. \A g \in Future : Calls(g)' = Calls(g) /\ Held(g)' = Held(g)
  BY <1>1 DEF Calls, Held
<1>5. TypeOK'
  <2>1. place' \in [Worker -> Places]
    BY DEF Submit, TypeOK, Places
  <2>2. state' \in [Future -> States]
    BY DEF Submit, TypeOK, States
  <2> QED
    BY <1>1, <2>1, <2>2 DEF TypeOK
<1>6. Flags'
  BY <1>1, <1>3 DEF Flags
<1>7. Queued'
  <2>1. In(queue) \subseteq Future
    BY DEF TypeOK, In
  <2> QED
    BY <1>1, <1>2, <1>3, <1>4, <2>1 DEF Queued
<1>8. Staged'
  <2> SUFFICES ASSUME NEW w \in Worker, NEW g \in Future, g \in item'[w]
               PROVE  item'[w] = {g} /\ Stage(w, g)' /\ \A v \in Worker : g \in item'[v] => v = w
    BY DEF Staged
  <2>1. g # f
    BY <1>1 DEF Held
  <2>2. item[w] = {g} /\ Stage(w, g) /\ \A v \in Worker : g \in item[v] => v = w
    BY <1>1 DEF Staged
  <2>3. place'[w] = place[w]
    BY <2>2 DEF Submit, Stage, TypeOK
  <2>4. Stage(w, g)'
    BY <1>3, <1>4, <2>1, <2>2, <2>3 DEF Stage
  <2> QED
    BY <1>1, <2>2, <2>4
<1>9. Ending'
  BY <1>1, <1>3, <1>4 DEF Ending
<1>10. Ordered'
  BY <1>1 DEF Ordered
<1>11. New'
  BY <1>2, <1>3, <1>4 DEF New
<1>12. KeptAlive'
  BY <1>1, <1>3 DEF KeptAlive, Done
<1> QED
  BY <1>5, <1>6, <1>7, <1>8, <1>9, <1>10, <1>11, <1>12

LEMMA GetStep ==
  ASSUME IInv, NEW w \in Worker, Get(w)
  PROVE  IInv'
<1> USE DEF IInv
<1>0. queue # <<>> /\ Head(queue) \in In(queue) /\ Head(queue) \in Future
  BY InOfTail DEF Get, Queued, TypeOK
<1> PICK f \in Future : f = Head(queue)
  BY <1>0
<1>1. /\ place[w] = "get" /\ queue # <<>> /\ queue' = Tail(queue)
      /\ calls' = Append(calls, <<"set_running", f>>)
      /\ UNCHANGED <<state, event, cancelled, kept>>
  BY DEF Get, itemVars
<1>2. f \in In(queue) /\ f \in Future /\ In(queue') = In(queue) \ {f} /\ Once(queue')
  BY <1>1, InOfTail DEF Queued, TypeOK
<1>3. state[f] \in {"PENDING", "CANCELLED"} /\ ~Held(f) /\ Calls(f) = {}
  BY <1>2 DEF Queued
<1>4. /\ calls' \in Seq(Call) /\ Ordered' /\ Calls(f)' = {<<"set_running", f>>}
      /\ \A g \in Future : g # f => Calls(g)' = Calls(g)
  BY <1>1, <1>2, <1>3, HandedFirst, Zenon
<1>5. item[w] = {}
  BY <1>1 DEF Staged, Stage, TypeOK
<1>6. /\ \A v \in Worker : item'[v] = IF v = w THEN {f} ELSE item[v]
      /\ \A v \in Worker : place'[v] = IF v = w THEN "event" ELSE place[v]
  BY DEF Get, TypeOK
<1>7. Held(f)' /\ \A g \in Future : g # f => Held(g)' = Held(g)
  BY <1>5, <1>6 DEF Held
<1>8. TypeOK'
  BY <1>1, <1>2, <1>4 DEF Get, TypeOK, Places
<1>9. Flags' /\ KeptAlive'
  BY <1>1 DEF Flags, KeptAlive, Done
<1>10. Queued' /\ New'
  <2>1. In(queue) \subseteq Future
    BY DEF TypeOK, In
  <2> QED
    BY <1>1, <1>2, <1>3, <1>4, <1>7, <2>1 DEF Queued, New
<1>11. Staged'
  <2> SUFFICES ASSUME NEW v \in Worker, NEW g \in Future, g \in item'[v]
               PROVE  item'[v] = {g} /\ Stage(v, g)' /\ \A u \in Worker : g \in item'[u] => u = v
    BY DEF Staged
  <2>1. CASE v = w
    <3>1. g = f
      BY <1>6, <2>1
    <3>2. Stage(w, f)'
      BY <1>1, <1>3, <1>4, <1>6 DEF Stage
    <3>3. \A u \in Worker : f \in item'[u] => u = w
      BY <1>3, <1>6 DEF Held
    <3> QED
      BY <1>6, <2>1, <3>1, <3>2, <3>3
  <2>2. CASE v # w
    <3>1. g \in item[v] /\ g # f
      BY <1>3, <1>6, <2>2 DEF Held
    <3>2. item[v] = {g} /\ Stage(v, g) /\ \A u \in Worker : g \in item[u] => u = v
      BY <3>1 DEF Staged
    <3>3. Stage(v, g)'
      BY <1>1, <1>4, <1>6, <2>2, <3>1, <3>2 DEF Stage
    <3> QED
      BY <1>6, <2>2, <3>1, <3>2, <3>3
  <2> QED
    BY <2>1, <2>2
<1>12. Ending'
  BY <1>1, <1>4, <1>7 DEF Ending
<1> QED
  BY <1>4, <1>8, <1>9, <1>10, <1>11, <1>12

(* A thread without an item moves.                                         *)
LEMMA IdleStep ==
  ASSUME IInv, NEW w \in Worker, Empty(w) \/ AfterEmpty(w)
  PROVE  IInv'
<1> USE DEF IInv
<1>1. /\ place[w] \in {"get", "empty"} /\ place'[w] \in {"get", "empty", "gone"}
      /\ \A v \in Worker : v # w => place'[v] = place[v]
      /\ place' \in [Worker -> Places]
      /\ UNCHANGED <<queue, item, state, calls, event, cancelled, kept>>
  BY DEF Empty, AfterEmpty, TypeOK, Places, itemVars
<1>2. item[w] = {}
  BY <1>1 DEF Staged, Stage, TypeOK
<1>3. \A f \in Future : Calls(f)' = Calls(f) /\ Held(f)' = Held(f)
  BY <1>1 DEF Calls, Held
<1>4. Staged'
  BY <1>1, <1>2, <1>3 DEF Staged, Stage
<1>5. TypeOK'
  BY <1>1 DEF TypeOK
<1>6. Flags' /\ KeptAlive' /\ Ordered'
  BY <1>1 DEF Flags, KeptAlive, Done, Ordered
<1>7. Queued' /\ New' /\ Ending'
  BY <1>1, <1>3 DEF Queued, New, Ending, TypeOK, In
<1> QED
  BY <1>4, <1>5, <1>6, <1>7

LEMMA ProceedStep ==
  ASSUME IInv, NEW w \in Worker, Proceed(w)
  PROVE  IInv'
<1> USE DEF IInv
<1>1. PICK f \in item[w] \cap event : AfterEvent(w, f)
  BY DEF Proceed
<1>2. /\ place[w] = "event"
      /\ UNCHANGED <<queue, state, calls, event, cancelled, kept>>
  BY DEF Proceed, itemVars
<1>3. f \in Future /\ item[w] = {f} /\ \A v \in Worker : f \in item[v] => v = w
  BY <1>1 DEF TypeOK, Staged
<1>4. Calls(f) = {} /\ state[f] \in {"CANCELLED_AND_NOTIFIED", "RUNNING"}
  BY <1>1, <1>2, <1>3 DEF Staged, Stage, Flags
<1>5. \A g \in Future : Calls(g)' = Calls(g)
  BY <1>2 DEF Calls
<1>6. \/ /\ place' = [place EXCEPT ![w] = "get"] /\ item' = [item EXCEPT ![w] = {}]
      \/ /\ place' = [place EXCEPT ![w] = "fn"] /\ item' = item /\ state[f] = "RUNNING"
  BY <1>1, <1>3, <1>4 DEF AfterEvent, Flags
<1>7. /\ place' \in [Worker -> Places] /\ item' \in [Worker -> SUBSET Future]
      /\ \A v \in Worker : v # w => place'[v] = place[v] /\ item'[v] = item[v]
      /\ \/ item'[w] = {}
         \/ item'[w] = {f} /\ place'[w] = "fn" /\ state[f] = "RUNNING"
  BY <1>3, <1>6 DEF TypeOK, Places
<1>8. \A g \in Future : g # f => Held(g)' = Held(g)
  BY <1>3, <1>7 DEF Held
<1>9. TypeOK' /\ Flags' /\ KeptAlive' /\ Ordered'
  BY <1>2, <1>7 DEF TypeOK, Flags, KeptAlive, Done, Ordered
<1>10. Held(f) /\ f \notin In(queue)
  BY <1>3 DEF Held, Queued
<1>11. Queued' /\ New'
  <2>1. In(queue) \subseteq Future
    BY DEF TypeOK, In
  <2> QED
    BY <1>2, <1>4, <1>5, <1>8, <1>10, <2>1 DEF Queued, New
<1>12. Staged'
  <2> SUFFICES ASSUME NEW v \in Worker, NEW g \in Future, g \in item'[v]
               PROVE  item'[v] = {g} /\ Stage(v, g)' /\ \A u \in Worker : g \in item'[u] => u = v
    BY DEF Staged
  <2>1. CASE v = w
    BY <1>2, <1>3, <1>4, <1>5, <1>7, <2>1 DEF Stage
  <2>2. CASE v # w
    <3>1. item[v] = {g} /\ Stage(v, g) /\ (\A u \in Worker : g \in item[u] => u = v) /\ g # f
      BY <1>3, <1>7, <2>2 DEF Staged
    <3>2. Stage(v, g)'
      BY <1>2, <1>5, <1>7, <2>2, <3>1 DEF Stage
    <3> QED
      BY <1>7, <2>2, <3>1, <3>2
  <2> QED
    BY <2>1, <2>2
<1>13. Ending'
  BY <1>2, <1>4, <1>5, <1>8 DEF Ending
<1> QED
  BY <1>9, <1>11, <1>12, <1>13

LEMMA FnEndsStep ==
  ASSUME IInv, NEW w \in Worker, FnEnds(w)
  PROVE  IInv'
<1> USE DEF IInv
<1> PICK f \in item[w] : calls' = Append(calls, <<"set_result", f>>)
  BY DEF FnEnds, Report
<1>1. place[w] = "fn" /\ UNCHANGED <<queue, item, state, event, cancelled, kept>>
  BY DEF FnEnds, itemVars
<1>2. /\ f \in Future /\ item[w] = {f} /\ \A v \in Worker : f \in item[v] => v = w
      /\ Calls(f) = {} /\ state[f] = "RUNNING" /\ Held(f)
  BY <1>1 DEF TypeOK, Staged, Stage, Held
<1>3. /\ calls' \in Seq(Call) /\ Ordered' /\ Calls(f)' = {<<"set_result", f>>}
      /\ \A g \in Future : g # f => Calls(g)' = Calls(g)
  BY <1>2, HandedFirst, Zenon
<1>4. \A v \in Worker : place'[v] = IF v = w THEN "report" ELSE place[v]
  BY DEF FnEnds, TypeOK
<1>5. \A g \in Future : Held(g)' = Held(g)
  BY <1>1 DEF Held
<1>6. TypeOK' /\ Flags' /\ KeptAlive'
  BY <1>1, <1>3 DEF FnEnds, TypeOK, Places, Flags, KeptAlive, Done
<1>7. Queued' /\ New'
  <2>1. In(queue) \subseteq Future
    BY DEF TypeOK, In
  <2> QED
    BY <1>1, <1>2, <1>3, <1>5, <2>1 DEF Queued, New
<1>8. Staged'
  <2> SUFFICES ASSUME NEW v \in Worker, NEW g \in Future, g \in item'[v]
               PROVE  item'[v] = {g} /\ Stage(v, g)' /\ \A u \in Worker : g \in item'[u] => u = v
    BY DEF Staged
  <2>1. item[v] = {g} /\ Stage(v, g) /\ \A u \in Worker : g \in item[u] => u = v
    BY <1>1 DEF Staged
  <2>2. CASE v = w
    BY <1>1, <1>2, <1>3, <1>4, <2>1, <2>2 DEF Stage
  <2>3. CASE v # w
    <3>1. g # f
      BY <1>2, <2>1, <2>3
    <3>2. Stage(v, g)'
      BY <1>1, <1>3, <1>4, <2>1, <2>3, <3>1 DEF Stage
    <3> QED
      BY <1>1, <2>1, <3>2
  <2> QED
    BY <2>2, <2>3
<1>9. Ending'
  BY <1>1, <1>2, <1>3, <1>5 DEF Ending
<1> QED
  BY <1>3, <1>6, <1>7, <1>8, <1>9

LEMMA FinallyStep ==
  ASSUME IInv, NEW w \in Worker, Finally(w)
  PROVE  IInv'
<1> USE DEF IInv
<1> PICK f \in item[w] : calls' = Append(calls, <<"release", f>>)
  BY DEF Finally, Report
<1>1. place[w] = "report" /\ UNCHANGED <<queue, state, event, cancelled, kept>>
  BY DEF Finally, itemVars
<1>2. /\ f \in Future /\ item[w] = {f} /\ \A v \in Worker : f \in item[v] => v = w
      /\ \/ Calls(f) = {<<"set_result", f>>} /\ state[f] = "RUNNING"
         \/ Calls(f) = {} /\ state[f] = "FINISHED"
  BY <1>1 DEF TypeOK, Staged, Stage
<1>3. /\ calls' \in Seq(Call) /\ Ordered' /\ Calls(f)' = Calls(f) \cup {<<"release", f>>}
      /\ \A g \in Future : g # f => Calls(g)' = Calls(g)
  BY <1>2, Handed
<1>4. \A v \in Worker : /\ place'[v] = IF v = w THEN "get" ELSE place[v]
                        /\ item'[v] = IF v = w THEN {} ELSE item[v]
  BY DEF Finally, TypeOK
<1>5. ~Held(f)' /\ \A g \in Future : g # f => Held(g)' = Held(g)
  BY <1>2, <1>4 DEF Held
<1>6. TypeOK' /\ Flags' /\ KeptAlive'
  BY <1>1, <1>3 DEF Finally, TypeOK, Places, Flags, KeptAlive, Done
<1>7. Queued' /\ New'
  <2>1. In(queue) \subseteq Future
    BY DEF TypeOK, In
  <2>2. f \notin In(queue)
    BY <1>2 DEF Queued, Held
  <2> QED
    BY <1>1, <1>2, <1>3, <1>5, <2>1, <2>2 DEF Queued, New
<1>8. Staged'
  <2> SUFFICES ASSUME NEW v \in Worker, NEW g \in Future, g \in item'[v]
               PROVE  item'[v] = {g} /\ Stage(v, g)' /\ \A u \in Worker : g \in item'[u] => u = v
    BY DEF Staged
  <2>1. v # w /\ g \in item[v]
    BY <1>4
  <2>2. item[v] = {g} /\ Stage(v, g) /\ (\A u \in Worker : g \in item[u] => u = v) /\ g # f
    BY <1>2, <2>1 DEF Staged
  <2>3. Stage(v, g)'
    BY <1>1, <1>3, <1>4, <2>1, <2>2 DEF Stage
  <2> QED
    BY <1>4, <2>1, <2>2, <2>3
<1>9. Ending'
  BY <1>1, <1>2, <1>3, <1>5 DEF Ending
<1> QED
  BY <1>3, <1>6, <1>7, <1>8, <1>9

LEMMA LoopStepStep ==
  ASSUME IInv, LoopStep
  PROVE  IInv'
<1> USE DEF IInv
<1> PICK step, f : Head(calls) = <<step, f>>
  <2>1. Head(calls) \in Call
    BY InOfTail DEF LoopStep, Ordered, TypeOK
  <2> QED
    BY <2>1 DEF Call
<1>1. calls # <<>> /\ calls' = Tail(calls) /\ UNCHANGED <<queue, place, item>>
  BY DEF LoopStep
<1>2. /\ f \in Future /\ step \in {"set_running", "set_result", "release"}
      /\ calls' \in Seq(Call) /\ Ordered'
      /\ <<step, f>> \in Calls(f) /\ Calls(f)' = Calls(f) \ {<<step, f>>}
      /\ \A g \in Future : g # f => Calls(g)' = Calls(g)
      /\ step = "release" => <<"set_result", f>> \notin Calls(f)
  BY <1>1, Served
<1>3. \/ step = "set_running" /\ SetRunning(f)
      \/ step = "set_result" /\ SetResult(f)
      \/ step = "release" /\ Release(f)
  BY DEF LoopStep
<1>4. f \notin In(queue)
  BY <1>2 DEF Queued
<1>5. \A g \in Future : Held(g)' = Held(g)
  BY <1>1 DEF Held
(* Whatever the call does to its future, the others are left alone.        *)
<1>6. ASSUME state' \in [Future -> States], state'[f] # "new",
             \A g \in Future : g # f => state'[g] = state[g] /\ (g \in kept => g \in kept'),
             \A w \in Worker : f \in item[w] => Stage(w, f)',
             ~Held(f) => \/ Calls(f)' = {}
                         \/ Calls(f)' = {<<"set_result", f>>, <<"release", f>>} /\ state'[f] = "RUNNING"
                         \/ Calls(f)' = {<<"release", f>>} /\ state'[f] = "FINISHED",
             Done(f)' \/ f \in kept', Flags'
      PROVE  IInv'
  <2>1. TypeOK'
    BY <1>1, <1>2, <1>6 DEF TypeOK
  <2>2. Queued' /\ New'
    <3>1. In(queue) \subseteq Future
      BY DEF TypeOK, In
    <3> QED
      BY <1>1, <1>2, <1>4, <1>5, <1>6, <3>1 DEF Queued, New
  <2>3. Staged'
    <3> SUFFICES ASSUME NEW v \in Worker, NEW g \in Future, g \in item'[v]
                 PROVE  item'[v] = {g} /\ Stage(v, g)' /\ \A u \in Worker : g \in item'[u] => u = v
      BY DEF Staged
    <3>1. item[v] = {g} /\ Stage(v, g) /\ \A u \in Worker : g \in item[u] => u = v
      BY <1>1 DEF Staged
    <3>2. CASE g # f
      <4>1. Stage(v, g)'
        BY <1>1, <1>2, <1>6, <3>1, <3>2 DEF Stage
      <4> QED
        BY <1>1, <3>1, <4>1
    <3>3. CASE g = f
      BY <1>1, <1>6, <3>1, <3>3
    <3> QED
      BY <3>2, <3>3
  <2>4. Ending'
    BY <1>2, <1>5, <1>6 DEF Ending
  <2>5. KeptAlive'
    BY <1>6 DEF KeptAlive, Done
  <2> QED
    BY <1>2, <1>6, <2>1, <2>2, <2>3, <2>4, <2>5
<1>7. CASE step = "set_running"
  <2>1. Held(f)
    BY <1>2, <1>7 DEF Ending
  <2>2. \A w \in Worker : f \in item[w] =>
          place[w] = "event" /\ Calls(f) = {<<"set_running", f>>} /\ state[f] \in {"PENDING", "CANCELLED"}
    BY <1>2, <1>7 DEF Staged, Stage
  <2>3. /\ state'[f] \in {"CANCELLED_AND_NOTIFIED", "RUNNING"}
        /\ \A g \in Future : g # f => state'[g] = state[g]
        /\ state' \in [Future -> States]
    BY <1>2, <1>3, <1>7 DEF SetRunning, TypeOK, States
  <2>4. /\ event' = event \cup {f}
        /\ \/ state'[f] = "RUNNING" /\ cancelled' = cancelled /\ kept' = kept /\ state[f] = "PENDING"
           \/ state'[f] = "CANCELLED_AND_NOTIFIED" /\ cancelled' = cancelled \cup {f} /\ kept' = kept \ {f}
    BY <1>2, <1>3, <1>7 DEF SetRunning, TypeOK
  <2>5. Flags'
    <3>1. f \in Future /\ state[f] \in {"PENDING", "CANCELLED"}
      BY <1>2, <2>1, <2>2 DEF Held
    <3>2. event' = {g \in Future : state'[g] \in {"CANCELLED_AND_NOTIFIED", "RUNNING", "FINISHED"}}
      BY <2>3, <2>4, <3>1 DEF Flags
    <3>3. cancelled' = {g \in Future : state'[g] = "CANCELLED_AND_NOTIFIED"}
      BY <2>3, <2>4, <3>1 DEF Flags
    <3> QED
      BY <3>2, <3>3 DEF Flags
  <2>6. \A w \in Worker : f \in item[w] => Stage(w, f)'
    <3>1. \A w \in Worker : f \in item[w] => Calls(f)' = {}
      BY <1>2, <1>7, <2>2
    <3> QED
      BY <1>1, <2>2, <2>3, <3>1 DEF Stage
  <2>7. Done(f)' \/ f \in kept'
    BY <1>2, <2>4 DEF Done, KeptAlive
  <2> QED
    BY <1>6, <2>1, <2>3, <2>4, <2>5, <2>6, <2>7
<1>8. CASE step = "set_result"
  <2>1. /\ \A w \in Worker : f \in item[w] =>
             place[w] = "report" /\ Calls(f) = {<<"set_result", f>>} /\ state[f] = "RUNNING"
        /\ ~Held(f) => Calls(f) = {<<"set_result", f>>, <<"release", f>>} /\ state[f] = "RUNNING"
    BY <1>2, <1>8 DEF Staged, Stage, Ending
  <2>2. state[f] = "RUNNING"
    BY <2>1 DEF Held
  <2>3. /\ state'[f] = "FINISHED" /\ state' \in [Future -> States]
        /\ \A g \in Future : g # f => state'[g] = state[g]
        /\ UNCHANGED <<kept, event, cancelled>>
    BY <1>2, <1>3, <1>8 DEF SetResult, TypeOK, States, itemVars
  <2>4. Flags'
    BY <2>2, <2>3 DEF Flags
  <2>5. \A w \in Worker : f \in item[w] => Stage(w, f)'
    <3>1. \A w \in Worker : f \in item[w] => Calls(f)' = {}
      BY <1>2, <1>8, <2>1
    <3> QED
      BY <1>1, <2>1, <2>3, <3>1 DEF Stage
  <2>6. ~Held(f) => Calls(f)' = {<<"release", f>>}
    BY <1>2, <1>8, <2>1
  <2>7. Done(f)'
    BY <2>3 DEF Done
  <2> QED
    BY <1>6, <2>3, <2>4, <2>5, <2>6, <2>7
<1>9. CASE step = "release"
  <2>1. ~Held(f) /\ Calls(f) = {<<"release", f>>} /\ state[f] = "FINISHED"
    BY <1>2, <1>9 DEF Held, Staged, Stage, Ending
  <2>2. state' = state /\ UNCHANGED <<event, cancelled>> /\ kept' = kept \ {f}
    BY <1>3, <1>9 DEF Release, itemVars
  <2>3. Flags' /\ Done(f)' /\ state' \in [Future -> States]
    BY <2>1, <2>2 DEF Flags, Done, TypeOK
  <2>4. Calls(f)' = {}
    BY <1>2, <1>9, <2>1
  <2> QED
    BY <1>6, <2>1, <2>2, <2>3, <2>4 DEF Held
<1> QED
  BY <1>2, <1>7, <1>8, <1>9

LEMMA CancelStep ==
  ASSUME IInv, NEW f \in Future, Cancel(f)
  PROVE  IInv'
<1> USE DEF IInv
<1>1. /\ state[f] = "PENDING"
      /\ UNCHANGED <<queue, place, item, kept, event, cancelled, calls>>
  BY DEF Cancel, poolVars, itemVars
<1>2. \A g \in Future : state'[g] = IF g = f THEN "CANCELLED" ELSE state[g]
  BY DEF Cancel, TypeOK
<1>3. \A g \in Future : Calls(g)' = Calls(g) /\ Held(g)' = Held(g)
  BY <1>1 DEF Calls, Held
<1>4. TypeOK' /\ Ordered'
  BY <1>1 DEF Cancel, TypeOK, States, Ordered
<1>5. Flags'
  BY <1>1, <1>2 DEF Flags
<1>6. Queued' /\ New' /\ Ending'
  <2>1. In(queue) \subseteq Future
    BY DEF TypeOK, In
  <2> QED
    BY <1>1, <1>2, <1>3, <2>1 DEF Queued, New, Ending
<1>7. Staged'
  BY <1>1, <1>2, <1>3 DEF Staged, Stage
<1>8. KeptAlive'
  BY <1>1, <1>2 DEF KeptAlive, Done
<1> QED
  BY <1>4, <1>5, <1>6, <1>7, <1>8

(* What neither starts nor ends anything.                                  *)
LEMMA OtherStep ==
  ASSUME IInv, UNCHANGED <<queue, place, item, state, calls, event, cancelled, kept>>
  PROVE  IInv'
<1>1. /\ \A f \in Future : Calls(f)' = Calls(f) /\ Held(f)' = Held(f)
      /\ In(queue') = In(queue) /\ Once(queue') = Once(queue)
  BY DEF Calls, Held
<1>2. In(queue) \subseteq Future
  BY DEF IInv, TypeOK, In
<1>3. TypeOK' /\ Flags' /\ Ordered' /\ KeptAlive'
  BY DEF IInv, TypeOK, Flags, Ordered, KeptAlive, Done
<1>4. Queued' /\ New' /\ Ending'
  BY <1>1, <1>2 DEF IInv, Queued, New, Ending
<1>5. Staged'
  BY <1>1 DEF IInv, Staged, Stage
<1> QED
  BY <1>3, <1>4, <1>5 DEF IInv

LEMMA OtherSteps ==
  ASSUME \/ \E g \in Greenlet : GreenletStep(g)
         \/ \E wait \in BOOLEAN : Shutdown(wait)
         \/ Joined \/ Run \/ Ends \/ Interrupt \/ UNCHANGED vars
  PROVE  UNCHANGED <<queue, place, item, state, calls, event, cancelled, kept>>
<1> USE DEF poolVars, itemVars
<1>1. ASSUME NEW g \in Greenlet, GreenletStep(g)
      PROVE  UNCHANGED <<queue, place, item, state, calls, event, cancelled, kept>>
  BY <1>1 DEF GreenletStep, Resume, TimesOut, Collect, Yield, Again, Close, Result, Wait
<1>2. CASE \E wait \in BOOLEAN : Shutdown(wait)
  BY <1>2 DEF Shutdown
<1>3. CASE Joined \/ Run \/ Ends \/ Interrupt \/ UNCHANGED vars
  BY <1>3 DEF Joined, Run, Ends, Interrupt, vars
<1> QED
  BY <1>1, <1>2, <1>3

LEMMA NextIInv == ASSUME IInv, [Next]_vars PROVE IInv'
<1>1. ASSUME NEW w \in Worker, WorkerStep(w) PROVE IInv'
  BY <1>1, GetStep, IdleStep, ProceedStep, FnEndsStep, FinallyStep DEF WorkerStep
<1>2. CASE \E f \in Future : Submit(f) \/ Cancel(f)
  BY <1>2, SubmitStep, CancelStep
<1>3. CASE LoopStep
  BY <1>3, LoopStepStep
<1>4. CASE \/ \E g \in Greenlet : GreenletStep(g)
           \/ \E wait \in BOOLEAN : Shutdown(wait)
           \/ Joined \/ Run \/ Ends \/ Interrupt \/ UNCHANGED vars
  BY <1>4, OtherSteps, OtherStep
<1> QED
  BY <1>1, <1>2, <1>3, <1>4, Zenon DEF Next

LEMMA Inductive == Spec => []IInv
<1>1. Init => IInv
  BY InitIInv
<1>2. IInv /\ [Next]_vars => IInv'
  BY NextIInv
<1> QED
  BY <1>1, <1>2, PTL DEF Spec
-----------------------------------------------------------------------------
(* Whatever is not done keeps the loop running: the InfiniteHandler that   *)
(* submit() of jega/futures/_thread.py starts is not released before the   *)
(* result is set, as the calls that a thread hands over come in order.     *)
THEOREM UndoneIsKept == Spec => []KeptAlive
BY Inductive, PTL DEF IInv

(* A function runs in one thread, while its future is running: run() of    *)
(* _WorkItem does not call it when cancel() came first, and nothing calls  *)
(* it again.                                                               *)
THEOREM RunsWhileRunning == Spec => []RunsInState
<1>1. IInv => RunsInState
  <2> SUFFICES ASSUME IInv PROVE RunsInState
    OBVIOUS
  <2>1. \A w \in Worker : item[w] \subseteq Future
    BY DEF IInv, TypeOK
  <2>2. \A w \in Worker, f \in Future : f \in item[w] =>
          Stage(w, f) /\ \A v \in Worker : f \in item[v] => v = w
    BY DEF IInv, Staged
  <2> QED
    BY <2>1, <2>2 DEF RunsInState, Stage
<1> QED
  BY <1>1, Inductive, PTL
-----------------------------------------------------------------------------
(* What a greenlet that waits knows, besides what WaiterExact says: what   *)
(* as_completed() has collected is done and is not what it is about to     *)
(* yield, of which nothing is left when it waits.                          *)
Countable == IsFiniteSet(Future)

WaitTypeOK ==
  /\ gplace \in [Greenlet -> {"out", "result", "wait", "yield"}]
  /\ fs \in [Greenlet -> SUBSET Future]
  /\ mode \in [Greenlet -> Modes \cup {"none"}]
  /\ pending \in [Greenlet -> Int]
  /\ finished \in [Greenlet -> SUBSET Future]
  /\ taken \in [Greenlet -> SUBSET Future]
  /\ left \in [Greenlet -> SUBSET Future]

Collects(g) ==
  /\ gplace[g] \in {"out", "result"} => mode[g] = "none"
  /\ gplace[g] = "yield" => mode[g] = "AS"
  /\ mode[g] = "AS" =>
       /\ \A f \in finished[g] \cup taken[g] : Done(f)
       /\ finished[g] \cap taken[g] = {}
       /\ gplace[g] = "wait" => taken[g] = {}

WInv == WaitTypeOK /\ (\A g \in Greenlet : Collects(g)) /\ WaiterExact

LEMMA InitWInv == ASSUME Init PROVE WInv
BY DEF Init, WInv, WaitTypeOK, Collects, WaiterExact, CountExact, YieldsExact

(* Nothing is done that was not, and only greenlets in result() are told.  *)
LEMMA UntoldStep ==
  ASSUME WInv, UNCHANGED <<gplace, fs, mode, pending, finished, taken, left>>,
         flag \subseteq flag', \A g \in flag' \ flag : gplace[g] = "result",
         \A f \in Future : Done(f)' = Done(f)
  PROVE  WInv'
<1>1. WaitTypeOK'
  BY DEF WInv, WaitTypeOK
<1>2. ASSUME NEW g \in Greenlet PROVE Collects(g)' /\ CountExact(g)' /\ YieldsExact(g)'
  <2>1. fs[g] \subseteq Future /\ finished[g] \subseteq Future /\ taken[g] \subseteq Future
    BY DEF WInv, WaitTypeOK
  <2>2. {f \in fs[g] : ~Done(f)}' = {f \in fs[g] : ~Done(f)}
    BY <2>1
  <2>3. Collects(g) /\ CountExact(g) /\ YieldsExact(g)
    BY DEF WInv, WaiterExact
  <2> HIDE DEF Done
  <2>4. Collects(g)'
    BY <2>1, <2>3 DEF Collects
  <2>5. CountExact(g)'
    BY <2>2, <2>3 DEF CountExact
  <2>6. YieldsExact(g)'
    BY <2>2, <2>3 DEF YieldsExact
  <2> QED
    BY <2>4, <2>5, <2>6
<1> QED
  BY <1>1, <1>2 DEF WInv, WaiterExact

(* A future that is done now tells its waiters.                            *)
LEMMA ToldStep ==
  ASSUME Countable, WInv, NEW f \in Future, NEW how, Tell(f, how), ~Done(f), Done(f)',
         \A e \in Future : e # f => Done(e)' = Done(e)
  PROVE  WInv'
<1>1. /\ \A g \in Greenlet : finished'[g] = IF g \in Waiters(f) THEN finished[g] \cup {f} ELSE finished[g]
      /\ \A g \in Greenlet : pending'[g] = IF g \in Waiters(f) /\ Counts(g, how)
                                            THEN pending[g] - 1 ELSE pending[g]
      /\ UNCHANGED <<gplace, fs, mode, taken, left>>
      /\ flag \subseteq flag'
      /\ \A g \in Waiters(f) :
           (IF Counts(g, how) THEN pending'[g] = 0 ELSE mode[g] \in {"FIRST", "AS", "EXCEPTION"})
             => g \in flag'
  BY DEF Tell, WInv, WaitTypeOK
<1>2. WaitTypeOK'
  BY DEF Tell, WInv, WaitTypeOK
<1>3. ASSUME NEW g \in Greenlet PROVE Collects(g)' /\ CountExact(g)' /\ YieldsExact(g)'
  <2> DEFINE Out == {e \in fs[g] : ~Done(e)}
  <2>1. /\ fs[g] \subseteq Future /\ finished[g] \subseteq Future /\ taken[g] \subseteq Future
        /\ pending[g] \in Int
        /\ Collects(g) /\ CountExact(g) /\ YieldsExact(g)
    BY DEF WInv, WaitTypeOK, WaiterExact
  <2>2. Out' = Out \ {f}
    BY <1>1, <2>1
  <2>3. IsFiniteSet(Out)
    BY <2>1, FS_Subset DEF Countable
  <2>4. g \in Waiters(f) <=> gplace[g] \in {"wait", "yield"} /\ f \in fs[g]
    BY DEF Waiters
  <2>5. f \in fs[g] => f \in Out
    OBVIOUS
  <2> HIDE DEF Out
  <2>6. Collects(g)'
    <3>1. \A e \in finished[g] \cup taken[g] : mode[g] = "AS" => Done(e) /\ e # f
      BY <2>1 DEF Collects
    <3>2. \A e \in finished'[g] \cup taken'[g] : mode[g] = "AS" => Done(e)'
      BY <1>1, <2>1, <3>1
    <3> QED
      BY <1>1, <2>1, <3>1, <3>2 DEF Collects
  <2>7. CountExact(g)'
    <3> SUFFICES ASSUME gplace[g] = "wait", mode[g] \in {"ALL", "EXCEPTION"}, g \notin flag'
                 PROVE  pending'[g] > 0 /\ pending'[g] = Cardinality(Out')
      BY <1>1 DEF CountExact, Out
    <3>1. pending[g] > 0 /\ pending[g] = Cardinality(Out)
      BY <1>1, <2>1 DEF CountExact, Out
    <3>2. CASE f \in fs[g]
      <4>1. Counts(g, how) /\ pending'[g] # 0
        BY <1>1, <2>4, <3>2 DEF Counts
      <4>2. Cardinality(Out') = Cardinality(Out) - 1
        BY <2>2, <2>3, <2>5, <3>2, FS_RemoveElement
      <4> QED
        BY <1>1, <2>1, <2>4, <3>1, <3>2, <4>1, <4>2
    <3>3. CASE f \notin fs[g]
      <4>1. Out' = Out
        BY <2>2, <3>3 DEF Out
      <4> QED
        BY <1>1, <2>4, <3>1, <3>3, <4>1
    <3> QED
      BY <3>2, <3>3
  <2>8. YieldsExact(g)'
    <3> SUFFICES ASSUME mode[g] = "AS"
                 PROVE  /\ left[g] = Out' \cup finished'[g] \cup (taken[g] \cap left[g])
                        /\ finished'[g] # {} => g \in flag'
      BY <1>1 DEF YieldsExact, Out
    <3>1. /\ left[g] = Out \cup finished[g] \cup (taken[g] \cap left[g])
          /\ finished[g] # {} => g \in flag
          /\ gplace[g] \in {"wait", "yield"}
      BY <2>1 DEF YieldsExact, Out, Collects, WInv, WaitTypeOK
    <3>2. ~Counts(g, how)
      BY DEF Counts
    <3>3. CASE f \in fs[g]
      BY <1>1, <2>2, <2>4, <2>5, <3>1, <3>2, <3>3
    <3>4. CASE f \notin fs[g]
      <4>1. Out' = Out
        BY <2>2, <3>4 DEF Out
      <4> QED
        BY <1>1, <2>4, <3>1, <3>4, <4>1
    <3> QED
      BY <3>3, <3>4
  <2> QED
    BY <2>6, <2>7, <2>8
<1> QED
  BY <1>2, <1>3 DEF WInv, WaiterExact
(* A greenlet begins to wait, looks at its waiter or goes on: what it      *)
(* knows is its own.                                                       *)
LEMMA GreenletStepStep ==
  ASSUME Countable, WInv, NEW g \in Greenlet, GreenletStep(g)
  PROVE  WInv'
<1> USE DEF WInv
<1>1. state' = state
  BY DEF GreenletStep, Resume, TimesOut, Collect, Yield, Again, Close, Result, Wait
<1>2. \A f : Done(f)' = Done(f)
  BY <1>1 DEF Done
<1>3. Collects(g) /\ CountExact(g) /\ YieldsExact(g)
  BY DEF WaiterExact
<1> HIDE DEF Done
(* Whatever it does, the others are left alone.                            *)
<1>4. ASSUME WaitTypeOK', Collects(g)', CountExact(g)', YieldsExact(g)',
             \A h \in Greenlet : h # g =>
               /\ gplace'[h] = gplace[h] /\ fs'[h] = fs[h] /\ mode'[h] = mode[h]
               /\ pending'[h] = pending[h] /\ finished'[h] = finished[h]
               /\ taken'[h] = taken[h] /\ left'[h] = left[h] /\ (h \in flag' <=> h \in flag)
      PROVE  WInv'
  <2>1. ASSUME NEW h \in Greenlet, h # g PROVE Collects(h)' /\ CountExact(h)' /\ YieldsExact(h)'
    <3>1. Collects(h) /\ CountExact(h) /\ YieldsExact(h)
      BY DEF WaiterExact
    <3>2. {f \in fs[h] : ~Done(f)}' = {f \in fs[h] : ~Done(f)}
      BY <1>2, <1>4, <2>1
    <3>3. Collects(h)'
      BY <1>2, <1>4, <2>1, <3>1 DEF Collects
    <3>4. CountExact(h)'
      BY <1>4, <2>1, <3>1, <3>2 DEF CountExact
    <3>5. YieldsExact(h)'
      BY <1>4, <2>1, <3>1, <3>2 DEF YieldsExact
    <3> QED
      BY <3>3, <3>4, <3>5
  <2> QED
    BY <1>4, <2>1 DEF WaiterExact
<1>5. ASSUME Return(g) PROVE WInv'
  <2>1. WaitTypeOK' /\ gplace'[g] = "out" /\ mode'[g] = "none"
    BY <1>5 DEF Return, WaitTypeOK
  <2>2. Collects(g)' /\ CountExact(g)' /\ YieldsExact(g)'
    BY <2>1 DEF Collects, CountExact, YieldsExact
  <2> QED
    BY <1>4, <1>5, <2>1, <2>2 DEF Return, WaitTypeOK
<1>6. CASE Resume(g) \/ TimesOut(g) \/ Close(g)
  BY <1>5, <1>6 DEF Resume, TimesOut, Close
<1>7. ASSUME NEW f \in Future, Result(g, f) PROVE WInv'
  <2>1. WaitTypeOK' /\ gplace'[g] = "result" /\ gplace[g] = "out" /\ mode'[g] = mode[g]
    BY <1>7 DEF Result, Free, WaitTypeOK
  <2>2. Collects(g)' /\ CountExact(g)' /\ YieldsExact(g)'
    BY <1>3, <2>1 DEF Collects, CountExact, YieldsExact
  <2> QED
    BY <1>4, <1>7, <2>1, <2>2 DEF Result, WaitTypeOK
<1>8. ASSUME NEW s \in SUBSET Future, NEW m \in Modes, Wait(g, s, m) PROVE WInv'
  <2>1. IsFiniteSet(Outstanding(s)) /\ Outstanding(s) \subseteq s
    BY FS_Subset DEF Outstanding, Countable
  <2>2. Cardinality(Outstanding(s)) \in Nat /\ (Outstanding(s) # {} => Cardinality(Outstanding(s)) > 0)
    BY <2>1, FS_CardinalityType, FS_EmptySet
  <2>3. Outstanding(s) # {}
    BY <1>8 DEF Wait, ReturnsAtOnce, Outstanding
  <2>4. /\ gplace'[g] = IF m = "AS" THEN "yield" ELSE "wait"
        /\ fs'[g] = s /\ mode'[g] = m /\ finished'[g] = {} /\ g \notin flag'
        /\ pending'[g] = IF m \in {"AS", "FIRST"} THEN 0 ELSE Cardinality(Outstanding(s))
        /\ taken'[g] = IF m = "AS" THEN s \ Outstanding(s) ELSE {}
        /\ left'[g] = IF m = "AS" THEN Outstanding(s) ELSE {}
    BY <1>8 DEF Wait, WaitTypeOK
  <2>5. WaitTypeOK'
    BY <1>8, <2>1, <2>2 DEF Wait, WaitTypeOK
  <2>6. {f \in s : ~Done(f)}' = Outstanding(s)
    BY <1>2 DEF Outstanding
  <2>7. Collects(g)'
    <3>1. \A f \in s \ Outstanding(s) : Done(f)'
      BY <1>2 DEF Outstanding
    <3> QED
      BY <2>4, <3>1 DEF Collects
  <2>8. CountExact(g)'
    BY <2>2, <2>3, <2>4, <2>6 DEF CountExact
  <2>9. YieldsExact(g)'
    BY <2>4, <2>6 DEF YieldsExact
  <2> QED
    BY <1>4, <1>8, <2>5, <2>7, <2>8, <2>9 DEF Wait, WaitTypeOK
<1>9. CASE Collect(g)
  <2>1. /\ gplace[g] = "wait" /\ mode[g] = "AS" /\ gplace'[g] = "yield"
        /\ UNCHANGED <<fs, mode, pending, left>>
        /\ taken'[g] = finished[g] /\ finished'[g] = {}
    BY <1>9 DEF Collect, Take, WaitTypeOK
  <2>2. WaitTypeOK'
    BY <1>9 DEF Collect, Take, WaitTypeOK
  <2>3. taken[g] = {} /\ (\A f \in finished[g] : Done(f))
    BY <1>3, <2>1 DEF Collects
  <2>4. Collects(g)' /\ CountExact(g)'
    BY <1>2, <2>1, <2>3 DEF Collects, CountExact
  <2>5. {f \in fs[g] : ~Done(f)}' = {f \in fs[g] : ~Done(f)}
    BY <1>2, <2>1
  <2>6. YieldsExact(g)'
    BY <1>3, <2>1, <2>3, <2>5 DEF YieldsExact
  <2> QED
    BY <1>4, <1>9, <2>2, <2>4, <2>6 DEF Collect, Take, WaitTypeOK
<1>10. CASE Yield(g)
  <2>1. PICK f \in taken[g] : /\ taken' = [taken EXCEPT ![g] = @ \ {f}]
                              /\ left' = [left EXCEPT ![g] = @ \ {f}]
    BY <1>10 DEF Yield
  <2>2. gplace[g] = "yield" /\ UNCHANGED <<gplace, fs, mode, pending, finished, flag>>
    BY <1>10 DEF Yield
  <2>3. WaitTypeOK' /\ taken'[g] = taken[g] \ {f} /\ left'[g] = left[g] \ {f}
    BY <2>1, <2>2 DEF WaitTypeOK
  <2>4. mode[g] = "AS" /\ Done(f) /\ f \notin finished[g]
    BY <1>3, <2>2 DEF Collects
  <2>5. Collects(g)' /\ CountExact(g)'
    BY <1>2, <1>3, <2>2, <2>3, <2>4 DEF Collects, CountExact
  <2>6. {e \in fs[g] : ~Done(e)}' = {e \in fs[g] : ~Done(e)} \ {f}
    BY <1>2, <2>2, <2>4
  <2>7. YieldsExact(g)'
    BY <1>3, <2>2, <2>3, <2>4, <2>6 DEF YieldsExact
  <2> QED
    BY <1>4, <2>1, <2>2, <2>3, <2>5, <2>7 DEF WaitTypeOK
<1>11. CASE Again(g)
  <2>1. /\ gplace[g] = "yield" /\ taken[g] = {} /\ gplace'[g] = "wait"
        /\ UNCHANGED <<fs, mode, pending, finished, taken, left, flag>>
    BY <1>11 DEF Again, WaitTypeOK
  <2>2. WaitTypeOK' /\ mode[g] = "AS"
    BY <1>3, <1>11, <2>1 DEF Again, WaitTypeOK, Collects
  <2>3. Collects(g)' /\ CountExact(g)'
    BY <1>2, <1>3, <2>1, <2>2 DEF Collects, CountExact
  <2>4. {f \in fs[g] : ~Done(f)}' = {f \in fs[g] : ~Done(f)}
    BY <1>2, <2>1
  <2>5. YieldsExact(g)'
    BY <1>3, <2>1, <2>4 DEF YieldsExact
  <2> QED
    BY <1>4, <1>11, <2>1, <2>2, <2>3, <2>5 DEF Again, WaitTypeOK
<1> QED
  BY <1>6, <1>7, <1>8, <1>9, <1>10, <1>11 DEF GreenletStep

LEMMA LoopStepTells ==
  ASSUME Countable, IInv, WInv, LoopStep
  PROVE  WInv'
<1> PICK step, f : Head(calls) = <<step, f>>
  <2>1. Head(calls) \in Call
    BY InOfTail DEF LoopStep, Ordered, TypeOK, IInv
  <2> QED
    BY <2>1 DEF Call
<1>1. calls # <<>> /\ calls' = Tail(calls)
  BY DEF LoopStep
<1>2. f \in Future /\ <<step, f>> \in Calls(f)
  BY <1>1, Served
<1>3. state \in [Future -> States]
  BY DEF IInv, TypeOK
<1>4. \/ step = "set_running" /\ SetRunning(f)
      \/ step = "set_result" /\ SetResult(f)
      \/ step = "release" /\ Release(f)
  BY DEF LoopStep
<1>5. CASE step = "set_running" /\ SetRunning(f)
  <2>1. CASE state[f] = "CANCELLED" /\ Tell(f, "cancelled") /\ state' = [state EXCEPT ![f] = "CANCELLED_AND_NOTIFIED"]
    <3>1. ~Done(f) /\ Done(f)' /\ \A e \in Future : e # f => Done(e)' = Done(e)
      BY <1>2, <1>3, <2>1 DEF Done
    <3> QED
      BY <1>2, <2>1, <3>1, ToldStep
  <2>2. CASE state[f] = "PENDING" /\ UNCHANGED waitVars /\ state' = [state EXCEPT ![f] = "RUNNING"]
    <3>1. \A e \in Future : Done(e)' = Done(e)
      BY <1>2, <1>3, <2>2 DEF Done
    <3> QED
      BY <2>2, <3>1, UntoldStep DEF waitVars
  <2> QED
    BY <1>5, <2>1, <2>2 DEF SetRunning
<1>6. CASE step = "set_result" /\ SetResult(f)
  <2>1. state[f] = "RUNNING"
    BY <1>2, <1>6 DEF IInv, Staged, Stage, Ending, Held
  <2>2. ~Done(f) /\ Done(f)' /\ \A e \in Future : e # f => Done(e)' = Done(e)
    BY <1>2, <1>3, <1>6, <2>1 DEF SetResult, Done
  <2> QED
    BY <1>2, <1>6, <2>2, ToldStep DEF SetResult
<1>7. CASE step = "release" /\ Release(f)
  BY <1>7, UntoldStep DEF Release, waitVars, Done
<1> QED
  BY <1>4, <1>5, <1>6, <1>7

LEMMA NextWInv == ASSUME Countable, IInv, WInv, [Next]_vars PROVE WInv'
<1>1. state \in [Future -> States]
  BY DEF IInv, TypeOK
<1>2. ASSUME NEW w \in Worker, WorkerStep(w) PROVE WInv'
  <2>1. UNCHANGED <<waitVars, state>>
    BY <1>2 DEF WorkerStep, Get, Empty, AfterEmpty, Proceed, FnEnds, Finally
  <2> QED
    BY <2>1, UntoldStep DEF waitVars, Done
<1>3. ASSUME NEW f \in Future, Submit(f) \/ Cancel(f) PROVE WInv'
  <2>1. \A e \in Future : Done(e)' = Done(e)
    BY <1>1, <1>3 DEF Submit, Cancel, Done
  <2> QED
    BY <1>3, <2>1, UntoldStep DEF Submit, Cancel, waitVars
<1>4. CASE (\E wait \in BOOLEAN : Shutdown(wait)) \/ Joined \/ Run \/ Ends \/ Interrupt \/ UNCHANGED vars
  <2>1. UNCHANGED <<waitVars, state>>
    BY <1>4 DEF Shutdown, Joined, Run, Ends, Interrupt, vars
  <2> QED
    BY <2>1, UntoldStep DEF waitVars, Done
<1>5. ASSUME NEW g \in Greenlet, GreenletStep(g) PROVE WInv'
  BY <1>5, GreenletStepStep
<1>6. CASE LoopStep
  BY <1>6, LoopStepTells
<1> QED
  BY <1>2, <1>3, <1>4, <1>5, <1>6, Zenon DEF Next

(* The waiters of jega/futures/_base.py count exactly: wait() knows how    *)
(* many of its futures it has to hear of yet, and as_completed() has all   *)
(* of those it still has to yield, whatever was done or cancelled when and *)
(* while it waits.                                                         *)
THEOREM WaitersCount == ASSUME Countable PROVE Spec => []WaiterExact
<1>1. Init => WInv
  BY InitWInv
<1>2. IInv /\ WInv /\ [Next]_vars => WInv'
  BY NextWInv
<1>3. WInv => WaiterExact
  BY DEF WInv
<1> QED
  BY <1>1, <1>2, <1>3, Inductive, PTL DEF Spec
=============================================================================
