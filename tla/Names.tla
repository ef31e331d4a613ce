--------------------------------- MODULE Names ---------------------------------
(***************************************************************************)
(* Domain names in DNS messages, as ares_expand_name reads them.           *)
(*                                                                         *)
(* A message is a sequence of bytes.  A name in it is a sequence of        *)
(* labels, each a length and as many bytes; it ends with a zero byte, or   *)
(* goes on where a pointer of two bytes says.  As text, its labels are     *)
(* joined by dots; a dot or a backslash inside of a label has a backslash  *)
(* before it.  Positions are counted from 0, as the code's are.            *)
(***************************************************************************)
EXTENDS Integers, Sequences

Dot == 46
Backslash == 92
IndirMask == 192

EBADNAME == [status |-> "EBADNAME"]

At(s, p) == s[p + 1]

IsIndirect(byte) == byte >= IndirMask
Offset(abuf, p) == (At(abuf, p) - IndirMask) * 256 + At(abuf, p + 1)

(* The label at p, and where it ends.                                      *)
After(abuf, p) == p + 1 + At(abuf, p)
LabelAt(abuf, p) == SubSeq(abuf, p + 2, After(abuf, p))

(* What a loop of at most n turns makes of a state.  A turn is a function  *)
(* of the state, and the loop is over when it changes nothing.             *)
Looped(turn, n) ==
  LET loop[k \in 0 .. n] ==
        [s \in DOMAIN turn |-> IF k = 0 \/ turn[s] = s THEN s ELSE loop[k - 1][turn[s]]]
  IN loop[n]

EscapedByte(c) == IF c \in {Dot, Backslash} THEN <<Backslash, c>> ELSE <<c>>

(* A turn of the loop over a label, of which i bytes are behind: the next  *)
(* one is written to the text q, or counted.                               *)
CopyByte(label, s) ==
  IF s.i = Len(label) THEN s
  ELSE [i |-> s.i + 1, q |-> s.q \o EscapedByte(At(label, s.i))]

CountByte(label, s) ==
  IF s.i = Len(label) THEN s
  ELSE [i |-> s.i + 1, n |-> s.n + IF At(label, s.i) \in {Dot, Backslash} THEN 2 ELSE 1]

Escaped(label) ==
  LET turn == [s \in [i : Nat, q : Seq(Nat)] |-> CopyByte(label, s)]
  IN Looped(turn, Len(label))[[i |-> 0, q |-> <<>>]].q

EscapedLength(label) ==
  LET turn == [s \in [i : Nat, n : Nat] |-> CountByte(label, s)]
  IN Looped(turn, Len(label))[[i |-> 0, n |-> 0]].n
-----------------------------------------------------------------------------
(* Mutant: no pointer is followed after another.                           *)
MeasureOnePointer(abuf, s) ==
  IF ~s.ok \/ At(abuf, s.p) = 0 THEN s
  ELSE IF IsIndirect(At(abuf, s.p))
    THEN IF s.p + 1 >= Len(abuf) \/ Offset(abuf, s.p) >= Len(abuf) \/ s.indir > 0
         THEN [s EXCEPT !.ok = FALSE]
         ELSE [s EXCEPT !.p = Offset(abuf, s.p), !.indir = @ + 1]
  ELSE IF After(abuf, s.p) >= Len(abuf) THEN [s EXCEPT !.ok = FALSE]
  ELSE [s EXCEPT !.p = After(abuf, s.p), !.n = @ + EscapedLength(LabelAt(abuf, s.p)) + 1]

(* A turn of the loop of name_length: p is the place in the message, n the *)
(* length so far, indir the number of pointers followed, which may not     *)
(* exceed the number of bytes; a name that is refused is not ok.           *)
Measure(abuf, s) ==
  IF ~s.ok \/ At(abuf, s.p) = 0 THEN s
  ELSE IF IsIndirect(At(abuf, s.p))
    THEN IF s.p + 1 >= Len(abuf) \/ Offset(abuf, s.p) >= Len(abuf) \/ s.indir + 1 > Len(abuf)
         THEN [s EXCEPT !.ok = FALSE]
         ELSE [s EXCEPT !.p = Offset(abuf, s.p), !.indir = @ + 1]
  ELSE IF After(abuf, s.p) >= Len(abuf) THEN [s EXCEPT !.ok = FALSE]
  ELSE [s EXCEPT !.p = After(abuf, s.p), !.n = @ + EscapedLength(LabelAt(abuf, s.p)) + 1]

(* The turns of either loop: between two pointers it only goes forward.    *)
Turns(abuf) == Len(abuf) * (Len(abuf) + 1)

Measured(abuf, encoded) ==
  LET turn == [s \in [p : Nat, n : Nat, indir : Nat, ok : BOOLEAN] |-> Measure(abuf, s)]
  IN Looped(turn, Turns(abuf))[[p |-> encoded, n |-> 0, indir |-> 0, ok |-> TRUE]]

NameLength(abuf, encoded) ==
  LET last == Measured(abuf, encoded)
  IN IF encoded = Len(abuf) \/ ~last.ok THEN -1
     ELSE IF last.n = 0 THEN 0 ELSE last.n - 1

(* A turn of the loop of ares_expand_name, which trusts the first pass: q  *)
(* is the text so far, and enclen is 0 before the first pointer.           *)
Expand(abuf, encoded, s) ==
  IF At(abuf, s.p) = 0 THEN s
  ELSE IF IsIndirect(At(abuf, s.p))
    THEN [s EXCEPT !.p = Offset(abuf, s.p),
                   !.enclen = IF @ = 0 THEN s.p + 2 - encoded ELSE @]
  ELSE [s EXCEPT !.p = After(abuf, s.p), !.q = @ \o Escaped(LabelAt(abuf, s.p)) \o <<Dot>>]

Expanded(abuf, encoded) ==
  LET turn == [s \in [p : Nat, q : Seq(Nat), enclen : Nat] |-> Expand(abuf, encoded, s)]
  IN Looped(turn, Turns(abuf))[[p |-> encoded, q |-> <<>>, enclen |-> 0]]

(* A name without labels is "", and its pointers are not followed again.   *)
ExpandName(abuf, encoded) ==
  LET nlen == NameLength(abuf, encoded)
      last == Expanded(abuf, encoded)
  IN IF nlen < 0 THEN EBADNAME
     ELSE IF nlen = 0
       THEN [status |-> "SUCCESS", s |-> <<>>,
             enclen |-> IF IsIndirect(At(abuf, encoded)) THEN 2 ELSE 1]
     ELSE [status |-> "SUCCESS", s |-> SubSeq(last.q, 1, Len(last.q) - 1),
           enclen |-> IF last.enclen = 0 THEN last.p + 1 - encoded ELSE last.enclen]
-----------------------------------------------------------------------------
(* Where what stands at p goes on, if it is not cut off.                   *)
Onward(abuf, p) == IF IsIndirect(At(abuf, p)) THEN Offset(abuf, p) ELSE After(abuf, p)

(* A name has an end: a zero byte, or the end of the name that it goes on  *)
(* with.  The positions of names are the fewest with all of these, so that *)
(* a walk that comes back to where it was is none.                         *)
HasEnds(abuf, P) ==
  \A p \in 0 .. Len(abuf) - 1 :
    \/ At(abuf, p) = 0
    \/ (IsIndirect(At(abuf, p)) => p + 1 < Len(abuf)) /\ Onward(abuf, p) \in P
    => p \in P

NamesIn(abuf) ==
  LET all == {P \in SUBSET (0 .. Len(abuf) - 1) : HasEnds(abuf, P)}
  IN {p \in 0 .. Len(abuf) - 1 : \A P \in all : p \in P}

(* A name is read if and only if it ends inside of the message: the limit  *)
(* on the pointers refuses every loop and nothing else.  Both passes end,  *)
(* and at the same byte, and the text the second writes is as long as the  *)
(* first has counted.                                                      *)
ReadsNames(abuf) ==
  LET names == NamesIn(abuf) IN
  \A p \in 0 .. Len(abuf) :
    LET name == ExpandName(abuf, p)
        nlen == NameLength(abuf, p)
        last == Measured(abuf, p)
    IN /\ name.status = "SUCCESS" <=> p \in names
       /\ p < Len(abuf) /\ last.ok => At(abuf, last.p) = 0
       /\ name.status = "SUCCESS" =>
            /\ Len(name.s) = nlen
            /\ nlen > 0 => Expanded(abuf, p).p = last.p
            /\ p + name.enclen <= Len(abuf)
=============================================================================
