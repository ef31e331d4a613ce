-------------------------------- MODULE Queries --------------------------------
(***************************************************************************)
(* The messages of c-ares: a query, as ares_mkquery writes it, and the     *)
(* questions of a query and of its answer, as same_questions compares      *)
(* them.  (Names has how a name is read.)                                  *)
(***************************************************************************)
EXTENDS Names

CONSTANTS
  MaxLabel,     \* MAXLABEL
  MaxCdName     \* MAXCDNAME

(* A length is no pointer.                                                 *)
ASSUME LabelAssumption == MaxLabel \in 1 .. IndirMask - 1
-----------------------------------------------------------------------------
(* Where the character at p is: a backslash stands for what follows it,    *)
(* unless it is the last.                                                  *)
CharAt(text, p) ==
  IF At(text, p) = Backslash /\ p + 1 < Len(text) THEN p + 1 ELSE p

CountChar(text, s) ==
  IF s.p >= Len(text) THEN s ELSE [p |-> CharAt(text, s.p) + 1, n |-> s.n + 1]

Characters(text) ==
  LET turn == [s \in [p : Nat, n : Nat] |-> CountChar(text, s)]
  IN Looped(turn, Len(text))[[p |-> 0, n |-> 0]].n

(* Mutant: there is always a label after the last period.                  *)
CountedWithEnd(text) == 1 + Characters(text) + (IF text # <<>> THEN 1 ELSE 0)

(* The length ares_mkquery counts before it writes anything.               *)
Counted(text) ==
  1 + Characters(text) + (IF text # <<>> /\ At(text, Len(text) - 1) # Dot THEN 1 ELSE 0)

(* A turn of the loops over a label, which count and copy its characters.  *)
CopyChar(text, s) ==
  IF s.p >= Len(text) THEN s
  ELSE IF At(text, s.p) = Dot THEN s
  ELSE [p |-> CharAt(text, s.p) + 1, bytes |-> Append(s.bytes, At(text, CharAt(text, s.p)))]

(* The bytes of the label at p, and where it ends.                         *)
Label(text, p) ==
  LET turn == [s \in [p : Nat, bytes : Seq(Nat)] |-> CopyChar(text, s)]
  IN Looped(turn, Len(text))[[p |-> p, bytes |-> <<>>]]

(* A turn of the loop over the labels, of which q is what has been written.*)
(* No label may be empty, but for the end of the text.                     *)
WriteLabel(text, s) ==
  LET label == Label(text, s.p) IN
  IF s.p >= Len(text) \/ ~s.ok THEN s
  ELSE IF At(text, s.p) = Dot \/ Len(label.bytes) > MaxLabel THEN [s EXCEPT !.ok = FALSE]
  ELSE [s EXCEPT !.p = label.p + 1, !.q = @ \o <<Len(label.bytes)>> \o label.bytes]

Written(text) ==
  LET turn == [s \in [p : Nat, q : Seq(Nat), ok : BOOLEAN] |-> WriteLabel(text, s)]
  IN Looped(turn, Len(text))[[p |-> 0, q |-> <<>>, ok |-> TRUE]]

(* The question: the name with the zero at its end, and a byte each for    *)
(* type and class.                                                         *)
Encoded(text, dnsclass, type) ==
  LET written == Written(IF text = <<Dot>> THEN <<>> ELSE text)
  IN IF ~written.ok THEN EBADNAME
     ELSE [status |-> "SUCCESS", bytes |-> Append(written.q, 0) \o <<type, dnsclass>>]

(* The query has the length that was counted, however much is written: what*)
(* is written behind it is not in the query, and what is not written there *)
(* is as it was in the memory.                                             *)
Mkquery(text, dnsclass, type, memory) ==
  LET encoded == Encoded(text, dnsclass, type)
      buflen == Counted(text) + 2
      buf == encoded.bytes \o [i \in 1 .. buflen |-> memory]
  IN IF Counted(text) > MaxCdName \/ encoded.status # "SUCCESS" THEN EBADNAME
     ELSE [status |-> "SUCCESS", bytes |-> SubSeq(buf, 1, buflen)]
-----------------------------------------------------------------------------
(* same_questions, for one question: its name, type and class, as the      *)
(* query and its answer write them.  Type and class are a byte each here,  *)
(* and letters that differ in case are the same letter.                    *)
Question(buf, p) ==
  LET Follows(name) ==
        IF name.status # "SUCCESS" \/ p + name.enclen + 2 > Len(buf) THEN EBADNAME
        ELSE [status |-> "SUCCESS", s |-> name.s, next |-> p + name.enclen + 2,
              type |-> At(buf, p + name.enclen), dnsclass |-> At(buf, p + name.enclen + 1)]
  IN Follows(ExpandName(buf, p))

(* The first count questions of a message, or as many as can be read.      *)
Questions(buf, start, count) ==
  LET Read(list, question) ==
        IF question.status # "SUCCESS"
        THEN [list |-> Append(list, EBADNAME), next |-> Len(buf), over |-> TRUE]
        ELSE [list |-> Append(list, [s |-> question.s, type |-> question.type,
                                     dnsclass |-> question.dnsclass]),
              next |-> question.next, over |-> FALSE]
      after[k \in 0 .. count] ==
        IF k = 0 THEN [list |-> <<>>, next |-> start, over |-> FALSE]
        ELSE IF after[k - 1].over THEN after[k - 1]
        ELSE Read(after[k - 1].list, Question(buf, after[k - 1].next))
  IN after[count].list

(* Each question that was asked is among those of the answer, before the   *)
(* first that cannot be read.                                              *)
SameQuestions(query, answer) ==
  LET Repeated(asked, repeated) ==
        \A i \in DOMAIN asked :
          /\ asked[i] # EBADNAME
          /\ \E j \in DOMAIN repeated :
               /\ repeated[j] = asked[i]
               /\ \A k \in 1 .. j : repeated[k] # EBADNAME
  IN /\ query.qdcount = answer.qdcount
     /\ Repeated(Questions(query.buf, 0, query.qdcount), Questions(answer.buf, 0, answer.qdcount))
-----------------------------------------------------------------------------
(* A dot at the end that a backslash keeps from ending a label.  The       *)
(* character at k is escaped if the one before is a backslash that is not. *)
EndsEscaped(text) ==
  LET escaped[k \in 0 .. Len(text)] ==
        IF k = 0 THEN FALSE ELSE At(text, k - 1) = Backslash /\ ~escaped[k - 1]
  IN text # <<>> /\ At(text, Len(text) - 1) = Dot /\ escaped[Len(text) - 1]

(* There is room for the question that is written.                         *)
MakesRoom(text) ==
  LET encoded == Encoded(text, 1, 1)
  IN encoded.status = "SUCCESS" => Len(encoded.bytes) <= Counted(text) + 2

(* An answer has the same question as a query, of which n bytes are the    *)
(* question, if it has it among its own, and as many, with its name as it  *)
(* is or as a pointer to an earlier one, and not if the type is another.   *)
Compares(query, n) ==
  LET Entire(type) == SubSeq(query[type].bytes, 1, n)
      Message(count, buf) == [qdcount |-> count, buf |-> buf]
      Asking(type) == Message(1, query[type].bytes)
      AskingTwice(type) == Message(2, Entire(type) \o <<IndirMask, 0, 2, 1>>)
  IN \A type \in {1, 2} :
       \A same \in {<<Asking(1), Asking(type), type = 1>>,
                   <<AskingTwice(1), AskingTwice(type), type = 1>>,
                   <<Message(2, Entire(2) \o Entire(2)), AskingTwice(type), TRUE>>,
                   <<Asking(1), AskingTwice(type), FALSE>>} :
         SameQuestions(same[1], same[2]) <=> same[3]

(* The query is the whole question, with a byte behind it for the text     *)
(* that is but a dot.  Its name is read again as the text, without the dot *)
(* at its end and the backslashes it does not need, and what is read makes *)
(* the same query.                                                         *)
IsWhole(text, memory, query, name) ==
  LET n == name.enclen + 2 IN
  /\ name.status = "SUCCESS"
  /\ Len(query[1].bytes) = IF text = <<Dot>> THEN n + 1 ELSE n
  /\ (\A i \in DOMAIN text : text[i] # Backslash) => text \in {name.s, Append(name.s, Dot)}
  /\ \/ text = <<Dot>> \/ EndsEscaped(name.s) \/ Counted(name.s) > MaxCdName
     \/ Mkquery(name.s, 1, 1, memory) = query[1]
  /\ Compares(query, n)

(* So are the queries that ares_mkquery makes, of both types, but for a    *)
(* text that ends in an escaped dot.                                       *)
WritesName(text, memory) ==
  LET query == <<Mkquery(text, 1, 1, memory), Mkquery(text, 1, 2, memory)>> IN
  query[1].status = "SUCCESS" /\ ~EndsEscaped(text) =>
    IsWhole(text, memory, query, ExpandName(query[1].bytes, 0))
=============================================================================
