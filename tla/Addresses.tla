------------------------------- MODULE Addresses -------------------------------
(***************************************************************************)
(* Addresses as text: inet_ntop and inet_net_pton of c-ares, for systems   *)
(* that lack one of these (inet_net_pton reads the entries of a sort list  *)
(* on most of them).                                                       *)
(*                                                                         *)
(* A text is a sequence of tokens: Colon, Period, Slash, or a group of     *)
(* digits, which is its value in the base it is read in.  (Groups with     *)
(* leading zeros or more than four digits, which are refused, and strings  *)
(* of hexadecimal digits for an IPv4 address are left out.)  An IPv4       *)
(* address is a sequence of bytes, an IPv6 address of words of 16 bits.    *)
(* The room for a result is always that of an address.                     *)
(***************************************************************************)
EXTENDS Integers, Sequences, SequencesExt

Colon == -1
Period == -2
Slash == -3

ENOENT == [bits |-> -1]
IsGroup(token) == token >= 0
Tok(text, i) == IF i \in DOMAIN text THEN text[i] ELSE -4
From(text, i) == SubSeq(text, i, Len(text))
Zeros(n) == [i \in 1 .. n |-> 0]
-----------------------------------------------------------------------------
Ntop4(octets) == <<octets[1], Period, octets[2], Period, octets[3], Period, octets[4]>>

(* The first of the longest runs of zero words, if it is longer than one.  *)
BestRun(words) ==
  LET runs == {r \in (1 .. 8) \X (2 .. 8) :
                 r[1] + r[2] <= 9 /\ \A i \in r[1] .. r[1] + r[2] - 1 : words[i] = 0}
  IN IF runs = {} THEN <<0, 0>>
     ELSE CHOOSE r \in runs : \A s \in runs : r[2] > s[2] \/ (r[2] = s[2] /\ r[1] <= s[1])

Octets(words) == <<words[7] \div 256, words[7] % 256, words[8] \div 256, words[8] % 256>>

(* inet_ntop6: the best run is a colon, and so is what goes before each    *)
(* word but the first; another one ends a run at the end.                  *)
Ntop6(words) ==
  LET best == BestRun(words)
      InBest(i) == best[1] <= i /\ i < best[1] + best[2]
      IsV4 == best[1] = 1 /\ (best[2] = 6 \/ (best[2] = 5 /\ words[6] = 65535))
      Word(i) == IF InBest(i) THEN (IF i = best[1] THEN <<Colon>> ELSE <<>>)
                 ELSE (IF i = 1 THEN <<>> ELSE <<Colon>>)
                        \o (IF i = 7 /\ IsV4 THEN Ntop4(Octets(words)) ELSE <<words[i]>>)
  IN FlattenSeq([i \in 1 .. (IF IsV4 THEN 7 ELSE 8) |-> Word(i)])
       \o (IF best[2] > 0 /\ best[1] + best[2] = 9 THEN <<Colon>> ELSE <<>>)
-----------------------------------------------------------------------------
(* getbits: the width after a slash, 0 if there is none.                   *)
IsWidth(rest, limit) == Len(rest) = 1 /\ IsGroup(rest[1]) /\ rest[1] <= limit

(* inet_net_pton_ipv4.  A width that is not given is the class's, or that  *)
(* of the bytes; bytes that the width covers are filled with zeros.        *)
RECURSIVE Decimal(_, _)
Decimal(text, bytes) ==
  LET group == Tok(text, 1)
      more == Append(bytes, group) IN
  IF ~IsGroup(group) \/ group > 255 \/ Len(bytes) = 4 THEN ENOENT
  ELSE CASE Len(text) = 1 -> [bits |-> 0, bytes |-> more, width |-> <<>>]
         [] Tok(text, 2) = Slash -> [bits |-> 0, bytes |-> more, width |-> From(text, 3)]
         [] Tok(text, 2) = Period -> Decimal(From(text, 3), more)
         [] OTHER -> ENOENT

ClassBits(bytes) ==
  LET first == bytes[1]
      class == CASE first >= 240 -> 32
                 [] 224 <= first /\ first < 240 -> 8
                 [] 192 <= first /\ first < 224 -> 24
                 [] 128 <= first /\ first < 192 -> 16
                 [] OTHER -> 8
      wide == IF class < 8 * Len(bytes) THEN 8 * Len(bytes) ELSE class
  IN IF wide = 8 /\ first = 224 THEN 4 ELSE wide

Pton4(text) ==
  LET r == Decimal(text, <<>>)
      slash == \E i \in DOMAIN text : text[i] = Slash
      bits == IF slash THEN r.width[1] ELSE ClassBits(r.bytes)
      missing == (bits + 7) \div 8 - Len(r.bytes)
  IN IF r.bits = -1 \/ (slash /\ ~IsWidth(r.width, 32)) THEN ENOENT
     ELSE [bits |-> bits, bytes |-> IF missing > 0 THEN r.bytes \o Zeros(missing) ELSE r.bytes]

(* getv4: up to four bytes, and a width; a byte that is left out is zero.  *)
RECURSIVE GetV4(_, _, _, _)
GetV4(text, octets, val, n) ==
  LET token == Tok(text, 1)
      stored == Append(octets, val)
      Padded(o) == o \o Zeros(4 - Len(o)) IN
  IF text = <<>>
    THEN IF n = 0 \/ Len(octets) > 3 THEN ENOENT ELSE [bits |-> 128, octets |-> Padded(stored)]
  ELSE IF IsGroup(token) THEN IF token > 255 THEN ENOENT ELSE GetV4(Tail(text), octets, token, 1)
  ELSE IF token = Colon \/ Len(octets) > 3 THEN ENOENT
  ELSE IF token = Slash
    THEN IF IsWidth(Tail(text), 128) THEN [bits |-> text[2], octets |-> Padded(stored)] ELSE ENOENT
  ELSE GetV4(Tail(text), stored, 0, 0)

(* The loop of inet_net_pton_ipv6 at a token: the words so far, where the  *)
(* double colon is (-1 for nowhere), the group since the last colon, if    *)
(* any, and its place.  full: it returns at once, with nothing written.    *)
RECURSIVE Scan(_, _, _, _, _, _)
Scan(text, i, words, colonp, group, curtok) ==
  LET token == Tok(text, i)
      v4 == GetV4(From(text, curtok), <<>>, 0, 0)
      End(bits, ipv4, ws) == [bits |-> bits, ipv4 |-> ipv4, words |-> ws, colonp |-> colonp, full |-> FALSE]
      WithGroup(bits) ==
        IF group = <<>> THEN End(bits, FALSE, words)
        ELSE IF Len(words) = 8 THEN ENOENT
        ELSE End(bits, FALSE, words \o group) IN
  CASE i > Len(text) -> WithGroup(128)
    [] IsGroup(token) -> Scan(text, i + 1, words, colonp, <<token>>, curtok)
    [] token = Colon /\ group = <<>> ->
         IF colonp # -1 THEN ENOENT ELSE Scan(text, i + 1, words, Len(words), <<>>, i + 1)
    [] token = Colon /\ group # <<>> ->
         IF i = Len(text) THEN ENOENT
         ELSE IF Len(words) = 8 THEN [bits |-> 0, full |-> TRUE]
         ELSE Scan(text, i + 1, words \o group, colonp, <<>>, i + 1)
    [] token = Period ->
         IF Len(words) > 6 \/ v4.bits = -1 THEN ENOENT
         ELSE End(v4.bits, TRUE, words \o <<v4.octets[1] * 256 + v4.octets[2],
                                            v4.octets[3] * 256 + v4.octets[4]>>)
    [] token = Slash ->
         IF IsWidth(From(text, i + 1), 128) THEN WithGroup(text[i + 1]) ELSE ENOENT
    [] OTHER -> ENOENT

(* Mutant: the words that move are not cleared where they were.            *)
ShiftedUncleared(words, colonp, last) ==
  LET n == Len(words) - colonp IN
  FoldLeft(LAMBDA tmp, i : [tmp EXCEPT ![last + 1 - i] = tmp[colonp + n + 1 - i]],
           words \o Zeros(8 - Len(words)), [i \in 1 .. n |-> i])

(* What follows the double colon moves to the end, word by word.  (The     *)
(* width covers at least the words that are given.)                        *)
Shifted(words, colonp, last) ==
  LET n == Len(words) - colonp IN
  FoldLeft(LAMBDA tmp, i :
             [[tmp EXCEPT ![last + 1 - i] = tmp[colonp + n + 1 - i]]
                EXCEPT ![colonp + n + 1 - i] = 0],
           words \o Zeros(8 - Len(words)), [i \in 1 .. n |-> i])

(* inet_net_pton_ipv6: only as many words as the width needs are read.     *)
Pton6(text) ==
  LET start == IF Tok(text, 1) = Colon THEN 2 ELSE 1
      r == Scan(text, start, <<>>, -1, <<>>, start)
      needed == (r.bits + 15) \div 16
      last == IF r.ipv4 THEN 8 ELSE IF needed < 2 THEN 2 ELSE needed
  IN IF Tok(text, 1) = Colon /\ Tok(text, 2) # Colon THEN ENOENT
     ELSE IF r.bits = -1 THEN ENOENT
     ELSE IF r.full THEN [bits |-> 0, words |-> <<>>]
     ELSE IF r.colonp = -1
       THEN IF Len(r.words) # last THEN ENOENT
            ELSE [bits |-> r.bits, words |-> SubSeq(r.words, 1, (r.bits + 15) \div 16)]
     ELSE IF Len(r.words) = last THEN ENOENT
     ELSE [bits |-> r.bits,
           words |-> SubSeq(Shifted(r.words, r.colonp, last), 1, (r.bits + 15) \div 16)]
-----------------------------------------------------------------------------
Bit(byte, k) == (byte \div 2 ^ (7 - k)) % 2

And(l, r) == FoldLeft(LAMBDA byte, k : 2 * byte + Bit(l, k - 1) * Bit(r, k - 1), 0, [k \in 1 .. 8 |-> k])

(* ares_bitncmp: whether the first n bits of two sequences are the same.   *)
SameBits(l, r, n) ==
  /\ \A i \in 1 .. n \div 8 : l[i] = r[i]
  /\ \A k \in 0 .. (n % 8) - 1 : Bit(l[n \div 8 + 1], k) = Bit(r[n \div 8 + 1], k)

(* ip_addr, for an address of four bytes.                                  *)
IsQuad(text) ==
  Len(text) = 7 /\ \A i \in 1 .. 7 : IF i % 2 = 0 THEN text[i] = Period ELSE text[i] \in 0 .. 255
Quad(text) == <<text[1], text[3], text[5], text[7]>>

NaturalMask(octets) ==
  CASE octets[1] < 128 -> <<255, 0, 0, 0>>
    [] octets[1] \in 128 .. 191 -> <<255, 255, 0, 0>>
    [] OTHER -> <<255, 255, 255, 0>>

(* config_sortlist, for one entry: a network with the width of its prefix, *)
(* or an IPv4 address with the mask that is given, or that of its class.   *)
SortEntry(text) ==
  LET slashes == {i \in DOMAIN text : text[i] = Slash}
      slash == IF slashes = {} THEN Len(text) + 1 ELSE CHOOSE i \in slashes : \A j \in slashes : i <= j
      ip == SubSeq(text, 1, slash - 1)
      mask == From(text, slash + 1)
  IN CASE Pton6(text).bits > 0 ->
            [type |-> "CIDR", family |-> "inet6", addr |-> Pton6(text).words, bits |-> Pton6(text).bits]
       [] Pton6(text).bits <= 0 /\ slashes # {} /\ Pton4(text).bits > 0 ->
            [type |-> "CIDR", family |-> "inet", addr |-> Pton4(text).bytes, bits |-> Pton4(text).bits]
       [] Pton6(text).bits <= 0 /\ ~(slashes # {} /\ Pton4(text).bits > 0) /\ IsQuad(ip) ->
            [type |-> "MASK", family |-> "inet", addr |-> Quad(ip),
             mask |-> IF IsQuad(mask) THEN Quad(mask) ELSE NaturalMask(Quad(ip))]
       [] OTHER -> [type |-> "none"]

(* get_address_index, for one pattern.                                     *)
Matches(pattern, octets) ==
  /\ pattern.family = "inet"
  /\ CASE pattern.type = "MASK" -> [i \in 1 .. 4 |-> And(octets[i], pattern.mask[i])] = pattern.addr
       [] pattern.type = "CIDR" -> SameBits(octets, pattern.addr, pattern.bits)
-----------------------------------------------------------------------------
(* A network of the sort list matches an address if and only if they have  *)
(* their first bits in common, whether it is written with a width or, with *)
(* all of its other bits zero, with a mask.                                *)
MatchesNetwork(octets, address) ==
  LET Bits(o) == FlattenSeq([i \in 1 .. 4 |-> [k \in 1 .. 8 |-> Bit(o[i], k - 1)]])
      Mask(n) == [i \in 1 .. 4 |-> 256 - 2 ^ (IF n >= 8 * i THEN 0 ELSE IF n <= 8 * (i - 1) THEN 8 ELSE 8 * i - n)]
      Network(n) == [i \in 1 .. 4 |-> And(octets[i], Mask(n)[i])]
      Same(n) == SubSeq(Bits(octets), 1, n) = SubSeq(Bits(address), 1, n)
  IN \A n \in {1, 7, 8, 9, 16, 23, 31, 32} :
       /\ Matches(SortEntry(Ntop4(octets) \o <<Slash, n>>), address) <=> Same(n)
       /\ Matches(SortEntry(Ntop4(Network(n)) \o <<Slash>> \o Ntop4(Mask(n))), address) <=> Same(n)

(* An address printed and read again is the same address, of all its bits, *)
(* with the double colon in any place and with its end in decimal; and the *)
(* first words of one, with the width they have, are read as these words.  *)
ReadsBack4(octets) == Pton4(Ntop4(octets)) = [bits |-> 32, bytes |-> octets]

ReadsBack6(words) ==
  LET Net(n) == Append(FlattenSeq([i \in 1 .. n |-> IF i = 1 THEN <<words[1]>> ELSE <<Colon, words[i]>>]),
                       Slash) \o <<16 * n>>
  IN /\ Pton6(Ntop6(words)) = [bits |-> 128, words |-> words]
     /\ \A n \in 2 .. 8 : Pton6(Net(n)) = [bits |-> 16 * n, words |-> SubSeq(words, 1, n)]
=============================================================================
