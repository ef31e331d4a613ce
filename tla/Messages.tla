-------------------------------- MODULE Messages --------------------------------
(***************************************************************************)
(* The messages from the network: any bytes, as many as the buffer takes,  *)
(* for c-ares to read names in; and replies, by their records, of a server *)
(* that conforms, to a question for addresses.                             *)
(***************************************************************************)
EXTENDS Queries, Replies

CONSTANTS
  Byte,         \* the bytes that messages are made of
  MaxMessage,   \* the size of the buffer for a message
  Name,         \* domain names
  Asked,        \* the one a server is asked about
  Address,
  SortLists,    \* patterns of a sort list, each the set of addresses it matches
  MaxRecords    \* bound: the records of a reply

ASSUME ByteAssumption == Byte \subseteq 0 .. 255

ASSUME ReplyAssumption == Asked \in Name /\ SortLists \subseteq Seq(SUBSET Address)

VARIABLES
  message,      \* what has been received
  reply         \* the same, as records
-----------------------------------------------------------------------------
InitMessage == message = <<>>

Receive ==
  /\ Len(message) < MaxMessage
  /\ \E byte \in Byte : message' = Append(message, byte)

(* It has been answered, and the buffer is used for another.               *)
Discard == message # <<>> /\ message' = <<>>

MessageStep == Receive \/ Discard

MessageSpec == InitMessage /\ [][MessageStep]_message

(* ares_expand_name: a name of a message is read if and only if it ends    *)
(* inside of the message, whatever its pointers do, and the text that the  *)
(* second pass writes has the length for which the first made room.        *)
ExpandsNames == ReadsNames(message)

(* Texts of C have no zero.                                                *)
IsText(bytes) == \A i \in DOMAIN bytes : bytes[i] # 0

(* ares_mkquery: the query has the whole name and question of a text, what *)
(* is read there is the text, and same_questions finds them in an answer;  *)
(* for every text, and every byte that the memory of the query may hold.   *)
WritesNames ==
  LET text == SubSeq(message, 1, Len(message) - 1)
      memory == message[Len(message)]
  IN message # <<>> /\ IsText(text) => WritesName(text, memory)

(* ares_mkquery: the length it counts first is enough for what it writes.  *)
CountsNames == IsText(message) => MakesRoom(message)
-----------------------------------------------------------------------------
Record ==
  [owner : Name, type : {"CNAME"}, data : Name, whole : {TRUE}]
    \cup [owner : Name, type : {"A", "AAAA"}, data : Address, whole : {TRUE}]

InitReply == reply = [question |-> Asked, rrs |-> <<>>]

Answer ==
  /\ Len(reply.rrs) < MaxRecords
  /\ \E rr \in Record : reply' = [reply EXCEPT !.rrs = Append(@, rr)]
  /\ Conforms(reply')

AskAgain == reply.rrs # <<>> /\ reply' = [reply EXCEPT !.rrs = <<>>]

ReplyStep == Answer \/ AskAgain

ReplySpec == InitReply /\ [][ReplyStep]_reply

(* ares_parse_a_reply and ares_parse_aaaa_reply, with the sort of          *)
(* ares_gethostbyname: a conforming reply comes to the last alias with all *)
(* of its addresses and no other, and the sort list's order is theirs.     *)
FollowsAliases ==
  \A type \in {"A", "AAAA"} :
    LET parsed == ParseAddressReply(type, reply) IN
    /\ FindsAddresses(type, reply)
    /\ parsed.status = "SUCCESS" =>
         \A sortlist \in SortLists : SortsStably(parsed.host.h_addr_list, sortlist)
=============================================================================
