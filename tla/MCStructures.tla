----------------------------- MODULE MCStructures -----------------------------
(* The parts that have no actors, side by side: each is explored while the  *)
(* others stand as they began, for none reads another's state.              *)
(*   - A RingQueue with two items that starts with three slots and may      *)
(*     double once, so that every position of first, wrapped and not, is    *)
(*     reached before and after the doubling.                               *)
(*   - A HeapQueue with eight timers, some of them with the same deadline,  *)
(*     which makes four levels with one item in the last and doubles twice. *)
(*   - Every message, read as names, and every text, written as a query, of *)
(*     up to six bytes: zero, two lengths, which are characters of a text,  *)
(*     the dot and the backslash, and the first byte of a pointer.          *)
(*   - Replies with aliases and addresses, one record after another, for    *)
(*     three names and three addresses.                                     *)
(*   - The settings of channels, in surroundings of every kind and with up   *)
(*     to two lines of resolv.conf.                                         *)
(*   - The functions of c-ares and of src/socket.c, on one input at a time: *)
(*     input is its kind and the input itself.                              *)
EXTENDS RingQueue, HeapQueue, Messages, Settings, Lookups

CONSTANTS a, b

VARIABLE input

MCItem == {a, b}

MCTimer == 1 .. 8
MCSeconds == [t \in MCTimer |-> (t + 1) \div 2]

MCByte == {0, 1, 2, 46, 92, 192}

MCName == [kind : {"name"}, is : {"x", "y", "z"}]
X == [kind |-> "name", is |-> "x"]
Y == [kind |-> "name", is |-> "y"]
Z == [kind |-> "name", is |-> "z"]
MCAddress == {1, 2, 3}
MCSortLists == {<<>>, <<{3}, {2, 3}>>}

A == INSTANCE Addresses
-----------------------------------------------------------------------------
(* What a channel may be configured by.                                     *)
Entry(key, value) == [key |-> key, value |-> value]
MCIPv4 == {"v4", "127.0.0.1"}
MCServer == MCIPv4 \cup {"v6"}
MCPattern == {"net"}
OptionSets ==
  {ChannelOptions, [sortlist |-> <<>>], [flags |-> "PRIMARY", ndots |-> 3],
   [rotate |-> 1, servers |-> <<"v4">>],
   [domains |-> <<"o">>, sortlist |-> <<"net">>, lookups |-> <<"f">>],
   [domains |-> <<"o">>, sortlist |-> <<"net">>, lookups |-> <<"f">>, servers |-> <<"v4">>,
    ndots |-> 1, timeout |-> 100, tries |-> 1]}
Environment ==
  [LOCALDOMAIN : {Unset, <<"e">>},
   RES_OPTIONS : {Unset, <<Entry("ndots", 5), Entry("ndots", 6), Entry("other", 0)>>}]
MCLine ==
  {Entry("domain", <<"d">>), Entry("search", <<"s", "d">>), Entry("lookup", <<"bind", "other", "file">>),
   Entry("nameserver", <<"v6">>), Entry("nameserver", <<"garbled">>), Entry("nameserver", <<"v4">>),
   Entry("sortlist", <<"net", "garbled">>),
   Entry("options", <<Entry("ndots", 7), Entry("rotate", 1)>>),
   Entry("options", <<Entry("retrans", 9), Entry("retry", 8)>>)}
Nsswitch == {<<>>, <<Entry("passwd:", <<"files">>)>>, <<Entry("hosts:", <<"dns", "files">>)>>}
Others ==     \* host.conf and svc.conf
  {<< <<>>, <<>> >>, << <<Entry("order", <<"hosts", "bind">>)>>, <<>> >>,
   << <<>>, <<Entry("hosts=", <<"local", "bind">>), Entry("hosts=", <<"bind">>)>> >>}
File(state, lines) == [state |-> state, lines |-> lines]
MCSurroundings ==
  {[options |-> o, env |-> e, hostdomain |-> d,
    files |-> [resolv_conf |-> File(r, <<>>), nsswitch |-> File(st, n),
               host_conf |-> File("read", h[1]), svc_conf |-> File("read", h[2])]] :
     o \in OptionSets, e \in Environment, d \in {Unset, "h"},
     r \in {"read", "unreadable"}, st \in {"read", "unreadable"}, n \in Nsswitch, h \in Others}
-----------------------------------------------------------------------------
NoReply == [question |-> X, rrs |-> <<>>]

(* Worlds with every outcome of the lookups, for hosts that the file has or *)
(* has not.                                                                 *)
RR(owner, type, data) == [owner |-> owner, type |-> type, data |-> data, whole |-> TRUE]
AnswerOf(type, data) ==
  {[status |-> s, reply |-> NoReply] : s \in {"ENOTFOUND", "ETIMEOUT"}}
    \cup {[status |-> "SUCCESS", reply |-> [question |-> X, rrs |-> <<RR(X, type, data)>>]]}
HostLine(kind, address, names) ==
  [address |-> [kind |-> kind, is |-> address], names |-> names]
MCHostsLine ==
  {HostLine("inet6", 1, <<Y, X>>), HostLine("inet", 1, <<X>>), HostLine("name", "x", <<Z>>),
   HostLine("inet", 2, <<X, Z>>), HostLine("inet", 2, <<>>), HostLine("inet", 255, <<X>>)}
MCNumber == {1, 255}
MCPortNumber == {80}
MCWorlds ==
  [lookups : {<<"f", "b">>, <<"b", "f">>, <<"b">>, <<"f">>}, sortlist : {<<>>}, hosts : {<<>>},
   services : {{<<"http", "tcp">>}}, ports : {[s \in {<<"http", "tcp">>} |-> 80]},
   answers : [A : AnswerOf("A", 2), AAAA : AnswerOf("AAAA", 2), PTR : AnswerOf("PTR", Y)]]

-----------------------------------------------------------------------------
Choose ==
  \/ \E octets \in [1 .. 4 -> {0, 1, 192, 224, 255}] : input' = <<"inet", octets>>
  \/ \E words \in [1 .. 8 -> {0, 1, 65535}] : input' = <<"inet6", words>>

NoInput == <<"none">>

InputStep == (input = NoInput /\ Choose) \/ (input # NoInput /\ input' = NoInput)

MCInit == InitQueue /\ InitHeap /\ InitMessage /\ InitReply /\ InitSurroundings /\ InitWorld /\ input = NoInput

MCNext ==
  \/ /\ InitHeap /\ InitMessage /\ InitReply /\ InitSurroundings /\ InitWorld /\ input = NoInput
     /\ QueueStep /\ UNCHANGED <<heapVars, message, reply, surroundings, world, input>>
  \/ /\ InitQueue /\ InitMessage /\ InitReply /\ InitSurroundings /\ InitWorld /\ input = NoInput
     /\ HeapStep /\ UNCHANGED <<ringVars, message, reply, surroundings, world, input>>
  \/ /\ InitQueue /\ InitHeap /\ InitReply /\ InitSurroundings /\ InitWorld /\ input = NoInput
     /\ MessageStep /\ UNCHANGED <<ringVars, heapVars, reply, surroundings, world, input>>
  \/ /\ InitQueue /\ InitHeap /\ InitMessage /\ InitSurroundings /\ InitWorld /\ input = NoInput
     /\ ReplyStep /\ UNCHANGED <<ringVars, heapVars, message, surroundings, world, input>>
  \/ /\ InitQueue /\ InitHeap /\ InitMessage /\ InitReply /\ InitWorld /\ input = NoInput
     /\ SurroundingsStep /\ UNCHANGED <<ringVars, heapVars, message, reply, world, input>>
  \/ /\ InitQueue /\ InitHeap /\ InitMessage /\ InitReply /\ InitSurroundings /\ input = NoInput
     /\ WorldStep /\ UNCHANGED <<ringVars, heapVars, message, reply, surroundings, input>>
  \/ /\ InitQueue /\ InitHeap /\ InitMessage /\ InitReply /\ InitSurroundings /\ InitWorld
     /\ InputStep /\ UNCHANGED <<ringVars, heapVars, message, reply, surroundings, world>>

MCSpec == MCInit /\ [][MCNext]_<<ringVars, heapVars, message, reply, surroundings, world, input>>
-----------------------------------------------------------------------------
(* inet_ntop and inet_net_pton: an address that is printed is read as the   *)
(* same address, wherever its zeros are, and a prefix as its first words.   *)
(* config_sortlist and get_address_index: a network matches its addresses.  *)
ReadsBack ==
  /\ input[1] = "inet" =>
       /\ A!ReadsBack4(input[2])
       /\ \A address \in [1 .. 4 -> {1, 192}] : A!MatchesNetwork(input[2], address)
  /\ input[1] = "inet6" => A!ReadsBack6(input[2])
=============================================================================
