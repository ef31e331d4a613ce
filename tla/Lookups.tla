-------------------------------- MODULE Lookups --------------------------------
(***************************************************************************)
(* The worlds in which hosts and addresses are looked up: the order of     *)
(* lookups, the hosts file and what the servers answer, as Hostents and    *)
(* AddressInfo have them.  A world is one of several, and its hosts file   *)
(* gets one line after another.                                            *)
(***************************************************************************)
EXTENDS AddressInfo

CONSTANTS
  HostName,       \* texts that are names
  Number,         \* addresses, of either family
  PortNumber,
  HostsLine,      \* the lines of the hosts file
  Worlds,         \* what else a world may have
  MaxHosts        \* bound: the lines of the hosts file

(* Nothing is looked up anywhere, and nobody would answer.                 *)
Nowhere ==
  [lookups |-> <<>>, sortlist |-> <<>>, hosts |-> <<>>, services |-> {}, ports |-> <<>>,
   answers |-> [type \in {"A", "AAAA", "PTR"} |-> Failed("ECONNREFUSED")]]

(* A server answers the question for an address's name with names.         *)
IsWorld(w) ==
  /\ DOMAIN w = DOMAIN Nowhere
  /\ w.lookups \in Seq({"f", "b"})
  /\ w.hosts \in Seq(HostsLine)
  /\ w.answers["PTR"].status = "SUCCESS" =>
       /\ Len(w.answers["PTR"].reply.rrs) \in Nat
       /\ \A i \in 1 .. Len(w.answers["PTR"].reply.rrs) :
            w.answers["PTR"].reply.rrs[i].data \in HostName

ASSUME NameAssumption == \A name \in HostName : name.kind = "name"

ASSUME HostsAssumption ==
  \A line \in HostsLine :
    /\ line.names \in Seq(HostName)
    /\ line.address = AddressText(line.address.is, line.address.kind)

ASSUME WorldAssumption == \A w \in Worlds : IsWorld(w)

VARIABLE world
-----------------------------------------------------------------------------
InitWorld == world = Nowhere

Enter == world = Nowhere /\ world' \in Worlds

AddHost ==
  /\ Len(world.hosts) < MaxHosts
  /\ \E line \in HostsLine : world' = [world EXCEPT !.hosts = Append(@, line)]

Depart == world # Nowhere /\ world' = Nowhere

WorldStep == Enter \/ AddHost \/ Depart

WorldSpec == InitWorld /\ [][WorldStep]_world

Peer(number, port) == [family |-> "inet", address |-> number, port |-> port, scope |-> 0]

(* What is known without the servers is found whatever they answer: the    *)
(* address that accept and getpeername give, an address given as text,     *)
(* other than 255.255.255.255, and a name of the hosts file if that is     *)
(* looked at first.                                                        *)
KnownWithoutServers ==
  /\ HostsAreFound(world)
  /\ \A number \in Number :
       /\ \A port \in PortNumber, flags \in SUBSET {"NAMEREQD", "NUMERICHOST"} :
            PeersAreFound(world, Peer(number, port), flags)
       /\ \A host \in Texts(number), family \in {"unspec", "inet", "inet6"}, socktype \in 0 .. 2 :
            ListedOnce(world, host, family, socktype)
=============================================================================
