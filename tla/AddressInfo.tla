------------------------------ MODULE AddressInfo ------------------------------
(***************************************************************************)
(* getaddrinfo, getnameinfo and the addresses of sockets, as src/socket.c  *)
(* and src/lookup.c make them from lookups.                                *)
(*                                                                         *)
(* A world also has the services the system knows, as pairs of a name and  *)
(* a protocol.  A port is a number, a service's name, in bytes or as a     *)
(* string, or None: [kind, is].                                            *)
(***************************************************************************)
EXTENDS Hostents

STREAM == 1
DGRAM == 2
RAW == 3

Port(n) == [kind |-> "int", is |-> n]
EmptyText == [kind |-> "empty", is |-> "none"]
Any4 == AddressText("0.0.0.0", "inet")
Loopback6 == AddressText("::1", "inet6")
-----------------------------------------------------------------------------
(* append_addrinfo_result: a type is tested bit by bit, so that RAW, which *)
(* has STREAM's bit, is STREAM.                                            *)
SocktypeAndProto(socktype) ==
  IF socktype % 2 = 1 THEN <<STREAM, 6>> ELSE <<DGRAM, 17>>

(* match_socktype and match_proto.                                         *)
Supported(socktype, proto) == (socktype = 0 \/ socktype % 4 # 0) /\ proto \in {0, 6, 17}

(* getsocktype_list.                                                       *)
SocktypeList(socktype, proto) ==
  IF socktype > 0 THEN <<SocktypeAndProto(socktype)>>
  ELSE IF proto > 0 THEN <<SocktypeAndProto(IF proto = 6 THEN STREAM ELSE DGRAM)>>
  ELSE <<SocktypeAndProto(STREAM), SocktypeAndProto(DGRAM), SocktypeAndProto(RAW)>>

(* Mutant: what is in the list already is appended again.                  *)
AppendAll(list, iplist) == list \o iplist

(* append_iplists, with its check.                                         *)
AppendNew(list, iplist) ==
  LET after[k \in 0 .. Len(iplist)] ==
        IF k = 0 THEN list
        ELSE IF \E i \in DOMAIN after[k - 1] : after[k - 1][i] = iplist[k] THEN after[k - 1]
        ELSE Append(after[k - 1], iplist[k])
  IN after[Len(iplist)]

(* getaddrinfohosts: without a family, an error of the IPv4 lookup is an   *)
(* error, and one of the IPv6 lookup is not.                               *)
Addrinfohosts(w, host, family) ==
  LET V4 == GetHostByNameEx(w, IF host.kind = "empty" THEN Any4 ELSE host, "inet")
      V6 == GetHostByNameEx(w, IF host.kind = "empty" THEN Loopback6 ELSE host, "inet6")
      Both(v4, v6) ==
        IF v4.status = "SUCCESS" /\ v6.status = "SUCCESS"
        THEN [v4 EXCEPT !.addrs = AppendNew(@, v6.addrs)] ELSE v4
  IN CASE family = "inet" -> V4
       [] family = "inet6" -> V6
       [] family = "unspec" -> Both(V4, V6)
       [] OTHER -> Failed("EAFNOSUPPORT")

(* is_af_inet_address prints the first bytes of a text as if they were an  *)
(* address, which never fails: it is AF_INET for any.                      *)
EntryFamily(family) == IF family = "unspec" THEN "inet" ELSE family

(* convert_getaddrifo_result: for each host, an entry for each type.       *)
Entries(hosts, socktypes, port, family) ==
  LET n == Len(socktypes) IN
  [k \in 1 .. Len(hosts) * n |->
     [family |-> EntryFamily(family),
      socktype |-> socktypes[((k - 1) % n) + 1][1],
      proto |-> socktypes[((k - 1) % n) + 1][2],
      sockaddr |-> <<hosts[((k - 1) \div n) + 1], port>>]]

(* getservbyname_socktype: a service decides the type if none is asked for.*)
ServByName(w, name, socktype) ==
  LET try == CASE socktype = 0 -> <<<<"tcp", STREAM>>, <<"udp", DGRAM>>>>
               [] socktype = STREAM -> <<<<"tcp", STREAM>>>>
               [] socktype = DGRAM -> <<<<"udp", DGRAM>>>>
               [] OTHER -> <<>>
      Known(t) == <<name, t[1]>> \in w.services
      known == SelectSeq(try, Known)
  IN IF known = <<>> THEN Failed("ESERVICE")
     ELSE [status |-> "SUCCESS", port |-> <<name, known[1][1]>>, socktype |-> known[1][2]]

(* SocketMod_getaddrinfo for a host that is not None: the port may be a    *)
(* service's name in bytes, but not a string.                              *)
GetAddrInfo(w, host, port, family, socktype, proto) ==
  LET Listed(service, hosts) ==
        IF service.status # "SUCCESS" THEN service
        ELSE IF ~Supported(service.socktype, proto) THEN Failed("ESOCKTYPE")
        ELSE IF hosts.status # "SUCCESS" THEN hosts
        ELSE [status |-> "SUCCESS",
              list |-> Entries(hosts.addrs, SocktypeList(service.socktype, proto),
                               service.port, family)]
  IN IF port.kind = "str" THEN Failed("EPORT")
     ELSE Listed(IF port.kind = "bytes" THEN ServByName(w, port.is, socktype)
                 ELSE [status |-> "SUCCESS", socktype |-> socktype,
                       port |-> IF port.kind = "none" THEN 0 ELSE port.is],
                 Addrinfohosts(w, host, family))
-----------------------------------------------------------------------------
(* A socket's address has a family, an address, a port and a scope.        *)

(* The number of an address, with its scope if it is an IPv6 one.          *)
NumericHost(sa) ==
  AddressText(sa.address, IF sa.family = "inet6" THEN "scoped" ELSE "inet")

(* lookup_service.                                                         *)
Service(w, port, flags) ==
  LET proto == IF "DGRAM" \in flags THEN "udp" ELSE "tcp"
      known == {s \in w.services : s[2] = proto /\ w.ports[s] = port}
  IN CASE port = 0 -> Failed("none")
       [] port # 0 /\ ("NUMERICSERV" \in flags \/ known = {}) -> Port(port)
       [] OTHER -> [kind |-> "bytes", is |-> (CHOOSE s \in known : TRUE)[1]]

NameinfoCallback(sa, flags, found) ==
  IF found.status = "SUCCESS" THEN [status |-> "SUCCESS", name |-> found.host.h_name]
  ELSE IF found.status = "ENOTFOUND" /\ "NAMEREQD" \notin flags
    THEN [status |-> "SUCCESS", name |-> NumericHost(sa)]
  ELSE Failed(found.status)

(* ares_getnameinfo, when a host is asked for.                             *)
AresGetNameInfo(w, sa, flags) ==
  IF "NUMERICHOST" \notin flags
    THEN NameinfoCallback(sa, flags, AresGetHostByAddr(w, sa.address, sa.family))
  ELSE IF "NAMEREQD" \in flags THEN Failed("EBADFLAGS")
  ELSE [status |-> "SUCCESS", name |-> NumericHost(sa)]

(* make_nameinfo_sockaddr.                                                 *)
NameinfoSockaddr(text, port, scope) ==
  IF text.kind \in {"inet", "inet6"}
  THEN [status |-> "SUCCESS",
        sa |-> [family |-> text.kind, address |-> text.is, port |-> port, scope |-> scope]]
  ELSE Failed("EINVAL")

(* SocketMod_getnameinfo: the host and the service are always asked for.   *)
GetNameInfo(w, text, port, scope, flags) ==
  LET Named(host) ==
        IF host.status # "SUCCESS" THEN host
        ELSE [status |-> "SUCCESS", name |-> host.name, service |-> Service(w, port, flags)]
      Of(made) ==
        IF made.status # "SUCCESS" THEN made ELSE Named(AresGetNameInfo(w, made.sa, flags))
  IN Of(NameinfoSockaddr(text, port, scope))

(* getaddrtuple: what accept, getpeername and getsockname return.  A unix  *)
(* socket's path is what it is bound to.                                   *)
AddrTuple(w, sa) ==
  LET text == AresGetNameInfo(w, sa, {"NUMERICHOST"}).name
  IN CASE sa.family = "unix" -> <<sa.address>>
       [] sa.family = "inet" -> <<text, sa.port>>
       [] sa.family = "inet6" -> <<text, sa.port, 0, sa.scope>>

(* async_getsockaddr and getsockaddr_cb: the bytes of the first address.   *)
FirstAddress(w, text) ==
  LET Bytes(first) ==
        IF first.status # "SUCCESS" THEN first
        ELSE [status |-> "SUCCESS", address |-> first.text.is]
  IN Bytes(GetHostByName(w, text, "inet"))

(* getsockaddr: setip_inet, and setip_inet6, which looks up an IPv4        *)
(* address and copies more bytes than it has.                              *)
SockAddr(w, tuple, family) ==
  LET text == IF tuple[1].kind # "empty" THEN tuple[1]
              ELSE IF family = "inet" THEN Any4 ELSE Loopback6
      Filled(address) ==
        [status |-> "SUCCESS",
         sa |-> [family |-> family, address |-> address, port |-> tuple[2],
                 scope |-> IF family = "inet" THEN 0 ELSE IF Len(tuple) > 3 THEN tuple[4] ELSE 0]]
      Of(found) ==
        IF found.status # "SUCCESS" THEN found
        ELSE Filled(IF family = "inet" THEN found.address ELSE "garbage")
  IN IF IsAddress(text, family) THEN Filled(text.is) ELSE Of(FirstAddress(w, text))
-----------------------------------------------------------------------------
Texts(address) == [kind : {"inet", "inet6"}, is : {address}]

(* An address is not looked up, whatever the servers would say: without a  *)
(* family, or with its own, it is listed once for each of the types,       *)
(* although it is asked for twice without a family.  255.255.255.255 is    *)
(* looked up.                                                              *)
ListedOnce(w, host, family, socktype) ==
  LET Once(info) ==
        /\ info.status = "SUCCESS"
        /\ Len(info.list) = Len(SocktypeList(socktype, 0))
        /\ \A i \in DOMAIN info.list : info.list[i].sockaddr = <<host, 80>>
  IN \/ host.kind = "inet" /\ ~LooksLikeNone(host) /\ family \in {"unspec", "inet"}
     \/ host.kind = "inet6" /\ family = "inet6"
     => Once(GetAddrInfo(w, host, Port(80), family, socktype, 0))

(* The address a socket's peer is said to have leads to that peer, and no  *)
(* lookup is made for it; so does the number getnameinfo gives for it.     *)
PeersAreFound(w, sa, flags) ==
  LET Back(again) == again.status = "SUCCESS" /\ again.sa = sa
      Numeric(info) ==
        info.status = "SUCCESS" /\ info.name.kind = "inet" => info.name = NumericHost(sa)
  IN sa.family = "inet" =>
       /\ Back(SockAddr(w, AddrTuple(w, sa), "inet"))
       /\ Numeric(GetNameInfo(w, NumericHost(sa), sa.port, sa.scope, flags))
=============================================================================
