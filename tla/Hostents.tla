------------------------------- MODULE Hostents -------------------------------
(***************************************************************************)
(* What a lookup comes to: the hosts file and the servers' replies, put    *)
(* together by c-ares as a hostent, and handed to Python by the callbacks  *)
(* of src/lookup.c.  (Replies has how a reply is parsed, and Resolver the  *)
(* queries and the waiting; here the world a lookup meets is given.)       *)
(*                                                                         *)
(* A text is a name or the text of an address: [kind, is], of kind "name", *)
(* "inet", "inet6", or "scoped", an inet6 address with its scope.  The     *)
(* hosts file is a sequence of lines: a text where the address should be,  *)
(* and names.                                                              *)
(***************************************************************************)
EXTENDS Replies

CONSTANT INADDR_NONE      \* the address 255.255.255.255

TypeOf(family) == IF family = "inet" THEN "A" ELSE "AAAA"

(* inet_pton for a family, and inet_ntop.                                  *)
IsAddress(text, family) == text.kind = family
AddressText(address, family) == [kind |-> family, is |-> address]

(* inet_addr: INADDR_NONE is what no address is, and an address as well.   *)
InetAddr(text) == IF IsAddress(text, "inet") THEN text.is ELSE INADDR_NONE
-----------------------------------------------------------------------------
HostOf(line) == Host(Head(line.names), Tail(line.names), line.address.kind, <<line.address.is>>)

(* ares__get_hostent, called until the end of the file: the lines that     *)
(* have a name, and an address of the family.                              *)
GetHostents(hosts, family) ==
  {i \in DOMAIN hosts :
     /\ hosts[i].names # <<>>
     /\ \/ family \in {"inet", "unspec"} /\ InetAddr(hosts[i].address) # INADDR_NONE
        \/ family \in {"inet6", "unspec"} /\ IsAddress(hosts[i].address, "inet6")}

(* file_lookup of ares_gethostbyname.c, and of ares_gethostbyaddr.c: the   *)
(* host of the first line that fits.                                       *)
FileLookup(hosts, fitting) ==
  IF fitting = {} THEN Failed("ENOTFOUND")
  ELSE Found(HostOf(hosts[CHOOSE i \in fitting : \A j \in fitting : i <= j]))

FileByName(hosts, name, family) ==
  FileLookup(hosts, {i \in GetHostents(hosts, family) :
                       \E k \in DOMAIN hosts[i].names : hosts[i].names[k] = name})

FileByAddr(hosts, address, family) ==
  FileLookup(hosts, {i \in GetHostents(hosts, family) :
                       hosts[i].address = AddressText(address, family)})
-----------------------------------------------------------------------------
(* host_callback sorts what it has parsed.                                 *)
Sorted(w, result) ==
  IF result.status = "SUCCESS"
  THEN [result EXCEPT !.host.h_addr_list = SortAddresses(@, w.sortlist)] ELSE result
-----------------------------------------------------------------------------
(* A world w has the channel's lookups and sort list, the hosts file, and  *)
(* what becomes of a query of each type: its reply if its status is        *)
(* SUCCESS.                                                                *)

(* fake_hostent: the text of an IPv4 address is its own host, also when an *)
(* IPv6 address is wanted; nothing is when either is.                      *)
FakeHostent(text, family) ==
  IF family # "unspec" /\ InetAddr(text) # INADDR_NONE
    THEN Found(Host(text, <<>>, "inet", <<text.is>>))
  ELSE IF family = "inet6" /\ IsAddress(text, "inet6")
    THEN Found(Host(text, <<>>, "inet6", <<text.is>>))
  ELSE Failed("ENOTFOUND")

(* next_lookup, of ares_gethostbyname.c and of ares_gethostbyaddr.c: what  *)
(* the lookups come to, one after the other, until one is the last.  file  *)
(* is what the hosts file has, and query what asking the servers comes to. *)
NextLookup(lookups, status, file, query) ==
  LET after[k \in 0 .. Len(lookups)] ==
        IF k = 0 THEN [over |-> FALSE, result |-> Failed(status)]
        ELSE IF after[k - 1].over THEN after[k - 1]
        ELSE IF lookups[k] = "b" THEN query
        ELSE IF file.status = "SUCCESS" THEN [over |-> TRUE, result |-> file]
        ELSE after[k - 1]
  IN after[Len(lookups)].result

(* host_callback: an answer of this type is the last if there is one.      *)
Answered(w, type) ==
  IF w.answers[type].status = "SUCCESS"
  THEN [over |-> TRUE, result |-> Sorted(w, ParseAddressReply(type, w.answers[type].reply))]
  ELSE [over |-> FALSE, result |-> Failed(w.answers[type].status)]

(* Without a family an IPv4 address will do, if there is no other.         *)
HostCallback(w, family) ==
  LET first == Answered(w, TypeOf(family))
      again == first.result.status \in {"ENODATA", "EBADRESP", "ETIMEOUT"}
  IN IF family = "unspec" /\ again THEN Answered(w, "A") ELSE first

AresGetHostByName(w, text, family) ==
  LET fake == FakeHostent(text, family)
  IN IF fake.status = "SUCCESS" THEN fake
     ELSE NextLookup(w.lookups, "ECONNREFUSED", FileByName(w.hosts, text, family),
                       HostCallback(w, family))

(* addr_callback.                                                          *)
AddrCallback(w, address, family) ==
  IF w.answers["PTR"].status = "SUCCESS"
  THEN [over |-> TRUE, result |-> ParsePtrReply(w.answers["PTR"].reply, address, family)]
  ELSE [over |-> FALSE, result |-> Failed("ENOTFOUND")]

AresGetHostByAddr(w, address, family) ==
  NextLookup(w.lookups, "ENOTFOUND", FileByAddr(w.hosts, address, family),
             AddrCallback(w, address, family))
-----------------------------------------------------------------------------
(* gethost_data: the name, the aliases other than it, the addresses.       *)
GethostData(result) ==
  IF result.status # "SUCCESS" THEN result
  ELSE LET host == result.host
           Other(alias) == alias # host.h_name
       IN [status |-> "SUCCESS",
           name |-> host.h_name,
           aliases |-> SelectSeq(host.h_aliases, Other),
           addrs |-> [i \in DOMAIN host.h_addr_list |->
                        AddressText(host.h_addr_list[i], host.h_addrtype)]]

(* gethostbyname_cb takes the first address; aliases without any are       *)
(* a host too, of which it reads where there is nothing.                   *)
GetHostByName(w, text, family) ==
  LET First(data) ==
        IF data.status # "SUCCESS" THEN data
        ELSE IF data.addrs = <<>> THEN Failed("NULL")
        ELSE [status |-> "SUCCESS", text |-> Head(data.addrs)]
  IN First(GethostData(AresGetHostByName(w, text, family)))

GetHostByNameEx(w, text, family) == GethostData(AresGetHostByName(w, text, family))

(* async_gethostbyaddr, and gethostbyaddr_cb.                              *)
AsyncGetHostByAddr(w, text) == GethostData(AresGetHostByAddr(w, text.is, text.kind))

(* SocketMod_gethostbyaddr: a name's address is looked up first.           *)
GetHostByAddr(w, text) ==
  LET Of(named) ==
        IF named.status = "SUCCESS" THEN AsyncGetHostByAddr(w, named.text) ELSE named
  IN IF text.kind \in {"inet", "inet6"} THEN AsyncGetHostByAddr(w, text)
     ELSE Of(GetHostByName(w, text, "unspec"))
-----------------------------------------------------------------------------
(* c-ares takes 255.255.255.255 for no address.                            *)
LooksLikeNone(text) == text.kind = "inet" /\ text.is = INADDR_NONE

(* A name of the hosts file that is looked at first is found there, in the *)
(* first line that has it and an address other than 255.255.255.255,       *)
(* whatever the servers would say, and so is a name for that address.      *)
LinesWith(hosts, name) ==
  {i \in DOMAIN hosts :
     /\ hosts[i].address.kind \in {"inet", "inet6"}
     /\ ~LooksLikeNone(hosts[i].address)
     /\ \E k \in DOMAIN hosts[i].names : hosts[i].names[k] = name}

HostsAreFound(w) ==
  w.lookups # <<>> /\ Head(w.lookups) = "f" =>
    \A i \in DOMAIN w.hosts : \A k \in DOMAIN w.hosts[i].names :
      LET name == w.hosts[i].names[k]
          lines == LinesWith(w.hosts, name)
          found == GetHostByAddr(w, name)
      IN lines # {} =>
           /\ found.status = "SUCCESS"
           /\ \E first \in lines :
                /\ \A j \in lines : first <= j
                /\ found.addrs = <<w.hosts[first].address>>
=============================================================================
