-------------------------------- MODULE Replies --------------------------------
(***************************************************************************)
(* The replies of name servers, as c-ares parses them into hostents, and   *)
(* the order in which it returns addresses.                                *)
(*                                                                         *)
(* A reply answers a question, a name, with resource records, each with    *)
(* its owner, type and data; one that is cut off is not whole.             *)
(***************************************************************************)
EXTENDS Integers, Sequences

Failed(status) == [status |-> status]
Found(host) == [status |-> "SUCCESS", host |-> host]

Host(name, aliases, family, addrs) ==
  [h_name |-> name, h_aliases |-> aliases, h_addrtype |-> family, h_addr_list |-> addrs]

FamilyOf(type) == IF type = "A" THEN "inet" ELSE "inet6"

Whole(rrs) == \A i \in DOMAIN rrs : rrs[i].whole
-----------------------------------------------------------------------------
(* Mutant: an address counts whoever it belongs to.                        *)
AddressRecordOfAny(type, r, rr) ==
  IF rr.type = type THEN [r EXCEPT !.addrs = Append(@, rr.data)]
  ELSE IF rr.type = "CNAME"
    THEN [r EXCEPT !.aliases = Append(@, rr.owner), !.hostname = rr.data]
  ELSE r

(* One record of a reply to an address query: any alias replaces the name  *)
(* whose addresses are taken.                                              *)
AddressRecord(type, r, rr) ==
  IF rr.type = type /\ rr.owner = r.hostname THEN [r EXCEPT !.addrs = Append(@, rr.data)]
  ELSE IF rr.type = "CNAME"
    THEN [r EXCEPT !.aliases = Append(@, rr.owner), !.hostname = rr.data]
  ELSE r

(* What has been read with the last of the records, after k of them.       *)
AddressRecords(type, reply) ==
  LET r[k \in 0 .. Len(reply.rrs)] ==
        IF k = 0 THEN [hostname |-> reply.question, aliases |-> <<>>, addrs |-> <<>>]
        ELSE AddressRecord(type, r[k - 1], reply.rrs[k])
  IN r[Len(reply.rrs)]

(* ares_parse_a_reply and ares_parse_aaaa_reply, which takes aliases       *)
(* without an address for no data.                                         *)
ParseAddressReply(type, reply) ==
  LET r == AddressRecords(type, reply)
  IN IF ~Whole(reply.rrs) THEN Failed("EBADRESP")
     ELSE IF r.addrs = <<>> /\ (r.aliases = <<>> \/ type = "AAAA") THEN Failed("ENODATA")
     ELSE Found(Host(r.hostname, r.aliases, FamilyOf(type), r.addrs))

PtrRecord(r, rr) ==
  IF rr.type = "PTR" /\ rr.owner = r.ptrname
    THEN [r EXCEPT !.hostname = rr.data, !.aliases = Append(@, rr.data)]
  ELSE IF rr.type = "CNAME" THEN [r EXCEPT !.ptrname = rr.data]
  ELSE r

PtrRecords(reply) ==
  LET r[k \in 0 .. Len(reply.rrs)] ==
        IF k = 0 THEN [ptrname |-> reply.question, hostname |-> "none", aliases |-> <<>>]
        ELSE PtrRecord(r[k - 1], reply.rrs[k])
  IN r[Len(reply.rrs)]

(* ares_parse_ptr_reply: the last name is the host's, all of them are its  *)
(* aliases.                                                                *)
ParsePtrReply(reply, address, family) ==
  LET r == PtrRecords(reply)
  IN IF ~Whole(reply.rrs) THEN Failed("EBADRESP")
     ELSE IF r.aliases = <<>> THEN Failed("ENODATA")
     ELSE Found(Host(r.hostname, r.aliases, family, <<address>>))
-----------------------------------------------------------------------------
(* sort_addresses and sort6_addresses: an insertion sort by the first      *)
(* pattern of the sort list that an address matches.  A pattern is the set *)
(* of the addresses it matches.                                            *)
AddressIndex(address, sortlist) ==
  LET matching == {i \in DOMAIN sortlist : address \in sortlist[i]}
  IN IF matching = {} THEN Len(sortlist) + 1 ELSE CHOOSE i \in matching : \A j \in matching : i <= j

(* How many of the addresses stay before one that is moved back.           *)
Place(addrs, address, sortlist) ==
  LET Before(a) == AddressIndex(a, sortlist) <= AddressIndex(address, sortlist)
  IN CHOOSE n \in 0 .. Len(addrs) :
       /\ n > 0 => Before(addrs[n])
       /\ \A m \in n + 1 .. Len(addrs) : ~Before(addrs[m])

Inserted(addrs, address, n) ==
  [k \in 1 .. Len(addrs) + 1 |->
     IF k <= n THEN addrs[k] ELSE IF k = n + 1 THEN address ELSE addrs[k - 1]]

SortAddresses(addrs, sortlist) ==
  LET sorted[k \in 0 .. Len(addrs)] ==
        IF k = 0 THEN <<>>
        ELSE Inserted(sorted[k - 1], addrs[k], Place(sorted[k - 1], addrs[k], sortlist))
  IN sorted[Len(addrs)]
-----------------------------------------------------------------------------
(* A conforming server answers with m aliases from the question on, each   *)
(* the next one's owner, and then with records of the last one.            *)
Leads(reply, m) ==
  /\ \A i \in DOMAIN reply.rrs : reply.rrs[i].type = "CNAME" <=> i <= m
  /\ \A i \in 1 .. m :
       reply.rrs[i].owner = IF i = 1 THEN reply.question ELSE reply.rrs[i - 1].data

Canonical(reply, m) == IF m = 0 THEN reply.question ELSE reply.rrs[m].data

Conforms(reply) == Whole(reply.rrs) /\ \E m \in 0 .. Len(reply.rrs) : Leads(reply, m)

(* A sequence has the data of these records, in their order.               *)
HasData(seq, rrs, these) ==
  \E h \in [DOMAIN seq -> these] :
    /\ \A i, j \in DOMAIN seq : i < j => h[i] < h[j]
    /\ \A k \in these : \E i \in DOMAIN seq : h[i] = k
    /\ \A i \in DOMAIN seq : seq[i] = rrs[h[i]].data

(* A conforming reply comes to the last alias with all of its addresses,   *)
(* in their order, and the names that lead there.                          *)
FindsAddresses(type, reply) ==
  \A m \in 0 .. Len(reply.rrs) :
    LET parsed == ParseAddressReply(type, reply)
        these == {i \in DOMAIN reply.rrs :
                    reply.rrs[i].type = type /\ reply.rrs[i].owner = Canonical(reply, m)}
    IN Whole(reply.rrs) /\ Leads(reply, m) =>
         IF these = {} /\ (type = "AAAA" \/ m = 0) THEN parsed = Failed("ENODATA")
         ELSE /\ parsed.status = "SUCCESS"
              /\ parsed.host = Host(Canonical(reply, m), [i \in 1 .. m |-> reply.rrs[i].owner],
                                    FamilyOf(type), parsed.host.h_addr_list)
              /\ HasData(parsed.host.h_addr_list, reply.rrs, these)

(* Every address is there as often as before; those that the sort list     *)
(* prefers come first, and the order is kept among those that it does not  *)
(* tell apart.                                                             *)
SortsStably(addrs, sortlist) ==
  LET sorted == SortAddresses(addrs, sortlist)
      Index(i) == AddressIndex(sorted[i], sortlist)
  IN /\ DOMAIN sorted = DOMAIN addrs
     /\ \E h \in [DOMAIN addrs -> DOMAIN addrs] :
          /\ \A i \in DOMAIN addrs : sorted[i] = addrs[h[i]]
          /\ \A k \in DOMAIN addrs : \E i \in DOMAIN addrs : h[i] = k
          /\ \A i, j \in DOMAIN addrs :
               i < j => Index(i) < Index(j) \/ (Index(i) = Index(j) /\ h[i] < h[j])
=============================================================================
