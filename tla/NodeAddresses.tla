---------------------------- MODULE NodeAddresses ----------------------------
(***************************************************************************)
(* The list of addresses of an instance, as nodeAddresses of               *)
(* kinx_instances.go computes it from two documents of the compute API:    *)
(*   - the attached interfaces, a sequence of [addr, subnet, active];      *)
(*   - the server, [access4, access6, addresses], where addresses is a     *)
(*     sequence of entries [net, floating, addr] in the order the loops    *)
(*     visit them (by name of the network).                                *)
(* An interface has one fixed address.  The host name, which no property   *)
(* is about, is left out.                                                  *)
(***************************************************************************)
EXTENDS SequencesExt

CONSTANTS
  V6,     \* the addresses that are IPv6 addresses
  None    \* no address, no server, no provider ID

Types == {"InternalIP", "ExternalIP"}

NodeAddress(t, a) == [type |-> t, addr |-> a]

\* Mutant: nothing is looked up before the append.
MutAdd(addrs, new) == Append(addrs, new)

Add(addrs, new) == IF Contains(addrs, new) THEN addrs ELSE Append(addrs, new)

\* Every caller leaves the type of the address to remove empty: all types go.
Drop(addrs, a) ==
  FoldLeft(LAMBDA kept, x : IF x.addr = a THEN kept ELSE Append(kept, x), <<>>, addrs)

\* opts is [public, internal, noV6]: public-network-name and
\* internal-network-name as sets of networks, and ipv6-support-disabled.
Supported(a, opts) == ~(a \in V6 /\ opts.noV6)

AddSupported(addrs, t, a, opts) ==
  IF Supported(a, opts) THEN Add(addrs, NodeAddress(t, a)) ELSE addrs

\* Mutant: the state of the port does not matter.
MutAddInterface(addrs, i, opts) == AddSupported(addrs, "InternalIP", i.addr, opts)

AddInterface(addrs, i, opts) ==
  IF i.active THEN AddSupported(addrs, "InternalIP", i.addr, opts) ELSE addrs

\* The private addresses come first, in the order of the interfaces.
AfterInterfaces(interfaces, opts) ==
  FoldLeft(LAMBDA addrs, i : AddInterface(addrs, i, opts), <<>>, interfaces)

\* Mutant: access addresses that are not set are not left out.
MutAfterAccess(server, interfaces, opts) ==
  Add(Add(AfterInterfaces(interfaces, opts),
          NodeAddress("ExternalIP", server.access4)),
      NodeAddress("ExternalIP", server.access6))

AfterAccess(server, interfaces, opts) ==
  LET private == AfterInterfaces(interfaces, opts)
      with4 == IF server.access4 = None THEN private
               ELSE Add(private, NodeAddress("ExternalIP", server.access4))
  IN  IF server.access6 = None \/ opts.noV6 THEN with4
      ELSE Add(with4, NodeAddress("ExternalIP", server.access6))

Ignored(net, opts) ==
  net \notin opts.public /\ opts.internal # {} /\ net \notin opts.internal

\* One round of the loop over the addresses of the server document.
Place(addrs, entry, opts) ==
  CASE entry.floating ->
         AddSupported(addrs, "ExternalIP", entry.addr, opts)
    [] ~entry.floating /\ entry.net \in opts.public ->
         AddSupported(Drop(addrs, entry.addr), "ExternalIP", entry.addr, opts)
    [] ~entry.floating /\ Ignored(entry.net, opts) ->
         Drop(addrs, entry.addr)
    [] OTHER ->
         AddSupported(addrs, "InternalIP", entry.addr, opts)

Addresses(server, interfaces, opts) ==
  FoldLeft(LAMBDA addrs, e : Place(addrs, e, opts),
           AfterAccess(server, interfaces, opts), server.addresses)

\* The first InternalIP among some addresses, or else the first ExternalIP.
PreferInternal(addrs, among) ==
  LET first(t) == SelectInSeq(addrs, LAMBDA x : x.type = t /\ x.addr \in among)
      internal == first("InternalIP")
      external == first("ExternalIP")
  IN  CASE internal # 0 -> addrs[internal].addr
        [] internal = 0 /\ external # 0 -> addrs[external].addr
        [] OTHER -> None

AddressesIn(addrs) == {x.addr : x \in ToSet(addrs)}

\* The address of a node that the load balancer's members get.
AddressForLB(addrs) == PreferInternal(addrs, AddressesIn(addrs))

\* Mutant: the first private address, of whatever family.
MutAddressByName(addrs, needV6, opts) == AddressForLB(addrs)

\* The next hop of a route: the same choice within one address family.
AddressByName(addrs, needV6, opts) ==
  IF needV6 /\ opts.noV6 THEN None
  ELSE PreferInternal(addrs, {a \in AddressesIn(addrs) : a \in V6 <=> needV6})

\* Mutant: interfaces whose port is down are passed over.
MutSubnetOf(a, interfaces) ==
  LET k == SelectInSeq(interfaces, LAMBDA i : i.addr = a /\ i.active)
  IN  IF k = 0 THEN None ELSE interfaces[k].subnet

\* The subnet of the interface that has an address, in whatever state it is.
SubnetOf(a, interfaces) ==
  LET k == SelectInSeq(interfaces, LAMBDA i : i.addr = a)
  IN  IF k = 0 THEN None ELSE interfaces[k].subnet

\* getPortIDByIP: is the address one of the interfaces'?
OnPort(a, interfaces) == \E k \in DOMAIN interfaces : interfaces[k].addr = a
------------------------------------------------------------------------------
(***************************************************************************)
(* What the list promises, said without the order of the loops: the types  *)
(* that each address has in it.  (No address is in the server document     *)
(* twice.)                                                                 *)
(***************************************************************************)
EntriesOf(a, server) == {e \in ToSet(server.addresses) : e.addr = a}

TypesBefore(a, server, interfaces, opts) ==
  {t \in Types :
     \/ /\ t = "InternalIP" /\ Supported(a, opts)
        /\ \E i \in ToSet(interfaces) : i.active /\ i.addr = a
     \/ t = "ExternalIP" /\ a = server.access4
     \/ t = "ExternalIP" /\ a = server.access6 /\ ~opts.noV6}

TypesOf(a, server, interfaces, opts) ==
  LET before == TypesBefore(a, server, interfaces, opts)
      only(T) == IF Supported(a, opts) THEN T ELSE {}
  IN  IF EntriesOf(a, server) = {} THEN before
      ELSE LET e == CHOOSE x \in EntriesOf(a, server) : TRUE
           IN  IF e.floating THEN before \cup only({"ExternalIP"})
               ELSE IF e.net \in opts.public THEN only({"ExternalIP"})
               ELSE IF Ignored(e.net, opts) THEN {}
               ELSE before \cup only({"InternalIP"})
==============================================================================
