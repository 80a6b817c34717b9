------------------------------- MODULE Driver -------------------------------
(***************************************************************************)
(* How the stack starts: main calls net_init, net_init calls driver_open,  *)
(* driver_open calls driver_find, which picks the network interface whose  *)
(* subnet net_if_ip belongs to, and then a chain of calls of pcap, each of *)
(* which may fail.  After that the protocols register their handlers and   *)
(* main polls.  (That the Windows build first loads the DLLs of Npcap is   *)
(* left out.)                                                              *)
(*                                                                         *)
(* An address is a string of Bits bits, most significant first: 32 in the  *)
(* code, where it is four bytes of eight.                                  *)
(***************************************************************************)
EXTENDS Integers, Sequences, FiniteSets

CONSTANTS Bits,
          net_if_ip,    \* the address of the stack
          Devices       \* what pcap_findalldevs may find: sequences of
                        \* interfaces, each the sequence of its addresses

Bit == {0, 1}
Address == [1 .. Bits -> Bit]
netmask(n) == [i \in 1 .. Bits |-> IF i <= n THEN 1 ELSE 0]
Netmask == {netmask(n) : n \in 0 .. Bits}

(* An entry of an interface's list: inet says whether it has an address of *)
(* the family AF_INET.                                                     *)
Entry == [inet : BOOLEAN, addr : Address, mask : Netmask]

ASSUME DriverAssumption ==
    /\ Bits \in Nat \ {0}
    /\ net_if_ip \in Address
    /\ \A devs \in Devices :
         /\ devs \in Seq(Seq(Entry))
         /\ \A i \in DOMAIN devs : devs[i] \in Seq(Entry)

VARIABLES pc, alldevs,
          max_if,      \* the interface chosen, and
          mask,        \* its netmask; empty: none
          pcap,        \* what has been set up: "live", "nonblock", "filter"
          net_table    \* the protocols that have a handler

vars == <<pc, alldevs, max_if, mask, pcap, net_table>>

(* How many leading bits two addresses share. *)
ip_prefix_match(x, y) ==
    CHOOSE n \in 0 .. Bits :
        /\ \A i \in 1 .. n : x[i] = y[i]
        /\ n < Bits => x[n + 1] # y[n + 1]

mask_all == netmask(Bits)
PrefixLength(m) == ip_prefix_match(mask_all, m)

Inet(d) == {j \in DOMAIN d : d[j].inet}
LastInet(d) == d[CHOOSE j \in Inet(d) : \A k \in Inet(d) : k <= j]

(* Variants of match_of: one does not look at the netmask, one takes an    *)
(* address that is in the subnet up to its last bit for outside of it.     *)
match_of_any(d) ==
    IF Inet(d) = {} THEN 0 ELSE ip_prefix_match(net_if_ip, LastInet(d).addr)
match_of_strict(d) ==
    IF Inet(d) = {} THEN 0
    ELSE LET n == ip_prefix_match(net_if_ip, LastInet(d).addr)
         IN  IF n <= PrefixLength(LastInet(d).mask) THEN 0 ELSE n

(* What an interface gets in the array match.  Each of its addresses       *)
(* writes over the entry, so that the last one counts; an address whose    *)
(* subnet net_if_ip is not in counts for nothing.                          *)
match_of(d) ==
    IF Inet(d) = {} THEN 0
    ELSE LET n == ip_prefix_match(net_if_ip, LastInet(d).addr)
         IN  IF n < PrefixLength(LastInet(d).mask) THEN 0 ELSE n

(* The first interface with the greatest match. *)
Best(devs) ==
    CHOOSE i \in DOMAIN devs : \A j \in DOMAIN devs :
        /\ match_of(devs[j]) <= match_of(devs[i])
        /\ match_of(devs[j]) = match_of(devs[i]) => i <= j

(* A variant of Refuses that takes an interface with the stack's address. *)
Refuses_no_duplicate(devs) ==
    devs # <<>> => match_of(devs[Best(devs)]) = 0

(* Whether driver_find returns -1 for the interfaces it was given. *)
Refuses(devs) ==
    devs # <<>> => match_of(devs[Best(devs)]) \in {0, Bits}

Init ==
    /\ pc = "findalldevs"
    /\ alldevs = <<>>
    /\ max_if = 0 /\ mask = <<>>
    /\ pcap = {} /\ net_table = {}

(* A step that fails makes driver_open and net_init return -1, and main    *)
(* ends.                                                                   *)
Fail == pc' = "failed"

pcap_findalldevs ==
    /\ pc = "findalldevs"
    /\ \/ Fail /\ UNCHANGED alldevs
       \/ alldevs' \in Devices /\ pc' = "find"
    /\ UNCHANGED <<max_if, mask, pcap, net_table>>

driver_find ==
    /\ pc = "find"
    /\ \/ /\ Refuses(alldevs)
          /\ pc' = "refused"
          /\ UNCHANGED <<max_if, mask>>
       \/ /\ ~Refuses(alldevs)
          /\ max_if' = Best(alldevs)
          /\ mask' = LastInet(alldevs[Best(alldevs)]).mask
          /\ pc' = "open_live"
    /\ UNCHANGED <<alldevs, pcap, net_table>>

(* A call of pcap that sets something up, or fails. *)
Call(here, what, next) ==
    /\ pc = here
    /\ \/ Fail /\ UNCHANGED pcap
       \/ pcap' = pcap \cup what /\ pc' = next
    /\ UNCHANGED <<alldevs, max_if, mask, net_table>>

pcap_open_live  == Call("open_live", {"live"}, "setnonblock")
pcap_setnonblock == Call("setnonblock", {"nonblock"}, "compile")
pcap_compile    == Call("compile", {}, "setfilter")

pcap_setfilter == Call("setfilter", {"filter"}, "arp_init")

(* A protocol registers its handler. *)
Register(here, protocol, next) ==
    /\ pc = here
    /\ net_table' = net_table \cup {protocol}
    /\ pc' = next
    /\ UNCHANGED <<alldevs, max_if, mask, pcap>>

(* ethernet_init and the rest of net_init. *)
arp_init  == Register("arp_init", "ARP", "ip_init")
ip_init   == Register("ip_init", "IP", "icmp_init")
icmp_init == Register("icmp_init", "ICMP", "udp_init")
udp_init  == Register("udp_init", "UDP", "polling")

Next ==
    \/ pcap_findalldevs \/ driver_find
    \/ pcap_open_live \/ pcap_setnonblock \/ pcap_compile \/ pcap_setfilter
    \/ arp_init \/ ip_init \/ icmp_init \/ udp_init

Spec == Init /\ [][Next]_vars

-----------------------------------------------------------------------------
(* The addresses of an interface, and of all interfaces; whether an        *)
(* address is in the subnet of another; and how close the stack's own one  *)
(* is to it, if it is in its subnet.                                       *)
InetsOf(i) == {alldevs[i][j] : j \in Inet(alldevs[i])}
AllInets == UNION {InetsOf(i) : i \in DOMAIN alldevs}
Within(x, e) == \A k \in 1 .. Bits : e.mask[k] = 1 => x[k] = e.addr[k]
Closeness(e) ==
    IF Within(net_if_ip, e) THEN ip_prefix_match(net_if_ip, e.addr) ELSE 0

(* What driver_find relies on without a word: of several addresses of one  *)
(* interface none is closer than the last, which driver.c:61 lets count.   *)
LastIsClosest ==
    \A i \in DOMAIN alldevs : \A e \in InetsOf(i) :
        Closeness(e) <= Closeness(LastInet(alldevs[i]))

(* Subnets may be nested, but then the address in the wider one is not in  *)
(* the narrower one.                                                       *)
WellNested ==
    \A e, f \in AllInets :
        Within(f.addr, e) => PrefixLength(e.mask) <= PrefixLength(f.mask)

(* The stack belongs to the subnet of an address of the interface chosen,  *)
(* and mask is the netmask of that very address; and of the subnets of all *)
(* addresses of all interfaces that the stack belongs to, nested in each   *)
(* other, it is the one with the longest netmask, although the code        *)
(* compares common prefixes with addresses and not netmasks.               *)
LongestSubnet ==
    max_if # 0 =>
      /\ \E e \in InetsOf(max_if) : Within(net_if_ip, e) /\ e.mask = mask
      /\ LastIsClosest /\ WellNested =>
           \A e \in AllInets :
              Within(net_if_ip, e) => PrefixLength(e.mask) <= PrefixLength(mask)

(* driver_find finds no interface only if none will do: the stack is in no *)
(* subnet of any address, but for those it shares not a single bit with (a *)
(* netmask of length 0), or its address is one of the interfaces' own.     *)
RefusedForReason ==
    pc = "refused" /\ LastIsClosest =>
      \/ \E e \in AllInets : e.addr = net_if_ip
      \/ \A e \in AllInets : Within(net_if_ip, e) => PrefixLength(e.mask) = 0

(* The stack polls, and sends its first frame, only on a device that is    *)
(* open, does not block and filters, and only if no interface has the      *)
(* stack's address, be it the one chosen or another; and it polls only     *)
(* when every protocol has its handler.                                    *)
ReadyToPoll ==
    pc \in {"arp_init", "ip_init", "icmp_init", "udp_init", "polling"} =>
      /\ pcap = {"live", "nonblock", "filter"}
      /\ LastIsClosest => \A e \in AllInets : e.addr # net_if_ip
      /\ pc = "polling" => net_table = {"ARP", "IP", "ICMP", "UDP"}

(* driver.c:35 says that the interface with the longest matching prefix is *)
(* chosen.  False: an interface counts with its last address only, and     *)
(* with nothing if the stack is not in the subnet of that one, though it   *)
(* may be in the subnet of another of its addresses.                       *)
LongestPrefix ==
    max_if # 0 =>
      \E f \in InetsOf(max_if) : \A e \in AllInets : Closeness(e) <= Closeness(f)

=============================================================================
