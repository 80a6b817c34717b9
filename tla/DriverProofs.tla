---------------------------- MODULE DriverProofs ----------------------------
(***************************************************************************)
(* Theorems about the start of the stack, for addresses of every width and *)
(* any interfaces: which one driver_find takes, when it takes none, and    *)
(* what has been set up when the stack begins to send and to poll.         *)
(***************************************************************************)
EXTENDS Driver, FiniteSetTheorems, WellFoundedInduction, TLAPS

(* The loops of driver_find and ip_prefix_match end at a first element of  *)
(* what they search for, or at a last one.                                 *)
LEMMA LeastIn ==
    ASSUME NEW S \in SUBSET Nat, S # {}
    PROVE  \E n \in S : \A k \in S : n <= k
<1> DEFINE T == {0 .. i : i \in S}
<1>1. T \subseteq FiniteSubsetsOf(Nat)
    <2> SUFFICES ASSUME NEW i \in S PROVE 0 .. i \in FiniteSubsetsOf(Nat)
        OBVIOUS
    <2>1. i \in Nat /\ 0 .. i \in SUBSET Nat
        OBVIOUS
    <2>2. IsFiniteSet(0 .. i)
        BY <2>1, FS_Interval
    <2> QED BY <2>1, <2>2 DEF FiniteSubsetsOf
<1>2. T # {}
    OBVIOUS
<1> HIDE DEF T
<1>3. PICK x \in T : \A y \in T : ~ (<<y, x>> \in StrictSubsetOrdering(Nat))
    BY <1>1, <1>2, FS_StrictSubsetOrderingWellFounded, WFMin
<1>4. PICK i \in S : x = 0 .. i
    BY DEF T
<1>5. ASSUME NEW j \in S, j < i PROVE FALSE
    <2>1. i \in Nat /\ j \in Nat
        OBVIOUS
    <2>2. 0 .. j \in T
        BY DEF T
    <2>3. 0 .. j \subseteq 0 .. i /\ 0 .. j # 0 .. i
        BY <2>1, <1>5
    <2>4. <<0 .. j, 0 .. i>> \in StrictSubsetOrdering(Nat)
        BY <2>1, <2>3 DEF StrictSubsetOrdering
    <2> QED BY <1>3, <1>4, <2>2, <2>4
<1> QED BY <1>5

LEMMA GreatestIn ==
    ASSUME NEW N \in Nat, NEW S \in SUBSET (0 .. N), S # {}
    PROVE  \E n \in S : \A k \in S : k <= n
<1> DEFINE T == {t \in Nat : N - t \in S}
<1>1. PICK s : s \in S
    OBVIOUS
<1>2. N - s \in T
    BY <1>1
<1>3. PICK t \in T : \A u \in T : t <= u
    BY <1>2, LeastIn
<1>4. ASSUME NEW k \in S PROVE k <= N - t
    <2>1. k \in Nat /\ N - k \in T /\ t \in Nat
        BY <1>3
    <2>2. t <= N - k
        BY <1>3, <2>1
    <2> QED BY <2>1, <2>2
<1> QED BY <1>3, <1>4

-----------------------------------------------------------------------------
(* What ip_prefix_match returns. *)
Prefix(x, y, n) ==
    /\ \A i \in 1 .. n : x[i] = y[i]
    /\ n < Bits => x[n + 1] # y[n + 1]

LEMMA MatchEnds ==
    ASSUME NEW x, NEW y
    PROVE  /\ ip_prefix_match(x, y) \in 0 .. Bits
           /\ Prefix(x, y, ip_prefix_match(x, y))
<1> DEFINE S == {n \in 0 .. Bits : n < Bits => x[n + 1] # y[n + 1]}
<1>1. Bits \in Nat /\ Bits \in S
    BY DriverAssumption
<1>2. S \in SUBSET Nat /\ S # {}
    BY <1>1
<1>3. PICK n \in S : \A k \in S : n <= k
    BY <1>2, LeastIn
<1>4. ASSUME NEW i \in 1 .. n PROVE x[i] = y[i]
    <2>1. i - 1 \in 0 .. Bits /\ i - 1 < n /\ i - 1 < Bits /\ (i - 1) + 1 = i
        BY <1>1, <1>3
    <2>2. i - 1 \notin S
        BY <1>1, <1>3, <2>1
    <2> QED BY <2>1, <2>2
<1>5. n \in 0 .. Bits /\ Prefix(x, y, n)
    BY <1>3, <1>4 DEF Prefix
<1> HIDE DEF S
<1> QED BY <1>5 DEF ip_prefix_match, Prefix

(* Addresses share n bits if and only if their match is at least n. *)
LEMMA MatchAtLeast ==
    ASSUME NEW x, NEW y, NEW n \in 0 .. Bits
    PROVE  n <= ip_prefix_match(x, y) <=> \A i \in 1 .. n : x[i] = y[i]
<1> DEFINE k == ip_prefix_match(x, y)
<1>1. Bits \in Nat /\ k \in 0 .. Bits /\ Prefix(x, y, k)
    BY DriverAssumption, MatchEnds
<1> HIDE DEF k
<1>2. CASE n <= k
    BY <1>1, <1>2 DEF Prefix, k
<1>3. CASE n > k
    <2>1. k + 1 \in 1 .. n /\ x[k + 1] # y[k + 1]
        BY <1>1, <1>3 DEF Prefix
    <2> QED BY <1>1, <1>3, <2>1 DEF k
<1> QED BY <1>1, <1>2, <1>3

(* The match of a netmask with one of all ones is its length. *)
LEMMA LengthOfMask ==
    ASSUME NEW m \in Netmask
    PROVE  /\ PrefixLength(m) \in 0 .. Bits
           /\ \A i \in 1 .. Bits : m[i] = 1 <=> i <= PrefixLength(m)
<1> DEFINE k == PrefixLength(m)
<1>1. Bits \in Nat
    BY DriverAssumption
<1>2. PICK n \in 0 .. Bits : m = netmask(n)
    BY DEF Netmask
<1>3. k \in 0 .. Bits /\ Prefix(mask_all, m, k)
    BY MatchEnds DEF PrefixLength
<1> HIDE DEF k
<1>4. \A i \in 1 .. Bits : mask_all[i] = 1 /\ m[i] = IF i <= n THEN 1 ELSE 0
    BY <1>1, <1>2 DEF netmask, mask_all
<1>5. k = n
    <2>1. CASE k < n
        <3>1. k + 1 \in 1 .. Bits /\ k + 1 <= n /\ k < Bits
            BY <1>1, <1>3, <2>1
        <3> QED BY <1>3, <1>4, <3>1 DEF Prefix
    <2>2. CASE k > n
        <3>1. n + 1 \in 1 .. k /\ n + 1 \in 1 .. Bits /\ ~ (n + 1 <= n)
            BY <1>1, <1>3, <2>2
        <3> QED BY <1>3, <1>4, <3>1 DEF Prefix
    <2> QED BY <1>1, <1>3, <2>1, <2>2
<1>6. \A i \in 1 .. Bits : m[i] = 1 <=> i <= k
    BY <1>1, <1>4, <1>5
<1> QED BY <1>3, <1>6 DEF k

(* An address is in a subnet if and only if its match with any other one   *)
(* in it is no less than the length of the netmask.                        *)
LEMMA InSubnet ==
    ASSUME NEW x, NEW y, NEW m \in Netmask
    PROVE  (\A k \in 1 .. Bits : m[k] = 1 => x[k] = y[k])
             <=> PrefixLength(m) <= ip_prefix_match(x, y)
<1>1. Bits \in Nat
    BY DriverAssumption
<1>2. /\ PrefixLength(m) \in 0 .. Bits
      /\ \A i \in 1 .. Bits : m[i] = 1 <=> i <= PrefixLength(m)
    BY LengthOfMask
<1>3. PrefixLength(m) <= ip_prefix_match(x, y)
        <=> \A i \in 1 .. PrefixLength(m) : x[i] = y[i]
    BY <1>2, MatchAtLeast
<1>4. \A i \in 1 .. Bits : i <= PrefixLength(m) <=> i \in 1 .. PrefixLength(m)
    BY <1>1, <1>2
<1>5. \A i \in 1 .. PrefixLength(m) : i \in 1 .. Bits
    BY <1>1, <1>2
<1> QED BY <1>2, <1>3, <1>4, <1>5

(* Only the same address matches in every bit. *)
LEMMA FullMatch ==
    ASSUME NEW x \in Address, NEW y \in Address
    PROVE  ip_prefix_match(x, y) = Bits <=> x = y
<1>1. Bits \in Nat /\ Bits \in 0 .. Bits /\ ip_prefix_match(x, y) \in 0 .. Bits
    BY DriverAssumption, MatchEnds
<1>2. Bits <= ip_prefix_match(x, y) <=> \A i \in 1 .. Bits : x[i] = y[i]
    BY <1>1, MatchAtLeast
<1>3. x = [i \in 1 .. Bits |-> x[i]] /\ y = [i \in 1 .. Bits |-> y[i]]
    BY DEF Address
<1>4. (\A i \in 1 .. Bits : x[i] = y[i]) <=> x = y
    BY <1>3, Zenon
<1> QED BY <1>1, <1>2, <1>4

-----------------------------------------------------------------------------
(* What driver_find makes of the interfaces.                               *)
LEMMA LastIn ==
    ASSUME NEW d \in Seq(Entry), Inet(d) # {}
    PROVE  \E j \in Inet(d) : LastInet(d) = d[j]
<1>1. Len(d) \in Nat /\ Inet(d) \in SUBSET (0 .. Len(d))
    BY DEF Inet
<1>2. PICK j \in Inet(d) : \A k \in Inet(d) : k <= j
    BY <1>1, GreatestIn
<1> QED BY <1>2 DEF LastInet

LEMMA OwnEntry ==
    ASSUME NEW d \in Seq(Entry), Inet(d) # {}
    PROVE  LastInet(d) \in Entry
    BY LastIn DEF Inet

(* Every address is typed, and close to the stack by what it shares if the *)
(* stack is in its subnet.                                                 *)
LEMMA Close ==
    ASSUME NEW e \in Entry
    PROVE  /\ PrefixLength(e.mask) \in 0 .. Bits
           /\ \A x : Within(x, e) <=> PrefixLength(e.mask) <= ip_prefix_match(x, e.addr)
           /\ Closeness(e) \in 0 .. Bits
           /\ Within(net_if_ip, e) =>
                Closeness(e) = ip_prefix_match(net_if_ip, e.addr)
           /\ Closeness(e) # 0 => Within(net_if_ip, e)
<1>1. Bits \in Nat
    BY DriverAssumption
<1>2. e.mask \in Netmask
    BY DEF Entry
<1>3. PrefixLength(e.mask) \in 0 .. Bits
    BY <1>2, LengthOfMask
<1>4. ASSUME NEW x
      PROVE  Within(x, e) <=> PrefixLength(e.mask) <= ip_prefix_match(x, e.addr)
    BY <1>2, InSubnet DEF Within
<1>5. ip_prefix_match(net_if_ip, e.addr) \in 0 .. Bits
    BY MatchEnds
<1> QED BY <1>1, <1>3, <1>4, <1>5 DEF Closeness

(* An interface counts with how close its last address is. *)
LEMMA MatchOf ==
    ASSUME NEW d \in Seq(Entry)
    PROVE  /\ match_of(d) \in 0 .. Bits
           /\ Inet(d) # {} => match_of(d) = Closeness(LastInet(d))
           /\ Inet(d) = {} => match_of(d) = 0
<1>1. Bits \in Nat
    BY DriverAssumption
<1>2. CASE Inet(d) = {}
    BY <1>1, <1>2 DEF match_of
<1>3. CASE Inet(d) # {}
    <2> DEFINE e == LastInet(d)
    <2>1. e \in Entry
        BY <1>3, OwnEntry
    <2> HIDE DEF e
    <2>2. /\ PrefixLength(e.mask) \in 0 .. Bits
          /\ Within(net_if_ip, e) <=>
               PrefixLength(e.mask) <= ip_prefix_match(net_if_ip, e.addr)
          /\ Closeness(e) \in 0 .. Bits
        BY <2>1, Close
    <2>3. ip_prefix_match(net_if_ip, e.addr) \in 0 .. Bits
        BY MatchEnds
    <2>4. match_of(d) = LET n == ip_prefix_match(net_if_ip, e.addr)
                        IN  IF n < PrefixLength(e.mask) THEN 0 ELSE n
        BY <1>3 DEF match_of, e
    <2>5. match_of(d) = Closeness(e)
        BY <1>1, <2>2, <2>3, <2>4 DEF Closeness
    <2> QED BY <1>3, <2>2, <2>5 DEF e
<1> QED BY <1>2, <1>3

(* The loop over match ends with the first of the greatest. *)
LEMMA BestIs ==
    ASSUME NEW devs \in Seq(Seq(Entry)), devs # <<>>
    PROVE  /\ Best(devs) \in DOMAIN devs
           /\ \A j \in DOMAIN devs :
                match_of(devs[j]) <= match_of(devs[Best(devs)])
<1> DEFINE Values == {match_of(devs[j]) : j \in DOMAIN devs}
<1>1. Bits \in Nat
    BY DriverAssumption
<1>2. \A j \in DOMAIN devs : devs[j] \in Seq(Entry)
    OBVIOUS
<1>3. \A j \in DOMAIN devs : match_of(devs[j]) \in 0 .. Bits
    BY <1>2, MatchOf
<1>4. Len(devs) \in Nat /\ DOMAIN devs = 1 .. Len(devs) /\ Len(devs) # 0
    OBVIOUS
<1>5. 1 \in DOMAIN devs /\ DOMAIN devs \in SUBSET Nat
    BY <1>4
<1>6. Values # {} /\ Values \in SUBSET (0 .. Bits)
    BY <1>3, <1>5
<1>7. PICK v \in Values : \A w \in Values : w <= v
    BY <1>1, <1>6, GreatestIn
<1> DEFINE Winners == {j \in DOMAIN devs : match_of(devs[j]) = v}
<1>8. Winners # {} /\ Winners \in SUBSET Nat
    BY <1>5, <1>7
<1>9. PICK i \in Winners : \A j \in Winners : i <= j
    BY <1>8, LeastIn
<1>10. /\ i \in DOMAIN devs
       /\ \A j \in DOMAIN devs :
            /\ match_of(devs[j]) <= match_of(devs[i])
            /\ match_of(devs[j]) = match_of(devs[i]) => i <= j
    BY <1>7, <1>9
<1> HIDE DEF Values, Winners
<1> QED BY <1>10 DEF Best

-----------------------------------------------------------------------------
Registering == {"arp_init", "ip_init", "icmp_init", "udp_init"}
Opening == {"open_live", "setnonblock", "compile", "setfilter"}
Started == Opening \cup Registering \cup {"polling"}

(* Nothing is chosen before driver_find, and what it chose stays the best. *)
Chosen ==
    /\ ~Refuses(alldevs)
    /\ max_if = Best(alldevs)
    /\ mask = LastInet(alldevs[max_if]).mask

ChosenInv ==
    /\ alldevs \in Seq(Seq(Entry))
    /\ pc \in {"findalldevs", "find"} => max_if = 0
    /\ max_if # 0 \/ pc \in Started => Chosen
    /\ pc = "refused" => Refuses(alldevs)

(* How far the device is set up, and which protocols have registered. *)
StageInv ==
    /\ pc \in Started \cup {"findalldevs", "find", "refused", "failed"}
    /\ pc \in {"findalldevs", "find", "open_live"} => pcap = {}
    /\ pc = "setnonblock" => pcap = {"live"}
    /\ pc \in {"compile", "setfilter"} => pcap = {"live", "nonblock"}
    /\ pc \in Registering \cup {"polling"} =>
         pcap = {"live", "nonblock", "filter"}
    /\ pc \in Opening \cup {"findalldevs", "find", "arp_init"} =>
         net_table = {}
    /\ pc = "ip_init" => net_table = {"ARP"}
    /\ pc = "icmp_init" => net_table = {"ARP", "IP"}
    /\ pc = "udp_init" => net_table = {"ARP", "IP", "ICMP"}
    /\ pc = "polling" => net_table = {"ARP", "IP", "ICMP", "UDP"}

IInv == ChosenInv /\ StageInv

LEMMA InitHolds == Init => IInv
<1> SUFFICES ASSUME Init PROVE IInv
    OBVIOUS
<1>1. <<>> \in Seq(Seq(Entry))
    OBVIOUS
<1>2. ChosenInv
    BY <1>1 DEF Init, ChosenInv, Started, Opening, Registering
<1>3. StageInv
    BY DEF Init, StageInv, Started, Opening, Registering
<1> QED BY <1>2, <1>3 DEF IInv

(* A step after driver_find leaves its choice alone. *)
LEMMA LaterStep ==
    ASSUME ChosenInv, UNCHANGED <<alldevs, max_if, mask>>,
           pc \in Started, pc' \in Started \cup {"failed"}
    PROVE  ChosenInv'
<1>1. Chosen
    BY DEF ChosenInv
<1>2. Chosen'
    BY <1>1 DEF Chosen
<1> QED BY <1>2 DEF ChosenInv, Started, Opening, Registering

LEMMA StepHolds == IInv /\ [Next]_vars => IInv'
<1> SUFFICES ASSUME IInv, [Next]_vars PROVE IInv'
    OBVIOUS
<1> USE DEF Started, Opening, Registering
<1>1. CASE UNCHANGED vars
    BY <1>1 DEF vars, IInv, ChosenInv, StageInv, Chosen
<1>2. CASE pcap_findalldevs
    <2>1. alldevs' \in Seq(Seq(Entry))
        BY <1>2, DriverAssumption DEF pcap_findalldevs, Fail, IInv, ChosenInv
    <2>2. ChosenInv'
        BY <1>2, <2>1 DEF pcap_findalldevs, Fail, IInv, ChosenInv
    <2>3. StageInv'
        BY <1>2 DEF pcap_findalldevs, Fail, IInv, StageInv
    <2> QED BY <2>2, <2>3 DEF IInv
<1>3. CASE driver_find
    <2>1. ChosenInv'
        <3>1. CASE Refuses(alldevs)
            BY <1>3, <3>1 DEF driver_find, IInv, ChosenInv
        <3>2. CASE ~Refuses(alldevs)
            <4>1. Chosen'
                BY <1>3, <3>2 DEF driver_find, Chosen
            <4> QED BY <1>3, <3>2, <4>1 DEF driver_find, IInv, ChosenInv
        <3> QED BY <3>1, <3>2
    <2>2. StageInv'
        BY <1>3 DEF driver_find, IInv, StageInv
    <2> QED BY <2>1, <2>2 DEF IInv
<1>4. CASE pcap_open_live \/ pcap_setnonblock \/ pcap_compile \/ pcap_setfilter
    <2>1. ChosenInv'
        BY <1>4, LaterStep
        DEF pcap_open_live, pcap_setnonblock, pcap_compile, pcap_setfilter,
            Call, Fail, IInv
    <2>2. StageInv'
        BY <1>4
        DEF pcap_open_live, pcap_setnonblock, pcap_compile, pcap_setfilter,
            Call, Fail, IInv, StageInv
    <2> QED BY <2>1, <2>2 DEF IInv
<1>5. CASE arp_init \/ ip_init \/ icmp_init \/ udp_init
    <2>1. ChosenInv'
        BY <1>5, LaterStep
        DEF arp_init, ip_init, icmp_init, udp_init, Register, IInv
    <2>2. StageInv'
        BY <1>5
        DEF arp_init, ip_init, icmp_init, udp_init, Register, IInv, StageInv
    <2> QED BY <2>1, <2>2 DEF IInv
<1> QED BY <1>1, <1>2, <1>3, <1>4, <1>5 DEF Next

LEMMA IInvHolds == Spec => []IInv
    BY InitHolds, StepHolds, PTL DEF Spec

(* Whatever address of whatever interface the stack is in the subnet of,   *)
(* if it is no closer than the last one, its interface counts with at      *)
(* least what the address shares with the stack.                           *)
LEMMA Counted ==
    ASSUME ChosenInv, LastIsClosest, NEW e \in AllInets, Within(net_if_ip, e)
    PROVE  /\ e \in Entry
           /\ \E i \in DOMAIN alldevs :
                /\ alldevs[i] \in Seq(Entry)
                /\ ip_prefix_match(net_if_ip, e.addr) <= match_of(alldevs[i])
<1>1. PICK i \in DOMAIN alldevs : e \in InetsOf(i)
    BY DEF AllInets
<1>2. PICK j \in Inet(alldevs[i]) : e = alldevs[i][j]
    BY <1>1 DEF InetsOf
<1>3. alldevs[i] \in Seq(Entry)
    BY DEF ChosenInv
<1>4. e \in Entry
    BY <1>2, <1>3 DEF Inet
<1>5. Closeness(e) = ip_prefix_match(net_if_ip, e.addr)
    BY <1>4, Close
<1>6. match_of(alldevs[i]) = Closeness(LastInet(alldevs[i]))
    BY <1>2, <1>3, MatchOf
<1>7. Closeness(e) <= Closeness(LastInet(alldevs[i]))
    BY <1>1 DEF LastIsClosest
<1> QED BY <1>3, <1>4, <1>5, <1>6, <1>7

(* What has been chosen is an interface whose last address shares some     *)
(* bits with the stack's but not all, and that counts with no fewer than   *)
(* any other does.                                                         *)
LEMMA ChosenIs ==
    ASSUME ChosenInv, Chosen, NEW f, f = LastInet(alldevs[max_if])
    PROVE  /\ f \in Entry /\ f \in InetsOf(max_if) /\ f \in AllInets
           /\ f.mask = mask /\ Within(net_if_ip, f)
           /\ ip_prefix_match(net_if_ip, f.addr) \in 0 .. Bits
           /\ ip_prefix_match(net_if_ip, f.addr) # Bits
           /\ \A j \in DOMAIN alldevs :
                match_of(alldevs[j]) <= ip_prefix_match(net_if_ip, f.addr)
<1> DEFINE d == alldevs[max_if]
<1>1. alldevs # <<>> /\ match_of(d) \notin {0, Bits}
    BY DEF Chosen, Refuses
<1>2. alldevs \in Seq(Seq(Entry)) /\ max_if = Best(alldevs)
    BY DEF ChosenInv, Chosen
<1>3. /\ max_if \in DOMAIN alldevs
      /\ \A j \in DOMAIN alldevs : match_of(alldevs[j]) <= match_of(d)
    BY <1>1, <1>2, BestIs
<1>4. d \in Seq(Entry)
    BY <1>2, <1>3
<1>5. Inet(d) # {}
    BY <1>1, <1>4, MatchOf
<1>6. f \in Entry /\ f \in InetsOf(max_if)
    <2>1. \E j \in Inet(d) : f = d[j]
        BY <1>4, <1>5, LastIn
    <2> QED BY <1>4, <2>1 DEF InetsOf, Inet
<1>7. match_of(d) = Closeness(f)
    BY <1>4, <1>5, MatchOf
<1>8. Within(net_if_ip, f) /\ Closeness(f) = ip_prefix_match(net_if_ip, f.addr)
    BY <1>1, <1>6, <1>7, Close
<1>9. f.mask = mask
    BY DEF Chosen
<1>10. ip_prefix_match(net_if_ip, f.addr) \in 0 .. Bits
    BY MatchEnds
<1> QED BY <1>1, <1>3, <1>6, <1>7, <1>8, <1>9, <1>10 DEF AllInets

(* driver_find takes an interface with an address whose subnet the stack   *)
(* belongs to, and of the subnets of all addresses the one with the        *)
(* longest netmask, if no interface hides a closer address behind its last.*)
THEOREM LongestSubnetHolds == Spec => []LongestSubnet
<1>1. IInv => LongestSubnet
    <2> SUFFICES ASSUME IInv, max_if # 0
                 PROVE  /\ \E e \in InetsOf(max_if) :
                             Within(net_if_ip, e) /\ e.mask = mask
                        /\ LastIsClosest /\ WellNested =>
                             \A e \in AllInets : Within(net_if_ip, e) =>
                               PrefixLength(e.mask) <= PrefixLength(mask)
        BY DEF LongestSubnet
    <2>1. ChosenInv /\ Chosen
        BY DEF IInv, ChosenInv
    <2> DEFINE f == LastInet(alldevs[max_if])
               best == ip_prefix_match(net_if_ip, f.addr)
    <2>2. /\ f \in InetsOf(max_if) /\ f \in AllInets
          /\ f.mask = mask /\ Within(net_if_ip, f)
          /\ best \in 0 .. Bits
          /\ \A j \in DOMAIN alldevs : match_of(alldevs[j]) <= best
        BY <2>1, ChosenIs
    <2> HIDE DEF f
    <2>3. ASSUME LastIsClosest, WellNested,
                 NEW e \in AllInets, Within(net_if_ip, e)
          PROVE  PrefixLength(e.mask) <= PrefixLength(mask)
        <3> DEFINE n == PrefixLength(e.mask)
                   m == ip_prefix_match(net_if_ip, e.addr)
        <3>1. PICK i \in DOMAIN alldevs :
                alldevs[i] \in Seq(Entry) /\ m <= match_of(alldevs[i])
            BY <2>1, <2>3, Counted
        <3>2. e \in Entry
            BY <2>1, <2>3, Counted
        <3>3. /\ n \in 0 .. Bits
              /\ \A x : Within(x, e) <=> n <= ip_prefix_match(x, e.addr)
            BY <3>2, Close
        <3>4. m \in 0 .. Bits /\ match_of(alldevs[i]) \in 0 .. Bits /\ Bits \in Nat
            BY <3>1, MatchEnds, MatchOf, DriverAssumption
        <3>5. n <= m /\ n <= best
            BY <2>2, <2>3, <3>1, <3>3, <3>4
        <3> HIDE DEF n
        <3>6. ASSUME NEW k \in 1 .. n
              PROVE  net_if_ip[k] = e.addr[k] /\ net_if_ip[k] = f.addr[k]
            BY <3>3, <3>5, MatchAtLeast
        <3>7. n <= ip_prefix_match(f.addr, e.addr)
            BY <3>3, <3>6, MatchAtLeast
        <3>8. Within(f.addr, e)
            BY <3>3, <3>7
        <3> QED BY <2>2, <2>3, <3>8 DEF WellNested, n
    <2> QED BY <2>2, <2>3
<1> QED BY <1>1, IInvHolds, PTL

(* driver_find takes no interface only if none will do, on account of any  *)
(* of its addresses, if none is closer than the last.                      *)
THEOREM RefusedForReasonHolds == Spec => []RefusedForReason
<1>1. IInv => RefusedForReason
    <2> SUFFICES ASSUME IInv, pc = "refused", LastIsClosest,
                        \A e \in AllInets : e.addr # net_if_ip,
                        NEW e \in AllInets, Within(net_if_ip, e)
                 PROVE  PrefixLength(e.mask) = 0
        BY DEF RefusedForReason
    <2>1. ChosenInv /\ Refuses(alldevs)
        BY DEF IInv, ChosenInv
    <2> DEFINE b == Best(alldevs)
               f == LastInet(alldevs[b])
               n == PrefixLength(e.mask)
               m == ip_prefix_match(net_if_ip, e.addr)
    <2>2. PICK i \in DOMAIN alldevs :
            alldevs[i] \in Seq(Entry) /\ m <= match_of(alldevs[i])
        BY <2>1, Counted
    <2>3. /\ alldevs # <<>> /\ b \in DOMAIN alldevs /\ alldevs[b] \in Seq(Entry)
          /\ match_of(alldevs[i]) <= match_of(alldevs[b])
        BY <2>1, <2>2, BestIs DEF ChosenInv
    <2>4. Bits \in Nat \ {0} /\ m \in 0 .. Bits
        BY MatchEnds, DriverAssumption
    <2>5. match_of(alldevs[b]) # Bits
        <3> SUFFICES ASSUME match_of(alldevs[b]) = Bits PROVE FALSE
            OBVIOUS
        <3>1. Inet(alldevs[b]) # {} /\ Closeness(f) = Bits
            BY <2>3, <2>4, MatchOf
        <3>2. PICK j \in Inet(alldevs[b]) : f = alldevs[b][j]
            BY <2>3, <3>1, LastIn
        <3>3. f \in Entry /\ f \in AllInets
            BY <2>3, <3>2 DEF Inet, InetsOf, AllInets
        <3> HIDE DEF f
        <3>4. ip_prefix_match(net_if_ip, f.addr) = Bits
            BY <2>4, <3>1, <3>3, Close
        <3>5. f.addr \in Address /\ net_if_ip \in Address
            BY <3>3, DriverAssumption DEF Entry
        <3>6. f.addr = net_if_ip
            BY <3>4, <3>5, FullMatch
        <3> QED BY <3>3, <3>6
    <2>6. match_of(alldevs[b]) = 0
        BY <2>1, <2>3, <2>5 DEF Refuses
    <2>7. e \in Entry
        BY <2>1, Counted
    <2>8. n \in 0 .. Bits /\ n <= m
        BY <2>7, Close
    <2>9. match_of(alldevs[i]) \in 0 .. Bits
        BY <2>2, MatchOf
    <2> QED BY <2>2, <2>3, <2>4, <2>6, <2>8, <2>9
<1> QED BY <1>1, IInvHolds, PTL

(* The stack sends and polls only on a device that is open and filtered,   *)
(* and only if its address is not that of any interface, and it polls with *)
(* every protocol registered.                                              *)
THEOREM ReadyToPollHolds == Spec => []ReadyToPoll
<1>1. IInv => ReadyToPoll
    <2> SUFFICES ASSUME IInv, pc \in Registering \cup {"polling"}
                 PROVE  /\ pcap = {"live", "nonblock", "filter"}
                        /\ LastIsClosest => \A e \in AllInets : e.addr # net_if_ip
                        /\ pc = "polling" => net_table = {"ARP", "IP", "ICMP", "UDP"}
        BY DEF ReadyToPoll, Registering
    <2>1. ChosenInv /\ Chosen
        BY DEF IInv, ChosenInv, Started
    <2>2. ASSUME LastIsClosest, NEW e \in AllInets, e.addr = net_if_ip PROVE FALSE
        <3> DEFINE f == LastInet(alldevs[max_if])
                   best == ip_prefix_match(net_if_ip, f.addr)
        <3>1. Within(net_if_ip, e)
            BY <2>2 DEF Within
        <3>2. PICK i \in DOMAIN alldevs :
                /\ alldevs[i] \in Seq(Entry)
                /\ ip_prefix_match(net_if_ip, e.addr) <= match_of(alldevs[i])
            BY <2>1, <2>2, <3>1, Counted
        <3>3. ip_prefix_match(net_if_ip, e.addr) = Bits
            BY <2>2, FullMatch, DriverAssumption
        <3>4. /\ best \in 0 .. Bits /\ best # Bits
              /\ match_of(alldevs[i]) <= best
            BY <2>1, <3>2, ChosenIs
        <3>5. match_of(alldevs[i]) \in 0 .. Bits /\ Bits \in Nat
            BY <3>2, MatchOf, DriverAssumption
        <3> QED BY <3>2, <3>3, <3>4, <3>5
    <2>3. pcap = {"live", "nonblock", "filter"}
        BY DEF IInv, StageInv
    <2>4. pc = "polling" => net_table = {"ARP", "IP", "ICMP", "UDP"}
        BY DEF IInv, StageInv
    <2> QED BY <2>2, <2>3, <2>4
<1> QED BY <1>1, IInvHolds, PTL

=============================================================================
