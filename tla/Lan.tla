-------------------------------- MODULE Lan --------------------------------
(***************************************************************************)
(* Hosts that run src/arp.c and send packets to each other over one        *)
(* Ethernet.  Arp.tla has the inside of the handlers, where the clock goes *)
(* on between two map operations; here a call of arp_out or arp_in is one  *)
(* step, and what is of interest is what happens between the hosts: ARP    *)
(* frames that are lost, late or out of order, requests that cross, and    *)
(* hosts that start again.                                                 *)
(*                                                                         *)
(* The medium is the set of ARP frames under way, so that two equal frames *)
(* are one.  Data frames teach arp.c nothing and are left out.             *)
(*                                                                         *)
(* Time has no end here: instead of the clock, the time stamps move.  The  *)
(* present second of a map is always Now(m), and a second that passes      *)
(* makes every stamp smaller by one, down to 1, which is expired.          *)
(***************************************************************************)
EXTENDS Map

CONSTANTS Host,              \* a host is its own IP address and MAC
          table_size,        \* capacity of arp_table
          buf_size,          \* capacity of arp_buf
          ARP_TIMEOUT_SEC,   \* life of an entry of arp_table
          ARP_MIN_INTERVAL,  \* life of an entry of arp_buf
          Packet             \* the one value that stands for all packets

ASSUME LanAssumption ==
    /\ table_size \in Nat \ {0} /\ buf_size \in Nat \ {0}
    /\ ARP_MIN_INTERVAL \in Nat \ {0}
    /\ ARP_TIMEOUT_SEC \in Nat /\ ARP_MIN_INTERVAL <= ARP_TIMEOUT_SEC
    /\ NULL \notin Host \cup {Packet}

VARIABLES arp_table, arp_buf,   \* per host
          medium,               \* ARP frames under way
          spoilt                \* whether ever a frame was lost, a host
                                \* started again or a map_set failed

vars == <<arp_table, arp_buf, medium, spoilt>>

Now(m) == m.timeout + 2
get(m, k)    == map_get(m, k, Now(m))
set(m, k, v) == map_set(m, k, v, Now(m), Now(m))
fails(m, k)  == map_set_ret(m, k, Now(m), Now(m)) = -1

Older(m) ==
    [m EXCEPT !.data = [i \in Slots(m) |->
        [m.data[i] EXCEPT !.time = IF @ > 1 THEN @ - 1 ELSE @]]]

(* What arp_in tells apart in a frame: who sent it, and whether it asks    *)
(* the host it comes to.  arp_req asks ip and shows itself to everybody,   *)
(* arp_resp answers one host.                                              *)
Frame == {f \in [from : Host, to : Host, asks : BOOLEAN] : f.from # f.to}
arp_req(h, ip) == {f \in Frame : f.from = h /\ f.asks = (f.to = ip)}
arp_resp(h, g) == {[from |-> h, to |-> g, asks |-> FALSE]}

empty_table == map_init(table_size, ARP_TIMEOUT_SEC)
empty_buf   == map_init(buf_size, ARP_MIN_INTERVAL)

(* All hosts have just run arp_init and announced themselves. *)
Init ==
    /\ arp_table = [h \in Host |-> empty_table]
    /\ arp_buf = [h \in Host |-> empty_buf]
    /\ medium = UNION {arp_req(h, h) : h \in Host}
    /\ spoilt = FALSE

(* The process on h is started again: its maps are empty, and it asks for  *)
(* its own address.                                                        *)
arp_init(h) ==
    /\ arp_table' = [arp_table EXCEPT ![h] = empty_table]
    /\ arp_buf' = [arp_buf EXCEPT ![h] = empty_buf]
    /\ medium' = medium \cup arp_req(h, h)
    /\ spoilt' = TRUE

(* A variant of arp_out that asks only when the packet could be stored. *)
arp_out_only_stored(h, g) ==
    /\ get(arp_table[h], g) = NULL
    /\ get(arp_buf[h], g) = NULL
    /\ ~fails(arp_buf[h], g)
    /\ arp_buf' = [arp_buf EXCEPT ![h] = set(@, g, Packet)]
    /\ medium' = medium \cup arp_req(h, g)
    /\ UNCHANGED <<arp_table, spoilt>>

(* h has a packet for g whose address it does not know, and none waits for *)
(* it: the packet is stored if it can be, and the address asked for in any *)
(* case.  Otherwise arp_out sends or drops the packet and changes nothing. *)
arp_out(h, g) ==
    /\ get(arp_table[h], g) = NULL
    /\ get(arp_buf[h], g) = NULL
    /\ arp_buf' = [arp_buf EXCEPT ![h] = set(@, g, Packet)]
    /\ medium' = medium \cup arp_req(h, g)
    /\ spoilt' = (spoilt \/ fails(arp_buf[h], g))
    /\ UNCHANGED arp_table

(* A variant of arp_in that does not answer when it has just learnt the    *)
(* address of the host that asks.                                          *)
arp_in_answer_known(f) ==
    /\ f \in medium
    /\ arp_table' = [arp_table EXCEPT ![f.to] = set(@, f.from, f.from)]
    /\ spoilt' = (spoilt \/ fails(arp_table[f.to], f.from))
    /\ LET waiting == get(arp_buf[f.to], f.from) # NULL
           answers == /\ ~waiting /\ f.asks
                      /\ get(arp_table[f.to], f.from) # NULL
       IN /\ arp_buf' = [arp_buf EXCEPT ![f.to] = map_delete(@, f.from, Now(@))]
          /\ medium' = (medium \ {f})
                         \cup (IF answers THEN arp_resp(f.to, f.from) ELSE {})

(* A frame arrives.  Its sender is entered into arp_table; if a packet     *)
(* waits for the sender it goes out and is deleted, and a request is then  *)
(* not answered; otherwise it is answered by the host it asks for.         *)
arp_in(f) ==
    /\ f \in medium
    /\ arp_table' = [arp_table EXCEPT ![f.to] = set(@, f.from, f.from)]
    /\ spoilt' = (spoilt \/ fails(arp_table[f.to], f.from))
    /\ LET waiting == get(arp_buf[f.to], f.from) # NULL
           answers == ~waiting /\ f.asks
       IN /\ arp_buf' = [arp_buf EXCEPT ![f.to] = map_delete(@, f.from, Now(@))]
          /\ medium' = (medium \ {f})
                         \cup (IF answers THEN arp_resp(f.to, f.from) ELSE {})

Lose(f) ==
    /\ f \in medium
    /\ medium' = medium \ {f}
    /\ spoilt' = TRUE
    /\ UNCHANGED <<arp_table, arp_buf>>

Tick ==
    /\ arp_table' = [h \in Host |-> Older(arp_table[h])]
    /\ arp_buf' = [h \in Host |-> Older(arp_buf[h])]
    /\ UNCHANGED <<medium, spoilt>>

Next ==
    \/ \E h, g \in Host : h # g /\ arp_out(h, g)
    \/ \E f \in Frame : arp_in(f) \/ Lose(f)
    \/ \E h \in Host : arp_init(h)
    \/ Tick

(* Seconds pass; applications go on sending; a frame that is sent again    *)
(* and again arrives in the end, and main polls for ever, so that it is    *)
(* handled.  Nothing makes a host start again or lose a frame.             *)
Fairness ==
    /\ WF_vars(Tick)
    /\ \A h \in Host : \A g \in Host \ {h} : WF_vars(arp_out(h, g))
    /\ \A f \in Frame : SF_vars(arp_in(f))

Spec == Init /\ [][Next]_vars /\ Fairness

-----------------------------------------------------------------------------
Resolved(h, g) == get(arp_table[h], g) # NULL
Waiting(h, g)  == get(arp_buf[h], g) # NULL
Full(h) == arp_table[h].size = table_size

(* Types of the maps and of the medium.                                    *)
TypeOK ==
    /\ arp_table \in [Host -> MapType(Host, Host, table_size, ARP_TIMEOUT_SEC)]
    /\ arp_buf \in [Host -> MapType(Host, {Packet}, buf_size, ARP_MIN_INTERVAL)]
    /\ medium \subseteq Frame
    /\ spoilt \in BOOLEAN

(* Requests that cross are not lost on each other.  As long as no frame is *)
(* lost, no host starts again and no map is full, a packet waits only      *)
(* while a frame is under way that will release it: its own request, or    *)
(* any frame from the host it is for.  A request that is not answered      *)
(* because the other host had a packet waiting too (arp.c:137) never       *)
(* leaves its sender waiting for nothing.                                  *)
SomethingUnderWay ==
    ~spoilt =>
      \A h \in Host : \A g \in Host \ {h} :
        Waiting(h, g) =>
          \E f \in medium :
            \/ f.from = g /\ f.to = h
            \/ f.asks /\ f.from = h /\ f.to = g

(* A host that goes on sending knows the address again and again, until    *)
(* its arp_table is exhausted: whatever is lost or late, however often the *)
(* hosts ignore each other's requests, and also when arp_buf is exhausted. *)
AlwaysResolvedAgain ==
    \A h \in Host : \A g \in Host \ {h} : []<>(Resolved(h, g) \/ Full(h))

=============================================================================
