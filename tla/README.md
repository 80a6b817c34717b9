# Verification of the HITSZ-CN-2022 protocol stack

A TLA+ model of the user-space TCP/IP stack in `computer-network-master`
(C, about 1,300 lines in `src/` and `include/`) and of the Base64 coder of Lab 9,
model-checked with TLC on small instances and partly proved with TLAPS for all of
them. Paths below are relative to `computer-network-master/`.

## 1. The system

One thread polls the network card (`main.c`: `while (1) net_poll()`), and every
frame is handled to its end before the next one is looked at. What makes the code
hard is therefore not threads but

* the **wall clock**: both tables of ARP expire their entries, and every single map
  operation reads `time()` anew, so seconds pass between the steps of a handler;
* **shared buffers**: one `rxbuf` and one `txbuf` serve all layers. A layer moves
  `data` inside the buffer and writes headers over what was there;
* **full tables**: `map_set` can fail, and no caller in ARP looks at its result;
* **one function for all protocols**: `net_in` looks up types of frames and protocols
  of datagrams in one table, and results of the buffer functions are ignored;
* **the other hosts**: ARP frames are lost, late or out of order, requests cross, and
  hosts start again with empty tables;
* **coroutines** (Lab 9): the Base64 coder and decoder stop in the middle of a group of
  bytes and of a line, and go on there in the next call.

| component | state | operations | interacts with |
|---|---|---|---|
| map (`map.c`) | slots with key, value, time stamp; `size` | `map_init`, `map_get`, `map_set`, `map_delete`, `map_size`, `map_foreach` | keeps `arp_table`, `arp_buf`, `net_table`, `udp_table` |
| arp (`arp.c`) | `arp_table`, `arp_buf` | `arp_out` (from ip), `arp_in` (from net), `arp_req`, `arp_resp`, `arp_init` | maps, ethernet, `txbuf` |
| ip, sending (`ip.c`) | `ip_id`, the loop over `txbuf` | `ip_out`, `ip_fragment_out` | udp and icmp above, arp below, `txbuf` |
| buf (`buf.c`) | `data`, `len`, `payload` | `buf_init`, `buf_add_header`, `buf_remove_header`, `buf_add_padding`, `buf_remove_padding`, `buf_copy` | everybody |
| driver, ethernet, net | `rxbuf`, `net_table` | `driver_recv`, `driver_send`, `ethernet_in`, `ethernet_out`, `net_in`, `net_add_protocol`, `net_poll` | pcap |
| ip, receiving | `rxbuf` | `ip_in` | icmp, udp |
| icmp | `txbuf` | `icmp_in`, `icmp_resp`, `icmp_unreachable` | ip |
| udp | `udp_table` | `udp_in`, `udp_checksum`, `udp_open`, `udp_close`, `udp_out`, `udp_send` | maps, ip, icmp, the application |
| utils | none | `checksum16`, `ip_prefix_match`, formatting | ip, icmp, udp; driver |
| driver, opening | the device, `net_table` | `driver_find`, `driver_open`, called by `net_init` | pcap |
| Lab9, base64 | `base64_encodestate`, `base64_decodestate` | `encode_file`, `encode_str`, `base64_encode_block`, `base64_decode_block` | files |
| Lab9, mail clients | none | `send_mail`, `recv_mail` | sockets |

What makes each of them correct:

* **map**: a search finds the one live entry of a key, `size` never goes below the
  slots in use nor above the capacity, a map below its capacity takes a new key.
* **arp**: a packet is sent at most once, to the last station that claimed its
  address, in order per address, and is not evicted by another; requests are spaced.
* **ip, sending**: the fragments of a datagram reassemble to it.
* **arp between hosts**: no host waits for an answer that nobody will send, and one that
  goes on sending learns the address in the end, whatever is lost.
* **sending path**: what reaches the driver is the packet as the layers wrote it, also
  when it was copied and sent later.
* **opening**: the interface is the one with the longest matching subnet, and nothing is
  sent before the device is set up.
* **checksum**: the complement of the one's complement sum, right on the wire.
* **base64**: the text encodes the file wherever chunks fall, and decodes to it however
  it is cut up; outputs fit their buffers.
* **receiving path**: whatever came before, a frame comes to what its headers ask for:
  handed to the right handler with the right bytes, answered to the right address, or
  dropped; and it fits into the buffer.

## 2. Modules

| module | models | state and actions |
|---|---|---|
| `Map` | `map.c` as operators on a record (`max_size`, `timeout`, `size`, `data`) | `map_get`, `map_set`, `map_delete`, ... take the second at which they read the clock; `map_set` takes two, since it reads it in its search and again when it writes |
| `TimedMap` | one map with its clock | `Get`, `Set`, `Delete`, `Tick` |
| `ExpiringDict` | abstract specification: a dictionary of entries that last, with a budget of insertions | implemented by `TimedMap` (`ImplementsDict`) |
| `Arp` | `arp.c` with both maps | a step is what the code does between two readings of the clock: `arp_out`, `arp_out_buf`, `arp_in`, `arp_in_lookup`, `arp_in_delete`, and `Tick` between any two of them; `pc` and `cur` say where in a handler the code stands |
| `IpOut` | `ip_out` and `ip_fragment_out`, composed with `Arp` | `ip_out`, `ip_out_fragment`, `ip_out_advance`, `ip_out_last`, `ip_out_end`; `ArpOut`, `ArpIn` are steps of `Arp` with what they leave in `txbuf`; `Clock` |
| `Buf` | the window of a buffer: `[data, len]`, `data` an index into `payload` | operators |
| `Receive` | everything between `driver_recv` and the handler of a port, on `rxbuf` and `udp_table` | one action per handler, `udp_in` in four steps because `udp_checksum` overwrites what `src_ip` points to and puts it back; `udp_open`, `udp_close` |
| `Send` | the way out, on the buffers: `udp_send`, `udp_out`, `udp_checksum`, `icmp_resp`, `ip_out`, `ip_fragment_out`, `arp_out` with `buf_copy`, `ethernet_out` | `txbuf`, `pending` (the value in `arp_buf`), `sent` (the argument of `driver_send`); one action per handler and per turn of the loop of `ip_out`. A buffer is its window and the place where its packet was written |
| `Lan` | any number of hosts that run `arp.c`, and the medium between them | one action per handler (`arp_out`, `arp_in`, `arp_init`), `Lose`, `Tick`; a call is one step here, since `Arp` has the inside of the handlers |
| `Driver` | `net_init`, `driver_open`, `driver_find`, and the registration of the protocols | one action per call that may fail; addresses are strings of `Bits` bits |
| `Checksum` | `checksum16` | one turn of the loop per step, the 32-bit accumulator by its halves; two history variables carry the reference sum |
| `Base64` | `cencode.c`, `cdecode.c`, `base64_utils.c` of Lab 9 | the callers: `encode_file`, `EncodeChunk`, `EncodeEnd`, `encode_str`, `StrEnd`, `DecodeCall`; the coroutines, one byte or one character per step as in their loops: `step_A`, `step_B`, `step_C`, `BlockReturn`, and `SkipChar`, `step_a` to `step_d`, `DecodeReturn`. What a call saves is in `es` and `ds`, its locals are `enc` and `dec`. Decoding begins when the text is complete |
| `MC...` | the instances | |
| `MapLemmas` | what the map operations do to the set of entries, proved | |
| `TimedMapProofs`, `IpOutProofs` (with those of `Arp`), `LanProofs`, `ReceiveProofs`, `ByteLoopProofs` (of `Checksum` and of `Base64`), `SendProofs`, `DriverProofs` | theorems | |

How they fit together. `Arp` is `arp.c` seen from inside, every reading of the clock a
step of its own; `Lan` composes hosts of it whose handlers are atomic, which is what the
other hosts can tell; `IpOut` puts `ip_out` on top of it; `Send` and `Receive` look at the
same code from the buffers, where `arp_out` may do any of the things that `Arp` says when
it does. `Map` is the container in all of them.

Abstractions. A key, an address, a MAC, a packet, a port is a model value or a
number. A map entry is the record (key, value, time stamp) in its slot, since which
slots are taken matters. A datagram on its way out is an interval of its own bytes
(`[of, from, len]`), so that a fragment can be compared with the part it should be.
A received frame is a record of what its headers say (lengths, type, protocol, port,
whether its checksums are right); a handler that stands at a wrong place of the
buffer reads the fields of an arbitrary frame. `checksum16` over an even number of
bytes says whether the checksum is right; over an odd number it leaves out the last
byte, so that any verdict is possible.

Out of the code's behaviour in this model: log output; the fixed fields of headers;
ARP packets with a bad header, which change nothing.

Variants. Definitions called `X_something` next to a definition `X` are variants of
it with a mistake; each property is shown to fail with one of them, so that it does
say something about the code.

## 3. Runs

| run | instance | shows |
|---|---|---|
| `timed_map` | 3 keys, 2 slots, timeout 1, clock to 6, up to one second inside `map_set` | the six properties of `TimedMap`, `ImplementsDict` among them |
| `arp` | 2 addresses, 2 stations, 3 packets, tables of 2 | the safety and action properties of `Arp` |
| `ip_out` | datagrams of 1, 2 and 3 fragments, 4 packets, clock to 5 | `Reassembles`, `ArpFrameStaysInside`, `PrefixSent` |
| `ip_one_buf` (violation) | same module | the request for the first fragment destroys the rest of the datagram (`net.c:31`) |
| `receive` | 16 frames, 2 ports, a table of 1 port, a payload of 400 bytes | `Outcome`, `ToTheSender`, `LeftFartherOn`, and `PortsCounted` of the map without timeout |
| `receive_fits` (violation) | same instance | a frame is written over the end of the payload (`buf.h:12`, `testing/faker/driver.c:71`) |
| `send` | 14 lengths of UDP data up to 65,535, 6 of ICMP messages, the real sizes | `OnTheWire`, `ChecksumRestores` |
| `lan` | 2 hosts, tables of 2, timeouts of 1 and 2 seconds, time without end | `SomethingUnderWay`; `AlwaysResolvedAgain` under fairness |
| `driver` | 3 bits, up to 3 interfaces with up to 2 addresses | `LongestSubnet`, `RefusedForReason`, `ReadyToPoll` |
| `checksum` | 8 words, up to 15 bytes | `IsOnesComplement`, `RightOnTheWire` |
| `base64` | some 1,100 files of up to 19 bytes, chunks of 4 bytes, lines of 12 characters, pieces of 1 to 3 characters to decode | `EncodesFile`, `Lines`, `DecodesFile`, `Fits` |
| `base64_str_fits` (violation) | the same files but the empty one | `encode_str` writes over the end of its buffer (`base64_utils.c:22`) |

Bounds. `MaxTime` ends the clock and `MaxPackets` the packets; both are large enough
for an entry to expire, its slot to be used again, and to expire once more, and for a
table to be exhausted that way. `MaxSkew` is the time that may pass inside one
`map_set`; time between two map operations is unbounded up to `MaxTime`. Capacities
of one or two make full tables a matter of a few steps. The three datagram lengths of
`ip_out` are one that just fits, one byte more, and a multiple with a short rest.
The payload of `receive` holds 400 bytes instead of 131,325, with the MTU scaled to
47: room for some twenty frames before one goes over the end, in all orders, at every
position that sums of 14, 34 and 42 bytes (and of the -6 of a malformed datagram)
reach, the last bytes of the payload included. Lengths of headers are the real ones.

`send` uses the real sizes, with the lengths on both sides of every limit: padding to 46
bytes, one, two and three full fragments, the largest UDP datagram, the largest `uint16_t`.
`lan` needs no end of time: the time stamps move instead of the clock, so that the present
second of a map is always `timeout + 2` and a stamp that has expired stays expired at 1.
With timeouts of 1 and 2 entries of both tables expire, are used again, and exhaust the
tables of 2. Two hosts have all the crossings that `arp.c` can tell apart, since a frame
between two others teaches a host nothing about the pair but fills its table, which
restarts and expiry do as well. `driver` has `net_if_ip` 000, which is no restriction, as
addresses are only compared; three bits allow three nested subnets. `base64` reads 4 bytes
at once instead of 4,096; what matters is that both are 1 modulo 3, so that chunks end at
every place of a group. Its lines have 12 characters instead of 72, and its files reach over
the end of the second one; `MaxStr` is 18 instead of 3,000, and the longest file is refused. Pieces of
up to 3 characters, in every order, stop the decoder at each of its steps, before and after
a newline and padding.
The words of `checksum` make every kind of carry, among them a carry out of the first fold.

`CHECK_DEADLOCK FALSE` stands in the runs of `Receive` because a frame over the end of
the payload is undefined behaviour, after which the model has no step (`pc =
"overrun"`); in those of `Driver`, `Checksum` and `Base64` because a start that has failed
or has come to the polling loop, a call that has returned, and a file that is encoded and
decoded are the end.

Fairness. Only `Lan` assumes any (`Fairness`), for `AlwaysResolvedAgain`; everything else
is safety. (1) `Tick` is weakly fair: seconds pass. (2) `arp_out(h, g)` is weakly fair for
every pair: the property is about hosts that go on sending, and it promises nothing to a
host that does not, since `arp.c` never repeats a request by itself. (3) `arp_in(f)` is
strongly fair: a frame that is put on the medium again and again is not lost every time,
and a frame that has arrived is handled, because `main` polls for ever (`main.c:27-30`) and
a handler always returns. Weak fairness would not do, since each loss disables `arp_in`.
There is none on `Lose` and `arp_init`: nothing has to go wrong. `AlwaysResolvedAgain` ends
with `Full`, because the code promises no more once `arp_table` is exhausted.

### What the violations mean

The first fragment of a datagram to an unresolved address is stored, the second carries
part of an ARP frame and is dropped by `arp_out` — as long as `ip_out` is faster than a
second (`ArpFrameStaysInside`); the datagram is lost either way. `rxbuf` is set up once,
and each frame leaves it 14 to 42 bytes farther on; after 1,600 to 4,800 frames the next
one goes over its end. The tests do not see that because their driver calls `buf_init` for
every frame. `encode_str` allocates twice the length of its input, too little for 4
characters, a newline and a 0 that stand for one or two bytes, or for the 8 that stand for
four; user names and passwords (`send.c`) may be as short as that.

## 4. Theorems

All for every value of the constants under the named assumptions of the modules
(`MapAssumption`, `ArpAssumption`, `IpAssumption`, `LanAssumption`, `BufAssumption`,
`ReceiveAssumption`, `FrameAssumption`, `VerdictAssumption`, `ChecksumAssumption`,
`SendAssumption`, `DriverAssumption`, `Base64Assumption`): capacities are positive, timeouts natural
numbers with `ARP_MIN_INTERVAL <= ARP_TIMEOUT_SEC`, NULL is no key and no value, frames
are not larger than MTU + 14, which is less than half the payload, and their fields are
natural numbers and truth values; a datagram has 1 to 65,535 bytes, and what a fragment
carries is a multiple of 8 and no less than an ARP frame; `checksum16` is given at most 131,070 bytes (a buffer
holds less than 65,663); what is sent has at most 65,535 bytes, and `BUF_MAX_LEN` is the
131,325 that `buf.c` has; a file is any sequence of bytes, `SIZE` is above 1, since the
three characters for one byte that may end a line do not fit into two, and a line has at
least 12 characters, since with shorter ones `encode_str` overruns for more lengths. The clock never steps back (`time()` may; nothing is
claimed then).

* **`TimedMapProofs`**: `TypeCorrect`, `SizeBoundsHold`, `UniqueKeysHold`,
  `SlotBelowCapacityHolds` (by counting: below capacity some slot is free, so the last
  `return -1` of `map_set` is dead code), `ExhaustionIsForeverHolds`,
  `ImplementsDictHolds` (the refinement: initial states map to initial states, every step to a step or a
  stutter). The invariant is `Sound`: no stamp of the future, `Occupied <= size <=
  max_size`, no key live in two slots, every slot in use filled.
* **`IpOutProofs`, first part** (`Arp`): all seven properties of the run `arp`. The properties are not
  inductive: that no packet is sent twice needs to know which packets wait and that
  they have not been sent, except between the send and the delete of `arp_in`
  (`WaitInv`); that none waits for a resolved address needs that `arp_out` only stores
  after a miss and that time cannot bring an entry back (`ApartInv`, `OutInv`); the
  spacing of requests needs that for `ARP_MIN_INTERVAL` after a request there is
  either a waiting entry or a resolved one at least as young (`AskInv`), and that in
  turn what `arp_in` is about to remove is covered by the claim it has just written
  (`CallInv`). `IInv` is their conjunction. It speaks of the sets of entries, and
  `MapLemmas` reduces every map operation to what it does to these sets.
* **`IpOutProofs`, second part** (`IpOut`): `ImplementsArp` (every step of `IpOut` is a step of `Arp` or leaves its
  variables alone, so that everything proved of `Arp` holds under `ip_out`; it needs that
  the loop calls `arp_out` only for the address it was given and with no handler of ARP
  under way, `CallOK`), `FragmentsInOrder`, `IpTypeCorrect`, `ReassemblesHolds` for
  datagrams and fragments of every length. The invariant relates three places in the
  datagram: what the fragments handed over so far cover without a gap (`CutTo`), where the
  rest in `txbuf` begins (`RestFrom`), and `8 * offset` (`PlaceInv`, `CutInv`). All three
  agree unless the rest has been overwritten by a request; between a fragment and the end
  of the loop's body the first is one fragment ahead. `8 * offset < size <= 65535` then
  bounds the offset by 13 bits.

  `ArpFrameStaysInsideHolds` and `PrefixSentHolds` relate the history of a call to the
  clock. A request overwrites `txbuf` only because the address is unknown; from then on
  `arp_out` stores nothing for it, since a fragment of it waits or `arp_buf` is full,
  until the clock has gone `ARP_MIN_INTERVAL` on (`OverwrittenInv`). So what carries an ARP
  frame and is not lost was stored late (`InsideInv`). Within one second either every
  fragment of the call has gone out so far, or the address is unknown and nothing can be
  stored for it (`StalledInv`); hence all those before a fragment that goes out or waits
  have gone out (`BeforeInv`). The conjunction, with which packets belong to the call in
  progress (`CallsInv`), is inductive together with the invariants of both parts.
* **`LanProofs`**: `SomethingUnderWayHolds`, `LanTypeCorrect`, for any number of hosts. That a
  waiting host has an answer or its request under way (`ReleaseInv`) is not inductive,
  because a host with a packet waiting does not answer (`arp.c:137`). It is with
  `CrossInv`: of two hosts that wait for each other *both* have a frame coming. That is
  kept when the second of them begins to wait because of `LearntInv`: if the first one's
  request had arrived already, the second would know the address and not ask, for at least
  as long as the first one's packet waits. Here `ARP_MIN_INTERVAL <= ARP_TIMEOUT_SEC` is
  needed.
* **`ReceiveProofs`**: `TypeCorrect` (whatever arrives, the handlers keep the data of an
  accepted frame inside the payload), `OutcomeHolds`, `ToTheSenderHolds`,
  `LeftFartherOnHolds`, `PortsCountedHolds`. The properties speak of the end of a call. The invariant says
  where in the frame `rxbuf` stands when each handler begins (`PlaceInv`), that nothing
  has come of the frame yet and that a pseudo header is in the way only between the two
  halves of `udp_checksum` (`CallInv`), what the length check and the sum have shown
  (`SumInv`), and that the table of ports is the history of `udp_open` and `udp_close` and
  counts its slots (`TableInv`; without a timeout the count of a map is exact). The slots in
  use then correspond one to one to the open ports, which is `PortsCounted`. `PlaceInv` says nothing of a datagram whose `total_len` does not include
  its header, since nothing is promised for it except to whom an answer goes. Of
  `Outcome` the hypothesis `Room` is needed: one byte short of the end of the payload
  `buf_add_padding` fails, and the restoring step then cuts off a byte of the datagram.
* **`ByteLoopProofs`, first part** (`Checksum`): `TypeCorrect`, `IsOnesComplementHolds`,
  `RightOnTheWireHolds`.
  After k words the high half of the accumulator is at most k, so that it never
  overflows and the first fold never carries more than once (`2 * hi + i <= MaxLen`);
  folding commutes with adding a word (`Fold(check_number) = ones`), and so does swapping
  (`swap16(ones) = network`).
* **`ByteLoopProofs`, second part** (`Base64`): `CoderTypeCorrect`, `EncodesFileHolds`,
  `LinesHold`, `DecodesFileHolds`, `FitsHolds`, for all files, sizes of a chunk and lengths
  of a line, and for every way to cut up the text. `EncodesFile` and `Fits` speak of the end
  of a file or a call, and a coder knows neither the file nor where it is in it; so the
  invariant `CoderInv` says after every byte what a coder has made as a function of the file
  and of the number of bytes taken. `EncodeInv`: the text is that of the bytes taken
  (`CodeOf`: every character of it and every newline, at its place), the bits that are left
  over are those of the last byte (`Holds`), and `stepcount` is the number of groups on the
  line. It holds at the step of the coroutine while a call runs and of what it has saved
  between calls, which is why it does not matter where the chunks fall. `CountInv`: what a
  call has written stays within five characters for three bytes, with an allowance that
  depends on the step, since the first call may begin within a group and end a line with
  its first byte. `DecodeInv`: the values of six bits decoded so far are those whose places
  in the text have been passed (`Values`), the bytes written are the beginning of the file
  (`Out`), and the decoder has the first bits of the next one (`DecoderHas`), or at the
  beginning of a group anything. The lemmas `Place` to `WholeText` are about the places: that
  adding a character or a newline keeps the text at its places, and that no character
  stands at the place of a newline. They divide by a constant that is not a number,
  which the provers cannot do; `Divides` and `Divided` say what a quotient is by
  multiplication.
* **`DriverProofs`**: `LongestSubnetHolds`, `RefusedForReasonHolds`, `ReadyToPollHolds`, for
  addresses of every width and all lists of interfaces. A netmask has no more ones than an
  address shares bits with `net_if_ip` exactly if `net_if_ip` is in its subnet
  (`InSubnet`), which is why `driver_find` can compare prefixes instead of masks. The
  theorems speak of every address of every interface, while `driver_find` lets the last
  address of an interface stand for all of them. That is harmless as long as none of the
  others is closer to the stack (`LastIsClosest`), and each theorem says so where it needs it;
  section 5 says what happens otherwise (`LongestPrefix`). The
  address taken shares the most bits. Any other one whose subnet the stack is in shares
  no more (`Counted`), so the one taken lies in that subnet as well; if wide subnets
  keep their addresses out of the narrow ones (`WellNested`), its netmask is not longer.
  Without `WellNested` `LongestSubnet` is false: TLC finds a wide subnet with
  an address close to the stack's. The invariant says that the choice made stays the best
  one of `alldevs` (`ChosenInv`) and how far the device is at each stage (`StageInv`).
* **`SendProofs`**: `TypeCorrect`, `OnTheWireHolds`, `ChecksumRestoresHolds`, for datagrams
  of every length. The invariant says where the window of each buffer stands relative to
  its packet: `txbuf` ends where its packet ends while `ip_out` runs (or holds a frame of
  ARP), and the stored packet ends at the middle of its payload, which is what `buf_copy`
  relies on.

Proofs use no induction over data and no recursive operator. Only model-checked:
`AlwaysResolvedAgain` of `Lan` (liveness is beyond the prover) and the violations. Every
other property that a run checks is a theorem.

## 5. Deviations

Where comments of the repository and its code disagree. The first three are runs that end in a
violation; the others are definitions of the modules that TLC finds false when they are
named as INVARIANT (or PROPERTY) in the configuration of that module's run.

| definition | says | the code |
|---|---|---|
| `FrameFits` (run `receive_fits`) | a frame fits into `payload` (`buf.h:12`) | nothing puts `rxbuf.data` back (`driver.c:165`) |
| `OneBufIsEnough` (run `ip_one_buf`) | one buffer is enough (`net.c:31`) | the request for the first fragment destroys the rest of the datagram (`ip.c:120`) |
| `StrFits` (run `base64_str_fits`) | the buffer is large enough for the encoded data (`base64_utils.c:22` of Lab 9) | `malloc(len*2)` is too little for strings of 0, 1, 2 and 4 characters (`base64_utils.c:23`) |
| `SizeIsCurrent` (`TimedMap`) | `size` is the current size (`map.h:16`, `map.c:30`) | an entry that replaces an expired one is counted on top of it (`map.c:114`) |
| `MinRequestInterval` (`Arp`) | requests for an address are `ARP_MIN_INTERVAL` apart (`config.h:36`, `arp.c:171`) | with `arp_buf` exhausted, after 15 packets that expired, every packet is dropped and causes a request (`arp.c:172`) |
| `HeaderRemoved` (`Receive`) | the IP layer has removed its header (`udp.c:29`) | 20 bytes whatever `hdr_len` says, and none if `total_len16 < 20` (`ip.c:52`) |
| `QuotesDatagram` (`Receive`) | an error quotes the header and 8 bytes of the datagram (`icmp.c:73`) | `udp_in` has cleared the checksum in them (`udp.c:82`) |
| `EchoAnswered` (`Receive`) | an echo request is answered (`icmp.c:56`, `utils.c:72`) | `checksum16` leaves out an odd byte (`utils.c:79`), and a correct request is dropped |
| `LongestPrefix` (`Driver`) | the interface with the longest matching prefix is chosen (`driver.c:35`) | each address of an interface writes over what the one before counted for (`driver.c:61`) |

What follows from the last one: an interface whose last address is in another subnet counts
for nothing, so that `driver_find` takes a worse one or none, and the test for the stack's own
address (`driver.c:83`) does not see it when it is not the last of its interface; the stack
then polls with an address that the machine has as well. `LongestSubnet`, `RefusedForReason` and
`ReadyToPoll` are false without `LastIsClosest`, each on its own account.

`QuotesDatagram` speaks of the bytes in `rxbuf` when the error is built; `Outcome` only of the
place the message quotes and of its receiver. `Fits` leaves out the lengths for which `StrFits`
fails, and would hold of a larger buffer too.

## 6. Not modelled

* `iptos`, `mactos`, `timetos`, printing of tables: formatting into static buffers.
  `driver_close`, which nothing calls; `LoadNpcapDlls`, which only the Windows build has.
* `testing/`: fakes and pcap fixtures, read for what they say about the code.
* `Npcap/` (headers with declarations and constants only, more than half of all C lines of
  the repository), `build/` (generated), Labs 1 to 8 (documents).
* Lab 9's mail clients: `swap16`, which they call, is defined nowhere in their directory,
  and they write through an uninitialised pointer before the first socket call
  (`send.c:75`, `recv.c:40`), so that nothing after it has a defined behaviour.
* Fields that no property is about: the contents of IP and UDP headers on the way out. The
  16-bit `total_len16` of `udp_out` and a computed UDP checksum of 0 are hazards that
  `PROJECT.json` lists with the reason.
* A `time()` that is set back.

## 7. Order of work

1. (done) `Map`, `TimedMap`, `ExpiringDict` and proofs; `Arp` and proofs; `IpOut`;
   `Buf`, `Receive` and proofs.
2. (done) `Lan` with liveness; `Driver`; `Checksum` and proofs; `Base64`; `Send` and
   proofs.
3. (done) `IpOutProofs`, `LanProofs`.
4. (done) `ArpFrameStaysInside` and `PrefixSent` as theorems; `DriverProofs`.
5. (done) `Base64` with one byte or character per step, as the loops of `cencode.c` and
   `cdecode.c` have it, so that what a call computes is an invariant and needs no induction
   over the input; `ByteLoopProofs`.
6. Ahead: that the handlers of `Lan` are those of `Arp` when no time passes inside them, as a
   refinement; the fields of the headers on the way out in `Send`.
