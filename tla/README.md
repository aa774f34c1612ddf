# TCP2Modbus gateway: TLA+ models and proofs

The program is the firmware of an STM32F107 gateway between a TCP server and an
RS485 Modbus RTU bus (`Net2Modbus/Lwip1.4.1+efls ByWang/`; paths below are
relative to it). Frames from the server go to the bus unchanged, what slaves put
on the bus goes to the server inside a small envelope. The configuration (server
address, IAP mode, radio channel) lives in one flash page.

There is no operating system. A superloop (`main`, `myself/src/main.c`) calls
everything; two interrupt handlers, USART2 (priority 0) and TIM3 (priority 1),
run the Modbus link layer and share its state with the superloop without locks.
The build has `USED_MODBUS`, `RS485_MASTER_CALL` and `USED_SI4432` on; HTTP, SMTP,
file system, thermometer, watchdog are off, and `USE_IAP_TFTP` distinguishes the
IAP program from the application.

## 1. Inventory

| Component | State | Operations | Hard because |
|---|---|---|---|
| RTU link layer, `modbus/freemodbus-v1.6.0/modbus/rtu/mbrtu_m.c` | `eRcvState`, `eSndState`, receive and send buffers, positions, `xFrameIsBroadcast` | receive, transmit and timeout state machines; `eMBMasterRTUSend`, `eMBMasterRTUReceive` | three contexts, USART2 preempts the timer handler half-way; one timer for three purposes |
| Port layer, `port/port*_m.c` | interrupt enables, TIM3, one event slot | enable, start and stop timer, post and get | post and get are two assignments each |
| Event loop, `modbus/mb_m.c` | `usLength`, the uplink record `Mb2TcpBuff` | `eMBMasterPoll` | length and bytes of a frame are taken in different turns of the loop |
| Downlink, `modbus/User/modbus_main.c` | `TcpRecvBuf`, poll list, `DevIndex` | `ModbusSenttset`, `Master_Send` | single buffers; overwritten before the bus accepts |
| Uplink, `SendDataToSever` in `myself/src/client_tcpudp.c` | `Mb2TcpLenth` | send or drop | one record |
| TCP client, `client_tcpudp.c` | `Tcplink`, `wpcb`, `TCPCreatTrm` | `TcpTestThread`, `tcp_client_callback`, connected, error and receive callbacks | the connection is kept twice; every attempt drops the old pointer; stack timers against the client's |
| lwIP TCP, `GNU源码/lwip-1.4.1/src/core/tcp.c`, `tcp_in.c` | pool of control blocks, their states and lists | bind, connect, close, input, slow timer | third party; only what the client drives |
| Configuration, `flash/src/flash_if.c` | the page at 0x0803F800, `flash_net_buf` | `GetIpFromFlash` (reads and repairs), `WriteIpToFlash` | erase and program are not atomic; power fails; interrupt masking |
| Boot, `main.c`, `iap/src/main_iap.c` | IAP mode, validity of the application | stay or jump | rewrites the page on every boot |
| Commands over UDP and TCP, `client_tcpudp.c` | the above | `setconfig`, `setchl`, `setiap`, `setapp`, `get...`, `reboot` | write flash from callbacks |
| TFTP upgrade, `iap/src/tftpserver_iap.c` | block number, write address | write request, data | duplicates, second request, ignored flash errors |
| Ethernet driver, `GNU源码/lwip-1.4.1/archport/port/ethernetif.c`, `Libraries/STM32_ETH_Driver` | two descriptor rings shared with the DMA, `Eth_Buff`, `frameds` | poll for a frame, hand it to lwIP, send, reset on overrun | the DMA works on the same descriptors at the same time and goes to sleep by itself |
| lwIP ARP, `src/netif/etharp.c` | `arp_table`, `etharp_cached_entry`, one waiting packet per entry | output, input, timer | a full table, stale cached index, silent hosts |
| lwIP TCP sending, `tcp_out.c`, `tcp_in.c`, `tcp.c` | `unsent`, `unacked`, window, timers of a control block | write, output, ACKs, slow timer | loss, duplication, reordering, closed windows |
| lwIP heap, `src/core/mem.c` | the list of blocks, `lfree` | `mem_malloc`, `mem_free`, `mem_trim` | long sequences of calls; every pbuf depends on it |
| Radio, `SI4432_Driver/SI4432.c` | chip registers | `tx_data`, `Si4432Thread` | busy waits, chip protocol |

Interaction: server frames (FFAA) are put into `TcpRecvBuf` by
`tcp_client_reciver`, `ModbusSenttset` hands them to `Master_Send`, USART2 sends
them; the answer is collected by USART2, TIM3 ends it and posts an event,
`eMBMasterPoll` builds the uplink record over two events, and `SendDataToSever`
writes it to `wpcb` if `Tcplink` is 0. Flash commands mask interrupts, which stops
the Modbus part.

What makes the components correct: the bus is half duplex and what is sent is the
frame that was accepted; waiting ends; an uplink record consists of received bytes
and is not replaced; the client's flag and pointer describe its connection, and it
keeps trying; the configuration in use was written as a whole and survives resets;
a started application is a whole image; the stack below delivers frames in order, to
the right address, and does not stall. Seen from the outside the gateway is a relay:
it loses frames but does not repeat, reorder or invent them, and it polls the list in
force entry by entry.
`PROJECT.json` lists the hazards line by line.

## 2. Modules

| Module | Models | Used by |
|---|---|---|
| `MasterRTU` | link layer, port layer, event loop, `Master_Send`, `SendDataToSever` with the interrupt nesting | `MCMasterRTU`, `MasterRTUProofs` |
| `TcpClient` | the client on top of the lwIP control blocks | `MCTcpClient`, `TcpProofs` |
| `FlashConfig` | the page, boot, commands, power failure | `MCFlashConfig`, `FlashConfigProofs` |
| `Relay` | abstract: what the gateway promises between server and bus | `Gateway` |
| `Gateway` | the superloop with downlink, poll list, uplink and connection flag | `MCGateway`, `GatewayProofs` |
| `IapTftp` | the firmware upgrade, with TFTP clients, network and power | `MCIapTftp`, `IapTftpProofs` |
| `EthDriver` | driver and DMA on both rings | run directly, `EthDriverProofs` |
| `EthArp` | the ARP table | run directly, `EthArpProofs` |
| `TcpSend` | sending half of a connection, network and peer | run directly, `TcpProofs` |
| `MemHeap` | the heap of the stack | run directly, `MemHeapProofs` |

`Gateway` composes at the grain of the superloop what `MasterRTU` (bus) and `TcpClient`
(connection) have in detail; `EthDriver`, `EthArp`, `TcpSend` and `MemHeap` are the layers
below, each with an environment of its own. An operator
whose comment starts with `Mutant:` is a wrong variant of a definition that follows; no
specification uses it, it documents which mistake a property would catch.

### MasterRTU

Variables carry the names of the source. `isr` and `pc` are the program counters of
the TIM3 handler and of the superloop. A USART2 interrupt is one action, because
nothing preempts it; the TIM3 handler has one action per access to state that USART2
also writes (`Tim3Enter` .. `Tim3Disable`); the superloop moves only while TIM3 is not
active, and has one action per access to shared state, byte by byte in the two copy
loops, with a critical section (`eMBMasterRTUSend`, `eMBMasterRTUReceive`) as one action.

A received byte is the number of the bus frame it belongs to, so that a record mixed
from two frames can be seen; 0 is a byte never written. `ByteOf` says which frame the
next byte belongs to: a new one after TIM3 has measured the silence, the same while
the timer runs, either when no timer runs. Arming the timer is
one operator with a mode, as the three functions differ in the period only. Header
and trailer of an uplink record are counted, not stored. `xMasterIsBusy` is left out:
nothing in the program ever sets it. What `ModbusSenttset` sends is any frame of `Frames`.

### TcpClient

One action per segment that matters to the client, one per run of `tcp_slowtmr`, one
per due run of `TcpTestThread`, each with the callbacks it makes; all of it runs in the
superloop, so nothing interleaves inside. A block is `FREE`, `CLOSED` (allocated, on no
list: lost), `BOUND`, or in a TCP state. Time is in slow-timer ticks (500 ms): `age` is the
block's, `since` the client's. `tcp_bind` refuses a port that any listed block has,
`tcp_alloc` takes a free block or aborts the longest idle active one.

Values: `lwipopts.h` of the build is not in the repository, so the defaults of `opt.h` and
`tcp_impl.h` are taken: pool of 5, `TCP_SYNMAXRTX` 1 (a SYN is given up at the 7th tick),
`TCP_MSL` 500 ms. The client's interval is 5 s, of which 9 ticks are certain provided a turn
of the superloop stays well below a tick. The proofs need only `SYN_TICKS <= RETRY`.
`MaxConnectFailures` bounds how often `tcp_connect` returns `ERR_MEM`.

### FlashConfig

The page is eight half-words in programming order. A write is erase, eight half-word
steps and a return that depends on the caller (`then`); power may fail before each, and an
erase cut short leaves any subset of the words erased. `requests` collects what was handed
to the flash, `current` what a command set last, `lost` whether a write was cut short since.
The IAP program and the application are the same source; `prog` says which one runs. An
upgrade erases the application, not the configuration page (`USER_FLASH_LAST_PAGE_ADDRESS`
is the page before it); one that ends with an invalid image changes nothing here.
Interrupts are only looked at while the program runs its loop. An erase or a programming step
may fail (`FlashError`): the result of the erase is not looked at (`flash_if.c:214, 240`), but
its error flag makes the first `FLASH_ProgramWord` fail, so the page is as it was.

### Gateway and Relay

`pc` walks through the four calls of the superloop in the order of `main.c`. A message of
the server is a member of `sent`; `got` of them have come in. `TcpRecvBuf` holds the number
of the message whose frame it has, `CMDLIST` is `TCP2RS485CMDLIST` in cells of one
entry, `DevIndex`, `sptr`, `MsaterTime` are the source's, `wait` is the time since
`MasterCallTrm`. `idle` says whether the link layer would accept a frame. Between any two
steps of the loop a connected server may send, the bus may start or end a frame, the clock may
tick, and while lwIP runs the connection may come and go; with it goes what was under way
(`UnderWayLost`). A frame may start and end also between the two events in which
`eMBMasterPoll` takes the frame before it; an uplink record is named after the frame whose
reception it reports, since which bytes it has in that case is the subject of `MasterRTU`.

`Relay` has no buffers and no loop: messages, a list in force, a position in it, the last
frame put on the bus and the last frame given to the server. Frames may get lost anywhere; a
list gets lost only with its connection (`Disconnect`). The refinement is
`R == INSTANCE Relay WITH list <- given, at <- DevIndex`, the other variables by
name; `given`, `next`, `out`, `downs`, `up`, `ups` are history variables of `Gateway`.
It needs `ListsFit`: a list is not longer than the part of the array that is cleared
(`Cleared`). A list of more than 1024 bytes is not cleared behind its end by the next
shorter one, and old entries with the right letter go on being polled.
One message is one segment, as in the code: `tcp_client_reciver` looks at the head of
each segment only.

### IapTftp

A word of the application area is `<<upload, number>>`, so that a mixture of images is
visible. `session[s]` is `args->block` of the transfer on port `s`; `addr` is the one
`Flash_Write_Address` that all transfers share. Datagrams stay in `net` and may be handled
any number of times and in any order. An erase or a write may fail in the middle, with or
without the error flag, which nobody clears; power may fail inside them. TFTP
clients follow RFC 1350: they resend, give up and start over, and refuse unknown ports with an
ERROR packet of `ErrorWords` words, whose code 5 stands where a block number would and whose
message is programmed if block 5 is expected. A write stops at the end of the area
(`Programmable`). `FLASH_If_Write` itself stops at the end of the flash only (`flash_if.c:97`), but
the word behind the area is the server's address in the configuration page, and
`FLASH_ProgramWord` takes erased words only. `hands` records who used the area since it was last erased.

### EthDriver

A descriptor is its OWN bit, the frame in it and its kind. The DMA's steps (receive, send,
suspend, fall asleep) are actions of their own; the driver's calls are split where the DMA could
come between two accesses: copy, OWN test, hand-over, poll demand. The send DMA suspends itself in
two steps, it finds a descriptor without OWN bit (`DmaSuspends`) and sets TBUS later
(`DmaSleeps`); `missed` records that a frame was handed over and TBUS tested in between. Frames that span two
buffers stay at the head of the ring, as the code never takes them.

### EthArp

`arp_table` with state, address, age and the one waiting packet; `out` is what the last
call put on the wire, `heard` the address every host announced last, `asked` the hosts that
were asked again since the last timer. The four passes of `etharp_find_entry` are
operators (`Matches`, `Empties`, `Oldest`, `Recycled`). `ARP_QUEUEING` is 0 (default), so
a second packet replaces the first.

### TcpSend

`pcb` is a record with the fields of `struct tcp_pcb` that sending uses; segments are
`[seq, len]`. The congestion window is any value of at least one segment. `up` and `down` are
the two directions of the network; a fault loses, repeats or delays a segment or lets
a timer be early. `rto` and `keep` of `tcp_slowtmr_data` say which timers are due. A loop over
a queue that stops at the first segment failing its test is `Leading`, the number of segments
it gets over; `tcp_output`, `tcp_rexmit` and `tcp_receive` all use it. `nrtx` has 8 bits.
The names that `TcpClient` has too carry a prefix (`SendInit`, `SendNext`, `SendSpec`), because
`TcpProofs` extends both modules.

### MemHeap

`ram` maps offsets of linked structs to their fields; `held` is what the callers own and how
many bytes they were promised. `mem_size_t` has 16 bits: requests within
`MEM_ALIGNMENT - 1` of 2^16 would wrap, and are excluded by assumption.

## 3. Runs

| Run | Checks | Shows |
|---|---|---|
| `rtu` | `TypeOK`, `HalfDuplex`, `AnswerTimed`, `WholeFrameSent`, `UplinkReceived`, `UplinkSlotFree` | the link layer keeps its promises under every interleaving (2.8 million states) |
| `rtu_live` | `AnswerEnds`, `TransmissionEnds`, `StartupEnds`, `EventHandled` | nothing waits for ever |
| `tcp` | `LinkFlagExact`, `WpcbIsConnection`, `PoolServes`, `KeepsConnectingWithMemory` | the client's view of its connection is exact, failed binds are harmless, and attempts go on unless a `tcp_connect` fails (140 thousand states) |
| `flash` | `NoTornConfig`, `ConfigDurable` | no mixed configuration, no lost one, over any number of power failures and flash errors (5.2 million states) |
| `gateway` | `Relayed`, `EveryEntryPolled` | the superloop implements `Relay`; every entry of a list that stays in force is polled again and again (1.1 million states) |
| `iap` | `StartsWholeImage`, `AckedIsWritten`, `AcksOnlySent`, `TransferEnds` | a transfer that nobody else disturbs writes what it acknowledges, ends, and only a whole image is started, through losses, duplicates, power failures (227 thousand states) |
| `eth` | `ReceivedInOrder`, `SentInOrder`, `RingSplit`, `QueuedIsSent`, `ReceivedIsRead` | driver and DMA share the rings soundly, overruns and resets included; what is given to the driver is sent in order and at most once, and whole as long as nothing overruns the ring (191 thousand states) |
| `arp` | `OneEntryPerHost`, `WaitsOnItsHop`, `SentWhereHeard`, `Rerequested`, `PendingEnds` | no double entry, no packet to the wrong address, no host pending for ever (269 thousand states) |
| `tcpsend` | `NothingLost`, `QueuesSorted`, `InWindow`, `GivenUpForCause`, `AllAcked` | no byte lost, the window kept, everything acknowledged or given up for cause (251 thousand states) |
| `mem` | `AreasKept`, `NoAdjacentFree`, `LowestFree` | the heap's structure survives every sequence of calls (32 thousand states) |
| `tcp_KeepsConnecting` | `KeepsConnecting` | one unlucky `tcp_connect` ends all attempts |
| `iap_WholeFileReceived` | `WholeFileReceived` | a stray short datagram ends a transfer and starts half an image |

`AckedIsWritten`, `RingSplit` and `QueuesSorted` contain the type invariant of their module;
those of `Gateway`, `EthArp` and `MemHeap` are proved.

### Bounds

* `rtu` shrinks 256-byte buffers to 3 bytes received and 2 sent, minimum frame 2, two
  bus frames, three frames to send (a broadcast, a unicast, one too long): enough for a frame
  that just fits, one that overflows, one too short, a record of two frames and a send in
  every state. The model depends on the sizes only through comparisons, and the proofs cover
  all sizes. `rtu_live` has one-byte buffers; after `MaxBusFrames` the slaves are silent.
* `tcp` has the real pool and clocks and one failing `tcp_connect`; `tcp_KeepsConnecting`
  has 3 blocks. `flash` has two addresses that can be set, one of them 255.255.255.255
  (indistinguishable from an empty word), one port and one channel.
* `gateway`: three messages of the server (`MaxSent`), enough for frame, list, frame in any
  order and for a list replaced in the middle of a round; two bus frames (`MaxHeard`), the second
  of which may start before the first is uplinked. One frame fits the bus, one is too long. The clock stops at `MaxWait`, the longest interval.
* `iap`: an image of 3 words, which ends in a short block, and one of 5, which does not fit the
  area of 4; blocks and pages of 2 words, error packets of one, two control blocks, two write requests, one flash
  error, one power failure: a second transfer, of the same or another client, before,
  during and after the first.
* `eth`: rings of 3 and 2, five frames in, four out: both rings go round and overflow.
  Frames of 1501 to 1514 bytes are left out (`Kinds`): see the divergences below.
* `arp`: three hosts and a gateway destination for two entries, two hardware addresses, maximum
  age 3, pending age 2, re-request from age 1.
* `tcpsend`: segments of 2 bytes, send buffer 3, peer's buffer 2, three bytes, two faults, two
  retransmissions, two probes, two duplicate ACKs. Small, but the window closes, segments are
  filled up, acknowledged in part and retransmitted by timer and by duplicates.
* `mem`: a heap of 24 bytes, headers of 2, seven request sizes from 0 to more than the heap, so that first fit, splitting, both kinds of
  merging and exhaustion occur; the proofs cover all sizes.

The runs with `CHECK_DEADLOCK FALSE` are the ones whose environment is bounded: when the
bounds are used up nothing is left to happen.

### Fairness

* `MasterRTU`: weak fairness of the transmitter interrupt, the timer and its handler,
  because a pending interrupt is served and a running timer expires; strong fairness of the
  superloop, because interrupts suspend it over and over but are rare against its speed. None
  for the slaves. `TransmissionEnds` and `StartupEnds` say themselves what can prevent them: a
  superloop that restarts the transmission again and again, and a bus that is never silent.
* `TcpClient`: weak for the slow timer, strong for `TcpTestThread`, which the
  superloop calls for ever; none for the server.
* `Gateway`: weak for the superloop and the clock. `LinkChanges` is part of the loop's second
  call but gets no fairness, so the connection owes nothing.
* `IapTftp`: strong fairness of handling the block a client is sending and of the client
  receiving an acknowledgement: clients resend, and the network does not lose everything.
* `EthDriver`: weak for the DMA and for a call of the driver to end, strong for reception, because
  the superloop polls for ever and sending comes in between.
* `EthArp`: weak for `etharp_tmr`, called every five seconds; none for hosts.
* `TcpSend`: weak for the network (what is not lost arrives) and the peer's application; strong for
  the retransmission and persist timers, which count ticks whatever arrives; weak for
  keepalive, which every arriving segment restarts.

### Findings

* A failed `tcp_connect` leaves the port taken for ever (`KeepsConnecting`).
* A write request that arrives twice opens two ports. The client answers the second with an
  ERROR packet, and `IAP_wrq_recv_callback`, which takes every short datagram for the end of the
  file, starts the half-written image (`WholeFileReceived`).

### Other divergences met while modelling

These follow from the lines named; the models follow the code, and the
properties above are worded so that they say what remains true.

* `mbrtu_m.c:229, 419` against the comments at 337-338: a send while the master waits for an
  answer does not stop the respond timer, and the timer cuts the new frame short.
* `mbrtu_m.c:404, 421` against 308-309: a byte that arrives between the two lines is received
  without its timer; the frame ends only with a later byte or never.
* `mb_m.c:356` against 312: length and bytes of a received frame are taken at different times
  from a buffer in use, and a record may mix two frames. `mb_m.c:315`: the record buffer is too
  small for its guard. `portevent_m.c:42, 54`: notifications get lost in the one-slot mailbox.
* Three assertions of `mbrtu_m.c` (lines 165, 267, 399) are false in ordinary operation (a
  frame that fills the buffer, the first byte of an answer, an answer timeout); they are compiled out.
* `main.c:113` against 97-98: an unset mode word keeps the gateway in IAP. `flash_if.c:215, 225`:
  `GetIpFromFlash` may return with interrupts off, which only a later critical section undoes.
* `client_tcpudp.c:490`: 1024 of the 1400 bytes of the poll list are cleared (`ListsFit`).
  `client_tcpudp.c:453`: a segment of 1500 bytes or more is not copied, and the old contents of
  `Tdata` are looked at again. `modbus_main.c:95`: the length byte of an entry is not compared
  with `MasterA[24]`; `Gateway` assumes well-formed lists.
* `tftpserver_iap.c:165-168, 309-324`: early returns keep their pbufs. `tftpserver_iap.c:185`: a
  block is acknowledged although programming failed.
* `ethernetif.c:298`: a frame of more than 1500 bytes is not copied but passed on, so the stack
  sees the frame before it twice. `ethernetif.c:218`: `ERR_OK` is returned for a frame that was
  dropped by the reset; TCP recovers by retransmission, UDP does not. `ethernetif.c:212`: the
  copy comes before the OWN test at 544, so a frame that the DMA is about to send may go out with the
  bytes of the one that overruns it (second part of `SentInOrder`).
* `ethernetif.c:590`: TBUS is tested before the poll demand. A DMA that found no frame just before
  the hand-over and sets TBUS just after the test sleeps over the frame until the next one is sent
  (`missed` in `QueuedIsSent`). An unconditional poll demand would not have the window.
* `flash_if.c:97`: an image longer than the application area is stopped only because the first word of
  the configuration page is programmed; were the page empty, or the address 255.255.255.255, the image
  would go on into it.
* `mem.c`: `Getmeminf` reads `ram_end->prev`, which `mem_malloc` does not maintain.
* `tcp.c:836` against `opt.h:927` ("Maximum number of retransmissions of data segments"):
  `tcp_slowtmr` gives a connection up when `nrtx` equals `TCP_MAXRTX`, and `tcp_rexmit` counts
  without looking (`tcp_out.c:1303`). Duplicate ACKs that arrive between the last allowed
  retransmission and the next tick take `nrtx` past the limit, and the segment is retransmitted
  on while nothing new is acknowledged. TLC finds it when `pcb.nrtx <= TCP_MAXRTX` is added as an
  invariant with segments of one byte, four bytes, the default limit of one and three
  duplicate ACKs. For this reason `SendInv` bounds `nrtx` by its eight bits only.
* Without keepalive, a lost update after a small but non-zero window stops a connection that has
  nothing unacknowledged: the persist timer runs for a zero window only. `AllAcked` is checked
  with keepalive on.

## 4. Proofs

All theorems have the form `Spec => []Inv` (`Refinement`: `Spec` implies the abstract specification;
for sending the specification is `SendSpec`),
for every value of the constants allowed by the named assumptions, and use no fairness.

`MasterRTUProofs` (`SizeAssumption`, `ByteAssumption`): `IndInv` is `TypeOK` and six parts.
`BusInv` is half duplex plus the reason the answer timer is never lost: the TIM3 handler
sets `eSndState` to idle before it stops the timer, and only USART2 in transmit mode could
change that in between, which a state other than `TX_XMIT` excludes. `CopyInv`, `XmitInv` and
`FrameInv` tie `Master_Send`'s argument, the send buffer, the pointer and the bytes sent; a
refused send implies that no transmission is running, which is why overwriting the buffer
first is harmless. `RcvInv` says that every position below the receive position or the saved
length was received; `SlotInv` follows the record round the loop. From it: `TypeOK`,
`HalfDuplex`, `AnswerTimed`, `WholeFrameSent`, `UplinkReceived`, `UplinkSlotFree`.

`TcpProofs` on the client (`PoolAssumption`, `ClockAssumption`): at most one block is on a list
(`OneListed`, by `tcp_bind`), a SYN is exactly as old as the attempt that sent it
(`SynInv`), so it is gone when the next attempt is due; hence the block that gets established
is `wpcb` and flag and states agree. From it: `LinkFlagExact`, `WpcbIsConnection`, `PoolServes`.

`TcpProofs` on sending (`TcpSendAssumption`; any segment size, buffers, windows, thresholds and any
number of faults): `SendInv` has four parts.

* `PcbInv`: `unacked` followed by `unsent` is one line of segments without gap or overlap, from at
  most `lastack` up to `snd_lbb` (`Queues`); the two queues meet at or below `snd_nxt`, and what is
  in `unacked` is inside the window. Order alone would not be inductive: a head that is
  retransmitted goes back to its place only because nothing lies between the queues. A handler
  breaks the line for a moment, when `tcp_rexmit_fast` moves the head of `unacked` before
  `unsent`; the head was inside the window, the window has not moved since, and `TF_INFR`
  switches Nagle off, so the `tcp_output` that ends the same handler certainly sends it and puts it back
  (`FastOutput`, `MergedAgain`).
* `Reach`: the peer has at most what was sent, and one byte more when a zero-window probe carried
  the first byte of `unsent`. So an ACK beyond `snd_nxt`, which `tcp_receive` ignores, can only come
  while nothing is unacknowledged, and no segment is taken for acknowledged that is not.
* `UpInv`: what is under way was sent, and ends inside `read + PeerBuf`; the byte of a probe is at
  most the next one, because it is the first outstanding byte and that is not behind `lastack`.
* `DownInv`, `WindowInv`: of two ACKs under way the one with the higher number never has the lower
  window edge, and the same holds between the window in the control block and the ACKs that may
  still replace it. This is what the test on `snd_wl2` is for: an old ACK that
  arrives late is not allowed to close or open the window.

What the loops do is proved without induction over data: `Leading` is characterised from the least
index that fails (`Least`), and `Merged` from its recursive function, where a sorted burst is
appended segment by segment and the first wrong one would be least. From it: `NothingLost`,
`QueuesSorted`, `InWindow`.

`FlashConfigProofs` (`HalfAssumption`, `ValueAssumption`): while a write is under way the page
is a prefix of what is written (`WriteInv`); the channel word is last and its low half is never
FFFF, so a page whose channel word is not empty has everything before it (`PageInv`).
From it: `NoTornConfig`. `DurableIndInv` adds two parts for `ConfigDurable`. Outside a write the
page holds what a command set last, or is empty and that is the default; inside a write its source
does (`DurableInv`), so that a power failure is the only way to lose it. `PortInv` is the reason why
the port never makes a configuration count as empty: it is 16 bits wide, its word never FFFFFFFF. The
address 255.255.255.255 does, and is excepted in `ConfigDurable`.

`GatewayProofs` (`GatewayAssumption`, and `ListsFit` as a hypothesis): `IInv` is the type
invariant and parts that tie buffers to history. The frame in `TcpRecvBuf` is a message after the
last one with an effect, and no list lies between (an FFBB message empties the buffer); the array
holds the list in force and zeros behind it, which is where `ListsFit` is needed; `sptr` is one past `DevIndex` unless the walk is at its start; the
event slot, the receive buffer and the record hold frames newer than the last one uplinked, also
when the next frame has overwritten an event that was not handled yet. A lost connection takes
messages that no part of the invariant is about.
From it every step of `Next` is a step of `Relay` or a stutter: `ListsFit => (Spec => Relayed)`
(theorem `Refinement`).

`EthArpProofs` (`EthArpAssumption`): uniqueness of entries is inductive only together with where
packets wait, that stable entries carry the address last heard, and that an entry being
re-requested is among the hosts asked for in this timer period. `etharp_find_entry` is dealt with once: the index it
returns is an entry of the host, or an entry that is emptied and no other entry has the host.
From it: `Unique`, `QueuedOnPending`, `NeverMisdelivered`, `KeptAlive`, and that ages stay
below `ARP_MAXAGE`.

`MemHeapProofs` (`MemHeapAssumption`): the chain invariant says that `next` of a block is the least
block above it, that `prev` is its inverse except at the end marker, that blocks are at
least a header and the minimum apart, and that the areas fit. Two lemmas, `Link` and `Plug`, carry
it over the two ways the list changes: a struct is inserted behind a block (`LinkedAfter`) or
blocks are merged (`Plugged`). From it: `Disjoint`, `Merged`, `SearchComplete`, and `NothingLeaks`: when nothing
is held the heap is one block again.

`EthDriverProofs` (`EthAssumption`): the descriptors that one side has handed to the other are a
run of the ring from the pointer of the one side to the pointer of the other (`RxRun`, `TxRun`).
The receive run is in order and newer than what the driver read last, which is newer than what the
stack has got. The frames of the transmit run are consecutive, newer than the ones on the wire,
and without an overrun exactly those that follow them (`TxFrames`); after an overrun only the frame
at the pointer can have the bytes of the one being sent. `Round` and `RoundOn` are the arithmetic of going round a ring, stated once for both.
From it: `RingSplit` and `SentInOrder` for all kinds of frames, and `ReceivedInOrder` with the
hypothesis `NoFullFrames`, since a frame of more than 1500 bytes makes the stack see the
one before it again (see the divergences).

`IapTftpProofs` (`TftpAssumption`): the argument goes round once. A client sends a block only after the
one before was acknowledged (`ClientInv`, `NetInv`), an acknowledgement is not above the last block that
its port has got, and somebody sent that block (`AckInv`), so a transfer that is alone meets its
blocks in order and at the address behind the last one (`WrittenInv`). The errors that clients send to
ports they do not know reach only transfers that have nothing written. The mode word says "application"
only behind a whole image (`StartInv`). None of the parts is inductive without the others, and power
failures and stale datagrams of an earlier life make it necessary that every datagram and
acknowledgement carries the life of its port. From it: `AckedIsWritten`, `StartsWholeImage`, `AcksOnlySent`.

Every inductive invariant also holds in TLC on the instance of its module's run.

Only model-checked:

* all liveness properties (`AnswerEnds` .. `EventHandled`, `KeepsConnectingWithMemory`, `EveryEntryPolled`,
  `TransferEnds`, `QueuedIsSent`, `ReceivedIsRead`, `PendingEnds`, `AllAcked`): fairness and
  `ENABLED` are beyond the prover;
* `GivenUpForCause` of `TcpSend`: it compares the number of faults with `nrtx`, and the inductive
  form has to count, over the contents of the network, which answers are still owed and how many
  duplicate ACKs a fault can cause. It holds for thresholds of two duplicates or more;
* `KeepsConnecting` and `WholeFileReceived` are refuted, not proved.

## 5. Not modelled

* Contents of frames and replies; CRC (compiled out).
* The direction pin of the RS485 driver, which is switched when the data register is empty and not
  when the shift register is (`mbrtu_m.c:357`): a matter of bit times below the grain of `MasterRTU`.
* lwIP beyond the parts above: reassembly of received data, IP, UDP and ICMP parsing,
  checksums, pbufs and pools, and the protocols the gateway does not use (DHCP, DNS, IGMP,
  SNMP, PPP, the sequential and socket interfaces). They are vendored, and either their state does not
  outlive a call or the build leaves them out. They are most of the lines of the repository.
* The STM32 peripheral library and CMSIS: register definitions and set-up. What matters of the flash
  controller and the Ethernet DMA is in `IapTftp`, `FlashConfig` and `EthDriver`.
* HTTP server, SMTP client, NetBIOS, TFTP file server, efsl, thermometer: switched off.
* FreeModbus slave, ASCII and TCP transports, function handlers: not reached in this build.
* The SI4432 radio: busy waits on a chip whose protocol is not in the repository.

## 6. State and what is left

Modelled: `MasterRTU`, `TcpClient`, `FlashConfig`, `Gateway` and `Relay`, `IapTftp`, `EthDriver`,
`EthArp`, `TcpSend`, `MemHeap` with their runs. Proved: every safety invariant the runs check except
`GivenUpForCause`, and the refinement of `Relay`.

Worth doing next:

1. An abstract register for `FlashConfig` and its refinement, from `DurableIndInv`.
2. `GivenUpForCause`, with the counting invariant described above.
3. Action properties of `MasterRTU` and `MemHeap` from their invariants.
