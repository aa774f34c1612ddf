----------------------------- MODULE EthDriver -----------------------------
(***************************************************************************)
(* The Ethernet driver (archport/port/ethernetif.c) and the DMA engine     *)
(* that works on its descriptor rings at the same time.  A descriptor      *)
(* belongs to the DMA while its OWN bit is set and to the CPU otherwise.   *)
(* The CPU side is one thread: low_level_output is called by the superloop *)
(* and, for replies, from within ethernetif_input.                         *)
(*                                                                         *)
(* Frames are numbers, in the order in which they come and are sent.  A    *)
(* "full" frame has 1501 to 1514 bytes, a "span" frame does not fit into   *)
(* one buffer of ETH_MAX_PACKET_SIZE.  The DMA is external: it fills and   *)
(* empties a descriptor in one step, drops what comes while there is no    *)
(* receive descriptor (the next frame wakes it, with or without RBUS being *)
(* cleared), and suspends itself when there is no frame to send: it finds  *)
(* a descriptor without OWN bit, and sets TBUS a while later.              *)
(***************************************************************************)
EXTENDS Integers, Sequences

CONSTANTS
  NRx, NTx,       \* ETH_RXBUFNB and ETH_TXBUFNB
  Kinds,          \* kinds of frames on the wire
  MaxRx, MaxTx    \* bounds: frames that come and frames to be sent

ASSUME EthAssumption ==
  /\ NRx \in Nat \ {0, 1} /\ NTx \in Nat \ {0} /\ MaxRx \in Nat /\ MaxTx \in Nat
  /\ Kinds \subseteq {"normal", "full", "span"}

(* No frame is larger than Eth_Buff, as with an MTU of 1486 or less.       *)
NoFullFrames == "full" \notin Kinds

VARIABLES
  rx, rxDma,      \* receive descriptors; the one the DMA fills next
  DMARxDescToGet,
  Eth_Buff,       \* the frame it holds
  frameds,        \* the frame that Read_Eth_Packet took, 0 if none
  tx, txDma,      \* send descriptors; the one the DMA looks at next
  DMATxDescToSet,
  txState,        \* the send DMA "runs", "suspends" itself or is "asleep" (TBUS)
  txpc, txFrame,  \* where low_level_output is, and its frame
  came, sends,    \* frames that came and that were handed to the driver
  input, wire,    \* history: frames given to lwIP; <<buffer, length>> sent
  overrun,        \* history: a send found its descriptor in use
  missed          \* history: the DMA fell asleep over a frame after TBUS was
                  \* tested for it

rxVars == <<rx, rxDma, DMARxDescToGet, Eth_Buff, frameds, came, input>>
txVars == <<tx, txDma, DMATxDescToSet, txState, txpc, txFrame, sends, wire,
            overrun, missed>>
vars == <<rxVars, txVars>>

(* Mutant: the last descriptor is not chained to the first.                *)
NextRxUnchained(d) == d + 1

NextRx(d) == IF d = NRx THEN 1 ELSE d + 1
NextTx(d) == IF d = NTx THEN 1 ELSE d + 1

FreeRx == [own |-> TRUE, kind |-> "none", frame |-> 0]

(* ETH_DMATxDescChainInit and ETH_DMARxDescChainInit.                      *)
NoTx == [d \in 1 .. NTx |-> [own |-> FALSE, buf |-> 0, len |-> 0]]
NoRx == [d \in 1 .. NRx |-> FreeRx]

Init ==
  /\ rx = NoRx /\ rxDma = 1 /\ DMARxDescToGet = 1 /\ Eth_Buff = 0 /\ frameds = 0
  /\ tx = NoTx /\ txDma = 1 /\ DMATxDescToSet = 1 /\ txState = "runs"
  /\ txpc = "idle" /\ txFrame = 0
  /\ came = 0 /\ sends = 0 /\ input = <<>> /\ wire = <<>>
  /\ overrun = FALSE /\ missed = FALSE

-----------------------------------------------------------------------------
(* The DMA and the wire.                                                   *)

(* A frame comes: into the next descriptor, the next two, or nowhere.      *)
DmaReceives(k) ==
  LET d == rxDma
      e == NextRx(d)
      put(x) == [own |-> FALSE, kind |-> x, frame |-> came + 1]
  IN  /\ came < MaxRx /\ came' = came + 1
      /\ \/ k # "span" /\ rx[d].own
            /\ rx' = [rx EXCEPT ![d] = put(k)] /\ rxDma' = e
         \/ k = "span" /\ rx[d].own /\ rx[e].own
            /\ rx' = [rx EXCEPT ![d] = put(k), ![e] = put(k)]
            /\ rxDma' = NextRx(e)
         \/ k = "span" /\ rx[d].own /\ ~rx[e].own
            /\ rx' = [rx EXCEPT ![d] = put(k)] /\ rxDma' = e
         \/ ~rx[d].own /\ UNCHANGED <<rx, rxDma>>
      /\ UNCHANGED <<DMARxDescToGet, Eth_Buff, frameds, input, txVars>>

(* The DMA sends what is in the buffer, in the length set for it.          *)
DmaSends ==
  /\ txState = "runs" /\ tx[txDma].own
  /\ wire' = Append(wire, <<tx[txDma].buf, tx[txDma].len>>)
  /\ tx' = [tx EXCEPT ![txDma].own = FALSE]
  /\ txDma' = NextTx(txDma)
  /\ UNCHANGED <<rxVars, DMATxDescToSet, txState, txpc, txFrame, sends, overrun,
                 missed>>

(* It fetches the next descriptor and finds nothing to send.               *)
DmaSuspends ==
  /\ txState = "runs" /\ ~tx[txDma].own
  /\ txState' = "suspends"
  /\ UNCHANGED <<rxVars, tx, txDma, DMATxDescToSet, txpc, txFrame, sends, wire,
                 overrun, missed>>

(* TBUS is set and only a poll demand wakes it up, also when there is a    *)
(* frame by now.                                                           *)
DmaSleeps ==
  /\ txState = "suspends"
  /\ txState' = "asleep"
  /\ missed' = (tx[txDma].own /\ txpc # "demand")
  /\ UNCHANGED <<rxVars, tx, txDma, DMATxDescToSet, txpc, txFrame, sends, wire,
                 overrun>>

-----------------------------------------------------------------------------
(* Reception.                                                              *)

(* Mutant: any descriptor of the CPU is taken for a frame.                 *)
ETH_GetRxPktSizeAny == ~rx[DMARxDescToGet].own

(* ETH_GetRxPktSize # 0: a whole frame without error, first and last       *)
(* segment in one descriptor.                                              *)
ETH_GetRxPktSize ==
  ~rx[DMARxDescToGet].own /\ rx[DMARxDescToGet].kind # "span"

(* Mutant: the descriptor is not given back.                               *)
GiveBackNever == rx

(* The OWN bit of the descriptor just read.                                *)
GiveBack == [rx EXCEPT ![DMARxDescToGet] = FreeRx]

(* Read_Eth_Packet and ETH_RxPkt_ChainMode: the frame is copied unless it  *)
(* is larger than Eth_Buff; its descriptor goes back to the DMA.           *)
Read_Eth_Packet ==
  /\ txpc = "idle" /\ frameds = 0 /\ ETH_GetRxPktSize
  /\ LET r == rx[DMARxDescToGet]
     IN  /\ Eth_Buff' = IF r.kind # "full" THEN r.frame ELSE Eth_Buff
         /\ frameds' = r.frame
  /\ rx' = GiveBack
  /\ DMARxDescToGet' = NextRx(DMARxDescToGet)
  /\ UNCHANGED <<rxDma, came, input, txVars>>

(* LwIP_Pkt_Handle, ethernetif_input and low_level_input: what is in       *)
(* Eth_Buff goes to the stack, or is lost when there is no pbuf.           *)
LwIP_Pkt_Handle ==
  /\ txpc = "idle" /\ frameds # 0 /\ frameds' = 0
  /\ input' \in {input, Append(input, Eth_Buff)}
  /\ UNCHANGED <<rx, rxDma, DMARxDescToGet, Eth_Buff, came, txVars>>

-----------------------------------------------------------------------------
(* Transmission.                                                           *)

(* low_level_output: the frame is copied into the buffer of the current    *)
(* descriptor, whoever owns it.                                            *)
low_level_output ==
  /\ txpc = "idle" /\ sends < MaxTx
  /\ sends' = sends + 1 /\ txFrame' = sends'
  /\ tx' = [tx EXCEPT ![DMATxDescToSet].buf = sends']
  /\ overrun' = (overrun \/ tx[DMATxDescToSet].own)
  /\ txpc' = "check"
  /\ UNCHANGED <<rxVars, txDma, DMATxDescToSet, txState, wire, missed>>

(* ETH_TxPkt_ChainMode with the descriptor still in use: Ethernet is reset *)
(* and both rings start over; the frame is forgotten and ERR_OK returned.  *)
Reset ==
  /\ txpc = "check" /\ tx[DMATxDescToSet].own
  /\ tx' = NoTx /\ txDma' = 1 /\ DMATxDescToSet' = 1
  /\ txState' = "runs" /\ missed' = FALSE
  /\ rx' = NoRx /\ rxDma' = 1 /\ DMARxDescToGet' = 1
  /\ txpc' = "idle"
  /\ UNCHANGED <<Eth_Buff, frameds, came, input, txFrame, sends, wire, overrun>>

(* Mutant: the length set for the descriptor is left as it was.            *)
HandOverOldLength ==
  /\ tx' = [tx EXCEPT ![DMATxDescToSet].own = TRUE]
  /\ DMATxDescToSet' = NextTx(DMATxDescToSet)

(* The descriptor gets its length and its OWN bit, and the pointer moves.  *)
HandOver ==
  /\ tx' = [tx EXCEPT ![DMATxDescToSet].own = TRUE, ![DMATxDescToSet].len = txFrame]
  /\ DMATxDescToSet' = NextTx(DMATxDescToSet)

ETH_TxPkt_ChainMode ==
  /\ txpc = "check" /\ ~tx[DMATxDescToSet].own
  /\ HandOver
  /\ txpc' = "demand"
  /\ UNCHANGED <<rxVars, txDma, txState, txFrame, sends, wire, overrun, missed>>

(* Mutant: the poll demand is missing.                                     *)
PollDemandNever == UNCHANGED <<txState, missed>>

(* TBUS is tested, and the send DMA is woken up if it is set.              *)
PollDemand ==
  IF txState = "asleep" THEN txState' = "runs" /\ missed' = FALSE
                        ELSE UNCHANGED <<txState, missed>>

ResumeTransmission ==
  /\ txpc = "demand" /\ txpc' = "idle"
  /\ PollDemand
  /\ UNCHANGED <<rxVars, tx, txDma, DMATxDescToSet, txFrame, sends, wire, overrun>>

-----------------------------------------------------------------------------
Dma == DmaSends \/ DmaSuspends \/ DmaSleeps
Receive == Read_Eth_Packet \/ LwIP_Pkt_Handle
Transmit == Reset \/ ETH_TxPkt_ChainMode \/ ResumeTransmission

Next == \/ \E k \in Kinds : DmaReceives(k)
        \/ Dma \/ Receive \/ low_level_output \/ Transmit

Spec == Init /\ [][Next]_vars

(* The DMA works, a call of the driver ends, and the superloop calls       *)
(* ETH_Recive_Poll again and again, also when it sends a lot.              *)
FairSpec == Spec /\ WF_vars(Dma) /\ WF_vars(Transmit) /\ SF_vars(Receive)

-----------------------------------------------------------------------------
(* Every variable stays in its range.                                      *)
TypeOK ==
  /\ rx \in [1 .. NRx -> [own : BOOLEAN, kind : Kinds \cup {"none"},
                          frame : 0 .. came]]
  /\ tx \in [1 .. NTx -> [own : BOOLEAN, buf : 0 .. sends, len : 0 .. sends]]
  /\ {rxDma, DMARxDescToGet} \subseteq 1 .. NRx
  /\ {txDma, DMATxDescToSet} \subseteq 1 .. NTx
  /\ {Eth_Buff, frameds} \subseteq 0 .. came /\ txFrame \in 0 .. sends
  /\ txpc \in {"idle", "check", "demand"} /\ {overrun, missed} \subseteq BOOLEAN
  /\ txState \in {"runs", "suspends", "asleep"}
  /\ came \in Nat /\ sends \in Nat
  /\ input \in Seq(0 .. came) /\ wire \in Seq((0 .. sends) \X (0 .. sends))

(* The stack sees frames as they came: in order, each at most once and     *)
(* none that was never received, however reception, resets and sending     *)
(* interleave.  It takes NoFullFrames: Read_Eth_Packet does not copy a     *)
(* frame of 1501 to 1514 bytes, and the stack gets the last one again.     *)
ReceivedInOrder ==
  \A i, j \in DOMAIN input : input[i] \in 1 .. came /\ (i < j => input[i] < input[j])

(* The wire sees frames in the order in which low_level_output was given   *)
(* them, none a second time, through resets and overruns too.  Each has    *)
(* its own bytes or, when low_level_output overran it in the ring, those   *)
(* of the frame that comes NTx later and took its buffer, never any older  *)
(* ones.  And as long as no send met a descriptor that was still in use,   *)
(* none is missing or overrun.                                             *)
SentInOrder ==
  /\ \A i, j \in DOMAIN wire : i < j => wire[i][2] < wire[j][2]
  /\ \A i \in DOMAIN wire : wire[i][1] \in {wire[i][2], wire[i][2] + NTx}
  /\ ~overrun => \A i \in DOMAIN wire : wire[i] = <<i, i>>

(* The CPU and the DMA never use a receive descriptor at the same time:    *)
(* going round from DMARxDescToGet, the descriptors of the CPU come first, *)
(* and the DMA is at the first of its own or, when it has none, at         *)
(* DMARxDescToGet.                                                         *)
RingSplit ==
  /\ TypeOK
  /\ LET at(i) == ((DMARxDescToGet - 1 + i) % NRx) + 1
     IN  \E n \in 0 .. NRx :
           /\ rxDma = at(n)
           /\ \A i \in 0 .. NRx - 1 : rx[at(i)].own = (i >= n)

(* A frame handed to the DMA goes out, or the ring is reset, or the DMA    *)
(* was just suspending itself when TBUS was tested: then the frame waits   *)
(* for the next poll demand, and this holds of it again.                   *)
QueuedIsSent ==
  \A d \in 1 .. NTx : tx[d].own ~> (~tx[d].own \/ missed)

(* A frame that came is read and its descriptor given back, unless a frame *)
(* that spans two descriptors is in the ring.                              *)
ReceivedIsRead ==
  \A f \in 1 .. MaxRx :
    (\E d \in 1 .. NRx : rx[d].frame = f)
      ~> (\A d \in 1 .. NRx : rx[d].frame # f /\ rx[d].kind # "span")
           \/ (\E d \in 1 .. NRx : rx[d].kind = "span")

=============================================================================
