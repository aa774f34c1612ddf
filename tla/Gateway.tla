------------------------------ MODULE Gateway ------------------------------
(***************************************************************************)
(* The gateway between server and bus, at the grain of the superloop of    *)
(* main.c: SendDataToSever, LwIP_Periodic_Handle with the callback         *)
(* tcp_client_reciver, ModbusSenttset with the poll list, eMBMasterPoll.   *)
(* The bus and the clock go on at any point of it.  MasterRTU has the      *)
(* interrupts behind the bus, TcpClient the connection behind Tcplink.     *)
(*                                                                         *)
(* A cell of TCP2RS485CMDLIST stands for an entry; entries are as long as  *)
(* each other, which is the case in which what is left of an older list    *)
(* lines up with the newer one.  Messages are well formed.                 *)
(***************************************************************************)
EXTENDS Integers, Sequences

CONSTANTS
  Frames,       \* [id, len] of FFAA messages
  Lists,        \* [entries] of FFBB messages, an entry is [key, frame, wait]
  Other,        \* commands
  Cells,        \* entries that TCP2RS485CMDLIST holds (1400 bytes)
  Cleared,      \* the part of it that memset clears (1024 bytes)
  MB_PDU_SIZE_MAX,
  MaxDev,       \* DevIndex starts over at this value (255)
  Second,       \* MsaterTime before any list
  MaxWait,      \* bound: the clock is not looked at beyond it
  MaxSent,      \* bound: messages of the server
  MaxHeard      \* bound: frames on the bus

ASSUME GatewayAssumption ==
  /\ Frames \subseteq [id : Nat, len : Nat \ {0}]
  /\ Lists \subseteq [entries : Seq([key : Nat, frame : Frames, wait : Int])]
  /\ \A l \in Lists : Len(l.entries) \in 1 .. Cells
  /\ Frames \cap Lists = {} /\ Other \notin Frames \cup Lists
  /\ {Cells, Cleared, MB_PDU_SIZE_MAX, MaxDev, MaxWait, MaxSent,
      MaxHeard} \subseteq Nat
  /\ Second \in Nat \ {0} /\ Cleared <= Cells /\ Cells < MaxDev

(* A list fits into what memset clears, as all lists below 1 KiB do.       *)
ListsFit == \A l \in Lists : Len(l.entries) <= Cleared

VARIABLES
  pc,             \* where the superloop is
  sent, got,      \* messages of the server without those lost with their
                  \* connection, and how many of them came in
  TcpRecvBuf,     \* which message it holds the frame of
  TcpRecvLenth,
  CMDLIST,        \* TCP2RS485CMDLIST
  DevIndex, sptr, MsaterTime,
  wait,           \* Time - MasterCallTrm, up to MaxWait
  idle,           \* the receiver is idle, so that a send is accepted
  ev,             \* event slot of the Modbus master
  heard, rcvbuf,  \* frames on the bus; the one in the receive buffer
  Mb2Tcp,         \* the frame in the uplink record, 0 if there is none
  Tcplink,        \* 0: connected
  out, next, downs,   \* history: the last frame put on the bus, the last
                  \* message with an effect, frames forwarded to the bus,
  given, up, ups  \* the last list, the last frame uplinked and how many

busVars  == <<idle, ev, heard, rcvbuf>>
upVars   == <<Mb2Tcp, Tcplink, up, ups>>
downVars == <<sent, got, TcpRecvBuf, TcpRecvLenth>>
pollVars == <<CMDLIST, DevIndex, sptr, MsaterTime, wait>>
histVars == <<out, next, downs, given>>
vars == <<pc, busVars, upVars, downVars, pollVars, histVars>>

Zero == [key |-> 0]

Init ==
  /\ pc = "SendDataToSever"
  /\ sent = <<>> /\ got = 0 /\ TcpRecvBuf = 0 /\ TcpRecvLenth = 0
  /\ CMDLIST = [c \in 1 .. Cells |-> Zero]
  /\ DevIndex = 0 /\ sptr = 1 /\ MsaterTime = Second /\ wait = 0
  /\ idle = FALSE /\ ev = "none" /\ heard = 0 /\ rcvbuf = 0
  /\ Mb2Tcp = 0 /\ Tcplink = 1 /\ up = 0 /\ ups = 0
  /\ out = [src |-> "none"] /\ next = 0 /\ downs = 0 /\ given = <<>>

-----------------------------------------------------------------------------
(* Server, bus and clock.                                                  *)

(* The server sends on the connection there is.                            *)
ServerSends(m) ==
  /\ Tcplink = 0 /\ Len(sent) < MaxSent
  /\ sent' = Append(sent, m)
  /\ UNCHANGED <<pc, got, TcpRecvBuf, TcpRecvLenth, busVars, upVars, pollVars,
                 histVars>>

(* A slave starts to send, also while the last frame is on its way through *)
(* the two events of eMBMasterPoll.                                        *)
BusStarts ==
  /\ idle /\ heard < MaxHeard
  /\ idle' = FALSE
  /\ UNCHANGED <<pc, ev, heard, rcvbuf, upVars, downVars, pollVars, histVars>>

(* The frame ends, or, before the first one, the start-up silence.  The    *)
(* event slot holds one event: what was not handled yet is overwritten.    *)
BusEnds ==
  /\ ~idle /\ idle' = TRUE
  /\ \/ /\ heard < MaxHeard /\ heard' = heard + 1 /\ rcvbuf' = heard'
        /\ ev' = "frame"
     \/ heard = 0 /\ UNCHANGED <<ev, heard, rcvbuf>>
  /\ UNCHANGED <<pc, upVars, downVars, pollVars, histVars>>

Tick ==
  /\ wait < MaxWait /\ wait' = wait + 1
  /\ UNCHANGED <<pc, CMDLIST, DevIndex, sptr, MsaterTime, busVars, upVars,
                 downVars, histVars>>

-----------------------------------------------------------------------------
(* SendDataToSever: the record is written to the connection or, without    *)
(* connection or when tcp_write fails, dropped.                            *)
SendDataToSever ==
  /\ pc = "SendDataToSever" /\ pc' = "LwIP_Periodic_Handle"
  /\ Mb2Tcp' = 0
  /\ \/ Mb2Tcp > 0 /\ Tcplink = 0 /\ up' = Mb2Tcp /\ ups' = ups + 1
     \/ UNCHANGED <<up, ups>>
  /\ UNCHANGED <<Tcplink, busVars, downVars, pollVars, histVars>>

(* Mutant: an FFBB list does not discard the frame before it.              *)
FFBBKeepsFrame(l) ==
  /\ CMDLIST' = [c \in 1 .. Cells |-> IF c <= Len(l) THEN l[c]
                               ELSE IF c <= Cleared THEN Zero ELSE CMDLIST[c]]
  /\ DevIndex' = 0
  /\ next' = got' /\ given' = l
  /\ UNCHANGED <<TcpRecvBuf, TcpRecvLenth, sptr, MsaterTime>>

(* An FFBB message: the list is cleared and replaced, the walk starts      *)
(* over, and TcpRecvLenth, used as a counter meanwhile, ends at 0.         *)
FFBB(l) ==
  /\ CMDLIST' = [c \in 1 .. Cells |-> IF c <= Len(l) THEN l[c]
                               ELSE IF c <= Cleared THEN Zero ELSE CMDLIST[c]]
  /\ DevIndex' = 0 /\ TcpRecvLenth' = 0
  /\ next' = got' /\ given' = l
  /\ UNCHANGED <<TcpRecvBuf, sptr, MsaterTime>>

(* An FFAA message replaces whatever is in TcpRecvBuf.                     *)
FFAA(m) ==
  /\ TcpRecvBuf' = got' /\ TcpRecvLenth' = m.len
  /\ UNCHANGED <<CMDLIST, DevIndex, sptr, MsaterTime, next, given>>

(* tcp_client_reciver, once for every segment the stack has received.      *)
tcp_client_reciver ==
  /\ pc = "LwIP_Periodic_Handle" /\ Tcplink = 0
  /\ got < Len(sent) /\ got' = got + 1
  /\ LET m == sent[got']
     IN  \/ m \in Frames /\ FFAA(m)
         \/ m \in Lists /\ FFBB(m.entries)
         \/ /\ m = Other
            /\ UNCHANGED <<TcpRecvBuf, TcpRecvLenth, CMDLIST, DevIndex, sptr,
                           MsaterTime, next, given>>
  /\ UNCHANGED <<pc, sent, wait, busVars, upVars, out, downs>>

(* What is left of the messages when the connection is lost.               *)
UnderWayLost == SubSeq(sent, 1, got)

(* The connection is established, or lost with what was under way.         *)
LinkChanges ==
  /\ pc = "LwIP_Periodic_Handle"
  /\ \/ Tcplink = 1 /\ Tcplink' = 0 /\ UNCHANGED sent
     \/ Tcplink = 0 /\ Tcplink' = 1 /\ sent' = UnderWayLost
  /\ UNCHANGED <<pc, Mb2Tcp, up, ups, got, TcpRecvBuf, TcpRecvLenth, pollVars,
                 busVars, histVars>>

NetDone ==
  /\ pc = "LwIP_Periodic_Handle" /\ pc' = "ModbusSenttset"
  /\ UNCHANGED <<upVars, downVars, pollVars, busVars, histVars>>

-----------------------------------------------------------------------------
(* Master_Send: too long a frame is not sent, and a busy receiver refuses. *)
Accepted(f) == f.len <= MB_PDU_SIZE_MAX /\ idle
Master_Send(src, f) ==
  out' = IF Accepted(f) THEN [src |-> src, frame |-> f] ELSE out

(* A frame that goes to the bus, in the history.                           *)
Forwarded(i) ==
  IF Accepted(sent[i]) THEN next' = i /\ downs' = downs + 1
                       ELSE UNCHANGED <<next, downs>>

(* ModbusSenttset, a frame of the server: it is forgotten in any case.     *)
SendServerFrame ==
  /\ Master_Send("server", sent[TcpRecvBuf]) /\ Forwarded(TcpRecvBuf)
  /\ TcpRecvLenth' = 0
  /\ UNCHANGED <<sent, got, TcpRecvBuf, pollVars, given>>

(* Mutant: the walk goes on where it was in the old list.                  *)
WalkFromContinued == sptr

WalkFrom == IF DevIndex = 0 THEN 1 ELSE sptr

(* The interval of a list: 1 ms if the four bytes make less, as an int.    *)
Interval(w) == IF w < 1 THEN 1 ELSE w

(* The walk over the list: the entry at sptr is sent if it has the letter  *)
(* of DevIndex, and the first one sets the interval; anything else is the  *)
(* end of the list.                                                        *)
PollList ==
  LET p == WalkFrom
      e == IF p <= Cells THEN CMDLIST[p] ELSE Zero
  IN  \/ /\ e.key = DevIndex + 1
         /\ Master_Send("poll", e.frame)
         /\ MsaterTime' = IF DevIndex = 0 THEN Interval(e.wait) ELSE MsaterTime
         /\ sptr' = p + 1
         /\ DevIndex' = IF DevIndex + 1 = MaxDev THEN 0 ELSE DevIndex + 1
      \/ /\ e.key # DevIndex + 1
         /\ sptr' = p /\ DevIndex' = 0
         /\ UNCHANGED <<MsaterTime, out>>

(* ModbusSenttset when no frame of the server is waiting.                  *)
Poll ==
  /\ \/ wait < MsaterTime /\ UNCHANGED <<pollVars, out>>
     \/ /\ wait >= MsaterTime /\ wait' = 0
        /\ \/ CMDLIST[1] # Zero /\ PollList
           \/ CMDLIST[1] = Zero /\ UNCHANGED <<DevIndex, sptr, MsaterTime, out>>
        /\ UNCHANGED CMDLIST
  /\ UNCHANGED <<downVars, next, downs, given>>

ModbusSenttset ==
  /\ pc = "ModbusSenttset" /\ pc' = "eMBMasterPoll"
  /\ \/ TcpRecvLenth > 0 /\ SendServerFrame
     \/ TcpRecvLenth = 0 /\ Poll
  /\ UNCHANGED <<busVars, upVars>>

(* eMBMasterPoll: a received frame is taken, or refused for its length or  *)
(* checksum, in one turn and made a record in the next.  A record has the  *)
(* number of the frame whose reception it reports; if the next frame has   *)
(* begun by then, some of its bytes may be in it (see MasterRTU).          *)
eMBMasterPoll ==
  /\ pc = "eMBMasterPoll" /\ pc' = "SendDataToSever"
  /\ \/ ev = "frame" /\ ev' \in {"exec", "error"} /\ UNCHANGED Mb2Tcp
     \/ ev = "exec" /\ Mb2Tcp' = rcvbuf /\ ev' = "none"
     \/ ev \in {"none", "error"} /\ ev' = "none" /\ UNCHANGED Mb2Tcp
  /\ UNCHANGED <<idle, heard, rcvbuf, Tcplink, up, ups, downVars, pollVars, histVars>>

-----------------------------------------------------------------------------
Loop == \/ SendDataToSever \/ tcp_client_reciver \/ NetDone
        \/ ModbusSenttset \/ eMBMasterPoll

Next == \/ \E m \in Frames \cup Lists \cup {Other} : ServerSends(m)
        \/ BusStarts \/ BusEnds \/ Tick \/ LinkChanges \/ Loop

Spec == Init /\ [][Next]_vars

(* The superloop and the clock go on.                                      *)
FairSpec == Spec /\ WF_vars(Loop) /\ WF_vars(Tick)

-----------------------------------------------------------------------------
(* Every variable stays in its range; an entry under the walk is inside    *)
(* the array.                                                              *)
TypeOK ==
  /\ pc \in {"SendDataToSever", "LwIP_Periodic_Handle", "ModbusSenttset",
             "eMBMasterPoll"}
  /\ sent \in Seq(Frames \cup Lists \cup {Other})
  /\ got \in 0 .. Len(sent) /\ TcpRecvBuf \in 0 .. got /\ TcpRecvLenth \in Nat
  /\ CMDLIST \in [1 .. Cells -> {Zero} \cup [key : Nat, frame : Frames, wait : Int]]
  /\ DevIndex \in 0 .. Cells /\ sptr \in 1 .. Cells + 1
  /\ MsaterTime \in Nat \ {0} /\ wait \in Nat
  /\ idle \in BOOLEAN /\ ev \in {"none", "frame", "exec", "error"}
  /\ heard \in Nat /\ rcvbuf \in 0 .. heard /\ Mb2Tcp \in 0 .. heard
  /\ Tcplink \in {0, 1} /\ up \in 0 .. heard
  /\ next \in 0 .. got /\ downs \in Nat /\ ups \in Nat /\ given \in {l.entries : l \in Lists} \cup {<<>>}

(* The gateway is a relay: it forwards frames of the server in order and   *)
(* at most once, never a frame from before a list that is in force, never  *)
(* loses a list, polls exactly the entries of the list in force in turn    *)
(* and from the first after every replacement, and gives bus frames to the *)
(* server in order and at most once.                                       *)
R == INSTANCE Relay WITH list <- given, at <- DevIndex
Relayed == R!Spec

(* Once a list stays in force, each of its entries is polled again and     *)
(* again, whatever the bus, the connection and the interval do.            *)
EveryEntryPolled ==
  \A k \in 1 .. Cells :
    <>[](\A j \in 1 .. k : R!Usable(given, j)) => []<>(DevIndex = k)

=============================================================================
