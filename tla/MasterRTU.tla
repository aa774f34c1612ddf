----------------------------- MODULE MasterRTU -----------------------------
(***************************************************************************)
(* The Modbus RTU master of the gateway (FreeModbus 1.6.0 as modified in   *)
(* modbus/rtu/mbrtu_m.c, mb_m.c and port/) together with the part of       *)
(* the superloop that drives it (Master_Send, eMBMasterPoll and the        *)
(* consumer of its uplink buffer, SendDataToSever).                        *)
(*                                                                         *)
(* Three execution contexts share the state, without locks:                *)
(*   - USART2_IRQHandler, preemption priority 0: runs to completion, so    *)
(*     one action per kind of interrupt (UsartRx..., UsartTx...);          *)
(*   - TIM3_IRQHandler, priority 1: USART2 may cut in between any two of   *)
(*     its statements that touch shared state, so it has a program         *)
(*     counter, isr;                                                       *)
(*   - the superloop: both handlers may cut in anywhere except in a        *)
(*     critical section, so it has a program counter, pc, and moves only   *)
(*     when TIM3 is not active.  A critical section is one action.         *)
(*                                                                         *)
(* Abstractions.  A byte received from the bus is the number of the bus    *)
(* frame it belongs to (0: never written).  xMasterIsBusy is left out: it  *)
(* is only ever written FALSE, because nothing posts EV_MASTER_FRAME_SENT. *)
(* The 13 header and 5 trailer bytes of an uplink record are only counted. *)
(***************************************************************************)
EXTENDS Integers, Sequences

CONSTANTS
  MB_SER_PDU_SIZE_MIN,   \* shortest frame handed up (4)
  MB_SER_PDU_SIZE_MAX,   \* size of ucMasterRTURcvBuf (256)
  MB_PDU_SIZE_MAX,       \* size of ucMasterRTUSndBuf (253)
  MB2TCP_SIZE,           \* size of Mb2TcpBuff, also its fill guard (256)
  MB2TCP_OVERHEAD,       \* header and trailer of an uplink record (18)
  Bytes,                 \* values of a byte to be sent
  MB_ADDRESS_BROADCAST,  \* the address byte of a broadcast (0)
  Frames,                \* what the superloop may hand to Master_Send
  MaxBusFrames           \* bound: frames the slaves put on the bus

ASSUME SizeAssumption ==
  /\ MB_SER_PDU_SIZE_MIN \in Nat \ {0}
  /\ MB_SER_PDU_SIZE_MAX \in Nat
  /\ MB_SER_PDU_SIZE_MIN <= MB_SER_PDU_SIZE_MAX
  /\ MB_PDU_SIZE_MAX \in Nat \ {0}
  /\ MB2TCP_SIZE \in Nat /\ MB2TCP_OVERHEAD \in Nat \ {0}
  /\ MaxBusFrames \in Nat

ASSUME ByteAssumption ==
  /\ MB_ADDRESS_BROADCAST \in Bytes
  /\ Frames \subseteq Seq(Bytes)

VARIABLES
  eRcvState, usMasterRcvBufferPos, ucMasterRTURcvBuf,        \* receiver
  eSndState, ucMasterRTUSndBuf, sndCur, usMasterSndBufferCount,
  xFrameIsBroadcast,                                         \* transmitter
  rxEnable, txEnable,      \* USART2 RXNE and TXE interrupt enables
  timerOn, uif, eMasterCurTimerMode, \* TIM3 running, update flag, purpose
  xMasterEventInQueue, eMasterQueuedEvent,   \* one-slot event mailbox
  isr,                     \* program counter of TIM3_IRQHandler
  pc,                      \* program counter of the superloop
  data, i,                 \* Master_Send: argument; index of a copy loop
  eEvent, usLength,        \* eMBMasterPoll: event being handled, length
  Mb2TcpLenth, Mb2TcpBuff, \* uplink record: length and payload
  busFrame, gap,           \* history: number of the frame on the bus, and
                           \* whether TIM3 has seen it end
  accepted, sent           \* history: last frame eMBMasterRTUSend took and
                           \* the bytes written to the USART since

rcvVars  == <<eRcvState, usMasterRcvBufferPos, ucMasterRTURcvBuf>>
sndVars  == <<eSndState, sndCur, usMasterSndBufferCount, xFrameIsBroadcast>>
portVars == <<rxEnable, txEnable>>
timVars  == <<timerOn, uif, eMasterCurTimerMode>>
evVars   == <<xMasterEventInQueue, eMasterQueuedEvent>>
mainVars == <<pc, data, i, eEvent, usLength, Mb2TcpLenth, Mb2TcpBuff>>
busVars  == <<busFrame, gap>>
txHist   == <<accepted, sent>>

vars == <<rcvVars, sndVars, ucMasterRTUSndBuf, portVars, timVars, evVars,
          isr, mainVars, busVars, txHist>>

RcvStates   == {"RX_INIT", "RX_IDLE", "RX_RCV", "RX_ERROR"}
SndStates   == {"TX_IDLE", "TX_XMIT", "TX_XFWR"}
TimerModes  == {"T35", "RESPOND_TIMEOUT", "CONVERT_DELAY"}
MasterEvents == {"READY", "FRAME_RECEIVED", "EXECUTE", "ERROR_PROCESS"}
IsrLabels   == {"idle", "rcv", "rcvIdle", "snd", "sndIdle", "disable"}
MainLabels  == {"sever", "senttset", "copy", "rtusend", "poll", "clear",
                "dispatch", "queue", "event", "execute"}

RcvIndex == 0 .. (MB_SER_PDU_SIZE_MAX - 1)
SndIndex == 0 .. (MB_PDU_SIZE_MAX - 1)

-----------------------------------------------------------------------------
(* Port layer.                                                             *)

(* Mutant: the TXE interrupt is never enabled.                             *)
SerialEnableRxOnly(rx, tx) == rxEnable' = rx /\ txEnable' = FALSE

vMBMasterPortSerialEnable(rx, tx) ==
  /\ rxEnable' = rx
  /\ txEnable' = tx

(* Mutant: the convert delay is configured but its timer not started.      *)
TimerEnableNoDelay(mode) ==
  /\ timerOn' = (mode # "CONVERT_DELAY")
  /\ uif' = FALSE
  /\ eMasterCurTimerMode' = mode

(* Arming the timer clears a pending update and restarts the count.        *)
TimerEnable(mode) ==
  /\ timerOn' = TRUE
  /\ uif' = FALSE
  /\ eMasterCurTimerMode' = mode

vMBMasterPortTimersDisable ==
  /\ timerOn' = FALSE
  /\ uif' = FALSE
  /\ UNCHANGED eMasterCurTimerMode

(* The mailbox has one slot and no lock: a post replaces what is there.    *)
xMBMasterPortEventPost(e) ==
  /\ xMasterEventInQueue' = TRUE
  /\ eMasterQueuedEvent' = e

-----------------------------------------------------------------------------
(* System_Setup has run eMBMasterInit and eMBMasterEnable, that is         *)
(* eMBMasterRTUStart.                                                      *)
Init ==
  /\ eRcvState = "RX_INIT"
  /\ usMasterRcvBufferPos = 0
  /\ ucMasterRTURcvBuf = [k \in RcvIndex |-> 0]
  /\ eSndState = "TX_IDLE"
  /\ ucMasterRTUSndBuf = [k \in SndIndex |-> MB_ADDRESS_BROADCAST]
  /\ sndCur = 0
  /\ usMasterSndBufferCount = 0
  /\ xFrameIsBroadcast = FALSE
  /\ rxEnable = TRUE
  /\ txEnable = FALSE
  /\ timerOn = TRUE
  /\ uif = FALSE
  /\ eMasterCurTimerMode = "T35"
  /\ xMasterEventInQueue = FALSE
  /\ eMasterQueuedEvent = "READY"
  /\ isr = "idle"
  /\ pc = "sever"
  /\ data = <<>>
  /\ i = 0
  /\ eEvent = "READY"
  /\ usLength = 0
  /\ Mb2TcpLenth = 0
  /\ Mb2TcpBuff = <<>>
  /\ busFrame = 0
  /\ gap = TRUE
  /\ accepted = <<>>
  /\ sent = <<>>

-----------------------------------------------------------------------------
(* USART2, receive: a slave's byte arrives while RXNE is enabled and       *)
(* xMBMasterRTUReceiveFSM runs.                                            *)

(* Which bus frame the byte belongs to: a new one once TIM3 has measured   *)
(* the silence, the same one while the timer runs, either one when no      *)
(* timer is there to tell.                                                 *)
ByteOf(n) ==
  /\ rxEnable
  /\ \/ n = busFrame /\ ~gap
     \/ n = busFrame + 1 /\ (gap \/ ~timerOn)
  /\ n <= MaxBusFrames
  /\ busFrame' = n
  /\ gap' = FALSE

UsartRxSkip(n) ==                       \* STATE_M_RX_INIT, STATE_M_RX_ERROR
  /\ ByteOf(n)
  /\ eRcvState \in {"RX_INIT", "RX_ERROR"}
  /\ TimerEnable("T35")
  /\ UNCHANGED <<rcvVars, sndVars, ucMasterRTUSndBuf, portVars, evVars, isr,
                 mainVars, txHist>>

UsartRxFirst(n) ==                                        \* STATE_M_RX_IDLE
  /\ ByteOf(n)
  /\ eRcvState = "RX_IDLE"
  /\ eSndState' = "TX_IDLE"
  /\ usMasterRcvBufferPos' = 1
  /\ ucMasterRTURcvBuf' = [ucMasterRTURcvBuf EXCEPT ![0] = n]
  /\ eRcvState' = "RX_RCV"
  /\ TimerEnable("T35")
  /\ UNCHANGED <<sndCur, usMasterSndBufferCount, xFrameIsBroadcast,
                 ucMasterRTUSndBuf, portVars, evVars, isr, mainVars, txHist>>

(* Mutant: off by one at the end of the buffer.                            *)
RcvBufferHasRoomOffByOne == usMasterRcvBufferPos <= MB_SER_PDU_SIZE_MAX

RcvBufferHasRoom == usMasterRcvBufferPos < MB_SER_PDU_SIZE_MAX

UsartRxNext(n) ==                                          \* STATE_M_RX_RCV
  /\ ByteOf(n)
  /\ eRcvState = "RX_RCV"
  /\ \/ /\ RcvBufferHasRoom
        /\ ucMasterRTURcvBuf' =
             [ucMasterRTURcvBuf EXCEPT ![usMasterRcvBufferPos] = n]
        /\ usMasterRcvBufferPos' = usMasterRcvBufferPos + 1
        /\ UNCHANGED eRcvState
     \/ /\ ~RcvBufferHasRoom
        /\ eRcvState' = "RX_ERROR"
        /\ UNCHANGED <<ucMasterRTURcvBuf, usMasterRcvBufferPos>>
  /\ TimerEnable("T35")
  /\ UNCHANGED <<sndVars, ucMasterRTUSndBuf, portVars, evVars, isr, mainVars,
                 txHist>>

UsartRx ==
  \E n \in {busFrame, busFrame + 1} :
    UsartRxSkip(n) \/ UsartRxFirst(n) \/ UsartRxNext(n)

-----------------------------------------------------------------------------
(* USART2, transmit register empty: xMBMasterRTUTransmitFSM.               *)

UsartTxIdle ==                                            \* STATE_M_TX_IDLE
  /\ txEnable
  /\ eSndState = "TX_IDLE"
  /\ vMBMasterPortSerialEnable(TRUE, FALSE)
  /\ UNCHANGED <<rcvVars, sndVars, ucMasterRTUSndBuf, timVars, evVars, isr,
                 mainVars, busVars, txHist>>

UsartTxByte ==                              \* STATE_M_TX_XMIT, bytes left
  /\ txEnable
  /\ eSndState = "TX_XMIT"
  /\ usMasterSndBufferCount # 0
  /\ sent' = Append(sent, ucMasterRTUSndBuf[sndCur])
  /\ sndCur' = sndCur + 1
  /\ usMasterSndBufferCount' = usMasterSndBufferCount - 1
  /\ UNCHANGED <<rcvVars, eSndState, xFrameIsBroadcast, ucMasterRTUSndBuf,
                 portVars, timVars, evVars, isr, mainVars, busVars, accepted>>

(* A broadcast is not answered: the slaves only get time to act on it.     *)
AnswerTimerMode(broadcast) ==
  IF broadcast THEN "CONVERT_DELAY" ELSE "RESPOND_TIMEOUT"

UsartTxEnd ==                               \* STATE_M_TX_XMIT, all written
  /\ txEnable
  /\ eSndState = "TX_XMIT"
  /\ usMasterSndBufferCount = 0
  /\ xFrameIsBroadcast' = (ucMasterRTUSndBuf[0] = MB_ADDRESS_BROADCAST)
  /\ vMBMasterPortSerialEnable(TRUE, FALSE)
  /\ eSndState' = "TX_XFWR"
  /\ TimerEnable(AnswerTimerMode(xFrameIsBroadcast'))
  /\ gap' = TRUE        \* the gateway's own frame separates bus frames
  /\ UNCHANGED <<rcvVars, sndCur, usMasterSndBufferCount, ucMasterRTUSndBuf,
                 evVars, isr, mainVars, busFrame, txHist>>

UsartTx == UsartTxIdle \/ UsartTxByte \/ UsartTxEnd

-----------------------------------------------------------------------------
(* TIM3.  TimerFires is the counter reaching its reload value; the rest is *)
(* TIM3_IRQHandler and xMBMasterRTUTimerExpired, one action per access to  *)
(* state that USART2 also writes.                                          *)

TimerFires ==
  /\ timerOn
  /\ ~uif
  /\ uif' = TRUE
  /\ UNCHANGED <<rcvVars, sndVars, ucMasterRTUSndBuf, portVars, timerOn,
                 eMasterCurTimerMode, evVars, isr, mainVars, busVars, txHist>>

Tim3Enter ==                           \* status read and cleared, 147-151
  /\ isr = "idle"
  /\ uif
  /\ uif' = FALSE
  /\ gap' = TRUE
  /\ isr' = "rcv"
  /\ UNCHANGED <<rcvVars, sndVars, ucMasterRTUSndBuf, portVars, timerOn,
                 eMasterCurTimerMode, evVars, mainVars, busFrame, txHist>>

Tim3Rcv ==                                        \* switch (eRcvState), 381
  /\ isr = "rcv"
  /\ \/ eRcvState = "RX_INIT" /\ xMBMasterPortEventPost("READY")
     \/ eRcvState = "RX_RCV" /\ xMBMasterPortEventPost("FRAME_RECEIVED")
     \/ eRcvState \in {"RX_ERROR", "RX_IDLE"} /\ UNCHANGED evVars
  /\ isr' = "rcvIdle"
  /\ UNCHANGED <<rcvVars, sndVars, ucMasterRTUSndBuf, portVars, timVars,
                 mainVars, busVars, txHist>>

(* Mutant: the receiver is not put back to idle.                           *)
Tim3RcvIdleSkipped ==
  /\ isr = "rcvIdle"
  /\ isr' = "snd"
  /\ UNCHANGED <<rcvVars, sndVars, ucMasterRTUSndBuf, portVars, timVars,
                 evVars, mainVars, busVars, txHist>>

Tim3RcvIdle ==                            \* eRcvState = RX_IDLE, 404
  /\ isr = "rcvIdle"
  /\ eRcvState' = "RX_IDLE"
  /\ isr' = "snd"
  /\ UNCHANGED <<usMasterRcvBufferPos, ucMasterRTURcvBuf, sndVars,
                 ucMasterRTUSndBuf, portVars, timVars, evVars, mainVars,
                 busVars, txHist>>

Tim3Snd ==                                        \* switch (eSndState), 406
  /\ isr = "snd"
  /\ \/ /\ eSndState = "TX_XFWR" /\ ~xFrameIsBroadcast
        /\ xMBMasterPortEventPost("ERROR_PROCESS")
     \/ /\ eSndState # "TX_XFWR" \/ xFrameIsBroadcast
        /\ UNCHANGED evVars
  /\ isr' = "sndIdle"
  /\ UNCHANGED <<rcvVars, sndVars, ucMasterRTUSndBuf, portVars, timVars,
                 mainVars, busVars, txHist>>

(* Mutant: the transmitter is not put back to idle.                        *)
Tim3SndIdleSkipped ==
  /\ isr = "sndIdle"
  /\ isr' = "disable"
  /\ UNCHANGED <<rcvVars, sndVars, ucMasterRTUSndBuf, portVars, timVars,
                 evVars, mainVars, busVars, txHist>>

Tim3SndIdle ==                            \* eSndState = TX_IDLE, 419
  /\ isr = "sndIdle"
  /\ eSndState' = "TX_IDLE"
  /\ isr' = "disable"
  /\ UNCHANGED <<rcvVars, sndCur, usMasterSndBufferCount, xFrameIsBroadcast,
                 ucMasterRTUSndBuf, portVars, timVars, evVars, mainVars,
                 busVars, txHist>>

Tim3Disable ==                            \* 421-425
  /\ isr = "disable"
  /\ vMBMasterPortTimersDisable
  /\ isr' = "idle"
  /\ UNCHANGED <<rcvVars, sndVars, ucMasterRTUSndBuf, portVars, evVars,
                 mainVars, busVars, txHist>>

Tim3 == Tim3Enter \/ Tim3Rcv \/ Tim3RcvIdle \/ Tim3Snd \/ Tim3SndIdle
          \/ Tim3Disable

-----------------------------------------------------------------------------
(* The superloop, from SendDataToSever to eMBMasterPoll and round again.   *)

AtMain(label) == pc = label /\ isr = "idle"

(* Mutant: without a connection the record is kept.                        *)
SendDataToSeverKeeps ==
  /\ AtMain("sever")
  /\ pc' = "senttset"
  /\ UNCHANGED <<rcvVars, sndVars, ucMasterRTUSndBuf, portVars, timVars,
                 evVars, isr, data, i, eEvent, usLength, Mb2TcpLenth,
                 Mb2TcpBuff, busVars, txHist>>

(* The uplink record is written to the connection or dropped; either way   *)
(* its length is reset.                                                    *)
SendDataToSever ==
  /\ AtMain("sever")
  /\ Mb2TcpLenth' = 0
  /\ Mb2TcpBuff' = <<>>
  /\ pc' = "senttset"
  /\ UNCHANGED <<rcvVars, sndVars, ucMasterRTUSndBuf, portVars, timVars,
                 evVars, isr, data, i, eEvent, usLength, busVars, txHist>>

(* ModbusSenttset has nothing to send, or hands a frame to Master_Send,    *)
(* which returns at once when it does not fit.                             *)
ModbusSenttset ==
  /\ AtMain("senttset")
  /\ \/ pc' = "poll" /\ UNCHANGED data
     \/ \E f \in Frames :
          \/ Len(f) > MB_PDU_SIZE_MAX /\ pc' = "poll" /\ UNCHANGED data
          \/ Len(f) <= MB_PDU_SIZE_MAX /\ pc' = "copy" /\ data' = f
  /\ UNCHANGED <<rcvVars, sndVars, ucMasterRTUSndBuf, portVars, timVars,
                 evVars, isr, i, eEvent, usLength, Mb2TcpLenth, Mb2TcpBuff,
                 busVars, txHist>>

(* Master_Send fills the send buffer byte by byte, whatever state the      *)
(* transmitter is in.                                                      *)
Master_SendCopy ==
  /\ AtMain("copy")
  /\ \/ /\ i < Len(data)
        /\ ucMasterRTUSndBuf' = [ucMasterRTUSndBuf EXCEPT ![i] = data[i + 1]]
        /\ i' = i + 1
        /\ UNCHANGED pc
     \/ /\ i = Len(data)
        /\ pc' = "rtusend"
        /\ i' = 0
        /\ UNCHANGED ucMasterRTUSndBuf
  /\ UNCHANGED <<rcvVars, sndVars, portVars, timVars, evVars, isr, data,
                 eEvent, usLength, Mb2TcpLenth, Mb2TcpBuff, busVars, txHist>>

(* Mutant: only a damaged frame keeps the bus busy.                        *)
ReceiverNotFailed == eRcvState # "RX_ERROR"

(* The one condition for sending: the receiver is idle.  Whether an        *)
(* earlier frame is still being sent or answered is not asked.             *)
ReceiverIdle == eRcvState = "RX_IDLE"

(* Mutant: the send pointer is not put back to the start of the buffer.    *)
LoadCountOnly(len) ==
  /\ usMasterSndBufferCount' = len
  /\ UNCHANGED sndCur

LoadTransmitter(len) ==
  /\ sndCur' = 0
  /\ usMasterSndBufferCount' = len

eMBMasterRTUSendOk ==
  /\ AtMain("rtusend")
  /\ ReceiverIdle
  /\ LoadTransmitter(Len(data))
  /\ eSndState' = "TX_XMIT"
  /\ vMBMasterPortSerialEnable(FALSE, TRUE)
  /\ accepted' = data
  /\ sent' = <<>>
  /\ data' = <<>>
  /\ pc' = "poll"
  /\ UNCHANGED <<rcvVars, xFrameIsBroadcast, ucMasterRTUSndBuf, timVars,
                 evVars, isr, i, eEvent, usLength, Mb2TcpLenth,
                 Mb2TcpBuff, busVars>>

(* MB_EIO; Master_Send ignores it and its caller drops the frame.          *)
eMBMasterRTUSendEio ==
  /\ AtMain("rtusend")
  /\ ~ReceiverIdle
  /\ data' = <<>>
  /\ pc' = "poll"
  /\ UNCHANGED <<rcvVars, sndVars, ucMasterRTUSndBuf, portVars, timVars,
                 evVars, isr, i, eEvent, usLength, Mb2TcpLenth,
                 Mb2TcpBuff, busVars, txHist>>

(* xMBMasterPortEventGet: the event is read, and then the slot is emptied. *)
EventGetRead ==
  /\ AtMain("poll")
  /\ \/ /\ xMasterEventInQueue
        /\ eEvent' = eMasterQueuedEvent
        /\ pc' = "clear"
     \/ /\ ~xMasterEventInQueue
        /\ pc' = "sever"
        /\ UNCHANGED eEvent
  /\ UNCHANGED <<rcvVars, sndVars, ucMasterRTUSndBuf, portVars, timVars,
                 evVars, isr, data, i, usLength, Mb2TcpLenth, Mb2TcpBuff,
                 busVars, txHist>>

(* Mutant: the slot is not emptied.                                        *)
EventGetKeeps ==
  /\ AtMain("clear")
  /\ pc' = "dispatch"
  /\ UNCHANGED <<rcvVars, sndVars, ucMasterRTUSndBuf, portVars, timVars,
                 evVars, isr, data, i, eEvent, usLength, Mb2TcpLenth,
                 Mb2TcpBuff, busVars, txHist>>

EventGetClear ==
  /\ AtMain("clear")
  /\ xMasterEventInQueue' = FALSE
  /\ pc' = "dispatch"
  /\ UNCHANGED <<rcvVars, sndVars, ucMasterRTUSndBuf, portVars, timVars,
                 eMasterQueuedEvent, isr, data, i, eEvent, usLength,
                 Mb2TcpLenth, Mb2TcpBuff, busVars, txHist>>

(* EV_MASTER_READY and EV_MASTER_ERROR_PROCESS: nothing that is modelled.  *)
PollOther ==
  /\ AtMain("dispatch")
  /\ eEvent \in {"READY", "ERROR_PROCESS"}
  /\ pc' = "sever"
  /\ UNCHANGED <<rcvVars, sndVars, ucMasterRTUSndBuf, portVars, timVars,
                 evVars, isr, data, i, eEvent, usLength, Mb2TcpLenth,
                 Mb2TcpBuff, busVars, txHist>>

(* Mutant: off by one in the length check.                                 *)
FrameLongEnoughOffByOne == usMasterRcvBufferPos >= MB_SER_PDU_SIZE_MIN - 1

FrameLongEnough == usMasterRcvBufferPos >= MB_SER_PDU_SIZE_MIN

(* EV_MASTER_FRAME_RECEIVED: eMBMasterRTUReceive, a critical section, and  *)
(* the choice of the event to post.                                        *)
PollFrameReceived ==
  /\ AtMain("dispatch")
  /\ eEvent = "FRAME_RECEIVED"
  /\ \/ /\ FrameLongEnough
        /\ usLength' = usMasterRcvBufferPos
        /\ eEvent' = "EXECUTE"
     \/ /\ ~FrameLongEnough
        /\ eEvent' = "ERROR_PROCESS"
        /\ UNCHANGED usLength
  /\ pc' = "queue"
  /\ UNCHANGED <<rcvVars, sndVars, ucMasterRTUSndBuf, portVars, timVars,
                 evVars, isr, data, i, Mb2TcpLenth, Mb2TcpBuff, busVars,
                 txHist>>

(* xMBMasterPortEventPost from the superloop: two assignments.             *)
EventPostQueue ==
  /\ AtMain("queue")
  /\ xMasterEventInQueue' = TRUE
  /\ pc' = "event"
  /\ UNCHANGED <<rcvVars, sndVars, ucMasterRTUSndBuf, portVars, timVars,
                 eMasterQueuedEvent, isr, data, i, eEvent, usLength,
                 Mb2TcpLenth, Mb2TcpBuff, busVars, txHist>>

EventPostEvent ==
  /\ AtMain("event")
  /\ eMasterQueuedEvent' = eEvent
  /\ pc' = "sever"
  /\ UNCHANGED <<rcvVars, sndVars, ucMasterRTUSndBuf, portVars, timVars,
                 xMasterEventInQueue, isr, data, i, eEvent, usLength,
                 Mb2TcpLenth, Mb2TcpBuff, busVars, txHist>>

(* EV_MASTER_EXECUTE: usLength bytes are copied out of the receive buffer, *)
(* as it is now, into the uplink record; a record that would not fit by    *)
(* the code's own test is skipped.                                         *)
PollExecute ==
  /\ AtMain("dispatch")
  /\ eEvent = "EXECUTE"
  /\ \/ /\ usLength < MB2TCP_SIZE
        /\ Mb2TcpLenth' = usLength
        /\ pc' = "execute"
     \/ /\ usLength >= MB2TCP_SIZE
        /\ pc' = "sever"
        /\ UNCHANGED Mb2TcpLenth
  /\ UNCHANGED <<rcvVars, sndVars, ucMasterRTUSndBuf, portVars, timVars,
                 evVars, isr, data, i, eEvent, usLength, Mb2TcpBuff, busVars,
                 txHist>>

PollExecuteCopy ==
  /\ AtMain("execute")
  /\ \/ /\ i < usLength
        /\ Mb2TcpBuff' = Append(Mb2TcpBuff, ucMasterRTURcvBuf[i])
        /\ i' = i + 1
        /\ UNCHANGED <<Mb2TcpLenth, pc>>
     \/ /\ i = usLength
        /\ Mb2TcpLenth' = Mb2TcpLenth + MB2TCP_OVERHEAD
        /\ pc' = "sever"
        /\ i' = 0
        /\ UNCHANGED Mb2TcpBuff
  /\ UNCHANGED <<rcvVars, sndVars, ucMasterRTUSndBuf, portVars, timVars,
                 evVars, isr, data, eEvent, usLength, busVars, txHist>>

Master_Send == ModbusSenttset \/ Master_SendCopy \/ eMBMasterRTUSendOk
                 \/ eMBMasterRTUSendEio
eMBMasterPoll == EventGetRead \/ EventGetClear \/ PollOther
                   \/ PollFrameReceived \/ EventPostQueue \/ EventPostEvent
                   \/ PollExecute \/ PollExecuteCopy

Main == SendDataToSever \/ Master_Send \/ eMBMasterPoll

-----------------------------------------------------------------------------
Next == UsartRx \/ UsartTx \/ TimerFires \/ Tim3 \/ Main

Spec == Init /\ [][Next]_vars

(* Interrupts that stay pending are served, a running timer reaches its    *)
(* reload value, and the processor always comes back to the superloop.     *)
(* Slaves owe nothing: no fairness on UsartRx.                             *)
Fairness ==
  /\ WF_vars(UsartTx)
  /\ WF_vars(TimerFires)
  /\ WF_vars(Tim3)
  /\ SF_vars(Main)

FairSpec == Spec /\ Fairness

-----------------------------------------------------------------------------
(* Properties.                                                             *)

FlagTypeOK ==
  /\ xFrameIsBroadcast \in BOOLEAN
  /\ rxEnable \in BOOLEAN /\ txEnable \in BOOLEAN
  /\ timerOn \in BOOLEAN /\ uif \in BOOLEAN
  /\ xMasterEventInQueue \in BOOLEAN
  /\ gap \in BOOLEAN

DataTypeOK ==
  /\ eRcvState \in RcvStates
  /\ usMasterRcvBufferPos \in 0 .. MB_SER_PDU_SIZE_MAX
  /\ ucMasterRTURcvBuf \in [RcvIndex -> 0 .. MaxBusFrames]
  /\ eSndState \in SndStates
  /\ ucMasterRTUSndBuf \in [SndIndex -> Bytes]
  /\ sndCur \in 0 .. MB_PDU_SIZE_MAX
  /\ usMasterSndBufferCount \in 0 .. MB_PDU_SIZE_MAX
  /\ eMasterCurTimerMode \in TimerModes
  /\ eMasterQueuedEvent \in MasterEvents
  /\ isr \in IsrLabels
  /\ pc \in MainLabels
  /\ data \in Seq(Bytes)
  /\ i \in Nat
  /\ eEvent \in MasterEvents
  /\ usLength \in 0 .. MB_SER_PDU_SIZE_MAX
  /\ Mb2TcpLenth \in Nat
  /\ Mb2TcpBuff \in Seq(0 .. MaxBusFrames)
  /\ busFrame \in 0 .. MaxBusFrames
  /\ accepted \in Seq(Bytes)
  /\ sent \in Seq(Bytes)

(* Every variable stays in its range; in particular the receive position   *)
(* never passes the end of ucMasterRTURcvBuf and the send pointer never    *)
(* the end of ucMasterRTUSndBuf.                                           *)
TypeOK == FlagTypeOK /\ DataTypeOK

(* Half duplex: whenever a transmitter interrupt can occur the receiver is *)
(* off and idle (assert_param in xMBMasterRTUTransmitFSM), and a frame     *)
(* being sent always has the interrupt that moves it on.                   *)
HalfDuplex ==
  /\ txEnable => ~rxEnable /\ eRcvState = "RX_IDLE"
  /\ eSndState = "TX_XMIT" => txEnable

(* A master waiting for an answer is never without the timer that ends the *)
(* wait, and it is the one for the kind of frame that was sent, whatever   *)
(* USART2 did in the middle of xMBMasterRTUTimerExpired.                   *)
AnswerTimed ==
  eSndState = "TX_XFWR" /\ isr = "idle" =>
    /\ timerOn
    /\ eMasterCurTimerMode = AnswerTimerMode(xFrameIsBroadcast)

InMasterSend == pc \in {"copy", "rtusend"}

(* Outside Master_Send, the bytes of a running transmission are a prefix   *)
(* of the frame last accepted, and a master waiting for an answer has put  *)
(* exactly that frame on the bus: a refused Master_Send, which overwrites  *)
(* the buffer first, never disturbs a transmission.                        *)
WholeFrameSent ==
  ~InMasterSend =>
    /\ eSndState = "TX_XMIT" =>
         /\ sent = SubSeq(accepted, 1, Len(sent))
         /\ Len(sent) + usMasterSndBufferCount = Len(accepted)
    /\ eSndState = "TX_XFWR" => sent = accepted

ExecutePending ==
  \/ xMasterEventInQueue /\ eMasterQueuedEvent = "EXECUTE"
  \/ eEvent = "EXECUTE" /\ pc \in {"clear", "dispatch", "execute"}

(* As long as an EV_MASTER_EXECUTE is on its way, the length saved for it  *)
(* is at least the minimum and every byte below it has been received: the  *)
(* uplink never carries buffer content that was never on the bus.          *)
UplinkReceived ==
  ExecutePending =>
    /\ usLength >= MB_SER_PDU_SIZE_MIN
    /\ \A k \in 0 .. usLength - 1 : ucMasterRTURcvBuf[k] # 0

(* The one uplink record is always free when eMBMasterPoll is about to     *)
(* fill it: the order of the superloop keeps a record from being replaced. *)
UplinkSlotFree == pc = "dispatch" => Mb2TcpLenth = 0 /\ Mb2TcpBuff = <<>>

(* Waiting for an answer ends, by an answer or by the timeout.             *)
AnswerEnds == eSndState = "TX_XFWR" ~> eSndState # "TX_XFWR"

(* A transmission ends unless the superloop keeps restarting it.           *)
TransmissionEnds ==
  \/ []<>(eSndState # "TX_XMIT")
  \/ []<><<eMBMasterRTUSendOk>>_vars

(* The receiver leaves its start-up state unless the bus is never silent.  *)
StartupEnds ==
  \/ <>(eRcvState # "RX_INIT")
  \/ []<><<UsartRx>>_vars

(* A posted event does not stay in the mailbox.                            *)
EventHandled == xMasterEventInQueue ~> ~xMasterEventInQueue

-----------------------------------------------------------------------------
(* The inductive invariant behind the safety properties.                   *)

(* Receiver and transmitter exclude each other; a wait for an answer keeps *)
(* its timer because xMBMasterRTUTimerExpired resets eSndState before it   *)
(* stops the timer.                                                        *)
BusInv ==
  /\ HalfDuplex
  /\ eSndState = "TX_XFWR" =>
       /\ eRcvState = "RX_IDLE"
       /\ timerOn
       /\ eMasterCurTimerMode = AnswerTimerMode(xFrameIsBroadcast)
  /\ isr = "disable" => eSndState = "TX_IDLE"

(* Master_Send has copied the first bytes of its argument.                 *)
Copied == IF pc = "copy" THEN i ELSE Len(data)
CopyInv ==
  /\ pc \notin {"copy", "execute"} => i = 0
  /\ pc = "copy" => i <= Len(data)
  /\ Len(data) <= MB_PDU_SIZE_MAX
  /\ InMasterSend =>
       \A k \in SndIndex : k < Copied => ucMasterRTUSndBuf[k] = data[k + 1]

(* Pointer and count of a running transmission.                            *)
XmitInv ==
  eSndState = "TX_XMIT" =>
    /\ sndCur = Len(sent)
    /\ sndCur + usMasterSndBufferCount = Len(accepted)
    /\ Len(accepted) <= MB_PDU_SIZE_MAX

(* Its content, as long as no Master_Send is overwriting the buffer.       *)
FrameInv ==
  ~InMasterSend =>
    /\ eSndState = "TX_XMIT" =>
         /\ \A k \in SndIndex :
              k < Len(accepted) => ucMasterRTUSndBuf[k] = accepted[k + 1]
         /\ \A k \in 1 .. Len(sent) : sent[k] = accepted[k]
    /\ eSndState = "TX_XFWR" => sent = accepted

(* What has been received, and what the saved length covers.               *)
RcvInv ==
  /\ ~gap => busFrame # 0
  /\ \A k \in RcvIndex :
       k < usMasterRcvBufferPos \/ k < usLength => ucMasterRTURcvBuf[k] # 0
  /\ eEvent = "EXECUTE" \/ eMasterQueuedEvent = "EXECUTE" =>
       usLength >= MB_SER_PDU_SIZE_MIN

(* The uplink record is empty from SendDataToSever to eMBMasterPoll.       *)
SlotInv ==
  pc \notin {"sever", "execute"} => Mb2TcpLenth = 0 /\ Mb2TcpBuff = <<>>

(* The conjunction, which every step preserves.                            *)
IndInv ==
  /\ TypeOK
  /\ BusInv
  /\ CopyInv
  /\ XmitInv
  /\ FrameInv
  /\ RcvInv
  /\ SlotInv

=============================================================================
