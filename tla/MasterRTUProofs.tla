-------------------------- MODULE MasterRTUProofs --------------------------
(***************************************************************************)
(* The safety properties of MasterRTU hold for all buffer sizes, all       *)
(* frames and any number of frames on the bus.                             *)
(***************************************************************************)
EXTENDS MasterRTU, SequenceTheorems, TLAPS

(* The state eMBMasterRTUStart leaves satisfies the inductive invariant.   *)
LEMMA InitIndInv == Init => IndInv
<1> SUFFICES ASSUME Init PROVE IndInv
  OBVIOUS
<1> USE SizeAssumption, ByteAssumption DEF Init
<1>1. FlagTypeOK
  BY Zenon DEF FlagTypeOK
<1>2. DataTypeOK
  BY DEF DataTypeOK, RcvStates, SndStates, TimerModes, MasterEvents,
         IsrLabels, MainLabels, RcvIndex, SndIndex
<1>3. BusInv /\ CopyInv /\ XmitInv /\ FrameInv
  BY DEF BusInv, HalfDuplex, CopyInv, InMasterSend, XmitInv, FrameInv
<1>4. RcvInv /\ SlotInv
  BY DEF RcvInv, SlotInv, RcvIndex
<1> QED
  BY <1>1, <1>2, <1>3, <1>4 DEF IndInv, TypeOK

(* Every interrupt and every step of the superloop preserves it.           *)
LEMMA NextIndInv == IndInv /\ [Next]_vars => IndInv'
<1> SUFFICES ASSUME IndInv, [Next]_vars PROVE IndInv'
  OBVIOUS
<1> USE SizeAssumption, ByteAssumption
    DEF rcvVars, sndVars, portVars, timVars, evVars, mainVars, busVars, txHist
<1>1. ASSUME NEW n \in {busFrame, busFrame + 1},
             UsartRxSkip(n) \/ UsartRxFirst(n) \/ UsartRxNext(n)
      PROVE  IndInv'
  <2>1. CASE UsartRxSkip(n)
    <3>1. FlagTypeOK'
      BY <2>1, Zenon
      DEF IndInv, TypeOK, UsartRxSkip, ByteOf, TimerEnable, FlagTypeOK
    <3>2. DataTypeOK'
      BY <2>1
      DEF IndInv, TypeOK, UsartRxSkip, ByteOf, TimerEnable, DataTypeOK,
          CopyInv, XmitInv, RcvStates, SndStates, TimerModes, MasterEvents,
          IsrLabels, MainLabels, RcvIndex, SndIndex
    <3>3. BusInv'
      BY <2>1
      DEF IndInv, UsartRxSkip, ByteOf, TimerEnable, BusInv, HalfDuplex,
          AnswerTimerMode
    <3>4. RcvInv'
      BY <2>1
      DEF IndInv, TypeOK, UsartRxSkip, ByteOf, TimerEnable, DataTypeOK,
          RcvInv, RcvIndex, MasterEvents
    <3>5. CopyInv' /\ XmitInv' /\ FrameInv' /\ SlotInv'
      BY <2>1
      DEF IndInv, TypeOK, UsartRxSkip, CopyInv, XmitInv, FrameInv, SlotInv,
          Copied, InMasterSend
    <3> QED
      BY <3>1, <3>2, <3>3, <3>4, <3>5 DEF IndInv, TypeOK
  <2>2. CASE UsartRxFirst(n)
    <3>1. FlagTypeOK'
      BY <2>2, Zenon
      DEF IndInv, TypeOK, UsartRxFirst, ByteOf, TimerEnable, FlagTypeOK
    <3>2. DataTypeOK'
      BY <2>2
      DEF IndInv, TypeOK, UsartRxFirst, ByteOf, TimerEnable, DataTypeOK,
          CopyInv, XmitInv, RcvStates, SndStates, TimerModes, MasterEvents,
          IsrLabels, MainLabels, RcvIndex, SndIndex
    <3>3. BusInv'
      BY <2>2
      DEF IndInv, UsartRxFirst, ByteOf, TimerEnable, BusInv, HalfDuplex,
          AnswerTimerMode
    <3>4. XmitInv'
      BY <2>2
      DEF IndInv, TypeOK, UsartRxFirst, ByteOf, TimerEnable, DataTypeOK,
          XmitInv, CopyInv
    <3>5. FrameInv'
      BY <2>2
      DEF IndInv, TypeOK, UsartRxFirst, ByteOf, TimerEnable, DataTypeOK,
          BusInv, HalfDuplex, CopyInv, Copied, XmitInv, FrameInv,
          InMasterSend, SndIndex
    <3>6. RcvInv'
      BY <2>2
      DEF IndInv, TypeOK, UsartRxFirst, ByteOf, TimerEnable, DataTypeOK,
          RcvInv, RcvIndex, MasterEvents
    <3>7. CopyInv' /\ SlotInv'
      BY <2>2
      DEF IndInv, TypeOK, UsartRxFirst, CopyInv, SlotInv, Copied, InMasterSend
    <3> QED
      BY <3>1, <3>2, <3>3, <3>4, <3>5, <3>6, <3>7 DEF IndInv, TypeOK
  <2>3. CASE UsartRxNext(n)
    <3>1. FlagTypeOK'
      BY <2>3, Zenon
      DEF IndInv, TypeOK, UsartRxNext, ByteOf, TimerEnable, RcvBufferHasRoom,
          FlagTypeOK
    <3>2. DataTypeOK'
      <4>1. n \in 0 .. MaxBusFrames
        BY <1>1, <2>3 DEF IndInv, TypeOK, DataTypeOK, UsartRxNext, ByteOf
      <4>2. ucMasterRTURcvBuf' \in [RcvIndex -> 0 .. MaxBusFrames]
        BY <2>3, <4>1 DEF IndInv, TypeOK, DataTypeOK, UsartRxNext
      <4> QED
        BY <2>3, <4>1, <4>2
        DEF IndInv, TypeOK, DataTypeOK, UsartRxNext, ByteOf, TimerEnable,
            RcvBufferHasRoom, RcvStates, TimerModes
    <3>3. BusInv'
      BY <2>3
      DEF IndInv, UsartRxNext, ByteOf, TimerEnable, RcvBufferHasRoom, BusInv,
          HalfDuplex, AnswerTimerMode
    <3>4. RcvInv'
      BY <2>3
      DEF IndInv, TypeOK, UsartRxNext, ByteOf, TimerEnable, RcvBufferHasRoom,
          DataTypeOK, RcvInv, RcvIndex, MasterEvents
    <3>5. CopyInv' /\ XmitInv' /\ FrameInv' /\ SlotInv'
      BY <2>3
      DEF IndInv, TypeOK, UsartRxNext, CopyInv, XmitInv, FrameInv, SlotInv,
          Copied, InMasterSend
    <3> QED
      BY <3>1, <3>2, <3>3, <3>4, <3>5 DEF IndInv, TypeOK
  <2> QED
    BY <1>1, <2>1, <2>2, <2>3
<1>2. CASE UsartTxIdle
  <2>1. FlagTypeOK'
    BY <1>2, Zenon
    DEF IndInv, TypeOK, UsartTxIdle, vMBMasterPortSerialEnable, FlagTypeOK
  <2>2. BusInv'
    BY <1>2
    DEF IndInv, UsartTxIdle, vMBMasterPortSerialEnable, BusInv, HalfDuplex,
        AnswerTimerMode
  <2>3. DataTypeOK' /\ CopyInv' /\ XmitInv' /\ FrameInv' /\ RcvInv' /\ SlotInv'
    BY <1>2
    DEF IndInv, TypeOK, UsartTxIdle, DataTypeOK, CopyInv, XmitInv, FrameInv,
        RcvInv, SlotInv, Copied, InMasterSend
  <2> QED
    BY <2>1, <2>2, <2>3 DEF IndInv, TypeOK
<1>3. CASE UsartTxByte
  <2>1. DataTypeOK'
    BY <1>3
    DEF IndInv, TypeOK, UsartTxByte, DataTypeOK, CopyInv, XmitInv, RcvStates,
        SndStates, TimerModes, MasterEvents, IsrLabels, MainLabels, RcvIndex,
        SndIndex
  <2>2. XmitInv'
    <3>1. eSndState = "TX_XMIT" /\ sndCur \in SndIndex
      BY <1>3 DEF IndInv, TypeOK, DataTypeOK, UsartTxByte, XmitInv, SndIndex
    <3>2. Len(sent') = Len(sent) + 1
      BY <1>3, <3>1 DEF IndInv, TypeOK, DataTypeOK, UsartTxByte
    <3> QED
      BY <1>3, <3>1, <3>2
      DEF IndInv, TypeOK, DataTypeOK, UsartTxByte, XmitInv
  <2>3. FrameInv'
    BY <1>3
    DEF IndInv, TypeOK, UsartTxByte, DataTypeOK, BusInv, HalfDuplex, CopyInv,
        Copied, XmitInv, FrameInv, InMasterSend, SndIndex
  <2>4. FlagTypeOK' /\ BusInv' /\ CopyInv' /\ RcvInv' /\ SlotInv'
    BY <1>3
    DEF IndInv, TypeOK, UsartTxByte, FlagTypeOK, BusInv, CopyInv, RcvInv,
        SlotInv, Copied, HalfDuplex, InMasterSend
  <2> QED
    BY <2>1, <2>2, <2>3, <2>4 DEF IndInv, TypeOK
<1>4. CASE UsartTxEnd
  <2>1. FlagTypeOK'
    BY <1>4, Zenon
    DEF IndInv, TypeOK, UsartTxEnd, vMBMasterPortSerialEnable, TimerEnable,
        FlagTypeOK
  <2>2. DataTypeOK'
    BY <1>4
    DEF IndInv, TypeOK, UsartTxEnd, vMBMasterPortSerialEnable, TimerEnable,
        AnswerTimerMode, DataTypeOK, SndStates, TimerModes
  <2>3. BusInv'
    BY <1>4
    DEF IndInv, UsartTxEnd, vMBMasterPortSerialEnable, TimerEnable, BusInv,
        HalfDuplex, AnswerTimerMode
  <2>4. XmitInv'
    BY <1>4
    DEF IndInv, TypeOK, UsartTxEnd, vMBMasterPortSerialEnable, TimerEnable,
        DataTypeOK, XmitInv, CopyInv
  <2>5. FrameInv'
    BY <1>4
    DEF IndInv, TypeOK, UsartTxEnd, vMBMasterPortSerialEnable, TimerEnable,
        DataTypeOK, BusInv, HalfDuplex, CopyInv, Copied, XmitInv, FrameInv,
        InMasterSend, SndIndex
  <2>6. RcvInv'
    BY <1>4
    DEF IndInv, TypeOK, UsartTxEnd, vMBMasterPortSerialEnable, TimerEnable,
        DataTypeOK, RcvInv, RcvIndex, MasterEvents
  <2>7. CopyInv' /\ SlotInv'
    BY <1>4
    DEF IndInv, TypeOK, UsartTxEnd, CopyInv, SlotInv, Copied, InMasterSend
  <2> QED
    BY <2>1, <2>2, <2>3, <2>4, <2>5, <2>6, <2>7 DEF IndInv, TypeOK
<1>5. CASE TimerFires
  <2>1. FlagTypeOK'
    BY <1>5, Zenon DEF IndInv, TypeOK, TimerFires, FlagTypeOK
  <2>2. DataTypeOK' /\ BusInv' /\ CopyInv' /\ XmitInv' /\ FrameInv' /\ RcvInv' /\ SlotInv'
    BY <1>5
    DEF IndInv, TypeOK, TimerFires, DataTypeOK, BusInv, CopyInv, XmitInv,
        FrameInv, RcvInv, SlotInv, Copied, HalfDuplex, InMasterSend
  <2> QED
    BY <2>1, <2>2 DEF IndInv, TypeOK
<1>6. CASE Tim3Enter
  <2>1. FlagTypeOK'
    BY <1>6, Zenon DEF IndInv, TypeOK, Tim3Enter, FlagTypeOK
  <2>2. DataTypeOK'
    BY <1>6
    DEF IndInv, TypeOK, Tim3Enter, DataTypeOK, CopyInv, XmitInv, RcvStates,
        SndStates, TimerModes, MasterEvents, IsrLabels, MainLabels, RcvIndex,
        SndIndex
  <2>3. BusInv'
    BY <1>6 DEF IndInv, Tim3Enter, BusInv, HalfDuplex, AnswerTimerMode
  <2>4. RcvInv'
    BY <1>6
    DEF IndInv, TypeOK, Tim3Enter, DataTypeOK, RcvInv, RcvIndex, MasterEvents
  <2>5. CopyInv' /\ XmitInv' /\ FrameInv' /\ SlotInv'
    BY <1>6
    DEF IndInv, TypeOK, Tim3Enter, CopyInv, XmitInv, FrameInv, SlotInv,
        Copied, InMasterSend
  <2> QED
    BY <2>1, <2>2, <2>3, <2>4, <2>5 DEF IndInv, TypeOK
<1>7. CASE Tim3Rcv
  <2>1. FlagTypeOK'
    BY <1>7, Zenon
    DEF IndInv, TypeOK, Tim3Rcv, xMBMasterPortEventPost, FlagTypeOK
  <2>2. DataTypeOK'
    BY <1>7
    DEF IndInv, TypeOK, Tim3Rcv, xMBMasterPortEventPost, DataTypeOK, CopyInv,
        XmitInv, RcvStates, SndStates, TimerModes, MasterEvents, IsrLabels,
        MainLabels, RcvIndex, SndIndex
  <2>3. BusInv'
    BY <1>7
    DEF IndInv, Tim3Rcv, xMBMasterPortEventPost, BusInv, HalfDuplex,
        AnswerTimerMode
  <2>4. RcvInv'
    BY <1>7
    DEF IndInv, TypeOK, Tim3Rcv, xMBMasterPortEventPost, DataTypeOK, RcvInv,
        RcvIndex, MasterEvents
  <2>5. CopyInv' /\ XmitInv' /\ FrameInv' /\ SlotInv'
    BY <1>7
    DEF IndInv, TypeOK, Tim3Rcv, CopyInv, XmitInv, FrameInv, SlotInv, Copied,
        InMasterSend
  <2> QED
    BY <2>1, <2>2, <2>3, <2>4, <2>5 DEF IndInv, TypeOK
<1>8. CASE Tim3RcvIdle
  <2>1. DataTypeOK'
    BY <1>8
    DEF IndInv, TypeOK, Tim3RcvIdle, DataTypeOK, CopyInv, XmitInv, RcvStates,
        SndStates, TimerModes, MasterEvents, IsrLabels, MainLabels, RcvIndex,
        SndIndex
  <2>2. BusInv'
    BY <1>8 DEF IndInv, Tim3RcvIdle, BusInv, HalfDuplex, AnswerTimerMode
  <2>3. FlagTypeOK' /\ CopyInv' /\ XmitInv' /\ FrameInv' /\ RcvInv' /\ SlotInv'
    BY <1>8
    DEF IndInv, TypeOK, Tim3RcvIdle, FlagTypeOK, CopyInv, XmitInv, FrameInv,
        RcvInv, SlotInv, Copied, InMasterSend
  <2> QED
    BY <2>1, <2>2, <2>3 DEF IndInv, TypeOK
<1>9. CASE Tim3Snd
  <2>1. FlagTypeOK'
    BY <1>9, Zenon
    DEF IndInv, TypeOK, Tim3Snd, xMBMasterPortEventPost, FlagTypeOK
  <2>2. DataTypeOK'
    BY <1>9
    DEF IndInv, TypeOK, Tim3Snd, xMBMasterPortEventPost, DataTypeOK, CopyInv,
        XmitInv, RcvStates, SndStates, TimerModes, MasterEvents, IsrLabels,
        MainLabels, RcvIndex, SndIndex
  <2>3. BusInv'
    BY <1>9
    DEF IndInv, Tim3Snd, xMBMasterPortEventPost, BusInv, HalfDuplex,
        AnswerTimerMode
  <2>4. RcvInv'
    BY <1>9
    DEF IndInv, TypeOK, Tim3Snd, xMBMasterPortEventPost, DataTypeOK, RcvInv,
        RcvIndex, MasterEvents
  <2>5. CopyInv' /\ XmitInv' /\ FrameInv' /\ SlotInv'
    BY <1>9
    DEF IndInv, TypeOK, Tim3Snd, CopyInv, XmitInv, FrameInv, SlotInv, Copied,
        InMasterSend
  <2> QED
    BY <2>1, <2>2, <2>3, <2>4, <2>5 DEF IndInv, TypeOK
<1>10. CASE Tim3SndIdle
  <2>1. DataTypeOK'
    BY <1>10
    DEF IndInv, TypeOK, Tim3SndIdle, DataTypeOK, CopyInv, XmitInv, RcvStates,
        SndStates, TimerModes, MasterEvents, IsrLabels, MainLabels, RcvIndex,
        SndIndex
  <2>2. BusInv'
    BY <1>10 DEF IndInv, Tim3SndIdle, BusInv, HalfDuplex, AnswerTimerMode
  <2>3. XmitInv'
    BY <1>10 DEF IndInv, TypeOK, Tim3SndIdle, DataTypeOK, XmitInv, CopyInv
  <2>4. FrameInv'
    BY <1>10
    DEF IndInv, TypeOK, Tim3SndIdle, DataTypeOK, BusInv, HalfDuplex, CopyInv,
        Copied, XmitInv, FrameInv, InMasterSend, SndIndex
  <2>5. FlagTypeOK' /\ CopyInv' /\ RcvInv' /\ SlotInv'
    BY <1>10
    DEF IndInv, TypeOK, Tim3SndIdle, FlagTypeOK, CopyInv, RcvInv, SlotInv,
        Copied, InMasterSend
  <2> QED
    BY <2>1, <2>2, <2>3, <2>4, <2>5 DEF IndInv, TypeOK
<1>11. CASE Tim3Disable
  <2>1. FlagTypeOK'
    BY <1>11, Zenon
    DEF IndInv, TypeOK, Tim3Disable, vMBMasterPortTimersDisable, FlagTypeOK
  <2>2. DataTypeOK'
    BY <1>11
    DEF IndInv, TypeOK, Tim3Disable, vMBMasterPortTimersDisable, DataTypeOK,
        CopyInv, XmitInv, RcvStates, SndStates, TimerModes, MasterEvents,
        IsrLabels, MainLabels, RcvIndex, SndIndex
  <2>3. BusInv'
    BY <1>11
    DEF IndInv, Tim3Disable, vMBMasterPortTimersDisable, BusInv, HalfDuplex,
        AnswerTimerMode
  <2>4. CopyInv' /\ XmitInv' /\ FrameInv' /\ RcvInv' /\ SlotInv'
    BY <1>11
    DEF IndInv, TypeOK, Tim3Disable, CopyInv, XmitInv, FrameInv, RcvInv,
        SlotInv, Copied, InMasterSend
  <2> QED
    BY <2>1, <2>2, <2>3, <2>4 DEF IndInv, TypeOK
<1>12. CASE SendDataToSever
  <2>1. DataTypeOK'
    BY <1>12
    DEF IndInv, TypeOK, SendDataToSever, AtMain, DataTypeOK, CopyInv, XmitInv,
        RcvStates, SndStates, TimerModes, MasterEvents, IsrLabels, MainLabels,
        RcvIndex, SndIndex
  <2>2. CopyInv'
    BY <1>12
    DEF IndInv, TypeOK, SendDataToSever, AtMain, DataTypeOK, CopyInv,
        InMasterSend, Copied, SndIndex
  <2>3. FrameInv'
    BY <1>12
    DEF IndInv, TypeOK, SendDataToSever, AtMain, DataTypeOK, BusInv,
        HalfDuplex, CopyInv, Copied, XmitInv, FrameInv, InMasterSend, SndIndex
  <2>4. SlotInv'
    BY <1>12 DEF IndInv, SendDataToSever, AtMain, SlotInv
  <2>5. FlagTypeOK' /\ BusInv' /\ XmitInv' /\ RcvInv'
    BY <1>12
    DEF IndInv, TypeOK, SendDataToSever, FlagTypeOK, BusInv, XmitInv, RcvInv,
        HalfDuplex
  <2> QED
    BY <2>1, <2>2, <2>3, <2>4, <2>5 DEF IndInv, TypeOK
<1>13. CASE ModbusSenttset
  <2>1. DataTypeOK'
    BY <1>13
    DEF IndInv, TypeOK, ModbusSenttset, AtMain, DataTypeOK, CopyInv, XmitInv,
        RcvStates, SndStates, TimerModes, MasterEvents, IsrLabels, MainLabels,
        RcvIndex, SndIndex
  <2>2. CopyInv'
    BY <1>13
    DEF IndInv, TypeOK, ModbusSenttset, AtMain, DataTypeOK, CopyInv,
        InMasterSend, Copied, SndIndex
  <2>3. FrameInv'
    BY <1>13
    DEF IndInv, TypeOK, ModbusSenttset, AtMain, DataTypeOK, BusInv,
        HalfDuplex, CopyInv, Copied, XmitInv, FrameInv, InMasterSend, SndIndex
  <2>4. SlotInv'
    BY <1>13 DEF IndInv, ModbusSenttset, AtMain, SlotInv
  <2>5. FlagTypeOK' /\ BusInv' /\ XmitInv' /\ RcvInv'
    BY <1>13
    DEF IndInv, TypeOK, ModbusSenttset, FlagTypeOK, BusInv, XmitInv, RcvInv,
        HalfDuplex
  <2> QED
    BY <2>1, <2>2, <2>3, <2>4, <2>5 DEF IndInv, TypeOK
<1>14. CASE Master_SendCopy
  <2>1. DataTypeOK'
    <3>1. ASSUME i < Len(data) PROVE data[i + 1] \in Bytes
      BY <3>1 DEF IndInv, TypeOK, DataTypeOK
    <3>2. ucMasterRTUSndBuf' \in [SndIndex -> Bytes]
      BY <1>14, <3>1 DEF IndInv, TypeOK, DataTypeOK, Master_SendCopy
    <3> QED
      BY <1>14, <3>2
      DEF IndInv, TypeOK, DataTypeOK, Master_SendCopy, AtMain, MainLabels
  <2>2. CopyInv'
    BY <1>14
    DEF IndInv, TypeOK, Master_SendCopy, AtMain, DataTypeOK, CopyInv,
        InMasterSend, Copied, SndIndex
  <2>3. FrameInv'
    BY <1>14
    DEF IndInv, TypeOK, Master_SendCopy, AtMain, DataTypeOK, BusInv,
        HalfDuplex, CopyInv, Copied, XmitInv, FrameInv, InMasterSend, SndIndex
  <2>4. SlotInv'
    BY <1>14 DEF IndInv, Master_SendCopy, AtMain, SlotInv
  <2>5. FlagTypeOK' /\ BusInv' /\ XmitInv' /\ RcvInv'
    BY <1>14
    DEF IndInv, TypeOK, Master_SendCopy, FlagTypeOK, BusInv, XmitInv, RcvInv,
        HalfDuplex
  <2> QED
    BY <2>1, <2>2, <2>3, <2>4, <2>5 DEF IndInv, TypeOK
<1>15. CASE eMBMasterRTUSendOk
  <2>1. FlagTypeOK'
    BY <1>15, Zenon
    DEF IndInv, TypeOK, eMBMasterRTUSendOk, AtMain, ReceiverIdle,
        LoadTransmitter, vMBMasterPortSerialEnable, FlagTypeOK
  <2>2. DataTypeOK'
    BY <1>15
    DEF IndInv, TypeOK, eMBMasterRTUSendOk, AtMain, ReceiverIdle,
        LoadTransmitter, vMBMasterPortSerialEnable, DataTypeOK, CopyInv,
        XmitInv, RcvStates, SndStates, TimerModes, MasterEvents, IsrLabels,
        MainLabels, RcvIndex, SndIndex
  <2>3. BusInv'
    BY <1>15
    DEF IndInv, eMBMasterRTUSendOk, AtMain, ReceiverIdle, LoadTransmitter,
        vMBMasterPortSerialEnable, BusInv, HalfDuplex, AnswerTimerMode
  <2>4. CopyInv'
    BY <1>15
    DEF IndInv, TypeOK, eMBMasterRTUSendOk, AtMain, ReceiverIdle,
        LoadTransmitter, vMBMasterPortSerialEnable, DataTypeOK, CopyInv,
        InMasterSend, Copied, SndIndex
  <2>5. XmitInv'
    BY <1>15
    DEF IndInv, TypeOK, eMBMasterRTUSendOk, AtMain, ReceiverIdle,
        LoadTransmitter, vMBMasterPortSerialEnable, DataTypeOK, XmitInv,
        CopyInv
  <2>6. FrameInv'
    BY <1>15
    DEF IndInv, TypeOK, eMBMasterRTUSendOk, AtMain, ReceiverIdle,
        LoadTransmitter, vMBMasterPortSerialEnable, DataTypeOK, BusInv,
        HalfDuplex, CopyInv, Copied, XmitInv, FrameInv, InMasterSend, SndIndex
  <2>7. SlotInv'
    BY <1>15
    DEF IndInv, eMBMasterRTUSendOk, AtMain, ReceiverIdle, LoadTransmitter,
        vMBMasterPortSerialEnable, SlotInv
  <2>8. RcvInv'
    BY <1>15 DEF IndInv, TypeOK, eMBMasterRTUSendOk, RcvInv
  <2> QED
    BY <2>1, <2>2, <2>3, <2>4, <2>5, <2>6, <2>7, <2>8 DEF IndInv, TypeOK
<1>16. CASE eMBMasterRTUSendEio
  <2>1. DataTypeOK'
    BY <1>16
    DEF IndInv, TypeOK, eMBMasterRTUSendEio, AtMain, ReceiverIdle, DataTypeOK,
        CopyInv, XmitInv, RcvStates, SndStates, TimerModes, MasterEvents,
        IsrLabels, MainLabels, RcvIndex, SndIndex
  <2>2. CopyInv'
    BY <1>16
    DEF IndInv, TypeOK, eMBMasterRTUSendEio, AtMain, ReceiverIdle, DataTypeOK,
        CopyInv, InMasterSend, Copied, SndIndex
  <2>3. FrameInv'
    BY <1>16
    DEF IndInv, TypeOK, eMBMasterRTUSendEio, AtMain, ReceiverIdle, DataTypeOK,
        BusInv, HalfDuplex, CopyInv, Copied, XmitInv, FrameInv, InMasterSend,
        SndIndex
  <2>4. SlotInv'
    BY <1>16 DEF IndInv, eMBMasterRTUSendEio, AtMain, ReceiverIdle, SlotInv
  <2>5. FlagTypeOK' /\ BusInv' /\ XmitInv' /\ RcvInv'
    BY <1>16
    DEF IndInv, TypeOK, eMBMasterRTUSendEio, FlagTypeOK, BusInv, XmitInv,
        RcvInv, HalfDuplex
  <2> QED
    BY <2>1, <2>2, <2>3, <2>4, <2>5 DEF IndInv, TypeOK
<1>17. CASE EventGetRead
  <2>1. DataTypeOK'
    BY <1>17
    DEF IndInv, TypeOK, EventGetRead, AtMain, DataTypeOK, CopyInv, XmitInv,
        RcvStates, SndStates, TimerModes, MasterEvents, IsrLabels, MainLabels,
        RcvIndex, SndIndex
  <2>2. CopyInv'
    BY <1>17
    DEF IndInv, TypeOK, EventGetRead, AtMain, DataTypeOK, CopyInv,
        InMasterSend, Copied, SndIndex
  <2>3. FrameInv'
    BY <1>17
    DEF IndInv, TypeOK, EventGetRead, AtMain, DataTypeOK, BusInv, HalfDuplex,
        CopyInv, Copied, XmitInv, FrameInv, InMasterSend, SndIndex
  <2>4. RcvInv'
    BY <1>17
    DEF IndInv, TypeOK, EventGetRead, AtMain, DataTypeOK, RcvInv, RcvIndex,
        MasterEvents
  <2>5. SlotInv'
    BY <1>17 DEF IndInv, EventGetRead, AtMain, SlotInv
  <2>6. FlagTypeOK' /\ BusInv' /\ XmitInv'
    BY <1>17
    DEF IndInv, TypeOK, EventGetRead, FlagTypeOK, BusInv, XmitInv, HalfDuplex
  <2> QED
    BY <2>1, <2>2, <2>3, <2>4, <2>5, <2>6 DEF IndInv, TypeOK
<1>18. CASE EventGetClear
  <2>1. FlagTypeOK'
    BY <1>18, Zenon DEF IndInv, TypeOK, EventGetClear, AtMain, FlagTypeOK
  <2>2. DataTypeOK'
    BY <1>18
    DEF IndInv, TypeOK, EventGetClear, AtMain, DataTypeOK, CopyInv, XmitInv,
        RcvStates, SndStates, TimerModes, MasterEvents, IsrLabels, MainLabels,
        RcvIndex, SndIndex
  <2>3. CopyInv'
    BY <1>18
    DEF IndInv, TypeOK, EventGetClear, AtMain, DataTypeOK, CopyInv,
        InMasterSend, Copied, SndIndex
  <2>4. FrameInv'
    BY <1>18
    DEF IndInv, TypeOK, EventGetClear, AtMain, DataTypeOK, BusInv, HalfDuplex,
        CopyInv, Copied, XmitInv, FrameInv, InMasterSend, SndIndex
  <2>5. SlotInv'
    BY <1>18 DEF IndInv, EventGetClear, AtMain, SlotInv
  <2>6. BusInv' /\ XmitInv' /\ RcvInv'
    BY <1>18
    DEF IndInv, TypeOK, EventGetClear, BusInv, XmitInv, RcvInv, HalfDuplex
  <2> QED
    BY <2>1, <2>2, <2>3, <2>4, <2>5, <2>6 DEF IndInv, TypeOK
<1>19. CASE PollOther
  <2>1. DataTypeOK'
    BY <1>19
    DEF IndInv, TypeOK, PollOther, AtMain, DataTypeOK, CopyInv, XmitInv,
        RcvStates, SndStates, TimerModes, MasterEvents, IsrLabels, MainLabels,
        RcvIndex, SndIndex
  <2>2. CopyInv'
    BY <1>19
    DEF IndInv, TypeOK, PollOther, AtMain, DataTypeOK, CopyInv, InMasterSend,
        Copied, SndIndex
  <2>3. FrameInv'
    BY <1>19
    DEF IndInv, TypeOK, PollOther, AtMain, DataTypeOK, BusInv, HalfDuplex,
        CopyInv, Copied, XmitInv, FrameInv, InMasterSend, SndIndex
  <2>4. SlotInv'
    BY <1>19 DEF IndInv, PollOther, AtMain, SlotInv
  <2>5. FlagTypeOK' /\ BusInv' /\ XmitInv' /\ RcvInv'
    BY <1>19
    DEF IndInv, TypeOK, PollOther, FlagTypeOK, BusInv, XmitInv, RcvInv,
        HalfDuplex
  <2> QED
    BY <2>1, <2>2, <2>3, <2>4, <2>5 DEF IndInv, TypeOK
<1>20. CASE PollFrameReceived
  <2>1. DataTypeOK'
    BY <1>20
    DEF IndInv, TypeOK, PollFrameReceived, AtMain, FrameLongEnough,
        DataTypeOK, CopyInv, XmitInv, RcvStates, SndStates, TimerModes,
        MasterEvents, IsrLabels, MainLabels, RcvIndex, SndIndex
  <2>2. CopyInv'
    BY <1>20
    DEF IndInv, TypeOK, PollFrameReceived, AtMain, FrameLongEnough,
        DataTypeOK, CopyInv, InMasterSend, Copied, SndIndex
  <2>3. FrameInv'
    BY <1>20
    DEF IndInv, TypeOK, PollFrameReceived, AtMain, FrameLongEnough,
        DataTypeOK, BusInv, HalfDuplex, CopyInv, Copied, XmitInv, FrameInv,
        InMasterSend, SndIndex
  <2>4. RcvInv'
    BY <1>20
    DEF IndInv, TypeOK, PollFrameReceived, AtMain, FrameLongEnough,
        DataTypeOK, RcvInv, RcvIndex, MasterEvents
  <2>5. SlotInv'
    BY <1>20 DEF IndInv, PollFrameReceived, AtMain, FrameLongEnough, SlotInv
  <2>6. FlagTypeOK' /\ BusInv' /\ XmitInv'
    BY <1>20
    DEF IndInv, TypeOK, PollFrameReceived, FlagTypeOK, BusInv, XmitInv,
        HalfDuplex
  <2> QED
    BY <2>1, <2>2, <2>3, <2>4, <2>5, <2>6 DEF IndInv, TypeOK
<1>21. CASE EventPostQueue
  <2>1. FlagTypeOK'
    BY <1>21, Zenon DEF IndInv, TypeOK, EventPostQueue, AtMain, FlagTypeOK
  <2>2. DataTypeOK'
    BY <1>21
    DEF IndInv, TypeOK, EventPostQueue, AtMain, DataTypeOK, CopyInv, XmitInv,
        RcvStates, SndStates, TimerModes, MasterEvents, IsrLabels, MainLabels,
        RcvIndex, SndIndex
  <2>3. CopyInv'
    BY <1>21
    DEF IndInv, TypeOK, EventPostQueue, AtMain, DataTypeOK, CopyInv,
        InMasterSend, Copied, SndIndex
  <2>4. FrameInv'
    BY <1>21
    DEF IndInv, TypeOK, EventPostQueue, AtMain, DataTypeOK, BusInv,
        HalfDuplex, CopyInv, Copied, XmitInv, FrameInv, InMasterSend, SndIndex
  <2>5. SlotInv'
    BY <1>21 DEF IndInv, EventPostQueue, AtMain, SlotInv
  <2>6. BusInv' /\ XmitInv' /\ RcvInv'
    BY <1>21
    DEF IndInv, TypeOK, EventPostQueue, BusInv, XmitInv, RcvInv, HalfDuplex
  <2> QED
    BY <2>1, <2>2, <2>3, <2>4, <2>5, <2>6 DEF IndInv, TypeOK
<1>22. CASE EventPostEvent
  <2>1. DataTypeOK'
    BY <1>22
    DEF IndInv, TypeOK, EventPostEvent, AtMain, DataTypeOK, CopyInv, XmitInv,
        RcvStates, SndStates, TimerModes, MasterEvents, IsrLabels, MainLabels,
        RcvIndex, SndIndex
  <2>2. CopyInv'
    BY <1>22
    DEF IndInv, TypeOK, EventPostEvent, AtMain, DataTypeOK, CopyInv,
        InMasterSend, Copied, SndIndex
  <2>3. FrameInv'
    BY <1>22
    DEF IndInv, TypeOK, EventPostEvent, AtMain, DataTypeOK, BusInv,
        HalfDuplex, CopyInv, Copied, XmitInv, FrameInv, InMasterSend, SndIndex
  <2>4. RcvInv'
    BY <1>22
    DEF IndInv, TypeOK, EventPostEvent, AtMain, DataTypeOK, RcvInv, RcvIndex,
        MasterEvents
  <2>5. SlotInv'
    BY <1>22 DEF IndInv, EventPostEvent, AtMain, SlotInv
  <2>6. FlagTypeOK' /\ BusInv' /\ XmitInv'
    BY <1>22
    DEF IndInv, TypeOK, EventPostEvent, FlagTypeOK, BusInv, XmitInv,
        HalfDuplex
  <2> QED
    BY <2>1, <2>2, <2>3, <2>4, <2>5, <2>6 DEF IndInv, TypeOK
<1>23. CASE PollExecute
  <2>1. DataTypeOK'
    BY <1>23
    DEF IndInv, TypeOK, PollExecute, AtMain, DataTypeOK, CopyInv, XmitInv,
        RcvStates, SndStates, TimerModes, MasterEvents, IsrLabels, MainLabels,
        RcvIndex, SndIndex
  <2>2. CopyInv'
    BY <1>23
    DEF IndInv, TypeOK, PollExecute, AtMain, DataTypeOK, CopyInv,
        InMasterSend, Copied, SndIndex
  <2>3. FrameInv'
    BY <1>23
    DEF IndInv, TypeOK, PollExecute, AtMain, DataTypeOK, BusInv, HalfDuplex,
        CopyInv, Copied, XmitInv, FrameInv, InMasterSend, SndIndex
  <2>4. SlotInv'
    BY <1>23 DEF IndInv, PollExecute, AtMain, SlotInv
  <2>5. FlagTypeOK' /\ BusInv' /\ XmitInv' /\ RcvInv'
    BY <1>23
    DEF IndInv, TypeOK, PollExecute, FlagTypeOK, BusInv, XmitInv, RcvInv,
        HalfDuplex
  <2> QED
    BY <2>1, <2>2, <2>3, <2>4, <2>5 DEF IndInv, TypeOK
<1>24. CASE PollExecuteCopy
  <2>1. DataTypeOK'
    <3>1. i' \in Nat /\ Mb2TcpLenth' \in Nat /\ pc' \in MainLabels
      BY <1>24 DEF IndInv, TypeOK, DataTypeOK, PollExecuteCopy, AtMain, MainLabels
    <3>2. Mb2TcpBuff' \in Seq(0 .. MaxBusFrames)
      <4>1. CASE i < usLength
        <5>1. ucMasterRTURcvBuf[i] \in 0 .. MaxBusFrames
          BY <4>1 DEF IndInv, TypeOK, DataTypeOK, RcvIndex
        <5>2. Mb2TcpBuff' = Append(Mb2TcpBuff, ucMasterRTURcvBuf[i])
          BY <1>24, <4>1 DEF IndInv, TypeOK, DataTypeOK, PollExecuteCopy
        <5> QED
          BY <5>1, <5>2, AppendProperties DEF IndInv, TypeOK, DataTypeOK
      <4>2. CASE ~(i < usLength)
        BY <1>24, <4>2 DEF IndInv, TypeOK, DataTypeOK, PollExecuteCopy
      <4> QED
        BY <4>1, <4>2
    <3> QED
      BY <1>24, <3>1, <3>2 DEF IndInv, TypeOK, DataTypeOK, PollExecuteCopy
  <2>2. CopyInv'
    BY <1>24
    DEF IndInv, TypeOK, PollExecuteCopy, AtMain, DataTypeOK, CopyInv,
        InMasterSend, Copied, SndIndex
  <2>3. FrameInv'
    BY <1>24
    DEF IndInv, TypeOK, PollExecuteCopy, AtMain, DataTypeOK, BusInv,
        HalfDuplex, CopyInv, Copied, XmitInv, FrameInv, InMasterSend, SndIndex
  <2>4. SlotInv'
    BY <1>24 DEF IndInv, PollExecuteCopy, AtMain, SlotInv
  <2>5. FlagTypeOK' /\ BusInv' /\ XmitInv' /\ RcvInv'
    BY <1>24
    DEF IndInv, TypeOK, PollExecuteCopy, FlagTypeOK, BusInv, XmitInv, RcvInv,
        HalfDuplex
  <2> QED
    BY <2>1, <2>2, <2>3, <2>4, <2>5 DEF IndInv, TypeOK
<1>25. CASE UNCHANGED vars
  BY <1>25
  DEF vars, IndInv, TypeOK, FlagTypeOK, DataTypeOK, BusInv, HalfDuplex,
      CopyInv, Copied, InMasterSend, XmitInv, FrameInv, RcvInv, SlotInv
<1> QED
  BY <1>1, <1>2, <1>3, <1>4, <1>5, <1>6, <1>7, <1>8, <1>9, <1>10, <1>11,
     <1>12, <1>13, <1>14, <1>15, <1>16, <1>17, <1>18, <1>19, <1>20, <1>21,
     <1>22, <1>23, <1>24, <1>25
  DEF Next, UsartRx, UsartTx, Tim3, Main, Master_Send, eMBMasterPoll

(* The inductive invariant holds in every reachable state.                 *)
THEOREM SpecIndInv == Spec => []IndInv
  BY InitIndInv, NextIndInv, PTL DEF Spec

(* Every variable stays in its range: neither the receive position nor the *)
(* send pointer leaves its buffer.                                         *)
THEOREM SpecTypeOK == Spec => []TypeOK
<1>1. IndInv => TypeOK
  BY DEF IndInv
<1> QED
  BY <1>1, SpecIndInv, PTL

(* The transmitter interrupt finds the receiver off and idle, the          *)
(* assertion of xMBMasterRTUTransmitFSM.                                   *)
THEOREM SpecHalfDuplex == Spec => []HalfDuplex
<1>1. IndInv => HalfDuplex
  BY DEF IndInv, BusInv
<1> QED
  BY <1>1, SpecIndInv, PTL

(* A wait for an answer always has its timer.                              *)
THEOREM SpecAnswerTimed == Spec => []AnswerTimed
<1>1. IndInv => AnswerTimed
  BY DEF IndInv, BusInv, AnswerTimed
<1> QED
  BY <1>1, SpecIndInv, PTL

(* What is on the bus is a prefix of the frame last accepted, and all of   *)
(* it once an answer is awaited.                                           *)
THEOREM SpecWholeFrameSent == Spec => []WholeFrameSent
<1>1. IndInv => WholeFrameSent
  <2> SUFFICES ASSUME IndInv, ~InMasterSend, eSndState = "TX_XMIT"
               PROVE  sent = SubSeq(accepted, 1, Len(sent))
    BY DEF IndInv, TypeOK, DataTypeOK, XmitInv, FrameInv, WholeFrameSent
  <2>1. /\ sent \in Seq(Bytes) /\ accepted \in Seq(Bytes)
        /\ Len(sent) <= Len(accepted)
        /\ \A k \in 1 .. Len(sent) : sent[k] = accepted[k]
    BY DEF IndInv, TypeOK, DataTypeOK, XmitInv, FrameInv
  <2> DEFINE prefix == SubSeq(accepted, 1, Len(sent))
  <2>2. /\ prefix \in Seq(Bytes)
        /\ Len(prefix) = Len(sent)
        /\ \A k \in 1 .. Len(sent) : prefix[k] = accepted[k]
    BY <2>1
  <2> HIDE DEF prefix
  <2>3. sent = prefix
    BY <2>1, <2>2, SeqEqual
  <2> QED
    BY <2>3 DEF prefix
<1> QED
  BY <1>1, SpecIndInv, PTL

(* A pending EV_MASTER_EXECUTE has a length that is long enough and covers *)
(* only bytes that were received.                                          *)
THEOREM SpecUplinkReceived == Spec => []UplinkReceived
<1>1. IndInv => UplinkReceived
  BY SizeAssumption
  DEF IndInv, TypeOK, DataTypeOK, RcvInv, UplinkReceived, ExecutePending,
      RcvIndex
<1> QED
  BY <1>1, SpecIndInv, PTL

(* The uplink record is free when eMBMasterPoll fills it.                  *)
THEOREM SpecUplinkSlotFree == Spec => []UplinkSlotFree
<1>1. IndInv => UplinkSlotFree
  BY DEF IndInv, SlotInv, UplinkSlotFree
<1> QED
  BY <1>1, SpecIndInv, PTL

=============================================================================
