---------------------------- MODULE GatewayProofs ----------------------------
(***************************************************************************)
(* The gateway is a relay, for every set of frames and lists, every array  *)
(* and every limit, as long as lists fit into what memset clears.          *)
(*                                                                         *)
(* The invariant says what the buffers stand for.  TcpRecvBuf, while it    *)
(* counts, holds a message later than any that had an effect, with no list *)
(* in between; the array holds the list in force and zeros behind it; the  *)
(* walk is one entry ahead of DevIndex; a frame on its way up is later     *)
(* than every frame before it in the chain of buffers.                     *)
(***************************************************************************)
EXTENDS Gateway, TLAPS

EntrySet == [key : Nat, frame : Frames, wait : Int]

DownInv ==
  /\ \A j \in next + 1 .. got : sent[j] \notin Lists
  /\ TcpRecvLenth > 0 => TcpRecvBuf > next /\ sent[TcpRecvBuf] \in Frames

ListInv ==
  /\ Len(given) <= Cleared
  /\ \A c \in 1 .. Cells :
       CMDLIST[c] = IF c <= Len(given) THEN given[c] ELSE Zero

WalkInv == DevIndex > 0 => sptr = DevIndex + 1

UpInv ==
  /\ ev \in {"frame", "exec"} => rcvbuf = heard /\ heard > Mb2Tcp /\ heard > up
  /\ Mb2Tcp > 0 => Mb2Tcp > up

IInv == TypeOK /\ DownInv /\ ListInv /\ WalkInv /\ UpInv

-----------------------------------------------------------------------------
(* The limits are numbers.                                                 *)
LEMMA Limits ==
  /\ Cells \in Nat /\ Cleared \in Nat /\ MaxDev \in Nat
  /\ Cells < MaxDev /\ Cleared <= Cells /\ Second \in Nat \ {0}
BY GatewayAssumption

(* A list is a sequence of entries that fits into the array.               *)
LEMMA ListShape ==
  ASSUME ListsFit, NEW m \in Lists
  PROVE  /\ m.entries \in Seq(EntrySet) /\ Len(m.entries) <= Cleared
         /\ m.entries \in {l.entries : l \in Lists}
<1>1. m \in [entries : Seq(EntrySet)]
  BY GatewayAssumption DEF EntrySet
<1> QED
  BY <1>1 DEF ListsFit

(* The entries of the list in force.                                       *)
LEMMA GivenShape ==
  ASSUME ListsFit, TypeOK
  PROVE  given \in Seq(EntrySet)
<1>1. CASE given = <<>>
  BY <1>1
<1>2. CASE given \in {l.entries : l \in Lists}
  BY <1>2, ListShape
<1> QED
  BY <1>1, <1>2 DEF TypeOK

(* The buffers are empty at the start.                                     *)
LEMMA InitInv == ListsFit /\ Init => IInv
<1> SUFFICES ASSUME ListsFit, Init PROVE IInv
  OBVIOUS
<1>1. TypeOK
  <2>1. /\ sent \in Seq(Frames \cup Lists \cup {Other}) /\ Len(sent) = 0
        /\ CMDLIST \in [1 .. Cells -> {Zero} \cup [key : Nat, frame : Frames, wait : Int]]
        /\ DevIndex \in 0 .. Cells /\ sptr \in 1 .. Cells + 1
    BY Limits DEF Init
  <2>2. given \in {l.entries : l \in Lists} \cup {<<>>}
    BY DEF Init
  <2>3. /\ got \in 0 .. Len(sent) /\ TcpRecvBuf \in 0 .. got /\ TcpRecvLenth \in Nat
        /\ MsaterTime \in Nat \ {0} /\ wait \in Nat
    BY <2>1, Limits DEF Init
  <2>4. /\ heard \in Nat /\ rcvbuf \in 0 .. heard /\ Mb2Tcp \in 0 .. heard
        /\ up \in 0 .. heard /\ next \in 0 .. got /\ downs \in Nat /\ ups \in Nat
    BY DEF Init
  <2>5. Tcplink \in {0, 1} /\ ev = "none" /\ pc = "SendDataToSever"
    BY DEF Init
  <2>6. idle \in BOOLEAN
    BY DEF Init
  <2> QED
    BY <2>1, <2>2, <2>3, <2>4, <2>5, <2>6 DEF TypeOK
<1>2. DownInv /\ ListInv /\ WalkInv /\ UpInv
  BY Limits DEF Init, DownInv, ListInv, WalkInv, UpInv
<1> QED
  BY <1>1, <1>2 DEF IInv

-----------------------------------------------------------------------------
(* The server only appends.                                                *)
LEMMA StepServer ==
  ASSUME IInv, NEW m \in Frames \cup Lists \cup {Other}, ServerSends(m)
  PROVE  IInv' /\ R!ServerSends(m)
<1> USE DEF IInv
<1>1. sent' = Append(sent, m) /\ sent \in Seq(Frames \cup Lists \cup {Other})
  BY DEF ServerSends, TypeOK
<1>2. /\ sent' \in Seq(Frames \cup Lists \cup {Other}) /\ Len(sent') = Len(sent) + 1
      /\ \A j \in 1 .. Len(sent) : sent'[j] = sent[j]
  BY <1>1
<1>3. UNCHANGED <<pc, got, TcpRecvBuf, TcpRecvLenth, busVars, upVars, pollVars, histVars>>
  BY DEF ServerSends
<1> USE DEF busVars, upVars, pollVars, histVars
<1>4. TypeOK'
  BY <1>2, <1>3 DEF TypeOK
<1>5. DownInv'
  <2>1. /\ got \in 0 .. Len(sent) /\ Len(sent) \in Nat /\ next \in 0 .. got
        /\ TcpRecvBuf \in 0 .. got
    BY <1>1 DEF TypeOK
  <2>2. \A j \in next + 1 .. got : sent'[j] = sent[j]
    BY <1>2, <2>1
  <2>3. TcpRecvBuf > next => sent'[TcpRecvBuf] = sent[TcpRecvBuf]
    BY <2>1, <2>2
  <2> QED
    BY <1>3, <2>2, <2>3 DEF DownInv
<1>6. ListInv' /\ WalkInv' /\ UpInv'
  BY <1>3 DEF ListInv, WalkInv, UpInv
<1>7. R!ServerSends(m)
  BY <1>1, <1>3 DEF R!ServerSends
<1> QED
  BY <1>4, <1>5, <1>6, <1>7

(* The bus: a frame that ends is later than everything in the buffers.     *)
LEMMA StepBus ==
  ASSUME IInv, BusStarts \/ BusEnds
  PROVE  IInv' /\ (R!Hear \/ UNCHANGED R!relayVars)
<1> USE DEF IInv
<1>1. UNCHANGED <<pc, upVars, downVars, pollVars, histVars>>
  BY DEF BusStarts, BusEnds
<1> USE DEF upVars, downVars, pollVars, histVars
<1>2. DownInv' /\ ListInv' /\ WalkInv'
  BY <1>1 DEF DownInv, ListInv, WalkInv
<1>3. CASE BusStarts
  BY <1>1, <1>2, <1>3 DEF BusStarts, TypeOK, UpInv, R!relayVars
<1>4. CASE BusEnds /\ heard' = heard + 1
  <2>1. /\ ~idle /\ idle' = TRUE /\ rcvbuf' = heard' /\ ev' = "frame"
    BY <1>4 DEF BusEnds, TypeOK
  <2> QED
    BY <1>1, <1>2, <1>4, <2>1 DEF TypeOK, UpInv, R!Hear
<1>5. CASE BusEnds /\ UNCHANGED <<ev, heard, rcvbuf>>
  BY <1>1, <1>2, <1>5 DEF BusEnds, TypeOK, UpInv, R!relayVars
<1> QED
  BY <1>3, <1>4, <1>5 DEF BusEnds

(* The clock, and the end of LwIP_Periodic_Handle.                         *)
LEMMA StepSmall ==
  ASSUME IInv, Tick \/ NetDone
  PROVE  IInv' /\ UNCHANGED R!relayVars
<1> USE DEF IInv
<1>1. UNCHANGED <<busVars, upVars, downVars, CMDLIST, DevIndex, sptr,
                  MsaterTime, histVars>>
  BY DEF Tick, NetDone, upVars, pollVars
<1>2. pc' \in {pc, "ModbusSenttset"} /\ wait' \in {wait, wait + 1}
  BY DEF Tick, NetDone, pollVars
<1> USE DEF busVars, upVars, downVars, histVars
<1>3. TypeOK'
  BY <1>1, <1>2 DEF TypeOK
<1>4. DownInv' /\ ListInv' /\ WalkInv' /\ UpInv'
  BY <1>1 DEF DownInv, ListInv, WalkInv, UpInv
<1> QED
  BY <1>1, <1>3, <1>4 DEF R!relayVars

(* A lost connection takes only messages that did not come in.             *)
LEMMA StepLink ==
  ASSUME IInv, LinkChanges
  PROVE  IInv' /\ (R!Disconnect(got) \/ UNCHANGED R!relayVars)
<1> USE DEF IInv
<1>1. /\ UNCHANGED <<pc, Mb2Tcp, up, ups, got, TcpRecvBuf, TcpRecvLenth, pollVars,
                     busVars, histVars>>
      /\ Tcplink' \in {0, 1}
  BY DEF LinkChanges
<1> USE DEF busVars, pollVars, histVars
<1>2. ListInv' /\ WalkInv' /\ UpInv'
  BY <1>1 DEF ListInv, WalkInv, UpInv
<1>3. CASE UNCHANGED sent
  BY <1>1, <1>2, <1>3 DEF TypeOK, DownInv, R!relayVars
<1>4. CASE sent' = SubSeq(sent, 1, got)
  <2>1. sent \in Seq(Frames \cup Lists \cup {Other}) /\ got \in 0 .. Len(sent)
    BY DEF TypeOK
  <2>2. /\ sent' \in Seq(Frames \cup Lists \cup {Other}) /\ Len(sent') = got
        /\ \A j \in 1 .. got : sent'[j] = sent[j]
    BY <1>4, <2>1
  <2>3. TypeOK'
    BY <1>1, <2>2 DEF TypeOK
  <2>4. DownInv'
    <3>1. next \in 0 .. got /\ TcpRecvBuf \in 0 .. got /\ got \in Nat
      BY <2>1 DEF TypeOK
    <3>2. \A j \in next + 1 .. got : sent'[j] = sent[j]
      BY <2>2, <3>1
    <3>3. TcpRecvBuf > next => sent'[TcpRecvBuf] = sent[TcpRecvBuf]
      BY <3>1, <3>2
    <3> QED
      BY <1>1, <3>2, <3>3 DEF DownInv
  <2>5. R!Disconnect(got)
    BY <1>1, <1>4 DEF TypeOK, R!Disconnect
  <2> QED
    BY <1>2, <2>3, <2>4, <2>5
<1> QED
  BY <1>3, <1>4 DEF LinkChanges, UnderWayLost

(* The uplink record goes out once.                                        *)
LEMMA StepUp ==
  ASSUME IInv, SendDataToSever
  PROVE  /\ IInv'
         /\ (\E j \in 1 .. heard : R!Uplink(j)) \/ UNCHANGED R!relayVars
<1> USE DEF IInv
<1>1. /\ UNCHANGED <<Tcplink, busVars, downVars, pollVars, histVars>>
      /\ Mb2Tcp' = 0 /\ pc' = "LwIP_Periodic_Handle"
  BY DEF SendDataToSever
<1> USE DEF busVars, downVars, pollVars, histVars
<1>2. DownInv' /\ ListInv' /\ WalkInv'
  BY <1>1 DEF DownInv, ListInv, WalkInv
<1>3. CASE Mb2Tcp > 0 /\ up' = Mb2Tcp /\ ups' = ups + 1
  <2>1. TypeOK' /\ UpInv'
    BY <1>1, <1>3 DEF TypeOK, UpInv
  <2>2. R!Uplink(Mb2Tcp) /\ Mb2Tcp \in 1 .. heard
    BY <1>1, <1>3 DEF R!Uplink, TypeOK, UpInv
  <2> QED
    BY <1>2, <2>1, <2>2
<1>4. CASE UNCHANGED <<up, ups>>
  <2>1. TypeOK' /\ UpInv'
    BY <1>1, <1>4 DEF TypeOK, UpInv
  <2> QED
    BY <1>1, <1>2, <1>4, <2>1 DEF R!relayVars
<1> QED
  BY <1>3, <1>4 DEF SendDataToSever

(* eMBMasterPoll moves a frame along the chain.                            *)
LEMMA StepMaster ==
  ASSUME IInv, eMBMasterPoll
  PROVE  IInv' /\ UNCHANGED R!relayVars
<1> USE DEF IInv
<1>1. /\ UNCHANGED <<idle, heard, rcvbuf, Tcplink, up, ups, downVars, pollVars, histVars>>
      /\ pc' = "SendDataToSever"
  BY DEF eMBMasterPoll
<1>2. \/ ev = "frame" /\ ev' \in {"exec", "error"} /\ UNCHANGED Mb2Tcp
      \/ ev = "exec" /\ Mb2Tcp' = rcvbuf /\ ev' = "none"
      \/ ev' = "none" /\ UNCHANGED Mb2Tcp
  BY DEF eMBMasterPoll
<1> USE DEF downVars, pollVars, histVars
<1>3. DownInv' /\ ListInv' /\ WalkInv'
  BY <1>1 DEF DownInv, ListInv, WalkInv
<1>4. TypeOK' /\ UpInv'
  BY <1>1, <1>2 DEF TypeOK, UpInv
<1> QED
  BY <1>1, <1>3, <1>4 DEF R!relayVars

-----------------------------------------------------------------------------
(* A message comes in.                                                     *)
LEMMA StepReceive ==
  ASSUME ListsFit, IInv, tcp_client_reciver
  PROVE  /\ IInv'
         /\ (\E i \in 1 .. Len(sent) : R!Configure(i)) \/ UNCHANGED R!relayVars
<1> USE DEF IInv
<1> DEFINE m == sent[got + 1]
<1>1. /\ got' = got + 1 /\ got + 1 \in 1 .. Len(sent)
      /\ m \in Frames \cup Lists \cup {Other}
      /\ UNCHANGED <<pc, sent, wait, busVars, upVars, out, downs>>
  BY DEF tcp_client_reciver, TypeOK
<1> USE DEF busVars, upVars
<1>2. UpInv'
  BY <1>1 DEF UpInv
<1>3. CASE m \in Frames /\ FFAA(m)
  <2>1. /\ TcpRecvBuf' = got + 1 /\ TcpRecvLenth' = m.len
        /\ UNCHANGED <<CMDLIST, DevIndex, sptr, MsaterTime, next, given>>
    BY <1>1, <1>3 DEF FFAA
  <2>2. m.len \in Nat /\ m \notin Lists
    BY <1>3, GatewayAssumption
  <2>3. TypeOK'
    BY <1>1, <2>1, <2>2 DEF TypeOK
  <2>4. DownInv'
    BY <1>1, <1>3, <2>1, <2>2 DEF DownInv, TypeOK
  <2>5. ListInv' /\ WalkInv'
    BY <2>1 DEF ListInv, WalkInv
  <2> QED
    BY <1>1, <1>2, <2>1, <2>3, <2>4, <2>5 DEF R!relayVars
<1>4. CASE m \in Lists /\ FFBB(m.entries)
  <2> DEFINE l == m.entries
  <2>1. /\ CMDLIST' = [c \in 1 .. Cells |-> IF c <= Len(l) THEN l[c]
                              ELSE IF c <= Cleared THEN Zero ELSE CMDLIST[c]]
        /\ DevIndex' = 0 /\ TcpRecvLenth' = 0 /\ next' = got + 1 /\ given' = l
        /\ UNCHANGED <<TcpRecvBuf, sptr, MsaterTime>>
    BY <1>1, <1>4 DEF FFBB
  <2>2. /\ l \in Seq(EntrySet) /\ Len(l) <= Cleared
        /\ l \in {k.entries : k \in Lists}
    BY <1>4, ListShape
  <2>3. \A c \in 1 .. Cells : CMDLIST'[c] = IF c <= Len(l) THEN l[c] ELSE Zero
    BY <2>1, Limits DEF ListInv
  <2>4. \A c \in 1 .. Cells : CMDLIST'[c] \in {Zero} \cup EntrySet
    BY <2>2, <2>3
  <2>5. CMDLIST' \in [1 .. Cells -> {Zero} \cup EntrySet]
    BY <2>1, <2>4
  <2> HIDE DEF l
  <2>6. TypeOK'
    BY <1>1, <2>1, <2>2, <2>5, Limits DEF TypeOK, EntrySet
  <2>7. DownInv' /\ ListInv' /\ WalkInv'
    BY <1>1, <2>1, <2>2, <2>3 DEF DownInv, ListInv, WalkInv, TypeOK
  <2>8. R!Configure(got + 1)
    BY <1>1, <1>4, <2>1 DEF R!Configure, DownInv, TypeOK, l
  <2> QED
    BY <1>1, <1>2, <2>6, <2>7, <2>8
<1>5. CASE /\ m = Other
           /\ UNCHANGED <<TcpRecvBuf, TcpRecvLenth, CMDLIST, DevIndex, sptr,
                          MsaterTime, next, given>>
  <2>1. m \notin Lists
    BY <1>5, GatewayAssumption
  <2>2. TypeOK'
    BY <1>1, <1>5 DEF TypeOK
  <2>3. DownInv' /\ ListInv' /\ WalkInv'
    BY <1>1, <1>5, <2>1 DEF DownInv, ListInv, WalkInv, TypeOK
  <2> QED
    BY <1>1, <1>2, <1>5, <2>2, <2>3 DEF R!relayVars
<1> QED
  BY <1>1, <1>3, <1>4, <1>5 DEF tcp_client_reciver

(* A frame of the server goes to the bus, or is forgotten.                 *)
LEMMA StepForward ==
  ASSUME IInv, pc' = "eMBMasterPoll", UNCHANGED <<busVars, upVars>>,
         TcpRecvLenth > 0, SendServerFrame
  PROVE  /\ IInv'
         /\ (\E i \in 1 .. Len(sent) : R!Forward(i)) \/ UNCHANGED R!relayVars
<1> USE DEF IInv, busVars, upVars
<1> DEFINE i == TcpRecvBuf
<1>1. /\ TcpRecvLenth' = 0 /\ UNCHANGED <<sent, got, TcpRecvBuf, pollVars, given>>
  BY DEF SendServerFrame
<1>2. /\ i \in next + 1 .. Len(sent) /\ i \in 1 .. got /\ sent[i] \in Frames
      /\ \A j \in next + 1 .. i : sent[j] \notin Lists
  <2>1. i \in 0 .. got /\ i > next /\ next \in Nat /\ got \in 0 .. Len(sent)
    BY DEF DownInv, TypeOK
  <2> QED
    BY <2>1 DEF DownInv
<1>3. ListInv' /\ WalkInv' /\ UpInv'
  BY <1>1 DEF pollVars, ListInv, WalkInv, UpInv
<1>4. CASE Accepted(sent[i])
  <2>1. /\ next' = i /\ downs' = downs + 1
        /\ out' = [src |-> "server", frame |-> sent[i]]
    BY <1>4 DEF SendServerFrame, Master_Send, Forwarded
  <2>2. TypeOK' /\ DownInv'
    BY <1>1, <1>2, <2>1 DEF pollVars, TypeOK, DownInv
  <2>3. R!Forward(i) /\ i \in 1 .. Len(sent)
    BY <1>1, <1>2, <2>1 DEF R!Forward, pollVars, TypeOK
  <2> QED
    BY <1>3, <2>2, <2>3
<1>5. CASE ~Accepted(sent[i])
  <2>1. UNCHANGED <<next, downs, out>>
    BY <1>5 DEF SendServerFrame, Master_Send, Forwarded
  <2>2. TypeOK' /\ DownInv'
    BY <1>1, <1>2, <2>1 DEF pollVars, TypeOK, DownInv
  <2> QED
    BY <1>1, <1>3, <2>1, <2>2 DEF pollVars, R!relayVars
<1> QED
  BY <1>4, <1>5

(* The walk over the list in force.                                        *)
LEMMA StepPoll ==
  ASSUME ListsFit, IInv, pc' = "eMBMasterPoll", UNCHANGED <<busVars, upVars>>,
         TcpRecvLenth = 0, Poll
  PROVE  IInv' /\ (R!PollEntry \/ R!EndOfRound \/ UNCHANGED R!relayVars)
<1> USE DEF IInv, busVars, upVars
<1>1. UNCHANGED <<downVars, next, downs, given, CMDLIST>> /\ wait' \in {0, wait}
  BY DEF Poll, pollVars
<1>2. DownInv' /\ ListInv' /\ UpInv'
  BY <1>1 DEF downVars, DownInv, ListInv, UpInv
<1>3. CASE UNCHANGED <<DevIndex, sptr, MsaterTime, out>>
  BY <1>1, <1>2, <1>3 DEF downVars, TypeOK, WalkInv, R!relayVars
<1>4. CASE PollList
  <2> DEFINE p == DevIndex + 1
             e == IF p <= Cells THEN CMDLIST[p] ELSE Zero
  <2>1. WalkFrom = p /\ p \in 1 .. Cells + 1
    BY Limits DEF WalkFrom, WalkInv, TypeOK
  <2>2. CASE /\ e.key = p /\ Master_Send("poll", e.frame)
             /\ MsaterTime' = IF DevIndex = 0 THEN Interval(e.wait) ELSE MsaterTime
             /\ sptr' = p + 1
             /\ DevIndex' = IF p = MaxDev THEN 0 ELSE p
    <3>1. p \in 1 .. Cells /\ p <= Len(given) /\ e = given[p]
      BY <2>1, <2>2 DEF ListInv, Zero, TypeOK
    <3>2. e \in EntrySet
      BY <3>1, GivenShape DEF TypeOK
    <3>3. MsaterTime' \in Nat \ {0}
      BY <2>2, <3>2 DEF Interval, EntrySet, TypeOK
    <3>4. DevIndex' = p
      BY <2>2, <3>1, Limits
    <3>5. TypeOK' /\ WalkInv'
      BY <1>1, <2>2, <3>1, <3>3, <3>4, Limits DEF downVars, TypeOK, WalkInv
    <3>6. out' \in {out, [src |-> "poll", frame |-> given[p].frame]}
      BY <2>2, <3>1 DEF Master_Send
    <3>7. R!Usable(given, p)
      BY <2>2, <3>1 DEF R!Usable
    <3>8. R!PollEntry
      BY <1>1, <3>4, <3>6, <3>7 DEF R!PollEntry, downVars
    <3> QED
      BY <1>2, <3>5, <3>8
  <2>3. CASE /\ e.key # p /\ sptr' = p /\ DevIndex' = 0
             /\ UNCHANGED <<MsaterTime, out>>
    <3>1. TypeOK' /\ WalkInv'
      BY <1>1, <2>1, <2>3, Limits DEF downVars, TypeOK, WalkInv
    <3>2. ~R!Usable(given, p)
      BY <2>1, <2>3, Limits DEF R!Usable, ListInv
    <3>3. R!EndOfRound
      BY <1>1, <2>3, <3>2 DEF R!EndOfRound, downVars
    <3> QED
      BY <1>2, <3>1, <3>3
  <2> QED
    BY <1>4, <2>1, <2>2, <2>3 DEF PollList
<1> QED
  BY <1>3, <1>4 DEF Poll, pollVars

-----------------------------------------------------------------------------
(* Every step keeps the invariant and is a step of the relay or none.      *)
LEMMA NextInv ==
  ListsFit /\ IInv /\ [Next]_vars => IInv' /\ [R!Next]_(R!relayVars)
<1> SUFFICES ASSUME ListsFit, IInv, [Next]_vars
             PROVE  IInv' /\ [R!Next]_(R!relayVars)
  OBVIOUS
<1>1. ASSUME NEW m \in Frames \cup Lists \cup {Other}, ServerSends(m)
      PROVE  IInv' /\ R!Next
  BY <1>1, StepServer DEF R!Next
<1>2. CASE BusStarts \/ BusEnds
  BY <1>2, StepBus DEF R!Next
<1>3. CASE Tick \/ NetDone
  BY <1>3, StepSmall
<1>9. CASE LinkChanges
  <2>1. got \in 0 .. Len(sent)
    BY DEF IInv, TypeOK
  <2> QED
    BY <1>9, <2>1, StepLink DEF R!Next
<1>4. CASE SendDataToSever
  BY <1>4, StepUp DEF R!Next
<1>5. CASE eMBMasterPoll
  BY <1>5, StepMaster
<1>6. CASE tcp_client_reciver
  BY <1>6, StepReceive DEF R!Next
<1>7. CASE ModbusSenttset
  <2>1. pc' = "eMBMasterPoll" /\ UNCHANGED <<busVars, upVars>>
    BY <1>7 DEF ModbusSenttset
  <2>2. CASE TcpRecvLenth > 0 /\ SendServerFrame
    BY <2>1, <2>2, StepForward DEF R!Next
  <2>3. CASE TcpRecvLenth = 0 /\ Poll
    BY <2>1, <2>3, StepPoll DEF R!Next
  <2> QED
    BY <1>7, <2>2, <2>3 DEF ModbusSenttset
<1>8. CASE UNCHANGED vars
  <2> USE <1>8 DEF vars, busVars, upVars, downVars, pollVars, histVars
  <2>1. IInv'
    BY DEF IInv, TypeOK, DownInv, ListInv, WalkInv, UpInv
  <2> QED
    BY <2>1 DEF R!relayVars
<1> QED
  BY <1>1, <1>2, <1>3, <1>4, <1>5, <1>6, <1>7, <1>8, <1>9 DEF Next, Loop

(* The buffers of the gateway always mean what DownInv, ListInv, WalkInv   *)
(* and UpInv say.                                                          *)
THEOREM Invariant == ListsFit => (Spec => []IInv)
<1> SUFFICES ASSUME ListsFit PROVE Spec => []IInv
  OBVIOUS
<1>1. Init => IInv
  BY InitInv
<1>2. IInv /\ [Next]_vars => IInv'
  BY NextInv
<1> QED
  BY <1>1, <1>2, PTL DEF Spec

(* The walk of ModbusSenttset stays inside TCP2RS485CMDLIST and every      *)
(* interval it takes from a list is positive.                              *)
THEOREM TypeCorrect == ListsFit => (Spec => []TypeOK)
<1> SUFFICES ASSUME ListsFit PROVE Spec => []TypeOK
  OBVIOUS
<1>1. IInv => TypeOK
  BY DEF IInv
<1> QED
  BY <1>1, Invariant, PTL

(* tcp_client_reciver, ModbusSenttset, eMBMasterPoll and SendDataToSever   *)
(* together implement the relay.                                           *)
THEOREM Refinement == ListsFit => (Spec => Relayed)
<1> SUFFICES ASSUME ListsFit PROVE Spec => Relayed
  OBVIOUS
<1>1. Init => R!Init
  BY DEF Init, R!Init, R!Nothing
<1>2. IInv /\ [Next]_vars => [R!Next]_(R!relayVars)
  BY NextInv
<1> QED
  BY <1>1, <1>2, Invariant, PTL DEF Spec, Relayed, R!Spec
=============================================================================
