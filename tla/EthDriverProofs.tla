-------------------------- MODULE EthDriverProofs --------------------------
(***************************************************************************)
(* Driver and DMA share their rings soundly, for every size of the rings   *)
(* and every number of frames.                                             *)
(*                                                                         *)
(* The descriptors that one side has handed to the other are a run of the  *)
(* ring that starts at the pointer of the one side and ends at that of the *)
(* other.  The invariant names the length of the run and says that frames  *)
(* are in order along it: behind all that were delivered, and before all   *)
(* that are still to come.  On the transmit side the frames of the run are *)
(* newer than those on the wire, and exactly the ones that follow as long  *)
(* as no send met a descriptor in use.                                     *)
(***************************************************************************)
EXTENDS EthDriver, SequenceTheorems, TLAPS

(* The descriptor i places behind g in a ring of N, how far d is behind g, *)
(* and the next one.                                                       *)
Pos(N, g, i)  == IF g + i <= N THEN g + i ELSE g + i - N
Dist(N, g, d) == IF d >= g THEN d - g ELSE d - g + N
Succ(N, d)    == IF d = N THEN 1 ELSE d + 1

(* n descriptors from DMARxDescToGet on are with the CPU.                  *)
RxRun(n) ==
  /\ rxDma = Pos(NRx, DMARxDescToGet, n)
  /\ \A d \in 1 .. NRx : rx[d].own <=> n <= Dist(NRx, DMARxDescToGet, d)

(* They hold frames in the order of the ring, newer than the one that was  *)
(* read last.                                                              *)
RxInv ==
  /\ \E n \in 0 .. NRx : RxRun(n)
  /\ \A d \in 1 .. NRx : ~rx[d].own => rx[d].frame \in 1 .. came /\ frameds < rx[d].frame
  /\ \A d, e \in 1 .. NRx :
       ~rx[d].own /\ ~rx[e].own
         /\ Dist(NRx, DMARxDescToGet, d) < Dist(NRx, DMARxDescToGet, e) =>
       rx[d].frame < rx[e].frame \/ rx[d].kind = "span"

(* What the stack has got is older than what is on its way to it.          *)
InputInv ==
  NoFullFrames =>
    /\ ReceivedInOrder
    /\ frameds # 0 => Eth_Buff = frameds
    /\ \A d \in 1 .. NRx : rx[d].kind # "full"
    /\ \A i \in DOMAIN input :
         /\ frameds # 0 => input[i] < frameds
         /\ \A d \in 1 .. NRx : ~rx[d].own => input[i] < rx[d].frame

(* m descriptors from txDma on are with the DMA.                           *)
TxRun(m) ==
  /\ DMATxDescToSet = Pos(NTx, txDma, m)
  /\ \A d \in 1 .. NTx : tx[d].own <=> Dist(NTx, txDma, d) < m

(* The frame that the first of them is for, or the next one if there is    *)
(* none.                                                                   *)
First(m) == sends + 1 - m - (IF txpc = "check" THEN 1 ELSE 0)

(* They are for consecutive frames up to the last one or to the one that   *)
(* is being handed over, and hold those frames; only the buffer that the   *)
(* latter was copied into holds that one.  Everything on the wire is       *)
(* older, and without overrun just as many.                                *)
TxFrames(m) ==
  /\ \A d \in 1 .. NTx : tx[d].own =>
       /\ tx[d].len = First(m) + Dist(NTx, txDma, d)
       /\ tx[d].buf = IF txpc = "check" /\ d = DMATxDescToSet THEN sends ELSE tx[d].len
  /\ txpc = "check" => tx[DMATxDescToSet].buf = sends /\ txFrame = sends
  /\ \A i \in DOMAIN wire : wire[i][2] < First(m)
  /\ ~overrun => /\ First(m) = Len(wire) + 1
                 /\ txpc = "check" => ~tx[DMATxDescToSet].own

TxInv == SentInOrder /\ \E m \in 0 .. NTx : TxRun(m) /\ TxFrames(m)

IInv == TypeOK /\ RxInv /\ InputInv /\ TxInv

-----------------------------------------------------------------------------
(* Both rings have a descriptor.                                           *)
LEMMA Sizes == /\ NRx \in Nat /\ NRx >= 2 /\ NTx \in Nat /\ NTx >= 1
               /\ MaxRx \in Nat /\ MaxTx \in Nat
  BY EthAssumption

(* Going round a ring.                                                     *)
LEMMA Round ==
  ASSUME NEW N \in Nat \ {0}, NEW g \in 1 .. N
  PROVE  /\ Succ(N, g) \in 1 .. N
         /\ \A i \in 0 .. N : Pos(N, g, i) \in 1 .. N
         /\ \A i \in 0 .. N - 1 : Dist(N, g, Pos(N, g, i)) = i
         /\ \A i \in 0 .. N - 1 : Succ(N, Pos(N, g, i)) = Pos(N, g, i + 1)
         /\ Pos(N, g, 0) = g /\ Pos(N, g, N) = g /\ Dist(N, g, g) = 0
         /\ \A d \in 1 .. N : Dist(N, g, d) \in 0 .. N - 1
         /\ \A d \in 1 .. N : Pos(N, g, Dist(N, g, d)) = d
  BY DEF Pos, Dist, Succ

(* The run seen from the next descriptor.                                  *)
LEMMA RoundOn ==
  ASSUME NEW N \in Nat \ {0}, NEW g \in 1 .. N
  PROVE  /\ \A i \in 1 .. N : Pos(N, Succ(N, g), i - 1) = Pos(N, g, i)
         /\ Dist(N, Succ(N, g), g) = N - 1
         /\ \A d \in 1 .. N : d # g => Dist(N, Succ(N, g), d) = Dist(N, g, d) - 1
  BY DEF Pos, Dist, Succ

(* NextRx and NextTx are the next descriptors of their rings.              *)
LEMMA Nexts == (\A d : NextRx(d) = Succ(NRx, d)) /\ (\A d : NextTx(d) = Succ(NTx, d))
  BY DEF NextRx, NextTx, Succ

(* The initial state, and the rings after a reset.                         *)
LEMMA InitInv == Init => IInv
<1> SUFFICES ASSUME Init PROVE IInv
  OBVIOUS
<1>1. TypeOK
  <2>1. /\ rx \in [1 .. NRx -> [own : BOOLEAN, kind : Kinds \cup {"none"}, frame : 0 .. came]]
        /\ tx \in [1 .. NTx -> [own : BOOLEAN, buf : 0 .. sends, len : 0 .. sends]]
    BY Sizes DEF Init, NoRx, NoTx, FreeRx
  <2>2. overrun \in BOOLEAN /\ missed \in BOOLEAN /\ txState = "runs"
    BY Zenon DEF Init
  <2>3. input \in Seq(0 .. came) /\ wire \in Seq((0 .. sends) \X (0 .. sends))
    BY DEF Init
  <2> QED
    BY <2>1, <2>2, <2>3, Sizes DEF Init, TypeOK
<1>2. RxRun(0) /\ TxRun(0)
  <2>1. /\ Pos(NRx, 1, 0) = 1 /\ Pos(NTx, 1, 0) = 1
        /\ \A d \in 1 .. NRx : 0 <= Dist(NRx, 1, d)
        /\ \A d \in 1 .. NTx : 0 <= Dist(NTx, 1, d)
    BY Sizes DEF Pos, Dist
  <2>2. /\ rxDma = 1 /\ DMARxDescToGet = 1 /\ txDma = 1 /\ DMATxDescToSet = 1
        /\ \A d \in 1 .. NRx : rx[d].own = TRUE
        /\ \A d \in 1 .. NTx : tx[d].own = FALSE
    BY DEF Init, NoRx, NoTx, FreeRx
  <2>3. \A d \in 1 .. NTx : ~(Dist(NTx, 1, d) < 0)
    BY Sizes DEF Dist
  <2> QED
    BY <2>1, <2>2, <2>3 DEF RxRun, TxRun
<1>3. \A d \in 1 .. NRx : rx[d].own /\ rx[d].kind = "none"
  BY DEF Init, NoRx, FreeRx
<1>4. \A d \in 1 .. NTx : ~tx[d].own
  BY DEF Init, NoTx
<1>5. DOMAIN input = {} /\ DOMAIN wire = {} /\ frameds = 0 /\ txpc = "idle"
  BY DEF Init
<1>6. RxInv
  BY <1>2, <1>3, Sizes DEF RxInv
<1>7. InputInv
  BY <1>3, <1>5 DEF InputInv, ReceivedInOrder
<1>8. TxInv
  <2>1. sends = 0 /\ Len(wire) = 0 /\ 0 \in 0 .. NTx
    BY Sizes DEF Init
  <2>2. TxFrames(0)
    BY <1>4, <1>5, <2>1 DEF TxFrames, First
  <2> QED
    BY <1>2, <1>5, <2>1, <2>2 DEF TxInv, SentInOrder
<1> QED
  BY <1>1, <1>6, <1>7, <1>8 DEF IInv

(* A step that leaves the transmit side alone.                             *)
LEMMA TxStable ==
  ASSUME TxInv, UNCHANGED txVars
  PROVE  TxInv'
  BY DEF TxInv, TxRun, TxFrames, First, SentInOrder, txVars

(* A step that leaves the receive side alone.                              *)
LEMMA RxStable ==
  ASSUME RxInv, InputInv, UNCHANGED rxVars
  PROVE  RxInv' /\ InputInv'
  BY DEF RxInv, RxRun, InputInv, ReceivedInOrder, rxVars

-----------------------------------------------------------------------------
(* Reception.                                                              *)

(* The DMA's descriptor is n places behind the CPU's, or the ring is full. *)
LEMMA AtDma ==
  ASSUME TypeOK, NEW n \in 0 .. NRx, RxRun(n)
  PROVE  /\ rx[rxDma].own <=> n < NRx
         /\ n < NRx => Dist(NRx, DMARxDescToGet, rxDma) = n
         /\ n < NRx => NextRx(rxDma) = Pos(NRx, DMARxDescToGet, n + 1)
         /\ \A d \in 1 .. NRx : d # rxDma => Dist(NRx, DMARxDescToGet, d) # n
<1>1. DMARxDescToGet \in 1 .. NRx /\ rxDma \in 1 .. NRx /\ NRx \in Nat \ {0}
  BY Sizes DEF TypeOK
<1>2. rxDma = Pos(NRx, DMARxDescToGet, n)
  BY DEF RxRun
<1>3. n < NRx => /\ Dist(NRx, DMARxDescToGet, rxDma) = n
                 /\ Succ(NRx, rxDma) = Pos(NRx, DMARxDescToGet, n + 1)
  BY <1>1, <1>2, Round
<1>4. n = NRx => Dist(NRx, DMARxDescToGet, rxDma) = 0
  BY <1>1, <1>2, Round
<1>5. rx[rxDma].own <=> n <= Dist(NRx, DMARxDescToGet, rxDma)
  BY <1>1 DEF RxRun
<1>6. \A d \in 1 .. NRx : Pos(NRx, DMARxDescToGet, Dist(NRx, DMARxDescToGet, d)) = d
  BY <1>1, Round
<1> QED
  BY <1>1, <1>2, <1>3, <1>4, <1>5, <1>6, Nexts

(* The DMA fills one descriptor, or two.                                   *)
LEMMA ReceiveInv ==
  ASSUME IInv, NEW k \in Kinds, DmaReceives(k)
  PROVE  IInv'
<1> USE DEF IInv
<1> DEFINE g == DMARxDescToGet
           r == [own |-> FALSE, kind |-> k, frame |-> came + 1]
           D(d) == Dist(NRx, g, d)
<1>1. /\ came' = came + 1
      /\ UNCHANGED <<DMARxDescToGet, Eth_Buff, frameds, input, txVars>>
  BY DEF DmaReceives
<1>2. /\ g \in 1 .. NRx /\ rxDma \in 1 .. NRx /\ NRx \in Nat \ {0} /\ came \in Nat
      /\ frameds \in 0 .. came /\ NRx >= 2 /\ NextRx(rxDma) \in 1 .. NRx
  <2>1. /\ g \in 1 .. NRx /\ rxDma \in 1 .. NRx /\ came \in Nat /\ frameds \in 0 .. came
    BY DEF TypeOK
  <2>2. NRx \in Nat \ {0} /\ NRx >= 2
    BY Sizes
  <2>3. Succ(NRx, rxDma) \in 1 .. NRx
    BY <2>1, <2>2, Round
  <2> QED
    BY <2>1, <2>2, <2>3, Nexts
<1>3. PICK n \in 0 .. NRx : RxRun(n)
  BY DEF RxInv
<1>4. \A d \in 1 .. NRx : D(d) \in 0 .. NRx - 1
  BY <1>2, Round
<1>5. \A d \in 1 .. NRx : rx[d].own <=> n <= D(d)
  BY <1>3 DEF RxRun
<1>6. \A d \in 1 .. NRx : ~rx[d].own => rx[d].frame \in 1 .. came /\ frameds < rx[d].frame
  BY DEF RxInv
<1>7. \A d, e \in 1 .. NRx : ~rx[d].own /\ ~rx[e].own /\ D(d) < D(e) =>
        rx[d].frame < rx[e].frame \/ rx[d].kind = "span"
  BY DEF RxInv
<1>8. rx \in [1 .. NRx -> [own : BOOLEAN, kind : Kinds \cup {"none"}, frame : 0 .. came]]
  BY DEF TypeOK
<1>9. ASSUME /\ rx' \in [1 .. NRx -> [own : BOOLEAN, kind : Kinds \cup {"none"},
                                      frame : 0 .. came + 1]]
             /\ rxDma' \in 1 .. NRx
      PROVE  TypeOK'
  <2>1. input' \in Seq(0 .. came')
    <3>1. 0 .. came \subseteq 0 .. came'
      BY <1>1, <1>2
    <3> QED
      BY <1>1, <3>1, SeqMonotonic DEF TypeOK
  <2>2. {Eth_Buff, frameds}' \subseteq 0 .. came' /\ came' \in Nat
    BY <1>1, <1>2 DEF TypeOK
  <2>3. {rxDma, DMARxDescToGet}' \subseteq 1 .. NRx
    BY <1>1, <1>2, <1>9
  <2>4. rx' \in [1 .. NRx -> [own : BOOLEAN, kind : Kinds \cup {"none"}, frame : 0 .. came']]
    BY <1>1, <1>9
  <2> QED
    BY <1>1, <2>1, <2>2, <2>3, <2>4, Zenon DEF TypeOK, txVars
<1>10. ASSUME \A d \in 1 .. NRx : ~rx'[d].own => rx'[d] = r \/ (~rx[d].own /\ rx'[d] = rx[d]),
              \A d \in 1 .. NRx : rx'[d] = r \/ rx'[d] = rx[d]
       PROVE  InputInv'
  <2> SUFFICES ASSUME NoFullFrames PROVE InputInv!2'
    BY DEF InputInv, NoFullFrames
  <2>1. InputInv!2
    BY DEF InputInv
  <2>2. ReceivedInOrder' /\ (frameds' # 0 => Eth_Buff' = frameds')
    BY <1>1, <1>2, <2>1 DEF ReceivedInOrder
  <2>3. \A d \in 1 .. NRx : rx'[d].kind # "full"
    BY <1>10, <2>1 DEF NoFullFrames
  <2>4. \A i \in DOMAIN input : input[i] \in 1 .. came
    BY <2>1 DEF ReceivedInOrder
  <2>5. \A i \in DOMAIN input' :
          /\ frameds' # 0 => input'[i] < frameds'
          /\ \A d \in 1 .. NRx : ~rx'[d].own => input'[i] < rx'[d].frame
    BY <1>1, <1>2, <1>10, <2>1, <2>4
  <2> QED
    BY <2>2, <2>3, <2>5
<1>11. CASE rx[rxDma].own /\ rx' = [rx EXCEPT ![rxDma] = r] /\ rxDma' = NextRx(rxDma)
  <2>1. /\ n < NRx /\ D(rxDma) = n /\ rxDma' = Pos(NRx, g, n + 1)
        /\ \A d \in 1 .. NRx : d # rxDma => D(d) # n
    BY <1>3, <1>11, AtDma
  <2>2. /\ rx'[rxDma] = r /\ \A d \in 1 .. NRx : d # rxDma => rx'[d] = rx[d]
    BY <1>2, <1>8, <1>11
  <2> HIDE DEF D
  <2>3. \A d \in 1 .. NRx : rx'[d].own <=> n + 1 <= D(d)
    BY <1>2, <1>4, <1>5, <2>1, <2>2
  <2>4. RxRun(n + 1)'
    BY <1>1, <2>1, <2>3 DEF RxRun, D
  <2>5. \A d \in 1 .. NRx : ~rx'[d].own => rx'[d].frame \in 1 .. came' /\ frameds' < rx'[d].frame
    BY <1>1, <1>2, <1>6, <2>2
  <2>6. \A d, e \in 1 .. NRx : ~rx'[d].own /\ ~rx'[e].own /\ D(d) < D(e) =>
          rx'[d].frame < rx'[e].frame \/ rx'[d].kind = "span"
    BY <1>2, <1>4, <1>5, <1>6, <1>7, <2>1, <2>2
  <2>7. RxInv'
    <3>1. n + 1 \in 0 .. NRx
      BY <1>2, <2>1
    <3> QED
      BY <1>1, <2>4, <2>5, <2>6, <3>1 DEF RxInv, D
  <2>8. TypeOK'
    BY <1>2, <1>8, <1>9, <1>11
  <2>9. InputInv'
    BY <1>10, <2>2
  <2> QED
    BY <1>1, <2>7, <2>8, <2>9, TxStable
<1>12. CASE /\ k = "span" /\ rx[rxDma].own /\ rx[NextRx(rxDma)].own
            /\ rx' = [rx EXCEPT ![rxDma] = r, ![NextRx(rxDma)] = r]
            /\ rxDma' = NextRx(NextRx(rxDma))
  <2> DEFINE f == NextRx(rxDma)
  <2>1. /\ n < NRx /\ D(rxDma) = n /\ f = Pos(NRx, g, n + 1)
        /\ \A d \in 1 .. NRx : d # rxDma => D(d) # n
    BY <1>3, <1>12, AtDma
  <2>2. n + 1 < NRx
    <3>1. n + 1 = NRx => D(f) = 0
      BY <1>2, <2>1, Round
    <3>2. n <= D(f)
      BY <1>2, <1>5, <1>12
    <3> QED
      BY <1>2, <2>1, <3>1, <3>2
  <2>3. D(f) = n + 1 /\ rxDma' = Pos(NRx, g, n + 2)
    <3>1. n + 1 \in 0 .. NRx - 1 /\ n + 2 = (n + 1) + 1
      BY <1>2, <2>2
    <3>2. \A i \in 0 .. NRx - 1 : /\ Succ(NRx, Pos(NRx, g, i)) = Pos(NRx, g, i + 1)
                                 /\ Dist(NRx, g, Pos(NRx, g, i)) = i
      BY <1>2, Round
    <3>3. /\ Succ(NRx, Pos(NRx, g, n + 1)) = Pos(NRx, g, (n + 1) + 1)
          /\ Dist(NRx, g, Pos(NRx, g, n + 1)) = n + 1
      BY <3>1, <3>2
    <3> QED
      BY <1>12, <2>1, <3>1, <3>3, Nexts
  <2>4. \A d \in 1 .. NRx : d # f => D(d) # n + 1
    <3>1. \A d \in 1 .. NRx : Pos(NRx, g, D(d)) = d
      BY <1>2, Round
    <3> QED
      BY <2>1, <3>1
  <2>5. /\ rx'[rxDma] = r /\ rx'[f] = r
        /\ \A d \in 1 .. NRx : d # rxDma /\ d # f => rx'[d] = rx[d]
    BY <1>2, <1>8, <1>12
  <2> HIDE DEF D, f
  <2>6. f \in 1 .. NRx
    BY <1>2 DEF f
  <2>7. \A d \in 1 .. NRx : rx'[d].own <=> n + 2 <= D(d)
    BY <1>2, <1>4, <1>5, <2>1, <2>2, <2>3, <2>4, <2>5, <2>6
  <2>8. RxRun(n + 2)'
    BY <1>1, <2>3, <2>7 DEF RxRun, D
  <2>9. \A d \in 1 .. NRx : ~rx'[d].own => rx'[d].frame \in 1 .. came' /\ frameds' < rx'[d].frame
    BY <1>1, <1>2, <1>6, <2>5
  <2>10. \A d, e \in 1 .. NRx : ~rx'[d].own /\ ~rx'[e].own /\ D(d) < D(e) =>
           rx'[d].frame < rx'[e].frame \/ rx'[d].kind = "span"
    <3> SUFFICES ASSUME NEW d \in 1 .. NRx, NEW e \in 1 .. NRx,
                        ~rx'[d].own, ~rx'[e].own, D(d) < D(e)
                 PROVE  rx'[d].frame < rx'[e].frame \/ rx'[d].kind = "span"
      OBVIOUS
    <3>1. CASE d = rxDma \/ d = f
      BY <1>12, <2>5, <3>1
    <3>2. CASE d # rxDma /\ d # f /\ (e = rxDma \/ e = f)
      <4>1. rx'[e].frame = came + 1 /\ rx[d].frame \in 1 .. came /\ rx'[d] = rx[d]
        BY <1>6, <2>5, <3>2
      <4> QED
        BY <1>2, <4>1
    <3>3. CASE d # rxDma /\ d # f /\ e # rxDma /\ e # f
      BY <1>7, <2>5, <3>3
    <3> QED
      BY <3>1, <3>2, <3>3
  <2>11. RxInv'
    <3>1. n + 2 \in 0 .. NRx
      BY <1>2, <2>2
    <3> QED
      BY <1>1, <2>8, <2>9, <2>10, <3>1 DEF RxInv, D
  <2>12. TypeOK'
    <3>1. rxDma' \in 1 .. NRx
      BY <1>2, <2>6, <1>12, Round, Nexts DEF f
    <3>2. r \in [own : BOOLEAN, kind : Kinds \cup {"none"}, frame : 0 .. came + 1]
      BY <1>2
    <3>3. \A d \in 1 .. NRx : rx[d] \in [own : BOOLEAN, kind : Kinds \cup {"none"}, frame : 0 .. came + 1]
      BY <1>2, <1>8
    <3> HIDE DEF r
    <3>4. rx' \in [1 .. NRx -> [own : BOOLEAN, kind : Kinds \cup {"none"}, frame : 0 .. came + 1]]
      BY <1>8, <1>12, <3>2, <3>3
    <3> QED
      BY <1>9, <3>1, <3>4
  <2>13. InputInv'
    BY <1>10, <2>5
  <2> QED
    BY <1>1, <2>11, <2>12, <2>13, TxStable
<1>13. CASE UNCHANGED <<rx, rxDma>>
  <2>1. RxInv'
    BY <1>1, <1>2, <1>3, <1>6, <1>7, <1>13 DEF RxInv, RxRun
  <2>2. TypeOK'
    BY <1>2, <1>8, <1>9, <1>13
  <2>3. InputInv'
    BY <1>10, <1>13
  <2> QED
    BY <1>1, <2>1, <2>2, <2>3, TxStable
<1> QED
  BY <1>11, <1>12, <1>13 DEF DmaReceives

(* The CPU reads the first descriptor of its run and gives it back.        *)
LEMMA ReadInv ==
  ASSUME IInv, Read_Eth_Packet
  PROVE  IInv'
<1> USE DEF IInv
<1> DEFINE g == DMARxDescToGet
           D(d) == Dist(NRx, g, d)
           E(d) == Dist(NRx, g', d)
<1>1. /\ ~rx[g].own /\ rx[g].kind # "span" /\ frameds = 0
      /\ Eth_Buff' = (IF rx[g].kind # "full" THEN rx[g].frame ELSE Eth_Buff)
      /\ frameds' = rx[g].frame /\ rx' = [rx EXCEPT ![g] = FreeRx]
      /\ g' = NextRx(g) /\ UNCHANGED <<rxDma, came, input, txVars>>
  BY DEF Read_Eth_Packet, ETH_GetRxPktSize, GiveBack
<1>2. /\ g \in 1 .. NRx /\ rxDma \in 1 .. NRx /\ came \in Nat /\ Eth_Buff \in 0 .. came
      /\ NRx \in Nat \ {0}
  BY Sizes DEF TypeOK
<1>3. PICK n \in 0 .. NRx : RxRun(n)
  BY DEF RxInv
<1>4. rx \in [1 .. NRx -> [own : BOOLEAN, kind : Kinds \cup {"none"}, frame : 0 .. came]]
  BY DEF TypeOK
<1>5. \A d \in 1 .. NRx : D(d) \in 0 .. NRx - 1 /\ (D(d) = 0 => d = g)
  <2>1. \A d \in 1 .. NRx : D(d) \in 0 .. NRx - 1 /\ Pos(NRx, g, D(d)) = d
    BY <1>2, Round
  <2>2. Pos(NRx, g, 0) = g
    BY <1>2, Round
  <2> QED
    BY <2>1, <2>2
<1>6. g' \in 1 .. NRx /\ g' = Succ(NRx, g) /\ D(g) = 0
  BY <1>1, <1>2, Round, Nexts
<1>7. E(g) = NRx - 1 /\ \A d \in 1 .. NRx : d # g => E(d) = D(d) - 1
  BY <1>2, <1>6, RoundOn
<1>8. rx'[g] = FreeRx /\ \A d \in 1 .. NRx : d # g => rx'[d] = rx[d]
  BY <1>1, <1>2, <1>4
<1>9. \A d \in 1 .. NRx : rx[d].own <=> n <= D(d)
  BY <1>3 DEF RxRun
<1>10. n >= 1 /\ n - 1 \in 0 .. NRx
  BY <1>1, <1>2, <1>6, <1>9
<1>11. rxDma' = Pos(NRx, g', n - 1)
  <2>1. \A i \in 1 .. NRx : Pos(NRx, g', i - 1) = Pos(NRx, g, i)
    BY <1>2, <1>6, RoundOn
  <2>2. rxDma = Pos(NRx, g, n)
    BY <1>3 DEF RxRun
  <2> QED
    BY <1>1, <1>2, <1>10, <2>1, <2>2
<1>12. \A d \in 1 .. NRx : ~rx[d].own => rx[d].frame \in 1 .. came
  BY DEF RxInv
<1>13. \A d, e \in 1 .. NRx : ~rx[d].own /\ ~rx[e].own /\ D(d) < D(e) =>
         rx[d].frame < rx[e].frame \/ rx[d].kind = "span"
  BY DEF RxInv
<1>14. \A d \in 1 .. NRx : ~rx'[d].own => d # g /\ ~rx[d].own /\ rx'[d] = rx[d]
  BY <1>8 DEF FreeRx
<1> HIDE DEF D, E
<1>15. \A d \in 1 .. NRx : rx'[d].own <=> n - 1 <= E(d)
  BY <1>2, <1>5, <1>7, <1>8, <1>9, <1>10 DEF FreeRx
<1>16. \A d \in 1 .. NRx : ~rx'[d].own => rx[g].frame < rx'[d].frame
  BY <1>1, <1>2, <1>5, <1>6, <1>13, <1>14
<1>17. \A d, e \in 1 .. NRx : ~rx'[d].own /\ ~rx'[e].own /\ E(d) < E(e) =>
         rx'[d].frame < rx'[e].frame \/ rx'[d].kind = "span"
  BY <1>5, <1>7, <1>13, <1>14
<1>18. RxInv'
  <2>1. RxRun(n - 1)'
    BY <1>11, <1>15 DEF RxRun, E
  <2>2. \A d \in 1 .. NRx : ~rx'[d].own => rx'[d].frame \in 1 .. came' /\ frameds' < rx'[d].frame
    BY <1>1, <1>12, <1>14, <1>16
  <2> QED
    BY <1>10, <1>17, <2>1, <2>2 DEF RxInv, E
<1>19. rx[g].frame \in 1 .. came
  BY <1>1, <1>2, <1>12
<1>20. InputInv'
  <2> SUFFICES ASSUME NoFullFrames PROVE InputInv!2'
    BY DEF InputInv, NoFullFrames
  <2>1. InputInv!2
    BY DEF InputInv
  <2>2. ReceivedInOrder' /\ Eth_Buff' = frameds'
    BY <1>1, <1>2, <2>1 DEF ReceivedInOrder
  <2>3. \A d \in 1 .. NRx : rx'[d].kind # "full"
    BY <1>8, <2>1 DEF FreeRx
  <2>4. \A i \in DOMAIN input' :
          /\ input'[i] < frameds'
          /\ \A d \in 1 .. NRx : ~rx'[d].own => input'[i] < rx'[d].frame
    BY <1>1, <1>2, <1>14, <2>1
  <2> QED
    BY <2>2, <2>3, <2>4
<1>21. TypeOK'
  <2>1. rx' \in [1 .. NRx -> [own : BOOLEAN, kind : Kinds \cup {"none"}, frame : 0 .. came]]
    BY <1>1, <1>2, <1>4 DEF FreeRx
  <2>2. {Eth_Buff, frameds}' \subseteq 0 .. came /\ {rxDma, DMARxDescToGet}' \subseteq 1 .. NRx
    BY <1>1, <1>2, <1>6, <1>19
  <2> QED
    BY <1>1, <2>1, <2>2, Zenon DEF TypeOK, txVars
<1> QED
  BY <1>1, <1>18, <1>20, <1>21, TxStable

(* Appending to a sequence.                                                *)
LEMMA Appended ==
  ASSUME NEW S, NEW s \in Seq(S), NEW x \in S
  PROVE  /\ Append(s, x) \in Seq(S)
         /\ \A i \in DOMAIN Append(s, x) :
              \/ i \in DOMAIN s /\ Append(s, x)[i] = s[i]
              \/ i \notin DOMAIN s /\ Append(s, x)[i] = x /\ \A j \in DOMAIN Append(s, x) : j <= i
  OBVIOUS

(* The frame read last goes to the stack.                                  *)
LEMMA HandleInv ==
  ASSUME IInv, LwIP_Pkt_Handle
  PROVE  IInv'
<1> USE DEF IInv
<1>1. /\ frameds # 0 /\ frameds' = 0 /\ input' \in {input, Append(input, Eth_Buff)}
      /\ UNCHANGED <<rx, rxDma, DMARxDescToGet, Eth_Buff, came, txVars>>
  BY DEF LwIP_Pkt_Handle
<1>2. /\ came \in Nat /\ frameds \in 0 .. came /\ Eth_Buff \in 0 .. came
      /\ input \in Seq(0 .. came)
  BY DEF TypeOK
<1>3. TypeOK'
  <2>1. input' \in Seq(0 .. came)
    BY <1>1, <1>2, Appended
  <2>2. {Eth_Buff, frameds}' \subseteq 0 .. came /\ UNCHANGED {rxDma, DMARxDescToGet}
    BY <1>1, <1>2
  <2> QED
    BY <1>1, <2>1, <2>2, Zenon DEF TypeOK, txVars
<1>4. RxInv'
  <2>1. \A d \in 1 .. NRx : ~rx[d].own => rx[d].frame \in 1 .. came
    BY DEF RxInv
  <2>2. \A d \in 1 .. NRx : ~rx'[d].own => rx'[d].frame \in 1 .. came' /\ frameds' < rx'[d].frame
    BY <1>1, <1>2, <2>1
  <2>3. PICK n \in 0 .. NRx : RxRun(n)
    BY DEF RxInv
  <2>4. RxRun(n)'
    BY <1>1, <2>3 DEF RxRun
  <2>5. \A d, e \in 1 .. NRx :
          ~rx'[d].own /\ ~rx'[e].own
            /\ Dist(NRx, DMARxDescToGet', d) < Dist(NRx, DMARxDescToGet', e) =>
          rx'[d].frame < rx'[e].frame \/ rx'[d].kind = "span"
    BY <1>1 DEF RxInv
  <2> QED
    BY <2>2, <2>4, <2>5 DEF RxInv
<1>5. InputInv'
  <2> SUFFICES ASSUME NoFullFrames PROVE InputInv!2'
    BY DEF InputInv, NoFullFrames
  <2>1. InputInv!2
    BY DEF InputInv
  <2>2. CASE input' = input
    BY <1>1, <2>1, <2>2 DEF ReceivedInOrder
  <2>3. CASE input' = Append(input, Eth_Buff)
    <3>1. \A i \in DOMAIN input' :
            \/ i \in DOMAIN input /\ input'[i] = input[i]
            \/ i \notin DOMAIN input /\ input'[i] = frameds /\ \A j \in DOMAIN input' : j <= i
      BY <1>1, <1>2, <2>1, <2>3, Appended
    <3>2. \A i \in DOMAIN input : input[i] \in 1 .. came /\ input[i] < frameds
      BY <1>1, <2>1 DEF ReceivedInOrder
    <3>3. \A i \in DOMAIN input' : i \in Int
      BY <1>1, <1>2, <2>3
    <3>4. ReceivedInOrder'
      <4> SUFFICES ASSUME NEW i \in DOMAIN input', NEW j \in DOMAIN input'
                   PROVE  input'[i] \in 1 .. came /\ (i < j => input'[i] < input'[j])
        BY <1>1 DEF ReceivedInOrder
      <4>1. input'[i] \in 1 .. came
        BY <1>1, <1>2, <3>1, <3>2
      <4>2. ASSUME i < j PROVE input'[i] < input'[j]
        <5>1. i \in DOMAIN input /\ input'[i] = input[i]
          BY <3>1, <3>3, <4>2
        <5>2. CASE j \in DOMAIN input
          BY <2>1, <3>1, <4>2, <5>1, <5>2 DEF ReceivedInOrder
        <5>3. CASE j \notin DOMAIN input
          BY <3>1, <3>2, <5>1, <5>3
        <5> QED
          BY <5>2, <5>3
      <4> QED
        BY <4>1, <4>2
    <3>5. \A d \in 1 .. NRx : ~rx[d].own => frameds < rx[d].frame
      BY DEF RxInv
    <3>6. \A i \in DOMAIN input', d \in 1 .. NRx : ~rx'[d].own => input'[i] < rx'[d].frame
      BY <1>1, <2>1, <3>1, <3>5
    <3> QED
      BY <1>1, <2>1, <3>4, <3>6
  <2> QED
    BY <1>1, <2>2, <2>3
<1> QED
  BY <1>1, <1>3, <1>4, <1>5, TxStable

-----------------------------------------------------------------------------
(* Transmission.                                                           *)

(* The CPU's descriptor is m places behind the DMA's, and is in use only   *)
(* when the ring is full.                                                  *)
LEMMA AtCpu ==
  ASSUME TypeOK, NEW m \in 0 .. NTx, TxRun(m)
  PROVE  /\ tx[DMATxDescToSet].own <=> m = NTx
         /\ m < NTx => Dist(NTx, txDma, DMATxDescToSet) = m
         /\ m < NTx => NextTx(DMATxDescToSet) = Pos(NTx, txDma, m + 1)
         /\ \A d \in 1 .. NTx : d # DMATxDescToSet => Dist(NTx, txDma, d) # m
<1>1. DMATxDescToSet \in 1 .. NTx /\ txDma \in 1 .. NTx /\ NTx \in Nat \ {0}
  BY Sizes DEF TypeOK
<1>2. DMATxDescToSet = Pos(NTx, txDma, m)
  BY DEF TxRun
<1>3. m < NTx => /\ Dist(NTx, txDma, DMATxDescToSet) = m
                 /\ Succ(NTx, DMATxDescToSet) = Pos(NTx, txDma, m + 1)
  BY <1>1, <1>2, Round
<1>4. m = NTx => Dist(NTx, txDma, DMATxDescToSet) = 0
  BY <1>1, <1>2, Round
<1>5. tx[DMATxDescToSet].own <=> Dist(NTx, txDma, DMATxDescToSet) < m
  BY <1>1 DEF TxRun
<1>6. \A d \in 1 .. NTx : Pos(NTx, txDma, Dist(NTx, txDma, d)) = d
  BY <1>1, Round
<1> QED
  BY <1>1, <1>2, <1>3, <1>4, <1>5, <1>6, Nexts

(* The frame is copied: into a descriptor of the CPU, or it is an overrun. *)
LEMMA OutputInv ==
  ASSUME IInv, low_level_output
  PROVE  IInv'
<1> USE DEF IInv
<1> DEFINE s == DMATxDescToSet
<1>1. /\ sends' = sends + 1 /\ txFrame' = sends + 1 /\ txpc' = "check" /\ txpc = "idle"
      /\ tx' = [tx EXCEPT ![s].buf = sends + 1]
      /\ overrun' = (overrun \/ tx[s].own)
      /\ UNCHANGED <<rxVars, txDma, DMATxDescToSet, txState, wire, missed>>
  BY DEF low_level_output
<1>2. /\ s \in 1 .. NTx /\ txDma \in 1 .. NTx /\ NTx \in Nat \ {0} /\ sends \in Nat
      /\ tx \in [1 .. NTx -> [own : BOOLEAN, buf : 0 .. sends, len : 0 .. sends]]
      /\ wire \in Seq((0 .. sends) \X (0 .. sends)) /\ missed \in BOOLEAN /\ overrun \in BOOLEAN
  <2>1. missed \in BOOLEAN /\ overrun \in BOOLEAN
    BY Zenon DEF TypeOK
  <2>2. s \in 1 .. NTx /\ txDma \in 1 .. NTx
    BY DEF TypeOK
  <2>3. NTx \in Nat \ {0}
    BY Sizes
  <2> QED
    BY <2>1, <2>2, <2>3, Zenon DEF TypeOK
<1>3. /\ \A d \in 1 .. NTx : tx'[d].own = tx[d].own /\ tx'[d].len = tx[d].len
      /\ \A d \in 1 .. NTx : d # s => tx'[d] = tx[d]
      /\ tx'[s].buf = sends + 1
  BY <1>1, <1>2
<1>4. TypeOK'
  <2>1. tx' \in [1 .. NTx -> [own : BOOLEAN, buf : 0 .. sends', len : 0 .. sends']]
    <3> DEFINE T == [own : BOOLEAN, buf : 0 .. sends + 1, len : 0 .. sends + 1]
    <3>1. \A d \in 1 .. NTx : tx[d] \in T
      BY <1>2
    <3>2. [tx[s] EXCEPT !.buf = sends + 1] \in T
      BY <1>2, <3>1
    <3>3. tx' = [tx EXCEPT ![s] = [tx[s] EXCEPT !.buf = sends + 1]]
      BY <1>1
    <3> HIDE DEF T
    <3>4. tx' \in [1 .. NTx -> T]
      BY <1>2, <3>1, <3>2, <3>3
    <3> QED
      BY <1>1, <3>4 DEF T
  <2>2. wire' \in Seq((0 .. sends') \X (0 .. sends'))
    <3>1. (0 .. sends) \X (0 .. sends) \subseteq (0 .. sends') \X (0 .. sends')
      BY <1>1, <1>2
    <3> QED
      BY <1>1, <1>2, <3>1, SeqMonotonic
  <2>3. {overrun, missed}' \subseteq BOOLEAN
    BY <1>1, <1>2, Zenon
  <2>4. sends' \in Nat /\ txFrame' \in 0 .. sends' /\ txpc' \in {"idle", "check", "demand"}
    BY <1>1, <1>2
  <2> QED
    BY <1>1, <2>1, <2>2, <2>3, <2>4, Zenon DEF TypeOK, rxVars
<1>5. TxInv'
  <2>1. PICK m \in 0 .. NTx : TxRun(m) /\ TxFrames(m)
    BY DEF TxInv
  <2>2. TxRun(m)'
    BY <1>1, <1>3, <2>1 DEF TxRun
  <2>3. ~overrun' => ~overrun /\ ~tx[s].own
    BY <1>1, <1>2
  <2>4. SentInOrder'
    BY <1>1, <2>3 DEF TxInv, SentInOrder
  <2>5. First(m)' = First(m) /\ First(m) \in Int
    <3>1. First(m) = sends + 1 - m - 0
      BY <1>1 DEF First
    <3>2. First(m)' = (sends + 1) + 1 - m - 1
      BY <1>1 DEF First
    <3> QED
      BY <1>2, <3>1, <3>2
  <2>6. TxFrames(m)'
    <3>1. \A d \in 1 .. NTx : tx'[d].own =>
            /\ tx'[d].len = First(m) + Dist(NTx, txDma, d)
            /\ tx'[d].buf = IF d = s THEN sends + 1 ELSE tx'[d].len
      BY <1>1, <1>3, <2>1 DEF TxFrames
    <3>2. ~overrun' => First(m) = Len(wire) + 1 /\ ~tx'[s].own
      BY <1>2, <1>3, <2>1, <2>3 DEF TxFrames
    <3> QED
      BY <1>1, <1>3, <2>1, <2>5, <3>1, <3>2 DEF TxFrames
  <2> QED
    BY <2>2, <2>4, <2>6 DEF TxInv
<1> QED
  BY <1>1, <1>4, <1>5, RxStable

(* A reset starts the rings over.                                          *)
LEMMA ResetInv ==
  ASSUME IInv, Reset
  PROVE  IInv'
<1> USE DEF IInv
<1>1. /\ txpc = "check" /\ tx[DMATxDescToSet].own /\ txpc' = "idle"
      /\ tx' = NoTx /\ txDma' = 1 /\ DMATxDescToSet' = 1
      /\ txState' = "runs" /\ missed' = FALSE
      /\ rx' = NoRx /\ rxDma' = 1 /\ DMARxDescToGet' = 1
      /\ UNCHANGED <<Eth_Buff, frameds, came, input, txFrame, sends, wire, overrun>>
  BY DEF Reset
<1>2. overrun \in BOOLEAN
  BY Zenon DEF TypeOK
<1>3. TxInv'
  <2>1. Pos(NTx, 1, 0) = 1 /\ \A d \in 1 .. NTx : ~(Dist(NTx, 1, d) < 0)
    BY Sizes DEF Pos, Dist
  <2>2. \A d \in 1 .. NTx : ~tx'[d].own
    BY <1>1 DEF NoTx
  <2>3. TxRun(0)'
    BY <1>1, <2>1, <2>2 DEF TxRun
  <2>4. sends \in Nat /\ \A i \in DOMAIN wire : wire[i][2] \in 0 .. sends
    <3>1. wire \in Seq((0 .. sends) \X (0 .. sends)) /\ sends \in Nat
      BY DEF TypeOK
    <3>2. \A i \in DOMAIN wire : wire[i] \in (0 .. sends) \X (0 .. sends)
      BY <3>1, ElementOfSeq
    <3> QED
      BY <3>1, <3>2
  <2>5. overrun
    BY <1>1 DEF TxInv, TxFrames
  <2>6. First(0)' = sends + 1
    BY <1>1, <2>4 DEF First
  <2>7. TxFrames(0)'
    BY <1>1, <2>2, <2>4, <2>5, <2>6 DEF TxFrames
  <2>8. SentInOrder'
    BY <1>1 DEF TxInv, SentInOrder
  <2> QED
    BY <2>3, <2>7, <2>8, Sizes DEF TxInv
<1>4. /\ rx' \in [1 .. NRx -> [own : BOOLEAN, kind : Kinds \cup {"none"}, frame : 0 .. came']]
      /\ tx' \in [1 .. NTx -> [own : BOOLEAN, buf : 0 .. sends', len : 0 .. sends']]
      /\ \A d \in 1 .. NRx : rx'[d].own /\ rx'[d].kind = "none"
  BY <1>1, Sizes DEF NoRx, NoTx, FreeRx, TypeOK
<1>5. TypeOK'
  <2>1. {overrun, missed}' \subseteq BOOLEAN
    BY <1>1, <1>2, Zenon
  <2>2. {rxDma, DMARxDescToGet}' \subseteq 1 .. NRx /\ {txDma, DMATxDescToSet}' \subseteq 1 .. NTx
    BY <1>1, Sizes
  <2>3. txpc' \in {"idle", "check", "demand"}
    BY <1>1
  <2> QED
    BY <1>1, <1>4, <2>1, <2>2, <2>3, Zenon DEF TypeOK
<1>6. RxInv'
  <2>1. Pos(NRx, 1, 0) = 1 /\ \A d \in 1 .. NRx : 0 <= Dist(NRx, 1, d)
    BY Sizes DEF Pos, Dist
  <2>2. RxRun(0)'
    BY <1>1, <1>4, <2>1 DEF RxRun
  <2> QED
    BY <1>4, <2>2, Sizes DEF RxInv
<1>7. InputInv'
  <2> SUFFICES ASSUME NoFullFrames PROVE InputInv!2'
    BY DEF InputInv, NoFullFrames
  <2>1. InputInv!2
    BY DEF InputInv
  <2> QED
    BY <1>1, <1>4, <2>1 DEF ReceivedInOrder
<1> QED
  BY <1>3, <1>5, <1>6, <1>7

(* The descriptor is handed over: the run grows at its end.                *)
LEMMA ChainInv ==
  ASSUME IInv, ETH_TxPkt_ChainMode
  PROVE  IInv'
<1> USE DEF IInv
<1> DEFINE s == DMATxDescToSet
           D(d) == Dist(NTx, txDma, d)
<1>1. /\ txpc = "check" /\ ~tx[s].own /\ txpc' = "demand"
      /\ tx' = [tx EXCEPT ![s].own = TRUE, ![s].len = txFrame]
      /\ s' = NextTx(s)
      /\ UNCHANGED <<rxVars, txDma, txState, txFrame, sends, wire, overrun, missed>>
  BY DEF ETH_TxPkt_ChainMode, HandOver
<1>2. /\ s \in 1 .. NTx /\ txDma \in 1 .. NTx /\ sends \in Nat /\ txFrame \in 0 .. sends
      /\ NTx \in Nat \ {0}
  BY Sizes DEF TypeOK
<1>3. tx \in [1 .. NTx -> [own : BOOLEAN, buf : 0 .. sends, len : 0 .. sends]]
  BY DEF TypeOK
<1>4. /\ \A d \in 1 .. NTx : d # s => tx'[d] = tx[d]
      /\ tx'[s] = [own |-> TRUE, buf |-> tx[s].buf, len |-> txFrame]
  BY <1>1, <1>2, <1>3
<1>5. TypeOK'
  <2> DEFINE T == [own : BOOLEAN, buf : 0 .. sends, len : 0 .. sends]
  <2>1. tx[s] \in T /\ \A d \in 1 .. NTx : tx[d] \in T
    BY <1>2, <1>3
  <2>2. tx'[s] \in T
    BY <1>2, <1>4, <2>1
  <2>3. tx' = [d \in 1 .. NTx |-> tx'[d]]
    BY <1>1, <1>3
  <2> HIDE DEF T
  <2>4. tx' \in [1 .. NTx -> T]
    BY <1>4, <2>1, <2>2, <2>3
  <2>5. {txDma, DMATxDescToSet}' \subseteq 1 .. NTx
    BY <1>1, <1>2, Round, Nexts
  <2>6. txpc' \in {"idle", "check", "demand"}
    BY <1>1
  <2> QED
    BY <1>1, <2>4, <2>5, <2>6, Zenon DEF TypeOK, rxVars, T
<1>6. TxInv'
  <2>3. PICK m \in 0 .. NTx : TxRun(m) /\ TxFrames(m)
    BY DEF TxInv
  <2>4. /\ m < NTx /\ D(s) = m /\ s' = Pos(NTx, txDma, m + 1)
        /\ \A d \in 1 .. NTx : d # s => D(d) # m
    BY <1>1, <1>2, <2>3, AtCpu
  <2>5. \A d \in 1 .. NTx : D(d) \in 0 .. NTx - 1
    BY <1>2, Round
  <2>6. \A d \in 1 .. NTx : tx[d].own <=> D(d) < m
    BY <2>3 DEF TxRun
  <2>7. /\ tx[s].buf = sends /\ txFrame = sends /\ First(m) = sends - m
        /\ First(m + 1)' = First(m)
        /\ \A d \in 1 .. NTx : tx[d].own => tx[d].len = First(m) + D(d) /\ tx[d].buf = tx[d].len
    <3>1. First(m) = sends - m /\ First(m + 1)' = First(m)
      BY <1>1, <1>2 DEF First
    <3> QED
      BY <1>1, <2>3, <3>1 DEF TxFrames
  <2> HIDE DEF D
  <2>8. \A d \in 1 .. NTx : tx'[d].own <=> D(d) < m + 1
    BY <1>4, <2>4, <2>5, <2>6
  <2>9. TxRun(m + 1)' /\ m + 1 \in 0 .. NTx
    <3>1. m + 1 \in 0 .. NTx
      BY <1>2, <2>4
    <3>2. TxRun(m + 1)'
      BY <1>1, <2>4, <2>8 DEF TxRun, D
    <3> QED
      BY <3>1, <3>2
  <2>10. SentInOrder'
    BY <1>1 DEF TxInv, SentInOrder
  <2>11. TxFrames(m + 1)'
    <3>1. \A d \in 1 .. NTx : tx'[d].own => tx'[d].len = First(m) + D(d) /\ tx'[d].buf = tx'[d].len
      <4> SUFFICES ASSUME NEW d \in 1 .. NTx, tx'[d].own
                   PROVE  tx'[d].len = First(m) + D(d) /\ tx'[d].buf = tx'[d].len
        OBVIOUS
      <4>1. CASE d = s
        <5>1. tx'[s].buf = sends /\ tx'[s].len = sends
          BY <1>4, <2>7
        <5> QED
          BY <1>2, <2>4, <2>7, <4>1, <5>1
      <4>2. CASE d # s
        BY <1>4, <2>7, <4>2
      <4> QED
        BY <4>1, <4>2
    <3>2. \A i \in DOMAIN wire : wire[i][2] < First(m)
      BY <2>3 DEF TxFrames
    <3>3. ~overrun => First(m) = Len(wire) + 1
      BY <2>3 DEF TxFrames
    <3> QED
      BY <1>1, <2>7, <3>1, <3>2, <3>3 DEF TxFrames, D
  <2> QED
    BY <2>9, <2>10, <2>11 DEF TxInv
<1> QED
  BY <1>1, <1>5, <1>6, RxStable

(* The poll demand, and the DMA suspending itself.                         *)
LEMMA WakeInv ==
  ASSUME IInv, ResumeTransmission \/ DmaSuspends \/ DmaSleeps
  PROVE  IInv'
<1> USE DEF IInv
<1>1. /\ txpc' \in {"idle", "check", "demand"} /\ (txpc' = "check" <=> txpc = "check")
      /\ UNCHANGED <<rxVars, tx, txDma, DMATxDescToSet, txFrame, sends, wire, overrun>>
  BY DEF ResumeTransmission, DmaSuspends, DmaSleeps, TypeOK
<1>2. txState' \in {"runs", "suspends", "asleep"}
  BY DEF ResumeTransmission, PollDemand, DmaSuspends, DmaSleeps, TypeOK
<1>3. missed' \in BOOLEAN
  <2>1. missed \in BOOLEAN /\ \A d \in 1 .. NTx : tx[d].own \in BOOLEAN
    BY Zenon DEF TypeOK
  <2> QED
    BY <2>1, Zenon DEF ResumeTransmission, PollDemand, DmaSuspends, DmaSleeps
<1>4. TypeOK'
  BY <1>1, <1>2, <1>3, Zenon DEF TypeOK, rxVars
<1>5. TxInv'
  BY <1>1 DEF TxInv, TxRun, TxFrames, First, SentInOrder
<1> QED
  BY <1>1, <1>4, <1>5, RxStable

(* The DMA sends the first descriptor of its run and gives it back.        *)
LEMMA SendInv ==
  ASSUME IInv, DmaSends
  PROVE  IInv'
<1> USE DEF IInv
<1> DEFINE g == txDma
           D(d) == Dist(NTx, g, d)
           E(d) == Dist(NTx, g', d)
           w == <<tx[g].buf, tx[g].len>>
<1>1. /\ tx[g].own /\ wire' = Append(wire, w)
      /\ tx' = [tx EXCEPT ![g].own = FALSE]
      /\ g' = NextTx(g)
      /\ UNCHANGED <<rxVars, DMATxDescToSet, txState, txpc, txFrame, sends, overrun, missed>>
  BY DEF DmaSends
<1>2. /\ g \in 1 .. NTx /\ DMATxDescToSet \in 1 .. NTx /\ sends \in Nat
      /\ NTx \in Nat \ {0}
  BY Sizes DEF TypeOK
<1>3. tx \in [1 .. NTx -> [own : BOOLEAN, buf : 0 .. sends, len : 0 .. sends]]
  BY DEF TypeOK
<1>4. /\ \A d \in 1 .. NTx : d # g => tx'[d] = tx[d]
      /\ tx'[g] = [own |-> FALSE, buf |-> tx[g].buf, len |-> tx[g].len]
  BY <1>1, <1>2, <1>3
<1>5. wire \in Seq((0 .. sends) \X (0 .. sends)) /\ w \in (0 .. sends) \X (0 .. sends)
  BY <1>2, <1>3 DEF TypeOK
<1>6. /\ wire' \in Seq((0 .. sends) \X (0 .. sends))
      /\ \A i \in DOMAIN wire' :
           \/ i \in DOMAIN wire /\ wire'[i] = wire[i]
           \/ i \notin DOMAIN wire /\ wire'[i] = w /\ \A j \in DOMAIN wire' : j <= i
  <2> HIDE DEF w
  <2> QED
    BY <1>1, <1>5, Appended
<1>7. g' \in 1 .. NTx /\ g' = Succ(NTx, g) /\ D(g) = 0
  BY <1>1, <1>2, Round, Nexts
<1>8. TypeOK'
  <2> DEFINE T == [own : BOOLEAN, buf : 0 .. sends, len : 0 .. sends]
  <2>1. tx[g] \in T /\ \A d \in 1 .. NTx : tx[d] \in T
    BY <1>2, <1>3
  <2>2. tx'[g] \in T
    BY <1>2, <1>4, <2>1
  <2>3. tx' = [d \in 1 .. NTx |-> tx'[d]]
    BY <1>1, <1>3
  <2> HIDE DEF T
  <2>4. tx' \in [1 .. NTx -> T]
    BY <1>4, <2>1, <2>2, <2>3
  <2>5. {txDma, DMATxDescToSet}' \subseteq 1 .. NTx
    BY <1>1, <1>2, <1>7
  <2> QED
    BY <1>1, <1>6, <2>4, <2>5, Zenon DEF TypeOK, rxVars, T
<1>9. TxInv'
  <2>3. PICK m \in 0 .. NTx : TxRun(m) /\ TxFrames(m)
    BY DEF TxInv
  <2>4. \A d \in 1 .. NTx : D(d) \in 0 .. NTx - 1 /\ (D(d) = 0 => d = g)
    <3>1. \A d \in 1 .. NTx : D(d) \in 0 .. NTx - 1 /\ Pos(NTx, g, D(d)) = d
      BY <1>2, Round
    <3>2. Pos(NTx, g, 0) = g
      BY <1>2, Round
    <3> QED
      BY <3>1, <3>2
  <2>5. E(g) = NTx - 1 /\ \A d \in 1 .. NTx : d # g => E(d) = D(d) - 1
    BY <1>2, <1>7, RoundOn
  <2>6. \A d \in 1 .. NTx : tx[d].own <=> D(d) < m
    BY <2>3 DEF TxRun
  <2>7. m >= 1 /\ m - 1 \in 0 .. NTx
    BY <1>1, <1>2, <1>7, <2>6
  <2>8. DMATxDescToSet = Pos(NTx, g', m - 1)
    <3>1. \A i \in 1 .. NTx : Pos(NTx, g', i - 1) = Pos(NTx, g, i)
      BY <1>2, <1>7, RoundOn
    <3>2. DMATxDescToSet = Pos(NTx, g, m)
      BY <2>3 DEF TxRun
    <3> QED
      BY <1>2, <2>7, <3>1, <3>2
  <2>9. First(m) \in Int /\ First(m - 1)' = First(m) + 1
    BY <1>1, <1>2 DEF First
  <2>10. /\ tx[g].len = First(m)
         /\ tx[g].buf = IF txpc = "check" /\ g = DMATxDescToSet THEN sends ELSE tx[g].len
    BY <1>1, <1>2, <1>7, <2>3, <2>9 DEF TxFrames
  <2>11. tx[g].buf \in {tx[g].len, tx[g].len + NTx}
    <3>1. CASE txpc = "check" /\ g = DMATxDescToSet
      <4>1. m = NTx
        BY <1>1, <2>3, <3>1, AtCpu
      <4> QED
        BY <1>2, <2>10, <3>1, <4>1 DEF First
    <3> QED
      BY <2>10, <3>1
  <2> HIDE DEF D, E
  <2>12. \A d \in 1 .. NTx : tx'[d].own <=> E(d) < m - 1
    BY <1>2, <1>4, <2>4, <2>5, <2>6, <2>7
  <2>13. TxRun(m - 1)'
    BY <1>1, <2>8, <2>12 DEF TxRun, E
  <2>14. Len(wire) \in Nat /\ Len(wire') = Len(wire) + 1 /\ DOMAIN wire = 1 .. Len(wire)
         /\ DOMAIN wire' = 1 .. Len(wire) + 1
    BY <1>1, <1>5
  <2>15. \A i \in DOMAIN wire : wire[i][2] < First(m)
    BY <2>3 DEF TxFrames
  <2>16. w[1] = tx[g].buf /\ w[2] = First(m)
    BY <2>10
  <2>17. ~overrun => w = <<Len(wire) + 1, Len(wire) + 1>>
    BY <1>1, <2>3, <2>10 DEF TxFrames
  <2> HIDE DEF w
  <2>18. /\ wire'[Len(wire) + 1] = w
         /\ \A i \in 1 .. Len(wire) : wire'[i] = wire[i]
    BY <1>1, <1>5, <2>14
  <2>19. SentInOrder'
    <3>1. \A i, j \in DOMAIN wire' : i < j => wire'[i][2] < wire'[j][2]
      <4> SUFFICES ASSUME NEW i \in DOMAIN wire', NEW j \in DOMAIN wire', i < j
                   PROVE  wire'[i][2] < wire'[j][2]
        OBVIOUS
      <4>1. i \in 1 .. Len(wire) /\ wire'[i] = wire[i] /\ wire[i][2] < First(m)
        BY <2>14, <2>15, <2>18
      <4>2. CASE j \in 1 .. Len(wire)
        BY <2>14, <2>18, <4>1, <4>2 DEF TxInv, SentInOrder
      <4>3. CASE j = Len(wire) + 1
        BY <2>16, <2>18, <4>1, <4>3
      <4> QED
        BY <2>14, <4>2, <4>3
    <3>2. \A i \in DOMAIN wire' : wire'[i][1] \in {wire'[i][2], wire'[i][2] + NTx}
      <4> SUFFICES ASSUME NEW i \in DOMAIN wire'
                   PROVE  wire'[i][1] \in {wire'[i][2], wire'[i][2] + NTx}
        OBVIOUS
      <4>1. CASE i \in 1 .. Len(wire)
        BY <2>14, <2>18, <4>1 DEF TxInv, SentInOrder
      <4>2. CASE i = Len(wire) + 1
        BY <2>10, <2>11, <2>16, <2>18, <4>2
      <4> QED
        BY <2>14, <4>1, <4>2
    <3>3. ~overrun' => \A i \in DOMAIN wire' : wire'[i] = <<i, i>>
      <4> SUFFICES ASSUME ~overrun', NEW i \in DOMAIN wire' PROVE wire'[i] = <<i, i>>
        OBVIOUS
      <4>1. CASE i \in 1 .. Len(wire)
        BY <1>1, <2>14, <2>18, <4>1 DEF TxInv, SentInOrder
      <4>2. CASE i = Len(wire) + 1
        BY <1>1, <2>17, <2>18, <4>2
      <4> QED
        BY <2>14, <4>1, <4>2
    <3> QED
      BY <3>1, <3>2, <3>3 DEF SentInOrder
  <2>20. TxFrames(m - 1)'
    <3>1. \A d \in 1 .. NTx : tx'[d].own =>
            /\ tx'[d].len = First(m) + 1 + E(d)
            /\ tx'[d].buf = IF txpc = "check" /\ d = DMATxDescToSet THEN sends ELSE tx'[d].len
      <4> SUFFICES ASSUME NEW d \in 1 .. NTx, tx'[d].own
                   PROVE  /\ tx'[d].len = First(m) + 1 + E(d)
                          /\ tx'[d].buf = IF txpc = "check" /\ d = DMATxDescToSet
                                          THEN sends ELSE tx'[d].len
        OBVIOUS
      <4>1. d # g /\ tx[d].own /\ tx'[d] = tx[d]
        BY <1>4
      <4>2. /\ tx[d].len = First(m) + D(d)
            /\ tx[d].buf = IF txpc = "check" /\ d = DMATxDescToSet THEN sends ELSE tx[d].len
        BY <2>3, <4>1 DEF TxFrames, D
      <4>3. E(d) = D(d) - 1 /\ D(d) \in 0 .. NTx - 1
        BY <2>4, <2>5, <4>1
      <4> QED
        BY <1>2, <2>9, <4>1, <4>2, <4>3
    <3>2. txpc = "check" => tx'[DMATxDescToSet].buf = sends /\ txFrame = sends
      BY <1>2, <1>4, <2>3 DEF TxFrames
    <3>3. \A i \in DOMAIN wire' : wire'[i][2] < First(m) + 1
      <4> SUFFICES ASSUME NEW i \in DOMAIN wire' PROVE wire'[i][2] < First(m) + 1
        OBVIOUS
      <4>1. CASE i \in 1 .. Len(wire)
        <5>1. wire'[i][2] = wire[i][2] /\ wire[i] \in (0 .. sends) \X (0 .. sends)
          BY <1>5, <2>18, <4>1
        <5>2. wire[i][2] \in Int /\ wire[i][2] < First(m)
          BY <2>14, <2>15, <4>1, <5>1
        <5> QED
          BY <2>9, <5>1, <5>2
      <4>2. CASE i = Len(wire) + 1
        BY <2>9, <2>16, <2>18, <4>2
      <4> QED
        BY <2>14, <4>1, <4>2
    <3>4. ~overrun => /\ First(m) + 1 = Len(wire') + 1
                      /\ txpc = "check" => ~tx'[DMATxDescToSet].own
      BY <1>2, <1>4, <2>3, <2>9, <2>14 DEF TxFrames
    <3> QED
      BY <1>1, <2>9, <3>1, <3>2, <3>3, <3>4 DEF TxFrames, E
  <2> QED
    BY <2>7, <2>13, <2>19, <2>20 DEF TxInv
<1> QED
  BY <1>1, <1>8, <1>9, RxStable

-----------------------------------------------------------------------------
(* Every step of the driver and of the DMA keeps the invariant.            *)
LEMMA NextInv == IInv /\ [Next]_vars => IInv'
<1> SUFFICES ASSUME IInv, [Next]_vars PROVE IInv'
  OBVIOUS
<1>1. CASE UNCHANGED vars
  <2>1. TypeOK'
    BY <1>1, Zenon DEF IInv, TypeOK, vars, rxVars, txVars
  <2> QED
    BY <1>1, <2>1, TxStable, RxStable DEF IInv, vars
<1>2. CASE \E k \in Kinds : DmaReceives(k)
  BY <1>2, ReceiveInv
<1>3. CASE Dma
  BY <1>3, SendInv, WakeInv DEF Dma
<1>4. CASE Receive
  BY <1>4, ReadInv, HandleInv DEF Receive
<1>5. CASE low_level_output
  BY <1>5, OutputInv
<1>6. CASE Transmit
  BY <1>6, ResetInv, ChainInv, WakeInv DEF Transmit
<1> QED
  BY <1>1, <1>2, <1>3, <1>4, <1>5, <1>6 DEF Next

(* The invariant holds in every state the rings can be in.                 *)
THEOREM Invariant == Spec => []IInv
<1>1. IInv /\ [Next]_vars => IInv'
  BY NextInv
<1> QED
  BY InitInv, <1>1, PTL DEF Spec

(* CPU and DMA never use a receive descriptor at the same time, and every  *)
(* variable stays in its range: the descriptors of the CPU are a run that  *)
(* starts at DMARxDescToGet and ends where the DMA is.                     *)
THEOREM SpecRingSplit == Spec => []RingSplit
<1>1. IInv => RingSplit
  <2> SUFFICES ASSUME IInv PROVE RingSplit
    OBVIOUS
  <2> DEFINE g == DMARxDescToGet
             at(i) == ((g - 1 + i) % NRx) + 1
  <2>1. g \in 1 .. NRx /\ NRx \in Nat \ {0}
    BY Sizes DEF IInv, TypeOK
  <2>2. PICK n \in 0 .. NRx : RxRun(n)
    BY DEF IInv, RxInv
  <2>3. \A i \in 0 .. NRx : at(i) = Pos(NRx, g, i)
    <3> SUFFICES ASSUME NEW i \in 0 .. NRx PROVE at(i) = Pos(NRx, g, i)
      OBVIOUS
    <3>1. CASE g + i <= NRx
      <4>1. g - 1 + i \in 0 .. NRx - 1
        BY <2>1, <3>1
      <4>2. (g - 1 + i) % NRx = g - 1 + i
        BY <2>1, <4>1
      <4> QED
        BY <2>1, <3>1, <4>2 DEF Pos
    <3>2. CASE ~(g + i <= NRx)
      <4>1. g - 1 + i \in NRx .. 2 * NRx - 1
        BY <2>1, <3>2
      <4>2. (g - 1 + i) % NRx = g - 1 + i - NRx
        BY <2>1, <4>1
      <4> QED
        BY <2>1, <3>2, <4>2 DEF Pos
    <3> QED
      BY <3>1, <3>2
  <2>4. rxDma = at(n)
    BY <2>2, <2>3 DEF RxRun
  <2>5. \A i \in 0 .. NRx - 1 : rx[at(i)].own = (i >= n)
    <3> SUFFICES ASSUME NEW i \in 0 .. NRx - 1 PROVE rx[at(i)].own = (i >= n)
      OBVIOUS
    <3>1. at(i) = Pos(NRx, g, i)
      BY <2>1, <2>3
    <3>2. Pos(NRx, g, i) \in 1 .. NRx /\ Dist(NRx, g, Pos(NRx, g, i)) = i
      BY <2>1, Round
    <3>3. rx[at(i)].own \in BOOLEAN
      BY <3>1, <3>2 DEF IInv, TypeOK
    <3>4. rx[at(i)].own <=> n <= i
      BY <2>2, <3>1, <3>2 DEF RxRun
    <3> HIDE DEF at
    <3> QED
      BY <2>1, <3>3, <3>4
  <2> QED
    BY <2>4, <2>5 DEF IInv, RingSplit
<1> QED
  BY Invariant, <1>1, PTL

(* The wire sees the frames that low_level_output was given in order and   *)
(* none twice, each with its own bytes or those of the frame that overran  *)
(* it; and all of them as long as no send met a descriptor in use.         *)
THEOREM SpecSentInOrder == Spec => []SentInOrder
<1>1. IInv => SentInOrder
  BY DEF IInv, TxInv
<1> QED
  BY Invariant, <1>1, PTL

(* While no frame is larger than Eth_Buff, the stack gets the frames as    *)
(* they came, whatever resets and losses there are.                        *)
THEOREM SpecReceivedInOrder ==
  ASSUME NoFullFrames
  PROVE  Spec => []ReceivedInOrder
<1>1. IInv => ReceivedInOrder
  BY DEF IInv, InputInv
<1> QED
  BY Invariant, <1>1, PTL

=============================================================================
