------------------------- MODULE FlashConfigProofs -------------------------
(***************************************************************************)
(* No torn configuration, for all half-word values and inputs.  The        *)
(* invariant follows a write: while it runs the page is a prefix of what   *)
(* is written over an erased page, and until the low half of the channel   *)
(* word is there GetIpFromFlash takes it for empty; from then on address   *)
(* and port are complete.                                                  *)
(***************************************************************************)
EXTENDS FlashConfig, TLAPS

(* Facts about the values that the assumptions give.                       *)
LEMMA Values ==
  /\ {FFFF, AAAA, H5555, H0, DefPort, DefIp[1], DefIp[2]} \subseteq Half
  /\ H0 # FFFF
  /\ Index = 0 .. 7
  BY HalfAssumption, ValueAssumption DEF Index

(* The default has the type of a page and a channel.                       *)
LEMMA DefaultType ==
  ASSUME NEW w \in [Index -> Half]
  PROVE  /\ Default(w) \in [Index -> Half]
         /\ Default(w)[6] # FFFF
  BY Values DEF Default

(* StartWrite establishes the part of the invariant about the write.       *)
LEMMA StartWriteInv ==
  ASSUME TypeOK, NEW w \in [Index -> Half], NEW next \in {"boot", "jump",
           "run", "set"}, w[6] # FFFF, StartWrite(w, next)
  PROVE  /\ src' \in [Index -> Half] /\ n' \in 0 .. 8 /\ then' = next
         /\ pc' = "erase" /\ requests \subseteq requests'
         /\ Config(w) \in requests'
         /\ WriteInv'
  BY DEF StartWrite, WriteInv, Config, TypeOK

(* An invariant page stays one when only requests grows.                   *)
LEMMA PageInvStable ==
  ASSUME PageInv, UNCHANGED page, requests \subseteq requests'
  PROVE  PageInv'
  BY DEF PageInv, PageEmpty, EmptyWord, Config

(* The initial state.                                                      *)
LEMMA InitIndInv == Init => IndInv
<1> SUFFICES ASSUME Init PROVE IndInv
  OBVIOUS
<1>1. Erased \in [Index -> Half]
  BY Values DEF Erased
<1>2. Config(Default(Erased)) \in Half \X Half \X Half \X Half
  BY <1>1, DefaultType, Values DEF Config
<1>3. TypeOK
  <2>1. current \in Half \X Half \X Half \X Half
    BY <1>2 DEF Init
  <2>2. page \in [Index -> Half]
    BY <1>1 DEF Init
  <2>3. /\ buf \in [Index -> Half] /\ src \in [Index -> Half]
        /\ sever \in Half \X Half \X Half
    BY Values DEF Init
  <2>4. irq \in BOOLEAN /\ appOk \in BOOLEAN /\ lost \in BOOLEAN
    BY Zenon DEF Init
  <2>5. /\ prog \in {"iap", "app"} /\ n \in 0 .. 8
        /\ pc \in {"off", "get", "boot", "jump", "run", "erase", "program"}
        /\ then \in {"boot", "jump", "run", "set"}
    BY DEF Init
  <2> QED
    BY <2>1, <2>2, <2>3, <2>4, <2>5 DEF TypeOK
<1>4. PageInv
  BY Values DEF Init, PageInv, PageEmpty, EmptyWord, Erased
<1> QED
  BY <1>3, <1>4 DEF Init, IndInv, RamInv, WriteInv

(* GetIpFromFlash keeps the invariant wherever it is called from.          *)
LEMMA GetIndInv ==
  ASSUME IndInv, NEW next \in {"boot", "run"}, GetIpFromFlash(next),
         next = "run" => pc = "run"
  PROVE  IndInv'
<1> USE DEF IndInv
<1>1. CASE PageEmpty(page) /\ StartWrite(Default(page), next)
  <2> DEFINE w == Default(page)
  <2>1. w \in [Index -> Half] /\ w[6] # FFFF
    BY DefaultType DEF TypeOK
  <2>2. UNCHANGED <<page, buf, sever, irq, prog, appOk, current, lost>>
    BY <1>1 DEF GetIpFromFlash, ramVars
  <2> HIDE DEF w
  <2>3. /\ src' \in [Index -> Half] /\ n' \in 0 .. 8 /\ then' = next
        /\ pc' = "erase" /\ requests \subseteq requests'
        /\ Config(w) \in requests' /\ WriteInv'
    BY <1>1, <2>1, StartWriteInv DEF w
  <2>4. TypeOK'
    BY <2>2, <2>3 DEF TypeOK
  <2>5. PageInv'
    BY <2>2, <2>3, PageInvStable
  <2>6. RamInv'
    BY <2>2, <2>3 DEF RamInv
  <2> QED
    BY <2>3, <2>4, <2>5, <2>6
<1>2. CASE /\ ~PageEmpty(page) /\ buf' = page /\ irq' = TRUE /\ pc' = next
           /\ UNCHANGED <<page, sever, prog, appOk, wrVars, histVars>>
  <2>1. TypeOK'
    BY <1>2 DEF TypeOK, wrVars, histVars
  <2>2. PageInv'
    BY <1>2, PageInvStable DEF histVars
  <2>3. page[6] # FFFF
    BY <1>2 DEF PageInv, PageEmpty, EmptyWord
  <2>4. Config(buf') \in requests'
    BY <1>2 DEF PageInv, histVars
  <2>5. RamInv'
    BY <1>2, <2>3, <2>4 DEF RamInv, histVars, Config
  <2>6. WriteInv'
    BY <1>2 DEF WriteInv
  <2> QED
    BY <2>1, <2>2, <2>5, <2>6
<1> QED
  BY <1>1, <1>2 DEF GetIpFromFlash

(* IAP_EndSetFlash rewrites the configuration in RAM with another mode.    *)
LEMMA EndSetInv ==
  ASSUME IndInv, pc \in {"boot", "run"}, IAP_EndSetFlash,
         UNCHANGED page, sever' \in Half \X Half \X Half,
         UNCHANGED <<irq, prog, current, lost>>, appOk' \in BOOLEAN
  PROVE  IndInv'
<1> USE DEF IndInv
<1> DEFINE b == [buf EXCEPT ![4] = AAAA, ![5] = AAAA]
<1>1. b \in [Index -> Half] /\ b[6] = buf[6] /\ Config(b) = Config(buf)
  BY Values DEF TypeOK, Config
<1>2. buf' = b /\ StartWrite(b, "jump")
  BY DEF IAP_EndSetFlash
<1>3. b[6] # FFFF
  BY <1>1 DEF RamInv
<1> HIDE DEF b
<1>4. /\ src' \in [Index -> Half] /\ n' \in 0 .. 8 /\ then' = "jump"
      /\ pc' = "erase" /\ requests \subseteq requests'
      /\ Config(b) \in requests' /\ WriteInv'
  BY <1>1, <1>2, <1>3, StartWriteInv
<1>5. TypeOK'
  BY <1>1, <1>2, <1>4 DEF TypeOK
<1>6. PageInv'
  BY <1>4, PageInvStable
<1>7. Config(buf') \in requests' /\ buf'[6] # FFFF
  BY <1>2, <1>3, <1>4
<1>8. RamInv'
  BY <1>4, <1>7 DEF RamInv, Config
<1> QED
  BY <1>4, <1>5, <1>6, <1>8

(* A command that changes buf to b and writes it.                          *)
LEMMA SetInv ==
  ASSUME IndInv, NEW b \in [Index -> Half], b[6] # FFFF, WriteIpToFlash(b),
         \/ UNCHANGED sever
         \/ sever' = <<b[0], b[1], b[2]>>
  PROVE  IndInv'
<1> USE DEF IndInv
<1>1. /\ buf' = b /\ StartWrite(b, "set") /\ current' = Config(b)
      /\ pc = "run" /\ UNCHANGED <<page, irq, prog, appOk, lost>>
  BY DEF WriteIpToFlash
<1>2. /\ src' \in [Index -> Half] /\ n' \in 0 .. 8 /\ then' = "set"
      /\ pc' = "erase" /\ requests \subseteq requests'
      /\ Config(b) \in requests' /\ WriteInv'
  BY <1>1, StartWriteInv
<1>3. b[0] \in Half /\ b[1] \in Half /\ b[2] \in Half /\ b[6] \in Half
  BY DEF Index
<1>4. TypeOK'
  BY <1>1, <1>2, <1>3 DEF TypeOK, Config
<1>5. PageInv'
  BY <1>1, <1>2, PageInvStable
<1>6. \E c \in requests' : sever' = <<c[1], c[2], c[3]>>
  <2>1. CASE UNCHANGED sever
    BY <1>1, <1>2, <2>1 DEF RamInv
  <2>2. CASE sever' = <<b[0], b[1], b[2]>>
    <3>1. sever' = <<Config(b)[1], Config(b)[2], Config(b)[3]>>
      BY <2>2 DEF Config
    <3> QED
      BY <1>2, <3>1
  <2> QED
    BY <2>1, <2>2
<1>7. Config(buf') \in requests' /\ buf'[6] # FFFF
  BY <1>1, <1>2
<1>8. RamInv'
  BY <1>2, <1>6, <1>7 DEF RamInv, Config
<1> QED
  BY <1>2, <1>4, <1>5, <1>8

(* Steps of a write.                                                       *)
LEMMA WriteIndInv == IndInv /\ Write => IndInv'
<1> SUFFICES ASSUME IndInv, Write PROVE IndInv'
  OBVIOUS
<1> USE DEF IndInv
<1>1. CASE FLASH_ErasePage
  <2>1. TypeOK'
    BY <1>1, Values DEF TypeOK, FLASH_ErasePage, Erased, ramVars, wrVars,
                        histVars
  <2>2. PageInv'
    BY <1>1, Values DEF PageInv, PageEmpty, EmptyWord, FLASH_ErasePage, Erased
  <2>3. RamInv'
    BY <1>1 DEF RamInv, FLASH_ErasePage, ramVars, wrVars, histVars, Config
  <2>4. WriteInv'
    <3>1. n = 0
      BY <1>1 DEF FLASH_ErasePage, WriteInv
    <3> QED
      BY <1>1, <3>1, Values DEF WriteInv, FLASH_ErasePage, Erased, wrVars,
                          histVars, Config
  <2> QED
    BY <2>1, <2>2, <2>3, <2>4
<1>2. CASE FLASH_ProgramWord
  <2>1. /\ pc = "program" /\ n \in 0 .. 7 /\ n' = n + 1
        /\ page' = [page EXCEPT ![n] = src[n]]
        /\ UNCHANGED <<buf, sever, irq, prog, appOk, pc, src, then, requests,
                       current, lost>>
    BY <1>2 DEF FLASH_ProgramWord, HalfAt, TypeOK, ramVars, histVars
  <2>2. TypeOK'
    BY <2>1, Values DEF TypeOK
  <2>3. WriteInv'
    BY <2>1, Values DEF WriteInv, TypeOK, Config
  <2>4. \A k \in 0 .. 7 : page'[k] = IF k < n' THEN src[k] ELSE FFFF
    BY <2>1, <2>3, Values DEF WriteInv
  <2>5. PageInv'
    <3>1. CASE n' <= 6
      <4>1. page'[6] = FFFF /\ page'[7] = FFFF
        BY <2>1, <2>4, <3>1 DEF TypeOK
      <4> QED
        BY <4>1 DEF PageInv, PageEmpty, EmptyWord
    <3>2. CASE n' \in {7, 8}
      <4>1. /\ page'[0] = src[0] /\ page'[1] = src[1]
            /\ page'[2] = src[2] /\ page'[6] = src[6]
        BY <2>1, <2>4, <3>2 DEF TypeOK
      <4>2. Config(src) \in requests' /\ src[6] # FFFF
        BY <2>1 DEF WriteInv
      <4> QED
        BY <4>1, <4>2 DEF PageInv, Config
    <3> QED
      BY <2>1, <3>1, <3>2
  <2>6. RamInv'
    BY <2>1 DEF RamInv, Config
  <2> QED
    BY <2>2, <2>3, <2>5, <2>6
<1>3. CASE FLASH_If_DataFlashWrite \/ FlashError
  <2>1. /\ pc \in {"erase", "program"} /\ lost' \in BOOLEAN /\ irq' \in BOOLEAN
        /\ pc' = IF then = "set" THEN "run" ELSE then
        /\ buf' = IF then \in {"boot", "run"} THEN src ELSE buf
        /\ UNCHANGED <<page, sever, prog, appOk, src, n, then, requests,
                       current>>
    BY <1>3 DEF FLASH_If_DataFlashWrite, FlashError, WriteReturns, wrVars,
                TypeOK
  <2>2. TypeOK'
    BY <2>1 DEF TypeOK
  <2>3. PageInv'
    BY <2>1, PageInvStable
  <2>4. RamInv'
    BY <2>1 DEF RamInv, WriteInv, TypeOK, Config
  <2>5. WriteInv'
    BY <2>1 DEF WriteInv, TypeOK
  <2> QED
    BY <2>2, <2>3, <2>4, <2>5
<1> QED
  BY <1>1, <1>2, <1>3 DEF Write

(* Power failures: every word of a page being erased is old or empty.      *)
LEMMA PowerOffIndInv == IndInv /\ PowerOff => IndInv'
<1> SUFFICES ASSUME IndInv, PowerOff PROVE IndInv'
  OBVIOUS
<1> USE DEF IndInv
<1>1. /\ pc' = "off" /\ lost' \in BOOLEAN
      /\ UNCHANGED <<buf, sever, irq, prog, appOk, src, n, then, requests,
                     current>>
  BY DEF PowerOff, ramVars, wrVars, TypeOK
<1>2. TypeOK' /\ PageInv'
  <2>1. CASE UNCHANGED page
    BY <1>1, <2>1, PageInvStable DEF TypeOK
  <2>2. ASSUME NEW S \in SUBSET (0 .. 3),
               page' = [k \in Index |-> IF k \div 2 \in S THEN FFFF
                                        ELSE page[k]]
        PROVE  TypeOK' /\ PageInv'
    <3>1. TypeOK'
      BY <1>1, <2>2, Values DEF TypeOK
    <3>2. /\ page'[0] = IF 0 \in S THEN FFFF ELSE page[0]
          /\ page'[1] = IF 0 \in S THEN FFFF ELSE page[1]
          /\ page'[2] = IF 1 \in S THEN FFFF ELSE page[2]
          /\ page'[3] = IF 1 \in S THEN FFFF ELSE page[3]
          /\ page'[6] = IF 3 \in S THEN FFFF ELSE page[6]
          /\ page'[7] = IF 3 \in S THEN FFFF ELSE page[7]
      BY <2>2, Values
    <3>3. PageInv'
      BY <1>1, <3>2 DEF PageInv, PageEmpty, EmptyWord, Config
    <3> QED
      BY <3>1, <3>3
  <2> QED
    BY <2>1, <2>2 DEF PowerOff
<1>3. RamInv' /\ WriteInv'
  BY <1>1 DEF RamInv, WriteInv
<1> QED
  BY <1>2, <1>3

(* Boot.                                                                   *)
LEMMA BootIndInv == IndInv /\ Boot => IndInv'
<1> SUFFICES ASSUME IndInv, Boot PROVE IndInv'
  OBVIOUS
<1> USE DEF IndInv
<1>1. CASE PowerOn \/ Jump_To_Application
  <2>1. /\ pc' = "get" /\ prog' \in {"iap", "app"} /\ irq' \in BOOLEAN
        /\ UNCHANGED <<page, buf, sever, appOk, src, n, then, requests,
                       current, lost>>
    BY <1>1 DEF PowerOn, Jump_To_Application, ramVars, wrVars, histVars, TypeOK
  <2>2. PageInv'
    BY <2>1, PageInvStable
  <2> QED
    BY <2>1, <2>2 DEF TypeOK, RamInv, WriteInv
<1>2. CASE BootRead
  BY <1>2, GetIndInv DEF BootRead
<1>3. CASE BootJump
  <2>1. <<buf[0], buf[1], buf[2]>> \in Half \X Half \X Half
    BY Values DEF TypeOK
  <2> QED
    BY <1>3, <2>1, EndSetInv DEF BootJump, TypeOK
<1>4. CASE BootStay
  <2>1. /\ sever' = <<buf[0], buf[1], buf[2]>> /\ irq' = TRUE
        /\ pc = "boot" /\ pc' = "run"
        /\ UNCHANGED <<page, buf, prog, appOk, src, n, then, requests,
                       current, lost>>
    BY <1>4 DEF BootStay, wrVars, histVars
  <2>2. Config(buf) \in requests /\ buf[6] # FFFF
    BY <2>1 DEF RamInv
  <2>3. TypeOK'
    BY <2>1, Values DEF TypeOK
  <2>4. PageInv'
    BY <2>1, PageInvStable
  <2>5. \E c \in requests' : sever' = <<c[1], c[2], c[3]>>
    <3>1. Config(buf) \in requests'
      BY <2>1, <2>2
    <3> WITNESS Config(buf) \in requests'
    <3> QED
      BY <2>1 DEF Config
  <2>6. RamInv'
    BY <2>1, <2>2, <2>5 DEF RamInv, Config
  <2> QED
    BY <2>1, <2>3, <2>4, <2>6 DEF WriteInv
<1> QED
  BY <1>1, <1>2, <1>3, <1>4 DEF Boot

(* Commands.                                                               *)
LEMMA CommandIndInv == IndInv /\ Command => IndInv'
<1> SUFFICES ASSUME IndInv, Command PROVE IndInv'
  OBVIOUS
<1> USE DEF IndInv
<1>0. ASSUME pc = "run" PROVE buf[6] # FFFF
  BY <1>0 DEF RamInv
<1>1. ASSUME NEW ip \in Ips, NEW port \in Ports, setconfig(ip, port)
      PROVE  IndInv'
  <2> DEFINE b == [buf EXCEPT ![0] = ip[1], ![1] = ip[2], ![2] = port,
                              ![3] = H0]
  <2>1. ip[1] \in Half /\ ip[2] \in Half /\ port \in Half
    BY HalfAssumption
  <2>2. b \in [Index -> Half] /\ b[6] = buf[6]
    BY <2>1, Values DEF TypeOK
  <2>3. b[0] = ip[1] /\ b[1] = ip[2] /\ b[2] = port
    BY Values DEF TypeOK
  <2>4. WriteIpToFlash(b) /\ sever' = <<ip[1], ip[2], port>>
    BY <1>1 DEF setconfig
  <2>5. b[6] # FFFF
    BY <1>0, <2>2, <2>4 DEF WriteIpToFlash
  <2> HIDE DEF b
  <2> QED
    BY <2>2, <2>3, <2>4, <2>5, SetInv
<1>2. ASSUME NEW c \in Channels, setchl(c) PROVE IndInv'
  <2> DEFINE b == [buf EXCEPT ![6] = c, ![7] = H0]
  <2>1. b \in [Index -> Half] /\ b[6] # FFFF
    BY HalfAssumption, ValueAssumption, Values DEF TypeOK
  <2>2. WriteIpToFlash(b) /\ UNCHANGED sever
    BY <1>2 DEF setchl
  <2> HIDE DEF b
  <2> QED
    BY <2>1, <2>2, SetInv
<1>3. ASSUME NEW m \in {AAAA, H5555}, setmode(m) PROVE IndInv'
  <2> DEFINE b == [buf EXCEPT ![4] = m, ![5] = m]
  <2>1. b \in [Index -> Half] /\ b[6] = buf[6]
    BY Values DEF TypeOK
  <2>2. WriteIpToFlash(b) /\ UNCHANGED sever
    BY <1>3 DEF setmode
  <2>3. b[6] # FFFF
    BY <1>0, <2>1, <2>2 DEF WriteIpToFlash
  <2> HIDE DEF b
  <2> QED
    BY <2>1, <2>2, <2>3, SetInv
<1>4. CASE getconfig
  BY <1>4, GetIndInv DEF getconfig
<1>5. CASE TftpBegin
  <2>1. /\ appOk' = FALSE
        /\ UNCHANGED <<page, buf, sever, irq, prog, pc, src, n, then,
                       requests, current, lost>>
    BY <1>5 DEF TftpBegin, ramVars, wrVars, histVars
  <2> QED
    BY <2>1, PageInvStable DEF TypeOK, RamInv, WriteInv, Config
<1>6. CASE TftpEnd
  BY <1>6, EndSetInv DEF TftpEnd, TypeOK
<1> QED
  BY <1>1, <1>2, <1>3, <1>4, <1>5, <1>6 DEF Command

(* Every step.                                                             *)
LEMMA NextIndInv == IndInv /\ [Next]_vars => IndInv'
<1> SUFFICES ASSUME IndInv, [Next]_vars PROVE IndInv'
  OBVIOUS
<1>1. CASE UNCHANGED vars \/ ExitCriticalSection
  <2>1. /\ irq' \in BOOLEAN
        /\ UNCHANGED <<page, buf, sever, prog, appOk, pc, src, n, then,
                       requests, current, lost>>
    BY <1>1 DEF vars, ExitCriticalSection, ramVars, wrVars, histVars,
                IndInv, TypeOK
  <2> QED
    BY <2>1, PageInvStable DEF IndInv, TypeOK, RamInv, WriteInv, Config
<1> QED
  BY <1>1, BootIndInv, WriteIndInv, CommandIndInv, PowerOffIndInv DEF Next

(* IndInv is an invariant of the configuration page and its users.         *)
THEOREM SpecIndInv == Spec => []IndInv
BY NextIndInv, InitIndInv, PTL DEF Spec

(* A running gateway never uses a torn configuration.                      *)
THEOREM SpecNoTornConfig == Spec => []NoTornConfig
<1>1. IndInv => NoTornConfig
  BY DEF IndInv, RamInv, NoTornConfig
<1> QED
  BY <1>1, SpecIndInv, PTL

-----------------------------------------------------------------------------
(* What ConfigDurable needs on top.                                        *)

InRam == \/ pc \in {"boot", "run", "jump"}
         \/ pc \in {"erase", "program"} /\ then \in {"set", "jump"}

(* The high half of the port word is never FFFF where a configuration is   *)
(* complete: a port that was written never makes the page look empty.      *)
PortInv ==
  /\ ~PageEmpty(page) => page[3] # FFFF
  /\ pc \in {"erase", "program"} => src[3] # FFFF
  /\ InRam => buf[3] # FFFF

(* The page holds what was set last, or is empty and that is the default.  *)
Stored ==
  \/ ~PageEmpty(page) /\ Config(page) = current
  \/ PageEmpty(page) /\ current = Config(Default(page))

Settled == ~lost /\ <<current[1], current[2]>> # <<FFFF, FFFF>>

(* Outside a write the page holds the configuration set last; a write      *)
(* writes it; a command that writes makes good for an earlier lost write.  *)
DurableInv ==
  /\ Settled /\ pc \notin {"erase", "program"} => Stored
  /\ Settled /\ InRam => Config(buf) = current
  /\ Settled /\ pc \in {"erase", "program"} => Config(src) = current
  /\ pc \in {"erase", "program"} /\ then = "set" =>
       Config(src) = current /\ Config(buf) = current

DurableIndInv == IndInv /\ PortInv /\ DurableInv

(* The initial state: the default has yet to be written.                   *)
LEMMA InitDurable == Init => PortInv /\ DurableInv
<1> SUFFICES ASSUME Init PROVE PortInv /\ DurableInv
  OBVIOUS
<1>1. PageEmpty(page) /\ pc = "off"
  BY Values DEF Init, PageEmpty, EmptyWord, Erased
<1>2. current = Config(Default(page))
  BY DEF Init
<1> QED
  BY <1>1, <1>2 DEF PortInv, DurableInv, InRam, Stored

(* The default has a port.                                                 *)
LEMMA DefaultPort ==
  ASSUME NEW w \in [Index -> Half]
  PROVE  Default(w)[3] # FFFF
  BY Values DEF Default

(* GetIpFromFlash reads what is stored, or writes the default when that is *)
(* what is stored.                                                         *)
LEMMA GetDurable ==
  ASSUME DurableIndInv, NEW next \in {"boot", "run"}, GetIpFromFlash(next),
         pc \in {"get", "run"}
  PROVE  PortInv' /\ DurableInv'
<1> USE DEF DurableIndInv
<1>1. CASE PageEmpty(page) /\ StartWrite(Default(page), next)
           /\ UNCHANGED <<page, ramVars, irq, prog, appOk, current, lost>>
  <2>1. /\ src' = Default(page) /\ then' = next /\ pc' = "erase"
        /\ UNCHANGED <<page, buf, current, lost>>
    BY <1>1 DEF StartWrite, ramVars
  <2>2. PageEmpty(page)' /\ ~InRam'
    BY <1>1, <2>1 DEF InRam, PageEmpty, EmptyWord
  <2>3. src'[3] # FFFF
    BY <2>1, DefaultPort DEF IndInv, TypeOK
  <2>4. Settled' => Config(src') = current'
    BY <1>1, <2>1 DEF Settled, DurableInv, Stored
  <2>5. PortInv'
    BY <2>2, <2>3 DEF PortInv
  <2>6. DurableInv'
    BY <2>1, <2>2, <2>4 DEF DurableInv, Config
  <2> QED
    BY <2>5, <2>6
<1>2. CASE /\ ~PageEmpty(page) /\ buf' = page /\ irq' = TRUE /\ pc' = next
           /\ UNCHANGED <<page, sever, prog, appOk, wrVars, histVars>>
  <2>1. UNCHANGED <<page, current, lost, src, then>>
    BY <1>2 DEF wrVars, histVars
  <2>2. ~PageEmpty(page)' /\ page[3] # FFFF
    BY <1>2, <2>1 DEF PageEmpty, EmptyWord, PortInv
  <2>3. Settled' => Config(page) = current
    BY <1>2, <2>1 DEF Settled, DurableInv, Stored
  <2>4. PortInv'
    BY <1>2, <2>1, <2>2 DEF PortInv
  <2>5. Settled' => Stored' /\ Config(buf)' = current'
    BY <1>2, <2>1, <2>2, <2>3 DEF Stored, Config
  <2> QED
    BY <1>2, <2>4, <2>5 DEF DurableInv
<1> QED
  BY <1>1, <1>2 DEF GetIpFromFlash

(* A write of the configuration in RAM, changed by a command or not.       *)
LEMMA StartDurable ==
  ASSUME DurableIndInv, NEW b \in [Index -> Half], b[3] # FFFF, pc \in {"boot", "run"},
         NEW next \in {"set", "jump"}, buf' = b, StartWrite(b, next),
         UNCHANGED <<page, lost>>,
         \/ next = "set" /\ current' = Config(b)
         \/ Config(b) = Config(buf) /\ next = "jump" /\ UNCHANGED current
  PROVE  PortInv' /\ DurableInv'
<1> USE DEF DurableIndInv
<1>1. src' = b /\ then' = next /\ pc' = "erase"
  BY DEF StartWrite
<1>2. PortInv'
  BY <1>1 DEF PortInv, PageEmpty, EmptyWord
<1>3. Settled' => Config(b) = current'
  BY DEF Settled, DurableInv, InRam
<1>4. Config(src)' = Config(b) /\ Config(buf)' = Config(b)
  BY <1>1 DEF Config
<1> QED
  BY <1>1, <1>2, <1>3, <1>4 DEF DurableInv

(* Steps of a write.                                                       *)
LEMMA WriteDurable == DurableIndInv /\ Write => PortInv' /\ DurableInv'
<1> SUFFICES ASSUME DurableIndInv, Write PROVE PortInv' /\ DurableInv'
  OBVIOUS
<1> USE DEF DurableIndInv
<1>1. CASE FLASH_ErasePage
  <2>1. /\ pc = "erase" /\ pc' = "program" /\ page' = Erased
        /\ UNCHANGED <<buf, src, then, current, lost>>
    BY <1>1 DEF FLASH_ErasePage, ramVars, wrVars, histVars
  <2>2. PageEmpty(page)'
    BY <2>1, Values DEF PageEmpty, EmptyWord, Erased
  <2>3. PortInv'
    BY <2>1, <2>2 DEF PortInv, InRam
  <2>4. DurableInv'
    BY <2>1 DEF DurableInv, InRam, Settled, Config
  <2> QED
    BY <2>3, <2>4
<1>2. CASE FLASH_ProgramWord
  <2>1. /\ pc = "program" /\ n \in 0 .. 7 /\ n' = n + 1
        /\ UNCHANGED <<buf, pc, src, then, current, lost>>
    BY <1>2 DEF FLASH_ProgramWord, IndInv, TypeOK, ramVars, histVars
  <2>2. IndInv'
    BY WriteIndInv
  <2>3. \A k \in 0 .. 7 : page'[k] = IF k < n' THEN src[k] ELSE FFFF
    BY <2>1, <2>2, Values DEF IndInv, WriteInv
  <2>4. ~PageEmpty(page)' => page'[3] # FFFF
    <3>1. CASE n' <= 6
      BY <2>1, <2>3, <3>1 DEF PageEmpty, EmptyWord
    <3>2. CASE n' > 6
      BY <2>1, <2>3, <3>2 DEF PortInv
    <3> QED
      BY <2>1, <3>1, <3>2
  <2>5. PortInv'
    BY <2>1, <2>4 DEF PortInv, InRam
  <2>6. DurableInv'
    BY <2>1 DEF DurableInv, InRam, Settled, Config
  <2> QED
    BY <2>5, <2>6
<1>3. CASE FLASH_If_DataFlashWrite
  <2>1. /\ pc = "program" /\ n = 8 /\ lost' = (lost /\ then # "set")
        /\ pc' = IF then = "set" THEN "run" ELSE then
        /\ buf' = IF then \in {"boot", "run"} THEN src ELSE buf
        /\ UNCHANGED <<page, src, then, current>>
    BY <1>3 DEF FLASH_If_DataFlashWrite, WriteReturns, wrVars
  <2>2. then \in {"boot", "jump", "run", "set"} /\ pc' \in {"boot", "jump", "run"}
    BY <2>1 DEF IndInv, TypeOK
  <2>3. \A k \in 0 .. 7 : page[k] = src[k]
    BY <2>1, Values DEF IndInv, WriteInv
  <2>4. src[3] # FFFF /\ src[6] # FFFF /\ buf'[3] # FFFF
    BY <2>1, <2>2 DEF IndInv, WriteInv, PortInv, InRam
  <2>5. PortInv'
    BY <2>1, <2>2, <2>3, <2>4 DEF PortInv
  <2>6. ASSUME Settled' PROVE Config(src) = current /\ Config(buf)' = current
    <3>1. CASE then = "set"
      BY <2>1, <3>1 DEF DurableInv, Config
    <3>2. CASE then # "set"
      <4>1. Settled
        BY <2>1, <2>6, <3>2 DEF Settled
      <4> QED
        BY <2>1, <2>2, <3>2, <4>1 DEF DurableInv, InRam, Config
    <3> QED
      BY <3>1, <3>2
  <2>7. ASSUME Settled' PROVE Stored'
    <3>1. Config(page) = Config(src)
      BY <2>3 DEF Config
    <3>2. Config(page)' = current'
      BY <2>1, <2>6, <2>7, <3>1 DEF Config
    <3>3. <<page[0], page[1]>> # <<FFFF, FFFF>>
      BY <2>1, <2>7, <3>2 DEF Settled, Config
    <3>4. ~PageEmpty(page)
      BY <2>3, <2>4, <3>3 DEF PageEmpty, EmptyWord
    <3> QED
      BY <2>1, <3>2, <3>4 DEF Stored, PageEmpty, EmptyWord
  <2>8. DurableInv'
    BY <2>1, <2>2, <2>6, <2>7 DEF DurableInv
  <2> QED
    BY <2>5, <2>8
<1>4. CASE FlashError
  <2>1. /\ pc \in {"erase", "program"} /\ lost' = TRUE
        /\ pc' = IF then = "set" THEN "run" ELSE then
        /\ buf' = IF then \in {"boot", "run"} THEN src ELSE buf
        /\ UNCHANGED <<page, src, then, current>>
    BY <1>4 DEF FlashError, WriteReturns, wrVars
  <2>2. then \in {"boot", "jump", "run", "set"} /\ pc' \in {"boot", "jump", "run"}
    BY <2>1 DEF IndInv, TypeOK
  <2>3. PortInv'
    BY <2>1, <2>2 DEF PortInv, InRam, PageEmpty, EmptyWord
  <2>4. DurableInv'
    BY <2>1, <2>2 DEF DurableInv, Settled
  <2> QED
    BY <2>3, <2>4
<1> QED
  BY <1>1, <1>2, <1>3, <1>4 DEF Write

(* Power failures.                                                         *)
LEMMA PowerOffDurable == DurableIndInv /\ PowerOff => PortInv' /\ DurableInv'
<1> SUFFICES ASSUME DurableIndInv, PowerOff PROVE PortInv' /\ DurableInv'
  OBVIOUS
<1> USE DEF DurableIndInv
<1>1. /\ pc' = "off" /\ UNCHANGED current
      /\ lost' = (lost \/ pc \in {"erase", "program"})
  BY DEF PowerOff
<1>2. ~InRam'
  BY <1>1 DEF InRam
<1>3. CASE UNCHANGED page
  <2>1. PortInv'
    BY <1>1, <1>2, <1>3 DEF PortInv, PageEmpty, EmptyWord
  <2>2. Settled' => Settled /\ pc \notin {"erase", "program"}
    BY <1>1 DEF Settled
  <2>3. Settled' => Stored'
    BY <1>1, <1>3, <2>2 DEF DurableInv, Stored, PageEmpty, EmptyWord, Config, Default
  <2> QED
    BY <1>1, <1>2, <2>1, <2>3 DEF DurableInv
<1>4. ASSUME pc = "erase", NEW S \in SUBSET (0 .. 3),
             page' = [k \in Index |-> IF k \div 2 \in S THEN FFFF ELSE page[k]]
      PROVE  PortInv' /\ DurableInv'
  <2>1. /\ page'[0] = IF 0 \in S THEN FFFF ELSE page[0]
        /\ page'[1] = IF 0 \in S THEN FFFF ELSE page[1]
        /\ page'[2] = IF 1 \in S THEN FFFF ELSE page[2]
        /\ page'[3] = IF 1 \in S THEN FFFF ELSE page[3]
        /\ page'[6] = IF 3 \in S THEN FFFF ELSE page[6]
        /\ page'[7] = IF 3 \in S THEN FFFF ELSE page[7]
    BY <1>4, Values
  <2>2. PortInv'
    BY <1>1, <1>2, <2>1 DEF PortInv, PageEmpty, EmptyWord
  <2> QED
    BY <1>1, <1>2, <1>4, <2>2 DEF DurableInv, Settled
<1> QED
  BY <1>3, <1>4 DEF PowerOff

(* Steps that leave the configuration alone.                               *)
LEMMA StutterDurable ==
  ASSUME DurableIndInv, UNCHANGED <<page, buf, src, then, current, lost>>,
         \/ UNCHANGED pc
         \/ pc \in {"off", "jump"} /\ pc' = "get"
         \/ pc = "boot" /\ pc' = "run"
  PROVE  PortInv' /\ DurableInv'
<1> USE DEF DurableIndInv
<1>1. InRam' => InRam
  BY DEF InRam
<1>2. PortInv'
  BY <1>1 DEF PortInv, PageEmpty, EmptyWord
<1>3. Stored => Stored'
  BY DEF Stored, PageEmpty, EmptyWord, Config, Default
<1>4. Settled' => Settled
  BY DEF Settled
<1> QED
  BY <1>1, <1>2, <1>3, <1>4 DEF DurableInv, Config

(* IAP_EndSetFlash changes the mode only.                                  *)
LEMMA EndSetDurable ==
  ASSUME DurableIndInv, pc \in {"boot", "run"}, IAP_EndSetFlash,
         UNCHANGED <<page, current, lost>>
  PROVE  PortInv' /\ DurableInv'
<1> DEFINE b == [buf EXCEPT ![4] = AAAA, ![5] = AAAA]
<1>1. b \in [Index -> Half] /\ b[3] = buf[3] /\ Config(b) = Config(buf)
  BY Values DEF DurableIndInv, IndInv, TypeOK, Config
<1>2. buf' = b /\ StartWrite(b, "jump")
  BY DEF IAP_EndSetFlash
<1>3. b[3] # FFFF
  BY <1>1 DEF DurableIndInv, PortInv, InRam
<1> HIDE DEF b
<1> QED
  BY <1>1, <1>2, <1>3, StartDurable

(* Commands.                                                               *)
LEMMA CommandDurable == DurableIndInv /\ Command => PortInv' /\ DurableInv'
<1> SUFFICES ASSUME DurableIndInv, Command PROVE PortInv' /\ DurableInv'
  OBVIOUS
<1>1. ASSUME NEW b \in [Index -> Half], b[3] # FFFF, WriteIpToFlash(b)
      PROVE  PortInv' /\ DurableInv'
  BY <1>1, StartDurable DEF WriteIpToFlash
<1>2. buf \in [Index -> Half] /\ (pc = "run" => buf[3] # FFFF)
  BY DEF DurableIndInv, IndInv, TypeOK, PortInv, InRam
<1>3. ASSUME NEW ip \in Ips, NEW port \in Ports, setconfig(ip, port)
      PROVE  PortInv' /\ DurableInv'
  <2> DEFINE b == [buf EXCEPT ![0] = ip[1], ![1] = ip[2], ![2] = port, ![3] = H0]
  <2>1. ip[1] \in Half /\ ip[2] \in Half /\ port \in Half
    BY HalfAssumption
  <2>2. b \in [Index -> Half] /\ b[3] # FFFF
    BY <1>2, <2>1, Values
  <2>3. WriteIpToFlash(b)
    BY <1>3 DEF setconfig
  <2> HIDE DEF b
  <2> QED
    BY <1>1, <2>2, <2>3
<1>4. ASSUME NEW c \in Channels, setchl(c) PROVE PortInv' /\ DurableInv'
  <2> DEFINE b == [buf EXCEPT ![6] = c, ![7] = H0]
  <2>1. b \in [Index -> Half] /\ b[3] = buf[3]
    BY <1>2, HalfAssumption, Values
  <2>2. WriteIpToFlash(b)
    BY <1>4 DEF setchl
  <2>3. b[3] # FFFF
    BY <1>2, <2>1, <2>2 DEF WriteIpToFlash
  <2> HIDE DEF b
  <2> QED
    BY <1>1, <2>1, <2>2, <2>3
<1>5. ASSUME NEW m \in {AAAA, H5555}, setmode(m) PROVE PortInv' /\ DurableInv'
  <2> DEFINE b == [buf EXCEPT ![4] = m, ![5] = m]
  <2>1. b \in [Index -> Half] /\ b[3] = buf[3]
    BY <1>2, Values
  <2>2. WriteIpToFlash(b)
    BY <1>5 DEF setmode
  <2>3. b[3] # FFFF
    BY <1>2, <2>1, <2>2 DEF WriteIpToFlash
  <2> HIDE DEF b
  <2> QED
    BY <1>1, <2>1, <2>2, <2>3
<1>6. CASE getconfig
  BY <1>6, GetDurable DEF getconfig
<1>7. CASE TftpBegin
  BY <1>7, StutterDurable DEF TftpBegin, ramVars, wrVars, histVars
<1>8. CASE TftpEnd
  BY <1>8, EndSetDurable DEF TftpEnd
<1> QED
  BY <1>3, <1>4, <1>5, <1>6, <1>7, <1>8 DEF Command

(* The configuration set last is kept: the inductive invariant.            *)
THEOREM SpecDurableIndInv == Spec => []DurableIndInv
<1>1. DurableIndInv /\ [Next]_vars => DurableIndInv'
  <2> SUFFICES ASSUME DurableIndInv, [Next]_vars PROVE PortInv' /\ DurableInv'
    BY NextIndInv DEF DurableIndInv
  <2>1. CASE PowerOn \/ Jump_To_Application \/ BootStay \/ ExitCriticalSection
             \/ UNCHANGED vars
    BY <2>1, StutterDurable DEF PowerOn, Jump_To_Application, BootStay,
         ExitCriticalSection, vars, ramVars, wrVars, histVars
  <2>2. CASE BootRead
    BY <2>2, GetDurable DEF BootRead
  <2>3. CASE BootJump
    BY <2>3, EndSetDurable DEF BootJump
  <2> QED
    BY <2>1, <2>2, <2>3, WriteDurable, CommandDurable, PowerOffDurable
       DEF Next, Boot
<1> QED
  BY <1>1, InitIndInv, InitDurable, PTL DEF Spec, DurableIndInv

(* If no write was cut short, a running gateway uses the configuration     *)
(* that a command set last (ConfigDurable), however often it was started   *)
(* or upgraded since.                                                      *)
THEOREM SpecConfigDurable == Spec => []ConfigDurable
<1>1. DurableIndInv => ConfigDurable
  BY DEF DurableIndInv, DurableInv, InRam, Settled, ConfigDurable
<1> QED
  BY <1>1, SpecDurableIndInv, PTL
=============================================================================
