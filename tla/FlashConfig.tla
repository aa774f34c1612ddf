---------------------------- MODULE FlashConfig ----------------------------
(***************************************************************************)
(* The configuration page in flash (flash/src/flash_if.c) and everything   *)
(* that rewrites it: the boot of main.c with its repair of an empty page,  *)
(* the jump from the IAP program to the application, which writes the page *)
(* on every boot, and the set/get commands of client_tcpudp.c.  Power may  *)
(* fail between any two programming steps.                                 *)
(*                                                                         *)
(* The page is four words (server IP, server port, IAP mode, RF channel)   *)
(* of two half-words, programmed in ascending order, low half first        *)
(* (FLASH_ProgramWord).  An erase that power cuts short leaves every word  *)
(* as it was or erased.  Both programs (IAP and APP) are this source with  *)
(* USE_IAP_TFTP on or off.                                                 *)
(***************************************************************************)
EXTENDS Integers

CONSTANTS
  Half,                 \* values of a half-word
  FFFF, AAAA, H5555, H0,\* the ones the code names
  Ips,                  \* server addresses <<low, high>> a command may set
  Ports, Channels,      \* low halves; the high half is 0
  DefIp, DefPort        \* 0x7B3B60E9 and 0x162F

ASSUME HalfAssumption ==
  /\ {FFFF, AAAA, H5555, H0, DefPort} \subseteq Half
  /\ Ips \subseteq Half \X Half /\ DefIp \in Half \X Half
  /\ Ports \subseteq Half /\ Channels \subseteq Half

(* A channel is a byte, and the default address is not the empty word.     *)
ASSUME ValueAssumption ==
  /\ FFFF \notin Channels \cup {H0, AAAA, H5555}
  /\ DefIp # <<FFFF, FFFF>>

VARIABLES
  page,       \* flash: half-words 0 .. 7
  buf,        \* flash_net_buf
  sever,      \* ipaddr_sever and port_sever
  irq,        \* interrupts enabled
  prog,       \* which program runs, "iap" or "app"
  appOk,      \* the application area holds a valid stack pointer
  pc,         \* where the program is
  src, n,     \* words being programmed, half-words done
  then,       \* where the write returns to
  requests,   \* history: configurations handed to the flash so far
  current,    \* history: the one last set by command
  lost        \* history: a write since was cut short

ramVars == <<buf, sever>>
wrVars  == <<src, n, then>>
histVars == <<requests, current, lost>>
vars == <<page, ramVars, irq, prog, appOk, pc, wrVars, histVars>>

Index == 0 .. 7
Erased == [k \in Index |-> FFFF]

(* What the gateway uses of a configuration: address, port and the low     *)
(* byte of the channel.                                                    *)
Config(w) == <<w[0], w[1], w[2], w[6]>>

EmptyWord(w, k) == w[2 * k] = FFFF /\ w[2 * k + 1] = FFFF

(* Mutant: the channel word, programmed last, is not looked at.            *)
PageEmptyNoChannel(w) == EmptyWord(w, 0) \/ EmptyWord(w, 1)

(* Mutant: an unset IAP mode counts as an empty page.                      *)
PageEmptyAnyWord(w) == \E k \in 0 .. 3 : EmptyWord(w, k)

PageEmpty(w) == EmptyWord(w, 0) \/ EmptyWord(w, 1) \/ EmptyWord(w, 3)

(* The default configuration; the IAP mode is kept as it was read.         *)
Default(w) == [w EXCEPT ![0] = DefIp[1], ![1] = DefIp[2], ![2] = DefPort,
                        ![3] = H0, ![6] = H0, ![7] = H0]

Mode(w) == <<w[4], w[5]>>

Init ==
  /\ page = Erased /\ buf = [k \in Index |-> H0] /\ sever = <<H0, H0, H0>>
  /\ irq = TRUE
  /\ prog = "iap" /\ appOk \in BOOLEAN
  /\ pc = "off"
  /\ src = [k \in Index |-> H0] /\ n = 0 /\ then = "boot"
  /\ requests = {Config(Default(Erased))}
  /\ current = Config(Default(Erased))
  /\ lost = FALSE

-----------------------------------------------------------------------------
(* Writing: erase the page, program src, go on at then.                    *)

StartWrite(w, next) ==
  /\ src' = w /\ n' = 0 /\ then' = next
  /\ pc' = "erase"
  /\ requests' = requests \cup {Config(w)}

FLASH_ErasePage ==
  /\ pc = "erase"
  /\ page' = Erased
  /\ pc' = "program"
  /\ UNCHANGED <<ramVars, irq, prog, appOk, wrVars, histVars>>

(* Mutant: the channel is written before the rest.                         *)
HalfAtChannelFirst(k) == (k + 6) % 8

HalfAt(k) == k

FLASH_ProgramWord ==
  /\ pc = "program" /\ n < 8
  /\ page' = [page EXCEPT ![HalfAt(n)] = src[HalfAt(n)]]
  /\ n' = n + 1
  /\ UNCHANGED <<ramVars, irq, prog, appOk, pc, src, then, histVars>>

(* Return from GetIpFromFlash (boot, run), IAP_EndSetFlash (jump) or       *)
(* WriteIpToFlash alone (set).  Only WriteIpToFlash, and the error return  *)
(* of FLASH_If_DataFlashWrite, enable interrupts again.                    *)
WriteReturns(failed) ==
  /\ irq' = (failed \/ then \in {"set", "jump"})
  /\ pc' = IF then = "set" THEN "run" ELSE then
  /\ buf' = IF then \in {"boot", "run"} THEN src ELSE buf
  /\ UNCHANGED <<page, sever, prog, appOk, wrVars, requests, current>>

FLASH_If_DataFlashWrite ==
  /\ pc = "program" /\ n = 8
  /\ WriteReturns(FALSE)
  /\ lost' = (lost /\ then # "set")

(* FLASH_ProgramWord does not return FLASH_COMPLETE.  The result of        *)
(* FLASH_ErasePage is not looked at: when the erase fails, the page is as  *)
(* it was, and the error that stays in the status register fails the first *)
(* FLASH_ProgramWord too.                                                  *)
FlashError ==
  /\ pc = "erase" \/ (pc = "program" /\ n < 8)
  /\ WriteReturns(TRUE)
  /\ lost' = TRUE

(* GetIpFromFlash.                                                         *)
GetIpFromFlash(next) ==
  \/ /\ PageEmpty(page)
     /\ StartWrite(Default(page), next)
     /\ UNCHANGED <<page, ramVars, irq, prog, appOk, current, lost>>
  \/ /\ ~PageEmpty(page)
     /\ buf' = page
     /\ irq' = TRUE
     /\ pc' = next
     /\ UNCHANGED <<page, sever, prog, appOk, wrVars, histVars>>

-----------------------------------------------------------------------------
(* Boot and power.                                                         *)

PowerOn ==
  /\ pc = "off"
  /\ prog' = "iap" /\ pc' = "get" /\ irq' = TRUE
  /\ UNCHANGED <<page, ramVars, appOk, wrVars, histVars>>

BootRead == pc = "get" /\ GetIpFromFlash("boot")

(* IAP_EndSetFlash, with a valid application: the mode is set to APP and   *)
(* the page rewritten.                                                     *)
IAP_EndSetFlash ==
  LET b == [buf EXCEPT ![4] = AAAA, ![5] = AAAA]
  IN  buf' = b /\ StartWrite(b, "jump")

BootJump ==
  /\ pc = "boot"
  /\ prog = "iap" /\ Mode(buf) = <<AAAA, AAAA>> /\ appOk
  /\ sever' = <<buf[0], buf[1], buf[2]>>
  /\ IAP_EndSetFlash
  /\ UNCHANGED <<page, irq, prog, appOk, current, lost>>

Jump_To_Application ==
  /\ pc = "jump"
  /\ prog' = "app" /\ pc' = "get"
  /\ UNCHANGED <<page, ramVars, irq, appOk, wrVars, histVars>>

(* The program stays and sets itself up; eMBMasterEnable leaves a critical *)
(* section and so enables interrupts.                                      *)
BootStay ==
  /\ pc = "boot"
  /\ ~(prog = "iap" /\ Mode(buf) = <<AAAA, AAAA>> /\ appOk)
  /\ sever' = <<buf[0], buf[1], buf[2]>>
  /\ irq' = TRUE
  /\ pc' = "run"
  /\ UNCHANGED <<page, buf, prog, appOk, wrVars, histVars>>

(* Power failure, or "reboot" by watchdog.                                 *)
PowerOff ==
  /\ pc # "off"
  /\ pc' = "off"
  /\ lost' = (lost \/ pc \in {"erase", "program"})
  /\ \/ UNCHANGED page
     \/ /\ pc = "erase"
        /\ \E S \in SUBSET (0 .. 3) :
             page' = [k \in Index |-> IF k \div 2 \in S THEN FFFF ELSE page[k]]
  /\ UNCHANGED <<ramVars, irq, prog, appOk, wrVars, requests, current>>

-----------------------------------------------------------------------------
(* Commands.                                                               *)

WriteIpToFlash(b) ==
  /\ pc = "run"
  /\ buf' = b
  /\ StartWrite(b, "set")
  /\ current' = Config(b)
  /\ UNCHANGED <<page, irq, prog, appOk, lost>>

setconfig(ip, port) ==
  /\ sever' = <<ip[1], ip[2], port>>
  /\ WriteIpToFlash([buf EXCEPT ![0] = ip[1], ![1] = ip[2],
                                ![2] = port, ![3] = H0])

setchl(c) ==
  /\ WriteIpToFlash([buf EXCEPT ![6] = c, ![7] = H0])
  /\ UNCHANGED sever

setmode(m) ==                     \* setiap, setapp
  /\ WriteIpToFlash([buf EXCEPT ![4] = m, ![5] = m])
  /\ UNCHANGED sever

getconfig == pc = "run" /\ GetIpFromFlash("run")    \* getchl, getiap

(* A Modbus transmission leaves its critical section.                      *)
ExitCriticalSection ==
  /\ pc = "run" /\ ~irq
  /\ irq' = TRUE
  /\ UNCHANGED <<page, ramVars, prog, appOk, pc, wrVars, histVars>>

(* A TFTP upgrade erases the application and, at its end, starts it.  It   *)
(* leaves this page alone: FLASH_If_Write would go on into it behind an    *)
(* image longer than the application area, but stops at the first word     *)
(* that is programmed, and the page begins with the server's address.      *)
TftpBegin ==
  /\ pc = "run" /\ prog = "iap" /\ appOk
  /\ appOk' = FALSE
  /\ UNCHANGED <<page, ramVars, irq, prog, pc, wrVars, histVars>>

TftpEnd ==
  /\ pc = "run" /\ prog = "iap" /\ ~appOk
  /\ appOk' = TRUE
  /\ IAP_EndSetFlash
  /\ UNCHANGED <<page, sever, irq, prog, current, lost>>

Command ==
  \/ \E ip \in Ips, port \in Ports : setconfig(ip, port)
  \/ \E c \in Channels : setchl(c)
  \/ \E m \in {AAAA, H5555} : setmode(m)
  \/ getconfig
  \/ TftpBegin \/ TftpEnd

Write == FLASH_ErasePage \/ FLASH_ProgramWord \/ FLASH_If_DataFlashWrite
           \/ FlashError
Boot == PowerOn \/ BootRead \/ BootJump \/ Jump_To_Application \/ BootStay

Next == Boot \/ Write \/ Command \/ ExitCriticalSection \/ PowerOff

Spec == Init /\ [][Next]_vars

-----------------------------------------------------------------------------
(* Every variable stays in its range.                                      *)
TypeOK ==
  /\ page \in [Index -> Half] /\ buf \in [Index -> Half]
  /\ sever \in Half \X Half \X Half
  /\ irq \in BOOLEAN /\ appOk \in BOOLEAN /\ lost \in BOOLEAN
  /\ prog \in {"iap", "app"}
  /\ pc \in {"off", "get", "boot", "jump", "run", "erase", "program"}
  /\ src \in [Index -> Half] /\ n \in 0 .. 8
  /\ then \in {"boot", "jump", "run", "set"}
  /\ current \in Half \X Half \X Half \X Half

(* Whatever power failures and flash errors cut writes short, a running    *)
(* gateway uses a configuration that was written as a whole, or the        *)
(* default, never a mixture: the channel word is programmed last and       *)
(* GetIpFromFlash takes a page without it for empty.                       *)
NoTornConfig ==
  pc = "run" =>
    /\ Config(buf) \in requests
    /\ \E c \in requests : sever = <<c[1], c[2], c[3]>>

(* If no write was cut short, the gateway runs with what was set last, no  *)
(* matter how often it was started or upgraded since.  (The address        *)
(* 255.255.255.255 cannot be told from an empty word.)                     *)
ConfigDurable ==
  pc = "run" /\ ~lost /\ <<current[1], current[2]>> # <<FFFF, FFFF>> =>
    Config(buf) = current

-----------------------------------------------------------------------------
(* The inductive invariant behind NoTornConfig.                            *)

(* A page that counts as written holds a whole configuration, and its      *)
(* channel word is written low half first.                                 *)
PageInv ==
  /\ ~PageEmpty(page) => Config(page) \in requests
  /\ page[6] = FFFF => page[7] = FFFF

RamInv ==
  /\ pc \in {"boot", "run", "jump"}
       \/ (pc \in {"erase", "program"} /\ then \in {"set", "jump"}) =>
       Config(buf) \in requests /\ buf[6] # FFFF
  /\ pc = "run" \/ (pc \in {"erase", "program"} /\ then \in {"set", "run"}) =>
       \E c \in requests : sever = <<c[1], c[2], c[3]>>

WriteInv ==
  pc \in {"erase", "program"} =>
    /\ Config(src) \in requests /\ src[6] # FFFF
    /\ pc = "erase" => n = 0
    /\ pc = "program" =>
         \A k \in Index : page[k] = IF k < n THEN src[k] ELSE FFFF

(* The conjunction, which every step preserves.                            *)
IndInv == TypeOK /\ PageInv /\ RamInv /\ WriteInv

=============================================================================
