------------------------------ MODULE IapTftp ------------------------------
(***************************************************************************)
(* Firmware upgrade over TFTP (iap/src/tftpserver_iap.c) on top of the     *)
(* flash routines of flash/src/flash_if.c, with the start of the           *)
(* application (IAP_EndSetFlash) and the boot decision of main.c.          *)
(*                                                                         *)
(* A word of the application area is <<u, w>>, word w of the image of      *)
(* upload u, or <<None, w>> with w > 0 when it is of no image; first words *)
(* are the ones that pass for a stack pointer.  The TFTP clients are       *)
(* external: they follow RFC 1350, send again when nothing comes back, and *)
(* may give up and start over.  A datagram may be lost, late or handled    *)
(* any number of times, because it was sent again or duplicated on the     *)
(* way: net and acks only grow.  A write request that was handled is taken *)
(* out, as each counts against MaxWrq.  Local ports start over at a reset, *)
(* as udp_port does, so a late datagram may reach a transfer of another    *)
(* life.  Power may fail at any moment, also inside a handler.             *)
(***************************************************************************)
EXTENDS Integers, FiniteSets, FiniteSetsExt

CONSTANTS
  Uploads,      \* the images clients have to offer
  ImageLen,     \* ImageLen[u]: its length in words
  BlockWords,   \* words in a full block (128)
  ErrorWords,   \* words in an error packet: its message
  AreaWords,    \* words between Flash_First_Page_Address and the
                \* configuration page
  PageWords,    \* words that are erased together
  NPcb,         \* control blocks left for transfers
  MaxWrq,       \* bound: write requests over all clients
  MaxErrors,    \* bound: flash operations that fail by themselves
  MaxPowerOff,  \* bound: resets
  None

ASSUME TftpAssumption ==
  /\ ImageLen \in [Uploads -> Nat \ {0}]
  /\ {BlockWords, AreaWords, PageWords, NPcb} \subseteq Nat \ {0}
  /\ {MaxWrq, MaxErrors, MaxPowerOff} \subseteq Nat
  /\ ErrorWords \in 1 .. BlockWords - 1
  /\ None \notin Uploads

VARIABLES
  app,        \* the application area
  mode,       \* IAP mode word: "app" (AAAAAAAA), "iap" (55555555), "unset"
  addr,       \* Flash_Write_Address, as the number of the next word
  pgerr,      \* PGERR in the flash status: set by hardware, never cleared
  session,    \* session[s] is args->block of the transfer on port s
  port,       \* udp_port: ports given out since the reset
  pc,         \* "off", "run" (IAP program), "app"
  client,     \* what each TFTP client is doing
  net, acks,  \* datagrams to the gateway and to the clients
  wrqs, errors, resets,   \* how often, against the bounds
  hands,      \* history: who (Hand) all sent datagrams that were
              \* handled since the area was last erased
  fault,      \* history: an operation on the area has failed since then
  forced      \* history: the mode was set to "app" by command

flashVars == <<app, mode, addr, pgerr>>
netVars   == <<client, net, acks, wrqs>>
histVars  == <<hands, fault, forced>>
vars == <<flashVars, session, port, pc, netVars, errors, resets, histVars>>

Area  == 1 .. AreaWords
Pages == 0 .. (AreaWords - 1) \div PageWords
Empty == <<None, 0>>

(* The image of u is whole in the area.                                    *)
Holds(u) ==
  /\ ImageLen[u] <= AreaWords
  /\ \A k \in Area : app[k] = IF k <= ImageLen[u] THEN <<u, k>> ELSE Empty

(* Block b of u.  The block that ends the transfer is shorter than a full  *)
(* one, and empty if the image fills its blocks.                           *)
LastBlock(u)  == ImageLen[u] \div BlockWords + 1
FirstOf(b)    == (b - 1) * BlockWords + 1
WordsOf(u, b) == IF b < LastBlock(u) THEN BlockWords
                                     ELSE ImageLen[u] % BlockWords

StackValid(a) == a[1][2] = 1

Idle == [at |-> "off", port |-> 0, life |-> 0, block |-> 0, try |-> 0]

(* Who sent m: a transfer is a port of one life of the gateway, as seen by *)
(* one attempt of a client.                                                *)
Hand(m) == <<m.port, m.life, m.u, m.try>>

Init ==
  /\ app = [k \in Area |-> Empty] /\ mode = "unset" /\ addr = 1
  /\ pgerr = FALSE
  /\ session = <<>> /\ port = 0 /\ pc = "run"
  /\ client = [u \in Uploads |-> Idle]
  /\ net = {} /\ acks = {} /\ wrqs = 0 /\ errors = 0 /\ resets = 0
  /\ hands = {} /\ fault = FALSE /\ forced = FALSE

-----------------------------------------------------------------------------
(* Flash.                                                                  *)

(* n of want steps were done when at most most could be: either the flash  *)
(* went as far as it could, or a step failed by itself.                    *)
FlashStops(n, most, want) ==
  \/ n = most /\ pgerr' = (pgerr \/ most < want) /\ UNCHANGED errors
  \/ /\ n < most /\ errors < MaxErrors
     /\ errors' = errors + 1 /\ pgerr' \in {pgerr, TRUE}

(* FLASH_ProgramWord takes erased words only and nothing at all once PGERR *)
(* is set.  FLASH_If_Write itself goes on up to the end of the flash, but  *)
(* the word behind the area is the first of the configuration page, the    *)
(* server's address, which is programmed (see FlashConfig).                *)
Programmable(len) ==
  Max({n \in 0 .. len : n = 0 \/ (~pgerr /\ \A k \in addr .. addr + n - 1 :
                                     k \in Area /\ app[k] = Empty)})

(* FLASH_If_Write: word after word, until one fails.                       *)
FLASH_If_Write(u, first, n) ==
  /\ app' = [k \in Area |-> IF k \in addr .. addr + n - 1
                            THEN <<u, first + (k - addr)>> ELSE app[k]]
  /\ addr' = addr + n

Erasable == IF pgerr THEN 0 ELSE Cardinality(Pages)

(* FLASH_If_Erase: page after page, until one fails.                       *)
FLASH_If_Erase(n) ==
  app' = [k \in Area |-> IF (k - 1) \div PageWords < n THEN Empty ELSE app[k]]

(* WriteIpToFlash with a new mode: without effect once PGERR is set.       *)
ModeWritten(m) == IF pgerr THEN mode ELSE m

-----------------------------------------------------------------------------
(* The TFTP server.                                                        *)

(* Mutant: a block that came again is acknowledged with the next number.   *)
AcknowledgeNext(m, b) ==
  [u |-> m.u, try |-> m.try, port |-> m.port, life |-> resets,
   block |-> IF m.block = b THEN b ELSE b + 1]

(* IAP_tftp_send_ack_packet: to where the datagram came from.              *)
Acknowledge(m, b) ==
  [u |-> m.u, try |-> m.try, port |-> m.port, life |-> resets, block |-> b]

(* IAP_tftp_recv_callback and IAP_tftp_process_write: a write request      *)
(* takes a control block and a fresh port, erases the area and is          *)
(* acknowledged with 0.  Without a control block it is ignored.            *)
IAP_tftp_recv_callback(m) ==
  /\ pc = "run" /\ m \in net /\ m.port = 0
  /\ net' = net \ {m}
  /\ \/ /\ Cardinality(DOMAIN session) >= NPcb
        /\ UNCHANGED <<flashVars, session, port, acks, errors, hands, fault>>
     \/ LET s == port + 1
        IN  /\ Cardinality(DOMAIN session) < NPcb
            /\ \E n \in 0 .. Cardinality(Pages) :
                 /\ FlashStops(n, Erasable, Cardinality(Pages))
                 /\ FLASH_If_Erase(n)
                 /\ fault' = (n < Cardinality(Pages))
            /\ addr' = 1
            /\ port' = s
            /\ session' = [i \in DOMAIN session \cup {s} |->
                             IF i = s THEN 0 ELSE session[i]]
            /\ hands' = {Hand([m EXCEPT !.port = s, !.life = resets])}
            /\ acks' = acks \cup {Acknowledge([m EXCEPT !.port = s], 0)}
            /\ UNCHANGED mode
  /\ UNCHANGED <<pc, client, wrqs, resets, forced>>

(* Mutant: off by one.                                                     *)
ExpectedSame(s, b) == b = session[s]

(* Mutant: the block number is compared the wrong way round.               *)
ExpectedNotOlder(s, b) == b >= session[s]

Expected(s, b) == b = session[s] + 1

(* IAP_EndSetFlash: an image with a stack pointer becomes the one to boot  *)
(* and is started; otherwise the IAP program goes on.                      *)
IAP_EndSetFlash(s) ==
  IF StackValid(app')
  THEN /\ pc' = "app" /\ session' = <<>> /\ port' = 0
       /\ mode' = IF pgerr' THEN mode ELSE "app"
  ELSE /\ session' = [i \in DOMAIN session \ {s} |-> session[i]]
       /\ UNCHANGED <<pc, port, mode>>

(* IAP_wrq_recv_callback: the expected block is written, whatever came is  *)
(* acknowledged with the number of the last block written, and a datagram  *)
(* that is not a full block ends the transfer.  The opcode is not looked   *)
(* at.                                                                     *)
IAP_wrq_recv_callback(m) ==
  LET s == m.port
      new == Expected(s, m.block)
      block == IF new THEN session[s] + 1 ELSE session[s]
  IN  /\ pc = "run" /\ m \in net /\ s \in DOMAIN session
      /\ IF new /\ m.words > 0
         THEN \E n \in 0 .. m.words :
                /\ FlashStops(n, Programmable(m.words), m.words)
                /\ FLASH_If_Write(m.data, FirstOf(m.block), n)
                /\ fault' = (fault \/ n < m.words)
         ELSE UNCHANGED <<app, addr, pgerr, errors, fault>>
      /\ acks' = acks \cup {Acknowledge(m, block)}
      /\ hands' = hands \cup {Hand(m)}
      /\ IF m.words < BlockWords
         THEN IAP_EndSetFlash(s)
         ELSE /\ session' = [session EXCEPT ![s] = block]
              /\ UNCHANGED <<pc, port, mode>>
      /\ UNCHANGED <<client, net, wrqs, resets, forced>>

-----------------------------------------------------------------------------
(* Commands, boot and power.                                               *)

(* setiap and setapp, which both programs understand.                      *)
setmode(m) ==
  /\ pc \in {"run", "app"}
  /\ mode' = ModeWritten(m) /\ mode' # mode
  /\ forced' = (forced \/ m = "app")
  /\ UNCHANGED <<app, addr, pgerr, session, port, pc, netVars, errors,
                 resets, hands, fault>>

(* Mutant: the IAP program starts whatever is in the area.                 *)
BootsAppAnyMode == StackValid(app)

BootsApp == mode = "app" /\ StackValid(app)

(* main and IAP_EndSetFlash.                                               *)
Boot ==
  /\ pc = "off"
  /\ pc' = IF BootsApp THEN "app" ELSE "run"
  /\ UNCHANGED <<flashVars, session, port, netVars, errors, resets, histVars>>

(* Power fails: between two handlers, in the middle of an erase or of a    *)
(* write, or while the mode is written, which leaves it unset.             *)
PowerOff ==
  /\ pc # "off" /\ resets < MaxPowerOff
  /\ \/ UNCHANGED <<app, mode, hands, fault>>
     \/ mode' = "unset" /\ ~pgerr /\ UNCHANGED <<app, hands, fault>>
     \/ \E m \in net, n \in 0 .. Cardinality(Pages) :
          /\ pc = "run" /\ m.port = 0 /\ n <= Erasable
          /\ FLASH_If_Erase(n) /\ fault' = (n < Cardinality(Pages))
          /\ hands' = {Hand([m EXCEPT !.port = port + 1, !.life = resets])}
          /\ UNCHANGED mode
     \/ \E m \in net, n \in 0 .. BlockWords :
          /\ pc = "run" /\ m.port \in DOMAIN session
          /\ Expected(m.port, m.block) /\ n <= Programmable(m.words)
          /\ app' = [k \in Area |-> IF k \in addr .. addr + n - 1
                       THEN <<m.data, FirstOf(m.block) + (k - addr)>> ELSE app[k]]
          /\ hands' = hands \cup {Hand(m)}
          /\ UNCHANGED <<mode, fault>>
  /\ pc' = "off" /\ session' = <<>> /\ port' = 0 /\ pgerr' = FALSE /\ addr' = 1
  /\ resets' = resets + 1
  /\ UNCHANGED <<netVars, errors, forced>>

-----------------------------------------------------------------------------
(* TFTP clients and the network.                                           *)

Datagram(u, c) ==
  [u |-> u, try |-> c.try, port |-> c.port, life |-> c.life, block |-> c.block,
   data |-> u, words |-> IF c.block = 0 THEN 0 ELSE WordsOf(u, c.block)]

ClientMoves(u, c) ==
  /\ client' = [client EXCEPT ![u] = c]
  /\ net' = IF c.at \in {"asked", "sending"} THEN net \cup {Datagram(u, c)}
                                              ELSE net

gatewayVars == <<flashVars, session, port, pc, errors, resets, histVars>>

(* A client asks for a transfer, again when nothing came back, or anew     *)
(* after it gave up an earlier attempt.                                    *)
ClientAsks(u) ==
  /\ wrqs < MaxWrq /\ wrqs' = wrqs + 1
  /\ \/ ClientMoves(u, [Idle EXCEPT !.at = "asked", !.try = client[u].try + 1])
     \/ /\ client[u].at = "asked" /\ Datagram(u, client[u]) \notin net
        /\ ClientMoves(u, client[u])
  /\ UNCHANGED <<gatewayVars, acks>>

(* The acknowledgement it waits for; any other is dropped.                 *)
ClientReceives(u, a) ==
  LET c == client[u]
  IN  /\ a.u = u /\ a.try = c.try
      /\ \/ c.at = "asked" /\ a.block = 0
         \/ c.at = "sending" /\ a.port = c.port /\ a.block = c.block
      /\ IF c.at = "sending" /\ c.block = LastBlock(u)
         THEN ClientMoves(u, [c EXCEPT !.at = "done"])
         ELSE ClientMoves(u, [c EXCEPT !.at = "sending", !.port = a.port,
                                       !.life = a.life, !.block = @ + 1])
      /\ UNCHANGED <<gatewayVars, acks, wrqs>>

(* An acknowledgement from a port it does not know: error 5, a short       *)
(* datagram whose error code stands where a block number would, and its    *)
(* message where the data would.                                           *)
ClientRefuses(u, a) ==
  /\ a.u = u /\ a.try = client[u].try
  /\ client[u].at = "sending" /\ a.port # client[u].port
  /\ net' = net \cup {[u |-> u, try |-> a.try, port |-> a.port,
                       life |-> a.life, block |-> 5, data |-> None,
                       words |-> ErrorWords]}
  /\ UNCHANGED <<gatewayVars, client, acks, wrqs>>

-----------------------------------------------------------------------------
Server == \E m \in net : IAP_tftp_recv_callback(m) \/ IAP_wrq_recv_callback(m)
Clients == \E u \in Uploads :
  ClientAsks(u) \/ \E a \in acks : ClientReceives(u, a) \/ ClientRefuses(u, a)

Next == \/ Server \/ Clients
        \/ \E m \in {"app", "iap"} : setmode(m)
        \/ Boot \/ PowerOff

Spec == Init /\ [][Next]_vars

(* A client sends its block until it is answered, the network does not     *)
(* lose it for ever, nor every answer to it, and the superloop calls the   *)
(* stack.                                                                  *)
Fairness ==
  \A u \in Uploads :
    /\ SF_vars(/\ client[u].at = "sending"
               /\ IAP_wrq_recv_callback(Datagram(u, client[u])))
    /\ SF_vars(\E a \in acks : client[u].at = "sending" /\ ClientReceives(u, a))

FairSpec == Spec /\ Fairness

-----------------------------------------------------------------------------
(* Every variable stays in its range.                                      *)
TypeOK ==
  /\ app \in [Area -> (Uploads \cup {None}) \X Nat]
  /\ mode \in {"app", "iap", "unset"} /\ pc \in {"off", "run", "app"}
  /\ addr \in 1 .. AreaWords + 1 /\ port \in Nat
  /\ DOMAIN session \subseteq 1 .. port
  /\ Cardinality(DOMAIN session) <= NPcb
  /\ \A s \in DOMAIN session : session[s] \in Nat
  /\ {pgerr, fault, forced} \subseteq BOOLEAN

(* The area was used by one transfer only and no flash operation failed.   *)
Undisturbed == Cardinality(hands) <= 1 /\ ~fault

(* A started application is a whole image: whatever datagrams were lost,   *)
(* repeated or late, and wherever power failed, even in the middle of an   *)
(* erase or a block.  It takes that nobody else's datagrams reached the    *)
(* transfer, that the flash worked and that the mode was not set to "app"  *)
(* by hand: a half-written image is kept from starting by the mode alone,  *)
(* as its first word is written first.                                     *)
StartsWholeImage ==
  pc = "app" /\ Undisturbed /\ ~forced => \E u \in Uploads : Holds(u)

(* What a transfer that is alone has acknowledged is in the flash, in      *)
(* order, and the next block goes behind it, inside the area.              *)
AckedIsWritten ==
  /\ TypeOK
  /\ \A s \in DOMAIN session : \A h \in hands :
       Undisturbed /\ h[1] = s =>
         LET done == Min({session[s] * BlockWords, ImageLen[h[3]]})
         IN  /\ addr = done + 1
             /\ \A k \in Area : app[k] = IF k <= done THEN <<h[3], k>> ELSE Empty

(* A client is not acknowledged a block it has not sent yet, so that it    *)
(* never skips one, as long as nobody else's datagrams reach its port: not *)
(* by a duplicate, not by another transfer on another port, and not by the *)
(* error it sends to a second port of its own.                             *)
AcksOnlySent ==
  \A u \in Uploads :
    LET c == client[u]
        mine == {a \in acks : <<a.port, a.life>> = <<c.port, c.life>>}
    IN  c.at = "sending" /\ (\A a \in mine : <<a.u, a.try>> = <<u, c.try>>)
          => \A a \in mine : a.block <= c.block

(* The end of a transfer is the end of the file: what is started after it  *)
(* is a whole image, if the flash worked and the mode was not set by hand. *)
WholeFileReceived == pc = "app" /\ ~fault /\ ~forced => \E u \in Uploads : Holds(u)

(* A transfer that is alone ends with the image started: losses and        *)
(* duplicates only delay it, as a block handled again is answered with the *)
(* number the client waits for.                                            *)
TransferEnds ==
  \A u \in Uploads :
    (client[u].at = "sending" /\ client[u].port \in DOMAIN session
       /\ <<client[u].port, client[u].life, u, client[u].try>> \in hands)
      ~> (pc # "run" \/ ~Undisturbed \/ client[u].at # "sending")

=============================================================================
