----------------------------- MODULE TcpClient -----------------------------
(***************************************************************************)
(* The gateway's TCP client (myself/src/client_tcpudp.c) on top of the     *)
(* part of lwIP 1.4.1 it drives: the pool of control blocks, tcp_bind,     *)
(* tcp_connect, tcp_close, and the input and timer functions that call the *)
(* client back.  Everything runs in the superloop, so a call with all its  *)
(* callbacks is one action.  The hard part is that the client keeps its    *)
(* connection twice, as the flag Tcplink and as the pointer wpcb, that it  *)
(* replaces wpcb on every attempt without releasing the old block, and     *)
(* that the stack gives blocks up by its own clock.                        *)
(*                                                                         *)
(* Time is counted in runs of tcp_slowtmr (500 ms).  The client is the     *)
(* only user of the pool in this build, and all its blocks use the same    *)
(* local port.  FIN_WAIT_2, CLOSING and TIME_WAIT are left out: the client *)
(* only closes after the server did.                                       *)
(***************************************************************************)
EXTENDS Naturals

CONSTANTS
  PCB,                 \* the pool, MEMP_NUM_TCP_PCB blocks
  NULL,                \* not a block
  RETRY,               \* ticks that certainly pass between two attempts
  SYN_TICKS,           \* tick at which an unanswered SYN is given up
  LAST_ACK_TICKS,      \* tick at which LAST_ACK is given up
  KEEP_TICKS,          \* tick at which keepalive gives up
  MaxConnectFailures   \* bound: calls of tcp_connect that return ERR_MEM

ASSUME PoolAssumption == PCB # {} /\ NULL \notin PCB

(* The client tries every 5 s and lwIP gives a SYN up after 3 to 3.5 s     *)
(* (TCP_SYNMAXRTX is 1).                                                   *)
ASSUME ClockAssumption ==
  /\ {RETRY, SYN_TICKS, LAST_ACK_TICKS, KEEP_TICKS} \subseteq Nat \ {0}
  /\ SYN_TICKS <= RETRY
  /\ MaxConnectFailures \in Nat

VARIABLES
  Tcplink,    \* 1: not connected, try again; 0: connected
  wpcb,       \* the block the client writes to and closes
  state,      \* of every block; "FREE" in the pool, "CLOSED" allocated and
              \* on no list, "BOUND" CLOSED on tcp_bound_pcbs
  age,        \* ticks since the block was last touched (pcb->tmr, rtime)
  rxclosed,   \* blocks with TF_RXCLOSED
  since,      \* ticks since the last attempt, up to RETRY
  failures    \* history: calls of tcp_connect that failed

vars == <<Tcplink, wpcb, state, age, rxclosed, since, failures>>

Active == {"SYN_SENT", "ESTABLISHED", "CLOSE_WAIT", "FIN_WAIT_1", "LAST_ACK"}
Listed == Active \cup {"BOUND"}
States == Listed \cup {"FREE", "CLOSED"}
In(S) == {p \in PCB : state[p] \in S}

Init ==
  /\ Tcplink = 1
  /\ wpcb = NULL
  /\ state = [p \in PCB |-> "FREE"]
  /\ age = [p \in PCB |-> 0]
  /\ rxclosed = {}
  /\ since = 0
  /\ failures = 0

-----------------------------------------------------------------------------
(* Callbacks.                                                              *)

(* Mutant: a connection that is reset or aborted is not noticed.           *)
ErrIgnored == UNCHANGED Tcplink

tcp_client_err == Tcplink' = 1

tcp_client_connected == Tcplink' = 0

(* What tcp_close makes of a block; tcp_send_fin may run out of memory.    *)
tcp_close_shutdown(s) ==
  IF s \in {"CLOSED", "BOUND", "SYN_SENT", "FREE"} THEN {"FREE"}
  ELSE IF s = "CLOSE_WAIT" THEN {"LAST_ACK", "CLOSE_WAIT"}
  ELSE IF s = "ESTABLISHED" THEN {"FIN_WAIT_1", "ESTABLISHED"}
  ELSE {s}

(* Mutant: the flag is left at "connected".                                *)
RecvEndKeepsLink(st) ==
  \E s \in tcp_close_shutdown(st[wpcb]) :
    /\ state' = [st EXCEPT ![wpcb] = s]
    /\ rxclosed' = rxclosed \cup {wpcb}
    /\ UNCHANGED Tcplink

(* tcp_client_reciver with a NULL buffer: it closes wpcb, which need not   *)
(* be the block the call is about.                                         *)
tcp_client_reciver(st) ==
  \E s \in tcp_close_shutdown(st[wpcb]) :
    /\ Tcplink' = 1
    /\ state' = [st EXCEPT ![wpcb] = s]
    /\ rxclosed' = rxclosed \cup {wpcb}

-----------------------------------------------------------------------------
(* tcp_input: segments of the server.                                      *)

SynAck(p) ==
  /\ state[p] = "SYN_SENT"
  /\ state' = [state EXCEPT ![p] = "ESTABLISHED"]
  /\ age' = [age EXCEPT ![p] = 0]
  /\ tcp_client_connected
  /\ UNCHANGED <<wpcb, rxclosed, since, failures>>

Fin(p) ==
  /\ state[p] = "ESTABLISHED"
  /\ age' = [age EXCEPT ![p] = 0]
  /\ tcp_client_reciver([state EXCEPT ![p] = "CLOSE_WAIT"])
  /\ UNCHANGED <<wpcb, since, failures>>

Rst(p) ==
  /\ state[p] \in Active
  /\ state' = [state EXCEPT ![p] = "FREE"]
  /\ tcp_client_err
  /\ UNCHANGED <<wpcb, age, rxclosed, since, failures>>

FinAcked(p) ==                     \* LAST_ACK: TF_CLOSED, no callback
  /\ state[p] = "LAST_ACK"
  /\ state' = [state EXCEPT ![p] = "FREE"]
  /\ UNCHANGED <<Tcplink, wpcb, age, rxclosed, since, failures>>

-----------------------------------------------------------------------------
(* tcp_slowtmr: the blocks in MustGo have reached their limit; those in    *)
(* MayGo may have, by retransmission (TCP_MAXRTX) or keepalive.            *)

(* Mutant: a SYN is repeated once more before it is given up.              *)
SynGivenUpLate(p) == state[p] = "SYN_SENT" /\ age[p] + 1 >= 2 * SYN_TICKS

SynGivenUp(p) == state[p] = "SYN_SENT" /\ age[p] + 1 >= SYN_TICKS

MustGo ==
  {p \in PCB :
     \/ SynGivenUp(p)
     \/ state[p] = "LAST_ACK" /\ age[p] + 1 >= LAST_ACK_TICKS
     \/ /\ state[p] = "CLOSE_WAIT" /\ p \in rxclosed
        /\ age[p] + 1 >= KEEP_TICKS}

MayGo == MustGo \cup In(Active \ {"SYN_SENT"})

tcp_slowtmr ==
  \E gone \in SUBSET MayGo :
    /\ MustGo \subseteq gone
    /\ state' = [p \in PCB |-> IF p \in gone THEN "FREE" ELSE state[p]]
    /\ age' = [p \in PCB |-> IF state[p] \in {"SYN_SENT", "CLOSE_WAIT",
                                              "LAST_ACK"}
                             THEN age[p] + 1 ELSE 0]
    /\ \/ gone # {} /\ tcp_client_err
       \/ gone = {} /\ UNCHANGED Tcplink
    /\ since' = IF since < RETRY THEN since + 1 ELSE since
    /\ UNCHANGED <<wpcb, rxclosed, failures>>

-----------------------------------------------------------------------------
(* TcpTestThread, once the interval has passed.                            *)

(* tcp_alloc gives a free block or, when there is none, aborts the active  *)
(* block that was idle longest and gives that one.                         *)
tcp_alloc(p) ==
  \/ state[p] = "FREE"
  \/ /\ In({"FREE"}) = {}
     /\ state[p] \in Active
     /\ \A q \in In(Active) : age[q] <= age[p]

(* Mutant: a block that failed to bind keeps the port all the same.        *)
BindSeesLost(p) == \E q \in PCB \ {p} : state[q] # "FREE"

(* ERR_USE: another block on some list has the port.                       *)
tcp_bind_ERR_USE(p) == \E q \in PCB \ {p} : state[q] \in Listed

Due == since = RETRY /\ since' = 0

(* The new block, and what became of the old one: nothing.                 *)
tcp_new(p, s) ==
  /\ tcp_alloc(p)
  /\ wpcb' = p
  /\ state' = [state EXCEPT ![p] = s]
  /\ age' = [age EXCEPT ![p] = 0]
  /\ rxclosed' = rxclosed \ {p}
  /\ UNCHANGED Tcplink             \* an abort here finds it 1 already

TestConnected ==
  /\ Due /\ Tcplink = 0
  /\ UNCHANGED <<Tcplink, wpcb, state, age, rxclosed, failures>>

ConnectOk(p) ==
  /\ Due /\ Tcplink = 1
  /\ ~tcp_bind_ERR_USE(p)
  /\ tcp_new(p, "SYN_SENT")
  /\ UNCHANGED failures

(* tcp_connect returns ERR_MEM, which nobody looks at: the block stays     *)
(* bound.                                                                  *)
ConnectErrMem(p) ==
  /\ Due /\ Tcplink = 1
  /\ failures < MaxConnectFailures
  /\ ~tcp_bind_ERR_USE(p)
  /\ tcp_new(p, "BOUND")
  /\ failures' = failures + 1

(* tcp_bind fails and the function returns: the new block is on no list.   *)
BindFails(p) ==
  /\ Due /\ Tcplink = 1
  /\ tcp_bind_ERR_USE(p)
  /\ tcp_new(p, "CLOSED")
  /\ UNCHANGED failures

(* tcp_new returns NULL; tcp_bind(NULL) reads the vector table, finds no   *)
(* CLOSED there and returns ERR_VAL.                                       *)
NoBlock ==
  /\ Due /\ Tcplink = 1
  /\ \A p \in PCB : ~tcp_alloc(p)
  /\ wpcb' = NULL
  /\ UNCHANGED <<Tcplink, state, age, rxclosed, failures>>

tcp_client_callback ==
  \/ \E p \in PCB : ConnectOk(p) \/ ConnectErrMem(p) \/ BindFails(p)
  \/ NoBlock

TcpTestThread == TestConnected \/ tcp_client_callback

-----------------------------------------------------------------------------
tcp_input == \E p \in PCB : SynAck(p) \/ Fin(p) \/ Rst(p) \/ FinAcked(p)

Next == tcp_input \/ tcp_slowtmr \/ TcpTestThread

Spec == Init /\ [][Next]_vars

(* The superloop runs both timed functions for ever; the server owes       *)
(* nothing.                                                                *)
FairSpec == Spec /\ WF_vars(tcp_slowtmr) /\ SF_vars(TcpTestThread)

-----------------------------------------------------------------------------
(* Every variable stays in its range.                                      *)
TypeOK ==
  /\ Tcplink \in {0, 1}
  /\ wpcb \in PCB \cup {NULL}
  /\ state \in [PCB -> States]
  /\ age \in [PCB -> Nat]
  /\ rxclosed \subseteq PCB
  /\ since \in 0 .. RETRY
  /\ failures \in 0 .. MaxConnectFailures

(* Tcplink says "connected" exactly when the stack has an established      *)
(* connection: no late callback of an old block (tcp_client_err at the end *)
(* of LAST_ACK, an abort by tcp_alloc) turns it back, none is missed.      *)
LinkFlagExact == Tcplink = 0 <=> In({"ESTABLISHED"}) # {}

(* While connected, wpcb is the established block, so that SendDataToSever *)
(* ("connected, data can be sent") writes to the server and                *)
(* tcp_client_reciver closes the block it was called for.  It depends on   *)
(* lwIP giving a SYN up before the client's next attempt.                  *)
WpcbIsConnection ==
  Tcplink = 0 => wpcb \in PCB /\ state[wpcb] = "ESTABLISHED"

(* Blocks lost by failed binds never use up the pool: tcp_new always finds *)
(* a free block or one to abort, unless a tcp_connect has failed.          *)
PoolServes == failures = 0 => In({"FREE"} \cup Active) # {}

(* "if link =1,will be connectting to sever" (TcpTestThread): the client   *)
(* is connected or has a SYN out, again and again, whatever the server     *)
(* does.                                                                   *)
KeepsConnecting == []<>(In({"SYN_SENT", "ESTABLISHED"}) # {})

(* What is true of it: it holds unless a tcp_connect fails for lack of     *)
(* memory.  Refusals, resets, lost segments, failed binds and leaked       *)
(* blocks never end the attempts.                                          *)
KeepsConnectingWithMemory == KeepsConnecting \/ <>(failures # 0)

-----------------------------------------------------------------------------
(* The inductive invariant.                                                *)

(* tcp_bind lets one block at a time on the lists.                         *)
OneListed == \A p, q \in In(Listed) : p = q

(* A SYN is as old as the attempt that sent it, and its block is wpcb.     *)
SynInv ==
  \A p \in In({"SYN_SENT"}) :
    wpcb = p /\ age[p] = since /\ since < SYN_TICKS /\ Tcplink = 1

EstInv == \A p \in In({"ESTABLISHED"}) : wpcb = p /\ Tcplink = 0

NoActiveClose == In({"FIN_WAIT_1"}) = {}

BoundInv == failures = 0 => In({"BOUND"}) = {}

(* The conjunction, which every step preserves.                            *)
IndInv ==
  /\ TypeOK
  /\ OneListed
  /\ SynInv
  /\ EstInv
  /\ NoActiveClose
  /\ BoundInv
  /\ LinkFlagExact
  /\ PoolServes

=============================================================================
