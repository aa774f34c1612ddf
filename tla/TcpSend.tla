------------------------------ MODULE TcpSend ------------------------------
(***************************************************************************)
(* The sending half of an established connection of the stack (tcp_out.c,  *)
(* the ACK half of tcp_receive, the retransmission, persist and keepalive  *)
(* timers of tcp_slowtmr) over a network that loses, repeats and delays    *)
(* segments, to a peer that takes bytes in order into a finite buffer.     *)
(*                                                                         *)
(* A byte is its position in the stream.  The congestion window is any     *)
(* window of at least one segment, which is all its arithmetic guarantees. *)
(* A timer is early when its segment or the answer is still under way.     *)
(*                                                                         *)
(* TcpProofs extends this module and TcpClient: the names that both would  *)
(* have carry a prefix here.                                               *)
(***************************************************************************)
EXTENDS Integers, Sequences

CONSTANTS
  MSS, TCP_SND_BUF, TCP_MAXRTX,
  DupThresh,         \* duplicate ACKs that trigger a fast retransmit (3)
  SOF_KEEPALIVE,     \* whether the connection has keepalive on
  KEEP_CNT,          \* keepalive probes without an answer that end it
  PeerBuf,           \* receive buffer of the peer
  MaxBytes,          \* bound: bytes the application writes
  MaxFaults          \* bound: losses, repetitions, delays, early timers

ASSUME TcpSendAssumption ==
  /\ {MSS, TCP_SND_BUF, TCP_MAXRTX, KEEP_CNT, DupThresh, PeerBuf} \subseteq Nat \ {0}
  /\ MaxBytes \in Nat /\ MaxFaults \in Nat /\ SOF_KEEPALIVE \in BOOLEAN

VARIABLES
  pcb,         \* the control block
  up, down,    \* segments to the peer [seq, len], ACKs from it [ack, wnd]
  rcvd, read,  \* bytes the peer has received, and its application has read
  faults

sendVars == <<pcb, up, down, rcvd, read, faults>>

End(s) == s.seq + s.len
MinOf(a, b) == IF a < b THEN a ELSE b
MaxOf(a, b) == IF a < b THEN b ELSE a
Last(q) == q[Len(q)]
Without(q, i) == SubSeq(q, 1, i - 1) \o SubSeq(q, i + 1, Len(q))

SendInit ==
  /\ pcb = [unsent |-> <<>>, unacked |-> <<>>, snd_lbb |-> 0, snd_buf |-> TCP_SND_BUF,
            snd_nxt |-> 0, lastack |-> 0, snd_wnd |-> PeerBuf, snd_wl2 |-> 0,
            dupacks |-> 0, nrtx |-> 0, keep_cnt_sent |-> 0, rtime |-> FALSE,
            persist |-> FALSE, TF_INFR |-> FALSE, TF_NAGLEMEMERR |-> FALSE, alive |-> TRUE]
  /\ up = <<>> /\ down = <<>> /\ rcvd = 0 /\ read = 0 /\ faults = 0

-----------------------------------------------------------------------------
(* How far a loop gets that runs over 1 .. n while it is in S.             *)
Leading(S, n) == CHOOSE k \in 0 .. n : 1 .. k \subseteq S /\ (k = n \/ k + 1 \notin S)

(* Mutant: a segment that is sent again goes to the end of the queue.      *)
InsertedLast(q, s) == Append(q, s)

(* A queue with one more segment, sorted as tcp_output and tcp_rexmit do.  *)
Inserted(q, s) ==
  LET k == Leading({i \in DOMAIN q : q[i].seq < s.seq}, Len(q))
  IN  SubSeq(q, 1, k) \o <<s>> \o SubSeq(q, k + 1, Len(q))

(* Segment k of unsent is in the window, and Nagle does not hold it back.  *)
(* Nagle gives way also when pbufs reach TCP_SND_QUEUELEN; pbufs are not   *)
(* counted here, but a tcp_write refused for want of them sets             *)
(* TF_NAGLEMEMERR, with the same effect on the next tcp_output.            *)
MaySend(p, wnd, k) ==
  /\ End(p.unsent[k]) - p.lastack <= wnd
  /\ \/ p.unacked = <<>> /\ k = 1
     \/ p.TF_INFR \/ p.TF_NAGLEMEMERR \/ p.snd_buf = 0
     \/ k < Len(p.unsent) \/ p.unsent[k].len >= MSS

(* The segments that tcp_output sends: as many as may go, in order.        *)
Burst(p, cwnd) ==
  LET wnd == MinOf(p.snd_wnd, cwnd)
      may == {k \in DOMAIN p.unsent : MaySend(p, wnd, k)}
  IN  SubSeq(p.unsent, 1, Leading(may, Len(p.unsent)))

(* A keepalive probe, and its count when it is due.                        *)
tcp_keepalive(p, due) == IF due THEN <<[seq |-> p.snd_nxt - 1, len |-> 0]>> ELSE <<>>
Kept(p, due) == IF due THEN [p EXCEPT !.keep_cnt_sent = @ + 1] ELSE p

(* The queue q after the segments of b were put into it one by one.        *)
Merged(q, b) ==
  LET sorted[k \in 0 .. Len(b)] == IF k = 0 THEN q ELSE Inserted(sorted[k - 1], b[k])
  IN  sorted[Len(b)]

(* tcp_output: the burst b moves to unacked and the timer starts.          *)
tcp_output(p, b) ==
  [p EXCEPT !.unsent = SubSeq(p.unsent, Len(b) + 1, Len(p.unsent)),
            !.unacked = Merged(p.unacked, b),
            !.snd_nxt = IF b = <<>> THEN @ ELSE MaxOf(@, End(Last(b))),
            !.rtime = @ \/ b # <<>>,
            !.TF_NAGLEMEMERR = FALSE]

(* The control block after its handler, and what tcp_output sends of it    *)
(* under the congestion window cwnd that the handler leaves.               *)
Output(p, cwnd, keep) ==
  \E b \in {Burst(p, cwnd)} : \E q \in {tcp_output(p, b)} :
    pcb' = Kept(q, keep) /\ up' = up \o b \o tcp_keepalive(q, keep)

Cwnd == {MSS, MSS + MaxBytes}

-----------------------------------------------------------------------------
(* Segments of at most MSS bytes for the n bytes from position s.          *)
Segments(s, n) ==
  [k \in 1 .. (n + MSS - 1) \div MSS |->
    [seq |-> s + (k - 1) * MSS, len |-> MinOf(MSS, n - (k - 1) * MSS)]]

(* tcp_write fills up the last unsent segment, which may be one that is to *)
(* be sent again, and makes new ones of the rest.                          *)
Queued(p, n) ==
  LET room == IF p.unsent = <<>> THEN 0 ELSE MSS - Last(p.unsent).len
      fill == MinOf(room, n)
      old  == IF fill = 0 THEN p.unsent
              ELSE [p.unsent EXCEPT ![Len(p.unsent)].len = @ + fill]
  IN  [p EXCEPT !.unsent = old \o Segments(p.snd_lbb + fill, n - fill),
                !.snd_lbb = @ + n, !.snd_buf = @ - n]

(* tcp_write and tcp_output of the application; tcp_write refuses what     *)
(* does not fit, or for want of segments and buffers.                      *)
tcp_write(n) ==
  /\ pcb.alive /\ pcb.snd_lbb + n <= MaxBytes
  /\ \/ n <= pcb.snd_buf /\ \E p \in {Queued(pcb, n)}, cwnd \in Cwnd : Output(p, cwnd, FALSE)
     \/ pcb' = [pcb EXCEPT !.TF_NAGLEMEMERR = TRUE] /\ UNCHANGED up
  /\ UNCHANGED <<down, rcvd, read, faults>>

-----------------------------------------------------------------------------
(* Mutant: any ACK brings a new window, whatever overtook it.              *)
NewWindowAlways(p, a) == TRUE

(* An ACK that is newer, or opens the window further, brings the window.   *)
NewWindow(p, a) == p.snd_wl2 < a.ack \/ (p.snd_wl2 = a.ack /\ a.wnd > p.snd_wnd)

(* A zero window starts the persist timer, any other window stops it.      *)
WindowUpdate(p, a) ==
  IF NewWindow(p, a)
  THEN [p EXCEPT !.snd_wnd = a.wnd, !.snd_wl2 = a.ack, !.persist = (a.wnd = 0)]
  ELSE p

(* tcp_rexmit: the first unacked segment goes back to unsent.              *)
tcp_rexmit(p) ==
  [p EXCEPT !.unsent = Inserted(p.unsent, Head(p.unacked)),
            !.unacked = Tail(p.unacked), !.nrtx = (@ + 1) % 256]

tcp_rexmit_fast(p) ==
  IF p.unacked = <<>> \/ p.TF_INFR THEN p ELSE [tcp_rexmit(p) EXCEPT !.TF_INFR = TRUE]

(* An ACK of nothing new: a duplicate if it moves no window edge and data  *)
(* is outstanding.                                                         *)
OldAck(p, a) ==
  LET w == WindowUpdate(p, a)
      dup == /\ w.snd_wl2 + w.snd_wnd = p.snd_wl2 + p.snd_wnd
             /\ p.rtime /\ a.ack = p.lastack
      d == [w EXCEPT !.dupacks = IF dup THEN MinOf(@ + 1, DupThresh + 1) ELSE 0]
  IN  IF dup /\ d.dupacks = DupThresh THEN tcp_rexmit_fast(d) ELSE d

(* Mutant: a segment is done with when its first byte is acknowledged.     *)
AckedSegPartly(s, ack) == s.seq < ack

AckedSeg(s, ack) == End(s) <= ack

(* A queue without the segments at its head that are acknowledged.         *)
Unacked(q, ack) ==
  SubSeq(q, Leading({i \in DOMAIN q : AckedSeg(q[i], ack)}, Len(q)) + 1, Len(q))

(* Mutant: an ACK of new data stops the timer whatever else is under way.  *)
NewAckStopsTimer(p, a) ==
  LET rest == Unacked(p.unacked, a.ack)
  IN  [WindowUpdate(p, a) EXCEPT
         !.TF_INFR = FALSE, !.nrtx = 0, !.dupacks = 0, !.lastack = a.ack,
         !.snd_buf = @ + (a.ack - p.lastack),
         !.unacked = rest, !.rtime = FALSE]

(* Mutant: the retransmissions so far still count after an answer.         *)
NewAckKeepsCount(p, a) ==
  LET rest == Unacked(p.unacked, a.ack)
  IN  [WindowUpdate(p, a) EXCEPT
         !.TF_INFR = FALSE, !.dupacks = 0, !.lastack = a.ack,
         !.snd_buf = @ + (a.ack - p.lastack),
         !.unacked = rest, !.rtime = rest # <<>>]

(* An ACK of data that was sent.                                           *)
NewAck(p, a) ==
  LET rest == Unacked(p.unacked, a.ack)
  IN  [WindowUpdate(p, a) EXCEPT
         !.TF_INFR = FALSE, !.nrtx = 0, !.dupacks = 0, !.lastack = a.ack,
         !.snd_buf = @ + (a.ack - p.lastack),
         !.unacked = rest, !.rtime = rest # <<>>]

(* Segments that wait to be sent again and have been acknowledged by now.  *)
UnsentAcked(p, ack) ==
  IF ack <= p.snd_nxt
  THEN [p EXCEPT !.unsent = Unacked(@, ack)]
  ELSE p

(* tcp_receive of a segment without data, and tcp_output after it.         *)
AckReceived(p, a) ==
  IF a.ack <= p.lastack THEN OldAck(p, a)
  ELSE IF a.ack <= p.snd_nxt THEN NewAck(p, a)
  ELSE WindowUpdate(p, a)

tcp_receive ==
  /\ down # <<>> /\ down' = Tail(down)
  /\ \/ /\ pcb.alive
        /\ \E p \in {UnsentAcked(AckReceived(pcb, Head(down)), Head(down).ack)},
              cwnd \in Cwnd :
             Output([p EXCEPT !.keep_cnt_sent = 0], cwnd, FALSE)
     \/ ~pcb.alive /\ UNCHANGED <<pcb, up>>
  /\ UNCHANGED <<rcvd, read, faults>>

-----------------------------------------------------------------------------
(* tcp_rexmit_rto: everything outstanding is to be sent again.             *)
tcp_rexmit_rto(p) ==
  [p EXCEPT !.unsent = p.unacked \o p.unsent, !.unacked = <<>>, !.nrtx = (@ + 1) % 256]

(* One byte of the first segment, whatever the window.                     *)
tcp_zero_window_probe(p) ==
  LET q == p.unacked \o p.unsent
  IN  IF q = <<>> THEN <<>> ELSE <<[seq |-> Head(q).seq, len |-> 1]>>

(* Too many retransmissions, or too many probes without an answer.         *)
GivesUp(p, keep) == p.nrtx = TCP_MAXRTX \/ (keep /\ p.keep_cnt_sent = KEEP_CNT)

(* tcp_slowtmr with the retransmission or persist timer due, the keepalive *)
(* timer due, or both.                                                     *)
tcp_slowtmr_data(rto, keep) ==
  /\ pcb.alive /\ (keep => SOF_KEEPALIVE)
  /\ \/ up \o down = <<>> /\ UNCHANGED faults
     \/ up \o down # <<>> /\ faults < MaxFaults /\ faults' = faults + 1
  /\ \/ GivesUp(pcb, keep) /\ pcb' = [pcb EXCEPT !.alive = FALSE] /\ UNCHANGED up
     \/ /\ ~GivesUp(pcb, keep) /\ rto /\ ~pcb.persist /\ pcb.unacked # <<>> /\ pcb.rtime
        /\ Output(tcp_rexmit_rto(pcb), MSS, keep)
     \/ /\ ~GivesUp(pcb, keep) /\ rto /\ pcb.persist
        /\ pcb' = Kept(pcb, keep)
        /\ up' = up \o tcp_zero_window_probe(pcb) \o tcp_keepalive(pcb, keep)
     \/ /\ ~GivesUp(pcb, keep)
        /\ ~rto \/ (~pcb.persist /\ (pcb.unacked = <<>> \/ ~pcb.rtime))
        /\ pcb' = Kept(pcb, keep) /\ up' = up \o tcp_keepalive(pcb, keep)
  /\ UNCHANGED <<down, rcvd, read>>

-----------------------------------------------------------------------------
(* The peer: bytes in order up to the end of its buffer, an ACK for every  *)
(* segment, and a window update when its application has read.             *)
Ack(r, d) == [ack |-> r, wnd |-> PeerBuf - (r - d)]

PeerReceives ==
  /\ up # <<>> /\ up' = Tail(up)
  /\ LET s == Head(up)
     IN  rcvd' = IF s.seq <= rcvd /\ rcvd < End(s)
                 THEN MinOf(End(s), read + PeerBuf) ELSE rcvd
  /\ down' = Append(down, Ack(rcvd', read))
  /\ UNCHANGED <<pcb, read, faults>>

PeerReads ==
  /\ read < rcvd /\ read' = rcvd
  /\ down' = Append(down, Ack(rcvd, rcvd))
  /\ UNCHANGED <<pcb, up, rcvd, faults>>

(* A segment is lost, repeated later, or overtaken by the others.          *)
Disturbed(c) ==
  {Without(c, i) : i \in DOMAIN c} \cup {Append(c, c[i]) : i \in DOMAIN c}
    \cup {Append(Without(c, i), c[i]) : i \in DOMAIN c}

Fault ==
  /\ faults < MaxFaults /\ faults' = faults + 1
  /\ \/ up' \in Disturbed(up) /\ UNCHANGED down
     \/ down' \in Disturbed(down) /\ UNCHANGED up
  /\ UNCHANGED <<pcb, rcvd, read>>

-----------------------------------------------------------------------------
SendNext ==
  \/ \E n \in 1 .. TCP_SND_BUF : tcp_write(n)
  \/ tcp_receive \/ PeerReceives \/ PeerReads \/ Fault
  \/ \E rto, keep \in BOOLEAN : tcp_slowtmr_data(rto, keep)

SendSpec == SendInit /\ [][SendNext]_sendVars

(* Segments arrive and the peer reads.  The retransmission and persist     *)
(* timers count every tick of the superloop, so that they come due whatever*)
(* arrives in between (strong fairness); the keepalive timer starts again  *)
(* with every segment that arrives (weak fairness).                        *)
SendFairSpec ==
  /\ SendSpec
  /\ WF_sendVars(tcp_receive) /\ WF_sendVars(PeerReceives) /\ WF_sendVars(PeerReads)
  /\ SF_sendVars(\E keep \in BOOLEAN : tcp_slowtmr_data(TRUE, keep))
  /\ WF_sendVars(\E rto \in BOOLEAN : tcp_slowtmr_data(rto, SOF_KEEPALIVE))

-----------------------------------------------------------------------------
Outstanding == pcb.unacked \o pcb.unsent

(* Well-formed queues and counters inside their ranges; the free space of  *)
(* the send buffer is what is neither acknowledged nor waiting.            *)
SendTypeOK ==
  /\ \A i \in DOMAIN Outstanding : Outstanding[i].seq \in 0 .. MaxBytes /\ Outstanding[i].len \in 1 .. MSS
  /\ pcb.snd_buf = TCP_SND_BUF - (pcb.snd_lbb - pcb.lastack)
  /\ pcb.snd_buf \in 0 .. TCP_SND_BUF
  /\ pcb.lastack <= pcb.snd_nxt /\ pcb.snd_nxt <= pcb.snd_lbb
  /\ pcb.nrtx \in 0 .. 255 /\ pcb.keep_cnt_sent \in 0 .. KEEP_CNT
  /\ pcb.dupacks \in 0 .. DupThresh + 1
  /\ rcvd \in 0 .. pcb.snd_lbb /\ read \in 0 .. rcvd

(* A byte the peer does not have is in exactly one segment, whatever was   *)
(* retransmitted, acknowledged in part or filled up in between.            *)
NothingLost ==
  \A b \in rcvd .. pcb.snd_lbb - 1 :
    \E i \in DOMAIN Outstanding :
      /\ Outstanding[i].seq <= b /\ b < End(Outstanding[i])
      /\ \A j \in DOMAIN Outstanding \ {i} :
           ~(Outstanding[j].seq <= b /\ b < End(Outstanding[j]))

(* The counters fit the queues, and both queues stay in the order of the   *)
(* stream, which every loop over them relies on ("keeping the list         *)
(* sorted").                                                               *)
QueuesSorted ==
  /\ SendTypeOK
  /\ \A q \in {pcb.unacked, pcb.unsent} :
       \A i, j \in DOMAIN q : i < j => End(q[i]) <= q[j].seq

(* No byte of s lies beyond edge, but a single byte may be the next one.   *)
Within(s, edge) == s.len = 0 \/ End(s) <= edge + (IF s.len = 1 THEN 1 ELSE 0)

(* Nothing is sent beyond the window that the peer has offered, although   *)
(* old ACKs with old windows arrive late.  The byte of a probe may be the  *)
(* one after the window, never a later one: it is the first outstanding.   *)
InWindow == \A i \in DOMAIN up : Within(up[i], read + PeerBuf)

(* The connection is given up only when as many segments were lost or late *)
(* as retransmissions or probes are allowed: no answer is counted against  *)
(* it.                                                                     *)
GivenUpForCause == pcb.alive \/ faults >= MinOf(TCP_MAXRTX, KEEP_CNT)

(* Every byte written is acknowledged in the end, or the connection is     *)
(* given up: neither lost window updates nor small windows stall it.       *)
AllAcked ==
  pcb.lastack < pcb.snd_lbb ~> (pcb.lastack = pcb.snd_lbb \/ ~pcb.alive)

=============================================================================
