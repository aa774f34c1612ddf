--------------------------- MODULE IapTftpProofs ---------------------------
(***************************************************************************)
(* What a transfer acknowledges is written, and what is started is whole,  *)
(* for all images, all sizes of blocks, pages and area, and any number of  *)
(* clients, requests, flash errors and power failures.                     *)
(*                                                                         *)
(* The argument goes round once: a client sends a block only after the one *)
(* before was acknowledged (ClientInv, NetInv), an acknowledgement is the  *)
(* number of the last block written (AckInv), and so a transfer that is    *)
(* alone meets its blocks in order (WrittenInv).  Errors a client sends to *)
(* ports it does not know reach only transfers that have nothing written.  *)
(***************************************************************************)
EXTENDS IapTftp, FiniteSetTheorems, WellFoundedInduction, TLAPS

(* A block of the image of m.u, and the error of ClientRefuses.            *)
Data(m)    == /\ m.block \in 1 .. LastBlock(m.u) /\ m.words = WordsOf(m.u, m.block)
              /\ m.data = m.u
IsError(m) == m.block = 5 /\ m.data = None /\ m.words = ErrorWords

(* The datagrams that one attempt of a client has sent to one port.        *)
Peers(m) == {k \in net : k.u = m.u /\ k.try = m.try /\ k.port = m.port}

(* Datagrams, acknowledgements and who handled them are what they seem.    *)
NetType ==
  /\ client \in [Uploads -> [at : {"off", "asked", "sending", "done"}, port : Nat,
                             life : Nat, block : Nat, try : Nat]]
  /\ net \in SUBSET [u : Uploads, try : Nat, port : Nat, life : Nat, block : Nat,
                     data : Uploads \cup {None}, words : 0 .. BlockWords]
  /\ acks \in SUBSET [u : Uploads, try : Nat, port : Nat, life : Nat, block : Nat]
  /\ wrqs \in Nat /\ errors \in Nat /\ resets \in Nat
  /\ hands \in SUBSET (Nat \X Nat \X Uploads \X Nat) /\ IsFiniteSet(hands)
  /\ DOMAIN session # {} => pc = "run" /\ hands # {}

(* What the client of u has sent in its present attempt: the blocks up to  *)
(* its own, to its port, and errors to other ports.                        *)
ClientOf(u) ==
  LET c == client[u]
  IN  /\ c.at = "asked" => c.block = 0 /\ c.port = 0 /\ c.life = 0
      /\ c.at = "sending" => /\ c.port # 0 /\ c.block \in 1 .. LastBlock(u)
                             /\ Datagram(u, c) \in net
      /\ \A m \in net : m.u = u =>
           /\ m.try <= c.try
           /\ m.try = c.try /\ m.port # 0 =>
                /\ c.at \in {"sending", "done"}
                /\ IF m.port = c.port THEN Data(m) /\ m.block <= c.block ELSE IsError(m)

ClientInv == \A u \in Uploads : ClientOf(u)

(* A datagram m is of a life there was and a port that was given out, and  *)
(* its peers are blocks if it is one.  A block on a live port is at most   *)
(* the one that is expected.                                               *)
NetOf(m) ==
  /\ m.life <= resets
  /\ pc # "app" /\ m.life = resets => m.port <= port
  /\ m.port # 0 => \A k \in Peers(m) : (IsError(m) /\ IsError(k)) \/ (Data(m) /\ Data(k))
  /\ m.port \in DOMAIN session /\ m.life = resets =>
       m.block <= session[m.port] + 1 \/ \A k \in Peers(m) : IsError(k)

NetInv == \A m \in net : NetOf(m)

(* Block b was sent to port p, and p of life l answered its sender.        *)
Traced(p, l, b) ==
  \E m \in net, a \in acks :
    m.port = p /\ m.block = b /\ a.port = p /\ a.life = l /\ a.u = m.u /\ a.try = m.try

(* An acknowledgement is not above what its port has got.                  *)
AckOf(a) ==
  /\ a.port # 0 /\ a.life <= resets
  /\ pc # "app" /\ a.life = resets => a.port <= port
  /\ a.port \in DOMAIN session /\ a.life = resets => a.block <= session[a.port]
  /\ a.block # 0 => Traced(a.port, a.life, a.block)

AckInv ==
  /\ \A a \in acks : AckOf(a)
  /\ \A s \in DOMAIN session : session[s] # 0 => Traced(s, resets, session[s])

(* The first n words of u are in the area, nothing else, and n + 1 is next. *)
Written(u, n) ==
  /\ addr = n + 1
  /\ \A k \in Area : app[k] = IF k <= n THEN <<u, k>> ELSE Empty

Alone == \A g, h \in hands : g = h

(* A transfer that is alone has written its blocks in order, has got them  *)
(* from its client, and is not at its end.                                 *)
WrittenOf(s, h) ==
  /\ h[2] = resets /\ session[s] < LastBlock(h[3])
  /\ Written(h[3], session[s] * BlockWords)
  /\ session[s] # 0 => \E m \in net : Hand(m) = h /\ Data(m) /\ m.block = session[s]

WrittenInv ==
  Alone /\ ~fault => \A s \in DOMAIN session, h \in hands : h[1] = s => WrittenOf(s, h)

(* The mode says "app" only behind a whole image, and the IAP program does *)
(* not run then.                                                           *)
StartInv ==
  ~forced =>
    /\ mode = "app" => pc # "run" /\ StackValid(app)
    /\ (pc = "app" \/ mode = "app") /\ Alone /\ ~fault => \E u \in Uploads : Holds(u)

IInv == TypeOK /\ NetType /\ ClientInv /\ NetInv /\ AckInv /\ WrittenInv /\ StartInv

-----------------------------------------------------------------------------
(* Numbers.                                                                *)

(* The sizes are positive.                                                 *)
LEMMA Sizes ==
  /\ BlockWords \in Nat \ {0} /\ AreaWords \in Nat \ {0} /\ PageWords \in Nat \ {0}
  /\ NPcb \in Nat /\ \A u \in Uploads : ImageLen[u] \in Nat \ {0}
  /\ ErrorWords \in 1 .. BlockWords - 1
  BY TftpAssumption

(* A set of naturals has a least element.                                  *)
LEMMA Least ==
  ASSUME NEW S \in SUBSET Nat, S # {}
  PROVE  \E m \in S : \A k \in S : m <= k
<1>1. PICK x \in S : \A y \in S : ~(<<y, x>> \in OpToRel(<, Nat))
  BY NatLessThanWellFounded, WFMin
<1>2. \A y \in S : ~(y < x)
  BY <1>1 DEF OpToRel
<1> QED
  BY <1>2

(* A set of naturals with a bound has a greatest element, and Max is it.   *)
LEMMA Greatest ==
  ASSUME NEW n \in Nat, NEW S \in SUBSET (0 .. n), S # {}
  PROVE  Max(S) \in S /\ \A k \in S : k <= Max(S)
<1> DEFINE T == {i \in Nat : \A k \in S : k <= i}
<1>1. n \in T
  OBVIOUS
<1>2. PICK i \in T : \A j \in T : i <= j
  BY <1>1, Least
<1>3. i \in S
  <2> SUFFICES ASSUME i \notin S PROVE FALSE
    OBVIOUS
  <2>1. \A k \in S : k \in Nat /\ k <= i /\ k # i
    OBVIOUS
  <2>2. \A k \in S : k <= i - 1
    BY <2>1
  <2>3. i - 1 \in Nat
    <3>1. PICK k \in S : TRUE
      OBVIOUS
    <3>2. k \in Nat /\ k <= i /\ k # i /\ i \in Nat
      BY <2>1
    <3> QED
      BY <3>2
  <2>4. i - 1 \in T
    BY <2>2, <2>3
  <2> QED
    BY <1>2, <2>4
<1>4. i \in S /\ \A k \in S : i >= k
  BY <1>3
<1>5. Max(S) \in S /\ \A k \in S : Max(S) >= k
  BY <1>4 DEF Max
<1> QED
  BY <1>5

(* The smaller of two.                                                     *)
LEMMA MinOfTwo ==
  ASSUME NEW x \in Int, NEW y \in Int, x <= y
  PROVE  Min({x, y}) = x
  BY DEF Min

(* Whole blocks and the rest of an image.                                  *)
LEMMA Blocks ==
  ASSUME NEW u \in Uploads
  PROVE  /\ LastBlock(u) \in Nat \ {0}
         /\ \A b \in Nat : WordsOf(u, b) \in 0 .. BlockWords
         /\ \A b \in Nat : b < LastBlock(u) => WordsOf(u, b) = BlockWords
         /\ WordsOf(u, LastBlock(u)) < BlockWords
         /\ \A s \in Nat : s < LastBlock(u) =>
              /\ s * BlockWords \in Nat /\ s * BlockWords <= ImageLen[u]
              /\ FirstOf(s + 1) = s * BlockWords + 1
              /\ s + 1 < LastBlock(u) =>
                   s * BlockWords + WordsOf(u, s + 1) = (s + 1) * BlockWords
              /\ s + 1 = LastBlock(u) =>
                   s * BlockWords + WordsOf(u, s + 1) = ImageLen[u]
<1> DEFINE I == ImageLen[u]
           B == BlockWords
           q == I \div B
           r == I % B
<1>1. I \in Nat \ {0} /\ B \in Nat \ {0}
  BY Sizes
<1> HIDE DEF I, B
<1>2. q \in Nat /\ r \in 0 .. B - 1 /\ I = B * q + r
  BY <1>1
<1> HIDE DEF q, r
<1>3. LastBlock(u) = q + 1 /\ \A b : WordsOf(u, b) = IF b < q + 1 THEN B ELSE r
  BY DEF LastBlock, WordsOf, q, r, I, B
<1>4. \A s \in Nat : s < q + 1 => s * B \in Nat /\ s * B <= B * q
  BY <1>1, <1>2
<1>5. \A s \in Nat : FirstOf(s + 1) = s * B + 1
  <2> TAKE s \in Nat
  <2>1. (s + 1) - 1 = s
    OBVIOUS
  <2> QED
    BY <2>1 DEF FirstOf, B
<1>6. \A s \in Nat : (s + 1) * B = s * B + B
  BY <1>1
<1>7. q * B = B * q
  BY <1>1, <1>2
<1> QED
  BY <1>1, <1>2, <1>3, <1>4, <1>5, <1>6, <1>7 DEF I, B

(* Every word of the area is in one of the pages.                          *)
LEMMA PagesCover ==
  /\ Cardinality(Pages) \in Nat
  /\ \A k \in Area : (k - 1) \div PageWords < Cardinality(Pages)
<1> DEFINE P == PageWords
           q == (AreaWords - 1) \div P
<1>1. P \in Nat \ {0} /\ AreaWords \in Nat \ {0}
  BY Sizes
<1> HIDE DEF P
<1>2. q \in Nat /\ AreaWords - 1 < P * q + P
  BY <1>1
<1>3. Cardinality(Pages) = q + 1
  BY <1>2, FS_Interval DEF Pages, P
<1> HIDE DEF q
<1>4. ASSUME NEW k \in Area PROVE (k - 1) \div P < q + 1
  <2> DEFINE x == (k - 1) \div P
  <2>1. k - 1 \in Nat /\ k - 1 <= AreaWords - 1
    BY <1>1 DEF Area
  <2>2. x \in Nat /\ P * x <= k - 1
    BY <1>1, <2>1
  <2> HIDE DEF x
  <2>3. P * x < P * (q + 1)
    BY <1>1, <1>2, <2>1, <2>2
  <2>4. x < q + 1
    BY <1>1, <1>2, <2>2, <2>3
  <2> QED
    BY <2>4 DEF x
<1> QED
  BY <1>2, <1>3, <1>4 DEF P

(* How many words can be programmed: those that are erased, in the area.   *)
LEMMA ProgrammableIs ==
  ASSUME NEW len \in Nat
  PROVE  /\ Programmable(len) \in 0 .. len
         /\ Programmable(len) # 0 =>
              ~pgerr /\ \A k \in addr .. addr + Programmable(len) - 1 : k \in Area
<1> DEFINE S == {n \in 0 .. len : n = 0 \/ (~pgerr /\ \A k \in addr .. addr + n - 1 :
                                     k \in Area /\ app[k] = Empty)}
<1>1. S \in SUBSET (0 .. len) /\ 0 \in S
  OBVIOUS
<1>2. Programmable(len) = Max(S)
  BY DEF Programmable
<1> HIDE DEF S
<1>3. Max(S) \in S
  BY <1>1, Greatest
<1> QED
  BY <1>2, <1>3 DEF S

(* At most one hand is one hand.                                           *)
LEMMA AloneIs ==
  ASSUME IsFiniteSet(hands), Cardinality(hands) <= 1
  PROVE  Alone
<1>1. Cardinality(hands) \in Nat
  BY FS_CardinalityType
<1>2. Cardinality(hands) = 0 \/ Cardinality(hands) = 1
  BY <1>1
<1>3. hands = {} \/ \E x : hands = {x}
  BY <1>2, FS_EmptySet, FS_Singleton
<1> QED
  BY <1>3 DEF Alone

-----------------------------------------------------------------------------
(* What a step leaves alone.                                               *)

(* Datagrams to a transfer stay in the net.                                *)
Kept == \A m \in net : m.port # 0 => m \in net'

(* Sessions are on ports above 0.                                          *)
LEMMA Ports == TypeOK => \A s \in DOMAIN session : s \in Nat /\ s # 0 /\ s <= port /\ session[s] \in Nat
  BY DEF TypeOK

(* The flash, the sessions and the program counter.                        *)
LEMMA TypeStable ==
  ASSUME TypeOK, UNCHANGED <<flashVars, session, port, pc, fault, forced>>
  PROVE  TypeOK'
  BY Zenon DEF TypeOK, flashVars

(* The clients, when no datagram is sent.                                  *)
LEMMA ClientStable ==
  ASSUME ClientInv, UNCHANGED client, net' \subseteq net, Kept
  PROVE  ClientInv'
<1> SUFFICES ASSUME NEW u \in Uploads PROVE ClientOf(u)'
  BY DEF ClientInv
<1>1. ClientOf(u)
  BY DEF ClientInv
<1>2. Datagram(u, client[u]) \in net /\ client[u].port # 0 => Datagram(u, client[u]) \in net'
  BY DEF Kept, Datagram
<1> QED
  BY <1>1, <1>2 DEF ClientOf

(* A trace is not lost.                                                    *)
LEMMA TracedStable ==
  ASSUME Kept, acks \subseteq acks', NEW p, p # 0, NEW l, NEW b, Traced(p, l, b)
  PROVE  Traced(p, l, b)'
  BY DEF Kept, Traced

(* The acknowledgements.                                                   *)
LEMMA AckStable ==
  ASSUME TypeOK, AckInv, Kept, UNCHANGED <<acks, port, session, resets>>,
         pc = "app" => pc' = "app"
  PROVE  AckInv'
<1>1. \A s \in DOMAIN session : session[s] # 0 => Traced(s, resets, session[s])'
  BY TracedStable, Ports DEF AckInv
<1>2. ASSUME NEW a \in acks PROVE AckOf(a)'
  <2>1. AckOf(a)
    BY DEF AckInv
  <2>2. a.block # 0 => Traced(a.port, a.life, a.block)'
    BY <2>1, TracedStable DEF AckOf
  <2> QED
    BY <2>1, <2>2 DEF AckOf
<1> QED
  BY <1>1, <1>2 DEF AckInv

(* What was written.                                                       *)
LEMMA WrittenStable ==
  ASSUME TypeOK, WrittenInv, Kept, UNCHANGED <<app, addr, session, hands, fault, resets>>
  PROVE  WrittenInv'
<1> SUFFICES ASSUME Alone, ~fault, NEW s \in DOMAIN session, NEW h \in hands, h[1] = s
             PROVE  WrittenOf(s, h)'
  BY DEF WrittenInv, Alone
<1>1. WrittenOf(s, h)
  BY DEF WrittenInv
<1>2. ASSUME NEW m \in net, Hand(m) = h PROVE m \in net'
  BY <1>2, Ports DEF Hand, Kept
<1>3. session[s] # 0 => \E m \in net' : Hand(m) = h /\ Data(m) /\ m.block = session[s]
  BY <1>1, <1>2 DEF WrittenOf
<1> QED
  BY <1>1, <1>3 DEF WrittenOf, Written

(* What may be started.                                                    *)
LEMMA StartStable ==
  ASSUME StartInv, UNCHANGED <<app, mode, pc, hands, fault, forced>>
  PROVE  StartInv'
  BY DEF StartInv, Alone, Holds, StackValid

(* A datagram goes to a port that the client refuses, or to its own port.  *)
LikeErrors(d) == IsError(d) /\ \A k \in Peers(d) : IsError(k)
LikeBlocks(d) ==
  /\ Data(d) /\ \A k \in Peers(d) : Data(k)
  /\ Peers(d) # {} => \E k \in Peers(d) : ~IsError(k)
  /\ d.port \in DOMAIN session /\ d.life = resets => d.block <= session[d.port] + 1

(* A datagram is added: it is like those its client sent to that port.     *)
LEMMA NetGrows ==
  ASSUME TypeOK, NetInv, NEW d, net' = net \cup {d}, UNCHANGED <<pc, port, session, resets>>,
         d.life <= resets, pc # "app" /\ d.life = resets => d.port <= port,
         d.port = 0 \/ LikeErrors(d) \/ LikeBlocks(d)
  PROVE  NetInv'
<1> USE DEF LikeErrors, LikeBlocks
<1> SUFFICES ASSUME NEW m \in net' PROVE NetOf(m)'
  BY DEF NetInv
<1> DEFINE same(x, y) == x.u = y.u /\ x.try = y.try /\ x.port = y.port
<1>1. \A k : k \in Peers(m)' <=> (k \in Peers(m) \/ (k = d /\ same(d, m)))
  BY DEF Peers
<1>2. CASE m = d
  <2>1. \A k \in Peers(d)' : k = d \/ k \in Peers(d)
    BY <1>1, <1>2
  <2> QED
    BY <1>2, <2>1, Ports DEF NetOf
<1>3. CASE m \in net
  <2>1. NetOf(m)
    BY <1>3 DEF NetInv
  <2>2. CASE ~same(d, m)
    <3>1. Peers(m)' = Peers(m)
      BY <1>1, <2>2
    <3> QED
      BY <2>1, <3>1 DEF NetOf
  <2>3. CASE same(d, m)
    <3>1. Peers(m) = Peers(d) /\ m \in Peers(m)
      BY <1>3, <2>3 DEF Peers
    <3>2. \A k \in Peers(m)' : k = d \/ k \in Peers(m)
      BY <1>1
    <3>3. m.port = d.port
      BY <2>3
    <3>4. CASE d.port = 0
      BY <2>1, <3>3, <3>4, Ports DEF NetOf
    <3>5. CASE LikeErrors(d)
      BY <2>1, <3>1, <3>2, <3>5 DEF NetOf
    <3>6. CASE LikeBlocks(d)
      <4>1. \E k \in Peers(m) : ~IsError(k)
        BY <3>1, <3>6
      <4> QED
        BY <2>1, <3>1, <3>2, <3>6, <4>1 DEF NetOf
    <3> QED
      BY <3>4, <3>5, <3>6
  <2> QED
    BY <2>2, <2>3
<1> QED
  BY <1>2, <1>3

(* A step of a client is its own affair.                                   *)
LEMMA ClientStep ==
  ASSUME IInv, UNCHANGED <<gatewayVars, acks>>, net \subseteq net',
         NetType', ClientInv', NetInv'
  PROVE  IInv'
<1>1. /\ UNCHANGED <<app, mode, addr, pgerr, session, port, pc, errors, resets>>
      /\ UNCHANGED <<hands, fault, forced>> /\ Kept
  BY DEF gatewayVars, flashVars, histVars, Kept
<1>2. TypeOK'
  BY <1>1, TypeStable DEF IInv, flashVars
<1>3. AckInv'
  BY <1>1, AckStable DEF IInv
<1>4. WrittenInv'
  BY <1>1, WrittenStable DEF IInv
<1>5. StartInv'
  BY <1>1, StartStable DEF IInv
<1> QED
  BY <1>2, <1>3, <1>4, <1>5 DEF IInv

-----------------------------------------------------------------------------
(* Clients.                                                                *)

(* Types of a datagram and of a client's record.                           *)
LEMMA DatagramType ==
  ASSUME NEW u \in Uploads,
         NEW c \in [at : {"off", "asked", "sending", "done"}, port : Nat, life : Nat,
                    block : Nat, try : Nat]
  PROVE  Datagram(u, c) \in [u : Uploads, try : Nat, port : Nat, life : Nat, block : Nat,
                             data : Uploads \cup {None}, words : 0 .. BlockWords]
<1>1. 0 \in 0 .. BlockWords /\ WordsOf(u, c.block) \in 0 .. BlockWords
  BY Blocks, Sizes
<1> QED
  BY <1>1 DEF Datagram

(* The client's record when it asks.                                       *)
LEMMA RecordAsks ==
  ASSUME NEW t \in Nat, NEW c, c = [Idle EXCEPT !.at = "asked", !.try = t]
  PROVE  /\ c.at = "asked" /\ c.port = 0 /\ c.life = 0 /\ c.block = 0 /\ c.try = t
         /\ c \in [at : {"off", "asked", "sending", "done"}, port : Nat, life : Nat,
                   block : Nat, try : Nat]
<1>1. c.at = "asked" /\ c.port = 0 /\ c.life = 0 /\ c.block = 0 /\ c.try = t
  BY DEF Idle
<1>2. c \in [at : {"off", "asked", "sending", "done"}, port : Nat, life : Nat,
             block : Nat, try : Nat]
  BY DEF Idle
<1> QED
  BY <1>1, <1>2

(* The client's record when it sends a block.                              *)
LEMMA RecordSends ==
  ASSUME NEW c \in [at : {"off", "asked", "sending", "done"}, port : Nat, life : Nat,
                    block : Nat, try : Nat],
         NEW p \in Nat, NEW l \in Nat, NEW b \in Nat,
         NEW e, e = [c EXCEPT !.at = "sending", !.port = p, !.life = l, !.block = b]
  PROVE  /\ e.at = "sending" /\ e.port = p /\ e.life = l /\ e.block = b /\ e.try = c.try
         /\ e \in [at : {"off", "asked", "sending", "done"}, port : Nat, life : Nat,
                   block : Nat, try : Nat]
<1>1. e.at = "sending" /\ e.port = p /\ e.life = l /\ e.block = b /\ e.try = c.try
  OBVIOUS
<1>2. e \in [at : {"off", "asked", "sending", "done"}, port : Nat, life : Nat,
             block : Nat, try : Nat]
  OBVIOUS
<1> QED
  BY <1>1, <1>2

(* The move of one client: the others see no datagram of theirs.           *)
LEMMA OtherClients ==
  ASSUME ClientInv, NEW u \in Uploads, NEW c, client' = [client EXCEPT ![u] = c], NetType,
         net' = net \/ \E d : d.u = u /\ net' = net \cup {d},
         ClientOf(u)'
  PROVE  ClientInv'
<1> SUFFICES ASSUME NEW v \in Uploads, v # u PROVE ClientOf(v)'
  BY DEF ClientInv
<1>1. ClientOf(v)
  BY DEF ClientInv
<1>2. client'[v] = client[v]
  BY DEF NetType
<1>3. net \subseteq net' /\ \A m \in net' : m.u = v => m \in net
  OBVIOUS
<1> QED
  BY <1>1, <1>2, <1>3 DEF ClientOf

(* The request.                                                            *)
LEMMA AsksInv ==
  ASSUME IInv, NEW u \in Uploads, ClientAsks(u)
  PROVE  IInv'
<1> USE DEF IInv
<1> DEFINE C == [at : {"off", "asked", "sending", "done"}, port : Nat, life : Nat,
                 block : Nat, try : Nat]
<1>1. client[u] \in C /\ ClientOf(u) /\ resets \in Nat /\ port \in Nat
  BY DEF NetType, ClientInv, TypeOK
<1>2. PICK c \in C : /\ c.at = "asked" /\ c.port = 0 /\ c.life = 0 /\ c.block = 0
                     /\ client[u].try < c.try \/ (c = client[u] /\ client[u].at = "asked")
                     /\ ClientMoves(u, c)
  <2>1. CASE ClientMoves(u, [Idle EXCEPT !.at = "asked", !.try = client[u].try + 1])
    <3>1. PICK t \in Nat : t = client[u].try + 1 /\ client[u].try < t
      BY <1>1
    <3>2. PICK c : c = [Idle EXCEPT !.at = "asked", !.try = t]
      OBVIOUS
    <3>3. c \in C /\ c.at = "asked" /\ c.port = 0 /\ c.life = 0 /\ c.block = 0 /\ c.try = t
      BY <3>2, RecordAsks
    <3> QED
      BY <2>1, <3>1, <3>2, <3>3
  <2>2. CASE client[u].at = "asked" /\ ClientMoves(u, client[u])
    BY <1>1, <2>2 DEF ClientOf
  <2> QED
    BY <2>1, <2>2 DEF ClientAsks
<1>d. PICK d : d = Datagram(u, c)
  OBVIOUS
<1>3. /\ client' = [client EXCEPT ![u] = c] /\ net' = net \cup {d} /\ wrqs' = wrqs + 1
      /\ UNCHANGED <<gatewayVars, acks>>
  BY <1>2, <1>d DEF ClientMoves, ClientAsks
<1>4. d.u = u /\ d.try = c.try /\ d.port = 0 /\ d.life = 0 /\ client'[u] = c
  BY <1>2, <1>d, <1>3 DEF Datagram, NetType
<1>5. NetType'
  <2>1. d \in [u : Uploads, try : Nat, port : Nat, life : Nat, block : Nat,
               data : Uploads \cup {None}, words : 0 .. BlockWords]
    BY <1>d, DatagramType
  <2>2. client' \in [Uploads -> C]
    BY <1>3 DEF NetType
  <2>3. wrqs' \in Nat
    BY <1>3 DEF NetType
  <2> QED
    BY <1>3, <2>1, <2>2, <2>3 DEF NetType, gatewayVars, histVars
<1>6. ClientInv'
  <2>1. ClientOf(u)'
    <3>1. ASSUME NEW m \in net', m.u = u
          PROVE  m.try <= c.try /\ ~(m.try = c.try /\ m.port # 0)
      <4>1. CASE m = d
        BY <1>2, <1>4, <4>1
      <4>2. CASE m \in net
        <5>1. m.try \in Nat /\ c.try \in Nat /\ client[u].try \in Nat
          BY <1>1, <4>2 DEF NetType
        <5>2. m.try <= client[u].try
          BY <1>1, <3>1, <4>2 DEF ClientOf
        <5>3. client[u].at = "asked" => ~(m.try = client[u].try /\ m.port # 0)
          BY <1>1, <3>1, <4>2 DEF ClientOf
        <5> QED
          BY <1>2, <5>1, <5>2, <5>3
      <4> QED
        BY <1>3, <4>1, <4>2
    <3> QED
      BY <1>2, <1>3, <1>4, <1>d, <3>1 DEF ClientOf
  <2> QED
    BY <1>3, <1>4, <2>1, OtherClients
<1>7. NetInv'
  <2>1. UNCHANGED <<pc, port, session, resets>>
    BY <1>3 DEF gatewayVars
  <2>2. d.life <= resets /\ d.port <= port
    BY <1>1, <1>4
  <2> QED
    BY <1>3, <1>4, <2>1, <2>2, NetGrows
<1> QED
  BY <1>3, <1>5, <1>6, <1>7, ClientStep

(* The acknowledgement the client waits for.                               *)
LEMMA ReceivesInv ==
  ASSUME IInv, NEW u \in Uploads, NEW a \in acks, ClientReceives(u, a)
  PROVE  IInv'
<1> USE DEF IInv
<1> DEFINE C == [at : {"off", "asked", "sending", "done"}, port : Nat, life : Nat,
                 block : Nat, try : Nat]
           c == client[u]
<1>1. c \in C /\ ClientOf(u) /\ AckOf(a) /\ resets \in Nat
  BY DEF NetType, ClientInv, AckInv
<1>2. a.u = u /\ a.try = c.try /\ a.port \in Nat /\ a.life \in Nat /\ a.block \in Nat
  BY DEF ClientReceives, NetType
<1>3. \/ c.at = "asked" /\ a.block = 0
      \/ c.at = "sending" /\ a.port = c.port /\ a.block = c.block
  BY DEF ClientReceives
<1>4. UNCHANGED <<gatewayVars, acks, wrqs>>
  BY DEF ClientReceives
<1>5. UNCHANGED <<pc, port, session, resets, hands, errors>>
  BY <1>4 DEF gatewayVars, histVars
<1>6. CASE c.at = "sending" /\ c.block = LastBlock(u)
  <2> DEFINE e == [c EXCEPT !.at = "done"]
  <2>1. client' = [client EXCEPT ![u] = e] /\ net' = net
    BY <1>6 DEF ClientReceives, ClientMoves
  <2>2. e \in C /\ e.at = "done" /\ e.port = c.port /\ e.block = c.block /\ e.try = c.try
    BY <1>1
  <2>3. client'[u] = e
    BY <2>1 DEF NetType
  <2> HIDE DEF e
  <2>4. NetType'
    <3>1. client' \in [Uploads -> C]
      BY <2>1, <2>2 DEF NetType
    <3> QED
      BY <1>4, <1>5, <2>1, <3>1 DEF NetType
  <2>5. ClientInv'
    <3>1. ClientOf(u)'
      BY <1>1, <1>6, <2>1, <2>2, <2>3 DEF ClientOf
    <3> QED
      BY <2>1, <3>1, OtherClients
  <2>6. NetInv'
    BY <1>5, <2>1 DEF NetInv, NetOf, Peers
  <2> QED
    BY <1>4, <2>1, <2>4, <2>5, <2>6, ClientStep
<1>7. CASE ~(c.at = "sending" /\ c.block = LastBlock(u))
  <2>e. PICK e : e = [c EXCEPT !.at = "sending", !.port = a.port, !.life = a.life,
                               !.block = c.block + 1]
    OBVIOUS
  <2>d. PICK d : d = Datagram(u, e)
    OBVIOUS
  <2>2. /\ e \in C /\ e.at = "sending" /\ e.port = a.port /\ e.life = a.life
        /\ e.block = c.block + 1 /\ e.try = c.try
    <3>1. PICK b \in Nat : b = c.block + 1
      BY <1>1
    <3>2. PICK x \in C : x = c
      BY <1>1
    <3> QED
      BY <1>2, <2>e, <3>1, <3>2, RecordSends
  <2>1. client' = [client EXCEPT ![u] = e] /\ net' = net \cup {d}
    BY <1>7, <1>1, <2>2, <2>d, <2>e DEF ClientReceives, ClientMoves
  <2>3. client'[u] = e
    BY <2>1 DEF NetType
  <2>4. d \in [u : Uploads, try : Nat, port : Nat, life : Nat, block : Nat,
               data : Uploads \cup {None}, words : 0 .. BlockWords]
    BY <2>2, <2>d, DatagramType
  <2>5. /\ c.block \in Nat /\ LastBlock(u) \in Nat \ {0} /\ c.block < LastBlock(u)
        /\ a.block = c.block
    <3>1. c.block \in Nat /\ LastBlock(u) \in Nat \ {0}
      BY <1>1, Blocks
    <3> QED
      BY <1>1, <1>3, <1>7, <3>1 DEF ClientOf
  <2>6. /\ d.u = u /\ d.try = c.try /\ d.port = a.port /\ d.life = a.life
        /\ d.block = c.block + 1 /\ d.words = WordsOf(u, c.block + 1) /\ d.data = u
    BY <2>2, <2>5, <2>d DEF Datagram
  <2>7. Data(d)
    BY <2>5, <2>6 DEF Data
  <2>8. \A m \in net : m.u = u /\ m.try = c.try /\ m.port # 0 => c.at = "sending"
    BY <1>1, <1>3 DEF ClientOf
  <2>9. \A k \in Peers(d) : c.at = "sending" /\ Data(k) /\ k.block <= c.block
    BY <1>1, <1>2, <1>3, <2>6, <2>8 DEF Peers, AckOf, ClientOf
  <2>10. Peers(d) # {} => \E k \in Peers(d) : ~IsError(k)
    <3> SUFFICES ASSUME c.at = "sending" PROVE \E k \in Peers(d) : ~IsError(k)
      BY <2>9
    <3>1. Datagram(u, c) \in net /\ c.block # 0 /\ a.port = c.port
      BY <1>1, <1>3, <2>5 DEF ClientOf
    <3>2. Datagram(u, c) \in Peers(d) /\ Datagram(u, c).words = WordsOf(u, c.block)
      BY <2>6, <3>1 DEF Peers, Datagram
    <3>3. WordsOf(u, c.block) = BlockWords /\ BlockWords # ErrorWords
      BY <2>5, Blocks, Sizes
    <3> QED
      BY <3>2, <3>3 DEF IsError
  <2>11. NetType'
    <3>1. client' \in [Uploads -> C]
      BY <2>1, <2>2 DEF NetType
    <3> QED
      BY <1>4, <1>5, <2>1, <2>4, <3>1 DEF NetType
  <2>12. ClientInv'
    <3>1. ASSUME NEW m \in net', m.u = u
          PROVE  /\ m.try <= c.try
                 /\ m.try = c.try /\ m.port # 0 =>
                      IF m.port = e.port THEN Data(m) /\ m.block <= e.block ELSE IsError(m)
      <4>1. CASE m = d
        BY <1>1, <2>2, <2>5, <2>6, <2>7, <4>1
      <4>2. CASE m \in net
        <5>1. m.try <= c.try
          BY <1>1, <3>1, <4>2 DEF ClientOf
        <5>2. ASSUME m.try = c.try, m.port # 0
              PROVE  IF m.port = e.port THEN Data(m) /\ m.block <= e.block ELSE IsError(m)
          <6>1. c.at = "sending" /\ e.port = c.port
            BY <1>3, <2>2, <2>8, <3>1, <4>2, <5>2
          <6>2. IF m.port = c.port THEN Data(m) /\ m.block <= c.block ELSE IsError(m)
            BY <1>1, <3>1, <4>2, <5>2 DEF ClientOf
          <6>3. m.block \in Nat
            BY <4>2 DEF NetType
          <6> QED
            BY <2>2, <2>5, <6>1, <6>2, <6>3
        <5> QED
          BY <5>1, <5>2
      <4> QED
        BY <2>1, <4>1, <4>2
    <3>2. e.port # 0 /\ e.block \in 1 .. LastBlock(u)
      BY <1>1, <2>2, <2>5 DEF AckOf
    <3>3. ClientOf(u)'
      BY <2>1, <2>2, <2>3, <2>d, <3>1, <3>2 DEF ClientOf
    <3> QED
      BY <2>1, <2>6, <3>3, OtherClients
  <2>13. NetInv'
    <3>1. d.life <= resets /\ (pc # "app" /\ d.life = resets => d.port <= port)
      BY <1>1, <2>6 DEF AckOf
    <3>2. d.port \in DOMAIN session /\ d.life = resets => d.block <= session[d.port] + 1
      <4>1. a.port \in DOMAIN session /\ a.life = resets => a.block <= session[a.port]
        BY <1>1 DEF AckOf
      <4> QED
        BY <2>5, <2>6, <4>1, Ports
    <3>3. \A k \in Peers(d) : Data(k)
      BY <2>9
    <3>4. LikeBlocks(d)
      BY <2>7, <2>10, <3>2, <3>3 DEF LikeBlocks
    <3> QED
      BY <1>5, <2>1, <3>1, <3>4, NetGrows
  <2> QED
    BY <1>4, <2>1, <2>11, <2>12, <2>13, ClientStep
<1> QED
  BY <1>6, <1>7

(* An acknowledgement from another port.                                   *)
LEMMA RefusesInv ==
  ASSUME IInv, NEW u \in Uploads, NEW a \in acks, ClientRefuses(u, a)
  PROVE  IInv'
<1> USE DEF IInv
<1> DEFINE c == client[u]
           d == [u |-> u, try |-> a.try, port |-> a.port, life |-> a.life, block |-> 5,
                 data |-> None, words |-> ErrorWords]
<1>1. /\ ClientOf(u) /\ AckOf(a) /\ a.try = c.try /\ a.u = u
      /\ c.at = "sending" /\ a.port # c.port
  BY DEF ClientInv, AckInv, ClientRefuses
<1>2. a.try \in Nat /\ a.port \in Nat /\ a.life \in Nat /\ ErrorWords \in 0 .. BlockWords
  BY Sizes DEF NetType
<1>3. net' = net \cup {d} /\ UNCHANGED <<gatewayVars, client, acks, wrqs>>
  BY DEF ClientRefuses
<1>4. d \in [u : Uploads, try : Nat, port : Nat, life : Nat, block : Nat,
               data : Uploads \cup {None}, words : 0 .. BlockWords]
  BY <1>2
<1>5. /\ d.u = u /\ d.try = c.try /\ d.port = a.port /\ d.life = a.life /\ IsError(d)
  BY <1>1 DEF IsError
<1> HIDE DEF d
<1>6. UNCHANGED <<pc, port, session, resets, hands, errors>>
  BY <1>3 DEF gatewayVars, histVars
<1>7. NetType'
  BY <1>3, <1>4, <1>6 DEF NetType
<1>8. ClientInv'
  <2>1. ClientOf(u)'
    BY <1>1, <1>2, <1>3, <1>5 DEF ClientOf
  <2>2. client' = [client EXCEPT ![u] = c]
    BY <1>3 DEF NetType
  <2> QED
    BY <1>3, <1>5, <2>1, <2>2, OtherClients
<1>9. NetInv'
  <2>1. \A k \in Peers(d) : IsError(k)
    BY <1>1, <1>5 DEF Peers, ClientOf, AckOf
  <2>2. d.life <= resets /\ (pc # "app" /\ d.life = resets => d.port <= port)
    BY <1>1, <1>5 DEF AckOf
  <2> QED
    BY <1>3, <1>5, <1>6, <2>1, <2>2, NetGrows DEF LikeErrors
<1> QED
  BY <1>3, <1>7, <1>8, <1>9, ClientStep

-----------------------------------------------------------------------------
(* Flash.                                                                  *)

Words == (Uploads \cup {None}) \X Nat

(* A flash operation goes at most as far as it can.                        *)
LEMMA Stops ==
  ASSUME TypeOK, NetType, NEW n \in Nat, NEW most \in Nat, NEW want \in Nat,
         FlashStops(n, most, want)
  PROVE  pgerr' \in BOOLEAN /\ errors' \in Nat /\ n <= most
<1>1. pgerr \in BOOLEAN /\ errors \in Nat
  BY Zenon DEF TypeOK, NetType
<1>2. CASE n = most /\ pgerr' = (pgerr \/ most < want) /\ UNCHANGED errors
  <2>1. (pgerr \/ most < want) \in BOOLEAN
    BY <1>1, Zenon
  <2> QED
    BY <1>1, <1>2, <2>1
<1>3. CASE n < most /\ errors' = errors + 1 /\ pgerr' \in {pgerr, TRUE}
  <2>1. pgerr' \in BOOLEAN
    BY <1>1, <1>3, Zenon
  <2>2. errors' \in Nat /\ n <= most
    BY <1>1, <1>3
  <2> QED
    BY <2>1, <2>2
<1> QED
  BY <1>2, <1>3 DEF FlashStops

(* The area stays a function of words when pages are erased.               *)
LEMMA EraseType ==
  ASSUME TypeOK, NEW n \in Nat, FLASH_If_Erase(n)
  PROVE  /\ app' \in [Area -> Words]
         /\ n >= Cardinality(Pages) => \A k \in Area : app'[k] = Empty
<1>1. app \in [Area -> Words]
  BY DEF TypeOK, Words
<1>2. Empty \in Words
  BY DEF Empty, Words
<1>3. app' = [k \in Area |-> IF (k - 1) \div PageWords < n THEN Empty ELSE app[k]]
  BY DEF FLASH_If_Erase
<1>4. app' \in [Area -> Words]
  BY <1>1, <1>2, <1>3
<1>5. ASSUME n >= Cardinality(Pages), NEW k \in Area PROVE app'[k] = Empty
  <2>1. (k - 1) \div PageWords \in Int /\ (k - 1) \div PageWords < Cardinality(Pages)
        /\ Cardinality(Pages) \in Nat
    BY PagesCover, Sizes DEF Area
  <2>2. (k - 1) \div PageWords < n
    BY <1>5, <2>1
  <2> QED
    BY <1>3, <2>2
<1> QED
  BY <1>4, <1>5

(* And when words of block b are programmed.                               *)
LEMMA WriteType ==
  ASSUME TypeOK, NEW u \in Uploads \cup {None}, NEW b \in Nat \ {0}, NEW n \in Nat,
         app' = [k \in Area |-> IF k \in addr .. addr + n - 1
                                THEN <<u, FirstOf(b) + (k - addr)>> ELSE app[k]]
  PROVE  app' \in [Area -> Words]
<1>1. app \in [Area -> Words] /\ addr \in Nat
  BY Sizes DEF TypeOK, Words
<1>2. FirstOf(b) \in Nat
  <2>1. b - 1 \in Nat /\ BlockWords \in Nat
    BY Sizes
  <2>2. (b - 1) * BlockWords \in Nat
    BY <2>1
  <2> QED
    BY <2>2 DEF FirstOf
<1>3. ASSUME NEW k \in addr .. addr + n - 1 PROVE <<u, FirstOf(b) + (k - addr)>> \in Words
  BY <1>1, <1>2 DEF Words
<1>4. \A k \in Area : app[k] \in Words
  BY <1>1
<1> QED
  BY <1>3, <1>4

(* Erasing is complete or a fault.                                         *)
LEMMA ErasableType == Erasable \in Nat /\ Erasable <= Cardinality(Pages)
  BY PagesCover DEF Erasable

-----------------------------------------------------------------------------
(* The TFTP server.                                                        *)

(* A step of the gateway that may take a request out of the net and leaves *)
(* clients, sessions and acknowledgements alone keeps the net in order.    *)
LEMMA NetShrinks ==
  ASSUME NetInv, net' \subseteq net, UNCHANGED <<port, session, resets>>,
         pc = "app" => pc' = "app"
  PROVE  NetInv'
<1> SUFFICES ASSUME NEW m \in net' PROVE NetOf(m)'
  BY DEF NetInv
<1>1. NetOf(m) /\ Peers(m)' \subseteq Peers(m)
  BY DEF NetInv, Peers
<1> QED
  BY <1>1 DEF NetOf

(* The hand of a request that was accepted.                                *)
LEMMA HandOfRequest ==
  ASSUME NetType, NEW m \in net, NEW p
  PROVE  Hand([m EXCEPT !.port = p, !.life = resets]) = <<p, resets, m.u, m.try>>
  BY DEF NetType, Hand

(* A request: taken with an erased area, or ignored.                       *)
LEMMA RequestInv ==
  ASSUME IInv, NEW m \in net, IAP_tftp_recv_callback(m)
  PROVE  IInv'
<1> USE DEF IInv
<1>1. /\ pc = "run" /\ m.port = 0 /\ net' = net \ {m}
      /\ UNCHANGED <<pc, client, wrqs, resets, forced>>
  BY DEF IAP_tftp_recv_callback
<1>2. net' \subseteq net /\ Kept
  BY <1>1 DEF Kept
<1>3. ClientInv'
  BY <1>1, <1>2, ClientStable
<1>4. CASE UNCHANGED <<flashVars, session, port, acks, errors, hands, fault>>
  <2>1. TypeOK'
    BY <1>1, <1>4, TypeStable
  <2>2. NetType'
    BY <1>1, <1>2, <1>4 DEF NetType
  <2>3. NetInv'
    BY <1>1, <1>2, <1>4, NetShrinks
  <2>4. AckInv'
    BY <1>1, <1>2, <1>4, AckStable
  <2>5. WrittenInv'
    BY <1>1, <1>2, <1>4, WrittenStable DEF flashVars
  <2>6. StartInv'
    BY <1>1, <1>4, StartStable DEF flashVars
  <2> QED
    BY <1>3, <2>1, <2>2, <2>3, <2>4, <2>5, <2>6
<1>5. ASSUME NEW s, s = port + 1,
             Cardinality(DOMAIN session) < NPcb,
             NEW n \in 0 .. Cardinality(Pages),
             FlashStops(n, Erasable, Cardinality(Pages)), FLASH_If_Erase(n),
             fault' = (n < Cardinality(Pages)), addr' = 1, port' = s,
             session' = [i \in DOMAIN session \cup {s} |-> IF i = s THEN 0 ELSE session[i]],
             hands' = {Hand([m EXCEPT !.port = s, !.life = resets])},
             acks' = acks \cup {Acknowledge([m EXCEPT !.port = s], 0)},
             UNCHANGED mode
      PROVE  IInv'
  <2>1. /\ port \in Nat /\ s \in Nat /\ s # 0 /\ s > port /\ s \notin DOMAIN session /\ resets \in Nat
        /\ m.u \in Uploads /\ m.try \in Nat /\ n \in Nat /\ Cardinality(Pages) \in Nat
    <3>1. port \in Nat /\ resets \in Nat /\ Cardinality(Pages) \in Nat
      BY PagesCover DEF TypeOK, NetType
    <3>2. m.u \in Uploads /\ m.try \in Nat
      BY DEF NetType
    <3>3. s \in Nat /\ s # 0 /\ s > port /\ n \in Nat
      BY <1>5, <3>1
    <3> QED
      BY <3>1, <3>2, <3>3, Ports
  <2>2. PICK b : b = Acknowledge([m EXCEPT !.port = s], 0)
    OBVIOUS
  <2>3. /\ b.u = m.u /\ b.try = m.try /\ b.port = s /\ b.life = resets /\ b.block = 0
        /\ b \in [u : Uploads, try : Nat, port : Nat, life : Nat, block : Nat]
        /\ acks' = acks \cup {b}
    <3>1. [m EXCEPT !.port = s].u = m.u /\ [m EXCEPT !.port = s].try = m.try
          /\ [m EXCEPT !.port = s].port = s
      BY DEF NetType
    <3> QED
      BY <1>5, <2>1, <2>2, <3>1 DEF Acknowledge
  <2>4. /\ DOMAIN session' = DOMAIN session \cup {s} /\ session'[s] = 0
        /\ \A i \in DOMAIN session : session'[i] = session[i]
    BY <1>5, <2>1
  <2>5. hands' = {<<s, resets, m.u, m.try>>}
    BY <1>5, HandOfRequest
  <2>6. TypeOK'
    <3>1. app' \in [Area -> Words]
      BY <1>5, <2>1, EraseType
    <3>2. pgerr' \in BOOLEAN
      BY <1>5, <2>1, Stops, ErasableType
    <3>3. {pgerr, fault, forced}' \subseteq BOOLEAN
      <4>1. (n < Cardinality(Pages)) \in BOOLEAN
        OBVIOUS
      <4> QED
        BY <1>1, <1>5, <3>2, <4>1, Zenon DEF TypeOK
    <3>4. Cardinality(DOMAIN session') <= NPcb
      <4>1. IsFiniteSet(DOMAIN session)
        <5>1. IsFiniteSet(1 .. port)
          BY <2>1, FS_Interval
        <5>2. DOMAIN session \in SUBSET (1 .. port)
          BY DEF TypeOK
        <5> QED
          BY <5>1, <5>2, FS_Subset
      <4>2. Cardinality(DOMAIN session') = Cardinality(DOMAIN session) + 1
        BY <2>1, <2>4, <4>1, FS_AddElement
      <4>3. Cardinality(DOMAIN session) \in Nat
        BY <4>1, FS_CardinalityType
      <4> QED
        BY <1>5, <4>2, <4>3, Sizes
    <3>5. DOMAIN session' \subseteq 1 .. port' /\ \A i \in DOMAIN session' : session'[i] \in Nat
      BY <1>5, <2>1, <2>4, Ports
    <3>6. addr' \in 1 .. AreaWords + 1 /\ port' \in Nat
      BY <1>5, <2>1, Sizes
    <3>7. mode' \in {"app", "iap", "unset"} /\ pc' \in {"off", "run", "app"}
      BY <1>1, <1>5 DEF TypeOK
    <3> QED
      BY <3>1, <3>3, <3>4, <3>5, <3>6, <3>7, Zenon DEF TypeOK, Words
  <2>7. NetType'
    <3>1. errors' \in Nat
      BY <1>5, <2>1, Stops, ErasableType
    <3>2. hands' \in SUBSET (Nat \X Nat \X Uploads \X Nat) /\ IsFiniteSet(hands') /\ hands' # {}
      <4>1. <<s, resets, m.u, m.try>> \in Nat \X Nat \X Uploads \X Nat
        BY <2>1
      <4> QED
        BY <2>5, <4>1, FS_Singleton, Zenon
    <3>3. acks' \in SUBSET [u : Uploads, try : Nat, port : Nat, life : Nat, block : Nat]
      BY <2>3 DEF NetType
    <3> QED
      BY <1>1, <1>2, <3>1, <3>2, <3>3 DEF NetType
  <2>8. NetInv'
    <3> SUFFICES ASSUME NEW k \in net' PROVE NetOf(k)'
      BY DEF NetInv
    <3>1. NetOf(k) /\ Peers(k)' \subseteq Peers(k)
      BY <1>2 DEF NetInv, Peers
    <3>2. k.life \in Nat /\ k.port \in Nat
      BY <1>2 DEF NetType
    <3>3. k.life = resets => k.port <= port /\ k.port # s
      BY <1>1, <2>1, <3>1, <3>2 DEF NetOf
    <3>4. k.port <= port => k.port <= port'
      BY <1>5, <2>1, <3>2
    <3> QED
      BY <1>1, <2>4, <3>1, <3>3, <3>4 DEF NetOf
  <2>9. AckInv'
    <3>1. ASSUME NEW a \in acks PROVE AckOf(a)'
      <4>1. AckOf(a) /\ a.port \in Nat
        BY DEF AckInv, NetType
      <4>2. a.life = resets => a.port <= port /\ a.port # s
        BY <1>1, <2>1, <4>1 DEF AckOf
      <4>3. a.port <= port => a.port <= port'
        BY <1>5, <2>1, <4>1
      <4>4. a.block # 0 => Traced(a.port, a.life, a.block)'
        BY <1>2, <2>3, <4>1, TracedStable DEF AckOf
      <4> QED
        BY <1>1, <2>4, <4>1, <4>2, <4>3, <4>4 DEF AckOf
    <3>2. AckOf(b)'
      BY <1>1, <1>5, <2>1, <2>3, <2>4 DEF AckOf
    <3>3. ASSUME NEW i \in DOMAIN session', session'[i] # 0
          PROVE  Traced(i, resets, session[i])'
      <4>1. i \in DOMAIN session /\ session'[i] = session[i]
        BY <2>4, <3>3
      <4>2. Traced(i, resets, session[i])
        BY <3>3, <4>1 DEF AckInv
      <4> QED
        <5>1. PICK x : x = session[i]
          OBVIOUS
        <5>2. Traced(i, resets, x)'
          <6>1. PICK l : l = resets
            OBVIOUS
          <6>2. Traced(i, l, x) /\ i # 0 /\ acks \subseteq acks'
            BY <2>3, <4>1, <4>2, <5>1, <6>1, Ports
          <6>3. Traced(i, l, x)'
            BY <1>2, <6>2, TracedStable
          <6> QED
            BY <1>1, <6>1, <6>3 DEF Traced
        <5> QED
          BY <4>1, <5>1, <5>2 DEF Traced
    <3> QED
      BY <1>1, <2>3, <3>1, <3>2, <3>3 DEF AckInv
  <2>10. WrittenInv'
    <3> SUFFICES ASSUME ~fault', NEW i \in DOMAIN session', NEW h \in hands', h[1] = i
                 PROVE  WrittenOf(i, h)'
      BY DEF WrittenInv
    <3>1. i = s /\ h[2] = resets /\ h[3] = m.u
      BY <2>5
    <3>2. \A k \in Area : app'[k] = Empty
      <4>1. n >= Cardinality(Pages)
        <5>1. ~(n < Cardinality(Pages))
          BY <1>5, Zenon
        <5> QED
          BY <2>1, <5>1
      <4> QED
        BY <1>5, <2>1, <4>1, EraseType
    <3>3. LastBlock(m.u) \in Nat \ {0} /\ 0 * BlockWords = 0
      BY <2>1, Blocks, Sizes
    <3>4. \A k \in Area : ~(k <= 0)
      BY Sizes DEF Area
    <3> QED
      BY <1>1, <1>5, <2>4, <3>1, <3>2, <3>3, <3>4 DEF WrittenOf, Written
  <2>11. StartInv'
    BY <1>1, <1>5 DEF StartInv
  <2> QED
    BY <1>3, <2>6, <2>7, <2>8, <2>9, <2>10, <2>11
<1> QED
  BY <1>4, <1>5 DEF IAP_tftp_recv_callback

(* What a datagram on port s does to the flash: without a fault, all of an *)
(* expected block is written and nothing else.                             *)
LEMMA BlockFlash ==
  ASSUME IInv, NEW m \in net, m.port \in DOMAIN session, IAP_wrq_recv_callback(m)
  PROVE  /\ app' \in [Area -> Words] /\ addr' \in 1 .. AreaWords + 1
         /\ pgerr' \in BOOLEAN /\ errors' \in Nat /\ fault' \in BOOLEAN
         /\ ~fault' => ~fault
         /\ ~Expected(m.port, m.block) => UNCHANGED <<app, addr>>
         /\ Expected(m.port, m.block) /\ ~fault' =>
              /\ addr' = addr + m.words
              /\ \A k \in Area : app'[k] = IF k \in addr .. addr + m.words - 1
                                           THEN <<m.data, FirstOf(m.block) + (k - addr)>> ELSE app[k]
<1> USE DEF IInv
<1>1. /\ m.data \in Uploads \cup {None} /\ m.words \in Nat /\ m.block \in Nat /\ addr \in 1 .. AreaWords + 1
      /\ AreaWords \in Nat /\ session[m.port] \in Nat /\ errors \in Nat
  BY Sizes, Ports DEF NetType, TypeOK
<1>2. app \in [Area -> Words] /\ pgerr \in BOOLEAN /\ fault \in BOOLEAN
  BY Zenon DEF TypeOK, Words
<1>3. CASE ~(Expected(m.port, m.block) /\ m.words > 0)
  <2>1. UNCHANGED <<app, addr, pgerr, errors, fault>>
    BY <1>3 DEF IAP_wrq_recv_callback
  <2>2. Expected(m.port, m.block) => m.words = 0
    BY <1>1, <1>3
  <2>3. m.words = 0 => addr' = addr + m.words /\ \A k \in Area : k \notin addr .. addr + m.words - 1
    BY <1>1, <2>1
  <2>4. app' \in [Area -> Words] /\ pgerr' \in BOOLEAN /\ fault' \in BOOLEAN /\ (~fault' => ~fault)
    BY <1>2, <2>1, Zenon
  <2>5. addr' \in 1 .. AreaWords + 1 /\ errors' \in Nat
    BY <1>1, <2>1
  <2> QED
    BY <2>1, <2>2, <2>3, <2>4, <2>5
<1>4. CASE Expected(m.port, m.block) /\ m.words > 0
  <2>1. PICK n \in 0 .. m.words :
          /\ FlashStops(n, Programmable(m.words), m.words)
          /\ FLASH_If_Write(m.data, FirstOf(m.block), n)
          /\ fault' = (fault \/ n < m.words)
    BY <1>4 DEF IAP_wrq_recv_callback
  <2>2. n \in Nat /\ Programmable(m.words) \in Nat
    BY <1>1, ProgrammableIs
  <2>3. pgerr' \in BOOLEAN /\ errors' \in Nat /\ n <= Programmable(m.words)
    BY <1>1, <2>1, <2>2, Stops
  <2>4. n # 0 => addr + n - 1 \in Area
    <3> SUFFICES ASSUME n # 0 PROVE addr + n - 1 \in Area
      OBVIOUS
    <3>1. \A k \in addr .. addr + Programmable(m.words) - 1 : k \in Area
      BY <1>1, <2>2, <2>3, ProgrammableIs
    <3>2. addr + n - 1 \in addr .. addr + Programmable(m.words) - 1
      BY <1>1, <2>2, <2>3
    <3> QED
      BY <3>1, <3>2
  <2>5. /\ addr' = addr + n
        /\ app' = [k \in Area |-> IF k \in addr .. addr + n - 1
                                  THEN <<m.data, FirstOf(m.block) + (k - addr)>> ELSE app[k]]
    BY <2>1 DEF FLASH_If_Write
  <2>6. addr' \in 1 .. AreaWords + 1
    BY <1>1, <2>2, <2>4, <2>5 DEF Area
  <2>7. app' \in [Area -> Words]
    <3>1. m.block \in Nat \ {0}
      BY <1>1, <1>4 DEF Expected
    <3> QED
      BY <1>1, <2>2, <2>5, <3>1, WriteType
  <2>8. fault' \in BOOLEAN /\ (~fault' => ~fault /\ ~(n < m.words))
    <3>1. (n < m.words) \in BOOLEAN
      OBVIOUS
    <3> QED
      BY <1>2, <2>1, <3>1, Zenon
  <2>9. ~fault' => n = m.words
    BY <1>1, <2>2, <2>8
  <2> QED
    BY <1>4, <2>3, <2>5, <2>6, <2>7, <2>8, <2>9
<1> QED
  BY <1>3, <1>4

(* A datagram of the only hand is the expected block, one before it, or an *)
(* error that meets nothing written.                                       *)
LEMMA AloneMeets ==
  ASSUME IInv, NEW m \in net, m.port \in DOMAIN session, pc = "run",
         Alone, ~fault, Hand(m) \in hands
  PROVE  /\ WrittenOf(m.port, Hand(m))
         /\ \/ Data(m) /\ m.block <= session[m.port] + 1
            \/ session[m.port] = 0 /\ IsError(m)
<1> USE DEF IInv
<1> DEFINE s == m.port
           h == Hand(m)
<1>1. h[1] = s /\ h[2] = m.life /\ h[3] = m.u /\ h[4] = m.try
  BY DEF Hand
<1>2. WrittenOf(s, h)
  BY <1>1 DEF WrittenInv
<1>3. NetOf(m) /\ m \in Peers(m) /\ m.life = resets /\ s # 0 /\ session[s] \in Nat
  BY <1>1, <1>2, Ports DEF NetInv, Peers, WrittenOf
<1>4. m.block <= session[s] + 1 \/ \A k \in Peers(m) : IsError(k)
  BY <1>3 DEF NetOf
<1>5. \A k \in Peers(m) : (IsError(m) /\ IsError(k)) \/ (Data(m) /\ Data(k))
  BY <1>3 DEF NetOf
<1>6. CASE session[s] = 0
  BY <1>2, <1>3, <1>4, <1>5, <1>6
<1>7. CASE session[s] # 0
  <2>1. PICK k \in net : Hand(k) = h /\ Data(k) /\ k.block = session[s]
    BY <1>2, <1>7 DEF WrittenOf
  <2>2. k \in Peers(m) /\ k.u = m.u
    BY <2>1 DEF Hand, Peers
  <2>3. ~IsError(k)
    <3>1. session[s] < LastBlock(m.u) /\ m.u \in Uploads
      BY <1>1, <1>2 DEF WrittenOf, NetType
    <3>2. WordsOf(m.u, session[s]) = BlockWords /\ BlockWords # ErrorWords
      BY <1>3, <3>1, Blocks, Sizes
    <3> QED
      BY <2>1, <2>2, <3>2 DEF IsError, Data
  <2> QED
    BY <1>2, <1>4, <1>5, <2>2, <2>3
<1> QED
  BY <1>6, <1>7

(* The next block goes behind the ones before.                             *)
LEMMA WrittenNext ==
  ASSUME NEW u \in Uploads, NEW n \in Nat, n < LastBlock(u), Written(u, n * BlockWords),
         NEW w \in Nat, w = WordsOf(u, n + 1), addr' = addr + w,
         \A k \in Area : app'[k] = IF k \in addr .. addr + w - 1
                                   THEN <<u, FirstOf(n + 1) + (k - addr)>> ELSE app[k]
  PROVE  Written(u, n * BlockWords + w)'
<1> DEFINE d == n * BlockWords
<1>1. d \in Nat /\ FirstOf(n + 1) = d + 1
  BY Blocks
<1>2. addr = d + 1 /\ \A k \in Area : app[k] = IF k <= d THEN <<u, k>> ELSE Empty
  BY DEF Written
<1> HIDE DEF d
<1>3. addr' = (d + w) + 1
  BY <1>1, <1>2
<1>4. ASSUME NEW k \in Area
      PROVE  app'[k] = IF k <= d + w THEN <<u, k>> ELSE Empty
  <2>1. k \in Nat
    BY Sizes DEF Area
  <2>2. CASE k <= d
    BY <1>1, <1>2, <2>1, <2>2
  <2>3. CASE d < k /\ k <= d + w
    <3>1. k \in addr .. addr + w - 1 /\ FirstOf(n + 1) + (k - addr) = k
      BY <1>1, <1>2, <2>1, <2>3
    <3> QED
      BY <1>1, <2>1, <2>3, <3>1
  <2>4. CASE d + w < k
    BY <1>1, <1>2, <2>1, <2>4
  <2> QED
    BY <1>1, <2>1, <2>2, <2>3, <2>4
<1> QED
  BY <1>3, <1>4 DEF Written, d

(* A datagram of a transfer.                                               *)
LEMMA DataInv ==
  ASSUME IInv, NEW m \in net, IAP_wrq_recv_callback(m)
  PROVE  IInv'
<1> USE DEF IInv
<1> DEFINE s == m.port
           new == Expected(s, m.block)
           short == m.words < BlockWords
<1>b. PICK block : block = IF new THEN session[s] + 1 ELSE session[s]
  OBVIOUS
<1>a. PICK a : a = Acknowledge(m, block)
  OBVIOUS
<1>1. /\ pc = "run" /\ s \in DOMAIN session
      /\ acks' = acks \cup {a} /\ hands' = hands \cup {Hand(m)}
      /\ UNCHANGED <<client, net, wrqs, resets, forced>>
  BY <1>a, <1>b DEF IAP_wrq_recv_callback
<1>2. /\ s \in Nat /\ s # 0 /\ s <= port /\ port \in Nat /\ session[s] \in Nat /\ block \in Nat
      /\ session[s] <= block /\ m.u \in Uploads /\ m.try \in Nat /\ m.block \in Nat
      /\ m.life \in Nat /\ m.words \in 0 .. BlockWords /\ resets \in Nat /\ BlockWords \in Nat
  <2>1. /\ s \in Nat /\ s # 0 /\ s <= port /\ session[s] \in Nat
    BY <1>1, Ports
  <2>2. /\ m.u \in Uploads /\ m.try \in Nat /\ m.block \in Nat
        /\ m.life \in Nat /\ m.words \in 0 .. BlockWords /\ resets \in Nat /\ port \in Nat
    BY DEF NetType, TypeOK
  <2>3. block \in Nat /\ session[s] <= block
    BY <1>b, <2>1
  <2> QED
    BY <2>1, <2>2, <2>3, Sizes
<1>3. /\ a.u = m.u /\ a.try = m.try /\ a.port = s /\ a.life = resets /\ a.block = block
      /\ a \in [u : Uploads, try : Nat, port : Nat, life : Nat, block : Nat]
  BY <1>2, <1>a DEF Acknowledge
<1>4. \/ /\ short /\ StackValid(app') /\ pc' = "app" /\ session' = <<>> /\ port' = 0
         /\ mode' = (IF pgerr' THEN mode ELSE "app")
      \/ /\ short /\ ~StackValid(app')
         /\ session' = [i \in DOMAIN session \ {s} |-> session[i]]
         /\ UNCHANGED <<pc, port, mode>>
      \/ /\ ~short /\ session' = [session EXCEPT ![s] = block] /\ UNCHANGED <<pc, port, mode>>
  BY <1>b DEF IAP_wrq_recv_callback, IAP_EndSetFlash
<1>5. /\ DOMAIN session' \subseteq DOMAIN session
      /\ \A i \in DOMAIN session' : session'[i] = IF i = s THEN block ELSE session[i]
      /\ \/ pc' = "run" /\ port' = port
         \/ pc' = "app" /\ port' = 0 /\ DOMAIN session' = {}
      /\ s \in DOMAIN session' => ~short
  BY <1>1, <1>4
<1>6. Kept /\ acks \subseteq acks' /\ net' \subseteq net
  BY <1>1 DEF Kept
<1>7. TypeOK'
  <2>1. /\ app' \in [Area -> Words] /\ addr' \in 1 .. AreaWords + 1
        /\ pgerr' \in BOOLEAN /\ fault' \in BOOLEAN
    BY <1>1, BlockFlash
  <2>2. {pgerr, fault, forced}' \subseteq BOOLEAN
    BY <1>1, <2>1, Zenon DEF TypeOK
  <2>3. Cardinality(DOMAIN session') <= NPcb
    <3>1. IsFiniteSet(1 .. port)
      BY <1>2, FS_Interval
    <3>2. IsFiniteSet(DOMAIN session)
      <4>1. DOMAIN session \in SUBSET (1 .. port)
        BY DEF TypeOK
      <4> QED
        BY <3>1, <4>1, FS_Subset
    <3>3. Cardinality(DOMAIN session') <= Cardinality(DOMAIN session) /\ IsFiniteSet(DOMAIN session')
      BY <1>5, <3>2, FS_Subset
    <3>4. Cardinality(DOMAIN session') \in Nat /\ Cardinality(DOMAIN session) \in Nat
      BY <3>2, <3>3, FS_CardinalityType
    <3>5. Cardinality(DOMAIN session) <= NPcb
      BY DEF TypeOK
    <3> QED
      BY <3>3, <3>4, <3>5, Sizes
  <2>4. /\ DOMAIN session' \subseteq 1 .. port' /\ port' \in Nat
        /\ \A i \in DOMAIN session' : session'[i] \in Nat
    BY <1>2, <1>5 DEF TypeOK
  <2>5. mode' \in {"app", "iap", "unset"} /\ pc' \in {"off", "run", "app"}
    BY <1>4, <1>5 DEF TypeOK
  <2> QED
    BY <2>1, <2>2, <2>3, <2>4, <2>5, Zenon DEF TypeOK, Words
<1>8. NetType'
  <2>1. errors' \in Nat
    BY <1>1, BlockFlash
  <2>2. Hand(m) \in Nat \X Nat \X Uploads \X Nat
    BY <1>2 DEF Hand
  <2>3. hands' \in SUBSET (Nat \X Nat \X Uploads \X Nat)
    BY <1>1, <2>2, Zenon DEF NetType
  <2>4. IsFiniteSet(hands')
    BY <1>1, FS_AddElement DEF NetType
  <2>5. acks' \in SUBSET [u : Uploads, try : Nat, port : Nat, life : Nat, block : Nat]
    BY <1>1, <1>3 DEF NetType
  <2>6. DOMAIN session' # {} => pc' = "run" /\ hands' # {}
    BY <1>1, <1>5
  <2> QED
    BY <1>1, <2>1, <2>3, <2>4, <2>5, <2>6 DEF NetType
<1>9. ClientInv'
  BY <1>1, <1>6, ClientStable
<1>10. NetInv'
  <2> SUFFICES ASSUME NEW k \in net PROVE NetOf(k)'
    BY <1>1 DEF NetInv
  <2>1. NetOf(k) /\ Peers(k)' = Peers(k) /\ k.block \in Nat
    BY <1>1 DEF NetInv, Peers, NetType
  <2>2. \A i \in DOMAIN session' : session[i] \in Nat /\ session'[i] \in Nat /\ session[i] <= session'[i]
    BY <1>2, <1>5, Ports
  <2>3. ASSUME k.port \in DOMAIN session', k.life = resets
        PROVE  k.block <= session'[k.port] + 1 \/ \A j \in Peers(k) : IsError(j)
    <3>1. k.block <= session[k.port] + 1 \/ \A j \in Peers(k) : IsError(j)
      BY <1>5, <2>1, <2>3 DEF NetOf
    <3> QED
      BY <2>1, <2>2, <2>3, <3>1
  <2> QED
    BY <1>1, <1>5, <2>1, <2>3 DEF NetOf
<1>11. AckInv'
  <2>1. block # 0 => Traced(s, resets, block)'
    <3>1. CASE new
      <4>1. m.block = block
        BY <1>b, <3>1 DEF Expected
      <4> QED
        BY <1>1, <1>3, <4>1 DEF Traced
    <3>2. CASE ~new
      <4>1. PICK l : l = resets
        OBVIOUS
      <4>2. block # 0 => Traced(s, l, block)
        BY <1>1, <1>b, <3>2, <4>1 DEF AckInv
      <4>3. block # 0 => Traced(s, l, block)'
        BY <1>2, <1>6, <4>2, TracedStable
      <4> QED
        BY <1>1, <4>1, <4>3 DEF Traced
    <3> QED
      BY <3>1, <3>2
  <2>2. ASSUME NEW k \in acks PROVE AckOf(k)'
    <3>1. AckOf(k) /\ k.block \in Nat
      BY DEF AckInv, NetType
    <3>2. k.block # 0 => Traced(k.port, k.life, k.block)'
      BY <1>6, <3>1, TracedStable DEF AckOf
    <3>3. ASSUME k.port \in DOMAIN session', k.life = resets PROVE k.block <= session'[k.port]
      <4>1. k.block <= session[k.port] /\ session[k.port] \in Nat
        BY <1>5, <3>1, <3>3, Ports DEF AckOf
      <4>2. session'[k.port] \in Nat /\ session[k.port] <= session'[k.port]
        BY <1>2, <1>5, <3>3, <4>1
      <4> QED
        BY <3>1, <4>1, <4>2
    <3> QED
      BY <1>1, <1>5, <3>1, <3>2, <3>3 DEF AckOf
  <2>3. AckOf(a)'
    BY <1>1, <1>2, <1>3, <1>5, <2>1 DEF AckOf
  <2>4. ASSUME NEW i \in DOMAIN session', session'[i] # 0
        PROVE  Traced(i, resets, session[i])'
    <3>1. CASE i = s
      BY <1>5, <2>1, <2>4, <3>1 DEF Traced
    <3>2. CASE i # s
      <4>1. PICK x, l : x = session[i] /\ l = resets
        OBVIOUS
      <4>2. i \in DOMAIN session /\ session'[i] = x /\ i # 0 /\ Traced(i, l, x)
        BY <1>5, <2>4, <3>2, <4>1, Ports DEF AckInv
      <4>3. Traced(i, l, x)'
        BY <1>6, <4>2, TracedStable
      <4> QED
        BY <1>1, <4>1, <4>2, <4>3 DEF Traced
    <3> QED
      BY <3>1, <3>2
  <2> QED
    BY <1>1, <2>2, <2>3, <2>4 DEF AckInv
<1>12. ASSUME Alone', ~fault'
       PROVE  /\ Alone /\ ~fault /\ hands = {Hand(m)} /\ hands' = {Hand(m)}
              /\ WrittenOf(s, Hand(m))
              /\ \/ Data(m) /\ m.block <= session[s] + 1
                 \/ session[s] = 0 /\ IsError(m)
  <2>1. hands # {}
    BY <1>1 DEF NetType
  <2>2. Alone /\ hands = {Hand(m)} /\ hands' = {Hand(m)}
    BY <1>1, <1>12, <2>1 DEF Alone
  <2>3. ~fault
    BY <1>1, <1>12, BlockFlash
  <2> QED
    BY <1>1, <2>2, <2>3, AloneMeets
<1>n. PICK n \in Nat : n = session[s]
  BY <1>2
<1>13. ASSUME Alone', ~fault'
       PROVE  /\ n < LastBlock(m.u) /\ LastBlock(m.u) \in Nat /\ resets = m.life
              /\ Written(m.u, n * BlockWords)
              /\ Data(m) /\ new => Written(m.u, n * BlockWords + m.words)'
  <2>1. /\ n < LastBlock(m.u) /\ LastBlock(m.u) \in Nat
        /\ Written(m.u, n * BlockWords) /\ resets = m.life
    BY <1>2, <1>n, <1>12, <1>13, Blocks DEF WrittenOf, Hand
  <2>2. ASSUME Data(m), new PROVE Written(m.u, n * BlockWords + m.words)'
    <3>1. PICK w \in Nat : w = m.words
      BY <1>2
    <3>2. m.block = n + 1 /\ w = WordsOf(m.u, n + 1) /\ m.data = m.u
      BY <1>n, <2>2, <3>1 DEF Expected, Data
    <3>3. /\ addr' = addr + w
          /\ \A k \in Area : app'[k] = IF k \in addr .. addr + w - 1
                                       THEN <<m.u, FirstOf(n + 1) + (k - addr)>> ELSE app[k]
      BY <1>1, <1>13, <2>2, <3>1, <3>2, BlockFlash
    <3>4. Written(m.u, n * BlockWords + w)'
      BY <1>2, <2>1, <3>2, <3>3, WrittenNext
    <3> QED
      BY <3>1, <3>4
  <2> QED
    BY <2>1, <2>2
<1>14. WrittenInv'
  <2> SUFFICES ASSUME Alone', ~fault', NEW i \in DOMAIN session', NEW h \in hands', h[1] = i
               PROVE  WrittenOf(i, h)'
    BY DEF WrittenInv
  <2>1. h = Hand(m) /\ i = s /\ h[2] = resets /\ h[3] = m.u
    BY <1>12, <1>13 DEF Hand
  <2>2. m.words = BlockWords /\ BlockWords # ErrorWords /\ Data(m) /\ m.block <= n + 1
    <3>1. m.words = BlockWords /\ BlockWords # ErrorWords
      BY <1>2, <1>5, <2>1, Sizes
    <3> QED
      BY <1>12, <1>n, <3>1 DEF IsError
  <2>3. session'[s] = block
    BY <1>5, <2>1
  <2>4. CASE ~new
    <3>1. block = n /\ UNCHANGED <<app, addr>>
      BY <1>1, <1>b, <1>n, <2>4, BlockFlash
    <3>2. Written(m.u, n * BlockWords)'
      BY <1>13, <3>1 DEF Written
    <3>3. session[s] # 0 => \E k \in net : Hand(k) = h /\ Data(k) /\ k.block = session[s]
      BY <1>12, <2>1 DEF WrittenOf
    <3> QED
      BY <1>1, <1>13, <1>n, <2>1, <2>3, <3>1, <3>2, <3>3 DEF WrittenOf
  <2>5. CASE new
    <3>1. block = n + 1 /\ m.block = n + 1
      BY <1>b, <1>n, <2>5 DEF Expected
    <3>2. n + 1 < LastBlock(m.u)
      <4>1. n + 1 # LastBlock(m.u)
        BY <1>2, <2>2, <3>1, Blocks DEF Data
      <4> QED
        BY <1>13, <4>1
    <3>3. n * BlockWords + m.words = (n + 1) * BlockWords
      BY <1>2, <1>13, <2>2, <3>1, <3>2, Blocks DEF Data
    <3>4. Written(m.u, (n + 1) * BlockWords)'
      BY <1>13, <2>2, <2>5, <3>3
    <3> QED
      BY <1>1, <2>1, <2>2, <2>3, <3>1, <3>2, <3>4 DEF WrittenOf
  <2> QED
    BY <2>4, <2>5
<1>15. StartInv'
  <2> SUFFICES ASSUME ~forced
               PROVE  /\ mode' = "app" => pc' # "run" /\ StackValid(app')
                      /\ (pc' = "app" \/ mode' = "app") /\ Alone' /\ ~fault' =>
                           \E u \in Uploads : Holds(u)'
    BY <1>1 DEF StartInv, StackValid
  <2>1. mode # "app"
    BY <1>1 DEF StartInv
  <2>2. mode' = "app" => pc' = "app"
    BY <1>4, <2>1
  <2>3. pc' = "app" => short /\ StackValid(app')
    BY <1>1, <1>4
  <2>4. ASSUME Alone', ~fault', pc' = "app" PROVE \E u \in Uploads : Holds(u)'
    <3>1. n = session[s] /\ m.words \in Nat /\ m.words < BlockWords
      BY <1>2, <1>n, <2>3, <2>4
    <3>2. Data(m) /\ m.block <= n + 1
      <4> SUFFICES ASSUME n = 0, IsError(m) PROVE FALSE
        BY <1>12, <1>n, <2>4
      <4>1. ~new
        BY <1>n DEF Expected, IsError
      <4>2. app' = app
        BY <1>1, <4>1, BlockFlash
      <4>3. 1 \in Area /\ ~(1 <= 0 * BlockWords)
        BY Sizes DEF Area
      <4>4. app[1] = Empty
        BY <1>13, <2>4, <4>3 DEF Written
      <4> QED
        BY <2>3, <2>4, <4>2, <4>4 DEF StackValid, Empty
    <3>3. m.block = LastBlock(m.u) /\ m.block = n + 1 /\ new
      <4>1. ~(m.block < LastBlock(m.u))
        BY <1>2, <3>1, <3>2, Blocks DEF Data
      <4>2. m.block = LastBlock(m.u) /\ m.block = n + 1
        <5>1. m.block \in 1 .. LastBlock(m.u) /\ m.block <= n + 1
          BY <3>2 DEF Data
        <5>2. n < LastBlock(m.u) /\ LastBlock(m.u) \in Nat
          BY <1>13, <2>4
        <5> QED
          BY <4>1, <5>1, <5>2
      <4> QED
        BY <1>n, <4>2 DEF Expected
    <3>4. n * BlockWords + m.words = ImageLen[m.u]
      <4>1. m.words = WordsOf(m.u, n + 1)
        BY <3>2, <3>3 DEF Data
      <4>2. n < LastBlock(m.u) /\ n + 1 = LastBlock(m.u)
        BY <1>13, <2>4, <3>3
      <4>3. n * BlockWords + WordsOf(m.u, n + 1) = ImageLen[m.u]
        BY <1>2, <4>2, Blocks
      <4> QED
        BY <4>1, <4>3
    <3>5. Written(m.u, ImageLen[m.u])'
      BY <1>13, <2>4, <3>2, <3>3, <3>4
    <3>6. ImageLen[m.u] <= AreaWords
      <4>1. addr' = ImageLen[m.u] + 1 /\ addr' \in 1 .. AreaWords + 1
        BY <1>1, <3>5, BlockFlash DEF Written
      <4> QED
        BY <1>2, <4>1, Sizes
    <3> QED
      BY <1>2, <3>5, <3>6 DEF Holds, Written
  <2> QED
    BY <2>2, <2>3, <2>4
<1> QED
  BY <1>7, <1>8, <1>9, <1>10, <1>11, <1>14, <1>15

-----------------------------------------------------------------------------
(* Commands, boot and power.                                               *)

(* The mode is set by command.                                             *)
LEMMA ModeInv ==
  ASSUME IInv, NEW x \in {"app", "iap"}, setmode(x)
  PROVE  IInv'
<1> USE DEF IInv
<1>1. /\ mode' = (IF pgerr THEN mode ELSE x) /\ mode' # mode /\ forced' = (forced \/ x = "app")
      /\ UNCHANGED <<app, addr, pgerr, session, port, pc, netVars, errors, resets, hands, fault>>
  BY DEF setmode, ModeWritten
<1>2. UNCHANGED <<client, net, acks, wrqs>> /\ Kept
  BY <1>1 DEF netVars, Kept
<1>3. TypeOK'
  <2>1. {pgerr, fault, forced}' \subseteq BOOLEAN
    <3>1. (x = "app") \in BOOLEAN
      OBVIOUS
    <3> QED
      BY <1>1, <3>1, Zenon DEF TypeOK
  <2>2. mode' \in {"app", "iap", "unset"}
    BY <1>1 DEF TypeOK
  <2> QED
    BY <1>1, <2>1, <2>2, Zenon DEF TypeOK
<1>4. NetType'
  BY <1>1, <1>2 DEF NetType
<1>5. ClientInv' /\ NetInv' /\ AckInv' /\ WrittenInv'
  BY <1>1, <1>2, ClientStable, NetShrinks, AckStable, WrittenStable
<1>6. StartInv'
  <2> SUFFICES ASSUME ~forced' PROVE StartInv!2'
    BY DEF StartInv
  <2>1. ~forced /\ x # "app"
    BY <1>1
  <2>2. mode' # "app"
    BY <1>1, <2>1
  <2>3. pc = "app" /\ Alone /\ ~fault => \E u \in Uploads : Holds(u)
    BY <2>1 DEF StartInv
  <2> QED
    BY <1>1, <2>2, <2>3 DEF Alone, Holds
<1> QED
  BY <1>3, <1>4, <1>5, <1>6

(* The boot decision.                                                      *)
LEMMA BootInv ==
  ASSUME IInv, Boot
  PROVE  IInv'
<1> USE DEF IInv
<1>1. /\ pc = "off" /\ pc' = (IF mode = "app" /\ StackValid(app) THEN "app" ELSE "run")
      /\ UNCHANGED <<flashVars, session, port, netVars, errors, resets, histVars>>
  BY DEF Boot, BootsApp
<1>2. /\ UNCHANGED <<client, net, acks, wrqs, app, mode, addr, pgerr, hands, fault, forced>>
      /\ Kept
  BY <1>1 DEF netVars, flashVars, histVars, Kept
<1>3. TypeOK'
  <2>1. pc' \in {"off", "run", "app"}
    BY <1>1
  <2> QED
    BY <1>1, <1>2, <2>1, Zenon DEF TypeOK
<1>4. NetType'
  BY <1>1, <1>2 DEF NetType
<1>5. ClientInv' /\ NetInv' /\ AckInv' /\ WrittenInv'
  BY <1>1, <1>2, ClientStable, NetShrinks, AckStable, WrittenStable
<1>6. StartInv'
  BY <1>1, <1>2 DEF StartInv, Alone, Holds, StackValid
<1> QED
  BY <1>3, <1>4, <1>5, <1>6

(* Power fails.                                                            *)
LEMMA PowerInv ==
  ASSUME IInv, PowerOff
  PROVE  IInv'
<1> USE DEF IInv
<1>1. /\ pc' = "off" /\ session' = <<>> /\ port' = 0 /\ pgerr' = FALSE /\ addr' = 1
      /\ resets' = resets + 1 /\ UNCHANGED <<netVars, errors, forced>>
  BY DEF PowerOff
<1>2. UNCHANGED <<client, net, acks, wrqs>> /\ Kept /\ DOMAIN session' = {}
  BY <1>1 DEF netVars, Kept
<1>3. resets \in Nat /\ port \in Nat
  BY DEF NetType, TypeOK
<1> DEFINE Result ==
             /\ app' \in [Area -> Words] /\ mode' \in {"app", "iap", "unset"}
             /\ fault' \in BOOLEAN
             /\ hands' \in SUBSET (Nat \X Nat \X Uploads \X Nat) /\ IsFiniteSet(hands')
             /\ \/ pc = "run" /\ mode' = mode
                \/ UNCHANGED <<app, hands, fault>> /\ mode' \in {mode, "unset"}
<1>4. Result
  <2>1. app \in [Area -> Words] /\ mode \in {"app", "iap", "unset"} /\ fault \in BOOLEAN
    BY Zenon DEF TypeOK, Words
  <2>2. hands \in SUBSET (Nat \X Nat \X Uploads \X Nat) /\ IsFiniteSet(hands)
    BY DEF NetType
  <2>3. CASE UNCHANGED <<app, mode, hands, fault>>
    BY <2>1, <2>2, <2>3, Zenon
  <2>4. CASE mode' = "unset" /\ UNCHANGED <<app, hands, fault>>
    BY <2>1, <2>2, <2>4, Zenon
  <2>5. ASSUME NEW m \in net, NEW n \in 0 .. Cardinality(Pages), pc = "run",
               FLASH_If_Erase(n), fault' = (n < Cardinality(Pages)),
               hands' = {Hand([m EXCEPT !.port = port + 1, !.life = resets])}, UNCHANGED mode
        PROVE  Result
    <3>1. n \in Nat /\ (n < Cardinality(Pages)) \in BOOLEAN
      BY PagesCover
    <3>2. app' \in [Area -> Words]
      BY <2>5, <3>1, EraseType
    <3>3. hands' = {<<port + 1, resets, m.u, m.try>>}
      BY <2>5, HandOfRequest
    <3>4. <<port + 1, resets, m.u, m.try>> \in Nat \X Nat \X Uploads \X Nat
      BY <1>3 DEF NetType
    <3>5. hands' \in SUBSET (Nat \X Nat \X Uploads \X Nat) /\ IsFiniteSet(hands')
      BY <3>3, <3>4, FS_Singleton, Zenon
    <3> QED
      BY <2>1, <2>5, <3>1, <3>2, <3>5, Zenon
  <2>6. ASSUME NEW m \in net, NEW n \in 0 .. BlockWords, pc = "run",
               m.port \in DOMAIN session, Expected(m.port, m.block),
               app' = [k \in Area |-> IF k \in addr .. addr + n - 1
                         THEN <<m.data, FirstOf(m.block) + (k - addr)>> ELSE app[k]],
               hands' = hands \cup {Hand(m)}, UNCHANGED <<mode, fault>>
        PROVE  Result
    <3>1. n \in Nat /\ m.data \in Uploads \cup {None} /\ m.block \in Nat \ {0}
      BY <2>6, Sizes, Ports DEF Expected, NetType
    <3>2. app' \in [Area -> Words]
      BY <2>6, <3>1, WriteType
    <3>3. Hand(m) \in Nat \X Nat \X Uploads \X Nat
      BY DEF Hand, NetType
    <3>4. IsFiniteSet(hands')
      BY <2>2, <2>6, FS_AddElement
    <3>5. hands' \in SUBSET (Nat \X Nat \X Uploads \X Nat)
      BY <2>2, <2>6, <3>3, Zenon
    <3> QED
      BY <2>1, <2>6, <3>2, <3>4, <3>5, Zenon
  <2> HIDE DEF Result
  <2> QED
    BY <2>3, <2>4, <2>5, <2>6 DEF PowerOff
<1>5. TypeOK'
  <2>1. {pgerr, fault, forced}' \subseteq BOOLEAN
    BY <1>1, <1>4, Zenon DEF TypeOK
  <2>2. addr' \in 1 .. AreaWords + 1 /\ port' \in Nat /\ pc' \in {"off", "run", "app"}
    BY <1>1, Sizes
  <2>3. /\ DOMAIN session' \subseteq 1 .. port' /\ Cardinality(DOMAIN session') <= NPcb
        /\ \A s \in DOMAIN session' : session'[s] \in Nat
    BY <1>2, FS_EmptySet, Sizes
  <2> QED
    BY <1>4, <2>1, <2>2, <2>3, Zenon DEF TypeOK, Words
<1>6. NetType'
  BY <1>1, <1>2, <1>3, <1>4 DEF NetType
<1>7. ClientInv'
  BY <1>2, ClientStable
<1>8. NetInv'
  <2> SUFFICES ASSUME NEW m \in net PROVE NetOf(m)'
    BY <1>2 DEF NetInv
  <2>1. NetOf(m) /\ Peers(m)' = Peers(m) /\ m.life \in Nat
    BY <1>2 DEF NetInv, Peers, NetType
  <2>2. m.life <= resets' /\ m.life # resets'
    BY <1>1, <1>3, <2>1 DEF NetOf
  <2> QED
    BY <2>1, <2>2 DEF NetOf
<1>9. AckInv'
  <2>1. ASSUME NEW a \in acks PROVE AckOf(a)'
    <3>1. AckOf(a) /\ a.life \in Nat
      BY DEF AckInv, NetType
    <3>2. a.life <= resets' /\ a.life # resets'
      BY <1>1, <1>3, <3>1 DEF AckOf
    <3>3. a.block # 0 => Traced(a.port, a.life, a.block)'
      BY <1>2, <3>1, TracedStable DEF AckOf
    <3> QED
      BY <3>1, <3>2, <3>3 DEF AckOf
  <2> QED
    BY <1>2, <2>1 DEF AckInv
<1>10. WrittenInv'
  BY <1>2 DEF WrittenInv
<1>11. StartInv'
  <2> SUFFICES ASSUME ~forced, mode' = "app"
               PROVE  StackValid(app)' /\ (Alone' /\ ~fault' => \E u \in Uploads : Holds(u)')
    BY <1>1 DEF StartInv
  <2>1. UNCHANGED <<app, mode, hands, fault>>
    BY <1>4 DEF StartInv
  <2> QED
    BY <2>1 DEF StartInv, Alone, Holds, StackValid
<1> QED
  BY <1>5, <1>6, <1>7, <1>8, <1>9, <1>10, <1>11

-----------------------------------------------------------------------------
(* The program starts with an empty area, no session and silent clients.   *)
LEMMA InitInv == Init => IInv
<1> SUFFICES ASSUME Init PROVE IInv
  OBVIOUS
<1>1. DOMAIN session = {} /\ net = {} /\ acks = {} /\ hands = {} /\ mode = "unset" /\ pc = "run"
  BY DEF Init
<1>2. TypeOK
  <2>1. {pgerr, fault, forced} \subseteq BOOLEAN
    BY Zenon DEF Init
  <2>2. app \in [Area -> (Uploads \cup {None}) \X Nat]
    BY DEF Init, Empty
  <2>3. addr \in 1 .. AreaWords + 1 /\ port \in Nat
    BY Sizes DEF Init
  <2>4. Cardinality(DOMAIN session) <= NPcb
    BY <1>1, FS_EmptySet, Sizes
  <2> QED
    BY <1>1, <2>1, <2>2, <2>3, <2>4 DEF TypeOK
<1>3. NetType
  <2>1. client \in [Uploads -> [at : {"off", "asked", "sending", "done"}, port : Nat,
                                life : Nat, block : Nat, try : Nat]]
    BY DEF Init, Idle
  <2>2. wrqs \in Nat /\ errors \in Nat /\ resets \in Nat
    BY DEF Init
  <2> QED
    BY <1>1, <2>1, <2>2, FS_EmptySet DEF NetType
<1>4. ClientInv
  BY <1>1 DEF Init, Idle, ClientInv, ClientOf
<1>5. NetInv /\ AckInv /\ WrittenInv /\ StartInv
  BY <1>1 DEF NetInv, AckInv, WrittenInv, StartInv
<1> QED
  BY <1>2, <1>3, <1>4, <1>5 DEF IInv

(* Every step of gateway, clients and power supply keeps the invariant.    *)
LEMMA NextInv == IInv /\ [Next]_vars => IInv'
<1> SUFFICES ASSUME IInv, [Next]_vars PROVE IInv'
  OBVIOUS
<1>1. CASE UNCHANGED vars
  <2>1. UNCHANGED <<gatewayVars, acks, client, net, wrqs>>
    BY <1>1 DEF vars, gatewayVars, netVars
  <2>2. UNCHANGED <<session, port, pc, errors, resets, hands>> /\ Kept
    BY <2>1 DEF gatewayVars, histVars, Kept
  <2>3. NetType'
    BY <2>1, <2>2 DEF IInv, NetType
  <2>4. ClientInv' /\ NetInv'
    BY <2>1, <2>2, ClientStable, NetShrinks DEF IInv
  <2> QED
    BY <2>1, <2>3, <2>4, ClientStep
<1>2. CASE Server
  BY <1>2, RequestInv, DataInv DEF Server
<1>3. CASE Clients
  BY <1>3, AsksInv, ReceivesInv, RefusesInv DEF Clients
<1>4. CASE \E m \in {"app", "iap"} : setmode(m)
  BY <1>4, ModeInv
<1>5. CASE Boot
  BY <1>5, BootInv
<1>6. CASE PowerOff
  BY <1>6, PowerInv
<1> QED
  BY <1>1, <1>2, <1>3, <1>4, <1>5, <1>6 DEF Next

(* The invariant of the upgrade.                                           *)
THEOREM Invariant == Spec => []IInv
<1>1. IInv /\ [Next]_vars => IInv'
  BY NextInv
<1> QED
  BY InitInv, <1>1, PTL DEF Spec

(* What a transfer that is alone has acknowledged is in the flash, in      *)
(* order, and the next block goes behind it; every variable stays in its   *)
(* range.                                                                  *)
THEOREM SpecAckedIsWritten == Spec => []AckedIsWritten
<1>1. IInv => AckedIsWritten
  <2> SUFFICES ASSUME IInv, NEW s \in DOMAIN session, NEW h \in hands, Undisturbed, h[1] = s
               PROVE  LET done == Min({session[s] * BlockWords, ImageLen[h[3]]})
                      IN  /\ addr = done + 1
                          /\ \A k \in Area : app[k] = IF k <= done THEN <<h[3], k>> ELSE Empty
    BY DEF AckedIsWritten, IInv
  <2>1. Alone /\ ~fault
    BY AloneIs DEF Undisturbed, IInv, NetType
  <2>2. WrittenOf(s, h) /\ h[3] \in Uploads /\ session[s] \in Nat
    BY <2>1, Ports DEF IInv, WrittenInv, NetType
  <2>3. /\ session[s] * BlockWords \in Int /\ ImageLen[h[3]] \in Int
        /\ session[s] * BlockWords <= ImageLen[h[3]]
    BY <2>2, Blocks, Sizes DEF WrittenOf
  <2>4. Min({session[s] * BlockWords, ImageLen[h[3]]}) = session[s] * BlockWords
    BY <2>3, MinOfTwo
  <2> QED
    BY <2>2, <2>4 DEF WrittenOf, Written
<1> QED
  BY Invariant, <1>1, PTL

(* A started application is a whole image, if one transfer alone used the  *)
(* area, the flash worked and the mode was not forced.                     *)
THEOREM SpecStartsWholeImage == Spec => []StartsWholeImage
<1>1. IInv => StartsWholeImage
  BY AloneIs DEF IInv, StartInv, StartsWholeImage, Undisturbed, NetType
<1> QED
  BY Invariant, <1>1, PTL

(* A client is not acknowledged a block it has not sent yet.               *)
THEOREM SpecAcksOnlySent == Spec => []AcksOnlySent
<1>1. IInv => AcksOnlySent
  <2> SUFFICES ASSUME IInv, NEW u \in Uploads, client[u].at = "sending",
                      \A b \in acks : <<b.port, b.life>> = <<client[u].port, client[u].life>> =>
                                      <<b.u, b.try>> = <<u, client[u].try>>,
                      NEW a \in acks, <<a.port, a.life>> = <<client[u].port, client[u].life>>
               PROVE  a.block <= client[u].block
    BY DEF AcksOnlySent
  <2>1. ClientOf(u) /\ AckOf(a) /\ client[u].block \in Nat
    BY DEF IInv, ClientInv, AckInv, NetType
  <2>2. CASE a.block = 0
    BY <2>1, <2>2
  <2>3. CASE a.block # 0
    <3>1. PICK m \in net, b \in acks : /\ m.port = a.port /\ m.block = a.block
                                       /\ b.port = a.port /\ b.life = a.life
                                       /\ b.u = m.u /\ b.try = m.try
      BY <2>1, <2>3 DEF AckOf, Traced
    <3>2. b.u = u /\ b.try = client[u].try
      BY <3>1
    <3>3. m.u = u /\ m.try = client[u].try /\ m.port = client[u].port /\ m.port # 0
      BY <2>1, <3>1, <3>2 DEF AckOf
    <3> QED
      BY <2>1, <3>1, <3>3 DEF ClientOf
  <2> QED
    BY <2>2, <2>3
<1> QED
  BY Invariant, <1>1, PTL

=============================================================================
