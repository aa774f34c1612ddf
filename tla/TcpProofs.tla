----------------------------- MODULE TcpProofs -----------------------------
(***************************************************************************)
(* Proofs about the two TCP modules, for every value of their constants.   *)
(*                                                                         *)
(* First the sending side (TcpSend): whatever the network loses, repeats   *)
(* or reorders, no byte the client has handed over is lost, the queues     *)
(* stay in order and nothing is sent beyond the window.  SendInv is the    *)
(* inductive invariant: unacked followed by unsent is one line of segments *)
(* without gap or overlap, from at most lastack up to snd_lbb; the peer    *)
(* has only what was sent; and of two acknowledgements under way the later *)
(* one never takes a window edge back.                                     *)
(*                                                                         *)
(* Then the client (TcpClient), for a pool of any size and any clock with  *)
(* SYN_TICKS <= RETRY.  IndInv says why wpcb cannot have been replaced     *)
(* when a SYN is answered: the SYN is exactly as old as the last attempt,  *)
(* and the next attempt comes only after lwIP has given it up.             *)
(***************************************************************************)
EXTENDS TcpClient, TcpSend, SequenceTheorems, WellFoundedInduction, TLAPS

(* A segment of a queue.                                                   *)
SEG == [seq : Nat, len : 1 .. MSS]

(* The segments of q are the bytes from a to b, without gap or overlap.    *)
Line(q, a, b) ==
  /\ q = <<>> => a = b
  /\ q # <<>> => q[1].seq = a /\ End(q[Len(q)]) = b
  /\ \A i \in 1 .. Len(q) - 1 : End(q[i]) = q[i + 1].seq

-----------------------------------------------------------------------------
(* Numbers and sequences.                                                  *)

(* The sizes are positive.                                                 *)
LEMMA SendSizes ==
  /\ MSS \in Nat /\ MSS >= 1 /\ PeerBuf \in Nat /\ PeerBuf >= 1 /\ TCP_SND_BUF \in Nat
  /\ DupThresh \in Nat /\ KEEP_CNT \in Nat /\ KEEP_CNT >= 1 /\ MaxBytes \in Nat
  /\ MaxFaults \in Nat
  BY TcpSendAssumption

(* A set of naturals has a least element.                                  *)
LEMMA Least ==
  ASSUME NEW S \in SUBSET Nat, S # {}
  PROVE  \E m \in S : \A k \in S : m <= k
<1>1. PICK x \in S : \A y \in S : ~(<<y, x>> \in OpToRel(<, Nat))
  BY NatLessThanWellFounded, WFMin
<1>2. \A y \in S : ~(y < x)
  BY <1>1 DEF OpToRel
<1> QED
  BY <1>2

(* Leading stops at the first index that is not in S.                      *)
LEMMA LeadingStops ==
  ASSUME NEW n \in Nat, NEW S
  PROVE  /\ Leading(S, n) \in 0 .. n
         /\ \A i \in 1 .. Leading(S, n) : i \in S
         /\ Leading(S, n) < n => Leading(S, n) + 1 \notin S
<1> DEFINE T == {k \in 0 .. n : k = n \/ k + 1 \notin S}
<1>1. n \in T /\ T \in SUBSET Nat
  OBVIOUS
<1>2. PICK k \in T : \A j \in T : k <= j
  BY <1>1, Least
<1>3. 1 .. k \subseteq S
  <2> SUFFICES ASSUME NEW i \in 1 .. k, i \notin S PROVE FALSE
    OBVIOUS
  <2>1. i - 1 \in T
    BY <1>2
  <2> QED
    BY <1>2, <2>1
<1>4. \E j \in 0 .. n : 1 .. j \subseteq S /\ (j = n \/ j + 1 \notin S)
  BY <1>2, <1>3
<1> QED
  BY <1>4 DEF Leading

(* Segments have an end, and are not empty.                                *)
LEMMA Ends == \A s \in SEG : s.seq \in Nat /\ s.len \in 1 .. MSS /\ End(s) \in Nat
                             /\ s.seq < End(s) /\ End(s) <= s.seq + MSS
  BY SendSizes DEF SEG, End

(* The segments of a line are in order and inside its ends.                *)
LEMMA LineOrder ==
  ASSUME NEW q \in Seq(SEG), NEW a \in Nat, NEW b \in Nat, Line(q, a, b)
  PROVE  /\ \A i, j \in 1 .. Len(q) : i < j => End(q[i]) <= q[j].seq
         /\ \A i \in 1 .. Len(q) : a <= q[i].seq /\ End(q[i]) <= b
         /\ a <= b
<1>1. Len(q) \in Nat /\ \A i \in 1 .. Len(q) : q[i] \in SEG
  OBVIOUS
<1>2. \A i \in 1 .. Len(q) : q[i].seq \in Nat /\ End(q[i]) \in Nat /\ q[i].seq < End(q[i])
  BY <1>1, Ends
<1>3. ASSUME NEW i \in 1 .. Len(q), NEW j \in 1 .. Len(q), i < j
      PROVE  End(q[i]) <= q[j].seq
  <2> DEFINE S == {k \in 1 .. Len(q) : i < k /\ ~(End(q[i]) <= q[k].seq)}
  <2> SUFFICES S = {}
    BY <1>3
  <2> SUFFICES ASSUME S # {} PROVE FALSE
    OBVIOUS
  <2>1. S \in SUBSET Nat
    OBVIOUS
  <2>2. PICK k \in S : \A l \in S : k <= l
    BY <2>1, Least
  <2>3. k \in 1 .. Len(q) /\ i < k /\ k - 1 \in 1 .. Len(q) - 1 /\ k - 1 \notin S
    BY <2>2
  <2>4. End(q[k - 1]) = q[(k - 1) + 1].seq
    BY <2>3 DEF Line
  <2>5. (k - 1) + 1 = k
    BY <2>3
  <2>6. End(q[k - 1]) = q[k].seq
    BY <2>4, <2>5
  <2> HIDE DEF S
  <2>7. k - 1 = i \/ (i < k - 1 /\ End(q[i]) <= q[k - 1].seq)
    BY <2>3 DEF S
  <2>8. End(q[i]) <= q[k].seq
    BY <1>2, <2>3, <2>6, <2>7
  <2> QED
    BY <2>2, <2>8 DEF S
<1>4. ASSUME NEW i \in 1 .. Len(q)
      PROVE  a <= q[i].seq /\ End(q[i]) <= b
  <2>1. 1 \in 1 .. Len(q) /\ Len(q) \in 1 .. Len(q) /\ q # <<>>
    BY <1>1
  <2>2. q[1].seq = a /\ End(q[Len(q)]) = b
    BY <2>1 DEF Line
  <2>3. i = 1 \/ End(q[1]) <= q[i].seq
    BY <1>3, <2>1
  <2>4. i = Len(q) \/ End(q[i]) <= q[Len(q)].seq
    BY <1>3, <2>1
  <2> QED
    BY <1>2, <2>1, <2>2, <2>3, <2>4
<1>5. a <= b
  <2>1. CASE q = <<>>
    BY <2>1 DEF Line
  <2>2. CASE q # <<>>
    <3>1. 1 \in 1 .. Len(q)
      BY <1>1, <2>2
    <3> QED
      BY <1>2, <1>4, <3>1
  <2> QED
    BY <2>1, <2>2
<1> QED
  BY <1>3, <1>4, <1>5

(* The elements of two queues in a row.                                    *)
LEMMA Joined ==
  ASSUME NEW q \in Seq(SEG), NEW r \in Seq(SEG)
  PROVE  /\ q \o r \in Seq(SEG) /\ Len(q \o r) = Len(q) + Len(r)
         /\ Len(q) \in Nat /\ Len(r) \in Nat
         /\ \A i \in 1 .. Len(q) : (q \o r)[i] = q[i]
         /\ \A i \in 1 .. Len(r) : (q \o r)[Len(q) + i] = r[i]
  BY ConcatProperties

(* Queues in a row can be bracketed in any way.                            *)
LEMMA Rejoined ==
  ASSUME NEW q \in Seq(SEG), NEW r \in Seq(SEG), NEW t \in Seq(SEG)
  PROVE  q \o (r \o t) = (q \o r) \o t
  BY ConcatAssociative

(* Two lines that meet are one.                                            *)
LEMMA LineJoin ==
  ASSUME NEW q \in Seq(SEG), NEW r \in Seq(SEG), NEW a, NEW m, NEW b,
         Line(q, a, m), Line(r, m, b)
  PROVE  q \o r \in Seq(SEG) /\ Line(q \o r, a, b)
<1> DEFINE t == q \o r
<1>1. /\ t \in Seq(SEG) /\ Len(t) = Len(q) + Len(r) /\ Len(q) \in Nat /\ Len(r) \in Nat
      /\ \A i \in 1 .. Len(q) : t[i] = q[i]
      /\ \A i \in 1 .. Len(r) : t[Len(q) + i] = r[i]
  BY ConcatProperties
<1>2. /\ q = <<>> <=> Len(q) = 0
      /\ r = <<>> <=> Len(r) = 0
      /\ t = <<>> <=> Len(t) = 0
  BY <1>1
<1> HIDE DEF t
<1>3. t = <<>> => a = b
  BY <1>1, <1>2 DEF Line
<1>4. t # <<>> => t[1].seq = a
  <2>1. CASE Len(q) = 0
    BY <1>1, <1>2, <2>1 DEF Line
  <2>2. CASE Len(q) # 0
    BY <1>1, <1>2, <2>2 DEF Line
  <2> QED
    BY <2>1, <2>2
<1>5. t # <<>> => End(t[Len(t)]) = b
  <2>1. CASE Len(r) = 0
    BY <1>1, <1>2, <2>1 DEF Line
  <2>2. CASE Len(r) # 0
    <3>1. t[Len(t)] = r[Len(r)]
      BY <1>1, <2>2
    <3> QED
      BY <1>1, <1>2, <2>2, <3>1 DEF Line
  <2> QED
    BY <2>1, <2>2
<1>6. ASSUME NEW i \in 1 .. Len(t) - 1 PROVE End(t[i]) = t[i + 1].seq
  <2>1. CASE i < Len(q)
    <3>1. i \in 1 .. Len(q) - 1 /\ t[i] = q[i] /\ t[i + 1] = q[i + 1]
      BY <1>1, <2>1
    <3> QED
      BY <3>1 DEF Line
  <2>2. CASE i = Len(q)
    <3>1. t[i] = q[Len(q)] /\ t[i + 1] = r[1] /\ q # <<>> /\ r # <<>>
      BY <1>1, <1>2, <2>2
    <3> QED
      BY <3>1 DEF Line
  <2>3. CASE i > Len(q)
    <3> DEFINE k == i - Len(q)
    <3>1. k \in 1 .. Len(r) - 1 /\ i = Len(q) + k /\ i + 1 = Len(q) + (k + 1)
      BY <1>1, <2>3
    <3> HIDE DEF k
    <3>2. k \in 1 .. Len(r) /\ k + 1 \in 1 .. Len(r)
      BY <1>1, <3>1
    <3>3. t[Len(q) + k] = r[k] /\ t[Len(q) + (k + 1)] = r[k + 1]
      BY <1>1, <3>2
    <3> QED
      BY <3>1, <3>3 DEF Line
  <2> QED
    BY <1>1, <2>1, <2>2, <2>3
<1> QED
  BY <1>1, <1>3, <1>4, <1>5, <1>6 DEF Line, t

(* A line can be cut at every segment.                                     *)
LEMMA LineCut ==
  ASSUME NEW q \in Seq(SEG), NEW a \in Nat, NEW b \in Nat, Line(q, a, b), NEW k \in 0 .. Len(q)
  PROVE  LET r == SubSeq(q, 1, k)
             t == SubSeq(q, k + 1, Len(q))
         IN  /\ r \in Seq(SEG) /\ Len(r) = k /\ \A i \in 1 .. k : r[i] = q[i]
             /\ t \in Seq(SEG) /\ Len(t) = Len(q) - k /\ \A i \in 1 .. Len(q) - k : t[i] = q[k + i]
             /\ \E m \in Nat : Line(r, a, m) /\ Line(t, m, b)
<1> DEFINE r == SubSeq(q, 1, k)
           t == SubSeq(q, k + 1, Len(q))
<1>1. Len(q) \in Nat /\ k \in Nat /\ k <= Len(q) /\ \A i \in 1 .. Len(q) : q[i] \in SEG
  OBVIOUS
<1>2. r \in Seq(SEG) /\ Len(r) = k /\ \A i \in 1 .. k : r[i] = q[i]
  <2>1. \A i \in 1 .. k : q[i] \in SEG
    BY <1>1
  <2>2. /\ r \in Seq(SEG) /\ Len(r) = IF 1 <= k THEN k - 1 + 1 ELSE 0
        /\ \A i \in 1 .. k - 1 + 1 : r[i] = q[1 + i - 1]
    BY <1>1, <2>1, SubSeqProperties
  <2>3. \A i \in 1 .. k : i \in 1 .. k - 1 + 1 /\ 1 + i - 1 = i
    BY <1>1
  <2> QED
    BY <1>1, <2>2, <2>3
<1>3. t \in Seq(SEG) /\ Len(t) = Len(q) - k /\ \A i \in 1 .. Len(q) - k : t[i] = q[k + i]
  <2>1. \A i \in k + 1 .. Len(q) : q[i] \in SEG
    BY <1>1
  <2>2. /\ t \in Seq(SEG) /\ Len(t) = IF k + 1 <= Len(q) THEN Len(q) - (k + 1) + 1 ELSE 0
        /\ \A i \in 1 .. Len(q) - (k + 1) + 1 : t[i] = q[(k + 1) + i - 1]
    <3>1. k + 1 \in Int /\ Len(q) \in Int
      BY <1>1
    <3> QED
      BY <2>1, <3>1, SubSeqProperties
  <2>3. \A i \in 1 .. Len(q) - k : i \in 1 .. Len(q) - (k + 1) + 1 /\ (k + 1) + i - 1 = k + i
    BY <1>1
  <2> QED
    BY <1>1, <2>2, <2>3
<1> HIDE DEF r, t
<1>4. /\ q = <<>> <=> Len(q) = 0
      /\ r = <<>> <=> Len(r) = 0
      /\ t = <<>> <=> Len(t) = 0
  BY <1>2, <1>3
<1>5. \A i \in 1 .. Len(r) - 1 : End(r[i]) = r[i + 1].seq
  <2> TAKE i \in 1 .. Len(r) - 1
  <2>1. i \in 1 .. Len(q) - 1 /\ r[i] = q[i] /\ r[i + 1] = q[i + 1]
    BY <1>1, <1>2
  <2> QED
    BY <2>1 DEF Line
<1>6. \A i \in 1 .. Len(t) - 1 : End(t[i]) = t[i + 1].seq
  <2> TAKE i \in 1 .. Len(t) - 1
  <2>0. /\ i \in 1 .. Len(q) - k /\ i + 1 \in 1 .. Len(q) - k
        /\ k + i \in 1 .. Len(q) - 1 /\ k + (i + 1) = (k + i) + 1
    BY <1>1, <1>3
  <2>1. k + i \in 1 .. Len(q) - 1 /\ t[i] = q[k + i] /\ t[i + 1] = q[(k + i) + 1]
    <3>1. t[i] = q[k + i]
      BY <1>3, <2>0
    <3>2. t[i + 1] = q[k + (i + 1)]
      BY <1>3, <2>0
    <3> QED
      BY <2>0, <3>1, <3>2
  <2> QED
    BY <2>1 DEF Line
<1>7. CASE k = 0
  <2>1. Line(r, a, a)
    BY <1>1, <1>2, <1>4, <1>5, <1>7 DEF Line
  <2>2. Line(t, a, b)
    <3>1. t = <<>> => a = b
      BY <1>3, <1>4, <1>7 DEF Line
    <3>2. t # <<>> => t[1] = q[1] /\ t[Len(t)] = q[Len(q)] /\ q # <<>>
      BY <1>1, <1>3, <1>4, <1>7
    <3> QED
      BY <1>6, <3>1, <3>2 DEF Line
  <2> QED
    BY <1>2, <1>3, <2>1, <2>2 DEF r, t
<1>8. CASE k # 0
  <2>1. k \in 1 .. Len(q) /\ r # <<>> /\ q # <<>>
    BY <1>1, <1>2, <1>4, <1>8
  <2>2. End(q[k]) \in Nat
    BY <1>1, <2>1, Ends
  <2>3. Line(r, a, End(q[k]))
    <3>1. r[1] = q[1] /\ r[Len(r)] = q[k]
      BY <1>1, <1>2, <2>1
    <3> QED
      BY <1>5, <2>1, <3>1 DEF Line
  <2>4. Line(t, End(q[k]), b)
    <3>1. t = <<>> => k = Len(q)
      BY <1>1, <1>3, <1>4
    <3>2. t # <<>> => t[1] = q[k + 1] /\ t[Len(t)] = q[Len(q)] /\ k \in 1 .. Len(q) - 1
      BY <1>1, <1>3, <1>4, <2>1
    <3> QED
      BY <1>6, <2>1, <3>1, <3>2 DEF Line
  <2> QED
    BY <1>2, <1>3, <2>2, <2>3, <2>4 DEF r, t
<1> QED
  BY <1>7, <1>8

(* A segment behind all others goes to the end of the queue.               *)
LEMMA InsertedAtEnd ==
  ASSUME NEW q \in Seq(SEG), NEW s \in SEG, \A i \in 1 .. Len(q) : q[i].seq < s.seq
  PROVE  Inserted(q, s) = q \o <<s>>
<1> DEFINE S == {i \in DOMAIN q : q[i].seq < s.seq}
           k == Leading(S, Len(q))
<1>1. Len(q) \in Nat /\ DOMAIN q = 1 .. Len(q) /\ <<s>> \in Seq(SEG)
  OBVIOUS
<1>2. 1 .. Len(q) \subseteq S
  BY <1>1
<1> HIDE DEF S
<1>3. k \in 0 .. Len(q) /\ (k < Len(q) => k + 1 \notin S)
  BY <1>1, LeadingStops
<1> HIDE DEF k
<1>4. k = Len(q)
  <2>1. \A j \in 1 .. Len(q) : j \in S
    BY <1>2
  <2>2. k < Len(q) => k + 1 \in 1 .. Len(q)
    BY <1>1, <1>3
  <2>3. ~(k < Len(q))
    BY <1>3, <2>1, <2>2
  <2>4. Len(q) \in Nat /\ k \in 0 .. Len(q)
    BY <1>1, <1>3
  <2> QED
    BY <2>3, <2>4
<1>5. SubSeq(q, 1, k) = q /\ SubSeq(q, k + 1, Len(q)) = <<>>
  <2>1. SubSeq(q, 1, Len(q)) = q
    BY SubSeqFull
  <2>2. k + 1 \in Int /\ Len(q) \in Int /\ Len(q) < k + 1
    BY <1>1, <1>4
  <2>3. SubSeq(q, k + 1, Len(q)) = <<>>
    BY <2>2, SubSeqEmpty
  <2> QED
    BY <1>4, <2>1, <2>3
<1>6. q \o <<s>> \in Seq(SEG)
  BY <1>1, ConcatProperties
<1>7. (q \o <<s>>) \o <<>> = q \o <<s>>
  BY <1>6, ConcatEmptySeq
<1> QED
  BY <1>5, <1>7 DEF Inserted, k, S

(* A segment before all others goes to the head of the queue.              *)
LEMMA InsertedAtHead ==
  ASSUME NEW q \in Seq(SEG), NEW s \in SEG, \A i \in 1 .. Len(q) : ~(q[i].seq < s.seq)
  PROVE  Inserted(q, s) = <<s>> \o q
<1> DEFINE S == {i \in DOMAIN q : q[i].seq < s.seq}
           k == Leading(S, Len(q))
<1>1. Len(q) \in Nat /\ DOMAIN q = 1 .. Len(q) /\ <<s>> \in Seq(SEG)
  OBVIOUS
<1>2. S = {}
  BY <1>1
<1> HIDE DEF S
<1>3. k \in 0 .. Len(q) /\ \A i \in 1 .. k : i \in S
  BY <1>1, LeadingStops
<1> HIDE DEF k
<1>4. k = 0
  BY <1>1, <1>2, <1>3
<1>5. SubSeq(q, 1, k) = <<>> /\ SubSeq(q, k + 1, Len(q)) = q
  <2>1. SubSeq(q, 1, Len(q)) = q
    BY SubSeqFull
  <2>2. SubSeq(q, 1, 0) = <<>>
    BY SubSeqEmpty
  <2> QED
    BY <1>4, <2>1, <2>2
<1>6. <<>> \o <<s>> = <<s>>
  BY <1>1, ConcatEmptySeq
<1> QED
  BY <1>5, <1>6 DEF Inserted, k, S

(* What the loop of tcp_output computes, if its steps are known.           *)
LEMMA MergedIs ==
  ASSUME NEW q, NEW b \in Seq(SEG), NEW g, g = [k \in 0 .. Len(b) |-> g[k]],
         g[0] = q, \A k \in 1 .. Len(b) : g[k] = Inserted(g[k - 1], b[k])
  PROVE  Merged(q, b) = g[Len(b)]
<1> DEFINE F(h) == [k \in 0 .. Len(b) |-> IF k = 0 THEN q ELSE Inserted(h[k - 1], b[k])]
           f == CHOOSE h : h = F(h)
<1>1. Len(b) \in Nat
  OBVIOUS
<1>2. g = F(g)
  <2>1. \A k \in 0 .. Len(b) : g[k] = IF k = 0 THEN q ELSE Inserted(g[k - 1], b[k])
    <3> HIDE DEF F, f
    <3> TAKE k \in 0 .. Len(b)
    <3>1. CASE k = 0
      BY <3>1
    <3>2. CASE k # 0
      <4>1. k \in 1 .. Len(b)
        BY <1>1, <3>2
      <4> QED
        BY <3>2, <4>1
    <3> QED
      BY <3>1, <3>2
  <2> QED
    BY <2>1
<1>3. f = F(f)
  BY <1>2
<1>4. f[0] = q /\ \A k \in 1 .. Len(b) : f[k] = Inserted(f[k - 1], b[k])
  <2> HIDE DEF f
  <2>1. \A k \in 0 .. Len(b) : F(f)[k] = IF k = 0 THEN q ELSE Inserted(f[k - 1], b[k])
    OBVIOUS
  <2> HIDE DEF F
  <2>2. \A k \in 0 .. Len(b) : f[k] = IF k = 0 THEN q ELSE Inserted(f[k - 1], b[k])
    BY <1>3, <2>1
  <2> QED
    BY <1>1, <2>2
<1>5. Merged(q, b) = f[Len(b)]
  BY DEF Merged
<1> HIDE DEF f
<1>6. f[Len(b)] = g[Len(b)]
  <2> DEFINE S == {k \in 0 .. Len(b) : f[k] # g[k]}
  <2> SUFFICES S = {}
    BY <1>1
  <2> SUFFICES ASSUME S # {} PROVE FALSE
    OBVIOUS
  <2>1. S \in SUBSET Nat
    OBVIOUS
  <2>2. PICK k \in S : \A l \in S : k <= l
    BY <2>1, Least
  <2>3. k \in 1 .. Len(b) /\ k - 1 \in 0 .. Len(b) /\ k - 1 \notin S
    BY <1>1, <1>4, <2>2
  <2>4. f[k - 1] = g[k - 1]
    BY <2>3
  <2> QED
    BY <1>4, <2>2, <2>3, <2>4
<1> QED
  BY <1>5, <1>6

(* tcp_output puts what follows the queue behind it.                       *)
LEMMA MergedBehind ==
  ASSUME NEW q \in Seq(SEG), NEW b \in Seq(SEG), NEW a \in Nat, NEW m \in Nat, NEW e \in Nat,
         Line(q, a, m), Line(b, m, e)
  PROVE  Merged(q, b) = q \o b
<1> DEFINE g == [k \in 0 .. Len(b) |-> q \o SubSeq(b, 1, k)]
<1>1. Len(b) \in Nat /\ Len(q) \in Nat /\ \A i \in 1 .. Len(b) : b[i] \in SEG
  OBVIOUS
<1>2. g[0] = q
  <2>1. SubSeq(b, 1, 0) = <<>>
    BY SubSeqEmpty
  <2>2. q \o <<>> = q
    BY ConcatEmptySeq
  <2>3. 0 \in 0 .. Len(b)
    BY <1>1
  <2> QED
    BY <2>1, <2>2, <2>3
<1>3. ASSUME NEW k \in 1 .. Len(b) PROVE g[k] = Inserted(g[k - 1], b[k])
  <2> DEFINE r == SubSeq(b, 1, k - 1)
             t == q \o r
  <2>1. k - 1 \in 0 .. Len(b) /\ k \in 0 .. Len(b)
    BY <1>1
  <2>2. r \in Seq(SEG) /\ Len(r) = k - 1 /\ (\A i \in 1 .. k - 1 : r[i] = b[i])
        /\ <<b[k]>> \in Seq(SEG) /\ b[k] \in SEG
    BY <1>1, <2>1, LineCut
  <2>3. SubSeq(b, 1, k) = r \o <<b[k]>>
    <3>1. 1 \in 1 .. Len(b) /\ k \in 1 .. Len(b)
      BY <1>1
    <3> QED
      BY <3>1, SubSeqRecursiveSecond
  <2>4. g[k] = q \o (r \o <<b[k]>>) /\ g[k - 1] = t
    BY <2>1, <2>3
  <2> HIDE DEF g, r
  <2>5. q \o (r \o <<b[k]>>) = t \o <<b[k]>>
    <3>1. r \in Seq(SEG) /\ <<b[k]>> \in Seq(SEG)
      BY <2>2
    <3> QED
      BY <3>1, Rejoined, Zenon
  <2>6. /\ t \in Seq(SEG) /\ Len(t) = Len(q) + (k - 1)
        /\ \A i \in 1 .. Len(q) : t[i] = q[i]
        /\ \A j \in 1 .. k - 1 : t[Len(q) + j] = r[j]
    <3>1. r \in Seq(SEG) /\ Len(r) = k - 1
      BY <2>2
    <3>2. /\ t \in Seq(SEG) /\ Len(t) = Len(q) + Len(r)
          /\ \A i \in 1 .. Len(q) : t[i] = q[i]
          /\ \A j \in 1 .. Len(r) : t[Len(q) + j] = r[j]
      BY <3>1, Joined, Zenon
    <3> QED
      BY <3>1, <3>2, Zenon
  <2> HIDE DEF t
  <2>7. \A i \in 1 .. Len(t) : t[i].seq < b[k].seq
    <3> TAKE i \in 1 .. Len(t)
    <3>0. m <= b[k].seq /\ b[k].seq \in Nat
      BY <2>2, LineOrder, Ends
    <3>1. CASE i <= Len(q)
      <4>1. i \in 1 .. Len(q) /\ t[i] = q[i]
        <5>1. i \in Nat /\ i >= 1 /\ Len(q) \in Nat
          BY <1>1, <2>6
        <5>2. i \in 1 .. Len(q)
          BY <3>1, <5>1
        <5> QED
          BY <2>6, <5>2
      <4>2. End(q[i]) <= m /\ q[i] \in SEG
        BY <4>1, LineOrder
      <4>3. q[i].seq < End(q[i]) /\ q[i].seq \in Nat /\ End(q[i]) \in Nat
        BY <4>2, Ends
      <4> QED
        BY <3>0, <4>1, <4>2, <4>3
    <3>2. CASE i > Len(q)
      <4> DEFINE j == i - Len(q)
      <4>0. i = Len(q) + j /\ j \in 1 .. k - 1 /\ j \in 1 .. Len(b) /\ j < k
        BY <1>1, <2>6, <3>2
      <4> HIDE DEF j
      <4>1. j \in 1 .. k - 1 /\ j \in 1 .. Len(b) /\ j < k /\ t[i] = r[j]
        BY <2>6, <4>0
      <4>2. t[i] = b[j] /\ b[j] \in SEG /\ End(b[j]) <= b[k].seq
        BY <1>1, <2>2, <4>1, LineOrder
      <4>3. b[j].seq < End(b[j]) /\ b[j].seq \in Nat /\ End(b[j]) \in Nat
        BY <4>2, Ends
      <4> QED
        BY <3>0, <4>2, <4>3
    <3> QED
      BY <1>1, <2>6, <3>1, <3>2
  <2>8. Inserted(t, b[k]) = t \o <<b[k]>>
    BY <2>2, <2>6, <2>7, InsertedAtEnd
  <2> QED
    BY <2>4, <2>5, <2>8
<1>4. g = [k \in 0 .. Len(b) |-> g[k]] /\ g[Len(b)] = q \o SubSeq(b, 1, Len(b))
  <2>1. Len(b) \in 0 .. Len(b)
    BY <1>1
  <2>2. g = [k \in 0 .. Len(b) |-> g[k]]
    BY Zenon
  <2>3. g[Len(b)] = q \o SubSeq(b, 1, Len(b))
    BY <2>1, Zenon
  <2> QED
    BY <2>2, <2>3
<1> HIDE DEF g
<1>5. Merged(q, b) = g[Len(b)]
  BY <1>2, <1>3, <1>4, MergedIs
<1> QED
  BY <1>4, <1>5, SubSeqFull

(* A segment that was taken from the head of the queue goes back there,    *)
(* and what follows the queue behind it.                                   *)
LEMMA MergedAgain ==
  ASSUME NEW s \in SEG, NEW q \in Seq(SEG), NEW c \in Seq(SEG),
         NEW a \in Nat, NEW o \in Nat, NEW m \in Nat, NEW e \in Nat,
         Line(<<s>>, a, o), Line(q, o, m), Line(c, m, e)
  PROVE  Merged(q, <<s>> \o c) = (<<s>> \o q) \o c
<1> DEFINE h == <<s>> \o q
           b == <<s>> \o c
           g == [k \in 0 .. Len(b) |-> IF k = 0 THEN q ELSE h \o SubSeq(c, 1, k - 1)]
<1>1. Len(c) \in Nat /\ <<s>> \in Seq(SEG) /\ Len(<<s>>) = 1 /\ <<s>>[1] = s
      /\ \A i \in 1 .. Len(c) : c[i] \in SEG
  OBVIOUS
<1>2. /\ b \in Seq(SEG) /\ Len(b) = Len(c) + 1 /\ b[1] = s
      /\ \A k \in 1 .. Len(c) : b[k + 1] = c[k]
  <2>1. /\ b \in Seq(SEG) /\ Len(b) = 1 + Len(c)
        /\ \A i \in 1 .. 1 + Len(c) : b[i] = IF i <= 1 THEN <<s>>[i] ELSE c[i - 1]
    BY <1>1, ConcatProperties
  <2> HIDE DEF b
  <2>2. \A k \in 1 .. Len(c) : k + 1 \in 1 .. 1 + Len(c) /\ ~(k + 1 <= 1) /\ (k + 1) - 1 = k
    BY <1>1
  <2>3. \A k \in 1 .. Len(c) : b[k + 1] = c[k]
    BY <2>1, <2>2
  <2> QED
    BY <1>1, <2>1, <2>3
<1>3. h \in Seq(SEG) /\ Line(h, a, m)
  BY <1>1, LineJoin
<1>4. Inserted(q, s) = h
  <2>1. s.seq \in Nat /\ End(s) \in Nat /\ s.seq < End(s) /\ End(s) = o
    BY <1>1, Ends DEF Line
  <2>2. \A i \in 1 .. Len(q) : q[i] \in SEG /\ o <= q[i].seq
    BY LineOrder
  <2>3. \A i \in 1 .. Len(q) : ~(q[i].seq < s.seq)
    BY <2>1, <2>2, Ends
  <2> QED
    BY <2>3, InsertedAtHead
<1> HIDE DEF h, b
<1>5. ASSUME NEW k \in 1 .. Len(b) PROVE g[k] = Inserted(g[k - 1], b[k])
  <2>1. CASE k = 1
    <3>1. SubSeq(c, 1, 0) = <<>>
      BY SubSeqEmpty
    <3>2. h \o <<>> = h
      BY <1>3, ConcatEmptySeq
    <3>3. g[1] = h \o SubSeq(c, 1, 1 - 1) /\ g[0] = q
      <4>1. 0 \in 0 .. Len(b) /\ 1 \in 0 .. Len(b) /\ 1 # 0
        BY <1>1, <1>2
      <4> QED
        BY <4>1
    <3>4. 1 - 1 = 0
      OBVIOUS
    <3> QED
      BY <1>2, <1>4, <2>1, <3>1, <3>2, <3>3, <3>4
  <2>2. CASE k # 1
    <3> DEFINE j == k - 1
               r == SubSeq(c, 1, j - 1)
    <3>1. j \in 1 .. Len(c) /\ k = j + 1 /\ j - 1 \in 0 .. Len(c) /\ k - 1 \in 0 .. Len(b)
          /\ k - 1 # 0 /\ (k - 1) - 1 = j - 1 /\ k \in 0 .. Len(b) /\ k # 0
      BY <1>1, <1>2, <2>2
    <3>2. g[k] = h \o SubSeq(c, 1, j) /\ g[k - 1] = h \o r
      BY <3>1
    <3> HIDE DEF j, g
    <3>3. r \in Seq(SEG) /\ Len(r) = j - 1 /\ (\A i \in 1 .. j - 1 : r[i] = c[i])
          /\ <<c[j]>> \in Seq(SEG) /\ c[j] \in SEG
      BY <1>1, <3>1, LineCut
    <3>4. SubSeq(c, 1, j) = r \o <<c[j]>>
      <4>1. 1 \in 1 .. Len(c) /\ j \in 1 .. Len(c)
        BY <1>1, <3>1
      <4> QED
        BY <4>1, SubSeqRecursiveSecond
    <3> HIDE DEF r
    <3>5. h \o (r \o <<c[j]>>) = (h \o r) \o <<c[j]>>
      <4>1. h \in Seq(SEG) /\ r \in Seq(SEG) /\ <<c[j]>> \in Seq(SEG)
        BY <1>3, <3>3
      <4> QED
        BY <4>1, Rejoined, Zenon
    <3>6. Inserted(h \o r, c[j]) = (h \o r) \o <<c[j]>>
      <4> DEFINE t == h \o r
      <4>1. t \in Seq(SEG) /\ Len(t) = Len(h) + (j - 1) /\ Len(h) \in Nat
            /\ (\A i \in 1 .. Len(h) : t[i] = h[i]) /\ \A i \in 1 .. j - 1 : t[Len(h) + i] = r[i]
        <5>1. h \in Seq(SEG) /\ r \in Seq(SEG) /\ Len(r) = j - 1
          BY <1>3, <3>3
        <5>2. t \in Seq(SEG) /\ Len(t) = Len(h) + Len(r) /\ Len(h) \in Nat
              /\ (\A i \in 1 .. Len(h) : t[i] = h[i]) /\ \A i \in 1 .. Len(r) : t[Len(h) + i] = r[i]
          BY <5>1, Joined, Zenon
        <5> QED
          BY <5>1, <5>2, Zenon
      <4> HIDE DEF t
      <4>2. \A i \in 1 .. Len(h) : h[i] \in SEG /\ End(h[i]) <= m
        BY <1>3, LineOrder
      <4>3. m <= c[j].seq /\ \A i \in 1 .. j - 1 : c[i] \in SEG /\ End(c[i]) <= c[j].seq
        <5>1. \A i \in 1 .. j - 1 : i \in 1 .. Len(c) /\ i < j
          BY <1>1, <3>1
        <5> QED
          BY <1>1, <3>1, <5>1, LineOrder
      <4>4. ASSUME NEW i \in 1 .. Len(t) PROVE t[i].seq < c[j].seq
        <5>0. c[j].seq \in Nat
          BY <3>3, Ends
        <5>1. CASE i \in 1 .. Len(h)
          <6>1. t[i] = h[i] /\ h[i] \in SEG /\ End(h[i]) <= m
            BY <4>1, <4>2, <5>1
          <6>2. h[i].seq \in Nat /\ End(h[i]) \in Nat /\ h[i].seq < End(h[i])
            BY <6>1, Ends
          <6> QED
            BY <4>3, <5>0, <6>1, <6>2
        <5>2. CASE i \notin 1 .. Len(h)
          <6>1. PICK l \in 1 .. j - 1 : i = Len(h) + l
            <7>1. i - Len(h) \in 1 .. j - 1 /\ i = Len(h) + (i - Len(h))
              BY <3>1, <4>1, <5>2
            <7> QED
              BY <7>1
          <6>2. t[i] = c[l] /\ c[l] \in SEG /\ End(c[l]) <= c[j].seq
            BY <3>3, <4>1, <4>3, <6>1
          <6>3. c[l].seq \in Nat /\ End(c[l]) \in Nat /\ c[l].seq < End(c[l])
            BY <6>2, Ends
          <6> HIDE DEF t
          <6>4. End(c[l]) <= c[j].seq
            BY <6>2
          <6>5. c[l].seq < c[j].seq
            BY <5>0, <6>3, <6>4
          <6> QED
            BY <6>2, <6>5
        <5> QED
          BY <5>1, <5>2
      <4>5. Inserted(t, c[j]) = t \o <<c[j]>>
        BY <3>3, <4>1, <4>4, InsertedAtEnd
      <4> QED
        BY <4>5 DEF t
    <3>7. b[k] = c[j]
      BY <1>2, <3>1
    <3> QED
      BY <3>2, <3>4, <3>5, <3>6, <3>7
  <2> QED
    BY <2>1, <2>2
<1>6. g = [k \in 0 .. Len(b) |-> g[k]] /\ g[0] = q /\ g[Len(b)] = h \o SubSeq(c, 1, Len(b) - 1)
  BY <1>1, <1>2
<1> HIDE DEF g
<1>7. Merged(q, b) = g[Len(b)]
  BY <1>2, <1>5, <1>6, MergedIs
<1>8. SubSeq(c, 1, Len(b) - 1) = c
  <2>1. Len(b) - 1 = Len(c)
    BY <1>1, <1>2
  <2> QED
    BY <2>1, SubSeqFull
<1> QED
  BY <1>6, <1>7, <1>8 DEF b, h

-----------------------------------------------------------------------------
(* The control block.                                                      *)

(* The queues hold the bytes from a to lbb, the unacked ones before the    *)
(* unsent ones; the byte la is in the first segment, the unacked segments  *)
(* were sent and are in the window.                                        *)
Queues(ua, us, la, nxt, lbb, wnd) ==
  /\ ua \in Seq(SEG) /\ us \in Seq(SEG)
  /\ la \in Nat /\ nxt \in Nat /\ lbb \in Nat /\ wnd \in Nat
  /\ la <= nxt /\ nxt <= lbb
  /\ \E a, m \in Nat : Line(ua, a, m) /\ Line(us, m, lbb) /\ a <= la /\ m <= nxt
  /\ \A i \in 1 .. Len(ua) : la < End(ua[i]) /\ End(ua[i]) <= la + wnd
  /\ \A i \in 1 .. Len(us) : la < End(us[i])

(* What the peer can have: what was sent, and one more byte if a probe     *)
(* carried the first byte that was not.                                    *)
Reach(ua, us, nxt) ==
  IF ua = <<>> /\ us # <<>> /\ us[1].seq = nxt THEN nxt + 1 ELSE nxt

PcbFields ==
  {"unsent", "unacked", "snd_lbb", "snd_buf", "snd_nxt", "lastack", "snd_wnd", "snd_wl2",
   "dupacks", "nrtx", "keep_cnt_sent", "rtime", "persist", "TF_INFR", "TF_NAGLEMEMERR", "alive"}

(* The control block in all handlers.                                      *)
PcbInv(p) ==
  /\ DOMAIN p = PcbFields
  /\ Queues(p.unacked, p.unsent, p.lastack, p.snd_nxt, p.snd_lbb, p.snd_wnd)
  /\ p.snd_wl2 \in Nat /\ p.lastack <= p.snd_wl2
  /\ p.snd_buf = TCP_SND_BUF - (p.snd_lbb - p.lastack)
  /\ p.snd_buf \in 0 .. TCP_SND_BUF /\ p.snd_lbb <= MaxBytes
  /\ p.nrtx \in 0 .. 255 /\ p.keep_cnt_sent \in 0 .. KEEP_CNT
  /\ p.dupacks \in 0 .. DupThresh + 1

(* What is under way was sent, and was in the window when it was.          *)
UpInv(u, reach, edge) ==
  /\ u \in Seq([seq : Int, len : Nat])
  /\ \A i \in 1 .. Len(u) : End(u[i]) <= reach /\ Within(u[i], edge)

(* A later acknowledgement never takes back the window of an earlier one.  *)
DownInv(d, r, edge) ==
  /\ d \in Seq([ack : Nat, wnd : Nat])
  /\ \A i \in 1 .. Len(d) : d[i].ack <= r /\ d[i].ack + d[i].wnd <= edge
  /\ \A i, j \in 1 .. Len(d) :
       d[i].ack < d[j].ack => d[i].ack + d[i].wnd <= d[j].ack + d[j].wnd

(* The window that the control block has, against the ones under way.      *)
WindowInv(d, r, edge, wl2, wnd) ==
  /\ wl2 <= r /\ wl2 + wnd <= edge
  /\ \A i \in 1 .. Len(d) : wl2 < d[i].ack => wl2 + wnd <= d[i].ack + d[i].wnd

(* The inductive invariant of the connection.                              *)
SendInv ==
  /\ PcbInv(pcb)
  /\ rcvd \in Nat /\ read \in Nat /\ read <= rcvd /\ rcvd <= read + PeerBuf
  /\ rcvd <= Reach(pcb.unacked, pcb.unsent, pcb.snd_nxt)
  /\ UpInv(up, Reach(pcb.unacked, pcb.unsent, pcb.snd_nxt), read + PeerBuf)
  /\ DownInv(down, rcvd, read + PeerBuf)
  /\ WindowInv(down, rcvd, read + PeerBuf, pcb.snd_wl2, pcb.snd_wnd)

-----------------------------------------------------------------------------
(* What the handlers do to the queues.                                     *)

(* snd_nxt after the first k segments of us were sent.                     *)
NxtAfter(nxt, us, k) == IF k = 0 THEN nxt ELSE MaxOf(nxt, End(us[k]))

(* Segments move from unsent to unacked: what was sent is in the window.   *)
LEMMA QueuesSent ==
  ASSUME NEW ua, NEW us, NEW la, NEW nxt, NEW lbb, NEW wnd,
         Queues(ua, us, la, nxt, lbb, wnd),
         NEW k \in 0 .. Len(us), \A i \in 1 .. k : End(us[i]) <= la + wnd,
         NEW nx, nx = NxtAfter(nxt, us, k)
  PROVE  LET b == SubSeq(us, 1, k)
             r == SubSeq(us, k + 1, Len(us))
         IN  /\ Merged(ua, b) = ua \o b
             /\ Queues(ua \o b, r, la, nx, lbb, wnd)
             /\ Reach(ua, us, nxt) <= Reach(ua \o b, r, nx)
             /\ b \in Seq(SEG) /\ Len(b) = k
             /\ \A i \in 1 .. k : b[i] = us[i] /\ End(us[i]) <= nx
<1> DEFINE b == SubSeq(us, 1, k)
           r == SubSeq(us, k + 1, Len(us))
           t == ua \o b
<1>1. /\ ua \in Seq(SEG) /\ us \in Seq(SEG)
      /\ la \in Nat /\ nxt \in Nat /\ lbb \in Nat /\ wnd \in Nat
      /\ la <= nxt /\ nxt <= lbb
      /\ Len(ua) \in Nat /\ Len(us) \in Nat /\ k \in Nat /\ k <= Len(us)
  BY DEF Queues
<1>2. PICK a \in Nat, m \in Nat : Line(ua, a, m) /\ Line(us, m, lbb) /\ a <= la /\ m <= nxt
  BY DEF Queues
<1>3. /\ \A i \in 1 .. Len(ua) : la < End(ua[i]) /\ End(ua[i]) <= la + wnd
      /\ \A i \in 1 .. Len(us) : la < End(us[i])
  BY DEF Queues
<1>4. /\ b \in Seq(SEG) /\ Len(b) = k /\ \A i \in 1 .. k : b[i] = us[i]
      /\ r \in Seq(SEG) /\ Len(r) = Len(us) - k /\ \A i \in 1 .. Len(us) - k : r[i] = us[k + i]
      /\ \E o \in Nat : Line(b, m, o) /\ Line(r, o, lbb)
  BY <1>1, <1>2, LineCut
<1> HIDE DEF b, r
<1>5. PICK o \in Nat : Line(b, m, o) /\ Line(r, o, lbb)
  BY <1>4
<1>6. Merged(ua, b) = t
  BY <1>1, <1>2, <1>4, <1>5, MergedBehind
<1>7. t \in Seq(SEG) /\ Line(t, a, o)
  BY <1>1, <1>2, <1>4, <1>5, LineJoin
<1>8. /\ Len(t) = Len(ua) + k
      /\ \A i \in 1 .. Len(ua) : t[i] = ua[i]
      /\ \A i \in 1 .. k : t[Len(ua) + i] = us[i]
  <2>1. /\ Len(t) = Len(ua) + Len(b)
        /\ \A i \in 1 .. Len(ua) : t[i] = ua[i]
        /\ \A i \in 1 .. Len(b) : t[Len(ua) + i] = b[i]
    BY <1>1, <1>4, Joined, Zenon
  <2> QED
    BY <1>4, <2>1
<1> HIDE DEF t
<1>9. \A i \in 1 .. Len(us) : /\ us[i].seq \in Nat /\ End(us[i]) \in Nat /\ us[i].seq < End(us[i])
                              /\ m <= us[i].seq /\ End(us[i]) <= lbb
  <2>1. \A i \in 1 .. Len(us) : us[i] \in SEG
    BY <1>1
  <2>2. \A i \in 1 .. Len(us) : m <= us[i].seq /\ End(us[i]) <= lbb
    BY <1>1, <1>2, LineOrder
  <2> QED
    BY <2>1, <2>2, Ends
<1>10. k # 0 => o = End(us[k]) /\ k \in 1 .. Len(us)
  <2>1. k # 0 => b # <<>> /\ b[Len(b)] = us[k] /\ k \in 1 .. Len(us)
    BY <1>1, <1>4
  <2> QED
    BY <1>5, <2>1 DEF Line
<1>11. k = 0 => o = m
  <2>1. k = 0 => b = <<>>
    BY <1>4
  <2> QED
    BY <1>5, <2>1 DEF Line
<1>12. nx \in Nat /\ nxt <= nx /\ nx <= lbb /\ o <= nx /\ la <= nx
  BY <1>1, <1>2, <1>9, <1>10, <1>11 DEF MaxOf, NxtAfter
<1>13. \A i \in 1 .. Len(t) : la < End(t[i]) /\ End(t[i]) <= la + wnd
  <2> TAKE i \in 1 .. Len(t)
  <2>1. CASE i \in 1 .. Len(ua)
    BY <1>3, <1>8, <2>1
  <2>2. CASE i \notin 1 .. Len(ua)
    <3>1. PICK l \in 1 .. k : i = Len(ua) + l
      <4>1. i - Len(ua) \in 1 .. k /\ i = Len(ua) + (i - Len(ua))
        BY <1>1, <1>8, <2>2
      <4> QED
        BY <4>1
    <3>2. l \in 1 .. Len(us) /\ t[i] = us[l]
      BY <1>1, <1>8, <3>1
    <3> QED
      BY <1>3, <3>1, <3>2
  <2> QED
    BY <2>1, <2>2
<1>14. \A i \in 1 .. Len(r) : la < End(r[i])
  <2> TAKE i \in 1 .. Len(r)
  <2>1. k + i \in 1 .. Len(us) /\ r[i] = us[k + i]
    BY <1>1, <1>4
  <2> QED
    BY <1>3, <2>1
<1>15. Queues(t, r, la, nx, lbb, wnd)
  BY <1>1, <1>2, <1>4, <1>5, <1>7, <1>12, <1>13, <1>14 DEF Queues
<1>16. \A i \in 1 .. k : End(us[i]) <= nx
  <2>1. \A i \in 1 .. k : i = k \/ End(us[i]) <= us[k].seq
    <3>1. \A i \in 1 .. k : i \in 1 .. Len(us) /\ k \in 1 .. Len(us) /\ (i = k \/ i < k)
      BY <1>1
    <3> QED
      BY <1>1, <1>2, <3>1, LineOrder
  <2> TAKE i \in 1 .. k
  <2>2. i \in 1 .. Len(us) /\ k \in 1 .. Len(us) /\ k # 0
    BY <1>1
  <2>3. End(us[k]) <= nx
    BY <1>10, <1>12, <2>2
  <2>4. us[k].seq < End(us[k]) /\ us[k].seq \in Nat /\ End(us[k]) \in Nat /\ End(us[i]) \in Nat
    BY <1>9, <2>2
  <2>5. i = k \/ End(us[i]) <= us[k].seq
    BY <2>1
  <2>6. nx \in Nat
    BY <1>12
  <2> QED
    BY <2>3, <2>4, <2>5, <2>6
<1>17. Reach(ua, us, nxt) <= Reach(t, r, nx)
  <2>1. Reach(t, r, nx) >= nx /\ Reach(t, r, nx) \in Nat
    BY <1>12 DEF Reach
  <2>2. CASE k = 0
    <3>1. t = ua /\ r = us /\ nx = nxt
      <4>1. b = <<>>
        BY <1>4, <2>2
      <4>2. ua \o <<>> = ua
        BY <1>1, ConcatEmptySeq
      <4>3. SubSeq(us, 1, Len(us)) = us
        BY <1>1, SubSeqFull
      <4> QED
        BY <2>2, <4>1, <4>2, <4>3 DEF t, r, NxtAfter
    <3> QED
      BY <2>1, <3>1
  <2>3. CASE k # 0
    <3>1. 1 \in 1 .. k /\ 1 \in 1 .. Len(us)
      BY <1>1, <2>3
    <3>2. us[1].seq < End(us[1]) /\ End(us[1]) <= nx /\ us[1].seq \in Nat /\ End(us[1]) \in Nat
      BY <1>9, <1>16, <3>1
    <3>3. Reach(ua, us, nxt) = nxt \/ (us[1].seq = nxt /\ Reach(ua, us, nxt) = nxt + 1)
      BY DEF Reach
    <3> QED
      BY <1>1, <1>12, <2>1, <3>2, <3>3
  <2> QED
    BY <2>2, <2>3
<1> QED
  BY <1>4, <1>6, <1>12, <1>15, <1>16, <1>17 DEF t, b, r

(* What is left of a line after an acknowledgement.                        *)
LEMMA UnackedRest ==
  ASSUME NEW q \in Seq(SEG), NEW a \in Nat, NEW b \in Nat, Line(q, a, b), NEW ack \in Nat
  PROVE  LET r == Unacked(q, ack)
         IN  /\ r \in Seq(SEG)
             /\ \A i \in 1 .. Len(r) : ack < End(r[i]) /\ \E j \in 1 .. Len(q) : r[i] = q[j]
             /\ \E o \in Nat : Line(r, o, b) /\ (o <= ack \/ o = a)
             /\ (\A i \in 1 .. Len(q) : ack < End(q[i])) => r = q
<1> DEFINE S == {i \in DOMAIN q : AckedSeg(q[i], ack)}
           k == Leading(S, Len(q))
           r == SubSeq(q, k + 1, Len(q))
<1>1. Len(q) \in Nat /\ DOMAIN q = 1 .. Len(q) /\ \A i \in 1 .. Len(q) : q[i] \in SEG
  OBVIOUS
<1>2. \A i \in 1 .. Len(q) : i \in S <=> End(q[i]) <= ack
  BY <1>1 DEF AckedSeg
<1>3. \A i \in 1 .. Len(q) : End(q[i]) \in Nat /\ q[i].seq \in Nat
  BY <1>1, Ends
<1> HIDE DEF S
<1>4. k \in 0 .. Len(q) /\ (\A i \in 1 .. k : i \in S) /\ (k < Len(q) => k + 1 \notin S)
  BY <1>1, LeadingStops
<1> HIDE DEF k
<1>5. /\ SubSeq(q, 1, k) \in Seq(SEG) /\ Len(SubSeq(q, 1, k)) = k
      /\ \A i \in 1 .. k : SubSeq(q, 1, k)[i] = q[i]
      /\ r \in Seq(SEG) /\ Len(r) = Len(q) - k /\ \A i \in 1 .. Len(q) - k : r[i] = q[k + i]
      /\ \E o \in Nat : Line(SubSeq(q, 1, k), a, o) /\ Line(r, o, b)
  BY <1>4, LineCut
<1>6. PICK o \in Nat : Line(SubSeq(q, 1, k), a, o) /\ Line(r, o, b)
  BY <1>5
<1>7. o <= ack \/ o = a
  <2> DEFINE h == SubSeq(q, 1, k)
  <2>1. CASE k = 0
    <3>1. h = <<>>
      BY <1>5, <2>1
    <3> QED
      BY <1>6, <3>1 DEF Line
  <2>2. CASE k # 0
    <3>1. k \in 1 .. k /\ k \in 1 .. Len(q)
      BY <1>1, <1>4, <2>2
    <3>2. h # <<>> /\ h[Len(h)] = q[k]
      BY <1>5, <2>2, <3>1
    <3>3. End(q[k]) = o
      BY <1>6, <3>2 DEF Line
    <3> QED
      BY <1>2, <1>4, <3>1, <3>3
  <2> QED
    BY <2>1, <2>2
<1>8. ASSUME NEW i \in 1 .. Len(r)
      PROVE  ack < End(r[i]) /\ \E j \in 1 .. Len(q) : r[i] = q[j]
  <2>1. k + i \in 1 .. Len(q) /\ k + 1 \in 1 .. Len(q) /\ r[i] = q[k + i] /\ k < Len(q)
        /\ (i = 1 \/ k + 1 < k + i)
    <3> HIDE DEF r
    <3>1. k \in Nat /\ k <= Len(q) /\ Len(q) \in Nat /\ i \in 1 .. Len(q) - k
      BY <1>1, <1>4, <1>5
    <3>2. r[i] = q[k + i]
      BY <1>5, <3>1
    <3> QED
      BY <3>1, <3>2
  <2>2. ack < End(q[k + 1])
    <3>1. ~(End(q[k + 1]) <= ack)
      BY <1>2, <1>4, <2>1
    <3>2. End(q[k + 1]) \in Nat
      BY <1>3, <2>1
    <3> QED
      BY <3>1, <3>2
  <2>3. i = 1 \/ End(q[k + 1]) <= q[k + i].seq
    BY <2>1, LineOrder
  <2>4. q[k + i].seq < End(q[k + i]) /\ q[k + i].seq \in Nat /\ End(q[k + i]) \in Nat
        /\ End(q[k + 1]) \in Nat
    <3>1. q[k + i] \in SEG
      BY <1>1, <2>1
    <3> QED
      BY <1>3, <2>1, <3>1, Ends
  <2>5. ack < End(q[k + i])
    <3>1. CASE i = 1
      BY <2>2, <3>1
    <3>2. CASE i # 1
      BY <2>2, <2>3, <2>4, <3>2
    <3> QED
      BY <3>1, <3>2
  <2> QED
    BY <2>1, <2>5
<1>9. ASSUME \A i \in 1 .. Len(q) : ack < End(q[i]) PROVE r = q
  <2>1. k = 0
    <3> SUFFICES ASSUME k # 0 PROVE FALSE
      OBVIOUS
    <3>1. k \in 1 .. k /\ k \in 1 .. Len(q)
      BY <1>1, <1>4
    <3>2. End(q[k]) <= ack /\ ack < End(q[k]) /\ End(q[k]) \in Nat
      BY <1>2, <1>3, <1>4, <1>9, <3>1
    <3> QED
      BY <3>2
  <2> QED
    BY <2>1, SubSeqFull
<1>10. Unacked(q, ack) = r
  BY DEF Unacked, S, k
<1> HIDE DEF r
<1> QED
  BY <1>5, <1>6, <1>7, <1>8, <1>9, <1>10

(* An acknowledgement of new data that was sent.                           *)
LEMMA QueuesAcked ==
  ASSUME NEW ua, NEW us, NEW la, NEW nxt, NEW lbb, NEW wnd,
         Queues(ua, us, la, nxt, lbb, wnd),
         NEW ack \in Nat, la <= ack, ack <= nxt, NEW w \in Nat, la + wnd <= ack + w
  PROVE  /\ Queues(Unacked(ua, ack), Unacked(us, ack), ack, nxt, lbb, w)
         /\ Reach(ua, us, nxt) <= Reach(Unacked(ua, ack), Unacked(us, ack), nxt)
<1> DEFINE ua1 == Unacked(ua, ack)
           us1 == Unacked(us, ack)
<1>1. /\ ua \in Seq(SEG) /\ us \in Seq(SEG)
      /\ la \in Nat /\ nxt \in Nat /\ lbb \in Nat /\ wnd \in Nat
      /\ la <= nxt /\ nxt <= lbb
      /\ Len(ua) \in Nat /\ Len(us) \in Nat
  BY DEF Queues
<1>2. PICK a \in Nat, m \in Nat : Line(ua, a, m) /\ Line(us, m, lbb) /\ a <= la /\ m <= nxt
  BY DEF Queues
<1>3. /\ \A i \in 1 .. Len(ua) : End(ua[i]) <= la + wnd
      /\ \A i \in 1 .. Len(us) : la < End(us[i])
  BY DEF Queues
<1>4. /\ ua1 \in Seq(SEG)
      /\ \A i \in 1 .. Len(ua1) : ack < End(ua1[i]) /\ \E j \in 1 .. Len(ua) : ua1[i] = ua[j]
      /\ \E o \in Nat : Line(ua1, o, m) /\ (o <= ack \/ o = a)
      /\ (\A i \in 1 .. Len(ua) : ack < End(ua[i])) => ua1 = ua
  BY <1>1, <1>2, UnackedRest
<1>5. /\ us1 \in Seq(SEG)
      /\ \A i \in 1 .. Len(us1) : ack < End(us1[i]) /\ \E j \in 1 .. Len(us) : us1[i] = us[j]
      /\ \E o \in Nat : Line(us1, o, lbb) /\ (o <= ack \/ o = m)
      /\ (\A i \in 1 .. Len(us) : ack < End(us[i])) => us1 = us
  BY <1>1, <1>2, UnackedRest
<1> HIDE DEF ua1, us1
<1>6. PICK o \in Nat : Line(ua1, o, m) /\ (o <= ack \/ o = a)
  BY <1>4
<1>7. PICK o2 \in Nat : Line(us1, o2, lbb) /\ (o2 <= ack \/ o2 = m)
  BY <1>5
<1>8. \A i \in 1 .. Len(us) : /\ us[i].seq \in Nat /\ End(us[i]) \in Nat
                              /\ us[i].seq < End(us[i]) /\ m <= us[i].seq
  <2>1. \A i \in 1 .. Len(us) : us[i] \in SEG
    BY <1>1
  <2>2. \A i \in 1 .. Len(us) : m <= us[i].seq
    BY <1>1, <1>2, LineOrder
  <2> QED
    BY <2>1, <2>2, Ends
<1>9. \E x, y \in Nat : Line(ua1, x, y) /\ Line(us1, y, lbb) /\ x <= ack /\ y <= nxt
  <2>1. CASE ua1 = <<>>
    <3>1. o = m /\ m <= ack
      BY <1>1, <1>2, <1>6, <2>1 DEF Line
    <3>2. o2 <= ack
      BY <1>7, <3>1
    <3>3. Line(ua1, o2, o2)
      BY <2>1 DEF Line
    <3> QED
      BY <1>1, <1>7, <3>2, <3>3
  <2>2. CASE ua1 # <<>>
    <3>1. 1 \in 1 .. Len(ua1) /\ ua1[1] \in SEG
      BY <1>4, <2>2
    <3>2. ack < End(ua1[1]) /\ End(ua1[1]) <= m /\ End(ua1[1]) \in Nat
      BY <1>4, <1>6, <3>1, LineOrder, Ends
    <3>3. \A i \in 1 .. Len(us) : ack < End(us[i])
      BY <1>8, <3>2
    <3>4. us1 = us
      BY <1>5, <3>3
    <3>5. o <= ack
      BY <1>1, <1>2, <1>6
    <3> QED
      BY <1>2, <1>6, <3>4, <3>5
  <2> QED
    BY <2>1, <2>2
<1>10. \A i \in 1 .. Len(ua1) : ack < End(ua1[i]) /\ End(ua1[i]) <= ack + w
  <2> TAKE i \in 1 .. Len(ua1)
  <2>1. PICK j \in 1 .. Len(ua) : ua1[i] = ua[j]
    BY <1>4
  <2>2. End(ua[j]) <= la + wnd /\ End(ua[j]) \in Nat
    BY <1>1, <1>3, Ends
  <2> QED
    BY <1>1, <1>4, <2>1, <2>2
<1>11. Queues(ua1, us1, ack, nxt, lbb, w)
  BY <1>1, <1>4, <1>5, <1>9, <1>10 DEF Queues
<1>12. Reach(ua, us, nxt) <= Reach(ua1, us1, nxt)
  <2>1. CASE ua = <<>> /\ us # <<>> /\ us[1].seq = nxt
    <3>1. ua1 = ua
      <4>1. Len(ua) = 0
        BY <2>1
      <4> QED
        BY <1>4, <4>1
    <3>2. us1 = us
      <4>1. 1 \in 1 .. Len(us)
        BY <1>1, <2>1
      <4>2. \A i \in 1 .. Len(us) : i = 1 \/ End(us[1]) <= us[i].seq
        BY <1>1, <1>2, <4>1, LineOrder
      <4>3. \A i \in 1 .. Len(us) : ack < End(us[i])
        BY <1>1, <1>8, <2>1, <4>1, <4>2
      <4> QED
        BY <1>5, <4>3
    <3>3. Reach(ua, us, nxt) \in Nat
      BY <1>1 DEF Reach
    <3> QED
      BY <3>1, <3>2, <3>3
  <2>2. CASE ~(ua = <<>> /\ us # <<>> /\ us[1].seq = nxt)
    BY <1>1, <2>2 DEF Reach
  <2> QED
    BY <2>1, <2>2
<1> QED
  BY <1>11, <1>12 DEF ua1, us1

(* An old acknowledgement takes nothing from a queue.                      *)
LEMMA UnackedAll ==
  ASSUME NEW q \in Seq(SEG), NEW ack \in Nat, \A i \in 1 .. Len(q) : ack < End(q[i])
  PROVE  Unacked(q, ack) = q
<1> DEFINE S == {i \in DOMAIN q : AckedSeg(q[i], ack)}
           k == Leading(S, Len(q))
<1>1. Len(q) \in Nat /\ DOMAIN q = 1 .. Len(q)
  OBVIOUS
<1>2. \A i \in 1 .. Len(q) : End(q[i]) \in Nat
  BY Ends
<1>3. S = {}
  BY <1>1, <1>2 DEF AckedSeg
<1> HIDE DEF S
<1>4. k \in 0 .. Len(q) /\ \A i \in 1 .. k : i \in S
  BY <1>1, LeadingStops
<1> HIDE DEF k
<1>5. k = 0
  BY <1>1, <1>3, <1>4
<1>6. Unacked(q, ack) = SubSeq(q, k + 1, Len(q))
  BY DEF Unacked, S, k
<1> QED
  BY <1>5, <1>6, SubSeqFull

(* tcp_rexmit_rto keeps the bytes in order.                                *)
LEMMA QueuesAgain ==
  ASSUME NEW ua, NEW us, NEW la, NEW nxt, NEW lbb, NEW wnd,
         Queues(ua, us, la, nxt, lbb, wnd), ua # <<>>
  PROVE  /\ Queues(<<>>, ua \o us, la, nxt, lbb, wnd)
         /\ Reach(ua, us, nxt) <= Reach(<<>>, ua \o us, nxt)
<1> DEFINE t == ua \o us
<1>1. /\ ua \in Seq(SEG) /\ us \in Seq(SEG)
      /\ la \in Nat /\ nxt \in Nat /\ lbb \in Nat /\ wnd \in Nat
      /\ la <= nxt /\ nxt <= lbb
      /\ Len(ua) \in Nat /\ Len(us) \in Nat
  BY DEF Queues
<1>2. PICK a \in Nat, m \in Nat : Line(ua, a, m) /\ Line(us, m, lbb) /\ a <= la /\ m <= nxt
  BY DEF Queues
<1>3. /\ \A i \in 1 .. Len(ua) : la < End(ua[i])
      /\ \A i \in 1 .. Len(us) : la < End(us[i])
  BY DEF Queues
<1>4. t \in Seq(SEG) /\ Line(t, a, lbb)
  BY <1>1, <1>2, LineJoin
<1>5. /\ Len(t) = Len(ua) + Len(us)
      /\ \A i \in 1 .. Len(ua) : t[i] = ua[i]
      /\ \A i \in 1 .. Len(us) : t[Len(ua) + i] = us[i]
  BY <1>1, Joined, Zenon
<1> HIDE DEF t
<1>6. \A i \in 1 .. Len(t) : la < End(t[i])
  <2> TAKE i \in 1 .. Len(t)
  <2>1. CASE i \in 1 .. Len(ua)
    BY <1>3, <1>5, <2>1
  <2>2. CASE i \notin 1 .. Len(ua)
    <3>1. PICK l \in 1 .. Len(us) : i = Len(ua) + l
      <4>1. i - Len(ua) \in 1 .. Len(us) /\ i = Len(ua) + (i - Len(ua))
        BY <1>1, <1>5, <2>2
      <4> QED
        BY <4>1
    <3> QED
      BY <1>3, <1>5, <3>1
  <2> QED
    BY <2>1, <2>2
<1>7. Line(<<>>, a, a) /\ a <= nxt
  BY <1>1, <1>2 DEF Line
<1>8. Queues(<<>>, t, la, nxt, lbb, wnd)
  <2>1. <<>> \in Seq(SEG) /\ Len(<<>>) = 0
    OBVIOUS
  <2>2. \E x, y \in Nat : Line(<<>>, x, y) /\ Line(t, y, lbb) /\ x <= la /\ y <= nxt
    BY <1>2, <1>4, <1>7
  <2>3. \A i \in 1 .. Len(<<>>) : la < End(<<>>[i]) /\ End(<<>>[i]) <= la + wnd
    BY <2>1
  <2> QED
    BY <1>1, <1>4, <1>6, <2>1, <2>2, <2>3 DEF Queues
<1>9. Reach(ua, us, nxt) <= Reach(<<>>, t, nxt)
  BY <1>1 DEF Reach
<1> QED
  BY <1>8, <1>9 DEF t

(* The segments of new data are a line.                                    *)
LEMMA SegmentsLine ==
  ASSUME NEW s \in Nat, NEW n \in Nat
  PROVE  Segments(s, n) \in Seq(SEG) /\ Line(Segments(s, n), s, s + n)
<1> DEFINE M == MSS
           c == (n + M - 1) \div M
           e == (n + M - 1) % M
           at(k) == (k - 1) * M
           g == Segments(s, n)
<1>1. M \in Nat /\ M >= 1
  BY SendSizes
<1> HIDE DEF M
<1>2. n + M - 1 \in Nat
  BY <1>1
<1>3. c \in Nat /\ e \in 0 .. M - 1 /\ n + M - 1 = M * c + e
  <2> DEFINE x == n + M - 1
  <2> HIDE DEF x
  <2>1. x \in Nat
    BY <1>2 DEF x
  <2>2. x \div M \in Nat /\ x % M \in 0 .. M - 1 /\ x = M * (x \div M) + (x % M)
    BY <1>1, <2>1
  <2> QED
    BY <2>2 DEF x
<1>4. g = [k \in 1 .. c |-> [seq |-> s + at(k), len |-> MinOf(M, n - at(k))]]
  BY DEF Segments, M
<1> HIDE DEF c, e
<1>5. \A k \in 1 .. c : at(k) \in Nat /\ at(k) + M = k * M /\ at(k + 1) = k * M
  <2> TAKE k \in 1 .. c
  <2>1. k - 1 \in Nat /\ (k + 1) - 1 = k /\ k \in Nat
    BY <1>3
  <2>2. (k - 1) * M \in Nat
    BY <1>1, <2>1
  <2>3. (k - 1) * M + M = k * M
    BY <1>1, <2>1
  <2> QED
    BY <2>1, <2>2, <2>3
<1>6. \A k \in 1 .. c : k < c => k * M + M <= M * c
  <2> TAKE k \in 1 .. c
  <2> HAVE k < c
  <2>1. c - k - 1 \in Nat /\ k \in Nat
    BY <1>3
  <2>2. (c - k - 1) * M \in Nat
    BY <1>1, <2>1
  <2>3. (c - k - 1) * M = M * c - k * M - M
    BY <1>1, <1>3, <2>1
  <2>4. k * M \in Nat /\ M * c \in Nat
    BY <1>1, <1>3, <2>1
  <2> QED
    BY <1>1, <2>2, <2>3, <2>4
<1>7. \A k \in 1 .. c : k < c => k * M < n
  <2> TAKE k \in 1 .. c
  <2> HAVE k < c
  <2>1. k * M \in Nat /\ M * c \in Nat
    BY <1>1, <1>3
  <2>2. k * M + M <= M * c
    BY <1>6
  <2> QED
    BY <1>1, <1>3, <2>1, <2>2
<1>8. c # 0 => c * M = M * c /\ M * c >= n /\ at(c) < n
  <2> HAVE c # 0
  <2>1. c * M = M * c /\ M * c \in Nat
    BY <1>1, <1>3
  <2>2. c \in 1 .. c
    BY <1>3
  <2>3. at(c) \in Nat /\ at(c) + M = c * M
    BY <1>5, <2>2
  <2> QED
    BY <1>1, <1>3, <2>1, <2>3
<1>9. c = 0 => n = 0
  <2> HAVE c = 0
  <2>1. M * c = 0
    BY <1>1
  <2> QED
    BY <1>1, <1>3, <2>1
<1>10. ASSUME NEW k \in 1 .. c
       PROVE  /\ g[k] \in SEG /\ g[k].seq = s + at(k)
              /\ k < c => End(g[k]) = s + k * M
              /\ k = c => End(g[k]) = s + n
  <2>1. g[k] = [seq |-> s + at(k), len |-> MinOf(M, n - at(k))]
    BY <1>4
  <2> DEFINE l == MinOf(M, n - at(k))
  <2>2. at(k) \in Nat /\ at(k) + M = k * M /\ k * M \in Nat
    BY <1>1, <1>3, <1>5
  <2>3. CASE k < c
    <3>1. k * M < n
      BY <1>7, <2>3
    <3> HIDE DEF at
    <3>2. l = M
      BY <1>1, <2>2, <3>1 DEF MinOf
    <3>3. g[k].seq = s + at(k) /\ g[k].len = M
      BY <2>1, <3>2
    <3>4. g[k] \in SEG
      BY <1>1, <2>1, <2>2, <3>2 DEF SEG, M
    <3>5. End(g[k]) = s + k * M
      BY <1>1, <2>2, <3>3 DEF End
    <3> QED
      BY <1>3, <2>3, <3>3, <3>4, <3>5
  <2>4. CASE k = c
    <3>1. at(k) < n /\ n <= at(k) + M
      BY <1>3, <1>8, <2>2, <2>4
    <3> HIDE DEF at
    <3>2. l = n - at(k) /\ l \in 1 .. M
      BY <1>1, <2>2, <3>1 DEF MinOf
    <3>3. g[k].seq = s + at(k) /\ g[k].len = l
      BY <2>1
    <3>4. g[k] \in SEG
      BY <1>1, <2>1, <2>2, <3>2 DEF SEG, M
    <3>5. End(g[k]) = s + n
      BY <1>1, <2>2, <3>2, <3>3 DEF End
    <3> QED
      BY <1>3, <2>4, <3>3, <3>4, <3>5
  <2> QED
    BY <1>3, <2>3, <2>4
<1>11. g \in Seq(SEG) /\ Len(g) = c
  <2>1. g = [k \in 1 .. c |-> g[k]]
    BY <1>4
  <2> HIDE DEF g
  <2>2. g \in Seq(SEG)
    <3>1. \A k \in 1 .. c : g[k] \in SEG
      BY <1>10
    <3>2. g \in [1 .. c -> SEG]
      BY <2>1, <3>1
    <3> QED
      BY <1>3, <3>2, SeqDef
  <2>3. DOMAIN g = 1 .. c
    BY <2>1
  <2> QED
    BY <1>3, <2>2, <2>3, LenProperties
<1>12. Line(g, s, s + n)
  <2> HIDE DEF g
  <2>1. g = <<>> => s = s + n
    BY <1>9, <1>11
  <2>2. g # <<>> => g[1].seq = s /\ End(g[Len(g)]) = s + n
    <3> HAVE g # <<>>
    <3>1. c # 0 /\ 1 \in 1 .. c /\ c \in 1 .. c
      BY <1>3, <1>11
    <3>2. at(1) = 0
      BY <1>1
    <3> QED
      BY <1>10, <1>11, <3>1, <3>2
  <2>3. \A i \in 1 .. Len(g) - 1 : End(g[i]) = g[i + 1].seq
    <3> TAKE i \in 1 .. Len(g) - 1
    <3>1. i \in 1 .. c /\ i + 1 \in 1 .. c /\ i < c
      BY <1>3, <1>11
    <3>2. g[i + 1].seq = s + at(i + 1) /\ at(i + 1) = i * M
      BY <1>5, <1>10, <3>1
    <3>3. End(g[i]) = s + i * M
      BY <1>10, <3>1
    <3> QED
      BY <3>2, <3>3
  <2> QED
    BY <2>1, <2>2, <2>3 DEF Line
<1> QED
  BY <1>11, <1>12

(* The last segment of a line is filled up.                                *)
LEMMA FilledLine ==
  ASSUME NEW q \in Seq(SEG), q # <<>>, NEW m \in Nat, NEW b \in Nat, Line(q, m, b),
         NEW f \in Nat, f <= MSS - Last(q).len
  PROVE  LET r == [q EXCEPT ![Len(q)].len = @ + f]
         IN  /\ r \in Seq(SEG) /\ Len(r) = Len(q) /\ Line(r, m, b + f)
             /\ \A i \in 1 .. Len(q) : r[i].seq = q[i].seq /\ End(q[i]) <= End(r[i])
<1> DEFINE L == Len(q)
           x == [q[L] EXCEPT !.len = @ + f]
           r == [q EXCEPT ![Len(q)].len = @ + f]
<1>1. L \in Nat /\ L \in 1 .. L /\ DOMAIN q = 1 .. L /\ \A i \in 1 .. L : q[i] \in SEG
  OBVIOUS
<1>2. /\ q[L] \in SEG /\ q[L].seq \in Nat /\ q[L].len \in 1 .. MSS
      /\ f <= MSS - q[L].len /\ End(q[L]) = q[L].seq + q[L].len
  BY <1>1, Ends DEF Last, End
<1>3. x \in SEG /\ x.seq = q[L].seq /\ x.len = q[L].len + f
  <2> DEFINE z == q[L]
  <2>1. z \in [seq : Nat, len : 1 .. MSS] /\ z.len + f \in 1 .. MSS
    BY <1>2, SendSizes DEF SEG
  <2> HIDE DEF z
  <2>2. [z EXCEPT !.len = @ + f] \in [seq : Nat, len : 1 .. MSS]
    BY <2>1
  <2>3. [z EXCEPT !.len = @ + f].seq = z.seq /\ [z EXCEPT !.len = @ + f].len = z.len + f
    BY <2>1
  <2> QED
    BY <2>2, <2>3 DEF SEG, z
<1>4. End(x) = End(q[L]) + f
  BY <1>2, <1>3 DEF End
<1>5. r = [i \in 1 .. L |-> IF i = L THEN x ELSE q[i]]
  BY <1>1
<1> HIDE DEF x, r
<1>6. r \in Seq(SEG) /\ Len(r) = L /\ r[L] = x /\ \A i \in 1 .. L : i # L => r[i] = q[i]
  <2>1. r \in [1 .. L -> SEG]
    BY <1>1, <1>3, <1>5
  <2>2. r \in Seq(SEG)
    BY <1>1, <2>1, SeqDef
  <2>3. DOMAIN r = 1 .. L /\ r[L] = x /\ \A i \in 1 .. L : i # L => r[i] = q[i]
    BY <1>1, <1>5
  <2>4. Len(r) = L
    <3>1. L \in Nat /\ DOMAIN r = 1 .. L /\ r \in Seq(SEG)
      BY <1>1, <2>2, <2>3
    <3>2. Len(r) \in Nat /\ DOMAIN r = 1 .. Len(r)
      BY <2>2, LenProperties
    <3> HIDE DEF L
    <3> DEFINE l == Len(r)
    <3>3. l \in Nat /\ 1 .. l = 1 .. L
      BY <3>1, <3>2
    <3> HIDE DEF l
    <3>4. l = L
      BY <3>1, <3>3
    <3> QED
      BY <3>4 DEF l
  <2> QED
    BY <2>2, <2>3, <2>4
<1>7. \A i \in 1 .. L : r[i].seq = q[i].seq /\ End(q[i]) <= End(r[i])
  <2> TAKE i \in 1 .. L
  <2>1. CASE i = L
    BY <1>2, <1>3, <1>4, <1>6, <2>1
  <2>2. CASE i # L
    <3>1. End(q[i]) \in Nat
      BY <1>1, Ends
    <3> QED
      BY <1>6, <2>2, <3>1
  <2> QED
    BY <2>1, <2>2
<1>8. Line(r, m, b + f)
  <2>1. r # <<>>
    <3>1. Len(r) = L
      BY <1>6
    <3>2. L # 0
      OBVIOUS
    <3>3. Len(<<>>) = 0
      OBVIOUS
    <3> HIDE DEF L
    <3> QED
      BY <3>1, <3>2, <3>3
  <2>2. r[1].seq = m
    <3>1. 1 \in 1 .. L /\ q[1].seq = m
      BY <1>1 DEF Line
    <3> QED
      BY <1>7, <3>1
  <2>3. End(r[Len(r)]) = b + f
    <3>1. End(q[L]) = b
      BY DEF Line
    <3> QED
      BY <1>4, <1>6, <3>1
  <2>4. \A i \in 1 .. Len(r) - 1 : End(r[i]) = r[i + 1].seq
    <3> TAKE i \in 1 .. Len(r) - 1
    <3>1. i \in 1 .. L /\ i # L /\ i + 1 \in 1 .. L /\ i \in 1 .. Len(q) - 1
      <4>1. L \in Nat /\ Len(r) = L /\ Len(q) = L
        BY <1>1, <1>6
      <4> HIDE DEF L
      <4> QED
        BY <4>1
    <3>2. End(q[i]) = q[i + 1].seq
      BY <3>1 DEF Line
    <3> QED
      BY <1>6, <1>7, <3>1, <3>2
  <2> QED
    BY <2>1, <2>2, <2>3, <2>4 DEF Line
<1> QED
  BY <1>6, <1>7, <1>8 DEF r

(* tcp_write puts the new bytes behind the others.                         *)
LEMMA QueuesWritten ==
  ASSUME NEW ua, NEW us, NEW la, NEW nxt, NEW lbb, NEW wnd,
         Queues(ua, us, la, nxt, lbb, wnd), NEW n \in Nat \ {0}
  PROVE  LET room == IF us = <<>> THEN 0 ELSE MSS - Last(us).len
             fill == MinOf(room, n)
             old  == IF fill = 0 THEN us ELSE [us EXCEPT ![Len(us)].len = @ + fill]
             r    == old \o Segments(lbb + fill, n - fill)
         IN  Queues(ua, r, la, nxt, lbb + n, wnd) /\ Reach(ua, us, nxt) <= Reach(ua, r, nxt)
<1> DEFINE room == IF us = <<>> THEN 0 ELSE MSS - Last(us).len
           fill == MinOf(room, n)
           old  == IF fill = 0 THEN us ELSE [us EXCEPT ![Len(us)].len = @ + fill]
           new  == Segments(lbb + fill, n - fill)
           r    == old \o new
<1>1. /\ ua \in Seq(SEG) /\ us \in Seq(SEG)
      /\ la \in Nat /\ nxt \in Nat /\ lbb \in Nat /\ wnd \in Nat
      /\ la <= nxt /\ nxt <= lbb
      /\ Len(ua) \in Nat /\ Len(us) \in Nat
  BY DEF Queues
<1>2. PICK a \in Nat, m \in Nat : Line(ua, a, m) /\ Line(us, m, lbb) /\ a <= la /\ m <= nxt
  BY DEF Queues
<1>3. /\ \A i \in 1 .. Len(ua) : la < End(ua[i]) /\ End(ua[i]) <= la + wnd
      /\ \A i \in 1 .. Len(us) : la < End(us[i])
  BY DEF Queues
<1>4. us # <<>> => Last(us) \in SEG /\ Last(us).len \in 1 .. MSS
  <2> HAVE us # <<>>
  <2>1. Len(us) \in 1 .. Len(us)
    BY <1>1
  <2>2. Last(us) \in SEG
    BY <1>1, <2>1 DEF Last
  <2> QED
    BY <2>2, Ends
<1>5. room \in Nat
  BY <1>4, SendSizes
<1>6. fill \in Nat /\ fill <= room /\ fill <= n /\ n - fill \in Nat
  <2> HIDE DEF room
  <2> QED
    BY <1>5 DEF MinOf
<1>7. us = <<>> => fill = 0
  <2> HAVE us = <<>>
  <2>1. room = 0
    OBVIOUS
  <2> HIDE DEF room
  <2> QED
    BY <2>1 DEF MinOf
<1>8. us # <<>> => fill <= MSS - Last(us).len
  BY <1>6
<1> HIDE DEF fill
<1>9. /\ old \in Seq(SEG) /\ Len(old) = Len(us) /\ Line(old, m, lbb + fill)
      /\ \A i \in 1 .. Len(us) : old[i].seq = us[i].seq /\ End(us[i]) <= End(old[i])
  <2>1. CASE fill = 0
    <3>1. old = us /\ lbb + fill = lbb
      BY <1>1, <2>1
    <3>2. \A i \in 1 .. Len(us) : End(us[i]) \in Nat
      BY <1>1, Ends
    <3>3. \A i \in 1 .. Len(us) : End(us[i]) <= End(us[i])
      BY <3>2
    <3>4. \A i \in 1 .. Len(old) : old[i].seq = us[i].seq /\ End(us[i]) <= End(old[i])
      BY <3>1, <3>3
    <3>5. old \in Seq(SEG) /\ Len(old) = Len(us)
      BY <1>1, <3>1
    <3>6. Line(old, m, lbb + fill)
      BY <1>2, <3>1
    <3> QED
      BY <3>4, <3>5, <3>6
  <2>2. CASE fill # 0
    <3>1. us # <<>>
      BY <1>7, <2>2
    <3> DEFINE ol == [us EXCEPT ![Len(us)].len = @ + fill]
    <3>2. old = ol
      BY <2>2
    <3>3. us \in Seq(SEG) /\ m \in Nat /\ lbb \in Nat /\ Line(us, m, lbb) /\ fill \in Nat
          /\ fill <= MSS - Last(us).len
      BY <1>1, <1>2, <1>6, <1>8, <3>1
    <3>4. /\ ol \in Seq(SEG) /\ Len(ol) = Len(us) /\ Line(ol, m, lbb + fill)
          /\ \A i \in 1 .. Len(us) : ol[i].seq = us[i].seq /\ End(us[i]) <= End(ol[i])
      BY <3>1, <3>3, FilledLine, Zenon
    <3> HIDE DEF old, ol
    <3> QED
      BY <3>2, <3>4
  <2> QED
    BY <2>1, <2>2
<1> HIDE DEF old
<1>10. new \in Seq(SEG) /\ Line(new, lbb + fill, (lbb + fill) + (n - fill))
  <2>1. lbb + fill \in Nat /\ n - fill \in Nat
    BY <1>1, <1>6
  <2> QED
    BY <2>1, SegmentsLine
<1>11. (lbb + fill) + (n - fill) = lbb + n
  BY <1>1, <1>6
<1> HIDE DEF new
<1>12. r \in Seq(SEG) /\ Line(r, m, lbb + n)
  BY <1>9, <1>10, <1>11, LineJoin
<1>13. /\ Len(r) = Len(us) + Len(new) /\ Len(new) \in Nat
       /\ \A i \in 1 .. Len(us) : r[i] = old[i]
       /\ \A i \in 1 .. Len(new) : r[Len(us) + i] = new[i]
  <2>1. /\ Len(r) = Len(old) + Len(new) /\ Len(new) \in Nat
        /\ \A i \in 1 .. Len(old) : r[i] = old[i]
        /\ \A i \in 1 .. Len(new) : r[Len(old) + i] = new[i]
    BY <1>9, <1>10, Joined, Zenon
  <2> QED
    BY <1>9, <2>1, Zenon
<1> HIDE DEF r
<1>14. \A i \in 1 .. Len(r) : la < End(r[i])
  <2> TAKE i \in 1 .. Len(r)
  <2>1. CASE i \in 1 .. Len(us)
    <3>1. la < End(us[i]) /\ End(us[i]) <= End(old[i]) /\ r[i] = old[i]
      BY <1>3, <1>9, <1>13, <2>1
    <3>2. End(us[i]) \in Nat /\ End(old[i]) \in Nat
      BY <1>1, <1>9, <2>1, Ends
    <3> QED
      BY <1>1, <3>1, <3>2
  <2>2. CASE i \notin 1 .. Len(us)
    <3>1. PICK l \in 1 .. Len(new) : i = Len(us) + l
      <4>1. i - Len(us) \in 1 .. Len(new) /\ i = Len(us) + (i - Len(us))
        BY <1>1, <1>13, <2>2
      <4> QED
        BY <4>1
    <3>2. r[i] = new[l] /\ new[l] \in SEG
      BY <1>10, <1>13, <3>1
    <3>3. lbb + fill <= new[l].seq
      <4>1. lbb + fill \in Nat /\ lbb + n \in Nat /\ Line(new, lbb + fill, lbb + n)
        BY <1>1, <1>6, <1>10, <1>11
      <4> QED
        BY <1>10, <4>1, LineOrder
    <3>4. new[l].seq \in Nat /\ End(new[l]) \in Nat /\ new[l].seq < End(new[l])
      BY <3>2, Ends
    <3> QED
      BY <1>1, <1>6, <3>2, <3>3, <3>4
  <2> QED
    BY <2>1, <2>2
<1>15. Queues(ua, r, la, nxt, lbb + n, wnd)
  <2>1. lbb + n \in Nat /\ nxt <= lbb + n
    BY <1>1
  <2> QED
    BY <1>1, <1>2, <1>3, <1>12, <1>14, <2>1 DEF Queues
<1>16. Reach(ua, us, nxt) <= Reach(ua, r, nxt)
  <2>1. us # <<>> => r # <<>> /\ r[1].seq = us[1].seq
    <3> HAVE us # <<>>
    <3>1. 1 \in 1 .. Len(us) /\ Len(us) # 0
      BY <1>1
    <3>2. r[1].seq = us[1].seq
      BY <1>9, <1>13, <3>1
    <3>3. Len(r) # 0 /\ Len(<<>>) = 0
      BY <1>1, <1>13, <3>1
    <3> QED
      BY <3>2, <3>3
  <2> QED
    BY <1>1, <2>1 DEF Reach
<1> QED
  BY <1>15, <1>16 DEF r, old, new, fill

(* A window that is larger, or nothing that is under way.                  *)
LEMMA QueuesWindow ==
  ASSUME NEW ua, NEW us, NEW la, NEW nxt, NEW lbb, NEW wnd,
         Queues(ua, us, la, nxt, lbb, wnd), NEW w \in Nat, wnd <= w \/ ua = <<>>
  PROVE  Queues(ua, us, la, nxt, lbb, w)
<1>1. /\ ua \in Seq(SEG) /\ la \in Nat /\ wnd \in Nat
      /\ \A i \in 1 .. Len(ua) : la < End(ua[i]) /\ End(ua[i]) <= la + wnd
  BY DEF Queues
<1>2. \A i \in 1 .. Len(ua) : la < End(ua[i]) /\ End(ua[i]) <= la + w
  <2>1. CASE ua = <<>>
    BY <2>1
  <2>2. CASE wnd <= w
    <3>1. \A i \in 1 .. Len(ua) : End(ua[i]) \in Nat
      BY <1>1, Ends
    <3> QED
      BY <1>1, <2>2, <3>1
  <2> QED
    BY <2>1, <2>2
<1> QED
  BY <1>2 DEF Queues

-----------------------------------------------------------------------------
(* What the handlers do to the control block.                              *)

ReachOf(p) == Reach(p.unacked, p.unsent, p.snd_nxt)

(* What tcp_output may do: p is before it, q after it, and b is sent.      *)
Sends(p, q, b) ==
  /\ PcbInv(q) /\ ReachOf(p) <= ReachOf(q)
  /\ q.snd_wl2 = p.snd_wl2 /\ q.snd_wnd = p.snd_wnd
  /\ q.lastack = p.lastack /\ q.snd_lbb = p.snd_lbb
  /\ b \in Seq(SEG)
  /\ \A i \in 1 .. Len(b) : End(b[i]) <= q.snd_nxt /\ End(b[i]) <= q.lastack + q.snd_wnd

(* The fields that tcp_output does not touch.                              *)
LEMMA OutputFields ==
  ASSUME NEW p, DOMAIN p = PcbFields, NEW b
  PROVE  LET q == tcp_output(p, b)
         IN  /\ DOMAIN q = PcbFields
             /\ q.unsent = SubSeq(p.unsent, Len(b) + 1, Len(p.unsent))
             /\ q.unacked = Merged(p.unacked, b)
             /\ q.snd_nxt = IF b = <<>> THEN p.snd_nxt ELSE MaxOf(p.snd_nxt, End(Last(b)))
             /\ q.snd_lbb = p.snd_lbb /\ q.snd_buf = p.snd_buf /\ q.lastack = p.lastack
             /\ q.snd_wnd = p.snd_wnd /\ q.snd_wl2 = p.snd_wl2 /\ q.dupacks = p.dupacks
             /\ q.nrtx = p.nrtx /\ q.keep_cnt_sent = p.keep_cnt_sent
  BY DEF tcp_output, PcbFields

(* tcp_output of a control block whose queues are in order.                *)
LEMMA OutputKeeps ==
  ASSUME NEW p, PcbInv(p), NEW cwnd \in Nat
  PROVE  Sends(p, tcp_output(p, Burst(p, cwnd)), Burst(p, cwnd))
<1> DEFINE wnd == MinOf(p.snd_wnd, cwnd)
           may == {k \in DOMAIN p.unsent : MaySend(p, wnd, k)}
           n == Len(p.unsent)
           k == Leading(may, n)
           b == Burst(p, cwnd)
           q == tcp_output(p, b)
           nx == NxtAfter(p.snd_nxt, p.unsent, k)
           r == SubSeq(p.unsent, k + 1, Len(p.unsent))
<1>1. Queues(p.unacked, p.unsent, p.lastack, p.snd_nxt, p.snd_lbb, p.snd_wnd)
  BY DEF PcbInv
<1>2. p.unsent \in Seq(SEG) /\ n \in Nat /\ DOMAIN p.unsent = 1 .. n
      /\ p.lastack \in Nat /\ p.snd_wnd \in Nat /\ p.snd_nxt \in Nat
  BY <1>1 DEF Queues
<1>3. wnd \in Nat /\ wnd <= p.snd_wnd
  BY <1>2 DEF MinOf
<1>4. \A i \in 1 .. n : i \in may => End(p.unsent[i]) <= p.lastack + p.snd_wnd
  <2> TAKE i \in 1 .. n
  <2> HAVE i \in may
  <2>1. End(p.unsent[i]) - p.lastack <= wnd
    BY DEF MaySend
  <2>2. End(p.unsent[i]) \in Nat
    BY <1>2, Ends
  <2> HIDE DEF wnd
  <2> QED
    BY <1>2, <1>3, <2>1, <2>2
<1>5. b = SubSeq(p.unsent, 1, k)
  BY DEF Burst
<1> HIDE DEF may
<1>6. k \in 0 .. n /\ \A i \in 1 .. k : i \in may
  BY <1>2, LeadingStops
<1> HIDE DEF k, b
<1>7. \A i \in 1 .. k : End(p.unsent[i]) <= p.lastack + p.snd_wnd
  <2>1. \A i \in 1 .. k : i \in 1 .. n
    BY <1>2, <1>6
  <2> QED
    BY <1>4, <1>6, <2>1
<1>8. /\ Merged(p.unacked, b) = p.unacked \o b
      /\ Queues(p.unacked \o b, r, p.lastack, nx, p.snd_lbb, p.snd_wnd)
      /\ ReachOf(p) <= Reach(p.unacked \o b, r, nx)
      /\ b \in Seq(SEG) /\ Len(b) = k
      /\ \A i \in 1 .. k : b[i] = p.unsent[i] /\ End(p.unsent[i]) <= nx
  <2> DEFINE c == SubSeq(p.unsent, 1, k)
  <2>1. k \in 0 .. Len(p.unsent)
    BY <1>6
  <2>2. /\ Merged(p.unacked, c) = p.unacked \o c
        /\ Queues(p.unacked \o c, r, p.lastack, nx, p.snd_lbb, p.snd_wnd)
        /\ Reach(p.unacked, p.unsent, p.snd_nxt) <= Reach(p.unacked \o c, r, nx)
        /\ c \in Seq(SEG) /\ Len(c) = k
        /\ \A i \in 1 .. k : c[i] = p.unsent[i] /\ End(p.unsent[i]) <= nx
    BY <1>1, <1>7, <2>1, QueuesSent, Zenon
  <2>3. b = c
    BY <1>5
  <2> HIDE DEF c, r, nx
  <2> QED
    BY <2>2, <2>3 DEF ReachOf
<1>9. /\ DOMAIN q = PcbFields
      /\ q.unsent = SubSeq(p.unsent, Len(b) + 1, Len(p.unsent))
      /\ q.unacked = Merged(p.unacked, b)
      /\ q.snd_nxt = IF b = <<>> THEN p.snd_nxt ELSE MaxOf(p.snd_nxt, End(Last(b)))
      /\ q.snd_lbb = p.snd_lbb /\ q.snd_buf = p.snd_buf /\ q.lastack = p.lastack
      /\ q.snd_wnd = p.snd_wnd /\ q.snd_wl2 = p.snd_wl2 /\ q.dupacks = p.dupacks
      /\ q.nrtx = p.nrtx /\ q.keep_cnt_sent = p.keep_cnt_sent
  BY OutputFields DEF PcbInv
<1> HIDE DEF q
<1>10. q.snd_nxt = nx
  <2>1. CASE k = 0
    <3>1. b = <<>>
      BY <1>8, <2>1
    <3> QED
      BY <1>9, <2>1, <3>1 DEF NxtAfter
  <2>2. CASE k # 0
    <3>1. b # <<>> /\ k \in 1 .. k
      BY <1>6, <1>8, <2>2
    <3>2. Last(b) = p.unsent[k]
      BY <1>8, <3>1 DEF Last
    <3> QED
      BY <1>9, <2>2, <3>1, <3>2 DEF NxtAfter
  <2> QED
    BY <2>1, <2>2
<1>11. q.unsent = r /\ q.unacked = p.unacked \o b
  BY <1>8, <1>9
<1> HIDE DEF r, nx
<1>12. PcbInv(q)
  BY <1>8, <1>9, <1>10, <1>11 DEF PcbInv
<1>13. ReachOf(p) <= ReachOf(q)
  BY <1>8, <1>10, <1>11 DEF ReachOf
<1>14. \A i \in 1 .. Len(b) : End(b[i]) <= q.snd_nxt /\ End(b[i]) <= q.lastack + q.snd_wnd
  BY <1>7, <1>8, <1>9, <1>10
<1> QED
  BY <1>8, <1>9, <1>12, <1>13, <1>14 DEF Sends, q, b

(* The control block f after tcp_rexmit_fast of p.                         *)
Rexmitted(p, f) ==
  /\ DOMAIN f = PcbFields /\ p.unacked # <<>>
  /\ f.unsent = <<Head(p.unacked)>> \o p.unsent /\ f.unacked = Tail(p.unacked)
  /\ f.TF_INFR = TRUE
  /\ f.snd_nxt = p.snd_nxt /\ f.lastack = p.lastack /\ f.snd_lbb = p.snd_lbb
  /\ f.snd_buf = p.snd_buf /\ f.snd_wnd = p.snd_wnd /\ f.snd_wl2 = p.snd_wl2
  /\ f.nrtx \in 0 .. 255 /\ f.keep_cnt_sent \in 0 .. KEEP_CNT
  /\ f.dupacks \in 0 .. DupThresh + 1

(* The head of unacked, and what follows it.                               *)
LEMMA FirstUnacked ==
  ASSUME NEW ua, NEW us, NEW la, NEW nxt, NEW lbb, NEW wnd,
         Queues(ua, us, la, nxt, lbb, wnd), ua # <<>>
  PROVE  /\ ua = <<Head(ua)>> \o Tail(ua) /\ Head(ua) \in SEG /\ Tail(ua) \in Seq(SEG)
         /\ End(Head(ua)) <= la + wnd /\ End(Head(ua)) <= la + MSS /\ la < End(Head(ua))
         /\ End(Head(ua)) <= nxt
         /\ \E a, o, m \in Nat : /\ Line(<<Head(ua)>>, a, o) /\ Line(Tail(ua), o, m)
                                 /\ Line(us, m, lbb)
         /\ \A i \in 1 .. Len(us) : ~(us[i].seq < Head(ua).seq)
<1> DEFINE s == Head(ua)
           t == Tail(ua)
<1>1. /\ ua \in Seq(SEG) /\ us \in Seq(SEG) /\ Len(ua) \in Nat /\ la \in Nat /\ wnd \in Nat
      /\ nxt \in Nat /\ lbb \in Nat
  BY DEF Queues
<1>2. PICK a \in Nat, m \in Nat : Line(ua, a, m) /\ Line(us, m, lbb) /\ a <= la /\ m <= nxt
  BY DEF Queues
<1>3. 1 \in 1 .. Len(ua) /\ s = ua[1] /\ s \in SEG /\ t \in Seq(SEG)
  BY <1>1
<1>4. ua = <<s>> \o t
  BY <1>1, HeadTailProperties
<1>5. la < End(s) /\ End(s) <= la + wnd
  BY <1>3 DEF Queues
<1>6. s.seq = a
  BY <1>2, <1>3 DEF Line
<1>7. s.seq \in Nat /\ End(s) \in Nat /\ s.seq < End(s) /\ End(s) <= s.seq + MSS
  BY <1>3, Ends
<1>8. End(s) <= la + MSS
  BY <1>1, <1>2, <1>6, <1>7, SendSizes
<1>9. End(s) <= m
  BY <1>1, <1>2, <1>3, LineOrder
<1>10. Line(<<s>>, a, End(s))
  <2>1. <<s>> # <<>> /\ Len(<<s>>) = 1 /\ <<s>>[1] = s
    OBVIOUS
  <2> HIDE DEF s
  <2> QED
    BY <1>6, <2>1 DEF Line
<1>11. Line(t, End(s), m)
  <2>1. 1 \in 0 .. Len(ua)
    BY <1>1, <1>3
  <2> DEFINE h == SubSeq(ua, 1, 1)
             r == SubSeq(ua, 1 + 1, Len(ua))
  <2>2. /\ h \in Seq(SEG) /\ Len(h) = 1 /\ \A i \in 1 .. 1 : h[i] = ua[i]
        /\ \E o \in Nat : Line(h, a, o) /\ Line(r, o, m)
    BY <1>1, <1>2, <2>1, LineCut
  <2>3. r = t
    BY <1>1
  <2> HIDE DEF h, r
  <2>4. PICK o \in Nat : Line(h, a, o) /\ Line(r, o, m)
    BY <2>2
  <2>5. h # <<>> /\ h[Len(h)] = s
    <3>1. h[1] = s
      BY <1>3, <2>2
    <3>2. h # <<>>
      BY <2>2
    <3> QED
      BY <2>2, <3>1, <3>2
  <2>6. o = End(s)
    BY <2>4, <2>5 DEF Line
  <2> QED
    BY <2>3, <2>4, <2>6
<1>12. \A i \in 1 .. Len(us) : ~(us[i].seq < s.seq)
  <2> TAKE i \in 1 .. Len(us)
  <2>1. m <= us[i].seq /\ us[i].seq \in Nat
    BY <1>1, <1>2, LineOrder, Ends
  <2> QED
    BY <1>2, <1>7, <1>9, <2>1
<1> HIDE DEF s, t
<1>13. End(s) <= nxt
  BY <1>1, <1>2, <1>7, <1>9
<1> QED
  BY <1>2, <1>3, <1>4, <1>5, <1>7, <1>8, <1>10, <1>11, <1>12, <1>13 DEF s, t

(* The head of a queue of which at least one segment is taken.             *)
LEMMA HeadTaken ==
  ASSUME NEW s \in SEG, NEW us \in Seq(SEG), NEW K \in 1 .. Len(us) + 1
  PROVE  /\ SubSeq(<<s>> \o us, 1, K) = <<s>> \o SubSeq(us, 1, K - 1)
         /\ SubSeq(<<s>> \o us, K + 1, Len(<<s>> \o us)) = SubSeq(us, (K - 1) + 1, Len(us))
<1> DEFINE w == <<s>> \o us
           k == K - 1
<1>1. Len(us) \in Nat /\ <<s>> \in Seq(SEG) /\ Len(<<s>>) = 1 /\ <<s>>[1] = s /\ k \in 0 .. Len(us)
      /\ K \in Nat /\ K >= 1 /\ K <= Len(us) + 1 /\ \A i \in 1 .. Len(us) : us[i] \in SEG
  OBVIOUS
<1>2. /\ w \in Seq(SEG) /\ Len(w) = Len(us) + 1 /\ w[1] = s
      /\ \A i \in 1 .. Len(us) : w[1 + i] = us[i]
  <2>1. /\ w \in Seq(SEG) /\ Len(w) = Len(<<s>>) + Len(us)
        /\ \A i \in 1 .. Len(<<s>>) : w[i] = <<s>>[i]
        /\ \A i \in 1 .. Len(us) : w[Len(<<s>>) + i] = us[i]
    BY <1>1, Joined, Zenon
  <2> HIDE DEF w
  <2> QED
    BY <1>1, <2>1
<1> HIDE DEF w, k
<1>3. \A i \in 1 .. Len(w) : w[i] \in SEG
  BY <1>2
<1>4. /\ SubSeq(w, 1, K) \in Seq(SEG) /\ Len(SubSeq(w, 1, K)) = K
      /\ \A i \in 1 .. K : SubSeq(w, 1, K)[i] = w[i]
  <2>1. \A i \in 1 .. K : w[i] \in SEG
    BY <1>1, <1>2, <1>3
  <2>2. 1 \in Int /\ K \in Int
    BY <1>1
  <2>3. /\ SubSeq(w, 1, K) \in Seq(SEG) /\ Len(SubSeq(w, 1, K)) = IF 1 <= K THEN K - 1 + 1 ELSE 0
        /\ \A i \in 1 .. K - 1 + 1 : SubSeq(w, 1, K)[i] = w[1 + i - 1]
    BY <2>1, <2>2, SubSeqProperties
  <2>4. \A i \in 1 .. K : i \in 1 .. K - 1 + 1 /\ 1 + i - 1 = i
    BY <1>1
  <2> QED
    BY <1>1, <2>3, <2>4
<1>5. /\ SubSeq(us, 1, k) \in Seq(SEG) /\ Len(SubSeq(us, 1, k)) = k
      /\ \A i \in 1 .. k : SubSeq(us, 1, k)[i] = us[i]
  <2>1. \A i \in 1 .. k : us[i] \in SEG
    BY <1>1
  <2>2. 1 \in Int /\ k \in Int
    BY <1>1
  <2>3. /\ SubSeq(us, 1, k) \in Seq(SEG) /\ Len(SubSeq(us, 1, k)) = IF 1 <= k THEN k - 1 + 1 ELSE 0
        /\ \A i \in 1 .. k - 1 + 1 : SubSeq(us, 1, k)[i] = us[1 + i - 1]
    BY <2>1, <2>2, SubSeqProperties
  <2>4. \A i \in 1 .. k : i \in 1 .. k - 1 + 1 /\ 1 + i - 1 = i
    BY <1>1
  <2> QED
    BY <1>1, <2>3, <2>4
<1> DEFINE x == SubSeq(w, 1, K)
           c == SubSeq(us, 1, k)
           y == <<s>> \o c
<1>6. /\ y \in Seq(SEG) /\ Len(y) = k + 1 /\ y[1] = s
      /\ \A i \in 1 .. k : y[1 + i] = us[i]
  <2>1. /\ y \in Seq(SEG) /\ Len(y) = Len(<<s>>) + Len(c)
        /\ \A i \in 1 .. Len(<<s>>) : y[i] = <<s>>[i]
        /\ \A i \in 1 .. Len(c) : y[Len(<<s>>) + i] = c[i]
    BY <1>1, <1>5, Joined, Zenon
  <2> HIDE DEF y, c
  <2>2. Len(c) = k /\ \A i \in 1 .. k : c[i] = us[i]
    BY <1>5 DEF c
  <2> QED
    BY <1>1, <2>1, <2>2
<1>7. k + 1 = K
  BY <1>1 DEF k
<1>8. x = y
  <2> HIDE DEF x, y
  <2>1. x \in Seq(SEG) /\ Len(x) = K /\ \A i \in 1 .. K : x[i] = w[i]
    BY <1>4 DEF x
  <2>2. \A i \in 1 .. K : x[i] = y[i]
    <3> TAKE i \in 1 .. K
    <3>1. CASE i = 1
      BY <1>2, <1>6, <2>1, <3>1
    <3>2. CASE i # 1
      <4>1. i - 1 \in 1 .. k /\ i - 1 \in 1 .. Len(us) /\ 1 + (i - 1) = i
        BY <1>1, <1>7, <3>2
      <4> QED
        BY <1>2, <1>6, <2>1, <4>1
    <3> QED
      BY <3>1, <3>2
  <2>3. Len(y) = K
    BY <1>6, <1>7
  <2> QED
    BY <1>6, <2>1, <2>2, <2>3, SeqEqual
<1>9. SubSeq(w, K + 1, Len(w)) = SubSeq(us, k + 1, Len(us))
  <2> DEFINE u == SubSeq(w, K + 1, Len(w))
             v == SubSeq(us, k + 1, Len(us))
  <2>1. /\ u \in Seq(SEG) /\ Len(u) = IF K + 1 <= Len(w) THEN Len(w) - (K + 1) + 1 ELSE 0
        /\ \A i \in 1 .. Len(w) - (K + 1) + 1 : u[i] = w[(K + 1) + i - 1]
    <3>1. K + 1 \in Int /\ Len(w) \in Int /\ \A i \in K + 1 .. Len(w) : w[i] \in SEG
      BY <1>1, <1>2, <1>3
    <3> QED
      BY <3>1, SubSeqProperties
  <2>2. /\ v \in Seq(SEG) /\ Len(v) = IF k + 1 <= Len(us) THEN Len(us) - (k + 1) + 1 ELSE 0
        /\ \A i \in 1 .. Len(us) - (k + 1) + 1 : v[i] = us[(k + 1) + i - 1]
    <3>1. k + 1 \in Int /\ Len(us) \in Int /\ \A i \in k + 1 .. Len(us) : us[i] \in SEG
      BY <1>1
    <3> QED
      BY <3>1, SubSeqProperties
  <2> HIDE DEF u, v
  <2>3. Len(u) = Len(us) - k /\ Len(v) = Len(us) - k
    <3>1. K = k + 1 /\ k \in 0 .. Len(us) /\ Len(us) \in Nat /\ Len(w) = Len(us) + 1
      BY <1>1, <1>2, <1>7
    <3>2. Len(u) = IF K + 1 <= Len(w) THEN Len(w) - (K + 1) + 1 ELSE 0
      BY <2>1
    <3>3. Len(v) = IF k + 1 <= Len(us) THEN Len(us) - (k + 1) + 1 ELSE 0
      BY <2>2
    <3>4. Len(v) = Len(us) - k
      BY <3>1, <3>3
    <3> QED
      BY <3>1, <3>2, <3>4
  <2>4. \A i \in 1 .. Len(us) - k : u[i] = v[i]
    <3> TAKE i \in 1 .. Len(us) - k
    <3>1. i \in 1 .. Len(w) - (K + 1) + 1 /\ i \in 1 .. Len(us) - (k + 1) + 1
          /\ (K + 1) + i - 1 = 1 + (k + i) /\ (k + 1) + i - 1 = k + i /\ k + i \in 1 .. Len(us)
      BY <1>1, <1>2, <1>7
    <3> QED
      BY <1>2, <2>1, <2>2, <3>1
  <2>5. u = v
    BY <2>1, <2>2, <2>3, <2>4, SeqEqual
  <2> QED
    BY <2>5 DEF u, v
<1> QED
  BY <1>8, <1>9 DEF w, k

(* The segment that tcp_rexmit_fast puts back is sent at once: the queues  *)
(* are in order again, and as if only what follows it had been sent.       *)
LEMMA FastOutput ==
  ASSUME NEW p, PcbInv(p), NEW f, Rexmitted(p, f), NEW cwnd \in Nat, MSS <= cwnd
  PROVE  Sends(p, tcp_output(f, Burst(f, cwnd)), Burst(f, cwnd))
<1> DEFINE ua == p.unacked
           us == p.unsent
           s == Head(ua)
           t == Tail(ua)
           wnd == MinOf(f.snd_wnd, cwnd)
           may == {i \in DOMAIN f.unsent : MaySend(f, wnd, i)}
           n == Len(f.unsent)
           K == Leading(may, n)
           k == K - 1
           c == SubSeq(us, 1, k)
           r == SubSeq(us, k + 1, Len(us))
           nx == NxtAfter(p.snd_nxt, us, k)
           b == Burst(f, cwnd)
           q == tcp_output(f, b)
<1>1. Queues(ua, us, p.lastack, p.snd_nxt, p.snd_lbb, p.snd_wnd) /\ ua # <<>>
  BY DEF PcbInv, Rexmitted
<1>2. /\ ua \in Seq(SEG) /\ us \in Seq(SEG) /\ Len(us) \in Nat
      /\ p.lastack \in Nat /\ p.snd_wnd \in Nat /\ p.snd_nxt \in Nat
  BY <1>1 DEF Queues
<1>3. /\ ua = <<s>> \o t /\ s \in SEG /\ t \in Seq(SEG)
      /\ End(s) <= p.lastack + p.snd_wnd /\ End(s) <= p.lastack + MSS
      /\ End(s) <= p.snd_nxt
      /\ \E x, o, m \in Nat : Line(<<s>>, x, o) /\ Line(t, o, m) /\ Line(us, m, p.snd_lbb)
  BY <1>1, FirstUnacked
<1> HIDE DEF s, t
<1>4. f.unsent = <<s>> \o us /\ f.unacked = t /\ f.TF_INFR = TRUE
      /\ f.lastack = p.lastack /\ f.snd_wnd = p.snd_wnd /\ f.snd_nxt = p.snd_nxt
      /\ DOMAIN f = PcbFields
  BY DEF Rexmitted, s, t
<1>5. /\ f.unsent \in Seq(SEG) /\ n = Len(us) + 1 /\ DOMAIN f.unsent = 1 .. n
      /\ f.unsent[1] = s /\ \A i \in 1 .. Len(us) : f.unsent[1 + i] = us[i]
  <2>1. <<s>> \in Seq(SEG) /\ Len(<<s>>) = 1 /\ <<s>>[1] = s
    BY <1>3
  <2> DEFINE w == <<s>> \o us
  <2>2. /\ w \in Seq(SEG) /\ Len(w) = Len(<<s>>) + Len(us)
        /\ \A i \in 1 .. Len(<<s>>) : w[i] = <<s>>[i]
        /\ \A i \in 1 .. Len(us) : w[Len(<<s>>) + i] = us[i]
    BY <1>2, <2>1, Joined, Zenon
  <2> HIDE DEF w
  <2>3. /\ w \in Seq(SEG) /\ Len(w) = Len(us) + 1 /\ DOMAIN w = 1 .. Len(w)
        /\ w[1] = s /\ \A i \in 1 .. Len(us) : w[1 + i] = us[i]
    BY <1>2, <2>1, <2>2
  <2>4. f.unsent = w
    BY <1>4 DEF w
  <2> QED
    BY <2>3, <2>4
<1>6. wnd \in Nat /\ wnd <= p.snd_wnd
  BY <1>2, <1>4 DEF MinOf
<1>7. \A i \in 1 .. n : i \in may => End(f.unsent[i]) <= p.lastack + p.snd_wnd
  <2> TAKE i \in 1 .. n
  <2> HAVE i \in may
  <2>1. End(f.unsent[i]) - f.lastack <= wnd
    BY DEF MaySend
  <2>2. End(f.unsent[i]) \in Nat
    BY <1>5, Ends
  <2> HIDE DEF wnd
  <2> QED
    BY <1>2, <1>4, <1>6, <2>1, <2>2
<1>8. 1 \in may
  <2>1. End(f.unsent[1]) - f.lastack <= wnd
    <3>1. End(s) \in Nat
      BY <1>3, Ends
    <3>2. End(s) - p.lastack <= p.snd_wnd /\ End(s) - p.lastack <= cwnd
      BY <1>2, <1>3, <3>1, SendSizes
    <3>3. wnd = p.snd_wnd \/ wnd = cwnd
      BY <1>4 DEF MinOf
    <3> QED
      BY <1>4, <1>5, <3>2, <3>3
  <2>2. f.TF_INFR
    BY <1>4
  <2>3. MaySend(f, wnd, 1)
    BY <2>1, <2>2, Zenon DEF MaySend
  <2>4. 1 \in DOMAIN f.unsent
    BY <1>2, <1>5
  <2> QED
    BY <2>3, <2>4
<1>9. b = SubSeq(f.unsent, 1, K)
  BY DEF Burst
<1> HIDE DEF may, wnd
<1>10. K \in 0 .. n /\ (\A i \in 1 .. K : i \in may) /\ (K < n => K + 1 \notin may)
  <2>1. n \in Nat
    BY <1>2, <1>5
  <2> HIDE DEF n
  <2> QED
    BY <2>1, LeadingStops
<1> HIDE DEF K, b, n
<1>11. K \in 1 .. Len(us) + 1 /\ K \in 1 .. n /\ k \in 0 .. Len(us) /\ K = k + 1
  <2>1. K # 0
    BY <1>2, <1>5, <1>8, <1>10
  <2> QED
    BY <1>2, <1>5, <1>10, <2>1
<1> HIDE DEF k
<1>12. b = <<s>> \o c /\ SubSeq(f.unsent, K + 1, Len(f.unsent)) = r
  <2>1. /\ SubSeq(<<s>> \o us, 1, K) = <<s>> \o SubSeq(us, 1, K - 1)
        /\ SubSeq(<<s>> \o us, K + 1, Len(<<s>> \o us)) = SubSeq(us, (K - 1) + 1, Len(us))
    BY <1>2, <1>3, <1>11, HeadTaken
  <2>2. K - 1 = k
    BY DEF k
  <2> QED
    BY <1>4, <1>9, <2>1, <2>2
<1>13. \A i \in 1 .. k : End(us[i]) <= p.lastack + p.snd_wnd
  <2> TAKE i \in 1 .. k
  <2>1. 1 + i \in 1 .. K /\ 1 + i \in 1 .. n /\ i \in 1 .. Len(us)
    BY <1>2, <1>5, <1>11
  <2> QED
    BY <1>5, <1>7, <1>10, <2>1
<1>14. /\ Queues(ua \o c, r, p.lastack, nx, p.snd_lbb, p.snd_wnd)
       /\ Reach(ua, us, p.snd_nxt) <= Reach(ua \o c, r, nx)
       /\ c \in Seq(SEG) /\ Len(c) = k
       /\ \A i \in 1 .. k : c[i] = us[i] /\ End(us[i]) <= nx
  <2>1. Queues(ua, us, p.lastack, p.snd_nxt, p.snd_lbb, p.snd_wnd) /\ k \in 0 .. Len(us)
    BY <1>1, <1>11
  <2> HIDE DEF ua, us
  <2>2. /\ Merged(ua, c) = ua \o c
        /\ Queues(ua \o c, r, p.lastack, nx, p.snd_lbb, p.snd_wnd)
        /\ Reach(ua, us, p.snd_nxt) <= Reach(ua \o c, r, nx)
        /\ c \in Seq(SEG) /\ Len(c) = k
        /\ \A i \in 1 .. k : c[i] = us[i] /\ End(us[i]) <= nx
    BY <1>13, <2>1, QueuesSent, Zenon
  <2> QED
    BY <2>2
<1>15. Merged(t, b) = ua \o c
  <2>1. PICK x \in Nat, o \in Nat, m \in Nat :
          Line(<<s>>, x, o) /\ Line(t, o, m) /\ Line(us, m, p.snd_lbb)
    BY <1>3
  <2>2. p.snd_lbb \in Nat
    BY <1>1 DEF Queues
  <2>3. PICK e \in Nat : Line(c, m, e)
    BY <1>2, <1>11, <2>1, <2>2, LineCut
  <2> HIDE DEF c
  <2>4. Merged(t, <<s>> \o c) = (<<s>> \o t) \o c
    BY <1>3, <1>14, <2>1, <2>3, MergedAgain
  <2> QED
    BY <1>3, <1>12, <2>4
<1> HIDE DEF c, r, nx
<1>16. /\ b \in Seq(SEG) /\ Len(b) = k + 1 /\ b[1] = s
       /\ \A i \in 1 .. k : b[1 + i] = us[i]
  <2>1. <<s>> \in Seq(SEG) /\ Len(<<s>>) = 1 /\ <<s>>[1] = s
    BY <1>3
  <2> DEFINE w == <<s>> \o c
  <2>2. /\ w \in Seq(SEG) /\ Len(w) = Len(<<s>>) + Len(c)
        /\ \A i \in 1 .. Len(<<s>>) : w[i] = <<s>>[i]
        /\ \A i \in 1 .. Len(c) : w[Len(<<s>>) + i] = c[i]
    BY <1>14, <2>1, Joined, Zenon
  <2> HIDE DEF w
  <2>3. /\ w \in Seq(SEG) /\ Len(w) = k + 1
        /\ w[1] = s /\ \A i \in 1 .. k : w[1 + i] = us[i]
    BY <1>11, <1>14, <2>1, <2>2
  <2>4. b = w
    BY <1>12 DEF w
  <2> QED
    BY <2>3, <2>4
<1>17. /\ DOMAIN q = PcbFields
       /\ q.unsent = SubSeq(f.unsent, Len(b) + 1, Len(f.unsent))
       /\ q.unacked = Merged(f.unacked, b)
       /\ q.snd_nxt = IF b = <<>> THEN f.snd_nxt ELSE MaxOf(f.snd_nxt, End(Last(b)))
       /\ q.snd_lbb = f.snd_lbb /\ q.snd_buf = f.snd_buf /\ q.lastack = f.lastack
       /\ q.snd_wnd = f.snd_wnd /\ q.snd_wl2 = f.snd_wl2 /\ q.dupacks = f.dupacks
       /\ q.nrtx = f.nrtx /\ q.keep_cnt_sent = f.keep_cnt_sent
  BY <1>4, OutputFields
<1> HIDE DEF q
<1>18. q.snd_nxt = nx
  <2>1. b # <<>> /\ Last(b) = b[k + 1]
    BY <1>11, <1>16 DEF Last
  <2>2. CASE k = 0
    <3>1. Last(b) = s
      BY <1>16, <2>1, <2>2
    <3>2. End(s) \in Nat
      BY <1>3, Ends
    <3>3. MaxOf(p.snd_nxt, End(s)) = p.snd_nxt
      BY <1>2, <1>3, <3>2 DEF MaxOf
    <3> QED
      BY <1>4, <1>17, <2>1, <2>2, <3>1, <3>3 DEF nx, NxtAfter
  <2>3. CASE k # 0
    <3>1. k \in 1 .. k /\ 1 + k = k + 1
      BY <1>11, <2>3
    <3>2. Last(b) = us[k]
      BY <1>16, <2>1, <3>1
    <3> QED
      BY <1>4, <1>17, <2>1, <2>3, <3>2 DEF nx, NxtAfter
  <2> QED
    BY <2>2, <2>3
<1>19. q.unsent = r /\ q.unacked = ua \o c
  BY <1>4, <1>11, <1>12, <1>15, <1>16, <1>17
<1>20. PcbInv(q)
  <2>1. Queues(q.unacked, q.unsent, q.lastack, q.snd_nxt, q.snd_lbb, q.snd_wnd)
    BY <1>4, <1>14, <1>17, <1>18, <1>19 DEF Rexmitted
  <2> QED
    BY <1>17, <2>1 DEF PcbInv, Rexmitted
<1>21. ReachOf(p) <= ReachOf(q)
  BY <1>14, <1>18, <1>19 DEF ReachOf
<1>22. \A i \in 1 .. Len(b) : End(b[i]) <= q.snd_nxt /\ End(b[i]) <= q.lastack + q.snd_wnd
  <2> TAKE i \in 1 .. Len(b)
  <2>1. CASE i = 1
    <3>1. b[i] = s /\ q.lastack = p.lastack /\ q.snd_wnd = p.snd_wnd
      BY <1>4, <1>16, <1>17, <2>1
    <3>2. End(s) <= q.snd_nxt
      <4>1. End(s) \in Nat
        BY <1>3, Ends
      <4>2. nx \in Nat /\ p.snd_nxt <= nx
        <5>1. nx \in Nat
          BY <1>14 DEF Queues
        <5>2. k = 0 \/ End(us[k]) \in Nat
          BY <1>2, <1>11, Ends
        <5> QED
          BY <1>2, <5>1, <5>2 DEF nx, NxtAfter, MaxOf
      <4> QED
        BY <1>2, <1>3, <1>18, <4>1, <4>2
    <3> QED
      BY <1>3, <3>1, <3>2
  <2>2. CASE i # 1
    <3>1. i - 1 \in 1 .. k /\ 1 + (i - 1) = i
      BY <1>11, <1>16, <2>2
    <3>2. b[i] = us[i - 1]
      BY <1>16, <3>1
    <3> QED
      BY <1>4, <1>13, <1>14, <1>17, <1>18, <3>1, <3>2
  <2> QED
    BY <2>1, <2>2
<1>23. q.snd_wl2 = p.snd_wl2 /\ q.snd_wnd = p.snd_wnd /\ q.lastack = p.lastack
       /\ q.snd_lbb = p.snd_lbb
  BY <1>17 DEF Rexmitted
<1> QED
  BY <1>16, <1>20, <1>21, <1>22, <1>23 DEF Sends, q, b

(* nrtx is one byte.                                                       *)
LEMMA Wraps == \A x \in 0 .. 255 : (x + 1) % 256 \in 0 .. 255
  OBVIOUS

(* The two control blocks have the same queues, window and free space.     *)
SameData(p, q) ==
  /\ DOMAIN q = PcbFields
  /\ q.unsent = p.unsent /\ q.unacked = p.unacked /\ q.snd_nxt = p.snd_nxt
  /\ q.lastack = p.lastack /\ q.snd_lbb = p.snd_lbb /\ q.snd_buf = p.snd_buf
  /\ q.snd_wnd = p.snd_wnd /\ q.snd_wl2 = p.snd_wl2

(* Nothing but counters and flags has changed.                             *)
LEMMA SameDataInv ==
  ASSUME NEW p, PcbInv(p), NEW q, SameData(p, q),
         q.nrtx \in 0 .. 255, q.keep_cnt_sent \in 0 .. KEEP_CNT, q.dupacks \in 0 .. DupThresh + 1
  PROVE  PcbInv(q) /\ ReachOf(q) = ReachOf(p)
  BY DEF PcbInv, SameData, ReachOf

(* A keepalive probe is counted.                                           *)
LEMMA KeptInv ==
  ASSUME NEW p, PcbInv(p), NEW keep \in BOOLEAN, keep => p.keep_cnt_sent # KEEP_CNT
  PROVE  /\ PcbInv(Kept(p, keep)) /\ ReachOf(Kept(p, keep)) = ReachOf(p)
         /\ SameData(p, Kept(p, keep))
<1> DEFINE q == Kept(p, keep)
<1>1. DOMAIN p = PcbFields /\ p.keep_cnt_sent \in 0 .. KEEP_CNT /\ p.nrtx \in 0 .. 255
      /\ p.dupacks \in 0 .. DupThresh + 1
  BY DEF PcbInv
<1>2. CASE keep
  <2>1. q = [p EXCEPT !.keep_cnt_sent = @ + 1]
    BY <1>2 DEF Kept
  <2>2. SameData(p, q) /\ q.nrtx = p.nrtx /\ q.dupacks = p.dupacks
        /\ q.keep_cnt_sent = p.keep_cnt_sent + 1
    BY <1>1, <2>1 DEF SameData, PcbFields
  <2>3. q.keep_cnt_sent \in 0 .. KEEP_CNT
    <3>1. p.keep_cnt_sent # KEEP_CNT
      BY <1>2
    <3> HIDE DEF q
    <3> QED
      BY <1>1, <2>2, <3>1, SendSizes
  <2> HIDE DEF q
  <2> QED
    BY <1>1, <2>2, <2>3, SameDataInv DEF q
<1>3. CASE ~keep
  <2>1. q = p
    BY <1>3 DEF Kept
  <2>2. SameData(p, p)
    BY <1>1 DEF SameData
  <2> QED
    BY <2>1, <2>2
<1> QED
  BY <1>2, <1>3

(* tcp_write keeps the control block in order.                             *)
LEMMA WrittenInv ==
  ASSUME NEW p, PcbInv(p), NEW n \in Nat \ {0}, n <= p.snd_buf, p.snd_lbb + n <= MaxBytes
  PROVE  /\ PcbInv(Queued(p, n)) /\ ReachOf(p) <= ReachOf(Queued(p, n))
         /\ Queued(p, n).snd_wl2 = p.snd_wl2 /\ Queued(p, n).snd_wnd = p.snd_wnd
<1> DEFINE us == p.unsent
           room == IF us = <<>> THEN 0 ELSE MSS - Last(us).len
           fill == MinOf(room, n)
           old  == IF fill = 0 THEN us ELSE [us EXCEPT ![Len(us)].len = @ + fill]
           r    == old \o Segments(p.snd_lbb + fill, n - fill)
           q    == Queued(p, n)
<1>1. Queues(p.unacked, us, p.lastack, p.snd_nxt, p.snd_lbb, p.snd_wnd) /\ DOMAIN p = PcbFields
  BY DEF PcbInv
<1>2. /\ Queues(p.unacked, r, p.lastack, p.snd_nxt, p.snd_lbb + n, p.snd_wnd)
      /\ Reach(p.unacked, us, p.snd_nxt) <= Reach(p.unacked, r, p.snd_nxt)
  BY <1>1, QueuesWritten, Zenon
<1>3. q = [p EXCEPT !.unsent = r, !.snd_lbb = @ + n, !.snd_buf = @ - n]
  BY Zenon DEF Queued
<1> HIDE DEF r, q
<1>4. /\ DOMAIN q = PcbFields /\ q.unsent = r /\ q.snd_lbb = p.snd_lbb + n
      /\ q.snd_buf = p.snd_buf - n /\ q.unacked = p.unacked /\ q.snd_nxt = p.snd_nxt
      /\ q.lastack = p.lastack /\ q.snd_wnd = p.snd_wnd /\ q.snd_wl2 = p.snd_wl2
      /\ q.nrtx = p.nrtx /\ q.keep_cnt_sent = p.keep_cnt_sent /\ q.dupacks = p.dupacks
  BY <1>1, <1>3 DEF PcbFields
<1>5. Queues(q.unacked, q.unsent, q.lastack, q.snd_nxt, q.snd_lbb, q.snd_wnd)
  BY <1>2, <1>4
<1>6. /\ p.snd_buf = TCP_SND_BUF - (p.snd_lbb - p.lastack)
      /\ p.snd_buf \in 0 .. TCP_SND_BUF /\ p.snd_lbb \in Nat /\ p.lastack \in Nat
  BY <1>1 DEF PcbInv, Queues
<1>7. q.snd_buf = TCP_SND_BUF - (q.snd_lbb - q.lastack) /\ q.snd_buf \in 0 .. TCP_SND_BUF
  BY <1>4, <1>6, SendSizes
<1>8. PcbInv(q)
  <2>1. /\ p.snd_wl2 \in Nat /\ p.lastack <= p.snd_wl2
        /\ p.nrtx \in 0 .. 255 /\ p.keep_cnt_sent \in 0 .. KEEP_CNT
        /\ p.dupacks \in 0 .. DupThresh + 1
    BY DEF PcbInv
  <2> QED
    BY <1>4, <1>5, <1>7, <2>1 DEF PcbInv
<1> QED
  BY <1>2, <1>4, <1>8 DEF ReachOf, q

(* tcp_rexmit_rto keeps the control block in order.                        *)
LEMMA RtoInv ==
  ASSUME NEW p, PcbInv(p), p.unacked # <<>>
  PROVE  LET q == tcp_rexmit_rto(p)
         IN  /\ PcbInv(q) /\ ReachOf(p) <= ReachOf(q)
             /\ q.snd_wl2 = p.snd_wl2 /\ q.snd_wnd = p.snd_wnd
             /\ q.keep_cnt_sent = p.keep_cnt_sent
<1> DEFINE q == tcp_rexmit_rto(p)
<1>1. Queues(p.unacked, p.unsent, p.lastack, p.snd_nxt, p.snd_lbb, p.snd_wnd)
      /\ DOMAIN p = PcbFields /\ p.nrtx \in 0 .. 255
  BY DEF PcbInv
<1>2. /\ DOMAIN q = PcbFields /\ q.unsent = p.unacked \o p.unsent /\ q.unacked = <<>>
      /\ q.snd_lbb = p.snd_lbb /\ q.snd_buf = p.snd_buf /\ q.snd_nxt = p.snd_nxt
      /\ q.lastack = p.lastack /\ q.snd_wnd = p.snd_wnd /\ q.snd_wl2 = p.snd_wl2
      /\ q.nrtx = (p.nrtx + 1) % 256 /\ q.keep_cnt_sent = p.keep_cnt_sent
      /\ q.dupacks = p.dupacks
  BY <1>1 DEF tcp_rexmit_rto, PcbFields
<1> HIDE DEF q
<1>3. /\ Queues(<<>>, p.unacked \o p.unsent, p.lastack, p.snd_nxt, p.snd_lbb, p.snd_wnd)
      /\ Reach(p.unacked, p.unsent, p.snd_nxt) <= Reach(<<>>, p.unacked \o p.unsent, p.snd_nxt)
  BY <1>1, QueuesAgain, Zenon
<1>4. q.nrtx \in 0 .. 255
  BY <1>1, <1>2, Wraps
<1>5. Queues(q.unacked, q.unsent, q.lastack, q.snd_nxt, q.snd_lbb, q.snd_wnd)
  BY <1>2, <1>3
<1>6. PcbInv(q)
  BY <1>2, <1>4, <1>5 DEF PcbInv
<1> QED
  BY <1>2, <1>3, <1>6 DEF ReachOf, q

(* The window after an acknowledgement.                                    *)
NewWnd(p, a) == IF NewWindow(p, a) THEN a.wnd ELSE p.snd_wnd
NewWl2(p, a) == IF NewWindow(p, a) THEN a.ack ELSE p.snd_wl2

(* Only the window and the persist timer depend on WindowUpdate.           *)
LEMMA WindowFields ==
  ASSUME NEW p, DOMAIN p = PcbFields, NEW a
  PROVE  LET w == WindowUpdate(p, a)
         IN  /\ DOMAIN w = PcbFields /\ w.snd_wnd = NewWnd(p, a) /\ w.snd_wl2 = NewWl2(p, a)
             /\ w.unsent = p.unsent /\ w.unacked = p.unacked /\ w.snd_nxt = p.snd_nxt
             /\ w.lastack = p.lastack /\ w.snd_lbb = p.snd_lbb /\ w.snd_buf = p.snd_buf
             /\ w.nrtx = p.nrtx /\ w.keep_cnt_sent = p.keep_cnt_sent /\ w.dupacks = p.dupacks
<1>1. CASE NewWindow(p, a)
  <2>1. WindowUpdate(p, a) = [p EXCEPT !.snd_wnd = a.wnd, !.snd_wl2 = a.ack, !.persist = (a.wnd = 0)]
    BY <1>1 DEF WindowUpdate
  <2>2. NewWnd(p, a) = a.wnd /\ NewWl2(p, a) = a.ack
    BY <1>1 DEF NewWnd, NewWl2
  <2> QED
    BY <2>1, <2>2 DEF PcbFields
<1>2. CASE ~NewWindow(p, a)
  <2>1. WindowUpdate(p, a) = p
    BY <1>2 DEF WindowUpdate
  <2>2. NewWnd(p, a) = p.snd_wnd /\ NewWl2(p, a) = p.snd_wl2
    BY <1>2 DEF NewWnd, NewWl2
  <2> QED
    BY <2>1, <2>2
<1> QED
  BY <1>1, <1>2

(* An acknowledgement that the network can deliver.                        *)
Delivered(p, a) ==
  /\ a.ack \in Nat /\ a.wnd \in Nat /\ a.ack <= ReachOf(p)
  /\ p.snd_wl2 < a.ack => p.snd_wl2 + p.snd_wnd <= a.ack + a.wnd

(* Numbers of a control block.                                             *)
LEMMA PcbNumbers ==
  ASSUME NEW p, PcbInv(p)
  PROVE  /\ p.lastack \in Nat /\ p.snd_nxt \in Nat /\ p.snd_lbb \in Nat /\ p.snd_wnd \in Nat
         /\ p.snd_wl2 \in Nat /\ p.lastack <= p.snd_nxt /\ p.snd_nxt <= p.snd_lbb
         /\ p.lastack <= p.snd_wl2 /\ p.snd_lbb <= MaxBytes
         /\ p.snd_buf = TCP_SND_BUF - (p.snd_lbb - p.lastack)
         /\ p.snd_buf \in 0 .. TCP_SND_BUF
         /\ p.nrtx \in 0 .. 255 /\ p.keep_cnt_sent \in 0 .. KEEP_CNT
         /\ p.dupacks \in 0 .. DupThresh + 1
  BY DEF PcbInv, Queues

(* The window of the control block moves on only.                          *)
LEMMA WindowMoves ==
  ASSUME NEW p, PcbInv(p), NEW a, Delivered(p, a)
  PROVE  /\ NewWnd(p, a) \in Nat /\ NewWl2(p, a) \in Nat /\ p.snd_wl2 <= NewWl2(p, a)
         /\ a.ack <= NewWl2(p, a)
         /\ p.lastack + p.snd_wnd <= NewWl2(p, a) + NewWnd(p, a)
         /\ a.ack <= p.lastack => NewWl2(p, a) = p.snd_wl2 /\ p.snd_wnd <= NewWnd(p, a)
         /\ p.lastack <= a.ack => p.lastack + p.snd_wnd <= a.ack + NewWnd(p, a)
<1>1. /\ p.lastack \in Nat /\ p.snd_wnd \in Nat /\ p.snd_wl2 \in Nat /\ p.lastack <= p.snd_wl2
      /\ a.ack \in Nat /\ a.wnd \in Nat
      /\ p.snd_wl2 < a.ack => p.snd_wl2 + p.snd_wnd <= a.ack + a.wnd
  BY PcbNumbers DEF Delivered
<1>2. CASE p.snd_wl2 < a.ack
  <2>1. NewWnd(p, a) = a.wnd /\ NewWl2(p, a) = a.ack
    BY <1>2 DEF NewWindow, NewWnd, NewWl2
  <2> QED
    BY <1>1, <1>2, <2>1
<1>3. CASE p.snd_wl2 = a.ack /\ a.wnd > p.snd_wnd
  <2>1. NewWnd(p, a) = a.wnd /\ NewWl2(p, a) = a.ack
    BY <1>3 DEF NewWindow, NewWnd, NewWl2
  <2> QED
    BY <1>1, <1>3, <2>1
<1>4. CASE ~(p.snd_wl2 < a.ack) /\ ~(p.snd_wl2 = a.ack /\ a.wnd > p.snd_wnd)
  <2>1. NewWnd(p, a) = p.snd_wnd /\ NewWl2(p, a) = p.snd_wl2
    BY <1>4 DEF NewWindow, NewWnd, NewWl2
  <2> QED
    BY <1>1, <1>4, <2>1
<1> QED
  BY <1>2, <1>3, <1>4

(* tcp_receive leaves queues in order, or as tcp_rexmit_fast leaves them.  *)
Handled(p, a, z) ==
  /\ z.snd_wnd = NewWnd(p, a) /\ z.snd_wl2 = NewWl2(p, a)
  /\ \/ PcbInv(z) /\ ReachOf(p) <= ReachOf(z)
     \/ \E x : PcbInv(x) /\ ReachOf(p) <= ReachOf(x) /\ Rexmitted(x, z)

(* An ACK of data that was sent.                                           *)
LEMMA NewAckHandled ==
  ASSUME NEW p, PcbInv(p), NEW a, Delivered(p, a), p.lastack < a.ack, a.ack <= p.snd_nxt
  PROVE  Handled(p, a, [UnsentAcked(NewAck(p, a), a.ack) EXCEPT !.keep_cnt_sent = 0])
<1> DEFINE w == WindowUpdate(p, a)
           v == NewAck(p, a)
           y == UnsentAcked(v, a.ack)
           z == [y EXCEPT !.keep_cnt_sent = 0]
<1>1. Queues(p.unacked, p.unsent, p.lastack, p.snd_nxt, p.snd_lbb, p.snd_wnd)
      /\ DOMAIN p = PcbFields
  BY DEF PcbInv
<1>2. /\ DOMAIN w = PcbFields /\ w.snd_wnd = NewWnd(p, a) /\ w.snd_wl2 = NewWl2(p, a)
      /\ w.unsent = p.unsent /\ w.unacked = p.unacked /\ w.snd_nxt = p.snd_nxt
      /\ w.lastack = p.lastack /\ w.snd_lbb = p.snd_lbb /\ w.snd_buf = p.snd_buf
  BY <1>1, WindowFields
<1> HIDE DEF w
<1>3. /\ DOMAIN v = PcbFields /\ v.snd_wnd = NewWnd(p, a) /\ v.snd_wl2 = NewWl2(p, a)
      /\ v.unsent = p.unsent /\ v.unacked = Unacked(p.unacked, a.ack) /\ v.snd_nxt = p.snd_nxt
      /\ v.lastack = a.ack /\ v.snd_lbb = p.snd_lbb /\ v.nrtx = 0 /\ v.dupacks = 0
      /\ v.snd_buf = p.snd_buf + (a.ack - p.lastack)
  <2> DEFINE rest == Unacked(p.unacked, a.ack)
  <2>1. v = [w EXCEPT
               !.TF_INFR = FALSE, !.nrtx = 0, !.dupacks = 0, !.lastack = a.ack,
               !.snd_buf = @ + (a.ack - p.lastack),
               !.unacked = rest, !.rtime = (rest # <<>>)]
    BY DEF NewAck, w
  <2> HIDE DEF rest, v
  <2>2. /\ DOMAIN v = PcbFields /\ v.snd_wnd = w.snd_wnd /\ v.snd_wl2 = w.snd_wl2
        /\ v.unsent = w.unsent /\ v.unacked = rest /\ v.snd_nxt = w.snd_nxt
        /\ v.lastack = a.ack /\ v.snd_lbb = w.snd_lbb /\ v.nrtx = 0 /\ v.dupacks = 0
        /\ v.snd_buf = w.snd_buf + (a.ack - p.lastack)
    BY <1>2, <2>1 DEF PcbFields
  <2> QED
    BY <1>2, <2>2 DEF rest
<1> HIDE DEF v
<1>4. y = [v EXCEPT !.unsent = Unacked(v.unsent, a.ack)]
  BY <1>3 DEF UnsentAcked
<1> HIDE DEF y
<1>5. /\ DOMAIN z = PcbFields /\ z.snd_wnd = NewWnd(p, a) /\ z.snd_wl2 = NewWl2(p, a)
      /\ z.unsent = Unacked(p.unsent, a.ack) /\ z.unacked = Unacked(p.unacked, a.ack)
      /\ z.snd_nxt = p.snd_nxt /\ z.lastack = a.ack /\ z.snd_lbb = p.snd_lbb
      /\ z.nrtx = 0 /\ z.dupacks = 0 /\ z.keep_cnt_sent = 0
      /\ z.snd_buf = p.snd_buf + (a.ack - p.lastack)
  <2>1. z = [[v EXCEPT !.unsent = Unacked(v.unsent, a.ack)] EXCEPT !.keep_cnt_sent = 0]
    BY <1>4
  <2> HIDE DEF z
  <2>2. /\ DOMAIN z = PcbFields /\ z.snd_wnd = v.snd_wnd /\ z.snd_wl2 = v.snd_wl2
        /\ z.unsent = Unacked(v.unsent, a.ack) /\ z.unacked = v.unacked
        /\ z.snd_nxt = v.snd_nxt /\ z.lastack = v.lastack /\ z.snd_lbb = v.snd_lbb
        /\ z.nrtx = v.nrtx /\ z.dupacks = v.dupacks /\ z.keep_cnt_sent = 0
        /\ z.snd_buf = v.snd_buf
    BY <1>3, <2>1 DEF PcbFields
  <2> QED
    BY <1>3, <2>2
<1> HIDE DEF z
<1>6. /\ p.lastack \in Nat /\ p.snd_nxt \in Nat /\ p.snd_lbb \in Nat /\ a.ack \in Nat
      /\ p.snd_nxt <= p.snd_lbb /\ p.snd_lbb <= MaxBytes
      /\ p.snd_buf = TCP_SND_BUF - (p.snd_lbb - p.lastack) /\ p.snd_buf \in 0 .. TCP_SND_BUF
  BY PcbNumbers DEF Delivered
<1>7. /\ NewWnd(p, a) \in Nat /\ NewWl2(p, a) \in Nat /\ a.ack <= NewWl2(p, a)
      /\ p.lastack + p.snd_wnd <= a.ack + NewWnd(p, a)
  BY <1>6, WindowMoves
<1>8. /\ Queues(z.unacked, z.unsent, z.lastack, z.snd_nxt, z.snd_lbb, z.snd_wnd)
      /\ ReachOf(p) <= ReachOf(z)
  <2>1. p.lastack <= a.ack
    BY <1>6
  <2>2. /\ Queues(Unacked(p.unacked, a.ack), Unacked(p.unsent, a.ack), a.ack, p.snd_nxt,
                  p.snd_lbb, NewWnd(p, a))
        /\ Reach(p.unacked, p.unsent, p.snd_nxt)
             <= Reach(Unacked(p.unacked, a.ack), Unacked(p.unsent, a.ack), p.snd_nxt)
    BY <1>1, <1>6, <1>7, <2>1, QueuesAcked, Zenon
  <2> QED
    BY <1>5, <2>2 DEF ReachOf
<1>9. z.snd_buf = TCP_SND_BUF - (z.snd_lbb - z.lastack) /\ z.snd_buf \in 0 .. TCP_SND_BUF
  BY <1>5, <1>6, SendSizes
<1>10. PcbInv(z)
  <2>1. /\ z.snd_wl2 \in Nat /\ z.lastack <= z.snd_wl2 /\ z.snd_lbb <= MaxBytes
        /\ z.nrtx \in 0 .. 255 /\ z.keep_cnt_sent \in 0 .. KEEP_CNT
        /\ z.dupacks \in 0 .. DupThresh + 1
    BY <1>5, <1>6, <1>7, SendSizes
  <2> QED
    BY <1>5, <1>8, <1>9, <2>1 DEF PcbInv
<1> QED
  BY <1>5, <1>8, <1>10 DEF Handled, z, y, v

(* An ACK of more than was sent answers a probe.                           *)
LEMMA ProbeAckHandled ==
  ASSUME NEW p, PcbInv(p), NEW a, Delivered(p, a), p.snd_nxt < a.ack
  PROVE  Handled(p, a, [UnsentAcked(WindowUpdate(p, a), a.ack) EXCEPT !.keep_cnt_sent = 0])
<1> DEFINE w == WindowUpdate(p, a)
           z == [w EXCEPT !.keep_cnt_sent = 0]
<1>1. Queues(p.unacked, p.unsent, p.lastack, p.snd_nxt, p.snd_lbb, p.snd_wnd)
      /\ DOMAIN p = PcbFields
  BY DEF PcbInv
<1>2. /\ DOMAIN w = PcbFields /\ w.snd_wnd = NewWnd(p, a) /\ w.snd_wl2 = NewWl2(p, a)
      /\ w.unsent = p.unsent /\ w.unacked = p.unacked /\ w.snd_nxt = p.snd_nxt
      /\ w.lastack = p.lastack /\ w.snd_lbb = p.snd_lbb /\ w.snd_buf = p.snd_buf
      /\ w.nrtx = p.nrtx /\ w.keep_cnt_sent = p.keep_cnt_sent /\ w.dupacks = p.dupacks
  BY <1>1, WindowFields
<1> HIDE DEF w
<1>3. /\ p.lastack \in Nat /\ p.snd_nxt \in Nat /\ p.snd_lbb \in Nat /\ a.ack \in Nat
      /\ p.lastack <= p.snd_nxt /\ p.snd_wl2 \in Nat /\ p.lastack <= p.snd_wl2
      /\ p.nrtx \in 0 .. 255 /\ p.dupacks \in 0 .. DupThresh + 1
  BY PcbNumbers DEF Delivered
<1>4. UnsentAcked(w, a.ack) = w
  <2>1. ~(a.ack <= w.snd_nxt)
    BY <1>2, <1>3
  <2> QED
    BY <2>1 DEF UnsentAcked
<1>5. /\ DOMAIN z = PcbFields /\ z.snd_wnd = w.snd_wnd /\ z.snd_wl2 = w.snd_wl2
      /\ z.unsent = w.unsent /\ z.unacked = w.unacked /\ z.snd_nxt = w.snd_nxt
      /\ z.lastack = w.lastack /\ z.snd_lbb = w.snd_lbb /\ z.snd_buf = w.snd_buf
      /\ z.nrtx = w.nrtx /\ z.keep_cnt_sent = 0 /\ z.dupacks = w.dupacks
  BY <1>2 DEF PcbFields
<1> HIDE DEF z
<1>6. p.unacked = <<>>
  <2>1. a.ack <= Reach(p.unacked, p.unsent, p.snd_nxt)
    BY DEF Delivered, ReachOf
  <2> QED
    BY <1>3, <2>1 DEF Reach
<1>7. NewWnd(p, a) \in Nat /\ NewWl2(p, a) \in Nat /\ p.snd_wl2 <= NewWl2(p, a)
  BY WindowMoves
<1>8. Queues(p.unacked, p.unsent, p.lastack, p.snd_nxt, p.snd_lbb, NewWnd(p, a))
  BY <1>1, <1>6, <1>7, QueuesWindow, Zenon
<1>9. PcbInv(z)
  <2>1. Queues(z.unacked, z.unsent, z.lastack, z.snd_nxt, z.snd_lbb, z.snd_wnd)
    BY <1>2, <1>5, <1>8
  <2>2. z.snd_wl2 \in Nat /\ z.lastack <= z.snd_wl2
    BY <1>2, <1>3, <1>5, <1>7
  <2>3. z.keep_cnt_sent \in 0 .. KEEP_CNT
    BY <1>5, SendSizes
  <2>4. /\ p.snd_buf = TCP_SND_BUF - (p.snd_lbb - p.lastack)
        /\ p.snd_buf \in 0 .. TCP_SND_BUF /\ p.snd_lbb <= MaxBytes
    BY DEF PcbInv
  <2> QED
    BY <1>2, <1>3, <1>5, <2>1, <2>2, <2>3, <2>4 DEF PcbInv
<1>10. ReachOf(p) <= ReachOf(z)
  <2>1. ReachOf(z) = ReachOf(p)
    BY <1>2, <1>5 DEF ReachOf
  <2>2. ReachOf(p) \in Nat
    BY <1>3 DEF ReachOf, Reach
  <2> QED
    BY <2>1, <2>2
<1> QED
  BY <1>2, <1>4, <1>5, <1>9, <1>10 DEF Handled, z, w

(* Nothing is taken from the queues, and the count of probes starts again. *)
LEMMA OldAckKeeps ==
  ASSUME NEW d, PcbInv(d), NEW ack \in Nat, ack <= d.lastack
  PROVE  LET z == [UnsentAcked(d, ack) EXCEPT !.keep_cnt_sent = 0]
         IN  PcbInv(z) /\ ReachOf(z) = ReachOf(d) /\ SameData(d, z)
<1> DEFINE y == UnsentAcked(d, ack)
           z == [y EXCEPT !.keep_cnt_sent = 0]
<1>1. Queues(d.unacked, d.unsent, d.lastack, d.snd_nxt, d.snd_lbb, d.snd_wnd)
      /\ DOMAIN d = PcbFields
  BY DEF PcbInv
<1>2. /\ d.lastack \in Nat /\ d.snd_nxt \in Nat /\ d.lastack <= d.snd_nxt
      /\ d.nrtx \in 0 .. 255 /\ d.dupacks \in 0 .. DupThresh + 1
  BY PcbNumbers
<1>3. Unacked(d.unsent, ack) = d.unsent
  <2>1. d.unsent \in Seq(SEG) /\ \A i \in 1 .. Len(d.unsent) : d.lastack < End(d.unsent[i])
    BY <1>1 DEF Queues
  <2>2. \A i \in 1 .. Len(d.unsent) : ack < End(d.unsent[i])
    <3> TAKE i \in 1 .. Len(d.unsent)
    <3>1. End(d.unsent[i]) \in Nat
      BY <2>1, Ends
    <3> QED
      BY <1>2, <2>1, <3>1
  <2> QED
    BY <2>1, <2>2, UnackedAll
<1>4. y = [d EXCEPT !.unsent = d.unsent]
  <2>1. ack <= d.snd_nxt
    BY <1>2
  <2> QED
    BY <1>3, <2>1 DEF UnsentAcked
<1> HIDE DEF y
<1>5. SameData(d, z) /\ z.keep_cnt_sent = 0 /\ z.nrtx = d.nrtx /\ z.dupacks = d.dupacks
  BY <1>1, <1>4 DEF SameData, PcbFields
<1> HIDE DEF z
<1>6. z.keep_cnt_sent \in 0 .. KEEP_CNT
  BY <1>5, SendSizes
<1>7. PcbInv(z) /\ ReachOf(z) = ReachOf(d)
  BY <1>2, <1>5, <1>6, SameDataInv
<1> QED
  BY <1>5, <1>7 DEF z, y

(* The first segment goes back to the head of unsent.                      *)
LEMMA FastRexmitted ==
  ASSUME NEW d, PcbInv(d), NEW ack \in Nat, ack <= d.lastack, d.unacked # <<>>
  PROVE  Rexmitted(d, [UnsentAcked([tcp_rexmit(d) EXCEPT !.TF_INFR = TRUE], ack)
                        EXCEPT !.keep_cnt_sent = 0])
<1> DEFINE s == Head(d.unacked)
           us == d.unsent
           h == <<s>> \o us
           f == [tcp_rexmit(d) EXCEPT !.TF_INFR = TRUE]
           y == UnsentAcked(f, ack)
           z == [y EXCEPT !.keep_cnt_sent = 0]
<1>1. Queues(d.unacked, us, d.lastack, d.snd_nxt, d.snd_lbb, d.snd_wnd) /\ DOMAIN d = PcbFields
  BY DEF PcbInv
<1>2. /\ d.lastack \in Nat /\ d.snd_nxt \in Nat /\ d.lastack <= d.snd_nxt
      /\ d.nrtx \in 0 .. 255 /\ d.dupacks \in 0 .. DupThresh + 1
  BY PcbNumbers
<1>3. us \in Seq(SEG) /\ Len(us) \in Nat /\ \A i \in 1 .. Len(us) : d.lastack < End(us[i])
  BY <1>1 DEF Queues
<1>4. s \in SEG /\ d.lastack < End(s) /\ \A i \in 1 .. Len(us) : ~(us[i].seq < s.seq)
  BY <1>1, FirstUnacked
<1> HIDE DEF s
<1>5. Inserted(us, s) = h
  BY <1>3, <1>4, InsertedAtHead
<1>6. /\ h \in Seq(SEG) /\ Len(h) = Len(us) + 1 /\ h[1] = s
      /\ \A i \in 1 .. Len(us) : h[1 + i] = us[i]
  <2>1. <<s>> \in Seq(SEG) /\ Len(<<s>>) = 1 /\ <<s>>[1] = s
    BY <1>4
  <2>2. /\ h \in Seq(SEG) /\ Len(h) = Len(<<s>>) + Len(us)
        /\ \A i \in 1 .. Len(<<s>>) : h[i] = <<s>>[i]
        /\ \A i \in 1 .. Len(us) : h[Len(<<s>>) + i] = us[i]
    BY <1>3, <2>1, Joined, Zenon
  <2> HIDE DEF h
  <2> QED
    BY <1>3, <2>1, <2>2
<1> HIDE DEF h
<1>7. Unacked(h, ack) = h
  <2>1. \A i \in 1 .. Len(h) : ack < End(h[i])
    <3> TAKE i \in 1 .. Len(h)
    <3>1. h[i] = s \/ \E j \in 1 .. Len(us) : h[i] = us[j]
      <4>1. i = 1 \/ (i - 1 \in 1 .. Len(us) /\ 1 + (i - 1) = i)
        BY <1>3, <1>6
      <4> QED
        BY <1>6, <4>1
    <3>2. d.lastack < End(h[i])
      BY <1>3, <1>4, <3>1
    <3>3. End(h[i]) \in Nat
      BY <1>6, Ends
    <3> QED
      BY <1>2, <3>2, <3>3
  <2> QED
    BY <1>6, <2>1, UnackedAll
<1>8. /\ DOMAIN f = PcbFields /\ f.unsent = h /\ f.unacked = Tail(d.unacked)
      /\ f.nrtx = (d.nrtx + 1) % 256 /\ f.TF_INFR = TRUE
      /\ f.snd_nxt = d.snd_nxt /\ f.lastack = d.lastack /\ f.snd_lbb = d.snd_lbb
      /\ f.snd_buf = d.snd_buf /\ f.snd_wnd = d.snd_wnd /\ f.snd_wl2 = d.snd_wl2
      /\ f.dupacks = d.dupacks
  <2>1. f = [[d EXCEPT !.unsent = h, !.unacked = Tail(d.unacked), !.nrtx = (@ + 1) % 256]
               EXCEPT !.TF_INFR = TRUE]
    BY <1>5, Zenon DEF tcp_rexmit, s
  <2> HIDE DEF f
  <2> QED
    BY <1>1, <2>1 DEF PcbFields
<1> HIDE DEF f
<1>9. y = [f EXCEPT !.unsent = h]
  <2>1. ack <= f.snd_nxt
    BY <1>2, <1>8
  <2> QED
    BY <1>7, <1>8, <2>1 DEF UnsentAcked
<1> HIDE DEF y
<1>10. /\ DOMAIN z = PcbFields /\ z.unsent = h /\ z.unacked = f.unacked
       /\ z.nrtx = f.nrtx /\ z.TF_INFR = f.TF_INFR
       /\ z.snd_nxt = f.snd_nxt /\ z.lastack = f.lastack /\ z.snd_lbb = f.snd_lbb
       /\ z.snd_buf = f.snd_buf /\ z.snd_wnd = f.snd_wnd /\ z.snd_wl2 = f.snd_wl2
       /\ z.dupacks = f.dupacks /\ z.keep_cnt_sent = 0
  <2>1. z = [[f EXCEPT !.unsent = h] EXCEPT !.keep_cnt_sent = 0]
    BY <1>9
  <2> HIDE DEF z
  <2> QED
    BY <1>8, <2>1 DEF PcbFields
<1> HIDE DEF z
<1>11. z.nrtx \in 0 .. 255 /\ z.keep_cnt_sent \in 0 .. KEEP_CNT
  <2>1. (d.nrtx + 1) % 256 \in 0 .. 255
    BY <1>2, Wraps
  <2>2. z.nrtx = (d.nrtx + 1) % 256
    BY <1>8, <1>10
  <2>3. z.keep_cnt_sent \in 0 .. KEEP_CNT
    BY <1>10, SendSizes
  <2> QED
    BY <2>1, <2>2, <2>3
<1>12. Rexmitted(d, z)
  BY <1>2, <1>8, <1>10, <1>11 DEF Rexmitted, h, s
<1> QED
  BY <1>12 DEF z, y, f

(* An ACK of nothing new.                                                  *)
LEMMA OldAckHandled ==
  ASSUME NEW p, PcbInv(p), NEW a, Delivered(p, a), a.ack <= p.lastack
  PROVE  Handled(p, a, [UnsentAcked(OldAck(p, a), a.ack) EXCEPT !.keep_cnt_sent = 0])
<1> DEFINE w == WindowUpdate(p, a)
           dup == /\ w.snd_wl2 + w.snd_wnd = p.snd_wl2 + p.snd_wnd
                  /\ p.rtime /\ a.ack = p.lastack
           c == IF dup THEN MinOf(w.dupacks + 1, DupThresh + 1) ELSE 0
           d == [w EXCEPT !.dupacks = c]
           v == OldAck(p, a)
           z == [UnsentAcked(v, a.ack) EXCEPT !.keep_cnt_sent = 0]
<1>1. Queues(p.unacked, p.unsent, p.lastack, p.snd_nxt, p.snd_lbb, p.snd_wnd)
      /\ DOMAIN p = PcbFields
  BY DEF PcbInv
<1>2. /\ DOMAIN w = PcbFields /\ w.snd_wnd = NewWnd(p, a) /\ w.snd_wl2 = NewWl2(p, a)
      /\ w.unsent = p.unsent /\ w.unacked = p.unacked /\ w.snd_nxt = p.snd_nxt
      /\ w.lastack = p.lastack /\ w.snd_lbb = p.snd_lbb /\ w.snd_buf = p.snd_buf
      /\ w.nrtx = p.nrtx /\ w.keep_cnt_sent = p.keep_cnt_sent /\ w.dupacks = p.dupacks
  BY <1>1, WindowFields
<1>3. v = d \/ v = tcp_rexmit_fast(d)
  BY Zenon DEF OldAck
<1> HIDE DEF w
<1>4. /\ p.lastack \in Nat /\ p.snd_nxt \in Nat /\ a.ack \in Nat
      /\ p.snd_wl2 \in Nat /\ p.lastack <= p.snd_wl2
      /\ p.nrtx \in 0 .. 255 /\ p.dupacks \in 0 .. DupThresh + 1
  BY PcbNumbers DEF Delivered
<1>5. c \in 0 .. DupThresh + 1
  <2>1. MinOf(w.dupacks + 1, DupThresh + 1) \in 0 .. DupThresh + 1
    BY <1>2, <1>4, SendSizes DEF MinOf
  <2>2. 0 \in 0 .. DupThresh + 1
    BY SendSizes
  <2> QED
    BY <2>1, <2>2, Zenon
<1> HIDE DEF c, v
<1>6. /\ DOMAIN d = PcbFields /\ d.snd_wnd = w.snd_wnd /\ d.snd_wl2 = w.snd_wl2
      /\ d.unsent = w.unsent /\ d.unacked = w.unacked /\ d.snd_nxt = w.snd_nxt
      /\ d.lastack = w.lastack /\ d.snd_lbb = w.snd_lbb /\ d.snd_buf = w.snd_buf
      /\ d.nrtx = w.nrtx /\ d.keep_cnt_sent = w.keep_cnt_sent /\ d.dupacks = c
  BY <1>2 DEF PcbFields
<1> HIDE DEF d
<1>7. NewWnd(p, a) \in Nat /\ NewWl2(p, a) = p.snd_wl2 /\ p.snd_wnd <= NewWnd(p, a)
  BY WindowMoves
<1>8. Queues(p.unacked, p.unsent, p.lastack, p.snd_nxt, p.snd_lbb, NewWnd(p, a))
  BY <1>1, <1>7, QueuesWindow, Zenon
<1>9. PcbInv(d)
  <2>1. Queues(d.unacked, d.unsent, d.lastack, d.snd_nxt, d.snd_lbb, d.snd_wnd)
    BY <1>2, <1>6, <1>8
  <2>2. d.snd_wl2 \in Nat /\ d.lastack <= d.snd_wl2
    BY <1>2, <1>4, <1>6, <1>7
  <2>3. /\ p.snd_buf = TCP_SND_BUF - (p.snd_lbb - p.lastack)
        /\ p.snd_buf \in 0 .. TCP_SND_BUF /\ p.snd_lbb <= MaxBytes
        /\ p.keep_cnt_sent \in 0 .. KEEP_CNT
    BY DEF PcbInv
  <2> QED
    BY <1>2, <1>4, <1>5, <1>6, <2>1, <2>2, <2>3 DEF PcbInv
<1>10. ReachOf(d) = ReachOf(p) /\ ReachOf(p) \in Nat /\ a.ack <= d.lastack
  BY <1>2, <1>4, <1>6 DEF ReachOf, Reach
<1>11. CASE v = d
  <2>1. PcbInv(z) /\ ReachOf(z) = ReachOf(d) /\ SameData(d, z)
    BY <1>4, <1>9, <1>10, <1>11, OldAckKeeps
  <2> HIDE DEF z
  <2>2. ReachOf(p) <= ReachOf(z)
    BY <1>10, <2>1
  <2>3. z.snd_wnd = NewWnd(p, a) /\ z.snd_wl2 = NewWl2(p, a)
    BY <1>2, <1>6, <2>1 DEF SameData
  <2>4. Handled(p, a, z)
    BY <2>1, <2>2, <2>3 DEF Handled
  <2> QED
    BY <2>4 DEF z, v
<1>12. CASE v = [tcp_rexmit(d) EXCEPT !.TF_INFR = TRUE] /\ d.unacked # <<>>
  <2>1. Rexmitted(d, z)
    BY <1>4, <1>9, <1>10, <1>12, FastRexmitted
  <2> HIDE DEF z
  <2>2. ReachOf(p) <= ReachOf(d)
    BY <1>10
  <2>3. z.snd_wnd = NewWnd(p, a) /\ z.snd_wl2 = NewWl2(p, a)
    BY <1>2, <1>6, <2>1 DEF Rexmitted
  <2>4. Handled(p, a, z)
    BY <1>9, <2>1, <2>2, <2>3 DEF Handled
  <2> QED
    BY <2>4 DEF z, v
<1>13. v = d \/ (v = [tcp_rexmit(d) EXCEPT !.TF_INFR = TRUE] /\ d.unacked # <<>>)
  <2>1. tcp_rexmit_fast(d) = d
        \/ (tcp_rexmit_fast(d) = [tcp_rexmit(d) EXCEPT !.TF_INFR = TRUE] /\ d.unacked # <<>>)
    BY Zenon DEF tcp_rexmit_fast
  <2> QED
    BY <1>3, <2>1
<1> QED
  BY <1>11, <1>12, <1>13

(* What tcp_receive does with an acknowledgement, and tcp_output after it. *)
LEMMA AckOutput ==
  ASSUME NEW p, PcbInv(p), NEW a, Delivered(p, a), NEW cwnd \in Cwnd, NEW z,
         z = [UnsentAcked(AckReceived(p, a), a.ack) EXCEPT !.keep_cnt_sent = 0]
  PROVE  LET b == Burst(z, cwnd)
             q == tcp_output(z, b)
         IN  /\ PcbInv(q) /\ ReachOf(p) <= ReachOf(q)
             /\ q.snd_wl2 = NewWl2(p, a) /\ q.snd_wnd = NewWnd(p, a)
             /\ b \in Seq(SEG)
             /\ \A i \in 1 .. Len(b) : /\ End(b[i]) <= q.snd_nxt
                                       /\ End(b[i]) <= q.lastack + q.snd_wnd
<1> DEFINE b == Burst(z, cwnd)
           q == tcp_output(z, b)
<1>1. cwnd \in Nat /\ MSS <= cwnd
  BY SendSizes DEF Cwnd
<1>2. /\ p.lastack \in Nat /\ p.snd_nxt \in Nat /\ a.ack \in Nat /\ p.lastack <= p.snd_nxt
  BY PcbNumbers DEF Delivered
<1>3. Handled(p, a, z)
  <2>1. CASE a.ack <= p.lastack
    <3>1. AckReceived(p, a) = OldAck(p, a)
      BY <2>1 DEF AckReceived
    <3> QED
      BY <2>1, <3>1, OldAckHandled
  <2>2. CASE ~(a.ack <= p.lastack) /\ a.ack <= p.snd_nxt
    <3>1. AckReceived(p, a) = NewAck(p, a)
      BY <2>2 DEF AckReceived
    <3>2. p.lastack < a.ack
      BY <1>2, <2>2
    <3> QED
      BY <2>2, <3>1, <3>2, NewAckHandled
  <2>3. CASE ~(a.ack <= p.lastack) /\ ~(a.ack <= p.snd_nxt)
    <3>1. AckReceived(p, a) = WindowUpdate(p, a)
      BY <2>3 DEF AckReceived
    <3>2. p.snd_nxt < a.ack
      BY <1>2, <2>3
    <3> QED
      BY <3>1, <3>2, ProbeAckHandled
  <2> QED
    BY <2>1, <2>2, <2>3
<1>4. ReachOf(p) \in Nat
  BY <1>2 DEF ReachOf, Reach
<1>5. ASSUME NEW x, PcbInv(x), ReachOf(p) <= ReachOf(x), Sends(x, q, b),
             x.snd_wl2 = NewWl2(p, a), x.snd_wnd = NewWnd(p, a)
      PROVE  /\ PcbInv(q) /\ ReachOf(p) <= ReachOf(q)
             /\ q.snd_wl2 = NewWl2(p, a) /\ q.snd_wnd = NewWnd(p, a)
             /\ b \in Seq(SEG)
             /\ \A i \in 1 .. Len(b) : /\ End(b[i]) <= q.snd_nxt
                                       /\ End(b[i]) <= q.lastack + q.snd_wnd
  <2> HIDE DEF b, q
  <2>1. /\ PcbInv(q) /\ ReachOf(x) <= ReachOf(q)
        /\ q.snd_wl2 = x.snd_wl2 /\ q.snd_wnd = x.snd_wnd
        /\ b \in Seq(SEG)
        /\ \A i \in 1 .. Len(b) : End(b[i]) <= q.snd_nxt /\ End(b[i]) <= q.lastack + q.snd_wnd
    BY <1>5 DEF Sends
  <2>2. x.snd_nxt \in Nat /\ q.snd_nxt \in Nat
    BY <1>5, <2>1, PcbNumbers
  <2>3. ReachOf(x) \in Nat /\ ReachOf(q) \in Nat
    BY <2>2 DEF ReachOf, Reach
  <2>4. ReachOf(p) <= ReachOf(q)
    BY <1>4, <1>5, <2>1, <2>3
  <2> QED
    BY <1>5, <2>1, <2>4
<1>6. CASE PcbInv(z) /\ ReachOf(p) <= ReachOf(z)
  <2>1. Sends(z, q, b)
    BY <1>1, <1>6, OutputKeeps
  <2>2. z.snd_wl2 = NewWl2(p, a) /\ z.snd_wnd = NewWnd(p, a)
    BY <1>3 DEF Handled
  <2> QED
    BY <1>5, <1>6, <2>1, <2>2, Zenon
<1>7. ASSUME NEW x, PcbInv(x), ReachOf(p) <= ReachOf(x), Rexmitted(x, z)
      PROVE  /\ PcbInv(q) /\ ReachOf(p) <= ReachOf(q)
             /\ q.snd_wl2 = NewWl2(p, a) /\ q.snd_wnd = NewWnd(p, a)
             /\ b \in Seq(SEG)
             /\ \A i \in 1 .. Len(b) : /\ End(b[i]) <= q.snd_nxt
                                       /\ End(b[i]) <= q.lastack + q.snd_wnd
  <2>1. Sends(x, q, b)
    BY <1>1, <1>7, FastOutput
  <2>2. x.snd_wl2 = NewWl2(p, a) /\ x.snd_wnd = NewWnd(p, a)
    BY <1>3, <1>7 DEF Handled, Rexmitted
  <2> QED
    BY <1>5, <1>7, <2>1, <2>2, Zenon
<1> QED
  BY <1>3, <1>6, <1>7, Zenon DEF Handled

-----------------------------------------------------------------------------
(* The network.                                                            *)

UPSEG == [seq : Int, len : Nat]
ACK == [ack : Nat, wnd : Nat]

(* Every element of d is one of c.                                         *)
From(S, d, c) ==
  d \in Seq(S) /\ \A i \in 1 .. Len(d) : \E j \in 1 .. Len(c) : d[i] = c[j]

(* The tail of a channel.                                                  *)
LEMMA FromTail ==
  ASSUME NEW S, NEW c \in Seq(S), c # <<>>
  PROVE  From(S, Tail(c), c)
<1>1. Len(c) \in Nat /\ Tail(c) \in Seq(S) /\ Len(Tail(c)) = Len(c) - 1
      /\ \A i \in 1 .. Len(Tail(c)) : Tail(c)[i] = c[i + 1]
  BY HeadTailProperties
<1>2. \A i \in 1 .. Len(Tail(c)) : i + 1 \in 1 .. Len(c)
  BY <1>1
<1> QED
  BY <1>1, <1>2 DEF From

(* A channel without one of its elements.                                  *)
LEMMA FromWithout ==
  ASSUME NEW S, NEW c \in Seq(S), NEW i \in 1 .. Len(c)
  PROVE  From(S, Without(c, i), c)
<1> DEFINE x == SubSeq(c, 1, i - 1)
           y == SubSeq(c, i + 1, Len(c))
           d == x \o y
<1>1. Len(c) \in Nat /\ i \in Nat /\ i >= 1 /\ i <= Len(c) /\ \A j \in 1 .. Len(c) : c[j] \in S
  OBVIOUS
<1>2. x \in Seq(S) /\ Len(x) = i - 1 /\ \A j \in 1 .. i - 1 : x[j] = c[j]
  <2>1. 1 \in Int /\ i - 1 \in Int /\ \A j \in 1 .. i - 1 : c[j] \in S
    BY <1>1
  <2>2. /\ x \in Seq(S) /\ Len(x) = IF 1 <= i - 1 THEN (i - 1) - 1 + 1 ELSE 0
        /\ \A j \in 1 .. (i - 1) - 1 + 1 : x[j] = c[1 + j - 1]
    BY <2>1, SubSeqProperties
  <2>3. \A j \in 1 .. i - 1 : j \in 1 .. (i - 1) - 1 + 1 /\ 1 + j - 1 = j
    BY <1>1
  <2> QED
    BY <1>1, <2>2, <2>3
<1>3. y \in Seq(S) /\ Len(y) = Len(c) - i /\ \A j \in 1 .. Len(c) - i : y[j] = c[i + j]
  <2>1. i + 1 \in Int /\ Len(c) \in Int /\ \A j \in i + 1 .. Len(c) : c[j] \in S
    BY <1>1
  <2>2. /\ y \in Seq(S) /\ Len(y) = IF i + 1 <= Len(c) THEN Len(c) - (i + 1) + 1 ELSE 0
        /\ \A j \in 1 .. Len(c) - (i + 1) + 1 : y[j] = c[(i + 1) + j - 1]
    BY <2>1, SubSeqProperties
  <2>3. \A j \in 1 .. Len(c) - i : j \in 1 .. Len(c) - (i + 1) + 1 /\ (i + 1) + j - 1 = i + j
    BY <1>1
  <2> QED
    BY <1>1, <2>2, <2>3
<1> HIDE DEF x, y
<1>4. /\ d \in Seq(S) /\ Len(d) = Len(x) + Len(y)
      /\ \A j \in 1 .. Len(x) + Len(y) : d[j] = IF j <= Len(x) THEN x[j] ELSE y[j - Len(x)]
  BY <1>2, <1>3, ConcatProperties
<1> HIDE DEF d
<1>5. \A j \in 1 .. Len(d) : \E l \in 1 .. Len(c) : d[j] = c[l]
  <2> TAKE j \in 1 .. Len(d)
  <2>1. CASE j <= Len(x)
    <3>1. j \in 1 .. Len(x) + Len(y) /\ j \in 1 .. i - 1 /\ j \in 1 .. Len(c)
      BY <1>1, <1>2, <1>3, <1>4, <2>1
    <3>2. d[j] = c[j]
      BY <1>2, <1>4, <2>1, <3>1
    <3> QED
      BY <3>1, <3>2
  <2>2. CASE ~(j <= Len(x))
    <3>1. j \in 1 .. Len(x) + Len(y) /\ j - Len(x) \in 1 .. Len(c) - i
          /\ i + (j - Len(x)) \in 1 .. Len(c)
      BY <1>1, <1>2, <1>3, <1>4, <2>2
    <3>2. d[j] = c[i + (j - Len(x))]
      BY <1>3, <1>4, <2>2, <3>1
    <3> QED
      BY <3>1, <3>2
  <2> QED
    BY <2>1, <2>2
<1>6. Without(c, i) = d
  BY DEF Without, d, x, y
<1> QED
  BY <1>4, <1>5, <1>6 DEF From

(* One of the elements again at the end.                                   *)
LEMMA FromAppend ==
  ASSUME NEW S, NEW c \in Seq(S), NEW d, From(S, d, c), NEW i \in 1 .. Len(c)
  PROVE  From(S, Append(d, c[i]), c)
<1> DEFINE e == Append(d, c[i])
<1>1. d \in Seq(S) /\ Len(d) \in Nat /\ c[i] \in S
  BY DEF From
<1>2. /\ e \in Seq(S) /\ Len(e) = Len(d) + 1
      /\ \A j \in 1 .. Len(d) : e[j] = d[j]
      /\ e[Len(d) + 1] = c[i]
  BY <1>1, AppendProperties
<1> HIDE DEF e
<1>3. \A j \in 1 .. Len(e) : j \in 1 .. Len(d) \/ j = Len(d) + 1
  BY <1>1, <1>2
<1>4. \A j \in 1 .. Len(e) : \E l \in 1 .. Len(c) : e[j] = c[l]
  <2> TAKE j \in 1 .. Len(e)
  <2>1. CASE j \in 1 .. Len(d)
    <3>1. e[j] = d[j]
      BY <1>2, <2>1
    <3>2. \E l \in 1 .. Len(c) : d[j] = c[l]
      BY <2>1 DEF From
    <3> QED
      BY <3>1, <3>2
  <2>2. CASE j = Len(d) + 1
    BY <1>2, <2>2
  <2> QED
    BY <1>3, <2>1, <2>2
<1> QED
  BY <1>2, <1>4 DEF From, e

(* The network makes nothing up.                                           *)
LEMMA FromDisturbed ==
  ASSUME NEW S, NEW c \in Seq(S), NEW d \in Disturbed(c)
  PROVE  From(S, d, c)
<1>1. DOMAIN c = 1 .. Len(c) /\ From(S, c, c)
  BY DEF From
<1>2. PICK i \in 1 .. Len(c) :
        d = Without(c, i) \/ d = Append(c, c[i]) \/ d = Append(Without(c, i), c[i])
  BY <1>1, Zenon DEF Disturbed
<1>3. From(S, Without(c, i), c)
  BY FromWithout
<1>4. From(S, Append(c, c[i]), c) /\ From(S, Append(Without(c, i), c[i]), c)
  BY <1>1, <1>3, FromAppend
<1> QED
  BY <1>2, <1>3, <1>4

(* Segments that were under way stay good.                                 *)
LEMMA UpFrom ==
  ASSUME NEW u, NEW v, NEW r \in Int, NEW e \in Int, UpInv(u, r, e), From(UPSEG, v, u),
         NEW r1 \in Int, NEW e1 \in Int, r <= r1, e <= e1
  PROVE  UpInv(v, r1, e1)
<1>1. v \in Seq(UPSEG)
  BY DEF From
<1>2. ASSUME NEW i \in 1 .. Len(v)
      PROVE  End(v[i]) <= r1 /\ Within(v[i], e1)
  <2>1. PICK j \in 1 .. Len(u) : v[i] = u[j]
    BY DEF From
  <2>2. End(u[j]) <= r /\ Within(u[j], e)
    BY DEF UpInv
  <2>3. v[i] \in UPSEG
    BY <1>1
  <2>4. End(v[i]) \in Int
    BY <2>3 DEF End, UPSEG
  <2> QED
    BY <2>1, <2>2, <2>4 DEF Within
<1> QED
  BY <1>1, <1>2 DEF UpInv, UPSEG

(* More segments on their way.                                             *)
LEMMA UpMore ==
  ASSUME NEW u, NEW v, NEW r \in Int, NEW e \in Int, UpInv(u, r, e), UpInv(v, r, e)
  PROVE  UpInv(u \o v, r, e)
<1> DEFINE w == u \o v
<1>1. u \in Seq(UPSEG) /\ v \in Seq(UPSEG) /\ Len(u) \in Nat /\ Len(v) \in Nat
  BY DEF UpInv, UPSEG
<1>2. /\ w \in Seq(UPSEG) /\ Len(w) = Len(u) + Len(v)
      /\ \A j \in 1 .. Len(u) + Len(v) : w[j] = IF j <= Len(u) THEN u[j] ELSE v[j - Len(u)]
  BY <1>1, ConcatProperties
<1> HIDE DEF w
<1>3. ASSUME NEW j \in 1 .. Len(w)
      PROVE  End(w[j]) <= r /\ Within(w[j], e)
  <2>1. CASE j <= Len(u)
    <3>1. j \in 1 .. Len(u) /\ w[j] = u[j]
      BY <1>1, <1>2, <2>1
    <3> QED
      BY <3>1 DEF UpInv
  <2>2. CASE ~(j <= Len(u))
    <3>1. j - Len(u) \in 1 .. Len(v) /\ w[j] = v[j - Len(u)]
      BY <1>1, <1>2, <2>2
    <3> QED
      BY <3>1 DEF UpInv
  <2> QED
    BY <2>1, <2>2
<1> QED
  BY <1>2, <1>3 DEF UpInv, UPSEG, w

(* One segment on its way.                                                 *)
LEMMA UpOne ==
  ASSUME NEW s \in UPSEG, NEW r \in Int, NEW e \in Int,
         End(s) <= r, Within(s, e)
  PROVE  UpInv(<<s>>, r, e) /\ UpInv(<<>>, r, e)
<1>1. <<s>> \in Seq(UPSEG) /\ Len(<<s>>) = 1 /\ <<s>>[1] = s /\ <<>> \in Seq(UPSEG) /\ Len(<<>>) = 0
  OBVIOUS
<1>2. \A i \in 1 .. 1 : i = 1
  OBVIOUS
<1>3. UpInv(<<s>>, r, e)
  BY <1>1, <1>2 DEF UpInv, UPSEG
<1>4. UpInv(<<>>, r, e)
  BY <1>1 DEF UpInv, UPSEG
<1> QED
  BY <1>3, <1>4

(* Acknowledgements that were under way stay good.                         *)
LEMMA DownFrom ==
  ASSUME NEW d, NEW c, NEW r \in Int, NEW e \in Int, DownInv(c, r, e), From(ACK, d, c),
         NEW r1 \in Int, NEW e1 \in Int, r <= r1, e <= e1
  PROVE  DownInv(d, r1, e1)
<1>1. d \in Seq(ACK) /\ \A i \in 1 .. Len(d) : d[i] \in ACK
  BY DEF From
<1>2. \A i \in 1 .. Len(d) : d[i].ack \in Nat /\ d[i].wnd \in Nat
  BY <1>1 DEF ACK
<1>3. ASSUME NEW i \in 1 .. Len(d)
      PROVE  d[i].ack <= r1 /\ d[i].ack + d[i].wnd <= e1
  <2>1. PICK j \in 1 .. Len(c) : d[i] = c[j]
    BY DEF From
  <2>2. c[j].ack <= r /\ c[j].ack + c[j].wnd <= e
    BY DEF DownInv
  <2> QED
    BY <1>2, <2>1, <2>2
<1>4. ASSUME NEW i \in 1 .. Len(d), NEW j \in 1 .. Len(d), d[i].ack < d[j].ack
      PROVE  d[i].ack + d[i].wnd <= d[j].ack + d[j].wnd
  <2>1. PICK k \in 1 .. Len(c) : d[i] = c[k]
    BY DEF From
  <2>2. PICK l \in 1 .. Len(c) : d[j] = c[l]
    BY DEF From
  <2> QED
    BY <1>4, <2>1, <2>2 DEF DownInv
<1> QED
  BY <1>1, <1>3, <1>4 DEF DownInv, ACK

(* The window against the acknowledgements that are left.                  *)
LEMMA WindowFrom ==
  ASSUME NEW d, NEW c, NEW r \in Int, NEW e \in Int, NEW wl \in Nat, NEW w \in Nat,
         WindowInv(c, r, e, wl, w), From(ACK, d, c),
         NEW r1 \in Int, NEW e1 \in Int, r <= r1, e <= e1
  PROVE  WindowInv(d, r1, e1, wl, w)
<1>1. ASSUME NEW i \in 1 .. Len(d), wl < d[i].ack
      PROVE  wl + w <= d[i].ack + d[i].wnd
  <2>1. PICK j \in 1 .. Len(c) : d[i] = c[j]
    BY DEF From
  <2> QED
    BY <1>1, <2>1 DEF WindowInv
<1>2. wl <= r1 /\ wl + w <= e1
  BY DEF WindowInv
<1> QED
  BY <1>1, <1>2 DEF WindowInv

(* A new acknowledgement has the furthest window.                          *)
LEMMA DownNew ==
  ASSUME NEW d, NEW r \in Nat, NEW e \in Int, DownInv(d, r, e),
         NEW wl \in Nat, NEW w \in Nat, WindowInv(d, r, e, wl, w),
         NEW a \in ACK, a.ack = r, a.ack + a.wnd = e
  PROVE  DownInv(Append(d, a), r, e) /\ WindowInv(Append(d, a), r, e, wl, w)
<1> DEFINE x == Append(d, a)
<1>1. d \in Seq(ACK) /\ Len(d) \in Nat /\ \A i \in 1 .. Len(d) : d[i] \in ACK
  <2>1. d \in Seq(ACK)
    BY DEF DownInv, ACK
  <2> QED
    BY <2>1
<1>2. /\ x \in Seq(ACK) /\ Len(x) = Len(d) + 1
      /\ \A j \in 1 .. Len(d) : x[j] = d[j]
      /\ x[Len(d) + 1] = a
  BY <1>1, AppendProperties
<1> HIDE DEF x
<1>3. \A j \in 1 .. Len(x) : j \in 1 .. Len(d) \/ j = Len(d) + 1
  BY <1>1, <1>2
<1>4. a.ack \in Nat /\ a.wnd \in Nat /\ \A i \in 1 .. Len(d) : d[i].ack \in Nat /\ d[i].wnd \in Nat
  BY <1>1 DEF ACK
<1>5. ASSUME NEW i \in 1 .. Len(x) PROVE x[i].ack <= r /\ x[i].ack + x[i].wnd <= e
  <2>1. CASE i \in 1 .. Len(d)
    BY <1>2, <2>1 DEF DownInv
  <2>2. CASE i = Len(d) + 1
    BY <1>2, <1>4, <2>2
  <2> QED
    BY <1>3, <2>1, <2>2
<1>6. ASSUME NEW i \in 1 .. Len(x), NEW j \in 1 .. Len(x), x[i].ack < x[j].ack
      PROVE  x[i].ack + x[i].wnd <= x[j].ack + x[j].wnd
  <2>1. CASE j = Len(d) + 1
    BY <1>2, <1>5, <2>1
  <2>2. CASE j \in 1 .. Len(d) /\ i \in 1 .. Len(d)
    BY <1>2, <1>6, <2>2 DEF DownInv
  <2>3. CASE j \in 1 .. Len(d) /\ i = Len(d) + 1
    <3>1. x[j].ack <= r /\ x[i].ack = r /\ x[j].ack \in Nat
      BY <1>2, <1>4, <1>5, <2>3
    <3> QED
      BY <1>6, <3>1
  <2> QED
    BY <1>3, <2>1, <2>2, <2>3
<1>7. ASSUME NEW i \in 1 .. Len(x), wl < x[i].ack PROVE wl + w <= x[i].ack + x[i].wnd
  <2>1. CASE i \in 1 .. Len(d)
    BY <1>2, <1>7, <2>1 DEF WindowInv
  <2>2. CASE i = Len(d) + 1
    BY <1>2, <2>2 DEF WindowInv
  <2> QED
    BY <1>3, <2>1, <2>2
<1>8. wl <= r /\ wl + w <= e
  BY DEF WindowInv
<1> QED
  BY <1>2, <1>5, <1>6, <1>7, <1>8 DEF DownInv, WindowInv, ACK, x

-----------------------------------------------------------------------------
(* The invariant of the whole.                                             *)

(* What a segment of a burst and a keepalive probe are on their way.       *)
LEMMA UpSent ==
  ASSUME NEW q, PcbInv(q), NEW e \in Int, q.snd_wl2 + q.snd_wnd <= e,
         NEW u, NEW r \in Int, UpInv(u, r, e), r <= ReachOf(q),
         NEW b \in Seq(SEG), NEW keep \in BOOLEAN,
         \A i \in 1 .. Len(b) : End(b[i]) <= q.snd_nxt /\ End(b[i]) <= q.lastack + q.snd_wnd
  PROVE  UpInv((u \o b) \o tcp_keepalive(q, keep), ReachOf(q), e)
<1> DEFINE R == ReachOf(q)
           k == tcp_keepalive(q, keep)
<1>1. q.lastack \in Nat /\ q.snd_nxt \in Nat /\ q.snd_wnd \in Nat /\ q.snd_wl2 \in Nat
      /\ q.lastack <= q.snd_wl2
  BY PcbNumbers
<1>2. R \in Nat /\ q.snd_nxt <= R
  BY <1>1 DEF ReachOf, Reach
<1> HIDE DEF R
<1>3. u \in Seq(UPSEG)
  BY DEF UpInv, UPSEG
<1>4. UpInv(u, R, e)
  <2>1. From(UPSEG, u, u)
    BY <1>3 DEF From
  <2>2. R \in Int /\ e \in Int /\ r <= R /\ e <= e
    BY <1>2 DEF R
  <2> QED
    BY <2>1, <2>2, UpFrom
<1>5. UpInv(b, R, e)
  <2>1. b \in Seq(UPSEG)
    <3>1. SEG \subseteq UPSEG
      BY SendSizes DEF SEG, UPSEG
    <3> QED
      BY <3>1
  <2>2. \A i \in 1 .. Len(b) : End(b[i]) <= R /\ Within(b[i], e)
    <3> TAKE i \in 1 .. Len(b)
    <3>1. End(b[i]) \in Nat
      BY Ends
    <3>2. End(b[i]) <= q.snd_nxt /\ End(b[i]) <= q.lastack + q.snd_wnd
      OBVIOUS
    <3> QED
      BY <1>1, <1>2, <3>1, <3>2 DEF Within
  <2> QED
    BY <2>1, <2>2 DEF UpInv, UPSEG
<1>6. UpInv(k, R, e)
  <2> DEFINE s == [seq |-> q.snd_nxt - 1, len |-> 0]
  <2>1. s \in UPSEG /\ End(s) <= R /\ Within(s, e)
    BY <1>1, <1>2 DEF UPSEG, End, Within
  <2>2. k = <<s>> \/ k = <<>>
    BY Zenon DEF tcp_keepalive
  <2>3. R \in Int
    BY <1>2
  <2> HIDE DEF s, k
  <2> QED
    BY <2>1, <2>2, <2>3, UpOne
<1>7. R \in Int
  BY <1>2
<1> HIDE DEF k
<1>8. UpInv(u \o b, R, e)
  BY <1>4, <1>5, <1>7, UpMore
<1>9. UpInv((u \o b) \o k, R, e)
  BY <1>7, <1>8, <1>5, <1>6, UpMore
<1> QED
  BY <1>9 DEF R, k

(* The byte of a probe: the first outstanding one, at the edge at most.    *)
LEMMA UpProbe ==
  ASSUME NEW q, PcbInv(q), NEW e \in Int, q.snd_wl2 + q.snd_wnd <= e
  PROVE  UpInv(tcp_zero_window_probe(q), ReachOf(q), e)
<1> DEFINE ua == q.unacked
           us == q.unsent
           t == ua \o us
           s == [seq |-> Head(t).seq, len |-> 1]
           k == tcp_zero_window_probe(q)
<1>1. Queues(ua, us, q.lastack, q.snd_nxt, q.snd_lbb, q.snd_wnd)
  BY DEF PcbInv
<1>2. ua \in Seq(SEG) /\ us \in Seq(SEG) /\ q.snd_nxt \in Nat /\ q.snd_lbb \in Nat
      /\ Len(ua) \in Nat /\ Len(us) \in Nat
  BY <1>1 DEF Queues
<1>3. PICK a \in Nat, m \in Nat : Line(ua, a, m) /\ Line(us, m, q.snd_lbb)
                                   /\ m <= q.snd_nxt /\ a <= q.lastack
  BY <1>1 DEF Queues
<1>4. ReachOf(q) = Reach(ua, us, q.snd_nxt) /\ ReachOf(q) \in Int /\ q.snd_nxt <= ReachOf(q)
  BY <1>2 DEF ReachOf, Reach
<1>5. a <= e
  <2>1. q.lastack \in Nat /\ q.snd_wnd \in Nat /\ q.snd_wl2 \in Nat /\ q.lastack <= q.snd_wl2
    BY PcbNumbers
  <2> QED
    BY <1>3, <2>1
<1>6. CASE t = <<>>
  <2>1. k = <<>>
    BY <1>6 DEF tcp_zero_window_probe
  <2>2. UpInv(<<>>, ReachOf(q), e)
    BY DEF UpInv
  <2> QED
    BY <2>1, <2>2
<1>7. CASE t # <<>>
  <2>1. k = <<s>>
    BY <1>7 DEF tcp_zero_window_probe
  <2>2. Head(t) \in SEG /\ Head(t).seq + 1 <= ReachOf(q) /\ Head(t).seq <= e
    <3>1. CASE ua # <<>>
      <4>1. 1 \in 1 .. Len(ua) /\ ua[1] \in SEG
        BY <1>2, <3>1
      <4>2. t[1] = ua[1] /\ Head(t) = t[1]
        <5>1. /\ t \in Seq(SEG) /\ \A i \in 1 .. Len(ua) : t[i] = ua[i]
          BY <1>2, Joined, Zenon
        <5> HIDE DEF t
        <5> QED
          BY <1>7, <4>1, <5>1
      <4>3. End(ua[1]) <= m
        BY <1>2, <1>3, <4>1, LineOrder
      <4>4. ua[1].seq \in Nat /\ End(ua[1]) \in Nat /\ ua[1].seq < End(ua[1])
        BY <4>1, Ends
      <4>6. ua[1].seq <= e
        BY <1>3, <1>5, <3>1 DEF Line
      <4> HIDE DEF t, ua
      <4>5. ua[1].seq + 1 <= ReachOf(q)
        BY <1>2, <1>3, <1>4, <4>3, <4>4
      <4> QED
        BY <4>1, <4>2, <4>5, <4>6
    <3>2. CASE ua = <<>>
      <4>1. t = us
        BY <1>2, <3>2, ConcatEmptySeq
      <4>2. us # <<>> /\ 1 \in 1 .. Len(us)
        BY <1>2, <1>7, <4>1
      <4>3. Head(t) = us[1] /\ us[1] \in SEG
        BY <1>2, <4>1, <4>2
      <4>4. m = a /\ us[1].seq = m /\ us[1].seq \in Nat
        BY <1>3, <3>2, <4>2, <4>3, Ends DEF Line
      <4>5. us[1].seq = q.snd_nxt => ReachOf(q) = q.snd_nxt + 1
        BY <1>4, <3>2, <4>2 DEF Reach
      <4> HIDE DEF t, us
      <4>6. us[1].seq + 1 <= ReachOf(q)
        BY <1>2, <1>3, <1>4, <4>4, <4>5
      <4> QED
        BY <1>5, <4>3, <4>4, <4>6
    <3> QED
      BY <3>1, <3>2
  <2> HIDE DEF t
  <2>3. s \in UPSEG /\ End(s) <= ReachOf(q) /\ Within(s, e)
    <3>1. Head(t).seq \in Nat
      BY <2>2, Ends
    <3> QED
      BY <2>2, <3>1 DEF UPSEG, End, Within
  <2> HIDE DEF s
  <2> QED
    BY <1>4, <2>1, <2>3, UpOne
<1> QED
  BY <1>6, <1>7

(* The first state.                                                        *)
LEMMA SendInvInit == SendInit => SendInv
<1> SUFFICES ASSUME SendInit PROVE SendInv
  OBVIOUS
<1>1. /\ DOMAIN pcb = PcbFields /\ pcb.unsent = <<>> /\ pcb.unacked = <<>> /\ pcb.snd_lbb = 0
      /\ pcb.snd_buf = TCP_SND_BUF /\ pcb.snd_nxt = 0 /\ pcb.lastack = 0
      /\ pcb.snd_wnd = PeerBuf /\ pcb.snd_wl2 = 0 /\ pcb.dupacks = 0 /\ pcb.nrtx = 0
      /\ pcb.keep_cnt_sent = 0
  BY DEF SendInit, PcbFields
<1>2. up = <<>> /\ down = <<>> /\ rcvd = 0 /\ read = 0
  BY DEF SendInit
<1>3. <<>> \in Seq(SEG) /\ Len(<<>>) = 0 /\ Line(<<>>, 0, 0)
  BY DEF Line
<1>4. Queues(<<>>, <<>>, 0, 0, 0, PeerBuf)
  <2>1. \E a, m \in Nat : Line(<<>>, a, m) /\ Line(<<>>, m, 0) /\ a <= 0 /\ m <= 0
    BY <1>3
  <2> QED
    BY <1>3, <2>1, SendSizes DEF Queues
<1>5. PcbInv(pcb)
  <2>1. Queues(pcb.unacked, pcb.unsent, pcb.lastack, pcb.snd_nxt, pcb.snd_lbb, pcb.snd_wnd)
    BY <1>1, <1>4
  <2>2. /\ pcb.snd_wl2 \in Nat /\ pcb.lastack <= pcb.snd_wl2
        /\ pcb.snd_buf = TCP_SND_BUF - (pcb.snd_lbb - pcb.lastack)
        /\ pcb.snd_buf \in 0 .. TCP_SND_BUF /\ pcb.snd_lbb <= MaxBytes
        /\ pcb.nrtx \in 0 .. 255 /\ pcb.keep_cnt_sent \in 0 .. KEEP_CNT
        /\ pcb.dupacks \in 0 .. DupThresh + 1
    BY <1>1, SendSizes
  <2> QED
    BY <1>1, <2>1, <2>2 DEF PcbInv
<1>6. Reach(pcb.unacked, pcb.unsent, pcb.snd_nxt) = 0
  BY <1>1 DEF Reach
<1>7. UpInv(<<>>, 0, PeerBuf) /\ DownInv(<<>>, 0, PeerBuf)
  BY DEF UpInv, DownInv
<1>8. WindowInv(<<>>, 0, PeerBuf, 0, PeerBuf)
  BY SendSizes DEF WindowInv
<1>9. 0 + PeerBuf = PeerBuf
  BY SendSizes
<1> QED
  BY <1>1, <1>2, <1>5, <1>6, <1>7, <1>8, <1>9, SendSizes DEF SendInv

(* What the invariant says of the sender.                                  *)
LEMMA SenderFacts ==
  ASSUME SendInv
  PROVE  /\ PcbInv(pcb) /\ DOMAIN pcb = PcbFields
         /\ rcvd \in Nat /\ read \in Nat /\ read <= rcvd /\ rcvd <= read + PeerBuf
         /\ read + PeerBuf \in Int /\ ReachOf(pcb) \in Int /\ rcvd <= ReachOf(pcb)
         /\ UpInv(up, ReachOf(pcb), read + PeerBuf) /\ DownInv(down, rcvd, read + PeerBuf)
         /\ WindowInv(down, rcvd, read + PeerBuf, pcb.snd_wl2, pcb.snd_wnd)
         /\ pcb.snd_wl2 \in Nat /\ pcb.snd_wnd \in Nat
         /\ pcb.snd_wl2 + pcb.snd_wnd <= read + PeerBuf
         /\ up \in Seq(UPSEG) /\ down \in Seq(ACK)
<1>1. PcbInv(pcb) /\ rcvd \in Nat /\ read \in Nat /\ read <= rcvd /\ rcvd <= read + PeerBuf
      /\ UpInv(up, ReachOf(pcb), read + PeerBuf) /\ DownInv(down, rcvd, read + PeerBuf)
      /\ WindowInv(down, rcvd, read + PeerBuf, pcb.snd_wl2, pcb.snd_wnd)
      /\ rcvd <= ReachOf(pcb)
  BY DEF SendInv, ReachOf
<1>2. DOMAIN pcb = PcbFields /\ pcb.snd_wl2 \in Nat /\ pcb.snd_wnd \in Nat /\ pcb.snd_nxt \in Nat
  BY <1>1, PcbNumbers DEF PcbInv
<1>3. ReachOf(pcb) \in Int /\ read + PeerBuf \in Int
  BY <1>1, <1>2, SendSizes DEF ReachOf, Reach
<1>4. pcb.snd_wl2 + pcb.snd_wnd <= read + PeerBuf
  BY <1>1 DEF WindowInv
<1>5. up \in Seq(UPSEG)
  BY <1>1 DEF UpInv, UPSEG
<1>6. down \in Seq(ACK)
  BY <1>1 DEF DownInv, ACK
<1> QED
  BY <1>1, <1>2, <1>3, <1>4, <1>5, <1>6

(* A step of the sender.                                                   *)
LEMMA SenderStep ==
  ASSUME SendInv, PcbInv(pcb'), ReachOf(pcb) <= ReachOf(pcb'), rcvd' = rcvd, read' = read,
         UpInv(up', ReachOf(pcb'), read + PeerBuf), DownInv(down', rcvd, read + PeerBuf),
         WindowInv(down', rcvd, read + PeerBuf, pcb'.snd_wl2, pcb'.snd_wnd)
  PROVE  SendInv'
<1> DEFINE q == pcb'
<1>1. rcvd \in Nat /\ read \in Nat /\ read <= rcvd /\ rcvd <= read + PeerBuf
      /\ ReachOf(pcb) \in Int /\ rcvd <= ReachOf(pcb)
  BY SenderFacts
<1>2. PcbInv(q) /\ UpInv(up', ReachOf(q), read + PeerBuf) /\ ReachOf(pcb) <= ReachOf(q)
  OBVIOUS
<1>3. ReachOf(q) \in Int
  <2> HIDE DEF q
  <2>1. q.snd_nxt \in Nat
    BY <1>2, PcbNumbers
  <2> QED
    BY <2>1 DEF ReachOf, Reach
<1>4. rcvd <= ReachOf(q)
  BY <1>1, <1>2, <1>3
<1> QED
  BY <1>1, <1>2, <1>4 DEF SendInv, ReachOf

(* tcp_write.                                                              *)
LEMMA SendInvWrite ==
  ASSUME SendInv, NEW n \in 1 .. TCP_SND_BUF, tcp_write(n)
  PROVE  SendInv'
<1> DEFINE e == read + PeerBuf
<1>1. /\ PcbInv(pcb) /\ DOMAIN pcb = PcbFields /\ e \in Int /\ ReachOf(pcb) \in Int
      /\ UpInv(up, ReachOf(pcb), e) /\ DownInv(down, rcvd, e)
      /\ WindowInv(down, rcvd, e, pcb.snd_wl2, pcb.snd_wnd)
      /\ pcb.snd_wl2 + pcb.snd_wnd <= e
  BY SenderFacts
<1>2. down' = down /\ rcvd' = rcvd /\ read' = read
  BY DEF tcp_write
<1>3. CASE n <= pcb.snd_buf /\ \E p \in {Queued(pcb, n)}, cwnd \in Cwnd : Output(p, cwnd, FALSE)
  <2> DEFINE p == Queued(pcb, n)
  <2>1. PICK cwnd \in Cwnd : Output(p, cwnd, FALSE)
    BY <1>3, Zenon
  <2>2. n \in Nat \ {0} /\ cwnd \in Nat /\ pcb.snd_lbb + n <= MaxBytes
    BY SendSizes DEF Cwnd, tcp_write
  <2>3. PcbInv(p) /\ ReachOf(pcb) <= ReachOf(p)
        /\ p.snd_wl2 = pcb.snd_wl2 /\ p.snd_wnd = pcb.snd_wnd
    BY <1>1, <1>3, <2>2, WrittenInv
  <2> HIDE DEF p
  <2> DEFINE b == Burst(p, cwnd)
             q == tcp_output(p, b)
  <2>4. pcb' = Kept(q, FALSE) /\ up' = (up \o b) \o tcp_keepalive(q, FALSE)
    BY <2>1, Zenon DEF Output
  <2>5. Sends(p, q, b)
    BY <2>2, <2>3, OutputKeeps
  <2> HIDE DEF b, q
  <2>6. pcb' = q
    BY <2>4 DEF Kept
  <2>7. /\ PcbInv(q) /\ ReachOf(p) <= ReachOf(q) /\ b \in Seq(SEG)
        /\ q.snd_wl2 = pcb.snd_wl2 /\ q.snd_wnd = pcb.snd_wnd
        /\ \A i \in 1 .. Len(b) : End(b[i]) <= q.snd_nxt /\ End(b[i]) <= q.lastack + q.snd_wnd
    BY <2>3, <2>5 DEF Sends
  <2>8. ReachOf(pcb) <= ReachOf(q)
    <3>1. p.snd_nxt \in Nat /\ q.snd_nxt \in Nat
      BY <2>3, <2>7, PcbNumbers
    <3>2. ReachOf(p) \in Int /\ ReachOf(q) \in Int
      BY <3>1 DEF ReachOf, Reach
    <3> QED
      BY <1>1, <2>3, <2>7, <3>2
  <2>9. UpInv((up \o b) \o tcp_keepalive(q, FALSE), ReachOf(q), e)
    <3>1. q.snd_wl2 + q.snd_wnd <= e /\ FALSE \in BOOLEAN
      BY <1>1, <2>7
    <3> HIDE DEF e
    <3> QED
      BY <1>1, <2>7, <2>8, <3>1, UpSent
  <2> QED
    BY <1>1, <1>2, <2>4, <2>6, <2>7, <2>8, <2>9, SenderStep
<1>4. CASE pcb' = [pcb EXCEPT !.TF_NAGLEMEMERR = TRUE] /\ UNCHANGED up
  <2> DEFINE q == [pcb EXCEPT !.TF_NAGLEMEMERR = TRUE]
  <2>1. SameData(pcb, q) /\ q.nrtx = pcb.nrtx /\ q.keep_cnt_sent = pcb.keep_cnt_sent
        /\ q.dupacks = pcb.dupacks
    BY <1>1 DEF SameData, PcbFields
  <2>2. pcb' = q /\ up' = up
    BY <1>4
  <2> HIDE DEF q
  <2>3. PcbInv(q) /\ ReachOf(q) = ReachOf(pcb)
    BY <1>1, <2>1, PcbNumbers, SameDataInv
  <2>4. q.snd_wl2 = pcb.snd_wl2 /\ q.snd_wnd = pcb.snd_wnd
    BY <2>1 DEF SameData
  <2>5. ReachOf(pcb) <= ReachOf(q)
    BY <1>1, <2>3
  <2> QED
    BY <1>1, <1>2, <2>2, <2>3, <2>4, <2>5, SenderStep
<1> QED
  BY <1>3, <1>4, Zenon DEF tcp_write

(* tcp_receive.                                                            *)
LEMMA SendInvReceive ==
  ASSUME SendInv, tcp_receive
  PROVE  SendInv'
<1> DEFINE e == read + PeerBuf
           a == Head(down)
<1>1. /\ PcbInv(pcb) /\ DOMAIN pcb = PcbFields /\ e \in Int /\ ReachOf(pcb) \in Int
      /\ UpInv(up, ReachOf(pcb), e) /\ DownInv(down, rcvd, e)
      /\ WindowInv(down, rcvd, e, pcb.snd_wl2, pcb.snd_wnd)
      /\ pcb.snd_wl2 + pcb.snd_wnd <= e /\ rcvd <= ReachOf(pcb) /\ rcvd \in Nat
      /\ down \in Seq(ACK) /\ pcb.snd_wl2 \in Nat /\ pcb.snd_wnd \in Nat
  BY SenderFacts
<1> HIDE DEF e
<1>2. down # <<>> /\ down' = Tail(down) /\ rcvd' = rcvd /\ read' = read
  BY DEF tcp_receive
<1>3. From(ACK, down', down)
  BY <1>1, <1>2, FromTail
<1>4. rcvd \in Int /\ rcvd <= rcvd /\ e <= e
  BY <1>1
<1>5. DownInv(down', rcvd, e)
  BY <1>1, <1>3, <1>4, DownFrom
<1>6. WindowInv(down', rcvd, e, pcb.snd_wl2, pcb.snd_wnd)
  BY <1>1, <1>3, <1>4, WindowFrom
<1>7. 1 \in 1 .. Len(down) /\ a = down[1] /\ a \in ACK
  BY <1>1, <1>2
<1>8. a.ack \in Nat /\ a.wnd \in Nat /\ a.ack <= rcvd /\ a.ack + a.wnd <= e
      /\ (pcb.snd_wl2 < a.ack => pcb.snd_wl2 + pcb.snd_wnd <= a.ack + a.wnd)
  <2>1. a.ack \in Nat /\ a.wnd \in Nat
    BY <1>7 DEF ACK
  <2>2. a.ack <= rcvd /\ a.ack + a.wnd <= e
    BY <1>1, <1>7 DEF DownInv
  <2>3. pcb.snd_wl2 < a.ack => pcb.snd_wl2 + pcb.snd_wnd <= a.ack + a.wnd
    BY <1>1, <1>7 DEF WindowInv
  <2> QED
    BY <2>1, <2>2, <2>3
<1>9. \A i \in 1 .. Len(down') : a.ack < down'[i].ack => a.ack + a.wnd <= down'[i].ack + down'[i].wnd
  <2> TAKE i \in 1 .. Len(down')
  <2>1. PICK j \in 1 .. Len(down) : down'[i] = down[j]
    BY <1>3 DEF From
  <2> QED
    BY <1>1, <1>7, <2>1 DEF DownInv
<1> HIDE DEF a
<1>10. WindowInv(down', rcvd, e, NewWl2(pcb, a), NewWnd(pcb, a))
  <2>1. CASE NewWindow(pcb, a)
    <3>1. NewWl2(pcb, a) = a.ack /\ NewWnd(pcb, a) = a.wnd
      BY <2>1 DEF NewWl2, NewWnd
    <3> QED
      BY <1>8, <1>9, <3>1 DEF WindowInv
  <2>2. CASE ~NewWindow(pcb, a)
    <3>1. NewWl2(pcb, a) = pcb.snd_wl2 /\ NewWnd(pcb, a) = pcb.snd_wnd
      BY <2>2 DEF NewWl2, NewWnd
    <3> QED
      BY <1>6, <3>1
  <2> QED
    BY <2>1, <2>2
<1>11. Delivered(pcb, a)
  <2>1. a.ack <= ReachOf(pcb)
    BY <1>1, <1>8
  <2> QED
    BY <1>8, <2>1 DEF Delivered
<1>12. CASE \E p \in {UnsentAcked(AckReceived(pcb, a), a.ack)}, cwnd \in Cwnd :
              Output([p EXCEPT !.keep_cnt_sent = 0], cwnd, FALSE)
  <2> DEFINE z == [UnsentAcked(AckReceived(pcb, a), a.ack) EXCEPT !.keep_cnt_sent = 0]
  <2>1. PICK cwnd \in Cwnd : Output(z, cwnd, FALSE)
    BY <1>12, Zenon
  <2>2. z = [UnsentAcked(AckReceived(pcb, a), a.ack) EXCEPT !.keep_cnt_sent = 0]
    OBVIOUS
  <2> HIDE DEF z
  <2> DEFINE b == Burst(z, cwnd)
             q == tcp_output(z, b)
  <2>3. pcb' = Kept(q, FALSE) /\ up' = (up \o b) \o tcp_keepalive(q, FALSE)
    BY <2>1, Zenon DEF Output
  <2>4. /\ PcbInv(q) /\ ReachOf(pcb) <= ReachOf(q)
        /\ q.snd_wl2 = NewWl2(pcb, a) /\ q.snd_wnd = NewWnd(pcb, a)
        /\ b \in Seq(SEG)
        /\ \A i \in 1 .. Len(b) : /\ End(b[i]) <= q.snd_nxt
                                  /\ End(b[i]) <= q.lastack + q.snd_wnd
    BY <1>1, <1>11, <2>2, AckOutput, Zenon
  <2> HIDE DEF b, q
  <2>5. pcb' = q
    BY <2>3 DEF Kept
  <2>6. UpInv((up \o b) \o tcp_keepalive(q, FALSE), ReachOf(q), e)
    <3>1. q.snd_wl2 + q.snd_wnd <= e /\ FALSE \in BOOLEAN
      BY <1>10, <2>4 DEF WindowInv
    <3> QED
      BY <1>1, <2>4, <3>1, UpSent
  <2>7. WindowInv(down', rcvd, e, q.snd_wl2, q.snd_wnd)
    BY <1>10, <2>4
  <2> QED
    BY <1>2, <1>5, <2>3, <2>4, <2>5, <2>6, <2>7, SenderStep DEF e
<1>13. CASE UNCHANGED <<pcb, up>>
  <2>1. pcb' = pcb /\ up' = up
    BY <1>13
  <2>2. ReachOf(pcb) <= ReachOf(pcb)
    BY <1>1
  <2> QED
    BY <1>1, <1>2, <1>5, <1>6, <2>1, <2>2, SenderStep DEF e
<1> QED
  BY <1>12, <1>13, Zenon DEF tcp_receive, a

(* tcp_slowtmr.                                                            *)
LEMMA SendInvTimer ==
  ASSUME SendInv, NEW rto \in BOOLEAN, NEW keep \in BOOLEAN, tcp_slowtmr_data(rto, keep)
  PROVE  SendInv'
<1> DEFINE e == read + PeerBuf
<1>1. /\ PcbInv(pcb) /\ DOMAIN pcb = PcbFields /\ e \in Int /\ ReachOf(pcb) \in Int
      /\ UpInv(up, ReachOf(pcb), e) /\ DownInv(down, rcvd, e)
      /\ WindowInv(down, rcvd, e, pcb.snd_wl2, pcb.snd_wnd)
      /\ pcb.snd_wl2 + pcb.snd_wnd <= e
  BY SenderFacts
<1> HIDE DEF e
<1>2. down' = down /\ rcvd' = rcvd /\ read' = read
  BY DEF tcp_slowtmr_data
<1>3. CASE pcb' = [pcb EXCEPT !.alive = FALSE] /\ UNCHANGED up
  <2> DEFINE q == [pcb EXCEPT !.alive = FALSE]
  <2>1. SameData(pcb, q) /\ q.nrtx = pcb.nrtx /\ q.keep_cnt_sent = pcb.keep_cnt_sent
        /\ q.dupacks = pcb.dupacks
    BY <1>1 DEF SameData, PcbFields
  <2>2. pcb' = q /\ up' = up
    BY <1>3
  <2> HIDE DEF q
  <2>3. PcbInv(q) /\ ReachOf(q) = ReachOf(pcb)
    BY <1>1, <2>1, PcbNumbers, SameDataInv
  <2>4. q.snd_wl2 = pcb.snd_wl2 /\ q.snd_wnd = pcb.snd_wnd
    BY <2>1 DEF SameData
  <2>5. ReachOf(pcb) <= ReachOf(q)
    BY <1>1, <2>3
  <2> QED
    BY <1>1, <1>2, <2>2, <2>3, <2>4, <2>5, SenderStep DEF e
<1>4. ASSUME ~GivesUp(pcb, keep) PROVE keep => pcb.keep_cnt_sent # KEEP_CNT
  BY <1>4, Zenon DEF GivesUp
<1>5. ASSUME keep => pcb.keep_cnt_sent # KEEP_CNT,
             NEW v, UpInv(v, ReachOf(pcb), e), pcb' = Kept(pcb, keep),
             up' = (v \o <<>>) \o tcp_keepalive(pcb, keep)
      PROVE  SendInv'
  <2> DEFINE q == Kept(pcb, keep)
  <2>1. PcbInv(q) /\ ReachOf(q) = ReachOf(pcb) /\ SameData(pcb, q)
    BY <1>1, <1>5, KeptInv
  <2> HIDE DEF q
  <2>2. ReachOf(pcb) <= ReachOf(pcb) /\ <<>> \in Seq(SEG) /\ Len(<<>>) = 0
    BY <1>1
  <2>3. \A i \in 1 .. Len(<<>>) : End(<<>>[i]) <= pcb.snd_nxt
                                  /\ End(<<>>[i]) <= pcb.lastack + pcb.snd_wnd
    BY <2>2
  <2>4. UpInv(up', ReachOf(pcb), e)
    BY <1>1, <1>5, <2>2, <2>3, UpSent
  <2>5. q.snd_wl2 = pcb.snd_wl2 /\ q.snd_wnd = pcb.snd_wnd
    BY <2>1 DEF SameData
  <2>6. pcb' = q
    BY <1>5 DEF q
  <2>7. ReachOf(pcb) <= ReachOf(q)
    BY <2>1, <2>2
  <2> QED
    BY <1>1, <1>2, <2>1, <2>4, <2>5, <2>6, <2>7, SenderStep DEF e
<1>6. CASE ~GivesUp(pcb, keep) /\ pcb.unacked # <<>> /\ Output(tcp_rexmit_rto(pcb), MSS, keep)
  <2> DEFINE p == tcp_rexmit_rto(pcb)
             b == Burst(p, MSS)
             q == tcp_output(p, b)
  <2>1. PcbInv(p) /\ ReachOf(pcb) <= ReachOf(p) /\ p.snd_wl2 = pcb.snd_wl2
        /\ p.snd_wnd = pcb.snd_wnd /\ p.keep_cnt_sent = pcb.keep_cnt_sent
    BY <1>1, <1>6, RtoInv
  <2>2. pcb' = Kept(q, keep) /\ up' = (up \o b) \o tcp_keepalive(q, keep)
    BY <1>6, Zenon DEF Output
  <2> HIDE DEF p
  <2>3. Sends(p, q, b)
    BY <2>1, OutputKeeps, SendSizes
  <2>4. q.keep_cnt_sent = p.keep_cnt_sent
    BY <2>1, OutputFields DEF PcbInv
  <2> HIDE DEF b, q
  <2>5. /\ PcbInv(q) /\ ReachOf(p) <= ReachOf(q) /\ b \in Seq(SEG)
        /\ q.snd_wl2 = pcb.snd_wl2 /\ q.snd_wnd = pcb.snd_wnd
        /\ \A i \in 1 .. Len(b) : End(b[i]) <= q.snd_nxt /\ End(b[i]) <= q.lastack + q.snd_wnd
    BY <2>1, <2>3 DEF Sends
  <2>6. ReachOf(pcb) <= ReachOf(q) /\ ReachOf(q) \in Int
    <3>1. p.snd_nxt \in Nat /\ q.snd_nxt \in Nat
      BY <2>1, <2>5, PcbNumbers
    <3>2. ReachOf(p) \in Int /\ ReachOf(q) \in Int
      BY <3>1 DEF ReachOf, Reach
    <3> QED
      BY <1>1, <2>1, <2>5, <3>2
  <2>7. keep => q.keep_cnt_sent # KEEP_CNT
    BY <1>4, <1>6, <2>1, <2>4
  <2> DEFINE k == Kept(q, keep)
  <2>8. PcbInv(k) /\ ReachOf(k) = ReachOf(q) /\ SameData(q, k)
    BY <2>5, <2>7, KeptInv
  <2> HIDE DEF k
  <2>9. UpInv(up', ReachOf(q), e)
    <3>1. q.snd_wl2 + q.snd_wnd <= e
      BY <1>1, <2>5
    <3> QED
      BY <1>1, <2>2, <2>5, <2>6, <3>1, UpSent
  <2>10. k.snd_wl2 = pcb.snd_wl2 /\ k.snd_wnd = pcb.snd_wnd
    BY <2>5, <2>8 DEF SameData
  <2>11. pcb' = k
    BY <2>2 DEF k
  <2> QED
    BY <1>1, <1>2, <2>6, <2>8, <2>9, <2>10, <2>11, SenderStep DEF e
<1>7. up \in Seq(UPSEG) /\ tcp_zero_window_probe(pcb) \in Seq(UPSEG)
  <2>1. UpInv(tcp_zero_window_probe(pcb), ReachOf(pcb), e)
    <3>1. pcb.snd_wl2 + pcb.snd_wnd <= e
      BY <1>1 DEF WindowInv
    <3> QED
      BY <1>1, <3>1, UpProbe
  <2> QED
    BY <1>1, <2>1 DEF UpInv, UPSEG
<1>8. CASE /\ ~GivesUp(pcb, keep) /\ pcb' = Kept(pcb, keep)
           /\ up' = up \o tcp_zero_window_probe(pcb) \o tcp_keepalive(pcb, keep)
  <2> DEFINE v == up \o tcp_zero_window_probe(pcb)
  <2>1. UpInv(tcp_zero_window_probe(pcb), ReachOf(pcb), e)
    <3>1. pcb.snd_wl2 + pcb.snd_wnd <= e
      BY <1>1 DEF WindowInv
    <3> QED
      BY <1>1, <3>1, UpProbe
  <2>2. UpInv(v, ReachOf(pcb), e)
    BY <1>1, <2>1, UpMore
  <2>3. v \o <<>> = v
    <3>1. v \in Seq(UPSEG)
      BY <2>2 DEF UpInv, UPSEG
    <3> QED
      BY <3>1, ConcatEmptySeq
  <2>4. up' = (v \o <<>>) \o tcp_keepalive(pcb, keep)
    BY <1>8, <2>3
  <2>5. keep => pcb.keep_cnt_sent # KEEP_CNT
    BY <1>4, <1>8
  <2> HIDE DEF v
  <2> QED
    BY <1>5, <1>8, <2>2, <2>4, <2>5, Zenon
<1>9. CASE /\ ~GivesUp(pcb, keep) /\ pcb' = Kept(pcb, keep)
           /\ up' = up \o tcp_keepalive(pcb, keep)
  <2>1. up \o <<>> = up
    BY <1>7, ConcatEmptySeq
  <2>2. up' = (up \o <<>>) \o tcp_keepalive(pcb, keep)
    BY <1>9, <2>1
  <2>3. keep => pcb.keep_cnt_sent # KEEP_CNT
    BY <1>4, <1>9
  <2> QED
    BY <1>1, <1>5, <1>9, <2>2, <2>3, Zenon
<1> QED
  BY <1>3, <1>6, <1>8, <1>9, Zenon DEF tcp_slowtmr_data

(* The peer receives a segment.                                            *)
LEMMA SendInvPeerReceives ==
  ASSUME SendInv, PeerReceives
  PROVE  SendInv'
<1> DEFINE e == read + PeerBuf
           s == Head(up)
           a == Ack(rcvd', read)
<1>1. /\ PcbInv(pcb) /\ e \in Int /\ ReachOf(pcb) \in Int
      /\ UpInv(up, ReachOf(pcb), e) /\ DownInv(down, rcvd, e)
      /\ WindowInv(down, rcvd, e, pcb.snd_wl2, pcb.snd_wnd)
      /\ pcb.snd_wl2 \in Nat /\ pcb.snd_wnd \in Nat
      /\ rcvd \in Nat /\ read \in Nat /\ read <= rcvd /\ rcvd <= e /\ rcvd <= ReachOf(pcb)
      /\ up \in Seq(UPSEG) /\ down \in Seq(ACK)
  BY SenderFacts
<1>2. /\ up # <<>> /\ up' = Tail(up) /\ down' = Append(down, a)
      /\ pcb' = pcb /\ read' = read
      /\ rcvd' = IF s.seq <= rcvd /\ rcvd < End(s) THEN MinOf(End(s), e) ELSE rcvd
  BY DEF PeerReceives
<1>3. 1 \in 1 .. Len(up) /\ s = up[1] /\ s \in UPSEG
  BY <1>1, <1>2
<1>4. End(s) \in Int /\ End(s) <= ReachOf(pcb)
  <2>1. End(s) \in Int
    BY <1>3 DEF UPSEG, End
  <2>2. End(s) <= ReachOf(pcb)
    BY <1>1, <1>3 DEF UpInv
  <2> QED
    BY <2>1, <2>2
<1> HIDE DEF s
<1>5. rcvd' \in Nat /\ rcvd <= rcvd' /\ rcvd' <= e /\ rcvd' <= ReachOf(pcb)
  <2> HIDE DEF e
  <2>1. CASE s.seq <= rcvd /\ rcvd < End(s)
    <3>1. rcvd' = MinOf(End(s), e)
      BY <1>2, <2>1
    <3>2. rcvd' = End(s) \/ rcvd' = e
      BY <3>1 DEF MinOf
    <3>3. rcvd' <= End(s) /\ rcvd' <= e
      BY <1>1, <1>4, <3>1 DEF MinOf
    <3> QED
      BY <1>1, <1>4, <2>1, <3>2, <3>3
  <2>2. CASE ~(s.seq <= rcvd /\ rcvd < End(s))
    <3>1. rcvd' = rcvd
      BY <1>2, <2>2
    <3> QED
      BY <1>1, <3>1
  <2> QED
    BY <2>1, <2>2
<1>6. a.ack = rcvd' /\ a.wnd = PeerBuf - (rcvd' - read)
  BY DEF Ack
<1>7. a \in ACK /\ a.ack + a.wnd = e
  <2>1. PeerBuf - (rcvd' - read) \in Nat /\ rcvd' + (PeerBuf - (rcvd' - read)) = e
    <3> DEFINE x == rcvd'
    <3>1. x \in Nat /\ x <= read + PeerBuf /\ rcvd <= x /\ read <= rcvd /\ rcvd \in Nat
          /\ read \in Nat /\ PeerBuf \in Nat
      BY <1>1, <1>5, SendSizes
    <3> HIDE DEF x
    <3>2. PeerBuf - (x - read) \in Nat /\ x + (PeerBuf - (x - read)) = read + PeerBuf
      BY <3>1
    <3> QED
      BY <3>2 DEF x
  <2>2. a = [ack |-> rcvd', wnd |-> PeerBuf - (rcvd' - read)]
    BY DEF Ack
  <2> HIDE DEF a
  <2> QED
    BY <1>5, <1>6, <2>1, <2>2 DEF ACK
<1> HIDE DEF a
<1>8. From(UPSEG, up', up) /\ From(ACK, down, down)
  <2>1. From(ACK, down, down)
    BY <1>1 DEF From
  <2> QED
    BY <1>1, <1>2, <2>1, FromTail
<1>9. rcvd' \in Int /\ rcvd \in Int /\ e <= e /\ ReachOf(pcb) <= ReachOf(pcb)
  BY <1>1, <1>5
<1>10. UpInv(up', ReachOf(pcb), e)
  BY <1>1, <1>8, <1>9, UpFrom
<1>11. DownInv(down, rcvd', e)
  BY <1>1, <1>5, <1>8, <1>9, DownFrom
<1>12. WindowInv(down, rcvd', e, pcb.snd_wl2, pcb.snd_wnd)
  BY <1>1, <1>5, <1>8, <1>9, WindowFrom
<1>13. DownInv(down', rcvd', e) /\ WindowInv(down', rcvd', e, pcb.snd_wl2, pcb.snd_wnd)
  BY <1>1, <1>2, <1>5, <1>6, <1>7, <1>11, <1>12, DownNew
<1>14. read <= rcvd'
  BY <1>1, <1>5
<1> QED
  BY <1>1, <1>2, <1>5, <1>10, <1>13, <1>14 DEF SendInv, ReachOf

(* The application of the peer reads.                                      *)
LEMMA SendInvPeerReads ==
  ASSUME SendInv, PeerReads
  PROVE  SendInv'
<1> DEFINE e == read + PeerBuf
           e1 == rcvd + PeerBuf
           a == Ack(rcvd, rcvd)
<1>1. /\ PcbInv(pcb) /\ e \in Int /\ ReachOf(pcb) \in Int
      /\ UpInv(up, ReachOf(pcb), e) /\ DownInv(down, rcvd, e)
      /\ WindowInv(down, rcvd, e, pcb.snd_wl2, pcb.snd_wnd)
      /\ pcb.snd_wl2 \in Nat /\ pcb.snd_wnd \in Nat
      /\ rcvd \in Nat /\ read \in Nat /\ read <= rcvd /\ rcvd <= e /\ rcvd <= ReachOf(pcb)
      /\ up \in Seq(UPSEG) /\ down \in Seq(ACK)
  BY SenderFacts
<1>2. /\ read' = rcvd /\ down' = Append(down, a) /\ pcb' = pcb /\ up' = up /\ rcvd' = rcvd
  BY DEF PeerReads
<1>3. a = [ack |-> rcvd, wnd |-> PeerBuf - (rcvd - rcvd)]
  BY DEF Ack
<1>4. PeerBuf - (rcvd - rcvd) = PeerBuf
  BY <1>1, SendSizes
<1> HIDE DEF a
<1>5. a \in ACK /\ a.ack = rcvd /\ a.ack + a.wnd = e1
  BY <1>1, <1>3, <1>4, SendSizes DEF ACK
<1>6. e1 \in Int /\ e <= e1 /\ rcvd <= e1
  BY <1>1, SendSizes
<1>7. From(UPSEG, up, up) /\ From(ACK, down, down)
  <2>1. From(ACK, down, down)
    BY <1>1 DEF From
  <2>2. From(UPSEG, up, up)
    BY <1>1 DEF From
  <2> QED
    BY <2>1, <2>2
<1>8. rcvd \in Int /\ rcvd <= rcvd /\ ReachOf(pcb) <= ReachOf(pcb)
  BY <1>1
<1> HIDE DEF e, e1
<1>9. UpInv(up, ReachOf(pcb), e1)
  BY <1>1, <1>6, <1>7, <1>8, UpFrom
<1>10. DownInv(down, rcvd, e1)
  BY <1>1, <1>6, <1>7, <1>8, DownFrom
<1>11. WindowInv(down, rcvd, e1, pcb.snd_wl2, pcb.snd_wnd)
  BY <1>1, <1>6, <1>7, <1>8, WindowFrom
<1>12. DownInv(down', rcvd, e1) /\ WindowInv(down', rcvd, e1, pcb.snd_wl2, pcb.snd_wnd)
  BY <1>1, <1>2, <1>5, <1>6, <1>10, <1>11, DownNew
<1> QED
  BY <1>1, <1>2, <1>6, <1>8, <1>9, <1>12 DEF SendInv, ReachOf, e1

(* The network disturbs what is under way.                                 *)
LEMMA SendInvFault ==
  ASSUME SendInv, Fault
  PROVE  SendInv'
<1> DEFINE e == read + PeerBuf
<1>1. /\ PcbInv(pcb) /\ e \in Int /\ ReachOf(pcb) \in Int
      /\ UpInv(up, ReachOf(pcb), e) /\ DownInv(down, rcvd, e)
      /\ WindowInv(down, rcvd, e, pcb.snd_wl2, pcb.snd_wnd)
      /\ pcb.snd_wl2 \in Nat /\ pcb.snd_wnd \in Nat
      /\ rcvd \in Nat /\ up \in Seq(UPSEG) /\ down \in Seq(ACK)
  BY SenderFacts
<1>2. pcb' = pcb /\ rcvd' = rcvd /\ read' = read
  BY DEF Fault
<1>3. From(UPSEG, up', up)
  <2>1. CASE up' \in Disturbed(up)
    BY <1>1, <2>1, FromDisturbed
  <2>2. CASE up' = up
    BY <1>1, <2>2 DEF From
  <2> QED
    BY <2>1, <2>2 DEF Fault
<1>4. From(ACK, down', down)
  <2>1. CASE down' \in Disturbed(down)
    BY <1>1, <2>1, FromDisturbed
  <2>2. CASE down' = down
    BY <1>1, <2>2 DEF From
  <2> QED
    BY <2>1, <2>2 DEF Fault
<1>5. rcvd \in Int /\ rcvd <= rcvd /\ e <= e /\ ReachOf(pcb) <= ReachOf(pcb)
  BY <1>1
<1> HIDE DEF e
<1>6. UpInv(up', ReachOf(pcb), e)
  BY <1>1, <1>3, <1>5, UpFrom
<1>7. DownInv(down', rcvd, e)
  BY <1>1, <1>4, <1>5, DownFrom
<1>8. WindowInv(down', rcvd, e, pcb.snd_wl2, pcb.snd_wnd)
  BY <1>1, <1>4, <1>5, WindowFrom
<1> QED
  BY <1>1, <1>2, <1>5, <1>6, <1>7, <1>8, SenderStep DEF e

(* The inductive invariant of the sender: the two queues are one line of   *)
(* segments from the first byte that is not acknowledged to the last one   *)
(* written, and no acknowledgement under way takes a window back.          *)
THEOREM SendInvariant == SendSpec => []SendInv
<1>1. SendInit => SendInv
  BY SendInvInit
<1>2. SendInv /\ [SendNext]_sendVars => SendInv'
  <2> SUFFICES ASSUME SendInv, [SendNext]_sendVars PROVE SendInv'
    OBVIOUS
  <2>1. ASSUME NEW n \in 1 .. TCP_SND_BUF, tcp_write(n) PROVE SendInv'
    BY <2>1, SendInvWrite
  <2>2. CASE tcp_receive
    BY <2>2, SendInvReceive
  <2>3. CASE PeerReceives
    BY <2>3, SendInvPeerReceives
  <2>4. CASE PeerReads
    BY <2>4, SendInvPeerReads
  <2>5. CASE Fault
    BY <2>5, SendInvFault
  <2>6. ASSUME NEW rto \in BOOLEAN, NEW keep \in BOOLEAN, tcp_slowtmr_data(rto, keep)
        PROVE  SendInv'
    BY <2>6, SendInvTimer
  <2>7. CASE UNCHANGED sendVars
    <3>1. pcb' = pcb /\ up' = up /\ down' = down /\ rcvd' = rcvd /\ read' = read
      BY <2>7 DEF sendVars
    <3> QED
      BY <3>1, Zenon DEF SendInv
  <2> QED
    BY <2>1, <2>2, <2>3, <2>4, <2>5, <2>6, <2>7 DEF SendNext
<1> QED
  BY <1>1, <1>2, PTL DEF SendSpec

(* What is outstanding is one line.                                        *)
LEMMA OutstandingLine ==
  ASSUME SendInv
  PROVE  /\ Outstanding \in Seq(SEG) /\ DOMAIN Outstanding = 1 .. Len(Outstanding)
         /\ \E a \in Nat : Line(Outstanding, a, pcb.snd_lbb) /\ a <= rcvd
         /\ pcb.snd_lbb \in Nat /\ pcb.snd_lbb <= MaxBytes
<1>1. Queues(pcb.unacked, pcb.unsent, pcb.lastack, pcb.snd_nxt, pcb.snd_lbb, pcb.snd_wnd)
      /\ pcb.snd_lbb <= MaxBytes
  BY DEF SendInv, PcbInv
<1>2. pcb.unacked \in Seq(SEG) /\ pcb.unsent \in Seq(SEG) /\ pcb.lastack \in Nat
      /\ pcb.snd_lbb \in Nat
  BY <1>1 DEF Queues
<1>3. PICK a \in Nat, m \in Nat :
        Line(pcb.unacked, a, m) /\ Line(pcb.unsent, m, pcb.snd_lbb) /\ a <= pcb.lastack
  BY <1>1 DEF Queues
<1>4. Outstanding \in Seq(SEG) /\ Line(Outstanding, a, pcb.snd_lbb)
  BY <1>2, <1>3, LineJoin DEF Outstanding
<1>5. pcb.lastack <= rcvd
  <2>1. pcb.lastack <= pcb.snd_wl2 /\ pcb.snd_wl2 \in Nat
    BY DEF SendInv, PcbInv
  <2>2. pcb.snd_wl2 <= rcvd /\ rcvd \in Nat
    BY DEF SendInv, WindowInv
  <2> QED
    BY <1>2, <2>1, <2>2
<1>6. a <= rcvd
  <2>1. rcvd \in Nat
    BY DEF SendInv
  <2> QED
    BY <1>2, <1>3, <1>5, <2>1
<1>7. DOMAIN Outstanding = 1 .. Len(Outstanding)
  BY <1>4
<1> QED
  BY <1>1, <1>2, <1>4, <1>6, <1>7

(* A byte of a line is in one of its segments.                             *)
LEMMA LineCovers ==
  ASSUME NEW q \in Seq(SEG), NEW a \in Nat, NEW b \in Nat, Line(q, a, b),
         NEW x \in Nat, a <= x, x < b
  PROVE  \E i \in 1 .. Len(q) : q[i].seq <= x /\ x < End(q[i])
<1> DEFINE S == {i \in 1 .. Len(q) : x < End(q[i])}
<1>1. Len(q) \in Nat /\ \A i \in 1 .. Len(q) : q[i] \in SEG
  OBVIOUS
<1>2. q # <<>>
  BY DEF Line
<1>3. Len(q) \in 1 .. Len(q) /\ 1 \in 1 .. Len(q)
  BY <1>1, <1>2
<1>4. Len(q) \in S /\ S \in SUBSET Nat
  <2>1. End(q[Len(q)]) = b
    BY <1>2 DEF Line
  <2> QED
    BY <1>3, <2>1
<1>5. PICK i \in S : \A j \in S : i <= j
  BY <1>4, Least
<1>6. q[i].seq <= x
  <2>1. CASE i = 1
    <3>1. q[1].seq = a
      BY <1>2 DEF Line
    <3> QED
      BY <2>1, <3>1
  <2>2. CASE i # 1
    <3>1. i - 1 \in 1 .. Len(q) - 1 /\ i - 1 \in 1 .. Len(q) /\ (i - 1) + 1 = i
      BY <1>1, <1>5, <2>2
    <3>2. i - 1 \notin S
      BY <1>5, <3>1
    <3>3. End(q[i - 1]) = q[i].seq
      BY <3>1 DEF Line
    <3>4. End(q[i - 1]) \in Nat
      BY <1>1, <3>1, Ends
    <3> QED
      BY <3>1, <3>2, <3>3, <3>4
  <2> QED
    BY <2>1, <2>2
<1> QED
  BY <1>5, <1>6

(* Every byte that the peer does not have is in exactly one segment, in    *)
(* all histories of retransmissions, partial acknowledgements and writes.  *)
THEOREM SendNothingLost == SendSpec => []NothingLost
<1>1. SendInv => NothingLost
  <2> SUFFICES ASSUME SendInv, NEW b \in rcvd .. pcb.snd_lbb - 1
               PROVE  \E i \in DOMAIN Outstanding :
                        /\ Outstanding[i].seq <= b /\ b < End(Outstanding[i])
                        /\ \A j \in DOMAIN Outstanding \ {i} :
                             ~(Outstanding[j].seq <= b /\ b < End(Outstanding[j]))
    BY DEF NothingLost
  <2> DEFINE q == Outstanding
  <2>1. q \in Seq(SEG) /\ DOMAIN q = 1 .. Len(q) /\ pcb.snd_lbb \in Nat
        /\ \E a \in Nat : Line(q, a, pcb.snd_lbb) /\ a <= rcvd
    BY OutstandingLine
  <2> HIDE DEF q
  <2>2. PICK a \in Nat : Line(q, a, pcb.snd_lbb) /\ a <= rcvd
    BY <2>1
  <2>3. b \in Nat /\ a <= b /\ b < pcb.snd_lbb
    <3>1. rcvd \in Nat
      BY DEF SendInv
    <3> QED
      BY <2>1, <2>2, <3>1
  <2>4. PICK i \in 1 .. Len(q) : q[i].seq <= b /\ b < End(q[i])
    BY <2>1, <2>2, <2>3, LineCovers
  <2>5. ASSUME NEW j \in 1 .. Len(q), j # i, q[j].seq <= b, b < End(q[j]) PROVE FALSE
    <3>1. i < j \/ j < i
      BY <2>1, <2>5
    <3>2. q[i].seq \in Nat /\ End(q[i]) \in Nat /\ q[j].seq \in Nat /\ End(q[j]) \in Nat
      BY <2>1, <2>4, <2>5, Ends
    <3>3. End(q[i]) <= q[j].seq \/ End(q[j]) <= q[i].seq
      BY <2>1, <2>2, <2>4, <2>5, <3>1, LineOrder
    <3> QED
      BY <2>3, <2>4, <2>5, <3>2, <3>3
  <2>6. \E l \in DOMAIN q : /\ q[l].seq <= b /\ b < End(q[l])
                            /\ \A j \in DOMAIN q \ {l} : ~(q[j].seq <= b /\ b < End(q[j]))
    BY <2>1, <2>4, <2>5
  <2> QED
    BY <2>6 DEF q
<1> QED
  BY <1>1, SendInvariant, PTL

(* Both queues stay sorted and the counters fit them, which every loop     *)
(* over the queues in tcp_out.c and tcp_in.c relies on.                    *)
THEOREM SendQueuesSorted == SendSpec => []QueuesSorted
<1>1. SendInv => QueuesSorted
  <2> SUFFICES ASSUME SendInv PROVE QueuesSorted
    OBVIOUS
  <2>1. Queues(pcb.unacked, pcb.unsent, pcb.lastack, pcb.snd_nxt, pcb.snd_lbb, pcb.snd_wnd)
    BY DEF SendInv, PcbInv
  <2>2. pcb.unacked \in Seq(SEG) /\ pcb.unsent \in Seq(SEG) /\ pcb.lastack \in Nat
        /\ pcb.snd_lbb \in Nat
    BY <2>1 DEF Queues
  <2>3. PICK a \in Nat, m \in Nat : Line(pcb.unacked, a, m) /\ Line(pcb.unsent, m, pcb.snd_lbb)
    BY <2>1 DEF Queues
  <2>4. \A q \in {pcb.unacked, pcb.unsent} :
          \A i, j \in DOMAIN q : i < j => End(q[i]) <= q[j].seq
    <3>1. \A i, j \in 1 .. Len(pcb.unacked) : i < j => End(pcb.unacked[i]) <= pcb.unacked[j].seq
      BY <2>2, <2>3, LineOrder
    <3>2. \A i, j \in 1 .. Len(pcb.unsent) : i < j => End(pcb.unsent[i]) <= pcb.unsent[j].seq
      BY <2>2, <2>3, LineOrder
    <3>3. DOMAIN pcb.unacked = 1 .. Len(pcb.unacked) /\ DOMAIN pcb.unsent = 1 .. Len(pcb.unsent)
      BY <2>2
    <3> QED
      BY <3>1, <3>2, <3>3
  <2>5. \A i \in DOMAIN Outstanding :
          Outstanding[i].seq \in 0 .. MaxBytes /\ Outstanding[i].len \in 1 .. MSS
    <3> DEFINE q == Outstanding
    <3>1. q \in Seq(SEG) /\ DOMAIN q = 1 .. Len(q) /\ pcb.snd_lbb <= MaxBytes
          /\ \E x \in Nat : Line(q, x, pcb.snd_lbb)
      BY OutstandingLine
    <3> HIDE DEF q
    <3>2. ASSUME NEW i \in 1 .. Len(q) PROVE q[i].seq \in 0 .. MaxBytes /\ q[i].len \in 1 .. MSS
      <4>1. q[i].seq \in Nat /\ End(q[i]) \in Nat /\ q[i].len \in 1 .. MSS /\ q[i].seq < End(q[i])
        BY <3>1, Ends
      <4>2. End(q[i]) <= pcb.snd_lbb
        BY <2>2, <3>1, LineOrder
      <4> QED
        BY <2>2, <3>1, <4>1, <4>2, SendSizes
    <3> QED
      BY <3>1, <3>2 DEF q
  <2>6. /\ pcb.snd_buf = TCP_SND_BUF - (pcb.snd_lbb - pcb.lastack)
        /\ pcb.snd_buf \in 0 .. TCP_SND_BUF
        /\ pcb.lastack <= pcb.snd_nxt /\ pcb.snd_nxt <= pcb.snd_lbb
        /\ pcb.nrtx \in 0 .. 255 /\ pcb.keep_cnt_sent \in 0 .. KEEP_CNT
        /\ pcb.dupacks \in 0 .. DupThresh + 1
    BY PcbNumbers DEF SendInv
  <2>7. rcvd \in 0 .. pcb.snd_lbb /\ read \in 0 .. rcvd
    <3>1. rcvd \in Nat /\ read \in Nat /\ read <= rcvd /\ rcvd <= ReachOf(pcb)
      BY SenderFacts
    <3>2. ReachOf(pcb) <= pcb.snd_lbb /\ ReachOf(pcb) \in Nat
      <4>1. pcb.snd_nxt \in Nat /\ pcb.snd_nxt <= pcb.snd_lbb
        BY <2>1 DEF Queues
      <4>2. pcb.unsent # <<>> => /\ pcb.unsent[1].seq \in Nat /\ End(pcb.unsent[1]) \in Nat
                                 /\ pcb.unsent[1].seq < End(pcb.unsent[1])
                                 /\ End(pcb.unsent[1]) <= pcb.snd_lbb
        <5> HAVE pcb.unsent # <<>>
        <5>1. 1 \in 1 .. Len(pcb.unsent) /\ pcb.unsent[1] \in SEG
          BY <2>2
        <5> QED
          BY <2>2, <2>3, <5>1, LineOrder, Ends
      <4> QED
        BY <2>2, <4>1, <4>2 DEF ReachOf, Reach
    <3> QED
      BY <2>2, <3>1, <3>2
  <2> QED
    BY <2>4, <2>5, <2>6, <2>7 DEF QueuesSorted, SendTypeOK
<1> QED
  BY <1>1, SendInvariant, PTL

(* Nothing is sent beyond the window but the byte of a probe, which is the *)
(* next one, whatever order the acknowledgements arrive in.                *)
THEOREM SendInWindow == SendSpec => []InWindow
<1>1. SendInv => InWindow
  <2> SUFFICES ASSUME SendInv PROVE InWindow
    OBVIOUS
  <2>1. up \in Seq(UPSEG) /\ UpInv(up, ReachOf(pcb), read + PeerBuf)
    BY SenderFacts
  <2>2. DOMAIN up = 1 .. Len(up)
    BY <2>1
  <2> QED
    BY <2>1, <2>2 DEF UpInv, InWindow
<1> QED
  BY <1>1, SendInvariant, PTL

-----------------------------------------------------------------------------
(* The client.                                                             *)

USE DEF In, Active, Listed, States

(* Initially every block is in the pool.                                   *)
LEMMA InitIndInv == Init => IndInv
  BY PoolAssumption, ClockAssumption
  DEF Init, IndInv, TypeOK, OneListed, SynInv, EstInv, NoActiveClose,
      BoundInv, LinkFlagExact, PoolServes

(* A segment of the server keeps the invariant (tcp_input).                *)
LEMMA InputIndInv ==
  ASSUME IndInv, NEW p \in PCB, SynAck(p) \/ Fin(p) \/ Rst(p) \/ FinAcked(p)
  PROVE  IndInv'
<1> USE PoolAssumption, ClockAssumption DEF IndInv, TypeOK, OneListed, SynInv,
          EstInv, NoActiveClose, BoundInv, LinkFlagExact, PoolServes
<1>1. CASE SynAck(p)
  BY <1>1 DEF SynAck, tcp_client_connected
<1>2. CASE Fin(p)
  <2>1. wpcb = p
    BY <1>2 DEF Fin
  <2> DEFINE st == [state EXCEPT ![p] = "CLOSE_WAIT"]
  <2>2. PICK s \in tcp_close_shutdown(st[p]) : state' = [st EXCEPT ![p] = s]
    BY <1>2, <2>1 DEF Fin, tcp_client_reciver
  <2>3. s \in {"LAST_ACK", "CLOSE_WAIT"}
    BY <2>2 DEF tcp_close_shutdown
  <2>4. state' = [state EXCEPT ![p] = s]
    BY <2>2
  <2>5. /\ Tcplink' = 1 /\ rxclosed' = rxclosed \cup {p}
        /\ age' = [age EXCEPT ![p] = 0]
        /\ UNCHANGED <<wpcb, since, failures>>
    BY <1>2, <2>1 DEF Fin, tcp_client_reciver
  <2> QED
    BY <1>2, <2>1, <2>3, <2>4, <2>5 DEF Fin
<1>3. CASE Rst(p)
  BY <1>3 DEF Rst, tcp_client_err
<1>4. CASE FinAcked(p)
  BY <1>4 DEF FinAcked
<1> QED
  BY <1>1, <1>2, <1>3, <1>4

(* A run of the slow timer keeps the invariant (tcp_slowtmr).              *)
LEMMA SlowtmrIndInv == IndInv /\ tcp_slowtmr => IndInv'
<1> SUFFICES ASSUME IndInv, tcp_slowtmr PROVE IndInv'
  OBVIOUS
<1> USE PoolAssumption, ClockAssumption DEF IndInv, TypeOK, OneListed, SynInv,
          EstInv, NoActiveClose, BoundInv, LinkFlagExact, PoolServes
<1>1. PICK gone \in SUBSET MayGo :
        /\ MustGo \subseteq gone
        /\ state' = [p \in PCB |-> IF p \in gone THEN "FREE" ELSE state[p]]
        /\ \/ gone # {} /\ Tcplink' = 1
           \/ gone = {} /\ UNCHANGED Tcplink
  BY DEF tcp_slowtmr, tcp_client_err
<1>2. /\ age' = [p \in PCB |-> IF state[p] \in {"SYN_SENT", "CLOSE_WAIT",
                                                "LAST_ACK"}
                               THEN age[p] + 1 ELSE 0]
      /\ since' = IF since < RETRY THEN since + 1 ELSE since
      /\ UNCHANGED <<wpcb, rxclosed, failures>>
  BY DEF tcp_slowtmr
<1>3. gone \subseteq In(Active)
  BY <1>1 DEF MayGo, MustGo, SynGivenUp
<1>4. ASSUME NEW p \in PCB, state'[p] = "SYN_SENT"
      PROVE  state[p] = "SYN_SENT" /\ gone = {} /\ since + 1 < SYN_TICKS
  BY <1>1, <1>3, <1>4 DEF MustGo, SynGivenUp
<1>5. TypeOK'
  BY <1>1, <1>2
<1>6. OneListed' /\ EstInv' /\ NoActiveClose' /\ BoundInv' /\ LinkFlagExact'
  BY <1>1, <1>2, <1>3
<1>7. SynInv'
  BY <1>1, <1>2, <1>4
<1>8. PoolServes'
  BY <1>1, <1>2, <1>3
<1> QED
  BY <1>5, <1>6, <1>7, <1>8

(* An attempt keeps the invariant (TcpTestThread): it cannot meet a SYN.   *)
LEMMA TestThreadIndInv == IndInv /\ TcpTestThread => IndInv'
<1> SUFFICES ASSUME IndInv, TcpTestThread PROVE IndInv'
  OBVIOUS
<1> USE PoolAssumption, ClockAssumption DEF IndInv, TypeOK, OneListed, SynInv,
          EstInv, NoActiveClose, BoundInv, LinkFlagExact, PoolServes
<1>0. since = RETRY /\ since' = 0
  BY DEF TcpTestThread, TestConnected, tcp_client_callback, ConnectOk,
         ConnectErrMem, BindFails, NoBlock, Due
<1>1. In({"SYN_SENT"}) = {}
  BY <1>0
<1>2. CASE TestConnected
  BY <1>0, <1>1, <1>2 DEF TestConnected
<1>3. CASE NoBlock
  BY <1>0, <1>1, <1>3 DEF NoBlock
<1>4. ASSUME NEW p \in PCB, NEW s \in {"SYN_SENT", "BOUND", "CLOSED"},
             Tcplink = 1, tcp_new(p, s),
             s = "CLOSED" <=> tcp_bind_ERR_USE(p),
             IF s = "BOUND" THEN failures' = failures + 1
                            ELSE UNCHANGED failures,
             s = "BOUND" => failures < MaxConnectFailures
      PROVE  IndInv'
  <2>1. In({"ESTABLISHED"}) = {}
    BY <1>4
  <2>2. /\ state' = [state EXCEPT ![p] = s]
        /\ age' = [age EXCEPT ![p] = 0]
        /\ wpcb' = p /\ rxclosed' = rxclosed \ {p} /\ Tcplink' = 1
    BY <1>4 DEF tcp_new
  <2>3. TypeOK'
    BY <1>0, <1>4, <2>2
  <2>4. OneListed'
    BY <1>4, <2>2 DEF tcp_bind_ERR_USE
  <2>5. SynInv' /\ EstInv' /\ NoActiveClose' /\ LinkFlagExact'
    BY <1>0, <1>1, <1>4, <2>1, <2>2
  <2>6. BoundInv' /\ PoolServes'
    BY <1>4, <2>2 DEF tcp_bind_ERR_USE
  <2> QED
    BY <2>3, <2>4, <2>5, <2>6
<1>5. ASSUME NEW p \in PCB, ConnectOk(p) PROVE IndInv'
  BY <1>4, <1>5 DEF ConnectOk
<1>6. ASSUME NEW p \in PCB, ConnectErrMem(p) PROVE IndInv'
  BY <1>4, <1>6 DEF ConnectErrMem
<1>7. ASSUME NEW p \in PCB, BindFails(p) PROVE IndInv'
  BY <1>4, <1>7 DEF BindFails
<1> QED
  BY <1>2, <1>3, <1>5, <1>6, <1>7 DEF TcpTestThread, tcp_client_callback

(* IndInv is an invariant of the client and its stack.                     *)
THEOREM SpecIndInv == Spec => []IndInv
<1>1. IndInv /\ [Next]_vars => IndInv'
  <2> SUFFICES ASSUME IndInv, [Next]_vars PROVE IndInv'
    OBVIOUS
  <2>1. CASE UNCHANGED vars
    BY <2>1 DEF vars, IndInv, TypeOK, OneListed, SynInv, EstInv,
                NoActiveClose, BoundInv, LinkFlagExact, PoolServes
  <2> QED
    BY <2>1, InputIndInv, SlowtmrIndInv, TestThreadIndInv DEF Next, tcp_input
<1> QED
  BY <1>1, InitIndInv, PTL DEF Spec

(* Tcplink is 0 exactly while the stack has an established connection.     *)
THEOREM SpecLinkFlagExact == Spec => []LinkFlagExact
<1>1. IndInv => LinkFlagExact
  BY DEF IndInv
<1> QED
  BY <1>1, SpecIndInv, PTL

(* While the client counts as connected, wpcb is its connection.           *)
THEOREM SpecWpcbIsConnection == Spec => []WpcbIsConnection
<1>1. IndInv => WpcbIsConnection
  BY DEF IndInv, TypeOK, EstInv, LinkFlagExact, WpcbIsConnection
<1> QED
  BY <1>1, SpecIndInv, PTL

(* Lost blocks never exhaust the pool while tcp_connect succeeds.          *)
THEOREM SpecPoolServes == Spec => []PoolServes
<1>1. IndInv => PoolServes
  BY DEF IndInv
<1> QED
  BY <1>1, SpecIndInv, PTL
=============================================================================
