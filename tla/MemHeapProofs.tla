--------------------------- MODULE MemHeapProofs ---------------------------
(***************************************************************************)
(* The heap keeps its list and its promises for every size of the heap, of *)
(* the structs and of the requests.  The inductive invariant says that the *)
(* structs, in the order of their offsets, are the list that next and prev *)
(* spell out: nothing lies between a struct and its successor.             *)
(***************************************************************************)
EXTENDS MemHeap, TLAPS

H == SIZEOF_STRUCT_MEM

(* The list in the order of the offsets, with room for data in each block. *)
Chain ==
  /\ \A a \in Blocks \ {MEM_SIZE} :
       /\ a + H + MIN_SIZE <= ram[a].next
       /\ \A b \in Blocks : b <= a \/ ram[a].next <= b
  /\ \A a \in Blocks \ {0, MEM_SIZE} :
       ram[a].prev \in Blocks /\ ram[a].prev < a /\ ram[ram[a].prev].next = a
  /\ ram[0].prev = 0
  /\ ram[MEM_SIZE].used /\ ram[MEM_SIZE].next = MEM_SIZE

(* Every caller's bytes fit into its block.                                *)
HeldFits == \A a \in DOMAIN held : a + H + held[a] <= ram[a].next

IInv == TypeOK /\ Chain /\ NoAdjacentFree /\ LowestFree /\ HeldFits

-----------------------------------------------------------------------------
(* The constants are numbers.                                              *)
LEMMA Sizes ==
  /\ MEM_SIZE \in Nat /\ H \in Nat /\ MIN_SIZE \in Nat /\ MEM_ALIGNMENT \in Nat
  /\ MemSizeRange \in Nat /\ 0 < H /\ 0 < MIN_SIZE /\ 0 < MEM_ALIGNMENT
  /\ 0 < MemSizeRange /\ 0 < MEM_SIZE /\ H + MIN_SIZE <= MEM_SIZE
  /\ Requests \subseteq Nat
  BY MemHeapAssumption DEF H

(* A block of the size for a request holds the request.                    *)
LEMMA SizeHolds ==
  ASSUME NEW n \in Requests
  PROVE  SizeOf(n) \in Nat /\ n <= SizeOf(n) /\ MIN_SIZE <= SizeOf(n)
<1> DEFINE m == n + MEM_ALIGNMENT - 1
<1>1. m \in Nat /\ n \in Nat /\ m < MemSizeRange
  BY Sizes, MemHeapAssumption
<1>2. m % MEM_ALIGNMENT \in 0 .. MEM_ALIGNMENT - 1
  BY <1>1, Sizes
<1>3. m - (m % MEM_ALIGNMENT) \in 0 .. MemSizeRange - 1 /\ n <= m - (m % MEM_ALIGNMENT)
  BY <1>1, <1>2, Sizes
<1>4. (m - (m % MEM_ALIGNMENT)) % MemSizeRange = m - (m % MEM_ALIGNMENT)
  BY <1>3, Sizes
<1>5. AlignSize(n) \in Nat /\ n <= AlignSize(n)
  BY <1>3, <1>4 DEF AlignSize
<1> QED
  BY <1>5, Sizes DEF SizeOf

(* mem_init makes one free block that spans the heap.                      *)
LEMMA InitInv == Init => IInv
<1> SUFFICES ASSUME Init PROVE IInv
  OBVIOUS
<1>1. /\ Blocks = {0, MEM_SIZE} /\ ram[0] = [next |-> MEM_SIZE, prev |-> 0, used |-> FALSE]
      /\ ram[MEM_SIZE] = [next |-> MEM_SIZE, prev |-> MEM_SIZE, used |-> TRUE]
      /\ lfree = 0 /\ DOMAIN held = {}
  BY Sizes DEF Init, Blocks, Struct
<1>2. ram \in [Blocks -> [next : Blocks, prev : Nat, used : BOOLEAN]]
  BY Sizes, <1>1 DEF Init, Blocks, Struct
<1>3. held \in [{a \in Blocks \ {MEM_SIZE} : ram[a].used} -> Nat]
  <2>1. {a \in Blocks \ {MEM_SIZE} : ram[a].used} = {}
    BY <1>1
  <2> QED BY <2>1 DEF Init
<1>4. TypeOK
  BY <1>1, <1>2, <1>3, Sizes DEF TypeOK
<1>5. Chain /\ NoAdjacentFree /\ LowestFree /\ HeldFits
  BY <1>1, Sizes DEF Chain, NoAdjacentFree, LowestFree, HeldFits
<1> QED BY <1>4, <1>5 DEF IInv

-----------------------------------------------------------------------------
(* What holds of the offsets and fields of the linked structs.             *)
LEMMA Fields ==
  ASSUME TypeOK, Chain
  PROVE  /\ 0 \in Blocks /\ MEM_SIZE \in Blocks
         /\ \A b \in Blocks : /\ b \in Nat /\ b <= MEM_SIZE /\ ram[b].next \in Blocks
                              /\ ram[b].prev \in Nat /\ ram[b].used \in BOOLEAN
                              /\ ram[b] = Struct(ram[b].next, ram[b].prev, ram[b].used)
         /\ \A b \in Blocks : b # MEM_SIZE =>
              b < ram[b].next /\ \A c \in Blocks : c <= b \/ ram[b].next <= c
<1>1. /\ 0 \in Blocks /\ MEM_SIZE \in Blocks
      /\ \A b \in Blocks : b \in Nat /\ b <= MEM_SIZE
  BY Sizes DEF TypeOK
<1>2. \A b \in Blocks : /\ ram[b].next \in Blocks
                        /\ ram[b].prev \in Nat /\ ram[b].used \in BOOLEAN
                        /\ ram[b] = Struct(ram[b].next, ram[b].prev, ram[b].used)
  BY DEF TypeOK, Struct
<1>3. ASSUME NEW b \in Blocks, b # MEM_SIZE
      PROVE  b < ram[b].next /\ \A c \in Blocks : c <= b \/ ram[b].next <= c
  <2>1. b + H + MIN_SIZE <= ram[b].next /\ \A c \in Blocks : c <= b \/ ram[b].next <= c
    BY <1>3 DEF Chain
  <2>2. b \in Nat /\ ram[b].next \in Nat
    BY <1>1, <1>2
  <2>3. b < ram[b].next
    BY <2>1, <2>2, Sizes
  <2> QED BY <2>1, <2>3
<1> QED BY <1>1, <1>2, <1>3

(* The list stays a list when a struct is put at m between a and last, and *)
(* whatever was free between them goes.                                    *)
Linkable(a, m, last) ==
  /\ a \in Blocks \ {MEM_SIZE} /\ m \in Nat /\ last \in Blocks
  /\ a + H + MIN_SIZE <= m /\ m + H + MIN_SIZE <= last /\ ram[last].used
  /\ m < ram[a].next
  /\ \/ last = ram[a].next
     \/ last = ram[ram[a].next].next /\ ~ram[ram[a].next].used

(* A struct put between two neighbours keeps the chain in order: the split *)
(* of mem_malloc and of mem_trim.                                          *)
LEMMA Link ==
  ASSUME TypeOK, Chain, NoAdjacentFree, NEW a, NEW m, NEW last,
         Linkable(a, m, last), ram' = LinkedAfter(a, m, last)
  PROVE  /\ \A b : b \in Blocks' <=> (b = m \/ (b \in Blocks /\ (b <= a \/ last <= b)))
         /\ Blocks' \subseteq 0 .. MEM_SIZE /\ {0, MEM_SIZE} \subseteq Blocks'
         /\ ram' \in [Blocks' -> [next : Blocks', prev : Nat, used : BOOLEAN]]
         /\ \A b \in Blocks : a < b /\ b < last => b = ram[a].next
         /\ ram'[a].next = m /\ ram'[a].used /\ ~ram'[m].used /\ ram'[m].next = last
         /\ \A b \in Blocks' : b \notin {a, m} =>
              b \in Blocks /\ ram'[b].used = ram[b].used /\ ram'[b].next = ram[b].next
         /\ Chain' /\ NoAdjacentFree'
<1> DEFINE B == {c \in Blocks : c <= a \/ last <= c} \cup {m}
<1>0. /\ a \in Blocks /\ a # MEM_SIZE /\ m \in Nat /\ last \in Blocks
      /\ a + H + MIN_SIZE <= m /\ m + H + MIN_SIZE <= last
  BY DEF Linkable
<1>1. /\ 0 \in Blocks /\ MEM_SIZE \in Blocks
      /\ \A b \in Blocks : /\ b \in Nat /\ b <= MEM_SIZE /\ ram[b].next \in Blocks
                           /\ ram[b].prev \in Nat /\ ram[b].used \in BOOLEAN
                           /\ ram[b] = Struct(ram[b].next, ram[b].prev, ram[b].used)
      /\ \A b \in Blocks : b # MEM_SIZE =>
           b < ram[b].next /\ \A c \in Blocks : c <= b \/ ram[b].next <= c
  BY Fields
<1>2. a \in Nat /\ last \in Nat /\ a < MEM_SIZE /\ last <= MEM_SIZE /\ a < m /\ m < last
  <2>1. a \in Nat /\ last \in Nat /\ a <= MEM_SIZE /\ last <= MEM_SIZE
    BY <1>0, <1>1
  <2> QED BY <2>1, <1>0, Sizes
<1>3. \A b : b \in B <=> (b = m \/ (b \in Blocks /\ (b <= a \/ last <= b)))
  OBVIOUS
<1>4. /\ Blocks' = B
      /\ \A b \in B : ram'[b] = IF b = a THEN Struct(m, ram[a].prev, TRUE)
                ELSE IF b = m THEN Struct(last, a, FALSE)
                ELSE IF b = last /\ last # MEM_SIZE THEN Struct(ram[b].next, m, ram[b].used)
                ELSE ram[b]
      /\ ram' = [b \in B |-> ram'[b]]
  BY DEF LinkedAfter, Blocks
<1> HIDE DEF B
<1>5. \A n, q, u : /\ Struct(n, q, u).next = n /\ Struct(n, q, u).prev = q
                   /\ Struct(n, q, u).used = u
  BY DEF Struct
<1>6. \A n \in B, q \in Nat, u \in BOOLEAN :
        Struct(n, q, u) \in [next : B, prev : Nat, used : BOOLEAN]
  BY DEF Struct
<1>7. a \in B /\ m \in B /\ last \in B /\ 0 \in B /\ MEM_SIZE \in B
  <2>1. 0 <= a /\ last <= MEM_SIZE /\ a <= a /\ last <= last
    BY <1>2
  <2> QED BY <2>1, <1>0, <1>1, <1>3
<1>8. \A b \in B : b \in Nat /\ b <= MEM_SIZE
  <2>1. m <= MEM_SIZE
    BY <1>0, <1>2, Sizes
  <2> QED BY <2>1, <1>0, <1>1, <1>3
<1>9. /\ ram'[a].next = m /\ ram'[a].used = TRUE /\ ram'[a].prev = ram[a].prev
      /\ ram'[m].next = last /\ ram'[m].used = FALSE /\ ram'[m].prev = a
  <2>1. ram'[a] = Struct(m, ram[a].prev, TRUE)
    BY <1>4, <1>7
  <2>2. m # a
    BY <1>0, <1>2
  <2>3. ram'[m] = Struct(last, a, FALSE)
    BY <1>4, <1>7, <2>2
  <2>4. ram'[a].next = m /\ ram'[a].used = TRUE /\ ram'[a].prev = ram[a].prev
    BY <2>1 DEF Struct
  <2>5. ram'[m].next = last /\ ram'[m].used = FALSE /\ ram'[m].prev = a
    BY <2>3 DEF Struct
  <2> QED BY <2>4, <2>5
<1>10. ASSUME NEW b \in B, b # a, b # m
       PROVE  /\ b \in Blocks /\ (b < a \/ last <= b) /\ ram'[b].used = ram[b].used
              /\ ram'[b].next = ram[b].next
              /\ ram'[b].prev = IF b = last /\ last # MEM_SIZE THEN m ELSE ram[b].prev
  <2>1. b \in Blocks /\ (b <= a \/ last <= b)
    BY <1>3, <1>10
  <2>2. b < a \/ last <= b
    BY <2>1, <1>1, <1>2, <1>10
  <2>3. CASE b = last /\ last # MEM_SIZE
    <3>1. ram'[b] = Struct(ram[b].next, m, ram[b].used)
      BY <2>3, <1>4, <1>10
    <3> QED BY <3>1, <2>1, <2>2, <2>3, <1>5
  <2>4. CASE ~(b = last /\ last # MEM_SIZE)
    <3>1. ram'[b] = ram[b]
      BY <2>4, <1>4, <1>10
    <3> QED BY <3>1, <2>1, <2>2, <2>4
  <2> QED BY <2>3, <2>4
<1>11. ASSUME NEW b \in B, b # a, b # m, b # MEM_SIZE
       PROVE  ram[b].next \in B /\ ram[b].next # m
  <2>1. b \in Blocks /\ (b < a \/ last <= b)
    BY <1>10, <1>11
  <2>2. ram[b].next \in Blocks /\ b < ram[b].next /\ (a <= b \/ ram[b].next <= a)
    BY <2>1, <1>0, <1>1, <1>11
  <2>3. b \in Nat /\ ram[b].next \in Nat
    BY <2>1, <2>2, <1>1
  <2>4. ram[b].next <= a \/ last <= ram[b].next
    BY <2>1, <2>2, <2>3, <1>2
  <2> QED BY <2>2, <2>3, <2>4, <1>2, <1>3
<1>12. \A b \in Blocks : a < b /\ b < last => b = ram[a].next
  <2> SUFFICES ASSUME NEW b \in Blocks, a < b, b < last PROVE b = ram[a].next
    OBVIOUS
  <2>0. /\ ram[a].next \in Blocks /\ b \in Nat /\ ram[a].next \in Nat
        /\ b <= a \/ ram[a].next <= b
    BY <1>0, <1>1
  <2>1. ram[a].next \in Blocks /\ ram[a].next <= b /\ b \in Nat /\ ram[a].next \in Nat
    BY <2>0, <1>2
  <2>2. ram[a].next < last
    BY <2>1, <1>2
  <2>3. last = ram[ram[a].next].next
    BY <2>1, <2>2, <1>2 DEF Linkable
  <2>4. ram[a].next # MEM_SIZE
    BY <2>1, <2>2, <1>2, Sizes
  <2>5. b <= ram[a].next \/ last <= b
    BY <2>1, <2>3, <2>4, <1>1
  <2> QED BY <2>1, <2>5, <1>2
<1>13. ram' \in [B -> [next : B, prev : Nat, used : BOOLEAN]]
  <2>2. m # a
    BY <1>0, <1>2
  <2>1. ASSUME NEW b \in B PROVE ram'[b] \in [next : B, prev : Nat, used : BOOLEAN]
    <3>1. CASE b = a
      <4>1. ram'[b] = Struct(m, ram[a].prev, TRUE)
        BY <3>1, <1>4
      <4>2. ram[a].prev \in Nat
        BY <1>0, <1>1
      <4> QED BY <4>1, <4>2, <1>6, <1>7
    <3>2. CASE b = m
      <4>1. ram'[b] = Struct(last, a, FALSE)
        BY <3>2, <2>2, <1>4
      <4> QED BY <4>1, <1>2, <1>6, <1>7
    <3>3. CASE b # a /\ b # m
      <4>1. ram[b].next \in B /\ b \in Blocks
        BY <3>3, <1>7, <1>10, <1>11 DEF Chain
      <4>2. ram'[b] \in {Struct(ram[b].next, m, ram[b].used),
                         Struct(ram[b].next, ram[b].prev, ram[b].used)}
        BY <3>3, <4>1, <1>1, <1>4
      <4> QED BY <4>1, <4>2, <1>0, <1>1, <1>6
    <3> QED BY <3>1, <3>2, <3>3
  <2> QED BY <2>1, <1>4
<1>14. Chain'
  <2>1. ASSUME NEW b \in B, b # MEM_SIZE
        PROVE  b + H + MIN_SIZE <= ram'[b].next /\ \A c \in B : c <= b \/ ram'[b].next <= c
    <3>1. CASE b = a
      <4>1. ASSUME NEW c \in B PROVE c <= a \/ m <= c
        <5>1. c = m \/ c <= a \/ last <= c
          BY <1>3
        <5> QED BY <5>1, <1>2, <1>0, <1>8
      <4> QED BY <3>1, <4>1, <1>0, <1>9
    <3>2. CASE b = m
      <4>1. ASSUME NEW c \in B PROVE c <= m \/ last <= c
        <5>1. c = m \/ c <= a \/ last <= c
          BY <1>3
        <5> QED BY <5>1, <1>2, <1>0, <1>8
      <4> QED BY <3>2, <4>1, <1>0, <1>9
    <3>3. CASE b # a /\ b # m
      <4>1. b \in Blocks /\ ram'[b].next = ram[b].next /\ (b < a \/ last <= b)
        BY <3>3, <1>10
      <4>2. b + H + MIN_SIZE <= ram[b].next /\ \A c \in Blocks : c <= b \/ ram[b].next <= c
        BY <4>1, <2>1 DEF Chain
      <4>3. ram[b].next \in Nat /\ b \in Nat /\ (a <= b \/ ram[b].next <= a)
        BY <4>1, <4>2, <1>0, <1>1
      <4>4. m <= b \/ ram[b].next <= m
        BY <4>1, <4>3, <1>0, <1>2
      <4>5. \A c \in B : c <= b \/ ram[b].next <= c
        BY <4>2, <4>4, <1>3
      <4> QED BY <4>1, <4>2, <4>5
    <3> QED BY <3>1, <3>2, <3>3
  <2>2. ASSUME NEW b \in B, b # 0, b # MEM_SIZE
        PROVE  ram'[b].prev \in B /\ ram'[b].prev < b /\ ram'[ram'[b].prev].next = b
    <3>1. CASE b = m
      BY <3>1, <1>2, <1>7, <1>9
    <3>2. CASE b = a
      <4>1. ram[a].prev \in Blocks /\ ram[a].prev < a /\ ram[ram[a].prev].next = a
        BY <3>2, <2>2, <1>0 DEF Chain
      <4>2. ram[a].prev \in B /\ ram[a].prev # a /\ ram[a].prev # m
        BY <4>1, <1>1, <1>2, <1>3
      <4> QED BY <3>2, <4>1, <4>2, <1>9, <1>10
    <3>3. CASE b = last
      <4>1. b # a /\ b # m
        BY <3>3, <1>0, <1>2
      <4>2. ram'[b].prev = m
        BY <3>3, <4>1, <2>2, <1>10
      <4> QED BY <3>3, <4>2, <1>2, <1>7, <1>9
    <3>4. CASE b # a /\ b # m /\ b # last
      <4>1. b \in Blocks /\ ram'[b].prev = ram[b].prev /\ (b < a \/ last < b)
        <5>1. b \in Blocks /\ ram'[b].prev = ram[b].prev /\ (b < a \/ last <= b)
          BY <3>4, <1>10
        <5> QED BY <5>1, <3>4, <1>1, <1>2
      <4>2. ram[b].prev \in Blocks /\ ram[b].prev < b /\ ram[ram[b].prev].next = b
        BY <4>1, <2>2 DEF Chain
      <4>3. b \in Nat /\ ram[b].prev \in Nat /\ ram[b].prev # MEM_SIZE
        BY <4>1, <4>2, <1>1
      <4>4. last <= ram[b].prev \/ b <= last
        BY <4>2, <4>3, <1>0, <1>1
      <4>5. ram[b].prev < a \/ last <= ram[b].prev
        BY <4>1, <4>2, <4>3, <4>4, <1>2
      <4>6. ram[b].prev \in B /\ ram[b].prev # a /\ ram[b].prev # m
        BY <4>2, <4>3, <4>5, <1>0, <1>2, <1>3
      <4> QED BY <4>1, <4>2, <4>6, <1>10
    <3> QED BY <3>1, <3>2, <3>3, <3>4
  <2>3. ram'[0].prev = 0
    <3>1. 0 # m /\ 0 # last
      BY <1>0, <1>2
    <3>2. ram[0].prev = 0
      BY DEF Chain
    <3> QED BY <3>1, <3>2, <1>7, <1>9, <1>10
  <2>4. ram'[MEM_SIZE].used /\ ram'[MEM_SIZE].next = MEM_SIZE
    <3>1. MEM_SIZE # m /\ MEM_SIZE # a
      BY <1>0, <1>2, Sizes
    <3>2. ram[MEM_SIZE].used /\ ram[MEM_SIZE].next = MEM_SIZE
      BY DEF Chain
    <3> QED BY <3>1, <3>2, <1>7, <1>10
  <2> QED BY <2>1, <2>2, <2>3, <2>4, <1>4 DEF Chain
<1>15. NoAdjacentFree'
  <2>1. ASSUME NEW b \in B, b # MEM_SIZE, ~ram'[b].used
        PROVE  ram'[ram'[b].next].used
    <3>1. CASE b = m
      <4>1. last # a /\ last # m /\ ram[last].used
        BY <1>2 DEF Linkable
      <4> QED BY <3>1, <4>1, <1>7, <1>9, <1>10
    <3>2. CASE b # m
      <4>1. b # a
        BY <2>1, <1>9
      <4>2. b \in Blocks /\ ~ram[b].used /\ ram'[b].next = ram[b].next
        BY <3>2, <4>1, <2>1, <1>10
      <4>3. ram[ram[b].next].used
        BY <4>2, <2>1 DEF NoAdjacentFree
      <4>4. ram[b].next \in B /\ ram[b].next # m
        BY <3>2, <4>1, <2>1, <1>11
      <4>5. CASE ram[b].next = a
        BY <4>2, <4>5, <1>9
      <4>6. CASE ram[b].next # a
        BY <4>2, <4>3, <4>4, <4>6, <1>10
      <4> QED BY <4>5, <4>6
    <3> QED BY <3>1, <3>2
  <2> QED BY <2>1, <1>4 DEF NoAdjacentFree
<1>16. B \subseteq 0 .. MEM_SIZE
  BY <1>8, Sizes
<1> QED BY <1>3, <1>4, <1>7, <1>9, <1>10, <1>12, <1>13, <1>14, <1>15, <1>16

(* The blocks in use afterwards: those before, and a.                      *)
LEMMA LinkHeld ==
  ASSUME TypeOK, Chain, NoAdjacentFree, NEW a, NEW m, NEW last,
         Linkable(a, m, last), ram' = LinkedAfter(a, m, last)
  PROVE  /\ m \notin Blocks
         /\ {b \in Blocks' \ {MEM_SIZE} : ram'[b].used} = DOMAIN held \cup {a}
         /\ \A b \in DOMAIN held : b # a => ram'[b].next = ram[b].next
<1>1. /\ a \in Blocks /\ a # MEM_SIZE /\ m \in Nat /\ last \in Blocks
      /\ a + H + MIN_SIZE <= m /\ m + H + MIN_SIZE <= last /\ m < ram[a].next
  BY DEF Linkable
<1>2. /\ 0 \in Blocks /\ MEM_SIZE \in Blocks
      /\ \A b \in Blocks : /\ b \in Nat /\ b <= MEM_SIZE /\ ram[b].next \in Blocks
                           /\ ram[b].used \in BOOLEAN
      /\ \A b \in Blocks : b # MEM_SIZE =>
           b < ram[b].next /\ \A c \in Blocks : c <= b \/ ram[b].next <= c
  BY Fields
<1>3. a \in Nat /\ last \in Nat /\ last <= MEM_SIZE /\ a < m /\ m < last
  <2>1. a \in Nat /\ last \in Nat /\ a <= MEM_SIZE /\ last <= MEM_SIZE
    BY <1>1, <1>2
  <2> QED BY <2>1, <1>1, Sizes
<1>4. /\ \A b : b \in Blocks' <=> (b = m \/ (b \in Blocks /\ (b <= a \/ last <= b)))
      /\ \A b \in Blocks : a < b /\ b < last => b = ram[a].next
      /\ ram'[a].next = m /\ ram'[a].used /\ ~ram'[m].used
      /\ \A b \in Blocks' : b \notin {a, m} =>
           b \in Blocks /\ ram'[b].used = ram[b].used /\ ram'[b].next = ram[b].next
  BY Link
<1>5. m \notin Blocks
  <2> SUFFICES ASSUME m \in Blocks PROVE FALSE
    OBVIOUS
  <2>1. m <= a \/ ram[a].next <= m
    BY <1>1, <1>2
  <2>2. ram[a].next \in Nat
    BY <1>1, <1>2
  <2> QED BY <2>1, <2>2, <1>1, <1>3
<1>6. \A b : b \in DOMAIN held <=> b \in Blocks /\ b # MEM_SIZE /\ ram[b].used
  BY DEF TypeOK
<1>7. ASSUME NEW b \in DOMAIN held, b # a
      PROVE  /\ b \in Blocks' /\ b # m /\ b # MEM_SIZE /\ ram'[b].used
             /\ ram'[b].next = ram[b].next
  <2>1. b \in Blocks /\ b # MEM_SIZE /\ ram[b].used /\ b # m /\ b \in Nat
    BY <1>5, <1>6, <1>2
  <2>2. b <= a \/ last <= b
    <3> SUFFICES ASSUME a < b, b < last PROVE FALSE
      BY <2>1, <1>3
    <3>1. b = ram[a].next
      BY <2>1, <1>4
    <3>2. last # ram[a].next
      BY <3>1, <2>1, <1>3
    <3>3. ~ram[ram[a].next].used
      BY <3>2 DEF Linkable
    <3> QED BY <3>1, <3>3, <2>1
  <2>3. b \in Blocks'
    BY <2>1, <2>2, <1>4
  <2> QED BY <2>1, <2>3, <1>4, <1>7
<1>8. ASSUME NEW b \in Blocks', b # MEM_SIZE, ram'[b].used, b # a
      PROVE  b \in DOMAIN held
  <2>1. b # m
    BY <1>4, <1>8
  <2> QED BY <2>1, <1>4, <1>6, <1>8
<1>9. a \in Blocks' /\ ram'[a].used
  BY <1>1, <1>3, <1>4
<1>10. \A b : b \in {c \in Blocks' \ {MEM_SIZE} : ram'[c].used} <=> b \in DOMAIN held \cup {a}
  BY <1>1, <1>7, <1>8, <1>9
<1> QED BY <1>5, <1>7, <1>10

-----------------------------------------------------------------------------
(* Freeing a block merges it with its free neighbours: nothing but those   *)
(* lies between the first and the last struct.                             *)
LEMMA Neighbours ==
  ASSUME TypeOK, Chain, NoAdjacentFree, NEW a \in Blocks, a # MEM_SIZE
  PROVE  /\ First(a) \in Blocks /\ First(a) # MEM_SIZE /\ First(a) <= a
         /\ Last(a) \in Blocks /\ a < Last(a) /\ ram[Last(a)].used
         /\ First(a) # a => ~ram[First(a)].used
         /\ First(a) # 0 => ram[ram[First(a)].prev].used
         /\ \A b \in Blocks : First(a) < b /\ b < Last(a) => b = a \/ ~ram[b].used
         /\ a + H + MIN_SIZE <= Last(a)
<1>1. /\ 0 \in Blocks /\ MEM_SIZE \in Blocks
      /\ \A b \in Blocks : /\ b \in Nat /\ b <= MEM_SIZE /\ ram[b].next \in Blocks
                           /\ ram[b].used \in BOOLEAN
      /\ \A b \in Blocks : b # MEM_SIZE =>
           b < ram[b].next /\ \A c \in Blocks : c <= b \/ ram[b].next <= c
  BY Fields
<1> DEFINE n == ram[a].next
           q == ram[a].prev
<1>2. n \in Blocks /\ a < n /\ a \in Nat /\ n \in Nat /\ a + H + MIN_SIZE <= n
      /\ \A c \in Blocks : c <= a \/ n <= c
  BY <1>1 DEF Chain
<1>3. /\ Last(a) \in Blocks /\ n <= Last(a) /\ ram[Last(a)].used
      /\ \A b \in Blocks : a < b /\ b < Last(a) => b = n /\ ~ram[n].used
  <2>1. CASE PlugsOn(a)
    <3>1. n # MEM_SIZE /\ ~ram[n].used /\ Last(a) = ram[n].next
      BY <2>1 DEF PlugsOn, Last
    <3>2. Last(a) \in Blocks /\ n < Last(a) /\ \A c \in Blocks : c <= n \/ Last(a) <= c
      BY <3>1, <1>1, <1>2
    <3>3. ram[Last(a)].used
      BY <3>1, <1>2 DEF NoAdjacentFree
    <3>4. Last(a) \in Nat
      BY <3>2, <1>1
    <3>5. ASSUME NEW b \in Blocks, a < b, b < Last(a) PROVE b = n
      <4>1. b \in Nat /\ (b <= a \/ n <= b) /\ (b <= n \/ Last(a) <= b)
        BY <3>2, <1>1, <1>2
      <4> QED BY <4>1, <3>4, <3>5, <1>2
    <3>6. n <= Last(a)
      BY <3>2, <3>4, <1>2
    <3>7. \A b \in Blocks : a < b /\ b < Last(a) => b = n /\ ~ram[n].used
      BY <3>1, <3>5
    <3>8. Last(a) \in Blocks
      BY <3>2
    <3> QED BY <3>3, <3>6, <3>7, <3>8
  <2>2. CASE ~PlugsOn(a)
    <3>1. Last(a) = n
      BY <2>2 DEF Last
    <3>2. ram[n].used
      BY <2>2, <1>2, <1>1 DEF PlugsOn, Chain
    <3>3. ASSUME NEW b \in Blocks, a < b, b < n PROVE FALSE
      <4>1. b \in Nat /\ (b <= a \/ n <= b)
        BY <1>1, <1>2
      <4> QED BY <4>1, <3>3, <1>2
    <3>4. n <= n
      BY <1>2
    <3>5. \A b \in Blocks : a < b /\ b < Last(a) => b = n /\ ~ram[n].used
      BY <3>1, <3>3
    <3> QED BY <3>1, <3>2, <3>4, <3>5, <1>2
  <2> QED BY <2>1, <2>2
<1>4. a # 0 => /\ q \in Blocks /\ q < a /\ q # MEM_SIZE /\ ram[q].next = a /\ q \in Nat
               /\ \A c \in Blocks : c <= q \/ a <= c
  <2> SUFFICES ASSUME a # 0
               PROVE  /\ q \in Blocks /\ q < a /\ q # MEM_SIZE /\ ram[q].next = a /\ q \in Nat
                      /\ \A c \in Blocks : c <= q \/ a <= c
    OBVIOUS
  <2>1. q \in Blocks /\ q < a /\ ram[q].next = a
    BY DEF Chain
  <2>2. q \in Nat /\ a <= MEM_SIZE
    BY <2>1, <1>1
  <2>3. q # MEM_SIZE
    BY <2>1, <2>2, <1>2, Sizes
  <2> QED BY <2>1, <2>2, <2>3, <1>1
<1>5. a = 0 => q = a
  BY DEF Chain
<1>6. CASE PlugsBack(a)
  <2>1. a # 0 /\ First(a) = q /\ ~ram[q].used
    BY <1>6, <1>5 DEF PlugsBack, First
  <2>2. ASSUME q # 0 PROVE ram[ram[q].prev].used
    <3>1. ram[q].prev \in Blocks /\ ram[q].prev < q /\ ram[ram[q].prev].next = q
      BY <2>1, <2>2, <1>4 DEF Chain
    <3>2. ram[q].prev # MEM_SIZE
      <4>1. ram[q].prev \in Nat /\ q <= MEM_SIZE
        BY <3>1, <2>1, <1>1, <1>4
      <4> QED BY <4>1, <3>1, <2>1, <1>4, Sizes
    <3> QED BY <3>1, <3>2, <2>1, <1>1 DEF NoAdjacentFree
  <2>3. ASSUME NEW b \in Blocks, q < b, b < Last(a) PROVE b = a \/ ~ram[b].used
    <3>1. b \in Nat /\ (b <= q \/ a <= b)
      BY <2>1, <1>1, <1>4
    <3>2. b = a \/ a < b
      BY <3>1, <2>1, <2>3, <1>2, <1>4
    <3> QED BY <3>2, <2>3, <1>3
  <2>4. q <= a
    BY <2>1, <1>2, <1>4
  <2>5. Last(a) \in Nat
    BY <1>1, <1>3
  <2>6. a < Last(a) /\ a + H + MIN_SIZE <= Last(a)
    BY <2>5, <1>2, <1>3, Sizes
  <2> QED BY <2>1, <2>2, <2>3, <2>4, <2>6, <1>3, <1>4
<1>7. CASE ~PlugsBack(a)
  <2>1. First(a) = a /\ (a # 0 => ram[q].used)
    BY <1>7, <1>4, <1>2 DEF PlugsBack, First
  <2>2. Last(a) \in Nat
    BY <1>1, <1>3
  <2>3. a < Last(a) /\ a + H + MIN_SIZE <= Last(a) /\ a <= a
    BY <2>2, <1>2, <1>3, Sizes
  <2> QED BY <2>1, <2>3, <1>3
<1> QED BY <1>6, <1>7

(* plug_holes keeps the chain and leaves no free neighbours.               *)
LEMMA Plug ==
  ASSUME TypeOK, Chain, NoAdjacentFree, NEW a \in DOMAIN held, ram' = Plugged(a)
  PROVE  /\ \A b : b \in Blocks' <=> b \in Blocks /\ (b <= First(a) \/ Last(a) <= b)
         /\ Blocks' \subseteq 0 .. MEM_SIZE /\ {0, MEM_SIZE} \subseteq Blocks'
         /\ ram' \in [Blocks' -> [next : Blocks', prev : Nat, used : BOOLEAN]]
         /\ First(a) \in Blocks' /\ ~ram'[First(a)].used
         /\ \A b \in Blocks' : b # First(a) =>
              ram'[b].used = ram[b].used /\ ram'[b].next = ram[b].next
         /\ Chain' /\ NoAdjacentFree'
<1> DEFINE f == First(a)
           l == Last(a)
           B == {c \in Blocks : c <= f \/ l <= c}
<1>0. a \in Blocks /\ a # MEM_SIZE
  BY DEF TypeOK
<1>1. /\ f \in Blocks /\ f # MEM_SIZE /\ f <= a
      /\ l \in Blocks /\ a < l /\ ram[l].used
      /\ f # a => ~ram[f].used
      /\ f # 0 => ram[ram[f].prev].used
      /\ a + H + MIN_SIZE <= l
  BY <1>0, Neighbours
<1>2. /\ 0 \in Blocks /\ MEM_SIZE \in Blocks
      /\ \A b \in Blocks : /\ b \in Nat /\ b <= MEM_SIZE /\ ram[b].next \in Blocks
                           /\ ram[b].prev \in Nat /\ ram[b].used \in BOOLEAN
                           /\ ram[b] = Struct(ram[b].next, ram[b].prev, ram[b].used)
      /\ \A b \in Blocks : b # MEM_SIZE =>
           b < ram[b].next /\ \A c \in Blocks : c <= b \/ ram[b].next <= c
  BY Fields
<1>3. a \in Nat /\ f \in Nat /\ l \in Nat /\ f < l /\ f < MEM_SIZE /\ l <= MEM_SIZE
      /\ f + H + MIN_SIZE <= l
  <2>1. a \in Nat /\ f \in Nat /\ l \in Nat /\ f <= MEM_SIZE /\ l <= MEM_SIZE
    BY <1>0, <1>1, <1>2
  <2> QED BY <2>1, <1>1, Sizes
<1>4. \A b : b \in B <=> b \in Blocks /\ (b <= f \/ l <= b)
  OBVIOUS
<1>5. /\ Blocks' = B
      /\ \A b \in B : ram'[b] =
           IF b = f THEN Struct(l, ram[b].prev, FALSE)
           ELSE IF b = l /\ (PlugsOn(a) \/ PlugsBack(a)) THEN Struct(ram[b].next, f, ram[b].used)
           ELSE ram[b]
      /\ ram' = [b \in B |-> ram'[b]]
  BY DEF Plugged, Blocks
<1> HIDE DEF B
<1>6. 0 \in B /\ f \in B /\ l \in B /\ MEM_SIZE \in B
  <2>1. 0 <= f /\ l <= MEM_SIZE /\ f <= f /\ l <= l
    BY <1>3
  <2> QED BY <2>1, <1>1, <1>2, <1>4
<1>7. ram'[f] = Struct(l, ram[f].prev, FALSE)
  BY <1>5, <1>6
<1>8. ram'[f].next = l /\ ram'[f].prev = ram[f].prev /\ ~ram'[f].used
  BY <1>7 DEF Struct
<1>9. ASSUME NEW b \in B, b # f
      PROVE  /\ b \in Blocks /\ (b < f \/ l <= b) /\ ram'[b].used = ram[b].used
             /\ ram'[b].next = ram[b].next
             /\ b # l => ram'[b].prev = ram[b].prev
             /\ ram'[b].prev \in Nat
             /\ ram'[b] = Struct(ram[b].next, ram'[b].prev, ram[b].used)
  <2>1. b \in Blocks /\ (b <= f \/ l <= b)
    BY <1>4
  <2>2. b < f \/ l <= b
    BY <2>1, <1>2, <1>3, <1>9
  <2>3. CASE b = l /\ (PlugsOn(a) \/ PlugsBack(a))
    <3>1. ram'[b] = Struct(ram[b].next, f, ram[b].used)
      BY <2>3, <1>5, <1>9
    <3>2. ram'[b].used = ram[b].used /\ ram'[b].next = ram[b].next /\ ram'[b].prev = f
      BY <3>1 DEF Struct
    <3> QED BY <3>1, <3>2, <2>1, <2>2, <2>3, <1>3
  <2>4. CASE ~(b = l /\ (PlugsOn(a) \/ PlugsBack(a)))
    <3>1. ram'[b] = ram[b]
      BY <2>4, <1>5, <1>9
    <3> QED BY <3>1, <2>1, <2>2, <1>2
  <2> QED BY <2>3, <2>4
<1>10. l # MEM_SIZE => ram'[l].prev = f
  <2> SUFFICES ASSUME l # MEM_SIZE PROVE ram'[l].prev = f
    OBVIOUS
  <2>0. l # f
    BY <1>3
  <2>1. CASE PlugsOn(a) \/ PlugsBack(a)
    <3>1. ram'[l] = Struct(ram[l].next, f, ram[l].used)
      BY <2>0, <2>1, <1>5, <1>6
    <3> QED BY <3>1 DEF Struct
  <2>2. CASE ~(PlugsOn(a) \/ PlugsBack(a))
    <3>1. ram'[l] = ram[l] /\ f = a /\ l = ram[a].next
      BY <2>0, <2>2, <1>5, <1>6 DEF First, Last
    <3>2. l # 0
      BY <1>3
    <3>3. ram[l].prev \in Blocks /\ ram[l].prev < l /\ ram[ram[l].prev].next = l
      BY <3>2, <1>1 DEF Chain
    <3>4. ram[l].prev \in Nat /\ ram[l].prev # MEM_SIZE
      <4>1. ram[l].prev \in Nat
        BY <3>3, <1>2
      <4> QED BY <4>1, <3>3, <1>3, Sizes
    <3>5. /\ ram[l].prev <= a \/ l <= ram[l].prev
          /\ a <= ram[l].prev \/ l <= a
      BY <3>1, <3>3, <3>4, <1>0, <1>2
    <3>6. ram[l].prev = a
      BY <3>3, <3>4, <3>5, <1>1, <1>3
    <3> QED BY <3>1, <3>6
  <2> QED BY <2>1, <2>2
<1>11. ASSUME NEW b \in B, b # MEM_SIZE, b # f
       PROVE  ram[b].next \in B
  <2>1. b \in Blocks /\ (b < f \/ l <= b)
    BY <1>9, <1>11
  <2>2. ram[b].next \in Blocks /\ b < ram[b].next /\ (f <= b \/ ram[b].next <= f)
    BY <2>1, <1>1, <1>2, <1>11
  <2>3. b \in Nat /\ ram[b].next \in Nat
    BY <2>1, <2>2, <1>2
  <2>4. ram[b].next <= f \/ l <= ram[b].next
    BY <2>1, <2>2, <2>3, <1>3
  <2> QED BY <2>2, <2>4, <1>4
<1>12. ram' \in [B -> [next : B, prev : Nat, used : BOOLEAN]]
  <2>1. \A n \in B, q \in Nat, u \in BOOLEAN :
          Struct(n, q, u) \in [next : B, prev : Nat, used : BOOLEAN]
    BY DEF Struct
  <2>2. ASSUME NEW b \in B PROVE ram'[b] \in [next : B, prev : Nat, used : BOOLEAN]
    <3>1. CASE b = f
      <4>1. ram[f].prev \in Nat
        BY <1>1, <1>2
      <4> QED BY <3>1, <4>1, <2>1, <1>6, <1>7
    <3>2. CASE b # f
      <4>1. ram[b].next \in B
        BY <3>2, <1>6, <1>11 DEF Chain
      <4>2. ram[b].used \in BOOLEAN
        BY <3>2, <1>2, <1>9
      <4> QED BY <3>2, <4>1, <4>2, <2>1, <1>9
    <3> QED BY <3>1, <3>2
  <2> QED BY <2>2, <1>5
<1>13. Chain'
  <2>1. ASSUME NEW b \in B, b # MEM_SIZE
        PROVE  b + H + MIN_SIZE <= ram'[b].next /\ \A c \in B : c <= b \/ ram'[b].next <= c
    <3>1. CASE b = f
      BY <3>1, <1>3, <1>4, <1>8
    <3>2. CASE b # f
      <4>1. b \in Blocks /\ ram'[b].next = ram[b].next
        BY <3>2, <1>9
      <4>2. b + H + MIN_SIZE <= ram[b].next /\ \A c \in Blocks : c <= b \/ ram[b].next <= c
        BY <4>1, <2>1 DEF Chain
      <4> QED BY <4>1, <4>2, <1>4
    <3> QED BY <3>1, <3>2
  <2>2. ASSUME NEW b \in B, b # 0, b # MEM_SIZE
        PROVE  ram'[b].prev \in B /\ ram'[b].prev < b /\ ram'[ram'[b].prev].next = b
    <3>1. CASE b = l
      BY <3>1, <2>2, <1>3, <1>6, <1>8, <1>10
    <3>2. CASE b # l
      <4>1. b \in Blocks /\ ram'[b].prev = ram[b].prev /\ (b <= f \/ l < b)
        <5>1. CASE b = f
          BY <5>1, <1>1, <1>3, <1>8
        <5>2. CASE b # f
          BY <5>2, <3>2, <1>2, <1>3, <1>9
        <5> QED BY <5>1, <5>2
      <4>2. ram[b].prev \in Blocks /\ ram[b].prev < b /\ ram[ram[b].prev].next = b
        BY <4>1, <2>2 DEF Chain
      <4>3. b \in Nat /\ ram[b].prev \in Nat /\ b <= MEM_SIZE
        BY <4>1, <4>2, <1>2
      <4>4. ram[b].prev # MEM_SIZE
        BY <4>2, <4>3, Sizes
      <4>5. l <= ram[b].prev \/ b <= l
        BY <4>2, <4>4, <1>1, <1>2
      <4>6. ram[b].prev < f \/ l <= ram[b].prev
        BY <4>1, <4>2, <4>3, <4>5, <1>3
      <4>7. ram[b].prev \in B /\ ram[b].prev # f
        BY <4>2, <4>3, <4>6, <1>3, <1>4
      <4> QED BY <4>1, <4>2, <4>7, <1>9
    <3> QED BY <3>1, <3>2
  <2>3. ram'[0].prev = 0
    <3>1. ram[0].prev = 0
      BY DEF Chain
    <3>2. 0 # l
      BY <1>3
    <3> QED BY <3>1, <3>2, <1>6, <1>8, <1>9
  <2>4. ram'[MEM_SIZE].used /\ ram'[MEM_SIZE].next = MEM_SIZE
    <3>1. ram[MEM_SIZE].used /\ ram[MEM_SIZE].next = MEM_SIZE
      BY DEF Chain
    <3> QED BY <3>1, <1>1, <1>6, <1>9
  <2> QED BY <2>1, <2>2, <2>3, <2>4, <1>5 DEF Chain
<1>14. NoAdjacentFree'
  <2>1. ASSUME NEW b \in B, b # MEM_SIZE, ~ram'[b].used
        PROVE  ram'[ram'[b].next].used
    <3>1. CASE b = f
      <4>1. l # f
        BY <1>3
      <4> QED BY <3>1, <4>1, <1>1, <1>6, <1>8, <1>9
    <3>2. CASE b # f
      <4>1. b \in Blocks /\ ~ram[b].used /\ ram'[b].next = ram[b].next
        BY <3>2, <2>1, <1>9
      <4>2. ram[ram[b].next].used /\ ram[b].next \in B
        BY <3>2, <4>1, <2>1, <1>11 DEF NoAdjacentFree
      <4>3. ram[b].next # f
        <5> SUFFICES ASSUME ram[b].next = f PROVE FALSE
          OBVIOUS
        <5>1. b < f /\ b \in Nat
          BY <4>1, <2>1, <1>2
        <5>2. f # 0
          BY <5>1, <1>3
        <5>3. ram[f].prev \in Blocks /\ ram[f].prev < f /\ ram[ram[f].prev].next = f
          BY <5>2, <1>1 DEF Chain
        <5>4. ram[f].prev \in Nat /\ ram[f].prev # MEM_SIZE
          <6>1. ram[f].prev \in Nat
            BY <5>3, <1>2
          <6> QED BY <6>1, <5>3, <1>3, Sizes
        <5>5. /\ b <= ram[f].prev \/ f <= b
              /\ ram[f].prev <= b \/ f <= ram[f].prev
          BY <4>1, <5>3, <5>4, <2>1, <1>2
        <5>6. ram[f].prev = b
          BY <5>1, <5>3, <5>4, <5>5, <1>3
        <5> QED BY <5>2, <5>6, <4>1, <1>1
      <4> QED BY <4>1, <4>2, <4>3, <1>9
    <3> QED BY <3>1, <3>2
  <2> QED BY <2>1, <1>5 DEF NoAdjacentFree
<1>15. B \subseteq 0 .. MEM_SIZE
  <2>1. \A b \in B : b \in Nat /\ b <= MEM_SIZE
    BY <1>2, <1>4
  <2> QED BY <2>1, Sizes
<1> QED BY <1>4, <1>5, <1>6, <1>8, <1>9, <1>12, <1>13, <1>14, <1>15

-----------------------------------------------------------------------------
(* The block that is freed is the lowest free one, or there is a lower one.*)
LEMMA FreeStep ==
  ASSUME IInv, NEW a \in DOMAIN held, mem_free(a)
  PROVE  IInv'
<1> DEFINE f == First(a)
           l == Last(a)
<1>0. TypeOK /\ Chain /\ NoAdjacentFree /\ LowestFree /\ HeldFits
  BY DEF IInv
<1>1. /\ ram' = Plugged(a) /\ lfree' = LowestBack(a)
      /\ held' = [b \in DOMAIN held \ {a} |-> held[b]]
  BY DEF mem_free
<1>2. /\ a \in Blocks /\ a # MEM_SIZE /\ ram[a].used /\ lfree \in Blocks
      /\ \A b : b \in DOMAIN held <=> b \in Blocks /\ b # MEM_SIZE /\ ram[b].used
      /\ \A b \in DOMAIN held : held[b] \in Nat
  BY <1>0 DEF TypeOK
<1>3. /\ f \in Blocks /\ f # MEM_SIZE /\ f <= a
      /\ l \in Blocks /\ a < l
      /\ f # a => ~ram[f].used
      /\ \A b \in Blocks : f < b /\ b < l => b = a \/ ~ram[b].used
  BY <1>0, <1>2, Neighbours
<1>4. /\ 0 \in Blocks /\ MEM_SIZE \in Blocks
      /\ \A b \in Blocks : /\ b \in Nat /\ b <= MEM_SIZE /\ ram[b].next \in Blocks
                           /\ ram[b].used \in BOOLEAN
      /\ \A b \in Blocks : b # MEM_SIZE => b < ram[b].next
  BY <1>0, Fields
<1>5. /\ \A b : b \in Blocks' <=> b \in Blocks /\ (b <= f \/ l <= b)
      /\ Blocks' \subseteq 0 .. MEM_SIZE /\ {0, MEM_SIZE} \subseteq Blocks'
      /\ ram' \in [Blocks' -> [next : Blocks', prev : Nat, used : BOOLEAN]]
      /\ f \in Blocks' /\ ~ram'[f].used
      /\ \A b \in Blocks' : b # f =>
           ram'[b].used = ram[b].used /\ ram'[b].next = ram[b].next
      /\ Chain' /\ NoAdjacentFree'
  BY <1>0, <1>1, Plug
<1>6. a \in Nat /\ f \in Nat /\ l \in Nat /\ lfree \in Nat /\ ram[a].next \in Nat
      /\ a < ram[a].next
  BY <1>2, <1>3, <1>4
<1>7. (lfree = MEM_SIZE \/ ~ram[lfree].used) /\ \A b \in Blocks : b < lfree => ram[b].used
  BY <1>0 DEF LowestFree
<1> HIDE DEF f, l
<1>8. lfree' = (IF lfree < f THEN lfree ELSE f)
  <2>1. CASE f = a
    <3>1. lfree # a
      BY <1>2, <1>7
    <3>2. LowestFreed(a) = IF lfree < a THEN lfree ELSE a
      BY <3>1, <1>6 DEF LowestFreed
    <3>3. LowestOn(a) = LowestFreed(a)
      BY <3>2, <1>6 DEF LowestOn
    <3>4. LowestBack(a) = LowestOn(a)
      BY <2>1 DEF LowestBack, First, f
    <3> QED BY <2>1, <3>2, <3>3, <3>4, <1>1
  <2>2. CASE f # a
    <3>1. lfree <= f /\ f < a
      BY <2>2, <1>3, <1>6, <1>7
    <3>2. LowestFreed(a) = lfree
      BY <3>1, <1>6 DEF LowestFreed
    <3>3. LowestOn(a) = lfree
      BY <3>1, <3>2, <1>6 DEF LowestOn
    <3>4. LowestBack(a) = lfree
      BY <3>1, <3>3, <1>6 DEF LowestBack
    <3> QED BY <3>1, <3>4, <1>1, <1>6
  <2> QED BY <2>1, <2>2
<1>9. LowestFree'
  <2>1. CASE lfree < f
    <3>1. lfree' = lfree /\ lfree \in Blocks' /\ lfree # f
      BY <2>1, <1>2, <1>5, <1>6, <1>8
    <3>2. lfree' = MEM_SIZE \/ ~ram'[lfree'].used
      BY <3>1, <1>5, <1>7
    <3>3. ASSUME NEW b \in Blocks', b < lfree PROVE ram'[b].used
      <4>1. b \in Blocks /\ b # f
        BY <3>3, <2>1, <1>4, <1>5, <1>6
      <4> QED BY <4>1, <3>3, <1>5, <1>7
    <3> QED BY <3>1, <3>2, <3>3 DEF LowestFree
  <2>2. CASE ~(lfree < f)
    <3>1. lfree' = f
      BY <2>2, <1>8
    <3>2. ASSUME NEW b \in Blocks', b < f PROVE ram'[b].used
      <4>1. b \in Blocks /\ b # f /\ b < lfree
        BY <3>2, <2>2, <1>4, <1>5, <1>6
      <4> QED BY <4>1, <1>5, <1>7
    <3> QED BY <3>1, <3>2, <1>5 DEF LowestFree
  <2> QED BY <2>1, <2>2
<1>10. ASSUME NEW b \in DOMAIN held, b # a
       PROVE  b \in Blocks' /\ b # f /\ b # MEM_SIZE
  <2>1. b \in Blocks /\ ram[b].used /\ b # MEM_SIZE /\ b \in Nat
    BY <1>2, <1>4
  <2>2. b # f
    BY <2>1, <1>3, <1>10
  <2>3. b <= f \/ l <= b
    BY <2>1, <1>3, <1>6, <1>10
  <2> QED BY <2>1, <2>2, <2>3, <1>5
<1>11. ASSUME NEW b \in Blocks', b # MEM_SIZE, ram'[b].used
       PROVE  b \in DOMAIN held /\ b # a
  <2>1. b # f /\ b \in Blocks
    BY <1>5, <1>11
  <2>2. b # a
    BY <2>1, <1>3, <1>5, <1>6
  <2> QED BY <2>1, <2>2, <1>2, <1>5, <1>11
<1>12. {b \in Blocks' \ {MEM_SIZE} : ram'[b].used} = DOMAIN held \ {a}
  <2>1. \A b \in DOMAIN held : b # a => b \in Blocks' /\ b # MEM_SIZE /\ ram'[b].used
    BY <1>2, <1>5, <1>10
  <2> QED BY <2>1, <1>11
<1>13. TypeOK'
  <2>1. held' \in [DOMAIN held \ {a} -> Nat]
    BY <1>1, <1>2
  <2>2. lfree' \in Blocks'
    BY <1>9 DEF LowestFree
  <2> QED BY <2>1, <2>2, <1>5, <1>12 DEF TypeOK
<1>14. HeldFits'
  <2>1. ASSUME NEW b \in DOMAIN held', TRUE PROVE b + H + held'[b] <= ram'[b].next
    <3>1. b \in DOMAIN held /\ b # a /\ held'[b] = held[b]
      BY <1>1
    <3>2. b + H + held[b] <= ram[b].next
      BY <3>1, <1>0 DEF HeldFits
    <3> QED BY <3>1, <3>2, <1>5, <1>10
  <2> QED BY <2>1 DEF HeldFits
<1> QED BY <1>5, <1>9, <1>13, <1>14 DEF IInv

-----------------------------------------------------------------------------
(* The first block that fits, taken whole or in part.                      *)
LEMMA MallocStep ==
  ASSUME IInv, NEW n \in Requests, mem_malloc(n)
  PROVE  IInv'
<1>0. TypeOK /\ Chain /\ NoAdjacentFree /\ LowestFree /\ HeldFits
  BY DEF IInv
<1>1. CASE UNCHANGED vars
  BY <1>0, <1>1 DEF vars, IInv, TypeOK, Chain, NoAdjacentFree, LowestFree, HeldFits, Blocks
<1>2. ASSUME NEW a \in Blocks, FirstFit(a, SizeOf(n)), ram' = Taken(a, SizeOf(n)),
             \/ a # lfree /\ lfree' = lfree
             \/ a = lfree /\ \E c \in DOMAIN ram' : LowestFrom(ram', c) /\ lfree' = c,
             held' = Promised(a, n)
      PROVE  IInv'
  <2> DEFINE size == SizeOf(n)
             m == a + H + size
  <2>1. /\ size \in Nat /\ n \in Nat /\ n <= size /\ MIN_SIZE <= size
    BY SizeHolds, Sizes
  <2>2. /\ 0 \in Blocks /\ MEM_SIZE \in Blocks
        /\ \A b \in Blocks : /\ b \in Nat /\ b <= MEM_SIZE /\ ram[b].next \in Blocks
                             /\ ram[b].prev \in Nat /\ ram[b].used \in BOOLEAN
                             /\ ram[b] = Struct(ram[b].next, ram[b].prev, ram[b].used)
    BY <1>0, Fields
  <2>3. /\ lfree <= a /\ ~ram[a].used /\ ram[a].next - (a + H) >= size
        /\ lfree \in Nat /\ a \in Nat /\ ram[a].next \in Nat /\ lfree \in Blocks
    BY <1>2, <1>0, <2>2 DEF FirstFit, Fits, Room, H, LowestFree
  <2>4. a # MEM_SIZE
    BY <2>3, <1>0 DEF Chain
  <2>5. (lfree = MEM_SIZE \/ ~ram[lfree].used) /\ \A b \in Blocks : b < lfree => ram[b].used
    BY <1>0 DEF LowestFree
  <2>6. /\ \A b : b \in DOMAIN held <=> b \in Blocks /\ b # MEM_SIZE /\ ram[b].used
        /\ \A b \in DOMAIN held : held[b] \in Nat /\ b + H + held[b] <= ram[b].next
    BY <1>0 DEF TypeOK, HeldFits
  <2>7. a \notin DOMAIN held
    BY <2>3, <2>6
  <2> HIDE DEF size, m
  \* What both ways of taking the block have in common.
  <2>8. /\ Blocks' \subseteq 0 .. MEM_SIZE /\ {0, MEM_SIZE} \subseteq Blocks'
        /\ ram' \in [Blocks' -> [next : Blocks', prev : Nat, used : BOOLEAN]]
        /\ Chain' /\ NoAdjacentFree'
        /\ {b \in Blocks' \ {MEM_SIZE} : ram'[b].used} = DOMAIN held \cup {a}
        /\ \A b \in DOMAIN held : ram'[b].next = ram[b].next
        /\ a + H + n <= ram'[a].next
        /\ \A b \in Blocks : b <= a => b \in Blocks'
        /\ \A b \in Blocks' : b <= a => b \in Blocks
        /\ \A b \in Blocks' : b < a => ram'[b].used = ram[b].used
    <3>1. CASE Room(a) >= size + SIZEOF_STRUCT_MEM + MIN_SIZE
      <4>1. ram' = LinkedAfter(a, m, ram[a].next)
        BY <3>1, <1>2 DEF Taken, H, m, size
      <4>2. /\ m \in Nat /\ a + H + MIN_SIZE <= m /\ m + H + MIN_SIZE <= ram[a].next
            /\ a < m /\ m < ram[a].next /\ a + H + n <= m
        BY <3>1, <2>1, <2>3, Sizes DEF Room, H, m
      <4>3. ram[ram[a].next].used
        BY <2>3, <2>4, <1>0 DEF NoAdjacentFree
      <4>4. Linkable(a, m, ram[a].next)
        BY <4>2, <4>3, <2>2, <2>3, <2>4 DEF Linkable
      <4>5. /\ \A b : b \in Blocks' <=>
                 (b = m \/ (b \in Blocks /\ (b <= a \/ ram[a].next <= b)))
            /\ Blocks' \subseteq 0 .. MEM_SIZE /\ {0, MEM_SIZE} \subseteq Blocks'
            /\ ram' \in [Blocks' -> [next : Blocks', prev : Nat, used : BOOLEAN]]
            /\ ram'[a].next = m
            /\ \A b \in Blocks' : b \notin {a, m} => ram'[b].used = ram[b].used
            /\ Chain' /\ NoAdjacentFree'
        BY <1>0, <4>1, <4>4, Link
      <4>6. /\ {b \in Blocks' \ {MEM_SIZE} : ram'[b].used} = DOMAIN held \cup {a}
            /\ \A b \in DOMAIN held : b # a => ram'[b].next = ram[b].next
        BY <1>0, <4>1, <4>4, LinkHeld
      <4>7. ASSUME NEW b \in Blocks', b <= a
            PROVE  b # m /\ b \in Blocks
        BY <4>2, <4>5, <4>7, <2>3
      <4>8. ASSUME NEW b \in Blocks', b < a
            PROVE  ram'[b].used = ram[b].used
        <5>1. b # m /\ b # a
          BY <4>2, <4>8, <2>3
        <5> QED BY <5>1, <4>5
      <4>9. \A b \in Blocks : b <= a => b \in Blocks'
        BY <4>5
      <4>10. a + H + n <= ram'[a].next
        BY <4>2, <4>5
      <4>11. \A b \in DOMAIN held : ram'[b].next = ram[b].next
        BY <4>6, <2>7
      <4> QED BY <4>5, <4>6, <4>7, <4>8, <4>9, <4>10, <4>11
    <3>2. CASE ~(Room(a) >= size + SIZEOF_STRUCT_MEM + MIN_SIZE)
      <4>1. ram' = [ram EXCEPT ![a].used = TRUE]
        BY <3>2, <1>2 DEF Taken, size
      <4>2. Blocks' = Blocks
        BY <4>1 DEF Blocks
      <4>3. /\ ram'[a].next = ram[a].next /\ ram'[a].prev = ram[a].prev /\ ram'[a].used
            /\ \A b \in Blocks : b # a => ram'[b] = ram[b]
        BY <4>1, <2>2 DEF Blocks, Struct
      <4>4. \A b \in Blocks : ram'[b].next = ram[b].next /\ ram'[b].prev = ram[b].prev
        BY <4>3
      <4>5. ram' \in [Blocks -> [next : Blocks, prev : Nat, used : BOOLEAN]]
        BY <4>1, <1>0 DEF TypeOK, Blocks
      <4>6. Chain'
        <5>1. \A b \in Blocks \ {MEM_SIZE} :
                /\ b + H + MIN_SIZE <= ram'[b].next
                /\ \A c \in Blocks : c <= b \/ ram'[b].next <= c
          BY <4>4, <1>0 DEF Chain
        <5>2. \A b \in Blocks \ {0, MEM_SIZE} :
                ram'[b].prev \in Blocks /\ ram'[b].prev < b /\ ram'[ram'[b].prev].next = b
          BY <4>4, <1>0 DEF Chain
        <5>3. ram'[0].prev = 0
          BY <4>4, <2>2, <1>0 DEF Chain
        <5>4. ram'[MEM_SIZE].used /\ ram'[MEM_SIZE].next = MEM_SIZE
          BY <4>3, <2>2, <2>4, <1>0 DEF Chain
        <5> QED BY <5>1, <5>2, <5>3, <5>4, <4>2 DEF Chain
      <4>7. NoAdjacentFree'
        <5>1. ASSUME NEW b \in Blocks, b # MEM_SIZE, ~ram'[b].used
              PROVE  ram'[ram'[b].next].used
          <6>1. b # a /\ ~ram[b].used /\ ram'[b].next = ram[b].next
            BY <5>1, <4>3
          <6>2. ram[ram[b].next].used /\ ram[b].next \in Blocks
            BY <6>1, <5>1, <2>2, <1>0 DEF NoAdjacentFree
          <6> QED BY <6>1, <6>2, <4>3
        <5> QED BY <5>1, <4>2 DEF NoAdjacentFree
      <4>8. \A b : b \in {c \in Blocks' \ {MEM_SIZE} : ram'[c].used} <=> b \in DOMAIN held \cup {a}
        BY <4>2, <4>3, <2>4, <2>6
      <4>9. a + H + n <= ram'[a].next
        BY <4>3, <2>1, <2>3, Sizes
      <4>10. \A b \in DOMAIN held : ram'[b].next = ram[b].next
        BY <4>4, <2>6
      <4>11. \A b \in Blocks : b < a => ram'[b].used = ram[b].used
        BY <4>3, <2>2, <2>3
      <4>12. Blocks \subseteq 0 .. MEM_SIZE /\ {0, MEM_SIZE} \subseteq Blocks
        BY <1>0 DEF TypeOK
      <4> QED BY <4>2, <4>5, <4>6, <4>7, <4>8, <4>9, <4>10, <4>11, <4>12
    <3> QED BY <3>1, <3>2
  <2>9. LowestFree'
    <3>1. CASE a # lfree /\ lfree' = lfree
      <4>1. lfree < a
        BY <3>1, <2>3
      <4>2. lfree \in Blocks' /\ ram'[lfree].used = ram[lfree].used
        BY <4>1, <2>3, <2>8
      <4>3. ASSUME NEW b \in Blocks', b < lfree PROVE ram'[b].used
        <5>1. b \in Nat
          BY <2>8
        <5>2. b < a /\ b <= a
          BY <5>1, <4>1, <4>3, <2>3
        <5> QED BY <5>2, <4>3, <2>5, <2>8
      <4> QED BY <3>1, <4>2, <4>3, <2>5 DEF LowestFree
    <3>2. ASSUME a = lfree, NEW c \in DOMAIN ram', LowestFrom(ram', c), lfree' = c
          PROVE  LowestFree'
      <4>1. /\ c \in Blocks' /\ lfree <= c /\ (c = MEM_SIZE \/ ~ram'[c].used)
            /\ \A b \in Blocks' : lfree <= b /\ b < c => ram'[b].used
        BY <3>2 DEF LowestFrom, Blocks
      <4>2. ASSUME NEW b \in Blocks', b < c PROVE ram'[b].used
        <5>1. b \in Nat
          BY <2>8
        <5>2. CASE lfree <= b
          BY <5>2, <4>1, <4>2
        <5>3. CASE b < lfree
          <6>1. b < a /\ b <= a
            BY <5>1, <5>3, <3>2, <2>3
          <6> QED BY <6>1, <5>3, <2>5, <2>8
        <5> QED BY <5>1, <5>2, <5>3, <2>3
      <4> QED BY <3>2, <4>1, <4>2 DEF LowestFree
    <3> QED BY <3>1, <3>2, <1>2
  <2>10. /\ DOMAIN held' = DOMAIN held \cup {a} /\ held'[a] = n
         /\ \A b \in DOMAIN held : held'[b] = held[b]
         /\ held' \in [DOMAIN held \cup {a} -> Nat]
    BY <1>2, <2>1, <2>6, <2>7 DEF Promised
  <2>11. TypeOK'
    <3>1. lfree' \in Blocks'
      BY <2>9 DEF LowestFree
    <3> QED BY <3>1, <2>8, <2>10 DEF TypeOK
  <2>12. HeldFits'
    <3>1. ASSUME NEW b \in DOMAIN held' PROVE b + H + held'[b] <= ram'[b].next
      BY <2>6, <2>8, <2>10
    <3> QED BY <3>1 DEF HeldFits
  <2> QED BY <2>8, <2>9, <2>11, <2>12 DEF IInv
<1> QED BY <1>1, <1>2 DEF mem_malloc

-----------------------------------------------------------------------------
(* A block is cut short: a free struct moves down to its new end, or a new *)
(* one is put there.                                                       *)
LEMMA TrimStep ==
  ASSUME IInv, NEW a \in DOMAIN held, NEW n \in Requests, mem_trim(a, n)
  PROVE  IInv'
<1> DEFINE size == SizeOf(n)
           m == a + H + size
           next == ram[a].next
<1>0. TypeOK /\ Chain /\ NoAdjacentFree /\ LowestFree /\ HeldFits
  BY DEF IInv
<1>1. /\ size \in Nat /\ n \in Nat /\ n <= size /\ MIN_SIZE <= size
  BY SizeHolds, Sizes
<1>2. /\ 0 \in Blocks /\ MEM_SIZE \in Blocks
      /\ \A b \in Blocks : /\ b \in Nat /\ b <= MEM_SIZE /\ ram[b].next \in Blocks
                           /\ ram[b].used \in BOOLEAN
      /\ \A b \in Blocks : b # MEM_SIZE =>
           b < ram[b].next /\ \A c \in Blocks : c <= b \/ ram[b].next <= c
  BY <1>0, Fields
<1>3. /\ \A b : b \in DOMAIN held <=> b \in Blocks /\ b # MEM_SIZE /\ ram[b].used
      /\ \A b \in DOMAIN held : held[b] \in Nat /\ b + H + held[b] <= ram[b].next
      /\ held \in [DOMAIN held -> Nat]
  BY <1>0 DEF TypeOK, HeldFits
<1>4. a \in Blocks /\ a # MEM_SIZE /\ ram[a].used
  BY <1>3
<1>5. a \in Nat /\ next \in Blocks /\ next \in Nat /\ \A c \in Blocks : c <= a \/ next <= c
  BY <1>2, <1>4
<1>6. /\ lfree \in Blocks /\ lfree \in Nat /\ (lfree = MEM_SIZE \/ ~ram[lfree].used)
      /\ \A b \in Blocks : b < lfree => ram[b].used
  BY <1>0, <1>2 DEF LowestFree
<1>7. /\ DOMAIN held' = DOMAIN held /\ held'[a] = n
      /\ \A b \in DOMAIN held : b # a => held'[b] = held[b]
      /\ held' \in [DOMAIN held -> Nat]
  BY <1>1, <1>3 DEF mem_trim
<1>8. m \in Nat /\ a + H + MIN_SIZE <= m /\ a < m /\ a + H + n <= m
  BY <1>1, <1>5, Sizes
<1>9. Room(a) = next - (a + H)
  BY DEF Room, H
<1>10. \/ /\ size < Room(a) /\ ~ram[next].used
          /\ ram' = LinkedAfter(a, m, ram[next].next)
          /\ lfree' = IF lfree = next THEN m ELSE lfree
       \/ /\ ram[next].used /\ size + H + MIN_SIZE <= Room(a)
          /\ ram' = LinkedAfter(a, m, next)
          /\ lfree' = IF m < lfree THEN m ELSE lfree
       \/ size <= Room(a) /\ UNCHANGED <<ram, lfree>>
  BY DEF mem_trim, H
<1> HIDE DEF size, m, next
\* The new list, and then what is left to show.
<1>11. ASSUME NEW last, Linkable(a, m, last), ram' = LinkedAfter(a, m, last), LowestFree'
       PROVE  IInv'
  <2>1. /\ Blocks' \subseteq 0 .. MEM_SIZE /\ {0, MEM_SIZE} \subseteq Blocks'
        /\ ram' \in [Blocks' -> [next : Blocks', prev : Nat, used : BOOLEAN]]
        /\ ram'[a].next = m /\ Chain' /\ NoAdjacentFree'
    BY <1>0, <1>11, Link
  <2>2. /\ {b \in Blocks' \ {MEM_SIZE} : ram'[b].used} = DOMAIN held \cup {a}
        /\ \A b \in DOMAIN held : b # a => ram'[b].next = ram[b].next
    BY <1>0, <1>11, LinkHeld
  <2>3. DOMAIN held \cup {a} = DOMAIN held
    OBVIOUS
  <2>4. TypeOK'
    <3>1. lfree' \in Blocks'
      BY <1>11 DEF LowestFree
    <3> QED BY <3>1, <2>1, <2>2, <2>3, <1>7 DEF TypeOK
  <2>5. HeldFits'
    <3>1. ASSUME NEW b \in DOMAIN held PROVE b + H + held'[b] <= ram'[b].next
      <4>1. CASE b = a
        BY <4>1, <2>1, <1>7, <1>8
      <4>2. CASE b # a
        BY <4>2, <2>2, <1>3, <1>7
      <4> QED BY <4>1, <4>2
    <3> QED BY <3>1, <1>7 DEF HeldFits
  <2> QED BY <2>1, <2>4, <2>5, <1>11 DEF IInv
<1>12. CASE /\ size < Room(a) /\ ~ram[next].used
            /\ ram' = LinkedAfter(a, m, ram[next].next)
            /\ lfree' = IF lfree = next THEN m ELSE lfree
  <2> DEFINE last == ram[next].next
  <2>1. next # MEM_SIZE
    BY <1>12, <1>0 DEF Chain
  <2>2. /\ last \in Blocks /\ last \in Nat /\ next < last /\ next + H + MIN_SIZE <= last
        /\ ram[last].used
    <3>1. last \in Blocks /\ next < last
      BY <2>1, <1>2, <1>5
    <3>2. next + H + MIN_SIZE <= last
      BY <2>1, <1>0, <1>5 DEF Chain
    <3>3. ram[last].used
      BY <2>1, <1>0, <1>5, <1>12 DEF NoAdjacentFree
    <3> QED BY <3>1, <3>2, <3>3, <1>2
  <2>3. m < next
    BY <1>5, <1>9, <1>12, <1>1, Sizes DEF m
  <2>4. m + H + MIN_SIZE <= last
    BY <2>2, <2>3, <1>5, <1>8, Sizes
  <2> HIDE DEF last
  <2>5. Linkable(a, m, last)
    BY <2>2, <2>3, <2>4, <1>4, <1>8, <1>12 DEF Linkable, last, next
  <2>6. ram' = LinkedAfter(a, m, last)
    BY <1>12 DEF last
  <2>7. /\ \A b : b \in Blocks' <=> (b = m \/ (b \in Blocks /\ (b <= a \/ last <= b)))
        /\ \A b \in Blocks : a < b /\ b < last => b = next
        /\ ram'[a].used /\ ~ram'[m].used
        /\ \A b \in Blocks' : b \notin {a, m} => b \in Blocks /\ ram'[b].used = ram[b].used
    BY <1>0, <2>5, <2>6, Link DEF next
  <2>8. m \notin Blocks
    BY <1>0, <2>5, <2>6, LinkHeld
  <2>9. lfree <= next /\ lfree # a
    BY <1>4, <1>5, <1>6, <1>12
  <2>10. LowestFree'
    <3>1. CASE lfree = next
      <4>1. lfree' = m /\ m \in Blocks'
        BY <3>1, <2>7, <1>12
      <4>2. ASSUME NEW b \in Blocks', b < m PROVE ram'[b].used
        <5>1. b # m /\ b \in Blocks /\ b \in Nat
          <6>1. b # m
            BY <4>2, <1>8
          <6> QED BY <6>1, <2>7, <1>2
        <5>2. b < lfree
          BY <5>1, <4>2, <3>1, <2>3, <1>5, <1>8
        <5> QED BY <5>1, <5>2, <2>7, <1>6
      <4> QED BY <4>1, <4>2, <2>7 DEF LowestFree
    <3>2. CASE lfree # next
      <4>1. lfree' = lfree /\ lfree < next /\ lfree < a
        BY <3>2, <2>9, <1>5, <1>6, <1>12
      <4>2. lfree \in Blocks' /\ lfree # m /\ lfree <= a
        BY <4>1, <2>7, <2>8, <1>5, <1>6
      <4>3. lfree' = MEM_SIZE \/ ~ram'[lfree'].used
        BY <4>1, <4>2, <2>7, <2>9, <1>6
      <4>4. ASSUME NEW b \in Blocks', b < lfree PROVE ram'[b].used
        <5>1. b # m
          BY <4>1, <4>4, <1>5, <1>6, <1>8
        <5> QED BY <5>1, <4>4, <2>7, <1>6
      <4> QED BY <4>1, <4>2, <4>3, <4>4 DEF LowestFree
    <3> QED BY <3>1, <3>2
  <2> QED BY <2>5, <2>6, <2>10, <1>11
<1>13. CASE /\ ram[next].used /\ size + H + MIN_SIZE <= Room(a)
            /\ ram' = LinkedAfter(a, m, next)
            /\ lfree' = IF m < lfree THEN m ELSE lfree
  <2>1. m < next /\ m + H + MIN_SIZE <= next
    BY <1>1, <1>5, <1>9, <1>13, Sizes DEF m
  <2>2. Linkable(a, m, next)
    BY <2>1, <1>4, <1>5, <1>8, <1>13 DEF Linkable, next
  <2>3. /\ \A b : b \in Blocks' <=> (b = m \/ (b \in Blocks /\ (b <= a \/ next <= b)))
        /\ ram'[a].used /\ ~ram'[m].used
        /\ \A b \in Blocks' : b \notin {a, m} => b \in Blocks /\ ram'[b].used = ram[b].used
    BY <1>0, <2>2, <1>13, Link
  <2>4. m \notin Blocks
    BY <1>0, <2>2, <1>13, LinkHeld
  <2>5. LowestFree'
    <3>1. CASE m < lfree
      <4>1. lfree' = m /\ m \in Blocks'
        BY <3>1, <2>3, <1>13
      <4>2. ASSUME NEW b \in Blocks', b < m PROVE ram'[b].used
        <5>1. b # m
          BY <4>2, <1>8
        <5>2. b \in Blocks /\ b \in Nat
          BY <5>1, <2>3, <1>2
        <5>3. b < lfree
          BY <5>2, <4>2, <3>1, <1>6, <1>8
        <5> QED BY <5>1, <5>2, <5>3, <2>3, <1>6
      <4> QED BY <4>1, <4>2, <2>3 DEF LowestFree
    <3>2. CASE ~(m < lfree)
      <4>1. lfree' = lfree /\ lfree # m /\ lfree < m
        BY <3>2, <2>4, <1>6, <1>8, <1>13
      <4>2. lfree <= a /\ lfree # a
        <5>1. lfree <= a \/ next <= lfree
          BY <1>5, <1>6
        <5>2. lfree # a
          BY <1>4, <1>6
        <5> QED BY <5>1, <5>2, <4>1, <2>1, <1>5, <1>6, <1>8
      <4>3. lfree \in Blocks' /\ ram'[lfree].used = ram[lfree].used
        BY <4>1, <4>2, <2>3, <1>6
      <4>4. ASSUME NEW b \in Blocks', b < lfree PROVE ram'[b].used
        <5>1. b # m
          BY <4>1, <4>4, <1>6, <1>8
        <5> QED BY <5>1, <4>4, <2>3, <1>6
      <4> QED BY <4>1, <4>3, <4>4, <1>6 DEF LowestFree
    <3> QED BY <3>1, <3>2
  <2> QED BY <2>2, <2>5, <1>11, <1>13
<1>14. CASE size <= Room(a) /\ UNCHANGED <<ram, lfree>>
  <2>1. Blocks' = Blocks /\ ram' = ram /\ lfree' = lfree
    BY <1>14 DEF Blocks
  <2>2. TypeOK'
    BY <2>1, <1>0, <1>7 DEF TypeOK
  <2>3. Chain' /\ NoAdjacentFree' /\ LowestFree'
    BY <2>1, <1>0 DEF Chain, NoAdjacentFree, LowestFree
  <2>4. a + H + n <= ram[a].next
    BY <1>1, <1>5, <1>9, <1>14, Sizes DEF next
  <2>5. HeldFits'
    <3>1. ASSUME NEW b \in DOMAIN held PROVE b + H + held'[b] <= ram[b].next
      <4>1. CASE b = a
        BY <4>1, <2>4, <1>7
      <4>2. CASE b # a
        BY <4>2, <1>3, <1>7
      <4> QED BY <4>1, <4>2
    <3> QED BY <3>1, <2>1, <1>7 DEF HeldFits
  <2> QED BY <2>2, <2>3, <2>5 DEF IInv
<1> QED BY <1>10, <1>12, <1>13, <1>14

-----------------------------------------------------------------------------
(* The list of the heap is well formed after any sequence of calls.        *)
THEOREM Invariant == Spec => []IInv
<1>1. ASSUME IInv, [Next]_vars PROVE IInv'
  <2>1. CASE UNCHANGED vars
    BY <1>1, <2>1 DEF vars, IInv, TypeOK, Chain, NoAdjacentFree, LowestFree, HeldFits, Blocks
  <2> QED BY <1>1, <2>1, MallocStep, FreeStep, TrimStep DEF Next
<1> QED BY InitInv, <1>1, PTL DEF Spec

(* Structs and lfree stay inside the heap and held areas keep their sizes. *)
THEOREM TypeCorrect == Spec => []TypeOK
<1>1. IInv => TypeOK
  BY DEF IInv
<1> QED BY Invariant, <1>1, PTL

(* No two callers of mem_malloc ever share a byte.                         *)
THEOREM Disjoint == Spec => []AreasKept
<1>1. ASSUME IInv PROVE AreasKept
  <2>0. TypeOK /\ Chain /\ HeldFits
    BY <1>1 DEF IInv
  <2>1. \A b \in DOMAIN held : /\ b \in Blocks /\ b # MEM_SIZE /\ ram[b].used /\ held[b] \in Nat
                               /\ b + H + held[b] <= ram[b].next
    BY <2>0 DEF TypeOK, HeldFits
  <2>2. /\ \A b \in Blocks : b \in Nat /\ ram[b].next \in Blocks
        /\ \A b \in Blocks : b # MEM_SIZE => \A c \in Blocks : c <= b \/ ram[b].next <= c
    BY <2>0, Fields
  <2>3. ASSUME NEW a \in DOMAIN held, NEW b \in DOMAIN held, a < b
        PROVE  a + H + held[a] <= b
    <3>1. /\ a \in Nat /\ b \in Nat /\ ram[a].next \in Nat /\ held[a] \in Nat
          /\ (b <= a \/ ram[a].next <= b) /\ a + H + held[a] <= ram[a].next
      BY <2>1, <2>2
    <3> QED BY <3>1, <2>3, Sizes
  <2> QED BY <2>1, <2>3 DEF AreasKept, H
<1> QED BY Invariant, <1>1, PTL

(* Free blocks are always merged.                                          *)
THEOREM Merged == Spec => []NoAdjacentFree
<1>1. IInv => NoAdjacentFree
  BY DEF IInv
<1> QED BY Invariant, <1>1, PTL

(* mem_malloc never starts its search above a free block.                  *)
THEOREM SearchComplete == Spec => []LowestFree
<1>1. IInv => LowestFree
  BY DEF IInv
<1> QED BY Invariant, <1>1, PTL

(* When everything has been given back, the heap is one free block again:  *)
(* no sequence of calls leaves it in pieces or loses a part of it.         *)
Whole == DOMAIN held = {} => Blocks = {0, MEM_SIZE} /\ ~ram[0].used

(* mem_malloc, mem_free and mem_trim never lose a part of the heap.        *)
THEOREM NothingLeaks == Spec => []Whole
<1>1. ASSUME IInv, DOMAIN held = {}
      PROVE  Blocks = {0, MEM_SIZE} /\ ~ram[0].used
  <2>0. TypeOK /\ Chain /\ NoAdjacentFree
    BY <1>1 DEF IInv
  <2>1. /\ 0 \in Blocks /\ MEM_SIZE \in Blocks
        /\ \A b \in Blocks : b \in Nat /\ b <= MEM_SIZE /\ ram[b].next \in Blocks
        /\ \A b \in Blocks : b # MEM_SIZE => \A c \in Blocks : c <= b \/ ram[b].next <= c
    BY <2>0, Fields
  <2>2. \A b \in Blocks : b # MEM_SIZE => ~ram[b].used
    BY <2>0, <1>1 DEF TypeOK
  <2>3. 0 # MEM_SIZE
    BY Sizes
  <2>4. ram[0].next = MEM_SIZE
    BY <2>0, <2>1, <2>2, <2>3 DEF NoAdjacentFree
  <2>5. ASSUME NEW b \in Blocks PROVE b = 0 \/ b = MEM_SIZE
    <3>1. b \in Nat /\ b <= MEM_SIZE /\ (b <= 0 \/ MEM_SIZE <= b)
      BY <2>1, <2>3, <2>4
    <3> QED BY <3>1, Sizes
  <2> QED BY <2>1, <2>2, <2>3, <2>5
<1>2. IInv => Whole
  BY <1>1 DEF Whole
<1> QED BY Invariant, <1>2, PTL

=============================================================================
