------------------------------ MODULE MemHeap ------------------------------
(***************************************************************************)
(* The heap of the stack (mem.c), from which every PBUF_RAM packet and the *)
(* state of every upgrade is taken: a list of structs laid over one array, *)
(* first fit from the lowest free block.                                   *)
(*                                                                         *)
(* ram maps the offset of every linked struct to its fields, that of the   *)
(* end marker included.  A struct that is unlinked is never read again and *)
(* leaves the domain.  held is what the callers own: the bytes promised to *)
(* each of them.  Callers free and trim what they own, and trim only to    *)
(* shrink (pbuf_realloc).                                                  *)
(***************************************************************************)
EXTENDS Integers

CONSTANTS
  MEM_SIZE,            \* MEM_SIZE_ALIGNED, the offset of ram_end
  SIZEOF_STRUCT_MEM,
  MIN_SIZE,            \* MIN_SIZE_ALIGNED, the least data space of a block
  MEM_ALIGNMENT,
  MemSizeRange,        \* the values of mem_size_t (2^16)
  Requests             \* sizes that callers ask for

ASSUME MemHeapAssumption ==
  /\ {MEM_SIZE, SIZEOF_STRUCT_MEM, MIN_SIZE, MEM_ALIGNMENT, MemSizeRange} \subseteq Nat \ {0}
  /\ SIZEOF_STRUCT_MEM + MIN_SIZE <= MEM_SIZE /\ MEM_SIZE < MemSizeRange
  /\ Requests \subseteq Nat
  /\ \A n \in Requests : n + MEM_ALIGNMENT - 1 < MemSizeRange

VARIABLES ram, lfree, held

vars == <<ram, lfree, held>>

Blocks == DOMAIN ram

Struct(next, prev, used) == [next |-> next, prev |-> prev, used |-> used]

(* mem_init                                                                *)
Init ==
  /\ ram = [a \in {0, MEM_SIZE} |->
              IF a = 0 THEN Struct(MEM_SIZE, 0, FALSE)
              ELSE Struct(MEM_SIZE, MEM_SIZE, TRUE)]
  /\ lfree = 0
  /\ held = [a \in {} |-> 0]

-----------------------------------------------------------------------------
(* LWIP_MEM_ALIGN_SIZE, kept in a mem_size_t.                              *)
AlignSize(n) ==
  LET m == n + MEM_ALIGNMENT - 1 IN (m - (m % MEM_ALIGNMENT)) % MemSizeRange

(* The size of the block for a request.                                    *)
SizeOf(n) == IF AlignSize(n) < MIN_SIZE THEN MIN_SIZE ELSE AlignSize(n)

(* The data space of a block.                                              *)
Room(a) == ram[a].next - (a + SIZEOF_STRUCT_MEM)

(* Mutant: the header is counted as data space.                            *)
FitsNoHeader(a, size) == ~ram[a].used /\ ram[a].next - a >= size

Fits(a, size) == ~ram[a].used /\ Room(a) >= size

(* The block at which the scan from lfree ends with success.               *)
FirstFit(a, size) ==
  /\ lfree <= a /\ a < MEM_SIZE - size /\ Fits(a, size)
  /\ \A b \in Blocks : lfree <= b /\ b < a => ~Fits(b, size)

(* The list with a, now used, and behind it a free struct at offset m in   *)
(* place of those up to the next one, last.                                *)
LinkedAfter(a, m, last) ==
  [b \in {c \in Blocks : c <= a \/ last <= c} \cup {m} |->
    IF b = a THEN Struct(m, ram[a].prev, TRUE)
    ELSE IF b = m THEN Struct(last, a, FALSE)
    ELSE IF b = last /\ last # MEM_SIZE THEN Struct(ram[b].next, m, ram[b].used)
    ELSE ram[b]]

(* The block is split when what is left over holds a struct and data.      *)
Taken(a, size) ==
  IF Room(a) >= size + SIZEOF_STRUCT_MEM + MIN_SIZE
  THEN LinkedAfter(a, a + SIZEOF_STRUCT_MEM + size, ram[a].next)
  ELSE [ram EXCEPT ![a].used = TRUE]

(* c is the first free struct of list r from lfree on, or the end.         *)
LowestFrom(r, c) ==
  /\ lfree <= c /\ (c = MEM_SIZE \/ ~r[c].used)
  /\ \A b \in DOMAIN r : lfree <= b /\ b < c => r[b].used

Promised(a, n) == [b \in DOMAIN held \cup {a} |-> IF b = a THEN n ELSE held[b]]

(* mem_malloc, with success, or without: nothing is changed.               *)
mem_malloc(n) ==
  \/ /\ n # 0 /\ SizeOf(n) <= MEM_SIZE
     /\ \E a \in Blocks :
          /\ FirstFit(a, SizeOf(n))
          /\ ram' = Taken(a, SizeOf(n))
          /\ \/ a # lfree /\ lfree' = lfree
             \/ a = lfree /\ \E c \in DOMAIN ram' : LowestFrom(ram', c) /\ lfree' = c
          /\ held' = Promised(a, n)
  \/ /\ n = 0 \/ SizeOf(n) > MEM_SIZE \/ \A a \in Blocks : ~FirstFit(a, SizeOf(n))
     /\ UNCHANGED vars

-----------------------------------------------------------------------------
(* Mutant: a struct in front of the end marker is not merged backward.     *)
PlugsBackNotLast(a) ==
  ram[a].prev # a /\ ~ram[ram[a].prev].used /\ ram[a].next # MEM_SIZE

(* plug_holes merges the freed block with the one before and after it.     *)
PlugsBack(a) == ram[a].prev # a /\ ~ram[ram[a].prev].used
PlugsOn(a)   == ~ram[ram[a].next].used /\ ram[a].next # MEM_SIZE

First(a) == IF PlugsBack(a) THEN ram[a].prev ELSE a
Last(a)  == IF PlugsOn(a) THEN ram[ram[a].next].next ELSE ram[a].next

Plugged(a) ==
  [b \in {c \in Blocks : c <= First(a) \/ Last(a) <= c} |->
    IF b = First(a) THEN Struct(Last(a), ram[b].prev, FALSE)
    ELSE IF b = Last(a) /\ (PlugsOn(a) \/ PlugsBack(a))
    THEN Struct(ram[b].next, First(a), ram[b].used)
    ELSE ram[b]]

(* Mutant: a freed block below the lowest free one is not noticed.         *)
LowestFreedStays(a) == lfree

(* The lowest free block when a is freed, and after it has been merged     *)
(* with the next block and then with the one before.                       *)
LowestFreed(a) == IF a < lfree THEN a ELSE lfree
LowestOn(a) ==
  IF PlugsOn(a) /\ LowestFreed(a) = ram[a].next THEN a ELSE LowestFreed(a)
LowestBack(a) == IF PlugsBack(a) /\ LowestOn(a) = a THEN First(a) ELSE LowestOn(a)

mem_free(a) ==
  /\ ram' = Plugged(a)
  /\ lfree' = LowestBack(a)
  /\ held' = [b \in DOMAIN held \ {a} |-> held[b]]

-----------------------------------------------------------------------------
(* mem_trim moves the free struct behind the block, or makes one when      *)
(* there is room for it, or leaves the block as it is.                     *)
mem_trim(a, n) ==
  LET new == SizeOf(n)
      m == a + SIZEOF_STRUCT_MEM + new
      next == ram[a].next
  IN  /\ new <= Room(a)
      /\ \/ /\ new < Room(a) /\ ~ram[next].used
            /\ ram' = LinkedAfter(a, m, ram[next].next)
            /\ lfree' = IF lfree = next THEN m ELSE lfree
         \/ /\ ram[next].used /\ new + SIZEOF_STRUCT_MEM + MIN_SIZE <= Room(a)
            /\ ram' = LinkedAfter(a, m, next)
            /\ lfree' = IF m < lfree THEN m ELSE lfree
         \/ /\ \/ new = Room(a)
               \/ ram[next].used /\ new + SIZEOF_STRUCT_MEM + MIN_SIZE > Room(a)
            /\ UNCHANGED <<ram, lfree>>
      /\ held' = [held EXCEPT ![a] = n]

Next ==
  \/ \E n \in Requests : mem_malloc(n)
  \/ \E a \in DOMAIN held :
       mem_free(a) \/ \E n \in Requests : 0 < n /\ n <= held[a] /\ mem_trim(a, n)

Spec == Init /\ [][Next]_vars

-----------------------------------------------------------------------------
(* The list of mem.c runs from the struct at 0 to ram_end, its fields are  *)
(* offsets of structs, and the used blocks are the ones callers own.       *)
TypeOK ==
  /\ Blocks \subseteq 0 .. MEM_SIZE /\ {0, MEM_SIZE} \subseteq Blocks
  /\ ram \in [Blocks -> [next : Blocks, prev : Nat, used : BOOLEAN]]
  /\ lfree \in Blocks
  /\ held \in [{a \in Blocks \ {MEM_SIZE} : ram[a].used} -> Nat]

(* What mem_malloc has given to a caller lies inside one used block behind *)
(* its struct, and in front of whatever any other caller was given, after  *)
(* any sequence of calls.                                                  *)
AreasKept ==
  \A a \in DOMAIN held :
    /\ a \in Blocks /\ ram[a].used
    /\ a + SIZEOF_STRUCT_MEM + held[a] <= ram[a].next
    /\ \A b \in DOMAIN held : a < b => a + SIZEOF_STRUCT_MEM + held[a] <= b

(* "There should not exist one empty struct mem pointing to another empty  *)
(* struct mem": freed space is always merged, so that it can be used again.*)
NoAdjacentFree ==
  \A a \in Blocks \ {MEM_SIZE} : ~ram[a].used => ram[ram[a].next].used

(* lfree is the lowest free block: the scan of mem_malloc, which starts    *)
(* there, misses no block that would fit.                                  *)
LowestFree ==
  /\ lfree \in Blocks /\ (lfree = MEM_SIZE \/ ~ram[lfree].used)
  /\ \A a \in Blocks : a < lfree => ram[a].used

=============================================================================
