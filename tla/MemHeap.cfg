SPECIFICATION Spec
CONSTANTS
  MEM_SIZE = 24
  SIZEOF_STRUCT_MEM = 2
  MIN_SIZE = 2
  MEM_ALIGNMENT = 2
  MemSizeRange = 64
  Requests = {0, 1, 3, 4, 5, 8, 25}
INVARIANTS AreasKept NoAdjacentFree LowestFree
