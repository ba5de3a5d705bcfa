\* Frames damaged anywhere, until memory runs out.  The decoder stops when
\* get_free_fb() finds no slot, so deadlock is expected.
CONSTANTS
  REF_FRAMES = 2
  FRAME_BUFFERS = 4
  Memory = {m0, m1, m2}
  NoMemory = NoMemory
  FailPhases = {"header", "allocated", "mapped"}
SPECIFICATION Spec
SYMMETRY MemorySymmetry
INVARIANTS RefCountsExact MemoryExact ImageIntact ReferencesIntact
CHECK_DEADLOCK FALSE
