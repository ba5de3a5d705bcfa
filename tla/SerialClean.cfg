\* Streams without damage: every property of the decoder.
CONSTANTS
  REF_FRAMES = 3
  FRAME_BUFFERS = 4
  Memory = {m0, m1, m2, m3}
  NoMemory = NoMemory
  FailPhases = {}
SPECIFICATION Spec
SYMMETRY MemorySymmetry
INVARIANTS TypeOK FrameBufferAvailable MemoryAvailable RefCountsExact MemoryExact ImageIntact ReleasedOnce
