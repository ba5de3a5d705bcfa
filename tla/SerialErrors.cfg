\* What damaged frames leave wrong: slots leak until get_free_fb() has none,
\* memory is handed back while its picture is live, or twice, and a frame is
\* decoded from a slot that holds none.  TLC stops at the first; each is violated
\* when it is the only one named.
CONSTANTS
  REF_FRAMES = 2
  FRAME_BUFFERS = 4
  Memory = {m0, m1, m2, m3}
  NoMemory = NoMemory
  FailPhases = {"header", "allocated"}
SPECIFICATION Spec
SYMMETRY MemorySymmetry
INVARIANTS FrameBufferAvailable ReleasedUnreferenced ReleasedOnce ReferencesPresent
CHECK_DEADLOCK FALSE
