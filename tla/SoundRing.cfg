SPECIFICATION RingSpec
CONSTANTS
  NBUFFERS = 3
  sound_frame_size = 2
  Jitter = 1
  MaxPending = 3
  Vsync = {FALSE, TRUE}
INVARIANTS InOrder
CHECK_DEADLOCK FALSE
