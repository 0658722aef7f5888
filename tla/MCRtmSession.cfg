\* Two frames of each form of length, after an HTTP answer whose first chunk
\* ends within the empty line, or before it.
CONSTANTS
  Sizes = {125, 126, 257, 65536}
  Heads = {257, 300}
  MaxFrames = 2
SPECIFICATION FairSpec
INVARIANTS
  FramesAsSent
  HandshakeDecided
PROPERTIES
  AllRead
CHECK_DEADLOCK FALSE
