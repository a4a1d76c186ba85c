\* All libraries, two connections of two frames, shorter and longer than a chunk.
SPECIFICATION FairSpec
CONSTANTS
  Libraries = {"cpp", "cs", "ws", "gml"}
  Sizes = {1, 3}
  Chunk = 2
  Threshold = 2
  MaxMessage = 3
  MaxEpochs = 2
  MaxFrames = 2
CHECK_DEADLOCK FALSE
INVARIANTS
  TypeOK
  StreamIntact
  ViewCurrent
PROPERTIES
  FramesDispatched
  LossNoticed
