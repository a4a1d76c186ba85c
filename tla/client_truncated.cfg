\* A frame of full length: its message is longer than the bridge hands over.
SPECIFICATION Spec
CONSTANTS
  Libraries = {"ws"}
  Sizes = {1, 4}
  Chunk = 2
  Threshold = 2
  MaxMessage = 3
  MaxEpochs = 1
  MaxFrames = 2
CHECK_DEADLOCK FALSE
INVARIANTS
  SameFraming
