\* One pipeline: it ends, and what was written is read.
SPECIFICATION FairSpec
CHECK_DEADLOCK FALSE
CONSTANTS
  j1 = j1  j2 = j2  b1 = b1  b2 = b2
  Job = {j1}
  Byte = {b1, b2}
  Capacity = 2
  MaxOut = 3
  Faults = {"ctrlc", "deaf"}
PROPERTIES PipesAreChannels PromptReturns PipeDrained
