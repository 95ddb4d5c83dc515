CONSTANTS
  PointerSize = 3
  Lengths <- UpToEight
SPECIFICATION Spec
INVARIANT AllBytesSent
