CONSTANTS
  NormalNames <- MCNormalNames
  ByteOf <- MCByteOf
  MaxDepth <- MCMaxDepth
  Archives <- PassArchives
  Verbosities <- PassVerbosities

SPECIFICATION Spec

INVARIANTS
  ListOutputOnSuccess

\* A command ends: the states "done" and "failed" have no successor.
CHECK_DEADLOCK FALSE
