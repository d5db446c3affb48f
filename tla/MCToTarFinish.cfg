CONSTANTS
  NormalNames <- MCNormalNames
  ByteOf <- MCByteOf
  MaxDepth <- MCMaxDepth
  Archives <- FinishArchives

SPECIFICATION Spec

INVARIANTS
  TarFinishedOnSuccess

\* A command ends: the states "done" and "failed" have no successor.
CHECK_DEADLOCK FALSE
