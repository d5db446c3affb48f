CONSTANTS
  NormalNames <- MCNormalNames
  ByteOf <- MCByteOf
  MaxDepth <- MCMaxDepth
  Archives <- PassArchives

SPECIFICATION Spec

INVARIANTS
  TarOutputOnSuccess

\* A command ends: the states "done" and "failed" have no successor.
CHECK_DEADLOCK FALSE
