CONSTANTS
  NormalNames <- MCNormalNames
  ByteOf <- MCByteOf
  MaxDepth <- MCMaxDepth
  Archives <- PassArchives
  Requests <- PassRequests

SPECIFICATION Spec

INVARIANTS
  CatOutputOnSuccess

PROPERTIES
  CatImplementsStream

\* A command ends: the states "done" and "failed" have no successor.
CHECK_DEADLOCK FALSE
