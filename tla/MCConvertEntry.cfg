CONSTANTS
  NormalNames <- MCNormalNames
  ByteOf <- MCByteOf
  MaxDepth <- MCMaxDepth
  Archives <- PassArchives
  ArgLists <- PassArgLists

SPECIFICATION Spec

INVARIANTS
  ConvertNoAbortOnEntryError

\* A command ends: the states "done" and "failed" have no successor.
CHECK_DEADLOCK FALSE
