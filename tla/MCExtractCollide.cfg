CONSTANTS
  NormalNames <- MCNormalNames
  ByteOf <- MCByteOf
  MaxDepth <- MCMaxDepth
  Archives <- CollideArchives
  Trees <- CollideTrees
  Filters <- CollideFilters

SPECIFICATION Spec

INVARIANT OneEntryPerFile

\* A command ends: the states "done" and "failed" have no successor.
CHECK_DEADLOCK FALSE
