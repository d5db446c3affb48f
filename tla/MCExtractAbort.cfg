CONSTANTS
  NormalNames <- MCNormalNames
  ByteOf <- MCByteOf
  MaxDepth <- MCMaxDepth
  Archives <- AbortArchives
  Trees <- AbortTrees
  Filters <- AbortFilters

SPECIFICATION Spec

INVARIANT NoAbortOnEntryError

\* A command ends: the states "done" and "failed" have no successor.
CHECK_DEADLOCK FALSE
