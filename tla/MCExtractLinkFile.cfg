CONSTANTS
  NormalNames <- MCNormalNames
  ByteOf <- MCByteOf
  MaxDepth <- MCMaxDepth
  Archives <- LinkFileArchives
  Trees <- LinkFileTrees
  Filters <- LinkFileFilters

SPECIFICATION Spec

INVARIANT NoFileOutsideRoot

\* A command ends: the states "done" and "failed" have no successor.
CHECK_DEADLOCK FALSE
