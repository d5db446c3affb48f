CONSTANTS
  NormalNames <- MCNormalNames
  ByteOf <- MCByteOf
  MaxDepth <- MCMaxDepth
  Archives <- LinkDirArchives
  Trees <- LinkDirTrees
  Filters <- LinkDirFilters

SPECIFICATION Spec

INVARIANT NoDirOutsideRoot

\* A command ends: the states "done" and "failed" have no successor.
CHECK_DEADLOCK FALSE
