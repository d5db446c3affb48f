CONSTANTS
  NormalNames <- MCNormalNames
  ByteOf <- MCByteOf
  MaxDepth <- MCMaxDepth
  Archives <- PassArchives
  Trees <- PassTrees
  Filters <- PassFilters

SPECIFICATION Spec

INVARIANTS
  TypeOK
  NoFileOutsideRoot
  WrittenOnlyAtSelectedDest
  ExtractComplete

PROPERTIES
  ExtractImplementsPromise

\* A command ends: the states "done" and "failed" have no successor.
CHECK_DEADLOCK FALSE
