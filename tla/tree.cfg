SPECIFICATION Spec
CONSTANTS
  Size = 10
  Gaps = 2
  Nodes <- Heap
  Pairs <- Entries
  nil = nil
  unset = unset
  CountSize = 65536
INVARIANTS WellLinked SearchOrder RedBlack ListFits
PROPERTIES FixupClimbs ImplementsMap
CONSTRAINT FewGaps
VIEW ByKey
