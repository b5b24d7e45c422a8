CONSTANTS
  Handles = {h1, h2, h3, h4}
  Replacement = tmp
  Blocks = {b1, b2, b3}
  Null = Null
SPECIFICATION Spec
INVARIANTS TypeOK UniqueBitExact ReleasedWithLastOwner OwnersOnOneList
PROPERTIES ImplementsSharedBlocks
