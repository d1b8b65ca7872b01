SPECIFICATION Spec
CONSTANTS
  MaxHunks = 2
  MaxHunkSize = 2
  MaxBlockSize = 3
  MaxBlocks = 5
  MaxRelocs = 2
  Null = Null
INVARIANTS
  TypeOK
  ImageRight
  EntryIsCode
  HandlerInForce
