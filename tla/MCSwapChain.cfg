SPECIFICATION Spec
CONSTANTS
  Deal <- D
  Payment <- P
  Header <- H
  Anchor <- A
  Prev <- MCPrev
  HeightOf <- MCHeight
  WorkOf <- MCHeight
  Sound <- H
  Kind <- MCKind
  Expiry <- MCExpiry
  Timeout <- MCTimeout
  Required <- MCRequired
  Settles <- MCSettles
  MinedIn <- MCMinedIn
  Block <- MCBlock
  Chunks <- MCChunks
  MaxHeight = 5
  MaxDepth = 3
  MaxFailures = 2
INVARIANTS
  TypeOK
  OneSettlement
  StateIsReplay
PROPERTY
  RollbackRestores
