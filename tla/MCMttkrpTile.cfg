\* Tiles of four lanes, three rows of which two share a stash line, two tiles.
SPECIFICATION Spec
CONSTANTS
  TILE_SIZE = 4
  STASH_SIZE = 2
  ThreadCf = 2
  NumRows = 3
  MaxElements = 6
  INVALID_ID = INVALID_ID
  Undef = Undef
INVARIANTS TileIsGrouped NothingIsLost
PROPERTIES Ends
