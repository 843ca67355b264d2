SPECIFICATION KitSpec
CONSTANTS
  KitTile = 2
  NTiles = {4, 8, 16}
  CTile = 2
  IntMax = 127
  KitShapes <- MCKitShapes
  Ms = {1, 2}
INVARIANT
  SwapNamed
CHECK_DEADLOCK FALSE
