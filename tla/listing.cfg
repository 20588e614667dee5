CONSTANTS
  Rows = {r1, r2, r3, r4}
  Limits <- MCLimits
  DefaultPage = 1
  MaxPage = 2
SYMMETRY RowSymmetry
SPECIFICATION ListingSpec
INVARIANTS ListingTypeOK WalkMissesNothing TotalIsReached WalkInv
