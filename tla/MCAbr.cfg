SPECIFICATION AbrSpec
CONSTANTS
  Key = {1, 2, 3, 4}
  Id = {i1, i2}
  Date = {0}
  Block = {b1, b2, b3, b4, b5}
  NULL = null
SYMMETRY Blocks
INVARIANT Ordered
PROPERTIES ActsAsTable PointersStable
