SPECIFICATION BitmapSpec
CONSTANT
  Degrees = {0, 1, 31, 32, 33}
INVARIANT
  MaskIsExact
