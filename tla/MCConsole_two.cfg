CONSTANTS
  Writer = {w1, w2}
  Char = {"a", "nl"}
  Color = {"white"}
  Messages <- Short
  MIN_LEVEL = 1
  Cols = 2
  Rows = 2
  NL = "nl"
  Blank = "blank"
  MaxSent = 8
SPECIFICATION Spec
INVARIANT
  DrawsInside
CHECK_DEADLOCK FALSE
