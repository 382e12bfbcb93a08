CONSTANTS
  Writer = {w}
  Char = {"a", "b", "c", "d", "nl"}
  Color = {"white", "yellow", "gray"}
  Messages <- Texts
  MIN_LEVEL = 1
  Cols = 2
  Rows = 2
  NL = "nl"
  Blank = "blank"
  MaxSent = 12
SPECIFICATION Spec
INVARIANTS
  DrawsInside
  ScreenShowsTail
CHECK_DEADLOCK FALSE
