SPECIFICATION Spec
CONSTANTS
  Sizes = {2, 3}
  NewHeight = 2
  PtyHeight = 4
  Themes <- MCThemes
  Racing = FALSE
INVARIANTS
  ScreenRight
  KeyboardRight
PROPERTIES
  ModifiersTold
  SelectionHolds
  DragGoesOneWay
  SizeAgrees
CHECK_DEADLOCK FALSE
