SPECIFICATION Spec
CONSTANTS
  Surfaces = {s1, s2}
  None = None
  Slots = {f1, f2}
  Buttons = {"left", "right"}
  Left = "left"
  Keys = {"unknown1", "unknown2"}
  Code <- MCCode
  MaxLost = 1
SYMMETRY Symmetry
INVARIANTS TypeOK TouchHonest ButtonsHonest KeysHonest
PROPERTIES TouchReaches DragStays
